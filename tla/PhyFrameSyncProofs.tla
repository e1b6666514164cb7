-------------------------- MODULE PhyFrameSyncProofs --------------------------
(***************************************************************************)
(* Proofs about PhyFrameSync for every number of subcarriers, timeout,     *)
(* payload length and frame period that satisfy the assumptions of that    *)
(* module, and so for the 1024, 1920, 20480 and 22850 of the code.         *)
(***************************************************************************)
EXTENDS PhyFrameSync, TLAPS

(* What the timers are worth in each state.                                *)
TimerInState ==
  /\ m_frameSyncState \in {"DETECT_STS", "SYNC_STS"} => m_timer < M4
  /\ m_frameSyncState = "STS_0" => m_timer >= M
  /\ m_frameSyncState = "STS_1" => m_timer < M2
  /\ m_frameSyncState = "LTS" => m_timer <= M4
  /\ m_frameSyncState # "RXSYMBOLS" => m_wait = 0

(* In a search the timer is the remainder of the count by M/4: that is why *)
(* a hit, which needs a full timer, cannot coincide with the timeout.      *)
SearchAligned ==
  m_frameSyncState = "SYNC_STS" =>
    \E q \in 0..Timeout : m_sync_STS_count = q * M4 + m_timer

(* The type invariant, apart from its two flags.                           *)
Flags == m_STS_detect_hit_upper_tresh \in BOOLEAN /\ m_freeze \in BOOLEAN
Numbers == /\ m_frameSyncState \in State
           /\ m_timer \in 0 .. (M + M2)
           /\ m_sync_STS_count \in 0 .. Timeout
           /\ m_wait \in 0 .. (Wait + 1)
           /\ nco \in Int
           /\ age \in Nat
           /\ found \in State
           /\ verdict \in {"none", "accepted"}

Counters == Numbers /\ TimerInState /\ FrameClock
IInv == Counters /\ Flags /\ SearchAligned /\ AcceptedIsKept

(* M/2 and M/4 are whole and even numbers of samples.                      *)
LEMMA HalfQuarter == M4 \div 2 \in Nat /\ M4 = 2 * (M4 \div 2)
BY SubcarrierAssumption DEF M4

(* M/4 and M/2 are whole, and the counters are wide enough for 2 M.        *)
LEMMA Quarters == /\ M4 \in Nat /\ M4 >= 2
                  /\ M2 = 2 * M4 /\ M = 4 * M4
                  /\ UIntMax \in Nat /\ UIntMax >= 2 * M
                  /\ Timeout \in Nat /\ Wait \in Nat /\ Period \in Nat
BY SubcarrierAssumption, CounterAssumption DEF M2, M4

(* A remainder is in range.                                                *)
LEMMA Remainder == ASSUME NEW x \in Nat, NEW y \in Nat, y > 0
                   PROVE  x % y \in 0..(y - 1)
OBVIOUS

(* A multiple and the next one.                                            *)
LEMMA OneMore == ASSUME NEW q \in Nat, NEW m \in Nat, m > 0
                 PROVE  /\ (q + 1) * m = q * m + m
                        /\ q * m \in Nat /\ q <= q * m
OBVIOUS

(* The receiver starts in the inductive invariant.                         *)
LEMMA Initially == Init => IInv
<1> SUFFICES ASSUME Init PROVE IInv
  OBVIOUS
<1> USE Quarters DEF Init
<1>1. Counters
  BY DEF Counters, Numbers, TimerInState, FrameClock, State
<1>2. Flags /\ SearchAligned /\ AcceptedIsKept
  BY DEF Flags, SearchAligned, AcceptedIsKept
<1>3. QED
  BY <1>1, <1>2 DEF IInv

USE Quarters DEF Evaluates, Observe, control

(* The samples taken in DETECT_STS.                                        *)
LEMMA DetectStep ==
  ASSUME Counters,
         \/ DetectWait \/ DetectLow \/ DetectHigh \/ DetectFalling
         \/ \E dt \in Dt : DetectMid(dt)
  PROVE  Counters'
<1> USE DEF Counters, Numbers, TimerInState, FrameClock, State
<1>1. CASE DetectWait
  BY <1>1 DEF DetectWait
<1>2. CASE DetectLow
  BY <1>2 DEF DetectLow
<1>3. CASE DetectHigh
  BY <1>3 DEF DetectHigh
<1>4. CASE DetectFalling
  BY <1>4 DEF DetectFalling
<1>5. ASSUME NEW dt \in Dt, DetectMid(dt) PROVE Counters'
  <2>1. UInt(M + dt) \in Nat
    BY DEF Dt, UInt
  <2>2. UInt(M + dt) % M2 \in 0..(M2 - 1)
    BY <2>1, Remainder
  <2>3. m_timer' \in M..(M + M2 - 1)
    BY <1>5, <2>2 DEF DetectMid
  <2>4. QED
    BY <1>5, <2>3 DEF DetectMid
<1>6. QED
  BY <1>1, <1>2, <1>3, <1>4, <1>5

(* A hit is never the sample on which the search times out.                *)
LEMMA HitInTime ==
  ASSUME Counters, SearchAligned, m_frameSyncState = "SYNC_STS", Evaluates
  PROVE  m_sync_STS_count + 1 <= Timeout
<1>1. PICK q \in 0..Timeout : m_sync_STS_count = q * M4 + m_timer
  BY DEF SearchAligned
<1>2. m_timer + 1 = M4 /\ m_sync_STS_count \in 0..Timeout
  BY DEF Counters, Numbers, TimerInState
<1>3. m_sync_STS_count + 1 = (q + 1) * M4
  <2>1. (q + 1) * M4 = q * M4 + M4 /\ q * M4 \in Nat
    BY OneMore
  <2>2. m_timer \in Nat
    BY DEF Counters, Numbers
  <2>3. QED
    BY <1>1, <1>2, <2>1, <2>2
<1>4. (q + 1) * M4 # Timeout + 1
  <2>1. q + 1 \in 0..(Timeout + 1)
    OBVIOUS
  <2>2. QED
    BY <2>1, TimeoutAssumption, Zenon
<1>5. QED
  BY <1>2, <1>3, <1>4

(* The samples taken in SYNC_STS.                                          *)
LEMMA SyncStep ==
  ASSUME Counters, SearchAligned, SyncWait \/ SyncLow \/ SyncHit
  PROVE  Counters'
<1> USE DEF Counters, Numbers, TimerInState, FrameClock, State, CountSync
<1>1. CASE SyncWait
  BY <1>1 DEF SyncWait
<1>2. CASE SyncLow
  BY <1>2 DEF SyncLow
<1>3. CASE SyncHit
  BY <1>3, HitInTime DEF SyncHit
<1>4. QED
  BY <1>1, <1>2, <1>3

(* The samples taken in STS_0 and STS_1.                                   *)
LEMMA SymbolStep ==
  ASSUME Counters,
         \/ STSa \/ STSbWait \/ STSbFalling
         \/ \E tau \in TauPrime : \E nu \in NuHat : STSb(tau, nu)
  PROVE  Counters'
<1> USE DEF Counters, Numbers, TimerInState, FrameClock, State
<1>1. CASE STSa
  BY <1>1 DEF STSa
<1>2. CASE STSbWait
  BY <1>2 DEF STSbWait
<1>3. CASE STSbFalling
  BY <1>3 DEF STSbFalling
<1>4. ASSUME NEW tau \in TauPrime, NEW nu \in NuHat, STSb(tau, nu)
      PROVE  Counters'
  <2>1. nu \in Int
    BY OffsetAssumption DEF NuHat
  <2>2. UInt(M4 \div 2 - tau) \in 0..M4
    BY HalfQuarter DEF TauPrime, UInt
  <2>3. QED
    BY <1>4, <2>1, <2>2 DEF STSb
<1>5. QED
  BY <1>1, <1>2, <1>3, <1>4

(* The samples taken in LTS and RXSYMBOLS.                                 *)
LEMMA PayloadStep ==
  ASSUME Counters, LTSWait \/ LTSDone \/ RxWait \/ RxDone
  PROVE  Counters'
<1> USE DEF Counters, Numbers, TimerInState, FrameClock, State, WaitOver, Opens
<1>1. CASE LTSWait
  BY <1>1 DEF LTSWait
<1>2. CASE LTSDone
  BY <1>2 DEF LTSDone
<1>3. CASE RxWait
  BY <1>3 DEF RxWait
<1>4. CASE RxDone
  BY <1>4 DEF RxDone
<1>5. QED
  BY <1>1, <1>2, <1>3, <1>4

(* The flags stay Boolean.                                                 *)
LEMMA FlagStep == Flags /\ [Next]_vars => Flags'
BY DEF Flags, Next, vars, CountSync, DetectWait, DetectLow, DetectHigh,
       DetectFalling, DetectMid, SyncWait, SyncLow, SyncHit, STSa, STSbWait,
       STSbFalling, STSb, LTSWait, LTSDone, RxWait, RxDone

(* Counting a sample of the search keeps the timer the remainder of the    *)
(* count; the search itself starts with both at zero.                      *)
LEMMA AlignStep ==
  ASSUME Counters, SearchAligned, [Next]_vars
  PROVE  SearchAligned'
<1> USE DEF SearchAligned
<1> SUFFICES ASSUME m_frameSyncState' = "SYNC_STS"
             PROVE  \E q \in 0..Timeout :
                      m_sync_STS_count' = q * M4 + m_timer'
  OBVIOUS
<1>1. CASE RxDone
  BY <1>1 DEF RxDone
<1>2. CASE SyncWait
  <2>1. PICK q \in 0..Timeout : m_sync_STS_count = q * M4 + m_timer
    BY <1>2 DEF SyncWait
  <2>2. /\ m_timer' = m_timer + 1
        /\ m_sync_STS_count' = m_sync_STS_count + 1
        /\ m_timer \in Nat
    BY <1>2 DEF SyncWait, CountSync, Counters, Numbers
  <2>3. q * M4 \in Nat
    OBVIOUS
  <2>4. QED
    BY <2>1, <2>2, <2>3
<1>3. CASE SyncLow
  <2>1. PICK q \in 0..Timeout : m_sync_STS_count = q * M4 + m_timer
    BY <1>3 DEF SyncLow
  <2>2. m_timer + 1 = M4 /\ m_timer \in Nat
    BY <1>3 DEF SyncLow, Counters, Numbers, TimerInState
  <2>3. /\ m_timer' = 0
        /\ m_sync_STS_count' = m_sync_STS_count + 1
        /\ m_sync_STS_count' \in 0..Timeout
    BY <1>3 DEF SyncLow, CountSync, Counters, Numbers
  <2>4. /\ (q + 1) * M4 = q * M4 + M4 /\ q * M4 \in Nat
        /\ q + 1 <= (q + 1) * M4
    BY OneMore
  <2>5. m_sync_STS_count' = (q + 1) * M4
    BY <2>1, <2>2, <2>3, <2>4
  <2>6. q + 1 \in 0..Timeout
    BY <2>3, <2>4, <2>5
  <2>7. m_sync_STS_count' = (q + 1) * M4 + m_timer'
    BY <2>3, <2>5
  <2>8. QED
    BY <2>6, <2>7
<1>4. CASE UNCHANGED vars
  BY <1>4 DEF vars
<1>5. QED
  BY <1>1, <1>2, <1>3, <1>4
     DEF Next, CountSync, DetectWait, DetectLow, DetectHigh, DetectFalling,
         DetectMid, SyncHit, STSa, STSbWait, STSbFalling, STSb, LTSWait,
         LTSDone, RxWait

(* An accepted STS is followed up, in DETECT_STS and in SYNC_STS.          *)
LEMMA KeptStep ==
  ASSUME Counters, SearchAligned, AcceptedIsKept, [Next]_vars
  PROVE  AcceptedIsKept'
<1> USE DEF AcceptedIsKept
<1>1. CASE SyncHit
  BY <1>1, HitInTime DEF SyncHit, CountSync, Counters, Numbers
<1>2. QED
  BY <1>1
     DEF Next, vars, DetectWait, DetectLow, DetectHigh, DetectFalling,
         DetectMid, SyncWait, SyncLow, STSa, STSbWait, STSbFalling, STSb,
         LTSWait, LTSDone, RxWait, RxDone

(* Every call of execute() keeps the inductive invariant.                  *)
LEMMA Preserved == IInv /\ [Next]_vars => IInv'
<1> SUFFICES ASSUME IInv, [Next]_vars PROVE IInv'
  OBVIOUS
<1>1. CASE UNCHANGED vars
  <2>1. Numbers' /\ TimerInState' /\ FrameClock'
    BY <1>1 DEF vars, IInv, Counters, Numbers, TimerInState, FrameClock
  <2>2. QED
    BY <1>1, <2>1, FlagStep, AlignStep, KeptStep DEF IInv, Counters
<1>2. CASE Next
  <2>1. Counters'
    BY <1>2, DetectStep, SyncStep, SymbolStep, PayloadStep DEF IInv, Next
  <2>2. QED
    BY <2>1, FlagStep, AlignStep, KeptStep DEF IInv
<1>3. QED
  BY <1>1, <1>2

(* The indices, timers and counters of the synchroniser stay in range for  *)
(* any window, period, timeout and payload that satisfy the assumptions.   *)
THEOREM TypeCorrect == Spec => []TypeOK
<1>1. IInv => TypeOK
  BY DEF IInv, Counters, Numbers, Flags, TypeOK
<1>2. QED
  BY <1>1, Initially, Preserved, PTL DEF Spec, SafeSpec

(* The two timers add up to the age of the frame in every state of the     *)
(* synchroniser, whichever correction the last STS got.                    *)
THEOREM TimersTellAge == Spec => []FrameClock
<1>1. IInv => FrameClock
  BY DEF IInv, Counters
<1>2. QED
  BY <1>1, Initially, Preserved, PTL DEF Spec, SafeSpec

(* No STS is accepted and thrown away by the timeout in the same call.     *)
THEOREM AcceptedFramesKept == Spec => []AcceptedIsKept
<1>1. IInv => AcceptedIsKept
  BY Zenon DEF IInv
<1>2. QED
  BY <1>1, Initially, Preserved, PTL DEF Spec, SafeSpec

(* One frame period after an STS was accepted the receiver searches for    *)
(* the next one, whatever correction the first one got.                    *)
THEOREM SearchIsOpen == Spec => []SearchOpenAtPeriod
<1>1. IInv => SearchOpenAtPeriod
  <2> SUFFICES ASSUME IInv, age = Period
               PROVE  m_frameSyncState = "SYNC_STS"
    BY DEF SearchOpenAtPeriod
  <2>1. QED
    BY PeriodAssumption DEF IInv, Counters, Numbers, TimerInState, FrameClock,
                            State, Opens
<1>2. QED
  BY <1>1, Initially, Preserved, PTL DEF Spec, SafeSpec
=============================================================================
