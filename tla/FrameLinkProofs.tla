--------------------------- MODULE FrameLinkProofs ---------------------------
(***************************************************************************)
(* The link with its receiver is a run of the frame synchroniser, so what  *)
(* is proved of PhyFrameSync, whose evaluations say anything, holds on the *)
(* link, whose evaluations say what the position in the frame makes them   *)
(* say.                                                                    *)
(***************************************************************************)
EXTENDS FrameLink, PhyFrameSyncProofs

(* The range of a timing estimate.                                         *)
LEMMA EstimatesInRange ==
  ASSUME NEW p, NEW fades, NEW tau \in Estimates(p, fades)
  PROVE  tau \in TauPrime /\ 2 * tau \in Dt
<1>1. tau \in TauPrime
  BY DEF Estimates
<1>2. M4 = 2 * (M4 \div 2) /\ M4 \div 2 \in Nat
  BY SubcarrierAssumption DEF M4
<1> QED BY <1>1, <1>2 DEF TauPrime, Dt

(* A sample on the link is a sample of the synchroniser.                   *)
LEMMA ExecuteIsNext == ASSUME NEW p, NEW fades, Execute(p, fades) PROVE Next
<1>1. CASE \E tau \in Estimates(p, fades) : DetectMid(2 * tau)
  BY <1>1, EstimatesInRange DEF Next
<1>2. CASE \E tau \in Estimates(p, fades) : \E nu \in NuHat : STSb(tau, nu)
  BY <1>2, EstimatesInRange DEF Next
<1> QED BY <1>1, <1>2 DEF Execute, Takes, Next

LEMMA LinkStep == [LinkNext]_allVars => [Next]_vars
BY ExecuteIsNext DEF LinkNext, SameFrame, NextFrame, Overrun, allVars

(* The link implements the synchroniser: whatever the base station, the    *)
(* fading frames and the overruns do, the receiver makes a run of          *)
(* PhyFrameSync (PhyThread::run() calls execute() for each sample).        *)
THEOREM LinkRunsSync == LinkSpec => SafeSpec
<1>1. LinkInit => Init
  BY DEF LinkInit
<1> QED BY <1>1, LinkStep, PTL DEF LinkSpec, SafeSpec

(***************************************************************************)
(* Numbers: the window of M samples and the K evaluations of a search.     *)
(***************************************************************************)
Span == K * M4     \* from the start of a search to its last evaluation

LEMMA Windows == /\ M4 \in Nat /\ M4 >= 2 /\ M2 = 2 * M4 /\ M = 4 * M4
                 /\ M4 \div 2 \in Nat /\ M4 = 2 * (M4 \div 2)
                 /\ Timeout \in Nat /\ Wait \in Nat /\ Period \in Nat
                 /\ Deviation \in 0 .. M4 \div 2 /\ Period > 3 * M /\ Wait >= 2 * M
BY Quarters, HalfQuarter, LinkAssumption

LEMMA Sizes == /\ M4 \in Nat /\ M2 \in Nat /\ M \in Nat /\ Period \in Nat
               /\ M4 >= 2 /\ M2 = M4 + M4 /\ M = M2 + M2 /\ Period > M + M + M
BY Windows

LEMMA LastOfSearch ==
  /\ K \in Nat /\ Span \in Nat /\ Span <= Timeout /\ Timeout < Span + M4
  /\ (K - 1) * M4 = Span - M4 /\ M4 * (K + 2) = Span + 2 * M4
<1>1. K \in Nat /\ K * M4 <= Timeout /\ Timeout < K * M4 + M4
  BY Windows DEF K
<1>2. /\ K * M4 \in Nat /\ (K - 1) * M4 = K * M4 - M4 /\ M4 * (K + 2) = K * M4 + 2 * M4
  BY <1>1, Windows
<1> QED BY <1>1, <1>2 DEF Span

(* A search that has counted Timeout samples has made its last evaluation. *)
LEMMA SearchIsOver ==
  ASSUME NEW q \in Nat, NEW t \in Nat, t < M4, q * M4 + t = Timeout
  PROVE  q * M4 = Span
<1>1. /\ K \in Nat /\ K * M4 \in Nat /\ K * M4 <= Timeout /\ Timeout < K * M4 + M4
      /\ M4 \in Nat /\ M4 >= 2
  BY LastOfSearch, Windows DEF Span
<1>2. CASE q < K
  <2>1. (q + 1) * M4 <= K * M4
    BY <1>1, <1>2
  <2>2. (q + 1) * M4 = q * M4 + M4
    BY <1>1
  <2> QED BY <1>1, <2>1, <2>2
<1>3. CASE q > K
  <2>1. (K + 1) * M4 <= q * M4
    BY <1>1, <1>3
  <2>2. (K + 1) * M4 = K * M4 + M4
    BY <1>1
  <2> QED BY <1>1, <2>1, <2>2
<1> QED BY <1>1, <1>2, <1>3 DEF Span

(* A multiple of M/4.                                                      *)
LEMMA Multiple ==
  ASSUME NEW x \in Int, x % M4 = 0
  PROVE  \E b \in Int : x = b * M4
<1>1. M4 \in Nat /\ M4 >= 2
  BY Windows
<1>2. x = (x \div M4) * M4 + (x % M4) /\ x \div M4 \in Int
  BY <1>1
<1>3. x = (x \div M4) * M4
  BY <1>1, <1>2
<1> QED BY <1>2, <1>3

(* The lower threshold lies in the first half of the slope.                *)
LEMMA Thresholds == slope \in Slopes => /\ slope[1] \in 1 .. M2 - 1 /\ slope[2] \in 1 .. M - M4
                                        /\ slope[1] < slope[2]
BY SlopeAssumption

(***************************************************************************)
(* The estimate in STS_1, M/2 samples behind that of STS_0.                *)
(***************************************************************************)

(* Where an STS is accepted, at p, and one sample later.                   *)
LEMMA Accepting ==
  ASSUME slope \in Slopes, NEW p \in Int, Overlap(p) > slope[1]
  PROVE  p \in 0 .. 2 * M - 2 /\ Overlap(p + 1) >= slope[1] /\ Overlap(p) \in 0 .. M
BY Thresholds, Windows DEF Overlap

(* An estimate of a window that no longer holds the STS is never followed: *)
(* the fall of the metric has been seen.                                   *)
LEMMA EstimateOnSTS ==
  ASSUME slope \in Slopes, NEW p \in Int, Overlap(p) > slope[1],
         NEW q \in Int, q = p + 1 + M2 \/ q > 2 * M,
         Overlap(q) + slope[1] > Overlap(p + 1)
  PROVE  q = p + 1 + M2 /\ Overlap(q) > slope[1]
<1>1. p \in 0 .. 2 * M - 2 /\ Overlap(p + 1) >= slope[1]
  BY Accepting
<1>2. q = p + 1 + M2
  BY <1>1, Thresholds, Windows DEF Overlap
<1>3. CASE p >= M - 1
  BY <1>1, <1>2, <1>3, Thresholds, Windows DEF Overlap
<1>4. CASE p < M - 1
  BY <1>1, <1>2, <1>4, Thresholds, Windows DEF Overlap
<1> QED BY <1>1, <1>2, <1>3, <1>4, Windows

(* The estimate tells where the STS was accepted, up to a multiple of M/4. *)
Locates(p, tau) ==
  \E a \in 0 .. 9 : \E e \in -Deviation .. Deviation : p + 2 + e - tau = M4 * a

LEMMA EstimateLocates ==
  ASSUME slope \in Slopes, NEW p \in Int, Overlap(p) > slope[1],
         NEW q \in Int, q = p + 1 + M2 \/ q > 2 * M,
         Overlap(q) + slope[1] > Overlap(p + 1), NEW tau \in Estimates(q, FALSE)
  PROVE  q = p + 1 + M2 /\ tau \in TauPrime /\ Locates(p, tau)
<1>1. p \in 0 .. 2 * M - 2 /\ q = p + 1 + M2 /\ Overlap(q) > slope[1]
  BY EstimateOnSTS, Accepting
<1>2. Level(q, FALSE) # "low" /\ tau \in TauPrime
  <2>1. tau \in TauPrime
    BY EstimatesInRange
  <2>2. Overlap(q) \in Nat
    BY <1>1, Windows DEF Overlap
  <2>3. ~(Overlap(q) <= slope[1])
    BY <1>1, <2>2, Thresholds, Windows
  <2> QED BY <2>1, <2>3 DEF Level, Metric
<1>3. PICK e \in -Deviation .. Deviation : (tau - (q + 1 + e)) % M4 = 0
  BY <1>2 DEF Estimates
<1>4. e \in Int /\ tau \in Int /\ tau - (q + 1 + e) \in Int
  BY <1>1, <1>2, <1>3, Windows DEF TauPrime
<1>5. PICK b \in Int : tau - (q + 1 + e) = b * M4
  BY <1>3, <1>4, Multiple
<1>6. p + 2 + e - tau = M4 * (-b - 2)
  <2>1. M4 * (-b - 2) = -(b * M4) - 2 * M4
    BY <1>5, Windows
  <2> QED BY <1>1, <1>4, <1>5, <2>1, Windows
<1>7. -b - 2 \in 0 .. 9
  <2>1. -M4 < p + 2 + e - tau /\ p + 2 + e - tau < 10 * M4
    BY <1>1, <1>2, <1>4, Windows DEF TauPrime
  <2>2. CASE -b - 2 < 0
    <3>1. M4 * (-b - 2) <= -M4
      BY <2>2, Windows
    <3> QED BY <1>6, <2>1, <3>1, <1>1, <1>4, Windows
  <2>3. CASE -b - 2 > 9
    <3>1. M4 * (-b - 2) >= 10 * M4
      BY <2>3, Windows
    <3> QED BY <1>6, <2>1, <3>1, <1>1, <1>4, Windows
  <2> QED BY <2>2, <2>3
<1> QED BY <1>1, <1>2, <1>6, <1>7 DEF Locates

(* The search that the estimate leads to.                                  *)
LEMMA ChanceOf ==
  ASSUME NEW p \in Int, NEW tau \in TauPrime, Locates(p, tau)
  PROVE  (p + 1 + M2 - Period) + (M4 \div 2 - tau) + Wait + 3 + Span \in LastChances(p)
<1>1. PICK a \in 0 .. 9, e \in -Deviation .. Deviation : p + 2 + e - tau = M4 * a
  BY DEF Locates
<1>2. tau \in Int /\ -(M4 \div 2) <= tau /\ tau <= M4 \div 2 /\ e \in Int
  BY <1>1, Windows DEF TauPrime
<1> DEFINE x == <<a, e>>
<1>3. /\ x \in (0 .. 9) \X (-Deviation .. Deviation) /\ x[1] = a /\ x[2] = e
  BY <1>1
<1>4. M4 * a \in Int /\ M4 * a = p + 2 + e - tau
  BY <1>1, Windows
<1>5. p + 2 + e - M4 * a = tau
  BY <1>2, <1>4
<1>6. M4 * a + (M4 * (K + 2) + 2 + Wait + M4 \div 2 - Period) - e \in LastChances(p)
  BY <1>2, <1>3, <1>5 DEF LastChances
<1>7. (p + 1 + M2 - Period) + (M4 \div 2 - tau) + Wait + 3 + Span
        = M4 * a + (M4 * (K + 2) + 2 + Wait + M4 \div 2 - Period) - e
  BY <1>2, <1>4, Windows, LastOfSearch
<1> QED BY <1>6, <1>7

LEMMA ChancesAreInt == ASSUME NEW p \in Int, NEW c \in LastChances(p) PROVE c \in Int
BY Windows, LastOfSearch DEF LastChances

(***************************************************************************)
(* The inductive invariant.  Between the estimate and the last evaluation  *)
(* of the search the receiver counts down to a place of LastChances: at a  *)
(* place "at" of the axis on which the samples of the next frame are       *)
(* counted from 0, the timers say how far it is.                           *)
(***************************************************************************)
Due(p, at) ==
  \E c \in LastChances(p) :
    \/ m_frameSyncState = "LTS" /\ at + m_timer + Wait + 3 + Span = c
    \/ m_frameSyncState = "RXSYMBOLS" /\ at + Wait + 2 - m_wait + Span = c
    \/ m_frameSyncState = "SYNC_STS" /\ at + Span - m_sync_STS_count = c

(* Overruns come behind the STS.                                           *)
LostHere == IF position <= 2 * M THEN 0 ELSE lost

Places == /\ position \in 0 .. Period - 1 /\ faded \in BOOLEAN /\ slope \in Slopes
          /\ lost \in Nat /\ faults \in 0 .. MaxFaults
          /\ caught \in {None} \cup 0 .. 2 * M - 2
          /\ caughtBefore \in {None} \cup 0 .. 2 * M - 2
          /\ m_s_hat_0 \in 0 .. M

(* A frame whose STS was accepted is followed up to its search; n samples  *)
(* have been lost since.                                                   *)
FollowedFrame(n) ==
  /\ ~faded /\ Overlap(caught) > slope[1]
  /\ age = position - caught - n
  /\ \/ m_frameSyncState = "STS_0" /\ position = caught
     \/ /\ m_frameSyncState = "STS_1"
        /\ m_s_hat_0 = Overlap(caught + 1)
        /\ position - m_timer < Period - M2
     \/ Due(caught, position - n - Period)

FollowsUp == caught # None => \E n \in Nat : n = LostHere /\ FollowedFrame(n)

(* The search of the frame after it: it has not reached the slope, or has  *)
(* accepted its STS on the first evaluation that did.                      *)
Approaches ==
  /\ caught = None
  /\ Due(caughtBefore, position - lost)
  /\ m_frameSyncState = "SYNC_STS" => position - m_timer < slope[1]
  /\ m_frameSyncState # "SYNC_STS" => position < slope[1]

Searches ==
  /\ caughtBefore # None /\ position <= 2 * M /\ ~faded
  /\ Reaches(caughtBefore, lost, slope)
  => Approaches \/ caught \in slope[1] .. slope[1] + M4 - 1

LinkInv == IInv /\ Places /\ FollowsUp /\ Searches

LEMMA SyncTypes ==
  IInv => /\ m_timer \in Nat /\ m_wait \in 0 .. Wait + 1 /\ m_sync_STS_count \in 0 .. Timeout
          /\ age \in Nat /\ m_frameSyncState \in State
          /\ m_frameSyncState \in {"DETECT_STS", "SYNC_STS", "STS_1"} => m_timer < M2
          /\ m_frameSyncState \in {"DETECT_STS", "SYNC_STS"} => m_timer < M4
          /\ m_frameSyncState = "STS_0" => m_timer >= M
          /\ m_frameSyncState = "STS_1" => age = m_timer + 1
          /\ m_frameSyncState = "SYNC_STS" => age - m_sync_STS_count >= M2 + 4 + Wait
BY Windows DEF IInv, Counters, Numbers, TimerInState, FrameClock, Opens

USE DEF Evaluates, Observe, control

(* What a sample does to the receiver in each of its states.               *)
LEMMA Samples ==
  ASSUME IInv, NEW p \in Int, NEW f \in BOOLEAN, Takes(p, f)
  PROVE  /\ m_frameSyncState = "STS_0" =>
              m_frameSyncState' = "STS_1" /\ m_timer' = 0 /\ verdict' = "none"
         /\ m_frameSyncState = "STS_1" =>
              /\ verdict' = "none"
              /\ \/ m_frameSyncState' = "STS_1" /\ m_timer + 1 < M2 /\ m_timer' = m_timer + 1
                 \/ m_frameSyncState' = "DETECT_STS" /\ m_timer + 1 = M2 /\ Metric(p, f) < m_s_hat_0
                 \/ /\ m_frameSyncState' = "LTS" /\ m_timer + 1 = M2
                    /\ Metric(p, f) + slope[1] > m_s_hat_0
                    /\ \E tau \in Estimates(p, f) : m_timer' = M4 \div 2 - tau
         /\ m_frameSyncState = "LTS" =>
              /\ verdict' = "none"
              /\ \/ m_frameSyncState' = "LTS" /\ m_timer' = m_timer - 1
                 \/ m_frameSyncState' = "RXSYMBOLS" /\ m_timer = 0 /\ m_wait' = 0
         /\ m_frameSyncState = "RXSYMBOLS" =>
              /\ verdict' = "none"
              /\ \/ m_frameSyncState' = "RXSYMBOLS" /\ m_wait' = m_wait + 1
                 \/ /\ m_frameSyncState' = "SYNC_STS" /\ m_wait = Wait + 1
                    /\ m_timer' = 0 /\ m_sync_STS_count' = 0
<1>1. m_frameSyncState = "STS_0" => m_frameSyncState' = "STS_1" /\ m_timer' = 0 /\ verdict' = "none"
  BY SyncTypes, Windows DEF Takes, DetectWait, DetectLow, DetectHigh, DetectFalling, DetectMid,
     SyncWait, SyncLow, SyncHit, STSa, STSbWait, STSbFalling, STSb, LTSWait, LTSDone, RxWait, RxDone
<1>2. m_frameSyncState = "LTS" =>
              /\ verdict' = "none"
              /\ \/ m_frameSyncState' = "LTS" /\ m_timer' = m_timer - 1
                 \/ m_frameSyncState' = "RXSYMBOLS" /\ m_timer = 0 /\ m_wait' = 0
  BY SyncTypes, Windows DEF Takes, DetectWait, DetectLow, DetectHigh, DetectFalling, DetectMid,
     SyncWait, SyncLow, SyncHit, STSa, STSbWait, STSbFalling, STSb, LTSWait, LTSDone, RxWait, RxDone,
     IInv, Counters, TimerInState
<1>3. m_frameSyncState = "RXSYMBOLS" =>
              /\ verdict' = "none"
              /\ \/ m_frameSyncState' = "RXSYMBOLS" /\ m_wait' = m_wait + 1
                 \/ /\ m_frameSyncState' = "SYNC_STS" /\ m_wait = Wait + 1
                    /\ m_timer' = 0 /\ m_sync_STS_count' = 0
  BY SyncTypes, Windows DEF Takes, DetectWait, DetectLow, DetectHigh, DetectFalling, DetectMid,
     SyncWait, SyncLow, SyncHit, STSa, STSbWait, STSbFalling, STSb, LTSWait, LTSDone, RxWait, RxDone,
     WaitOver
<1>4. ASSUME m_frameSyncState = "STS_1"
      PROVE  /\ verdict' = "none"
             /\ \/ m_frameSyncState' = "STS_1" /\ m_timer + 1 < M2 /\ m_timer' = m_timer + 1
                \/ m_frameSyncState' = "DETECT_STS" /\ m_timer + 1 = M2 /\ Metric(p, f) < m_s_hat_0
                \/ /\ m_frameSyncState' = "LTS" /\ m_timer + 1 = M2
                   /\ Metric(p, f) + slope[1] > m_s_hat_0
                   /\ \E tau \in Estimates(p, f) : m_timer' = M4 \div 2 - tau
  <2>1. \/ STSbWait
        \/ Metric(p, f) < m_s_hat_0 /\ STSbFalling
        \/ /\ Metric(p, f) + slope[1] > m_s_hat_0
           /\ \E tau \in Estimates(p, f) : \E nu \in NuHat : STSb(tau, nu)
    BY <1>4 DEF Takes, DetectWait, DetectLow, DetectHigh, DetectFalling, DetectMid,
       SyncWait, SyncLow, SyncHit, STSa, LTSWait, LTSDone, RxWait, RxDone
  <2>2. CASE STSbWait
    BY <1>4, <2>2 DEF STSbWait
  <2>3. CASE Metric(p, f) < m_s_hat_0 /\ STSbFalling
    BY <1>4, <2>3, SyncTypes, Windows DEF STSbFalling
  <2>4. ASSUME Metric(p, f) + slope[1] > m_s_hat_0, NEW tau \in Estimates(p, f), NEW nu \in NuHat,
               STSb(tau, nu)
        PROVE  /\ verdict' = "none" /\ m_frameSyncState' = "LTS" /\ m_timer + 1 = M2
               /\ m_timer' = M4 \div 2 - tau
    <3>1. tau \in TauPrime
      BY EstimatesInRange
    <3>2. UInt(M4 \div 2 - tau) = M4 \div 2 - tau
      BY <3>1, Windows DEF UInt, TauPrime
    <3> QED BY <1>4, <2>4, <3>2, SyncTypes, Windows DEF STSb
  <2> QED BY <2>1, <2>2, <2>3, <2>4
<1> QED BY <1>1, <1>2, <1>3, <1>4

(* A sample in a search, or before one.                                    *)
LEMMA SearchSamples ==
  ASSUME IInv, IInv', NEW p \in Int, NEW f \in BOOLEAN, Takes(p, f), m_frameSyncState = "SYNC_STS"
  PROVE  \/ m_sync_STS_count = Timeout /\ m_frameSyncState' = "DETECT_STS" /\ verdict' = "none"
         \/ /\ m_frameSyncState' = "SYNC_STS" /\ verdict' = "none"
            /\ m_sync_STS_count' = m_sync_STS_count + 1 /\ m_timer' = m_timer + 1
         \/ /\ m_frameSyncState' = "SYNC_STS" /\ verdict' = "none" /\ Level(p, f) = "low"
            /\ m_sync_STS_count' = m_sync_STS_count + 1 /\ m_timer + 1 = M4 /\ m_timer' = 0
         \/ /\ m_frameSyncState' = "STS_0" /\ verdict' = "accepted" /\ Level(p, f) # "low"
            /\ m_timer + 1 = M4
<1>1. SyncWait \/ (Level(p, f) = "low" /\ SyncLow) \/ (Level(p, f) # "low" /\ SyncHit)
  BY DEF Takes, DetectWait, DetectLow, DetectHigh, DetectFalling, DetectMid,
     STSa, STSbWait, STSbFalling, STSb, LTSWait, LTSDone, RxWait, RxDone
<1>2. CASE SyncWait
  BY <1>2, SyncTypes, Windows DEF SyncWait, CountSync
<1>3. CASE Level(p, f) = "low" /\ SyncLow
  BY <1>3, SyncTypes, Windows DEF SyncLow, CountSync
<1>4. CASE Level(p, f) # "low" /\ SyncHit
  <2>1. verdict' = "accepted" /\ m_frameSyncState' = "STS_0"
    BY <1>4 DEF SyncHit, IInv, AcceptedIsKept
  <2> QED BY <1>4, <2>1, SyncTypes, Windows DEF SyncHit
<1> QED BY <1>1, <1>2, <1>3, <1>4

LEMMA DetectSamples ==
  ASSUME NEW p \in Int, NEW f \in BOOLEAN, Takes(p, f), m_frameSyncState = "DETECT_STS"
  PROVE  \/ m_frameSyncState' = "DETECT_STS" /\ verdict' = "none"
         \/ m_frameSyncState' = "STS_0" /\ verdict' = "accepted" /\ Level(p, f) = "mid"
BY DEF Takes, DetectWait, DetectLow, DetectHigh, DetectFalling, DetectMid,
   SyncWait, SyncLow, SyncHit, STSa, STSbWait, STSbFalling, STSb, LTSWait, LTSDone, RxWait, RxDone

(* What is evaluated as the STS is one.                                    *)
LEMMA Levels ==
  ASSUME slope \in Slopes, NEW p \in Int, NEW f \in BOOLEAN
  PROVE  Level(p, f) # "low" <=> ~f /\ Overlap(p) > slope[1]
<1>1. Overlap(p) \in Int
  BY Windows DEF Overlap
<1> QED BY <1>1, Thresholds, Windows DEF Level, Metric

LEMMA Accepted ==
  ASSUME IInv, IInv', slope \in Slopes, NEW p \in Int, NEW f \in BOOLEAN, Takes(p, f),
         verdict' # "none"
  PROVE  /\ verdict' = "accepted" /\ m_frameSyncState' = "STS_0" /\ m_frameSyncState \in {"DETECT_STS", "SYNC_STS"}
         /\ ~f /\ Overlap(p) > slope[1]
<1>1. m_frameSyncState \in State
  BY SyncTypes
<1>2. m_frameSyncState \in {"DETECT_STS", "SYNC_STS"}
  BY <1>1, Samples DEF State
<1>3. verdict' = "accepted" /\ m_frameSyncState' = "STS_0" /\ Level(p, f) # "low"
  BY <1>2, SearchSamples, DetectSamples
<1> QED BY <1>2, <1>3, Levels

LEMMA Ages ==
  ASSUME NEW p, NEW f, Takes(p, f)
  PROVE  age' = IF m_frameSyncState' \in {"DETECT_STS", "STS_0"} THEN 0 ELSE age + 1
BY DEF Takes, DetectWait, DetectLow, DetectHigh, DetectFalling, DetectMid,
   SyncWait, SyncLow, SyncHit, STSa, STSbWait, STSbFalling, STSb, LTSWait, LTSDone, RxWait, RxDone

(* One sample nearer to the last evaluation.                               *)
DueNext(p, at) ==
  \E c \in LastChances(p) :
    \/ m_frameSyncState' = "LTS" /\ at + m_timer' + Wait + 3 + Span = c
    \/ m_frameSyncState' = "RXSYMBOLS" /\ at + Wait + 2 - m_wait' + Span = c
    \/ m_frameSyncState' = "SYNC_STS" /\ at + Span - m_sync_STS_count' = c

LEMMA DueStep ==
  ASSUME IInv, IInv', NEW q \in Int, NEW f \in BOOLEAN, Takes(q, f),
         NEW p \in Int, NEW at \in Int, Due(p, at),
         verdict' = "none", m_frameSyncState' # "DETECT_STS"
  PROVE  DueNext(p, at + 1)
<1>1. PICK c \in LastChances(p) :
        \/ m_frameSyncState = "LTS" /\ at + m_timer + Wait + 3 + Span = c
        \/ m_frameSyncState = "RXSYMBOLS" /\ at + Wait + 2 - m_wait + Span = c
        \/ m_frameSyncState = "SYNC_STS" /\ at + Span - m_sync_STS_count = c
  BY DEF Due
<1>2. c \in Int
  BY ChancesAreInt
<1>3. CASE m_frameSyncState = "LTS"
  <2>1. \/ m_frameSyncState' = "LTS" /\ m_timer' = m_timer - 1
        \/ m_frameSyncState' = "RXSYMBOLS" /\ m_timer = 0 /\ m_wait' = 0
    BY <1>3, Samples
  <2> QED BY <1>1, <1>2, <1>3, <2>1, SyncTypes, Windows, LastOfSearch DEF DueNext
<1>4. CASE m_frameSyncState = "RXSYMBOLS"
  <2>1. \/ m_frameSyncState' = "RXSYMBOLS" /\ m_wait' = m_wait + 1
        \/ /\ m_frameSyncState' = "SYNC_STS" /\ m_wait = Wait + 1
           /\ m_timer' = 0 /\ m_sync_STS_count' = 0
    BY <1>4, Samples
  <2> QED BY <1>1, <1>2, <1>4, <2>1, SyncTypes, Windows, LastOfSearch DEF DueNext
<1>5. CASE m_frameSyncState = "SYNC_STS"
  <2>1. m_frameSyncState' = "SYNC_STS" /\ m_sync_STS_count' = m_sync_STS_count + 1
    BY <1>5, SearchSamples
  <2> QED BY <1>1, <1>2, <1>5, <2>1, SyncTypes, Windows, LastOfSearch DEF DueNext
<1> QED BY <1>1, <1>3, <1>4, <1>5

(***************************************************************************)
(* FollowsUp.                                                              *)
(***************************************************************************)
LEMMA FollowsOn ==
  ASSUME NEW m \in Nat, NEW n \in Nat, FollowedFrame(m), IInv, IInv', Places,
         Execute(position', faded),
         caught # None, verdict' = "none", m_frameSyncState' # "DETECT_STS",
         position' \in Int, position' < Period,
         n > 0 => position' > 2 * M,
         position' = position + 1 + n - m,
         position' = position + 1 \/ (position > 2 * M /\ position' < Period - M2),
         caught' = caught, faded' = faded, slope' = slope
  PROVE  FollowedFrame(n)'
<1> DEFINE at == position - m - Period
<1>1. /\ ~faded /\ faded \in BOOLEAN /\ Overlap(caught) > slope[1] /\ slope \in Slopes
      /\ caught \in 0 .. 2 * M - 2 /\ position \in 0 .. Period - 1
      /\ age = position - caught - m
  BY DEF FollowedFrame, Places
<1>6. age \in Nat /\ caught \in Int /\ position \in Int /\ Period \in Int
  BY <1>1, SyncTypes, Sizes
<1>7. age + 1 = position' - caught - n
  <2>1. age + 1 = position - caught - m + 1
    BY <1>1, <1>6
  <2> QED BY <2>1, <1>6
<1>2. /\ Takes(position', faded)
      /\ m_s_hat_0' = IF m_frameSyncState' # "STS_1" THEN 0
                      ELSE IF m_frameSyncState = "STS_0" THEN Metric(position', faded) ELSE m_s_hat_0
  BY DEF Execute
<1>3. CASE m_frameSyncState = "STS_0" /\ position = caught
  <2>1. m_frameSyncState' = "STS_1" /\ m_timer' = 0
    BY <1>1, <1>2, <1>3, Samples
  <2>2. position' = caught + 1 /\ n = 0 /\ position' < Period - M2
    BY <1>1, <1>3, Windows
  <2>3. age' = age + 1
    BY <1>2, <2>1, Ages
  <2>4. m_s_hat_0' = Overlap(caught + 1)
    BY <1>1, <1>2, <1>3, <2>1, <2>2 DEF Metric
  <2>5. age' = position' - caught' - n /\ position' - m_timer' < Period - M2
    BY <1>1, <2>1, <2>2, <2>3, SyncTypes, Windows
  <2> QED BY <1>1, <2>1, <2>4, <2>5 DEF FollowedFrame
<1>4. CASE m_frameSyncState = "STS_1" /\ m_s_hat_0 = Overlap(caught + 1) /\ position - m_timer < Period - M2
  <2>1. /\ \/ m_frameSyncState' = "STS_1" /\ m_timer' = m_timer + 1
           \/ /\ m_frameSyncState' = "LTS" /\ m_timer + 1 = M2
              /\ Metric(position', faded) + slope[1] > m_s_hat_0
              /\ \E tau \in Estimates(position', faded) : m_timer' = M4 \div 2 - tau
    BY <1>1, <1>2, <1>4, Samples
  <2>2. age' = age + 1
    BY <1>2, <2>1, Ages
  <2>3. age' = position' - caught' - n
    BY <1>7, <2>2
  <2>4. CASE m_frameSyncState' = "STS_1" /\ m_timer' = m_timer + 1
    <3>1. position' - m_timer' < Period - M2
      BY <1>1, <1>4, <2>4, SyncTypes, Windows
    <3>2. m_s_hat_0' = Overlap(caught' + 1)
      BY <1>2, <1>4, <2>4
    <3> QED BY <1>1, <2>3, <2>4, <3>1, <3>2 DEF FollowedFrame
  <2>5. ASSUME m_frameSyncState' = "LTS", m_timer + 1 = M2,
               Metric(position', faded) + slope[1] > m_s_hat_0,
               NEW tau \in Estimates(position', FALSE), m_timer' = M4 \div 2 - tau
        PROVE  FollowedFrame(n)'
    <3>1. position' = caught + 1 + M2 + n
      <4>1. age + 1 = M2 + 1
        BY <1>4, <2>5, SyncTypes
      <4> QED BY <1>6, <1>7, <4>1, Sizes
    <3>2. position' = caught + 1 + M2 \/ position' > 2 * M
      BY <3>1, <1>6, Sizes
    <3>3. Overlap(position') + slope[1] > Overlap(caught + 1)
      BY <1>1, <1>4, <2>5 DEF Metric
    <3>4. position' = caught + 1 + M2 /\ tau \in TauPrime /\ Locates(caught, tau)
      <4> DEFINE q == caught + 1 + M2 + n
      <4>1. q \in Int /\ position' = q
        BY <1>6, <3>1, Sizes
      <4> HIDE DEF q
      <4>2. /\ q = caught + 1 + M2 \/ q > 2 * M
            /\ Overlap(q) + slope[1] > Overlap(caught + 1)
            /\ tau \in Estimates(q, FALSE)
        BY <2>5, <3>2, <3>3, <4>1
      <4>3. q = caught + 1 + M2 /\ tau \in TauPrime /\ Locates(caught, tau)
        BY <1>1, <1>6, <4>1, <4>2, EstimateLocates
      <4> QED BY <4>1, <4>3
    <3>5. (caught + 1 + M2 - Period) + (M4 \div 2 - tau) + Wait + 3 + Span \in LastChances(caught)
      BY <1>1, <3>4, ChanceOf
    <3>6. n = 0
      BY <1>6, <3>1, <3>4, Sizes
    <3>7. (position' - n - Period) + m_timer' + Wait + 3 + Span \in LastChances(caught)
      BY <1>1, <2>5, <3>4, <3>5, <3>6, Windows
    <3>8. Due(caught, position - n - Period)'
      BY <2>5, <3>7 DEF Due, LastChances
    <3> QED BY <1>1, <2>3, <2>5, <3>8 DEF FollowedFrame
  <2> QED BY <1>1, <2>1, <2>4, <2>5
<1>5. CASE Due(caught, position - m - Period)
  <2>1. at \in Int
    BY <1>1, Windows
  <2>2. DueNext(caught, at + 1)
    BY <1>1, <1>2, <1>5, <2>1, DueStep
  <2>3. position' - n - Period = at + 1
    BY <1>6
  <2>4. Due(caught, position - n - Period)'
    BY <2>2, <2>3 DEF DueNext, Due, LastChances
  <2>5. m_frameSyncState' \notin {"DETECT_STS", "STS_0"}
    BY <2>2 DEF DueNext
  <2>6. age' = age + 1
    BY <1>2, <2>5, Ages
  <2>7. age' = position' - caught' - n
    BY <1>7, <2>6
  <2> QED BY <1>1, <2>4, <2>7 DEF FollowedFrame
<1> QED BY <1>3, <1>4, <1>5 DEF FollowedFrame

(* A sample of the same frame, at q.                                       *)
LEMMA Moved ==
  ASSUME IInv, IInv', Places, FollowsUp,
         NEW q \in 0 .. Period - 1, position' = q, NEW m \in Nat, LostHere = m, NEW n \in Nat,
         q <= 2 * M => n = 0, q > 2 * M => lost' = n,
         q = position + 1 + n - m, q = position + 1 \/ (position > 2 * M /\ q < Period - M2),
         Execute(q, faded), caught' = Catch(caught), faded' = faded, slope' = slope
  PROVE  FollowsUp' /\ caught' \in {None} \cup 0 .. 2 * M - 2
<1>1. q \in Int /\ q < Period /\ position' \in Int /\ faded \in BOOLEAN /\ slope \in Slopes
  BY Sizes DEF Places
<1>2. Takes(q, faded)
  BY DEF Execute
<1>3. n = LostHere'
  BY <1>1, Sizes DEF LostHere
<1>4. CASE m_frameSyncState' = "DETECT_STS"
  BY <1>4 DEF Catch, FollowsUp
<1>5. CASE m_frameSyncState' # "DETECT_STS" /\ verdict' # "none"
  <2>1. /\ verdict' = "accepted" /\ m_frameSyncState' = "STS_0"
        /\ ~faded /\ Overlap(q) > slope[1]
    BY <1>1, <1>2, <1>5, Accepted
  <2>2. caught' = q
    BY <2>1, <1>5 DEF Catch
  <2>3. q \in 0 .. 2 * M - 2
    BY <1>1, <2>1, Accepting
  <2>4. n = 0
    BY <2>3, Sizes
  <2>5. age' = 0
    BY <1>2, <2>1, Ages
  <2>6. age' = position' - caught' - n
    BY <1>1, <2>2, <2>4, <2>5
  <2>7. FollowedFrame(n)'
    BY <2>1, <2>2, <2>6 DEF FollowedFrame
  <2> QED BY <1>3, <2>2, <2>3, <2>7 DEF FollowsUp
<1>6. CASE m_frameSyncState' # "DETECT_STS" /\ verdict' = "none"
  <2>1. caught' = caught
    BY <1>6 DEF Catch
  <2>2. CASE caught = None
    BY <2>1, <2>2 DEF FollowsUp, None
  <2>3. CASE caught # None
    <3>1. FollowedFrame(m)
      BY <2>3 DEF FollowsUp
    <3>2. n > 0 => position' > 2 * M
      BY <1>1, Sizes
    <3>3. Execute(position', faded) /\ position' < Period
      BY <1>1
    <3>4. FollowedFrame(n)'
      BY <1>1, <1>6, <2>1, <2>3, <3>1, <3>2, <3>3, FollowsOn
    <3> QED BY <1>3, <2>1, <3>4 DEF FollowsUp, Places
  <2> QED BY <2>2, <2>3
<1> QED BY <1>4, <1>5, <1>6

LEMMA SameFrameFollows ==
  ASSUME IInv, IInv', Places, FollowsUp, SameFrame
  PROVE  FollowsUp' /\ Places'
<1> DEFINE q == position + 1
           m == LostHere
           n == IF q <= 2 * M \/ position = 2 * M THEN 0 ELSE lost
<1>1. position \in 0 .. Period - 2 /\ lost \in Nat /\ position' = q /\ q \in 0 .. Period - 1
  BY Sizes DEF Places, SameFrame
<1>2. /\ m \in Nat /\ n \in Nat /\ m = n
      /\ q <= 2 * M => n = 0
  BY <1>1, Sizes DEF LostHere
<1>3. q > 2 * M => lost' = n
  BY <1>1, Sizes DEF SameFrame
<1>4. /\ Execute(q, faded) /\ caught' = Catch(caught) /\ faded' = faded /\ slope' = slope
      /\ faults' = faults
  BY DEF SameFrame
<1>5. q = position + 1 + n - m
  BY <1>1, <1>2
<1>6. LostHere = m
  OBVIOUS
<1> HIDE DEF m, n
<1>7. FollowsUp' /\ caught' \in {None} \cup 0 .. 2 * M - 2
  BY <1>1, <1>2, <1>3, <1>4, <1>5, <1>6, Moved
<1>8. lost' \in Nat /\ caughtBefore' \in {None} \cup 0 .. 2 * M - 2
  BY <1>1 DEF SameFrame, Places
<1>9. m_s_hat_0' \in 0 .. M
  <2>1. Metric(q, faded) \in 0 .. M /\ 0 \in 0 .. M
    BY <1>1, Sizes DEF Metric, Overlap, Places
  <2> QED BY <1>4, <2>1 DEF Execute, Places
<1> QED BY <1>1, <1>4, <1>7, <1>8, <1>9 DEF Places

LEMMA OverrunFollows ==
  ASSUME IInv, IInv', Places, FollowsUp, Overrun
  PROVE  FollowsUp' /\ Places'
<1>1. PICK gap \in Gaps : /\ position + 1 + gap < Period - M2
                          /\ position' = position + 1 + gap /\ lost' = lost + gap
                          /\ Execute(position', faded)
  BY DEF Overrun
<1> DEFINE q == position + 1 + gap
           n == lost + gap
<1>2. position \in Nat /\ lost \in Nat /\ gap \in Nat \ {0} /\ position > 2 * M
  BY LinkAssumption DEF Places, Overrun
<1>3. /\ q \in 0 .. Period - 1 /\ position' = q /\ lost \in Nat /\ n \in Nat /\ LostHere = lost
      /\ ~(q <= 2 * M) /\ lost' = n /\ q = position + 1 + n - lost
      /\ position > 2 * M /\ q < Period - M2
  BY <1>1, <1>2, Sizes DEF LostHere
<1>4. /\ Execute(q, faded) /\ caught' = Catch(caught) /\ faded' = faded /\ slope' = slope
      /\ caughtBefore' = caughtBefore /\ faults' \in 0 .. MaxFaults
  <2>1. faults' = faults + 1 /\ faults + 1 <= MaxFaults /\ faults \in 0 .. MaxFaults
    BY DEF Overrun, Fault, Places
  <2>2. faults' \in 0 .. MaxFaults
    BY <2>1, LinkAssumption
  <2>3. Execute(q, faded)
    BY <1>1
  <2>4. caught' = Catch(caught) /\ faded' = faded /\ slope' = slope /\ caughtBefore' = caughtBefore
    BY DEF Overrun
  <2> QED BY <2>2, <2>3, <2>4
<1> HIDE DEF q, n
<1>5. FollowsUp' /\ caught' \in {None} \cup 0 .. 2 * M - 2
  BY <1>3, <1>4, Moved
<1>6. m_s_hat_0' \in 0 .. M
  <2>1. Metric(q, faded) \in 0 .. M /\ 0 \in 0 .. M
    BY <1>3, Sizes DEF Metric, Overlap, Places
  <2> QED BY <1>4, <2>1 DEF Execute, Places
<1> QED BY <1>3, <1>4, <1>5, <1>6 DEF Places

(***************************************************************************)
(* Searches.                                                               *)
(***************************************************************************)

(* What the reach of a search says of any of its last evaluations.         *)
LEMMA Reached ==
  ASSUME slope \in Slopes, NEW p, NEW n \in Nat, Reaches(p, n, slope), NEW c \in LastChances(p), c \in Int
  PROVE  c + n >= slope[1] /\ c + n < slope[1] + Span
<1>1. c + n >= slope[1] /\ c + n - (K - 1) * M4 < slope[1] + M4
  BY DEF Reaches
<1>2. slope[1] \in Int /\ (K - 1) * M4 = Span - M4 /\ Span \in Int /\ M4 \in Int
  BY Thresholds, LastOfSearch, Sizes
<1> QED BY <1>1, <1>2

(* The next frame begins.                                                  *)
LEMMA NextFrameSearches ==
  ASSUME IInv, IInv', Places, FollowsUp, NextFrame
  PROVE  FollowsUp' /\ Places' /\ Searches'
<1>1. /\ position = Period - 1 /\ position' = 0 /\ caughtBefore' = caught /\ caught' = None
      /\ slope' = slope /\ lost' = lost /\ faded' \in BOOLEAN
      /\ Execute(0, faded')
  BY DEF NextFrame
<1>2. /\ slope \in Slopes /\ lost \in Nat /\ caught \in {None} \cup 0 .. 2 * M - 2
      /\ faults \in 0 .. MaxFaults
  BY DEF Places
<1>3. faults' \in 0 .. MaxFaults
  BY <1>2, LinkAssumption DEF NextFrame, Fault
<1>4. m_s_hat_0' \in 0 .. M
  <2>1. Metric(0, faded') \in 0 .. M /\ 0 \in 0 .. M
    BY Sizes DEF Metric, Overlap
  <2> QED BY <1>1, <2>1 DEF Execute, Places
<1>5. Places'
  BY <1>1, <1>2, <1>3, <1>4, Sizes DEF Places
<1>6. FollowsUp'
  BY <1>1 DEF FollowsUp
<1>7. ASSUME caught # None, ~faded', Reaches(caught, lost, slope)
      PROVE  Approaches'
  <2>1. Takes(0, FALSE)
    <3>1. faded' = FALSE
      BY <1>1, <1>7
    <3> QED BY <1>1, <3>1 DEF Execute
  <2>2. /\ caught \in 0 .. 2 * M - 2 /\ caught \in Int /\ slope[1] \in 1 .. M2 - 1
        /\ 0 \in Int /\ FALSE \in BOOLEAN
    BY <1>2, <1>7, Thresholds, Sizes
  <2>3. PICK n \in Nat : n = LostHere /\ FollowedFrame(n)
    BY <1>7 DEF FollowsUp
  <2>4. n = lost
    BY <1>1, <2>3, Sizes DEF LostHere
  <2>5. Due(caught, -1 - lost)
    <3>1. ~(m_frameSyncState = "STS_0" /\ position = caught)
      BY <1>1, <2>2, Sizes
    <3>2. ~(m_frameSyncState = "STS_1" /\ position - m_timer < Period - M2)
      BY <1>1, SyncTypes, Sizes
    <3>3. Due(caught, position - n - Period)
      BY <2>3, <3>1, <3>2 DEF FollowedFrame
    <3>4. position - n - Period = -1 - lost
      BY <1>1, <1>2, <2>4, Sizes
    <3> QED BY <3>3, <3>4
  <2>6. PICK c \in LastChances(caught) :
          \/ m_frameSyncState = "LTS"
          \/ m_frameSyncState = "RXSYMBOLS"
          \/ m_frameSyncState = "SYNC_STS" /\ (-1 - lost) + Span - m_sync_STS_count = c
    BY <2>5 DEF Due
  <2>7. c \in Int /\ c + lost >= slope[1]
    BY <1>2, <1>7, <2>2, ChancesAreInt, Reached
  <2>8. verdict' = "none"
    <3>1. ~(Overlap(0) > slope[1])
      BY <2>2, Sizes DEF Overlap
    <3> QED BY <1>2, <2>1, <2>2, <3>1, Accepted
  <2>9. m_frameSyncState' # "DETECT_STS"
    <3>1. CASE m_frameSyncState \in {"LTS", "RXSYMBOLS"}
      BY <2>1, <2>2, <3>1, Samples
    <3>2. CASE m_frameSyncState = "SYNC_STS" /\ (-1 - lost) + Span - m_sync_STS_count = c
      <4>1. m_sync_STS_count # Timeout
        BY <1>2, <2>2, <2>7, <3>2, LastOfSearch, SyncTypes, CounterAssumption
      <4> QED BY <2>1, <2>2, <3>2, <4>1, SearchSamples
    <3> QED BY <2>6, <3>1, <3>2
  <2>10. DueNext(caught, (-1 - lost) + 1)
    <3>1. -1 - lost \in Int
      BY <1>2
    <3> QED BY <2>1, <2>2, <2>5, <2>8, <2>9, <3>1, DueStep
  <2>11. position' - lost' = (-1 - lost) + 1
    BY <1>1, <1>2
  <2>12. Due(caughtBefore, position - lost)'
    BY <1>1, <2>10, <2>11 DEF DueNext, Due, LastChances
  <2>13. m_timer' \in Nat
    BY DEF IInv, Counters, Numbers
  <2>14. position' < slope[1] /\ position' - m_timer' < slope[1]
    BY <1>1, <2>2, <2>13
  <2> QED BY <1>1, <2>12, <2>14 DEF Approaches
<1>8. Searches'
  BY <1>1, <1>7 DEF Searches, Reaches
<1> QED BY <1>5, <1>6, <1>8

(* On the first half of the slope the metric still rises over M/2 samples. *)
LEMMA NoFall ==
  ASSUME slope \in Slopes, NEW p \in Int, p >= slope[1], p < slope[1] + M4
  PROVE  Overlap(p + 1 + M2) >= Overlap(p + 1)
BY Thresholds, Sizes DEF Overlap

(* A sample of a search that has not reached the slope yet.                *)
LEMMA ApproachStep ==
  ASSUME IInv, IInv', slope \in Slopes, NEW q \in Nat, NEW n \in Nat, NEW b \in Int,
         Takes(q, FALSE), Due(b, q - 1 - n), Reaches(b, n, slope),
         m_frameSyncState = "SYNC_STS" => q - 1 - m_timer < slope[1],
         m_frameSyncState # "SYNC_STS" => q - 1 < slope[1]
  PROVE  \/ /\ m_frameSyncState' # "DETECT_STS" /\ verdict' = "none"
            /\ DueNext(b, q - n)
            /\ m_frameSyncState' = "SYNC_STS" => q - m_timer' < slope[1]
            /\ m_frameSyncState' # "SYNC_STS" => q < slope[1]
         \/ /\ m_frameSyncState' # "DETECT_STS" /\ verdict' = "accepted"
            /\ q \in slope[1] .. slope[1] + M4 - 1
<1>1. PICK c \in LastChances(b) :
        \/ m_frameSyncState = "LTS" /\ (q - 1 - n) + m_timer + Wait + 3 + Span = c
        \/ m_frameSyncState = "RXSYMBOLS" /\ (q - 1 - n) + Wait + 2 - m_wait + Span = c
        \/ m_frameSyncState = "SYNC_STS" /\ (q - 1 - n) + Span - m_sync_STS_count = c
  BY DEF Due
<1>2. c \in Int /\ c + n >= slope[1] /\ c + n < slope[1] + Span
  BY <1>1, ChancesAreInt, Reached
<1>3. /\ slope[1] \in 1 .. M2 - 1 /\ q \in Int /\ q - 1 - n \in Int /\ FALSE \in BOOLEAN
      /\ Span \in Nat
  BY Thresholds, LastOfSearch, Sizes
<1>4. ASSUME m_frameSyncState' # "DETECT_STS", verdict' = "none" PROVE DueNext(b, q - n)
  <2>1. DueNext(b, (q - 1 - n) + 1)
    BY <1>3, <1>4, DueStep
  <2>2. (q - 1 - n) + 1 = q - n
    OBVIOUS
  <2> QED BY <2>1, <2>2
<1>5. m_timer' \in Nat /\ m_wait' \in 0 .. Wait + 1
  BY Windows DEF IInv, Counters, Numbers
<1>6. CASE m_frameSyncState = "LTS"
  <2>1. /\ verdict' = "none"
        /\ \/ m_frameSyncState' = "LTS" /\ m_timer' = m_timer - 1
           \/ m_frameSyncState' = "RXSYMBOLS" /\ m_timer = 0 /\ m_wait' = 0
    BY <1>3, <1>6, Samples
  <2>2. m_timer \in Nat /\ (q - 1 - n) + m_timer + Wait + 3 + Span = c
    BY <1>1, <1>6, SyncTypes
  <2>3. q < slope[1]
    BY <1>2, <1>3, <2>2, Windows
  <2> QED BY <1>4, <2>1, <2>3
<1>7. CASE m_frameSyncState = "RXSYMBOLS"
  <2>1. /\ verdict' = "none"
        /\ \/ m_frameSyncState' = "RXSYMBOLS" /\ m_wait' = m_wait + 1
           \/ m_frameSyncState' = "SYNC_STS" /\ m_wait = Wait + 1 /\ m_timer' = 0
    BY <1>3, <1>7, Samples
  <2>2. m_wait \in 0 .. Wait + 1 /\ (q - 1 - n) + Wait + 2 - m_wait + Span = c
    BY <1>1, <1>7, SyncTypes
  <2>3. m_frameSyncState' = "RXSYMBOLS" => m_wait <= Wait
    BY <1>5, <2>1, <2>2, Windows
  <2>4. q < slope[1]
    BY <1>2, <1>3, <2>1, <2>2, <2>3, Windows
  <2>5. m_frameSyncState' = "SYNC_STS" => q - m_timer' < slope[1]
    BY <1>3, <2>1, <2>4
  <2> QED BY <1>4, <2>1, <2>4, <2>5
<1>8. CASE m_frameSyncState = "SYNC_STS"
  <2>1. /\ (q - 1 - n) + Span - m_sync_STS_count = c /\ q - 1 - m_timer < slope[1]
        /\ m_timer \in Nat /\ m_timer < M4 /\ m_sync_STS_count \in Nat
    BY <1>1, <1>8, SyncTypes, Windows
  <2>2. m_sync_STS_count # Timeout
    <3>1. PICK x \in 0 .. Timeout : m_sync_STS_count = x * M4 + m_timer
      BY <1>8 DEF IInv, SearchAligned
    <3>2. SUFFICES ASSUME m_sync_STS_count = Timeout PROVE FALSE
      OBVIOUS
    <3>3. x * M4 + m_timer = Timeout /\ x \in Nat
      BY <3>1, <3>2, Windows
    <3>4. x * M4 = Span
      BY <2>1, <3>3, SearchIsOver
    <3>5. m_sync_STS_count = Span + m_timer
      BY <3>1, <3>4
    <3> QED BY <1>2, <1>3, <2>1, <3>5
  <2>3. \/ /\ m_frameSyncState' = "SYNC_STS" /\ verdict' = "none" /\ m_timer' = m_timer + 1
        \/ /\ m_frameSyncState' = "SYNC_STS" /\ verdict' = "none" /\ Level(q, FALSE) = "low"
           /\ m_timer + 1 = M4 /\ m_timer' = 0
        \/ /\ m_frameSyncState' = "STS_0" /\ verdict' = "accepted" /\ Level(q, FALSE) # "low"
           /\ m_timer + 1 = M4
    BY <1>3, <1>8, <2>2, SearchSamples
  <2>4. Level(q, FALSE) # "low" <=> Overlap(q) > slope[1]
    BY <1>3, Levels
  <2>5. m_timer + 1 = M4 => Overlap(q) = q + 1 /\ q < slope[1] + M4
    BY <1>3, <2>1, Sizes DEF Overlap
  <2>6. CASE m_frameSyncState' = "SYNC_STS" /\ verdict' = "none" /\ m_timer' = m_timer + 1
    <3>1. q - m_timer' < slope[1]
      BY <1>3, <2>1, <2>6
    <3> QED BY <1>4, <2>6, <3>1
  <2>7. CASE /\ m_frameSyncState' = "SYNC_STS" /\ verdict' = "none" /\ Level(q, FALSE) = "low"
             /\ m_timer + 1 = M4 /\ m_timer' = 0
    <3>1. ~(q + 1 > slope[1])
      BY <2>4, <2>5, <2>7
    <3>2. q - m_timer' < slope[1]
      BY <1>3, <2>7, <3>1
    <3> QED BY <1>4, <2>7, <3>2
  <2>8. CASE /\ m_frameSyncState' = "STS_0" /\ verdict' = "accepted" /\ Level(q, FALSE) # "low"
             /\ m_timer + 1 = M4
    <3>1. q + 1 > slope[1] /\ q < slope[1] + M4
      BY <2>4, <2>5, <2>8
    <3>2. q \in slope[1] .. slope[1] + M4 - 1
      BY <1>3, <3>1, Sizes
    <3> QED BY <2>8, <3>2
  <2> QED BY <2>3, <2>6, <2>7, <2>8
<1> QED BY <1>1, <1>6, <1>7, <1>8

(* A frame caught on the first half of the slope is not dropped again.     *)
LEMMA CaughtStep ==
  ASSUME IInv, slope \in Slopes, NEW q \in Int, Takes(q, FALSE), position \in Int,
         caught \in slope[1] .. slope[1] + M4 - 1, FollowedFrame(0),
         q = position + 1, q <= 2 * M
  PROVE  m_frameSyncState' # "DETECT_STS" /\ verdict' = "none"
<1>1. caught \in Int /\ FALSE \in BOOLEAN /\ age \in Nat /\ age = position - caught
  BY Thresholds, Sizes, SyncTypes DEF FollowedFrame
<1>2. CASE m_frameSyncState = "STS_0"
  BY <1>1, <1>2, Samples
<1>3. CASE m_frameSyncState = "STS_1" /\ m_s_hat_0 = Overlap(caught + 1)
  <2>1. SUFFICES ASSUME m_timer + 1 = M2, Metric(q, FALSE) < m_s_hat_0 PROVE FALSE
    BY <1>1, <1>3, Samples
  <2>2. age = m_timer + 1
    BY <1>3, SyncTypes
  <2>3. q = caught + 1 + M2
    BY <1>1, <2>1, <2>2, Sizes
  <2>4. Overlap(caught + 1 + M2) >= Overlap(caught + 1)
    BY <1>1, NoFall, Thresholds, Sizes
  <2>5. Overlap(q) >= Overlap(caught + 1) /\ Overlap(q) \in Int /\ Overlap(caught + 1) \in Int
    BY <1>1, <2>3, <2>4, Sizes DEF Overlap
  <2>6. Overlap(q) < Overlap(caught + 1)
    BY <1>3, <2>1 DEF Metric
  <2> QED BY <2>5, <2>6
<1>4. CASE m_frameSyncState \in {"LTS", "RXSYMBOLS"}
  BY <1>1, <1>4, Samples
<1>5. CASE m_frameSyncState = "SYNC_STS"
  <2>1. age - m_sync_STS_count >= M2 + 4 + Wait /\ m_sync_STS_count \in Nat
    BY <1>5, SyncTypes, Windows
  <2> QED BY <1>1, <2>1, Thresholds, Windows
<1> QED BY <1>2, <1>3, <1>4, <1>5 DEF FollowedFrame, Due

LEMMA SameFrameSearches ==
  ASSUME IInv, IInv', Places, FollowsUp, Searches, SameFrame
  PROVE  Searches'
<1> SUFFICES ASSUME caughtBefore' # None, position' <= 2 * M, ~faded',
                    Reaches(caughtBefore', lost', slope')
             PROVE  Approaches' \/ caught' \in slope'[1] .. slope'[1] + M4 - 1
  BY DEF Searches, Reaches
<1> DEFINE q == position + 1
<1>1. /\ position \in 0 .. Period - 2 /\ lost \in Nat /\ slope \in Slopes
      /\ caughtBefore \in {None} \cup 0 .. 2 * M - 2 /\ q \in Nat /\ position' = q
  BY Sizes DEF Places, SameFrame
<1>2. q <= 2 * M /\ position <= 2 * M /\ position # 2 * M
  BY <1>1, Sizes
<1>3. /\ caughtBefore' = caughtBefore /\ lost' = lost /\ faded' = faded /\ slope' = slope
      /\ caught' = Catch(caught) /\ Execute(q, faded)
  BY <1>2 DEF SameFrame
<1>4. /\ caughtBefore # None /\ ~faded /\ Reaches(caughtBefore, lost, slope)
      /\ caughtBefore \in Int
  BY <1>1, <1>3, Sizes
<1>5. Takes(q, FALSE)
  <2>1. faded = FALSE
    BY <1>4 DEF Places
  <2> QED BY <1>3, <2>1 DEF Execute
<1>6. CASE Approaches
  <2>1. /\ caught = None /\ Due(caughtBefore, q - 1 - lost)
        /\ m_frameSyncState = "SYNC_STS" => q - 1 - m_timer < slope[1]
        /\ m_frameSyncState # "SYNC_STS" => q - 1 < slope[1]
    <3>1. q - 1 = position
      BY <1>1
    <3> QED BY <1>6, <3>1 DEF Approaches
  <2>2. \/ /\ m_frameSyncState' # "DETECT_STS" /\ verdict' = "none"
           /\ DueNext(caughtBefore, q - lost)
           /\ m_frameSyncState' = "SYNC_STS" => q - m_timer' < slope[1]
           /\ m_frameSyncState' # "SYNC_STS" => q < slope[1]
        \/ /\ m_frameSyncState' # "DETECT_STS" /\ verdict' = "accepted"
           /\ q \in slope[1] .. slope[1] + M4 - 1
    <3> HIDE DEF q
    <3> QED BY <1>1, <1>4, <1>5, <2>1, ApproachStep
  <2>3. CASE /\ m_frameSyncState' # "DETECT_STS" /\ verdict' = "none"
             /\ DueNext(caughtBefore, q - lost)
             /\ m_frameSyncState' = "SYNC_STS" => q - m_timer' < slope[1]
             /\ m_frameSyncState' # "SYNC_STS" => q < slope[1]
    <3>1. caught' = None
      BY <1>3, <2>1, <2>3 DEF Catch
    <3>2. position' - lost' = q - lost
      BY <1>1, <1>3
    <3>3. Due(caughtBefore, position - lost)'
      BY <1>3, <2>3, <3>2 DEF DueNext, Due, LastChances
    <3>4. /\ m_frameSyncState' = "SYNC_STS" => position' - m_timer' < slope'[1]
          /\ m_frameSyncState' # "SYNC_STS" => position' < slope'[1]
      BY <1>1, <1>3, <2>3
    <3> QED BY <3>1, <3>3, <3>4 DEF Approaches
  <2>4. CASE /\ m_frameSyncState' # "DETECT_STS" /\ verdict' = "accepted"
             /\ q \in slope[1] .. slope[1] + M4 - 1
    BY <1>1, <1>3, <2>4 DEF Catch
  <2> QED BY <2>2, <2>3, <2>4
<1>7. CASE caught \in slope[1] .. slope[1] + M4 - 1
  <2>1. caught # None
    BY <1>1, <1>7, Thresholds, Sizes DEF None
  <2>2. FollowedFrame(0)
    <3>1. PICK n \in Nat : n = LostHere /\ FollowedFrame(n)
      BY <2>1 DEF FollowsUp
    <3>2. n = 0
      BY <1>2, <3>1 DEF LostHere
    <3> QED BY <3>1, <3>2
  <2>3. m_frameSyncState' # "DETECT_STS" /\ verdict' = "none"
    <3>1. q \in Int /\ q = position + 1 /\ position \in Int
      BY <1>1
    <3> HIDE DEF q
    <3> QED BY <1>1, <1>2, <1>5, <1>7, <2>2, <3>1, CaughtStep
  <2> QED BY <1>3, <1>7, <2>3 DEF Catch
<1> QED BY <1>1, <1>2, <1>4, <1>6, <1>7 DEF Searches

LEMMA LinkInitially == LinkInit => LinkInv
<1> SUFFICES ASSUME LinkInit PROVE LinkInv
  OBVIOUS
<1>1. IInv
  BY Initially DEF LinkInit
<1>2. Places
  <2>1. 0 \in 0 .. M /\ 0 \in 0 .. MaxFaults /\ 0 \in Nat /\ FALSE \in BOOLEAN
    BY Sizes, LinkAssumption
  <2> QED BY <2>1 DEF LinkInit, Places
<1>3. FollowsUp /\ Searches
  BY DEF LinkInit, FollowsUp, Searches
<1> QED BY <1>1, <1>2, <1>3 DEF LinkInv

LEMMA LinkPreserved == LinkInv /\ [LinkNext]_allVars => LinkInv'
<1> SUFFICES ASSUME LinkInv, [LinkNext]_allVars PROVE LinkInv'
  OBVIOUS
<1>1. IInv /\ Places /\ FollowsUp /\ Searches
  BY DEF LinkInv
<1>2. IInv'
  BY <1>1, LinkStep, Preserved
<1>3. CASE SameFrame
  BY <1>1, <1>2, <1>3, SameFrameFollows, SameFrameSearches DEF LinkInv
<1>4. CASE NextFrame
  BY <1>1, <1>2, <1>4, NextFrameSearches DEF LinkInv
<1>5. CASE Overrun
  <2>1. FollowsUp' /\ Places'
    BY <1>1, <1>2, <1>5, OverrunFollows
  <2>2. ~(position' <= 2 * M)
    BY <1>1, <1>5, Sizes, LinkAssumption DEF Overrun, Places
  <2> QED BY <1>2, <2>1, <2>2 DEF LinkInv, Searches
<1>6. CASE UNCHANGED allVars
  BY <1>1, <1>2, <1>6 DEF LinkInv, allVars, vars, link, Places, FollowsUp, LostHere, FollowedFrame,
     Due, LastChances, Searches, Approaches, Reaches
<1> QED BY <1>3, <1>4, <1>5, <1>6 DEF LinkNext

(* The variables of the link have their types: every STS is accepted while *)
(* the window still holds a part of it.                                    *)
THEOREM LinkTypeCorrect == LinkSpec => []LinkTypeOK
<1>1. LinkInv => LinkTypeOK
  <2> SUFFICES ASSUME LinkInv PROVE LinkTypeOK
    OBVIOUS
  <2>1. TypeOK
    BY DEF LinkInv, IInv, Counters, Numbers, Flags, TypeOK
  <2> QED BY <2>1 DEF LinkInv, Places, LinkTypeOK
<1> QED BY <1>1, LinkInitially, LinkPreserved, PTL DEF LinkSpec

(* A receiver that was on a frame does not lose the next one, for every    *)
(* number of subcarriers, timeout, payload and period: where the STS was   *)
(* accepted, how the estimate corrected the timer and what was lost fix    *)
(* where the next search is, and a search that reaches the slope ends on   *)
(* it (execute_sync_STS() and the SYNC_STS case of execute()).             *)
THEOREM FramesFollowed == LinkSpec => []FollowsFrames
<1>1. LinkInv => FollowsFrames
  <2> SUFFICES ASSUME LinkInv, position = 2 * M, ~faded, caughtBefore # None, caught = None,
                      Reaches(caughtBefore, lost, slope)
               PROVE  FALSE
    BY DEF FollowsFrames
  <2>1. slope[1] \in 1 .. M2 - 1 /\ caught = -1
    BY Thresholds DEF LinkInv, Places, None
  <2>2. Approaches
    BY <2>1, Sizes DEF LinkInv, Searches
  <2>3. m_frameSyncState = "SYNC_STS" => m_timer < M4 /\ m_timer \in Nat
    BY SyncTypes DEF LinkInv
  <2> QED BY <2>1, <2>2, <2>3, Sizes DEF Approaches
<1> QED BY <1>1, LinkInitially, LinkPreserved, PTL DEF LinkSpec

(***************************************************************************)
(* Staying on the frames.                                                  *)
(***************************************************************************)
LEMMA SteadyReaches ==
  ASSUME slope \in SteadySlopes, NEW p \in FirstOnSlope
  PROVE  slope \in Slopes /\ p \in Int /\ Reaches(p, 0, slope)
<1>1. slope \in Slopes /\ \A x \in slope[1] .. slope[2] + M4 : Reaches(x, 0, slope)
  BY DEF SteadySlopes
<1>2. p \in slope[1] .. slope[2] + M4 /\ p \in Int
  BY <1>1, Thresholds, Sizes DEF FirstOnSlope
<1> QED BY <1>1, <1>2

(* Behind the STS, where the window holds nothing of it: the frame is      *)
(* followed up, and its search does not end before the next frame.         *)
LEMMA StaysBehind ==
  ASSUME LinkInv, LinkInv', Following, slope \in SteadySlopes, SameFrame, position >= 2 * M
  PROVE  Following'
<1>1. /\ IInv /\ IInv' /\ Places /\ FollowsUp
  BY DEF LinkInv
<1>2. /\ position \in 2 * M .. Period - 2 /\ position' = position + 1 /\ position \in Int
      /\ lost = 0 /\ faded = FALSE
  BY <1>1, Sizes DEF Places, SameFrame, Following
<1>3. caught \in FirstOnSlope
  <2>1. slope \in Slopes
    BY <1>1 DEF Places
  <2>2. 2 * M >= slope[1] + M4
    BY <2>1, Thresholds, Sizes
  <2> QED BY <1>2, <2>2, Sizes DEF Following
<1>4. /\ slope \in Slopes /\ caught \in Int /\ Reaches(caught, 0, slope)
      /\ caught >= slope[1] /\ caught < slope[1] + M4 /\ slope[1] \in 1 .. M2 - 1
  BY <1>3, SteadyReaches, Thresholds, Sizes DEF FirstOnSlope
<1>5. caught # None
  BY <1>4 DEF None
<1>6. FollowedFrame(0)
  <2>1. PICK n \in Nat : n = LostHere /\ FollowedFrame(n)
    BY <1>1, <1>5 DEF FollowsUp
  <2>2. n = 0
    BY <1>2, <2>1 DEF LostHere
  <2> QED BY <2>1, <2>2
<1>7. Due(caught, position - Period)
  <2>1. ~(m_frameSyncState = "STS_0" /\ position = caught)
    BY <1>2, <1>4, Sizes
  <2>2. m_frameSyncState # "STS_1"
    <3>1. age = position - caught
      BY <1>2, <1>4, <1>6 DEF FollowedFrame
    <3>2. m_frameSyncState = "STS_1" => age = m_timer + 1 /\ m_timer < M2 /\ m_timer \in Nat
      BY <1>1, SyncTypes
    <3> QED BY <1>2, <1>4, <3>1, <3>2, Sizes
  <2>3. Due(caught, position - 0 - Period)
    BY <1>6, <2>1, <2>2 DEF FollowedFrame
  <2>4. position - 0 - Period = position - Period
    BY <1>2, Sizes
  <2> QED BY <2>3, <2>4
<1>8. PICK c \in LastChances(caught) :
        \/ m_frameSyncState = "LTS"
        \/ m_frameSyncState = "RXSYMBOLS"
        \/ m_frameSyncState = "SYNC_STS" /\ (position - Period) + Span - m_sync_STS_count = c
  BY <1>7 DEF Due
<1>9. c \in Int /\ c >= slope[1]
  <2>1. c \in Int
    BY <1>4, ChancesAreInt
  <2>2. c + 0 >= slope[1]
    BY <1>4, <2>1, Reached
  <2> QED BY <2>1, <2>2
<1>10. Takes(position + 1, FALSE)
  BY <1>2 DEF SameFrame, Execute
<1>11. verdict' = "none"
  <2>1. position + 1 \in Int /\ ~(Overlap(position + 1) > slope[1])
    BY <1>2, <1>4, Sizes DEF Overlap
  <2> QED BY <1>1, <1>4, <1>10, <2>1, Accepted
<1>12. m_frameSyncState' # "DETECT_STS"
  <2>1. position + 1 \in Int /\ FALSE \in BOOLEAN
    BY <1>2
  <2>2. CASE m_frameSyncState \in {"LTS", "RXSYMBOLS"}
    BY <1>1, <1>10, <2>1, <2>2, Samples
  <2>3. CASE m_frameSyncState = "SYNC_STS" /\ (position - Period) + Span - m_sync_STS_count = c
    <3>1. m_sync_STS_count # Timeout
      BY <1>1, <1>2, <1>4, <1>9, <2>3, LastOfSearch, SyncTypes, Sizes, CounterAssumption
    <3> QED BY <1>1, <1>10, <2>1, <2>3, <3>1, SearchSamples
  <2> QED BY <1>8, <2>2, <2>3
<1>13. /\ caught' = caught /\ faded' = faded /\ slope' = slope /\ position' > 2 * M
       /\ lost' = 0
  BY <1>2, <1>11, <1>12, Sizes DEF SameFrame, Catch
<1> QED BY <1>2, <1>3, <1>13, Sizes DEF Following, FirstOnSlope

(* On the way to the STS, and on its slope.                                *)
LEMMA StaysOnSlope ==
  ASSUME LinkInv, LinkInv', Following, slope \in SteadySlopes, SameFrame, position < 2 * M
  PROVE  Following'
<1>1. /\ position \in Nat /\ position' = position + 1 /\ position \in Int
      /\ lost' = 0 /\ faded' = FALSE /\ slope' = slope /\ caughtBefore' = caughtBefore
      /\ caughtBefore \in FirstOnSlope /\ position' <= 2 * M
  BY Sizes DEF LinkInv, Places, SameFrame, Following
<1>2. /\ slope \in Slopes /\ Reaches(caughtBefore, 0, slope) /\ caughtBefore # None
      /\ slope[1] \in Nat
  BY <1>1, SteadyReaches, Thresholds, Sizes DEF FirstOnSlope, None
<1>3. Reaches(caughtBefore', lost', slope')
  BY <1>1, <1>2
<1>4. Approaches' \/ caught' \in FirstOnSlope'
  BY <1>1, <1>2, <1>3 DEF LinkInv, Searches, FirstOnSlope, Reaches
<1>5. ASSUME position' >= slope[1] + M4
      PROVE  ~Approaches'
  <2>1. IInv'
    BY DEF LinkInv
  <2>2. (/\ m_timer \in Nat
         /\ m_frameSyncState \in {"DETECT_STS", "SYNC_STS"} => m_timer < M4)'
    BY <2>1, SyncTypes, PTL
  <2> QED BY <1>1, <1>2, <1>5, <2>2, Sizes DEF Approaches
<1> QED BY <1>1, <1>4, <1>5 DEF Following, FirstOnSlope

(* The next frame begins.                                                  *)
LEMMA StaysAcross ==
  ASSUME LinkInv, Following, NextFrame, faults' = faults
  PROVE  Following'
<1>1. /\ position = Period - 1 /\ position' = 0 /\ caughtBefore' = caught
      /\ slope' = slope /\ lost' = lost /\ lost = 0 /\ caught \in FirstOnSlope
  BY Sizes DEF NextFrame, Following
<1>2. faded' = FALSE
  <2>1. faults \in Int
    BY LinkAssumption DEF LinkInv, Places
  <2> QED BY <2>1 DEF NextFrame, Fault
<1>3. 0 <= 2 * M /\ ~(0 >= slope[1] + M4)
  BY Thresholds, Sizes DEF LinkInv, Places
<1> QED BY <1>1, <1>2, <1>3 DEF Following, FirstOnSlope

(* Once on the frames, a receiver stays on them until one fades or samples *)
(* are lost, on every steady slope and for all lengths: the place where it *)
(* accepts the STS moves by less than M/4 from frame to frame, whatever    *)
(* the estimates say (execute_sync_STSb(), and the waits of execute()).    *)
THEOREM OnFramesForGood == LinkSpec => StaysOnFrames
<1>1. LinkInv /\ LinkInv' /\ [LinkNext]_allVars
        => [Following /\ slope \in SteadySlopes /\ faults' = faults => Following']_allVars
  <2> SUFFICES ASSUME LinkInv, LinkInv', LinkNext, Following, slope \in SteadySlopes,
                      faults' = faults
               PROVE  Following'
    OBVIOUS
  <2>1. CASE SameFrame
    <3>1. position \in Int
      BY DEF LinkInv, Places
    <3> QED BY <2>1, <3>1, StaysBehind, StaysOnSlope, Sizes
  <2>2. CASE NextFrame
    BY <2>2, StaysAcross
  <2>3. CASE Overrun
    <3>1. faults \in Int
      BY LinkAssumption DEF LinkInv, Places
    <3> QED BY <2>3, <3>1 DEF Overrun, Fault
  <2> QED BY <2>1, <2>2, <2>3 DEF LinkNext
<1> QED BY <1>1, LinkInitially, LinkPreserved, PTL DEF LinkSpec, StaysOnFrames
=============================================================================
