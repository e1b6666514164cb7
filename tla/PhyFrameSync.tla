---------------------------- MODULE PhyFrameSync ----------------------------
(***************************************************************************)
(* The receiver's frame synchroniser (src/phy/PhyFrameSync.cpp): a state   *)
(* machine that gets one IQ sample per call of execute(), looks for the    *)
(* short training symbol (STS) that starts a frame, counts its way to the  *)
(* end of the frame, and then looks for the STS of the next one.           *)
(*                                                                         *)
(* One action is one call of execute().  What the samples say is abstract: *)
(* an evaluation of the window gives a metric |s_hat| that is "low" (at or *)
(* below the lower threshold), "mid" (between the thresholds) or "high",   *)
(* and timing estimates anywhere in the range their argument allows.       *)
(*                                                                         *)
(* Three variables are not in the code and only observe it: age, the       *)
(* samples since an STS was accepted; found, the state in which that was   *)
(* (in DETECT_STS samples are not mixed by the NCO); verdict, whether the  *)
(* last call accepted an STS.                                              *)
(***************************************************************************)
EXTENDS Integers, FiniteSets

CONSTANTS M,         \* subcarriers, PHY_SUBCARRIERS__M (1024)
          Timeout,   \* samples SYNC_STS may take (1920, line 334)
          Wait,      \* samples RXSYMBOLS skips (16*1280, line 360)
          Period,    \* samples from frame to frame (22850, PhyThread.cpp:134)
          UIntMax,   \* the largest value of an unsigned int
          Cfo,       \* the carrier frequency offset of the radio link
          Offsets    \* the estimates a window of unequal samples can give

M2 == M \div 2
M4 == M \div 4

(* M is a multiple of eight, and an unsigned int holds the sums of timers. *)
ASSUME SubcarrierAssumption == /\ M \in Nat \ {0} /\ M % 8 = 0
                               /\ UIntMax \in Nat /\ UIntMax >= 2 * M
ASSUME CounterAssumption == Timeout \in Nat /\ Wait \in Nat /\ Period \in Nat

(* The sample on which the search for a resync gives up, 1921 in the code, *)
(* is not one on which the window is evaluated, a multiple of M/4.         *)
ASSUME TimeoutAssumption == \A q \in 0..(Timeout + 1) : q * M4 # Timeout + 1

(* With M2 + 4 + Wait samples from an accepted STS to the next search, and *)
(* up to M4 more, the search is open when a frame period is over: in the   *)
(* code 21252 <= 22850 <= 22916.                                           *)
Opens == M2 + 4 + Wait
ASSUME PeriodAssumption == Opens + M4 <= Period /\ Period <= Opens + Timeout

ASSUME OffsetAssumption == Cfo \in Int /\ Offsets \subseteq Int

VARIABLES m_frameSyncState, m_timer, m_STS_detect_hit_upper_tresh,
          m_sync_STS_count, m_wait,
          m_freeze,        \* PhyIQDebug::m_freeze: freeze() has been called
          nco,             \* the frequency set in m_nco_rx
          age, found, verdict

control == <<m_STS_detect_hit_upper_tresh, m_sync_STS_count, m_wait,
             m_freeze, nco>>
vars == <<m_frameSyncState, m_timer, m_STS_detect_hit_upper_tresh,
          m_sync_STS_count, m_wait, m_freeze, nco, age, found, verdict>>

State == {"DETECT_STS", "SYNC_STS", "STS_0", "STS_1", "LTS", "RXSYMBOLS"}

(* Unsigned subtraction and addition.                                      *)
UInt(x) == IF x < 0 THEN x + UIntMax + 1 ELSE x

(* dt = round(arg(s_hat) * M2 / 2pi) and round(arg(...) * M4 / 2pi), with  *)
(* arg between -pi and pi.                                                 *)
Dt       == -M4 .. M4
TauPrime == -(M4 \div 2) .. M4 \div 2

TypeOK == /\ m_frameSyncState \in State
          /\ m_timer \in 0 .. (M + M2)
          /\ m_STS_detect_hit_upper_tresh \in BOOLEAN
          /\ m_sync_STS_count \in 0 .. Timeout
          /\ m_wait \in 0 .. (Wait + 1)
          /\ m_freeze \in BOOLEAN
          /\ nco \in Int
          /\ age \in Nat
          /\ found \in State
          /\ verdict \in {"none", "accepted"}

(* The constructor and reset_parameters().                                 *)
Init == /\ m_frameSyncState = "DETECT_STS"
        /\ m_timer = 0
        /\ m_STS_detect_hit_upper_tresh = FALSE
        /\ m_sync_STS_count = 0
        /\ m_wait = 0
        /\ m_freeze = FALSE
        /\ nco = 0
        /\ age = 0 /\ found = "DETECT_STS" /\ verdict = "none"

(* What every call does to the history variables.                          *)
Observe(v) ==
  /\ verdict' = v
  /\ age' = IF m_frameSyncState' \in {"DETECT_STS", "STS_0"} THEN 0 ELSE age + 1
  /\ found' = IF v = "accepted" THEN m_frameSyncState ELSE found

Evaluates == m_timer + 1 >= M4
-----------------------------------------------------------------------------
(* execute_detect_STS(): the window is evaluated every M/4 samples.        *)
DetectWait ==
  /\ m_frameSyncState = "DETECT_STS"
  /\ ~Evaluates
  /\ m_timer' = m_timer + 1
  /\ UNCHANGED <<m_frameSyncState, control>>
  /\ Observe("none")

DetectLow ==
  /\ m_frameSyncState = "DETECT_STS"
  /\ Evaluates
  /\ m_timer' = 0
  /\ m_STS_detect_hit_upper_tresh' = FALSE
  /\ UNCHANGED <<m_frameSyncState, m_sync_STS_count, m_wait, m_freeze, nco>>
  /\ Observe("none")

DetectHigh ==
  /\ m_frameSyncState = "DETECT_STS"
  /\ Evaluates
  /\ m_timer' = 0
  /\ m_STS_detect_hit_upper_tresh' = TRUE
  /\ UNCHANGED <<m_frameSyncState, m_sync_STS_count, m_wait, m_freeze, nco>>
  /\ Observe("none")

(* Between the thresholds, on the rising slope: this is the STS.           *)
DetectMid(dt) ==
  /\ m_frameSyncState = "DETECT_STS"
  /\ Evaluates
  /\ ~m_STS_detect_hit_upper_tresh
  /\ m_timer' = (UInt(M + dt) % M2) + M
  /\ m_frameSyncState' = "STS_0"
  /\ UNCHANGED control
  /\ Observe("accepted")

(* Between the thresholds, coming from above: the STS is nearly over.      *)
DetectFalling ==
  /\ m_frameSyncState = "DETECT_STS"
  /\ Evaluates
  /\ m_STS_detect_hit_upper_tresh
  /\ m_timer' = 0
  /\ UNCHANGED <<m_frameSyncState, control>>
  /\ Observe("none")
-----------------------------------------------------------------------------
(* Mutant: the search is timed in whole evaluation intervals.              *)
CountSyncWindows(st) ==
  /\ IF m_sync_STS_count + 1 >= (Timeout \div M4) * M4
       THEN /\ m_frameSyncState' = "DETECT_STS"
            /\ m_sync_STS_count' = 0
            /\ m_freeze' = TRUE
       ELSE /\ m_frameSyncState' = st
            /\ m_sync_STS_count' = m_sync_STS_count + 1
            /\ UNCHANGED m_freeze
  /\ UNCHANGED <<m_STS_detect_hit_upper_tresh, m_wait, nco>>

(* The SYNC_STS case of execute(), after execute_sync_STS() has left the   *)
(* machine in state st: count the sample, and give up after Timeout.       *)
CountSync(st) ==
  /\ IF m_sync_STS_count + 1 > Timeout
       THEN /\ m_frameSyncState' = "DETECT_STS"
            /\ m_sync_STS_count' = 0
            /\ m_freeze' = TRUE
       ELSE /\ m_frameSyncState' = st
            /\ m_sync_STS_count' = m_sync_STS_count + 1
            /\ UNCHANGED m_freeze
  /\ UNCHANGED <<m_STS_detect_hit_upper_tresh, m_wait, nco>>

SyncWait ==
  /\ m_frameSyncState = "SYNC_STS"
  /\ ~Evaluates
  /\ m_timer' = m_timer + 1
  /\ CountSync("SYNC_STS")
  /\ Observe("none")

SyncLow ==
  /\ m_frameSyncState = "SYNC_STS"
  /\ Evaluates
  /\ m_timer' = 0
  /\ CountSync("SYNC_STS")
  /\ Observe("none")

(* Above the lower threshold, "mid" or "high": this is the next STS.       *)
SyncHit ==
  /\ m_frameSyncState = "SYNC_STS"
  /\ Evaluates
  /\ m_timer' = M
  /\ CountSync("STS_0")
  /\ Observe("accepted")
-----------------------------------------------------------------------------
(* Mutant: the first estimate does not move the machine on.                *)
STSaStays ==
  /\ m_frameSyncState = "STS_0"
  /\ m_timer' = IF m_timer + 1 < M2 THEN m_timer + 1 ELSE 0
  /\ UNCHANGED <<m_frameSyncState, control>>
  /\ Observe("none")

(* execute_sync_STSa(): the first estimate, m_s_hat_0, once the timer has  *)
(* reached M/2.  It is there already when the state is entered.            *)
STSa ==
  /\ m_frameSyncState = "STS_0"
  /\ IF m_timer + 1 < M2
       THEN m_timer' = m_timer + 1 /\ UNCHANGED m_frameSyncState
       ELSE m_timer' = 0 /\ m_frameSyncState' = "STS_1"
  /\ UNCHANGED control
  /\ Observe("none")

(* execute_sync_STSb(): the second estimate, M/2 samples later.            *)
STSbWait ==
  /\ m_frameSyncState = "STS_1"
  /\ m_timer + 1 < M2
  /\ m_timer' = m_timer + 1
  /\ UNCHANGED <<m_frameSyncState, control>>
  /\ Observe("none")

(* |m_s_hat_1| < |m_s_hat_0| - 0.5: the frame was hit at its end.          *)
STSbFalling ==
  /\ m_frameSyncState = "STS_1"
  /\ m_timer + 1 >= M2
  /\ m_timer' = 0
  /\ m_STS_detect_hit_upper_tresh' = TRUE
  /\ m_freeze' = TRUE
  /\ m_frameSyncState' = "DETECT_STS"
  /\ UNCHANGED <<m_sync_STS_count, m_wait, nco>>
  /\ Observe("none")

(* The estimate nu_hat of the carrier frequency offset.  execute() mixes   *)
(* every sample down by the NCO, except in DETECT_STS: when all samples of *)
(* the window were mixed alike, what is left to measure is the rest.       *)
NuHat == IF found = "DETECT_STS" /\ nco # 0 THEN Offsets ELSE {Cfo - nco}

(* Mutant: the correction is computed on M/2 samples, not on M/4.          *)
STSbDouble(tau, nu) ==
  /\ m_frameSyncState = "STS_1"
  /\ m_timer + 1 >= M2
  /\ m_timer' = UInt(M4 \div 2 - 2 * tau)
  /\ nco' = nu
  /\ m_frameSyncState' = "LTS"
  /\ UNCHANGED <<m_STS_detect_hit_upper_tresh, m_sync_STS_count, m_wait,
                 m_freeze>>
  /\ Observe("none")

STSb(tau, nu) ==
  /\ m_frameSyncState = "STS_1"
  /\ m_timer + 1 >= M2
  /\ m_timer' = UInt(M4 \div 2 - tau)
  /\ nco' = nu
  /\ m_frameSyncState' = "LTS"
  /\ UNCHANGED <<m_STS_detect_hit_upper_tresh, m_sync_STS_count, m_wait,
                 m_freeze>>
  /\ Observe("none")
-----------------------------------------------------------------------------
(* The LTS case of execute(): the rest of the STS runs out.                *)
LTSWait ==
  /\ m_frameSyncState = "LTS"
  /\ m_timer > 0
  /\ m_timer' = m_timer - 1
  /\ UNCHANGED <<m_frameSyncState, control>>
  /\ Observe("none")

LTSDone ==
  /\ m_frameSyncState = "LTS"
  /\ m_timer = 0
  /\ m_frameSyncState' = "RXSYMBOLS"
  /\ UNCHANGED <<m_timer, control>>
  /\ Observe("none")

(* Mutant: the payload is taken to be half a symbol longer.                *)
WaitOverLate == m_wait > Wait + M2

(* Mutant: the payload is taken to be a quarter of a symbol shorter.       *)
WaitOverEarly == m_wait > Wait - M4

(* The RXSYMBOLS case of execute(): the payload is waited out.             *)
WaitOver == m_wait > Wait

RxWait ==
  /\ m_frameSyncState = "RXSYMBOLS"
  /\ ~WaitOver
  /\ m_wait' = m_wait + 1
  /\ UNCHANGED <<m_frameSyncState, m_timer, m_STS_detect_hit_upper_tresh,
                 m_sync_STS_count, m_freeze, nco>>
  /\ Observe("none")

(* Mutant: the count of the previous search goes on.                       *)
RxDoneKeepsCount ==
  /\ m_frameSyncState = "RXSYMBOLS"
  /\ WaitOver
  /\ m_wait' = 0
  /\ m_timer' = 0
  /\ m_frameSyncState' = "SYNC_STS"
  /\ UNCHANGED <<m_STS_detect_hit_upper_tresh, m_sync_STS_count, m_freeze, nco>>
  /\ Observe("none")

RxDone ==
  /\ m_frameSyncState = "RXSYMBOLS"
  /\ WaitOver
  /\ m_wait' = 0
  /\ m_timer' = 0
  /\ m_sync_STS_count' = 0
  /\ m_frameSyncState' = "SYNC_STS"
  /\ UNCHANGED <<m_STS_detect_hit_upper_tresh, m_freeze, nco>>
  /\ Observe("none")

(* One call of execute().                                                  *)
Next == \/ DetectWait \/ DetectLow \/ DetectHigh \/ DetectFalling
        \/ \E dt \in Dt : DetectMid(dt)
        \/ SyncWait \/ SyncLow \/ SyncHit
        \/ STSa
        \/ STSbWait \/ STSbFalling
        \/ \E tau \in TauPrime : \E nu \in NuHat : STSb(tau, nu)
        \/ LTSWait \/ LTSDone \/ RxWait \/ RxDone

SafeSpec == Init /\ [][Next]_vars

(* Samples keep arriving while the radio streams.                          *)
Spec == SafeSpec /\ WF_vars(Next)
-----------------------------------------------------------------------------
(* Between an accepted STS and the end of the next search every sample is  *)
(* accounted for: the timers of the five states add up to the age of the   *)
(* frame, up to the M/4 samples by which the STS may be corrected.  A      *)
(* counter that is not reset, or one that wraps, breaks the sum.           *)
FrameClock ==
  /\ m_frameSyncState \in {"DETECT_STS", "STS_0"} => age = 0
  /\ m_frameSyncState = "STS_1" => age = m_timer + 1
  /\ m_frameSyncState = "LTS" =>
       age + m_timer \in (M2 + 1) .. (M2 + 1 + M4)
  /\ m_frameSyncState = "RXSYMBOLS" =>
       age - m_wait \in (M2 + 2) .. (M2 + 2 + M4)
  /\ m_frameSyncState = "SYNC_STS" =>
       age - m_sync_STS_count \in Opens .. (Opens + M4)

(* When a frame period has passed since an STS was accepted, the receiver  *)
(* is searching for the next one: it is not still waiting out the payload, *)
(* and the search has not timed out.  (FRAMESYNC_STATE_SYNC_STS against    *)
(* the base station's framestart += 22850.)                                *)
SearchOpenAtPeriod == age = Period => m_frameSyncState = "SYNC_STS"

(* An STS that execute_sync_STS() or execute_detect_STS() accepted is      *)
(* followed up: the timeout of the search, tested later in the same call,  *)
(* does not throw it away.                                                 *)
AcceptedIsKept == verdict = "accepted" => m_frameSyncState = "STS_0"

(* The receiver is stuck in no state: as long as samples arrive, every     *)
(* frame it follows ends in a new search, and every search ends.           *)
KeepsMoving == \A st \in State \ {"DETECT_STS"} :
  m_frameSyncState = st ~> m_frameSyncState # st

(* The comment of line 306, "correct for carrier frequency offset": from   *)
(* the estimate on, samples are mixed down by the offset of the link.      *)
CorrectsOffset ==
  m_frameSyncState \in {"LTS", "RXSYMBOLS", "SYNC_STS"} => nco = Cfo
=============================================================================
