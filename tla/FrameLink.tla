------------------------------ MODULE FrameLink ------------------------------
(***************************************************************************)
(* The radio link from the base station to the receiver: PhyThread in mode *)
(* BASESTATION hands a short training symbol (STS) to the radio every      *)
(* Period samples and nothing in between; PhyThread in mode CPE passes     *)
(* every sample it receives to the synchroniser, PhyFrameSync::execute().  *)
(*                                                                         *)
(* A step is one sample: the air moves on, and the synchroniser takes the  *)
(* sample.  PhyFrameSync leaves open what an evaluation of the window      *)
(* says; here it follows from where in the frame the window is.  A frame   *)
(* may fade away, and the device may overrun: then samples are missing     *)
(* between two frames and the receiver takes the next one it gets.         *)
(***************************************************************************)
EXTENDS PhyFrameSync

CONSTANTS Slopes,     \* pairs: the samples of the STS in the window that reach
                      \* the lower and the upper threshold
          Deviation,  \* by how many samples a timing estimate can be wrong
          Gaps,       \* the numbers of samples an overrun may lose
          MaxFaults   \* bound: the frames that fade and the overruns, together

(* The thresholds lie on the first three quarters of the slope, the lower  *)
(* one on the first half.                                                  *)
ASSUME SlopeAssumption ==
  Slopes \subseteq {s \in (1 .. M2 - 1) \X (1 .. M - M4) : s[1] < s[2]}
ASSUME LinkAssumption == /\ Deviation \in 0 .. M4 \div 2
                         /\ Gaps \subseteq Nat \ {0}
                         /\ MaxFaults \in Nat
                         /\ Period > 3 * M /\ Wait >= 2 * M

VARIABLES
  m_s_hat_0,     \* |m_s_hat_0| of STS_0 for STS_1, as samples of the STS
  position,      \* of the newest sample of the window, from the first of the STS
  faded,         \* this frame does not reach the receiver
  slope,         \* the pair of Slopes that holds on this link
  caught,        \* where in this frame its STS was accepted
  caughtBefore,  \* where in the frame before
  lost,          \* samples lost in overruns since then
  faults         \* frames faded and overruns so far

link == <<m_s_hat_0, position, faded, slope, caught, caughtBefore, lost, faults>>
allVars == <<vars, link>>

None == -1
Fault(n) == faults + n <= MaxFaults /\ faults' = faults + n

-----------------------------------------------------------------------------
(* What the window says.  It holds the last M samples, and the metric      *)
(* |s_hat| grows with the samples of the STS among them (STS_metrics()).   *)
Overlap(p) == IF p < 0 THEN 0 ELSE IF p < M THEN p + 1 ELSE IF p < 2 * M THEN 2 * M - 1 - p ELSE 0

Metric(p, fades) == IF fades THEN 0 ELSE Overlap(p)

Level(p, fades) == IF Metric(p, fades) <= slope[1] THEN "low"
                   ELSE IF Metric(p, fades) < slope[2] THEN "mid" ELSE "high"

(* Only every fourth subcarrier is used: the STS repeats every M/4 samples *)
(* and its phase says where the window starts in that interval.            *)
Estimates(p, fades) ==
  IF Level(p, fades) = "low" THEN TauPrime
  ELSE {tau \in TauPrime : \E e \in -Deviation .. Deviation : (tau - (p + 1 + e)) % M4 = 0}

-----------------------------------------------------------------------------
LinkInit ==
  /\ Init
  /\ m_s_hat_0 = 0
  /\ position \in 0 .. Period - 1 /\ faded = FALSE
  /\ slope \in Slopes
  /\ caught = None /\ caughtBefore = None
  /\ lost = 0 /\ faults = 0

(* execute() of the sample at p.  In STS_1 the metric is compared with     *)
(* that of STS_0: a small fall may pass the 0.5 that the code allows, one  *)
(* as large as the lower threshold (2.0) is seen.                          *)
Takes(p, fades) ==
  \/ DetectWait \/ SyncWait \/ STSa \/ STSbWait
  \/ LTSWait \/ LTSDone \/ RxWait \/ RxDone
  \/ Level(p, fades) = "low"  /\ (DetectLow \/ SyncLow)
  \/ Level(p, fades) = "mid"  /\ \/ DetectFalling
                                 \/ \E tau \in Estimates(p, fades) : DetectMid(2 * tau)
  \/ Level(p, fades) = "high" /\ DetectHigh
  \/ Level(p, fades) # "low"  /\ SyncHit
  \/ Metric(p, fades) < m_s_hat_0 /\ STSbFalling
  \/ /\ Metric(p, fades) + slope[1] > m_s_hat_0
     /\ \E tau \in Estimates(p, fades) : \E nu \in NuHat : STSb(tau, nu)

Execute(p, fades) ==
  /\ Takes(p, fades)
  /\ m_s_hat_0' = IF m_frameSyncState' # "STS_1" THEN 0
                  ELSE IF m_frameSyncState = "STS_0" THEN Metric(p, fades) ELSE m_s_hat_0

(* Where the STS of this frame was accepted, as long as it is followed up. *)
Catch(before) == IF m_frameSyncState' = "DETECT_STS" THEN None
                 ELSE IF verdict' = "accepted" THEN position' ELSE before

(* The next sample of the same frame.                                      *)
SameFrame ==
  /\ position < Period - 1
  /\ position' = position + 1
  /\ Execute(position + 1, faded)
  /\ caught' = Catch(caught)
  /\ IF position = 2 * M
       THEN caughtBefore' = None /\ lost' = 0
       ELSE UNCHANGED <<caughtBefore, lost>>
  /\ UNCHANGED <<faded, slope, faults>>

(* The first sample of the next frame (framestart += 22850).               *)
NextFrame ==
  /\ position = Period - 1
  /\ position' = 0
  /\ \/ faded' = FALSE /\ Fault(0)
     \/ faded' = TRUE /\ Fault(1)
  /\ Execute(0, faded')
  /\ caughtBefore' = caught /\ caught' = None
  /\ UNCHANGED <<slope, lost>>

(* The device overruns between two frames: the next sample is a later one  *)
(* (timestampFirstSample of the block is not the one expected).            *)
Overrun ==
  /\ position > 2 * M
  /\ \E gap \in Gaps :
       /\ position + 1 + gap < Period - M2
       /\ position' = position + 1 + gap
       /\ lost' = lost + gap
       /\ Execute(position', faded)
  /\ caught' = Catch(caught)
  /\ Fault(1)
  /\ UNCHANGED <<faded, slope, caughtBefore>>

LinkNext == SameFrame \/ NextFrame \/ Overrun

(* Samples keep arriving, and the faults come to an end.                   *)
LinkSpec == LinkInit /\ [][LinkNext]_allVars /\ WF_allVars(LinkNext)

-----------------------------------------------------------------------------
LinkTypeOK ==
  /\ TypeOK
  /\ m_s_hat_0 \in 0 .. M
  /\ position \in 0 .. Period - 1 /\ faded \in BOOLEAN /\ slope \in Slopes
  /\ {caught, caughtBefore} \subseteq {None} \cup 0 .. 2 * M - 2
  /\ lost \in Nat /\ faults \in 0 .. MaxFaults

(* An STS accepted at p is followed by a search that evaluates the window  *)
(* K times; the last time, in the next frame, at one of LastChances(p).    *)
(* In the code 256 * a + 64, a being (p + 2) / 256 to the nearest integer. *)
K == Timeout \div M4

LastChances(p) ==
  {M4 * x[1] + (M4 * (K + 2) + 2 + Wait + M4 \div 2 - Period) - x[2] :
     x \in {y \in (0 .. 9) \X (-Deviation .. Deviation) :
               LET rest == p + 2 + y[2] - M4 * y[1]
               IN  -(M4 \div 2) <= rest /\ rest <= M4 \div 2}}

(* The search reaches the STS on slope s, n samples having been lost: its  *)
(* last evaluation comes on the slope or behind it, its first before.      *)
Reaches(p, n, s) ==
  \A c \in LastChances(p) : c + n >= s[1] /\ c + n - (K - 1) * M4 < s[1] + M4

(* The slopes that the next search cannot just miss, wherever on them the  *)
(* STS was accepted.  In the code a slope is one of them unless its lower  *)
(* end lies 65 to 126 samples behind a multiple of 256 from the STS.       *)
SteadySlopes == {s \in Slopes : \A p \in s[1] .. s[2] + M4 : Reaches(p, 0, s)}

(* A receiver that was on a frame does not lose the next one, for all the  *)
(* corrections of its timers and for the samples lost in between, as long  *)
(* as the search it will make reaches the STS.                             *)
FollowsFrames ==
  /\ position = 2 * M /\ ~faded
  /\ caughtBefore # None
  /\ caught = None
  => ~Reaches(caughtBefore, lost, slope)

(* The receiver is on the frames of the base station: it accepted the last *)
(* STS on the first evaluation that reached the slope, and nothing has     *)
(* been lost since.                                                        *)
FirstOnSlope == slope[1] .. slope[1] + M4 - 1

Following ==
  /\ ~faded /\ lost = 0
  /\ IF position <= 2 * M
     THEN /\ caughtBefore \in FirstOnSlope
          /\ position >= slope[1] + M4 => caught \in FirstOnSlope
     ELSE caught \in FirstOnSlope

(* It stays on them as long as no frame fades and nothing is lost, however *)
(* the estimates are off: each corrects the next search, and none carries  *)
(* it out of the next slope.  This is what Locks rests on once the         *)
(* receiver has found the frames.                                          *)
StaysOnFrames ==
  [][Following /\ slope \in SteadySlopes /\ faults' = faults => Following']_allVars

(* Whatever was lost and wherever the receiver started: on a steady slope  *)
(* it is in the end on the frames of the base station and stays on them.   *)
(* It needs a period that is no multiple of M/4, or DETECT_STS could look  *)
(* at the same places of every frame and always miss the slope.            *)
Locks == slope \in SteadySlopes => <>[](position = 2 * M => caught # None)
=============================================================================
