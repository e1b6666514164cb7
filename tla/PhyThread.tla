------------------------------ MODULE PhyThread ------------------------------
(***************************************************************************)
(* The PHY thread on its own radio, as `radio_test -p` runs it: run() of   *)
(* PhyThread in the modes CPE and BASESTATION (src/phy/PhyThread.cpp),     *)
(* with the driver LimeRadio, the frame generator PhyFrameGen, the debug   *)
(* buffer PhyIQDebug and the thread warta() that stops it after a while.   *)
(*                                                                         *)
(* run() is called by main() itself, so main says where both stand.  The   *)
(* device is external: it delivers numbered samples, and its clock ticks   *)
(* once per sample.  The synchroniser is a box here that may freeze the    *)
(* debug buffer on any sample; PhyFrameSync is its module.                 *)
(***************************************************************************)
EXTENDS Integers, Sequences, SequencesExt

CONSTANTS
  Modes,         \* the modes of radio_test -p that are considered
  m_rxSampleCnt, \* samples LMS_RecvStream is asked for: 1300
  m_txSampleCnt, \* samples the transmit buffer holds: 1300
  M, Cp,         \* subcarriers and cyclic prefix: 1024 and 256
  BufferLength,  \* IQDEBUG_BUFFER_LENGTH: 350000
  FreezePeriod,  \* IQDEBUG_FREEZE_PERIOD: 50000
  Period,        \* samples from one frame to the next: 22850
  Lead,          \* a frame is prepared this long before it starts: 10000
  HostDelay,     \* bound: clock ticks between two steps of the base station
  Clock,         \* bound: the device delivers the samples 1 .. Clock
  MaxGap         \* bound: the samples one overrun loses

ASSUME ModeAssumption == Modes \subseteq {"CPE", "BASESTATION"}
ASSUME BlockAssumption ==
  /\ {m_rxSampleCnt, M} \subseteq Nat \ {0} /\ {Cp, m_txSampleCnt} \subseteq Nat
  /\ Cp <= M /\ M + Cp <= m_txSampleCnt
  /\ {Clock, MaxGap} \subseteq Nat
ASSUME DebugAssumption ==
  {BufferLength, FreezePeriod} \subseteq Nat \ {0} /\ FreezePeriod <= BufferLength

(* A host that reacts within a quarter of the lead, and a lead within the  *)
(* period.  With the numbers of the code a quarter is 2500 samples, 1.1 ms.*)
ASSUME ScheduleAssumption ==
  /\ {Period, Lead, HostDelay} \subseteq Nat
  /\ 4 * HostDelay <= Lead /\ Lead < Period

VARIABLES
  mode,                     \* m_phyMode
  main, warta,              \* where the two threads of the program stand
  stopping, m_isPhyRunning, \* PhyThread's flags
  m_isRX, gpio_val,         \* the radio's direction; its GPIO pins that are high
  clock,                    \* the device's next sample
  m_iqbuffer_rx,            \* the receive buffer
  m_currentSampleTimestamp,
  alarm,                    \* the last turn reported lost samples
  m_freeze, m_stopped, m_freeze_period, m_IQDebugData,  \* PhyIQDebug
  m_iqbuffer_tx,            \* the samples in the transmit buffer
  ahead,                    \* m_framestart_timestamp minus the device's clock
  idle,                     \* clock ticks since the base station's last step
  executed, lost, frozenAt  \* history: samples processed, samples lost, freeze

flags    == <<stopping, m_isPhyRunning>>
radio    == <<m_isRX, gpio_val>>
receiver == <<clock, m_iqbuffer_rx, m_currentSampleTimestamp, alarm, executed, lost>>
debug    == <<m_freeze, m_stopped, m_freeze_period, m_IQDebugData, frozenAt>>
sender   == <<m_iqbuffer_tx, ahead, idle>>
vars     == <<mode, main, warta, flags, radio, receiver, debug, sender>>

-----------------------------------------------------------------------------
(* The GPIO pins of the front end, and what the modes ask for.             *)
Relay == 0
PA    == 1
m_setGPIORX   == {}
m_setGPIOTX6m == {0, 1}

(* The code combines pin masks with the logical ||: the value written is 1 *)
(* when either mask is not zero.                                           *)
LogicalOr(p, q) == IF p \cup q = {} THEN {} ELSE {0}

Init ==
  /\ mode \in Modes
  /\ main = "start" /\ warta = "poll"
  /\ stopping = FALSE /\ m_isPhyRunning \in BOOLEAN   \* never initialised
  /\ m_isRX = TRUE /\ gpio_val = LogicalOr(m_setGPIORX, {5})
  /\ clock = 1 /\ m_iqbuffer_rx = [timestampFirstSample |-> 0, data |-> <<>>]
  /\ m_currentSampleTimestamp = 0 /\ alarm = FALSE
  /\ m_freeze = FALSE /\ m_stopped = FALSE
  /\ m_freeze_period = FreezePeriod /\ m_IQDebugData = <<>>
  /\ m_iqbuffer_tx = <<>> /\ ahead = 0 /\ idle = 0
  /\ executed = <<>> /\ lost = {} /\ frozenAt = 0

(* A step of main(), which in BASESTATION the device's clock waits for.    *)
Main(here, there) ==
  /\ main = here /\ main' = there
  /\ idle' = 0
  /\ UNCHANGED <<mode, warta>>

-----------------------------------------------------------------------------
(* run(), up to and after the loops.                                       *)

(* Mutant: run() never announces itself.                                   *)
BeginSilent ==
  /\ Main("start", IF mode = "CPE" THEN "rx" ELSE "first")
  /\ UNCHANGED <<flags, radio, receiver, debug, m_iqbuffer_tx, ahead>>

Begin ==
  /\ Main("start", IF mode = "CPE" THEN "rx" ELSE "first")
  /\ m_isPhyRunning' = TRUE
  /\ UNCHANGED <<stopping, radio, receiver, debug, m_iqbuffer_tx, ahead>>

LoopTest ==
  /\ Main("loop", CASE stopping      -> "end"
                    [] mode = "CPE"  -> "receive"
                    [] OTHER         -> "generate")
  /\ UNCHANGED <<flags, radio, receiver, debug, m_iqbuffer_tx, ahead>>

End ==
  /\ Main("end", "join")
  /\ m_isPhyRunning' = FALSE
  /\ UNCHANGED <<stopping, radio, receiver, debug, m_iqbuffer_tx, ahead>>

(* main() waits for warta() and deletes the object; the debug buffer goes  *)
(* with it, dumped to its file.                                            *)
Join ==
  /\ Main("join", "delete")
  /\ warta = "done"
  /\ UNCHANGED <<flags, radio, receiver, debug, m_iqbuffer_tx, ahead>>

Delete ==
  /\ Main("delete", "over")
  /\ stopping' = TRUE
  /\ m_stopped' = TRUE /\ m_freeze' = TRUE
  /\ m_IQDebugData' = <<>>
  /\ UNCHANGED <<m_isPhyRunning, radio, receiver, m_freeze_period, frozenAt,
                 m_iqbuffer_tx, ahead>>

-----------------------------------------------------------------------------
(* CPE: one turn of the loop.                                              *)
SetHwRx ==
  /\ Main("rx", "loop")
  /\ m_isRX' = TRUE
  /\ gpio_val' = LogicalOr(m_setGPIORX, {5})
  /\ UNCHANGED <<flags, receiver, debug, m_iqbuffer_tx, ahead>>

(* receive_IQ_data(): the buffer is cleared, then filled with what the     *)
(* device delivers, perhaps after a gap.                                   *)
Receive(gap, samplesRead) ==
  LET first == clock + gap IN
  /\ Main("receive", "check")
  /\ m_isRX
  /\ first + samplesRead - 1 <= Clock
  /\ clock' = first + samplesRead
  /\ lost' = lost \cup clock .. first - 1
  /\ m_iqbuffer_rx' = [timestampFirstSample |-> first,
                       data |-> [i \in 1 .. samplesRead |-> first + i - 1]]
  /\ UNCHANGED <<flags, radio, m_currentSampleTimestamp, alarm, executed, debug,
                 m_iqbuffer_tx, ahead>>

(* Mutant: the buffer is cleared only when samples arrived.                *)
TimeoutKeepsData(stamp) ==
  /\ Main("receive", "check")
  /\ m_isRX
  /\ m_iqbuffer_rx' = [m_iqbuffer_rx EXCEPT !.timestampFirstSample = stamp]
  /\ UNCHANGED <<flags, radio, clock, m_currentSampleTimestamp, alarm, executed, lost,
                 debug, m_iqbuffer_tx, ahead>>

(* No sample within 100 ms: an empty buffer.  The timestamp is what the    *)
(* device left in the metadata: that of the last block, or nothing.        *)
Timeout(stamp) ==
  /\ Main("receive", "check")
  /\ m_isRX
  /\ m_iqbuffer_rx' = [timestampFirstSample |-> stamp, data |-> <<>>]
  /\ UNCHANGED <<flags, radio, clock, m_currentSampleTimestamp, alarm, executed, lost,
                 debug, m_iqbuffer_tx, ahead>>

(* Mutant: the timestamp is taken over before it is compared.              *)
CheckAfter ==
  /\ Main("check", "samples")
  /\ m_currentSampleTimestamp' = m_iqbuffer_rx.timestampFirstSample
  /\ alarm' = (m_currentSampleTimestamp' # m_iqbuffer_rx.timestampFirstSample)
  /\ UNCHANGED <<flags, radio, clock, m_iqbuffer_rx, executed, lost, debug,
                 m_iqbuffer_tx, ahead>>

(* "lost samples !!!" when the block is not the continuation of the last.  *)
Check ==
  /\ Main("check", "samples")
  /\ alarm' = (m_currentSampleTimestamp # m_iqbuffer_rx.timestampFirstSample)
  /\ m_currentSampleTimestamp' = m_iqbuffer_rx.timestampFirstSample
  /\ UNCHANGED <<flags, radio, clock, m_iqbuffer_rx, executed, lost, debug,
                 m_iqbuffer_tx, ahead>>

(* The position in the buffer of the sample the loop has come to.          *)
Position == m_currentSampleTimestamp - m_iqbuffer_rx.timestampFirstSample + 1

(* freeze(), which the synchroniser may call.                              *)
Freeze(freezes, sample) ==
  /\ m_freeze' = (m_freeze \/ freezes)
  /\ frozenAt' = IF freezes /\ ~m_freeze THEN sample ELSE frozenAt

(* The debug buffer keeps the newest samples.                              *)
Ring(samples) == IF Len(samples) > BufferLength THEN Tail(samples) ELSE samples

(* Mutant: a second freeze() starts the period anew.                       *)
PushIqRestarts(freezes, sample) ==
  IF m_stopped
    THEN UNCHANGED <<m_stopped, m_freeze_period, m_IQDebugData>>
    ELSE /\ m_IQDebugData' = Ring(Append(m_IQDebugData, sample))
         /\ m_freeze_period' = IF freezes THEN FreezePeriod - 1
                               ELSE IF m_freeze' THEN m_freeze_period - 1
                               ELSE m_freeze_period
         /\ m_stopped' = (m_freeze_period' = 0)

(* push_iq(), after the synchroniser has had its turn.                     *)
PushIq(freezes, sample) ==
  IF m_stopped
    THEN UNCHANGED <<m_stopped, m_freeze_period, m_IQDebugData>>
    ELSE /\ m_IQDebugData' = Ring(Append(m_IQDebugData, sample))
         /\ m_freeze_period' = IF m_freeze' THEN m_freeze_period - 1 ELSE m_freeze_period
         /\ m_stopped' = (m_freeze_period' = 0)

(* One sample: the synchroniser, the debug buffer, the next timestamp.     *)
Sample(freezes) ==
  /\ Main("samples", "samples")
  /\ Position \in DOMAIN m_iqbuffer_rx.data
  /\ LET sample == m_iqbuffer_rx.data[Position] IN
     /\ executed' = Append(executed, <<m_currentSampleTimestamp, sample>>)
     /\ Freeze(freezes, sample)
     /\ PushIq(freezes, sample)
  /\ m_currentSampleTimestamp' = m_currentSampleTimestamp + 1
  /\ UNCHANGED <<flags, radio, clock, m_iqbuffer_rx, alarm, lost, m_iqbuffer_tx, ahead>>

SamplesDone ==
  /\ Main("samples", "loop")
  /\ Position > Len(m_iqbuffer_rx.data)
  /\ UNCHANGED <<flags, radio, receiver, debug, m_iqbuffer_tx, ahead>>

-----------------------------------------------------------------------------
(* BASESTATION: one frame per turn of the loop.                            *)
FirstFrame ==
  /\ Main("first", "tx")
  /\ ahead' = Period
  /\ UNCHANGED <<flags, radio, receiver, debug, m_iqbuffer_tx>>

SetHwTx ==
  /\ Main("tx", "loop")
  /\ m_isRX' = FALSE
  /\ gpio_val' = LogicalOr(m_setGPIOTX6m, {6})
  /\ UNCHANGED <<flags, receiver, debug, m_iqbuffer_tx, ahead>>

(* Mutant: genSymbol() appends to what the buffer holds, twice.            *)
GenerateTwice ==
  /\ Main("generate", "send")
  /\ m_iqbuffer_tx' = [s \in 1 .. 2 * (M + Cp) |-> s - 1]
  /\ UNCHANGED <<flags, radio, receiver, debug, ahead>>

(* create_STS_symbol(): the buffer gets m_x[0] to m_x[M + Cp - 1], by the  *)
(* index; m_x has M elements.                                              *)
Generate ==
  /\ Main("generate", "send")
  /\ m_iqbuffer_tx' = [s \in 1 .. M + Cp |-> s - 1]
  /\ UNCHANGED <<flags, radio, receiver, debug, ahead>>

(* send_IQ_data(), and the start of the next frame.  It sends in transmit  *)
(* mode only, and gives up when the buffer is too small.                   *)
Sends == ~m_isRX /\ Len(m_iqbuffer_tx) <= m_txSampleCnt

Send ==
  /\ Main("send", "wait")
  /\ m_iqbuffer_tx' = IF Sends THEN <<>> ELSE m_iqbuffer_tx
  /\ ahead' = ahead + Period
  /\ UNCHANGED <<flags, radio, receiver, debug>>

(* Mutant: the lead is subtracted from the clock, not added.               *)
TooEarlyMinus == ahead + Lead > 0

(* The wait for the next frame: rx_timestamp + 10000 < framestart.         *)
TooEarly == ahead > Lead

WaitForFrame ==
  /\ Main("wait", IF TooEarly THEN "wait" ELSE "loop")
  /\ UNCHANGED <<flags, radio, receiver, debug, m_iqbuffer_tx, ahead>>

(* The device's clock.                                                     *)
Tick ==
  /\ main \in {"tx", "loop", "generate", "send", "wait"} /\ mode = "BASESTATION"
  /\ idle < HostDelay
  /\ ahead' = ahead - 1
  /\ idle' = idle + 1
  /\ UNCHANGED <<mode, main, warta, flags, radio, receiver, debug, m_iqbuffer_tx>>

-----------------------------------------------------------------------------
(* warta(): wait until the thread runs, sleep, stop it.                    *)
AwaitRunning ==
  /\ warta = "poll" /\ m_isPhyRunning
  /\ warta' = "sleep"
  /\ UNCHANGED <<mode, main, flags, radio, receiver, debug, sender>>

StopPhy ==
  /\ warta = "sleep"
  /\ warta' = "done"
  /\ stopping' = TRUE
  /\ UNCHANGED <<mode, main, m_isPhyRunning, radio, receiver, debug, sender>>

-----------------------------------------------------------------------------
LastStamp == {0, m_iqbuffer_rx.timestampFirstSample}

MainStep ==
  \/ Begin \/ LoopTest \/ End \/ Join \/ Delete
  \/ SetHwRx \/ Check \/ SamplesDone
  \/ \E gap \in 0 .. MaxGap, samplesRead \in 1 .. m_rxSampleCnt : Receive(gap, samplesRead)
  \/ \E stamp \in LastStamp : Timeout(stamp)
  \/ \E freezes \in BOOLEAN : Sample(freezes)
  \/ FirstFrame \/ SetHwTx \/ Generate \/ Send \/ WaitForFrame

WartaStep == AwaitRunning \/ StopPhy

Next == MainStep \/ WartaStep \/ Tick

SafeSpec == Init /\ [][Next]_vars

(* Both threads are scheduled (LMS_RecvStream has a timeout, sleep_for     *)
(* ends), and the device's clock runs while the stream is on.              *)
Fairness == WF_vars(MainStep) /\ WF_vars(WartaStep) /\ WF_vars(Tick)

Spec == SafeSpec /\ Fairness

-----------------------------------------------------------------------------
SampleNo == 1 .. Clock
RunStates == {"rx", "receive", "check", "samples", "first", "tx", "loop", "generate",
              "send", "wait", "end"}

(* Types and bounds: the debug ring and the transmit buffer never exceed   *)
(* their sizes, the freeze period does not wrap below zero.                *)
TypeOK ==
  /\ mode \in Modes /\ main \in RunStates \cup {"start", "join", "delete", "over"}
  /\ warta \in {"poll", "sleep", "done"}
  /\ {stopping, m_isPhyRunning, m_isRX, alarm, m_freeze, m_stopped} \subseteq BOOLEAN
  /\ gpio_val \subseteq 0 .. 7
  /\ clock \in 1 .. Clock + 1
  /\ m_iqbuffer_rx.timestampFirstSample \in 0 .. Clock
  /\ m_iqbuffer_rx.data \in Seq(SampleNo)
  /\ m_currentSampleTimestamp \in 0 .. Clock + 1
  /\ m_freeze_period \in 0 .. FreezePeriod
  /\ m_IQDebugData \in Seq(SampleNo) /\ Len(m_IQDebugData) <= BufferLength
  /\ m_iqbuffer_tx \in Seq(Nat) /\ Len(m_iqbuffer_tx) <= m_txSampleCnt
  /\ ahead \in -HostDelay .. 2 * Period /\ idle \in 0 .. HostDelay
  /\ executed \in Seq(SampleNo \X SampleNo)
  /\ lost \subseteq SampleNo /\ frozenAt \in 0 .. Clock

(* The synchroniser gets the samples in the order of the device, none      *)
(* twice, each with the device's timestamp, over timeouts and overruns     *)
(* (CPE, lines 193 to 219, with receive_IQ_data()).                        *)
Stamped ==
  /\ \A i \in DOMAIN executed : executed[i][1] = executed[i][2]
  /\ \A i, j \in DOMAIN executed : i < j => executed[i][2] < executed[j][2]

(* No loss goes unreported: a block that does not continue the samples     *)
(* processed before it raises the alarm, also when empty blocks lie        *)
(* between them.                                                           *)
LossReported ==
  LET data == m_iqbuffer_rx.data IN
  main = "samples" /\ executed # <<>> /\ Position = 1 /\ data # <<>> =>
    (data[1] # Last(executed)[2] + 1 => alarm)

(* A frozen debug buffer stops with the freezing sample in it, and with    *)
(* exactly the freeze period from that sample on, however often the        *)
(* synchroniser freezes it again ("the iq data collection is running for   *)
(* the freeze period and then stops").                                     *)
FreezeWindow ==
  m_stopped /\ main # "over" =>
    /\ Len(m_IQDebugData) >= FreezePeriod
    /\ m_IQDebugData[Len(m_IQDebugData) - FreezePeriod + 1] = frozenAt

(* With a host as fast as assumed, every frame reaches the radio before    *)
(* its time comes, and none more than a period early (the arithmetic of    *)
(* lines 96, 134 and 140).                                                 *)
OnTime == main = "send" => ahead \in 1 .. Period

(* The program ends: warta() sees the thread run, its stop() ends run() in *)
(* either mode, and main() joins and deletes.                              *)
ProgramEnds == <>(main = "over")

-----------------------------------------------------------------------------
(* "GPIO0=LOW - RX, GPIO1=LOW - PA off" and "GPIO0=HIGH - TX, GPIO1=HIGH   *)
(* - PA on" (LimeRadio.cpp): in the loops of run() the pins are those of   *)
(* the direction.                                                          *)
PinsFollowDirection ==
  main = "loop" => /\ (Relay \in gpio_val) = ~m_isRX
                   /\ (PA \in gpio_val) = ~m_isRX
=============================================================================
