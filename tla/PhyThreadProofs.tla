--------------------------- MODULE PhyThreadProofs ---------------------------
(***************************************************************************)
(* Proofs about PhyThread for every block length, debug buffer, frame      *)
(* period and lead that satisfy the assumptions of that module.            *)
(***************************************************************************)
EXTENDS PhyThread, TLAPS

(* How far ahead of the clock the base station is, in each place of its    *)
(* loop.  A tick moves one unit from ahead to idle; a step clears idle.    *)
Schedule ==
  /\ ahead \in Int /\ idle \in 0 .. HostDelay
  /\ mode = "BASESTATION" =>
       /\ main \notin {"rx", "receive", "check", "samples"}
       /\ main = "tx" => ahead + idle = Period
       /\ main = "loop" => ahead + idle > Lead - HostDelay /\ ahead <= Period
       /\ main = "generate" => ahead + idle > Lead - 2 * HostDelay /\ ahead <= Period
       /\ main = "send" => ahead + idle > Lead - 3 * HostDelay /\ ahead <= Period
       /\ main = "wait" => ahead + idle > Lead /\ ahead <= 2 * Period
       /\ main \in {"end", "join", "delete", "over"} =>
            ahead \in -HostDelay .. 2 * Period
  /\ mode = "CPE" => ahead = 0 /\ main \notin {"first", "tx", "generate", "send", "wait"}
  /\ main \in {"start", "first"} => ahead = 0
  /\ mode \in {"CPE", "BASESTATION"}

(* The blocks: a buffer holds consecutive samples of the device, and its   *)
(* position is what is left to process.                                    *)
Blocks ==
  /\ clock \in 1 .. Clock + 1
  /\ m_iqbuffer_rx.timestampFirstSample \in 0 .. Clock
  /\ m_iqbuffer_rx.data \in Seq(SampleNo)
  /\ \A i \in DOMAIN m_iqbuffer_rx.data :
       m_iqbuffer_rx.data[i] = m_iqbuffer_rx.timestampFirstSample + i - 1
  /\ m_iqbuffer_rx.timestampFirstSample + Len(m_iqbuffer_rx.data) <= clock
  /\ m_currentSampleTimestamp \in 0 .. Clock + 1
  /\ m_currentSampleTimestamp <= clock
  /\ main = "samples" => Position \in 1 .. Len(m_iqbuffer_rx.data) + 1

(* What is processed lies before what is to be processed.                  *)
Processed ==
  /\ executed \in Seq(SampleNo \X SampleNo)
  /\ \A i \in DOMAIN executed : executed[i][1] = executed[i][2]
  /\ \A i, j \in DOMAIN executed : i < j => executed[i][2] < executed[j][2]
  /\ \A i \in DOMAIN executed : executed[i][2] < clock
  /\ main = "check" /\ m_iqbuffer_rx.data # <<>> =>
       \A i \in DOMAIN executed : executed[i][2] < m_iqbuffer_rx.timestampFirstSample
  /\ main = "samples" /\ m_iqbuffer_rx.data # <<>> =>
       \A i \in DOMAIN executed : executed[i][2] < m_currentSampleTimestamp

(* The debug buffer: running, running out its period, or stopped.          *)
Window(k) == /\ k \in 1 .. Len(m_IQDebugData)
             /\ m_IQDebugData[Len(m_IQDebugData) - k + 1] = frozenAt

Debugging ==
  /\ m_freeze \in BOOLEAN /\ m_stopped \in BOOLEAN
  /\ m_freeze_period \in 0 .. FreezePeriod
  /\ m_IQDebugData \in Seq(SampleNo) /\ Len(m_IQDebugData) <= BufferLength
  /\ frozenAt \in 0 .. Clock
  /\ main # "over" /\ ~m_freeze => m_freeze_period = FreezePeriod /\ ~m_stopped
  /\ main # "over" /\ m_freeze => Window(FreezePeriod - m_freeze_period)
  /\ main # "over" => (m_stopped <=> m_freeze_period = 0)

(* What the loop expects: at most the sample after the newest it has       *)
(* processed.  A block that leaves a hole starts above that.               *)
Newest == executed[Len(executed)][2]

Expected ==
  executed # <<>> =>
    /\ main # "samples" => m_currentSampleTimestamp <= Newest + 1
    /\ main \notin {"check", "samples"} \/ m_iqbuffer_rx.data = <<>> =>
         m_iqbuffer_rx.timestampFirstSample <= Newest
    /\ main = "samples" /\ Position > 1 => m_currentSampleTimestamp = Newest + 1

Reported ==
  executed # <<>> /\ main = "samples" /\ m_iqbuffer_rx.data # <<>> /\ Position = 1
    => alarm \/ m_currentSampleTimestamp = Newest + 1

Numbering == Schedule /\ Blocks /\ Processed /\ Debugging /\ Expected /\ Reported

(* What the assumptions say of the constants.                              *)
LEMMA Constants == /\ Modes \subseteq {"CPE", "BASESTATION"}
                   /\ m_rxSampleCnt \in Nat /\ M \in Nat /\ Cp \in Nat
                   /\ m_txSampleCnt \in Nat /\ M + Cp <= m_txSampleCnt
                   /\ Clock \in Nat /\ MaxGap \in Nat
                   /\ BufferLength \in Nat /\ FreezePeriod \in Nat
                   /\ FreezePeriod > 0 /\ FreezePeriod <= BufferLength
                   /\ Period \in Nat /\ Lead \in Nat /\ HostDelay \in Nat
                   /\ 4 * HostDelay <= Lead /\ Lead < Period
BY ModeAssumption, BlockAssumption, DebugAssumption, ScheduleAssumption

(* The initial states satisfy the invariant.                               *)
LEMMA Initially == Init => Numbering
<1> SUFFICES ASSUME Init PROVE Numbering
  OBVIOUS
<1> USE Constants DEF Init
<1>1. Schedule
  BY DEF Schedule
<1>2. Blocks
  BY DEF Blocks, SampleNo, Position
<1>3. Processed
  BY DEF Processed
<1>4. Debugging
  <2>1. m_freeze = FALSE /\ m_stopped = FALSE /\ m_freeze_period # 0
    OBVIOUS
  <2>2. /\ m_freeze_period \in 0 .. FreezePeriod /\ m_IQDebugData \in Seq(SampleNo)
        /\ Len(m_IQDebugData) <= BufferLength /\ frozenAt \in 0 .. Clock
    OBVIOUS
  <2>3. m_freeze_period = FreezePeriod
    OBVIOUS
  <2>4. QED
    BY <2>1, <2>2, <2>3, Zenon DEF Debugging
<1>5. Expected /\ Reported
  BY DEF Expected, Reported
<1>6. QED
  BY <1>1, <1>2, <1>3, <1>4, <1>5 DEF Numbering

(* No step lets the base station fall behind its schedule.                 *)
LEMMA ScheduleStep == Schedule /\ [Next]_vars => Schedule'
<1> SUFFICES ASSUME Schedule, [Next]_vars PROVE Schedule'
  OBVIOUS
<1> USE Constants DEF Schedule
<1>1. CASE Tick
  BY <1>1 DEF Tick
<1>2. CASE WartaStep
  BY <1>2 DEF WartaStep, AwaitRunning, StopPhy, sender
<1>3. CASE UNCHANGED vars
  BY <1>3 DEF vars, sender
<1> USE DEF Main
<1>4. CASE Begin \/ FirstFrame \/ SetHwTx \/ Generate \/ SetHwRx
  BY <1>4 DEF Begin, FirstFrame, SetHwTx, Generate, SetHwRx
<1>5. CASE LoopTest
  BY <1>5 DEF LoopTest
<1>6. CASE Send
  BY <1>6 DEF Send
<1>7. CASE WaitForFrame
  BY <1>7 DEF WaitForFrame, TooEarly
<1>8. CASE End \/ Join \/ Delete
  BY <1>8 DEF End, Join, Delete
<1>9. CASE Check \/ SamplesDone
  BY <1>9 DEF Check, SamplesDone
<1>10. ASSUME NEW gap \in 0 .. MaxGap, NEW n \in 1 .. m_rxSampleCnt, Receive(gap, n)
       PROVE  Schedule'
  BY <1>10 DEF Receive
<1>11. ASSUME NEW stamp \in LastStamp, Timeout(stamp) PROVE Schedule'
  BY <1>11 DEF Timeout
<1>12. ASSUME NEW freezes \in BOOLEAN, Sample(freezes) PROVE Schedule'
  BY <1>12 DEF Sample
<1>13. QED
  BY <1>1, <1>2, <1>3, <1>4, <1>5, <1>6, <1>7, <1>8, <1>9, <1>10, <1>11, <1>12
     DEF Next, MainStep

(* A step that leaves the receiver alone and does not enter its loop.      *)
LEMMA ReceiverIdle ==
  ASSUME Blocks, Processed, UNCHANGED receiver,
         main' \notin {"check", "samples"} \/ UNCHANGED main
  PROVE  Blocks' /\ Processed'
BY DEF Blocks, Processed, receiver, Position

(* A block that arrives lies behind everything processed.                  *)
LEMMA ReceiveStep ==
  ASSUME Blocks, Processed, NEW gap \in 0 .. MaxGap, NEW n \in 1 .. m_rxSampleCnt,
         Receive(gap, n)
  PROVE  Blocks' /\ Processed'
<1> DEFINE first == clock + gap
<1> USE Constants
<1>1. /\ clock' = first + n /\ first + n - 1 <= Clock /\ first \in 1 .. Clock
      /\ m_iqbuffer_rx'.timestampFirstSample = first
      /\ m_iqbuffer_rx'.data = [i \in 1 .. n |-> first + i - 1]
      /\ UNCHANGED <<m_currentSampleTimestamp, executed>> /\ main' = "check"
  BY DEF Receive, Main, Blocks
<1>2. /\ m_iqbuffer_rx'.data \in Seq(SampleNo) /\ Len(m_iqbuffer_rx'.data) = n
      /\ DOMAIN m_iqbuffer_rx'.data = 1 .. n
  <2> DEFINE block == [i \in 1 .. n |-> first + i - 1]
  <2>1. n \in Nat /\ \A i \in 1 .. n : first + i - 1 \in SampleNo
    BY <1>1 DEF SampleNo
  <2>2. block \in Seq(SampleNo) /\ Len(block) = n /\ DOMAIN block = 1 .. n
    BY <2>1
  <2>3. QED
    BY <1>1, <2>2
<1>3. Blocks'
  BY <1>1, <1>2 DEF Blocks, Position
<1>4. Processed'
  <2>1. \A i \in DOMAIN executed : executed[i][2] < clock /\ executed[i][2] \in Nat
    BY DEF Processed, SampleNo
  <2>2. \A i \in DOMAIN executed : executed[i][2] < first /\ executed[i][2] < first + n
    BY <1>1, <2>1 DEF Blocks
  <2>3. QED
    BY <1>1, <2>2 DEF Processed
<1>5. QED
  BY <1>3, <1>4

(* An empty block, whatever its timestamp.                                 *)
LEMMA TimeoutStep ==
  ASSUME Blocks, Processed, NEW stamp \in LastStamp, Timeout(stamp)
  PROVE  Blocks' /\ Processed'
<1> USE Constants
<1>1. /\ m_iqbuffer_rx'.timestampFirstSample = stamp /\ m_iqbuffer_rx'.data = <<>>
      /\ UNCHANGED <<clock, m_currentSampleTimestamp, executed>> /\ main' = "check"
  BY DEF Timeout, Main
<1>2. stamp \in 0 .. Clock /\ stamp <= clock
  BY DEF LastStamp, Blocks
<1>3. Blocks'
  BY <1>1, <1>2 DEF Blocks, Position
<1>4. Processed'
  BY <1>1 DEF Processed
<1>5. QED
  BY <1>3, <1>4

(* The loop takes over the timestamp of the block.                         *)
LEMMA CheckStep ==
  ASSUME Blocks, Processed, Check
  PROVE  Blocks' /\ Processed'
<1> USE Constants
<1>1. /\ m_currentSampleTimestamp' = m_iqbuffer_rx.timestampFirstSample
      /\ UNCHANGED <<clock, m_iqbuffer_rx, executed>>
      /\ main = "check" /\ main' = "samples"
  BY DEF Check, Main
<1>2. Blocks'
  BY <1>1 DEF Blocks, Position
<1>3. Processed'
  BY <1>1 DEF Processed
<1>4. QED
  BY <1>2, <1>3

(* One sample is appended to those processed.                              *)
LEMMA SampleStep ==
  ASSUME Blocks, Processed, NEW freezes \in BOOLEAN, Sample(freezes)
  PROVE  Blocks' /\ Processed'
<1> DEFINE sample == m_iqbuffer_rx.data[Position]
           now == m_currentSampleTimestamp
<1> USE Constants
<1>1. /\ main = "samples" /\ main' = "samples"
      /\ Position \in DOMAIN m_iqbuffer_rx.data
      /\ executed' = Append(executed, <<now, sample>>)
      /\ now' = now + 1 /\ UNCHANGED <<clock, m_iqbuffer_rx>>
  BY DEF Sample, Main
<1>2. sample = now /\ now \in SampleNo /\ now < clock /\ m_iqbuffer_rx.data # <<>>
  <2>1. Position \in 1 .. Len(m_iqbuffer_rx.data) /\ Len(m_iqbuffer_rx.data) \in Nat
    BY <1>1 DEF Blocks
  <2>2. sample = m_iqbuffer_rx.timestampFirstSample + Position - 1 /\ sample \in SampleNo
    BY <1>1, <2>1 DEF Blocks
  <2>3. sample = now
    BY <2>2 DEF Blocks, Position
  <2>4. now < clock
    BY <2>1 DEF Blocks, Position
  <2>5. QED
    BY <2>1, <2>2, <2>3, <2>4
<1>3. Blocks'
  <2>1. /\ now' \in 0 .. Clock + 1 /\ now' <= clock
        /\ Position' \in 1 .. Len(m_iqbuffer_rx.data) + 1
    <3>1. Position \in 1 .. Len(m_iqbuffer_rx.data) /\ Len(m_iqbuffer_rx.data) \in Nat
      BY <1>1 DEF Blocks
    <3>2. now \in Nat /\ clock \in 1 .. Clock + 1 /\ m_iqbuffer_rx.timestampFirstSample \in Nat
      BY DEF Blocks
    <3>3. Position' = Position + 1
      BY <1>1, <3>2 DEF Position
    <3>4. QED
      BY <1>1, <1>2, <3>1, <3>2, <3>3
  <2>2. QED
    BY <1>1, <2>1 DEF Blocks
<1>4. /\ executed' \in Seq(SampleNo \X SampleNo)
      /\ DOMAIN executed' = 1 .. Len(executed) + 1
      /\ executed'[Len(executed) + 1] = <<now, now>>
      /\ \A i \in DOMAIN executed : executed'[i] = executed[i]
      /\ DOMAIN executed = 1 .. Len(executed) /\ Len(executed) \in Nat
  BY <1>1, <1>2 DEF Processed
<1>5. \A i \in DOMAIN executed : executed[i][2] < now
  BY <1>1, <1>2 DEF Processed
<1>6. /\ \A i \in DOMAIN executed' : executed'[i][1] = executed'[i][2]
      /\ \A i \in DOMAIN executed' : executed'[i][2] < clock /\ executed'[i][2] < now + 1
  <2>1. /\ \A i \in DOMAIN executed : executed[i][1] = executed[i][2]
        /\ \A i \in DOMAIN executed : executed[i][2] \in Nat /\ executed[i][2] < clock
    BY DEF Processed, SampleNo
  <2>2. now \in Nat /\ clock \in Nat
    BY <1>2 DEF SampleNo, Blocks
  <2>3. QED
    BY <1>2, <1>4, <1>5, <2>1, <2>2
<1>7. \A i, j \in DOMAIN executed' : i < j => executed'[i][2] < executed'[j][2]
  BY <1>2, <1>4, <1>5 DEF Processed
<1>8. Processed'
  BY <1>1, <1>4, <1>6, <1>7 DEF Processed
<1>9. QED
  BY <1>3, <1>8

(* Every step keeps blocks and processed samples in order.                 *)
LEMMA ReceiverStep ==
  Blocks /\ Processed /\ [Next]_vars => Blocks' /\ Processed'
<1> SUFFICES ASSUME Blocks, Processed, [Next]_vars PROVE Blocks' /\ Processed'
  OBVIOUS
<1>1. CASE WartaStep \/ Tick \/ UNCHANGED vars
  BY <1>1, ReceiverIdle DEF WartaStep, AwaitRunning, StopPhy, Tick, vars
<1>2. CASE \/ Begin \/ End \/ Join \/ Delete \/ SetHwRx
           \/ FirstFrame \/ SetHwTx \/ Generate \/ Send
  BY <1>2, ReceiverIdle
     DEF Main, Begin, End, Join, Delete, SetHwRx, FirstFrame, SetHwTx, Generate, Send
<1>3. CASE SamplesDone
  BY <1>3, ReceiverIdle DEF Main, SamplesDone
<1>4. CASE WaitForFrame
  BY <1>4, ReceiverIdle DEF Main, WaitForFrame
<1>5. CASE LoopTest
  <2>1. main' \notin {"check", "samples"} /\ UNCHANGED receiver
    BY <1>5 DEF LoopTest, Main
  <2>2. QED
    BY <2>1, ReceiverIdle
<1>6. CASE Check
  BY <1>6, CheckStep
<1>7. QED
  BY <1>1, <1>2, <1>3, <1>4, <1>5, <1>6, ReceiveStep, TimeoutStep, SampleStep
     DEF Next, MainStep

-----------------------------------------------------------------------------
(* The newest sample is one of the device's, and lies before every sample  *)
(* that is still to come.                                                  *)
LEMMA NewestIsPast ==
  ASSUME Blocks, Processed, executed # <<>>
  PROVE  /\ Newest \in SampleNo /\ Newest < clock
         /\ main = "check" /\ m_iqbuffer_rx.data # <<>> =>
              Newest < m_iqbuffer_rx.timestampFirstSample
BY DEF Newest, Blocks, Processed

(* A step that leaves the receiver alone and does not enter its loop.      *)
LEMMA ExpectedIdle ==
  ASSUME Expected, Reported, UNCHANGED receiver,
         \/ main \notin {"check", "samples"} /\ main' \notin {"check", "samples"}
         \/ UNCHANGED main
  PROVE  Expected' /\ Reported'
BY DEF Expected, Reported, receiver, Position, Newest

(* Every step keeps the expected timestamp within reach of the newest      *)
(* sample: the cases that move it are Check and Sample.                    *)
LEMMA ExpectedStep ==
  Blocks /\ Processed /\ Expected /\ Reported /\ [Next]_vars => Expected' /\ Reported'
<1> SUFFICES ASSUME Blocks, Processed, Expected, Reported, [Next]_vars
             PROVE  Expected' /\ Reported'
  OBVIOUS
<1> DEFINE now == m_currentSampleTimestamp
           first == m_iqbuffer_rx.timestampFirstSample
<1>0. /\ now \in Int /\ first \in Nat /\ clock \in Nat /\ Position = now - first + 1
      /\ executed # <<>> => Newest \in Nat \ {0} /\ Newest < clock
  BY NewestIsPast, Constants DEF Blocks, SampleNo, Position
<1>1. CASE WartaStep \/ Tick \/ UNCHANGED vars
  BY <1>1, ExpectedIdle DEF WartaStep, AwaitRunning, StopPhy, Tick, vars
<1> USE DEF Main
<1>2. CASE \/ Begin \/ End \/ Join \/ Delete \/ SetHwRx
           \/ FirstFrame \/ SetHwTx \/ Generate \/ Send
  BY <1>2, ExpectedIdle
     DEF Begin, End, Join, Delete, SetHwRx, FirstFrame, SetHwTx, Generate, Send
<1>3. CASE WaitForFrame
  BY <1>3, ExpectedIdle DEF WaitForFrame
<1>4. CASE LoopTest
  <2>1. /\ main \notin {"check", "samples"} /\ main' \notin {"check", "samples"}
        /\ UNCHANGED receiver
    BY <1>4 DEF LoopTest
  <2>2. QED
    BY <2>1, ExpectedIdle
<1>5. ASSUME NEW gap \in 0 .. MaxGap, NEW n \in 1 .. m_rxSampleCnt, Receive(gap, n)
      PROVE  Expected' /\ Reported'
  <2>1. /\ main = "receive" /\ main' = "check" /\ UNCHANGED <<now, executed>>
        /\ m_iqbuffer_rx'.data = [i \in 1 .. n |-> (clock + gap) + i - 1]
    BY <1>5 DEF Receive
  <2>2. m_iqbuffer_rx'.data # <<>>
    BY <2>1, Constants
  <2>3. QED
    BY <2>1, <2>2 DEF Expected, Reported, Newest
<1>6. ASSUME NEW stamp \in LastStamp, Timeout(stamp) PROVE Expected' /\ Reported'
  <2>1. /\ main = "receive" /\ main' = "check" /\ UNCHANGED <<now, executed>>
        /\ m_iqbuffer_rx'.data = <<>> /\ m_iqbuffer_rx'.timestampFirstSample = stamp
    BY <1>6 DEF Timeout
  <2>2. executed # <<>> => stamp <= Newest
    BY <1>0, <2>1 DEF LastStamp, Expected
  <2>3. QED
    BY <2>1, <2>2 DEF Expected, Reported, Newest
<1>7. CASE Check
  <2>1. /\ main = "check" /\ main' = "samples" /\ now' = first
        /\ UNCHANGED <<m_iqbuffer_rx, executed>>
    BY <1>7 DEF Check
  <2>2. Position' = 1 /\ Newest' = Newest
    BY <1>0, <2>1 DEF Position, Newest
  <2>3. Expected'
    BY <1>0, <2>1, <2>2 DEF Expected
  <2>4. executed # <<>> /\ m_iqbuffer_rx.data # <<>> /\ now = first => now' = Newest + 1
    BY <1>0, <2>1, NewestIsPast DEF Expected
  <2>5. alarm' \/ now = first
    BY <1>7, Zenon DEF Check
  <2>6. Reported'
    BY <2>1, <2>2, <2>4, <2>5, Zenon DEF Reported
  <2>7. QED
    BY <2>3, <2>6
<1>8. ASSUME NEW freezes \in BOOLEAN, Sample(freezes) PROVE Expected' /\ Reported'
  <2>1. /\ main' = "samples" /\ now' = now + 1 /\ UNCHANGED m_iqbuffer_rx
        /\ executed' = Append(executed, <<now, m_iqbuffer_rx.data[Position]>>)
        /\ Position \in DOMAIN m_iqbuffer_rx.data
    BY <1>8 DEF Sample
  <2>2. m_iqbuffer_rx.data[Position] = now /\ Position \in Nat \ {0}
        /\ m_iqbuffer_rx.data # <<>>
    <3>1. Position \in 1 .. Len(m_iqbuffer_rx.data) /\ Len(m_iqbuffer_rx.data) \in Nat
      BY <2>1 DEF Blocks
    <3>2. m_iqbuffer_rx.data[Position] = first + Position - 1
      BY <2>1 DEF Blocks
    <3>3. QED
      BY <1>0, <3>1, <3>2
  <2>3. Newest' = now /\ executed' # <<>>
    BY <2>1, <2>2 DEF Newest, Processed
  <2>4. Position' > 1
    BY <1>0, <2>1, <2>2 DEF Position
  <2>5. QED
    BY <1>0, <2>1, <2>2, <2>3, <2>4 DEF Expected, Reported
<1>9. CASE SamplesDone
  <2>1. /\ main = "samples" /\ main' = "loop" /\ UNCHANGED receiver
        /\ Position > Len(m_iqbuffer_rx.data)
    BY <1>9 DEF SamplesDone
  <2>2. m_iqbuffer_rx.data # <<>> => Position > 1
    BY <1>0, <2>1 DEF Blocks
  <2>3. m_iqbuffer_rx.data = <<>> => now = first
    BY <1>0, <2>1 DEF Blocks
  <2>4. executed # <<>> => now <= Newest + 1 /\ first <= Newest
    BY <1>0, <2>1, <2>2, <2>3 DEF Expected
  <2>5. QED
    BY <2>1, <2>4 DEF Expected, Reported, Newest, receiver
<1>10. QED
  BY <1>1, <1>2, <1>3, <1>4, <1>5, <1>6, <1>7, <1>8, <1>9 DEF Next, MainStep

-----------------------------------------------------------------------------
(* A step that leaves the debug buffer alone.                              *)
LEMMA DebugIdle ==
  ASSUME Debugging, UNCHANGED debug, main = "over" => main' = "over"
  PROVE  Debugging'
BY DEF Debugging, Window, debug

(* push_iq(): the ring takes a sample, and what was in the window of the   *)
(* freeze stays in it.                                                     *)
LEMMA RingStep ==
  ASSUME NEW ring \in Seq(SampleNo), Len(ring) <= BufferLength, NEW s \in SampleNo,
         NEW new, new = Ring(Append(ring, s))
  PROVE  /\ new \in Seq(SampleNo) /\ Len(new) \in 1 .. BufferLength
         /\ new[Len(new)] = s
         /\ \A k \in 1 .. Len(ring) : k < BufferLength =>
              k + 1 \in 1 .. Len(new) /\ new[Len(new) - k] = ring[Len(ring) - k + 1]
<1> USE Constants DEF Ring
<1> DEFINE all == Append(ring, s)
<1>1. /\ all \in Seq(SampleNo) /\ Len(all) = Len(ring) + 1 /\ all[Len(all)] = s
      /\ \A i \in 1 .. Len(ring) : all[i] = ring[i]
      /\ Len(ring) \in Nat
  OBVIOUS
<1>2. CASE Len(all) <= BufferLength
  BY <1>1, <1>2
<1>3. CASE Len(all) > BufferLength
  <2>1. /\ new = Tail(all) /\ Len(new) = Len(ring) /\ new \in Seq(SampleNo)
        /\ \A i \in 1 .. Len(new) : new[i] = all[i + 1]
    BY <1>1, <1>3
  <2>2. Len(ring) = BufferLength /\ BufferLength > 0
    BY <1>1, <1>3
  <2>3. QED
    BY <1>1, <2>1, <2>2
<1>4. QED
  BY <1>1, <1>2, <1>3

(* What PushIq and Freeze make of the debug buffer, apart from its flags.  *)
LEMMA PushStep ==
  ASSUME Debugging, main # "over", NEW freezes \in BOOLEAN, NEW s \in SampleNo,
         Freeze(freezes, s), PushIq(freezes, s), ~m_stopped
  PROVE  /\ m_freeze_period' \in 0 .. FreezePeriod
         /\ m_IQDebugData' \in Seq(SampleNo) /\ Len(m_IQDebugData') <= BufferLength
         /\ frozenAt' \in 0 .. Clock
         /\ ~m_freeze' => m_freeze_period' = FreezePeriod /\ m_freeze_period' # 0
         /\ m_freeze' => /\ FreezePeriod - m_freeze_period' \in 1 .. Len(m_IQDebugData')
                         /\ m_IQDebugData'[Len(m_IQDebugData') - (FreezePeriod - m_freeze_period') + 1]
                              = frozenAt'
<1> USE Constants
<1> DEFINE ring == m_IQDebugData
           k == FreezePeriod - m_freeze_period
<1>1. /\ ring \in Seq(SampleNo) /\ Len(ring) <= BufferLength /\ Len(ring) \in Nat
      /\ m_freeze_period \in 0 .. FreezePeriod /\ frozenAt \in 0 .. Clock
  BY DEF Debugging
<1>2. ring' = Ring(Append(ring, s))
  BY DEF PushIq
<1>3. /\ ring' \in Seq(SampleNo) /\ Len(ring') \in 1 .. BufferLength
      /\ ring'[Len(ring')] = s
      /\ \A i \in 1 .. Len(ring) : i < BufferLength =>
           i + 1 \in 1 .. Len(ring') /\ ring'[Len(ring') - i] = ring[Len(ring) - i + 1]
  <2> DEFINE new == Ring(Append(ring, s))
  <2>1. /\ new \in Seq(SampleNo) /\ Len(new) \in 1 .. BufferLength
        /\ new[Len(new)] = s
        /\ \A i \in 1 .. Len(ring) : i < BufferLength =>
             i + 1 \in 1 .. Len(new) /\ new[Len(new) - i] = ring[Len(ring) - i + 1]
    BY <1>1, RingStep
  <2>2. ring' = new
    BY <1>2
  <2> HIDE DEF new
  <2>3. QED
    BY <2>1, <2>2
<1>4. s \in 0 .. Clock
  BY DEF SampleNo
<1>5. CASE ~m_freeze /\ ~freezes
  <2>1. m_freeze_period' = m_freeze_period /\ frozenAt' = frozenAt /\ ~m_freeze'
    BY <1>5, Zenon DEF PushIq, Freeze
  <2>2. m_freeze_period = FreezePeriod
    BY <1>5, Zenon DEF Debugging
  <2>3. QED
    BY <1>1, <1>3, <2>1, <2>2
<1>6. CASE ~m_freeze /\ freezes
  <2>1. m_freeze_period' = m_freeze_period - 1 /\ frozenAt' = s /\ m_freeze'
    BY <1>6, Zenon DEF PushIq, Freeze
  <2>2. m_freeze_period = FreezePeriod
    BY <1>6, Zenon DEF Debugging
  <2>3. FreezePeriod - m_freeze_period' = 1 /\ m_freeze_period' \in 0 .. FreezePeriod
    BY <2>1, <2>2
  <2>4. QED
    BY <1>3, <1>4, <2>1, <2>3
<1>7. CASE m_freeze
  <2>1. m_freeze_period' = m_freeze_period - 1 /\ frozenAt' = frozenAt /\ m_freeze'
    BY <1>7, Zenon DEF PushIq, Freeze
  <2>2. m_freeze_period # 0 /\ Window(k)
    BY <1>7, Zenon DEF Debugging
  <2>3. k \in 1 .. Len(ring) /\ k < BufferLength /\ k + 1 = FreezePeriod - m_freeze_period'
    BY <1>1, <2>1, <2>2 DEF Window
  <2>4. k + 1 \in 1 .. Len(ring') /\ ring'[Len(ring') - k] = frozenAt
    BY <1>3, <2>2, <2>3 DEF Window
  <2>5. Len(ring') - (FreezePeriod - m_freeze_period') + 1 = Len(ring') - k
    BY <1>1, <1>3, <2>1
  <2>6. m_freeze_period' \in 0 .. FreezePeriod
    BY <1>1, <2>1, <2>2
  <2>7. QED
    BY <1>1, <1>3, <2>1, <2>3, <2>4, <2>5, <2>6
<1>8. QED
  BY <1>5, <1>6, <1>7

(* The sample in hand, freezing or not, keeps the window of the debug      *)
(* buffer.                                                                 *)
LEMMA DebugSample ==
  ASSUME Debugging, Blocks, NEW freezes \in BOOLEAN, Sample(freezes)
  PROVE  Debugging'
<1> DEFINE s == m_iqbuffer_rx.data[Position]
<1>1. /\ Freeze(freezes, s) /\ PushIq(freezes, s)
      /\ main = "samples" /\ main' = "samples"
  BY DEF Sample, Main
<1>2. s \in SampleNo
  BY DEF Sample, Blocks
<1>3. main # "over" /\ main' # "over"
  BY <1>1
<1>4. m_freeze' \in BOOLEAN /\ m_stopped' \in BOOLEAN
  <2>1. m_freeze' \in BOOLEAN
    BY <1>1, Zenon DEF Freeze
  <2>2. m_stopped' = m_stopped \/ m_stopped' = (m_freeze_period' = 0)
    BY <1>1, Zenon DEF PushIq
  <2>3. QED
    BY <2>1, <2>2, Zenon DEF Debugging
<1>5. CASE m_stopped
  <2>1. m_freeze
    BY <1>3, <1>5, Zenon DEF Debugging
  <2>2. /\ m_freeze' /\ frozenAt' = frozenAt
        /\ UNCHANGED <<m_stopped, m_freeze_period, m_IQDebugData>>
    BY <1>1, <1>5, <2>1, Zenon DEF Freeze, PushIq
  <2>3. QED
    BY <1>3, <1>4, <2>1, <2>2, Zenon DEF Debugging, Window
<1>6. CASE ~m_stopped
  <2>1. m_stopped' <=> m_freeze_period' = 0
    BY <1>1, <1>6, Zenon DEF PushIq
  <2>2. /\ m_freeze_period' \in 0 .. FreezePeriod
        /\ m_IQDebugData' \in Seq(SampleNo) /\ Len(m_IQDebugData') <= BufferLength
        /\ frozenAt' \in 0 .. Clock
        /\ ~m_freeze' => m_freeze_period' = FreezePeriod /\ m_freeze_period' # 0
        /\ m_freeze' => /\ FreezePeriod - m_freeze_period' \in 1 .. Len(m_IQDebugData')
                        /\ m_IQDebugData'[Len(m_IQDebugData') - (FreezePeriod - m_freeze_period') + 1]
                             = frozenAt'
    BY <1>1, <1>2, <1>3, <1>6, PushStep, Zenon
  <2>3. QED
    BY <1>4, <2>1, <2>2, Zenon DEF Debugging, Window
<1>7. QED
  BY <1>5, <1>6

(* Every step keeps the window of the debug buffer.                        *)
LEMMA DebugStep == Blocks /\ Debugging /\ [Next]_vars => Debugging'
<1> SUFFICES ASSUME Blocks, Debugging, [Next]_vars PROVE Debugging'
  OBVIOUS
<1>1. CASE Delete
  <2>1. /\ m_stopped' = TRUE /\ m_freeze' = TRUE /\ m_IQDebugData' = <<>>
        /\ UNCHANGED <<m_freeze_period, frozenAt>> /\ main' = "over"
    BY <1>1 DEF Delete, Main
  <2>2. <<>> \in Seq(SampleNo) /\ Len(<<>>) <= BufferLength
    BY Constants
  <2>3. QED
    BY <2>1, <2>2, Zenon DEF Debugging
<1>2. CASE WartaStep \/ Tick \/ UNCHANGED vars
  BY <1>2, DebugIdle DEF WartaStep, AwaitRunning, StopPhy, Tick, vars
<1> USE DEF Main
<1>3. CASE \/ Begin \/ End \/ Join \/ SetHwRx \/ Check \/ SamplesDone
           \/ FirstFrame \/ SetHwTx \/ Generate \/ Send
  BY <1>3, DebugIdle
     DEF Begin, End, Join, SetHwRx, Check, SamplesDone, FirstFrame, SetHwTx, Generate, Send
<1>4. CASE LoopTest \/ WaitForFrame
  BY <1>4, DebugIdle DEF LoopTest, WaitForFrame
<1>5. ASSUME NEW gap \in 0 .. MaxGap, NEW n \in 1 .. m_rxSampleCnt, Receive(gap, n)
      PROVE  Debugging'
  BY <1>5, DebugIdle DEF Receive
<1>6. ASSUME NEW stamp \in LastStamp, Timeout(stamp) PROVE Debugging'
  BY <1>6, DebugIdle DEF Timeout
<1>7. QED
  BY <1>1, <1>2, <1>3, <1>4, <1>5, <1>6, DebugSample DEF Next, MainStep

-----------------------------------------------------------------------------
(* What is left of the type invariant.                                     *)
Flags == /\ stopping \in BOOLEAN /\ m_isPhyRunning \in BOOLEAN
         /\ m_isRX \in BOOLEAN /\ alarm \in BOOLEAN
Places == /\ mode \in Modes
          /\ main \in RunStates \cup {"start", "join", "delete", "over"}
          /\ warta \in {"poll", "sleep", "done"}
          /\ gpio_val \subseteq 0 .. 7
          /\ m_iqbuffer_tx \in Seq(Nat) /\ Len(m_iqbuffer_tx) <= m_txSampleCnt
          /\ lost \subseteq SampleNo

(* Every step keeps the flags Boolean.                                     *)
LEMMA FlagStep == Flags /\ [Next]_vars => Flags'
BY Zenon DEF Flags, Next, vars, flags, radio, receiver, sender, debug,
   MainStep, WartaStep, AwaitRunning, StopPhy, Tick, Begin, LoopTest, End, Join, Delete,
   SetHwRx, Check, SamplesDone, Receive, Timeout, Sample, FirstFrame, SetHwTx, Generate,
   Send, WaitForFrame

(* Every step keeps the rest of the types.                                 *)
LEMMA PlaceStep == Places /\ Blocks /\ [Next]_vars => Places'
<1> SUFFICES ASSUME Places, Blocks, [Next]_vars PROVE Places'
  OBVIOUS
<1> USE Constants DEF Places, RunStates
<1>1. CASE WartaStep \/ Tick \/ UNCHANGED vars
  BY <1>1 DEF WartaStep, AwaitRunning, StopPhy, Tick, vars, radio, receiver, sender
<1> USE DEF Main
<1>2. CASE Generate
  <2>1. /\ [s \in 1 .. M + Cp |-> s - 1] \in Seq(Nat)
        /\ Len([s \in 1 .. M + Cp |-> s - 1]) = M + Cp
    OBVIOUS
  <2>2. /\ m_iqbuffer_tx' = [s \in 1 .. M + Cp |-> s - 1]
        /\ UNCHANGED <<mode, warta, gpio_val, lost>> /\ main' = "send"
    BY <1>2 DEF Generate, radio, receiver
  <2>3. QED
    BY <2>1, <2>2
<1>3. ASSUME NEW gap \in 0 .. MaxGap, NEW n \in 1 .. m_rxSampleCnt, Receive(gap, n)
      PROVE  Places'
  <2>1. /\ lost' = lost \cup clock .. clock + gap - 1 /\ clock + gap + n - 1 <= Clock
        /\ UNCHANGED <<mode, warta, gpio_val, m_iqbuffer_tx>> /\ main' = "check"
    <3>1. /\ lost' = lost \cup clock .. (clock + gap) - 1
          /\ (clock + gap) + n - 1 <= Clock
      BY <1>3, Zenon DEF Receive
    <3>2. UNCHANGED <<mode, warta, gpio_val, m_iqbuffer_tx>> /\ main' = "check"
      BY <1>3 DEF Receive, radio
    <3>3. clock \in Nat /\ gap \in Nat /\ n \in Nat
      BY DEF Blocks
    <3>4. (clock + gap) - 1 = clock + gap - 1 /\ (clock + gap) + n - 1 = clock + gap + n - 1
      BY <3>3
    <3>5. QED
      BY <3>1, <3>2, <3>4
  <2>2. clock .. clock + gap - 1 \subseteq SampleNo
    BY <2>1 DEF Blocks, SampleNo
  <2>3. QED
    BY <2>1, <2>2
<1>4. CASE \/ Begin \/ End \/ Join \/ Delete \/ FirstFrame \/ WaitForFrame
           \/ Check \/ SamplesDone
  BY <1>4 DEF Begin, End, Join, Delete, FirstFrame, WaitForFrame, Check, SamplesDone,
              radio, receiver
<1>5. CASE SetHwRx \/ SetHwTx
  BY <1>5 DEF SetHwRx, SetHwTx, LogicalOr, receiver
<1>6. CASE LoopTest
  BY <1>6 DEF LoopTest, radio, receiver
<1>7. CASE Send
  BY <1>7 DEF Send, radio, receiver
<1>8. ASSUME NEW stamp \in LastStamp, Timeout(stamp) PROVE Places'
  BY <1>8 DEF Timeout, radio
<1>9. ASSUME NEW freezes \in BOOLEAN, Sample(freezes) PROVE Places'
  BY <1>9 DEF Sample, radio
<1>10. QED
  BY <1>1, <1>2, <1>3, <1>4, <1>5, <1>6, <1>7, <1>8, <1>9 DEF Next, MainStep

-----------------------------------------------------------------------------
(* The inductive invariant.                                                *)
IInv == Numbering /\ Flags /\ Places

(* IInv holds in every state the program reaches.                          *)
THEOREM Invariance == SafeSpec => []IInv
<1>1. Init => IInv
  <2> SUFFICES ASSUME Init PROVE IInv
    OBVIOUS
  <2>1. Flags
    BY Zenon DEF Init, Flags
  <2>2. Places
    BY Constants DEF Init, Places, RunStates, LogicalOr
  <2>3. QED
    BY <2>1, <2>2, Initially DEF IInv
<1>2. IInv /\ [Next]_vars => IInv'
  BY ScheduleStep, ReceiverStep, ExpectedStep, DebugStep, FlagStep, PlaceStep
     DEF IInv, Numbering
<1>3. QED
  BY <1>1, <1>2, PTL DEF SafeSpec

(* Every variable keeps its type and its bound: the debug buffer and the   *)
(* transmit buffer never outgrow their sizes.                              *)
THEOREM TypeCorrect == SafeSpec => []TypeOK
<1>1. IInv => TypeOK
  <2> SUFFICES ASSUME IInv PROVE TypeOK
    OBVIOUS
  <2>1. ahead \in -HostDelay .. 2 * Period /\ idle \in 0 .. HostDelay
    BY Constants DEF IInv, Numbering, Schedule, Places, RunStates
  <2>2. /\ {stopping, m_isPhyRunning, m_isRX, alarm, m_freeze, m_stopped} \subseteq BOOLEAN
        /\ m_freeze_period \in 0 .. FreezePeriod
        /\ m_IQDebugData \in Seq(SampleNo) /\ Len(m_IQDebugData) <= BufferLength
        /\ frozenAt \in 0 .. Clock
    BY Zenon DEF IInv, Numbering, Debugging, Flags
  <2>3. QED
    BY <2>1, <2>2, Zenon DEF TypeOK, IInv, Numbering, Blocks, Processed, Places
<1>2. QED
  BY <1>1, Invariance, PTL

(* Every frame reaches the radio before its time, whatever the period and  *)
(* the lead, for a host that reacts within a quarter of the lead.          *)
THEOREM FramesInTime == SafeSpec => []OnTime
<1>1. IInv => OnTime
  <2> SUFFICES ASSUME IInv, main = "send" PROVE ahead \in 1 .. Period
    BY DEF OnTime
  <2>1. mode = "BASESTATION" /\ ahead \in Int /\ idle \in 0 .. HostDelay
    BY DEF IInv, Numbering, Schedule
  <2>2. ahead + idle > Lead - 3 * HostDelay /\ ahead <= Period
    BY <2>1 DEF IInv, Numbering, Schedule
  <2>3. QED
    BY <2>1, <2>2, Constants
<1>2. QED
  BY <1>1, Invariance, PTL

(* The synchroniser gets the device's samples in order, once, and each     *)
(* with its timestamp, for every block length and every loss.              *)
THEOREM SamplesStamped == SafeSpec => []Stamped
<1>1. IInv => Stamped
  BY DEF IInv, Numbering, Processed, Stamped
<1>2. QED
  BY <1>1, Invariance, PTL

(* No loss goes unreported, whatever lies between two blocks: a block that *)
(* does not continue the samples processed before it raises the alarm.     *)
THEOREM LossesReported == SafeSpec => []LossReported
<1>1. IInv => LossReported
  <2> SUFFICES ASSUME IInv, main = "samples", executed # <<>>, Position = 1,
                      m_iqbuffer_rx.data # <<>>,
                      m_iqbuffer_rx.data[1] # Last(executed)[2] + 1
               PROVE  alarm
    BY DEF LossReported
  <2>1. Last(executed)[2] = Newest
    BY DEF Last, Newest
  <2>2. m_iqbuffer_rx.data[1] = m_currentSampleTimestamp
    <3>1. 1 \in DOMAIN m_iqbuffer_rx.data
      BY DEF IInv, Numbering, Blocks
    <3>2. m_iqbuffer_rx.data[1] = m_iqbuffer_rx.timestampFirstSample + 1 - 1
      BY <3>1 DEF IInv, Numbering, Blocks
    <3>3. QED
      BY <3>2 DEF IInv, Numbering, Blocks, Position
  <2>3. QED
    BY <2>1, <2>2, Zenon DEF IInv, Numbering, Reported
<1>2. QED
  BY <1>1, Invariance, PTL

(* A debug buffer that has stopped holds the freezing sample, at the freeze *)
(* period from its end, for every size of the buffer and the period.       *)
THEOREM FreezeKept == SafeSpec => []FreezeWindow
<1>1. IInv => FreezeWindow
  <2> SUFFICES ASSUME IInv, m_stopped, main # "over"
               PROVE  /\ Len(m_IQDebugData) >= FreezePeriod
                      /\ m_IQDebugData[Len(m_IQDebugData) - FreezePeriod + 1] = frozenAt
    BY DEF FreezeWindow
  <2>1. m_freeze_period = 0 /\ Window(FreezePeriod - m_freeze_period)
    BY Zenon DEF IInv, Numbering, Debugging
  <2>2. QED
    BY <2>1, Constants DEF Window
<1>2. QED
  BY <1>1, Invariance, PTL
=============================================================================
