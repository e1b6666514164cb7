------------------------ MODULE LimeRadioThreadProofs ------------------------
(***************************************************************************)
(* Proofs about LimeRadioThread for any programs, queue limits, block      *)
(* sizes, gaps and number of samples.                                      *)
(***************************************************************************)
EXTENDS LimeRadioThread, TLAPS

(***************************************************************************)
(* The life cycle of the object and of its thread.                         *)
(***************************************************************************)
LifeCycle == /\ program \in Programs
             /\ main = "start" => ~terminated /\ sdr = "none"
             /\ object = "freed" => main \in {"exit", "over"}

LEMMA LifeCycleInit == Init => LifeCycle /\ TerminatedMeansReturned
BY DEF Init, LifeCycle, TerminatedMeansReturned

LEMMA LifeCycleStep ==
  LifeCycle /\ TerminatedMeansReturned /\ [Next]_vars => LifeCycle' /\ TerminatedMeansReturned'
<1> SUFFICES ASSUME LifeCycle, TerminatedMeansReturned, [Next]_vars
             PROVE  LifeCycle' /\ TerminatedMeansReturned'
  OBVIOUS
<1> USE DEF LifeCycle, TerminatedMeansReturned
(* The thread: only SetTerminated() says that it has returned.             *)
<1>1. ASSUME ThreadStep \/ Throw PROVE LifeCycle' /\ TerminatedMeansReturned'
  BY <1>1 DEF ThreadStep, Throw, Enter, ResetStopping, RunBegin, LoopTest, ModeTest, Receive,
     Timeout, Push, SendNothing, Send, RunEnd, SetTerminated, SetStopping, Undefined, Sdr,
     Living, flags, where, device
(* The program: only the destructor says so too, on its way to "free".     *)
<1>2. ASSUME ProgramStep PROVE LifeCycle' /\ TerminatedMeansReturned'
  <2>1. Job[program] # "start"
    BY ProgramAssumption DEF Job
  <2>2. CASE Start \/ AwaitRunning
    BY <2>1, <2>2 DEF Start, AwaitRunning, Main, flags, device
  <2>3. CASE StopStreaming \/ DestroyFlags \/ Free \/ Exit
    BY <2>3 DEF StopStreaming, DestroyFlags, Free, Exit, Main, flags, device
  <2>4. CASE TestGpio \/ TerminateRequest \/ TerminateFlushRx \/ TerminateFlushTx \/ TerminateLeds
    BY <2>4 DEF TestGpio, TerminateRequest, RequestStop, TerminateFlushRx, TerminateFlushTx,
       TerminateLeds, Main, flags, device
  <2>5. CASE \/ ProgramFlushRx \/ ProgramFlushTx \/ PollTerminated \/ CsvTest \/ CsvPop
             \/ CsvDrained \/ ConsumerTest \/ ConsumerPop \/ SendDone
    BY <2>5 DEF ProgramFlushRx, ProgramFlushTx, PollTerminated, CsvTest, CsvPop, CsvDrained,
       ConsumerTest, ConsumerPop, SendDone, Main, flags, device
  <2> QED BY <1>2, <2>2, <2>3, <2>4, <2>5 DEF ProgramStep
<1>3. ASSUME Stop PROVE LifeCycle' /\ TerminatedMeansReturned'
  BY <1>3 DEF Stop, RequestStop, flags, where, device
<1>4. ASSUME \/ \E block \in TxBlock : PushTx(block)
             \/ \E receive \in BOOLEAN : SetMode(receive)
      PROVE  LifeCycle' /\ TerminatedMeansReturned'
  BY <1>4 DEF PushTx, SetMode, Main, flags, device
<1>5. CASE UNCHANGED vars
  BY <1>5 DEF vars, flags, where, device
<1> QED BY <1>1, <1>2, <1>3, <1>4, <1>5 DEF Next

(* As long as the object is not being destroyed, isTerminated() says that  *)
(* run() has returned.                                                     *)
THEOREM TerminatedIsReturned == Spec => []TerminatedMeansReturned
<1>1. Init => LifeCycle /\ TerminatedMeansReturned BY LifeCycleInit
<1>2. LifeCycle /\ TerminatedMeansReturned /\ [Next]_vars
      => LifeCycle' /\ TerminatedMeansReturned'
  BY LifeCycleStep
<1> QED BY <1>1, <1>2, PTL DEF Spec

(***************************************************************************)
(* The pins.                                                               *)
(***************************************************************************)
Pins == /\ program \in Programs
        /\ tested \in 0 .. Len(GpioTest)
        /\ main # "work" => tested \in {0, Len(GpioTest)}
        /\ tested \in {0, Len(GpioTest)} => PA \notin gpio_val /\ LED2 \notin gpio_val
        /\ PA \in gpio_val => LED2 \in gpio_val /\ LED3 \notin gpio_val
        /\ main \in {"start", "await", "work", "flushed"} => {LED1, LED4} \subseteq gpio_val
        /\ object # "alive" => main \in {"close", "free", "exit", "over"}
        /\ main \in {"delete", "close", "free", "exit"} \/ object # "alive" =>
             LED1 \notin gpio_val /\ LED4 \notin gpio_val

LEMMA PinsInit == Init => Pins
BY DEF Init, Pins, RxPins, m_modeGPIO, GpioTest, LED1, LED2, LED3, LED4, PA

(* The modes of the GPIO test, the last of which is RX, and what they add  *)
(* to the LEDs.                                                            *)
LEMMA ModeTable == /\ m_modeGPIO[0] = {}
                   /\ \A m \in 0 .. 4 : m_modeGPIO[m] \subseteq 0 .. 3
BY DEF m_modeGPIO, Relay, PA

LEMMA TestOrder == /\ Len(GpioTest) = 11 /\ GpioTest[11] = 0
                   /\ \A i \in 1 .. 11 : GpioTest[i] \in 0 .. 4
BY DEF GpioTest

LEMMA PinsTested == ASSUME Pins, TestGpio PROVE Pins'
<1>1. /\ main = "work" /\ main' = "work" /\ UNCHANGED <<program, object>>
      /\ tested \in 0 .. 10 /\ tested' = tested + 1 /\ Len(GpioTest) = 11
  BY TestOrder DEF Pins, TestGpio, device
<1>2. PICK m \in 0 .. 4 : /\ m = GpioTest[tested + 1]
                          /\ gpio_val' = IF m = 0 THEN RxPins(gpio_val) ELSE TxPins(gpio_val, m)
  <2>1. GpioTest[tested + 1] \in 0 .. 4
    BY <1>1, TestOrder
  <2> QED BY <2>1 DEF TestGpio
<1>3. tested' = Len(GpioTest) => m = 0
  BY <1>1, <1>2, TestOrder
<1>4. {LED1, LED4} \subseteq gpio_val /\ object = "alive"
  BY <1>1 DEF Pins
<1>5. CASE m = 0
  <2>1. gpio_val' = {LED1, LED3, LED4}
    BY <1>2, <1>4, <1>5, ModeTable DEF RxPins
  <2> QED BY <1>1, <1>4, <2>1 DEF Pins, PA, LED1, LED2, LED3, LED4
<1>6. CASE m # 0
  <2>1. gpio_val' = {LED4} \cup m_modeGPIO[m] \cup {LED2, LED1}
    BY <1>2, <1>4, <1>6 DEF TxPins
  <2>2. m_modeGPIO[m] \subseteq 0 .. 3
    BY ModeTable
  <2>3. LED1 \in gpio_val' /\ LED2 \in gpio_val' /\ LED4 \in gpio_val' /\ LED3 \notin gpio_val'
    BY <2>1, <2>2 DEF LED1, LED2, LED3, LED4
  <2>4. tested' \notin {0, Len(GpioTest)}
    BY <1>1, <1>3, <1>6
  <2> QED BY <1>1, <1>4, <2>3, <2>4 DEF Pins
<1> QED BY <1>5, <1>6

LEMMA PinsStep == Pins /\ [Next]_vars => Pins'
<1> SUFFICES ASSUME Pins, [Next]_vars PROVE Pins' OBVIOUS
<1>1. ASSUME UNCHANGED <<gpio_val, tested, program, object, main>> PROVE Pins'
  BY <1>1 DEF Pins
<1>2. CASE ThreadStep \/ Throw
  <2>1. UNCHANGED <<gpio_val, where, object>>
    BY <1>2 DEF ThreadStep, Throw, Enter, ResetStopping, RunBegin, LoopTest, ModeTest, Receive,
       Timeout, Push, SendNothing, Send, RunEnd, SetTerminated, SetStopping, Undefined, device
  <2> QED BY <1>1, <2>1 DEF where
<1>3. CASE TestGpio
  BY <1>3, PinsTested
<1>4. CASE Start \/ AwaitRunning
  <2>1. /\ main \in {"start", "await"} /\ UNCHANGED <<gpio_val, program, tested, object>>
        /\ main' = "await" \/ main' = Job[program]
    BY <1>4 DEF Start, AwaitRunning, Main, device
  <2>2. Job[program] \in {"work", "consume", "csv", "terminate", "transmit"}
    BY ProgramAssumption DEF Pins, Job
  <2> QED BY <2>1, <2>2 DEF Pins
<1>5. CASE TerminateLeds
  <2>1. /\ main = "leds" /\ main' \in {"delete", "poll"} /\ UNCHANGED <<program, tested, object>>
        /\ gpio_val' = gpio_val \ {LED4, LED1}
    BY <1>5 DEF TerminateLeds, Main, device
  <2> QED BY <2>1 DEF Pins, LED1, LED2, LED3, LED4, PA
<1>6. CASE StopStreaming
  <2>1. /\ main = "delete" /\ main' = "close" /\ UNCHANGED <<program, tested>>
        /\ gpio_val' = gpio_val \ {LED4}
    BY <1>6 DEF StopStreaming, Main
  <2> QED BY <2>1 DEF Pins, LED1, LED2, LED3, LED4, PA
<1>7. CASE ProgramFlushRx \/ ProgramFlushTx
  <2>1. /\ main \in {"work", "flushed"} /\ main' \in {"flushed", "terminate"}
        /\ UNCHANGED <<gpio_val, program, tested, object>>
        /\ main = "work" => tested \in {0, Len(GpioTest)}
    BY <1>7 DEF ProgramFlushRx, ProgramFlushTx, Main, device
  <2> QED BY <2>1 DEF Pins
<1>8. CASE DestroyFlags \/ Free \/ Exit
  <2>1. /\ main \in {"close", "free", "exit"} /\ main' \in {"free", "exit", "over"}
        /\ UNCHANGED <<gpio_val, program, tested>>
        /\ object' = object \/ object' = "freed"
    BY <1>8 DEF DestroyFlags, Free, Exit, Main, device
  <2> QED BY <2>1 DEF Pins
<1>9. CASE TerminateRequest \/ TerminateFlushRx \/ TerminateFlushTx
  <2>1. /\ main \in {"terminate", "flush_rx", "flush_tx"}
        /\ main' \in {"flush_rx", "flush_tx", "leds"}
        /\ UNCHANGED <<gpio_val, program, tested, object>>
    BY <1>9 DEF TerminateRequest, TerminateFlushRx, TerminateFlushTx, Main, device
  <2> QED BY <2>1 DEF Pins
<1>10. CASE \/ PollTerminated \/ CsvTest \/ CsvPop \/ CsvDrained
            \/ ConsumerTest \/ ConsumerPop \/ SendDone
  <2>1. /\ main \in {"poll", "csv", "drain", "consume", "pop", "transmit"}
        /\ main' \in {"csv", "drain", "consume", "pop", "over"}
        /\ UNCHANGED <<gpio_val, program, tested, object>>
    BY <1>10 DEF PollTerminated, CsvTest, CsvPop, CsvDrained, ConsumerTest, ConsumerPop,
       SendDone, Main, device
  <2> QED BY <2>1 DEF Pins
<1>11. CASE \/ Stop \/ \E block \in TxBlock : PushTx(block)
            \/ \E receive \in BOOLEAN : SetMode(receive)
            \/ UNCHANGED vars
  <2>1. UNCHANGED <<gpio_val, tested, program, object, main>>
    BY <1>11 DEF Stop, PushTx, SetMode, Main, where, device, vars
  <2> QED BY <1>1, <2>1
<1> QED BY <1>2, <1>3, <1>4, <1>5, <1>6, <1>7, <1>8, <1>9, <1>10, <1>11 DEF Next, ProgramStep

(* However far the GPIO test has come and whenever the program ends: the   *)
(* amplifier is on in the middle of the test only, and shown by its LED.   *)
THEOREM AmplifierIsOff == Spec => []AmplifierOff
<1>1. Pins => AmplifierOff
  BY DEF Pins, AmplifierOff
<1> QED BY PinsInit, PinsStep, <1>1, PTL DEF Spec

(***************************************************************************)
(* The samples.  First, what the operators on blocks and queues do.        *)
(***************************************************************************)
(* What a queue holds, sample by sample.                                   *)
Holds(q, x) == \E i \in DOMAIN q : \E k \in DOMAIN q[i].data : x = q[i].data[k]

LEMMA HeldBy == \A q, x : x \in Held(q) <=> Holds(q, x)
BY DEF Held, Range, Holds

(* A push adds what the block holds; a pop leaves the rest.                *)
LEMMA HeldAppend ==
  ASSUME NEW S, NEW q \in Seq(S), NEW b \in S
  PROVE  Held(Append(q, b)) = Held(q) \cup Range(b.data)
<1> DEFINE n == Len(q) + 1
           longer == Append(q, b)
<1>1. DOMAIN longer = DOMAIN q \cup {n} /\ longer[n] = b
  OBVIOUS
<1>2. \A i \in DOMAIN q : longer[i] = q[i]
  OBVIOUS
<1> HIDE DEF n, longer
<1>3. ASSUME NEW x PROVE Holds(longer, x) <=> Holds(q, x) \/ x \in Range(b.data)
  <2>1. x \in Range(b.data) <=> \E k \in DOMAIN b.data : x = b.data[k]
    BY Zenon DEF Range
  <2>2. Holds(longer, x) => Holds(q, x) \/ x \in Range(b.data)
    BY <2>1, <1>1, <1>2, Zenon DEF Holds
  <2>3. Holds(q, x) => Holds(longer, x)
    BY <1>1, <1>2, Zenon DEF Holds
  <2>4. x \in Range(b.data) => Holds(longer, x)
    BY <2>1, <1>1, Zenon DEF Holds
  <2> QED BY <2>2, <2>3, <2>4
<1>4. ASSUME NEW x PROVE x \in Held(longer) <=> x \in Held(q) \cup Range(b.data)
  <2>1. (x \in Held(longer) <=> Holds(longer, x)) /\ (x \in Held(q) <=> Holds(q, x))
    BY HeldBy, Zenon
  <2> QED BY <2>1, <1>3
<1> QED BY <1>4, Zenon DEF longer

LEMMA HeldTail ==
  ASSUME NEW S, NEW q \in Seq(S), q # <<>>
  PROVE  Held(q) = Range(Head(q).data) \cup Held(Tail(q))
<1> DEFINE first == Head(q)
           rest  == Tail(q)
<1>1. first = q[1] /\ 1 \in DOMAIN q
  OBVIOUS
<1>2. \A i \in DOMAIN rest : i + 1 \in DOMAIN q /\ rest[i] = q[i + 1]
  OBVIOUS
<1>3. \A i \in DOMAIN q : i = 1 \/ (i - 1 \in DOMAIN rest /\ q[i] = rest[i - 1])
  OBVIOUS
<1> HIDE DEF first, rest
<1>4. ASSUME NEW x PROVE Holds(q, x) <=> x \in Range(first.data) \/ Holds(rest, x)
  <2>1. x \in Range(first.data) <=> \E k \in DOMAIN first.data : x = first.data[k]
    BY Zenon DEF Range
  <2>2. Holds(q, x) => x \in Range(first.data) \/ Holds(rest, x)
    BY <2>1, <1>1, <1>3, Zenon DEF Holds
  <2>3. x \in Range(first.data) => Holds(q, x)
    BY <2>1, <1>1, Zenon DEF Holds
  <2>4. Holds(rest, x) => Holds(q, x)
    BY <1>2, Zenon DEF Holds
  <2> QED BY <2>2, <2>3, <2>4
<1>5. ASSUME NEW x PROVE x \in Held(q) <=> x \in Range(first.data) \cup Held(rest)
  <2>1. (x \in Held(q) <=> Holds(q, x)) /\ (x \in Held(rest) <=> Holds(rest, x))
    BY HeldBy, Zenon
  <2> QED BY <2>1, <1>4
<1> QED BY <1>5, Zenon DEF first, rest

(* A block of which the first w samples are gone.                          *)
LEMMA Split ==
  ASSUME NEW S, NEW d \in Seq(S), NEW w \in 1 .. Len(d)
  PROVE  LET rest == SubSeq(d, w + 1, Len(d)) IN
         /\ rest \in Seq(S) /\ Len(rest) = Len(d) - w
         /\ \A i \in DOMAIN rest : i + w \in DOMAIN d /\ rest[i] = d[i + w]
         /\ Range(d) = Range(SubSeq(d, 1, w)) \cup Range(rest)
         /\ SubSeq(d, 1, w) \in Seq(S) /\ Len(SubSeq(d, 1, w)) = w
<1> DEFINE first == SubSeq(d, 1, w)
           rest == SubSeq(d, w + 1, Len(d))
<1>1. /\ rest \in Seq(S) /\ Len(rest) = Len(d) - w
      /\ \A i \in DOMAIN rest : i + w \in DOMAIN d /\ rest[i] = d[i + w]
  OBVIOUS
<1>2. /\ first \in Seq(S) /\ Len(first) = w
      /\ \A i \in DOMAIN first : i \in DOMAIN d /\ first[i] = d[i]
  OBVIOUS
<1> HIDE DEF first, rest
<1>3. \A i \in DOMAIN d : i \in DOMAIN first \/ (i - w \in DOMAIN rest /\ rest[i - w] = d[i])
  <2> TAKE i \in DOMAIN d
  <2>1. DOMAIN first = 1 .. w /\ DOMAIN rest = 1 .. Len(d) - w /\ DOMAIN d = 1 .. Len(d)
    BY <1>1, <1>2
  <2>2. i \in DOMAIN first \/ (i - w \in DOMAIN rest /\ i - w + w = i)
    BY <2>1
  <2>3. i - w \in DOMAIN rest => rest[i - w] = d[i - w + w]
    BY <1>1
  <2>4. i - w \in DOMAIN rest /\ i - w + w = i => rest[i - w] = d[i]
    BY <2>3
  <2> QED BY <2>2, <2>4, Zenon
<1>4. Range(d) \subseteq Range(first) \cup Range(rest)
  BY <1>2, <1>3, Zenon DEF Range
<1>5. Range(first) \cup Range(rest) \subseteq Range(d)
  BY <1>1, <1>2, Zenon DEF Range
<1> QED BY <1>1, <1>2, <1>4, <1>5 DEF first, rest

(* The last block of a queue is replaced by another.                       *)
LEMMA HeldReplaced ==
  ASSUME NEW S, NEW q \in Seq(S), q # <<>>, NEW b \in S,
         NEW p, p = [q EXCEPT ![Len(q)] = b]
  PROVE  /\ Held(p) \cup Range(q[Len(q)].data) = Held(q) \cup Range(b.data)
         /\ Range(b.data) \subseteq Held(p)
<1> DEFINE n == Len(q)
           old == q[n]
<1>1. n \in DOMAIN q /\ DOMAIN p = DOMAIN q /\ p[n] = b
  OBVIOUS
<1>2. \A i \in DOMAIN q : i # n => p[i] = q[i]
  OBVIOUS
<1>3. old = q[n]
  OBVIOUS
<1> HIDE DEF n, old
<1>4. ASSUME NEW x
      PROVE  /\ Holds(p, x) \/ x \in Range(old.data) <=> Holds(q, x) \/ x \in Range(b.data)
             /\ x \in Range(b.data) => Holds(p, x)
  <2>1. /\ x \in Range(b.data) <=> \E k \in DOMAIN b.data : x = b.data[k]
        /\ x \in Range(old.data) <=> \E k \in DOMAIN old.data : x = old.data[k]
    BY Zenon DEF Range
  <2>2. Holds(p, x) => Holds(q, x) \/ x \in Range(b.data)
    BY <2>1, <1>1, <1>2, Zenon DEF Holds
  <2>3. Holds(q, x) => Holds(p, x) \/ x \in Range(old.data)
    BY <2>1, <1>1, <1>2, <1>3, Zenon DEF Holds
  <2>4. (x \in Range(b.data) => Holds(p, x)) /\ (x \in Range(old.data) => Holds(q, x))
    BY <2>1, <1>1, <1>3, Zenon DEF Holds
  <2> QED BY <2>2, <2>3, <2>4
<1>5. ASSUME NEW x
      PROVE  /\ x \in Held(p) \cup Range(old.data) <=> x \in Held(q) \cup Range(b.data)
             /\ x \in Range(b.data) => x \in Held(p)
  <2>1. (x \in Held(q) <=> Holds(q, x)) /\ (x \in Held(p) <=> Holds(p, x))
    BY HeldBy, Zenon
  <2> QED BY <2>1, <1>4
<1> QED BY <1>5, Zenon DEF old, n

(* The values of a concatenation.                                          *)
LEMMA RangeConcat ==
  ASSUME NEW S, NEW s \in Seq(S), NEW t \in Seq(S)
  PROVE  Range(s \o t) = Range(s) \cup Range(t)
<1> DEFINE u == s \o t
           n == Len(s)
<1>1. \A i \in DOMAIN s : i \in DOMAIN u /\ u[i] = s[i]
  OBVIOUS
<1>2. \A i \in DOMAIN t : i + n \in DOMAIN u /\ u[i + n] = t[i]
  OBVIOUS
<1>3. \A i \in DOMAIN u : \/ i \in DOMAIN s /\ u[i] = s[i]
                          \/ i - n \in DOMAIN t /\ u[i] = t[i - n]
  OBVIOUS
<1> HIDE DEF u, n
<1>4. Range(u) \subseteq Range(s) \cup Range(t)
  BY <1>3, Zenon DEF Range
<1>5. Range(s) \cup Range(t) \subseteq Range(u)
  BY <1>1, <1>2, Zenon DEF Range
<1> QED BY <1>4, <1>5 DEF u

(***************************************************************************)
(* The invariant: where the samples are, and how they are ordered.         *)
(***************************************************************************)
Store == <<rx, m_rxIQdataOut, accepted, taken, lost, sent, clock, m_rx_metadata>>

StoreTypes ==
  /\ rx \in Seq(Block) /\ m_rxIQdataOut \in Block /\ accepted \in BOOLEAN
  /\ clock \in 1 .. Clock + 1 /\ m_rx_metadata \in 0 .. Clock
  /\ taken \in Seq(Sample \X Sample) /\ lost \subseteq Sample /\ sent \in Seq(Sample)

(* A block holds samples delivered before now, in order, and its timestamp *)
(* leaves room to number them.                                             *)
SoundBlock(block, now) ==
  /\ Rising(block.data) /\ Range(block.data) \subseteq 1 .. now - 1
  /\ block.data # <<>> => /\ block.timestampFirstSample >= 1
                          /\ block.timestampFirstSample + Len(block.data) <= now

SoundBlocks == /\ SoundBlock(m_rxIQdataOut, clock)
               /\ \A i \in DOMAIN rx : SoundBlock(rx[i], clock)
               /\ sent = <<>> => Numbered(m_rxIQdataOut)

(* What was dealt with was delivered.                                      *)
Delivered == Taken \cup lost \cup Range(sent) \subseteq 1 .. clock - 1

(* A block on its way to the queue is newer than everything before it.     *)
Newest == sdr = "push" => Before(Kept \cup lost, Range(m_rxIQdataOut.data))

(* An accepted block is the last of the queue, unless it has been taken:   *)
(* run() and the queue hold the same block.                                *)
Shared == Living /\ sdr # "push" /\ accepted /\ rx # <<>> => rx[Len(rx)] = m_rxIQdataOut

Samples == /\ StoreTypes /\ SoundBlocks /\ Delivered
           /\ Newest /\ Shared /\ InOrder /\ Accounted

(* It holds at first, when no sample has been delivered.                   *)
LEMMA SamplesInit == Init => Samples
<1> SUFFICES ASSUME Init PROVE Samples OBVIOUS
<1>1. rx = <<>> /\ taken = <<>> /\ sent = <<>> /\ lost = {} /\ clock = 1 /\ m_rx_metadata = 0
  BY DEF Init
<1>2. m_rxIQdataOut.data = <<>> /\ m_rxIQdataOut \in Block /\ accepted = FALSE
  BY DeviceAssumption DEF Init, Empty, Block
<1>3. sdr = "none"
  BY DEF Init
<1>4. Range(rx) = {} /\ Range(taken) = {} /\ Range(sent) = {} /\ Range(m_rxIQdataOut.data) = {}
  BY <1>1, <1>2 DEF Range
<1>5. Taken = {} /\ Held(rx) = {} /\ InHand = {}
  BY <1>3, <1>4 DEF Taken, Held, InHand
<1>6. StoreTypes
  <2>1. \A S : <<>> \in Seq(S)
    OBVIOUS
  <2>2. taken \in Seq(Sample \X Sample) /\ sent \in Seq(Sample) /\ rx \in Seq(Block)
    BY <1>1, <2>1, Zenon
  <2>3. clock \in 1 .. Clock + 1 /\ m_rx_metadata \in 0 .. Clock
    BY <1>1, DeviceAssumption
  <2> QED BY <1>1, <1>2, <2>2, <2>3 DEF StoreTypes
<1>7. SoundBlocks
  BY <1>1, <1>2, <1>4 DEF SoundBlocks, SoundBlock, Rising, Numbered
<1>8. Delivered /\ Newest /\ Shared
  BY <1>1, <1>2, <1>3, <1>4, <1>5 DEF Delivered, Newest, Shared
<1>9. InOrder
  BY <1>1 DEF InOrder
<1>10. Accounted
  BY <1>1, <1>4, <1>5 DEF Accounted, Kept
<1> QED BY <1>6, <1>7, <1>8, <1>9, <1>10 DEF Samples

(* The steps that move no sample.  A thread that dies stays dead.          *)
Quiet == /\ UNCHANGED Store
         /\ \/ ~Living' /\ sdr' # "push"
            \/ Living /\ (sdr' = "push" <=> sdr = "push")

LEMMA QuietKeeps == Samples /\ Quiet => Samples'
<1> SUFFICES ASSUME Samples, Quiet PROVE Samples' OBVIOUS
<1>1. /\ rx' = rx /\ m_rxIQdataOut' = m_rxIQdataOut /\ accepted' = accepted /\ taken' = taken
      /\ lost' = lost /\ sent' = sent /\ clock' = clock /\ m_rx_metadata' = m_rx_metadata
  BY DEF Quiet, Store
<1>2. (sdr' = "push" => sdr = "push") /\ (Living' => Living /\ (sdr' = "push" <=> sdr = "push"))
  BY DEF Quiet
<1>3. StoreTypes' /\ SoundBlocks' /\ Delivered'
  BY <1>1 DEF Samples, StoreTypes, SoundBlocks, Delivered, Taken
<1>4. Newest'
  BY <1>1, <1>2 DEF Samples, Newest, Kept, Taken
<1>5. Shared'
  BY <1>1, <1>2 DEF Samples, Shared
<1>6. InOrder'
  BY <1>1 DEF Samples, InOrder, Taken
<1>7. Accounted'
  BY <1>1, <1>2 DEF Samples, Accounted, Kept, InHand, Taken
<1> QED BY <1>3, <1>4, <1>5, <1>6, <1>7 DEF Samples

(* What a step with the queue does: push, pop, flush, or nothing.          *)
Pops    == Take /\ UNCHANGED <<sdr, device>>
Flushes == FlushRx /\ UNCHANGED <<sdr, device>>

LEMMA Moves ==
  LifeCycle /\ [Next]_vars =>
    \/ Quiet \/ Timeout \/ Push \/ Send \/ Pops \/ Flushes
    \/ \E gap \in 0 .. MaxGap, samplesRead \in 1 .. m_rxSampleCnt : Receive(gap, samplesRead)
<1> SUFFICES ASSUME LifeCycle, [Next]_vars
             PROVE  \/ Quiet \/ Timeout \/ Push \/ Send \/ Pops \/ Flushes
                    \/ \E gap \in 0 .. MaxGap, samplesRead \in 1 .. m_rxSampleCnt :
                         Receive(gap, samplesRead)
  OBVIOUS
<1>1. CASE Enter \/ ResetStopping \/ RunBegin \/ LoopTest \/ ModeTest
           \/ RunEnd \/ SetTerminated \/ SetStopping
  <2>1. UNCHANGED <<samples, device>> /\ sdr # "push" /\ sdr' # "push" /\ Living
    BY <1>1 DEF Enter, ResetStopping, RunBegin, LoopTest, ModeTest, RunEnd, SetTerminated,
       SetStopping, Sdr, Living
  <2> QED BY <2>1 DEF Quiet, Store, samples, device
<1>2. CASE SendNothing \/ Undefined \/ Throw
  <2>1. UNCHANGED Store
    BY <1>2 DEF SendNothing, Undefined, Throw, Store, samples, device
  <2>2. \/ ~Living' /\ sdr' # "push"
        \/ Living /\ sdr' # "push" /\ sdr # "push"
    BY <1>2 DEF SendNothing, Undefined, Throw, Sdr, Living
  <2> QED BY <2>1, <2>2 DEF Quiet
<1>3. CASE Start \/ Exit
  <2>1. UNCHANGED Store
    BY <1>3 DEF Start, Exit, Store, samples, device
  <2>2. \/ ~Living' /\ sdr' # "push"
        \/ Living /\ sdr' # "push" /\ sdr # "push"
    BY <1>3 DEF Start, Exit, Main, Living, LifeCycle
  <2> QED BY <2>1, <2>2 DEF Quiet
<1>4. CASE \/ AwaitRunning \/ TestGpio \/ ProgramFlushTx \/ TerminateRequest \/ TerminateFlushTx
           \/ TerminateLeds \/ StopStreaming \/ DestroyFlags \/ Free \/ PollTerminated
           \/ CsvTest \/ CsvDrained \/ ConsumerTest \/ SendDone
  <2>1. UNCHANGED <<Store, sdr>>
    BY <1>4 DEF AwaitRunning, TestGpio, ProgramFlushTx, TerminateRequest, TerminateFlushTx,
       TerminateLeds, StopStreaming, DestroyFlags, Free, PollTerminated, CsvTest, CsvDrained,
       ConsumerTest, SendDone, FlushTx, Store, samples, device
  <2>2. Living
    BY <1>4 DEF AwaitRunning, TestGpio, ProgramFlushTx, TerminateRequest, TerminateFlushTx,
       TerminateLeds, StopStreaming, DestroyFlags, Free, PollTerminated, CsvTest, CsvDrained,
       ConsumerTest, SendDone, Main
  <2> QED BY <2>1, <2>2 DEF Quiet
<1>5. CASE ProgramFlushRx \/ TerminateFlushRx
  BY <1>5 DEF ProgramFlushRx, TerminateFlushRx, Flushes
<1>6. CASE CsvPop \/ ConsumerPop
  BY <1>6 DEF CsvPop, ConsumerPop, Pops
<1>7. CASE \/ Stop \/ \E block \in TxBlock : PushTx(block)
           \/ \E receive \in BOOLEAN : SetMode(receive)
  <2>1. UNCHANGED <<Store, sdr>> /\ Living
    BY <1>7 DEF Stop, PushTx, SetMode, Main, Store, samples, device
  <2> QED BY <2>1 DEF Quiet
<1>8. CASE UNCHANGED vars
  <2>1. UNCHANGED <<Store, sdr>>
    BY <1>8 DEF vars, Store, samples, device
  <2> QED BY <2>1 DEF Quiet, Living
<1> QED
  BY <1>1, <1>2, <1>3, <1>4, <1>5, <1>6, <1>7, <1>8 DEF Next, ThreadStep, ProgramStep

(* Nothing an order relation says is lost when its sets shrink.            *)
LEMMA BeforeParts ==
  \A S, T, U : /\ Before(S \cup T, U) <=> Before(S, U) /\ Before(T, U)
               /\ Before(U, S \cup T) <=> Before(U, S) /\ Before(U, T)
BY Zenon DEF Before

LEMMA BeforeSubsets ==
  \A S, T, U, V : U \subseteq S /\ V \subseteq T /\ Before(S, T) => Before(U, V)
BY Zenon DEF Before

LEMMA BeforeApart ==
  ASSUME NEW S \in SUBSET Int, NEW T, Before(S, T)
  PROVE  S \cap T = {}
<1>1. \A x \in S : ~(x < x)
  OBVIOUS
<1> QED BY <1>1, Zenon DEF Before

(* What is held, in the queue or by a consumer, was delivered.             *)
LEMMA KeptDelivered == Samples => Kept \subseteq 1 .. clock - 1
<1> SUFFICES ASSUME Samples PROVE Held(rx) \subseteq 1 .. clock - 1
  BY DEF Samples, Delivered, Kept
<1>1. \A i \in DOMAIN rx : Range(rx[i].data) \subseteq 1 .. clock - 1
  BY DEF Samples, SoundBlocks, SoundBlock
<1>2. ASSUME NEW x \in Held(rx) PROVE x \in 1 .. clock - 1
  <2>1. Holds(rx, x)
    BY HeldBy, Zenon
  <2>2. PICK i \in DOMAIN rx : \E k \in DOMAIN rx[i].data : x = rx[i].data[k]
    BY <2>1, Zenon DEF Holds
  <2>3. x \in Range(rx[i].data)
    BY <2>2, Zenon DEF Range
  <2> QED BY <2>3, <1>1
<1> QED BY <1>2

(* A block of one to m_rxSampleCnt samples, numbered from first on.        *)
LEMMA FreshBlock ==
  ASSUME NEW first \in Nat \ {0}, NEW n \in Nat \ {0}, first + n - 1 <= Clock,
         NEW block, block = [timestampFirstSample |-> first,
                             data |-> [i \in 1 .. n |-> first + i - 1]]
  PROVE  /\ block \in Block /\ block.timestampFirstSample = first /\ Len(block.data) = n
         /\ Range(block.data) = first .. first + n - 1
         /\ Rising(block.data) /\ Numbered(block)
<1> DEFINE data == [i \in 1 .. n |-> first + i - 1]
<1>1. \A i \in 1 .. n : data[i] = first + i - 1 /\ first + i - 1 \in 1 .. Clock
  BY DeviceAssumption
<1>2. data \in Seq(Sample) /\ Len(data) = n /\ DOMAIN data = 1 .. n
  BY <1>1 DEF Sample
<1>3. block.timestampFirstSample = first /\ block.data = data
  OBVIOUS
<1>4. first \in 0 .. Clock
  BY DeviceAssumption
<1> HIDE DEF data
<1>5. block \in Block
  BY <1>2, <1>3, <1>4 DEF Block, data
<1>6. Range(data) = first .. first + n - 1
  <2>1. ASSUME NEW x \in first .. first + n - 1 PROVE x \in Range(data)
    <3>1. x - first + 1 \in 1 .. n /\ data[x - first + 1] = x
      BY <1>1
    <3> QED BY <3>1, <1>2 DEF Range
  <2>2. ASSUME NEW i \in 1 .. n PROVE data[i] \in first .. first + n - 1
    BY <1>1
  <2> QED BY <2>1, <2>2, <1>2 DEF Range
<1>7. Rising(data)
  BY <1>1, <1>2 DEF Rising
<1>8. Numbered(block)
  BY <1>1, <1>2, <1>3 DEF Numbered
<1> QED BY <1>2, <1>3, <1>5, <1>6, <1>7, <1>8

(***************************************************************************)
(* The steps that move samples keep the invariant.                         *)
(***************************************************************************)
LEMMA ReceiveKeeps ==
  ASSUME Samples, NEW gap \in 0 .. MaxGap, NEW samplesRead \in 1 .. m_rxSampleCnt,
         Receive(gap, samplesRead)
  PROVE  Samples'
<1> DEFINE first == clock + gap
<1>1. /\ clock' = first + samplesRead /\ m_rx_metadata' = first
      /\ first + samplesRead - 1 <= Clock
      /\ lost' = lost \cup clock .. first - 1
      /\ rx' = rx /\ accepted' = accepted /\ taken' = taken /\ sent' = sent
      /\ sdr = "receive" /\ sdr' = "push"
  BY DEF Receive, Sdr
<1>2. /\ clock \in Nat \ {0} /\ gap \in Nat /\ samplesRead \in Nat \ {0} /\ Clock \in Nat
      /\ first \in Nat \ {0} /\ first >= clock
  BY DeviceAssumption DEF Samples, StoreTypes
<1>3. /\ m_rxIQdataOut' \in Block /\ (m_rxIQdataOut').timestampFirstSample = first
      /\ Len((m_rxIQdataOut').data) = samplesRead
      /\ Range((m_rxIQdataOut').data) = first .. first + samplesRead - 1
      /\ Rising((m_rxIQdataOut').data) /\ Numbered(m_rxIQdataOut')
  BY <1>1, <1>2, FreshBlock DEF Receive
<1> HIDE DEF first
<1>4. StoreTypes'
  BY <1>1, <1>2, <1>3 DEF Samples, StoreTypes, Sample
<1>5. SoundBlocks'
  <2>1. SoundBlock(m_rxIQdataOut', clock')
    BY <1>1, <1>2, <1>3 DEF SoundBlock
  <2>2. ASSUME NEW i \in DOMAIN rx PROVE SoundBlock(rx[i], clock')
    <3>1. SoundBlock(rx[i], clock)
      BY DEF Samples, SoundBlocks
    <3>2. rx[i] \in Block
      BY DEF Samples, StoreTypes
    <3>3. Len(rx[i].data) \in Nat /\ rx[i].timestampFirstSample \in Int
      BY <3>2 DEF Block
    <3> QED BY <3>1, <3>3, <1>1, <1>2 DEF SoundBlock
  <2> QED BY <2>1, <2>2, <1>1, <1>3 DEF SoundBlocks
<1>6. /\ Kept' = Kept /\ Kept \subseteq 1 .. clock - 1
      /\ lost \subseteq 1 .. clock - 1 /\ lost' \subseteq 1 .. first - 1
  BY <1>1, <1>2, KeptDelivered DEF Samples, Delivered, Kept, Taken
<1>7. Delivered'
  BY <1>1, <1>2, <1>6 DEF Samples, Delivered, Taken
<1>8. Newest'
  BY <1>1, <1>2, <1>3, <1>6 DEF Newest, Before
<1>9. Shared'
  BY <1>1 DEF Shared
<1>10. InOrder'
  BY <1>1 DEF Samples, InOrder, Taken
<1>11. Accounted'
  <2>1. /\ Kept \cup InHand \cup lost \cup Range(sent) = 1 .. clock - 1
        /\ Kept \cap lost = {} /\ InHand = {}
    BY <1>1 DEF Samples, Accounted, Living, InHand
  <2>2. InHand' = first .. first + samplesRead - 1
    BY <1>1, <1>3 DEF InHand
  <2>3. 1 .. clock' - 1 = (1 .. clock - 1) \cup (clock .. first - 1)
                          \cup (first .. first + samplesRead - 1)
    BY <1>1, <1>2
  <2>4. Kept \cap lost' = {}
    BY <1>1, <1>2, <1>6, <2>1
  <2> QED BY <1>1, <1>6, <2>1, <2>2, <2>3, <2>4 DEF Accounted
<1> QED
  BY <1>4, <1>5, <1>7, <1>8, <1>9, <1>10, <1>11 DEF Samples

LEMMA TimeoutKeeps == Samples /\ Timeout => Samples'
<1> SUFFICES ASSUME Samples, Timeout PROVE Samples' OBVIOUS
<1>1. /\ rx' = rx /\ accepted' = accepted /\ taken' = taken /\ sent' = sent /\ lost' = lost
      /\ clock' = clock /\ m_rx_metadata' = m_rx_metadata
      /\ sdr = "receive" /\ sdr' = "push" /\ m_rxIQdataOut' = Empty(m_rx_metadata)
  BY DEF Timeout, Sdr, device
<1>2. /\ (m_rxIQdataOut').data = <<>> /\ m_rxIQdataOut' \in Block
      /\ Range((m_rxIQdataOut').data) = {}
  BY <1>1 DEF Samples, StoreTypes, Empty, Block, Range
<1>3. StoreTypes' /\ Delivered'
  BY <1>1, <1>2 DEF Samples, StoreTypes, Delivered, Taken
<1>4. SoundBlocks'
  BY <1>1, <1>2 DEF Samples, SoundBlocks, SoundBlock, Rising, Numbered
<1>5. Newest' /\ Shared'
  BY <1>1, <1>2 DEF Newest, Shared, Before
<1>6. InOrder'
  BY <1>1 DEF Samples, InOrder, Taken
<1>7. Accounted'
  <2>1. /\ Kept \cup InHand \cup lost \cup Range(sent) = 1 .. clock - 1
        /\ Kept \cap lost = {} /\ InHand = {} /\ InHand' = {} /\ Kept' = Kept
    BY <1>1, <1>2 DEF Samples, Accounted, Living, InHand, Kept, Taken
  <2> QED BY <1>1, <2>1 DEF Accounted
<1> QED BY <1>3, <1>4, <1>5, <1>6, <1>7 DEF Samples

LEMMA PushKeeps == Samples /\ Push => Samples'
<1> SUFFICES ASSUME Samples, Push PROVE Samples' OBVIOUS
<1> DEFINE block == m_rxIQdataOut
           new == Range(block.data)
<1>1. /\ sdr = "push" /\ sdr' = "loop" /\ m_rxIQdataOut' = block
      /\ taken' = taken /\ sent' = sent /\ clock' = clock /\ m_rx_metadata' = m_rx_metadata
  BY DEF Push, Sdr, device
<1>2. rx \in Seq(Block) /\ block \in Block /\ SoundBlock(block, clock)
  BY DEF Samples, StoreTypes, SoundBlocks
<1>3. Before(Kept \cup lost, new) /\ new \subseteq 1 .. clock - 1
  BY <1>1, <1>2 DEF Samples, Newest, SoundBlock
<1>4. Kept \subseteq 1 .. clock - 1 /\ lost \subseteq 1 .. clock - 1
  BY KeptDelivered DEF Samples, Delivered
<1>5. (Kept \cup lost) \cap new = {}
  BY <1>3, <1>4, BeforeApart
<1>6. /\ Kept \cup new \cup lost \cup Range(sent) = 1 .. clock - 1
      /\ Kept \cap lost = {}
  BY <1>1 DEF Samples, Accounted, Living, InHand
<1>7. InHand' = {} /\ Newest'
  BY <1>1 DEF InHand, Newest
<1>8. accepted' \in BOOLEAN
  BY DEF Push
<1>9. CASE accepted'
  <2>1. rx' = Append(rx, block) /\ lost' = lost
    BY <1>9 DEF Push
  <2>2. /\ rx' \in Seq(Block) /\ Len(rx') = Len(rx) + 1 /\ rx' # <<>>
        /\ DOMAIN rx' = DOMAIN rx \cup {Len(rx) + 1} /\ rx'[Len(rx) + 1] = block
        /\ \A i \in DOMAIN rx : rx'[i] = rx[i] /\ i < Len(rx) + 1 /\ i \in Int
    BY <1>2, <2>1
  <2>3. Kept' = Kept \cup new
    BY <1>1, <1>2, <2>1, HeldAppend DEF Kept, Taken
  <2>4. StoreTypes' /\ Delivered'
    BY <1>1, <1>8, <2>1, <2>2 DEF Samples, StoreTypes, Delivered, Taken
  <2>5. SoundBlocks'
    BY <1>1, <1>2, <2>2 DEF Samples, SoundBlocks
  <2>6. Shared'
    BY <1>1, <2>2 DEF Shared
  <2>7. InOrder'
    <3>1. Before(Taken, new) /\ Rising(block.data)
      <4>1. Taken \subseteq Kept \cup lost
        BY DEF Kept
      <4>2. Before(Taken, new)
        BY <4>1, <1>3, BeforeSubsets
      <4> QED BY <4>2, <1>2 DEF SoundBlock
    <3>2. ASSUME NEW i \in DOMAIN rx PROVE Before(Range(rx[i].data), new)
      <4>1. Range(rx[i].data) \subseteq Held(rx)
        BY HeldBy, Zenon DEF Holds, Range
      <4> QED BY <4>1, <1>3, BeforeParts, BeforeSubsets DEF Kept
    <3>3. sent = <<>> => Numbered(block)
      BY DEF Samples, SoundBlocks
    <3>4. ASSUME NEW i \in DOMAIN rx', NEW j \in DOMAIN rx', i < j
          PROVE  Before(Range(rx'[i].data), Range(rx'[j].data))
      <4>1. i \in DOMAIN rx
        BY <2>2, <3>4
      <4>2. CASE j \in DOMAIN rx
        BY <4>1, <4>2, <2>2, <3>4 DEF Samples, InOrder
      <4>3. CASE j = Len(rx) + 1
        BY <4>1, <4>3, <2>2, <3>2
      <4> QED BY <2>2, <4>2, <4>3
    <3>5. \A i \in DOMAIN rx' : Rising(rx'[i].data) /\ Before(Taken, Range(rx'[i].data))
      BY <2>2, <3>1 DEF Samples, InOrder
    <3>6. sent = <<>> => \A i \in DOMAIN rx' : Numbered(rx'[i])
      BY <2>2, <3>3 DEF Samples, InOrder
    <3>7. Taken' = Taken
      BY <1>1 DEF Taken
    <3> QED BY <1>1, <3>4, <3>5, <3>6, <3>7 DEF Samples, InOrder
  <2>8. Accounted'
    BY <1>1, <1>5, <1>6, <1>7, <2>1, <2>3 DEF Accounted
  <2> QED BY <1>7, <2>4, <2>5, <2>6, <2>7, <2>8 DEF Samples
<1>10. CASE ~accepted'
  <2>1. rx' = rx /\ lost' = lost \cup new
    BY <1>10 DEF Push
  <2>2. Kept' = Kept
    BY <1>1, <2>1 DEF Kept, Taken
  <2>3. new \subseteq Sample
    BY <1>2 DEF Block, Range
  <2>4. StoreTypes'
    BY <1>1, <1>8, <2>1, <2>3 DEF Samples, StoreTypes
  <2>5. Delivered'
    BY <1>1, <1>3, <2>1 DEF Samples, Delivered, Taken
  <2>6. SoundBlocks' /\ InOrder'
    BY <1>1, <2>1 DEF Samples, SoundBlocks, InOrder, Taken
  <2>7. Shared'
    BY <1>10 DEF Shared
  <2>8. Accounted'
    BY <1>1, <1>5, <1>6, <1>7, <2>1, <2>2 DEF Accounted
  <2> QED BY <1>7, <2>4, <2>5, <2>6, <2>7, <2>8 DEF Samples
<1> QED BY <1>9, <1>10

LEMMA FlushKeeps == Samples /\ Flushes => Samples'
<1> SUFFICES ASSUME Samples, Flushes PROVE Samples' OBVIOUS
<1>1. /\ rx' = <<>> /\ lost' = lost \cup Held(rx) /\ m_rxIQdataOut' = m_rxIQdataOut
      /\ accepted' = accepted /\ taken' = taken /\ sent' = sent
      /\ clock' = clock /\ m_rx_metadata' = m_rx_metadata /\ sdr' = sdr
  BY DEF Flushes, FlushRx, device
<1>2. DOMAIN rx' = {} /\ Held(rx') = {} /\ rx' \in Seq(Block)
  BY <1>1 DEF Held, Range
<1>3. Taken' = Taken /\ Kept' = Taken /\ Kept' \cup lost' = Kept \cup lost /\ InHand' = InHand
  BY <1>1, <1>2 DEF Kept, Taken, InHand
<1>4. Kept \subseteq 1 .. clock - 1 /\ Held(rx) \subseteq Sample
  <2>1. 1 .. clock - 1 \subseteq Sample
    BY DeviceAssumption DEF Samples, StoreTypes, Sample
  <2> QED BY <2>1, KeptDelivered DEF Kept
<1>5. StoreTypes'
  BY <1>1, <1>2, <1>4 DEF Samples, StoreTypes
<1>6. Delivered'
  BY <1>1, <1>3, <1>4 DEF Samples, Delivered, Kept
<1>7. SoundBlocks' /\ Shared'
  BY <1>1, <1>2 DEF Samples, SoundBlocks, Shared
<1>8. Newest'
  BY <1>1, <1>3 DEF Samples, Newest
<1>9. InOrder'
  BY <1>1, <1>2 DEF Samples, InOrder
<1>10. Accounted'
  <2>1. Taken \cap Held(rx) = {}
    <3>1. ASSUME NEW x \in Held(rx) PROVE x \notin Taken
      <4>0. Holds(rx, x)
        BY <3>1, HeldBy, Zenon
      <4>1. PICK i \in DOMAIN rx : \E k \in DOMAIN rx[i].data : x = rx[i].data[k]
        BY <4>0, Zenon DEF Holds
      <4>2. x \in Range(rx[i].data) /\ Before(Taken, Range(rx[i].data))
        BY <4>1, Zenon DEF Samples, InOrder, Range
      <4>3. Taken \in SUBSET Int
        BY <1>4 DEF Samples, Delivered
      <4> QED BY <4>2, <4>3, BeforeApart
    <3> QED BY <3>1
  <2>2. Living' = Living
    BY <1>1 DEF Living
  <2> QED BY <1>1, <1>3, <2>1, <2>2 DEF Samples, Accounted, Kept
<1> QED BY <1>5, <1>6, <1>7, <1>8, <1>9, <1>10 DEF Samples

(* What a consumer makes of a block.                                       *)
LEMMA StampedBlock ==
  ASSUME NEW block \in Block, NEW now \in 1 .. Clock + 1, SoundBlock(block, now)
  PROVE  /\ Stamped(block) \in Seq(Sample \X Sample) /\ DOMAIN Stamped(block) = DOMAIN block.data
         /\ \A i \in DOMAIN block.data :
              Stamped(block)[i] = <<block.timestampFirstSample + i - 1, block.data[i]>>
         /\ {p[2] : p \in Range(Stamped(block))} = Range(block.data)
<1> DEFINE stamp == block.timestampFirstSample
           data  == block.data
           pairs == Stamped(block)
<1>1. stamp \in Int /\ data \in Seq(Sample) /\ DOMAIN data = 1 .. Len(data) /\ Len(data) \in Nat
  BY DEF Block
<1>2. ASSUME NEW i \in DOMAIN data PROVE stamp + i - 1 \in Sample
  <2>1. data # <<>> /\ i >= 1 /\ i <= Len(data) /\ i \in Int
    BY <1>1
  <2>2. stamp >= 1 /\ stamp + Len(data) <= now
    BY <2>1 DEF SoundBlock
  <2> QED BY <2>1, <2>2, <1>1, DeviceAssumption DEF Sample
<1>3. pairs = [i \in DOMAIN data |-> <<stamp + i - 1, data[i]>>]
  BY DEF Stamped
<1> HIDE DEF stamp, data, pairs
<1>4. \A i \in DOMAIN data : /\ pairs[i] = <<stamp + i - 1, data[i]>>
                             /\ pairs[i] \in Sample \X Sample /\ pairs[i][2] = data[i]
  BY <1>1, <1>2, <1>3
<1>5. DOMAIN pairs = DOMAIN data
  BY <1>3
<1>6. pairs \in Seq(Sample \X Sample)
  <2>1. pairs \in [1 .. Len(data) -> Sample \X Sample]
    BY <1>1, <1>3, <1>4
  <2> QED BY <2>1, <1>1
<1>7. {p[2] : p \in Range(pairs)} = Range(data)
  <2>1. ASSUME NEW p \in Range(pairs) PROVE p[2] \in Range(data)
    <3>1. PICK i \in DOMAIN data : p = pairs[i]
      BY <1>5, Zenon DEF Range
    <3>2. p[2] = data[i]
      BY <3>1, <1>4, Zenon
    <3> QED BY <3>2, Zenon DEF Range
  <2>2. ASSUME NEW x \in Range(data) PROVE \E p \in Range(pairs) : x = p[2]
    <3>1. PICK i \in DOMAIN data : x = data[i]
      BY Zenon DEF Range
    <3>2. pairs[i] \in Range(pairs) /\ x = pairs[i][2]
      BY <3>1, <1>4, <1>5, Zenon DEF Range
    <3> QED BY <3>2, Zenon
  <2> QED BY <2>1, <2>2, Zenon
<1> QED BY <1>4, <1>5, <1>6, <1>7 DEF stamp, data, pairs

LEMMA PopKeeps == Samples /\ Pops => Samples'
<1> SUFFICES ASSUME Samples, Pops PROVE Samples' OBVIOUS
<1> DEFINE first == Head(rx)
           pairs == Stamped(first)
<1>1. /\ rx # <<>> /\ rx' = Tail(rx) /\ taken' = taken \o pairs
      /\ m_rxIQdataOut' = m_rxIQdataOut /\ accepted' = accepted /\ lost' = lost /\ sent' = sent
      /\ clock' = clock /\ m_rx_metadata' = m_rx_metadata /\ sdr' = sdr
  BY DEF Pops, Take, device
<1>2. /\ rx \in Seq(Block) /\ taken \in Seq(Sample \X Sample)
      /\ clock \in 1 .. Clock + 1
  BY DEF Samples, StoreTypes
<1>3. first \in Block /\ 1 \in DOMAIN rx /\ first = rx[1]
  BY <1>1, <1>2
<1>4. SoundBlock(first, clock)
  BY <1>3 DEF Samples, SoundBlocks
<1>5. /\ pairs \in Seq(Sample \X Sample) /\ DOMAIN pairs = DOMAIN first.data
      /\ \A i \in DOMAIN first.data :
           pairs[i] = <<first.timestampFirstSample + i - 1, first.data[i]>>
      /\ {p[2] : p \in Range(pairs)} = Range(first.data)
  BY <1>2, <1>3, <1>4, StampedBlock
<1>6. /\ rx' \in Seq(Block)
      /\ \A i \in DOMAIN rx' : /\ i \in Int /\ i + 1 \in DOMAIN rx /\ rx'[i] = rx[i + 1]
                               /\ i + 1 > 1
      /\ rx' # <<>> => rx'[Len(rx')] = rx[Len(rx)]
  BY <1>1, <1>2
<1>7. Held(rx) = Range(first.data) \cup Held(rx')
  BY <1>1, <1>2, HeldTail
<1> HIDE DEF first, pairs
<1>8. Taken' = Taken \cup Range(first.data)
  <2>1. Range(taken') = Range(taken) \cup Range(pairs)
    BY <1>1, <1>2, <1>5, RangeConcat
  <2>2. Taken' = {p[2] : p \in Range(taken')}
    BY DEF Taken
  <2>3. Taken' = Taken \cup {p[2] : p \in Range(pairs)}
    BY <2>1, <2>2, Zenon DEF Taken
  <2> QED BY <2>3, <1>5
<1>9. Kept' = Kept /\ InHand' = InHand /\ Living' = Living
  BY <1>1, <1>7, <1>8 DEF Kept, InHand, Living
<1>10. StoreTypes'
  BY <1>1, <1>2, <1>5, <1>6 DEF Samples, StoreTypes
<1>11. SoundBlocks'
  BY <1>1, <1>6 DEF Samples, SoundBlocks
<1>12. Delivered'
  <2>1. Range(first.data) \subseteq 1 .. clock - 1
    BY <1>4 DEF SoundBlock
  <2> QED BY <2>1, <1>1, <1>8 DEF Samples, Delivered
<1>13. Newest' /\ Accounted'
  BY <1>1, <1>9 DEF Samples, Newest, Accounted
<1>14. Shared'
  BY <1>1, <1>6, <1>9 DEF Samples, Shared
<1>15. InOrder'
  <2> DEFINE n == Len(taken)
  <2>1. /\ \A i \in DOMAIN taken' : i \in DOMAIN taken \/ i - n \in DOMAIN pairs
        /\ \A i \in DOMAIN taken : taken'[i] = taken[i] /\ i \in Int /\ i <= n
        /\ \A i \in DOMAIN pairs : taken'[i + n] = pairs[i] /\ i \in Int /\ i > 0
        /\ n \in Int /\ DOMAIN taken' \subseteq Int
    BY <1>1, <1>2, <1>5
  <2> HIDE DEF n
  <2>2. \A i \in DOMAIN taken' :
          i - n \in DOMAIN pairs => taken'[i] = pairs[i - n]
    <3> TAKE i \in DOMAIN taken'
    <3>1. i - n \in DOMAIN pairs => taken'[i - n + n] = pairs[i - n]
      BY <2>1
    <3>2. i - n + n = i
      BY <2>1
    <3> QED BY <3>1, <3>2
  <2>3. Before(Taken, Range(first.data)) /\ Rising(first.data)
    BY <1>3 DEF Samples, InOrder
  <2>4. ASSUME NEW i \in DOMAIN taken', NEW j \in DOMAIN taken', i < j
        PROVE  taken'[i][2] < taken'[j][2]
    <3>1. CASE j \in DOMAIN taken
      <4>1. i \in DOMAIN taken
        BY <2>1, <2>4, <3>1
      <4> QED BY <4>1, <3>1, <2>1, <2>4 DEF Samples, InOrder
    <3>2. CASE i \in DOMAIN taken /\ j - n \in DOMAIN pairs
      <4>1. taken[i][2] \in Taken
        BY <3>2, Zenon DEF Taken, Range
      <4>2. taken'[j] = pairs[j - n] /\ pairs[j - n][2] = first.data[j - n]
        BY <3>2, <2>2, <1>5
      <4>3. first.data[j - n] \in Range(first.data)
        BY <3>2, <1>5, Zenon DEF Range
      <4> QED BY <4>1, <4>2, <4>3, <2>1, <2>3, <3>2 DEF Before
    <3>3. CASE i - n \in DOMAIN pairs /\ j - n \in DOMAIN pairs
      <4>1. /\ taken'[i][2] = first.data[i - n]
            /\ taken'[j][2] = first.data[j - n]
        BY <3>3, <2>2, <1>5
      <4>2. i - n < j - n
        BY <2>1, <2>4
      <4> QED BY <4>1, <4>2, <3>3, <1>5, <2>3 DEF Rising
    <3> QED BY <3>1, <3>2, <3>3, <2>1, Zenon
  <2>5. ASSUME NEW i \in DOMAIN rx'
        PROVE  Rising(rx'[i].data) /\ Before(Taken', Range(rx'[i].data))
    <3>1. i + 1 \in DOMAIN rx /\ 1 < i + 1
      BY <1>6
    <3>2. Rising(rx[i + 1].data) /\ Before(Taken, Range(rx[i + 1].data))
      BY <3>1 DEF Samples, InOrder
    <3>3. Before(Range(first.data), Range(rx[i + 1].data))
      BY <3>1, <1>3 DEF Samples, InOrder
    <3>4. Before(Taken \cup Range(first.data), Range(rx[i + 1].data))
      BY <3>2, <3>3, Zenon DEF Before
    <3> QED BY <3>2, <3>4, <1>6, <1>8
  <2>6. ASSUME NEW i \in DOMAIN rx', NEW j \in DOMAIN rx', i < j
        PROVE  Before(Range(rx'[i].data), Range(rx'[j].data))
    <3>1. i + 1 \in DOMAIN rx /\ j + 1 \in DOMAIN rx /\ i + 1 < j + 1
      BY <1>6, <2>6
    <3> QED BY <3>1, <1>6 DEF Samples, InOrder
  <2>7. ASSUME sent = <<>>, NEW i \in DOMAIN taken' PROVE taken'[i][1] = taken'[i][2]
    <3>1. CASE i \in DOMAIN taken
      BY <3>1, <2>1, <2>7 DEF Samples, InOrder
    <3>2. CASE i - n \in DOMAIN pairs
      <4>1. Numbered(first)
        BY <1>3, <2>7 DEF Samples, InOrder
      <4>2. taken'[i] = <<first.timestampFirstSample + (i - n) - 1, first.data[i - n]>>
        BY <3>2, <2>2, <1>5
      <4> QED BY <4>1, <4>2, <3>2, <1>5 DEF Numbered
    <3> QED BY <3>1, <3>2, <2>1
  <2>8. ASSUME sent = <<>>, NEW i \in DOMAIN rx' PROVE Numbered(rx'[i])
    BY <1>6, <2>8 DEF Samples, InOrder
  <2> QED BY <1>1, <2>4, <2>5, <2>6, <2>7, <2>8 DEF InOrder
<1> QED BY <1>10, <1>11, <1>12, <1>13, <1>14, <1>15 DEF Samples

(* The transmitting turn takes samples from the block received last, and   *)
(* with it from the queue, as far as the two still share it.               *)
LEMMA SendKeeps == Samples /\ Send => Samples'
<1> SUFFICES ASSUME Samples, Send PROVE Samples' OBVIOUS
<1> DEFINE w     == samplesWrite
           data  == m_rxIQdataOut.data
           first == SubSeq(data, 1, w)
           rest  == SubSeq(data, w + 1, Len(data))
           block == [m_rxIQdataOut EXCEPT !.data = rest]
           n     == Len(rx)
<1>1. /\ taken' = taken /\ lost' = lost /\ accepted' = accepted /\ clock' = clock
      /\ m_rx_metadata' = m_rx_metadata /\ sdr = "send" /\ sdr' = "loop"
      /\ m_rxIQdataOut' = block /\ sent' = sent \o first /\ w \in 1 .. Len(data)
  BY DEF Send, Sdr, device
<1>2. rx' = IF accepted /\ rx # <<>> THEN [rx EXCEPT ![n] = block] ELSE rx
  BY DEF Send
<1>3. /\ rx \in Seq(Block) /\ m_rxIQdataOut \in Block /\ data \in Seq(Sample)
      /\ sent \in Seq(Sample) /\ SoundBlock(m_rxIQdataOut, clock) /\ clock \in Int
  BY DEF Samples, StoreTypes, SoundBlocks, Block
<1>4. /\ rest \in Seq(Sample) /\ Len(rest) = Len(data) - w
      /\ \A i \in DOMAIN rest : i + w \in DOMAIN data /\ rest[i] = data[i + w]
      /\ Range(data) = Range(first) \cup Range(rest)
      /\ first \in Seq(Sample) /\ Len(first) = w
  BY <1>1, <1>3, Split
<1>5. /\ block \in Block /\ block.data = rest
      /\ block.timestampFirstSample = m_rxIQdataOut.timestampFirstSample
  BY <1>3, <1>4 DEF Block
<1>6. Len(data) \in Nat /\ w \in Nat \ {0} /\ data # <<>> /\ DOMAIN rest \subseteq Int
  BY <1>1, <1>3, <1>4
<1> HIDE DEF w, data, first, rest, block, n
<1>7. Range(sent') = Range(sent) \cup Range(first) /\ sent' \in Seq(Sample) /\ sent' # <<>>
  <2>1. Range(sent') = Range(sent) \cup Range(first)
    BY <1>1, <1>3, <1>4, RangeConcat
  <2> QED BY <2>1, <1>1, <1>3, <1>4, <1>6
<1>8. Range(first) \subseteq 1 .. clock - 1 /\ Range(rest) \subseteq 1 .. clock - 1
  BY <1>3, <1>4 DEF SoundBlock, data
<1>9. SoundBlock(block, clock)
  <2>1. Rising(rest)
    <3>1. Rising(data)
      BY <1>3 DEF SoundBlock, data
    <3>2. ASSUME NEW i \in DOMAIN rest, NEW j \in DOMAIN rest, i < j
          PROVE  rest[i] < rest[j]
      <4>1. i + w \in DOMAIN data /\ j + w \in DOMAIN data /\ i + w < j + w
        BY <1>4, <1>6, <3>2
      <4> QED BY <4>1, <3>1, <1>4 DEF Rising
    <3> QED BY <3>2 DEF Rising
  <2>2. /\ m_rxIQdataOut.timestampFirstSample >= 1
        /\ m_rxIQdataOut.timestampFirstSample + Len(data) <= clock
    BY <1>3, <1>6 DEF SoundBlock, data
  <2>3. m_rxIQdataOut.timestampFirstSample \in Int
    BY <1>3 DEF Block
  <2> QED BY <2>1, <2>2, <2>3, <1>3, <1>4, <1>5, <1>6, <1>8 DEF SoundBlock
<1>10. CASE ~(accepted /\ rx # <<>>)
  <2>1. rx' = rx /\ Taken' = Taken /\ Kept' = Kept
    BY <1>1, <1>2, <1>10 DEF Kept, Taken
  <2>2. StoreTypes' /\ SoundBlocks'
    BY <1>1, <1>5, <1>7, <1>9, <2>1 DEF Samples, StoreTypes, SoundBlocks
  <2>3. Delivered' /\ Newest'
    BY <1>1, <1>7, <1>8, <2>1 DEF Samples, Delivered, Newest
  <2>4. Shared'
    BY <1>1, <1>10, <2>1 DEF Shared
  <2>5. InOrder'
    BY <1>1, <1>7, <2>1 DEF Samples, InOrder
  <2>6. Accounted'
    BY <1>1, <1>7, <1>8, <2>1 DEF Samples, Accounted, InHand, Living
  <2> QED BY <2>2, <2>3, <2>4, <2>5, <2>6 DEF Samples
<1>11. CASE accepted /\ rx # <<>>
  <2>1. rx' = [rx EXCEPT ![n] = block] /\ Taken' = Taken
    BY <1>1, <1>2, <1>11 DEF Taken
  <2>2. rx[n] = m_rxIQdataOut
    BY <1>1, <1>11 DEF Samples, Shared, Living, n
  <2>3. /\ rx' \in Seq(Block) /\ rx' # <<>> /\ DOMAIN rx' = DOMAIN rx /\ Len(rx') = n
        /\ n \in DOMAIN rx /\ rx'[n] = block
        /\ \A i \in DOMAIN rx : i # n => rx'[i] = rx[i]
    BY <1>3, <1>5, <1>11, <2>1 DEF n
  <2>4. /\ Held(rx') \cup Range(data) = Held(rx) \cup Range(rest)
        /\ Range(rest) \subseteq Held(rx')
    <3> DEFINE p == [rx EXCEPT ![Len(rx)] = block]
    <3>0. /\ Held(p) \cup Range(rx[Len(rx)].data) = Held(rx) \cup Range(block.data)
          /\ Range(block.data) \subseteq Held(p)
      <4> HIDE DEF p
      <4> QED BY <1>3, <1>5, <1>11, HeldReplaced DEF p
    <3>1. /\ Held(rx') \cup Range(rx[n].data) = Held(rx) \cup Range(block.data)
          /\ Range(block.data) \subseteq Held(rx')
      BY <3>0, <2>1 DEF n
    <3>2. rx[n].data = data
      BY <2>2 DEF data
    <3> QED BY <3>1, <3>2, <1>5
  <2>5. Range(data) \subseteq Held(rx)
    <3>1. ASSUME NEW x \in Range(data) PROVE Holds(rx, x)
      <4>1. PICK k \in DOMAIN data : x = data[k]
        BY Zenon DEF Range
      <4> QED BY <4>1, <2>2, <2>3, Zenon DEF Holds, data
    <3> QED BY <3>1, HeldBy
  <2>6. Held(rx') \subseteq Held(rx) /\ Held(rx) = Held(rx') \cup Range(first)
    BY <2>4, <2>5, <1>4
  <2>7. StoreTypes' /\ SoundBlocks'
    BY <1>1, <1>5, <1>7, <1>9, <2>3 DEF Samples, StoreTypes, SoundBlocks
  <2>8. Delivered' /\ Newest'
    BY <1>1, <1>7, <1>8, <2>1 DEF Samples, Delivered, Newest
  <2>9. Shared'
    BY <1>1, <2>3 DEF Shared
  <2>10. \A i \in DOMAIN rx : Rising(rx'[i].data) /\ Range(rx'[i].data) \subseteq Range(rx[i].data)
    <3>1. Range(block.data) \subseteq Range(rx[n].data) /\ Rising(block.data)
      BY <1>4, <1>5, <1>9, <2>2 DEF SoundBlock, data
    <3> QED BY <3>1, <2>3 DEF Samples, InOrder
  <2>11. InOrder'
    <3>1. ASSUME NEW i \in DOMAIN rx' PROVE Rising(rx'[i].data) /\ Before(Taken, Range(rx'[i].data))
      <4>1. Before(Taken, Range(rx[i].data))
        BY <2>3 DEF Samples, InOrder
      <4> QED BY <4>1, <2>3, <2>10, BeforeSubsets
    <3>2. ASSUME NEW i \in DOMAIN rx', NEW j \in DOMAIN rx', i < j
          PROVE  Before(Range(rx'[i].data), Range(rx'[j].data))
      <4>1. Before(Range(rx[i].data), Range(rx[j].data))
        BY <2>3, <3>2 DEF Samples, InOrder
      <4> QED BY <4>1, <2>3, <2>10, BeforeSubsets
    <3>3. \A i, j \in DOMAIN taken' : i < j => taken'[i][2] < taken'[j][2]
      BY <1>1 DEF Samples, InOrder
    <3> QED BY <1>7, <2>1, <3>1, <3>2, <3>3 DEF InOrder
  <2>12. Accounted'
    BY <1>1, <1>7, <1>8, <2>1, <2>6 DEF Samples, Accounted, InHand, Living, Kept
  <2> QED BY <2>7, <2>8, <2>9, <2>11, <2>12 DEF Samples
<1> QED BY <1>10, <1>11

IInv == LifeCycle /\ TerminatedMeansReturned /\ Samples

LEMMA SamplesStep == IInv /\ [Next]_vars => IInv'
<1> SUFFICES ASSUME IInv, [Next]_vars PROVE IInv' OBVIOUS
<1>1. LifeCycle' /\ TerminatedMeansReturned'
  BY LifeCycleStep DEF IInv
<1>2. Samples'
  BY Moves, QuietKeeps, TimeoutKeeps, PushKeeps, SendKeeps, PopKeeps, FlushKeeps, ReceiveKeeps
     DEF IInv
<1> QED BY <1>1, <1>2 DEF IInv

LEMMA SamplesAlways == Spec => []IInv
<1>1. Init => IInv
  BY LifeCycleInit, SamplesInit DEF IInv
<1> QED BY <1>1, SamplesStep, PTL DEF Spec

(* For any block sizes, gaps, queue limits and programs, a consumer gets   *)
(* the device's samples in order, none twice, and numbered by the device's *)
(* timestamps until something is sent.                                     *)
THEOREM SamplesInOrder == Spec => []InOrder
<1>1. IInv => InOrder BY DEF IInv, Samples
<1> QED BY <1>1, SamplesAlways, PTL

(* No sample vanishes: what is neither with a consumer nor waiting for one *)
(* was dropped at one of the three places the code reports, or was sent.   *)
THEOREM SamplesAccounted == Spec => []Accounted
<1>1. IInv => Accounted BY DEF IInv, Samples
<1> QED BY <1>1, SamplesAlways, PTL

(***************************************************************************)
(* Types and bounds.                                                       *)
(***************************************************************************)
Flags   == {stopping, terminated, m_isRxTxRunning, m_isRX} \subseteq BOOLEAN
PinsOf  == gpio_val \subseteq 0 .. 7
Bounded == /\ Len(rx) <= MaxItems
           /\ tx \in Seq(TxBlock) /\ Len(tx) <= MaxItems
Places  == sdr \in Thread /\ tested \in 0 .. Len(GpioTest)

LEMMA TypesInit == Init => Flags /\ PinsOf /\ Bounded /\ Places
<1> SUFFICES ASSUME Init PROVE Flags /\ PinsOf /\ Bounded /\ Places OBVIOUS
<1>1. Flags /\ Places
  <2>1. Flags /\ sdr \in Thread /\ tested = 0
    BY DEF Init, Flags, Thread
  <2> QED BY <2>1, TestOrder DEF Places
<1>2. PinsOf
  BY ModeTable DEF Init, PinsOf, RxPins, LED1, LED3, LED4
<1>3. Bounded
  BY BacklogAssumption DEF Init, Bounded
<1> QED BY <1>1, <1>2, <1>3

LEMMA PlacesStep == Places /\ [Next]_vars => Places'
<1> SUFFICES ASSUME Places, [Next]_vars PROVE Places' OBVIOUS
<1>1. sdr' \in Thread
  <2> USE DEF Places, Thread
  <2>1. CASE ThreadStep \/ Throw
    BY <2>1 DEF ThreadStep, Throw, Enter, ResetStopping, RunBegin, LoopTest, ModeTest, Receive,
       Timeout, Push, SendNothing, Send, RunEnd, SetTerminated, SetStopping, Undefined, Sdr
  <2>2. CASE Start \/ Exit
    BY <2>2 DEF Start, Exit
  <2>3. CASE ~(ThreadStep \/ Throw \/ Start \/ Exit)
    <3>1. sdr' = sdr
      BY <2>3 DEF Next, ProgramStep, AwaitRunning, TestGpio, ProgramFlushRx, ProgramFlushTx,
         TerminateRequest, TerminateFlushRx, TerminateFlushTx, TerminateLeds, StopStreaming,
         DestroyFlags, Free, PollTerminated, CsvTest, CsvPop, CsvDrained, ConsumerTest,
         ConsumerPop, SendDone, Stop, PushTx, SetMode, vars
    <3> QED BY <3>1
  <2> QED BY <2>1, <2>2, <2>3
<1>2. tested' \in 0 .. Len(GpioTest)
  <2>1. CASE TestGpio
    BY <2>1, TestOrder DEF TestGpio, Places
  <2>2. CASE ~TestGpio
    <3>1. tested' = tested
      BY <2>2 DEF Next, ThreadStep, Throw, Enter, ResetStopping, RunBegin, LoopTest, ModeTest,
         Receive, Timeout, Push, SendNothing, Send, RunEnd, SetTerminated, SetStopping,
         Undefined, ProgramStep, Start, AwaitRunning, ProgramFlushRx, ProgramFlushTx,
         TerminateRequest, TerminateFlushRx, TerminateFlushTx, TerminateLeds, StopStreaming,
         DestroyFlags, Free, Exit, PollTerminated, CsvTest, CsvPop, CsvDrained, ConsumerTest,
         ConsumerPop, SendDone, Stop, PushTx, SetMode, Main, where, vars
    <3> QED BY <3>1 DEF Places
  <2> QED BY <2>1, <2>2
<1> QED BY <1>1, <1>2 DEF Places

LEMMA FlagsStep == Flags /\ [Next]_vars => Flags'
<1> SUFFICES ASSUME Flags, [Next]_vars PROVE Flags' OBVIOUS
<1> USE DEF Flags
<1>1. CASE ThreadStep \/ Throw
  BY <1>1 DEF ThreadStep, Throw, Enter, ResetStopping, RunBegin, LoopTest, ModeTest, Receive,
     Timeout, Push, SendNothing, Send, RunEnd, SetTerminated, SetStopping, Undefined, flags
<1>2. CASE ProgramStep \/ Stop
  BY <1>2 DEF ProgramStep, Start, AwaitRunning, TestGpio, ProgramFlushRx, ProgramFlushTx,
     TerminateRequest, RequestStop, TerminateFlushRx, TerminateFlushTx, TerminateLeds,
     StopStreaming, DestroyFlags, Free, Exit, PollTerminated, CsvTest, CsvPop, CsvDrained,
     ConsumerTest, ConsumerPop, SendDone, Stop, flags
<1>3. CASE \/ \E block \in TxBlock : PushTx(block)
           \/ \E receive \in BOOLEAN : SetMode(receive)
           \/ UNCHANGED vars
  BY <1>3 DEF PushTx, SetMode, vars, flags
<1> QED BY <1>1, <1>2, <1>3 DEF Next

LEMMA PinsOfStep == Places /\ PinsOf /\ [Next]_vars => PinsOf'
<1> SUFFICES ASSUME Places, PinsOf, [Next]_vars PROVE PinsOf' OBVIOUS
<1> USE DEF PinsOf
<1>1. CASE TestGpio
  <2>1. tested + 1 \in 1 .. 11
    BY <1>1, TestOrder DEF TestGpio, Places
  <2>2. PICK m \in 0 .. 4 : gpio_val' = IF m = 0 THEN RxPins(gpio_val) ELSE TxPins(gpio_val, m)
    BY <1>1, <2>1, TestOrder DEF TestGpio
  <2>3. {LED1, LED2, LED3, LED4} \subseteq 0 .. 7 /\ m_modeGPIO[m] \subseteq 0 .. 7
        /\ m_modeGPIO[0] \subseteq 0 .. 7
    BY ModeTable DEF LED1, LED2, LED3, LED4
  <2> QED BY <2>2, <2>3 DEF RxPins, TxPins
<1>2. CASE TerminateLeds \/ StopStreaming
  BY <1>2 DEF TerminateLeds, StopStreaming
<1>3. CASE \/ ThreadStep \/ Throw \/ Stop
           \/ \E block \in TxBlock : PushTx(block)
           \/ \E receive \in BOOLEAN : SetMode(receive)
           \/ UNCHANGED vars
  BY <1>3 DEF ThreadStep, Throw, Enter, ResetStopping, RunBegin, LoopTest, ModeTest, Receive,
     Timeout, Push, SendNothing, Send, RunEnd, SetTerminated, SetStopping, Undefined, Stop,
     PushTx, SetMode, vars
<1>4. CASE ProgramStep
  BY <1>1, <1>2, <1>4 DEF ProgramStep, Start, AwaitRunning, ProgramFlushRx, ProgramFlushTx,
     TerminateRequest, TerminateFlushRx, TerminateFlushTx, DestroyFlags, Free, Exit,
     PollTerminated, CsvTest, CsvPop, CsvDrained, ConsumerTest, ConsumerPop, SendDone
<1> QED BY <1>3, <1>4 DEF Next

(* Both ways in which the code's pop is written shorten the queue.         *)
LEMMA Shortened ==
  ASSUME NEW S, NEW q \in Seq(S), q # <<>>
  PROVE  /\ Tail(q) \in Seq(S) /\ Len(Tail(q)) < Len(q)
         /\ SubSeq(q, 2, Len(q)) \in Seq(S) /\ Len(SubSeq(q, 2, Len(q))) < Len(q)
<1> DEFINE n == Len(q)
<1>1. n \in Nat \ {0} /\ Tail(q) \in Seq(S) /\ Len(Tail(q)) = n - 1
  OBVIOUS
<1>2. \A i \in 2 .. n : q[i] \in S
  OBVIOUS
<1>3. SubSeq(q, 2, n) = [i \in 1 .. n - 1 |-> q[i + 1]]
  BY <1>1
<1>4. SubSeq(q, 2, n) \in Seq(S) /\ Len(SubSeq(q, 2, n)) = n - 1
  BY <1>1, <1>2, <1>3
<1> QED BY <1>1, <1>4

LEMMA BoundedStep == StoreTypes /\ Bounded /\ [Next]_vars => Bounded'
<1> SUFFICES ASSUME StoreTypes, Bounded, [Next]_vars PROVE Bounded' OBVIOUS
<1>1. /\ rx \in Seq(Block) /\ Len(rx) <= MaxItems
      /\ tx \in Seq(TxBlock) /\ Len(tx) <= MaxItems /\ MaxItems \in Nat
  BY BacklogAssumption DEF StoreTypes, Bounded
<1>2. CASE Push
  <2>1. \/ Len(rx) < MaxItems /\ rx' = Append(rx, m_rxIQdataOut)
        \/ rx' = rx
    BY <1>2, Zenon DEF Push
  <2>2. Len(rx') <= MaxItems
    BY <1>1, <2>1
  <2>3. tx' = tx
    BY <1>2 DEF Push
  <2> QED BY <1>1, <2>2, <2>3 DEF Bounded
<1>3. CASE SendNothing \/ Send
  <2>1. tx' \in Seq(TxBlock) /\ Len(tx') <= MaxItems
    <3>1. CASE tx = <<>>
      BY <1>1, <1>3, <3>1 DEF SendNothing, Send, samplesWrite
    <3>2. CASE tx # <<>>
      <4>1. tx' = SubSeq(tx, 2, Len(tx)) \/ tx' = Tail(tx)
        BY <1>3 DEF SendNothing, Send
      <4>2. tx' \in Seq(TxBlock) /\ Len(tx') < Len(tx)
        BY <4>1, <3>2, <1>1, Shortened, Zenon
      <4>3. Len(tx') \in Nat /\ Len(tx) \in Nat
        BY <4>2, <1>1
      <4> QED BY <4>2, <4>3, <1>1
    <3> QED BY <3>1, <3>2
  <2>2. Len(rx') = Len(rx)
    BY <1>1, <1>3 DEF SendNothing, Send
  <2> QED BY <1>1, <2>1, <2>2 DEF Bounded
<1>4. CASE Pops
  BY <1>1, <1>4 DEF Pops, Take, Bounded
<1>5. CASE Flushes
  BY <1>1, <1>5 DEF Flushes, FlushRx, Bounded
<1>6. CASE ProgramFlushTx \/ TerminateFlushTx
  <2>1. tx' = <<>> /\ rx' = rx
    BY <1>6 DEF ProgramFlushTx, TerminateFlushTx, FlushTx
  <2> QED BY <1>1, <2>1 DEF Bounded
<1>7. ASSUME NEW block \in TxBlock, PushTx(block) PROVE Bounded'
  BY <1>1, <1>7 DEF PushTx, Bounded
<1>8. ASSUME UNCHANGED <<rx, tx>> PROVE Bounded'
  BY <1>1, <1>8 DEF Bounded
<1>9. CASE ThreadStep \/ Throw
  <2>1. Push \/ SendNothing \/ Send \/ UNCHANGED <<rx, tx>>
    BY <1>9 DEF ThreadStep, Throw, Enter, ResetStopping, RunBegin, LoopTest, ModeTest,
       Receive, Timeout, RunEnd, SetTerminated, SetStopping, Undefined, samples
  <2> QED BY <2>1, <1>2, <1>3, <1>8
<1>10. CASE ProgramStep
  <2>1. \/ Pops \/ Flushes \/ ProgramFlushTx \/ TerminateFlushTx
        \/ UNCHANGED <<rx, tx>>
    BY <1>10 DEF ProgramStep, Start, AwaitRunning, TestGpio, ProgramFlushRx, TerminateRequest,
       TerminateFlushRx, TerminateLeds, StopStreaming, DestroyFlags, Free, Exit,
       PollTerminated, CsvTest, CsvPop, CsvDrained, ConsumerTest, ConsumerPop, SendDone,
       Pops, Flushes, samples
  <2> QED BY <2>1, <1>4, <1>5, <1>6, <1>8
<1>11. CASE \/ Stop \/ \E receive \in BOOLEAN : SetMode(receive)
            \/ UNCHANGED vars
  <2>1. UNCHANGED <<rx, tx>>
    BY <1>11 DEF Stop, SetMode, vars, samples
  <2> QED BY <2>1, <1>8
<1> QED BY <1>7, <1>9, <1>10, <1>11 DEF Next

(* Flags, places, pins, blocks and both queue limits, for any instance.    *)
THEOREM TypeCorrect == Spec => []TypeOK
<1> DEFINE Types == Flags /\ PinsOf /\ Bounded /\ Places
<1>1. Init => IInv /\ Types
  BY TypesInit, LifeCycleInit, SamplesInit DEF IInv
<1>2. IInv /\ Types /\ [Next]_vars => IInv' /\ Types'
  <2>1. IInv => LifeCycle /\ StoreTypes
    BY DEF IInv, Samples
  <2> QED BY <2>1, SamplesStep, FlagsStep, PinsOfStep, BoundedStep, PlacesStep
<1>3. IInv /\ Types => TypeOK
  BY DEF IInv, LifeCycle, Samples, StoreTypes, Flags, PinsOf, Bounded, Places, TypeOK
<1> HIDE DEF Types
<1> QED BY <1>1, <1>2, <1>3, PTL DEF Spec
=============================================================================
