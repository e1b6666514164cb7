--------------------------- MODULE LimeRadioThread ---------------------------
(***************************************************************************)
(* The SDR thread and the programs that start, feed, drain and stop it:    *)
(* RadioThread (src/phy/RadioThread.h, .cpp), LimeRadioThread              *)
(* (src/phy/LimeRadioThread.cpp), the main programs src/RPX-100.cpp and    *)
(* src/radio_test.cpp, and src/util/write_csv_file.cpp.                    *)
(*                                                                         *)
(* Two threads run: "sdr" executes threadMain(), "main" the program.  They *)
(* share atomic flags and two sample queues.  A queue is used here by its  *)
(* atomic operations; SpinQueue shows that the code implements them.       *)
(*                                                                         *)
(*   "rpx"        RPX-100.cpp without -s and -p: start, GPIO test (-l) or  *)
(*                none, flush, terminate(), delete                         *)
(*   "spectrum"   a consumer of the receive queue that never stops the     *)
(*                radio: wsSpectrogram::run(), and PhyThread in mode TEST  *)
(*                unless its uninitialised stopping ends run() at once     *)
(*   "csv"        write_csv_file() on an open file                         *)
(*   "fail"       write_csv_file() on a file that cannot be opened         *)
(*   "fail_later" the same, called once isRxTxRunning() was seen           *)
(*   "send"       a program that transmits through setTxOn() and the       *)
(*                transmit queue                                           *)
(* main() of RPX-100, with or without a spectrum, is the caller of this    *)
(* commit.  write_csv_file(), setTxOn() and RadioThread::stop() are        *)
(* compiled and have no caller: "csv", "fail", "fail_later", "send" and    *)
(* Stop use them as they are declared to be used.                          *)
(***************************************************************************)
EXTENDS Integers, Sequences, FiniteSets, SequencesExt

CONSTANTS
  Programs,      \* the programs of the list above that are considered
  MaxItems,      \* set_max_items(): 2000 in both programs
  Backlog,       \* a consumer pops above this queue length: 5
  m_rxSampleCnt, \* the samples LMS_RecvStream is asked for: 3200
  Clock,         \* bound: the device delivers the samples 1 .. Clock
  MaxGap,        \* bound: the samples one overrun of the device loses
  TxBlock        \* bound: the blocks a program hands to the transmit queue

ASSUME ProgramAssumption ==
  Programs \subseteq {"rpx", "spectrum", "csv", "fail", "fail_later", "send"}
ASSUME BacklogAssumption == {MaxItems, Backlog} \subseteq Nat /\ Backlog < MaxItems
ASSUME DeviceAssumption == m_rxSampleCnt \in Nat \ {0} /\ {Clock, MaxGap} \subseteq Nat

VARIABLES
  stopping, terminated, m_isRxTxRunning, m_isRX,  \* RadioThread's flags
  sdr,                   \* where threadMain() stands
  main, program,         \* where the program stands, and which one it is
  tested,                \* how many modes of the GPIO test have been set
  rx, tx,                \* the two sample queues
  m_rxIQdataOut,         \* the block run() received last ...
  accepted,              \* ... and whether the receive queue took it
  clock, m_rx_metadata,  \* the device's next sample; the last block's timestamp
  object,                \* "alive", "stopped" (streams and buffers gone), "freed"
  gpio_val,              \* the GPIO pins that are high
  asked,                 \* history: what the first stop request found
  taken, lost, sent      \* history: what became of the samples

flags   == <<stopping, terminated, m_isRxTxRunning, m_isRX>>
where   == <<main, program, tested>>
device  == <<clock, m_rx_metadata, object>>
samples == <<rx, tx, m_rxIQdataOut, accepted, taken, lost, sent>>
vars    == <<flags, sdr, where, device, samples, gpio_val, asked>>

(* A block of samples: RadioThreadIQData.                                  *)
Empty(stamp) == [timestampFirstSample |-> stamp, data |-> <<>>]
Held(queue)  == UNION {Range(block.data) : block \in Range(queue)}

(* A consumer numbers the samples of a block from its timestamp on.        *)
Stamped(block) == [i \in DOMAIN block.data |->
                     <<block.timestampFirstSample + i - 1, block.data[i]>>]

-----------------------------------------------------------------------------
(* The GPIO byte, as the set of the pins that are high.  The relay is low  *)
(* to receive: so the masks, their comments and the one inside set_HW_RX() *)
(* (line 511).  The doc comment above that function says "GPIO0=HIGH - RX" *)
(* (501) and gives its LED as 0x20, that of LED2 (503): the code differs.  *)
Relay == 0
PA    == 1
LED1  == 4   \* SDR on
LED2  == 5   \* TX
LED3  == 6   \* RX
LED4  == 7   \* streaming

(* The modes RX, TX_DIRECT, TX_6M, TX_2M and TX_70CM.                      *)
m_modeGPIO == [m \in 0 .. 4 |-> CASE m = 0 -> {}
                                  [] m = 1 -> {Relay, PA, 2, 3}
                                  [] m = 2 -> {Relay, PA}
                                  [] m = 3 -> {Relay, PA, 2}
                                  [] m = 4 -> {Relay, PA, 3}]

(* Mutant: set_HW_RX() adds its pins to those that are high.               *)
RxPinsAdded(pins) == pins \cup m_modeGPIO[0] \cup {LED1, LED3}

(* set_HW_RX() and set_HW_TX() keep the streaming LED from the mode before.*)
RxPins(pins) == (pins \cap {LED4}) \cup m_modeGPIO[0] \cup {LED1, LED3}
TxPins(pins, m) == (pins \cap {LED4}) \cup m_modeGPIO[m] \cup {LED2, LED1}

(* The GPIO test of RPX-100 -l.  The set_HW_SDR_ON() at its head finds its *)
(* LED on.                                                                 *)
GpioTest == <<0, 1, 2, 3, 4, 0, 4, 3, 2, 1, 0>>

-----------------------------------------------------------------------------
Init ==
  /\ stopping = FALSE /\ terminated = FALSE
  /\ m_isRxTxRunning = FALSE /\ m_isRX = TRUE
  /\ sdr = "none" /\ main = "start" /\ program \in Programs /\ tested = 0
  /\ rx = <<>> /\ tx = <<>>
  /\ m_rxIQdataOut = Empty(0) /\ accepted = FALSE
  /\ clock = 1 /\ m_rx_metadata = 0 /\ object = "alive"
  /\ gpio_val = RxPins({}) \cup {LED1, LED4}
  /\ asked = "no"
  /\ taken = <<>> /\ lost = {} /\ sent = <<>>

(* A dead process takes no step.                                           *)
Living == sdr \notin {"aborted", "undefined", "killed"}

Sdr(here, there)  == sdr = here /\ sdr' = there /\ object # "freed"
Main(here, there) == Living /\ main = here /\ main' = there /\ UNCHANGED <<program, tested>>

-----------------------------------------------------------------------------
(* threadMain() around run().                                              *)
Enter ==
  /\ Sdr("enter", "reset")
  /\ terminated' = FALSE
  /\ UNCHANGED <<stopping, m_isRxTxRunning, m_isRX, where, device, samples, gpio_val, asked>>

ResetStopping ==
  /\ Sdr("reset", "begin")
  /\ stopping' = FALSE
  /\ UNCHANGED <<terminated, m_isRxTxRunning, m_isRX, where, device, samples, gpio_val, asked>>

(* Mutant: run() resets the stop flag, after it has announced itself.      *)
RunBeginResets ==
  /\ Sdr("begin", IF m_isRxTxRunning THEN "loop" ELSE "begin")
  /\ m_isRxTxRunning' = TRUE
  /\ stopping' = IF m_isRxTxRunning THEN FALSE ELSE stopping
  /\ UNCHANGED <<terminated, m_isRX, where, device, samples, gpio_val, asked>>

(* The head of run(): the flag, then the two queue pointers.               *)
RunBegin ==
  /\ Sdr("begin", "loop")
  /\ m_isRxTxRunning' = TRUE
  /\ UNCHANGED <<stopping, terminated, m_isRX, where, device, samples, gpio_val, asked>>

(* The two flags the loop reads, one after the other.                      *)
LoopTest ==
  /\ Sdr("loop", IF stopping THEN "leave" ELSE "mode")
  /\ UNCHANGED <<flags, where, device, samples, gpio_val, asked>>

ModeTest ==
  /\ Sdr("mode", IF m_isRX THEN "receive" ELSE "send")
  /\ UNCHANGED <<flags, where, device, samples, gpio_val, asked>>

RunEnd ==
  /\ Sdr("leave", "returned")
  /\ m_isRxTxRunning' = FALSE
  /\ UNCHANGED <<stopping, terminated, m_isRX, where, device, samples, gpio_val, asked>>

SetTerminated ==
  /\ Sdr("returned", "last")
  /\ terminated' = TRUE
  /\ UNCHANGED <<stopping, m_isRxTxRunning, m_isRX, where, device, samples, gpio_val, asked>>

SetStopping ==
  /\ Sdr("last", "ended")
  /\ stopping' = TRUE
  /\ UNCHANGED <<terminated, m_isRxTxRunning, m_isRX, where, device, samples, gpio_val, asked>>

(* run() throws (std::bad_alloc of a block or of the queue): the handler   *)
(* stores both flags and rethrows, which aborts the process.               *)
Throw ==
  /\ Sdr("receive", "aborted")
  /\ terminated' = TRUE
  /\ stopping' = TRUE
  /\ UNCHANGED <<m_isRxTxRunning, m_isRX, where, device, samples, gpio_val, asked>>

-----------------------------------------------------------------------------
(* The receiving turn of the loop.                                         *)

(* Mutant: the copy loop starts with the second sample.                    *)
ReceiveFromSecond(gap, samplesRead) ==
  LET first == clock + gap IN
  /\ Sdr("receive", "push")
  /\ object = "alive"
  /\ first + samplesRead - 1 <= Clock
  /\ clock' = first + samplesRead
  /\ lost' = lost \cup clock .. first - 1
  /\ m_rx_metadata' = first
  /\ m_rxIQdataOut' = [timestampFirstSample |-> first,
                       data |-> [i \in 1 .. samplesRead - 1 |-> first + i]]
  /\ UNCHANGED <<flags, where, object, rx, tx, accepted, taken, sent, gpio_val, asked>>

(* LMS_RecvStream gives between one and m_rxSampleCnt samples.  When the   *)
(* host was late, the device has dropped some before them.                 *)
Receive(gap, samplesRead) ==
  LET first == clock + gap IN
  /\ Sdr("receive", "push")
  /\ object = "alive"
  /\ first + samplesRead - 1 <= Clock
  /\ clock' = first + samplesRead
  /\ lost' = lost \cup clock .. first - 1
  /\ m_rx_metadata' = first
  /\ m_rxIQdataOut' = [timestampFirstSample |-> first,
                       data |-> [i \in 1 .. samplesRead |-> first + i - 1]]
  /\ UNCHANGED <<flags, where, object, rx, tx, accepted, taken, sent, gpio_val, asked>>

(* Mutant: the block is allocated only when samples arrived.               *)
TimeoutKeepsBlock ==
  /\ Sdr("receive", "push")
  /\ object = "alive"
  /\ UNCHANGED <<flags, where, device, samples, gpio_val, asked>>

(* LMS_RecvStream times out or fails: an empty block goes to the queue,    *)
(* with the timestamp of the call before.                                  *)
Timeout ==
  /\ Sdr("receive", "push")
  /\ object = "alive"
  /\ m_rxIQdataOut' = Empty(m_rx_metadata)
  /\ UNCHANGED <<flags, where, device, rx, tx, accepted, taken, lost, sent, gpio_val, asked>>

(* Mutant: the queue takes one block more than set_max_items() allowed.    *)
PushOneMore ==
  /\ Sdr("push", "loop")
  /\ accepted' = (Len(rx) <= MaxItems)
  /\ IF accepted'
     THEN rx' = Append(rx, m_rxIQdataOut) /\ UNCHANGED lost
     ELSE lost' = lost \cup Range(m_rxIQdataOut.data) /\ UNCHANGED rx
  /\ UNCHANGED <<flags, where, device, tx, m_rxIQdataOut, taken, sent, gpio_val, asked>>

(* push(): a full queue refuses the newest block, and run() only logs it.  *)
Push ==
  /\ Sdr("push", "loop")
  /\ accepted' = (Len(rx) < MaxItems)
  /\ IF accepted'
     THEN rx' = Append(rx, m_rxIQdataOut) /\ UNCHANGED lost
     ELSE lost' = lost \cup Range(m_rxIQdataOut.data) /\ UNCHANGED rx
  /\ UNCHANGED <<flags, where, device, tx, m_rxIQdataOut, taken, sent, gpio_val, asked>>

(* The transmitting turn.  The block popped from the transmit queue gives  *)
(* the number of samples; the samples themselves come out of the block     *)
(* received last, which the receive queue may still hold.                  *)
samplesWrite == IF tx = <<>> THEN 0 ELSE Len(Head(tx).data)

SendNothing ==
  /\ Sdr("send", "loop")
  /\ samplesWrite = 0
  /\ tx' = SubSeq(tx, 2, Len(tx))
  /\ UNCHANGED <<flags, where, device, rx, m_rxIQdataOut, accepted, taken, lost, sent,
                 gpio_val, asked>>

Send ==
  /\ Sdr("send", "loop")
  /\ object = "alive"
  /\ LET samplesHeld == m_rxIQdataOut.data
         rest        == [m_rxIQdataOut EXCEPT !.data =
                           SubSeq(samplesHeld, samplesWrite + 1, Len(samplesHeld))]
     IN /\ samplesWrite \in 1 .. Len(samplesHeld)
        /\ sent' = sent \o SubSeq(samplesHeld, 1, samplesWrite)
        /\ m_rxIQdataOut' = rest
        /\ rx' = IF accepted /\ rx # <<>> THEN [rx EXCEPT ![Len(rx)] = rest] ELSE rx
  /\ tx' = Tail(tx)
  /\ UNCHANGED <<flags, where, device, accepted, taken, lost, gpio_val, asked>>

(* What has no meaning in C++ ends the behaviour: front() of an empty      *)
(* deque, a freed buffer, any member of a freed object.                    *)
Undefined ==
  /\ Living /\ sdr \notin {"none", "ended"}
  /\ \/ object = "freed"
     \/ object = "stopped" /\ sdr \in {"receive", "send"}
     \/ sdr = "send" /\ samplesWrite > Len(m_rxIQdataOut.data)
  /\ sdr' = "undefined"
  /\ UNCHANGED <<flags, where, device, samples, gpio_val, asked>>

ThreadStep ==
  \/ Enter \/ ResetStopping \/ RunBegin \/ LoopTest \/ ModeTest
  \/ \E gap \in 0 .. MaxGap, samplesRead \in 1 .. m_rxSampleCnt : Receive(gap, samplesRead)
  \/ Timeout \/ Push \/ SendNothing \/ Send
  \/ RunEnd \/ SetTerminated \/ SetStopping \/ Undefined

-----------------------------------------------------------------------------
(* The program.  Having created the thread it waits for isRxTxRunning(),   *)
(* or does not.                                                            *)
Job == [rpx   |-> "work",  spectrum |-> "consume", csv  |-> "csv",
        fail  |-> "terminate", fail_later |-> "terminate", send |-> "transmit"]

Start ==
  /\ Main("start", IF program \in {"csv", "fail_later", "send"} THEN "await"
                                                                ELSE Job[program])
  /\ sdr' = "enter"
  /\ UNCHANGED <<flags, device, samples, gpio_val, asked>>

AwaitRunning ==
  /\ Main("await", Job[program])
  /\ m_isRxTxRunning
  /\ UNCHANGED <<flags, sdr, device, samples, gpio_val, asked>>

(* A consumer removes the first block and works through its samples.       *)
Take ==
  /\ rx # <<>>
  /\ taken' = taken \o Stamped(Head(rx))
  /\ rx' = Tail(rx)
  /\ UNCHANGED <<tx, m_rxIQdataOut, accepted, lost, sent>>

FlushRx ==
  /\ rx' = <<>>
  /\ lost' = lost \cup Held(rx)
  /\ UNCHANGED <<tx, m_rxIQdataOut, accepted, taken, sent>>

FlushTx ==
  /\ tx' = <<>>
  /\ UNCHANGED <<rx, m_rxIQdataOut, accepted, taken, lost, sent>>

(* stopping = TRUE, by stop() or by the first line of terminate().         *)
RequestStop ==
  /\ stopping' = TRUE
  /\ asked' = IF asked # "no" THEN asked ELSE IF m_isRxTxRunning THEN "running" ELSE "early"
  /\ UNCHANGED <<terminated, m_isRxTxRunning, m_isRX>>

(* "rpx": the next mode of the GPIO test.                                  *)
TestGpio ==
  /\ Living /\ main = "work" /\ tested < Len(GpioTest)
  /\ LET m == GpioTest[tested + 1]
     IN  gpio_val' = IF m = 0 THEN RxPins(gpio_val) ELSE TxPins(gpio_val, m)
  /\ tested' = tested + 1
  /\ UNCHANGED <<flags, sdr, main, program, device, samples, asked>>

(* Without -l there is no test.                                            *)
ProgramFlushRx ==
  /\ Main("work", "flushed")
  /\ tested \in {0, Len(GpioTest)}
  /\ FlushRx
  /\ UNCHANGED <<flags, sdr, device, gpio_val, asked>>

ProgramFlushTx ==
  /\ Main("flushed", "terminate")
  /\ FlushTx
  /\ UNCHANGED <<flags, sdr, device, gpio_val, asked>>

(* Mutant: terminate() stores both flags, as the destructor does.          *)
TerminateRequestBoth ==
  /\ Main("terminate", "flush_rx")
  /\ stopping' = TRUE /\ terminated' = TRUE
  /\ UNCHANGED <<m_isRxTxRunning, m_isRX, asked, sdr, device, samples, gpio_val>>

(* terminate(): the flag, the two queues, the LEDs.                        *)
TerminateRequest ==
  /\ Main("terminate", "flush_rx")
  /\ RequestStop
  /\ UNCHANGED <<sdr, device, samples, gpio_val>>

TerminateFlushRx ==
  /\ Main("flush_rx", "flush_tx")
  /\ FlushRx
  /\ UNCHANGED <<flags, sdr, device, gpio_val, asked>>

TerminateFlushTx ==
  /\ Main("flush_tx", "leds")
  /\ FlushTx
  /\ UNCHANGED <<flags, sdr, device, gpio_val, asked>>

TerminateLeds ==
  /\ Main("leds", IF program = "rpx" THEN "delete" ELSE "poll")
  /\ gpio_val' = gpio_val \ {LED4, LED1}
  /\ UNCHANGED <<flags, sdr, device, samples, asked>>

(* delete(sdr): ~LimeRadioThread stops the streams and frees the buffers,  *)
(* ~RadioThread stores the flags, and the memory goes.                     *)
StopStreaming ==
  /\ Main("delete", "close")
  /\ object' = "stopped"
  /\ gpio_val' = gpio_val \ {LED4}
  /\ UNCHANGED <<flags, sdr, clock, m_rx_metadata, samples, asked>>

DestroyFlags ==
  /\ Main("close", "free")
  /\ terminated' = TRUE
  /\ stopping' = TRUE
  /\ UNCHANGED <<m_isRxTxRunning, m_isRX, sdr, device, samples, gpio_val, asked>>

Free ==
  /\ Main("free", "exit")
  /\ object' = "freed"
  /\ UNCHANGED <<flags, sdr, clock, m_rx_metadata, samples, gpio_val, asked>>

(* return 0 from main(): whatever still runs is killed.                    *)
Exit ==
  /\ Main("exit", "over")
  /\ sdr' = IF sdr = "ended" THEN sdr ELSE "killed"
  /\ UNCHANGED <<flags, device, samples, gpio_val, asked>>

(* "fail", "fail_later": while(!sdr->isTerminated(100)).                   *)
PollTerminated ==
  /\ Main("poll", "over")
  /\ terminated
  /\ UNCHANGED <<flags, sdr, device, samples, gpio_val, asked>>

(* "csv": while(isRxTxRunning()) while(pop()) ...                          *)
CsvTest ==
  /\ Main("csv", IF m_isRxTxRunning THEN "drain" ELSE "over")
  /\ UNCHANGED <<flags, sdr, device, samples, gpio_val, asked>>

CsvPop ==
  /\ Main("drain", "drain")
  /\ Take
  /\ UNCHANGED <<flags, sdr, device, gpio_val, asked>>

CsvDrained ==
  /\ Main("drain", "csv")
  /\ rx = <<>>
  /\ UNCHANGED <<flags, sdr, device, samples, gpio_val, asked>>

(* Mutant: the consumer waits for a queue longer than it can become.       *)
ConsumerTestFull ==
  /\ Main("consume", "pop")
  /\ Len(rx) > MaxItems
  /\ UNCHANGED <<flags, sdr, device, samples, gpio_val, asked>>

(* "spectrum": if(size() > 5) pop().                                       *)
ConsumerTest ==
  /\ Main("consume", "pop")
  /\ Len(rx) > Backlog
  /\ UNCHANGED <<flags, sdr, device, samples, gpio_val, asked>>

ConsumerPop ==
  /\ Main("pop", "consume")
  /\ Take
  /\ UNCHANGED <<flags, sdr, device, gpio_val, asked>>

(* "send": the transmit queue and setTxOn(), setRxOn().                    *)
PushTx(block) ==
  /\ Main("transmit", "transmit")
  /\ Len(tx) < MaxItems
  /\ tx' = Append(tx, block)
  /\ UNCHANGED <<flags, sdr, device, rx, m_rxIQdataOut, accepted, taken, lost, sent,
                 gpio_val, asked>>

SetMode(receive) ==
  /\ Main("transmit", "transmit")
  /\ m_isRX' = receive
  /\ UNCHANGED <<stopping, terminated, m_isRxTxRunning, sdr, device, samples, gpio_val, asked>>

SendDone ==
  /\ Main("transmit", "over")
  /\ asked # "no"
  /\ UNCHANGED <<flags, sdr, device, samples, gpio_val, asked>>

(* stop(), for which the code has no caller: a thread that calls it once   *)
(* the radio was seen running.                                             *)
Stop ==
  /\ Living /\ program \in {"csv", "send"} /\ main \notin {"start", "await"} /\ asked = "no"
  /\ RequestStop
  /\ UNCHANGED <<sdr, where, device, samples, gpio_val>>

ProgramStep ==
  \/ Start \/ AwaitRunning \/ TestGpio \/ ProgramFlushRx \/ ProgramFlushTx
  \/ TerminateRequest \/ TerminateFlushRx \/ TerminateFlushTx \/ TerminateLeds
  \/ StopStreaming \/ DestroyFlags \/ Free \/ Exit
  \/ PollTerminated \/ CsvTest \/ CsvPop \/ CsvDrained
  \/ ConsumerTest \/ ConsumerPop \/ SendDone

Next ==
  \/ ThreadStep \/ Throw
  \/ ProgramStep \/ Stop
  \/ \E block \in TxBlock : PushTx(block)
  \/ \E receive \in BOOLEAN : SetMode(receive)

(* Both threads are scheduled, and LMS_RecvStream returns within its       *)
(* timeout.  Nobody is obliged to stop the radio or to change its mode.    *)
Fairness == WF_vars(ThreadStep) /\ WF_vars(ProgramStep)

Spec == Init /\ [][Next]_vars /\ Fairness

-----------------------------------------------------------------------------
Thread == {"none", "enter", "reset", "begin", "loop", "mode", "receive", "push", "send",
           "leave", "returned", "last", "ended", "aborted", "undefined", "killed"}
Sample == 1 .. Clock
Block  == [timestampFirstSample : 0 .. Clock, data : Seq(Sample)]

(* The flags, the queues and the histories have the types and the bounds   *)
(* of the code: no queue ever holds more than set_max_items() allowed.     *)
TypeOK ==
  /\ {stopping, terminated, m_isRxTxRunning, m_isRX, accepted} \subseteq BOOLEAN
  /\ sdr \in Thread /\ program \in Programs /\ tested \in 0 .. Len(GpioTest)
  /\ rx \in Seq(Block) /\ Len(rx) <= MaxItems
  /\ tx \in Seq(TxBlock) /\ Len(tx) <= MaxItems
  /\ m_rxIQdataOut \in Block
  /\ clock \in 1 .. Clock + 1 /\ m_rx_metadata \in 0 .. Clock
  /\ gpio_val \subseteq 0 .. 7
  /\ taken \in Seq(Sample \X Sample) /\ lost \subseteq Sample /\ sent \in Seq(Sample)

Taken == {p[2] : p \in Range(taken)}

(* A consumer gets samples in the order in which the device delivered them *)
(* and none twice: those it has taken, then what waits for it, block after *)
(* block, and as long as nothing was sent each is numbered with the        *)
(* device's timestamp: over timeouts, overruns, refused pushes and flushes *)
(* (run() 83-117 with pop()).  Sending removes samples from a block.       *)
Before(S, T) == \A x \in S, y \in T : x < y
Rising(data) == \A i, j \in DOMAIN data : i < j => data[i] < data[j]
Numbered(block) == \A i \in DOMAIN block.data : block.data[i] = block.timestampFirstSample + i - 1

InOrder ==
  /\ \A i, j \in DOMAIN taken : i < j => taken[i][2] < taken[j][2]
  /\ \A i \in DOMAIN rx : Rising(rx[i].data) /\ Before(Taken, Range(rx[i].data))
  /\ \A i, j \in DOMAIN rx : i < j => Before(Range(rx[i].data), Range(rx[j].data))
  /\ sent = <<>> => /\ \A i \in DOMAIN taken : taken[i][1] = taken[i][2]
                    /\ \A i \in DOMAIN rx : Numbered(rx[i])

(* Every sample the device delivered reaches a consumer, waits in the      *)
(* queue or in run(), or was given up in one of the three places that give *)
(* up samples: the device's overrun, a push to a full queue, a flush.      *)
InHand == IF sdr = "push" THEN Range(m_rxIQdataOut.data) ELSE {}
Kept   == Taken \cup Held(rx)

Accounted ==
  Living => /\ Kept \cup InHand \cup lost \cup Range(sent) = 1 .. clock - 1
            /\ Kept \cap lost = {}

(* While the object lives, terminated says that run() has returned, as     *)
(* isTerminated() documents.                                               *)
TerminatedMeansReturned ==
  terminated /\ main \notin {"free", "exit", "over"} =>
    sdr \in {"last", "ended", "aborted"}

(* The power amplifier is on in the middle of the GPIO test only, and the  *)
(* TX LED, not the RX LED, shows it.  terminate() and the destructor clear *)
(* two LEDs and leave every other pin as the last mode set it: that no     *)
(* program ends with the amplifier on, and nothing keeps it on into        *)
(* set_HW_RX(), is this.  The streaming LED is lit in every mode, and off  *)
(* before the streams are gone.                                            *)
AmplifierOff ==
  /\ PA \in gpio_val => /\ main = "work" /\ tested \notin {0, Len(GpioTest)}
                        /\ LED2 \in gpio_val /\ LED3 \notin gpio_val
  /\ main \in {"work", "flushed"} => {LED1, LED4} \subseteq gpio_val
  /\ object # "alive" => gpio_val \cap {LED1, LED2, LED4} = {}

(* A stop request made while isRxTxRunning() was true is not lost: run()   *)
(* returns and the program that waits for it goes on.                      *)
Over == (sdr = "ended" /\ main = "over") \/ ~Living
StopEnds == (asked = "running") ~> Over

(* A consumer that runs keeps the queue from staying full.                 *)
Drains == (program = "spectrum" /\ Len(rx) = MaxItems) ~> (Len(rx) < MaxItems \/ ~Living)

-----------------------------------------------------------------------------
(* "Request for termination (asynchronous)" (RadioThread.h), "run until    *)
(* thread gets terminated, or stopped (stopping -> true)"                  *)
(* (LimeRadioThread.cpp): a stop request ends run().  It does not when it  *)
(* comes before threadMain() has reset the flag.                           *)
TerminateEnds == (asked # "no") ~> Over

(* "run() is receiving and sending the data via the Lime"                  *)
(* (LimeRadioThread.cpp): what is sent comes from the transmit queue.  The *)
(* code sends the samples received last.                                   *)
SendsTxSamples == Range(sent) \cap Sample = {}
=============================================================================
