----------------------------- MODULE LimeDevice -----------------------------
(***************************************************************************)
(* The life of the SDR device in the programs of the repository: the       *)
(* drivers LimeRadioThread and LimeRadio (src/phy) open it, set it up,     *)
(* retune it, start and stop its streams and close it, RPX-100 and         *)
(* radio_test create and delete the drivers.  Any call of LimeSuite that   *)
(* can fail may fail here; what the drivers do then is what this module    *)
(* is about.                                                               *)
(*                                                                         *)
(* A function of a driver is the sequence of the calls it makes, each with *)
(* the reactions to its failure the code has:                              *)
(*   "error"    error(): LMS_Close, exit(-1)                               *)
(*   "return"   the rest of the function is left out                       *)
(*   "ignored"  the next call is made, at most a line is logged            *)
(* A program is the sequence of the calls of its drivers ("agenda"), at    *)
(* the place "at".  The thread of RadioThread runs beside it.              *)
(*                                                                         *)
(*   "rpx"     RPX-100           "rpx_s"   RPX-100 -s (never stops)        *)
(*   "rpx_l"   RPX-100 -l        "rpx_p"   RPX-100 -p                      *)
(*   "test_s"  radio_test -s     "test_p"  radio_test -p, with or without  *)
(*                                         -b                              *)
(***************************************************************************)
EXTENDS Integers, Sequences, SequencesExt

CONSTANT Programs   \* the programs of the list above that are considered

ASSUME ProgramAssumption ==
  Programs \subseteq {"rpx", "rpx_s", "rpx_l", "rpx_p", "test_s", "test_p"}

Handle    == {"sdr", "phy"}   \* a LimeRadioThread; a LimeRadio
Direction == {"rx", "tx"}

VARIABLES
  program, at,    \* which program runs, and the call it makes next
  outcome,        \* "running", or how it came to an end
  m_lms_device,   \* [h]: "NULL", "open", "closed" (a pointer nobody resets)
  configured,     \* [h]: the calls of Preparation that succeeded
  stream,         \* [h][d]: "none", "stopped", "started"
  m_IQbuffer,     \* [h][d]: m_rxIQbuffer, m_txIQbuffer: "nullptr", "allocated", "freed"
  mute,           \* [h]: the streams whose last LMS_StartStream failed
  deleted,        \* the drivers whose destructor has run
  thread,         \* threadMain(): "none", "loop", "receive", "ended", "undefined"
  stopping        \* RadioThread::stopping

driver == <<m_lms_device, configured, stream, m_IQbuffer, mute, deleted>>
vars   == <<program, at, outcome, driver, thread, stopping>>

-----------------------------------------------------------------------------
(* The functions of the drivers.                                           *)
Steps(f, failures, calls) ==
  [i \in DOMAIN calls |-> [function |-> f, failures |-> failures, call |-> calls[i]]]

Checked(f, calls) == Steps(f, {"error"}, calls)     \* if(call != 0) error();
Logged(f, calls)  == Steps(f, {"ignored"}, calls)
Plain(f, calls)   == Steps(f, {}, calls)            \* calls that cannot fail

Preparation == << <<"LMS_Init">>,
                  <<"LMS_EnableChannel", "rx">>, <<"LMS_SetLOFrequency", "rx">>,
                  <<"LMS_EnableChannel", "tx">>, <<"LMS_SetLOFrequency", "tx">>,
                  <<"LMS_SetSampleRate">> >>

(* The number of devices found may be negative, zero or positive.          *)
findAndOpen == Steps("initLimeSDR", {"error", "return"}, << <<"LMS_GetDeviceList">> >>)
               \o Checked("initLimeSDR", << <<"LMS_Open">> >> \o Preparation)

initLimeSDR == [sdr |-> findAndOpen,
                phy |-> findAndOpen
                        \o Checked("initLimeSDR", << <<"LMS_SetNormalizedGain">> >>)
                        \o Logged("initLimeSDR", << <<"LMS_Calibrate">> >>)
                        \o Checked("initLimeSDR", << <<"LMS_SetNormalizedGain">> >>)
                        \o Logged("initLimeSDR", << <<"LMS_Calibrate">> >>)]

initLimeGPIO == Checked("initLimeGPIO", << <<"LMS_GPIODirWrite">>, <<"LMS_GPIODirRead">> >>)

(* set_HW_SDR_ON(), set_HW_SDR_OFF(), set_HW_RX(), set_HW_TX(),            *)
(* set_HW_STREAM_LED_ON() and _OFF() of LimeRadioThread read the pins,     *)
(* write them and read them back; those of LimeRadio write and read.       *)
setPins    == Checked("set_HW", << <<"LMS_GPIORead">>, <<"LMS_GPIOWrite">>, <<"LMS_GPIORead">> >>)
writePins  == Checked("set_HW", << <<"LMS_GPIOWrite">>, <<"LMS_GPIORead">> >>)

SetUpStream(d) ==
  Checked("initStreaming", << <<"LMS_SetupStream", d>> >>)
  \o Plain("initStreaming", << <<"malloc", d>> >>)
  \o Logged("initStreaming", << <<"LMS_StartStream", d>> >>)

initStreaming == SetUpStream("rx") \o SetUpStream("tx")

TearDownStream(d) ==
  Plain("stopStreaming", << <<"free", d>>, <<"LMS_StopStream", d>>, <<"LMS_DestroyStream", d>> >>)

(* Mutant: the streams are destroyed before they are stopped.              *)
stopStreamingDestroysFirst ==
  Plain("stopStreaming", << <<"free", "rx">>, <<"LMS_DestroyStream", "rx">>,
                            <<"LMS_StopStream", "rx">>, <<"free", "tx">>,
                            <<"LMS_DestroyStream", "tx">>, <<"LMS_StopStream", "tx">> >>)

stopStreaming == TearDownStream("rx") \o TearDownStream("tx")

StopBoth(f)  == Plain(f, << <<"LMS_StopStream", "rx">>, <<"LMS_StopStream", "tx">> >>)
StartBoth(f) == Logged(f, << <<"LMS_StartStream", "rx">>, <<"LMS_StartStream", "tx">> >>)

(* Mutant: a failing retune returns to the caller, the streams stopped.    *)
setFrequencyReturns ==
  StopBoth("setFrequency")
  \o Steps("setFrequency", {"return"},
           << <<"LMS_SetLOFrequency", "rx">>, <<"LMS_SetLOFrequency", "tx">> >>)
  \o StartBoth("setFrequency")

setFrequency ==
  StopBoth("setFrequency")
  \o Checked("setFrequency", << <<"LMS_SetLOFrequency", "rx">>, <<"LMS_SetLOFrequency", "tx">> >>)
  \o StartBoth("setFrequency")

setSamplingRate ==
  StopBoth("setSamplingRate")
  \o Checked("setSamplingRate", << <<"LMS_SetSampleRate">> >>)
  \o StartBoth("setSamplingRate")

Constructor ==
  [sdr |-> initLimeSDR["sdr"] \o initLimeGPIO \o setPins \o setPins \o initStreaming \o setPins,
   phy |-> initLimeSDR["phy"] \o initLimeGPIO \o writePins \o initStreaming]

(* closeLimeSDR(), at the end of the destructor, and the memory goes.      *)
closeLimeSDR == Plain("closeLimeSDR", << <<"LMS_Close">> >>)

Destructor ==
  [sdr |-> stopStreaming \o setPins \o closeLimeSDR \o Plain("delete", << <<"delete">> >>),
   phy |-> stopStreaming \o closeLimeSDR \o Plain("delete", << <<"delete">> >>)]

terminate == Plain("terminate", << <<"stopping">> >>) \o setPins \o setPins

-----------------------------------------------------------------------------
(* The programs.                                                           *)
On(h, steps) == [i \in DOMAIN steps |-> [on |-> h, function |-> steps[i].function,
                                         failures |-> steps[i].failures,
                                         call |-> steps[i].call]]

Created(h) == On(h, Constructor[h] \o setFrequency \o setSamplingRate)

StartRadio == Created("sdr") \o On("sdr", Plain("main", << <<"std::thread">> >>))

StopRadio == On("sdr", terminate \o Destructor["sdr"] \o Plain("main", << <<"return 0">> >>))

(* The GPIO test: set_HW_SDR_ON() and eleven changes of the mode.          *)
Twice(steps) == steps \o steps

GpioTest == On("sdr", Twice(Twice(setPins \o setPins \o setPins)))

(* PhyThread(PhyMode::TEST) creates a temporary PhyThread, with a          *)
(* LimeRadio of its own, and destroys it.  run() of the object itself uses *)
(* no device, and returns when a flag nobody has initialised is set.       *)
TemporaryPhy == Created("phy") \o On("phy", Destructor["phy"])

(* PhyThread::run() of radio_test -p: it sets the pins, set_HW_TX() of the *)
(* base station (101) or set_HW_RX() of the CPE (161), and then receives   *)
(* and sends blocks.                                                       *)
Blocks  == On("phy", writePins \o Plain("run", << <<"blocks">> >>))
PhyOver == On("phy", Destructor["phy"] \o Plain("main", << <<"return 0">> >>))

agenda ==
  [rpx     |-> StartRadio \o StopRadio,
   rpx_l   |-> StartRadio \o GpioTest \o StopRadio,
   rpx_p   |-> StartRadio \o TemporaryPhy \o StopRadio,
   rpx_s   |-> StartRadio \o On("sdr", Plain("main", << <<"while(SPECon)">> >>)),
   test_s  |-> StartRadio \o On("sdr", Plain("main", << <<"delete(t_sdr)">> >>)),
   test_p  |-> Created("phy") \o Blocks \o PhyOver]

Now == agenda[program][at]

-----------------------------------------------------------------------------
Init ==
  /\ program \in Programs /\ at = 1 /\ outcome = "running"
  /\ m_lms_device = [h \in Handle |-> "NULL"]
  /\ configured = [h \in Handle |-> {}]
  /\ stream = [h \in Handle |-> [d \in Direction |-> "none"]]
  /\ m_IQbuffer = [h \in Handle |-> [d \in Direction |-> "nullptr"]]
  /\ mute = [h \in Handle |-> {}]
  /\ deleted = {}
  /\ thread = "none" /\ stopping = FALSE

NeedsDevice(call) ==
  call[1] \notin {"LMS_GetDeviceList", "LMS_Open", "malloc", "free", "delete", "stopping",
                  "std::thread", "while(SPECon)", "delete(t_sdr)", "return 0"}

Running == outcome = "running" /\ thread # "undefined"

(* The program makes the call in its agenda, on a device that is open      *)
(* where it needs one, and goes on.                                        *)
Doing(name) ==
  /\ Running
  /\ Now.call[1] = name
  /\ NeedsDevice(Now.call) => m_lms_device[Now.on] = "open"
  /\ at' = at + 1
  /\ UNCHANGED <<program, outcome>>

OpenDevice ==
  /\ Doing("LMS_Open")
  /\ m_lms_device' = [m_lms_device EXCEPT ![Now.on] = "open"]
  /\ UNCHANGED <<configured, stream, m_IQbuffer, mute, deleted, thread, stopping>>

Configure ==
  /\ Now.call \in ToSet(Preparation) /\ Doing(Now.call[1])
  /\ configured' = [configured EXCEPT ![Now.on] = @ \cup {Now.call}]
  /\ UNCHANGED <<m_lms_device, stream, m_IQbuffer, mute, deleted, thread, stopping>>

(* The calls whose effect on the device is not followed here.              *)
Adjust ==
  /\ \E name \in {"LMS_GetDeviceList", "LMS_SetNormalizedGain", "LMS_Calibrate",
                  "LMS_GPIODirWrite", "LMS_GPIODirRead", "LMS_GPIORead", "LMS_GPIOWrite"} :
       Doing(name)
  /\ UNCHANGED <<driver, thread, stopping>>

StreamCall(name, state) ==
  /\ Doing(name)
  /\ stream' = [stream EXCEPT ![Now.on][Now.call[2]] = state]
  /\ UNCHANGED <<m_lms_device, configured, m_IQbuffer, deleted, thread, stopping>>

SetupStream   == StreamCall("LMS_SetupStream", "stopped") /\ UNCHANGED mute
StartStream   == /\ StreamCall("LMS_StartStream", "started")
                 /\ mute' = [mute EXCEPT ![Now.on] = @ \ {Now.call[2]}]
StopStream    == StreamCall("LMS_StopStream", "stopped") /\ UNCHANGED mute
DestroyStream == StreamCall("LMS_DestroyStream", "none") /\ UNCHANGED mute

Memory(name, state) ==
  /\ Doing(name)
  /\ m_IQbuffer' = [m_IQbuffer EXCEPT ![Now.on][Now.call[2]] = state]
  /\ UNCHANGED <<m_lms_device, configured, stream, mute, deleted, thread, stopping>>

Malloc == Memory("malloc", "allocated")
Free   == Memory("free", "freed")

(* LMS_Close takes the streams with it.                                    *)
Closed(h) ==
  /\ m_lms_device' = [m_lms_device EXCEPT ![h] = "closed"]
  /\ stream' = [stream EXCEPT ![h] = [d \in Direction |-> "none"]]

CloseDevice ==
  /\ Doing("LMS_Close")
  /\ Closed(Now.on)
  /\ UNCHANGED <<configured, m_IQbuffer, mute, deleted, thread, stopping>>

Delete ==
  /\ Doing("delete")
  /\ deleted' = deleted \cup {Now.on}
  /\ UNCHANGED <<m_lms_device, configured, stream, m_IQbuffer, mute, thread, stopping>>

StartThread ==
  /\ Doing("std::thread")
  /\ thread' = "loop"
  /\ UNCHANGED <<driver, stopping>>

RequestStop ==
  /\ Doing("stopping")
  /\ stopping' = TRUE
  /\ UNCHANGED <<driver, thread>>

StreamsThere(h, directions) ==
  /\ h \notin deleted
  /\ \A d \in directions : stream[h][d] # "none" /\ m_IQbuffer[h][d] = "allocated"

(* Blocks are exchanged until the program is told to stop.                 *)
ExchangeBlocks ==
  /\ Doing("blocks")
  /\ StreamsThere(Now.on, Direction)
  /\ UNCHANGED <<driver, thread, stopping>>

(* The call fails, on a device that is not there in any case.              *)
Failing(reaction) ==
  /\ Running
  /\ reaction \in Now.failures
  /\ NeedsDevice(Now.call) => m_lms_device[Now.on] # "closed"

FailIgnored ==
  /\ Failing("ignored")
  /\ at' = at + 1
  /\ mute' = IF Now.call[1] = "LMS_StartStream"
             THEN [mute EXCEPT ![Now.on] = @ \cup {Now.call[2]}] ELSE mute
  /\ UNCHANGED <<program, outcome, m_lms_device, configured, stream, m_IQbuffer, deleted,
                 thread, stopping>>

(* The rest of the function is left out: the next call is that of another. *)
FailReturn ==
  /\ Failing("return")
  /\ at' = CHOOSE i \in at + 1 .. Len(agenda[program]) :
             /\ agenda[program][i].function # Now.function
             /\ \A j \in at .. i - 1 : agenda[program][j].function = Now.function
  /\ UNCHANGED <<program, outcome, driver, thread, stopping>>

(* Mutant: error() returns to its caller.                                  *)
ErrorReturns ==
  /\ Failing("error")
  /\ IF m_lms_device[Now.on] = "open" THEN Closed(Now.on) ELSE UNCHANGED <<m_lms_device, stream>>
  /\ at' = at + 1
  /\ UNCHANGED <<program, outcome, configured, m_IQbuffer, mute, deleted, thread, stopping>>

(* Mutant: error() exits without closing the device.                       *)
ErrorKeepsOpen ==
  /\ Failing("error")
  /\ outcome' = "exit"
  /\ UNCHANGED <<program, at, driver, thread, stopping>>

(* error(): the driver's own device is closed, if it has one, and exit(-1) *)
(* comes next; the other thread runs until then.                           *)
Error ==
  /\ Failing("error")
  /\ outcome' = "exit"
  /\ IF m_lms_device[Now.on] = "open" THEN Closed(Now.on) ELSE UNCHANGED <<m_lms_device, stream>>
  /\ UNCHANGED <<program, at, configured, m_IQbuffer, mute, deleted, thread, stopping>>

(* The ways out of main().  delete(t_sdr) destroys a joinable std::thread: *)
(* std::terminate.                                                         *)
WayOut == [exit |-> "exited", running |-> IF Now.call[1] = "return 0" THEN "returned" ELSE "aborted"]

Leave ==
  /\ \/ outcome = "exit" /\ thread # "undefined"
     \/ Running /\ Now.call[1] \in {"return 0", "delete(t_sdr)"}
  /\ outcome' = WayOut[outcome]
  /\ UNCHANGED <<program, at, driver, thread, stopping>>

-----------------------------------------------------------------------------
(* The thread: run() tests the flag and calls LMS_RecvStream in turn.      *)
Alive == outcome \in {"running", "exit"}

TestStopping ==
  /\ Alive /\ thread = "loop" /\ "sdr" \notin deleted
  /\ thread' = IF stopping THEN "ended" ELSE "receive"
  /\ UNCHANGED <<program, at, outcome, driver, stopping>>

(* Mutant: run() leaves its loop when LMS_RecvStream fails.                *)
ReceiveLeaves ==
  /\ Alive /\ thread = "receive" /\ StreamsThere("sdr", {"rx"})
  /\ thread' \in {"loop", "ended"}
  /\ UNCHANGED <<program, at, outcome, driver, stopping>>

(* LMS_RecvStream may time out or fail: run() goes on all the same.        *)
Receive ==
  /\ Alive /\ thread = "receive" /\ StreamsThere("sdr", {"rx"})
  /\ thread' = "loop"
  /\ UNCHANGED <<program, at, outcome, driver, stopping>>

ThreadMisuse ==
  /\ Alive
  /\ \/ thread = "receive" /\ ~StreamsThere("sdr", {"rx"})
     \/ thread = "loop" /\ "sdr" \in deleted
  /\ thread' = "undefined"
  /\ UNCHANGED <<program, at, outcome, driver, stopping>>

Next ==
  \/ OpenDevice \/ Configure \/ Adjust
  \/ SetupStream \/ StartStream \/ StopStream \/ DestroyStream
  \/ Malloc \/ Free \/ CloseDevice \/ Delete
  \/ StartThread \/ RequestStop \/ ExchangeBlocks
  \/ FailIgnored \/ FailReturn \/ Error \/ Leave
  \/ TestStopping \/ Receive \/ ThreadMisuse

Spec == Init /\ [][Next]_vars

-----------------------------------------------------------------------------
(* Types: where the program and its thread stand, and what it holds.       *)
(* run() leaves its loop only when it was told to (while(!stopping)),      *)
(* whatever LMS_RecvStream returns.                                        *)
TypeOK ==
  /\ program \in Programs /\ at \in DOMAIN agenda[program]
  /\ outcome \in {"running", "exit", "exited", "returned", "aborted"}
  /\ m_lms_device \in [Handle -> {"NULL", "open", "closed"}]
  /\ configured \in [Handle -> SUBSET ToSet(Preparation)]
  /\ stream \in [Handle -> [Direction -> {"none", "stopped", "started"}]]
  /\ m_IQbuffer \in [Handle -> [Direction -> {"nullptr", "allocated", "freed"}]]
  /\ mute \in [Handle -> SUBSET Direction] /\ deleted \subseteq Handle
  /\ thread \in {"none", "loop", "receive", "ended", "undefined"}
  /\ stopping \in BOOLEAN
  /\ thread = "ended" => stopping

(* A device is ready for streams when it is open and every call of         *)
(* Preparation has succeeded on it.                                        *)
Device(h) ==
  LET opened == IF configured[h] = ToSet(Preparation) THEN "ready" ELSE "open"
  IN  [NULL |-> "absent", closed |-> "closed", open |-> opened][m_lms_device[h]]

Protocol == INSTANCE DeviceProtocol WITH device <- [h \in Handle |-> Device(h)]

(* Whatever call fails, in whichever program: a driver opens and closes    *)
(* its device once, sets up no stream before the device has been           *)
(* initialised, its channels enabled and tuned, and starts, stops and      *)
(* destroys a stream in the order of LimeSuite.  initLimeSDR() gives up    *)
(* with a value that no constructor looks at: the next call has to fail.   *)
FollowsProtocol == Protocol!Spec

(* No program goes on with a device it closed, a buffer it freed or a      *)
(* stream it never set up, after a failure in the middle of the set-up, of *)
(* a retune or of the destructor (error() 189-195, stopStreaming()).  Nor  *)
(* does one get as far as its thread, or its first block, without an open  *)
(* device, though no constructor looks at what initLimeSDR() returns (216).*)
UsesWhatIsThere ==
  Running =>
    /\ NeedsDevice(Now.call) => m_lms_device[Now.on] # "closed"
    /\ Now.call[1] \in {"std::thread", "blocks"} =>
         m_lms_device[Now.on] = "open" /\ StreamsThere(Now.on, Direction)
    /\ Now.call[1] = "free" => m_IQbuffer[Now.on][Now.call[2]] # "freed"

(* Between two functions of a driver both streams run: setFrequency() and  *)
(* setSamplingRate() start again what they stopped.  The exception is a    *)
(* stream whose LMS_StartStream failed, which the drivers only log.        *)
BetweenFunctions == Running /\ at > 1 /\ agenda[program][at - 1].function # Now.function

Streaming ==
  BetweenFunctions =>
    \A h \in Handle, d \in Direction :
      m_IQbuffer[h][d] = "allocated" => stream[h][d] = "started" \/ d \in mute[h]

(* A program that returns from main() has closed its devices and freed its *)
(* buffers.  One that ends in error() has closed the device of the driver  *)
(* that failed.                                                            *)
LeavesNothingOpen ==
  /\ outcome = "exited" => m_lms_device[Now.on] # "open"
  /\ outcome = "returned" =>
       \A h \in Handle : /\ m_lms_device[h] # "open"
                         /\ \A d \in Direction : m_IQbuffer[h][d] # "allocated"
=============================================================================
