# 802.22 base: verification project

TLA+ models of the C++ program in `src/` (the RPX-100 software: an 802.22-like
modem on a LimeSDR, a spectrum display served over WebSockets, test programs),
model-checked with TLC on small instances and, where it matters most, proved
with TLAPS for every value of the constants.

    tlasany M.tla                      parse a module
    tlc -config X.cfg M                a run (see the table of runs)
    tlapm MProofs.tla                  the proofs of module M

## 1. The system

Two executables, `RPX-100` (`src/RPX-100.cpp`) and `radio_test`
(`src/radio_test.cpp`), put together the parts below. There are two radio
drivers: `LimeRadioThread` runs in a thread of its own and exchanges blocks of
samples through queues; `LimeRadio`, the newer one, is called by the PHY thread
itself and exchanges samples through two buffers.

| part | state | operations | hard behaviour | correct when |
|---|---|---|---|---|
| **Sample queue** `RadioThreadIQDataQueue`, `SpinMutex` (`phy/RadioThread.h`) | a deque, a limit, a lock flag | push, pop, flush, size, set_max_items | called by two or three threads at once; refuses blocks when full | a queue whose operations look atomic, return values included; never above its limit; a caller never spins for ever because of an early return |
| **SDR thread** `RadioThread`, `LimeRadioThread` | four atomic flags, two queue pointers, the block in hand, device buffers, GPIO pins | threadMain, run, terminate, stop, isTerminated, set_HW_RX/TX, setRxOn/TxOn, destructor | start, stop and destruction race with the loop; receive timeouts; overruns; full queue | samples reach the consumer in order with the device's timestamps, a stop ends the thread, terminated means ended, the power amplifier is off where nobody tests it |
| **SDR device** (`initLimeSDR`, `initStreaming`, `setFrequency`, `setSamplingRate`, `stopStreaming`, `error` of both drivers) | device pointer, streams, sample buffers | open, initialise, tune, set up and start streams, retune, stop, close, exit | every call can fail, in the middle of a set-up, a retune or a destructor; `error()` closes the device and exits while the other thread runs | the calls come in the order LimeSuite wants; nothing closed or freed is used; the streams run again after a retune; a program that returns leaves nothing open |
| **Programs of the SDR thread** (`RPX-100.cpp`, `radio_test.cpp` -s, `util/write_csv_file.cpp`) | where they stand | start, wait, GPIO test, drain, flush, terminate, delete | no join before delete; poll of `isTerminated` | they end; the queue is drained |
| **Frame synchroniser** `PhyFrameSync` | state, three counters, flag, NCO frequency | execute (one sample), reset | counters that outlive the state; a timeout tested in the call that accepts; unsigned arithmetic; the NCO feeds back | every sample of a frame is counted, the search is open when the next frame is due, an accepted STS is kept, no state is final |
| **PHY thread** `PhyThread` (modes BASESTATION, CPE, TEST) | mode, flags, frame start, current timestamp | constructor, run, stop, terminate, destructor | timestamps over timeouts and overruns; the wait for the device's clock; stop | samples numbered rightly, losses reported, frames handed over in time, the program ends |
| **Radio driver** `Radio`, `LimeRadio` | direction flag, buffers, metadata, pins | receive_IQ_data, send_IQ_data, get_rx_timestamp, set_HW_RX/TX | partial blocks, timeouts, buffer too small | a buffer is fresh on every call; pins follow the direction |
| **Debug buffer** `PhyIQDebug` | ring, two flags, countdown | push_iq, freeze, dump_iq, destructor | freeze while collecting, freeze again, unsigned countdown | after a freeze the ring holds the samples around it |
| **Frame generator** `PhyFrameGen` | symbol, training sequence, postfix | create_STS_symbol, genSymbol | index arithmetic | the symbol that is sent has its cyclic prefix |
| **WebSocket server** `WebSocketServer`, `wsSpectrogram` | connections with message queues, users, `m_socketsOn` | libwebsockets callbacks, send, broadcast, broadcast_log, authenticate, run | short and failed writes; removal of a connection under its callback; broadcast_log on any thread | each client gets its messages once, in order; no step reaches a removed connection; only permitted users see the log |
| **Log** `Log`, `WebSocketSink` | five loggers | log | every thread logs; a sink calls into the server | |
| **Users** `User`, `Argon2Wrapper`, `read_users` | permissions, hash | load, verify | none over time | |

How they interact:

* `LimeRadioThread::run` pushes a block of received samples per turn on the
  receive queue; `wsSpectrogram::run` or `PhyThread::run` in mode TEST pops it
  when more than five wait. The transmit queue is read by `run` in transmit mode.
* `PhyThread::run` in mode CPE calls `LimeRadio::receive_IQ_data`, then for each
  sample `PhyFrameSync::execute` and `PhyIQDebug::push_iq`; the synchroniser
  calls `PhyIQDebug::freeze`. In mode BASESTATION it calls
  `PhyFrameGen::create_STS_symbol` and `LimeRadio::send_IQ_data` once per frame.
* The base station's frames are the receiver's STS: one radio sends 1024 samples every
  22850, the other counts samples and looks for them. Nothing but these numbers ties
  the two together.
* Flags (`stopping`, `terminated`, `m_isRxTxRunning`, `m_isPhyRunning`) are the
  only synchronisation between a program and its threads; no thread of
  `RPX-100` is joined.
* The loggers call `WebSocketServer::broadcast_log` on whatever thread logs.

`PROJECT.json` lists, under `components`, what of each part is modelled and,
under `hazards`, what can go wrong in it that a test hardly reaches, with the
line where it bites and the properties that would show it.

## 2. Modules

| module | models |
|---|---|
| `IQQueue` | abstract specification: a queue shared by threads, each operation one step |
| `SpinQueue` | the queue as written: every access to the deque and to the lock flag is a step |
| `SpinQueueProofs` | proofs about `SpinQueue`, among them that it implements `IQQueue` |
| `PhyFrameSync` | the synchroniser; one action is one call of `execute()` |
| `PhyFrameSyncProofs` | proofs about `PhyFrameSync` |
| `FrameLink` | base station, link and `PhyFrameSync` together: where the window lies in a frame decides what it says; fading frames, overruns |
| `FrameLinkProofs` | proofs about `FrameLink`: it implements `PhyFrameSync`, and a followed frame leads to the next |
| `DeviceProtocol` | abstract specification: the order in which LimeSuite wants the calls on a device and its streams |
| `LimeDevice` | both drivers from `LMS_Open` to `LMS_Close` in all programs; any call may fail |
| `LimeDeviceProofs` | proofs about `LimeDevice`, among them that it implements `DeviceProtocol` |
| `LimeRadioThread` | the SDR thread composed with six programs; queues by their atomic operations; the GPIO pins, mode by mode |
| `LimeRadioThreadProofs` | proofs about `LimeRadioThread` |
| `PhyThread` | `PhyThread`, `LimeRadio`, `PhyIQDebug`, `PhyFrameGen` and `warta()`, as `radio_test -p` runs them |
| `PhyThreadProofs` | proofs about `PhyThread` |
| `Mailbox` | abstract specification: what a client of the server may count on, its messages in a mailbox of its own |
| `WebSocketServer` | `WebSocketServer`, `wsSpectrogram` and the log's `WebSocketSink` |
| `WebSocketServerProofs` | proofs about `WebSocketServer`, among them that it implements `Mailbox` |
| `MCSpinQueue`, `MCPhyFrameSync`, `MCFrameLink`, `MCLimeRadioThread` | the values of constants a `.cfg` cannot write |

Variables and constants have the names of the code. `PROJECT.json` maps every
definition to its source lines. An operator whose comment starts with "Mutant:"
is not part of a specification: it is the definition that follows it with a
plausible mistake, kept to show that a property notices the mistake.

**SpinQueue.** `pc[t]` says where thread `t` stands in the queue's code.
`lock()` is one turn of the `test_and_set` loop per step. `push` is two steps
under the lock (test of the size, `push_back`), `pop` two (`front`,
`pop_front`). Return values and the out parameter are state, so that the
refinement of `IQQueue` covers them. Blocks are model values: the queue never
looks into one. `IQQueue`'s call takes effect in one step; the mapping takes it
to be the step after which only the release of the lock is left.

**PhyFrameSync.** What a sample *says* is abstract: an evaluation of the window
finds the metric below, between or above the thresholds, and timing estimates
are any in the range that rounding an argument in [-pi, pi] allows. What is
*counted* is exact: timers, the search timeout, the payload wait, unsigned
arithmetic with its width. `age`, `found` and `verdict` are history variables.
The metric that the code compares in `STS_1` with 0.5 below the first estimate
is one of the abstract comparisons.

**FrameLink.** A step is one sample: `position` counts the samples of a period from the
first of the STS (`framestart += 22850`), and the synchroniser of `PhyFrameSync` takes
it. The window holds the last M samples; `Overlap` says how many of them belong to the
STS, the metric grows with it, and the two thresholds are reached at the two numbers of
samples in `slope`, which a run takes from a set and keeps. An estimate is right up to
multiples of M/4, because the symbol repeats every M/4 samples, and up to `Deviation`.
`m_s_hat_0` is kept so that the second estimate can see the metric fall; between the
0.5 that the code allows and a fall as large as the lower threshold both outcomes are
possible. A frame can fade, and the device can overrun behind a symbol and lose
samples. `caught`, `caughtBefore`, `lost` and `faults` are history. `LastChances(p)`
is the arithmetic of the code in closed form: a symbol accepted at `p` leads to a
search whose last evaluation comes at one of these places of the next frame.

**LimeDevice.** A function of a driver is the sequence of the calls of LimeSuite it
makes, each with the reactions to its failure that the code has there: `error()`, a
return that skips the rest of the function, or a line in the log. A program is the
sequence of the functions it calls. Any call may fail at any place; the thread of the
radio runs beside the program, up to and behind `error()`. `ThreadMisuse` is the step in
which `run()` meets what the other thread closed, freed or deleted. Assumed of
LimeSuite, which is not part of the repository: a failing `LMS_Open` leaves the pointer
null, `LMS_StopStream` and `LMS_DestroyStream` take effect, a second `LMS_Open` may
succeed or fail; `malloc` succeeds. `RPX-100 -p` starts a `PhyThread` whose `stopping`
is never initialised; the module takes the run in which it returns. `radio_test -p` makes the
same calls with `-b` and without: `run()` starts with `set_HW_TX()` or `set_HW_RX()`.

**LimeRadioThread.** `sdr` and `main` are the two program counters. A step is one
access to shared state: the four flags are read and written one at a time, in the
order of the code. The device delivers the samples 1, 2, ... in blocks of any
length up to `m_rxSampleCnt`, may lose some between two blocks (`MaxGap`), and may
time out, which pushes an empty block. `Undefined` is the step after which C++
promises nothing: `front()` of an empty deque, a use of a freed buffer or object.
Queues are used by their atomic operations, which `Linearizable` of `SpinQueue`
justifies. `taken`, `lost`, `sent`, `asked` are history. `tested` counts the modes
that the GPIO test of `RPX-100 -l` has set. Three functions have no caller at this
commit, which the module marks where it uses them as their declarations say:
`setTxOn()`, `write_csv_file()` and `RadioThread::stop()` (`warta()` calls the one of
`PhyThread`).

**PhyThread.** `main` is the place in `run()`, which the program's main thread
executes; `warta` is the thread that waits for `isPhyRunning()`, sleeps and calls
`stop()`. In CPE a step is a call of the driver, the comparison of timestamps, or
the work on one sample. In BASESTATION the device's clock matters: `Tick` advances
it while the host is at work, and `ahead` is the distance from the device's clock
to the start of the next frame, so that the model stays finite although both grow.
`HostDelay` bounds the ticks between two steps of the host. The transmit buffer
holds the indices of the samples of `m_x` that `genSymbol()` puts there. The debug
ring has the code's order: freeze test, countdown, stop.

**WebSocketServer.** One action is one callback of libwebsockets as the code handles
it, log lines included; `Spectrum` is a turn of `wsSpectrogram::run()`,
`LogElsewhere` a log line of another thread. `connections` is the map of the code, a
function whose domain changes; `open`, `writable` and `waiting` are the sockets and
what the library knows of them, `received` and `proved` are history. A write callback
empties the buffer; `Written` is any choice of the messages that are received, the
others being those for which `lws_write()` returned -1. A write may be short instead: then the client gets a part of the message, the
connection is removed, and the socket stays. The next write callback of that socket
finds a null `Connection*`. That is undefined; the model has the outcomes of a build:
the process stops (`NullPointer`), or a null pointer stays in the map and stops the
process at the next log line or broadcast (`WriteMissing`). `Race` is a log line of
another thread during a handler, after which the model stops too. Log lines that one
handler writes before it answers count as one message. `Box(c)` maps this to `Mailbox`:
the buffer of the connection that the client's descriptor has in the map, if any, with
what the client has received.

## 3. Runs

| run | question | result |
|---|---|---|
| `spinqueue` | Is the spin-locked queue atomic and bounded, do its calls complete? | holds, 33 thousand states |
| `framesync` | Does the synchroniser count every sample, search when the next frame is due, keep what it accepts, and keep moving? | holds |
| `framesync_offset` | Is the offset corrected after every frame ("correct for carrier frequency offset")? | no: the second frame undoes the first |
| `radio` | Samples in order and accounted for, a stop obeyed, terminated true, amplifier off, queue drained? | holds, 213 thousand states |
| `radio_stop` | Does a stop request always end the thread? | no: one made before `threadMain()` resets the flag is lost |
| `radio_send` | Are the samples of the transmit queue sent? | no: received samples are sent in their place |
| `phythread` | Stamps, loss reports, freeze window, frames in time, program ends? | holds, 59 thousand states |
| `link` | Base station and receiver together, with fading and overruns: is the next frame followed, are all in the end? | holds, 1.27 million states |
| `device` | Does every program, whichever call fails, keep the order of calls, use only what is there, stream again after a retune and leave nothing open? | holds, 7 thousand states |
| `phythread_pins` | Do the GPIO pins follow the direction? | no: a logical `\|\|` writes 1 in every mode |
| `websocket` | Messages in order and at most once, connections as sockets, permissions, nothing left in a buffer, a mailbox for every client? | holds, 429 thousand states |
| `websocket_pop` | Is a message popped only if it was sent (comment at line 103)? | no: a write that returns -1 pops it |

The runs that end in a violation document places where a comment of the code and
the code disagree; `PROJECT.json` quotes each under `findings`.

### What the properties say, and why they are not obvious

* `MutualExclusion`, `PopTakesHead`, `Capacity`, `Linearizable`: what a thread saw
  in the deque is still true when it acts on it.
* `CallsComplete`: while a thread spins, some call completes. That each waiter gets
  its turn is not true of a test-and-set lock and not claimed.
* `FrameClock`: the timers of five states add up to the age of the frame. One
  counter not reset, one that wraps, or one off by one breaks the sum.
* `SearchOpenAtPeriod`: ties the receiver's waits (512, 4, 20480, 1920 samples) to
  the transmitter's period of 22850; the margin of the code is 66 samples.
* `AcceptedIsKept`: the search timeout, tested after an STS was accepted in the same
  call, never throws it away. It holds only because 1921 is not a multiple of
  M/4 = 256.
* `InOrder`, `Accounted`: timeouts, overruns, refused pushes and flushes never
  duplicate, reorder or misnumber a sample, and nothing is lost but in those places.
* `FollowsFrames`: a receiver that was on a frame is on the next one and still follows
  it when the symbol has left its window, with any correction of the timers and any
  number of samples lost in between, provided that the search it will make reaches the
  slope of the signal. Whether it does is arithmetic on where the symbol was accepted
  (`Reaches`). In the code the last evaluation comes 64 samples behind a multiple of 256
  from the STS: a signal that crosses the lower threshold 65 to 126 samples behind one
  is just missed.
* `StaysOnFrames`: a receiver on the frames (`Following`) accepts every STS within M/4
  samples of where the slope begins, frame after frame, until one fades or samples are
  lost. The place of acceptance in one frame decides the next search only through the
  estimate, the timers and four waits; nothing measures the distance to the slope, so an
  error that did not cancel would add up over the frames. It is the safety half of `Locks`.
* `Locks`: on any other slope (`SteadySlopes`) the receiver ends up on every frame, from
  any start and after any faults. It needs `DETECT_STS` to drift over the frame, that
  is, a period that is no multiple of M/4 (22850 is 66 more than one).
* `FollowsProtocol`, `UsesWhatIsThere`: no return value of `initLimeSDR()` is looked at,
  `error()` closes the device wherever it is called, the destructor included, and the
  pointer is not reset: still no call reaches a closed device, no buffer is freed twice,
  no program gets as far as its thread or its first block without an open device, and the
  calls refine the abstract protocol, for each of the two drivers.
* `Streaming`: `setFrequency()` and `setSamplingRate()` stop both streams first; there is
  no way out of them that leaves a stream stopped, but for a failing `LMS_StartStream`,
  which the code logs and forgets.
* `LeavesNothingOpen`: a program that returns has closed and freed everything; one that
  ends in `error()` closes the device of the driver that failed, and only that one.
* `StopEnds`, `Drains`, `KeepsMoving`, `ProgramEnds`: liveness.
* `TerminatedMeansReturned`: `terminated` is what a program has in place of a join, so
  it must not come early, whatever ends the loop. True until the destructor runs, which
  sets it itself.
* `AmplifierOff`: each of `set_HW_RX()` and `set_HW_TX()` reads the pins back and keeps
  one LED; `terminate()` and the destructor switch off two and leave the rest as it
  stands. The amplifier is on in the middle of the GPIO test only, never with the RX LED,
  and off when a program ends. The last is owed to the order of the test, which closes
  with `set_HW_RX()`: neither `terminate()` nor the destructor sees to it.
* `Stamped`, `LossReported`: the CPE loop takes the timestamp of a block over before
  it looks at the block; with empty blocks in between, the expected timestamp is not
  the one after the last sample, and still no loss goes unreported.
* `FreezeWindow`: the debug buffer stops exactly a freeze period after the *first*
  freeze, however often it is frozen again.
* `OnTime`: the arithmetic of lines 96, 134 and 140 of `PhyThread.cpp`: a frame is
  handed over before it is due, and less than a period early, if the host reacts
  within a quarter of the lead (2500 samples, about 1.1 ms).

* `ConnectionPerSocket`: the map of connections and the sockets of the library are
  kept by different callbacks; they agree except for one case, a message cut short,
  and then the connection is gone for good. With it a descriptor used again starts
  with a fresh `Connection`.
* `ServesMailboxes`: the server implements `Mailbox`, in which there are no sockets and no
  descriptors: each client has a mailbox that opens once, is filled at its end with
  messages numbered without a gap, and is emptied, broken or left by that client's own
  steps; a step of one client does nothing to the mailbox of another but fill it. In the
  code all of them go through one map indexed by descriptors that are used again, every
  handler pushes to everybody, and a write callback deletes the connection under itself.
  The invariants look at one state; this one says that no step takes away, renumbers or
  moves what waits, of this client or of another.
* `Permitted`: log lines go to whoever is in the map when a line is logged, by the user
  of the connection at that moment; none reaches a client that has not proved to be a
  reader, and a login is not inherited through a descriptor.
* `Flushed`: `send()`, `broadcast()` and `broadcast_log()` request no write callback;
  everything depends on the callback requesting itself, with an empty buffer too.
* `SpectrumOffWithoutClients`: the flag set by one callback and reset by another. Its
  converse is not true: one client that leaves turns the spectrum off for the others.

Visible in the models without a run of their own, each a place where a reader of the
code may expect something else:

* the timer that is to delay the first estimate ("add delay", `PhyFrameSync.cpp` lines
  461 and 552) is past its threshold already, so there is no delay;
* "lost samples !!!" (`PhyThread.cpp`, 196) is also printed after a timeout that lost
  nothing;
* `genSymbol` (`PhyFrameGen.cpp`, 258) copies M + cp_len samples from the first of the
  symbol on: what is sent has no cyclic prefix, and its end comes from behind the symbol;
* the doc comment of `set_HW_RX()` says "GPIO0=HIGH - RX" (`LimeRadioThread.cpp`, 501)
  and gives the LED of the mode as 0x20 (503). The masks (`LimeRadioThread.h`, 87 and 95)
  and the comment inside the function (511) say GPIO0 low and 0x40, and that is what is
  written: `RxPins` follows the code, and `AmplifierOff` tells the RX LED from the TX LED;
* the destructor of `RadioThread` stores `terminated` while `run()` may be active, and
  `RPX-100.cpp` line 158 deletes the radio without waiting for its thread;
* `radio_test -s` deletes an object with a joinable `std::thread`, which ends in
  `std::terminate` with the device open and streaming (`aborted` of `LimeDevice`);
* an overrun of the device is logged, and the receiver counts on as if nothing was
  missing (`Overrun` of `FrameLink`).

### Bounds

* `spinqueue`: three threads (radio, consumer, main) that call anything, two blocks,
  limits 1 and 2. A full and an empty queue, a raise of the limit and a flush between
  any two steps occur. The proofs remove the bounds.
* `framesync`: M = 16 for 1024. The other lengths are scaled down roughly, in their
  order; the timeout is not in proportion but chosen for what decides: timeout + 1 is no
  multiple of M/4 (15 and 4 for 1921 and 256), so that it lies off the grid of
  evaluations, and the period is inside the search window. The
  three frequency errors stand for negative, none and positive. The proofs cover the
  numbers of the code.
* `radio`: three samples, blocks of up to two, gaps of one, a queue of two, transmit
  blocks of zero to two samples. This is enough for a full queue, a gap between and
  before blocks, a timeout before, between and after, and a transmit block longer than
  the received one. `Backlog < MaxItems` as in the code (5 and 2000).
* `phythread`: seven samples in blocks of up to three with a gap, a ring of three, a
  freeze period of two, so that the ring drops samples before and during the freeze.
  A period of six, a lead of four and a host delay of one have the proportions that
  `ScheduleAssumption` asks for.

* `link`: M = 64 for 1024. The timeout of 120 makes seven evaluations, as 1920 does; the
  period of 278 is six more than a multiple of M/4, as 22850 is 66 more, and the search
  ends four samples behind a multiple of M/4 from the STS, as the code's ends 64 behind.
  The payload is two symbols for twenty, which only leaves out samples in which nothing
  is decided. The slope `<<11, 24>>` has the proportions of the thresholds 2.0 and 4.5 on
  a clean signal (about a sixth and three eighths of the symbol), `<<21, 37>>` those of a
  noisy one; estimates are off by up to one sample. Gaps of 3 and 40 samples: within one
  evaluation interval and over several. Two faults, so that a frame fades after an overrun
  or before it, two frames fade in a row, and the receiver loses and finds the frames
  again. The start is any position in a period.
* `device`: no bound; the programs are finite and every failure of every call is tried.
* `websocket`: two descriptors and two clients that connect once each, so that a client
  meets another one on the other descriptor or takes over its own; two users, one with
  the permissions. `MaxPushed` = 2 stops requests, spectra and foreign log lines once a
  connection was pushed two messages; lines logged by connects, disconnects and errors
  come on top. Four messages can wait in one buffer, any of which fails or is cut.

Deadlock is checked where the system never stops (`spinqueue`, `framesync`, `link`). The
programs of `radio`, `phythread` and `device` end, so `CHECK_DEADLOCK FALSE` is said there, and
liveness properties say how they end. `websocket` stops when all clients have left, or
after undefined behaviour.

### Fairness

* `spinqueue`: each thread *inside* the queue is scheduled (weak fairness of its
  steps); no thread is obliged to call. The operating system gives that.
* `framesync`: samples keep arriving.
* `link`: samples keep arriving. Faults are bounded in number: nothing is claimed of a link
  that never recovers.
* `radio`: both threads are scheduled, and `LMS_RecvStream` returns, since it is called
  with a timeout. The GPIO test, once begun, is a part of the program and goes on. Stop
  requests, mode changes and exceptions are not fair: nobody is obliged to make them.
* `phythread`: both threads are scheduled (`LMS_RecvStream` has a timeout of 100 ms,
  `sleep_for` ends), and the device's clock runs while the stream is on. Without the
  last, BASESTATION waits for ever in line 140, which does not test `stopping`.

* `websocket`: the library calls back every socket that asked to write (clients read).
  Nobody is obliged to connect, send, leave or log.

## 4. Proofs

All are checked by `tlapm` to the last leaf, from the `ASSUME`s of the module alone.

| theorem | states |
|---|---|
| `SpinQueueProofs!TypeCorrect`, `Exclusion`, `PopRemovesItsBlock`, `Bounded` | `TypeOK`, `MutualExclusion`, `PopTakesHead`, `Capacity` for any threads, blocks, limits |
| `SpinQueueProofs!Refinement` | `SpinQueue` implements `IQQueue` |
| `PhyFrameSyncProofs!TypeCorrect`, `TimersTellAge`, `AcceptedFramesKept` | `TypeOK`, `FrameClock`, `AcceptedIsKept` for any lengths that satisfy the assumptions |
| `PhyFrameSyncProofs!SearchIsOpen` | `SearchOpenAtPeriod` |
| `FrameLinkProofs!LinkRunsSync` | the link implements the synchroniser, so all of its theorems hold there |
| `FrameLinkProofs!OnFramesForGood` | `StaysOnFrames`: without faults a receiver that follows the frames follows them for good, for any lengths and every steady slope |
| `FrameLinkProofs!FramesFollowed`, `LinkTypeCorrect` | `FollowsFrames`, `LinkTypeOK` for any lengths, slopes, gaps and number of faults |
| `LimeDeviceProofs!ProtocolFollowed` | `FollowsProtocol`: every program implements `DeviceProtocol` for each driver |
| `LimeDeviceProofs!NothingUsedAfter`, `StreamsRun`, `NothingLeftOpen`, `TypeCorrect` | `UsesWhatIsThere`, `Streaming`, `LeavesNothingOpen`, `TypeOK` |
| `LimeRadioThreadProofs!TerminatedIsReturned`, `AmplifierIsOff` | `TerminatedMeansReturned`, `AmplifierOff` for any programs and interleaving |
| `LimeRadioThreadProofs!SamplesInOrder`, `SamplesAccounted`, `TypeCorrect` | `InOrder`, `Accounted`, `TypeOK` for any block sizes, gaps and limits |
| `WebSocketServerProofs!ReceivedInOrder`, `OnlyPermitted` | `InOrder`, `Permitted` for any clients, descriptors, users, messages |
| `WebSocketServerProofs!MapMirrorsSockets`, `SpectrumNeedsClient`, `TypeCorrect` | `ConnectionPerSocket`, `SpectrumOffWithoutClients`, `TypeOK` |
| `WebSocketServerProofs!MailboxesServed` | `ServesMailboxes`: the server implements `Mailbox` for any clients, descriptors, users, messages |
| `PhyThreadProofs!TypeCorrect` | `TypeOK`: ring, transmit buffer and countdown keep their bounds |
| `PhyThreadProofs!FramesInTime` | `OnTime` for any period, lead and delay with 4 * delay <= lead < period |
| `PhyThreadProofs!SamplesStamped` | `Stamped` for any block sizes and gaps |
| `PhyThreadProofs!FreezeKept` | `FreezeWindow` for any buffer and freeze period within it |
| `PhyThreadProofs!LossesReported` | `LossReported`: no lost sample passes without the alarm |

The assumptions, and that the code's numbers meet them: M a multiple of eight (1024);
the timeout plus one not a multiple of M/4 (1921); the period inside the search
(21252 <= 22850 <= 22916, `PeriodAssumption`); the symbol with its prefix fits the
transmit buffer (1280 <= 1300); freeze period within the buffer (50000 <= 350000); the
thresholds on the first three quarters of the slope, the lower one on its first half,
estimates off by at most M/8, a payload of at least two symbols and a period of more
than three (20480, 22850); a consumer's backlog below the limit of its queue (5, 2000).
`NoConnection`, `NoClient` and `None` are assumed to be none of the values they stand
beside.

Arguments:

* *SpinQueue.* The type invariant is not inductive without `InCall` (a thread about to
  append is in a push); `Capacity` and `PopTakesHead` are not without
  `MutualExclusion`, which is inductive by itself.
* *PhyFrameSync.* `FrameClock` needs what each timer is worth in each state
  (`TimerInState`). `AcceptedIsKept` needs `SearchAligned`: in a search the count is a
  multiple of M/4 plus the timer, so a full timer cannot coincide with the timeout.
* *FrameLink.* Every step is a step of `PhyFrameSync` because its estimates are among those
  that module allows; its inductive invariant is used throughout. `FollowsUp` says what a
  followed frame is worth in each state: the age is the distance from where the STS was
  accepted, and from the estimate on (`EstimateLocates`: it can only be one of a window
  that still holds the STS, since the metric would have fallen otherwise) the timers count
  down to a place of `LastChances`. `Searches` carries this into the next frame: the search
  has not reached the slope yet, or has accepted on the first evaluation that did, which
  is on the first half of the slope, where the metric cannot fall between the two
  estimates (`NoFall`). A search cannot time out before (`SearchIsOver` with
  `SearchAligned`). `OnFramesForGood` is then an induction over frames: `Searches` ends on the
  first M/4 of the slope (`FirstOnSlope`), from where, on a steady slope, the next search
  reaches it again (`SteadyReaches`); behind the STS nothing is accepted and no search ends
  before the next frame (`StaysBehind`).
* *LimeDevice.* The programs are sequential but for the failures, so the proof is one by
  pre- and postconditions. A *phase* is what a driver has reached: its device, streams and
  buffers (`Fresh`, `Ready`, `Receiving`, `Torn`, `Gone`). `Leads(p, f, q)` says that the
  calls of the function `f`, made one after the other from phase `p`, are each allowed where
  they stand, survive the failures that the code ignores, and end in `q`. It is proved of each
  function (`StartsStreaming`, `Retunes`, `Constructs`, `Destructs`), composed in the order
  of the constructors and destructors (`Compose`), lifted to the two drivers of one program
  (`Lift`: what one does leaves the other in its phase) and to whole programs (`Agendas`).
  The inductive invariant is then short: a running program is in the phase that its place
  calls for, or has given up (`GaveUp`): `initLimeSDR()` returned without a device, nobody
  looked at its result, and the next call is one of `initLimeGPIO()`, which cannot but fail
  and lead to `error()`. That disjunct is where the code is fragile: a call between the two
  that tolerates a null device would break it. `StepSimulation` maps each call to a step of
  the protocol.
* *LimeRadioThread.* `LifeCycle` says where the thread can be while the program is at each
  place. `AmplifierOff` is not inductive without `Pins`: between two modes of the GPIO test
  the pins are those of the mode set last, and before and behind it they are those of RX, with LEDs 1 and 4 as long as the object lives. For the samples, `Moves` sorts all actions by what they do to the store: nothing
  (`Quiet`), receive, time out, push, send, pop, flush. `Samples` is kept by each:
  blocks are rising and stamped (`SoundBlocks`), everything taken, lost or sent was
  delivered (`Delivered`), the block in hand is newer than all that is kept or lost
  (`Newest`), and the block pushed last may still be shared with `run()` (`Shared`), which
  is why a transmitting turn can empty it under the consumer.
* *WebSocketServer.* `Good(connection, received, logins)` is the invariant of one client:
  its buffer is numbered upwards, lies above what it received, and holds nothing that its
  user may not see. `Sockets` ties the map to the library's sockets, `Receptions` bounds
  what closed clients have received, `Visible` says that what was received was permitted.
  `Delivery` shows that a choice of written positions keeps all of it, the reuse of a
  descriptor being a fresh `Good` connection (`NewGood`). The refinement of `Mailbox` uses
  the same invariant: `Sockets` makes the descriptor of a client unique, so that its box is
  the buffer of one connection (`BoxesAre`); `Grown` says that what every handler does to the
  connections of the others appends numbered messages (`LogGrows`, `AllWait`), and there is
  one lemma per handler for the client it serves (`OneServed`).
* *PhyThread.* `Schedule` bounds the distance to the next frame at each place of the
  loop, by one host delay more per step. `Blocks` says that the received block is
  numbered without a hole from its timestamp, and `Processed` that everything already
  processed lies before it. `Debugging` is the window of the freeze: the freezing sample
  stands as far from the end of the ring as the countdown has come down; `RingStep`
  shows that this survives the ring's dropping of its oldest sample. `Reported` bounds
  the expected timestamp by the one after the last processed sample; a block that is
  not its continuation starts above it, so it differs from what is expected.

Only model-checked: liveness under fairness (`CallsComplete`, `KeepsMoving`, `Locks`,
`StopEnds`, `Drains`, `ProgramEnds`, `Flushed`), which the prover does not reach. Every
safety property of a run, the three refinements and the action property included, is also a
theorem. Of `Locks` that is `StaysOnFrames`: what remains for TLC is that the receiver gets
to the frames. The theorems of `LimeDevice` add little to a run that is exhaustive already,
since its programs are constants of the code; the lemmas do: they say of each function of
the drivers from which state it may be called, which any new program needs.

## 5. Not modelled

* Signal processing (FFT, correlation, tapering, noise) beyond what its comparisons can
  say and where they can say it; gain and calibration beyond the failure of the calls.
* The text of dumps, logs and spectra, `printRadioConfig()`, the GPIO test's display.
* Command line, configuration files, reading the file of users, hashing.
* The end of `WebSocketServer::run()`, its destructor, `getValue()`, `setValue()`,
  `send_Tone()`, `clear_iq()`, `try_lock()`, `print_size()`, `PhyThread::threadMain()`: no
  program calls them or, for the first two, no program reaches them.
* What two unsynchronised writers do to a `shared_ptr` (`terminate()` and `run()`), and
  what follows a log line that races with the map of connections: hazards without a
  property, with the reason in `PROJECT.json`.

## 6. State of the plan

Done, in the order of importance: queue, synchroniser, SDR thread with its programs, PHY
thread, WebSocket server, SDR device, and the composition of base station, link and
synchroniser; proofs of the safety properties of all of them, and of the refinements of
`IQQueue`, `DeviceProtocol` and `Mailbox`.

What could come next: how a receiver gets to the frames, as a safety statement with a bound
(so many frames after the last fault), which with `StaysOnFrames` would prove all of `Locks`
but its fairness: `DETECT_STS` looks at places that drift over the frame by Period mod M/4,
and a measure is needed that falls with every frame that is missed; an abstract stream of
samples that `LimeRadioThread` implements, with `InOrder` and `Accounted` as its invariants;
`PhyThread` in both modes as the two ends of `FrameLink`, so that blocks, late frames and
overruns come from that module instead of a step per sample; the two threads of `LimeDevice` and `LimeRadioThread` in one module, when the code joins its
threads and the order of `delete` and `run()` is worth a property.
