--------------------------- MODULE DeviceProtocol ---------------------------
(***************************************************************************)
(* The order in which LimeSuite wants its calls: what the drivers promise  *)
(* about a device and its two streams.  A handle is one lms_device_t*.     *)
(* Nothing is said here of why a driver makes a call: LimeDevice shows     *)
(* that the programs make them in this order.                              *)
(***************************************************************************)
CONSTANTS Handle,     \* the driver objects, each with an m_lms_device
          Direction   \* the streams of a device

VARIABLES device,     \* device[h]: "absent", "open", "ready" or "closed"
          stream      \* stream[h][d]: "none", "stopped" or "started"

vars == <<device, stream>>

TypeOK ==
  /\ device \in [Handle -> {"absent", "open", "ready", "closed"}]
  /\ stream \in [Handle -> [Direction -> {"none", "stopped", "started"}]]

NoStream == [d \in Direction |-> "none"]

Init ==
  /\ device = [h \in Handle |-> "absent"]
  /\ stream = [h \in Handle |-> NoStream]

(* LMS_Open, and the calls that make the device ready for its streams.     *)
Open(h) ==
  /\ device[h] = "absent"
  /\ device' = [device EXCEPT ![h] = "open"]
  /\ UNCHANGED stream

Prepare(h) ==
  /\ device[h] = "open"
  /\ device' = [device EXCEPT ![h] = "ready"]
  /\ UNCHANGED stream

(* One stream goes from one state to another on a device that is ready.    *)
Turn(h, d, from, to) ==
  /\ device[h] = "ready"
  /\ stream[h][d] = from
  /\ stream' = [stream EXCEPT ![h][d] = to]
  /\ UNCHANGED device

SetUp(h, d)   == Turn(h, d, "none", "stopped")
Start(h, d)   == Turn(h, d, "stopped", "started")
Stop(h, d)    == Turn(h, d, "started", "stopped")
Destroy(h, d) == Turn(h, d, "stopped", "none")

(* LMS_Close, for the only time, takes with it what streams there are.     *)
Close(h) ==
  /\ device[h] \in {"open", "ready"}
  /\ device' = [device EXCEPT ![h] = "closed"]
  /\ stream' = [stream EXCEPT ![h] = NoStream]

Next ==
  \E h \in Handle :
    \/ Open(h) \/ Prepare(h) \/ Close(h)
    \/ \E d \in Direction : SetUp(h, d) \/ Start(h, d) \/ Stop(h, d) \/ Destroy(h, d)

Spec == Init /\ [][Next]_vars
=============================================================================
