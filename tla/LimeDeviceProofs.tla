-------------------------- MODULE LimeDeviceProofs --------------------------
(***************************************************************************)
(* What LimeDevice's programs do to their devices, proved call by call.    *)
(*                                                                         *)
(* The argument is that of a proof of a sequential program by pre- and     *)
(* postconditions.  A "phase" is what a driver has reached when no call    *)
(* has failed in a way that ends the program: its device, its streams, its *)
(* buffers.  Leads(p, steps, q) says that the calls of steps may be made   *)
(* from phase p on, each in its turn, and end in phase q; it is proved of  *)
(* each function of the drivers and composed to whole programs.  The       *)
(* inductive invariant then says that a running program is in the phase    *)
(* its place in the agenda calls for, or has an initLimeSDR() behind it    *)
(* that gave up, and a failing call before it.                             *)
(***************************************************************************)
EXTENDS LimeDevice, SequenceTheorems, TLAPS

Reactions == {"error", "return", "ignored"}
Survived  == {"error", "ignored"}

Functions == {"initLimeSDR", "initLimeGPIO", "set_HW", "initStreaming", "stopStreaming",
              "setFrequency", "setSamplingRate", "closeLimeSDR", "delete", "terminate", "main",
              "run"}

(* The words the calls are made of.                                        *)
Words == {"LMS_GetDeviceList", "LMS_Open", "LMS_Init", "LMS_EnableChannel",
          "LMS_SetLOFrequency", "LMS_SetSampleRate", "LMS_SetNormalizedGain", "LMS_Calibrate",
          "LMS_GPIODirWrite", "LMS_GPIODirRead", "LMS_GPIORead", "LMS_GPIOWrite",
          "LMS_SetupStream", "LMS_StartStream", "LMS_StopStream", "LMS_DestroyStream",
          "LMS_Close", "malloc", "free", "delete", "stopping", "std::thread",
          "while(SPECon)", "delete(t_sdr)", "return 0", "blocks", "rx", "tx"}

Step == [function : Functions, failures : SUBSET Reactions, call : Seq(Words)]

Prepared == ToSet(Preparation)

(* "running" is a stream that was started, or whose LMS_StartStream failed *)
(* and which is mute.                                                      *)
Phase == [device     : {"NULL", "open", "closed"},
          configured : SUBSET Prepared,
          stream     : [Direction -> {"none", "stopped", "running"}],
          buffer     : [Direction -> {"nullptr", "allocated", "freed"}],
          deleted    : BOOLEAN]

PhaseOf(device0, prepared, st, bf, gone) ==
  [device |-> device0, configured |-> prepared, stream |-> st, buffer |-> bf, deleted |-> gone]

IsReady(p) == p.device = "open" /\ p.configured = Prepared

(* Both streams run, where there are buffers for them.                     *)
Flowing(p) == \A d \in Direction : p.buffer[d] = "allocated" => p.stream[d] = "running"

(* Nothing is left to close or to free.                                    *)
Released(p) == p.device # "open" /\ \A d \in Direction : p.buffer[d] # "allocated"

-----------------------------------------------------------------------------
(* The calls, from one phase of their driver to the next.                  *)
Opens(call, p, q) ==
  /\ call = <<"LMS_Open">>
  /\ p.device = "NULL" /\ p.configured = {}
  /\ q = PhaseOf("open", p.configured, p.stream, p.buffer, p.deleted)

Configures(call, p, q) ==
  /\ call \in Prepared
  /\ p.device = "open"
  /\ q = PhaseOf(p.device, p.configured \cup {call}, p.stream, p.buffer, p.deleted)

Quiet == {"LMS_SetNormalizedGain", "LMS_Calibrate", "LMS_GPIODirWrite", "LMS_GPIODirRead",
          "LMS_GPIORead", "LMS_GPIOWrite"}

Silent == {"LMS_GetDeviceList", "stopping", "while(SPECon)", "delete(t_sdr)"}

Rests(call, p, q) ==
  /\ call[1] \in Silent \/ (call[1] \in Quiet /\ p.device = "open")
  /\ q = p

Turns(call, p, q, name, from, to) ==
  \E d \in Direction :
    /\ call = <<name, d>>
    /\ IsReady(p) /\ p.stream[d] = from
    /\ q = PhaseOf(p.device, p.configured, [p.stream EXCEPT ![d] = to], p.buffer, p.deleted)

Streams(call, p, q) ==
  \/ Turns(call, p, q, "LMS_SetupStream", "none", "stopped")
  \/ Turns(call, p, q, "LMS_StartStream", "stopped", "running")
  \/ Turns(call, p, q, "LMS_StopStream", "running", "stopped")
  \/ Turns(call, p, q, "LMS_DestroyStream", "stopped", "none")

Buffers(call, p, q, name, state) ==
  \E d \in Direction :
    /\ call = <<name, d>>
    /\ p.buffer[d] # "freed"
    /\ q = PhaseOf(p.device, p.configured, p.stream, [p.buffer EXCEPT ![d] = state], p.deleted)

Memories(call, p, q) ==
  \/ Buffers(call, p, q, "malloc", "allocated")
  \/ Buffers(call, p, q, "free", "freed")

Closes(call, p, q) ==
  /\ call = <<"LMS_Close">>
  /\ p.device = "open"
  /\ q = PhaseOf("closed", p.configured, [d \in Direction |-> "none"], p.buffer, p.deleted)

Deletes(call, p, q) ==
  /\ call = <<"delete">>
  /\ q = PhaseOf(p.device, p.configured, p.stream, p.buffer, TRUE)

(* The thread of the radio and run() of the PHY need both streams.         *)
Exchanges(call, p, q) ==
  /\ call \in {<<"std::thread">>, <<"blocks">>}
  /\ p.device = "open" /\ ~p.deleted
  /\ \A d \in Direction : p.stream[d] # "none" /\ p.buffer[d] = "allocated"
  /\ q = p

Makes(call, p, q) ==
  \/ Opens(call, p, q) \/ Configures(call, p, q) \/ Rests(call, p, q)
  \/ Streams(call, p, q) \/ Memories(call, p, q)
  \/ Closes(call, p, q) \/ Deletes(call, p, q)
  \/ Exchanges(call, p, q)

(* What the failures of a call may be, that the invariant survives them.   *)
Copes(step, p) ==
  /\ "ignored" \in step.failures => step.call[1] \in {"LMS_StartStream", "LMS_Calibrate"}
  /\ "return" \in step.failures =>
       step.call[1] = "LMS_GetDeviceList" /\ p.device = "NULL" /\ Flowing(p)

(* A call, and the phases "ph" before and after it; where a function ends, *)
(* the streams flow.                                                       *)
Passes(s, ph, i) ==
  /\ Makes(s[i].call, ph[i], ph[i + 1])
  /\ Copes(s[i], ph[i])
  /\ i > 1 /\ s[i - 1].function # s[i].function => Flowing(ph[i])

Reaches(p, s, q) ==
  /\ s \in Seq(Step)
  /\ \E ph \in [1 .. Len(s) + 1 -> Phase] :
       /\ ph[1] = p /\ ph[Len(s) + 1] = q
       /\ \A i \in 1 .. Len(s) : Passes(s, ph, i)

(* The calls that may fail into a return() are followed by a call that     *)
(* cannot but fail without a device, and before it comes nothing but the   *)
(* rest of their function.                                                 *)
Bails(s) ==
  \A i \in 1 .. Len(s) :
    "return" \in s[i].failures =>
      \E j \in i + 1 .. Len(s) :
        /\ s[j].function # s[i].function
        /\ \A k \in i .. j - 1 : s[k].function = s[i].function
        /\ s[j].failures = {"error"} /\ s[j].call[1] = "LMS_GPIODirWrite"

Leads(p, s, q) == Reaches(p, s, q) /\ Bails(s)

(* All the calls of one function.                                          *)
Only(f, s) == \A i \in 1 .. Len(s) : s[i].function = f

-----------------------------------------------------------------------------
(* One after the other: between the two the streams flow, or no function   *)
(* ends there.                                                             *)
LEMMA ReachesOn ==
  ASSUME NEW p, NEW q, NEW r, NEW s, NEW t,
         Reaches(p, s, q), Reaches(q, t, r),
         Flowing(q) \/ \E f : Only(f, s) /\ Only(f, t)
  PROVE  Reaches(p, s \o t, r)
<1> DEFINE u == s \o t
<1>1. s \in Seq(Step) /\ t \in Seq(Step)
  BY DEF Reaches
<1>2. PICK a \in [1 .. Len(s) + 1 -> Phase] :
        /\ a[1] = p /\ a[Len(s) + 1] = q
        /\ \A i \in 1 .. Len(s) : Passes(s, a, i)
  BY DEF Reaches
<1>3. PICK b \in [1 .. Len(t) + 1 -> Phase] :
        /\ b[1] = q /\ b[Len(t) + 1] = r
        /\ \A i \in 1 .. Len(t) : Passes(t, b, i)
  BY DEF Reaches
<1>4. /\ Len(s) \in Nat /\ Len(t) \in Nat
      /\ u \in Seq(Step) /\ Len(u) = Len(s) + Len(t)
      /\ \A i \in 1 .. Len(s) : u[i] = s[i]
      /\ \A i \in Len(s) + 1 .. Len(s) + Len(t) : u[i] = t[i - Len(s)]
  BY <1>1, ConcatProperties, LenProperties
<1> DEFINE c == [i \in 1 .. Len(u) + 1 |-> IF i <= Len(s) THEN a[i] ELSE b[i - Len(s)]]
<1>5. /\ c \in [1 .. Len(u) + 1 -> Phase]
      /\ \A i \in 1 .. Len(s) + 1 : c[i] = a[i]
      /\ \A i \in Len(s) + 1 .. Len(u) + 1 : c[i] = b[i - Len(s)]
  BY <1>2, <1>3, <1>4
<1> HIDE DEF c, u
<1>6. c[1] = p /\ c[Len(u) + 1] = r
  BY <1>2, <1>3, <1>4, <1>5
<1>7. ASSUME NEW i \in 1 .. Len(u) PROVE Passes(u, c, i)
  <2>1. CASE i <= Len(s)
    <3>1. i \in 1 .. Len(s) /\ i \in 1 .. Len(s) + 1 /\ i + 1 \in 1 .. Len(s) + 1
      BY <1>4, <2>1
    <3>2. u[i] = s[i] /\ c[i] = a[i] /\ c[i + 1] = a[i + 1]
      BY <1>4, <1>5, <3>1
    <3>3. i > 1 => u[i - 1] = s[i - 1]
      BY <1>4, <3>1
    <3> QED BY <1>2, <3>1, <3>2, <3>3 DEF Passes
  <2>2. CASE i = Len(s) + 1
    <3>1. u[i] = t[1] /\ c[i] = b[1] /\ c[i + 1] = b[2] /\ 1 \in 1 .. Len(t)
      BY <1>4, <1>5, <2>2
    <3>2. Makes(u[i].call, c[i], c[i + 1]) /\ Copes(u[i], c[i])
      BY <1>3, <3>1 DEF Passes
    <3>3. ASSUME i > 1, u[i - 1].function # u[i].function PROVE Flowing(c[i])
      <4>1. u[i - 1] = s[Len(s)] /\ Len(s) \in 1 .. Len(s)
        BY <1>4, <2>2, <3>3
      <4>2. ASSUME NEW f PROVE ~(Only(f, s) /\ Only(f, t))
        BY <4>1, <3>1, <3>3 DEF Only
      <4> QED BY <4>2, <3>1, <1>3
    <3> QED BY <3>2, <3>3 DEF Passes
  <2>3. CASE i > Len(s) + 1
    <3> DEFINE j == i - Len(s)
    <3>1. /\ j \in 1 .. Len(t) /\ j > 1
          /\ u[i] = t[j] /\ u[i - 1] = t[j - 1] /\ c[i] = b[j] /\ c[i + 1] = b[j + 1]
      <4>1. j \in 1 .. Len(t) /\ j > 1 /\ i \in Nat
        BY <1>4, <2>3
      <4>2. u[i] = t[j] /\ c[i] = b[j]
        BY <1>4, <1>5, <2>3
      <4>3. i - 1 - Len(s) = j - 1 /\ i + 1 - Len(s) = j + 1
        BY <1>4
      <4>4. i - 1 \in Len(s) + 1 .. Len(s) + Len(t) /\ i + 1 \in Len(s) + 1 .. Len(u) + 1
        BY <1>4, <2>3
      <4>5. u[i - 1] = t[i - 1 - Len(s)]
        BY <1>4, <4>4
      <4>6. c[i + 1] = b[i + 1 - Len(s)]
        BY <1>5, <4>4
      <4> QED BY <4>1, <4>2, <4>3, <4>5, <4>6
    <3> HIDE DEF j
    <3> QED BY <1>3, <3>1 DEF Passes
  <2> QED BY <1>4, <2>1, <2>2, <2>3
<1> QED BY <1>4, <1>5, <1>6, <1>7 DEF Reaches, u

LEMMA BailsConcat ==
  ASSUME NEW s \in Seq(Step), NEW t \in Seq(Step), Bails(s), Bails(t)
  PROVE  Bails(s \o t)
<1> DEFINE u == s \o t
<1>1. /\ Len(s) \in Nat /\ Len(t) \in Nat /\ Len(u) = Len(s) + Len(t)
      /\ \A i \in 1 .. Len(s) : u[i] = s[i]
      /\ \A i \in 1 .. Len(t) : u[Len(s) + i] = t[i]
  <2>1. /\ Len(s) \in Nat /\ Len(t) \in Nat /\ Len(u) = Len(s) + Len(t)
        /\ \A i \in 1 .. Len(s) + Len(t) : u[i] = IF i <= Len(s) THEN s[i] ELSE t[i - Len(s)]
    BY ConcatProperties, LenProperties
  <2> HIDE DEF u
  <2>2. ASSUME NEW i \in 1 .. Len(t) PROVE u[Len(s) + i] = t[i]
    <3>1. Len(s) + i \in 1 .. Len(s) + Len(t) /\ ~(Len(s) + i <= Len(s)) /\ Len(s) + i - Len(s) = i
      BY <2>1
    <3> QED BY <2>1, <3>1
  <2> QED BY <2>1, <2>2
<1> HIDE DEF u
<1>2. ASSUME NEW i \in 1 .. Len(s), "return" \in u[i].failures
      PROVE  \E j \in i + 1 .. Len(u) :
               /\ u[j].function # u[i].function
               /\ \A k \in i .. j - 1 : u[k].function = u[i].function
               /\ u[j].failures = {"error"} /\ u[j].call[1] = "LMS_GPIODirWrite"
  <2>1. PICK j \in i + 1 .. Len(s) :
               /\ s[j].function # s[i].function
               /\ \A k \in i .. j - 1 : s[k].function = s[i].function
               /\ s[j].failures = {"error"} /\ s[j].call[1] = "LMS_GPIODirWrite"
    BY <1>1, <1>2 DEF Bails
  <2>2. j \in i + 1 .. Len(u) /\ u[j] = s[j] /\ u[i] = s[i]
    BY <1>1
  <2>3. \A k \in i .. j - 1 : u[k] = s[k]
    BY <1>1
  <2> QED BY <2>1, <2>2, <2>3
<1>3. ASSUME NEW i \in 1 .. Len(t), "return" \in u[Len(s) + i].failures
      PROVE  \E j \in Len(s) + i + 1 .. Len(u) :
               /\ u[j].function # u[Len(s) + i].function
               /\ \A k \in Len(s) + i .. j - 1 : u[k].function = u[Len(s) + i].function
               /\ u[j].failures = {"error"} /\ u[j].call[1] = "LMS_GPIODirWrite"
  <2>1. PICK j \in i + 1 .. Len(t) :
               /\ t[j].function # t[i].function
               /\ \A k \in i .. j - 1 : t[k].function = t[i].function
               /\ t[j].failures = {"error"} /\ t[j].call[1] = "LMS_GPIODirWrite"
    BY <1>1, <1>3 DEF Bails
  <2>2. Len(s) + j \in Len(s) + i + 1 .. Len(u) /\ u[Len(s) + j] = t[j] /\ u[Len(s) + i] = t[i]
    BY <1>1
  <2>3. ASSUME NEW k \in Len(s) + i .. Len(s) + j - 1 PROVE u[k].function = t[i].function
    <3>1. k - Len(s) \in i .. j - 1 /\ k - Len(s) \in 1 .. Len(t) /\ Len(s) + (k - Len(s)) = k
      BY <1>1
    <3>2. u[Len(s) + (k - Len(s))] = t[k - Len(s)]
      BY <1>1, <3>1
    <3> QED BY <2>1, <3>1, <3>2
  <2> DEFINE m == Len(s) + j
  <2>4. /\ m \in Len(s) + i + 1 .. Len(u) /\ u[m].function # u[Len(s) + i].function
        /\ \A k \in Len(s) + i .. m - 1 : u[k].function = u[Len(s) + i].function
        /\ u[m].failures = {"error"} /\ u[m].call[1] = "LMS_GPIODirWrite"
    BY <2>1, <2>2, <2>3
  <2> HIDE DEF m
  <2> QED BY <2>4
<1>4. ASSUME NEW i \in 1 .. Len(u) PROVE i \in 1 .. Len(s) \/ \E k \in 1 .. Len(t) : i = Len(s) + k
  <2>1. CASE i > Len(s)
    <3>1. i - Len(s) \in 1 .. Len(t) /\ i = Len(s) + (i - Len(s))
      BY <1>1, <2>1
    <3> QED BY <3>1
  <2> QED BY <1>1, <2>1
<1>5. ASSUME NEW i \in 1 .. Len(u), "return" \in u[i].failures
      PROVE  \E j \in i + 1 .. Len(u) :
               /\ u[j].function # u[i].function
               /\ \A k \in i .. j - 1 : u[k].function = u[i].function
               /\ u[j].failures = {"error"} /\ u[j].call[1] = "LMS_GPIODirWrite"
  <2>1. CASE i \in 1 .. Len(s)
    BY <2>1, <1>2, <1>5
  <2>2. CASE \E k \in 1 .. Len(t) : i = Len(s) + k
    BY <2>2, <1>3, <1>5
  <2> QED BY <2>1, <2>2, <1>4
<1> QED BY <1>5 DEF Bails, u

LEMMA Compose ==
  ASSUME NEW p, NEW q, NEW r, NEW s, NEW t,
         Leads(p, s, q), Leads(q, t, r),
         Flowing(q) \/ \E f : Only(f, s) /\ Only(f, t)
  PROVE  Leads(p, s \o t, r)
<1>1. Reaches(p, s \o t, r)
  BY ReachesOn DEF Leads
<1>2. Bails(s \o t)
  BY BailsConcat DEF Leads, Reaches
<1> QED BY <1>1, <1>2 DEF Leads

(* A function over 1 .. n is a sequence.                                   *)
LEMMA FunctionIsSeq ==
  ASSUME NEW S, NEW n \in Nat, NEW s \in [1 .. n -> S]
  PROVE  s \in Seq(S) /\ Len(s) = n
<1>1. s \in Seq(S)
  BY SeqDef
<1>2. Len(s) \in Nat /\ DOMAIN s = 1 .. Len(s) /\ DOMAIN s = 1 .. n
  BY <1>1, LenProperties
<1>3. \A m \in Nat : 1 .. m = 1 .. n => m = n
  OBVIOUS
<1> QED BY <1>1, <1>2, <1>3

(* The calls of Steps, one by one.                                         *)
LEMMA StepsAre ==
  ASSUME NEW f \in Functions, NEW failures \in SUBSET Reactions, NEW calls \in Seq(Seq(Words))
  PROVE  /\ Steps(f, failures, calls) \in Seq(Step)
         /\ Len(Steps(f, failures, calls)) = Len(calls)
         /\ \A i \in 1 .. Len(calls) :
              /\ Steps(f, failures, calls)[i].function = f
              /\ Steps(f, failures, calls)[i].failures = failures
              /\ Steps(f, failures, calls)[i].call = calls[i]
<1>1. DOMAIN calls = 1 .. Len(calls) /\ Len(calls) \in Nat
      /\ \A i \in 1 .. Len(calls) : calls[i] \in Seq(Words)
  BY LenProperties, ElementOfSeq
<1>2. Steps(f, failures, calls) \in [1 .. Len(calls) -> Step]
  BY <1>1 DEF Steps, Step
<1>3. Steps(f, failures, calls) \in Seq(Step) /\ Len(Steps(f, failures, calls)) = Len(calls)
  BY <1>1, <1>2, FunctionIsSeq, Zenon
<1> QED BY <1>1, <1>3 DEF Steps

(* The calls of one function, with the phases between them.                *)
LEMMA CallsReach ==
  ASSUME NEW f \in Functions, NEW failures \in SUBSET Reactions, NEW calls \in Seq(Seq(Words)),
         NEW ph \in [1 .. Len(calls) + 1 -> Phase],
         \A i \in 1 .. Len(calls) :
           /\ Makes(calls[i], ph[i], ph[i + 1])
           /\ Copes([function |-> f, failures |-> failures, call |-> calls[i]], ph[i])
  PROVE  Reaches(ph[1], Steps(f, failures, calls), ph[Len(calls) + 1])
<1> DEFINE s == Steps(f, failures, calls)
<1>1. /\ s \in Seq(Step) /\ Len(s) = Len(calls)
      /\ \A i \in 1 .. Len(s) : /\ s[i].function = f /\ s[i].failures = failures
                                /\ s[i].call = calls[i]
  BY StepsAre
<1> HIDE DEF s
<1>2. ASSUME NEW i \in 1 .. Len(s) PROVE Passes(s, ph, i)
  <2>1. Copes(s[i], ph[i])
    BY <1>1 DEF Copes
  <2>2. i > 1 => s[i - 1].function = s[i].function
    BY <1>1
  <2> QED BY <1>1, <2>1, <2>2 DEF Passes
<1> QED BY <1>1, <1>2 DEF Reaches, s

LEMMA Calls ==
  ASSUME NEW f \in Functions, NEW failures \in SUBSET Survived, NEW calls \in Seq(Seq(Words)),
         NEW ph \in [1 .. Len(calls) + 1 -> Phase],
         \A i \in 1 .. Len(calls) :
           /\ Makes(calls[i], ph[i], ph[i + 1])
           /\ Copes([function |-> f, failures |-> failures, call |-> calls[i]], ph[i])
  PROVE  Leads(ph[1], Steps(f, failures, calls), ph[Len(calls) + 1])
<1>1. failures \in SUBSET Reactions /\ "return" \notin failures
  BY DEF Survived, Reactions
<1>2. Reaches(ph[1], Steps(f, failures, calls), ph[Len(calls) + 1])
  BY <1>1, CallsReach
<1>3. Bails(Steps(f, failures, calls))
  BY <1>1, StepsAre DEF Bails
<1> QED BY <1>2, <1>3 DEF Leads

LEMMA OneCall ==
  ASSUME NEW f \in Functions, NEW failures \in SUBSET Survived, NEW a \in Seq(Words),
         NEW p \in Phase, NEW q \in Phase, Makes(a, p, q),
         Copes([function |-> f, failures |-> failures, call |-> a], p)
  PROVE  Leads(p, Steps(f, failures, <<a>>), q)
<1> DEFINE calls == <<a>>
           ph == <<p, q>>
<1>1. /\ calls \in Seq(Seq(Words)) /\ Len(calls) = 1 /\ calls[1] = a
      /\ ph \in [1 .. 2 -> Phase] /\ ph[1] = p /\ ph[2] = q
  OBVIOUS
<1> HIDE DEF calls, ph
<1>2. \A i \in 1 .. Len(calls) :
        /\ Makes(calls[i], ph[i], ph[i + 1])
        /\ Copes([function |-> f, failures |-> failures, call |-> calls[i]], ph[i])
  BY <1>1
<1>3. Leads(ph[1], Steps(f, failures, calls), ph[Len(calls) + 1])
  <2>1. ph \in [1 .. Len(calls) + 1 -> Phase]
    BY <1>1
  <2> QED BY <1>1, <1>2, <2>1, Calls
<1> QED BY <1>1, <1>3 DEF calls

LEMMA TwoCalls ==
  ASSUME NEW f \in Functions, NEW failures \in SUBSET Survived,
         NEW a \in Seq(Words), NEW b \in Seq(Words),
         NEW p \in Phase, NEW q \in Phase, NEW r \in Phase,
         Makes(a, p, q), Copes([function |-> f, failures |-> failures, call |-> a], p),
         Makes(b, q, r), Copes([function |-> f, failures |-> failures, call |-> b], q)
  PROVE  Leads(p, Steps(f, failures, <<a, b>>), r)
<1> DEFINE calls == <<a, b>>
           ph == <<p, q, r>>
<1>1. /\ calls \in Seq(Seq(Words)) /\ Len(calls) = 2 /\ calls[1] = a /\ calls[2] = b
      /\ ph \in [1 .. 3 -> Phase] /\ ph[1] = p /\ ph[2] = q /\ ph[3] = r
  OBVIOUS
<1> HIDE DEF calls, ph
<1>2. \A i \in 1 .. Len(calls) :
        /\ Makes(calls[i], ph[i], ph[i + 1])
        /\ Copes([function |-> f, failures |-> failures, call |-> calls[i]], ph[i])
  <2>1. 1 .. Len(calls) = {1, 2}
    BY <1>1
  <2> QED BY <1>1, <2>1
<1>3. Leads(ph[1], Steps(f, failures, calls), ph[Len(calls) + 1])
  <2>1. ph \in [1 .. Len(calls) + 1 -> Phase]
    BY <1>1
  <2> QED BY <1>1, <1>2, <2>1, Calls
<1> QED BY <1>1, <1>3 DEF calls

LEMMA ThreeCalls ==
  ASSUME NEW f \in Functions, NEW failures \in SUBSET Survived,
         NEW a \in Seq(Words), NEW b \in Seq(Words), NEW c \in Seq(Words),
         NEW p \in Phase, NEW q \in Phase, NEW r \in Phase, NEW u \in Phase,
         Makes(a, p, q), Copes([function |-> f, failures |-> failures, call |-> a], p),
         Makes(b, q, r), Copes([function |-> f, failures |-> failures, call |-> b], q),
         Makes(c, r, u), Copes([function |-> f, failures |-> failures, call |-> c], r)
  PROVE  Leads(p, Steps(f, failures, <<a, b, c>>), u)
<1> DEFINE calls == <<a, b, c>>
           ph == <<p, q, r, u>>
<1>1. /\ calls \in Seq(Seq(Words)) /\ Len(calls) = 3
      /\ calls[1] = a /\ calls[2] = b /\ calls[3] = c
      /\ ph \in [1 .. 4 -> Phase] /\ ph[1] = p /\ ph[2] = q /\ ph[3] = r /\ ph[4] = u
  OBVIOUS
<1> HIDE DEF calls, ph
<1>2. \A i \in 1 .. Len(calls) :
        /\ Makes(calls[i], ph[i], ph[i + 1])
        /\ Copes([function |-> f, failures |-> failures, call |-> calls[i]], ph[i])
  <2>1. 1 .. Len(calls) = {1, 2, 3}
    BY <1>1
  <2> QED BY <1>1, <2>1
<1>3. Leads(ph[1], Steps(f, failures, calls), ph[Len(calls) + 1])
  <2>1. ph \in [1 .. Len(calls) + 1 -> Phase]
    BY <1>1
  <2> QED BY <1>1, <1>2, <2>1, Calls
<1> QED BY <1>1, <1>3 DEF calls

(* Calls that leave the phase as it is.                                    *)
LEMMA QuietCalls ==
  ASSUME NEW f \in Functions, NEW failures \in SUBSET Survived,
         NEW calls \in Seq(Seq(Words)), NEW p \in Phase, p.device = "open",
         \A i \in 1 .. Len(calls) : calls[i][1] \in Quiet,
         "ignored" \in failures => \A i \in 1 .. Len(calls) : calls[i][1] = "LMS_Calibrate"
  PROVE  Leads(p, Steps(f, failures, calls), p)
<1> DEFINE ph == [i \in 1 .. Len(calls) + 1 |-> p]
<1>1. /\ failures \in SUBSET Survived /\ Len(calls) \in Nat
      /\ ph \in [1 .. Len(calls) + 1 -> Phase] /\ \A i \in 1 .. Len(calls) + 1 : ph[i] = p
  OBVIOUS
<1> HIDE DEF ph
<1>2. \A i \in 1 .. Len(calls) :
        /\ Makes(calls[i], ph[i], ph[i + 1])
        /\ Copes([function |-> f, failures |-> failures, call |-> calls[i]], ph[i])
  <2> TAKE i \in 1 .. Len(calls)
  <2>1. ph[i] = p /\ ph[i + 1] = p
    BY <1>1
  <2>2. Makes(calls[i], p, p)
    BY DEF Makes, Rests
  <2>3. Copes([function |-> f, failures |-> failures, call |-> calls[i]], p)
    BY DEF Copes, Survived
  <2> QED BY <2>1, <2>2, <2>3
<1>3. Leads(ph[1], Steps(f, failures, calls), ph[Len(calls) + 1])
  BY <1>1, <1>2, Calls
<1> QED BY <1>1, <1>3

LEMMA OnlySteps ==
  ASSUME NEW f \in Functions, NEW failures \in SUBSET Reactions, NEW calls \in Seq(Seq(Words))
  PROVE  Only(f, Steps(f, failures, calls))
BY StepsAre DEF Only

LEMMA OnlyConcat ==
  ASSUME NEW f, NEW s \in Seq(Step), NEW t \in Seq(Step), Only(f, s), Only(f, t)
  PROVE  Only(f, s \o t)
<1>1. /\ Len(s) \in Nat /\ Len(t) \in Nat /\ Len(s \o t) = Len(s) + Len(t)
      /\ \A i \in 1 .. Len(s) + Len(t) : (s \o t)[i] = IF i <= Len(s) THEN s[i] ELSE t[i - Len(s)]
  BY ConcatProperties, LenProperties
<1> QED BY <1>1 DEF Only

-----------------------------------------------------------------------------
(* The phases of a driver on its way.                                      *)
Both(x) == [d \in Direction |-> x]

Fresh     == PhaseOf("NULL", {}, Both("none"), Both("nullptr"), FALSE)
Opened(n) == PhaseOf("open", {Preparation[i] : i \in 1 .. n}, Both("none"), Both("nullptr"), FALSE)
Working(st, bf) == PhaseOf("open", Prepared, st, bf, FALSE)

Ready     == Working(Both("none"), Both("nullptr"))
Receiving == Working(Both("running"), Both("allocated"))
Paused    == Working(Both("stopped"), Both("allocated"))
Torn      == Working(Both("none"), Both("freed"))
Shut      == PhaseOf("closed", Prepared, Both("none"), Both("freed"), FALSE)
Gone      == PhaseOf("closed", Prepared, Both("none"), Both("freed"), TRUE)

StreamStates == {"none", "stopped", "running"}
BufferStates == {"nullptr", "allocated", "freed"}

LEMMA PhasesAreTyped ==
  /\ Fresh \in Phase /\ Ready \in Phase /\ Receiving \in Phase /\ Paused \in Phase
  /\ Torn \in Phase
  /\ Shut \in Phase /\ Gone \in Phase
  /\ \A st \in [Direction -> StreamStates], bf \in [Direction -> BufferStates] :
       Working(st, bf) \in Phase
BY DEF Fresh, Ready, Receiving, Paused, Torn, Shut, Gone, Working, PhaseOf, Both, Phase, StreamStates,
       BufferStates

LEMMA PhasesFlow ==
  Flowing(Fresh) /\ Flowing(Ready) /\ Flowing(Receiving) /\ Flowing(Torn) /\ Flowing(Shut)
  /\ Flowing(Gone) /\ Released(Gone) /\ Released(Fresh)
BY DEF Flowing, Released, Fresh, Ready, Receiving, Torn, Shut, Gone, Working, PhaseOf, Both

LEMMA Pairs ==
  ASSUME NEW S, NEW x \in S, NEW y \in S
  PROVE  <<x>> \in Seq(S) /\ <<x, y>> \in Seq(S)
OBVIOUS

LEMMA Names ==
  /\ \A x \in Words : <<x>> \in Seq(Words)
  /\ \A x, y \in Words : <<x, y>> \in Seq(Words)
BY Pairs

(* Preparation, and the names of its calls.                                *)
LEMMA Preparations ==
  /\ Len(Preparation) = 6 /\ Preparation \in Seq(Seq(Words))
  /\ Prepared = {Preparation[i] : i \in 1 .. 6}
  /\ \A call \in Prepared :
       call[1] \in {"LMS_Init", "LMS_EnableChannel", "LMS_SetLOFrequency", "LMS_SetSampleRate"}
  /\ <<"LMS_SetSampleRate">> \in Prepared
  /\ \A d \in Direction : <<"LMS_SetLOFrequency", d>> \in Prepared
<1>1. Preparation \in Seq(Seq(Words)) /\ Len(Preparation) = 6
  <2> DEFINE a == <<"LMS_Init">>
             b == <<"LMS_EnableChannel", "rx">>
             c == <<"LMS_SetLOFrequency", "rx">>
             d == <<"LMS_EnableChannel", "tx">>
             e == <<"LMS_SetLOFrequency", "tx">>
             f == <<"LMS_SetSampleRate">>
  <2>1. a \in Seq(Words) /\ b \in Seq(Words) /\ c \in Seq(Words)
    BY Names DEF Words
  <2>3. d \in Seq(Words) /\ e \in Seq(Words) /\ f \in Seq(Words)
    BY Names DEF Words
  <2>2. Preparation = <<a, b, c, d, e, f>>
    BY DEF Preparation
  <2> HIDE DEF a, b, c, d, e, f
  <2> QED BY <2>1, <2>2, <2>3
<1>2. Prepared = {Preparation[i] : i \in 1 .. 6}
  BY <1>1, LenProperties DEF Prepared, ToSet
<1>3. 1 .. 6 = {1, 2, 3, 4, 5, 6}
  OBVIOUS
<1>4. Prepared = { <<"LMS_Init">>, <<"LMS_EnableChannel", "rx">>, <<"LMS_SetLOFrequency", "rx">>,
                   <<"LMS_EnableChannel", "tx">>, <<"LMS_SetLOFrequency", "tx">>,
                   <<"LMS_SetSampleRate">> }
  BY <1>2, <1>3 DEF Preparation
<1>5. \A call \in Prepared :
        call[1] \in {"LMS_Init", "LMS_EnableChannel", "LMS_SetLOFrequency", "LMS_SetSampleRate"}
  BY <1>4
<1>6. <<"LMS_SetSampleRate">> \in Prepared
  BY <1>4
<1>7. ASSUME NEW d \in Direction PROVE <<"LMS_SetLOFrequency", d>> \in Prepared
  BY <1>4 DEF Direction
<1> QED BY <1>1, <1>2, <1>5, <1>6, <1>7

(* A call that fails, if at all, into error().                             *)
LEMMA ErrorCopes ==
  ASSUME NEW f, NEW a, NEW p, NEW failures, failures \subseteq {"error"}
  PROVE  Copes([function |-> f, failures |-> failures, call |-> a], p)
BY DEF Copes

(* The pins, the gain and the calibration: the phase stays.                *)
LEMMA Pins ==
  ASSUME NEW p \in Phase, p.device = "open"
  PROVE  /\ Leads(p, setPins, p) /\ Leads(p, writePins, p) /\ Leads(p, initLimeGPIO, p)
         /\ Leads(p, Checked("initLimeSDR", << <<"LMS_SetNormalizedGain">> >>), p)
         /\ Leads(p, Logged("initLimeSDR", << <<"LMS_Calibrate">> >>), p)
<1>1. Leads(p, setPins, p)
  <2> DEFINE calls == << <<"LMS_GPIORead">>, <<"LMS_GPIOWrite">>, <<"LMS_GPIORead">> >>
  <2>1. calls \in Seq(Seq(Words)) /\ \A i \in 1 .. Len(calls) : calls[i][1] \in Quiet
    <3>1. <<"LMS_GPIORead">> \in Seq(Words) /\ <<"LMS_GPIOWrite">> \in Seq(Words)
      BY Names DEF Words
    <3>2. 1 .. Len(calls) = {1, 2, 3}
      OBVIOUS
    <3> QED BY <3>1, <3>2 DEF Quiet
  <2> HIDE DEF calls
  <2>2. Leads(p, Steps("set_HW", {"error"}, calls), p)
    BY <2>1, QuietCalls DEF Functions, Survived
  <2> QED BY <2>2 DEF setPins, Checked, calls
<1>2. Leads(p, writePins, p)
  <2> DEFINE calls == << <<"LMS_GPIOWrite">>, <<"LMS_GPIORead">> >>
  <2>1. calls \in Seq(Seq(Words)) /\ \A i \in 1 .. Len(calls) : calls[i][1] \in Quiet
    <3>1. <<"LMS_GPIORead">> \in Seq(Words) /\ <<"LMS_GPIOWrite">> \in Seq(Words)
      BY Names DEF Words
    <3>2. 1 .. Len(calls) = {1, 2}
      OBVIOUS
    <3> QED BY <3>1, <3>2 DEF Quiet
  <2> HIDE DEF calls
  <2>2. Leads(p, Steps("set_HW", {"error"}, calls), p)
    BY <2>1, QuietCalls DEF Functions, Survived
  <2> QED BY <2>2 DEF writePins, Checked, calls
<1>3. Leads(p, initLimeGPIO, p)
  <2> DEFINE calls == << <<"LMS_GPIODirWrite">>, <<"LMS_GPIODirRead">> >>
  <2>1. calls \in Seq(Seq(Words)) /\ \A i \in 1 .. Len(calls) : calls[i][1] \in Quiet
    <3>1. <<"LMS_GPIODirRead">> \in Seq(Words) /\ <<"LMS_GPIODirWrite">> \in Seq(Words)
      BY Names DEF Words
    <3>2. 1 .. Len(calls) = {1, 2}
      OBVIOUS
    <3> QED BY <3>1, <3>2 DEF Quiet
  <2> HIDE DEF calls
  <2>2. Leads(p, Steps("initLimeGPIO", {"error"}, calls), p)
    BY <2>1, QuietCalls DEF Functions, Survived
  <2> QED BY <2>2 DEF initLimeGPIO, Checked, calls
<1>4. Leads(p, Checked("initLimeSDR", << <<"LMS_SetNormalizedGain">> >>), p)
  <2>1. /\ <<"LMS_SetNormalizedGain">> \in Seq(Words) /\ {"error"} \in SUBSET Survived
        /\ "initLimeSDR" \in Functions
    BY Names DEF Words, Survived, Functions
  <2>2. Makes(<<"LMS_SetNormalizedGain">>, p, p)
    BY DEF Makes, Rests, Quiet
  <2> QED BY <2>1, <2>2, OneCall, ErrorCopes DEF Checked
<1>5. Leads(p, Logged("initLimeSDR", << <<"LMS_Calibrate">> >>), p)
  <2>1. /\ <<"LMS_Calibrate">> \in Seq(Words) /\ {"ignored"} \in SUBSET Survived
        /\ "initLimeSDR" \in Functions
    BY Names DEF Words, Survived, Functions
  <2>2. Makes(<<"LMS_Calibrate">>, p, p)
    BY DEF Makes, Rests, Quiet
  <2>3. Copes([function |-> "initLimeSDR", failures |-> {"ignored"},
               call |-> <<"LMS_Calibrate">>], p)
    BY DEF Copes
  <2> QED BY <2>1, <2>2, <2>3, OneCall DEF Logged
<1> QED BY <1>1, <1>2, <1>3, <1>4, <1>5

(* initLimeSDR(): from no device to one that is ready for its streams.     *)
LEMMA FindsAndOpens == Reaches(Fresh, findAndOpen, Ready)
<1> DEFINE find  == Steps("initLimeSDR", {"error", "return"}, << <<"LMS_GetDeviceList">> >>)
           calls == << <<"LMS_Open">> >> \o Preparation
           ph    == [i \in 1 .. 8 |-> IF i = 1 THEN Fresh ELSE Opened(i - 2)]
<1>1. Reaches(Fresh, find, Fresh)
  <2>1. /\ <<"LMS_GetDeviceList">> \in Seq(Words) /\ {"error", "return"} \in SUBSET Reactions
        /\ "initLimeSDR" \in Functions
    BY Names DEF Words, Reactions, Functions
  <2>2. Makes(<<"LMS_GetDeviceList">>, Fresh, Fresh)
    BY DEF Makes, Rests, Silent
  <2>3. Copes([function |-> "initLimeSDR", failures |-> {"error", "return"},
               call |-> <<"LMS_GetDeviceList">>], Fresh)
    BY PhasesFlow DEF Copes, Fresh, PhaseOf
  <2> DEFINE calls1 == << <<"LMS_GetDeviceList">> >>
             ph1 == <<Fresh, Fresh>>
  <2>4. /\ calls1 \in Seq(Seq(Words)) /\ Len(calls1) = 1 /\ calls1[1] = <<"LMS_GetDeviceList">>
        /\ ph1 \in [1 .. 2 -> Phase] /\ ph1[1] = Fresh /\ ph1[2] = Fresh
    BY <2>1, PhasesAreTyped
  <2> HIDE DEF calls1, ph1
  <2>5. ph1 \in [1 .. Len(calls1) + 1 -> Phase] /\ 1 .. Len(calls1) = {1}
    BY <2>4
  <2>6. \A i \in 1 .. Len(calls1) :
          /\ Makes(calls1[i], ph1[i], ph1[i + 1])
          /\ Copes([function |-> "initLimeSDR", failures |-> {"error", "return"},
                    call |-> calls1[i]], ph1[i])
    <3> TAKE i \in 1 .. Len(calls1)
    <3>1. i = 1 /\ i + 1 = 2
      BY <2>5
    <3>2. /\ calls1[i] = <<"LMS_GetDeviceList">> /\ ph1[i] = Fresh /\ ph1[i + 1] = Fresh
      BY <3>1, <2>4
    <3> QED BY <3>2, <2>2, <2>3
  <2>7. Reaches(ph1[1], Steps("initLimeSDR", {"error", "return"}, calls1), ph1[Len(calls1) + 1])
    BY <2>1, <2>4, <2>5, <2>6, CallsReach
  <2> QED BY <2>4, <2>7 DEF calls1
<1>2. /\ calls \in Seq(Seq(Words)) /\ Len(calls) = 7 /\ calls[1] = <<"LMS_Open">>
      /\ \A i \in 2 .. 7 : calls[i] = Preparation[i - 1]
  <2> DEFINE one == << <<"LMS_Open">> >>
  <2>1. one \in Seq(Seq(Words)) /\ Len(one) = 1 /\ one[1] = <<"LMS_Open">>
    <3>1. <<"LMS_Open">> \in Seq(Words)
      BY Names DEF Words
    <3> QED BY <3>1
  <2> HIDE DEF one
  <2>2. /\ one \o Preparation \in Seq(Seq(Words)) /\ Len(one \o Preparation) = 7
        /\ \A i \in 1 .. 7 : (one \o Preparation)[i] = IF i <= 1 THEN one[i] ELSE Preparation[i - 1]
    <3>1. Preparation \in Seq(Seq(Words)) /\ Len(Preparation) = 6
      BY Preparations
    <3> HIDE DEF Preparation
    <3>2. /\ one \o Preparation \in Seq(Seq(Words))
          /\ Len(one \o Preparation) = Len(one) + Len(Preparation)
          /\ \A i \in 1 .. Len(one) + Len(Preparation) : (one \o Preparation)[i] =
               IF i <= Len(one) THEN one[i] ELSE Preparation[i - Len(one)]
      BY <2>1, <3>1, ConcatProperties
    <3>3. Len(one) + Len(Preparation) = 7 /\ Len(one) = 1
      BY <2>1, <3>1
    <3> QED BY <3>2, <3>3
  <2>3. calls = one \o Preparation
    BY DEF one
  <2>4. 1 \in 1 .. 7 /\ 1 <= 1 /\ \A i \in 2 .. 7 : i \in 1 .. 7 /\ ~(i <= 1)
    OBVIOUS
  <2> HIDE DEF calls
  <2> QED BY <2>1, <2>2, <2>3, <2>4
<1>3. \A n \in 0 .. 6 : /\ Opened(n) \in Phase /\ Opened(n).device = "open"
                        /\ Opened(n).configured = {Preparation[i] : i \in 1 .. n}
  <2>1. \A n \in 0 .. 6 : {Preparation[i] : i \in 1 .. n} \in SUBSET Prepared
    BY Preparations
  <2> QED BY <2>1 DEF Opened, PhaseOf, Phase, Both
<1>4. Makes(<<"LMS_Open">>, Fresh, Opened(0))
  <2>1. Opened(0) = PhaseOf("open", {}, Fresh.stream, Fresh.buffer, Fresh.deleted)
    <3>1. {Preparation[i] : i \in 1 .. 0} = {}
      OBVIOUS
    <3> QED BY <3>1 DEF Opened, Fresh, PhaseOf
  <2>2. Fresh.device = "NULL" /\ Fresh.configured = {}
    BY DEF Fresh, PhaseOf
  <2> QED BY <2>1, <2>2 DEF Makes, Opens
<1>5. ASSUME NEW n \in 1 .. 6 PROVE Makes(Preparation[n], Opened(n - 1), Opened(n))
  <2>1. Preparation[n] \in Prepared
    BY Preparations
  <2>2. {Preparation[i] : i \in 1 .. n} = {Preparation[i] : i \in 1 .. n - 1} \cup {Preparation[n]}
    OBVIOUS
  <2> DEFINE p == Opened(n - 1)
  <2>3. Opened(n) = PhaseOf(p.device, p.configured \cup {Preparation[n]}, p.stream, p.buffer,
                            p.deleted)
    BY <2>2 DEF Opened, PhaseOf
  <2>4. p.device = "open"
    BY <1>3
  <2> QED BY <2>1, <2>3, <2>4 DEF Makes, Configures
<1>6. /\ ph \in [1 .. 8 -> Phase] /\ ph[1] = Fresh /\ ph[8] = Opened(6)
      /\ \A i \in 2 .. 8 : ph[i] = Opened(i - 2)
  <2>1. \A i \in 2 .. 8 : i - 2 \in 0 .. 6 /\ i # 1
    OBVIOUS
  <2> HIDE DEF Opened, Fresh
  <2> QED BY <2>1, <1>3, PhasesAreTyped
<1>7. Opened(6) = Ready
  <2>1. {Preparation[i] : i \in 1 .. 6} = Prepared
    BY Preparations
  <2> QED BY <2>1 DEF Opened, Ready, Working
<1> HIDE DEF ph
<1>8. Reaches(ph[1], Steps("initLimeSDR", {"error"}, calls), ph[Len(calls) + 1])
  <2> HIDE DEF calls
  <2>1. ASSUME NEW i \in 1 .. Len(calls) PROVE Makes(calls[i], ph[i], ph[i + 1])
    <3>1. CASE i = 1
      <4>1. ph[2] = Opened(0)
        BY <1>6
      <4> QED BY <3>1, <4>1, <1>2, <1>4, <1>6
    <3>2. CASE i \in 2 .. 7
      <4>1. i - 1 \in 1 .. 6 /\ i - 1 - 1 = i - 2 /\ i + 1 \in 2 .. 8 /\ i + 1 - 2 = i - 1
        BY <3>2
      <4>2. Makes(Preparation[i - 1], Opened(i - 2), Opened(i - 1))
        BY <4>1, <1>5
      <4>3. ph[i] = Opened(i - 2) /\ ph[i + 1] = Opened(i - 1)
        BY <4>1, <3>2, <1>6
      <4> QED BY <3>2, <4>2, <4>3, <1>2
    <3> QED BY <1>2, <3>1, <3>2
  <2>2. ph \in [1 .. Len(calls) + 1 -> Phase]
    BY <1>2, <1>6
  <2>3. "initLimeSDR" \in Functions /\ {"error"} \in SUBSET Reactions
    BY DEF Functions, Reactions
  <2> QED BY <1>2, <2>1, <2>2, <2>3, CallsReach, ErrorCopes
<1>9. Reaches(Fresh, Checked("initLimeSDR", calls), Ready)
  BY <1>2, <1>6, <1>7, <1>8 DEF Checked
<1> QED BY <1>1, <1>9, ReachesOn, PhasesFlow DEF findAndOpen

(* The four calls of a stream and the two of its buffer, on a driver that  *)
(* is ready.                                                               *)
LEMMA StreamMakes ==
  ASSUME NEW st \in [Direction -> StreamStates], NEW bf \in [Direction -> BufferStates],
         NEW d \in Direction
  PROVE  /\ st[d] = "none" => Makes(<<"LMS_SetupStream", d>>, Working(st, bf),
                                    Working([st EXCEPT ![d] = "stopped"], bf))
         /\ st[d] = "stopped" => Makes(<<"LMS_StartStream", d>>, Working(st, bf),
                                       Working([st EXCEPT ![d] = "running"], bf))
         /\ st[d] = "running" => Makes(<<"LMS_StopStream", d>>, Working(st, bf),
                                       Working([st EXCEPT ![d] = "stopped"], bf))
         /\ st[d] = "stopped" => Makes(<<"LMS_DestroyStream", d>>, Working(st, bf),
                                       Working([st EXCEPT ![d] = "none"], bf))
         /\ bf[d] # "freed" => Makes(<<"malloc", d>>, Working(st, bf),
                                     Working(st, [bf EXCEPT ![d] = "allocated"]))
         /\ bf[d] # "freed" => Makes(<<"free", d>>, Working(st, bf),
                                     Working(st, [bf EXCEPT ![d] = "freed"]))
<1> DEFINE p == Working(st, bf)
<1>1. /\ p.device = "open" /\ p.configured = Prepared /\ p.stream = st /\ p.buffer = bf
      /\ p.deleted = FALSE /\ IsReady(p)
  BY DEF Working, PhaseOf, IsReady
<1>2. /\ \A x : Working([st EXCEPT ![d] = x], bf)
               = PhaseOf(p.device, p.configured, [p.stream EXCEPT ![d] = x], p.buffer, p.deleted)
      /\ \A x : Working(st, [bf EXCEPT ![d] = x])
               = PhaseOf(p.device, p.configured, p.stream, [p.buffer EXCEPT ![d] = x], p.deleted)
  BY <1>1 DEF Working
<1> HIDE DEF p
<1>3. \A name, from, to :
        st[d] = from => Turns(<<name, d>>, p, Working([st EXCEPT ![d] = to], bf), name, from, to)
  BY <1>1, <1>2 DEF Turns
<1>4. \A name, state :
        bf[d] # "freed" => Buffers(<<name, d>>, p, Working(st, [bf EXCEPT ![d] = state]), name, state)
  BY <1>1, <1>2 DEF Buffers
<1>5. /\ st[d] = "none" => Makes(<<"LMS_SetupStream", d>>, p, Working([st EXCEPT ![d] = "stopped"], bf))
      /\ st[d] = "stopped" => Makes(<<"LMS_StartStream", d>>, p, Working([st EXCEPT ![d] = "running"], bf))
      /\ st[d] = "running" => Makes(<<"LMS_StopStream", d>>, p, Working([st EXCEPT ![d] = "stopped"], bf))
      /\ st[d] = "stopped" => Makes(<<"LMS_DestroyStream", d>>, p, Working([st EXCEPT ![d] = "none"], bf))
  BY <1>3 DEF Makes, Streams
<1>6. /\ bf[d] # "freed" => Makes(<<"malloc", d>>, p, Working(st, [bf EXCEPT ![d] = "allocated"]))
      /\ bf[d] # "freed" => Makes(<<"free", d>>, p, Working(st, [bf EXCEPT ![d] = "freed"]))
  BY <1>4 DEF Makes, Memories
<1> QED BY <1>5, <1>6 DEF p

LEMMA StreamNames ==
  /\ \A d \in Direction :
       /\ <<"LMS_SetupStream", d>> \in Seq(Words) /\ <<"LMS_StartStream", d>> \in Seq(Words)
       /\ <<"LMS_StopStream", d>> \in Seq(Words) /\ <<"LMS_DestroyStream", d>> \in Seq(Words)
       /\ <<"malloc", d>> \in Seq(Words) /\ <<"free", d>> \in Seq(Words)
       /\ <<"LMS_SetLOFrequency", d>> \in Seq(Words)
  /\ <<"LMS_SetSampleRate">> \in Seq(Words)
  /\ {"error"} \in SUBSET Reactions /\ {"ignored"} \in SUBSET Reactions
  /\ {} \in SUBSET Reactions
  /\ {"error"} \in SUBSET Survived /\ {"ignored"} \in SUBSET Survived
  /\ {} \in SUBSET Survived
BY Names DEF Words, Direction, Reactions, Survived

(* A start that fails is survived.                                         *)
LEMMA StartCopes ==
  ASSUME NEW f, NEW d, NEW p
  PROVE  Copes([function |-> f, failures |-> {"ignored"}, call |-> <<"LMS_StartStream", d>>], p)
BY DEF Copes

(* One stream of initStreaming() and of stopStreaming().                   *)
LEMMA SetsUpStream ==
  ASSUME NEW st \in [Direction -> StreamStates], NEW bf \in [Direction -> BufferStates],
         NEW d \in Direction, st[d] = "none", bf[d] = "nullptr"
  PROVE  Leads(Working(st, bf), SetUpStream(d),
               Working([st EXCEPT ![d] = "running"], [bf EXCEPT ![d] = "allocated"]))
<1> DEFINE st1 == [st EXCEPT ![d] = "stopped"]
           st2 == [st EXCEPT ![d] = "running"]
           bf1 == [bf EXCEPT ![d] = "allocated"]
           p0 == Working(st, bf)
           p1 == Working(st1, bf)
           p2 == Working(st1, bf1)
           p3 == Working(st2, bf1)
           f  == "initStreaming"
           s1 == Steps(f, {"error"}, << <<"LMS_SetupStream", d>> >>)
           s2 == Steps(f, {}, << <<"malloc", d>> >>)
           s3 == Steps(f, {"ignored"}, << <<"LMS_StartStream", d>> >>)
<1>1. /\ st1 \in [Direction -> StreamStates] /\ st2 \in [Direction -> StreamStates]
      /\ bf1 \in [Direction -> BufferStates]
      /\ st1[d] = "stopped" /\ st2 = [st1 EXCEPT ![d] = "running"]
  BY DEF StreamStates, BufferStates
<1>2. p0 \in Phase /\ p1 \in Phase /\ p2 \in Phase /\ p3 \in Phase
  BY <1>1, PhasesAreTyped
<1>3. Makes(<<"LMS_SetupStream", d>>, p0, p1) /\ Makes(<<"malloc", d>>, p1, p2)
      /\ Makes(<<"LMS_StartStream", d>>, p2, p3)
  <2> HIDE DEF st1, bf1, st2
  <2>1. Makes(<<"LMS_SetupStream", d>>, p0, p1)
    BY StreamMakes DEF st1
  <2>2. Makes(<<"malloc", d>>, p1, p2)
    BY <1>1, StreamMakes DEF bf1
  <2>3. Makes(<<"LMS_StartStream", d>>, p2, p3)
    BY <1>1, StreamMakes
  <2> QED BY <2>1, <2>2, <2>3
<1>4. f \in Functions
  BY DEF Functions
<1> HIDE DEF p0, p1, p2, p3, f
<1>5. Leads(p0, s1, p1) /\ Leads(p1, s2, p2) /\ Leads(p2, s3, p3)
  BY <1>2, <1>3, <1>4, OneCall, ErrorCopes, StartCopes, StreamNames
<1>6. Only(f, s1) /\ Only(f, s2) /\ Only(f, s3)
  <2>1. /\ << <<"LMS_SetupStream", d>> >> \in Seq(Seq(Words))
        /\ << <<"malloc", d>> >> \in Seq(Seq(Words))
        /\ << <<"LMS_StartStream", d>> >> \in Seq(Seq(Words))
    BY StreamNames, Pairs
  <2> QED BY <2>1, <1>4, OnlySteps, StreamNames
<1> HIDE DEF s1, s2, s3
<1>7. Only(f, s1 \o s2)
  BY <1>5, <1>6, OnlyConcat DEF Leads, Reaches
<1>8. Leads(p0, s1 \o s2, p2)
  BY <1>5, <1>6, Compose
<1>9. Leads(p0, s1 \o s2 \o s3, p3)
  BY <1>5, <1>6, <1>7, <1>8, Compose
<1> QED BY <1>9 DEF SetUpStream, Checked, Plain, Logged, p0, p3, s1, s2, s3, f

LEMMA TearsDownStream ==
  ASSUME NEW st \in [Direction -> StreamStates], NEW bf \in [Direction -> BufferStates],
         NEW d \in Direction, st[d] = "running", bf[d] = "allocated"
  PROVE  Leads(Working(st, bf), TearDownStream(d),
               Working([st EXCEPT ![d] = "none"], [bf EXCEPT ![d] = "freed"]))
<1> DEFINE st1 == [st EXCEPT ![d] = "stopped"]
           st2 == [st EXCEPT ![d] = "none"]
           bf1 == [bf EXCEPT ![d] = "freed"]
           p0 == Working(st, bf)
           p1 == Working(st, bf1)
           p2 == Working(st1, bf1)
           p3 == Working(st2, bf1)
           f  == "stopStreaming"
<1>1. /\ st1 \in [Direction -> StreamStates] /\ st2 \in [Direction -> StreamStates]
      /\ bf1 \in [Direction -> BufferStates]
      /\ st1[d] = "stopped" /\ st2 = [st1 EXCEPT ![d] = "none"]
  BY DEF StreamStates, BufferStates
<1>2. p0 \in Phase /\ p1 \in Phase /\ p2 \in Phase /\ p3 \in Phase
  BY <1>1, PhasesAreTyped
<1>3. Makes(<<"free", d>>, p0, p1) /\ Makes(<<"LMS_StopStream", d>>, p1, p2)
      /\ Makes(<<"LMS_DestroyStream", d>>, p2, p3)
  <2> HIDE DEF st1, bf1, st2
  <2>1. Makes(<<"free", d>>, p0, p1)
    BY StreamMakes DEF bf1
  <2>2. Makes(<<"LMS_StopStream", d>>, p1, p2)
    BY <1>1, StreamMakes DEF st1
  <2>3. Makes(<<"LMS_DestroyStream", d>>, p2, p3)
    BY <1>1, StreamMakes
  <2> QED BY <2>1, <2>2, <2>3
<1>4. f \in Functions
  BY DEF Functions
<1> HIDE DEF p0, p1, p2, p3, f
<1>5. Leads(p0, Steps(f, {}, << <<"free", d>>, <<"LMS_StopStream", d>>,
                                <<"LMS_DestroyStream", d>> >>), p3)
  BY <1>2, <1>3, <1>4, ThreeCalls, ErrorCopes, StreamNames
<1> QED BY <1>5 DEF TearDownStream, Plain, p0, p3, f

(* initStreaming() and stopStreaming(), both streams.                      *)
LEMMA StartsStreaming == Leads(Ready, initStreaming, Receiving)
<1> DEFINE st == [Both("none") EXCEPT !["rx"] = "running"]
           bf == [Both("nullptr") EXCEPT !["rx"] = "allocated"]
<1>1. /\ Both("none") \in [Direction -> StreamStates] /\ Both("nullptr") \in [Direction -> BufferStates]
      /\ Both("none")["rx"] = "none" /\ Both("nullptr")["rx"] = "nullptr"
      /\ st \in [Direction -> StreamStates] /\ bf \in [Direction -> BufferStates]
      /\ st["tx"] = "none" /\ bf["tx"] = "nullptr" /\ "rx" \in Direction /\ "tx" \in Direction
      /\ [st EXCEPT !["tx"] = "running"] = Both("running")
      /\ [bf EXCEPT !["tx"] = "allocated"] = Both("allocated")
  BY DEF Both, Direction, StreamStates, BufferStates
<1>2. Flowing(Working(st, bf))
  BY DEF Flowing, Working, PhaseOf, Both, Direction
<1>3. Leads(Ready, SetUpStream("rx"), Working(st, bf))
  <2> HIDE DEF Both
  <2> QED BY <1>1, SetsUpStream DEF Ready
<1> HIDE DEF st, bf
<1>4. Leads(Working(st, bf), SetUpStream("tx"), Receiving)
  BY <1>1, SetsUpStream DEF Receiving
<1> QED BY <1>2, <1>3, <1>4, Compose DEF initStreaming

LEMMA StopsStreaming == Leads(Receiving, stopStreaming, Torn)
<1> DEFINE st == [Both("running") EXCEPT !["rx"] = "none"]
           bf == [Both("allocated") EXCEPT !["rx"] = "freed"]
<1>1. /\ Both("running") \in [Direction -> StreamStates]
      /\ Both("allocated") \in [Direction -> BufferStates]
      /\ Both("running")["rx"] = "running" /\ Both("allocated")["rx"] = "allocated"
      /\ st \in [Direction -> StreamStates] /\ bf \in [Direction -> BufferStates]
      /\ st["tx"] = "running" /\ bf["tx"] = "allocated" /\ "rx" \in Direction /\ "tx" \in Direction
      /\ [st EXCEPT !["tx"] = "none"] = Both("none")
      /\ [bf EXCEPT !["tx"] = "freed"] = Both("freed")
  BY DEF Both, Direction, StreamStates, BufferStates
<1>2. Flowing(Working(st, bf))
  BY DEF Flowing, Working, PhaseOf, Both, Direction
<1>3. Leads(Receiving, TearDownStream("rx"), Working(st, bf))
  BY <1>1, TearsDownStream DEF Receiving
<1> HIDE DEF st, bf
<1>4. Leads(Working(st, bf), TearDownStream("tx"), Torn)
  BY <1>1, TearsDownStream DEF Torn
<1> QED BY <1>2, <1>3, <1>4, Compose DEF stopStreaming

(* Both streams stopped, and started again.                                *)
LEMMA StopsBoth ==
  ASSUME NEW f \in Functions
  PROVE  Leads(Receiving, StopBoth(f), Paused) /\ Only(f, StopBoth(f))
<1> DEFINE st == [Both("running") EXCEPT !["rx"] = "stopped"]
<1>1. /\ Both("running") \in [Direction -> StreamStates]
      /\ Both("allocated") \in [Direction -> BufferStates]
      /\ Both("running")["rx"] = "running" /\ st \in [Direction -> StreamStates]
      /\ st["tx"] = "running" /\ "rx" \in Direction /\ "tx" \in Direction
      /\ [st EXCEPT !["tx"] = "stopped"] = Both("stopped")
  BY DEF Both, Direction, StreamStates, BufferStates
<1>2. Makes(<<"LMS_StopStream", "rx">>, Receiving, Working(st, Both("allocated")))
  BY <1>1, StreamMakes DEF Receiving
<1> HIDE DEF st
<1>3. Makes(<<"LMS_StopStream", "tx">>, Working(st, Both("allocated")), Paused)
  BY <1>1, StreamMakes DEF Paused
<1>4. Working(st, Both("allocated")) \in Phase
  BY <1>1, PhasesAreTyped
<1>5. Leads(Receiving, Steps(f, {}, << <<"LMS_StopStream", "rx">>, <<"LMS_StopStream", "tx">> >>),
            Paused)
  BY <1>1, <1>2, <1>3, <1>4, PhasesAreTyped, TwoCalls, ErrorCopes, StreamNames
<1>6. << <<"LMS_StopStream", "rx">>, <<"LMS_StopStream", "tx">> >> \in Seq(Seq(Words))
  BY <1>1, StreamNames, Pairs
<1>7. Only(f, Steps(f, {}, << <<"LMS_StopStream", "rx">>, <<"LMS_StopStream", "tx">> >>))
  BY <1>6, OnlySteps, StreamNames
<1> QED BY <1>5, <1>7 DEF StopBoth, Plain

LEMMA StartsBoth ==
  ASSUME NEW f \in Functions
  PROVE  Leads(Paused, StartBoth(f), Receiving) /\ Only(f, StartBoth(f))
<1> DEFINE st == [Both("stopped") EXCEPT !["rx"] = "running"]
<1>1. /\ Both("stopped") \in [Direction -> StreamStates]
      /\ Both("allocated") \in [Direction -> BufferStates]
      /\ Both("stopped")["rx"] = "stopped" /\ st \in [Direction -> StreamStates]
      /\ st["tx"] = "stopped" /\ "rx" \in Direction /\ "tx" \in Direction
      /\ [st EXCEPT !["tx"] = "running"] = Both("running")
  BY DEF Both, Direction, StreamStates, BufferStates
<1>2. Makes(<<"LMS_StartStream", "rx">>, Paused, Working(st, Both("allocated")))
  BY <1>1, StreamMakes DEF Paused
<1> HIDE DEF st
<1>3. Makes(<<"LMS_StartStream", "tx">>, Working(st, Both("allocated")), Receiving)
  BY <1>1, StreamMakes DEF Receiving
<1>4. Working(st, Both("allocated")) \in Phase
  BY <1>1, PhasesAreTyped
<1>5. Leads(Paused, Steps(f, {"ignored"}, << <<"LMS_StartStream", "rx">>,
                                             <<"LMS_StartStream", "tx">> >>), Receiving)
  BY <1>1, <1>2, <1>3, <1>4, PhasesAreTyped, TwoCalls, StartCopes, StreamNames
<1>6. << <<"LMS_StartStream", "rx">>, <<"LMS_StartStream", "tx">> >> \in Seq(Seq(Words))
  BY <1>1, StreamNames, Pairs
<1>7. Only(f, Steps(f, {"ignored"}, << <<"LMS_StartStream", "rx">>, <<"LMS_StartStream", "tx">> >>))
  BY <1>6, OnlySteps, StreamNames
<1> QED BY <1>5, <1>7 DEF StartBoth, Logged

(* What is set up already stays so, while the streams are stopped.         *)
LEMMA ConfiguresAgain ==
  ASSUME NEW call \in Prepared PROVE Makes(call, Paused, Paused)
<1>1. Prepared \cup {call} = Prepared
  OBVIOUS
<1>2. Paused.device = "open"
      /\ Paused = PhaseOf(Paused.device, Paused.configured \cup {call}, Paused.stream,
                          Paused.buffer, Paused.deleted)
  BY <1>1 DEF Paused, Working, PhaseOf
<1> QED BY <1>2 DEF Makes, Configures

LEMMA Retunes == Leads(Receiving, setFrequency, Receiving)
<1> DEFINE f == "setFrequency"
           calls == << <<"LMS_SetLOFrequency", "rx">>, <<"LMS_SetLOFrequency", "tx">> >>
           s == Steps(f, {"error"}, calls)
<1>1. f \in Functions /\ "rx" \in Direction /\ "tx" \in Direction
  BY DEF Functions, Direction
<1>2. calls \in Seq(Seq(Words))
  BY <1>1, StreamNames, Pairs
<1>3. Only(f, s)
  BY <1>1, <1>2, OnlySteps, StreamNames
<1> HIDE DEF f
<1>4. Leads(Paused, s, Paused)
  BY <1>1, PhasesAreTyped, ConfiguresAgain, Preparations, TwoCalls, ErrorCopes, StreamNames
<1> HIDE DEF s
<1>5. Leads(Receiving, StopBoth(f) \o s, Paused) /\ Only(f, StopBoth(f) \o s)
  <2>1. Leads(Receiving, StopBoth(f), Paused) /\ Only(f, StopBoth(f))
    BY <1>1, StopsBoth
  <2>2. StopBoth(f) \in Seq(Step) /\ s \in Seq(Step)
    BY <2>1, <1>4 DEF Leads, Reaches
  <2>3. Only(f, StopBoth(f) \o s)
    BY <2>1, <2>2, <1>3, OnlyConcat
  <2> QED BY <2>1, <2>3, <1>3, <1>4, Compose
<1>6. Leads(Receiving, StopBoth(f) \o s \o StartBoth(f), Receiving)
  BY <1>1, <1>5, StartsBoth, Compose
<1> QED BY <1>6 DEF setFrequency, Checked, f, s

LEMMA Resamples == Leads(Receiving, setSamplingRate, Receiving)
<1> DEFINE f == "setSamplingRate"
           calls == << <<"LMS_SetSampleRate">> >>
           s == Steps(f, {"error"}, calls)
<1>1. f \in Functions
  BY DEF Functions
<1>2. calls \in Seq(Seq(Words))
  BY <1>1, StreamNames, Pairs
<1>3. Only(f, s)
  BY <1>1, <1>2, OnlySteps, StreamNames
<1> HIDE DEF f
<1>4. Leads(Paused, s, Paused)
  BY <1>1, PhasesAreTyped, ConfiguresAgain, Preparations, OneCall, ErrorCopes, StreamNames
<1> HIDE DEF s
<1>5. Leads(Receiving, StopBoth(f) \o s, Paused) /\ Only(f, StopBoth(f) \o s)
  <2>1. Leads(Receiving, StopBoth(f), Paused) /\ Only(f, StopBoth(f))
    BY <1>1, StopsBoth
  <2>2. StopBoth(f) \in Seq(Step) /\ s \in Seq(Step)
    BY <2>1, <1>4 DEF Leads, Reaches
  <2>3. Only(f, StopBoth(f) \o s)
    BY <2>1, <2>2, <1>3, OnlyConcat
  <2> QED BY <2>1, <2>3, <1>3, <1>4, Compose
<1>6. Leads(Receiving, StopBoth(f) \o s \o StartBoth(f), Receiving)
  BY <1>1, <1>5, StartsBoth, Compose
<1> QED BY <1>6 DEF setSamplingRate, Checked, f, s

(* initLimeSDR() gives up, if at all, in its first call, and then          *)
(* initLimeGPIO() follows.                                                 *)
GivesUpFirst(s) ==
  /\ Len(s) >= 1 /\ Only("initLimeSDR", s)
  /\ \A i \in 2 .. Len(s) : "return" \notin s[i].failures

LEMMA GivesUpThen ==
  ASSUME NEW s \in Seq(Step), GivesUpFirst(s),
         NEW failures \in SUBSET Survived, NEW calls \in Seq(Seq(Words))
  PROVE  /\ s \o Steps("initLimeSDR", failures, calls) \in Seq(Step)
         /\ GivesUpFirst(s \o Steps("initLimeSDR", failures, calls))
<1> DEFINE t == Steps("initLimeSDR", failures, calls)
           u == s \o t
<1>1. "initLimeSDR" \in Functions /\ failures \in SUBSET Reactions /\ "return" \notin failures
  BY DEF Functions, Reactions, Survived
<1>2. t \in Seq(Step) /\ \A i \in 1 .. Len(t) : t[i].failures = failures
  BY <1>1, StepsAre
<1>3. Only("initLimeSDR", t)
  BY <1>1, OnlySteps
<1> HIDE DEF t
<1>4. /\ Len(s) \in Nat /\ Len(t) \in Nat /\ u \in Seq(Step) /\ Len(u) = Len(s) + Len(t)
      /\ \A i \in 1 .. Len(s) + Len(t) : u[i] = IF i <= Len(s) THEN s[i] ELSE t[i - Len(s)]
  BY <1>2, ConcatProperties, LenProperties
<1>5. Only("initLimeSDR", u)
  BY <1>2, <1>3, OnlyConcat DEF GivesUpFirst
<1> HIDE DEF u
<1>6. ASSUME NEW i \in 2 .. Len(u) PROVE "return" \notin u[i].failures
  <2>1. CASE i <= Len(s)
    BY <1>4, <2>1 DEF GivesUpFirst
  <2>2. CASE i > Len(s)
    <3>1. i - Len(s) \in 1 .. Len(t) /\ ~(i <= Len(s)) /\ i \in 1 .. Len(s) + Len(t)
      BY <1>4, <2>2
    <3>2. u[i] = t[i - Len(s)]
      BY <3>1, <1>4
    <3> QED BY <1>1, <1>2, <3>1, <3>2
  <2> QED BY <1>4, <2>1, <2>2
<1>7. Len(u) >= 1
  BY <1>4 DEF GivesUpFirst
<1> QED BY <1>4, <1>5, <1>6, <1>7 DEF GivesUpFirst, u, t

LEMMA GivesUpOnce ==
  ASSUME NEW s \in Seq(Step), GivesUpFirst(s)
  PROVE  Bails(s \o initLimeGPIO)
<1> DEFINE t == initLimeGPIO
           u == s \o t
           n == Len(s) + 1
<1>1. /\ t \in Seq(Step) /\ Len(t) = 2 /\ t[1].call = <<"LMS_GPIODirWrite">>
      /\ \A i \in {1, 2} : t[i].function = "initLimeGPIO" /\ t[i].failures = {"error"}
  <2> DEFINE calls == << <<"LMS_GPIODirWrite">>, <<"LMS_GPIODirRead">> >>
  <2>1. /\ calls \in Seq(Seq(Words)) /\ Len(calls) = 2 /\ calls[1] = <<"LMS_GPIODirWrite">>
        /\ 1 .. Len(calls) = {1, 2}
    <3>1. <<"LMS_GPIODirRead">> \in Seq(Words) /\ <<"LMS_GPIODirWrite">> \in Seq(Words)
      BY Names DEF Words
    <3> QED BY <3>1
  <2>2. "initLimeGPIO" \in Functions /\ {"error"} \in SUBSET Reactions
    BY DEF Functions, Reactions
  <2>3. t = Steps("initLimeGPIO", {"error"}, calls)
    BY DEF initLimeGPIO, Checked
  <2> HIDE DEF calls, t
  <2>4. /\ t \in Seq(Step) /\ Len(t) = Len(calls)
        /\ \A i \in 1 .. Len(calls) : /\ t[i].function = "initLimeGPIO" /\ t[i].failures = {"error"}
                                      /\ t[i].call = calls[i]
    BY <2>1, <2>2, <2>3, StepsAre
  <2> QED BY <2>1, <2>4
<1> HIDE DEF t
<1>2. /\ Len(s) \in Nat /\ n \in Nat /\ Len(u) = Len(s) + 2 /\ u[n] = t[1] /\ u[n + 1] = t[2]
      /\ \A i \in 1 .. Len(s) : u[i] = s[i]
  <2>1. /\ Len(s) \in Nat /\ Len(u) = Len(s) + Len(t)
        /\ \A i \in 1 .. Len(s) + Len(t) : u[i] = IF i <= Len(s) THEN s[i] ELSE t[i - Len(s)]
    <3>1. t \in Seq(Step)
      BY <1>1
    <3> QED BY <3>1, ConcatProperties, LenProperties
  <2> HIDE DEF u
  <2>2. n \in 1 .. Len(s) + Len(t) /\ ~(n <= Len(s)) /\ n - Len(s) = 1
    BY <1>1, <2>1
  <2>3. n + 1 \in 1 .. Len(s) + Len(t) /\ ~(n + 1 <= Len(s)) /\ n + 1 - Len(s) = 2
    BY <1>1, <2>1
  <2>4. u[n] = t[1] /\ u[n + 1] = t[2]
    BY <2>1, <2>2, <2>3
  <2> QED BY <1>1, <2>1, <2>4
<1> HIDE DEF u, n
<1>3. ASSUME NEW i \in 1 .. Len(u), "return" \in u[i].failures PROVE i = 1
  <2>1. CASE i \in 1 .. Len(s)
    BY <1>2, <1>3, <2>1 DEF GivesUpFirst
  <2>2. CASE i = n \/ i = n + 1
    BY <1>1, <1>2, <1>3, <2>2
  <2> QED BY <1>2, <2>1, <2>2 DEF n
<1>4. /\ n \in 2 .. Len(u) /\ u[n].function # u[1].function
      /\ \A k \in 1 .. n - 1 : u[k].function = u[1].function
      /\ u[n].failures = {"error"} /\ u[n].call[1] = "LMS_GPIODirWrite"
  <2>1. \A k \in 1 .. n - 1 : u[k].function = "initLimeSDR"
    BY <1>2 DEF Only, n, GivesUpFirst
  <2>2. n \in 2 .. Len(u) /\ 1 \in 1 .. n - 1
    BY <1>2 DEF n, GivesUpFirst
  <2>3. u[n].function = "initLimeGPIO" /\ u[n].failures = {"error"} /\ u[n].call[1] = "LMS_GPIODirWrite"
    <3>1. t[1].function = "initLimeGPIO" /\ t[1].failures = {"error"}
      BY <1>1
    <3>2. t[1].call[1] = "LMS_GPIODirWrite"
      BY <1>1
    <3> QED BY <1>2, <3>1, <3>2
  <2> QED BY <2>1, <2>2, <2>3
<1>5. ASSUME NEW i \in 1 .. Len(u), "return" \in u[i].failures
      PROVE  \E j \in i + 1 .. Len(u) :
               /\ u[j].function # u[i].function
               /\ \A k \in i .. j - 1 : u[k].function = u[i].function
               /\ u[j].failures = {"error"} /\ u[j].call[1] = "LMS_GPIODirWrite"
  <2>1. i = 1 /\ n \in i + 1 .. Len(u)
    BY <1>3, <1>4, <1>5
  <2> QED BY <2>1, <1>4
<1> QED BY <1>5 DEF Bails, u, t

(* A constructor, the retunes after it, and a destructor.                  *)
LEMMA Constructs == \A h \in Handle : Leads(Fresh, Constructor[h], Receiving)
<1>1. \A h \in Handle :
        /\ Reaches(Fresh, initLimeSDR[h], Ready)
        /\ initLimeSDR[h] \in Seq(Step) /\ GivesUpFirst(initLimeSDR[h])
  <2> DEFINE gain == << <<"LMS_SetNormalizedGain">> >>
             calibrate == << <<"LMS_Calibrate">> >>
             g == Steps("initLimeSDR", {"error"}, gain)
             c == Steps("initLimeSDR", {"ignored"}, calibrate)
             find == Steps("initLimeSDR", {"error", "return"}, << <<"LMS_GetDeviceList">> >>)
             calls == << <<"LMS_Open">> >> \o Preparation
  <2>1. Ready \in Phase /\ Ready.device = "open" /\ Flowing(Ready)
    BY PhasesAreTyped, PhasesFlow DEF Ready, Working, PhaseOf
  <2>2. Reaches(Ready, g, Ready) /\ Reaches(Ready, c, Ready)
    BY <2>1, Pins DEF Leads, Checked, Logged
  <2>3. /\ gain \in Seq(Seq(Words)) /\ calibrate \in Seq(Seq(Words)) /\ calls \in Seq(Seq(Words))
        /\ << <<"LMS_GetDeviceList">> >> \in Seq(Seq(Words))
    <3>1. /\ <<"LMS_SetNormalizedGain">> \in Seq(Words) /\ <<"LMS_Calibrate">> \in Seq(Words)
          /\ <<"LMS_Open">> \in Seq(Words) /\ <<"LMS_GetDeviceList">> \in Seq(Words)
      BY Names DEF Words
    <3>2. << <<"LMS_Open">> >> \in Seq(Seq(Words)) /\ Preparation \in Seq(Seq(Words))
      BY <3>1, Preparations
    <3> HIDE DEF Preparation
    <3>3. calls \in Seq(Seq(Words))
      BY <3>2, ConcatProperties
    <3> QED BY <3>1, <3>3
  <2>4. find \in Seq(Step) /\ GivesUpFirst(find)
    <3> DEFINE calls1 == << <<"LMS_GetDeviceList">> >>
    <3>1. /\ "initLimeSDR" \in Functions /\ {"error", "return"} \in SUBSET Reactions
          /\ calls1 \in Seq(Seq(Words)) /\ Len(calls1) = 1
      BY <2>3 DEF Functions, Reactions
    <3>2. find = Steps("initLimeSDR", {"error", "return"}, calls1)
      OBVIOUS
    <3> HIDE DEF calls1, find
    <3>3. find \in Seq(Step) /\ Len(find) = 1 /\ Only("initLimeSDR", find)
      BY <3>1, <3>2, StepsAre, OnlySteps
    <3> QED BY <3>3 DEF GivesUpFirst
  <2> HIDE DEF gain, calibrate, calls
  <2>5. findAndOpen = find \o Steps("initLimeSDR", {"error"}, calls)
    BY DEF findAndOpen, Checked, calls
  <2> HIDE DEF find
  <2>6. findAndOpen \in Seq(Step) /\ GivesUpFirst(findAndOpen) /\ Reaches(Fresh, findAndOpen, Ready)
    BY <2>3, <2>4, <2>5, GivesUpThen, FindsAndOpens, StreamNames
  <2> HIDE DEF g, c
  <2>7. ASSUME NEW s \in Seq(Step), GivesUpFirst(s), Reaches(Fresh, s, Ready)
        PROVE  /\ s \o g \in Seq(Step) /\ GivesUpFirst(s \o g) /\ Reaches(Fresh, s \o g, Ready)
               /\ s \o c \in Seq(Step) /\ GivesUpFirst(s \o c) /\ Reaches(Fresh, s \o c, Ready)
    <3>1. s \o g \in Seq(Step) /\ GivesUpFirst(s \o g)
      BY <2>3, <2>7, GivesUpThen, StreamNames DEF g
    <3>2. s \o c \in Seq(Step) /\ GivesUpFirst(s \o c)
      BY <2>3, <2>7, GivesUpThen, StreamNames DEF c
    <3>3. Reaches(Fresh, s \o g, Ready) /\ Reaches(Fresh, s \o c, Ready)
      BY <2>1, <2>2, <2>7, ReachesOn
    <3> QED BY <3>1, <3>2, <3>3
  <2> HIDE DEF findAndOpen
  <2>8. /\ findAndOpen \o g \o c \in Seq(Step) /\ GivesUpFirst(findAndOpen \o g \o c)
        /\ Reaches(Fresh, findAndOpen \o g \o c, Ready)
    BY <2>6, <2>7
  <2>10. /\ findAndOpen \o g \o c \o g \o c \in Seq(Step)
         /\ GivesUpFirst(findAndOpen \o g \o c \o g \o c)
         /\ Reaches(Fresh, findAndOpen \o g \o c \o g \o c, Ready)
    BY <2>7, <2>8
  <2>11. initLimeSDR["sdr"] = findAndOpen /\ initLimeSDR["phy"] = findAndOpen \o g \o c \o g \o c
    BY DEF initLimeSDR, g, c, gain, calibrate, Checked, Logged
  <2> QED BY <2>6, <2>10, <2>11 DEF Handle
<1>2. /\ Ready \in Phase /\ Ready.device = "open" /\ Flowing(Ready)
      /\ Receiving \in Phase /\ Receiving.device = "open" /\ Flowing(Receiving)
  BY PhasesAreTyped, PhasesFlow DEF Ready, Receiving, Working, PhaseOf
<1>3. /\ Leads(Ready, setPins, Ready) /\ Leads(Ready, writePins, Ready)
      /\ Leads(Ready, initLimeGPIO, Ready) /\ Leads(Receiving, setPins, Receiving)
  BY <1>2, Pins
<1>12. ASSUME NEW h \in Handle PROVE Leads(Fresh, initLimeSDR[h] \o initLimeGPIO, Ready)
  <2>1. Reaches(Fresh, initLimeSDR[h] \o initLimeGPIO, Ready)
    BY <1>1, <1>2, <1>3, ReachesOn DEF Leads
  <2>2. Bails(initLimeSDR[h] \o initLimeGPIO)
    BY <1>1, GivesUpOnce
  <2> QED BY <2>1, <2>2 DEF Leads
<1>4. Leads(Fresh, initLimeSDR["sdr"] \o initLimeGPIO, Ready)
  BY <1>12 DEF Handle
<1>5. Leads(Fresh, initLimeSDR["sdr"] \o initLimeGPIO \o setPins, Ready)
  BY <1>2, <1>3, <1>4, Compose
<1>6. Leads(Fresh, initLimeSDR["sdr"] \o initLimeGPIO \o setPins \o setPins, Ready)
  BY <1>2, <1>3, <1>5, Compose
<1>7. Leads(Fresh, initLimeSDR["sdr"] \o initLimeGPIO \o setPins \o setPins \o initStreaming,
            Receiving)
  BY <1>2, <1>6, StartsStreaming, Compose
<1>8. Leads(Fresh, Constructor["sdr"], Receiving)
  BY <1>2, <1>3, <1>7, Compose DEF Constructor
<1>9. Leads(Fresh, initLimeSDR["phy"] \o initLimeGPIO, Ready)
  BY <1>12 DEF Handle
<1>10. Leads(Fresh, initLimeSDR["phy"] \o initLimeGPIO \o writePins, Ready)
  BY <1>2, <1>3, <1>9, Compose
<1>11. Leads(Fresh, Constructor["phy"], Receiving)
  BY <1>2, <1>10, StartsStreaming, Compose DEF Constructor
<1> QED BY <1>8, <1>11 DEF Handle

LEMMA Creates ==
  ASSUME NEW h \in Handle
  PROVE  Leads(Fresh, Constructor[h] \o setFrequency \o setSamplingRate, Receiving)
<1>1. Leads(Fresh, Constructor[h], Receiving)
  BY Constructs
<1> HIDE DEF Constructor, setFrequency, setSamplingRate
<1>2. Leads(Fresh, Constructor[h] \o setFrequency, Receiving)
  BY <1>1, Retunes, PhasesFlow, Compose
<1> QED BY <1>2, Resamples, PhasesFlow, Compose

LEMMA Destructs == \A h \in Handle : Leads(Receiving, Destructor[h], Gone)
<1>1. Leads(Torn, closeLimeSDR, Shut)
  <2>1. <<"LMS_Close">> \in Seq(Words) /\ "closeLimeSDR" \in Functions
    BY Names DEF Words, Functions
  <2>2. Makes(<<"LMS_Close">>, Torn, Shut)
    BY DEF Makes, Closes, Torn, Shut, Working, PhaseOf, Both
  <2> QED BY <2>1, <2>2, OneCall, ErrorCopes, PhasesAreTyped, StreamNames DEF closeLimeSDR, Plain
<1>2. Leads(Shut, Plain("delete", << <<"delete">> >>), Gone)
  <2>1. <<"delete">> \in Seq(Words) /\ "delete" \in Functions
    BY Names DEF Words, Functions
  <2>2. Makes(<<"delete">>, Shut, Gone)
    BY DEF Makes, Deletes, Gone, Shut, PhaseOf
  <2> QED BY <2>1, <2>2, OneCall, ErrorCopes, PhasesAreTyped, StreamNames DEF Plain
<1>3. Torn \in Phase /\ Torn.device = "open"
  BY PhasesAreTyped DEF Torn, Working, PhaseOf
<1>4. Leads(Torn, setPins, Torn)
  BY <1>3, Pins
<1>5. Leads(Receiving, stopStreaming \o setPins, Torn)
  BY <1>4, StopsStreaming, PhasesFlow, Compose
<1>6. Leads(Receiving, stopStreaming \o setPins \o closeLimeSDR, Shut)
  BY <1>1, <1>5, PhasesFlow, Compose
<1>7. Leads(Receiving, stopStreaming \o closeLimeSDR, Shut)
  BY <1>1, StopsStreaming, PhasesFlow, Compose
<1> DEFINE gone == Plain("delete", << <<"delete">> >>)
<1> HIDE DEF gone
<1>8. Leads(Receiving, stopStreaming \o setPins \o closeLimeSDR \o gone, Gone)
  BY <1>2, <1>6, PhasesFlow, Compose DEF gone
<1>9. Leads(Receiving, stopStreaming \o closeLimeSDR \o gone, Gone)
  BY <1>2, <1>7, PhasesFlow, Compose DEF gone
<1>10. Leads(Receiving, Destructor["sdr"], Gone) /\ Leads(Receiving, Destructor["phy"], Gone)
  BY <1>8, <1>9 DEF Destructor, gone
<1> QED BY <1>10 DEF Handle

(* A call of main() that leaves the driver alone.                          *)
LEMMA Silently ==
  ASSUME NEW p \in Phase, NEW f \in Functions, NEW a \in Words, a \in Silent
  PROVE  Leads(p, Plain(f, << <<a>> >>), p)
<1>1. <<a>> \in Seq(Words)
  BY Names
<1>2. Makes(<<a>>, p, p)
  BY DEF Makes, Rests
<1> QED BY <1>1, <1>2, OneCall, ErrorCopes, StreamNames DEF Plain

LEMMA Terminates == Leads(Receiving, terminate, Receiving)
<1>1. Receiving \in Phase /\ Receiving.device = "open" /\ Flowing(Receiving)
  BY PhasesAreTyped, PhasesFlow DEF Receiving, Working, PhaseOf
<1>2. Leads(Receiving, setPins, Receiving)
  BY <1>1, Pins
<1>3. Leads(Receiving, Plain("terminate", << <<"stopping">> >>), Receiving)
  BY <1>1, Silently DEF Functions, Words, Silent
<1> DEFINE stop == Plain("terminate", << <<"stopping">> >>)
<1> HIDE DEF stop
<1>4. Leads(Receiving, stop \o setPins, Receiving)
  BY <1>1, <1>2, <1>3, Compose DEF stop
<1>5. Leads(Receiving, stop \o setPins \o setPins, Receiving)
  BY <1>1, <1>2, <1>4, Compose
<1> QED BY <1>5 DEF terminate, stop

-----------------------------------------------------------------------------
(* The programs: the calls of both drivers, and of main(), in one sequence.*)
Call == [on : Handle, function : Functions, failures : SUBSET Reactions, call : Seq(Words)]

Phases == [Handle -> Phase]

Idle(g) == \A h \in Handle : Flowing(g[h])

GoesOn(call, x, y) ==
  /\ \/ Makes(call.call, x[call.on], y[call.on])
     \/ /\ call.call = <<"return 0">> /\ y[call.on] = x[call.on]
        /\ \A k \in Handle : Released(x[k])
  /\ \A k \in Handle \ {call.on} : y[k] = x[k]
  /\ Copes(call, x[call.on])
  /\ "return" \in call.failures => Idle(x)

Goes(s, g, i) ==
  /\ GoesOn(s[i], g[i], g[i + 1])
  /\ i > 1 /\ s[i - 1].function # s[i].function => Idle(g[i])

(* The first call of another function, after one that gives up, is one of  *)
(* the same driver.                                                        *)
BailsOut(s) ==
  \A i \in 1 .. Len(s) :
    "return" \in s[i].failures =>
      \E j \in i + 1 .. Len(s) :
        /\ s[j].function # s[i].function /\ s[j].on = s[i].on
        /\ \A k \in i .. j - 1 : s[k].function = s[i].function
        /\ s[j].failures = {"error"} /\ s[j].call[1] = "LMS_GPIODirWrite"

Follows(s, g) ==
  /\ g \in [1 .. Len(s) + 1 -> Phases]
  /\ \A i \in 1 .. Len(s) : Goes(s, g, i)

Takes(x, s, y) ==
  /\ s \in Seq(Call) /\ BailsOut(s)
  /\ \E g : Follows(s, g) /\ g[1] = x /\ g[Len(s) + 1] = y

LEMMA ComposeCalls ==
  ASSUME NEW x, NEW y, NEW z, NEW s, NEW t, Takes(x, s, y), Takes(y, t, z), Idle(y)
  PROVE  Takes(x, s \o t, z)
<1> DEFINE u == s \o t
<1>1. s \in Seq(Call) /\ t \in Seq(Call)
  BY DEF Takes
<1>2. PICK a \in [1 .. Len(s) + 1 -> Phases] :
        /\ a[1] = x /\ a[Len(s) + 1] = y
        /\ \A i \in 1 .. Len(s) : Goes(s, a, i)
  BY DEF Takes, Follows
<1>3. PICK b \in [1 .. Len(t) + 1 -> Phases] :
        /\ b[1] = y /\ b[Len(t) + 1] = z
        /\ \A i \in 1 .. Len(t) : Goes(t, b, i)
  BY DEF Takes, Follows
<1>4. /\ Len(s) \in Nat /\ Len(t) \in Nat
      /\ u \in Seq(Call) /\ Len(u) = Len(s) + Len(t)
      /\ \A i \in 1 .. Len(s) : u[i] = s[i]
      /\ \A i \in Len(s) + 1 .. Len(s) + Len(t) : u[i] = t[i - Len(s)]
  BY <1>1, ConcatProperties, LenProperties
<1> DEFINE c == [i \in 1 .. Len(u) + 1 |-> IF i <= Len(s) THEN a[i] ELSE b[i - Len(s)]]
<1>5. /\ c \in [1 .. Len(u) + 1 -> Phases]
      /\ \A i \in 1 .. Len(s) + 1 : c[i] = a[i]
      /\ \A i \in Len(s) + 1 .. Len(u) + 1 : c[i] = b[i - Len(s)]
  BY <1>2, <1>3, <1>4
<1> HIDE DEF c, u
<1>6. c[1] = x /\ c[Len(u) + 1] = z
  BY <1>2, <1>3, <1>4, <1>5
<1>7. ASSUME NEW i \in 1 .. Len(u) PROVE Goes(u, c, i)
  <2>1. CASE i <= Len(s)
    <3>1. i \in 1 .. Len(s) /\ i \in 1 .. Len(s) + 1 /\ i + 1 \in 1 .. Len(s) + 1
      BY <1>4, <2>1
    <3>2. u[i] = s[i] /\ c[i] = a[i] /\ c[i + 1] = a[i + 1]
      BY <1>4, <1>5, <3>1
    <3>3. i > 1 => u[i - 1] = s[i - 1]
      BY <1>4, <3>1
    <3> QED BY <1>2, <3>1, <3>2, <3>3 DEF Goes
  <2>2. CASE i = Len(s) + 1
    <3>1. u[i] = t[1] /\ c[i] = b[1] /\ c[i + 1] = b[2] /\ 1 \in 1 .. Len(t)
      BY <1>4, <1>5, <2>2
    <3>2. Goes(t, b, 1)
      BY <1>3, <3>1
    <3>3. Idle(c[i])
      BY <1>3, <3>1
    <3> QED BY <3>1, <3>2, <3>3 DEF Goes
  <2>3. CASE i > Len(s) + 1
    <3> DEFINE j == i - Len(s)
    <3>1. /\ j \in 1 .. Len(t) /\ j > 1
          /\ u[i] = t[j] /\ u[i - 1] = t[j - 1] /\ c[i] = b[j] /\ c[i + 1] = b[j + 1]
      <4>1. j \in 1 .. Len(t) /\ j > 1 /\ i \in Nat
        BY <1>4, <2>3
      <4>2. i \in Len(s) + 1 .. Len(s) + Len(t) /\ i \in Len(s) + 1 .. Len(u) + 1
        BY <1>4, <2>3
      <4>7. u[i] = t[j]
        BY <1>4, <4>2
      <4>8. c[i] = b[j]
        BY <1>5, <4>2
      <4>3. i - 1 - Len(s) = j - 1 /\ i + 1 - Len(s) = j + 1
        BY <1>4
      <4>4. i - 1 \in Len(s) + 1 .. Len(s) + Len(t) /\ i + 1 \in Len(s) + 1 .. Len(u) + 1
        BY <1>4, <2>3
      <4>5. u[i - 1] = t[i - 1 - Len(s)]
        BY <1>4, <4>4
      <4>6. c[i + 1] = b[i + 1 - Len(s)]
        BY <1>5, <4>4
      <4> QED BY <4>1, <4>3, <4>5, <4>6, <4>7, <4>8
    <3> HIDE DEF j
    <3>2. Goes(t, b, j) /\ i > 1
      BY <1>3, <1>4, <2>3, <3>1
    <3> QED BY <3>1, <3>2 DEF Goes
  <2> QED BY <1>4, <2>1, <2>2, <2>3
<1>8. Follows(u, c)
  BY <1>5, <1>7 DEF Follows
<1>9. BailsOut(u)
  <2>1. ASSUME NEW i \in 1 .. Len(s), "return" \in u[i].failures
        PROVE  \E j \in i + 1 .. Len(u) :
                 /\ u[j].function # u[i].function /\ u[j].on = u[i].on
                 /\ \A k \in i .. j - 1 : u[k].function = u[i].function
                 /\ u[j].failures = {"error"} /\ u[j].call[1] = "LMS_GPIODirWrite"
    <3>1. PICK j \in i + 1 .. Len(s) :
                 /\ s[j].function # s[i].function /\ s[j].on = s[i].on
                 /\ \A k \in i .. j - 1 : s[k].function = s[i].function
                 /\ s[j].failures = {"error"} /\ s[j].call[1] = "LMS_GPIODirWrite"
      BY <1>4, <2>1 DEF Takes, BailsOut
    <3>2. j \in i + 1 .. Len(u) /\ u[j] = s[j] /\ u[i] = s[i]
      BY <1>4
    <3>3. \A k \in i .. j - 1 : u[k] = s[k]
      BY <1>4
    <3> QED BY <3>1, <3>2, <3>3
  <2>2. ASSUME NEW i \in Len(s) + 1 .. Len(u), "return" \in u[i].failures
        PROVE  \E j \in i + 1 .. Len(u) :
                 /\ u[j].function # u[i].function /\ u[j].on = u[i].on
                 /\ \A k \in i .. j - 1 : u[k].function = u[i].function
                 /\ u[j].failures = {"error"} /\ u[j].call[1] = "LMS_GPIODirWrite"
    <3> DEFINE n == i - Len(s)
    <3>1. n \in 1 .. Len(t) /\ u[i] = t[n] /\ i = Len(s) + n
      BY <1>4
    <3> HIDE DEF n
    <3>2. PICK j \in n + 1 .. Len(t) :
                 /\ t[j].function # t[n].function /\ t[j].on = t[n].on
                 /\ \A k \in n .. j - 1 : t[k].function = t[n].function
                 /\ t[j].failures = {"error"} /\ t[j].call[1] = "LMS_GPIODirWrite"
      BY <2>2, <3>1 DEF Takes, BailsOut
    <3> DEFINE m == Len(s) + j
    <3>3. m \in i + 1 .. Len(u) /\ m \in Len(s) + 1 .. Len(s) + Len(t) /\ m - Len(s) = j
      BY <1>4, <3>1
    <3>4. u[m] = t[j]
      BY <1>4, <3>3
    <3>5. ASSUME NEW k \in i .. m - 1 PROVE u[k].function = t[n].function
      <4>1. k - Len(s) \in n .. j - 1 /\ k \in Len(s) + 1 .. Len(s) + Len(t)
        BY <1>4, <3>1
      <4>2. u[k] = t[k - Len(s)]
        BY <1>4, <4>1
      <4> QED BY <3>2, <4>1, <4>2
    <3> HIDE DEF m
    <3> QED BY <3>1, <3>2, <3>3, <3>4, <3>5
  <2>3. \A i \in 1 .. Len(u) : i \in 1 .. Len(s) \/ i \in Len(s) + 1 .. Len(u)
    BY <1>4
  <2> QED BY <2>1, <2>2, <2>3 DEF BailsOut
<1> QED BY <1>4, <1>6, <1>8, <1>9 DEF Takes, u

(* On(h, _) call by call.                                                  *)
LEMMA OnIs ==
  ASSUME NEW h \in Handle, NEW s \in Seq(Step)
  PROVE  /\ On(h, s) \in Seq(Call) /\ Len(On(h, s)) = Len(s)
         /\ \A i \in 1 .. Len(s) :
              /\ On(h, s)[i].on = h /\ On(h, s)[i].function = s[i].function
              /\ On(h, s)[i].failures = s[i].failures /\ On(h, s)[i].call = s[i].call
<1>1. DOMAIN s = 1 .. Len(s) /\ Len(s) \in Nat /\ \A i \in 1 .. Len(s) : s[i] \in Step
  BY LenProperties, ElementOfSeq
<1>2. On(h, s) \in [1 .. Len(s) -> Call]
  BY <1>1 DEF On, Step, Call
<1>3. On(h, s) \in Seq(Call) /\ Len(On(h, s)) = Len(s)
  BY <1>1, <1>2, FunctionIsSeq, Zenon
<1> QED BY <1>1, <1>3 DEF On

LEMMA OnConcat ==
  ASSUME NEW h \in Handle, NEW s \in Seq(Step), NEW t \in Seq(Step)
  PROVE  On(h, s \o t) = On(h, s) \o On(h, t)
<1> DEFINE u == s \o t
           v == On(h, s) \o On(h, t)
           a == On(h, s)
           b == On(h, t)
<1>1. /\ u \in Seq(Step) /\ Len(s) \in Nat /\ Len(t) \in Nat /\ Len(u) = Len(s) + Len(t)
      /\ \A i \in 1 .. Len(s) + Len(t) : u[i] = IF i <= Len(s) THEN s[i] ELSE t[i - Len(s)]
  BY ConcatProperties, LenProperties
<1>2. DOMAIN u = 1 .. Len(u) /\ DOMAIN s = 1 .. Len(s) /\ DOMAIN t = 1 .. Len(t)
  BY <1>1, LenProperties
<1>3. /\ a \in Seq(Call) /\ Len(a) = Len(s) /\ b \in Seq(Call) /\ Len(b) = Len(t)
      /\ On(h, u) \in Seq(Call) /\ Len(On(h, u)) = Len(u)
  BY <1>1, OnIs
<1> HIDE DEF a, b, u
<1>4. /\ a \o b \in Seq(Call) /\ Len(a \o b) = Len(s) + Len(t)
      /\ \A i \in 1 .. Len(s) + Len(t) : (a \o b)[i] = IF i <= Len(s) THEN a[i] ELSE b[i - Len(s)]
  <2>1. a \in Seq(Call) /\ b \in Seq(Call)
    BY <1>3
  <2>2. /\ a \o b \in Seq(Call) /\ Len(a \o b) = Len(a) + Len(b)
        /\ \A i \in 1 .. Len(a) + Len(b) : (a \o b)[i] = IF i <= Len(a) THEN a[i] ELSE b[i - Len(a)]
    BY <2>1, ConcatProperties
  <2>3. Len(a) = Len(s) /\ Len(b) = Len(t)
    BY <1>3
  <2> QED BY <2>2, <2>3
<1>5. ASSUME NEW i \in 1 .. Len(s) + Len(t) PROVE On(h, u)[i] = (a \o b)[i]
  <2>1. CASE i <= Len(s)
    <3>1. u[i] = s[i] /\ (a \o b)[i] = a[i] /\ i \in DOMAIN s /\ i \in DOMAIN u
      BY <1>1, <1>2, <1>4, <2>1
    <3> QED BY <3>1 DEF On, a
  <2>2. CASE i > Len(s)
    <3>1. ~(i <= Len(s)) /\ i - Len(s) \in 1 .. Len(t)
      BY <1>1, <2>2
    <3>2. u[i] = t[i - Len(s)] /\ (a \o b)[i] = b[i - Len(s)] /\ i - Len(s) \in DOMAIN t
          /\ i \in DOMAIN u
      BY <1>1, <1>2, <1>4, <3>1
    <3> QED BY <3>2 DEF On, b
  <2>3. i <= Len(s) \/ i > Len(s)
    BY <1>1
  <2> QED BY <2>1, <2>2, <2>3
<1>6. On(h, u) = a \o b
  BY <1>1, <1>3, <1>4, <1>5, SeqEqual
<1> QED BY <1>6 DEF a, b, u

LEMMA NotReturn ==
  ASSUME NEW call, NEW p, NEW q, Makes(call, p, q) PROVE call[1] # "return 0"
<1>1. ASSUME Configures(call, p, q) PROVE call[1] # "return 0"
  BY <1>1, Preparations DEF Configures
<1>2. ASSUME Rests(call, p, q) PROVE call[1] # "return 0"
  BY <1>2 DEF Rests, Silent, Quiet
<1>3. ASSUME Streams(call, p, q) PROVE call[1] # "return 0"
  <2>1. \A name, from, to : Turns(call, p, q, name, from, to) => call[1] = name
    BY DEF Turns
  <2>2. call[1] \in {"LMS_SetupStream", "LMS_StartStream", "LMS_StopStream", "LMS_DestroyStream"}
    BY <1>3, <2>1 DEF Streams
  <2> QED BY <2>2
<1>4. ASSUME Memories(call, p, q) PROVE call[1] # "return 0"
  <2>1. \A name, state : Buffers(call, p, q, name, state) => call[1] = name
    BY DEF Buffers
  <2>2. call[1] \in {"malloc", "free"}
    BY <1>4, <2>1 DEF Memories
  <2> QED BY <2>2
<1>5. ASSUME Opens(call, p, q) \/ Closes(call, p, q) \/ Deletes(call, p, q) \/ Exchanges(call, p, q)
      PROVE call[1] # "return 0"
  <2>1. call \in { <<"LMS_Open">>, <<"LMS_Close">>, <<"delete">>, <<"std::thread">>, <<"blocks">> }
    BY <1>5 DEF Opens, Closes, Deletes, Exchanges
  <2>2. call[1] \in {"LMS_Open", "LMS_Close", "delete", "std::thread", "blocks"}
    BY <2>1
  <2> QED BY <2>2
<1> QED BY <1>1, <1>2, <1>3, <1>4, <1>5 DEF Makes

(* What one driver does leaves the other where it is.                      *)
Where(p, q) == [h \in Handle |-> IF h = "sdr" THEN p ELSE q]

LEMMA Lift ==
  ASSUME NEW h \in Handle, NEW p, NEW q, NEW s, Leads(p, s, q),
         NEW x \in Phases, x[h] = p, \A k \in Handle \ {h} : Flowing(x[k])
  PROVE  Takes(x, On(h, s), [x EXCEPT ![h] = q])
<1> DEFINE u == On(h, s)
<1>1. PICK ph \in [1 .. Len(s) + 1 -> Phase] :
        /\ ph[1] = p /\ ph[Len(s) + 1] = q
        /\ \A i \in 1 .. Len(s) : Passes(s, ph, i)
  BY DEF Leads, Reaches
<1>2. s \in Seq(Step) /\ Len(s) \in Nat
  BY LenProperties DEF Leads, Reaches
<1>3. /\ u \in Seq(Call) /\ Len(u) = Len(s)
      /\ \A i \in 1 .. Len(s) : /\ u[i].on = h /\ u[i].function = s[i].function
                                /\ u[i].failures = s[i].failures /\ u[i].call = s[i].call
  BY <1>2, OnIs
<1> HIDE DEF u
<1> DEFINE g == [i \in 1 .. Len(u) + 1 |-> [x EXCEPT ![h] = ph[i]]]
<1>4. /\ g \in [1 .. Len(u) + 1 -> Phases]
      /\ \A i \in 1 .. Len(s) + 1 : /\ g[i][h] = ph[i]
                                    /\ \A k \in Handle \ {h} : g[i][k] = x[k]
  BY <1>1, <1>3 DEF Phases
<1>5. g[1] = x /\ g[Len(u) + 1] = [x EXCEPT ![h] = q]
  <2>1. 1 \in 1 .. Len(u) + 1 /\ Len(u) + 1 \in 1 .. Len(u) + 1
    BY <1>2, <1>3
  <2>2. g[1] = [x EXCEPT ![h] = p] /\ g[Len(u) + 1] = [x EXCEPT ![h] = q]
    BY <1>1, <1>3, <2>1
  <2>3. [x EXCEPT ![h] = x[h]] = x
    BY DEF Phases
  <2> QED BY <2>2, <2>3
<1> HIDE DEF g
<1>6. ASSUME NEW i \in 1 .. Len(u) PROVE Goes(u, g, i)
  <2>1. i \in 1 .. Len(s) /\ i \in 1 .. Len(s) + 1 /\ i + 1 \in 1 .. Len(s) + 1
    BY <1>2, <1>3
  <2>2. Passes(s, ph, i)
    BY <1>1, <2>1
  <2>3. /\ g[i][h] = ph[i] /\ g[i + 1][h] = ph[i + 1]
        /\ \A k \in Handle \ {h} : g[i + 1][k] = g[i][k] /\ Flowing(g[i][k])
    BY <1>4, <2>1
  <2>4. Copes(u[i], ph[i])
    BY <1>3, <2>1, <2>2 DEF Passes, Copes
  <2>5. Flowing(ph[i]) => Idle(g[i])
    BY <2>3 DEF Idle
  <2>6. "return" \in u[i].failures => Idle(g[i])
    BY <2>4, <2>5 DEF Copes
  <2>7. GoesOn(u[i], g[i], g[i + 1])
    BY <1>3, <2>1, <2>2, <2>3, <2>4, <2>6 DEF GoesOn, Passes
  <2>8. i > 1 /\ u[i - 1].function # u[i].function => Idle(g[i])
    <3>1. i > 1 => u[i - 1].function = s[i - 1].function /\ u[i].function = s[i].function
      BY <1>3, <2>1
    <3> QED BY <2>2, <2>5, <3>1 DEF Passes
  <2> QED BY <2>7, <2>8 DEF Goes
<1>7. Follows(u, g)
  BY <1>4, <1>6 DEF Follows
<1>8. BailsOut(u)
  <2>1. ASSUME NEW i \in 1 .. Len(u), "return" \in u[i].failures
        PROVE  \E j \in i + 1 .. Len(u) :
                 /\ u[j].function # u[i].function /\ u[j].on = u[i].on
                 /\ \A k \in i .. j - 1 : u[k].function = u[i].function
                 /\ u[j].failures = {"error"} /\ u[j].call[1] = "LMS_GPIODirWrite"
    <3>1. PICK j \in i + 1 .. Len(s) :
                 /\ s[j].function # s[i].function
                 /\ \A k \in i .. j - 1 : s[k].function = s[i].function
                 /\ s[j].failures = {"error"} /\ s[j].call[1] = "LMS_GPIODirWrite"
      BY <1>3, <2>1 DEF Leads, Bails
    <3>2. i \in 1 .. Len(s) /\ j \in 1 .. Len(s) /\ j \in i + 1 .. Len(u)
          /\ \A k \in i .. j - 1 : k \in 1 .. Len(s)
      BY <1>2, <1>3
    <3> QED BY <1>3, <3>1, <3>2
  <2> QED BY <2>1 DEF BailsOut
<1> QED BY <1>3, <1>5, <1>7, <1>8 DEF Takes, u

LEMMA Places ==
  /\ \A p, q \in Phase : Where(p, q) \in Phases
  /\ \A p, q : Where(p, q)["sdr"] = p /\ Where(p, q)["phy"] = q
  /\ \A p, q \in Phase : Flowing(p) /\ Flowing(q) => Idle(Where(p, q))
  /\ \A p, q, r \in Phase : [Where(p, q) EXCEPT !["sdr"] = r] = Where(r, q)
  /\ \A p, q, r \in Phase : [Where(p, q) EXCEPT !["phy"] = r] = Where(p, r)
BY DEF Where, Phases, Idle, Handle

LEMMA LiftSdr ==
  ASSUME NEW p \in Phase, NEW q \in Phase, NEW r \in Phase, NEW s, Leads(p, s, q), Flowing(r)
  PROVE  Takes(Where(p, r), On("sdr", s), Where(q, r))
<1>1. /\ "sdr" \in Handle /\ Where(p, r) \in Phases /\ Where(p, r)["sdr"] = p
      /\ \A k \in Handle \ {"sdr"} : Flowing(Where(p, r)[k])
  BY Places DEF Handle
<1> QED BY <1>1, Lift, Places

LEMMA LiftPhy ==
  ASSUME NEW p \in Phase, NEW q \in Phase, NEW r \in Phase, NEW s, Leads(p, s, q), Flowing(r)
  PROVE  Takes(Where(r, p), On("phy", s), Where(r, q))
<1>1. /\ "phy" \in Handle /\ Where(r, p) \in Phases /\ Where(r, p)["phy"] = p
      /\ \A k \in Handle \ {"phy"} : Flowing(Where(r, p)[k])
  BY Places DEF Handle
<1> QED BY <1>1, Lift, Places

(* The last call of a program is never followed by another.                *)
Ends == {"return 0", "while(SPECon)", "delete(t_sdr)"}

EndsWell(s) == Len(s) \in Nat \ {0} /\ s[Len(s)].call[1] \in Ends

LEMMA EndsConcat ==
  ASSUME NEW s \in Seq(Call), NEW t \in Seq(Call), EndsWell(t)
  PROVE  EndsWell(s \o t)
<1>1. /\ Len(s) \in Nat /\ Len(s \o t) = Len(s) + Len(t)
      /\ \A i \in 1 .. Len(s) + Len(t) : (s \o t)[i] = IF i <= Len(s) THEN s[i] ELSE t[i - Len(s)]
  BY ConcatProperties, LenProperties
<1>2. Len(t) \in Nat \ {0} /\ t[Len(t)].call[1] \in Ends
  BY DEF EndsWell
<1>3. /\ Len(s) + Len(t) \in 1 .. Len(s) + Len(t) /\ ~(Len(s) + Len(t) <= Len(s))
      /\ Len(s) + Len(t) - Len(s) = Len(t)
  BY <1>1, <1>2
<1>4. (s \o t)[Len(s \o t)] = t[Len(t)]
  BY <1>1, <1>3
<1> QED BY <1>1, <1>2, <1>4 DEF EndsWell

(* A single call of main(), which ends the program.                        *)
LEMMA LastCalls ==
  ASSUME NEW h \in Handle, NEW a \in Ends
  PROVE  LET s == On(h, Plain("main", << <<a>> >>)) IN
         /\ s \in Seq(Call) /\ EndsWell(s)
         /\ \A x \in Phases : (\A k \in Handle : Released(x[k])) /\ a = "return 0" => Takes(x, s, x)
<1> DEFINE calls == << <<a>> >>
           t == Steps("main", {}, calls)
           s == On(h, t)
<1>1. /\ calls \in Seq(Seq(Words)) /\ Len(calls) = 1 /\ calls[1] = <<a>>
      /\ "main" \in Functions /\ {} \in SUBSET Reactions
  <2>1. a \in Words
    BY DEF Ends, Words
  <2>2. <<a>> \in Seq(Words)
    BY <2>1, Names
  <2> QED BY <2>2 DEF Functions
<1> HIDE DEF calls
<1>2. /\ t \in Seq(Step) /\ Len(t) = 1 /\ t[1].failures = {} /\ t[1].call = <<a>>
  <2>1. /\ t \in Seq(Step) /\ Len(t) = Len(calls)
        /\ \A i \in 1 .. Len(calls) : /\ t[i].function = "main" /\ t[i].failures = {}
                                      /\ t[i].call = calls[i]
    BY <1>1, StepsAre
  <2> QED BY <1>1, <2>1
<1> HIDE DEF t
<1>3. s \in Seq(Call) /\ Len(s) = 1 /\ s[1].on = h /\ s[1].failures = {} /\ s[1].call = <<a>>
  BY <1>2, OnIs
<1> HIDE DEF s
<1>4. EndsWell(s)
  BY <1>3 DEF EndsWell
<1>5. ASSUME NEW x \in Phases, \A k \in Handle : Released(x[k]), a = "return 0"
      PROVE  Takes(x, s, x)
  <2> DEFINE g == <<x, x>>
  <2>1. g \in [1 .. Len(s) + 1 -> Phases] /\ g[1] = x /\ g[2] = x /\ g[Len(s) + 1] = x
    BY <1>3
  <2> HIDE DEF g
  <2>2. ASSUME NEW i \in 1 .. Len(s) PROVE Goes(s, g, i)
    <3>1. i = 1 /\ i + 1 = 2
      BY <1>3
    <3>2. GoesOn(s[1], x, x)
      BY <1>3, <1>5 DEF GoesOn, Copes
    <3> QED BY <2>1, <3>1, <3>2 DEF Goes
  <2>3. BailsOut(s)
    BY <1>3 DEF BailsOut
  <2> QED BY <1>3, <2>1, <2>2, <2>3 DEF Takes, Follows
<1>6. On(h, Plain("main", << <<a>> >>)) = s
  BY DEF s, t, calls, Plain
<1> QED BY <1>3, <1>4, <1>5, <1>6

(* The pieces the programs are made of.                                    *)
LEMMA Pieces ==
  /\ Takes(Where(Fresh, Fresh), StartRadio, Where(Receiving, Fresh))
  /\ Takes(Where(Receiving, Fresh), GpioTest, Where(Receiving, Fresh))
  /\ Takes(Where(Receiving, Fresh), TemporaryPhy, Where(Receiving, Gone))
  /\ \A r \in {Fresh, Gone} :
       Takes(Where(Receiving, r), StopRadio, Where(Gone, r)) /\ EndsWell(StopRadio)
  /\ Takes(Where(Fresh, Fresh), Created("phy"), Where(Fresh, Receiving))
  /\ Takes(Where(Fresh, Receiving), Blocks, Where(Fresh, Receiving))
  /\ Takes(Where(Fresh, Receiving), PhyOver, Where(Fresh, Gone)) /\ EndsWell(PhyOver)
<1>1. /\ Fresh \in Phase /\ Receiving \in Phase /\ Gone \in Phase
      /\ Flowing(Fresh) /\ Flowing(Receiving) /\ Flowing(Gone) /\ Released(Fresh) /\ Released(Gone)
      /\ Receiving.device = "open"
  BY PhasesAreTyped, PhasesFlow DEF Receiving, Working, PhaseOf
<1>2. \A p, q \in {Fresh, Receiving, Gone} : Idle(Where(p, q)) /\ Where(p, q) \in Phases
  BY <1>1, Places
<1>3. "sdr" \in Handle /\ "phy" \in Handle
  BY DEF Handle
<1>4. Takes(Where(Fresh, Fresh), Created("sdr"), Where(Receiving, Fresh))
  BY <1>1, <1>3, Creates, LiftSdr DEF Created
<1>5. Takes(Where(Fresh, Fresh), StartRadio, Where(Receiving, Fresh))
  <2>1. Leads(Receiving, Plain("main", << <<"std::thread">> >>), Receiving)
    <3>1. <<"std::thread">> \in Seq(Words) /\ "main" \in Functions /\ {} \in SUBSET Survived
      BY Names DEF Words, Functions
    <3>2. Makes(<<"std::thread">>, Receiving, Receiving)
      BY DEF Makes, Exchanges, Receiving, Working, PhaseOf, Both
    <3> QED BY <1>1, <3>1, <3>2, OneCall, ErrorCopes DEF Plain
  <2>2. Takes(Where(Receiving, Fresh), On("sdr", Plain("main", << <<"std::thread">> >>)),
              Where(Receiving, Fresh))
    BY <1>1, <2>1, LiftSdr
  <2> QED BY <1>2, <1>4, <2>2, ComposeCalls DEF StartRadio
<1>6. Leads(Receiving, setPins, Receiving) /\ Leads(Receiving, writePins, Receiving)
  BY <1>1, Pins
<1>7. Takes(Where(Receiving, Fresh), GpioTest, Where(Receiving, Fresh))
  <2>1. Leads(Receiving, setPins \o setPins \o setPins, Receiving)
    BY <1>1, <1>6, Compose
  <2>2. Leads(Receiving, Twice(setPins \o setPins \o setPins), Receiving)
    BY <1>1, <2>1, Compose DEF Twice
  <2>3. Leads(Receiving, Twice(Twice(setPins \o setPins \o setPins)), Receiving)
    BY <1>1, <2>2, Compose DEF Twice
  <2> QED BY <1>1, <2>3, LiftSdr DEF GpioTest
<1>8. Takes(Where(Receiving, Fresh), TemporaryPhy, Where(Receiving, Gone))
  <2>1. Takes(Where(Receiving, Fresh), Created("phy"), Where(Receiving, Receiving))
    BY <1>1, <1>3, Creates, LiftPhy DEF Created
  <2>2. Takes(Where(Receiving, Receiving), On("phy", Destructor["phy"]), Where(Receiving, Gone))
    BY <1>1, <1>3, Destructs, LiftPhy
  <2> QED BY <1>2, <2>1, <2>2, ComposeCalls DEF TemporaryPhy
<1>9. ASSUME NEW p \in Phase, NEW q \in Phase, Released(p), Released(q), NEW h \in Handle
      PROVE  LET s == On(h, Plain("main", << <<"return 0">> >>)) IN
             Takes(Where(p, q), s, Where(p, q)) /\ s \in Seq(Call) /\ EndsWell(s)
  <2>1. "return 0" \in Ends /\ Where(p, q) \in Phases
        /\ \A k \in Handle : Released(Where(p, q)[k])
    BY <1>9, Places DEF Ends, Handle
  <2> QED BY <2>1, LastCalls
<1>10. Plain("main", << <<"return 0">> >>) \in Seq(Step)
  <2>1. /\ << <<"return 0">> >> \in Seq(Seq(Words)) /\ "main" \in Functions
        /\ {} \in SUBSET Reactions
    <3>1. <<"return 0">> \in Seq(Words)
      BY Names DEF Words
    <3>2. << <<"return 0">> >> \in Seq(Seq(Words))
      BY <3>1, Pairs
    <3> QED BY <3>2 DEF Functions
  <2> QED BY <2>1, StepsAre DEF Plain
<1>11. ASSUME NEW r \in {Fresh, Gone}
       PROVE  Takes(Where(Receiving, r), StopRadio, Where(Gone, r)) /\ EndsWell(StopRadio)
  <2> DEFINE s == terminate \o Destructor["sdr"]
             t == Plain("main", << <<"return 0">> >>)
  <2>1. Leads(Receiving, s, Gone)
    BY <1>1, <1>3, Terminates, Destructs, Compose
  <2>2. s \in Seq(Step) /\ t \in Seq(Step)
    BY <2>1, <1>10 DEF Leads, Reaches
  <2> HIDE DEF s
  <2>3. Takes(Where(Receiving, r), On("sdr", s), Where(Gone, r))
    BY <1>1, <2>1, LiftSdr
  <2>4. /\ Takes(Where(Gone, r), On("sdr", t), Where(Gone, r)) /\ On("sdr", t) \in Seq(Call)
        /\ EndsWell(On("sdr", t))
    BY <1>1, <1>3, <1>9
  <2> HIDE DEF t
  <2>5. StopRadio = On("sdr", s) \o On("sdr", t)
    BY <1>3, <2>2, OnConcat DEF StopRadio, s, t
  <2>6. Takes(Where(Receiving, r), On("sdr", s) \o On("sdr", t), Where(Gone, r))
    BY <1>2, <2>3, <2>4, ComposeCalls
  <2>7. EndsWell(On("sdr", s) \o On("sdr", t))
    BY <2>3, <2>4, EndsConcat DEF Takes
  <2> QED BY <2>5, <2>6, <2>7
<1>12. Takes(Where(Fresh, Fresh), Created("phy"), Where(Fresh, Receiving))
  BY <1>1, <1>3, Creates, LiftPhy DEF Created
<1>13. Takes(Where(Fresh, Receiving), Blocks, Where(Fresh, Receiving))
  <2>1. <<"blocks">> \in Seq(Words) /\ "run" \in Functions /\ {} \in SUBSET Survived
    BY Names DEF Words, Functions
  <2>2. Makes(<<"blocks">>, Receiving, Receiving)
    BY DEF Makes, Exchanges, Receiving, Working, PhaseOf, Both
  <2>3. Leads(Receiving, Plain("run", << <<"blocks">> >>), Receiving)
    BY <1>1, <2>1, <2>2, OneCall, ErrorCopes DEF Plain
  <2>4. Leads(Receiving, writePins \o Plain("run", << <<"blocks">> >>), Receiving)
    BY <1>1, <1>6, <2>3, Compose
  <2> QED BY <1>1, <2>4, LiftPhy DEF Blocks
<1>14. Takes(Where(Fresh, Receiving), PhyOver, Where(Fresh, Gone)) /\ EndsWell(PhyOver)
  <2> DEFINE s == Destructor["phy"]
             t == Plain("main", << <<"return 0">> >>)
  <2>1. Leads(Receiving, s, Gone)
    BY <1>3, Destructs
  <2>2. s \in Seq(Step) /\ t \in Seq(Step)
    BY <2>1, <1>10 DEF Leads, Reaches
  <2> HIDE DEF s
  <2>3. Takes(Where(Fresh, Receiving), On("phy", s), Where(Fresh, Gone))
    BY <1>1, <2>1, LiftPhy
  <2>4. /\ Takes(Where(Fresh, Gone), On("phy", t), Where(Fresh, Gone)) /\ On("phy", t) \in Seq(Call)
        /\ EndsWell(On("phy", t))
    BY <1>1, <1>3, <1>9
  <2> HIDE DEF t
  <2>5. PhyOver = On("phy", s) \o On("phy", t)
    BY <1>3, <2>2, OnConcat DEF PhyOver, s, t
  <2>6. Takes(Where(Fresh, Receiving), On("phy", s) \o On("phy", t), Where(Fresh, Gone))
    BY <1>2, <2>3, <2>4, ComposeCalls
  <2>7. EndsWell(On("phy", s) \o On("phy", t))
    BY <2>3, <2>4, EndsConcat DEF Takes
  <2> QED BY <2>5, <2>6, <2>7
<1> QED BY <1>5, <1>7, <1>8, <1>11, <1>12, <1>13, <1>14

(* Every program can be followed from its first call to its last.          *)
Start == Where(Fresh, Fresh)

LEMMA Agendas ==
  ASSUME NEW name \in Programs
  PROVE  EndsWell(agenda[name]) /\ \E y : Takes(Start, agenda[name], y)
<1>1. /\ Fresh \in Phase /\ Receiving \in Phase /\ Gone \in Phase
      /\ Flowing(Fresh) /\ Flowing(Receiving) /\ Flowing(Gone)
  BY PhasesAreTyped, PhasesFlow
<1>2. \A p, q \in {Fresh, Receiving, Gone} : Idle(Where(p, q))
  BY <1>1, Places
<1>3. \A x, y, z, s, t : Takes(x, s, y) /\ Takes(y, t, z) /\ Idle(y) => Takes(x, s \o t, z)
  BY ComposeCalls
<1>4. \A x, y, z, s, t : Takes(x, s, y) /\ t \in Seq(Call) /\ EndsWell(t) => EndsWell(s \o t)
  BY EndsConcat DEF Takes
<1>5. \A x, s, y : Takes(x, s, y) => s \in Seq(Call)
  BY DEF Takes
<1>6. ASSUME NEW a \in {"while(SPECon)", "delete(t_sdr)"}
      PROVE  LET t == On("sdr", Plain("main", << <<a>> >>)) IN
             Takes(Where(Receiving, Fresh), t, Where(Receiving, Fresh)) /\ EndsWell(t)
  <2>1. a \in Words /\ a \in Silent /\ a \in Ends /\ "main" \in Functions /\ "sdr" \in Handle
    BY DEF Words, Silent, Ends, Functions, Handle
  <2>2. Leads(Receiving, Plain("main", << <<a>> >>), Receiving)
    BY <1>1, <2>1, Silently
  <2>3. Takes(Where(Receiving, Fresh), On("sdr", Plain("main", << <<a>> >>)), Where(Receiving, Fresh))
    BY <1>1, <2>2, LiftSdr
  <2> QED BY <2>1, <2>3, LastCalls
<1>7. /\ Takes(Start, StartRadio \o StopRadio, Where(Gone, Fresh))
      /\ EndsWell(StartRadio \o StopRadio)
  BY <1>2, <1>3, <1>4, <1>5, Pieces DEF Start
<1>8. /\ Takes(Start, StartRadio \o GpioTest \o StopRadio, Where(Gone, Fresh))
      /\ EndsWell(StartRadio \o GpioTest \o StopRadio)
  <2>1. Takes(Start, StartRadio \o GpioTest, Where(Receiving, Fresh))
    BY <1>2, <1>3, Pieces DEF Start
  <2> QED BY <2>1, <1>2, <1>3, <1>4, <1>5, Pieces
<1>9. /\ Takes(Start, StartRadio \o TemporaryPhy \o StopRadio, Where(Gone, Gone))
      /\ EndsWell(StartRadio \o TemporaryPhy \o StopRadio)
  <2>1. Takes(Start, StartRadio \o TemporaryPhy, Where(Receiving, Gone))
    BY <1>2, <1>3, Pieces DEF Start
  <2> QED BY <2>1, <1>2, <1>3, <1>4, <1>5, Pieces
<1>10. ASSUME NEW a \in {"while(SPECon)", "delete(t_sdr)"}
       PROVE  LET s == StartRadio \o On("sdr", Plain("main", << <<a>> >>)) IN
              Takes(Start, s, Where(Receiving, Fresh)) /\ EndsWell(s)
  BY <1>2, <1>3, <1>4, <1>5, <1>6, Pieces DEF Start
<1>11. /\ Takes(Start, Created("phy") \o Blocks \o PhyOver, Where(Fresh, Gone))
       /\ EndsWell(Created("phy") \o Blocks \o PhyOver)
  <2>1. Takes(Start, Created("phy") \o Blocks, Where(Fresh, Receiving))
    BY <1>2, <1>3, Pieces DEF Start
  <2> QED BY <2>1, <1>2, <1>3, <1>4, <1>5, Pieces
<1>12. name \in {"rpx", "rpx_s", "rpx_l", "rpx_p", "test_s", "test_p"}
  BY ProgramAssumption
<1>13. CASE name = "rpx"
  BY <1>7, <1>13 DEF agenda
<1>14. CASE name = "rpx_l"
  BY <1>8, <1>14 DEF agenda
<1>15. CASE name = "rpx_p"
  BY <1>9, <1>15 DEF agenda
<1>16. CASE name = "rpx_s" \/ name = "test_s"
  <2>1. \A a \in {"while(SPECon)", "delete(t_sdr)"} :
          /\ Takes(Start, StartRadio \o On("sdr", Plain("main", << <<a>> >>)), Where(Receiving, Fresh))
          /\ EndsWell(StartRadio \o On("sdr", Plain("main", << <<a>> >>)))
    BY <1>10
  <2>2. /\ agenda["rpx_s"] = StartRadio \o On("sdr", Plain("main", << <<"while(SPECon)">> >>))
        /\ agenda["test_s"] = StartRadio \o On("sdr", Plain("main", << <<"delete(t_sdr)">> >>))
    BY DEF agenda
  <2>3. /\ EndsWell(agenda["rpx_s"]) /\ Takes(Start, agenda["rpx_s"], Where(Receiving, Fresh))
        /\ EndsWell(agenda["test_s"]) /\ Takes(Start, agenda["test_s"], Where(Receiving, Fresh))
    BY <2>1, <2>2
  <2> QED BY <2>3, <1>16
<1>17. CASE name = "test_p"
  BY <1>11, <1>17 DEF agenda
<1> QED BY <1>12, <1>13, <1>14, <1>15, <1>16, <1>17

-----------------------------------------------------------------------------
(* The phases of a program, and the inductive invariant.                   *)
Journey == [name \in Programs |->
              CHOOSE g : Follows(agenda[name], g) /\ g[1] = Start]

LEMMA Journeys ==
  ASSUME NEW name \in Programs
  PROVE  /\ agenda[name] \in Seq(Call) /\ BailsOut(agenda[name]) /\ EndsWell(agenda[name])
         /\ Follows(agenda[name], Journey[name]) /\ Journey[name][1] = Start
<1>1. EndsWell(agenda[name]) /\ \E y : Takes(Start, agenda[name], y)
  BY Agendas
<1>2. \E g : Follows(agenda[name], g) /\ g[1] = Start
  BY <1>1 DEF Takes
<1>3. Journey[name] = CHOOSE g : Follows(agenda[name], g) /\ g[1] = Start
  BY DEF Journey
<1> QED BY <1>1, <1>2, <1>3 DEF Takes

(* A driver is in a phase.                                                 *)
Matches(h, p) ==
  /\ m_lms_device[h] = p.device /\ configured[h] = p.configured
  /\ \A d \in Direction :
       /\ p.stream[d] = "none" => stream[h][d] = "none"
       /\ p.stream[d] = "stopped" => stream[h][d] = "stopped"
       /\ p.stream[d] = "running" =>
            stream[h][d] = "started" \/ (stream[h][d] = "stopped" /\ d \in mute[h])
  /\ m_IQbuffer[h] = p.buffer
  /\ h \in deleted <=> p.deleted

OnTrack == \A h \in Handle : Matches(h, Journey[program][at][h])

(* initLimeSDR() has returned without a device: the next call fails.       *)
GaveUp ==
  /\ Now.failures = {"error"} /\ Now.call[1] = "LMS_GPIODirWrite"
  /\ \E x \in Phases : /\ \A h \in Handle : Matches(h, x[h])
                       /\ Idle(x) /\ x[Now.on].device = "NULL"

IInv ==
  /\ TypeOK
  /\ outcome = "running" => OnTrack \/ GaveUp
  /\ outcome \in {"exit", "exited"} => m_lms_device[Now.on] # "open"
  /\ outcome = "returned" =>
       \A h \in Handle : /\ m_lms_device[h] # "open"
                         /\ \A d \in Direction : m_IQbuffer[h][d] # "allocated"

(* The calls at which both streams have to be there.                       *)
Meetings == {"std::thread", "blocks"}

(* Which call it is says what it does to the phase.                        *)
LEMMA ByName ==
  ASSUME NEW call, NEW p, NEW q, Makes(call, p, q)
  PROVE  /\ call[1] = "LMS_Open" => Opens(call, p, q)
         /\ call \in Prepared => Configures(call, p, q)
         /\ call[1] \in Quiet \cup Silent => q = p
         /\ call[1] = "LMS_SetupStream" => Turns(call, p, q, "LMS_SetupStream", "none", "stopped")
         /\ call[1] = "LMS_StartStream" => Turns(call, p, q, "LMS_StartStream", "stopped", "running")
         /\ call[1] = "LMS_StopStream" => Turns(call, p, q, "LMS_StopStream", "running", "stopped")
         /\ call[1] = "LMS_DestroyStream" => Turns(call, p, q, "LMS_DestroyStream", "stopped", "none")
         /\ call[1] = "malloc" => Buffers(call, p, q, "malloc", "allocated")
         /\ call[1] = "free" => Buffers(call, p, q, "free", "freed")
         /\ call[1] = "LMS_Close" => Closes(call, p, q)
         /\ call[1] = "delete" => Deletes(call, p, q)
         /\ call[1] \in Meetings => Exchanges(call, p, q)
         /\ NeedsDevice(call) => p.device = "open"
         /\ call[1] # "return 0"
<1> DEFINE T(name, from, to) == Turns(call, p, q, name, from, to)
           B(name, state) == Buffers(call, p, q, name, state)
<1>1. /\ \A name, from, to : T(name, from, to) => call[1] = name /\ p.device = "open"
      /\ \A name, state : B(name, state) => call[1] = name
  <2>1. \A name, from, to : T(name, from, to) => call[1] = name
    BY DEF Turns
  <2>2. \A name, from, to : T(name, from, to) => p.device = "open"
    BY DEF Turns, IsReady
  <2>3. \A name, state : B(name, state) => call[1] = name
    BY DEF Buffers
  <2> QED BY <2>1, <2>2, <2>3
<1>2. call \in Prepared => call[1] \in {"LMS_Init", "LMS_EnableChannel", "LMS_SetLOFrequency",
                                        "LMS_SetSampleRate"}
  BY Preparations
<1>3. /\ Opens(call, p, q) => call[1] = "LMS_Open" /\ ~NeedsDevice(call)
      /\ Closes(call, p, q) => call[1] = "LMS_Close" /\ p.device = "open"
      /\ Deletes(call, p, q) => call[1] = "delete" /\ ~NeedsDevice(call)
      /\ Exchanges(call, p, q) => call[1] \in Meetings /\ p.device = "open"
  <2>1. /\ Opens(call, p, q) => call[1] = "LMS_Open"
        /\ Closes(call, p, q) => call[1] = "LMS_Close" /\ p.device = "open"
        /\ Deletes(call, p, q) => call[1] = "delete"
        /\ Exchanges(call, p, q) => call[1] \in Meetings /\ p.device = "open"
    <3>1. Opens(call, p, q) => call[1] = "LMS_Open"
      BY DEF Opens
    <3>2. Closes(call, p, q) => call[1] = "LMS_Close" /\ p.device = "open"
      BY DEF Closes
    <3>3. Deletes(call, p, q) => call[1] = "delete"
      BY DEF Deletes
    <3>4. Exchanges(call, p, q) => call[1] \in Meetings /\ p.device = "open"
      BY DEF Exchanges, Meetings
    <3> QED BY <3>1, <3>2, <3>3, <3>4
  <2> QED BY <2>1 DEF NeedsDevice
<1>4. /\ Configures(call, p, q) => call \in Prepared /\ p.device = "open"
      /\ Rests(call, p, q) => call[1] \in Quiet \cup Silent /\ q = p
                              /\ (NeedsDevice(call) => p.device = "open")
  BY DEF Configures, Rests, NeedsDevice, Silent
<1>5. B("malloc", "allocated") \/ B("free", "freed") => ~NeedsDevice(call)
  BY <1>1 DEF NeedsDevice
<1>6. \/ Opens(call, p, q) \/ Configures(call, p, q) \/ Rests(call, p, q)
      \/ T("LMS_SetupStream", "none", "stopped") \/ T("LMS_StartStream", "stopped", "running")
      \/ T("LMS_StopStream", "running", "stopped") \/ T("LMS_DestroyStream", "stopped", "none")
      \/ B("malloc", "allocated") \/ B("free", "freed")
      \/ Closes(call, p, q) \/ Deletes(call, p, q) \/ Exchanges(call, p, q)
  BY DEF Makes, Streams, Memories
<1> HIDE DEF T, B
<1>7. /\ call[1] = "LMS_Open" => Opens(call, p, q)
      /\ call \in Prepared => Configures(call, p, q)
      /\ call[1] \in Quiet \cup Silent => q = p
  BY <1>1, <1>2, <1>3, <1>4, <1>6 DEF Quiet, Silent, Meetings
<1>8. /\ call[1] = "LMS_SetupStream" => T("LMS_SetupStream", "none", "stopped")
      /\ call[1] = "LMS_StartStream" => T("LMS_StartStream", "stopped", "running")
      /\ call[1] = "LMS_StopStream" => T("LMS_StopStream", "running", "stopped")
      /\ call[1] = "LMS_DestroyStream" => T("LMS_DestroyStream", "stopped", "none")
  BY <1>1, <1>2, <1>3, <1>4, <1>6 DEF Quiet, Silent, Meetings
<1>9. /\ call[1] = "malloc" => B("malloc", "allocated")
      /\ call[1] = "free" => B("free", "freed")
  BY <1>1, <1>2, <1>3, <1>4, <1>6 DEF Quiet, Silent, Meetings
<1>11. /\ call[1] = "LMS_Close" => Closes(call, p, q)
       /\ call[1] = "delete" => Deletes(call, p, q)
       /\ call[1] \in Meetings => Exchanges(call, p, q)
  BY <1>1, <1>2, <1>3, <1>4, <1>6 DEF Quiet, Silent, Meetings
<1>12. call[1] # "return 0"
  BY NotReturn
<1>10. NeedsDevice(call) => p.device = "open"
  BY <1>1, <1>3, <1>4, <1>5, <1>6
<1> QED BY <1>7, <1>8, <1>9, <1>10, <1>11, <1>12 DEF T, B

(* Where a running program stands: on track, before a call that GoesOn     *)
(* allows, or given up.                                                    *)
LEMMA Standing ==
  ASSUME TypeOK, OnTrack
  PROVE  /\ Now \in Call /\ at \in 1 .. Len(agenda[program]) /\ DOMAIN agenda[program] = 1 .. Len(agenda[program])
         /\ Journey[program][at] \in Phases /\ Journey[program][at + 1] \in Phases
         /\ Goes(agenda[program], Journey[program], at)
         /\ Now.call[1] \notin Ends => at + 1 \in DOMAIN agenda[program]
<1> DEFINE s == agenda[program]
           g == Journey[program]
<1>1. program \in Programs /\ at \in DOMAIN s
  BY DEF TypeOK
<1>2. s \in Seq(Call) /\ EndsWell(s) /\ Follows(s, g)
  BY <1>1, Journeys
<1>3. DOMAIN s = 1 .. Len(s) /\ Len(s) \in Nat /\ \A i \in 1 .. Len(s) : s[i] \in Call
  BY <1>2, LenProperties, ElementOfSeq
<1> HIDE DEF s, g
<1>4. /\ s[at] \in Call /\ g[at] \in Phases /\ g[at + 1] \in Phases /\ Goes(s, g, at)
  BY <1>1, <1>2, <1>3 DEF Follows
<1>5. s[at].call[1] \notin Ends => at + 1 \in DOMAIN s
  BY <1>1, <1>2, <1>3 DEF EndsWell
<1> QED BY <1>1, <1>3, <1>4, <1>5 DEF Now, s, g

(* The thread ends only when it is told to.                                *)
ThreadOK ==
  /\ thread \in {"none", "loop", "receive", "ended", "undefined"} /\ stopping \in BOOLEAN
  /\ thread = "ended" => stopping

(* The data of the driver has its types, at every step of it.              *)
DataOK ==
  /\ m_lms_device \in [Handle -> {"NULL", "open", "closed"}]
  /\ configured \in [Handle -> SUBSET Prepared]
  /\ stream \in [Handle -> [Direction -> {"none", "stopped", "started"}]]
  /\ m_IQbuffer \in [Handle -> [Direction -> {"nullptr", "allocated", "freed"}]]
  /\ mute \in [Handle -> SUBSET Direction] /\ deleted \subseteq Handle

LEMMA InitHolds == Init => IInv
<1> SUFFICES ASSUME Init PROVE IInv
  OBVIOUS
<1>1. program \in Programs /\ at = 1 /\ outcome = "running"
  BY DEF Init
<1>2. /\ agenda[program] \in Seq(Call) /\ EndsWell(agenda[program]) /\ Journey[program][1] = Start
  BY <1>1, Journeys
<1>3. at \in DOMAIN agenda[program]
  BY <1>1, <1>2, LenProperties DEF EndsWell
<1>4. TypeOK
  BY <1>1, <1>3 DEF Init, TypeOK
<1>5. ASSUME NEW h \in Handle PROVE Matches(h, Start[h])
  <2>1. Start[h] = Fresh
    BY DEF Start, Where
  <2> QED BY <2>1 DEF Init, Matches, Fresh, PhaseOf, Both
<1>6. OnTrack
  BY <1>1, <1>2, <1>5 DEF OnTrack
<1> QED BY <1>1, <1>4, <1>6 DEF IInv

(* The call that is made is the one GoesOn describes.                      *)
LEMMA Made ==
  ASSUME IInv, NEW name, Doing(name), name # "return 0"
  PROVE  /\ OnTrack /\ Now \in Call /\ Now.call[1] = name /\ outcome = "running"
         /\ Journey[program][at] \in Phases /\ Journey[program][at + 1] \in Phases
         /\ Makes(Now.call, Journey[program][at][Now.on], Journey[program][at + 1][Now.on])
         /\ \A k \in Handle \ {Now.on} : Journey[program][at + 1][k] = Journey[program][at][k]
         /\ name \notin Ends => at + 1 \in DOMAIN agenda[program]
<1>1. outcome = "running" /\ Now.call[1] = name
      /\ (NeedsDevice(Now.call) => m_lms_device[Now.on] = "open")
  BY DEF Doing, Running
<1>2. TypeOK /\ (OnTrack \/ GaveUp)
  BY <1>1 DEF IInv
<1>4. ~GaveUp
  <2> SUFFICES ASSUME GaveUp PROVE FALSE
    OBVIOUS
  <2>1. NeedsDevice(Now.call)
    BY DEF GaveUp, NeedsDevice
  <2>2. PICK x \in Phases : /\ \A h \in Handle : Matches(h, x[h])
                            /\ x[Now.on].device = "NULL"
    BY DEF GaveUp
  <2>3. Now.on \in Handle
    <3>1. program \in Programs /\ at \in DOMAIN agenda[program]
      BY <1>2 DEF TypeOK
    <3>2. agenda[program] \in Seq(Call)
      BY <3>1, Journeys
    <3>3. Now \in Call
      BY <3>1, <3>2, LenProperties, ElementOfSeq DEF Now
    <3> QED BY <3>3 DEF Call
  <2>4. m_lms_device[Now.on] = "NULL"
    BY <2>2, <2>3 DEF Matches
  <2> QED BY <1>1, <2>1, <2>4
<1>5. OnTrack
  BY <1>2, <1>4
<1>6. /\ Now \in Call /\ Journey[program][at] \in Phases /\ Journey[program][at + 1] \in Phases
      /\ Goes(agenda[program], Journey[program], at)
      /\ Now.call[1] \notin Ends => at + 1 \in DOMAIN agenda[program]
  BY <1>2, <1>5, Standing
<1>7. GoesOn(Now, Journey[program][at], Journey[program][at + 1])
  BY <1>6 DEF Goes, Now
<1>8. Now.call # <<"return 0">>
  <2>1. <<"return 0">>[1] = "return 0"
    OBVIOUS
  <2>2. Now.call = <<"return 0">> => Now.call[1] = <<"return 0">>[1]
    OBVIOUS
  <2> QED BY <1>1, <2>1, <2>2, Zenon
<1> QED BY <1>1, <1>5, <1>6, <1>7, <1>8 DEF GoesOn

(* After the call, the program is on track at the next place.              *)
LEMMA Onward ==
  ASSUME TypeOK, outcome = "running", at' = at + 1, UNCHANGED <<program, outcome>>,
         at + 1 \in DOMAIN agenda[program], DataOK',
         ThreadOK',
         NEW y, y = Journey[program][at + 1], \A k \in Handle : Matches(k, y[k])'
  PROVE  IInv'
<1>1. TypeOK'
  BY DEF TypeOK, DataOK, ThreadOK, Prepared
<1>2. OnTrack'
  BY DEF OnTrack
<1> QED BY <1>1, <1>2 DEF IInv

(* What a call does to the stream of a driver does not touch the other.    *)
LEMMA OtherDriver ==
  ASSUME NEW k \in Handle, NEW p, Matches(k, p),
         m_lms_device'[k] = m_lms_device[k], configured'[k] = configured[k],
         stream'[k] = stream[k], m_IQbuffer'[k] = m_IQbuffer[k], mute'[k] = mute[k],
         k \in deleted' <=> k \in deleted
  PROVE  Matches(k, p)'
BY DEF Matches

LEMMA StreamStep ==
  ASSUME IInv,
         NEW name \in {"LMS_SetupStream", "LMS_StartStream", "LMS_StopStream", "LMS_DestroyStream"},
         NEW state \in {"none", "stopped", "started"}, StreamCall(name, state),
         NEW from, NEW to,
         \A call, p, q : call[1] = name /\ Makes(call, p, q) => Turns(call, p, q, name, from, to),
         \/ to = state /\ to # "running" /\ UNCHANGED mute
         \/ to = "running" /\ state = "started" /\ mute' = [mute EXCEPT ![Now.on] = @ \ {Now.call[2]}]
  PROVE  IInv'
<1>1. PICK h, c, x, y : h = Now.on /\ c = Now.call /\ x = Journey[program][at]
                        /\ y = Journey[program][at + 1]
  OBVIOUS
<1>2. Doing(name) /\ name # "return 0" /\ name \notin Ends
  BY DEF StreamCall, Ends
<1>3. /\ OnTrack /\ h \in Handle /\ c[1] = name /\ outcome = "running"
      /\ x \in Phases /\ y \in Phases /\ Makes(c, x[h], y[h])
      /\ \A k \in Handle \ {h} : y[k] = x[k]
      /\ at + 1 \in DOMAIN agenda[program] /\ TypeOK
  BY <1>1, <1>2, Made DEF Call, IInv
<1>4. \A k \in Handle : Matches(k, x[k])
  BY <1>1, <1>3 DEF OnTrack
<1>5. PICK d \in Direction :
        /\ c = <<name, d>> /\ x[h].stream[d] = from
        /\ y[h] = PhaseOf(x[h].device, x[h].configured, [x[h].stream EXCEPT ![d] = to],
                          x[h].buffer, x[h].deleted)
  <2>1. Turns(c, x[h], y[h], name, from, to)
    BY <1>3
  <2> QED BY <2>1 DEF Turns
<1>6. c[2] = d
  BY <1>5
<1>7. /\ stream' = [stream EXCEPT ![h][d] = state]
      /\ UNCHANGED <<m_lms_device, configured, m_IQbuffer, deleted, thread, stopping>>
      /\ at' = at + 1 /\ UNCHANGED <<program, outcome>>
  BY <1>1, <1>2, <1>6 DEF StreamCall, Doing
<1>8. \/ to = state /\ to # "running" /\ mute' = mute
      \/ to = "running" /\ state = "started" /\ mute' = [mute EXCEPT ![h] = @ \ {d}]
  BY <1>1, <1>6
<1>9. DataOK'
  <2>1. mute' \in [Handle -> SUBSET Direction]
    BY <1>3, <1>8 DEF TypeOK
  <2>2. stream' \in [Handle -> [Direction -> {"none", "stopped", "started"}]]
    BY <1>3, <1>7 DEF TypeOK
  <2> QED BY <1>3, <1>7, <2>1, <2>2 DEF DataOK, TypeOK, Prepared
<1>10. ASSUME NEW k \in Handle \ {h} PROVE Matches(k, y[k])'
  <2>1. mute'[k] = mute[k] /\ stream'[k] = stream[k]
    BY <1>3, <1>7, <1>8 DEF TypeOK
  <2>2. y[k] = x[k] /\ Matches(k, x[k])
    BY <1>3, <1>4
  <2> QED BY <2>1, <2>2, <1>7, OtherDriver
<1>11. Matches(h, y[h])'
  <2>1. /\ y[h].device = x[h].device /\ y[h].configured = x[h].configured
        /\ y[h].buffer = x[h].buffer /\ y[h].deleted = x[h].deleted
        /\ y[h].stream = [x[h].stream EXCEPT ![d] = to]
    BY <1>5 DEF PhaseOf
  <2>2. x[h].stream \in [Direction -> {"none", "stopped", "running"}]
    BY <1>3 DEF Phases, Phase
  <2>3. y[h].stream[d] = to /\ \A e \in Direction \ {d} : y[h].stream[e] = x[h].stream[e]
    BY <2>1, <2>2
  <2>4. stream'[h][d] = state /\ \A e \in Direction \ {d} : stream'[h][e] = stream[h][e]
    BY <1>3, <1>7 DEF TypeOK
  <2>5. \A e \in Direction \ {d} : e \in mute'[h] <=> e \in mute[h]
    BY <1>3, <1>8 DEF TypeOK
  <2>6. Matches(h, x[h])
    BY <1>3, <1>4
  <2>7. /\ m_lms_device'[h] = y[h].device /\ configured'[h] = y[h].configured
        /\ m_IQbuffer'[h] = y[h].buffer /\ (h \in deleted' <=> y[h].deleted)
    BY <1>7, <2>1, <2>6 DEF Matches
  <2>8. ASSUME NEW e \in Direction
        PROVE  /\ y[h].stream[e] = "none" => stream'[h][e] = "none"
               /\ y[h].stream[e] = "stopped" => stream'[h][e] = "stopped"
               /\ y[h].stream[e] = "running" =>
                    stream'[h][e] = "started" \/ (stream'[h][e] = "stopped" /\ e \in mute'[h])
    <3>1. CASE e = d
      BY <3>1, <2>3, <2>4, <1>8
    <3>2. CASE e # d
      BY <3>2, <2>3, <2>4, <2>5, <2>6 DEF Matches
    <3> QED BY <3>1, <3>2
  <2> QED BY <2>7, <2>8 DEF Matches
<1>12. ThreadOK'
  BY <1>3, <1>7 DEF TypeOK, ThreadOK
<1> QED BY <1>1, <1>3, <1>7, <1>9, <1>10, <1>11, <1>12, Onward

(* The same for a call that changes something else.                        *)
LEMMA Advance ==
  ASSUME IInv, NEW name, Doing(name), name \notin Ends, NEW h, h = Now.on,
         NEW y, y = Journey[program][at + 1], DataOK',
         ThreadOK',
         \A k \in Handle \ {h} : /\ m_lms_device'[k] = m_lms_device[k]
                                 /\ configured'[k] = configured[k]
                                 /\ stream'[k] = stream[k] /\ m_IQbuffer'[k] = m_IQbuffer[k]
                                 /\ mute'[k] = mute[k] /\ (k \in deleted' <=> k \in deleted),
         Matches(h, y[h])'
  PROVE  IInv'
<1>1. name # "return 0"
  BY DEF Ends
<1>2. /\ OnTrack /\ h \in Handle /\ outcome = "running" /\ at + 1 \in DOMAIN agenda[program]
      /\ \A k \in Handle \ {h} : y[k] = Journey[program][at][k]
      /\ TypeOK
  BY <1>1, Made DEF Call, IInv
<1>3. at' = at + 1 /\ UNCHANGED <<program, outcome>>
  BY DEF Doing
<1>4. ASSUME NEW k \in Handle \ {h} PROVE Matches(k, y[k])'
  <2>1. Matches(k, y[k])
    BY <1>2 DEF OnTrack
  <2> QED BY <2>1, OtherDriver
<1> QED BY <1>2, <1>3, <1>4, Onward

LEMMA MemoryStep ==
  ASSUME IInv, NEW name \in {"malloc", "free"}, NEW state \in {"allocated", "freed"},
         Memory(name, state),
         \A call, p, q : call[1] = name /\ Makes(call, p, q) => Buffers(call, p, q, name, state)
  PROVE  IInv'
<1>1. PICK h, c, x, y : h = Now.on /\ c = Now.call /\ x = Journey[program][at]
                        /\ y = Journey[program][at + 1]
  OBVIOUS
<1>2. Doing(name) /\ name # "return 0" /\ name \notin Ends
  BY DEF Memory, Ends
<1>3. /\ OnTrack /\ h \in Handle /\ c[1] = name /\ x \in Phases /\ Makes(c, x[h], y[h]) /\ TypeOK
  BY <1>1, <1>2, Made DEF Call, IInv
<1>4. Matches(h, x[h])
  BY <1>1, <1>3 DEF OnTrack
<1>5. PICK d \in Direction :
        /\ c = <<name, d>>
        /\ y[h] = PhaseOf(x[h].device, x[h].configured, x[h].stream,
                          [x[h].buffer EXCEPT ![d] = state], x[h].deleted)
  <2>1. Buffers(c, x[h], y[h], name, state)
    BY <1>3
  <2> QED BY <2>1 DEF Buffers
<1>6. c[2] = d
  BY <1>5
<1>7. /\ m_IQbuffer' = [m_IQbuffer EXCEPT ![h][d] = state]
      /\ UNCHANGED <<m_lms_device, configured, stream, mute, deleted, thread, stopping>>
  BY <1>1, <1>6 DEF Memory
<1>8. m_IQbuffer' \in [Handle -> [Direction -> {"nullptr", "allocated", "freed"}]]
  BY <1>3, <1>7 DEF TypeOK
<1>9. DataOK'
  BY <1>3, <1>7, <1>8 DEF DataOK, TypeOK, Prepared
<1>10. Matches(h, y[h])'
  <2>1. /\ y[h].device = x[h].device /\ y[h].configured = x[h].configured
        /\ y[h].buffer = [x[h].buffer EXCEPT ![d] = state] /\ y[h].deleted = x[h].deleted
        /\ y[h].stream = x[h].stream
    BY <1>5 DEF PhaseOf
  <2>2. m_IQbuffer'[h] = [m_IQbuffer[h] EXCEPT ![d] = state]
    BY <1>3, <1>7 DEF TypeOK
  <2> QED BY <1>4, <1>7, <2>1, <2>2 DEF Matches
<1>11. \A k \in Handle \ {h} : m_IQbuffer'[k] = m_IQbuffer[k]
  BY <1>3, <1>7 DEF TypeOK
<1>12. ThreadOK'
  BY <1>3, <1>7 DEF TypeOK, ThreadOK
<1> QED BY <1>1, <1>2, <1>7, <1>9, <1>10, <1>11, <1>12, Advance

(* The calls that change the device, and those that change no driver.      *)
LEMMA DeviceStep ==
  ASSUME IInv, OpenDevice \/ Configure \/ CloseDevice \/ Delete
  PROVE  IInv'
<1>1. PICK h, c, x, y : h = Now.on /\ c = Now.call /\ x = Journey[program][at]
                        /\ y = Journey[program][at + 1]
  OBVIOUS
<1>2. PICK name : Doing(name) /\ name # "return 0" /\ name \notin Ends
                  /\ (OpenDevice => name = "LMS_Open") /\ (Configure => c \in Prepared)
                  /\ (CloseDevice => name = "LMS_Close") /\ (Delete => name = "delete")
  <2>1. CASE Configure
    <3>1. c \in Prepared /\ Doing(c[1])
      BY <2>1, <1>1 DEF Configure, Prepared
    <3>2. c[1] \in {"LMS_Init", "LMS_EnableChannel", "LMS_SetLOFrequency", "LMS_SetSampleRate"}
      BY <3>1, Preparations
    <3>3. c[1] = Now.call[1]
      BY <1>1
    <3>4. ~OpenDevice /\ ~CloseDevice /\ ~Delete
      BY <3>2, <3>3 DEF OpenDevice, CloseDevice, Delete, Doing
    <3> QED BY <3>1, <3>2, <3>4 DEF Ends
  <2>2. CASE ~Configure
    <3>1. \A a, b : Doing(a) /\ Doing(b) => a = b
      BY DEF Doing
    <3> QED BY <2>2, <3>1 DEF OpenDevice, CloseDevice, Delete, Ends
  <2> QED BY <2>1, <2>2
<1>3. /\ OnTrack /\ h \in Handle /\ c[1] = name /\ x \in Phases /\ Makes(c, x[h], y[h]) /\ TypeOK
  BY <1>1, <1>2, Made DEF Call, IInv
<1>4. Matches(h, x[h])
  BY <1>1, <1>3 DEF OnTrack
<1>5. CASE OpenDevice
  <2>1. Opens(c, x[h], y[h])
    BY <1>2, <1>3, <1>5, ByName
  <2>2. /\ m_lms_device' = [m_lms_device EXCEPT ![h] = "open"]
        /\ UNCHANGED <<configured, stream, m_IQbuffer, mute, deleted, thread, stopping>>
    BY <1>1, <1>5 DEF OpenDevice
  <2>3. DataOK'
    BY <1>3, <2>2 DEF DataOK, TypeOK, Prepared
  <2>4. /\ y[h].device = "open" /\ y[h].configured = x[h].configured /\ y[h].stream = x[h].stream
        /\ y[h].buffer = x[h].buffer /\ y[h].deleted = x[h].deleted
    BY <2>1 DEF Opens, PhaseOf
  <2>5. Matches(h, y[h])'
    BY <1>3, <1>4, <2>2, <2>4 DEF Matches, TypeOK
  <2>6. \A k \in Handle \ {h} : m_lms_device'[k] = m_lms_device[k]
    BY <1>3, <2>2 DEF TypeOK
  <2>7. ThreadOK'
    BY <1>3, <2>2 DEF TypeOK, ThreadOK
  <2> QED BY <1>1, <1>2, <2>2, <2>3, <2>5, <2>6, <2>7, Advance
<1>6. CASE Configure
  <2>1. Configures(c, x[h], y[h])
    BY <1>2, <1>3, <1>6, ByName
  <2>2. /\ configured' = [configured EXCEPT ![h] = @ \cup {c}]
        /\ UNCHANGED <<m_lms_device, stream, m_IQbuffer, mute, deleted, thread, stopping>>
    BY <1>1, <1>6 DEF Configure
  <2>3. configured' \in [Handle -> SUBSET Prepared]
    BY <1>2, <1>3, <1>6, <2>2 DEF TypeOK, Prepared
  <2>4. DataOK'
    BY <1>3, <2>2, <2>3 DEF DataOK, TypeOK
  <2>5. /\ y[h].device = x[h].device /\ y[h].configured = x[h].configured \cup {c}
        /\ y[h].stream = x[h].stream /\ y[h].buffer = x[h].buffer /\ y[h].deleted = x[h].deleted
    BY <2>1 DEF Configures, PhaseOf
  <2>6. Matches(h, y[h])'
    BY <1>3, <1>4, <2>2, <2>5 DEF Matches, TypeOK
  <2>7. \A k \in Handle \ {h} : configured'[k] = configured[k]
    BY <1>3, <2>2 DEF TypeOK
  <2>8. ThreadOK'
    BY <1>3, <2>2 DEF TypeOK, ThreadOK
  <2> QED BY <1>1, <1>2, <2>2, <2>4, <2>6, <2>7, <2>8, Advance
<1>7. CASE CloseDevice
  <2>1. Closes(c, x[h], y[h])
    BY <1>2, <1>3, <1>7, ByName
  <2>2. /\ m_lms_device' = [m_lms_device EXCEPT ![h] = "closed"]
        /\ stream' = [stream EXCEPT ![h] = [d \in Direction |-> "none"]]
        /\ UNCHANGED <<configured, m_IQbuffer, mute, deleted, thread, stopping>>
    BY <1>1, <1>7 DEF CloseDevice, Closed
  <2>3. DataOK'
    BY <1>3, <2>2 DEF DataOK, TypeOK, Prepared
  <2>4. /\ y[h].device = "closed" /\ y[h].configured = x[h].configured
        /\ y[h].stream = [d \in Direction |-> "none"]
        /\ y[h].buffer = x[h].buffer /\ y[h].deleted = x[h].deleted
    BY <2>1 DEF Closes, PhaseOf
  <2>5. m_lms_device'[h] = "closed" /\ stream'[h] = [d \in Direction |-> "none"]
    BY <1>3, <2>2 DEF TypeOK
  <2>6. Matches(h, y[h])'
    BY <1>4, <2>2, <2>4, <2>5 DEF Matches
  <2>7. \A k \in Handle \ {h} : m_lms_device'[k] = m_lms_device[k] /\ stream'[k] = stream[k]
    BY <1>3, <2>2 DEF TypeOK
  <2>8. ThreadOK'
    BY <1>3, <2>2 DEF TypeOK, ThreadOK
  <2> QED BY <1>1, <1>2, <2>2, <2>3, <2>6, <2>7, <2>8, Advance
<1>8. CASE Delete
  <2>1. Deletes(c, x[h], y[h])
    BY <1>2, <1>3, <1>8, ByName
  <2>2. /\ deleted' = deleted \cup {h}
        /\ UNCHANGED <<m_lms_device, configured, stream, m_IQbuffer, mute, thread, stopping>>
    BY <1>1, <1>8 DEF Delete
  <2>3. DataOK'
    BY <1>3, <2>2 DEF DataOK, TypeOK, Prepared
  <2>4. /\ y[h].device = x[h].device /\ y[h].configured = x[h].configured
        /\ y[h].stream = x[h].stream /\ y[h].buffer = x[h].buffer /\ y[h].deleted = TRUE
    BY <2>1 DEF Deletes, PhaseOf
  <2>5. Matches(h, y[h])'
    BY <1>4, <2>2, <2>4 DEF Matches
  <2>6. ThreadOK'
    BY <1>3, <2>2 DEF TypeOK, ThreadOK
  <2> QED BY <1>1, <1>2, <2>2, <2>3, <2>5, <2>6, Advance
<1> QED BY <1>5, <1>6, <1>7, <1>8

LEMMA QuietStep ==
  ASSUME IInv, Adjust \/ StartThread \/ RequestStop \/ ExchangeBlocks
  PROVE  IInv'
<1>1. PICK h, c, x, y : h = Now.on /\ c = Now.call /\ x = Journey[program][at]
                        /\ y = Journey[program][at + 1]
  OBVIOUS
<1>2. PICK name : Doing(name) /\ name # "return 0" /\ name \notin Ends
                  /\ name \in Quiet \cup Silent \cup Meetings
  BY DEF Adjust, StartThread, RequestStop, ExchangeBlocks, Quiet, Silent, Meetings, Ends
<1>3. /\ OnTrack /\ h \in Handle /\ c[1] = name /\ x \in Phases /\ Makes(c, x[h], y[h]) /\ TypeOK
  BY <1>1, <1>2, Made DEF Call, IInv
<1>4. Matches(h, x[h])
  BY <1>1, <1>3 DEF OnTrack
<1>5. y[h] = x[h]
  <2>1. CASE name \in Quiet \cup Silent
    BY <2>1, <1>3, ByName
  <2>2. CASE name \in Meetings
    <3>1. Exchanges(c, x[h], y[h])
      BY <2>2, <1>3, ByName
    <3> QED BY <3>1 DEF Exchanges
  <2> QED BY <1>2, <2>1, <2>2
<1>6. UNCHANGED driver
  BY DEF Adjust, StartThread, RequestStop, ExchangeBlocks
<1>7. DataOK'
  BY <1>3, <1>6 DEF DataOK, TypeOK, Prepared, driver
<1>8. Matches(h, y[h])'
  BY <1>4, <1>5, <1>6 DEF Matches, driver
<1>9. ThreadOK'
  BY <1>3 DEF TypeOK, ThreadOK, Adjust, StartThread, RequestStop, ExchangeBlocks
<1> QED BY <1>1, <1>2, <1>6, <1>7, <1>8, <1>9, Advance DEF driver

(* A failure that is ignored: the stream stays stopped, and is mute.       *)
LEMMA IgnoredStep == ASSUME IInv, FailIgnored PROVE IInv'
<1>1. PICK h, c, x, y : h = Now.on /\ c = Now.call /\ x = Journey[program][at]
                        /\ y = Journey[program][at + 1]
  OBVIOUS
<1>2. "ignored" \in Now.failures /\ outcome = "running" /\ at' = at + 1
      /\ UNCHANGED <<program, outcome, m_lms_device, configured, stream, m_IQbuffer, deleted,
                     thread, stopping>>
  BY DEF FailIgnored, Failing, Running
<1>3. OnTrack /\ TypeOK
  BY <1>2 DEF IInv, GaveUp
<1>4. /\ Now \in Call /\ x \in Phases /\ Goes(agenda[program], Journey[program], at)
      /\ Now.call[1] \notin Ends => at + 1 \in DOMAIN agenda[program]
  BY <1>1, <1>3, Standing
<1>5. GoesOn(Now, x, y) /\ h \in Handle
  BY <1>1, <1>4 DEF Goes, Now, Call
<1>6. c[1] \in {"LMS_StartStream", "LMS_Calibrate"}
  BY <1>1, <1>2, <1>5 DEF GoesOn, Copes
<1>7. at + 1 \in DOMAIN agenda[program]
  BY <1>1, <1>4, <1>6 DEF Ends
<1>8. c # <<"return 0">>
  <2>1. <<"return 0">>[1] = "return 0"
    OBVIOUS
  <2>2. c = <<"return 0">> => c[1] = <<"return 0">>[1]
    OBVIOUS
  <2> QED BY <1>6, <2>1, <2>2
<1>9. Makes(c, x[h], y[h]) /\ \A k \in Handle \ {h} : y[k] = x[k]
  BY <1>1, <1>5, <1>8 DEF GoesOn
<1>10. \A k \in Handle : Matches(k, x[k])
  BY <1>1, <1>3 DEF OnTrack
<1>11. CASE c[1] = "LMS_Calibrate"
  <2>1. y[h] = x[h]
    BY <1>9, <1>11, ByName DEF Quiet
  <2>2. mute' = mute
    BY <1>1, <1>11 DEF FailIgnored
  <2>3. \A k \in Handle : Matches(k, y[k])'
    BY <1>2, <1>9, <1>10, <2>1, <2>2 DEF Matches
  <2>4. DataOK'
    BY <1>2, <1>3, <2>2 DEF DataOK, TypeOK, Prepared
  <2>5. ThreadOK'
    BY <1>2, <1>3 DEF TypeOK, ThreadOK
  <2> QED BY <1>1, <1>2, <1>3, <1>7, <2>3, <2>4, <2>5, Onward
<1>12. CASE c[1] = "LMS_StartStream"
  <2>1. PICK d \in Direction :
          /\ c = <<"LMS_StartStream", d>> /\ x[h].stream[d] = "stopped"
          /\ y[h] = PhaseOf(x[h].device, x[h].configured, [x[h].stream EXCEPT ![d] = "running"],
                            x[h].buffer, x[h].deleted)
    <3>1. Turns(c, x[h], y[h], "LMS_StartStream", "stopped", "running")
      BY <1>9, <1>12, ByName
    <3> QED BY <3>1 DEF Turns
  <2>2. c[2] = d
    BY <2>1
  <2>3. mute' = [mute EXCEPT ![h] = @ \cup {d}]
    BY <1>1, <1>12, <2>2 DEF FailIgnored
  <2>4. DataOK'
    <3>1. mute' \in [Handle -> SUBSET Direction]
      BY <1>3, <2>3 DEF TypeOK
    <3> QED BY <3>1, <1>2, <1>3 DEF DataOK, TypeOK, Prepared
  <2>5. ASSUME NEW k \in Handle \ {h} PROVE Matches(k, y[k])'
    <3>1. mute'[k] = mute[k]
      BY <1>3, <2>3 DEF TypeOK
    <3> QED BY <3>1, <1>2, <1>9, <1>10 DEF Matches
  <2>6. Matches(h, y[h])'
    <3>1. /\ y[h].device = x[h].device /\ y[h].configured = x[h].configured
          /\ y[h].buffer = x[h].buffer /\ y[h].deleted = x[h].deleted
          /\ y[h].stream = [x[h].stream EXCEPT ![d] = "running"]
      BY <2>1 DEF PhaseOf
    <3>2. x[h].stream \in [Direction -> {"none", "stopped", "running"}]
      BY <1>4, <1>5 DEF Phases, Phase
    <3>3. y[h].stream[d] = "running" /\ \A e \in Direction \ {d} : y[h].stream[e] = x[h].stream[e]
      BY <3>1, <3>2
    <3>4. d \in mute'[h] /\ \A e \in Direction \ {d} : e \in mute'[h] <=> e \in mute[h]
      BY <1>3, <1>5, <2>3 DEF TypeOK
    <3>5. Matches(h, x[h])
      BY <1>5, <1>10
    <3>6. stream'[h][d] = "stopped"
      BY <1>2, <2>1, <3>5 DEF Matches
    <3>7. ASSUME NEW e \in Direction
          PROVE  /\ y[h].stream[e] = "none" => stream'[h][e] = "none"
                 /\ y[h].stream[e] = "stopped" => stream'[h][e] = "stopped"
                 /\ y[h].stream[e] = "running" =>
                      stream'[h][e] = "started" \/ (stream'[h][e] = "stopped" /\ e \in mute'[h])
      <4>1. CASE e = d
        BY <4>1, <3>3, <3>4, <3>6
      <4>2. CASE e # d
        BY <4>2, <1>2, <3>3, <3>4, <3>5 DEF Matches
      <4> QED BY <4>1, <4>2
    <3>8. /\ m_lms_device'[h] = y[h].device /\ configured'[h] = y[h].configured
          /\ m_IQbuffer'[h] = y[h].buffer /\ (h \in deleted' <=> y[h].deleted)
      BY <1>2, <3>1, <3>5 DEF Matches
    <3> QED BY <3>7, <3>8 DEF Matches
  <2>7. ThreadOK'
    BY <1>2, <1>3 DEF TypeOK, ThreadOK
  <2> QED BY <1>1, <1>2, <1>3, <1>7, <2>4, <2>5, <2>6, <2>7, Onward
<1> QED BY <1>6, <1>11, <1>12

(* initLimeSDR() returns without a device: the next call is one that needs *)
(* it, of the same driver.                                                 *)
LEMMA ReturnStep == ASSUME IInv, FailReturn PROVE IInv'
<1>1. PICK x : x = Journey[program][at]
  OBVIOUS
<1>2. "return" \in Now.failures /\ outcome = "running"
      /\ UNCHANGED <<program, outcome, driver, thread, stopping>>
  BY DEF FailReturn, Failing, Running
<1>3. OnTrack /\ TypeOK
  BY <1>2 DEF IInv, GaveUp
<1>4. /\ Now \in Call /\ x \in Phases /\ Goes(agenda[program], Journey[program], at)
      /\ at \in 1 .. Len(agenda[program])
      /\ DOMAIN agenda[program] = 1 .. Len(agenda[program])
  BY <1>1, <1>3, Standing
<1>5. Now.on \in Handle /\ x[Now.on].device = "NULL" /\ Idle(x)
  BY <1>1, <1>2, <1>4 DEF Goes, GoesOn, Copes, Now, Call
<1>6. agenda[program] \in Seq(Call) /\ BailsOut(agenda[program])
  BY <1>3, Journeys DEF TypeOK
<1> DEFINE s == agenda[program]
<1>7. PICK j \in at + 1 .. Len(s) :
        /\ s[j].function # Now.function /\ s[j].on = Now.on
        /\ \A k \in at .. j - 1 : s[k].function = Now.function
        /\ s[j].failures = {"error"} /\ s[j].call[1] = "LMS_GPIODirWrite"
  BY <1>2, <1>4, <1>6 DEF BailsOut, Now
<1>8. Len(s) \in Nat
  BY <1>6, LenProperties
<1> DEFINE P(i) == s[i].function # Now.function /\ \A k \in at .. i - 1 : s[k].function = Now.function
<1>9. at' = CHOOSE i \in at + 1 .. Len(s) : P(i)
  BY DEF FailReturn
<1>10. ASSUME NEW i \in at + 1 .. Len(s), P(i) PROVE i = j
  <2>1. CASE i < j
    <3>1. i \in at .. j - 1
      BY <1>4, <1>8, <2>1
    <3> QED BY <3>1, <1>7, <1>10
  <2>2. CASE j < i
    <3>1. j \in at .. i - 1
      BY <1>4, <1>8, <2>2
    <3> QED BY <3>1, <1>7, <1>10
  <2> QED BY <1>4, <1>8, <2>1, <2>2
<1>11. P(j)
  BY <1>7
<1> HIDE DEF P
<1>12. at' = j
  BY <1>9, <1>10, <1>11
<1>13. j \in DOMAIN s
  BY <1>4, <1>8
<1>14. Now' = s[j]
  BY <1>2, <1>12 DEF Now
<1>15. TypeOK'
  BY <1>2, <1>3, <1>12, <1>13 DEF TypeOK, driver
<1>16. \A h \in Handle : Matches(h, x[h])'
  BY <1>1, <1>2, <1>3 DEF OnTrack, Matches, driver
<1>17. GaveUp'
  <2>1. Now'.failures = {"error"} /\ Now'.call[1] = "LMS_GPIODirWrite" /\ x[Now'.on].device = "NULL"
    BY <1>5, <1>7, <1>14
  <2> QED BY <1>4, <1>5, <1>16, <2>1 DEF GaveUp, NeedsDevice
<1> QED BY <1>2, <1>15, <1>17 DEF IInv

LEMMA NowIsCall == ASSUME TypeOK PROVE Now \in Call
<1>1. program \in Programs /\ at \in DOMAIN agenda[program]
  BY DEF TypeOK
<1>2. agenda[program] \in Seq(Call)
  BY <1>1, Journeys
<1> QED BY <1>1, <1>2, LenProperties, ElementOfSeq DEF Now

(* error() closes the device of the driver, if it has one.                 *)
LEMMA ErrorStep == ASSUME IInv, Error PROVE IInv'
<1>1. TypeOK /\ Now.on \in Handle
  BY NowIsCall DEF IInv, Call
<1>2. outcome' = "exit" /\ UNCHANGED <<program, at, configured, m_IQbuffer, mute, deleted, thread, stopping>>
  BY DEF Error
<1>3. Now' = Now
  BY <1>2 DEF Now
<1>4. CASE m_lms_device[Now.on] = "open"
  <2>1. /\ m_lms_device' = [m_lms_device EXCEPT ![Now.on] = "closed"]
        /\ stream' = [stream EXCEPT ![Now.on] = [d \in Direction |-> "none"]]
    BY <1>4 DEF Error, Closed
  <2>2. m_lms_device'[Now.on] = "closed"
    BY <1>1, <2>1 DEF TypeOK
  <2>3. TypeOK'
    BY <1>1, <1>2, <2>1 DEF TypeOK
  <2> QED BY <1>2, <1>3, <2>2, <2>3 DEF IInv
<1>5. CASE m_lms_device[Now.on] # "open"
  <2>1. UNCHANGED <<m_lms_device, stream>>
    BY <1>5 DEF Error
  <2>2. TypeOK'
    BY <1>1, <1>2, <2>1 DEF TypeOK
  <2> QED BY <1>2, <1>3, <1>5, <2>1, <2>2 DEF IInv
<1> QED BY <1>4, <1>5

LEMMA LeaveStep == ASSUME IInv, Leave PROVE IInv'
<1>1. TypeOK /\ outcome' = WayOut[outcome] /\ UNCHANGED <<program, at, driver, thread, stopping>>
  BY DEF Leave, IInv
<1>2. Now' = Now
  BY <1>1 DEF Now
<1>3. CASE outcome = "exit"
  <2>1. outcome' = "exited" /\ m_lms_device[Now.on] # "open"
    BY <1>1, <1>3 DEF WayOut, IInv
  <2>2. TypeOK'
    BY <1>1, <2>1 DEF TypeOK, driver
  <2> QED BY <1>1, <1>2, <2>1, <2>2 DEF IInv, driver
<1>4. CASE outcome = "running" /\ Now.call[1] = "return 0"
  <2>1. outcome' = "returned"
    BY <1>1, <1>4 DEF WayOut
  <2>2. TypeOK'
    BY <1>1, <2>1 DEF TypeOK, driver
  <2>3. OnTrack
    BY <1>4 DEF IInv, GaveUp, NeedsDevice
  <2>4. PICK x : x = Journey[program][at]
    OBVIOUS
  <2>5. Now \in Call /\ x \in Phases /\ Goes(agenda[program], Journey[program], at)
    BY <1>1, <2>3, <2>4, Standing
  <2>6. PICK y : y = Journey[program][at + 1]
    OBVIOUS
  <2>7. GoesOn(Now, x, y)
    BY <2>4, <2>5, <2>6 DEF Goes, Now
  <2>8. ~Makes(Now.call, x[Now.on], y[Now.on])
    BY <1>4, NotReturn
  <2>9. \A k \in Handle : Released(x[k])
    BY <2>7, <2>8 DEF GoesOn
  <2>10. \A h \in Handle : /\ m_lms_device[h] # "open"
                           /\ \A d \in Direction : m_IQbuffer[h][d] # "allocated"
    BY <2>3, <2>4, <2>9 DEF OnTrack, Matches, Released
  <2> QED BY <1>1, <2>1, <2>2, <2>10 DEF IInv, driver
<1>5. CASE outcome = "running" /\ Now.call[1] = "delete(t_sdr)"
  <2>1. outcome' = "aborted"
    BY <1>1, <1>5 DEF WayOut
  <2>2. TypeOK'
    BY <1>1, <2>1 DEF TypeOK, driver
  <2> QED BY <2>1, <2>2 DEF IInv
<1> QED BY <1>3, <1>4, <1>5 DEF Leave, Running

(* The steps beside the program, and those of nobody.                      *)
LEMMA Beside ==
  ASSUME IInv, UNCHANGED <<program, at, outcome, driver>>,
         ThreadOK'
  PROVE  IInv'
<1>1. TypeOK
  BY DEF IInv
<1>2. Now' = Now
  BY DEF Now
<1>3. TypeOK'
  BY <1>1 DEF TypeOK, ThreadOK, driver
<1>4. \A h \in Handle : \A p : Matches(h, p) => Matches(h, p)'
  BY DEF Matches, driver
<1>5. OnTrack => OnTrack'
  BY <1>4 DEF OnTrack
<1>6. GaveUp => GaveUp'
  BY <1>2, <1>4 DEF GaveUp
<1> QED BY <1>2, <1>3, <1>5, <1>6 DEF IInv, driver

LEMMA ThreadStep == ASSUME IInv, TestStopping \/ Receive \/ ThreadMisuse PROVE IInv'
<1>1. /\ UNCHANGED <<program, at, outcome, driver, stopping>>
      /\ thread' \in {"none", "loop", "receive", "ended", "undefined"}
      /\ thread' = "ended" => stopping
  BY DEF TestStopping, Receive, ThreadMisuse
<1>2. ThreadOK'
  BY <1>1 DEF IInv, TypeOK, ThreadOK
<1> QED BY <1>1, <1>2, Beside

LEMMA Inductive == IInv /\ [Next]_vars => IInv'
<1> SUFFICES ASSUME IInv, [Next]_vars PROVE IInv'
  OBVIOUS
<1>1. CASE SetupStream
  <2>1. \A call, p, q : call[1] = "LMS_SetupStream" /\ Makes(call, p, q) =>
                        Turns(call, p, q, "LMS_SetupStream", "none", "stopped")
    BY ByName
  <2> QED BY <1>1, <2>1, StreamStep DEF SetupStream
<1>2. CASE StartStream
  <2>1. \A call, p, q : call[1] = "LMS_StartStream" /\ Makes(call, p, q) =>
                        Turns(call, p, q, "LMS_StartStream", "stopped", "running")
    BY ByName
  <2> QED BY <1>2, <2>1, StreamStep DEF StartStream
<1>3. CASE StopStream
  <2>1. \A call, p, q : call[1] = "LMS_StopStream" /\ Makes(call, p, q) =>
                        Turns(call, p, q, "LMS_StopStream", "running", "stopped")
    BY ByName
  <2> QED BY <1>3, <2>1, StreamStep DEF StopStream
<1>4. CASE DestroyStream
  <2>1. \A call, p, q : call[1] = "LMS_DestroyStream" /\ Makes(call, p, q) =>
                        Turns(call, p, q, "LMS_DestroyStream", "stopped", "none")
    BY ByName
  <2> QED BY <1>4, <2>1, StreamStep DEF DestroyStream
<1>5. CASE Malloc
  <2>1. \A call, p, q : call[1] = "malloc" /\ Makes(call, p, q) =>
                        Buffers(call, p, q, "malloc", "allocated")
    BY ByName
  <2> QED BY <1>5, <2>1, MemoryStep DEF Malloc
<1>6. CASE Free
  <2>1. \A call, p, q : call[1] = "free" /\ Makes(call, p, q) => Buffers(call, p, q, "free", "freed")
    BY ByName
  <2> QED BY <1>6, <2>1, MemoryStep DEF Free
<1>7. CASE OpenDevice \/ Configure \/ CloseDevice \/ Delete
  BY <1>7, DeviceStep
<1>8. CASE Adjust \/ StartThread \/ RequestStop \/ ExchangeBlocks
  BY <1>8, QuietStep
<1>9. CASE FailIgnored
  BY <1>9, IgnoredStep
<1>10. CASE FailReturn
  BY <1>10, ReturnStep
<1>11. CASE Error
  BY <1>11, ErrorStep
<1>12. CASE Leave
  BY <1>12, LeaveStep
<1>13. CASE TestStopping \/ Receive \/ ThreadMisuse
  BY <1>13, ThreadStep
<1>14. CASE UNCHANGED vars
  <2>1. UNCHANGED <<program, at, outcome, driver, thread, stopping>>
    BY <1>14 DEF vars
  <2>2. ThreadOK'
    BY <2>1 DEF IInv, TypeOK, ThreadOK
  <2> QED BY <2>1, <2>2, Beside
<1> QED BY <1>1, <1>2, <1>3, <1>4, <1>5, <1>6, <1>7, <1>8, <1>9, <1>10, <1>11, <1>12, <1>13, <1>14
        DEF Next

LEMMA Invariance == Spec => []IInv
BY InitHolds, Inductive, PTL DEF Spec

-----------------------------------------------------------------------------
(* What the invariant says of a running program, property by property.     *)
LEMMA Used == IInv => UsesWhatIsThere
<1> SUFFICES ASSUME IInv, Running PROVE UsesWhatIsThere
  BY DEF UsesWhatIsThere
<1>1. PICK h, c, x, y : h = Now.on /\ c = Now.call /\ x = Journey[program][at]
                        /\ y = Journey[program][at + 1]
  OBVIOUS
<1>2. TypeOK /\ (OnTrack \/ GaveUp)
  BY DEF IInv, Running
<1>3. h \in Handle
  BY <1>1, <1>2, NowIsCall DEF Call
<1>4. CASE GaveUp
  <2>1. c[1] = "LMS_GPIODirWrite" /\ m_lms_device[h] = "NULL"
    BY <1>1, <1>3, <1>4 DEF GaveUp, Matches
  <2> QED BY <1>1, <2>1 DEF UsesWhatIsThere
<1>5. CASE OnTrack
  <2>1. Matches(h, x[h]) /\ x \in Phases
    BY <1>1, <1>2, <1>3, <1>5, Standing DEF OnTrack
  <2>2. GoesOn(Now, x, y)
    BY <1>1, <1>2, <1>5, Standing DEF Goes, Now
  <2>3. CASE c = <<"return 0">>
    <3>1. <<"return 0">>[1] = "return 0"
      OBVIOUS
    <3>2. c[1] = "return 0"
      BY <2>3, <3>1
    <3> QED BY <1>1, <3>2 DEF UsesWhatIsThere, NeedsDevice
  <2>4. CASE Makes(c, x[h], y[h])
    <3>1. NeedsDevice(c) => m_lms_device[h] # "closed"
      <4>1. NeedsDevice(c) => x[h].device = "open"
        BY <2>4, ByName
      <4> QED BY <4>1, <2>1 DEF Matches
    <3>2. ASSUME c[1] \in Meetings PROVE m_lms_device[h] = "open" /\ StreamsThere(h, Direction)
      <4>1. Exchanges(c, x[h], y[h])
        BY <2>4, <3>2, ByName
      <4>2. x[h].stream \in [Direction -> {"none", "stopped", "running"}]
        BY <1>3, <2>1 DEF Phases, Phase
      <4>3. \A d \in Direction : stream[h][d] # "none" /\ m_IQbuffer[h][d] = "allocated"
        BY <2>1, <4>1, <4>2 DEF Exchanges, Matches
      <4> QED BY <2>1, <4>1, <4>3 DEF Exchanges, Matches, StreamsThere
    <3>3. ASSUME c[1] = "free" PROVE m_IQbuffer[h][c[2]] # "freed"
      <4>1. Buffers(c, x[h], y[h], "free", "freed")
        BY <2>4, <3>3, ByName
      <4>2. PICK d \in Direction : c = <<"free", d>> /\ x[h].buffer[d] # "freed"
        BY <4>1 DEF Buffers
      <4>3. c[2] = d
        BY <4>2
      <4> QED BY <2>1, <4>2, <4>3 DEF Matches
    <3> QED BY <1>1, <3>1, <3>2, <3>3 DEF UsesWhatIsThere, Meetings
  <2> QED BY <1>1, <2>2, <2>3, <2>4 DEF GoesOn
<1> QED BY <1>2, <1>4, <1>5

LEMMA Streamed == IInv => Streaming
<1> SUFFICES ASSUME IInv, BetweenFunctions PROVE Streaming
  BY DEF Streaming
<1>1. TypeOK /\ (OnTrack \/ GaveUp)
  BY DEF IInv, BetweenFunctions, Running
<1>2. PICK x : Idle(x) /\ \A h \in Handle : Matches(h, x[h])
  <2>1. CASE GaveUp
    BY <2>1 DEF GaveUp
  <2>2. CASE OnTrack
    <3>1. Goes(agenda[program], Journey[program], at)
      BY <1>1, <2>2, Standing
    <3>2. at > 1 /\ agenda[program][at - 1].function # agenda[program][at].function
      BY DEF BetweenFunctions, Now
    <3>3. Idle(Journey[program][at])
      BY <3>1, <3>2 DEF Goes
    <3> QED BY <2>2, <3>3 DEF OnTrack
  <2> QED BY <1>1, <2>1, <2>2
<1>3. ASSUME NEW h \in Handle, NEW d \in Direction, m_IQbuffer[h][d] = "allocated"
      PROVE  stream[h][d] = "started" \/ d \in mute[h]
  <2>1. x[h].buffer[d] = "allocated"
    BY <1>2, <1>3 DEF Matches
  <2>2. x[h].stream[d] = "running"
    BY <1>2, <2>1 DEF Idle, Flowing
  <2> QED BY <1>2, <2>2 DEF Matches
<1> QED BY <1>3 DEF Streaming

-----------------------------------------------------------------------------
(* The refinement: each step of a program is one of the protocol, or none. *)
LEMMA PreparedSome == Prepared # {}
<1>1. Preparation[1] \in {Preparation[i] : i \in DOMAIN Preparation}
  BY DEF Preparation
<1> QED BY <1>1 DEF Prepared, ToSet

(* A stream turns, on a device that is ready; a mute stream that is        *)
(* stopped again stays as it is.                                           *)
LEMMA StreamTurns ==
  ASSUME IInv,
         NEW name \in {"LMS_SetupStream", "LMS_StartStream", "LMS_StopStream", "LMS_DestroyStream"},
         NEW state, StreamCall(name, state),
         NEW from \in {"none", "stopped", "running"}, NEW to,
         \A call, p, q : call[1] = name /\ Makes(call, p, q) => Turns(call, p, q, name, from, to),
         from = "running" => state = "stopped"
  PROVE  \E h \in Handle, d \in Direction :
           /\ m_lms_device[h] = "open" /\ configured[h] = Prepared
           /\ UNCHANGED <<m_lms_device, configured>>
           /\ \/ /\ stream[h][d] = (IF from = "running" THEN "started" ELSE from)
                 /\ stream' = [stream EXCEPT ![h][d] = state]
              \/ stream' = stream
<1>1. PICK h, c, x, y : h = Now.on /\ c = Now.call /\ x = Journey[program][at]
                        /\ y = Journey[program][at + 1]
  OBVIOUS
<1>2. Doing(name) /\ name # "return 0"
  BY DEF StreamCall
<1>3. /\ OnTrack /\ h \in Handle /\ c[1] = name /\ Makes(c, x[h], y[h]) /\ TypeOK
  BY <1>1, <1>2, Made DEF Call, IInv
<1>4. Matches(h, x[h])
  BY <1>1, <1>3 DEF OnTrack
<1>5. PICK d \in Direction : c = <<name, d>> /\ IsReady(x[h]) /\ x[h].stream[d] = from
  <2>1. Turns(c, x[h], y[h], name, from, to)
    BY <1>3
  <2> QED BY <2>1 DEF Turns
<1>6. c[2] = d
  BY <1>5
<1>7. stream' = [stream EXCEPT ![h][d] = state] /\ UNCHANGED <<m_lms_device, configured>>
  BY <1>1, <1>6 DEF StreamCall
<1>8. m_lms_device[h] = "open" /\ configured[h] = Prepared
  BY <1>4, <1>5 DEF Matches, IsReady
<1>9. \/ stream[h][d] = (IF from = "running" THEN "started" ELSE from)
      \/ stream[h][d] = "stopped" /\ state = "stopped"
  BY <1>4, <1>5 DEF Matches
<1>10. stream[h][d] = state => stream' = stream
  BY <1>3, <1>7 DEF TypeOK
<1> QED BY <1>3, <1>7, <1>8, <1>9, <1>10

LEMMA StepSimulation == IInv /\ IInv' /\ [Next]_vars => [Protocol!Next]_(Protocol!vars)
<1> SUFFICES ASSUME IInv, IInv', [Next]_vars PROVE [Protocol!Next]_(Protocol!vars)
  OBVIOUS
<1>1. TypeOK /\ TypeOK'
  BY DEF IInv
<1>2. ASSUME UNCHANGED <<m_lms_device, configured, stream>> PROVE UNCHANGED Protocol!vars
  BY <1>2 DEF Protocol!vars, Device
<1>3. ASSUME NEW h \in Handle, NEW d \in Direction, NEW from, NEW to,
             m_lms_device[h] = "open", configured[h] = Prepared,
             UNCHANGED <<m_lms_device, configured>>, stream[h][d] = from,
             stream' = [stream EXCEPT ![h][d] = to]
      PROVE  Protocol!Turn(h, d, from, to)
  <2>1. Device(h) = "ready"
    BY <1>3 DEF Device, Prepared
  <2> QED BY <1>3, <2>1 DEF Protocol!Turn, Device
<1>4. ASSUME NEW h \in Handle, NEW d \in Direction,
             Protocol!SetUp(h, d) \/ Protocol!Start(h, d) \/ Protocol!Stop(h, d)
             \/ Protocol!Destroy(h, d)
      PROVE  Protocol!Next
  BY <1>4 DEF Protocol!Next
<1>5. CASE SetupStream
  <2>1. \A call, p, q : call[1] = "LMS_SetupStream" /\ Makes(call, p, q) =>
                        Turns(call, p, q, "LMS_SetupStream", "none", "stopped")
    BY ByName
  <2>2. PICK h \in Handle, d \in Direction :
           /\ m_lms_device[h] = "open" /\ configured[h] = Prepared
           /\ UNCHANGED <<m_lms_device, configured>>
           /\ \/ stream[h][d] = "none" /\ stream' = [stream EXCEPT ![h][d] = "stopped"]
              \/ stream' = stream
    BY <1>5, <2>1, StreamTurns DEF SetupStream
  <2>3. Protocol!SetUp(h, d) \/ stream' = stream
    BY <1>3, <2>2 DEF Protocol!SetUp
  <2> QED BY <1>2, <1>4, <2>2, <2>3
<1>6. CASE StartStream
  <2>1. \A call, p, q : call[1] = "LMS_StartStream" /\ Makes(call, p, q) =>
                        Turns(call, p, q, "LMS_StartStream", "stopped", "running")
    BY ByName
  <2>2. PICK h \in Handle, d \in Direction :
           /\ m_lms_device[h] = "open" /\ configured[h] = Prepared
           /\ UNCHANGED <<m_lms_device, configured>>
           /\ \/ stream[h][d] = "stopped" /\ stream' = [stream EXCEPT ![h][d] = "started"]
              \/ stream' = stream
    <3>1. StreamCall("LMS_StartStream", "started")
      BY <1>6 DEF StartStream
    <3> QED BY <2>1, <3>1, StreamTurns
  <2>3. Protocol!Start(h, d) \/ stream' = stream
    BY <1>3, <2>2 DEF Protocol!Start
  <2> QED BY <1>2, <1>4, <2>2, <2>3
<1>7. CASE StopStream
  <2>1. \A call, p, q : call[1] = "LMS_StopStream" /\ Makes(call, p, q) =>
                        Turns(call, p, q, "LMS_StopStream", "running", "stopped")
    BY ByName
  <2>2. PICK h \in Handle, d \in Direction :
           /\ m_lms_device[h] = "open" /\ configured[h] = Prepared
           /\ UNCHANGED <<m_lms_device, configured>>
           /\ \/ stream[h][d] = "started" /\ stream' = [stream EXCEPT ![h][d] = "stopped"]
              \/ stream' = stream
    BY <1>7, <2>1, StreamTurns DEF StopStream
  <2>3. Protocol!Stop(h, d) \/ stream' = stream
    BY <1>3, <2>2 DEF Protocol!Stop
  <2> QED BY <1>2, <1>4, <2>2, <2>3
<1>8. CASE DestroyStream
  <2>1. \A call, p, q : call[1] = "LMS_DestroyStream" /\ Makes(call, p, q) =>
                        Turns(call, p, q, "LMS_DestroyStream", "stopped", "none")
    BY ByName
  <2>2. PICK h \in Handle, d \in Direction :
           /\ m_lms_device[h] = "open" /\ configured[h] = Prepared
           /\ UNCHANGED <<m_lms_device, configured>>
           /\ \/ stream[h][d] = "stopped" /\ stream' = [stream EXCEPT ![h][d] = "none"]
              \/ stream' = stream
    BY <1>8, <2>1, StreamTurns DEF DestroyStream
  <2>3. Protocol!Destroy(h, d) \/ stream' = stream
    BY <1>3, <2>2 DEF Protocol!Destroy
  <2> QED BY <1>2, <1>4, <2>2, <2>3
<1>9. CASE OpenDevice
  <2>1. PICK h, x, y : h = Now.on /\ x = Journey[program][at] /\ y = Journey[program][at + 1]
    OBVIOUS
  <2>2. OnTrack /\ h \in Handle /\ Makes(Now.call, x[h], y[h]) /\ Now.call[1] = "LMS_Open"
    BY <1>9, <2>1, Made DEF OpenDevice, Call
  <2>3. Opens(Now.call, x[h], y[h]) /\ Matches(h, x[h])
    BY <2>1, <2>2, ByName DEF OnTrack
  <2>4. m_lms_device[h] = "NULL" /\ configured[h] = {}
    BY <2>3 DEF Opens, Matches
  <2>5. m_lms_device' = [m_lms_device EXCEPT ![h] = "open"] /\ UNCHANGED <<configured, stream>>
    BY <1>9, <2>1 DEF OpenDevice
  <2>6. m_lms_device'[h] = "open" /\ \A k \in Handle \ {h} : m_lms_device'[k] = m_lms_device[k]
    BY <1>1, <2>2, <2>5 DEF TypeOK
  <2>7. Protocol!Open(h)
    <3>1. Device(h) = "absent" /\ Device(h)' = "open"
      BY <2>4, <2>5, <2>6, PreparedSome DEF Device, Prepared
    <3>2. \A k \in Handle \ {h} : Device(k)' = Device(k)
      BY <2>5, <2>6 DEF Device
    <3> QED BY <2>2, <2>5, <3>1, <3>2 DEF Protocol!Open
  <2> QED BY <2>2, <2>7 DEF Protocol!Next
<1>10. CASE Configure
  <2>1. PICK h : h = Now.on
    OBVIOUS
  <2>2. h \in Handle /\ m_lms_device[h] = "open" /\ Now.call \in Prepared
    <3>1. Now.call \in Prepared
      BY <1>10 DEF Configure, Prepared
    <3>2. NeedsDevice(Now.call)
      BY <3>1, Preparations DEF NeedsDevice
    <3> QED BY <1>1, <1>10, <2>1, <3>1, <3>2, NowIsCall DEF Configure, Doing, Call
  <2>3. configured' = [configured EXCEPT ![h] = @ \cup {Now.call}]
        /\ UNCHANGED <<m_lms_device, stream>>
    BY <1>10, <2>1 DEF Configure
  <2>4. configured'[h] = configured[h] \cup {Now.call}
        /\ \A k \in Handle \ {h} : configured'[k] = configured[k]
    BY <1>1, <2>2, <2>3 DEF TypeOK
  <2>5. CASE configured[h] = Prepared \/ configured'[h] # Prepared
    <3>1. \A k \in Handle : (configured'[k] = Prepared) <=> (configured[k] = Prepared)
      BY <2>2, <2>4, <2>5
    <3>2. UNCHANGED Protocol!vars
      BY <2>3, <3>1 DEF Protocol!vars, Device, Prepared
    <3> QED BY <3>2
  <2>6. CASE configured[h] # Prepared /\ configured'[h] = Prepared
    <3>1. Protocol!Prepare(h)
      <4>1. Device(h) = "open" /\ Device(h)' = "ready"
        BY <2>2, <2>3, <2>6 DEF Device, Prepared
      <4>2. \A k \in Handle \ {h} : Device(k)' = Device(k)
        BY <2>3, <2>4 DEF Device
      <4> QED BY <2>2, <2>3, <4>1, <4>2 DEF Protocol!Prepare
    <3> QED BY <2>2, <3>1 DEF Protocol!Next
  <2> QED BY <2>5, <2>6
<1>11. ASSUME NEW h \in Handle, m_lms_device[h] = "open", Closed(h), UNCHANGED configured
       PROVE  Protocol!Next
  <2>1. /\ m_lms_device'[h] = "closed"
        /\ \A k \in Handle \ {h} : m_lms_device'[k] = m_lms_device[k]
    BY <1>1, <1>11 DEF TypeOK, Closed
  <2>2. Device(h) \in {"open", "ready"}
    BY <1>11 DEF Device
  <2>3. Protocol!Close(h)
    <3>1. Device(h)' = "closed"
      BY <2>1 DEF Device
    <3>2. \A k \in Handle \ {h} : Device(k)' = Device(k)
      BY <1>11, <2>1 DEF Device
    <3> QED BY <1>11, <2>2, <3>1, <3>2 DEF Protocol!Close, Protocol!NoStream, Closed
  <2> QED BY <2>3 DEF Protocol!Next
<1>12. CASE CloseDevice
  <2>1. Now.on \in Handle /\ m_lms_device[Now.on] = "open" /\ Closed(Now.on) /\ UNCHANGED configured
    BY <1>1, <1>12, NowIsCall DEF CloseDevice, Doing, NeedsDevice, Call
  <2> QED BY <1>11, <2>1
<1>13. CASE Error
  <2>1. Now.on \in Handle /\ UNCHANGED configured
    BY <1>1, <1>13, NowIsCall DEF Error, Call
  <2>2. CASE m_lms_device[Now.on] = "open"
    BY <1>11, <1>13, <2>1, <2>2 DEF Error
  <2>3. CASE m_lms_device[Now.on] # "open"
    BY <1>2, <1>13, <2>1, <2>3 DEF Error
  <2> QED BY <2>2, <2>3
<1>14. CASE \/ Adjust \/ Malloc \/ Free \/ Delete \/ StartThread \/ RequestStop \/ ExchangeBlocks
            \/ FailIgnored \/ FailReturn \/ Leave \/ TestStopping \/ Receive \/ ThreadMisuse
            \/ UNCHANGED vars
  <2>1. UNCHANGED <<m_lms_device, configured, stream>>
    BY <1>14 DEF Adjust, Malloc, Free, Memory, Delete, StartThread, RequestStop, ExchangeBlocks,
                 FailIgnored, FailReturn, Leave, TestStopping, Receive, ThreadMisuse, driver, vars
  <2> QED BY <1>2, <2>1
<1> QED BY <1>5, <1>6, <1>7, <1>8, <1>9, <1>10, <1>12, <1>13, <1>14 DEF Next

-----------------------------------------------------------------------------
(* The theorems, of whatever programs are considered.  Types and places    *)
(* stay what they are: the program never runs out of its agenda, and run() *)
(* of the radio leaves its loop only when it was told to.                  *)
THEOREM TypeCorrect == Spec => []TypeOK
<1>1. IInv => TypeOK
  BY DEF IInv
<1> QED BY <1>1, Invariance, PTL

(* Whatever calls fail (error(), initLimeSDR(), stopStreaming()), no       *)
(* program goes on with a closed device, starts its thread or exchanges    *)
(* blocks without an open device and its streams, or frees a buffer twice. *)
THEOREM NothingUsedAfter == Spec => []UsesWhatIsThere
BY Used, Invariance, PTL

(* Between two functions of a driver the streams it has buffers for run,   *)
(* but those whose LMS_StartStream failed: setFrequency() and              *)
(* setSamplingRate() leave them as they found them.                        *)
THEOREM StreamsRun == Spec => []Streaming
BY Streamed, Invariance, PTL

(* main() returns with every device closed and every buffer freed; error() *)
(* closes the device of the driver that failed.                            *)
THEOREM NothingLeftOpen == Spec => []LeavesNothingOpen
<1>1. IInv => LeavesNothingOpen
  BY DEF IInv, LeavesNothingOpen
<1> QED BY <1>1, Invariance, PTL

(* The programs make their calls in the order of LimeSuite: LimeDevice     *)
(* implements DeviceProtocol.                                              *)
THEOREM ProtocolFollowed == Spec => FollowsProtocol
<1>1. Init => Protocol!Init
  <2> SUFFICES ASSUME Init PROVE Protocol!Init
    OBVIOUS
  <2>1. \A h \in Handle : Device(h) = "absent"
    BY DEF Init, Device
  <2> QED BY <2>1 DEF Init, Protocol!Init, Protocol!NoStream
<1> QED BY <1>1, StepSimulation, Invariance, PTL DEF Spec, FollowsProtocol, Protocol!Spec
=============================================================================
