------------------------------- MODULE Mailbox -------------------------------
(***************************************************************************)
(* What a client of the WebSocket server may count on, said without        *)
(* sockets, descriptors, connections or users.  Each client has one        *)
(* mailbox in its life.  It is filled at its end, read from its front, and *)
(* what one client does leaves the mailboxes of the others alone, but for  *)
(* the messages that it may give rise to.  WebSocketServer implements it.  *)
(***************************************************************************)
EXTENDS Naturals, Sequences

CONSTANT Client

VARIABLE box   \* box[c]: state, the number of messages so far, those that
               \* wait, and what the client has received

(* A mailbox that holds no messages: "new", "broken" or "over".            *)
Shut(state, received) ==
  [state |-> state, pushed |-> 0, inbox |-> <<>>, received |-> received]

OpenBox(pushed, inbox, received) ==
  [state |-> "open", pushed |-> pushed, inbox |-> inbox, received |-> received]

Init == box = [c \in Client |-> Shut("new", <<>>)]

-----------------------------------------------------------------------------
(* From a mailbox b to the same mailbox later, d.  Messages are numbered   *)
(* as they come, and are put behind those that wait.                       *)
Longer(b, d) ==
  /\ d.pushed >= b.pushed
  /\ Len(d.inbox) = Len(b.inbox) + (d.pushed - b.pushed)
  /\ \A i \in DOMAIN d.inbox :
       IF i <= Len(b.inbox) THEN d.inbox[i] = b.inbox[i]
       ELSE d.inbox[i].n = b.pushed + (i - Len(b.inbox))

Filled(b, d) == Longer(b, d) /\ d = OpenBox(d.pushed, d.inbox, b.received)

Opens(b, d) == b.state = "new" /\ Filled(b, d)
Fills(b, d) == b.state = "open" /\ Filled(b, d)

(* Some of the first n messages, in their order.                           *)
Chosen(n) ==
  UNION {{at \in [1 .. m -> 1 .. n] : \A i, j \in 1 .. m : i < j => at[i] < at[j]} :
           m \in 0 .. n}

Letters(inbox, at) ==
  [i \in DOMAIN at |-> [n |-> inbox[at[i]].n, kind |-> inbox[at[i]].kind, whole |-> TRUE]]

(* All that waits is delivered or, where a write failed, thrown away.      *)
Empties(b, d) ==
  /\ b.state = "open"
  /\ \E at \in Chosen(Len(b.inbox)) :
       d = OpenBox(b.pushed, <<>>, b.received \o Letters(b.inbox, at))

(* A message is delivered in part: none follows it, ever.                  *)
Breaks(b, d) ==
  /\ b.state = "open"
  /\ \E k \in DOMAIN b.inbox : \E at \in Chosen(k - 1) :
       d = Shut("broken", Append(b.received \o Letters(b.inbox, at),
                                 [n |-> b.inbox[k].n, kind |-> b.inbox[k].kind,
                                  whole |-> FALSE]))

Leaves(b, d) == b.state \in {"open", "broken"} /\ d = Shut("over", b.received)

(* What may happen to a mailbox while its client does nothing.             *)
Waits(b, d) == d = b \/ Fills(b, d)

Next ==
  /\ box' = [c \in Client |-> box'[c]]
  /\ \/ \A c \in Client : Waits(box[c], box'[c])
     \/ \E c \in Client :
          /\ \/ Opens(box[c], box'[c]) \/ Empties(box[c], box'[c])
             \/ Breaks(box[c], box'[c]) \/ Leaves(box[c], box'[c])
          /\ \A other \in Client \ {c} : Waits(box[other], box'[other])

Spec == Init /\ [][Next]_box
=============================================================================
