---------------------------- MODULE WebSocketServer ----------------------------
(***************************************************************************)
(* WebSocketServer with wsSpectrogram and the WebSocketSink of the log     *)
(* (src/util).  One thread runs wsSpectrogram::run(): it serves the        *)
(* callbacks of libwebsockets and broadcasts spectra; each callback is one *)
(* action.  Every other thread of the program logs, and each log line goes *)
(* through broadcast_log() on the thread that logs.  Lines logged by one   *)
(* handler before it answers count as one message.                         *)
(*                                                                         *)
(* A message is what the buffer of a connection holds; the model keeps its *)
(* number on the connection and its kind, not its text.  lws_write() may   *)
(* write a whole message, a part of it, or return -1.  It returns an int   *)
(* that is compared with a size_t, so -1 counts as a whole message.        *)
(***************************************************************************)
EXTENDS Naturals, Sequences

CONSTANTS Fd,            \* the descriptors of sockets, used again once closed
          Client,        \* each connects once
          NoClient,
          NoConnection,  \* a null Connection*
          User,          \* the user names
          Anonymous,     \* the user of a new connection
          Reader,        \* the users with permission read_log
          Lister,        \* the users with permission read_neighbour_cache
          MaxPushed      \* bound: no request, spectrum or foreign log line
                         \* once a connection was pushed so many messages

ASSUME UserAssumption == /\ Anonymous \in User
                         /\ Reader \subseteq User /\ Lister \subseteq User
ASSUME NoClientAssumption == NoClient \notin Client
ASSUME MaxPushedAssumption == MaxPushed \in Nat

Kind == {"log", "list", "other"}
Message == [n : Nat, kind : Kind]
Connection == [client : Client, user : User, buffer : Seq(Message), pushed : Nat]
Reception == [n : Nat, kind : Kind, whole : BOOLEAN]

ASSUME NoConnectionAssumption == NoConnection \notin Connection

VARIABLES connections,  \* map<int,Connection*>
          m_socketsOn,
          open,         \* open[fd]: the client at the other end of the socket
          writable,     \* the sockets whose write callback is requested
          waiting,      \* the clients that have not connected yet
          received,     \* received[c]: what reached client c
          proved,       \* <<c, u>>: client c has given the password of user u
          process       \* "runs", or stopped by a null pointer or a data race

vars == <<connections, m_socketsOn, open, writable, waiting, received, proved,
          process>>
outside == <<open, waiting, proved>>

Connected(fd) == fd \in DOMAIN connections /\ connections[fd] # NoConnection

(* The state has its types; a connection's user is anonymous or one of the *)
(* database, whatever name a login gave (authenticate(), 281), and its     *)
(* messages are numbered by the pushes to it.                              *)
TypeOK ==
  /\ DOMAIN connections \subseteq Fd
  /\ \A fd \in DOMAIN connections : connections[fd] \in Connection \cup {NoConnection}
  /\ \A fd \in Fd : Connected(fd) =>
       \A i \in DOMAIN connections[fd].buffer :
         connections[fd].buffer[i].n \in 1 .. connections[fd].pushed
  /\ m_socketsOn \in BOOLEAN
  /\ open \in [Fd -> Client \cup {NoClient}]
  /\ writable \subseteq Fd
  /\ waiting \subseteq Client
  /\ received \in [Client -> Seq(Reception)]
  /\ proved \subseteq Client \X User
  /\ process \in {"runs", "race", "null"}

Init == /\ connections = [fd \in {} |-> NoConnection]
        /\ m_socketsOn = FALSE
        /\ open = [fd \in Fd |-> NoClient]
        /\ writable = {}
        /\ waiting = Client
        /\ received = [c \in Client |-> <<>>]
        /\ proved = {}
        /\ process = "runs"

NewConnection(c) == [client |-> c, user |-> Anonymous, buffer |-> <<>>, pushed |-> 0]

push_to_buffer(connection, kind) ==
  [connection EXCEPT !.buffer = Append(@, [n |-> connection.pushed + 1, kind |-> kind]),
                     !.pushed = @ + 1]

broadcast(conns) ==
  [fd \in DOMAIN conns |-> push_to_buffer(conns[fd], "other")]

broadcast_log(conns) ==
  [fd \in DOMAIN conns |-> IF conns[fd].user \in Reader
                           THEN push_to_buffer(conns[fd], "log")
                           ELSE conns[fd]]

(* connections[fd] = connection                                            *)
Assign(conns, fd, connection) ==
  [f \in DOMAIN conns \cup {fd} |-> IF f = fd THEN connection ELSE conns[f]]

removeConnection(conns, fd) == [f \in DOMAIN conns \ {fd} |-> conns[f]]
-----------------------------------------------------------------------------
(* A null pointer in the map is dereferenced by the next broadcast or log  *)
(* line, and every handler but the write callback logs: it can run to its  *)
(* end only while the map holds none.                                      *)
CanLog == /\ process = "runs"
          /\ \A fd \in DOMAIN connections : connections[fd] # NoConnection

Room == \A fd \in DOMAIN connections : connections[fd].pushed < MaxPushed

Established(fd, c) ==
  /\ CanLog
  /\ open[fd] = NoClient
  /\ c \in waiting
  /\ connections' = broadcast_log(Assign(connections, fd, NewConnection(c)))
  /\ m_socketsOn' = TRUE
  /\ open' = [open EXCEPT ![fd] = c]
  /\ waiting' = waiting \ {c}
  /\ writable' = writable \cup {fd}
  /\ UNCHANGED <<received, proved, process>>

(* Of n writes, the positions of those for which lws_write() did not       *)
(* return -1, in their order; and what the client receives of them.        *)
Written(n) ==
  UNION {{at \in [1 .. m -> 1 .. n] : \A i, j \in 1 .. m : i < j => at[i] < at[j]} :
           m \in 0 .. n}

Delivered(buffer, at) ==
  [i \in DOMAIN at |-> [n |-> buffer[at[i]].n, kind |-> buffer[at[i]].kind, whole |-> TRUE]]

Numbers(s) == {s[i].n : i \in DOMAIN s}

(* Mutant: the write callback is not requested again.                      *)
WriteAllOnce(fd, at) ==
  /\ process = "runs"
  /\ fd \in writable /\ Connected(fd)
  /\ LET connection == connections[fd]
     IN  /\ received' = [received EXCEPT ![connection.client] =
                           @ \o Delivered(connection.buffer, at)]
         /\ connections' = [connections EXCEPT ![fd].buffer = <<>>]
  /\ writable' = writable \ {fd}
  /\ UNCHANGED <<m_socketsOn, outside, process>>

(* The write callback: no write is short, so the buffer is emptied.  The   *)
(* library forgets the request as it calls; the callback makes it again,   *)
(* and no other place does: send() relies on that.                         *)
WriteAll(fd, at) ==
  /\ process = "runs"
  /\ fd \in writable /\ Connected(fd)
  /\ LET connection == connections[fd]
     IN  /\ received' = [received EXCEPT ![connection.client] =
                           @ \o Delivered(connection.buffer, at)]
         /\ connections' = [connections EXCEPT ![fd].buffer = <<>>]
  /\ writable' = (writable \ {fd}) \cup {fd}
  /\ UNCHANGED <<m_socketsOn, outside, process>>

(* The client receives messages before the k-th and a part of that one.    *)
ReceivedShort(connection, at, k) ==
  LET message == connection.buffer[k]
  IN  [received EXCEPT ![connection.client] =
         Append(@ \o Delivered(connection.buffer, at),
                [n |-> message.n, kind |-> message.kind, whole |-> FALSE])]

(* Mutant: a short write only leaves the loop; its message is written      *)
(* again by the next callback.                                             *)
WriteShortAgain(fd, at, k) ==
  /\ CanLog
  /\ fd \in writable /\ Connected(fd)
  /\ received' = ReceivedShort(connections[fd], at, k)
  /\ connections' = [connections EXCEPT ![fd].buffer = SubSeq(@, k, Len(@))]
  /\ writable' = (writable \ {fd}) \cup {fd}
  /\ UNCHANGED <<m_socketsOn, outside, process>>

(* The write of the k-th message is short: onErrorWrapper() logs and       *)
(* removes the connection, but the socket stays open and its write         *)
(* callback is requested again.                                            *)
WriteShort(fd, at, k) ==
  /\ CanLog
  /\ fd \in writable /\ Connected(fd)
  /\ received' = ReceivedShort(connections[fd], at, k)
  /\ connections' = removeConnection(broadcast_log(connections), fd)
  /\ writable' = (writable \ {fd}) \cup {fd}
  /\ UNCHANGED <<m_socketsOn, outside, process>>

(* The write callback of a socket whose connection was removed.  Reading   *)
(* connections[fd] puts a null pointer there; getBuffer() of it happens to *)
(* be a null pointer too, for which the loop is left at once.              *)
WriteMissing(fd) ==
  /\ process = "runs"
  /\ fd \in writable /\ ~Connected(fd)
  /\ connections' = Assign(connections, fd, NoConnection)
  /\ writable' = (writable \ {fd}) \cup {fd}
  /\ UNCHANGED <<m_socketsOn, outside, received, process>>

(* The other outcome of a null Connection*: the process is stopped, in the *)
(* write callback, in a request that is answered, or in the next log line. *)
NullPointer ==
  /\ process = "runs"
  /\ \E fd \in Fd : open[fd] # NoClient /\ ~Connected(fd)
  /\ process' = "null"
  /\ UNCHANGED <<connections, m_socketsOn, writable, outside, received>>

(* onMessage() logs the request, then handles it.                          *)
Request(fd) == CanLog /\ Room /\ open[fd] # NoClient

(* A request without an answer: no command, one that is only logged, or    *)
(* one for which the user has no permission.                               *)
Ignored(fd) ==
  /\ Request(fd)
  /\ connections' = broadcast_log(connections)
  /\ UNCHANGED <<m_socketsOn, outside, writable, received, process>>

Answer(fd, connection, kind) ==
  Assign(broadcast_log(connections), fd, push_to_buffer(connection, kind))

(* Mutant: setUser() before the password is verified.                      *)
RefusedTooLate(fd) ==
  /\ Request(fd) /\ Connected(fd)
  /\ \E u \in User : connections' =
       Answer(fd, [broadcast_log(connections)[fd] EXCEPT !.user = u], "other")
  /\ UNCHANGED <<m_socketsOn, outside, writable, received, process>>

(* Mutant: setUser() before the user is looked up.                         *)
RefusedUnknown(fd) ==
  /\ Request(fd) /\ Connected(fd)
  /\ connections' =
       Answer(fd, [broadcast_log(connections)[fd] EXCEPT !.user = "unknown"], "other")
  /\ UNCHANGED <<m_socketsOn, outside, writable, received, process>>

(* A message that is no JSON, a login without user or password, or one     *)
(* with a wrong password or an unknown user.                               *)
Refused(fd) ==
  /\ Request(fd) /\ Connected(fd)
  /\ connections' = Answer(fd, broadcast_log(connections)[fd], "other")
  /\ UNCHANGED <<m_socketsOn, outside, writable, received, process>>

(* Mutant: a login makes a new Connection; what waits in the other is lost. *)
authenticateAnew(fd, u) ==
  /\ Request(fd) /\ Connected(fd)
  /\ connections' =
       Answer(fd, [NewConnection(connections[fd].client) EXCEPT !.user = u], "other")
  /\ proved' = proved \cup {<<connections[fd].client, u>>}
  /\ UNCHANGED <<m_socketsOn, open, waiting, writable, received, process>>

authenticate(fd, u) ==
  /\ Request(fd) /\ Connected(fd)
  /\ connections' =
       Answer(fd, [broadcast_log(connections)[fd] EXCEPT !.user = u], "other")
  /\ proved' = proved \cup {<<connections[fd].client, u>>}
  /\ UNCHANGED <<m_socketsOn, open, waiting, writable, received, process>>

ListNeighbours(fd) ==
  /\ Request(fd) /\ Connected(fd)
  /\ connections[fd].user \in Lister
  /\ connections' = Answer(fd, broadcast_log(connections)[fd], "list")
  /\ UNCHANGED <<m_socketsOn, outside, writable, received, process>>

(* Mutant: onDisconnect() leaves m_socketsOn as it is.                     *)
ClosedStillOn(fd) ==
  /\ CanLog
  /\ open[fd] # NoClient
  /\ connections' = removeConnection(broadcast_log(connections), fd)
  /\ open' = [open EXCEPT ![fd] = NoClient]
  /\ writable' = writable \ {fd}
  /\ UNCHANGED <<m_socketsOn, waiting, received, proved, process>>

(* Mutant: onDisconnectWrapper() does not remove the connection.           *)
ClosedKept(fd) ==
  /\ CanLog
  /\ open[fd] # NoClient
  /\ connections' = broadcast_log(connections)
  /\ m_socketsOn' = FALSE
  /\ open' = [open EXCEPT ![fd] = NoClient]
  /\ writable' = writable \ {fd}
  /\ UNCHANGED <<waiting, received, proved, process>>

(* A client leaves: the spectrum is turned off, for those that stay too.   *)
Closed(fd) ==
  /\ CanLog
  /\ open[fd] # NoClient
  /\ connections' = removeConnection(broadcast_log(connections), fd)
  /\ m_socketsOn' = FALSE
  /\ open' = [open EXCEPT ![fd] = NoClient]
  /\ writable' = writable \ {fd}
  /\ UNCHANGED <<waiting, received, proved, process>>

(* run() found more than five blocks in its queue.                         *)
Spectrum ==
  /\ CanLog /\ Room
  /\ m_socketsOn
  /\ connections' = broadcast(connections)
  /\ UNCHANGED <<m_socketsOn, outside, writable, received, process>>

(* Another thread logs while the server's is outside its handlers.         *)
LogElsewhere ==
  /\ CanLog /\ Room
  /\ connections' = broadcast_log(connections)
  /\ UNCHANGED <<m_socketsOn, outside, writable, received, process>>

(* Another thread logs during a handler.  The mutex of the sink is not     *)
(* taken by the server: the map, the buffers and the users are used by     *)
(* both threads at once, after which nothing is promised.                  *)
Race ==
  /\ process = "runs"
  /\ DOMAIN connections # {}
  /\ process' = "race"
  /\ UNCHANGED <<connections, m_socketsOn, writable, outside, received>>

Writeable(fd) ==
  \/ WriteMissing(fd)
  \/ /\ Connected(fd)
     /\ \/ \E at \in Written(Len(connections[fd].buffer)) : WriteAll(fd, at)
        \/ \E k \in DOMAIN connections[fd].buffer :
             \E at \in Written(k - 1) : WriteShort(fd, at, k)

onMessage(fd) == \/ Ignored(fd) \/ Refused(fd) \/ ListNeighbours(fd)
                 \/ \E u \in User : authenticate(fd, u)

Next == \/ \E fd \in Fd : \/ \E c \in Client : Established(fd, c)
                          \/ Writeable(fd) \/ onMessage(fd) \/ Closed(fd)
        \/ Spectrum \/ LogElsewhere \/ Race \/ NullPointer

SafeSpec == Init /\ [][Next]_vars

(* lws_service() calls back each socket that asked to write: clients read. *)
Fairness == \A fd \in Fd : WF_vars(Writeable(fd))

Spec == SafeSpec /\ Fairness
-----------------------------------------------------------------------------
(* Each client receives every message at most once and in the order of the *)
(* pushes, and nothing after a message that was cut short, whoever is      *)
(* served, leaves or logs in between (WebSocketServer.cpp, 87 to 110).     *)
InOrder == \A c \in Client : \A i, j \in DOMAIN received[c] :
  i < j => received[c][i].n < received[c][j].n /\ received[c][i].whole

Cut(c) == \E i \in DOMAIN received[c] : ~received[c][i].whole

(* The map mirrors the sockets: an open socket has the connection of its   *)
(* own client until one of its messages is cut short, and a closed socket  *)
(* has none, so a descriptor used again starts afresh.                     *)
ConnectionPerSocket == \A fd \in Fd :
  IF open[fd] = NoClient THEN fd \notin DOMAIN connections
  ELSE \/ Connected(fd) /\ connections[fd].client = open[fd]
       \/ ~Connected(fd) /\ Cut(open[fd])

(* m_socketsOn, set and reset by two callbacks, never stays set when the   *)
(* last client has gone (ws_spectrogram.cpp, 238 and 307).                 *)
SpectrumOffWithoutClients == m_socketsOn => \E fd \in Fd : open[fd] # NoClient

Proved(c, users) == \E u \in users : u = Anonymous \/ <<c, u>> \in proved

(* A client receives log lines and neighbour lists only if it has proved   *)
(* to be a user with the permission; a login is not inherited through a    *)
(* descriptor that is used again.                                          *)
Permitted == \A c \in Client : \A i \in DOMAIN received[c] :
  /\ received[c][i].kind = "log" => Proved(c, Reader)
  /\ received[c][i].kind = "list" => Proved(c, Lister)

(* A client's mailbox is the buffer of its connection, while the map has   *)
(* one, and what it has received.                                          *)
Box(c) ==
  LET fd == CHOOSE f \in Fd : open[f] = c
  IN  IF \E f \in Fd : open[f] = c
      THEN IF Connected(fd)
           THEN [state |-> "open", pushed |-> connections[fd].pushed,
                 inbox |-> connections[fd].buffer, received |-> received[c]]
           ELSE [state |-> "broken", pushed |-> 0, inbox |-> <<>>, received |-> received[c]]
      ELSE [state |-> IF c \in waiting THEN "new" ELSE "over",
            pushed |-> 0, inbox |-> <<>>, received |-> received[c]]

Mailboxes == INSTANCE Mailbox WITH box <- [c \in Client |-> Box(c)]

(* Descriptors that are used again, one map for all connections, handlers  *)
(* that push to everybody and writes that fail: to its client each         *)
(* connection is still a mailbox of its own.                               *)
ServesMailboxes == Mailboxes!Spec

(* What waits in the buffer of a connection is written, or the connection  *)
(* is removed: send() requests no callback, yet none is missing.           *)
Flushed == \A fd \in Fd :
  (Connected(fd) /\ connections[fd].buffer # <<>>)
    ~> (~Connected(fd) \/ connections[fd].buffer = <<>> \/ process # "runs")

(* "Only pop the message if it was sent successfully." (line 103): what    *)
(* was pushed to a connection has been received or still waits.            *)
PoppedWasSent == \A fd \in Fd : Connected(fd) =>
  LET connection == connections[fd]
  IN  1 .. connection.pushed \subseteq
        Numbers(connection.buffer) \cup Numbers(received[connection.client])
=============================================================================
