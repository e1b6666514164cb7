------------------------ MODULE WebSocketServerProofs ------------------------
(***************************************************************************)
(* Proofs about WebSocketServer for any sockets, clients, users and        *)
(* permissions, and any number of messages.                                *)
(***************************************************************************)
EXTENDS WebSocketServer, TLAPS

(***************************************************************************)
(* One connection, what its client has received (r), and the logins so far *)
(* (logins).                                                               *)
(***************************************************************************)
Allowed(c, users, logins) == \E u \in users : u = Anonymous \/ <<c, u>> \in logins

(* A message or a reception of it that client c may see.                   *)
MaySee(c, message, logins) ==
  /\ message.kind = "log" => Allowed(c, Reader, logins)
  /\ message.kind = "list" => Allowed(c, Lister, logins)

Numbered(cn) ==
  /\ \A i \in DOMAIN cn.buffer : cn.buffer[i].n \in 1 .. cn.pushed
  /\ \A i, j \in DOMAIN cn.buffer : i < j => cn.buffer[i].n < cn.buffer[j].n

(* What was received whole precedes what waits.                            *)
Follows(cn, r) ==
  \A i \in DOMAIN r : /\ r[i].whole /\ r[i].n <= cn.pushed
                      /\ \A j \in DOMAIN cn.buffer : r[i].n < cn.buffer[j].n

(* The user was proved, and every message is for the client to see.        *)
Entitled(cn, logins) ==
  /\ cn.user = Anonymous \/ <<cn.client, cn.user>> \in logins
  /\ \A i \in DOMAIN cn.buffer : MaySee(cn.client, cn.buffer[i], logins)

Good(cn, r, logins) == cn \in Connection /\ Numbered(cn) /\ Follows(cn, r) /\ Entitled(cn, logins)

LEMMA NewGood ==
  ASSUME NEW c \in Client, NEW logins
  PROVE  Good(NewConnection(c), <<>>, logins) /\ NewConnection(c).client = c
BY UserAssumption DEF Good, Numbered, Follows, Entitled, NewConnection, Connection

(* A push keeps a connection good, if its client may see the message.      *)
LEMMA PushGood ==
  ASSUME NEW cn, NEW r, NEW logins, Good(cn, r, logins), r \in Seq(Reception),
         NEW kind \in Kind,
         kind = "log" => cn.user \in Reader, kind = "list" => cn.user \in Lister
  PROVE  /\ Good(push_to_buffer(cn, kind), r, logins)
         /\ push_to_buffer(cn, kind).client = cn.client
         /\ push_to_buffer(cn, kind).user = cn.user
         /\ push_to_buffer(cn, kind).pushed = cn.pushed + 1
<1> DEFINE message == [n |-> cn.pushed + 1, kind |-> kind]
           buffer == cn.buffer
           longer == Append(buffer, message)
           new == push_to_buffer(cn, kind)
<1>1. cn \in Connection /\ buffer \in Seq(Message) /\ cn.pushed \in Nat /\ message \in Message
  BY DEF Good, Connection, Message
<1>2. /\ new.buffer = longer /\ new.pushed = cn.pushed + 1
      /\ new.client = cn.client /\ new.user = cn.user
  BY <1>1 DEF push_to_buffer, Connection
<1>3. new \in Connection
  <2>1. longer \in Seq(Message) /\ cn.pushed + 1 \in Nat
    BY <1>1
  <2>2. new = [cn EXCEPT !.buffer = longer, !.pushed = cn.pushed + 1]
    BY DEF push_to_buffer
  <2> HIDE DEF longer, new
  <2> QED BY <1>1, <2>1, <2>2 DEF Connection
<1>4. /\ DOMAIN longer = DOMAIN buffer \cup {Len(buffer) + 1} /\ longer[Len(buffer) + 1] = message
      /\ \A i \in DOMAIN buffer : /\ longer[i] = buffer[i] /\ i < Len(buffer) + 1 /\ i \in Nat
                                  /\ buffer[i].n \in Nat
  <2>1. \A i \in DOMAIN buffer : buffer[i] \in Message
    BY <1>1
  <2>2. \A i \in DOMAIN buffer : buffer[i].n \in Nat
    BY <2>1 DEF Message
  <2> HIDE DEF message, buffer
  <2>3. /\ DOMAIN longer = DOMAIN buffer \cup {Len(buffer) + 1}
        /\ longer[Len(buffer) + 1] = message
        /\ \A i \in DOMAIN buffer : longer[i] = buffer[i] /\ i < Len(buffer) + 1 /\ i \in Nat
    BY <1>1
  <2> QED BY <2>2, <2>3
<1>5. message.n = cn.pushed + 1 /\ message.kind = kind
  OBVIOUS
<1> HIDE DEF message, buffer, longer, new
<1>6. Numbered(new)
  <2>1. \A i \in DOMAIN buffer : buffer[i].n <= cn.pushed /\ buffer[i].n >= 1
    BY <1>1 DEF Good, Numbered, buffer
  <2>2. \A i \in DOMAIN longer : longer[i].n \in 1 .. cn.pushed + 1
    BY <1>1, <1>4, <1>5, <2>1
  <2>3. ASSUME NEW i \in DOMAIN longer, NEW j \in DOMAIN longer, i < j
        PROVE  longer[i].n < longer[j].n
    <3>1. i \in DOMAIN buffer
      BY <1>4, <2>3
    <3>2. CASE j \in DOMAIN buffer
      BY <1>4, <2>3, <3>1, <3>2 DEF Good, Numbered, buffer
    <3>3. CASE j = Len(buffer) + 1
      BY <1>1, <1>4, <1>5, <2>1, <3>1, <3>3
    <3> QED BY <1>4, <3>2, <3>3
  <2> QED BY <1>2, <2>2, <2>3 DEF Numbered
<1>7. Follows(new, r)
  <2> SUFFICES ASSUME NEW i \in DOMAIN r
               PROVE  /\ r[i].whole /\ r[i].n <= new.pushed
                      /\ \A j \in DOMAIN longer : r[i].n < longer[j].n
    BY <1>2 DEF Follows
  <2>1. /\ r[i].whole /\ r[i].n <= cn.pushed /\ \A j \in DOMAIN buffer : r[i].n < buffer[j].n
    BY DEF Good, Follows, buffer
  <2>2. r[i].n \in Nat
    <3>1. r[i] \in Reception
      OBVIOUS
    <3> QED BY <3>1 DEF Reception
  <2>3. r[i].n < message.n /\ r[i].n <= new.pushed
    BY <1>1, <1>2, <1>5, <2>1, <2>2
  <2> QED BY <1>4, <2>1, <2>3
<1>8. Entitled(new, logins)
  <2>1. /\ cn.user = Anonymous \/ <<cn.client, cn.user>> \in logins
        /\ \A i \in DOMAIN buffer : MaySee(cn.client, buffer[i], logins)
    BY DEF Good, Entitled, buffer
  <2>2. MaySee(cn.client, message, logins)
    BY <1>5, <2>1 DEF MaySee, Allowed
  <2> QED BY <1>2, <1>4, <2>1, <2>2 DEF Entitled
<1> QED BY <1>2, <1>3, <1>6, <1>7, <1>8 DEF Good, new

(***************************************************************************)
(* The map, the sockets and the clients.                                   *)
(***************************************************************************)
Sockets ==
  /\ DOMAIN connections \subseteq Fd /\ writable \subseteq Fd
  /\ open \in [Fd -> Client \cup {NoClient}] /\ waiting \subseteq Client
  /\ \A fd \in DOMAIN connections : open[fd] # NoClient
  /\ \A fd \in writable : open[fd] # NoClient
  /\ \A e, f \in Fd : open[e] = open[f] /\ open[e] # NoClient => e = f
  /\ \A fd \in Fd : open[fd] \notin waiting

Receptions ==
  /\ received \in [Client -> Seq(Reception)]
  /\ \A c \in waiting : received[c] = <<>>
  /\ \A fd \in Fd : open[fd] # NoClient /\ ~Connected(fd) => Cut(open[fd])

GoodConnections ==
  \A fd \in Fd : Connected(fd) => /\ Good(connections[fd], received[open[fd]], proved)
                                  /\ connections[fd].client = open[fd]

Visible == \A c \in Client : \A i \in DOMAIN received[c] : MaySee(c, received[c][i], proved)

Others == /\ m_socketsOn \in BOOLEAN /\ proved \subseteq Client \X User
          /\ process \in {"runs", "race", "null"}
          /\ SpectrumOffWithoutClients

IInv == Sockets /\ Receptions /\ GoodConnections /\ Visible /\ InOrder /\ Others

LEMMA Initially == Init => IInv
<1> SUFFICES ASSUME Init PROVE IInv OBVIOUS
<1>1. /\ DOMAIN connections = {} /\ m_socketsOn = FALSE /\ open = [fd \in Fd |-> NoClient]
      /\ writable = {} /\ waiting = Client /\ received = [c \in Client |-> <<>>]
      /\ proved = {} /\ process = "runs"
  BY DEF Init
<1>2. Sockets
  BY <1>1, NoClientAssumption DEF Sockets
<1>3. \A c \in Client : received[c] = <<>> /\ DOMAIN received[c] = {}
  BY <1>1
<1>4. received \in [Client -> Seq(Reception)]
  <2>1. <<>> \in Seq(Reception) OBVIOUS
  <2> QED BY <1>1, <2>1
<1>5. Receptions
  BY <1>1, <1>3, <1>4 DEF Receptions
<1>6. GoodConnections /\ Visible /\ InOrder /\ Others
  BY <1>1, <1>3 DEF GoodConnections, Visible, InOrder, Others, Connected,
                    SpectrumOffWithoutClients
<1> QED BY <1>2, <1>5, <1>6 DEF IInv

(* What the invariant gives: types, and the mirror of the sockets.         *)
LEMMA GivesTypeOK == IInv => TypeOK
<1> SUFFICES ASSUME IInv PROVE TypeOK OBVIOUS
<1>1. \A fd \in DOMAIN connections : connections[fd] \in Connection \cup {NoConnection}
  BY DEF IInv, Sockets, GoodConnections, Good, Connected
<1>2. \A fd \in Fd : Connected(fd) =>
        \A i \in DOMAIN connections[fd].buffer :
          connections[fd].buffer[i].n \in 1 .. connections[fd].pushed
  BY DEF IInv, GoodConnections, Good, Numbered
<1> QED BY <1>1, <1>2 DEF IInv, Sockets, Receptions, Others, TypeOK

LEMMA GivesMirror == IInv => ConnectionPerSocket
BY DEF IInv, Sockets, Receptions, GoodConnections, ConnectionPerSocket

LEMMA GivesPermitted == IInv => Permitted
BY DEF IInv, Visible, MaySee, Allowed, Permitted, Proved

(***************************************************************************)
(* What the handlers do to a map without null pointers.                    *)
(***************************************************************************)
GoodMap(conns, sockets, receptions, logins) ==
  \A fd \in DOMAIN conns : /\ conns[fd] # NoConnection
                           /\ Good(conns[fd], receptions[sockets[fd]], logins)
                           /\ conns[fd].client = sockets[fd]

LEMMA MapIsGood ==
  IInv /\ CanLog => GoodMap(connections, open, received, proved)
BY DEF IInv, Sockets, GoodConnections, GoodMap, CanLog, Connected

LEMMA GoodIsConnection == \A cn, r, logins : Good(cn, r, logins) => cn # NoConnection
BY NoConnectionAssumption DEF Good

LEMMA LogGood ==
  ASSUME NEW conns, NEW sockets, NEW receptions, NEW logins,
         GoodMap(conns, sockets, receptions, logins),
         \A fd \in DOMAIN conns : receptions[sockets[fd]] \in Seq(Reception)
  PROVE  /\ GoodMap(broadcast_log(conns), sockets, receptions, logins)
         /\ DOMAIN broadcast_log(conns) = DOMAIN conns
         /\ \A fd \in DOMAIN conns : broadcast_log(conns)[fd].user = conns[fd].user
<1>1. DOMAIN broadcast_log(conns) = DOMAIN conns
  BY DEF broadcast_log
<1>2. ASSUME NEW fd \in DOMAIN conns
      PROVE  /\ Good(broadcast_log(conns)[fd], receptions[sockets[fd]], logins)
             /\ broadcast_log(conns)[fd].client = sockets[fd]
             /\ broadcast_log(conns)[fd].user = conns[fd].user
  <2>1. /\ Good(conns[fd], receptions[sockets[fd]], logins)
        /\ conns[fd].client = sockets[fd] /\ receptions[sockets[fd]] \in Seq(Reception)
    BY DEF GoodMap
  <2>2. CASE conns[fd].user \in Reader
    <3>1. broadcast_log(conns)[fd] = push_to_buffer(conns[fd], "log")
      BY <2>2 DEF broadcast_log
    <3>2. "log" \in Kind
      BY DEF Kind
    <3> QED BY <2>1, <2>2, <3>1, <3>2, PushGood
  <2>3. CASE conns[fd].user \notin Reader
    <3>1. broadcast_log(conns)[fd] = conns[fd]
      BY <2>3 DEF broadcast_log
    <3> QED BY <2>1, <3>1
  <2> QED BY <2>2, <2>3
<1>3. GoodMap(broadcast_log(conns), sockets, receptions, logins)
  BY <1>1, <1>2, GoodIsConnection DEF GoodMap
<1> QED BY <1>1, <1>2, <1>3

LEMMA SpectrumGood ==
  ASSUME NEW conns, NEW sockets, NEW receptions, NEW logins,
         GoodMap(conns, sockets, receptions, logins),
         \A fd \in DOMAIN conns : receptions[sockets[fd]] \in Seq(Reception)
  PROVE  /\ GoodMap(broadcast(conns), sockets, receptions, logins)
         /\ DOMAIN broadcast(conns) = DOMAIN conns
<1>1. DOMAIN broadcast(conns) = DOMAIN conns
  BY DEF broadcast
<1>2. ASSUME NEW fd \in DOMAIN conns
      PROVE  /\ Good(broadcast(conns)[fd], receptions[sockets[fd]], logins)
             /\ broadcast(conns)[fd].client = sockets[fd]
  <2>1. /\ Good(conns[fd], receptions[sockets[fd]], logins)
        /\ conns[fd].client = sockets[fd] /\ receptions[sockets[fd]] \in Seq(Reception)
    BY DEF GoodMap
  <2>2. broadcast(conns)[fd] = push_to_buffer(conns[fd], "other")
    BY DEF broadcast
  <2>3. "other" \in Kind /\ "other" # "log" /\ "other" # "list"
    BY DEF Kind
  <2> QED BY <2>1, <2>2, <2>3, PushGood
<1>3. GoodMap(broadcast(conns), sockets, receptions, logins)
  BY <1>1, <1>2, GoodIsConnection DEF GoodMap
<1> QED BY <1>1, <1>3

(* The answers a connection can be given.                                  *)
MayAsk(cn, kind) == kind \in {"list", "other"} /\ (kind = "list" => cn.user \in Lister)

(* An answer, after the log line of its request (which made "logged").     *)
LEMMA AnswerGood ==
  ASSUME NEW logged, NEW sockets, NEW receptions, NEW logins, NEW fd,
         fd \in DOMAIN logged, GoodMap(logged, sockets, receptions, logins),
         receptions[sockets[fd]] \in Seq(Reception),
         NEW cn, Good(cn, receptions[sockets[fd]], logins), cn.client = sockets[fd],
         NEW kind, MayAsk(cn, kind)
  PROVE  /\ GoodMap(Assign(logged, fd, push_to_buffer(cn, kind)), sockets, receptions, logins)
         /\ DOMAIN Assign(logged, fd, push_to_buffer(cn, kind)) = DOMAIN logged
<1> DEFINE new == push_to_buffer(cn, kind)
           after == Assign(logged, fd, new)
<1>1. kind \in Kind /\ kind # "log" /\ (kind = "list" => cn.user \in Lister)
  BY DEF Kind, MayAsk
<1>2. Good(new, receptions[sockets[fd]], logins) /\ new.client = sockets[fd]
  BY <1>1, PushGood
<1> HIDE DEF new, after
<1>3. /\ DOMAIN after = DOMAIN logged /\ after[fd] = new
      /\ \A f \in DOMAIN logged : f # fd => after[f] = logged[f]
  BY DEF Assign, after
<1>4. GoodMap(after, sockets, receptions, logins)
  BY <1>2, <1>3, GoodIsConnection DEF GoodMap
<1> QED BY <1>3, <1>4 DEF after, new

(***************************************************************************)
(* What the write callback delivers.                                       *)
(***************************************************************************)
Ordered(r) == \A i, j \in DOMAIN r : i < j => r[i].n < r[j].n /\ r[i].whole

Seen(c, r, logins) == \A i \in DOMAIN r : MaySee(c, r[i], logins)

LEMMA Positions ==
  ASSUME NEW n \in Nat, NEW at \in Written(n)
  PROVE  /\ \E m \in Nat : at \in [1 .. m -> 1 .. n]
         /\ \A i, j \in DOMAIN at : i < j => at[i] < at[j]
<1>1. PICK m \in 0 .. n : at \in {f \in [1 .. m -> 1 .. n] :
                                    \A i, j \in 1 .. m : i < j => f[i] < f[j]}
  BY Zenon DEF Written
<1>2. m \in Nat /\ at \in [1 .. m -> 1 .. n] /\ \A i, j \in 1 .. m : i < j => at[i] < at[j]
  BY <1>1
<1> QED BY <1>2

(* Whole messages out of the first n of a buffer, behind those of before.  *)
LEMMA Delivery ==
  ASSUME NEW cn, NEW r \in Seq(Reception), NEW logins, Good(cn, r, logins),
         Ordered(r), Seen(cn.client, r, logins),
         NEW n \in Nat, n <= Len(cn.buffer), NEW at \in Written(n),
         NEW all, all = r \o Delivered(cn.buffer, at)
  PROVE  /\ all \in Seq(Reception) /\ Ordered(all) /\ Seen(cn.client, all, logins)
         /\ \A i \in DOMAIN all : /\ all[i].whole /\ all[i].n <= cn.pushed
                                  /\ \A j \in DOMAIN cn.buffer : n < j => all[i].n < cn.buffer[j].n
<1> DEFINE buffer == cn.buffer
           d == Delivered(buffer, at)
<1>1. buffer \in Seq(Message) /\ cn.pushed \in Nat
  BY DEF Good, Connection
<1>2. PICK m \in Nat : at \in [1 .. m -> 1 .. n]
  BY Positions
<1>3. ASSUME NEW i \in 1 .. m
      PROVE  /\ at[i] \in DOMAIN buffer /\ at[i] \in 1 .. n /\ buffer[at[i]] \in Message
             /\ d[i] = [n |-> buffer[at[i]].n, kind |-> buffer[at[i]].kind, whole |-> TRUE]
  <2>1. at[i] \in 1 .. n
    BY <1>2
  <2>2. at[i] \in DOMAIN buffer
    BY <2>1, <1>1
  <2> QED BY <1>1, <1>2, <2>1, <2>2 DEF Delivered
<1>4. DOMAIN d = 1 .. m
  BY <1>2 DEF Delivered
<1> HIDE DEF d
<1>5. ASSUME NEW i \in 1 .. m
      PROVE  /\ d[i] \in Reception /\ d[i].whole /\ d[i].n = buffer[at[i]].n
             /\ d[i].kind = buffer[at[i]].kind /\ d[i].n \in Nat
  <2>1. buffer[at[i]].n \in Nat /\ buffer[at[i]].kind \in Kind
    BY <1>3 DEF Message
  <2>2. d[i] = [n |-> buffer[at[i]].n, kind |-> buffer[at[i]].kind, whole |-> TRUE]
    BY <1>3
  <2>3. d[i] \in Reception
    BY <2>1, <2>2 DEF Reception
  <2> QED BY <2>1, <2>2, <2>3
<1>6. d \in Seq(Reception) /\ Len(d) = m
  <2>1. d = [i \in 1 .. m |-> d[i]]
    BY <1>4 DEF d, Delivered
  <2>2. d \in [1 .. m -> Reception]
    BY <1>5, <2>1
  <2> QED BY <2>2
<1>7. /\ all \in Seq(Reception)
      /\ DOMAIN all \subseteq Nat
      /\ \A i \in DOMAIN all : \/ i \in DOMAIN r /\ all[i] = r[i]
                               \/ i - Len(r) \in 1 .. m /\ all[i] = d[i - Len(r)] /\ i > Len(r)
      /\ \A i \in DOMAIN r : i <= Len(r)
  BY <1>6 DEF d
<1>8. ASSUME NEW i \in DOMAIN r
      PROVE  /\ r[i].whole /\ r[i].n <= cn.pushed /\ r[i].n \in Nat
             /\ \A j \in DOMAIN buffer : r[i].n < buffer[j].n
  <2>1. r[i] \in Reception
    OBVIOUS
  <2>2. r[i].n \in Nat
    BY <2>1 DEF Reception
  <2> QED BY <2>2 DEF Good, Follows
<1>9. ASSUME NEW i \in 1 .. m
      PROVE  d[i].n <= cn.pushed /\ \A j \in DOMAIN buffer : n < j => d[i].n < buffer[j].n
  <2>1. buffer[at[i]].n \in 1 .. cn.pushed
    BY <1>3 DEF Good, Numbered
  <2>2. ASSUME NEW j \in DOMAIN buffer, n < j PROVE buffer[at[i]].n < buffer[j].n
    <3>1. at[i] < j
      <4>1. at[i] \in 1 .. n
        BY <1>3
      <4>2. j \in Nat
        BY <1>1
      <4> HIDE DEF buffer
      <4> QED BY <4>1, <4>2, <2>2
    <3> QED BY <3>1, <1>3 DEF Good, Numbered
  <2> QED BY <1>1, <1>5, <2>1, <2>2
<1>10. \A i \in DOMAIN all : /\ all[i].whole /\ all[i].n <= cn.pushed
                             /\ \A j \in DOMAIN buffer : n < j => all[i].n < buffer[j].n
  BY <1>5, <1>7, <1>8, <1>9
<1>11. Seen(cn.client, all, logins)
  <2>1. ASSUME NEW i \in 1 .. m PROVE MaySee(cn.client, d[i], logins)
    <3>1. MaySee(cn.client, buffer[at[i]], logins)
      BY <1>3 DEF Good, Entitled
    <3> QED BY <3>1, <1>5 DEF MaySee
  <2> QED BY <1>7, <2>1 DEF Seen
<1>12. Ordered(all)
  <2>1. ASSUME NEW i \in DOMAIN all, NEW j \in DOMAIN all, i < j
        PROVE  all[i].n < all[j].n
    <3>1. CASE j \in DOMAIN r /\ all[j] = r[j]
      <4>1. i \in DOMAIN r /\ all[i] = r[i]
        BY <1>7, <2>1, <3>1
      <4> QED BY <2>1, <3>1, <4>1 DEF Ordered
    <3>2. CASE j - Len(r) \in 1 .. m /\ all[j] = d[j - Len(r)]
      <4>1. CASE i \in DOMAIN r /\ all[i] = r[i]
        <5>1. r[i].n < buffer[at[j - Len(r)]].n
          BY <1>3, <1>8, <3>2, <4>1
        <5> QED BY <5>1, <1>5, <3>2, <4>1
      <4>2. CASE i - Len(r) \in 1 .. m /\ all[i] = d[i - Len(r)]
        <5>1. i - Len(r) < j - Len(r)
          BY <1>7, <2>1
        <5>2. at[i - Len(r)] < at[j - Len(r)]
          BY <1>2, <3>2, <4>2, <5>1, Positions
        <5>3. buffer[at[i - Len(r)]].n < buffer[at[j - Len(r)]].n
          BY <1>3, <3>2, <4>2, <5>2 DEF Good, Numbered
        <5> QED BY <5>3, <1>5, <3>2, <4>2
      <4> QED BY <1>7, <4>1, <4>2
    <3> QED BY <1>7, <3>1, <3>2
  <2> QED BY <1>10, <2>1 DEF Ordered
<1> QED BY <1>7, <1>10, <1>11, <1>12

(***************************************************************************)
(* The handlers.  First, what is left to show once the map is good.        *)
(***************************************************************************)
LEMMA GoodMapMeans ==
  ASSUME DOMAIN connections' \subseteq Fd,
         GoodMap(connections', open', received', proved')
  PROVE  /\ GoodConnections'
         /\ \A fd \in Fd : (Connected(fd) <=> fd \in DOMAIN connections)'
BY DEF GoodMap, GoodConnections, Connected

LEMMA SeqOfOpen ==
  IInv => \A fd \in DOMAIN connections : /\ received[open[fd]] \in Seq(Reception)
                                         /\ open[fd] \in Client /\ fd \in Fd
BY DEF IInv, Sockets, Receptions

(* More logins never hide a message.                                       *)
LEMMA LoginsGrow ==
  ASSUME NEW before, NEW after, before \subseteq after
  PROVE  /\ \A c, message : MaySee(c, message, before) => MaySee(c, message, after)
         /\ \A cn, r : Good(cn, r, before) => Good(cn, r, after)
<1>1. \A c, message : MaySee(c, message, before) => MaySee(c, message, after)
  BY DEF MaySee, Allowed
<1> QED BY <1>1 DEF Good, Entitled

(* The handlers that only push: nothing but the map and the logins change. *)
LEMMA PushesKeep ==
  ASSUME IInv, CanLog, UNCHANGED <<open, waiting, received, process, m_socketsOn, writable>>,
         proved \subseteq proved', proved' \subseteq Client \X User,
         DOMAIN connections' = DOMAIN connections,
         GoodMap(connections', open, received, proved')
  PROVE  IInv'
<1>1. /\ open' = open /\ waiting' = waiting /\ received' = received /\ writable' = writable
      /\ process' = process /\ m_socketsOn' = m_socketsOn
  OBVIOUS
<1>2. Sockets'
  BY <1>1 DEF IInv, Sockets
<1>3. \A fd \in Fd : Connected(fd) <=> fd \in DOMAIN connections
  BY DEF CanLog, Connected
<1>4. GoodConnections' /\ \A fd \in Fd : (Connected(fd) <=> fd \in DOMAIN connections)'
  BY <1>1, GoodMapMeans DEF IInv, Sockets
<1>5. Receptions'
  BY <1>1, <1>3, <1>4 DEF IInv, Receptions, Cut
<1>6. Visible'
  BY <1>1, LoginsGrow DEF IInv, Visible
<1>7. InOrder' /\ Others'
  BY <1>1 DEF IInv, InOrder, Others, SpectrumOffWithoutClients
<1> QED BY <1>2, <1>4, <1>5, <1>6, <1>7 DEF IInv

LEMMA EstablishedKeeps ==
  ASSUME IInv, NEW fd \in Fd, NEW c \in Client, Established(fd, c)
  PROVE  IInv'
<1> DEFINE new == Assign(connections, fd, NewConnection(c))
<1>1. /\ CanLog /\ open[fd] = NoClient /\ c \in waiting /\ connections' = broadcast_log(new)
      /\ m_socketsOn' = TRUE /\ open' = [open EXCEPT ![fd] = c] /\ waiting' = waiting \ {c}
      /\ writable' = writable \cup {fd} /\ received' = received /\ proved' = proved
      /\ process' = process
  BY DEF Established
<1>2. /\ open' \in [Fd -> Client \cup {NoClient}] /\ open'[fd] = c /\ c # NoClient
      /\ \A f \in Fd : f # fd => open'[f] = open[f]
  BY <1>1, NoClientAssumption DEF IInv, Sockets
<1>3. fd \notin DOMAIN connections /\ \A f \in Fd : open[f] # c
  BY <1>1 DEF IInv, Sockets
<1>4. DOMAIN new = DOMAIN connections \cup {fd} /\ DOMAIN new \subseteq Fd
  BY DEF Assign, IInv, Sockets
<1>5. GoodMap(new, open', received, proved)
  <2>1. Good(NewConnection(c), received[c], proved) /\ NewConnection(c).client = c
    BY <1>1, NewGood DEF IInv, Receptions
  <2>2. new[fd] = NewConnection(c) /\ \A f \in DOMAIN connections : new[f] = connections[f]
    BY <1>3 DEF Assign
  <2>3. GoodMap(connections, open, received, proved)
    BY <1>1, MapIsGood
  <2>4. NewConnection(c) # NoConnection
    BY <2>1, GoodIsConnection
  <2> QED BY <1>2, <1>3, <1>4, <2>1, <2>2, <2>3, <2>4 DEF GoodMap
<1>6. \A f \in DOMAIN new : received[open'[f]] \in Seq(Reception)
  BY <1>2, <1>4, SeqOfOpen DEF IInv, Receptions
<1> HIDE DEF new
<1>7. GoodMap(connections', open', received, proved) /\ DOMAIN connections' = DOMAIN new
  BY <1>1, <1>5, <1>6, LogGood
<1>8. GoodConnections' /\ \A f \in Fd : (Connected(f) <=> f \in DOMAIN connections)'
  BY <1>1, <1>4, <1>7, GoodMapMeans
<1>9. Sockets'
  <2>1. \A f \in DOMAIN connections' : open'[f] # NoClient
    BY <1>2, <1>4, <1>7 DEF IInv, Sockets
  <2>2. \A e, f \in Fd : open'[e] = open'[f] /\ open'[e] # NoClient => e = f
    BY <1>2, <1>3 DEF IInv, Sockets
  <2>3. \A f \in Fd : open'[f] \notin waiting'
    BY <1>1, <1>2 DEF IInv, Sockets
  <2>4. writable' \subseteq Fd /\ waiting' \subseteq Client /\ \A f \in writable' : open'[f] # NoClient
    BY <1>1, <1>2 DEF IInv, Sockets
  <2> QED BY <1>2, <1>4, <1>7, <2>1, <2>2, <2>3, <2>4 DEF Sockets
<1>10. Receptions'
  <2>1. ASSUME NEW f \in Fd, open'[f] # NoClient, ~(Connected(f)') PROVE Cut(open'[f])
    <3>1. f # fd /\ ~Connected(f)
      BY <1>4, <1>7, <1>8, <2>1 DEF Connected
    <3> QED BY <1>2, <2>1, <3>1 DEF IInv, Receptions
  <2>2. \A f \in Fd : Cut(open'[f]) => Cut(open[f])'
    BY <1>1 DEF Cut
  <2> QED BY <1>1, <2>1, <2>2 DEF IInv, Receptions
<1>11. Visible' /\ InOrder'
  BY <1>1 DEF IInv, Visible, InOrder
<1>12. Others'
  BY <1>1, <1>2 DEF IInv, Others, SpectrumOffWithoutClients
<1> QED BY <1>8, <1>9, <1>10, <1>11, <1>12 DEF IInv

(* A client and what it has received, in a good map.                       *)
LEMMA ServedClient ==
  ASSUME IInv, NEW fd \in Fd, Connected(fd)
  PROVE  /\ connections[fd].client = open[fd] /\ open[fd] \in Client
         /\ Good(connections[fd], received[open[fd]], proved)
         /\ received[open[fd]] \in Seq(Reception) /\ Ordered(received[open[fd]])
         /\ Seen(open[fd], received[open[fd]], proved)
         /\ Len(connections[fd].buffer) \in Nat
<1>1. connections[fd].client = open[fd] /\ Good(connections[fd], received[open[fd]], proved)
  BY DEF IInv, GoodConnections
<1>2. open[fd] \in Client
  BY DEF IInv, Sockets, Connected
<1>3. received[open[fd]] \in Seq(Reception)
  BY <1>2 DEF IInv, Receptions
<1>4. Ordered(received[open[fd]]) /\ Seen(open[fd], received[open[fd]], proved)
  BY <1>2 DEF IInv, InOrder, Visible, Ordered, Seen
<1>5. Len(connections[fd].buffer) \in Nat
  BY <1>1 DEF Good, Connection
<1> QED BY <1>1, <1>2, <1>3, <1>4, <1>5

(* One client receives more: the properties of all are kept.               *)
LEMMA ReceptionGrows ==
  ASSUME IInv, NEW c \in Client, c \notin waiting, NEW all \in Seq(Reception),
         Ordered(all), Seen(c, all, proved), Cut(c) => \E i \in DOMAIN all : ~all[i].whole,
         received' = [received EXCEPT ![c] = all], UNCHANGED <<open, waiting, proved>>
  PROVE  /\ Visible' /\ InOrder' /\ received' \in [Client -> Seq(Reception)]
         /\ \A w \in waiting' : received'[w] = <<>>
         /\ received'[c] = all /\ \A w \in Client : w # c => received'[w] = received[w]
         /\ \A fd \in Fd : open[fd] # NoClient /\ Cut(open[fd]) => Cut(open[fd])'
<1>1. received \in [Client -> Seq(Reception)]
  BY DEF IInv, Receptions
<1>2. /\ received' \in [Client -> Seq(Reception)] /\ received'[c] = all
      /\ \A w \in Client : w # c => received'[w] = received[w]
  BY <1>1
<1>3. Visible'
  BY <1>2 DEF IInv, Visible, Seen
<1>4. InOrder'
  BY <1>2 DEF IInv, InOrder, Ordered
<1>5. \A w \in waiting' : received'[w] = <<>>
  BY <1>2 DEF IInv, Receptions, Sockets
<1>6. ASSUME NEW fd \in Fd, open[fd] # NoClient, Cut(open[fd]) PROVE Cut(open[fd])'
  <2>1. open[fd] \in Client /\ open'[fd] = open[fd]
    BY <1>6 DEF IInv, Sockets
  <2>2. CASE open[fd] = c
    BY <1>2, <1>6, <2>1, <2>2 DEF Cut
  <2>3. CASE open[fd] # c
    BY <1>2, <1>6, <2>1, <2>3 DEF Cut
  <2> QED BY <2>2, <2>3
<1> QED BY <1>2, <1>3, <1>4, <1>5, <1>6

LEMMA WriteAllKeeps ==
  ASSUME IInv, NEW fd \in Fd, Connected(fd),
         NEW at \in Written(Len(connections[fd].buffer)), WriteAll(fd, at)
  PROVE  IInv'
<1> DEFINE cn  == connections[fd]
           c   == cn.client
           r   == received[c]
           all == r \o Delivered(cn.buffer, at)
           new == [cn EXCEPT !.buffer = <<>>]
<1>1. /\ fd \in writable /\ received' = [received EXCEPT ![c] = all]
      /\ connections' = [connections EXCEPT ![fd] = new]
      /\ writable' = writable /\ m_socketsOn' = m_socketsOn /\ open' = open
      /\ waiting' = waiting /\ proved' = proved /\ process' = process
  BY DEF WriteAll, outside
<1>2. /\ c = open[fd] /\ c \in Client /\ Good(cn, r, proved) /\ r \in Seq(Reception)
      /\ Ordered(r) /\ Seen(c, r, proved) /\ Len(cn.buffer) \in Nat
  BY ServedClient
<1>3. /\ all \in Seq(Reception) /\ Ordered(all) /\ Seen(c, all, proved)
      /\ \A i \in DOMAIN all : all[i].whole /\ all[i].n <= cn.pushed
  <2> DEFINE n == Len(cn.buffer)
  <2>1. n \in Nat /\ n <= n /\ at \in Written(n)
    BY <1>2
  <2>2. all = r \o Delivered(cn.buffer, at)
    OBVIOUS
  <2> HIDE DEF all, r, cn
  <2> QED BY <1>2, <2>1, <2>2, Delivery
<1>4. Good(new, all, proved) /\ new.client = c
  <2>1. new \in Connection /\ new.buffer = <<>> /\ new.pushed = cn.pushed /\ new.client = c
        /\ new.user = cn.user
    <3>1. cn \in Connection /\ <<>> \in Seq(Message)
      BY <1>2 DEF Good
    <3> HIDE DEF cn
    <3> QED BY <3>1 DEF Connection
  <2> HIDE DEF all, new
  <2> QED BY <1>2, <1>3, <2>1 DEF Good, Numbered, Follows, Entitled
<1> HIDE DEF all, new
<1>5. c \notin waiting /\ ~Cut(c)
  BY <1>2 DEF IInv, Sockets, Good, Follows, Cut
<1>6. /\ Visible' /\ InOrder' /\ received' \in [Client -> Seq(Reception)]
      /\ \A w \in waiting' : received'[w] = <<>>
      /\ received'[c] = all /\ \A w \in Client : w # c => received'[w] = received[w]
      /\ \A f \in Fd : open[f] # NoClient /\ Cut(open[f]) => Cut(open[f])'
  BY <1>1, <1>2, <1>3, <1>5, ReceptionGrows
<1>7. /\ fd \in DOMAIN connections /\ DOMAIN connections' = DOMAIN connections
      /\ connections'[fd] = new
      /\ \A f \in DOMAIN connections : f # fd => connections'[f] = connections[f]
  BY <1>1 DEF Connected
<1>8. new # NoConnection
  BY <1>4, GoodIsConnection
<1>9. \A f \in Fd : Connected(f)' <=> Connected(f)
  BY <1>7, <1>8 DEF Connected
<1>10. GoodConnections'
  <2> SUFFICES ASSUME NEW f \in Fd, Connected(f)
               PROVE  /\ Good(connections'[f], received'[open[f]], proved)
                      /\ connections'[f].client = open[f]
    BY <1>1, <1>9 DEF GoodConnections
  <2>1. CASE f = fd
    BY <1>2, <1>4, <1>6, <1>7, <2>1
  <2>2. CASE f # fd
    <3>1. open[f] # c /\ open[f] \in Client /\ f \in DOMAIN connections
      BY <1>2, <2>2, NoClientAssumption DEF IInv, Sockets, Connected
    <3> QED BY <1>6, <1>7, <2>2, <3>1 DEF IInv, GoodConnections
  <2> QED BY <2>1, <2>2
<1>11. Sockets'
  BY <1>1, <1>7 DEF IInv, Sockets
<1>12. Receptions'
  BY <1>1, <1>6, <1>9 DEF IInv, Receptions
<1>13. Others'
  BY <1>1 DEF IInv, Others, SpectrumOffWithoutClients
<1> QED BY <1>6, <1>10, <1>11, <1>12, <1>13 DEF IInv

(* Removing a connection leaves the others as the log line has made them.  *)
LEMMA RemovedMap ==
  ASSUME IInv, CanLog, NEW fd \in Fd,
         connections' = removeConnection(broadcast_log(connections), fd)
  PROVE  /\ DOMAIN connections' = DOMAIN connections \ {fd}
         /\ GoodMap(connections', open, received, proved)
<1>1. /\ GoodMap(broadcast_log(connections), open, received, proved)
      /\ DOMAIN broadcast_log(connections) = DOMAIN connections
  BY MapIsGood, SeqOfOpen, LogGood
<1>2. /\ DOMAIN connections' = DOMAIN connections \ {fd}
      /\ \A f \in DOMAIN connections' : connections'[f] = broadcast_log(connections)[f]
  BY <1>1 DEF removeConnection
<1> QED BY <1>1, <1>2 DEF GoodMap

LEMMA WriteShortKeeps ==
  ASSUME IInv, NEW fd \in Fd, Connected(fd), NEW k \in DOMAIN connections[fd].buffer,
         NEW at \in Written(k - 1), WriteShort(fd, at, k)
  PROVE  IInv'
<1> DEFINE cn   == connections[fd]
           c    == cn.client
           r    == received[c]
           all  == r \o Delivered(cn.buffer, at)
           part == [n |-> cn.buffer[k].n, kind |-> cn.buffer[k].kind, whole |-> FALSE]
           cut  == Append(all, part)
<1>1. /\ CanLog /\ fd \in writable /\ received' = [received EXCEPT ![c] = cut]
      /\ connections' = removeConnection(broadcast_log(connections), fd)
      /\ writable' = writable /\ m_socketsOn' = m_socketsOn /\ open' = open
      /\ waiting' = waiting /\ proved' = proved /\ process' = process
  BY DEF WriteShort, ReceivedShort, outside
<1>2. /\ c = open[fd] /\ c \in Client /\ Good(cn, r, proved) /\ r \in Seq(Reception)
      /\ Ordered(r) /\ Seen(c, r, proved) /\ Len(cn.buffer) \in Nat
  BY ServedClient
<1>3. cn.buffer \in Seq(Message)
  BY <1>2 DEF Good, Connection
<1>4. k - 1 \in Nat /\ k - 1 <= Len(cn.buffer) /\ k - 1 < k /\ k \in DOMAIN cn.buffer
  BY <1>2, <1>3
<1>5. /\ all \in Seq(Reception) /\ Ordered(all) /\ Seen(c, all, proved)
      /\ \A i \in DOMAIN all : all[i].whole /\ all[i].n < cn.buffer[k].n
  <2> DEFINE n == k - 1
  <2>1. n \in Nat /\ n <= Len(cn.buffer) /\ at \in Written(n) /\ n < k
    BY <1>4
  <2>2. all = r \o Delivered(cn.buffer, at)
    OBVIOUS
  <2> HIDE DEF all, r, cn, n
  <2> QED BY <1>2, <1>4, <2>1, <2>2, Delivery
<1>6. part \in Reception /\ part.n = cn.buffer[k].n /\ part.kind = cn.buffer[k].kind
      /\ ~part.whole
  <2>1. cn.buffer[k] \in Message
    BY <1>3, <1>4
  <2> HIDE DEF cn
  <2> QED BY <2>1 DEF Message, Reception
<1> HIDE DEF all, part, cut
<1>7. /\ cut \in Seq(Reception) /\ DOMAIN cut \subseteq Nat
      /\ \A i \in DOMAIN cut : \/ i \in DOMAIN all /\ cut[i] = all[i] /\ i < Len(cut)
                               \/ i = Len(cut) /\ cut[i] = part
      /\ \A i \in DOMAIN cut : i <= Len(cut)
      /\ Len(cut) \in DOMAIN cut /\ cut[Len(cut)] = part
  BY <1>5, <1>6 DEF cut
<1>8. Ordered(cut)
  <2> SUFFICES ASSUME NEW i \in DOMAIN cut, NEW j \in DOMAIN cut, i < j
               PROVE  cut[i].n < cut[j].n /\ cut[i].whole
    BY DEF Ordered
  <2>1. i \in DOMAIN all /\ cut[i] = all[i]
    BY <1>7
  <2>2. CASE j \in DOMAIN all /\ cut[j] = all[j]
    BY <1>5, <2>1, <2>2 DEF Ordered
  <2>3. CASE cut[j] = part
    BY <1>5, <1>6, <2>1, <2>3
  <2> QED BY <1>7, <2>2, <2>3
<1>9. Seen(c, cut, proved)
  <2>1. MaySee(c, cn.buffer[k], proved)
    BY <1>2, <1>4 DEF Good, Entitled
  <2>2. MaySee(c, part, proved)
    BY <1>6, <2>1 DEF MaySee
  <2> QED BY <1>5, <1>7, <2>2 DEF Seen
<1>10. c \notin waiting /\ \E i \in DOMAIN cut : ~cut[i].whole
  BY <1>2, <1>6, <1>7 DEF IInv, Sockets
<1>11. /\ Visible' /\ InOrder' /\ received' \in [Client -> Seq(Reception)]
       /\ \A w \in waiting' : received'[w] = <<>>
       /\ received'[c] = cut /\ \A w \in Client : w # c => received'[w] = received[w]
       /\ \A f \in Fd : open[f] # NoClient /\ Cut(open[f]) => Cut(open[f])'
  BY <1>1, <1>2, <1>7, <1>8, <1>9, <1>10, ReceptionGrows
<1>12. /\ DOMAIN connections' = DOMAIN connections \ {fd}
       /\ GoodMap(connections', open, received, proved)
  BY <1>1, RemovedMap
<1>13. GoodMap(connections', open', received', proved')
  <2>1. \A f \in DOMAIN connections' : open[f] # c /\ open[f] \in Client
    BY <1>2, <1>12, NoClientAssumption DEF IInv, Sockets
  <2> QED BY <1>1, <1>11, <1>12, <2>1 DEF GoodMap
<1>14. GoodConnections' /\ \A f \in Fd : (Connected(f) <=> f \in DOMAIN connections)'
  BY <1>12, <1>13, GoodMapMeans DEF IInv, Sockets
<1>15. Sockets'
  BY <1>1, <1>12 DEF IInv, Sockets
<1>16. Receptions'
  <2> SUFFICES ASSUME NEW f \in Fd, open[f] # NoClient, ~(Connected(f)') PROVE Cut(open[f])'
    BY <1>1, <1>11 DEF Receptions
  <2>1. CASE f = fd
    BY <1>1, <1>2, <1>10, <1>11, <2>1 DEF Cut
  <2>2. CASE f # fd
    <3>1. ~Connected(f)
      BY <1>12, <1>14, <2>2 DEF Connected
    <3> QED BY <1>11, <3>1 DEF IInv, Receptions
  <2> QED BY <2>1, <2>2
<1>17. Others'
  BY <1>1 DEF IInv, Others, SpectrumOffWithoutClients
<1> QED BY <1>11, <1>14, <1>15, <1>16, <1>17 DEF IInv

LEMMA WriteMissingKeeps ==
  ASSUME IInv, NEW fd \in Fd, WriteMissing(fd)
  PROVE  IInv'
<1>1. /\ fd \in writable /\ ~Connected(fd)
      /\ connections' = Assign(connections, fd, NoConnection)
      /\ writable' = writable /\ m_socketsOn' = m_socketsOn /\ open' = open
      /\ waiting' = waiting /\ proved' = proved /\ process' = process /\ received' = received
  BY DEF WriteMissing, outside
<1>2. /\ DOMAIN connections' = DOMAIN connections \cup {fd} /\ connections'[fd] = NoConnection
      /\ \A f \in DOMAIN connections : f # fd => connections'[f] = connections[f]
  BY <1>1 DEF Assign
<1>3. \A f \in Fd : /\ Connected(f)' <=> Connected(f)
                    /\ Connected(f) => connections'[f] = connections[f]
  BY <1>1, <1>2 DEF Connected
<1>4. Sockets'
  BY <1>1, <1>2 DEF IInv, Sockets
<1>5. GoodConnections'
  BY <1>1, <1>3 DEF IInv, GoodConnections
<1>6. Receptions'
  BY <1>1, <1>3 DEF IInv, Receptions, Cut
<1>7. Visible' /\ InOrder' /\ Others'
  BY <1>1 DEF IInv, Visible, InOrder, Others, SpectrumOffWithoutClients
<1> QED BY <1>4, <1>5, <1>6, <1>7 DEF IInv

LEMMA ClosedKeeps ==
  ASSUME IInv, NEW fd \in Fd, Closed(fd)
  PROVE  IInv'
<1>1. /\ CanLog /\ open[fd] # NoClient
      /\ connections' = removeConnection(broadcast_log(connections), fd)
      /\ m_socketsOn' = FALSE /\ open' = [open EXCEPT ![fd] = NoClient]
      /\ writable' = writable \ {fd} /\ waiting' = waiting /\ proved' = proved
      /\ process' = process /\ received' = received
  BY DEF Closed
<1>2. /\ DOMAIN connections' = DOMAIN connections \ {fd}
      /\ GoodMap(connections', open, received, proved)
  BY <1>1, RemovedMap
<1>3. /\ open' \in [Fd -> Client \cup {NoClient}] /\ open'[fd] = NoClient
      /\ \A f \in Fd : f # fd => open'[f] = open[f]
  BY <1>1 DEF IInv, Sockets
<1>4. GoodMap(connections', open', received', proved')
  BY <1>1, <1>2, <1>3 DEF GoodMap, IInv, Sockets
<1>5. GoodConnections' /\ \A f \in Fd : (Connected(f) <=> f \in DOMAIN connections)'
  BY <1>2, <1>4, GoodMapMeans DEF IInv, Sockets
<1>6. Sockets'
  <2>1. \A f \in Fd : open'[f] \notin waiting'
    BY <1>1, <1>3, NoClientAssumption DEF IInv, Sockets
  <2>2. \A e, f \in Fd : open'[e] = open'[f] /\ open'[e] # NoClient => e = f
    BY <1>3 DEF IInv, Sockets
  <2>3. \A f \in DOMAIN connections' \cup writable' : open'[f] # NoClient
    BY <1>1, <1>2, <1>3 DEF IInv, Sockets
  <2> QED BY <1>1, <1>2, <1>3, <2>1, <2>2, <2>3 DEF IInv, Sockets
<1>7. Receptions'
  <2> SUFFICES ASSUME NEW f \in Fd, open'[f] # NoClient, ~(Connected(f)') PROVE Cut(open[f])
    BY <1>1, <1>3 DEF IInv, Receptions, Cut
  <2>1. ~Connected(f) /\ open[f] # NoClient
    BY <1>2, <1>3, <1>5 DEF Connected
  <2> QED BY <2>1 DEF IInv, Receptions
<1>8. Visible' /\ InOrder' /\ Others'
  BY <1>1 DEF IInv, Visible, InOrder, Others, SpectrumOffWithoutClients
<1> QED BY <1>5, <1>6, <1>7, <1>8 DEF IInv

(* A request that is answered: the connection, logged to, takes the answer *)
(* and perhaps another user.                                               *)
LEMMA LoggedConnection ==
  ASSUME IInv, CanLog, NEW fd \in Fd, Connected(fd)
  PROVE  LET cn == broadcast_log(connections)[fd] IN
         /\ GoodMap(broadcast_log(connections), open, received, proved)
         /\ DOMAIN broadcast_log(connections) = DOMAIN connections /\ fd \in DOMAIN connections
         /\ Good(cn, received[open[fd]], proved) /\ cn.client = open[fd]
         /\ cn.user = connections[fd].user /\ received[open[fd]] \in Seq(Reception)
<1>1. /\ GoodMap(broadcast_log(connections), open, received, proved)
      /\ DOMAIN broadcast_log(connections) = DOMAIN connections
      /\ \A f \in DOMAIN connections :
           broadcast_log(connections)[f].user = connections[f].user
  BY MapIsGood, SeqOfOpen, LogGood
<1>2. fd \in DOMAIN connections /\ received[open[fd]] \in Seq(Reception)
  BY SeqOfOpen DEF Connected
<1> QED BY <1>1, <1>2 DEF GoodMap

(* A log line, of a request or of another thread.                          *)
LEMMA LoggedMap ==
  ASSUME IInv, CanLog, connections' = broadcast_log(connections)
  PROVE  /\ DOMAIN connections' = DOMAIN connections
         /\ GoodMap(connections', open, received, proved)
BY MapIsGood, SeqOfOpen, LogGood

LEMMA LogKeeps ==
  ASSUME IInv, CanLog, connections' = broadcast_log(connections),
         UNCHANGED <<m_socketsOn, outside, writable, received, process>>
  PROVE  IInv'
<1>1. /\ DOMAIN connections' = DOMAIN connections
      /\ GoodMap(connections', open, received, proved)
  BY LoggedMap
<1>2. proved' = proved /\ proved \subseteq Client \X User
  BY DEF outside, IInv, Others
<1> QED BY <1>1, <1>2, PushesKeep DEF outside

LEMMA MessageKeeps ==
  ASSUME IInv, NEW fd \in Fd, onMessage(fd)
  PROVE  IInv'
<1> DEFINE cn == broadcast_log(connections)[fd]
<1>1. CASE Ignored(fd)
  BY <1>1, LogKeeps DEF Ignored, Request
<1>2. ASSUME NEW kind \in {"list", "other"}, kind = "list" => cn.user \in Lister,
             connections' = Answer(fd, cn, kind), CanLog, Connected(fd),
             UNCHANGED <<m_socketsOn, outside, writable, received, process>>
      PROVE  IInv'
  <2>1. GoodMap(connections', open, received, proved) /\ DOMAIN connections' = DOMAIN connections
    <3>1. /\ GoodMap(broadcast_log(connections), open, received, proved)
          /\ DOMAIN broadcast_log(connections) = DOMAIN connections /\ fd \in DOMAIN connections
          /\ Good(cn, received[open[fd]], proved) /\ cn.client = open[fd]
          /\ received[open[fd]] \in Seq(Reception)
      BY <1>2, LoggedConnection
    <3>2. connections' = Assign(broadcast_log(connections), fd, push_to_buffer(cn, kind))
      BY <1>2 DEF Answer
    <3> HIDE DEF cn
    <3> DEFINE logged == broadcast_log(connections)
    <3>3. MayAsk(cn, kind)
      BY <1>2 DEF MayAsk
    <3>4. DOMAIN logged = DOMAIN connections
      BY <3>1
    <3>5. /\ fd \in DOMAIN logged /\ GoodMap(logged, open, received, proved)
          /\ Good(cn, received[open[fd]], proved) /\ cn.client = open[fd]
          /\ received[open[fd]] \in Seq(Reception)
      BY <3>1
    <3> HIDE DEF logged
    <3>6. /\ GoodMap(Assign(logged, fd, push_to_buffer(cn, kind)), open, received, proved)
          /\ DOMAIN Assign(logged, fd, push_to_buffer(cn, kind)) = DOMAIN logged
      BY <3>3, <3>5, AnswerGood
    <3> QED BY <3>2, <3>4, <3>6 DEF logged
  <2> QED BY <1>2, <2>1, PushesKeep DEF outside, IInv, Others
<1>3. CASE Refused(fd)
  BY <1>2, <1>3 DEF Refused, Request
<1>4. CASE ListNeighbours(fd)
  <2>1. CanLog /\ Connected(fd)
    BY <1>4 DEF ListNeighbours, Request
  <2>2. cn.user \in Lister
    BY <1>4, <2>1, LoggedConnection DEF ListNeighbours
  <2> QED BY <1>2, <1>4, <2>1, <2>2 DEF ListNeighbours
<1>5. ASSUME NEW u \in User, authenticate(fd, u) PROVE IInv'
  <2> DEFINE new == [cn EXCEPT !.user = u]
  <2>1. /\ CanLog /\ Connected(fd) /\ connections' = Answer(fd, new, "other")
        /\ proved' = proved \cup {<<connections[fd].client, u>>}
        /\ UNCHANGED <<m_socketsOn, open, waiting, writable, received, process>>
    BY <1>5 DEF authenticate, Request
  <2>2. /\ GoodMap(broadcast_log(connections), open, received, proved)
        /\ DOMAIN broadcast_log(connections) = DOMAIN connections /\ fd \in DOMAIN connections
        /\ Good(cn, received[open[fd]], proved) /\ cn.client = open[fd]
        /\ received[open[fd]] \in Seq(Reception)
    BY <2>1, LoggedConnection
  <2>3. connections[fd].client = open[fd] /\ open[fd] \in Client
    BY <2>1, ServedClient
  <2>4. proved \subseteq proved' /\ proved' \subseteq Client \X User /\ <<open[fd], u>> \in proved'
    BY <2>1, <2>3 DEF IInv, Others
  <2>5. GoodMap(broadcast_log(connections), open, received, proved')
    BY <2>2, <2>4, LoginsGrow DEF GoodMap
  <2>6. Good(new, received[open[fd]], proved') /\ new.client = open[fd]
    <3>1. Good(cn, received[open[fd]], proved')
      BY <2>2, <2>4, LoginsGrow
    <3> HIDE DEF cn
    <3>2. /\ new \in Connection /\ new.client = cn.client /\ new.buffer = cn.buffer
          /\ new.pushed = cn.pushed /\ new.user = u
      BY <3>1 DEF Good, Connection
    <3> HIDE DEF new
    <3> QED BY <2>2, <2>4, <3>1, <3>2 DEF Good, Numbered, Follows, Entitled
  <2> HIDE DEF new, cn
  <2>7. /\ GoodMap(connections', open, received, proved')
        /\ DOMAIN connections' = DOMAIN connections
    <3>1. connections' = Assign(broadcast_log(connections), fd, push_to_buffer(new, "other"))
      BY <2>1 DEF Answer
    <3> DEFINE logged == broadcast_log(connections)
    <3>2. DOMAIN logged = DOMAIN connections
      BY <2>2
    <3>3. /\ fd \in DOMAIN logged /\ GoodMap(logged, open, received, proved')
          /\ received[open[fd]] \in Seq(Reception)
      BY <2>2, <2>5
    <3>5. MayAsk(new, "other")
      BY DEF MayAsk
    <3> HIDE DEF logged
    <3>4. /\ GoodMap(Assign(logged, fd, push_to_buffer(new, "other")), open, received, proved')
          /\ DOMAIN Assign(logged, fd, push_to_buffer(new, "other")) = DOMAIN logged
      BY <2>6, <3>3, <3>5, AnswerGood
    <3> QED BY <3>1, <3>2, <3>4 DEF logged
  <2> QED BY <2>1, <2>4, <2>7, PushesKeep
<1> QED BY <1>1, <1>3, <1>4, <1>5 DEF onMessage

LEMMA SpectrumKeeps ==
  ASSUME IInv, Spectrum
  PROVE  IInv'
<1>1. /\ CanLog /\ connections' = broadcast(connections)
      /\ UNCHANGED <<m_socketsOn, outside, writable, received, process>>
  BY DEF Spectrum
<1>2. /\ DOMAIN connections' = DOMAIN connections
      /\ GoodMap(connections', open, received, proved)
  BY <1>1, MapIsGood, SeqOfOpen, SpectrumGood
<1>3. proved' = proved /\ proved \subseteq Client \X User
  BY <1>1 DEF outside, IInv, Others
<1> QED BY <1>1, <1>2, <1>3, PushesKeep DEF outside

(* A process that is stopped, or takes no step.                            *)
LEMMA StoppedKeeps ==
  ASSUME IInv, Race \/ NullPointer \/ UNCHANGED vars
  PROVE  IInv'
<1>1. /\ connections' = connections /\ m_socketsOn' = m_socketsOn /\ writable' = writable
      /\ open' = open /\ waiting' = waiting /\ proved' = proved /\ received' = received
  BY DEF Race, NullPointer, vars, outside
<1>2. process' \in {"runs", "race", "null"}
  BY DEF Race, NullPointer, vars, IInv, Others
<1>3. Sockets' /\ Receptions' /\ GoodConnections'
  BY <1>1 DEF IInv, Sockets, Receptions, GoodConnections, Connected, Cut
<1>4. Visible' /\ InOrder' /\ Others'
  BY <1>1, <1>2 DEF IInv, Visible, InOrder, Others, SpectrumOffWithoutClients
<1> QED BY <1>3, <1>4 DEF IInv

LEMMA Preserved == IInv /\ [Next]_vars => IInv'
<1> SUFFICES ASSUME IInv, [Next]_vars PROVE IInv' OBVIOUS
<1>1. ASSUME NEW fd \in Fd, NEW c \in Client, Established(fd, c) PROVE IInv'
  BY <1>1, EstablishedKeeps
<1>2. ASSUME NEW fd \in Fd, Writeable(fd) PROVE IInv'
  BY <1>2, WriteMissingKeeps, WriteAllKeeps, WriteShortKeeps DEF Writeable
<1>3. ASSUME NEW fd \in Fd, onMessage(fd) PROVE IInv'
  BY <1>3, MessageKeeps
<1>4. ASSUME NEW fd \in Fd, Closed(fd) PROVE IInv'
  BY <1>4, ClosedKeeps
<1>5. CASE Spectrum
  BY <1>5, SpectrumKeeps
<1>6. CASE LogElsewhere
  BY <1>6, LogKeeps DEF LogElsewhere
<1>7. CASE Race \/ NullPointer \/ UNCHANGED vars
  BY <1>7, StoppedKeeps
<1> QED BY <1>1, <1>2, <1>3, <1>4, <1>5, <1>6, <1>7 DEF Next

LEMMA Invariance == Spec => []IInv
<1> QED BY Initially, Preserved, PTL DEF Spec, SafeSpec

(* Types, and the numbers of the messages in every buffer.                 *)
THEOREM TypeCorrect == Spec => []TypeOK
<1> QED BY Invariance, GivesTypeOK, PTL

(* Over whole, short and failed writes, any number of clients and any      *)
(* reuse of descriptors, a client receives its messages in order, none     *)
(* twice, and nothing behind one that was cut.                             *)
THEOREM ReceivedInOrder == Spec => []InOrder
<1>1. IInv => InOrder BY DEF IInv
<1> QED BY Invariance, <1>1, PTL

(* The map of connections mirrors the open sockets.                        *)
THEOREM MapMirrorsSockets == Spec => []ConnectionPerSocket
<1> QED BY Invariance, GivesMirror, PTL

(* Log lines and neighbour lists reach only clients that proved to be a    *)
(* user with the permission.                                               *)
THEOREM OnlyPermitted == Spec => []Permitted
<1> QED BY Invariance, GivesPermitted, PTL

(* The spectrum is not computed for nobody.                                *)
THEOREM SpectrumNeedsClient == Spec => []SpectrumOffWithoutClients
<1>1. IInv => SpectrumOffWithoutClients BY DEF IInv, Others
<1> QED BY Invariance, <1>1, PTL

(***************************************************************************)
(* The mailboxes.                                                          *)
(***************************************************************************)
OpenBox(cn, r) ==
  [state |-> "open", pushed |-> cn.pushed, inbox |-> cn.buffer, received |-> r]

(* Which mailbox a client has.                                             *)
Boxes ==
  /\ \A fd \in Fd : open[fd] # NoClient =>
       Box(open[fd]) = IF Connected(fd) THEN OpenBox(connections[fd], received[open[fd]])
                       ELSE Mailboxes!Shut("broken", received[open[fd]])
  /\ \A c \in Client : (\A fd \in Fd : open[fd] # c) =>
       Box(c) = Mailboxes!Shut(IF c \in waiting THEN "new" ELSE "over", received[c])

LEMMA BoxesAre == IInv => Boxes
<1> SUFFICES ASSUME IInv PROVE Boxes
  OBVIOUS
<1>1. ASSUME NEW fd \in Fd, open[fd] # NoClient
      PROVE  (CHOOSE f \in Fd : open[f] = open[fd]) = fd
  <2>1. \A f \in Fd : open[f] = open[fd] => f = fd
    BY <1>1 DEF IInv, Sockets
  <2> QED BY <2>1
<1>2. ASSUME NEW fd \in Fd, open[fd] # NoClient
      PROVE  Box(open[fd]) = IF Connected(fd) THEN OpenBox(connections[fd], received[open[fd]])
                             ELSE Mailboxes!Shut("broken", received[open[fd]])
  BY <1>1, <1>2 DEF Box, OpenBox, Mailboxes!Shut
<1>3. ASSUME NEW c \in Client, \A fd \in Fd : open[fd] # c
      PROVE  Box(c) = Mailboxes!Shut(IF c \in waiting THEN "new" ELSE "over", received[c])
  BY <1>3 DEF Box, Mailboxes!Shut
<1> QED BY <1>2, <1>3 DEF Boxes

(* A connection that was pushed to, any number of times.                   *)
Grown(cn, dn) ==
  \A r : Mailboxes!Filled(OpenBox(cn, r), OpenBox(dn, r))

Sized(cn) == cn.pushed \in Nat /\ cn.buffer \in Seq(Message)

LEMMA GrownMeans ==
  ASSUME NEW cn, NEW dn
  PROVE  Grown(cn, dn) <=>
           /\ dn.pushed >= cn.pushed
           /\ Len(dn.buffer) = Len(cn.buffer) + (dn.pushed - cn.pushed)
           /\ \A i \in DOMAIN dn.buffer :
                IF i <= Len(cn.buffer) THEN dn.buffer[i] = cn.buffer[i]
                ELSE dn.buffer[i].n = cn.pushed + (i - Len(cn.buffer))
BY DEF Grown, OpenBox, Mailboxes!Filled, Mailboxes!Longer, Mailboxes!OpenBox

LEMMA GrowsByNothing ==
  ASSUME NEW cn, NEW dn, Sized(cn), dn.pushed = cn.pushed, dn.buffer = cn.buffer
  PROVE  Grown(cn, dn)
<1>1. /\ Len(cn.buffer) \in Nat /\ cn.pushed \in Nat /\ \A i \in DOMAIN cn.buffer : i <= Len(cn.buffer)
  BY DEF Sized
<1> QED BY <1>1, GrownMeans

LEMMA GrowsByOne ==
  ASSUME NEW cn \in Connection, NEW kind \in Kind
  PROVE  Grown(cn, push_to_buffer(cn, kind)) /\ push_to_buffer(cn, kind) \in Connection
<1> DEFINE message == [n |-> cn.pushed + 1, kind |-> kind]
           buffer == cn.buffer
           longer == Append(buffer, message)
           new == push_to_buffer(cn, kind)
<1>1. buffer \in Seq(Message) /\ cn.pushed \in Nat /\ message \in Message
  BY DEF Connection, Message
<1>2. new.buffer = longer /\ new.pushed = cn.pushed + 1
  BY DEF push_to_buffer, Connection
<1>3. message.n = cn.pushed + 1
  OBVIOUS
<1> HIDE DEF message, buffer, new
<1>4. /\ Len(buffer) \in Nat /\ Len(longer) = Len(buffer) + 1 /\ longer \in Seq(Message)
      /\ DOMAIN longer = 1 .. Len(buffer) + 1
      /\ \A i \in 1 .. Len(buffer) + 1 : longer[i] = IF i <= Len(buffer) THEN buffer[i] ELSE message
  BY <1>1
<1> HIDE DEF longer
<1>5. ASSUME NEW i \in DOMAIN longer
      PROVE  IF i <= Len(buffer) THEN longer[i] = buffer[i]
             ELSE longer[i].n = cn.pushed + (i - Len(buffer))
  <2>1. CASE i <= Len(buffer)
    BY <1>4, <2>1
  <2>2. CASE ~(i <= Len(buffer))
    <3>1. i - Len(buffer) = 1
      BY <1>4, <2>2
    <3> QED BY <1>3, <1>4, <2>2, <3>1
  <2> QED BY <2>1, <2>2
<1>6. new.pushed >= cn.pushed /\ Len(new.buffer) = Len(cn.buffer) + (new.pushed - cn.pushed)
  BY <1>1, <1>2, <1>4 DEF buffer
<1>7. Grown(cn, new)
  BY <1>2, <1>5, <1>6, GrownMeans DEF buffer
<1>8. new \in Connection
  <2>1. longer \in Seq(Message) /\ cn.pushed + 1 \in Nat
    BY <1>1, <1>4
  <2>2. new = [cn EXCEPT !.buffer = longer, !.pushed = cn.pushed + 1]
    BY DEF push_to_buffer, new, longer, buffer, message
  <2> QED BY <2>1, <2>2 DEF Connection
<1> QED BY <1>7, <1>8 DEF new

LEMMA GrowsOn ==
  ASSUME NEW cn, NEW dn, NEW en, Sized(cn), Sized(dn), Sized(en), Grown(cn, dn), Grown(dn, en)
  PROVE  Grown(cn, en)
<1> DEFINE l == Len(cn.buffer)
           m == Len(dn.buffer)
<1>1. /\ l \in Nat /\ m \in Nat /\ cn.pushed \in Nat /\ dn.pushed \in Nat /\ en.pushed \in Nat
      /\ DOMAIN dn.buffer = 1 .. m /\ DOMAIN en.buffer = 1 .. Len(en.buffer) /\ Len(en.buffer) \in Nat
  BY DEF Sized
<1>2. /\ dn.pushed >= cn.pushed /\ m = l + (dn.pushed - cn.pushed)
      /\ \A i \in DOMAIN dn.buffer : IF i <= l THEN dn.buffer[i] = cn.buffer[i]
                                     ELSE dn.buffer[i].n = cn.pushed + (i - l)
  BY GrownMeans
<1>3. /\ en.pushed >= dn.pushed /\ Len(en.buffer) = m + (en.pushed - dn.pushed)
      /\ \A i \in DOMAIN en.buffer : IF i <= m THEN en.buffer[i] = dn.buffer[i]
                                     ELSE en.buffer[i].n = dn.pushed + (i - m)
  BY GrownMeans
<1>4. en.pushed >= cn.pushed /\ Len(en.buffer) = l + (en.pushed - cn.pushed)
  BY <1>1, <1>2, <1>3
<1> HIDE DEF l, m
<1>5. ASSUME NEW i \in DOMAIN en.buffer
      PROVE  IF i <= l THEN en.buffer[i] = cn.buffer[i]
             ELSE en.buffer[i].n = cn.pushed + (i - l)
  <2>1. CASE i <= m
    <3>1. en.buffer[i] = dn.buffer[i] /\ i \in DOMAIN dn.buffer
      BY <1>1, <1>3, <2>1
    <3> QED BY <1>2, <3>1
  <2>2. CASE ~(i <= m)
    <3>1. ~(i <= l) /\ dn.pushed + (i - m) = cn.pushed + (i - l)
      BY <1>1, <1>2, <2>2
    <3> QED BY <1>3, <2>2, <3>1
  <2> QED BY <2>1, <2>2
<1> QED BY <1>4, <1>5, GrownMeans DEF l

LEMMA LogGrows ==
  ASSUME NEW conns, NEW fd \in DOMAIN conns, conns[fd] \in Connection
  PROVE  Grown(conns[fd], broadcast_log(conns)[fd]) /\ broadcast_log(conns)[fd] \in Connection
<1>1. Sized(conns[fd]) /\ "log" \in Kind
  BY DEF Sized, Connection, Kind
<1>2. CASE conns[fd].user \in Reader
  <2>1. broadcast_log(conns)[fd] = push_to_buffer(conns[fd], "log")
    BY <1>2 DEF broadcast_log
  <2> QED BY <1>1, <2>1, GrowsByOne
<1>3. CASE conns[fd].user \notin Reader
  <2>1. broadcast_log(conns)[fd] = conns[fd]
    BY <1>3 DEF broadcast_log
  <2> QED BY <1>1, <2>1, GrowsByNothing
<1> QED BY <1>2, <1>3

LEMMA SizedInMap ==
  IInv => \A fd \in Fd : Connected(fd) => connections[fd] \in Connection /\ Sized(connections[fd])
BY DEF IInv, GoodConnections, Good, Sized, Connection

(* The mailboxes of the clients that a step does not serve.                *)
LEMMA OthersWait ==
  ASSUME IInv, IInv', NEW D \in SUBSET Client,
         \A fd \in Fd : open[fd] \in D \/ open'[fd] \in D =>
           /\ open'[fd] = open[fd] /\ (Connected(fd)' <=> Connected(fd))
           /\ Connected(fd) => Grown(connections[fd], connections'[fd]),
         \A c \in D : received'[c] = received[c] /\ (c \in waiting' <=> c \in waiting)
  PROVE  \A c \in D : Mailboxes!Waits(Box(c), Box(c)')
<1>1. Boxes /\ Boxes'
  BY BoxesAre, PTL
<1> SUFFICES ASSUME NEW c \in D PROVE Mailboxes!Waits(Box(c), Box(c)')
  OBVIOUS
<1>2. c \in Client /\ c # NoClient
  BY NoClientAssumption
<1>3. CASE \A fd \in Fd : open[fd] # c
  <2>1. \A fd \in Fd : open'[fd] # c
    BY <1>3
  <2>2. Box(c)' = Box(c)
    BY <1>1, <1>2, <1>3, <2>1 DEF Boxes, Mailboxes!Shut
  <2> QED BY <2>2 DEF Mailboxes!Waits
<1>4. ASSUME NEW fd \in Fd, open[fd] = c PROVE Mailboxes!Waits(Box(c), Box(c)')
  <2>1. open'[fd] = c /\ (Connected(fd)' <=> Connected(fd)) /\ received'[c] = received[c]
    BY <1>4
  <2>2. CASE ~Connected(fd)
    <3>1. Box(c) = Mailboxes!Shut("broken", received[c])
      BY <1>1, <1>2, <1>4, <2>2 DEF Boxes
    <3>2. Box(c)' = Mailboxes!Shut("broken", received[c])
      BY <1>1, <1>2, <2>1, <2>2 DEF Boxes, Mailboxes!Shut
    <3> QED BY <3>1, <3>2 DEF Mailboxes!Waits
  <2>3. CASE Connected(fd)
    <3>1. Grown(connections[fd], connections'[fd])
      BY <1>4, <2>3
    <3>2. /\ Box(c) = OpenBox(connections[fd], received[c])
          /\ Box(c)' = OpenBox(connections'[fd], received[c])
      BY <1>1, <1>2, <1>4, <2>1, <2>3 DEF Boxes, OpenBox
    <3>3. Mailboxes!Filled(Box(c), Box(c)')
      BY <3>1, <3>2 DEF Grown
    <3>4. Box(c).state = "open"
      BY <3>2 DEF OpenBox
    <3> QED BY <3>3, <3>4 DEF Mailboxes!Waits, Mailboxes!Fills
  <2> QED BY <2>2, <2>3
<1> QED BY <1>3, <1>4

(* Every mailbox waits: a step that only pushes, or changes no connection. *)
LEMMA AllWait ==
  ASSUME IInv, IInv', UNCHANGED <<open, waiting, received>>,
         \A fd \in Fd : /\ Connected(fd)' <=> Connected(fd)
                        /\ Connected(fd) => Grown(connections[fd], connections'[fd])
  PROVE  Mailboxes!Next
<1>1. Client \in SUBSET Client
  OBVIOUS
<1>2. \A c \in Client : Mailboxes!Waits(Box(c), Box(c)')
  BY <1>1, OthersWait
<1> QED BY <1>2 DEF Mailboxes!Next

(* One client's mailbox is opened, emptied, broken or left.                *)
LEMMA OneServed ==
  ASSUME IInv, IInv', NEW fd \in Fd, NEW c \in Client, open[fd] = c \/ open'[fd] = c,
         open[fd] \in {c, NoClient}, open'[fd] \in {c, NoClient},
         \A f \in Fd \ {fd} :
           /\ open'[f] = open[f] /\ (Connected(f)' <=> Connected(f))
           /\ Connected(f) => Grown(connections[f], connections'[f]),
         \A w \in Client \ {c} : received'[w] = received[w] /\ (w \in waiting' <=> w \in waiting),
         \/ Mailboxes!Opens(Box(c), Box(c)') \/ Mailboxes!Empties(Box(c), Box(c)')
         \/ Mailboxes!Breaks(Box(c), Box(c)') \/ Mailboxes!Leaves(Box(c), Box(c)')
  PROVE  Mailboxes!Next
<1> DEFINE D == Client \ {c}
<1>1. D \in SUBSET Client
  OBVIOUS
<1>2. \A f \in Fd : open[f] \in D \/ open'[f] \in D => f # fd
  BY NoClientAssumption
<1>3. \A f \in Fd : open[f] \in D \/ open'[f] \in D =>
           /\ open'[f] = open[f] /\ (Connected(f)' <=> Connected(f))
           /\ Connected(f) => Grown(connections[f], connections'[f])
  BY <1>2
<1>4. \A w \in D : received'[w] = received[w] /\ (w \in waiting' <=> w \in waiting)
  OBVIOUS
<1> HIDE DEF D
<1>5. \A w \in D : Mailboxes!Waits(Box(w), Box(w)')
  BY <1>1, <1>3, <1>4, OthersWait
<1> QED BY <1>5 DEF D, Mailboxes!Next

(* Handlers that log and answer: every connection grows.                   *)
LEMMA PushesWait ==
  ASSUME IInv, IInv', CanLog, UNCHANGED <<open, waiting, received>>,
         DOMAIN connections' = DOMAIN connections,
         \A fd \in DOMAIN connections : /\ Grown(connections[fd], connections'[fd])
                                        /\ connections'[fd] \in Connection
  PROVE  Mailboxes!Next
<1>1. \A fd \in Fd : Connected(fd) <=> fd \in DOMAIN connections
  BY DEF CanLog, Connected
<1>2. \A fd \in Fd : Connected(fd)' <=> Connected(fd)
  BY <1>1, NoConnectionAssumption DEF Connected
<1> QED BY <1>1, <1>2, AllWait

LEMMA LogWaits ==
  ASSUME IInv, IInv', CanLog, UNCHANGED <<open, waiting, received>>,
         connections' = broadcast_log(connections)
  PROVE  Mailboxes!Next
<1>1. DOMAIN connections' = DOMAIN connections
  BY DEF broadcast_log
<1>2. \A fd \in DOMAIN connections : connections[fd] \in Connection
  BY SizedInMap DEF CanLog, Connected, IInv, Sockets
<1>3. \A fd \in DOMAIN connections : /\ Grown(connections[fd], connections'[fd])
                                     /\ connections'[fd] \in Connection
  BY <1>2, LogGrows
<1> QED BY <1>1, <1>3, PushesWait

LEMMA SpectrumWaits ==
  ASSUME IInv, IInv', Spectrum
  PROVE  Mailboxes!Next
<1>1. CanLog /\ connections' = broadcast(connections) /\ UNCHANGED <<open, waiting, received>>
  BY DEF Spectrum, outside
<1>2. \A fd \in DOMAIN connections : connections[fd] \in Connection
  BY <1>1, SizedInMap DEF CanLog, Connected, IInv, Sockets
<1>3. ASSUME NEW fd \in DOMAIN connections
      PROVE  Grown(connections[fd], connections'[fd]) /\ connections'[fd] \in Connection
  <2>1. connections'[fd] = push_to_buffer(connections[fd], "other")
    BY <1>1 DEF broadcast
  <2> QED BY <1>2, <2>1, GrowsByOne DEF Kind
<1>4. DOMAIN connections' = DOMAIN connections
  BY <1>1 DEF broadcast
<1> QED BY <1>1, <1>3, <1>4, PushesWait

(* A request that is answered: a log line, and the answer.                 *)
LEMMA AnswerWaits ==
  ASSUME IInv, IInv', CanLog, UNCHANGED <<open, waiting, received>>,
         NEW fd \in DOMAIN connections, NEW kind \in Kind, NEW cn \in Connection,
         cn.buffer = broadcast_log(connections)[fd].buffer,
         cn.pushed = broadcast_log(connections)[fd].pushed,
         connections' = Answer(fd, cn, kind)
  PROVE  Mailboxes!Next
<1> DEFINE logged == broadcast_log(connections)
<1>1. /\ DOMAIN logged = DOMAIN connections
      /\ connections' = Assign(logged, fd, push_to_buffer(cn, kind))
  BY DEF broadcast_log, Answer
<1>2. \A f \in DOMAIN connections : connections[f] \in Connection /\ Sized(connections[f])
  BY SizedInMap DEF CanLog, Connected, IInv, Sockets
<1>3. \A f \in DOMAIN connections : Grown(connections[f], logged[f]) /\ logged[f] \in Connection
  BY <1>2, LogGrows
<1>4. Grown(logged[fd], cn) /\ Sized(cn)
  <2>1. cn.buffer = logged[fd].buffer /\ cn.pushed = logged[fd].pushed
    OBVIOUS
  <2> HIDE DEF logged
  <2>2. Sized(logged[fd]) /\ Sized(cn)
    BY <1>3 DEF Sized, Connection
  <2> QED BY <2>1, <2>2, GrowsByNothing
<1> HIDE DEF logged
<1>5. /\ DOMAIN connections' = DOMAIN connections
      /\ connections'[fd] = push_to_buffer(cn, kind)
      /\ \A f \in DOMAIN connections \ {fd} : connections'[f] = logged[f]
  BY <1>1 DEF Assign
<1>6. Grown(cn, connections'[fd]) /\ connections'[fd] \in Connection
  BY <1>5, GrowsByOne
<1>7. Grown(connections[fd], connections'[fd])
  <2>1. PICK a, b, c, d : a = connections[fd] /\ b = logged[fd] /\ c = cn /\ d = connections'[fd]
    OBVIOUS
  <2>2. Sized(a) /\ Sized(b) /\ Sized(c) /\ Sized(d) /\ Grown(a, b) /\ Grown(b, c) /\ Grown(c, d)
    BY <1>2, <1>3, <1>4, <1>6, <2>1 DEF Sized, Connection
  <2>3. Grown(a, d)
    BY <2>2, GrowsOn
  <2> QED BY <2>1, <2>3
<1>8. \A f \in DOMAIN connections : /\ Grown(connections[f], connections'[f])
                                    /\ connections'[f] \in Connection
  BY <1>3, <1>5, <1>6, <1>7
<1> QED BY <1>5, <1>8, PushesWait

LEMMA MessageWaits ==
  ASSUME IInv, IInv', NEW fd \in Fd, onMessage(fd)
  PROVE  Mailboxes!Next
<1> DEFINE cn == broadcast_log(connections)[fd]
<1>1. CanLog /\ UNCHANGED <<open, waiting, received>>
  BY DEF onMessage, Ignored, Refused, ListNeighbours, authenticate, Request, outside
<1>2. CASE Ignored(fd)
  BY <1>1, <1>2, LogWaits DEF Ignored
<1>3. Connected(fd) => fd \in DOMAIN connections /\ cn \in Connection
  BY <1>1, LoggedConnection DEF Good
<1>4. CASE Refused(fd)
  <2>1. Connected(fd) /\ connections' = Answer(fd, cn, "other") /\ "other" \in Kind
    BY <1>4 DEF Refused, Kind
  <2> QED BY <1>1, <1>3, <2>1, AnswerWaits
<1>5. CASE ListNeighbours(fd)
  <2>1. Connected(fd) /\ connections' = Answer(fd, cn, "list") /\ "list" \in Kind
    BY <1>5 DEF ListNeighbours, Kind
  <2> QED BY <1>1, <1>3, <2>1, AnswerWaits
<1>6. ASSUME NEW u \in User, authenticate(fd, u) PROVE Mailboxes!Next
  <2> DEFINE new == [cn EXCEPT !.user = u]
  <2>1. Connected(fd) /\ connections' = Answer(fd, new, "other") /\ "other" \in Kind
    BY <1>6 DEF authenticate, Kind
  <2>2. new \in Connection /\ new.buffer = cn.buffer /\ new.pushed = cn.pushed
    <3>1. cn \in Connection
      BY <1>3, <2>1
    <3> HIDE DEF cn
    <3> QED BY <3>1 DEF Connection
  <2> HIDE DEF new
  <2> QED BY <1>1, <1>3, <2>1, <2>2, AnswerWaits
<1> QED BY <1>2, <1>4, <1>5, <1>6 DEF onMessage

LEMMA EstablishedOpens ==
  ASSUME IInv, IInv', NEW fd \in Fd, NEW c \in Client, Established(fd, c)
  PROVE  Mailboxes!Next
<1> DEFINE new == Assign(connections, fd, NewConnection(c))
<1>1. /\ CanLog /\ open[fd] = NoClient /\ c \in waiting /\ connections' = broadcast_log(new)
      /\ open' = [open EXCEPT ![fd] = c] /\ waiting' = waiting \ {c} /\ received' = received
  BY DEF Established
<1>2. open'[fd] = c /\ c # NoClient /\ \A f \in Fd \ {fd} : open'[f] = open[f]
  BY <1>1, NoClientAssumption DEF IInv, Sockets
<1>3. /\ fd \notin DOMAIN connections /\ (\A f \in Fd : open[f] # c) /\ received[c] = <<>>
  BY <1>1 DEF IInv, Sockets, Receptions
<1>4. /\ DOMAIN connections' = DOMAIN connections \cup {fd} /\ new[fd] = NewConnection(c)
      /\ DOMAIN new = DOMAIN connections \cup {fd}
      /\ \A f \in DOMAIN connections : new[f] = connections[f]
  BY <1>1, <1>3 DEF Assign, broadcast_log
<1>5. \A f \in DOMAIN new : new[f] \in Connection
  <2>1. NewConnection(c) \in Connection
    BY NewGood DEF Good
  <2>2. \A f \in DOMAIN connections : connections[f] \in Connection
    BY <1>1, SizedInMap DEF CanLog, Connected, IInv, Sockets
  <2> QED BY <1>4, <2>1, <2>2
<1> HIDE DEF new
<1>6. \A f \in DOMAIN new : Grown(new[f], connections'[f]) /\ connections'[f] \in Connection
  BY <1>1, <1>5, LogGrows
<1>7. \A f \in Fd \ {fd} : /\ Connected(f)' <=> Connected(f)
                           /\ Connected(f) => Grown(connections[f], connections'[f])
  BY <1>1, <1>4, <1>6, NoConnectionAssumption DEF Connected, CanLog
<1>8. Connected(fd)'
  BY <1>4, <1>6, NoConnectionAssumption DEF Connected
<1>9. Mailboxes!Opens(Box(c), Box(c)')
  <2>1. Boxes /\ Boxes'
    BY BoxesAre, PTL
  <2>2. Box(c) = Mailboxes!Shut("new", <<>>)
    BY <1>1, <1>3, <2>1 DEF Boxes
  <2>3. Box(c)' = OpenBox(connections'[fd], <<>>)
    BY <1>1, <1>2, <1>3, <1>8, <2>1 DEF Boxes, OpenBox
  <2>4. Mailboxes!Filled(OpenBox(NewConnection(c), <<>>), OpenBox(connections'[fd], <<>>))
    BY <1>4, <1>6 DEF Grown
  <2>5. Mailboxes!Filled(Box(c), Box(c)')
    BY <2>2, <2>3, <2>4 DEF Mailboxes!Filled, Mailboxes!Longer, Mailboxes!Shut, OpenBox, NewConnection
  <2> QED BY <2>2, <2>5 DEF Mailboxes!Opens, Mailboxes!Shut
<1> QED BY <1>1, <1>2, <1>7, <1>9, OneServed

(* The write callback: the mailbox of its client, and no other.            *)
LEMMA WriteAllEmpties ==
  ASSUME IInv, IInv', NEW fd \in Fd, Connected(fd),
         NEW at \in Written(Len(connections[fd].buffer)), WriteAll(fd, at)
  PROVE  Mailboxes!Next
<1> DEFINE cn  == connections[fd]
           c   == open[fd]
           all == received[c] \o Delivered(cn.buffer, at)
           new == [cn EXCEPT !.buffer = <<>>]
<1>1. cn.client = c /\ c \in Client /\ c # NoClient /\ cn \in Connection
  BY ServedClient, NoClientAssumption DEF Good
<1>2. /\ received' = [received EXCEPT ![c] = all] /\ connections' = [connections EXCEPT ![fd] = new]
      /\ open' = open /\ waiting' = waiting
  BY <1>1 DEF WriteAll, outside
<1>3. received'[c] = all /\ \A w \in Client \ {c} : received'[w] = received[w]
  BY <1>1, <1>2 DEF IInv, Receptions
<1>4. new \in Connection /\ new.buffer = <<>> /\ new.pushed = cn.pushed
  <2>1. cn \in Connection /\ <<>> \in Seq(Message)
    BY <1>1
  <2> HIDE DEF cn
  <2> QED BY <2>1 DEF Connection
<1> HIDE DEF new, all
<1>5. /\ connections'[fd] = new /\ DOMAIN connections' = DOMAIN connections
      /\ \A f \in Fd \ {fd} : f \in DOMAIN connections => connections'[f] = connections[f]
  BY <1>2 DEF Connected
<1>6. Connected(fd)'
  BY <1>4, <1>5, NoConnectionAssumption DEF Connected
<1>7. \A f \in Fd \ {fd} : /\ Connected(f)' <=> Connected(f)
                           /\ Connected(f) => Grown(connections[f], connections'[f])
  BY <1>5, SizedInMap, GrowsByNothing DEF Connected
<1>8. Mailboxes!Empties(Box(c), Box(c)')
  <2>1. Boxes /\ Boxes'
    BY BoxesAre, PTL
  <2>2. Box(c) = OpenBox(cn, received[c])
    BY <1>1, <2>1 DEF Boxes
  <2>3. Box(c)' = OpenBox(new, all)
    BY <1>1, <1>2, <1>3, <1>5, <1>6, <2>1 DEF Boxes, OpenBox
  <2>4. at \in Mailboxes!Chosen(Len(cn.buffer))
    BY DEF Written, Mailboxes!Chosen
  <2>5. Delivered(cn.buffer, at) = Mailboxes!Letters(cn.buffer, at)
    BY DEF Delivered, Mailboxes!Letters
  <2>6. Box(c)' = Mailboxes!OpenBox(cn.pushed, <<>>, received[c] \o Mailboxes!Letters(cn.buffer, at))
    BY <1>4, <2>3, <2>5 DEF OpenBox, Mailboxes!OpenBox, all
  <2> QED BY <2>2, <2>4, <2>6 DEF Mailboxes!Empties, OpenBox
<1> QED BY <1>1, <1>2, <1>3, <1>7, <1>8, OneServed

LEMMA WriteShortBreaks ==
  ASSUME IInv, IInv', NEW fd \in Fd, Connected(fd), NEW k \in DOMAIN connections[fd].buffer,
         NEW at \in Written(k - 1), WriteShort(fd, at, k)
  PROVE  Mailboxes!Next
<1> DEFINE cn  == connections[fd]
           c   == open[fd]
           cut == Append(received[c] \o Delivered(cn.buffer, at),
                         [n |-> cn.buffer[k].n, kind |-> cn.buffer[k].kind, whole |-> FALSE])
<1>1. cn.client = c /\ c \in Client /\ c # NoClient
  BY ServedClient, NoClientAssumption
<1>2. /\ CanLog /\ received' = [received EXCEPT ![c] = cut]
      /\ connections' = removeConnection(broadcast_log(connections), fd)
      /\ open' = open /\ waiting' = waiting
  BY <1>1 DEF WriteShort, ReceivedShort, outside
<1>3. received'[c] = cut /\ \A w \in Client \ {c} : received'[w] = received[w]
  BY <1>1, <1>2 DEF IInv, Receptions
<1> HIDE DEF cut
<1>4. /\ DOMAIN connections' = DOMAIN connections \ {fd}
      /\ \A f \in DOMAIN connections \ {fd} : connections'[f] = broadcast_log(connections)[f]
  BY <1>2 DEF removeConnection, broadcast_log
<1>5. \A f \in DOMAIN connections \ {fd} : /\ Grown(connections[f], connections'[f])
                                           /\ connections'[f] \in Connection
  BY <1>2, <1>4, LogGrows, SizedInMap DEF CanLog, Connected, IInv, Sockets
<1>6. \A f \in Fd \ {fd} : /\ Connected(f)' <=> Connected(f)
                           /\ Connected(f) => Grown(connections[f], connections'[f])
  BY <1>2, <1>4, <1>5, NoConnectionAssumption DEF Connected, CanLog
<1>7. ~Connected(fd)'
  BY <1>4 DEF Connected
<1>8. Mailboxes!Breaks(Box(c), Box(c)')
  <2>1. Boxes /\ Boxes'
    BY BoxesAre, PTL
  <2>2. Box(c) = OpenBox(cn, received[c])
    BY <1>1, <2>1 DEF Boxes
  <2>3. Box(c)' = Mailboxes!Shut("broken", cut)
    BY <1>1, <1>2, <1>3, <1>7, <2>1 DEF Boxes, Mailboxes!Shut
  <2>4. at \in Mailboxes!Chosen(k - 1)
    BY DEF Written, Mailboxes!Chosen
  <2>5. Delivered(cn.buffer, at) = Mailboxes!Letters(cn.buffer, at)
    BY DEF Delivered, Mailboxes!Letters
  <2>6. Box(c)' = Mailboxes!Shut("broken",
                    Append(received[c] \o Mailboxes!Letters(cn.buffer, at),
                           [n |-> cn.buffer[k].n, kind |-> cn.buffer[k].kind, whole |-> FALSE]))
    BY <2>3, <2>5 DEF cut
  <2>7. PICK b, d, e : b = Box(c) /\ d = Box(c)' /\ e = cn.buffer
    OBVIOUS
  <2>8. b.state = "open" /\ b.inbox = e /\ b.received = received[c]
    BY <2>2, <2>7 DEF OpenBox
  <2>9. /\ k \in DOMAIN e
        /\ d = Mailboxes!Shut("broken", Append(received[c] \o Mailboxes!Letters(e, at),
                                              [n |-> e[k].n, kind |-> e[k].kind, whole |-> FALSE]))
    BY <2>6, <2>7
  <2>10. Mailboxes!Breaks(b, d)
    BY <2>4, <2>8, <2>9 DEF Mailboxes!Breaks
  <2> QED BY <2>7, <2>10
<1> QED BY <1>1, <1>2, <1>3, <1>6, <1>8, OneServed

LEMMA ClosedLeaves ==
  ASSUME IInv, IInv', NEW fd \in Fd, Closed(fd)
  PROVE  Mailboxes!Next
<1>0. PICK c : c = open[fd]
  OBVIOUS
<1>1. /\ CanLog /\ c # NoClient
      /\ connections' = removeConnection(broadcast_log(connections), fd)
      /\ open' = [open EXCEPT ![fd] = NoClient] /\ waiting' = waiting /\ received' = received
  BY <1>0 DEF Closed
<1>2. /\ c \in Client /\ open'[fd] = NoClient /\ c \notin waiting
      /\ \A f \in Fd \ {fd} : open'[f] = open[f] /\ open[f] # c
  BY <1>0, <1>1 DEF IInv, Sockets
<1>3. /\ DOMAIN connections' = DOMAIN connections \ {fd}
      /\ \A f \in DOMAIN connections \ {fd} : connections'[f] = broadcast_log(connections)[f]
  BY <1>1 DEF removeConnection, broadcast_log
<1>4. \A f \in DOMAIN connections \ {fd} : /\ Grown(connections[f], connections'[f])
                                           /\ connections'[f] \in Connection
  BY <1>1, <1>3, LogGrows, SizedInMap DEF CanLog, Connected, IInv, Sockets
<1>5. \A f \in Fd \ {fd} : /\ Connected(f)' <=> Connected(f)
                           /\ Connected(f) => Grown(connections[f], connections'[f])
  BY <1>1, <1>3, <1>4, NoConnectionAssumption DEF Connected, CanLog
<1>6. Mailboxes!Leaves(Box(c), Box(c)')
  <2>1. Boxes /\ Boxes'
    BY BoxesAre, PTL
  <2>2. \/ Box(c) = OpenBox(connections[fd], received[c])
        \/ Box(c) = Mailboxes!Shut("broken", received[c])
    BY <1>0, <1>1, <2>1 DEF Boxes
  <2>3. \A f \in Fd : open'[f] # c
    BY <1>1, <1>2
  <2>4. Box(c)' = Mailboxes!Shut("over", received[c])
    BY <1>1, <1>2, <2>1, <2>3 DEF Boxes, Mailboxes!Shut
  <2> QED BY <2>2, <2>4 DEF Mailboxes!Leaves, OpenBox, Mailboxes!Shut
<1> QED BY <1>0, <1>1, <1>2, <1>5, <1>6, OneServed

(* Steps that change no connection: a null pointer in the map is none.     *)
LEMMA MissingWaits ==
  ASSUME IInv, IInv', NEW fd \in Fd, WriteMissing(fd)
  PROVE  Mailboxes!Next
<1>1. /\ UNCHANGED <<open, waiting, received>> /\ ~Connected(fd)
      /\ connections' = Assign(connections, fd, NoConnection)
  BY DEF WriteMissing, outside
<1>2. \A f \in Fd : /\ Connected(f)' <=> Connected(f)
                    /\ Connected(f) => connections'[f] = connections[f]
  BY <1>1 DEF Assign, Connected
<1>3. \A f \in Fd : Connected(f) => Grown(connections[f], connections'[f])
  BY <1>2, SizedInMap, GrowsByNothing
<1> QED BY <1>1, <1>2, <1>3, AllWait

LEMMA NothingWaits ==
  ASSUME IInv, IInv', UNCHANGED <<open, waiting, received, connections>>
  PROVE  Mailboxes!Next
<1>1. \A f \in Fd : Connected(f)' <=> Connected(f)
  BY DEF Connected
<1>2. \A f \in Fd : Connected(f) => Grown(connections[f], connections'[f])
  BY SizedInMap, GrowsByNothing
<1> QED BY <1>1, <1>2, AllWait

LEMMA StepSimulation == IInv /\ IInv' /\ [Next]_vars => Mailboxes!Next \/ UNCHANGED vars
<1> SUFFICES ASSUME IInv, IInv', Next PROVE Mailboxes!Next
  OBVIOUS
<1>1. ASSUME NEW fd \in Fd, NEW c \in Client, Established(fd, c) PROVE Mailboxes!Next
  BY <1>1, EstablishedOpens
<1>2. ASSUME NEW fd \in Fd, Writeable(fd) PROVE Mailboxes!Next
  BY <1>2, MissingWaits, WriteAllEmpties, WriteShortBreaks DEF Writeable
<1>3. ASSUME NEW fd \in Fd, onMessage(fd) PROVE Mailboxes!Next
  BY <1>3, MessageWaits
<1>4. ASSUME NEW fd \in Fd, Closed(fd) PROVE Mailboxes!Next
  BY <1>4, ClosedLeaves
<1>5. CASE Spectrum
  BY <1>5, SpectrumWaits
<1>6. CASE LogElsewhere
  BY <1>6, LogWaits DEF LogElsewhere, outside
<1>7. CASE Race
  BY <1>7, NothingWaits DEF Race, outside
<1>8. CASE NullPointer
  BY <1>8, NothingWaits DEF NullPointer, outside
<1> QED BY <1>1, <1>2, <1>3, <1>4, <1>5, <1>6, <1>7, <1>8 DEF Next

(* To its client every connection is a mailbox of its own: the server      *)
(* implements Mailbox.                                                     *)
THEOREM MailboxesServed == Spec => ServesMailboxes
<1>1. Init => Mailboxes!Init
  <2> SUFFICES ASSUME Init PROVE Mailboxes!Init
    OBVIOUS
  <2>1. /\ \A fd \in Fd : open[fd] = NoClient
        /\ waiting = Client /\ received = [c \in Client |-> <<>>]
    BY DEF Init
  <2>2. \A c \in Client : Box(c) = Mailboxes!Shut("new", <<>>)
    BY <2>1, NoClientAssumption DEF Box, Mailboxes!Shut
  <2> QED BY <2>2 DEF Mailboxes!Init
<1>2. UNCHANGED vars => UNCHANGED [c \in Client |-> Box(c)]
  BY DEF vars, Box, Connected
<1>3. IInv /\ IInv' /\ [Next]_vars => [Mailboxes!Next]_([c \in Client |-> Box(c)])
  BY <1>2, StepSimulation
<1> QED BY <1>1, <1>3, Invariance, PTL DEF Spec, SafeSpec, ServesMailboxes, Mailboxes!Spec
=============================================================================
