---------------------------- MODULE NetworkProofs ----------------------------
(***************************************************************************)
(* What holds of the protocols above the card for every link, sizes of the *)
(* ARP cache and of the socket table, sets of ports and programs.          *)
(***************************************************************************)
EXTENDS Network, TLAPS, WellFoundedInduction, FiniteSetTheorems

\* What we send: the packets a task or the handler may have to wait with in Resolve.
Outgoing == [mac : {Nobody}, via : {Me}, kind : {"response", "ping", "udp"}, from : {Me},
             to : Hosts, sport : Nat, port : Nat]

\* The frames of the link say truly who gave them to it and whom they come from.
Incoming == {f \in [mac : {Me, Everyone}, via : Neighbours,
                    kind : {"request", "response", "ping", "pong", "udp"}, from : Hosts,
                    to : {Me, Gateway}, sport : Nat, port : Nat] :
               /\ f.via = Route(f.from)
               /\ f.kind \in {"request", "response"} => f.from \in Neighbours}

Socket == [listening : BOOLEAN, localPort : Nat, remote : Hosts \cup {Nobody}, remotePort : Nat]

NTypeOK ==
  /\ cache \in Seq([ip : Neighbours, mac : Neighbours])
  /\ sockets \in Seq(Socket) /\ freePort \in Nat
  /\ task \in Outgoing \cup {Nothing} /\ handler \in Outgoing \cup {Nothing}
  /\ started \in BOOLEAN
  /\ inbox \in Seq(Incoming)
  /\ asked \subseteq Neighbours
  /\ heard \in Seq(SUBSET (Hosts \X Nat)) /\ Len(heard) = Len(sockets)

\* The cache says of every machine its own MAC address.
CacheTruthful == \A i \in DOMAIN cache : cache[i].mac = cache[i].ip

\* The program opens sockets and sends only after it has resolved the gateway, and the
\* answer stays in the cache.
GatewayFirst ==
  /\ started => Cached(Gateway)
  /\ ~started => sockets = <<>> /\ (task # Nothing => task.to = Gateway)

\* A socket that listens has heard nobody, and any other only the remote end it has.
HeardRemote ==
  \A k \in DOMAIN sockets :
    heard[k] \subseteq (IF sockets[k].listening THEN {}
                        ELSE {<<sockets[k].remote, sockets[k].remotePort>>})

\* What a socket has heard no socket before it in the table would have taken, nor would now.
HeardFirst ==
  \A k \in DOMAIN sockets : \A e \in heard[k] : \A j \in 1 .. k - 1 :
    sockets[j].localPort = sockets[k].localPort =>
      ~sockets[j].listening /\ <<sockets[j].remote, sockets[j].remotePort>> # e

\* The inductive invariant.
NInv ==
  /\ NTypeOK /\ CacheTruthful /\ GatewayFirst /\ HeardRemote /\ HeardFirst
  /\ SentToNextHop /\ HandlerNeverWaits

-----------------------------------------------------------------------------
(* What is sent.                                                           *)

LEMMA LeastNatural ==
  ASSUME NEW T, T \subseteq Nat, T # {}
  PROVE  \E x \in T : \A y \in T : x <= y
  <1> DEFINE R == OpToRel(<, Nat)
  <1>1. IsWellFoundedOn(R, Nat)
    BY NatLessThanWellFounded
  <1>2. \A x, y \in Nat : x < y => <<x, y>> \in R
    BY DEF OpToRel
  <1> HIDE DEF R
  <1>3. PICK x \in T : \A y \in T : ~(<<y, x>> \in R)
    BY <1>1, WFMin
  <1>4. \A y \in T : ~(y < x)
    BY <1>2, <1>3
  <1>5. x \in Nat /\ \A y \in T : y \in Nat
    OBVIOUS
  <1>6. \A y \in T : x <= y
    BY <1>4, <1>5
  <1> QED BY <1>6

\* GetMACFromCache finds the entry it is asked for when there is one.
LEMMA OldestIs ==
  ASSUME cache \in Seq([ip : Neighbours, mac : Neighbours]), NEW ip, Cached(ip)
  PROVE  Oldest(ip) \in DOMAIN cache /\ cache[Oldest(ip)].ip = ip
  <1> DEFINE T == {i \in DOMAIN cache : cache[i].ip = ip}
  <1>1. T \subseteq Nat /\ T # {}
    BY DEF Cached
  <1>2. PICK x \in T : \A y \in T : x <= y
    BY <1>1, LeastNatural
  <1>3. x \in DOMAIN cache /\ cache[x].ip = ip /\ \A j \in 1 .. x - 1 : cache[j].ip # ip
    <2>1. \A j \in 1 .. x - 1 : j \in DOMAIN cache /\ ~(x <= j)
      OBVIOUS
    <2> QED BY <1>2, <2>1
  <1> QED BY <1>3 DEF Oldest

LEMMA MacIsOwn ==
  ASSUME NTypeOK, CacheTruthful, NEW ip, Cached(ip)
  PROVE  MacOf(ip) = ip
  BY OldestIs DEF NTypeOK, CacheTruthful, MacOf

LEMMA RouteIsNeighbour == \A ip : Route(ip) \in Neighbours
  BY NetworkAssumption DEF Route

LEMMA OutgoingIs ==
  /\ \A to \in Hosts, kind \in {"response", "ping", "udp"}, sport, port \in Nat :
       /\ Ours(kind, to, sport, port) \in Outgoing /\ Ours(kind, to, sport, port).to = to
  /\ Nothing \notin Outgoing
  BY DEF Ours, Frame, Outgoing, Nothing

\* A packet that leaves when the next hop is in the cache, and a question when it is not.
LEMMA LeavesToNextHop ==
  ASSUME NTypeOK, CacheTruthful, NEW p \in Outgoing,
         \/ Cached(Route(p.to)) /\ Emit(p, Route(p.to))
         \/ emitted' = {Frame(Everyone, Me, "request", Me, Route(p.to), 0, 0)}
  PROVE  SentToNextHop'
  <1>1. CASE Cached(Route(p.to)) /\ Emit(p, Route(p.to))
    <2>1. emitted' = {[p EXCEPT !.mac = Route(p.to)]}
      BY <1>1, MacIsOwn DEF Emit
    <2>2. \A f \in emitted' : f.kind # "request" /\ f.to = p.to /\ f.mac = Route(p.to)
      BY <2>1 DEF Outgoing
    <2> QED BY <2>2 DEF SentToNextHop, Route
  <1>2. CASE emitted' = {Frame(Everyone, Me, "request", Me, Route(p.to), 0, 0)}
    <2>1. \A f \in emitted' : f.kind = "request" /\ f.mac = Everyone /\ f.to \in Neighbours
      BY <1>2, RouteIsNeighbour DEF Frame
    <2> QED BY <2>1 DEF SentToNextHop
  <1> QED BY <1>1, <1>2

LEMMA TaskSendIs ==
  ASSUME NTypeOK, CacheTruthful, NEW p \in Outgoing, Send(p, task)
  PROVE  /\ SentToNextHop' /\ asked' \subseteq Neighbours
         /\ IF Cached(Route(p.to)) THEN task' = Nothing ELSE task' = p
  <1>1. SentToNextHop'
    BY LeavesToNextHop DEF Send
  <1>2. asked' \subseteq Neighbours
    BY RouteIsNeighbour DEF Send, NTypeOK
  <1> QED BY <1>1, <1>2 DEF Send

LEMMA HandlerSendIs ==
  ASSUME NTypeOK, CacheTruthful, NEW p \in Outgoing, Send(p, handler)
  PROVE  /\ SentToNextHop' /\ asked' \subseteq Neighbours
         /\ IF Cached(Route(p.to)) THEN handler' = Nothing ELSE handler' = p
  <1>1. SentToNextHop'
    BY LeavesToNextHop DEF Send
  <1>2. asked' \subseteq Neighbours
    BY RouteIsNeighbour DEF Send, NTypeOK
  <1> QED BY <1>1, <1>2 DEF Send

\* A frame sent back goes to the machine it came from.
LEMMA SentBackToNextHop ==
  ASSUME NEW f \in Incoming, NEW kind \in {"response", "pong"}, SentBack(f, kind)
  PROVE  SentToNextHop'
  <1>1. \A g \in emitted' : g.kind # "request" /\ g.to = f.from /\ g.mac = Route(f.from)
    BY DEF SentBack, Frame, Incoming
  <1> QED BY <1>1 DEF SentToNextHop, Route

LEMMA NothingSent == emitted' = {} => SentToNextHop'
  BY DEF SentToNextHop

-----------------------------------------------------------------------------
(* The steps of tasks.                                                     *)

\* A task's packet leaves or waits; nothing else is touched.
LEMMA TaskSendsKeeps ==
  ASSUME NInv, NEW p \in Outgoing, TaskSends(p), started' \in BOOLEAN,
         started' => Cached(Gateway),
         ~started' => sockets = <<>> /\ p.to = Gateway
  PROVE  NInv'
  <1>1. /\ SentToNextHop' /\ asked' \subseteq Neighbours
        /\ task' \in {Nothing, p}
        /\ cache' = cache /\ sockets' = sockets /\ freePort' = freePort /\ heard' = heard
        /\ handler' = handler /\ inbox' = inbox
    BY TaskSendIs DEF NInv, TaskSends, tables
  <1>2. NTypeOK'
    BY <1>1 DEF NInv, NTypeOK
  <1>3. CacheTruthful' /\ HeardRemote' /\ HeardFirst' /\ HandlerNeverWaits'
    BY <1>1 DEF NInv, CacheTruthful, HeardRemote, HeardFirst, HandlerNeverWaits
  <1>4. GatewayFirst'
    BY <1>1 DEF NInv, GatewayFirst, Cached
  <1> QED BY <1>1, <1>2, <1>3, <1>4 DEF NInv

LEMMA StartUpKeeps ==
  ASSUME NInv, StartUp
  PROVE  NInv'
  <1> DEFINE p == Ours("response", Gateway, 0, 0)
  <1>1. p \in Outgoing /\ p.to = Gateway
    BY OutgoingIs, NetworkAssumption DEF Hosts
  <1>2. TaskSends(p) /\ Send(p, task) /\ ~started /\ started' = (task' = Nothing)
    BY DEF StartUp, TaskSends
  <1> HIDE DEF p
  <1>3. Route(Gateway) = Gateway
    BY NetworkAssumption DEF Route
  <1>4. IF Cached(Gateway) THEN task' = Nothing ELSE task' = p
    BY <1>1, <1>2, <1>3, TaskSendIs DEF NInv
  <1>5. p # Nothing
    BY <1>1, OutgoingIs
  <1>6. sockets = <<>>
    BY <1>2 DEF NInv, GatewayFirst
  <1> QED BY <1>1, <1>2, <1>4, <1>5, <1>6, TaskSendsKeeps

LEMMA TaskResolvedKeeps ==
  ASSUME NInv, TaskResolved
  PROVE  NInv'
  <1>1. task \in Outgoing
    BY DEF NInv, NTypeOK, TaskResolved
  <1>2. /\ SentToNextHop' /\ asked' \subseteq Neighbours /\ task' = Nothing
        /\ cache' = cache /\ sockets' = sockets /\ freePort' = freePort /\ heard' = heard
        /\ handler' = handler /\ inbox' = inbox /\ started' = TRUE
    BY <1>1, TaskSendIs DEF NInv, TaskResolved, tables
  <1>3. NTypeOK'
    BY <1>2 DEF NInv, NTypeOK
  <1>4. CacheTruthful' /\ HeardRemote' /\ HeardFirst' /\ HandlerNeverWaits'
    BY <1>2 DEF NInv, CacheTruthful, HeardRemote, HeardFirst, HandlerNeverWaits
  <1>5. Cached(Gateway)
    <2>1. CASE started
      BY <2>1 DEF NInv, GatewayFirst
    <2>2. CASE ~started
      <3>1. task.to = Gateway
        BY <2>2 DEF NInv, GatewayFirst, TaskResolved
      <3> QED BY <3>1, NetworkAssumption DEF TaskResolved, Route
    <2> QED BY <2>1, <2>2
  <1>6. GatewayFirst'
    BY <1>2, <1>5 DEF GatewayFirst, Cached
  <1> QED BY <1>2, <1>3, <1>4, <1>6 DEF NInv

LEMMA RequestEchoReplyKeeps ==
  ASSUME NInv, NEW ip \in Hosts, RequestEchoReply(ip)
  PROVE  NInv'
  <1>1. Ours("ping", ip, 0, 0) \in Outgoing
    BY OutgoingIs
  <1>2. started /\ started' = started /\ Cached(Gateway)
    BY DEF NInv, GatewayFirst, RequestEchoReply
  <1>3. TaskSends(Ours("ping", ip, 0, 0)) /\ started' \in BOOLEAN
    BY <1>2 DEF NInv, NTypeOK, RequestEchoReply
  <1> QED BY <1>1, <1>2, <1>3, TaskSendsKeeps

LEMMA SocketSendKeeps ==
  ASSUME NInv, NEW k \in DOMAIN sockets, SocketSend(k)
  PROVE  NInv'
  <1>1. sockets[k] \in Socket /\ sockets[k].remote # Nobody /\ sockets # <<>>
    BY DEF NInv, NTypeOK, SocketSend
  <1>2. ToRemote(sockets[k]) \in Outgoing
    BY <1>1, OutgoingIs DEF ToRemote, Socket
  <1> PICK p \in Outgoing : p = ToRemote(sockets[k])
    BY <1>2
  <1>3. started /\ started' = started /\ Cached(Gateway)
    BY <1>1 DEF NInv, NTypeOK, GatewayFirst, SocketSend
  <1>4. TaskSends(p) /\ started' \in BOOLEAN
    BY <1>3 DEF NInv, NTypeOK, SocketSend, TaskSends, Send, Emit
  <1> QED BY <1>3, <1>4, TaskSendsKeeps

LEMMA OpenedKeeps ==
  ASSUME NInv, NEW s \in Socket, Opened(s), freePort' \in Nat
  PROVE  NInv'
  <1> DEFINE n == Len(sockets)
  <1>1. /\ cache' = cache /\ task' = task /\ handler' = handler /\ started' = started
        /\ inbox' = inbox /\ asked' = asked /\ started
        /\ sockets' = Append(sockets, s) /\ heard' = Append(heard, {}) /\ emitted' = {}
    BY DEF Opened
  <1>2. /\ sockets \in Seq(Socket) /\ n \in Nat
        /\ heard \in Seq(SUBSET (Hosts \X Nat)) /\ Len(heard) = n
    BY DEF NInv, NTypeOK
  <1>3. /\ sockets' \in Seq(Socket) /\ heard' \in Seq(SUBSET (Hosts \X Nat))
        /\ Len(sockets') = n + 1 /\ Len(heard') = n + 1
        /\ \A k \in 1 .. n : sockets'[k] = sockets[k] /\ heard'[k] = heard[k]
        /\ heard'[n + 1] = {}
        /\ DOMAIN sockets' = 1 .. n + 1 /\ DOMAIN sockets = 1 .. n
    BY <1>1, <1>2
  <1> HIDE DEF n
  <1>4. NTypeOK'
    BY <1>1, <1>3 DEF NInv, NTypeOK
  <1>5. CacheTruthful' /\ GatewayFirst' /\ HandlerNeverWaits' /\ SentToNextHop'
    BY <1>1, NothingSent DEF NInv, CacheTruthful, GatewayFirst, Cached, HandlerNeverWaits
  <1>6. HeardRemote'
    <2> SUFFICES ASSUME NEW k \in 1 .. n + 1
                 PROVE  heard'[k] \subseteq
                          (IF sockets'[k].listening THEN {}
                           ELSE {<<sockets'[k].remote, sockets'[k].remotePort>>})
      BY <1>3 DEF HeardRemote
    <2>1. CASE k = n + 1
      BY <1>3, <2>1
    <2>2. CASE k \in 1 .. n
      <3>1. sockets'[k] = sockets[k] /\ heard'[k] = heard[k]
        BY <1>3, <2>2
      <3> QED BY <1>3, <2>2, <3>1 DEF NInv, HeardRemote
    <2> QED BY <1>2, <2>1, <2>2
  <1>7. HeardFirst'
    <2> SUFFICES ASSUME NEW k \in 1 .. n + 1, NEW e \in heard'[k], NEW j \in 1 .. k - 1,
                        sockets'[j].localPort = sockets'[k].localPort
                 PROVE  /\ ~sockets'[j].listening
                        /\ <<sockets'[j].remote, sockets'[j].remotePort>> # e
      BY <1>3 DEF HeardFirst
    <2>1. k \in 1 .. n /\ j \in 1 .. n
      BY <1>2, <1>3
    <2>2. /\ sockets'[k] = sockets[k] /\ heard'[k] = heard[k] /\ sockets'[j] = sockets[j]
      BY <1>3, <2>1
    <2> QED BY <1>3, <2>1, <2>2, SMTT(30) DEF NInv, HeardFirst
  <1> QED BY <1>4, <1>5, <1>6, <1>7 DEF NInv

LEMMA ListenKeeps ==
  ASSUME NInv, NEW port \in ListenPorts, Listen(port)
  PROVE  NInv'
  <1> DEFINE s == [listening |-> TRUE, localPort |-> port, remote |-> Nobody, remotePort |-> 0]
  <1>1. s \in Socket
    BY NetworkAssumption DEF Socket
  <1>2. Opened(s) /\ freePort' \in Nat
    BY DEF Listen, NInv, NTypeOK
  <1> HIDE DEF s
  <1> QED BY <1>1, <1>2, OpenedKeeps

LEMMA ConnectKeeps ==
  ASSUME NInv, NEW ip \in Hosts, NEW port \in RemotePorts, Connect(ip, port)
  PROVE  NInv'
  <1> DEFINE s == [listening |-> FALSE, localPort |-> freePort, remote |-> ip, remotePort |-> port]
  <1>1. s \in Socket
    BY NetworkAssumption DEF Socket, NInv, NTypeOK
  <1>2. Opened(s) /\ freePort' \in Nat
    BY DEF Connect, NInv, NTypeOK
  <1> HIDE DEF s
  <1> QED BY <1>1, <1>2, OpenedKeeps

-----------------------------------------------------------------------------
(* The handler.                                                            *)

\* What the handler of any frame leaves alone, and the frame it takes.
LEMMA InterruptTakes ==
  ASSUME NInv, Interrupt
  PROVE  /\ Head(inbox) \in Incoming /\ inbox' = Tail(inbox) /\ inbox' \in Seq(Incoming)
         /\ handler = Nothing
         /\ task' = task /\ freePort' = freePort /\ started' = started
  BY DEF NInv, NTypeOK, Interrupt

\* A frame that changes no table and waits for nothing.
LEMMA QuietKeeps ==
  ASSUME NInv, Interrupt, SentToNextHop', asked' = asked, handler' = handler,
         cache' = cache, sockets' = sockets, heard' = heard
  PROVE  NInv'
  <1>1. NTypeOK'
    BY InterruptTakes DEF NInv, NTypeOK
  <1>2. CacheTruthful' /\ HeardRemote' /\ HeardFirst' /\ HandlerNeverWaits' /\ GatewayFirst'
    BY InterruptTakes DEF NInv, CacheTruthful, HeardRemote, HeardFirst, HandlerNeverWaits,
                          GatewayFirst, Cached
  <1> QED BY <1>1, <1>2 DEF NInv

LEMMA OnArpResponseKeeps ==
  ASSUME NInv, Interrupt, NEW f \in Incoming, OnArpResponse(f)
  PROVE  NInv'
  <1> DEFINE e == [ip |-> f.from, mac |-> f.via]
  <1>1. e \in [ip : Neighbours, mac : Neighbours] /\ e.mac = e.ip
    BY DEF OnArpResponse, Incoming, Route
  <1>2. /\ cache' = Append(cache, e) /\ emitted' = {} /\ sockets' = sockets
        /\ handler' = handler /\ asked' = asked /\ heard' = heard
    BY DEF OnArpResponse, Learnt
  <1> HIDE DEF e
  <1>3. /\ cache \in Seq([ip : Neighbours, mac : Neighbours])
        /\ cache' \in Seq([ip : Neighbours, mac : Neighbours])
        /\ Len(cache') = Len(cache) + 1 /\ cache'[Len(cache) + 1] = e
        /\ \A i \in 1 .. Len(cache) : cache'[i] = cache[i]
        /\ DOMAIN cache' = 1 .. Len(cache) + 1 /\ DOMAIN cache = 1 .. Len(cache)
        /\ Len(cache) \in Nat
    BY <1>1, <1>2 DEF NInv, NTypeOK
  <1>4. NTypeOK'
    BY <1>2, <1>3, InterruptTakes DEF NInv, NTypeOK
  <1>5. CacheTruthful'
    <2> SUFFICES ASSUME NEW i \in 1 .. Len(cache) + 1 PROVE cache'[i].mac = cache'[i].ip
      BY <1>3 DEF CacheTruthful
    <2>1. CASE i = Len(cache) + 1
      BY <1>1, <1>3, <2>1
    <2>2. CASE i \in 1 .. Len(cache)
      <3>1. cache'[i] = cache[i]
        BY <1>3, <2>2
      <3> QED BY <1>3, <2>2, <3>1 DEF NInv, CacheTruthful
    <2> QED BY <1>3, <2>1, <2>2
  <1>6. \A ip : Cached(ip) => Cached(ip)'
    <2> TAKE ip
    <2> HAVE Cached(ip)
    <2>1. PICK i \in 1 .. Len(cache) : cache[i].ip = ip
      BY <1>3 DEF Cached
    <2>2. i \in 1 .. Len(cache) + 1 /\ cache'[i].ip = ip
      BY <1>3, <2>1
    <2> QED BY <1>3, <2>2 DEF Cached
  <1>7. GatewayFirst'
    <2>1. started' = started /\ task' = task /\ sockets' = sockets
      BY <1>2, InterruptTakes
    <2>2. started' => Cached(Gateway)'
      BY <1>6, <2>1 DEF NInv, GatewayFirst
    <2> QED BY <2>1, <2>2 DEF NInv, GatewayFirst
  <1>8. HeardRemote' /\ HeardFirst' /\ HandlerNeverWaits' /\ SentToNextHop'
    BY <1>2, NothingSent DEF NInv, HeardRemote, HeardFirst, HandlerNeverWaits
  <1> QED BY <1>4, <1>5, <1>7, <1>8 DEF NInv

\* The first socket that takes a datagram hears of its sender, whom none before it would
\* take any more and none behind it has heard.
LEMMA OnDatagramHears ==
  ASSUME NInv, Interrupt, NEW f \in Incoming, NEW k \in DOMAIN sockets, OnDatagram(f, k)
  PROVE  /\ sockets' \in Seq(Socket) /\ DOMAIN sockets' = DOMAIN sockets
         /\ heard' \in Seq(SUBSET (Hosts \X Nat)) /\ Len(heard') = Len(sockets')
         /\ sockets'[k].remote = f.from /\ sockets'[k].localPort \in Nat
         /\ sockets'[k].remotePort = f.sport
         /\ HeardRemote' /\ HeardFirst'
  <1> DEFINE e == <<f.from, f.sport>>
  <1>1. /\ IsFirst(k, f)
        /\ sockets' = [sockets EXCEPT ![k].listening = FALSE, ![k].remote = f.from,
                                      ![k].remotePort = f.sport]
        /\ heard' = [heard EXCEPT ![k] = @ \cup {e}]
    BY DEF OnDatagram
  <1>2. /\ sockets \in Seq(Socket) /\ Len(heard) = Len(sockets) /\ Len(sockets) \in Nat
        /\ heard \in Seq(SUBSET (Hosts \X Nat))
        /\ DOMAIN sockets = 1 .. Len(sockets) /\ DOMAIN heard = 1 .. Len(sockets)
        /\ HeardRemote /\ HeardFirst
    BY DEF NInv, NTypeOK
  <1>3. f.from \in Hosts /\ f.sport \in Nat /\ e \in Hosts \X Nat
    BY DEF Incoming
  <1>4. sockets[k] \in Socket
    BY <1>2
  <1> DEFINE s == [sockets[k] EXCEPT !.listening = FALSE, !.remote = f.from, !.remotePort = f.sport]
  <1>5. /\ s \in Socket /\ ~s.listening /\ s.remote = f.from /\ s.remotePort = f.sport
        /\ s.localPort = sockets[k].localPort
    BY <1>3, <1>4 DEF Socket
  <1>6. sockets' = [sockets EXCEPT ![k] = s]
    BY <1>1, <1>2, <1>4 DEF Socket
  <1> HIDE DEF e, s
  <1>7. /\ sockets' \in Seq(Socket) /\ DOMAIN sockets' = DOMAIN sockets
        /\ Len(sockets') = Len(sockets)
        /\ \A j \in DOMAIN sockets : sockets'[j] = IF j = k THEN s ELSE sockets[j]
    BY <1>2, <1>5, <1>6
  <1>8. /\ heard' \in Seq(SUBSET (Hosts \X Nat)) /\ Len(heard') = Len(sockets')
        /\ \A j \in DOMAIN sockets : heard'[j] = IF j = k THEN heard[k] \cup {e} ELSE heard[j]
    BY <1>1, <1>2, <1>3, <1>7
  <1>9. /\ Takes(sockets[k], f) /\ \A j \in 1 .. k - 1 : ~Takes(sockets[j], f)
    BY <1>1 DEF IsFirst
  <1>10. heard[k] \subseteq {e}
    BY <1>2, <1>9 DEF HeardRemote, Takes, e
  <1>11. HeardRemote'
    <2> SUFFICES ASSUME NEW j \in DOMAIN sockets
                 PROVE  heard'[j] \subseteq
                          (IF sockets'[j].listening THEN {}
                           ELSE {<<sockets'[j].remote, sockets'[j].remotePort>>})
      BY <1>7 DEF HeardRemote
    <2>1. CASE j = k
      BY <1>5, <1>7, <1>8, <1>10, <2>1 DEF e
    <2>2. CASE j # k
      BY <1>2, <1>7, <1>8, <2>2 DEF HeardRemote
    <2> QED BY <2>1, <2>2
  <1>12. HeardFirst'
    <2> SUFFICES ASSUME NEW m \in DOMAIN sockets, NEW d \in heard'[m], NEW j \in 1 .. m - 1,
                        sockets'[j].localPort = sockets'[m].localPort
                 PROVE  /\ ~sockets'[j].listening
                        /\ <<sockets'[j].remote, sockets'[j].remotePort>> # d
      BY <1>7 DEF HeardFirst
    <2>1. j \in DOMAIN sockets /\ j # m
      BY <1>2
    <2>2. CASE m = k
      <3>1. d = e
        BY <1>8, <1>10, <2>2
      <3>2. sockets'[j] = sockets[j] /\ sockets[j].localPort = sockets[k].localPort
        BY <1>5, <1>7, <2>1, <2>2
      <3>3. ~Takes(sockets[j], f) /\ sockets[k].localPort = f.port
        BY <1>9, <2>2 DEF Takes
      <3> QED BY <3>1, <3>2, <3>3 DEF Takes, e
    <2>3. CASE m # k
      <3>1. d \in heard[m] /\ sockets'[m] = sockets[m]
        BY <1>7, <1>8, <2>3
      <3>2. CASE j = k
        <4>1. ~sockets[k].listening /\ <<sockets[k].remote, sockets[k].remotePort>> # d
          BY <1>2, <1>5, <1>7, <2>1, <3>1, <3>2 DEF HeardFirst
        <4>2. <<sockets[k].remote, sockets[k].remotePort>> = e
          BY <1>9, <4>1 DEF Takes, e
        <4> QED BY <1>5, <1>7, <3>2, <4>1, <4>2 DEF e
      <3>3. CASE j # k
        BY <1>2, <1>7, <2>1, <3>1, <3>3 DEF HeardFirst
      <3> QED BY <3>2, <3>3
    <2> QED BY <2>2, <2>3
  <1> QED BY <1>4, <1>5, <1>7, <1>8, <1>11, <1>12 DEF Socket

LEMMA OnDatagramKeeps ==
  ASSUME NInv, Interrupt, NEW f \in Incoming, NEW k \in DOMAIN sockets, OnDatagram(f, k)
  PROVE  NInv'
  <1>1. /\ sockets' \in Seq(Socket) /\ DOMAIN sockets' = DOMAIN sockets
        /\ heard' \in Seq(SUBSET (Hosts \X Nat)) /\ Len(heard') = Len(sockets')
        /\ sockets'[k].remote = f.from /\ sockets'[k].localPort \in Nat
        /\ sockets'[k].remotePort = f.sport
        /\ HeardRemote' /\ HeardFirst'
    BY OnDatagramHears
  <1>2. cache' = cache
    BY DEF OnDatagram
  <1>3. ToRemote(sockets'[k]) \in Outgoing /\ ToRemote(sockets'[k]).to = f.from
    BY <1>1, OutgoingIs DEF ToRemote, Incoming
  <1> PICK p \in Outgoing : p = ToRemote(sockets'[k])
    BY <1>3
  <1>4. started /\ Cached(Gateway)
    <2>1. sockets # <<>>
      BY DEF NInv, NTypeOK
    <2> QED BY <2>1 DEF NInv, GatewayFirst
  <1>5. /\ SentToNextHop' /\ asked' \subseteq Neighbours
        /\ handler' \in Outgoing \cup {Nothing}
        /\ (\A ip \in Answered : Route(ip) = Gateway) => handler' = Nothing
    <2>1. CASE f.from \in Answered /\ Send(p, handler)
      <3>1. /\ SentToNextHop' /\ asked' \subseteq Neighbours
            /\ IF Cached(Route(f.from)) THEN handler' = Nothing ELSE handler' = p
        BY <1>3, <2>1, HandlerSendIs DEF NInv
      <3> QED BY <1>3, <1>4, <2>1, <3>1
    <2>2. CASE emitted' = {} /\ UNCHANGED <<handler, asked>>
      BY <2>2, NothingSent DEF NInv, NTypeOK, HandlerNeverWaits
    <2> QED BY <2>1, <2>2 DEF OnDatagram, Send, Emit
  <1>6. NTypeOK'
    BY <1>1, <1>2, <1>5, InterruptTakes DEF NInv, NTypeOK
  <1>7. GatewayFirst'
    BY <1>2, <1>4, InterruptTakes DEF GatewayFirst, Cached
  <1>8. CacheTruthful' /\ HandlerNeverWaits'
    BY <1>2, <1>5 DEF NInv, CacheTruthful, HandlerNeverWaits
  <1> QED BY <1>1, <1>5, <1>6, <1>7, <1>8 DEF NInv

LEMMA InterruptKeeps ==
  ASSUME NInv, Interrupt
  PROVE  NInv'
  <1> DEFINE f == Head(inbox)
  <1>1. f \in Incoming
    BY InterruptTakes
  <1>2. \/ OnIgnored(f) \/ OnArpRequest(f) \/ OnArpResponse(f) \/ OnEchoRequest(f)
        \/ OnStray(f) \/ \E k \in DOMAIN sockets : OnDatagram(f, k)
    BY DEF Interrupt
  <1> HIDE DEF f
  <1>3. CASE OnIgnored(f) \/ OnStray(f)
    BY <1>3, QuietKeeps, NothingSent DEF OnIgnored, OnStray
  <1>4. CASE OnArpRequest(f)
    <2>1. SentToNextHop'
      BY <1>1, <1>4, SentBackToNextHop DEF OnArpRequest
    <2> QED BY <1>4, <2>1, QuietKeeps DEF OnArpRequest
  <1>5. CASE OnEchoRequest(f)
    <2>1. SentToNextHop'
      BY <1>1, <1>5, SentBackToNextHop DEF OnEchoRequest
    <2> QED BY <1>5, <2>1, QuietKeeps DEF OnEchoRequest
  <1>6. CASE OnArpResponse(f)
    BY <1>1, <1>6, OnArpResponseKeeps
  <1>7. CASE \E k \in DOMAIN sockets : OnDatagram(f, k)
    BY <1>1, <1>7, OnDatagramKeeps
  <1> QED BY <1>2, <1>3, <1>4, <1>5, <1>6, <1>7

-----------------------------------------------------------------------------
(* The other machines.                                                     *)

\* A machine of the link can only add a truthful frame.
LEMMA ComesKeeps ==
  ASSUME NInv, NEW f \in Incoming, Comes(f), asked' \subseteq Neighbours
  PROVE  NInv'
  <1>1. NTypeOK'
    BY DEF NInv, NTypeOK, Comes, tables
  <1>2. CacheTruthful' /\ HeardRemote' /\ HeardFirst' /\ HandlerNeverWaits' /\ GatewayFirst'
    BY DEF NInv, CacheTruthful, HeardRemote, HeardFirst, HandlerNeverWaits, GatewayFirst,
           Cached, Comes, tables
  <1> QED BY <1>1, <1>2, NothingSent DEF NInv, Comes

LEMMA UnaskedKeeps ==
  ASSUME NInv, NEW f \in Incoming, Unasked(f)
  PROVE  NInv'
  BY ComesKeeps DEF Unasked, NInv, NTypeOK

LEMMA NeighbourKeeps ==
  ASSUME NInv, NEW ip \in Neighbours, Neighbour(ip)
  PROVE  NInv'
  <1>1. \A to \in {Me, Gateway} : Frame(Everyone, ip, "request", ip, to, 0, 0) \in Incoming
    BY DEF Frame, Incoming, Hosts, Route
  <1>2. Frame(Me, ip, "response", ip, Me, 0, 0) \in Incoming
    BY DEF Frame, Incoming, Hosts, Route
  <1> QED BY <1>1, <1>2, UnaskedKeeps DEF Neighbour

LEMMA TrafficKeeps ==
  ASSUME NInv, NEW ip \in Hosts, Traffic(ip)
  PROVE  NInv'
  <1>1. \A kind \in {"ping", "pong"} : Frame(Me, Route(ip), kind, ip, Me, 0, 0) \in Incoming
    BY RouteIsNeighbour DEF Frame, Incoming
  <1>2. \A sport \in RemotePorts, port \in ListenPorts \cup {FirstPort} :
          Frame(Me, Route(ip), "udp", ip, Me, sport, port) \in Incoming
    BY RouteIsNeighbour, NetworkAssumption DEF Frame, Incoming
  <1> QED BY <1>1, <1>2, UnaskedKeeps DEF Traffic

LEMMA AnswerKeeps ==
  ASSUME NInv, NEW ip \in Neighbours, Answer(ip)
  PROVE  NInv'
  <1>1. Frame(Me, ip, "response", ip, Me, 0, 0) \in Incoming
    BY DEF Frame, Incoming, Hosts, Route
  <1>2. Comes(Frame(Me, ip, "response", ip, Me, 0, 0)) /\ asked' \subseteq Neighbours
    BY DEF Answer, NInv, NTypeOK
  <1> QED BY <1>1, <1>2, ComesKeeps

LEMMA LoseKeeps ==
  ASSUME NInv, NEW ip \in Neighbours, Lose(ip)
  PROVE  NInv'
  <1>1. NTypeOK'
    BY DEF NInv, NTypeOK, Lose, tables
  <1>2. CacheTruthful' /\ HeardRemote' /\ HeardFirst' /\ HandlerNeverWaits' /\ GatewayFirst'
    BY DEF NInv, CacheTruthful, HeardRemote, HeardFirst, HandlerNeverWaits, GatewayFirst,
           Cached, Lose, tables
  <1> QED BY <1>1, <1>2, NothingSent DEF NInv, Lose

-----------------------------------------------------------------------------
LEMMA NetworkStarts == Init => NInv
  <1> SUFFICES ASSUME Init PROVE NInv
    OBVIOUS
  <1>1. NTypeOK
    <2>1. \A T : <<>> \in Seq(T)
      OBVIOUS
    <2> QED BY <2>1, NetworkAssumption DEF Init, NTypeOK
  <1>2. CacheTruthful /\ GatewayFirst /\ HeardRemote /\ HeardFirst
    BY DEF Init, CacheTruthful, GatewayFirst, HeardRemote, HeardFirst
  <1>3. SentToNextHop /\ HandlerNeverWaits
    BY DEF Init, SentToNextHop, HandlerNeverWaits
  <1> QED BY <1>1, <1>2, <1>3 DEF NInv

LEMMA NetworkSteps == NInv /\ [Next]_vars => NInv'
  <1> SUFFICES ASSUME NInv, [Next]_vars PROVE NInv'
    OBVIOUS
  <1>1. CASE Interrupt
    BY <1>1, InterruptKeeps
  <1>2. CASE StartUp \/ TaskResolved
    BY <1>2, StartUpKeeps, TaskResolvedKeeps
  <1>3. CASE \E ip \in Neighbours \cup Far :
               \/ RequestEchoReply(ip)
               \/ \E port \in RemotePorts : Connect(ip, port)
               \/ Traffic(ip)
    BY <1>3, RequestEchoReplyKeeps, ConnectKeeps, TrafficKeeps DEF Hosts
  <1>4. CASE \E port \in ListenPorts : Listen(port)
    BY <1>4, ListenKeeps
  <1>5. CASE \E k \in DOMAIN sockets : SocketSend(k)
    BY <1>5, SocketSendKeeps
  <1>6. CASE \E ip \in Neighbours : Answer(ip) \/ Lose(ip) \/ Neighbour(ip)
    BY <1>6, AnswerKeeps, LoseKeeps, NeighbourKeeps
  <1>7. CASE UNCHANGED vars
    <2>1. NTypeOK'
      BY <1>7 DEF NInv, NTypeOK, vars, tables
    <2>2. CacheTruthful' /\ HeardRemote' /\ HeardFirst' /\ HandlerNeverWaits' /\ GatewayFirst'
      BY <1>7 DEF NInv, CacheTruthful, HeardRemote, HeardFirst, HandlerNeverWaits,
                  GatewayFirst, Cached, vars, tables
    <2>3. SentToNextHop'
      BY <1>7 DEF NInv, SentToNextHop, vars
    <2> QED BY <2>1, <2>2, <2>3 DEF NInv
  <1> QED BY <1>1, <1>2, <1>3, <1>4, <1>5, <1>6, <1>7 DEF Next

\* The inductive invariant holds in every reachable state, whatever the link, the ports,
\* the limits and the sockets programs open.
THEOREM NetworkInvariance == Spec => []NInv
  BY NetworkStarts, NetworkSteps, PTL DEF Spec

\* Every packet leaves for the neighbour it is for, or for the gateway.
THEOREM PacketsGoToNextHop == Spec => []SentToNextHop
  <1>1. NInv => SentToNextHop
    BY DEF NInv
  <1> QED BY <1>1, NetworkInvariance, PTL

\* The interrupt handler never waits for an ARP response when only datagrams from beyond
\* the gateway, or of the gateway itself, are answered from it.
THEOREM HandlerIsNeverStuck == Spec => []HandlerNeverWaits
  <1>1. NInv => HandlerNeverWaits
    BY DEF NInv
  <1> QED BY <1>1, NetworkInvariance, PTL

LEMMA HeardOnce == NInv => OneSocketPerRemote
  <1> SUFFICES ASSUME NInv, NEW k \in DOMAIN sockets
               PROVE  /\ Cardinality(heard[k]) <= 1
                      /\ \A j \in DOMAIN sockets :
                           j # k /\ sockets[j].localPort = sockets[k].localPort =>
                             heard[j] \cap heard[k] = {}
    BY DEF OneSocketPerRemote
  <1>0. DOMAIN sockets = 1 .. Len(sockets) /\ Len(sockets) \in Nat
    BY DEF NInv, NTypeOK
  <1>1. \A j \in DOMAIN sockets : heard[j] \subseteq {<<sockets[j].remote, sockets[j].remotePort>>}
    BY DEF NInv, HeardRemote
  <1>2. Cardinality(heard[k]) <= 1
    <2> DEFINE one == {<<sockets[k].remote, sockets[k].remotePort>>}
    <2>1. IsFiniteSet(one) /\ Cardinality(one) = 1
      BY FS_Singleton
    <2>2. heard[k] \in SUBSET one
      BY <1>1
    <2> QED BY <2>1, <2>2, FS_Subset
  <1>3. ASSUME NEW i \in DOMAIN sockets, NEW j \in DOMAIN sockets, i < j,
               sockets[i].localPort = sockets[j].localPort
        PROVE  heard[i] \cap heard[j] = {}
    <2> SUFFICES ASSUME NEW e \in heard[i], e \in heard[j] PROVE FALSE
      OBVIOUS
    <2>1. i \in 1 .. j - 1
      BY <1>0, <1>3
    <2>2. <<sockets[i].remote, sockets[i].remotePort>> # e
      BY <1>3, <2>1 DEF NInv, HeardFirst
    <2> QED BY <1>1, <2>2
  <1>4. ASSUME NEW j \in DOMAIN sockets, j # k, sockets[j].localPort = sockets[k].localPort
        PROVE  heard[j] \cap heard[k] = {}
    <2>1. j < k \/ k < j
      BY <1>0, <1>4
    <2> QED BY <1>3, <1>4, <2>1
  <1> QED BY <1>2, <1>4

\* A UDP socket hears one remote end, and no other socket of its port hears the same.
THEOREM SocketsAreNotMixedUp == Spec => []OneSocketPerRemote
  BY HeardOnce, NetworkInvariance, PTL
=============================================================================
