------------------------------ MODULE Network ------------------------------
(***************************************************************************)
(* The protocols above the card: Ethernet frames (src/net/etherframe.cpp), *)
(* ARP (arp.cpp), IPv4 (ipv4.cpp), ICMP (icmp.cpp) and UDP (udp.cpp) of    *)
(* one machine, with the other machines of its link and beyond as its      *)
(* environment.                                                            *)
(*                                                                         *)
(* A frame is handled in the card's interrupt, with interrupts masked; a   *)
(* task sends with interrupts enabled.  Both may have to wait in Resolve   *)
(* for an ARP response that only the interrupt handler can store: a task   *)
(* waits in its busy loop, the handler never comes out of it.              *)
(*                                                                         *)
(* The MAC address of a machine of the link is written like its IP address *)
(* and Everyone is the broadcast address FF:FF:FF:FF:FF:FF.  The remote    *)
(* end of a listening socket is memory nobody has written: it is taken to  *)
(* be Nobody's.  One task sends at a time.                                 *)
(***************************************************************************)
EXTENDS Integers, Sequences, FiniteSets

CONSTANTS
  Me,            \* our own address
  Neighbours,    \* the other addresses of our subnet
  Far,           \* addresses outside it
  Gateway,       \* the neighbour that forwards to them
  Everyone,      \* the broadcast MAC address
  Nobody,        \* the remoteIP of a UDP socket that has none yet
  CacheSize,     \* entries of the ARP cache (128 in the source)
  ListenPorts,   \* bound: the ports Listen is called with
  RemotePorts,   \* bound: the ports remote programs use
  FirstPort,     \* the first local port of Connect (1024 in the source)
  Answered,      \* the addresses whose datagrams the program's UDP handlers answer
  MaxSockets,    \* bound: the UDP sockets opened
  MaxFrames      \* bound: the frames on their way to us

ASSUME NetworkAssumption ==
  /\ Gateway \in Neighbours
  /\ Me \notin Neighbours \cup Far /\ Neighbours \cap Far = {}
  /\ {Everyone, Nobody} \cap (Neighbours \cup Far \cup {Me}) = {}
  /\ Answered \subseteq Neighbours \cup Far
  /\ ListenPorts \cup RemotePorts \subseteq Nat /\ FirstPort \in Nat
  /\ CacheSize \in Nat /\ MaxSockets \in Nat /\ MaxFrames \in Nat

Hosts == Neighbours \cup Far

VARIABLES
  cache,      \* IPcache and MACcache: pairs in the order they were learnt
  sockets,    \* the table of UDP sockets
  freePort,   \* the next local port of Connect
  task,       \* the packet a task is sending, while it waits for the next hop's MAC
  handler,    \* the same for the interrupt handler
  started,    \* the program has resolved the gateway (BroadcastMACAddress)
  inbox,      \* the frames the card has received, oldest first
  emitted,    \* the frames given to the card in the last step
  asked,      \* the machines whose address has been asked for and is not yet answered
  lost,       \* history: a question was lost
  heard       \* history: per socket, the remote ends its handler was given data of

tables == <<cache, sockets, freePort, heard>>
vars   == <<tables, task, handler, started, inbox, emitted, asked, lost>>

\* mac and via are the frame's addresses; from, to, sport, port the packet's.  The kinds
\* are ARP request and response, ICMP echo request (ping) and reply (pong), and udp.
Frame(mac, via, kind, from, to, sport, port) ==
  [mac |-> mac, via |-> via, kind |-> kind, from |-> from, to |-> to,
   sport |-> sport, port |-> port]

\* A packet of ours before the next hop's address is known.
Ours(kind, to, sport, port) == Frame(Nobody, Me, kind, Me, to, sport, port)
Nothing == Ours("nothing", Nobody, 0, 0)

Init ==
  /\ cache = <<>> /\ sockets = <<>> /\ freePort = FirstPort
  /\ task = Nothing /\ handler = Nothing /\ started = FALSE
  /\ inbox = <<>> /\ emitted = {} /\ asked = {} /\ lost = FALSE /\ heard = <<>>

-----------------------------------------------------------------------------
(* Sending: Resolve, and the packet to the machine it gave.                *)

\* Faulty variant: the subnet mask is not looked at.
RouteDirect(ip) == ip

\* The machine of the link that a packet for ip is given to.
Route(ip) == IF ip \in Neighbours THEN ip ELSE Gateway

Cached(ip) == \E i \in DOMAIN cache : cache[i].ip = ip

\* GetMACFromCache: the oldest entry for ip.
Oldest(ip) ==
  CHOOSE i \in DOMAIN cache : cache[i].ip = ip /\ \A j \in 1 .. i - 1 : cache[j].ip # ip

MacOf(ip) == cache[Oldest(ip)].mac

\* Packet p leaves in a frame for machine hop.
Emit(p, hop) == emitted' = {[p EXCEPT !.mac = MacOf(hop)]}

\* The caller's packet p up to its end or to the loop of Resolve.  `caller` is the task or
\* the handler, which keeps the packet it waits with.
Send(p, caller) ==
  LET hop == Route(p.to)
  IN  IF Cached(hop)
      THEN Emit(p, hop) /\ caller' = Nothing /\ UNCHANGED asked
      ELSE /\ emitted' = {Frame(Everyone, Me, "request", Me, hop, 0, 0)}
           /\ asked' = asked \cup {hop}
           /\ caller' = p

-----------------------------------------------------------------------------
(* What tasks do, while no handler runs.                                   *)

TaskMayStart == handler = Nothing /\ task = Nothing

TaskSends(p) ==
  /\ TaskMayStart
  /\ Send(p, task)
  /\ UNCHANGED <<tables, handler, inbox, lost>>

\* The program starts with BroadcastMACAddress of the gateway, however long that takes;
\* an assumption, since no program of the repository uses the network yet.
StartUp ==
  /\ ~started
  /\ TaskSends(Ours("response", Gateway, 0, 0))
  /\ started' = (task' = Nothing)

\* The loop of Resolve finds the answer.
TaskResolved ==
  /\ handler = Nothing /\ task # Nothing
  /\ Cached(Route(task.to))
  /\ Send(task, task)
  /\ started' = TRUE
  /\ UNCHANGED <<tables, handler, inbox, lost>>

RequestEchoReply(ip) ==
  /\ started
  /\ TaskSends(Ours("ping", ip, 0, 0))
  /\ UNCHANGED started

Opened(s) ==
  /\ started /\ TaskMayStart
  /\ Len(sockets) < MaxSockets
  /\ sockets' = Append(sockets, s)
  /\ heard' = Append(heard, {})
  /\ emitted' = {}
  /\ UNCHANGED <<cache, task, handler, started, inbox, asked, lost>>

Listen(port) ==
  /\ Opened([listening |-> TRUE, localPort |-> port, remote |-> Nobody, remotePort |-> 0])
  /\ UNCHANGED freePort

Connect(ip, port) ==
  /\ Opened([listening |-> FALSE, localPort |-> freePort, remote |-> ip, remotePort |-> port])
  /\ freePort' = (freePort + 1) % 65536

ToRemote(s) == Ours("udp", s.remote, s.localPort, s.remotePort)

SocketSend(k) ==
  /\ sockets[k].remote # Nobody
  /\ TaskSends(ToRemote(sockets[k]))
  /\ UNCHANGED started

-----------------------------------------------------------------------------
(* The handler of frame f.                                                 *)

\* Faulty variant: only broadcasts are taken.
ForAll(f) == f.mac = Everyone /\ f.to = Me

ForMe(f) == f.mac \in {Me, Everyone} /\ f.to = Me

\* Sent back in the buffer it came in, to the machine it came from.
SentBack(f, kind) == emitted' = {Frame(f.via, Me, kind, Me, f.from, 0, 0)}

\* Frames for other machines and echo replies change nothing; nor does a response when
\* the cache is full.
OnIgnored(f) ==
  /\ ~ForMe(f) \/ f.kind = "pong" \/ (f.kind = "response" /\ Len(cache) >= CacheSize)
  /\ emitted' = {}
  /\ UNCHANGED <<cache, sockets, handler, asked, heard>>

OnArpRequest(f) ==
  /\ ForMe(f) /\ f.kind = "request"
  /\ SentBack(f, "response")
  /\ UNCHANGED <<cache, sockets, handler, asked, heard>>

\* Faulty variant: only the latest response is kept.
LearntLast(e) == <<e>>

Learnt(e) == Append(cache, e)

\* Every response is stored, also one that nobody asked for and one already stored.
OnArpResponse(f) ==
  /\ ForMe(f) /\ f.kind = "response"
  /\ Len(cache) < CacheSize
  /\ cache' = Learnt([ip |-> f.from, mac |-> f.via])
  /\ emitted' = {}
  /\ UNCHANGED <<sockets, handler, asked, heard>>

OnEchoRequest(f) ==
  /\ ForMe(f) /\ f.kind = "ping"
  /\ SentBack(f, "pong")
  /\ UNCHANGED <<cache, sockets, handler, asked, heard>>

\* Faulty variant: a socket that is bound still takes anybody's datagrams.
TakesAlways(s, f) == s.localPort = f.port

\* A listening socket takes a datagram from anybody, any other only from its remote end.
Takes(s, f) ==
  /\ s.localPort = f.port
  /\ s.listening \/ (s.remotePort = f.sport /\ s.remote = f.from)

IsFirst(k, f) == Takes(sockets[k], f) /\ \A j \in 1 .. k - 1 : ~Takes(sockets[j], f)

\* The first socket that takes the datagram is bound to its sender, and the program's
\* handler is given the data; it may answer at once.
OnDatagram(f, k) ==
  /\ ForMe(f) /\ f.kind = "udp"
  /\ IsFirst(k, f)
  /\ sockets' = [sockets EXCEPT ![k].listening = FALSE, ![k].remote = f.from,
                                ![k].remotePort = f.sport]
  /\ heard' = [heard EXCEPT ![k] = @ \cup {<<f.from, f.sport>>}]
  /\ \/ f.from \in Answered /\ Send(ToRemote(sockets'[k]), handler)
     \/ emitted' = {} /\ UNCHANGED <<handler, asked>>
  /\ UNCHANGED cache

OnStray(f) ==
  /\ ForMe(f) /\ f.kind = "udp"
  /\ \A k \in DOMAIN sockets : ~Takes(sockets[k], f)
  /\ emitted' = {}
  /\ UNCHANGED <<cache, sockets, handler, asked, heard>>

Interrupt ==
  /\ handler = Nothing
  /\ inbox # <<>>
  /\ LET f == Head(inbox)
     IN  \/ OnIgnored(f) \/ OnArpRequest(f) \/ OnArpResponse(f) \/ OnEchoRequest(f)
         \/ OnStray(f) \/ \E k \in DOMAIN sockets : OnDatagram(f, k)
  /\ inbox' = Tail(inbox)
  /\ UNCHANGED <<task, freePort, started, lost>>

-----------------------------------------------------------------------------
(* The other machines, truthful about their addresses.                     *)

Comes(f) ==
  /\ inbox' = Append(inbox, f)
  /\ emitted' = {}
  /\ UNCHANGED <<tables, task, handler, started>>

\* An answer to each question has a place in the card's ring.
Unasked(f) == Len(inbox) + Cardinality(asked) < MaxFrames /\ Comes(f) /\ UNCHANGED <<asked, lost>>

Answer(ip) ==
  /\ ip \in asked
  /\ Comes(Frame(Me, ip, "response", ip, Me, 0, 0))
  /\ asked' = asked \ {ip}
  /\ UNCHANGED lost

Lose(ip) ==
  /\ ip \in asked
  /\ asked' = asked \ {ip}
  /\ lost' = TRUE
  /\ emitted' = {}
  /\ UNCHANGED <<tables, task, handler, started, inbox>>

Neighbour(ip) ==
  \/ \E to \in {Me, Gateway} : Unasked(Frame(Everyone, ip, "request", ip, to, 0, 0))
  \/ Unasked(Frame(Me, ip, "response", ip, Me, 0, 0))

Traffic(ip) ==
  \/ \E kind \in {"ping", "pong"} : Unasked(Frame(Me, Route(ip), kind, ip, Me, 0, 0))
  \/ \E sport \in RemotePorts, port \in ListenPorts \cup {FirstPort} : Unasked(Frame(Me, Route(ip), "udp", ip, Me, sport, port))

Next ==
  \/ Interrupt
  \/ StartUp
  \/ TaskResolved
  \/ \E ip \in Neighbours \cup Far :
       \/ RequestEchoReply(ip)
       \/ \E port \in RemotePorts : Connect(ip, port)
       \/ Traffic(ip)
  \/ \E port \in ListenPorts : Listen(port)
  \/ \E k \in DOMAIN sockets : SocketSend(k)
  \/ \E ip \in Neighbours : Answer(ip) \/ Lose(ip) \/ Neighbour(ip)

\* Interrupts are taken, a waiting task gets the CPU, and machines answer questions.
Fairness == WF_vars(Interrupt) /\ WF_vars(TaskResolved) /\ \A ip \in Neighbours : WF_vars(Answer(ip))

Spec == Init /\ [][Next]_vars /\ Fairness

-----------------------------------------------------------------------------
\* Every packet leaves in a frame for the machine that takes it further: the neighbour it
\* is for, or the gateway; answers sent back in place, too.  Only questions are broadcast,
\* and they are about machines that can hear them.
SentToNextHop ==
  \A f \in emitted :
    IF f.kind = "request"
    THEN f.mac = Everyone /\ f.to \in Neighbours
    ELSE f.mac = (IF f.to \in Neighbours THEN f.to ELSE Gateway)

\* The handler never gets into the loop of Resolve, which it could not leave: the gateway
\* was resolved before the first socket was opened, and programs answer datagrams from
\* beyond it only.
HandlerNeverWaits == (\A ip \in Answered : Route(ip) = Gateway) => handler = Nothing

\* A socket hears one remote end only, and what that end sends to a port always goes to
\* the same socket, however Listen and Connect share the ports out.
OneSocketPerRemote ==
  \A k \in DOMAIN sockets :
    /\ Cardinality(heard[k]) <= 1
    /\ \A j \in DOMAIN sockets :
         j # k /\ sockets[j].localPort = sockets[k].localPort => heard[j] \cap heard[k] = {}

\* No question is lost, no task waits for an address with the cache full, and the handler
\* is not in the loop.
Calm ==
  /\ ~lost /\ handler = Nothing
  /\ task # Nothing /\ ~Cached(Route(task.to)) => Len(cache) < CacheSize

\* A task comes out of the loop of Resolve then, and what it sent is on the link.
ResolveReturns == []Calm => (task # Nothing ~> task = Nothing)

=============================================================================
