-------------------------------- MODULE Tcp --------------------------------
(***************************************************************************)
(* The TCP provider and its sockets (src/net/tcp.cpp), run by every host.  *)
(*                                                                         *)
(* A segment is handled in the network card's interrupt and is one action; *)
(* Send and Disconnect are called by a task with interrupts enabled, and   *)
(* the segments that arrive between their first test or assignment and the *)
(* segment they send are handled in between: two actions each.  A handler  *)
(* of payloads is called in the middle of that interrupt and may call both *)
(* itself, as PrintfTCPHandler (src/kernel.cpp) does for an HTTP request:  *)
(* the interrupt is then one action for each segment it sends, and nothing *)
(* else runs at its host meanwhile.  The IP layer under it may lose,       *)
(* repeat and reorder segments; nothing here ever sends one again.         *)
(*                                                                         *)
(* Both ends number from 0xbeefcafe: sequence numbers are relative to it.  *)
(* The acknowledgement number a segment carries is never read and is left  *)
(* out.  A payload is its length and the index of its last nonzero byte    *)
(* plus one: the receiver takes its length to be the latter.  Its number   *)
(* among those of its socket, nth, is there to tell payloads apart.        *)
(***************************************************************************)
EXTENDS Integers, Sequences, SequencesExt

CONSTANTS
  Host,         \* the machines, each with one provider and one application
  Nobody,       \* the remoteIP of a socket that has none yet
  Servers,      \* the hosts whose application listens; the others connect
  Port,         \* the port they listen on and connect to
  Lengths,      \* bound: the lengths of the payloads an application sends
  Zeros,        \* bound: how many zero bytes they may end in
  MaxListens,   \* bound: the sockets a server opens; the provider's table holds 65535
  MaxConnects,  \* bound: the sockets a client opens, likewise
  Senders,      \* bound: the hosts whose tasks send
  MaxSends,     \* bound: the payloads they send on one socket
  Answerers,    \* the hosts whose sockets are bound to a handler that answers requests
  MaxMishaps    \* bound: the mishaps of one behaviour, see below

HeaderBytes == 24      \* sizeof(TransmissionControlProtocolHeader)

ASSUME TcpAssumption ==
  /\ Nobody \notin Host
  /\ Servers \subseteq Host
  /\ Port \in Nat
  /\ Lengths \subseteq Nat \ {0} /\ Zeros \subseteq Nat
  /\ MaxListens \in Nat /\ MaxListens <= 65535
  /\ MaxConnects \in Nat /\ MaxConnects <= 65535
  /\ Answerers \subseteq Host /\ Answerers \cap Senders = {}
  /\ Senders \subseteq Host /\ MaxSends \in Nat /\ MaxMishaps \in Nat

States == {"CLOSED", "LISTEN", "SYN_SENT", "SYN_RECEIVED", "ESTABLISHED",
           "FIN_WAIT1", "FIN_WAIT2", "CLOSE_WAIT"}
Payloads == {[len |-> lz[1], used |-> lz[1] - lz[2]] : lz \in
               {lz \in Lengths \X Zeros : lz[2] <= lz[1]}}
NoData == [len |-> 0, used |-> 0, nth |-> 0]

Response == [len |-> 184, used |-> 184]     \* what PrintfTCPHandler sends

VARIABLES
  sockets,     \* sockets[h]: the table of host h; a closed socket stays listed
  freePort,    \* the next local port of Connect
  task,        \* what the application of h is in the middle of, and on which socket
  call,        \* what a handler called in the interrupt of h is about to do, likewise
  net,         \* net[h]: the segments on their way to h, oldest first
  sent,        \* history: the payloads each socket has sent
  received,    \* history: the payloads each socket's handler was given and took
  revived,     \* history: the sockets disconnected when closed already, or by the peer
  mishaps      \* history: how often something out of the ordinary happened

vars == <<sockets, freePort, task, call, net, sent, received, revived, mishaps>>

Idle == [at |-> "idle", socket |-> 0]

Init ==
  /\ sockets = [h \in Host |-> <<>>]
  /\ freePort = [h \in Host |-> 1024]
  /\ task = [h \in Host |-> Idle]
  /\ call = [h \in Host |-> Idle]
  /\ net = [h \in Host |-> <<>>]
  /\ sent = [h \in Host |-> <<>>]
  /\ received = [h \in Host |-> <<>>]
  /\ revived = {}
  /\ mishaps = 0

Mishap == mishaps < MaxMishaps /\ mishaps' = mishaps + 1

-----------------------------------------------------------------------------
(* Segments and the socket a segment is for.                               *)

\* The provider's Send: the header of socket s of host h, with its sequence number.
Segment(h, s, flags, data) ==
  [src |-> h, sport |-> s.localPort, dport |-> s.remotePort,
   flags |-> flags, seq |-> s.seq, data |-> data]

Matches(s, m) ==
  /\ s.localPort = m.dport
  /\ \/ s.state = "LISTEN" /\ "SYN" \in m.flags /\ "ACK" \notin m.flags
     \/ s.remote = m.src /\ s.remotePort = m.sport

\* Faulty variant: any listed socket that matches.
IsForAny(h, m, k) == k \in DOMAIN sockets[h] /\ Matches(sockets[h][k], m)

\* The first listed socket that matches gets the segment.
IsFor(h, m, k) ==
  /\ k \in DOMAIN sockets[h]
  /\ Matches(sockets[h][k], m)
  /\ \A j \in 1 .. k - 1 : ~Matches(sockets[h][j], m)

-----------------------------------------------------------------------------
(* The application's calls, by a task: not while an interrupt is handled.  *)

Tasks(h) == call[h] = Idle /\ UNCHANGED call

\* Socket s is appended to the table of h.
Opened(h, s) ==
  /\ sockets' = [sockets EXCEPT ![h] = Append(@, s)]
  /\ sent' = [sent EXCEPT ![h] = Append(@, <<>>)]
  /\ received' = [received EXCEPT ![h] = Append(@, <<>>)]

Listen(h) ==
  /\ Tasks(h)
  /\ h \in Servers /\ Len(sockets[h]) < MaxListens
  /\ Opened(h, [state |-> "LISTEN", localPort |-> Port, remote |-> Nobody,
                remotePort |-> 0, seq |-> 0, ack |-> 0])
  /\ UNCHANGED <<freePort, task, net, revived, mishaps>>

Connect(h, g) ==
  /\ Tasks(h)
  /\ h \notin Servers /\ Len(sockets[h]) < MaxConnects
  /\ g \in Servers
  /\ LET s == [state |-> "SYN_SENT", localPort |-> freePort[h], remote |-> g,
               remotePort |-> Port, seq |-> 0, ack |-> 0]
     IN  /\ Opened(h, s)
         /\ net' = [net EXCEPT ![g] = Append(@, Segment(h, s, {"SYN"}, NoData))]
  /\ freePort' = [freePort EXCEPT ![h] = (@ + 1) % 65536]
  /\ UNCHANGED <<task, revived, mishaps>>

\* Socket::Send gets past its busy wait once the socket is ESTABLISHED ...
SendMayGo(h, k) ==
  /\ Tasks(h)
  /\ task[h] = Idle
  /\ k \in DOMAIN sockets[h]
  /\ sockets[h][k].state = "ESTABLISHED"
  /\ h \in Senders /\ Len(sent[h][k]) < MaxSends
  /\ task' = [task EXCEPT ![h] = [at |-> "send", socket |-> k]]
  /\ UNCHANGED <<sockets, freePort, net, sent, received, revived, mishaps>>

\* The payload p goes out on socket k of h.
Outgoing(h, k, p) == [len |-> p.len, used |-> p.used, nth |-> Len(sent[h][k]) + 1]

PayloadGoes(h, k, p) ==
  LET s == sockets[h][k]
  IN  /\ net' = [net EXCEPT ![s.remote] =
                   Append(@, Segment(h, s, {"PSH", "ACK"}, Outgoing(h, k, p)))]
      /\ sockets' = [sockets EXCEPT ![h][k].seq = @ + p.len]
      /\ sent' = [sent EXCEPT ![h][k] = Append(@, Outgoing(h, k, p))]

\* ... and sends without looking at the state again.
SendGoes(h, p) ==
  /\ Tasks(h)
  /\ task[h].at = "send"
  /\ PayloadGoes(h, task[h].socket, p)
  /\ task' = [task EXCEPT ![h] = Idle]
  /\ UNCHANGED <<freePort, received, revived, mishaps>>

\* Disconnect looks at no state.  Called on a socket that is not ESTABLISHED it counts as a
\* mishap; one that was listening then matches no segment any more.
DisconnectStarts(h, k) ==
  /\ Tasks(h)
  /\ task[h] = Idle
  /\ k \in DOMAIN sockets[h]
  /\ IF sockets[h][k].state = "ESTABLISHED" THEN UNCHANGED mishaps ELSE Mishap
  /\ sockets' = [sockets EXCEPT ![h][k].state = "FIN_WAIT1"]
  /\ revived' = IF sockets[h][k].state \in {"CLOSE_WAIT", "CLOSED"}
                THEN revived \cup {<<h, k>>} ELSE revived
  /\ task' = [task EXCEPT ![h] = [at |-> "fin", socket |-> k]]
  /\ UNCHANGED <<freePort, net, sent, received>>

\* A segment without a payload from socket s of h; for nobody when s has no remote end.
Emits(h, s, flags) ==
  net' = [g \in Host |-> IF g = s.remote THEN Append(net[g], Segment(h, s, flags, NoData)) ELSE net[g]]

DisconnectSends(h) ==
  /\ Tasks(h)
  /\ task[h].at = "fin"
  /\ LET k == task[h].socket
     IN  /\ Emits(h, sockets[h][k], {"FIN", "ACK"})
         /\ sockets' = [sockets EXCEPT ![h][k].seq = @ + 1]
  /\ task' = [task EXCEPT ![h] = Idle]
  /\ UNCHANGED <<freePort, sent, received, revived, mishaps>>

-----------------------------------------------------------------------------
(* The interrupt: h handles the segment at position i of its queue, which  *)
(* is for its socket k.                                                    *)

\* Taken out of turn, a segment has been overtaken by a later one.
InTurn(i) == IF i = 1 THEN UNCHANGED mishaps ELSE Mishap

\* The segment is consumed, the socket becomes s and the segments `replies` go to its peer.
Handled(h, i, k, s, replies) ==
  /\ sockets' = [sockets EXCEPT ![h][k] = s]
  /\ net' = [net EXCEPT ![h] = RemoveAt(@, i), ![s.remote] = @ \o replies]
  /\ UNCHANGED <<freePort, task, sent, revived>>

Reply(h, s, flags) == <<Segment(h, s, flags, NoData)>>

Reset(h, i, k) ==
  LET s == sockets[h][k] IN Handled(h, i, k, s, Reply(h, s, {"RST"}))

\* Nobody's segment, or one for a closed socket.
OnNothing(h, i) ==
  LET m == net[h][i]
  IN  /\ \/ \A k \in DOMAIN sockets[h] : ~IsFor(h, m, k)
         \/ \E k \in DOMAIN sockets[h] :
              IsFor(h, m, k) /\ sockets[h][k].state = "CLOSED"
      /\ net' = [net EXCEPT ![h] = RemoveAt(@, i)]
      /\ UNCHANGED <<sockets, freePort, task, call, sent, received, revived>>

OnRst(h, i, k) ==
  /\ "RST" \in net[h][i].flags
  /\ Handled(h, i, k, [sockets[h][k] EXCEPT !.state = "CLOSED"], <<>>)
  /\ UNCHANGED <<received, call>>

Class(h, i) == net[h][i].flags \cap {"SYN", "ACK", "FIN"}

OnSyn(h, i, k) ==
  LET s == sockets[h][k]
      m == net[h][i]
      t == [s EXCEPT !.state = "SYN_RECEIVED", !.remote = m.src, !.remotePort = m.sport,
                     !.seq = 0, !.ack = m.seq + 1]
  IN  /\ Class(h, i) = {"SYN"}
      /\ \/ /\ s.state = "LISTEN"
            /\ Handled(h, i, k, [t EXCEPT !.seq = 1], Reply(h, t, {"SYN", "ACK"}))
         \/ s.state # "LISTEN" /\ Reset(h, i, k)
      /\ UNCHANGED <<received, call>>

OnSynAck(h, i, k) ==
  LET s == sockets[h][k]
      t == [s EXCEPT !.state = "ESTABLISHED", !.ack = net[h][i].seq + 1, !.seq = @ + 1]
  IN  /\ Class(h, i) = {"SYN", "ACK"}
      /\ \/ s.state = "SYN_SENT" /\ Handled(h, i, k, t, Reply(h, t, {"ACK"}))
         \/ s.state # "SYN_SENT" /\ Reset(h, i, k)
      /\ UNCHANGED <<received, call>>

OnFin(h, i, k) ==
  LET s == sockets[h][k]
      t == [s EXCEPT !.ack = @ + 1]
  IN  /\ Class(h, i) \in {{"FIN"}, {"FIN", "ACK"}}
      /\ \/ /\ s.state = "ESTABLISHED"
            /\ Handled(h, i, k, [t EXCEPT !.state = "CLOSE_WAIT"],
                       Reply(h, t, {"ACK"}) \o Reply(h, t, {"FIN", "ACK"}))
         \/ /\ s.state = "CLOSE_WAIT"
            /\ Handled(h, i, k, [s EXCEPT !.state = "CLOSED"], <<>>)
         \/ /\ s.state \in {"FIN_WAIT1", "FIN_WAIT2"}
            /\ Handled(h, i, k, [t EXCEPT !.state = "CLOSED"], Reply(h, t, {"ACK"}))
         \/ /\ s.state \notin {"ESTABLISHED", "CLOSE_WAIT", "FIN_WAIT1", "FIN_WAIT2"}
            /\ Reset(h, i, k)
      /\ UNCHANGED <<received, call>>

\* Faulty variant: a CLOSE_WAIT socket is not closed by the acknowledgement of its FIN.
AfterAckHalf == [SYN_RECEIVED |-> "ESTABLISHED", FIN_WAIT1 |-> "FIN_WAIT2"]

\* Faulty variant: a FIN_WAIT1 socket takes no notice of acknowledgements.
AfterAckOpen == [SYN_RECEIVED |-> "ESTABLISHED", CLOSE_WAIT |-> "CLOSED"]

\* What an ACK alone does to the state; its payload is dropped with it.
AfterAck == [SYN_RECEIVED |-> "ESTABLISHED", FIN_WAIT1 |-> "FIN_WAIT2",
             CLOSE_WAIT |-> "CLOSED"]

OnAck(h, i, k) ==
  LET s == sockets[h][k]
  IN  /\ Class(h, i) = {"ACK"}
      /\ \/ /\ s.state \in DOMAIN AfterAck
            /\ Handled(h, i, k, [s EXCEPT !.state = AfterAck[@]], <<>>)
         \/ /\ s.state \notin DOMAIN AfterAck
            /\ net[h][i].flags = {"ACK"}
            /\ Handled(h, i, k, s, <<>>)
      /\ UNCHANGED <<received, call>>

\* Faulty variant: the last byte is not counted.
AdvanceShort(p) == p.used - 1

\* How far a payload advances the acknowledgement number: to its last nonzero byte, and
\* back to before the header when there is none.
Advance(p) == IF p.used = 0 THEN 1 - HeaderBytes ELSE p.used

\* Faulty variant: whatever is not older than expected is taken.
NotOlder(s, m) == m.seq >= s.ack

InOrder(s, m) == m.seq = s.ack

OnData(h, i, k, accepts) ==
  LET s == sockets[h][k]
      m == net[h][i]
      t == [s EXCEPT !.ack = @ + Advance(m.data)]
  IN  /\ Class(h, i) = {"ACK"} /\ "PSH" \in m.flags
      /\ s.state \notin DOMAIN AfterAck
      /\ \/ /\ InOrder(s, m) /\ accepts
            /\ Handled(h, i, k, t, Reply(h, t, {"ACK"}))
            /\ received' = [received EXCEPT ![h][k] = Append(@, m.data)]
         \/ /\ ~(InOrder(s, m) /\ accepts)
            /\ Reset(h, i, k)
            /\ UNCHANGED received
      /\ UNCHANGED call

\* An HTTP request has at least ten bytes.  Nobody reads the number expected next before the
\* interrupt is over, so it is counted on here, ahead of the answer.
OnRequest(h, i, k) ==
  LET s == sockets[h][k]
      m == net[h][i]
  IN  /\ h \in Answerers
      /\ Class(h, i) = {"ACK"} /\ "PSH" \in m.flags /\ m.data.used > 9
      /\ s.state \notin DOMAIN AfterAck
      /\ InOrder(s, m)
      /\ Handled(h, i, k, [s EXCEPT !.ack = @ + Advance(m.data)], <<>>)
      /\ received' = [received EXCEPT ![h][k] = Append(@, m.data)]
      /\ call' = [call EXCEPT ![h] = [at |-> "send", socket |-> k]]

\* SYN with FIN, which is reset, and neither SYN, FIN nor ACK are never sent.
OpenHandler(h, i, k) ==
  OnSyn(h, i, k) \/ OnSynAck(h, i, k) \/ OnFin(h, i, k) \/ OnAck(h, i, k)
    \/ OnData(h, i, k, TRUE) \/ OnRequest(h, i, k)

Receive(h, i) ==
  /\ call[h] = Idle
  /\ i \in DOMAIN net[h]
  /\ InTurn(i)
  /\ \/ OnNothing(h, i)
     \/ \E k \in DOMAIN sockets[h] :
          /\ IsFor(h, net[h][i], k)
          /\ \/ OnRst(h, i, k)
             \/ /\ "RST" \notin net[h][i].flags
                /\ sockets[h][k].state # "CLOSED"
                /\ OpenHandler(h, i, k)

\* The handler of a socket refuses the payload (or no handler is bound).
Refuse(h, k) ==
  /\ call[h] = Idle
  /\ net[h] # <<>>
  /\ IsFor(h, net[h][1], k)
  /\ sockets[h][k].state # "CLOSED"
  /\ Mishap
  /\ OnData(h, 1, k, FALSE)

-----------------------------------------------------------------------------
(* The handler of an HTTP request, called in the interrupt.                *)

\* Its Send waits until the socket is ESTABLISHED, with interrupts masked.
AnswerSends(h) ==
  /\ call[h].at = "send"
  /\ sockets[h][call[h].socket].state = "ESTABLISHED"
  /\ PayloadGoes(h, call[h].socket, Response)
  /\ call' = [call EXCEPT ![h].at = "fin"]
  /\ UNCHANGED <<freePort, task, received, revived, mishaps>>

AnswerDisconnects(h) ==
  /\ call[h].at = "fin"
  /\ LET k == call[h].socket
         s == [sockets[h][k] EXCEPT !.state = "FIN_WAIT1"]
     IN  /\ Emits(h, s, {"FIN", "ACK"})
         /\ sockets' = [sockets EXCEPT ![h][k] = [s EXCEPT !.seq = @ + 1]]
  /\ call' = [call EXCEPT ![h].at = "ack"]
  /\ UNCHANGED <<freePort, task, sent, received, revived, mishaps>>

\* The handler has returned, and the interrupt acknowledges the request.
AnswerReturns(h) ==
  /\ call[h].at = "ack"
  /\ Emits(h, sockets[h][call[h].socket], {"ACK"})
  /\ call' = [call EXCEPT ![h] = Idle]
  /\ UNCHANGED <<sockets, freePort, task, sent, received, revived, mishaps>>

Answer(h) == AnswerSends(h) \/ AnswerDisconnects(h) \/ AnswerReturns(h)

-----------------------------------------------------------------------------
(* The network.                                                            *)

Lose(h, i) ==
  /\ i \in DOMAIN net[h]
  /\ Mishap
  /\ net' = [net EXCEPT ![h] = RemoveAt(@, i)]
  /\ UNCHANGED <<sockets, freePort, task, call, sent, received, revived>>

Repeat(h, i) ==
  /\ i \in DOMAIN net[h]
  /\ Mishap
  /\ net' = [net EXCEPT ![h] = Append(@, @[i])]
  /\ UNCHANGED <<sockets, freePort, task, call, sent, received, revived>>

-----------------------------------------------------------------------------
Application(h) ==
  \/ Listen(h)
  \/ \E g \in Host : Connect(h, g)
  \/ \E k \in DOMAIN sockets[h] : SendMayGo(h, k) \/ DisconnectStarts(h, k)
  \/ \E p \in Payloads : SendGoes(h, p)
  \/ DisconnectSends(h)

Next ==
  \E h \in Host :
    \/ Application(h)
    \/ Answer(h)
    \/ \E i \in DOMAIN net[h] : Receive(h, i) \/ Lose(h, i) \/ Repeat(h, i)
    \/ \E k \in DOMAIN sockets[h] : Refuse(h, k)

Spec == Init /\ [][Next]_vars

\* The network and the interrupts go on, and a task inside Send or Disconnect leaves it.
Fairness ==
  \A h \in Host : WF_vars(Receive(h, 1)) /\ WF_vars(Answer(h)) /\ WF_vars(DisconnectSends(h))
                  /\ WF_vars(\E p \in Payloads : SendGoes(h, p))

FairSpec == Spec /\ Fairness

-----------------------------------------------------------------------------
\* Socket k of host h and socket j of host g are the two ends of a connection.
Peers(h, k, g, j) ==
  /\ k \in DOMAIN sockets[h] /\ j \in DOMAIN sockets[g]
  /\ LET s == sockets[h][k]
         t == sockets[g][j]
     IN  /\ s.remote = g /\ t.remote = h
         /\ s.remotePort = t.localPort /\ t.remotePort = s.localPort

\* Whatever the network loses, repeats or reorders and whatever is refused, a handler is
\* given a prefix of what the peer sent: no payload twice, none out of order, none from
\* another connection.  A payload of zero bytes only turns the expected number back to
\* before its own header, where an old segment may fit again; and a Disconnect after the
\* peer's FIN lets the socket take payloads again, with the FIN counted as one.
StreamPrefix ==
  \A h, g \in Host : \A k \in DOMAIN sockets[h] :
    /\ \A j \in DOMAIN sockets[g] :
         Peers(h, k, g, j) /\ <<h, k>> \notin revived
                           /\ (\A n \in DOMAIN sent[g][j] : sent[g][j][n].used > 0)
           => IsPrefix(received[h][k], sent[g][j])
    /\ received[h][k] # <<>> => \E f \in Host : \E j \in DOMAIN sockets[f] : Peers(h, k, f, j)

\* A listening socket becomes ESTABLISHED only once its peer has got the SYN|ACK, and two
\* listening sockets never answer for the same peer.
HandshakeAgrees ==
  \A h \in Host : \A k \in DOMAIN sockets[h] :
    sockets[h][k].state = "ESTABLISHED" =>
      /\ \E g \in Host : \E j \in DOMAIN sockets[g] :
           Peers(h, k, g, j) /\ sockets[g][j].state # "SYN_SENT"
      /\ \A i \in DOMAIN sockets[h] : i # k =>
           <<sockets[h][i].remote, sockets[h][i].remotePort, sockets[h][i].localPort>> #
           <<sockets[h][k].remote, sockets[h][k].remotePort, sockets[h][k].localPort>>

\* The handler at h waits in Send for a state that only an interrupt could bring about.
Hangs(h) == call[h].at = "send" /\ sockets[h][call[h].socket].state # "ESTABLISHED"

\* Whatever the network does, a handler waits for ever only on a connection that its own end
\* has disconnected, after the first acknowledgement since: never while one is being opened
\* or while the first answer is on its way.
HangsOnlyWhenClosing == \A h \in Host : Hangs(h) => sockets[h][call[h].socket].state = "FIN_WAIT2"

\* Nothing lost, repeated, overtaken or refused, no Disconnect in the wrong state, no
\* payload that ends in a zero byte, and none on its way to a task between the two steps
\* of Disconnect (a second one would be answered by RST before the FIN goes out, and the
\* disconnecting end wait for ever).  No handler waits for ever either: its host handles
\* nothing any more.
Calm ==
  /\ mishaps = 0
  /\ \A h \in Host : ~Hangs(h)
  /\ \A h \in Host : task[h].at = "fin" => \A i \in DOMAIN net[h] : net[h][i].data = NoData
  /\ \A h \in Host : \A k \in DOMAIN sent[h] : \A n \in DOMAIN sent[h][k] :
       sent[h][k][n].used = sent[h][k][n].len

\* Both ends of a quiet established connection expect the byte the other sends next.
Synchronised ==
  Calm /\ (\A h \in Host : net[h] = <<>>) =>
    \A h, g \in Host : \A k \in DOMAIN sockets[h], j \in DOMAIN sockets[g] :
      Peers(h, k, g, j) /\ sockets[h][k].state = "ESTABLISHED"
                        /\ sockets[g][j].state = "ESTABLISHED"
        => sockets[h][k].ack = sockets[g][j].seq

\* Everything sent on a connection has been handed over, or its receiving end is closed
\* or closing.
AllDelivered ==
  \A h, g \in Host : \A k \in DOMAIN sockets[h], j \in DOMAIN sockets[g] :
    Peers(h, k, g, j) =>
      \/ received[g][j] = sent[h][k]
      \/ sockets[g][j].state \in {"FIN_WAIT1", "FIN_WAIT2", "CLOSED"}

\* In calm, whatever is sent is handed over unless the receiving end disconnects first.
DeliveredInCalm == []Calm => []<>AllDelivered

\* No connection is half closed: in FIN_WAIT or CLOSE_WAIT, or CLOSED at one end only.
NoneHalfClosed ==
  \A h, g \in Host : \A k \in DOMAIN sockets[h], j \in DOMAIN sockets[g] :
    Peers(h, k, g, j) /\ sockets[h][k].state \in {"FIN_WAIT1", "FIN_WAIT2", "CLOSE_WAIT", "CLOSED"}
      => sockets[h][k].state = "CLOSED" /\ sockets[g][j].state = "CLOSED"

\* In calm, a Disconnect (or one at either end) closes both ends.
ClosesBothEnds == []Calm => []<>NoneHalfClosed

=============================================================================
