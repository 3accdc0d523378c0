------------------------------ MODULE TcpProofs ------------------------------
(***************************************************************************)
(* What holds of the TCP providers for every set of hosts, number of       *)
(* connections, sizes of payloads and whatever the network does.           *)
(***************************************************************************)
EXTENDS Tcp, TLAPS

Clients == Host \ Servers
Flags == {{"SYN"}, {"SYN", "ACK"}, {"ACK"}, {"FIN", "ACK"}, {"PSH", "ACK"}, {"RST"}}
Data == {d \in [len : Nat, used : Nat, nth : Nat] : d.used <= d.len}
Stream == Seq(Data)
Socket == [state : States, localPort : Nat, remote : Host \cup {Nobody}, remotePort : Nat,
           seq : Int, ack : Int]
Header == [src : Host, sport : Nat, dport : Nat, flags : Flags, seq : Int, data : Data]

TTypeOK ==
  /\ sockets \in [Host -> Seq(Socket)]
  /\ freePort \in [Host -> Nat]
  /\ task \in [Host -> [at : {"idle", "send", "fin"}, socket : Nat]]
  /\ call \in [Host -> [at : {"idle", "send", "fin", "ack"}, socket : Nat]]
  /\ net \in [Host -> Seq(Header)]
  /\ sent \in [Host -> Seq(Stream)] /\ received \in [Host -> Seq(Stream)]
  /\ \A h \in Host : Len(sent[h]) = Len(sockets[h]) /\ Len(received[h]) = Len(sockets[h])
  /\ mishaps \in Nat

\* The segments on their way to h.
OnWay(h) == {net[h][i] : i \in DOMAIN net[h]}

\* Socket j of the host that m, on its way to h, says it comes from has m's addresses.
SentBy(m, h, j) ==
  /\ j \in DOMAIN sockets[m.src]
  /\ sockets[m.src][j].remote = h
  /\ sockets[m.src][j].localPort = m.sport /\ sockets[m.src][j].remotePort = m.dport

\* The local port of the k-th Connect of a host, by the counter of 16 bits.
PortOf(k) == (1023 + k) % 65536

\* Servers are at Port with a client's socket, unless they listen or have been told to stop
\* that; the sockets of a client have different ports, and a server each.
AtServer(h, k) ==
  /\ sockets[h][k].localPort = Port /\ sockets[h][k].state # "SYN_SENT"
  /\ sockets[h][k].state = "LISTEN" => sockets[h][k].remote = Nobody
  /\ sockets[h][k].remote = Nobody => sockets[h][k].state \in {"LISTEN", "FIN_WAIT1"}
  /\ sockets[h][k].remote # Nobody =>
       \E g \in Clients : \E j \in DOMAIN sockets[g] : Peers(h, k, g, j)

AtClient(h, k) ==
  /\ sockets[h][k].localPort = PortOf(k)
  /\ sockets[h][k].remote \in Servers /\ sockets[h][k].remotePort = Port
  /\ sockets[h][k].state \notin {"LISTEN", "SYN_RECEIVED"}

Addressed ==
  \A h \in Host : \A k \in DOMAIN sockets[h] :
    IF h \in Servers THEN AtServer(h, k) ELSE AtClient(h, k)

PortsInTurn == \A h \in Clients : freePort[h] = PortOf(Len(sockets[h]) + 1)

\* No client has opened more sockets than its table has room for.
TablesFit == \A h \in Clients : Len(sockets[h]) <= MaxConnects

\* No socket after one that still listens has a remote end: a SYN takes the first that listens.
ListenersLast ==
  \A h \in Servers : \A k \in DOMAIN sockets[h] : \A i \in 1 .. k - 1 :
    sockets[h][i].state = "LISTEN" => sockets[h][k].remote = Nobody

\* No two sockets have the same remote end.
OwnPeers ==
  \A h \in Servers : \A i, k \in DOMAIN sockets[h] :
    i # k /\ sockets[h][i].remote # Nobody /\ sockets[h][k].remote # Nobody =>
      <<sockets[h][i].remote, sockets[h][i].remotePort>> #
      <<sockets[h][k].remote, sockets[h][k].remotePort>>

\* Socket k of h has a peer that has got past SYN_SENT.
Heard(h, k) ==
  \E g \in Host : \E j \in DOMAIN sockets[g] :
    Peers(h, k, g, j) /\ sockets[g][j].state # "SYN_SENT"

\* A task in the middle of a call is on a socket that has been ESTABLISHED, or disconnected.
InCall ==
  \A h \in Host : task[h].at # "idle" =>
    /\ task[h].socket \in DOMAIN sockets[h]
    /\ sockets[h][task[h].socket].state \notin {"LISTEN", "SYN_SENT", "SYN_RECEIVED"}
    /\ task[h].at = "send" => h \in Senders /\ Heard(h, task[h].socket)

\* What the socket of a handler's call is meanwhile: no segment reaches it.
During == [send |-> {"ESTABLISHED", "FIN_WAIT2"}, fin |-> {"ESTABLISHED"}, ack |-> {"FIN_WAIT1"}]

CallOn(h) ==
  call[h].at # "idle" =>
    /\ h \in Answerers /\ call[h].socket \in DOMAIN sockets[h]
    /\ sockets[h][call[h].socket].state \in During[call[h].at]
    /\ sockets[h][call[h].socket].remote \in Host

InHandler == \A h \in Host : CallOn(h)

\* A segment on its way has been sent by a socket that has its addresses, and whose state
\* it tells something about.
IsGenuine(m, h) ==
  \E j \in DOMAIN sockets[m.src] :
    /\ SentBy(m, h, j)
    /\ m.flags = {"SYN"} => m.src \in Clients
    /\ m.flags = {"SYN", "ACK"} => m.src \in Servers
    /\ "ACK" \in m.flags /\ "SYN" \notin m.flags =>
         sockets[m.src][j].state \notin {"SYN_SENT", "SYN_RECEIVED"}
    /\ "PSH" \in m.flags => Heard(m.src, j)

Genuine == \A h \in Host : \A m \in OnWay(h) : IsGenuine(m, h)

\* The inductive invariant of the connections.
HInv ==
  /\ TTypeOK /\ Addressed /\ PortsInTurn /\ TablesFit /\ ListenersLast /\ OwnPeers /\ InCall
  /\ InHandler /\ Genuine /\ HandshakeAgrees

-----------------------------------------------------------------------------
(* Queues and tables.                                                      *)

LEMMA RemovedIs ==
  ASSUME NEW S, NEW q \in Seq(S), NEW i \in DOMAIN q
  PROVE  /\ RemoveAt(q, i) \in Seq(S)
         /\ \A n \in DOMAIN RemoveAt(q, i) : \E o \in DOMAIN q : RemoveAt(q, i)[n] = q[o]
  <1>1. Len(q) \in Nat /\ i \in 1 .. Len(q)
    OBVIOUS
  <1>2. /\ SubSeq(q, 1, i - 1) \in Seq(S) /\ Len(SubSeq(q, 1, i - 1)) = i - 1
        /\ \A n \in 1 .. i - 1 : SubSeq(q, 1, i - 1)[n] = q[n]
    BY <1>1
  <1>3. /\ SubSeq(q, i + 1, Len(q)) \in Seq(S) /\ Len(SubSeq(q, i + 1, Len(q))) = Len(q) - i
        /\ \A n \in 1 .. Len(q) - i : SubSeq(q, i + 1, Len(q))[n] = q[i + n]
    BY <1>1
  <1>4. ASSUME NEW a \in Seq(S), NEW b \in Seq(S), Len(a) = i - 1, Len(b) = Len(q) - i,
               \A n \in 1 .. i - 1 : a[n] = q[n], \A n \in 1 .. Len(q) - i : b[n] = q[i + n]
        PROVE  /\ a \o b \in Seq(S)
               /\ \A n \in DOMAIN (a \o b) : \E o \in DOMAIN q : (a \o b)[n] = q[o]
    <2>1. a \o b \in Seq(S) /\ Len(a \o b) = Len(q) - 1
      BY <1>1, <1>4
    <2>2. ASSUME NEW n \in DOMAIN (a \o b)
          PROVE  \E o \in DOMAIN q : (a \o b)[n] = q[o]
      <3>1. n \in 1 .. Len(q) - 1
        BY <2>1
      <3>2. CASE n <= i - 1
        BY <1>1, <1>4, <3>1, <3>2
      <3>3. CASE n > i - 1
        <4>6. n - (i - 1) \in 1 .. Len(q) - i
          BY <1>1, <3>1, <3>3
        <4>7. (a \o b)[n] = b[n - Len(a)]
          BY <1>1, <1>4, <3>1, <3>3
        <4>1. n - (i - 1) \in 1 .. Len(q) - i /\ (a \o b)[n] = b[n - (i - 1)]
          BY <1>4, <4>6, <4>7
        <4>2. PICK o \in 1 .. Len(q) - i : o = n - (i - 1)
          BY <4>1
        <4>3. b[o] = q[i + o]
          BY <1>4
        <4>4. PICK p \in DOMAIN q : p = i + o
          BY <1>1
        <4>5. (a \o b)[n] = q[p]
          BY <4>1, <4>2, <4>3, <4>4
        <4> QED BY <4>5
      <3> QED BY <1>1, <3>1, <3>2, <3>3
    <2> QED BY <2>1, <2>2
  <1> QED BY <1>2, <1>3, <1>4 DEF RemoveAt

LEMMA AppendedIs ==
  ASSUME NEW S, NEW q \in Seq(S), NEW e \in S
  PROVE  /\ Append(q, e) \in Seq(S) /\ DOMAIN Append(q, e) = 1 .. Len(q) + 1
         /\ Len(Append(q, e)) = Len(q) + 1 /\ DOMAIN q = 1 .. Len(q) /\ Len(q) \in Nat
         /\ \A n \in DOMAIN q : Append(q, e)[n] = q[n]
         /\ Append(q, e)[Len(q) + 1] = e
  OBVIOUS

LEMMA JoinedIs ==
  ASSUME NEW S, NEW q \in Seq(S), NEW r \in Seq(S)
  PROVE  /\ q \o r \in Seq(S)
         /\ \A n \in DOMAIN (q \o r) : \/ \E o \in DOMAIN q : (q \o r)[n] = q[o]
                                       \/ \E o \in DOMAIN r : (q \o r)[n] = r[o]
  <1>1. Len(q) \in Nat /\ Len(r) \in Nat /\ q \o r \in Seq(S) /\ Len(q \o r) = Len(q) + Len(r)
    OBVIOUS
  <1>2. ASSUME NEW n \in DOMAIN (q \o r)
        PROVE  \/ \E o \in DOMAIN q : (q \o r)[n] = q[o]
               \/ \E o \in DOMAIN r : (q \o r)[n] = r[o]
    <2>1. n \in 1 .. Len(q) + Len(r)
      BY <1>1
    <2>2. CASE n <= Len(q)
      BY <1>1, <2>1, <2>2
    <2>3. CASE n > Len(q)
      <3>1. n - Len(q) \in DOMAIN r /\ (q \o r)[n] = r[n - Len(q)]
        BY <1>1, <2>1, <2>3
      <3> QED BY <3>1
    <2> QED BY <1>1, <2>1, <2>2, <2>3
  <1> QED BY <1>1, <1>2

LEMMA PortsDiffer ==
  \A a, b \in Nat : 1 <= a /\ a <= 65535 /\ 1 <= b /\ b <= 65535 /\ PortOf(a) = PortOf(b) => a = b
  BY DEF PortOf

LEMMA PortsGoOn ==
  \A a \in Nat : PortOf(a) \in Nat /\ PortOf(a + 1) = (PortOf(a) + 1) % 65536
  BY DEF PortOf

-----------------------------------------------------------------------------
(* Both ends of a connection.                                              *)

SameEnds(s, t) == s.localPort = t.localPort /\ s.remote = t.remote /\ s.remotePort = t.remotePort

LEMMA Typed ==
  ASSUME TTypeOK, NEW h \in Host
  PROVE  /\ sockets[h] \in Seq(Socket) /\ Len(sockets[h]) \in Nat
         /\ DOMAIN sockets[h] = 1 .. Len(sockets[h])
         /\ \A k \in DOMAIN sockets[h] :
              /\ sockets[h][k] \in Socket
              /\ sockets[h][k].localPort \in Nat /\ sockets[h][k].remotePort \in Nat
              /\ sockets[h][k].seq \in Int /\ sockets[h][k].ack \in Int
              /\ sockets[h][k].state \in States /\ sockets[h][k].remote \in Host \cup {Nobody}
         /\ net[h] \in Seq(Header) /\ Len(net[h]) \in Nat /\ DOMAIN net[h] = 1 .. Len(net[h])
         /\ \A m \in OnWay(h) : m \in Header /\ m.src \in Host /\ m.flags \in Flags /\ m.data \in Data
         /\ \A i \in DOMAIN net[h] : net[h][i] \in OnWay(h)
         /\ sent[h] \in Seq(Stream) /\ received[h] \in Seq(Stream)
         /\ DOMAIN sent[h] = DOMAIN sockets[h] /\ DOMAIN received[h] = DOMAIN sockets[h]
  <1>1. /\ sockets[h] \in Seq(Socket) /\ net[h] \in Seq(Header)
        /\ sent[h] \in Seq(Stream) /\ received[h] \in Seq(Stream)
        /\ Len(sent[h]) = Len(sockets[h]) /\ Len(received[h]) = Len(sockets[h])
    BY DEF TTypeOK
  <1>2. \A k \in DOMAIN sockets[h] : sockets[h][k] \in Socket
    BY <1>1
  <1>3. /\ Len(sockets[h]) \in Nat /\ DOMAIN sockets[h] = 1 .. Len(sockets[h])
        /\ Len(net[h]) \in Nat /\ DOMAIN net[h] = 1 .. Len(net[h])
        /\ DOMAIN sent[h] = DOMAIN sockets[h] /\ DOMAIN received[h] = DOMAIN sockets[h]
    BY <1>1
  <1>4. \A i \in DOMAIN net[h] : net[h][i] \in Header
    BY <1>1
  <1> QED BY <1>1, <1>2, <1>3, <1>4 DEF Socket, Header, OnWay

\* The sockets of a host that have a remote end have different ones, or different ports.
LEMMA EndsDiffer ==
  ASSUME HInv, NEW h \in Host, NEW i \in DOMAIN sockets[h], NEW k \in DOMAIN sockets[h],
         SameEnds(sockets[h][i], sockets[h][k]), sockets[h][i].remote \in Host
  PROVE  i = k
  <1>1. CASE h \in Servers
    <2>1. sockets[h][i].remote # Nobody /\ sockets[h][k].remote # Nobody
      BY TcpAssumption DEF SameEnds
    <2> QED BY <1>1, <2>1 DEF HInv, OwnPeers, SameEnds
  <1>2. CASE h \notin Servers
    <2>1. PortOf(i) = PortOf(k)
      BY <1>2 DEF HInv, Addressed, AtClient, SameEnds
    <2>2. Len(sockets[h]) \in Nat /\ DOMAIN sockets[h] = 1 .. Len(sockets[h])
      BY Typed DEF HInv
    <2>3. h \in Clients
      BY <1>2 DEF Clients
    <2>4. Len(sockets[h]) <= MaxConnects /\ MaxConnects \in Nat /\ MaxConnects <= 65535
      BY <2>3, TcpAssumption DEF HInv, TablesFit
    <2>5. i \in Nat /\ k \in Nat /\ 1 <= i /\ i <= 65535 /\ 1 <= k /\ k <= 65535
      BY <2>2, <2>4
    <2> QED BY <2>1, <2>5, PortsDiffer
  <1> QED BY <1>1, <1>2

\* A connection has a server and a client: no host has one with itself.
LEMMA Apart ==
  ASSUME HInv, NEW h \in Host, NEW k \in DOMAIN sockets[h], sockets[h][k].remote \in Host
  PROVE  /\ sockets[h][k].remote # h
         /\ h \in Servers <=> sockets[h][k].remote \in Clients
  <1>1. CASE h \in Servers
    <2>1. sockets[h][k].remote # Nobody /\ AtServer(h, k)
      BY <1>1, TcpAssumption DEF HInv, Addressed
    <2>2. sockets[h][k].remote \in Clients
      BY <2>1 DEF AtServer, Peers
    <2> QED BY <1>1, <2>2 DEF Clients
  <1>2. CASE h \notin Servers
    <2>1. sockets[h][k].remote \in Servers
      BY <1>2 DEF HInv, Addressed, AtClient
    <2> QED BY <1>2, <2>1 DEF Clients
  <1> QED BY <1>1, <1>2

-----------------------------------------------------------------------------
(* Steps that leave the ends of all sockets alone.                         *)

\* A state that is left for good once it is left.
Opening == {"LISTEN", "SYN_SENT", "SYN_RECEIVED"}

\* Socket y of host x has become t: its ends are as before, one without a remote end listens
\* on or stops, and one is ESTABLISHED only when its peer has got past SYN_SENT.
Becomes(x, y, t) ==
  LET s == sockets[x][y]
  IN  /\ SameEnds(s, t)
      /\ t.state = s.state \/ t.state \notin Opening
      /\ s.remote = Nobody => t.state \in {s.state, "FIN_WAIT1"}
      /\ t.state = "ESTABLISHED" /\ s.state # "ESTABLISHED" => Heard(x, y)

Onward ==
  \A x \in Host : /\ Len(sockets'[x]) = Len(sockets[x])
                  /\ \A y \in DOMAIN sockets[x] : Becomes(x, y, sockets'[x][y])

LEMMA OnwardIs ==
  ASSUME HInv, TTypeOK', Onward, NEW x \in Host
  PROVE  /\ DOMAIN sockets'[x] = DOMAIN sockets[x]
         /\ \A y \in DOMAIN sockets[x] :
              /\ sockets'[x][y].localPort = sockets[x][y].localPort
              /\ sockets'[x][y].remote = sockets[x][y].remote
              /\ sockets'[x][y].remotePort = sockets[x][y].remotePort
              /\ \/ sockets'[x][y].state = sockets[x][y].state
                 \/ sockets'[x][y].state \notin Opening
              /\ sockets[x][y].remote = Nobody =>
                   sockets'[x][y].state \in {sockets[x][y].state, "FIN_WAIT1"}
  <1>1. Len(sockets'[x]) = Len(sockets[x])
    BY DEF Onward
  <1>2. sockets'[x] \in Seq(Socket) /\ sockets[x] \in Seq(Socket)
    BY DEF HInv, TTypeOK
  <1>3. DOMAIN sockets'[x] = DOMAIN sockets[x]
    BY <1>1, <1>2
  <1> QED BY <1>3 DEF Onward, Becomes, SameEnds

LEMMA PeersStay ==
  ASSUME HInv, TTypeOK', Onward, NEW x \in Host, NEW g \in Host
  PROVE  \A y, j : Peers(x, y, g, j) <=> Peers(x, y, g, j)'
  BY OnwardIs DEF Peers

LEMMA HeardStays ==
  ASSUME HInv, TTypeOK', Onward, NEW x \in Host, NEW y, Heard(x, y)
  PROVE  Heard(x, y)'
  <1>1. PICK g \in Host : \E j \in DOMAIN sockets[g] : Peers(x, y, g, j) /\ sockets[g][j].state # "SYN_SENT"
    BY DEF Heard
  <1>2. PICK j \in DOMAIN sockets[g] : Peers(x, y, g, j) /\ sockets[g][j].state # "SYN_SENT"
    BY <1>1
  <1>3. j \in DOMAIN sockets'[g] /\ sockets'[g][j].state # "SYN_SENT" /\ Peers(x, y, g, j)'
    BY <1>2, OnwardIs, PeersStay DEF Opening
  <1> QED BY <1>3 DEF Heard

LEMMA SendersStay ==
  ASSUME HInv, TTypeOK', Onward, NEW h \in Host, NEW m, m.src \in Host
  PROVE  /\ \A j : SentBy(m, h, j) <=> SentBy(m, h, j)'
         /\ IsGenuine(m, h) => IsGenuine(m, h)'
  <1>1. PICK g \in Host : g = m.src
    OBVIOUS
  <1>2. /\ DOMAIN sockets'[g] = DOMAIN sockets[g]
        /\ \A j \in DOMAIN sockets[g] :
             /\ sockets'[g][j].localPort = sockets[g][j].localPort
             /\ sockets'[g][j].remote = sockets[g][j].remote
             /\ sockets'[g][j].remotePort = sockets[g][j].remotePort
             /\ sockets[g][j].state \notin {"SYN_SENT", "SYN_RECEIVED"} =>
                  sockets'[g][j].state \notin {"SYN_SENT", "SYN_RECEIVED"}
    BY OnwardIs DEF Opening
  <1>3. \A j : SentBy(m, h, j) <=> SentBy(m, h, j)'
    BY <1>1, <1>2 DEF SentBy
  <1>4. ASSUME IsGenuine(m, h)
        PROVE  IsGenuine(m, h)'
    <2>1. PICK j \in DOMAIN sockets[m.src] :
            /\ SentBy(m, h, j)
            /\ m.flags = {"SYN"} => m.src \in Clients
            /\ m.flags = {"SYN", "ACK"} => m.src \in Servers
            /\ "ACK" \in m.flags /\ "SYN" \notin m.flags =>
                 sockets[m.src][j].state \notin {"SYN_SENT", "SYN_RECEIVED"}
            /\ "PSH" \in m.flags => Heard(m.src, j)
      BY <1>4 DEF IsGenuine
    <2>2. j \in DOMAIN sockets'[m.src] /\ SentBy(m, h, j)'
      BY <1>1, <1>2, <1>3, <2>1
    <2>3. "ACK" \in m.flags /\ "SYN" \notin m.flags =>
            sockets'[m.src][j].state \notin {"SYN_SENT", "SYN_RECEIVED"}
      BY <1>1, <1>2, <2>1
    <2>4. "PSH" \in m.flags => Heard(m.src, j)'
      BY <2>1, HeardStays
    <2> QED BY <2>1, <2>2, <2>3, <2>4 DEF IsGenuine
  <1> QED BY <1>3, <1>4

LEMMA HandshakesStay ==
  ASSUME HInv, TTypeOK', Onward
  PROVE  HandshakeAgrees'
  <1> SUFFICES ASSUME NEW h \in Host, NEW k \in DOMAIN sockets'[h],
                      sockets'[h][k].state = "ESTABLISHED"
               PROVE  /\ \E g \in Host : \E j \in DOMAIN sockets'[g] :
                           Peers(h, k, g, j)' /\ sockets'[g][j].state # "SYN_SENT"
                      /\ \A i \in DOMAIN sockets'[h] : i # k =>
                           <<sockets'[h][i].remote, sockets'[h][i].remotePort, sockets'[h][i].localPort>> #
                           <<sockets'[h][k].remote, sockets'[h][k].remotePort, sockets'[h][k].localPort>>
    BY DEF HandshakeAgrees
  <1>1. k \in DOMAIN sockets[h]
    BY OnwardIs
  <1>2. PICK g \in Host : \E j \in DOMAIN sockets[g] : Peers(h, k, g, j) /\ sockets[g][j].state # "SYN_SENT"
    <2>1. CASE sockets[h][k].state = "ESTABLISHED"
      BY <1>1, <2>1 DEF HInv, HandshakeAgrees
    <2>2. CASE sockets[h][k].state # "ESTABLISHED"
      BY <1>1, <2>2 DEF Onward, Becomes, Heard
    <2> QED BY <2>1, <2>2
  <1>a. PICK j \in DOMAIN sockets[g] : Peers(h, k, g, j) /\ sockets[g][j].state # "SYN_SENT"
    BY <1>2
  <1>3. j \in DOMAIN sockets'[g] /\ sockets'[g][j].state # "SYN_SENT" /\ Peers(h, k, g, j)'
    BY <1>a, OnwardIs, PeersStay DEF Opening
  <1>4. sockets[h][k].remote \in Host
    BY <1>a DEF Peers
  <1>5. ASSUME NEW i \in DOMAIN sockets'[h], i # k
        PROVE  <<sockets'[h][i].remote, sockets'[h][i].remotePort, sockets'[h][i].localPort>> #
               <<sockets'[h][k].remote, sockets'[h][k].remotePort, sockets'[h][k].localPort>>
    <2>1. i \in DOMAIN sockets[h]
      BY OnwardIs
    <2>2. ~SameEnds(sockets[h][i], sockets[h][k])
      BY <1>1, <1>4, <1>5, <2>1, EndsDiffer DEF SameEnds
    <2> QED BY <1>1, <2>1, <2>2, OnwardIs DEF SameEnds
  <1> QED BY <1>3, <1>5

LEMMA OnwardKeeps ==
  ASSUME HInv, TTypeOK', InCall', InHandler', Onward, freePort' = freePort,
         \A x \in Host : \A m \in OnWay(x)' : m \in OnWay(x) \/ IsGenuine(m, x)'
  PROVE  HInv'
  <1>1. Addressed'
    <2> SUFFICES ASSUME NEW h \in Host, NEW k \in DOMAIN sockets'[h]
                 PROVE  IF h \in Servers THEN AtServer(h, k)' ELSE AtClient(h, k)'
      BY DEF Addressed
    <2>1. k \in DOMAIN sockets[h]
      BY OnwardIs
    <2>2. CASE h \notin Servers
      <3>1. AtClient(h, k)
        BY <2>1, <2>2 DEF HInv, Addressed
      <3> QED BY <2>1, <2>2, <3>1, OnwardIs DEF AtClient, Opening
    <2>3. CASE h \in Servers
      <3>1. AtServer(h, k)
        BY <2>1, <2>3 DEF HInv, Addressed
      <3>2. /\ sockets'[h][k].localPort = Port /\ sockets'[h][k].state # "SYN_SENT"
            /\ sockets'[h][k].remote = sockets[h][k].remote
            /\ sockets'[h][k].state = "LISTEN" => sockets[h][k].state = "LISTEN"
            /\ sockets[h][k].remote = Nobody => sockets'[h][k].state \in {"LISTEN", "FIN_WAIT1"}
        BY <2>1, <3>1, OnwardIs DEF AtServer, Opening
      <3>3. ASSUME sockets'[h][k].remote # Nobody
            PROVE  \E g \in Clients : \E j \in DOMAIN sockets'[g] : Peers(h, k, g, j)'
        <4>1. PICK g \in Clients : \E j \in DOMAIN sockets[g] : Peers(h, k, g, j)
          BY <3>1, <3>2, <3>3 DEF AtServer
        <4>2. PICK j \in DOMAIN sockets[g] : Peers(h, k, g, j)
          BY <4>1
        <4>3. g \in Host
          BY DEF Clients
        <4>4. j \in DOMAIN sockets'[g] /\ Peers(h, k, g, j)'
          BY <4>2, <4>3, PeersStay, OnwardIs
        <4> QED BY <4>4
      <3> QED BY <2>3, <3>1, <3>2, <3>3 DEF AtServer
    <2> QED BY <2>2, <2>3
  <1>2. PortsInTurn' /\ TablesFit'
    <2>1. \A x \in Clients : Len(sockets'[x]) = Len(sockets[x])
      BY DEF Onward, Clients
    <2> QED BY <2>1 DEF HInv, PortsInTurn, TablesFit
  <1>3. ListenersLast'
    <2> SUFFICES ASSUME NEW h \in Servers, NEW k \in DOMAIN sockets'[h], NEW i \in 1 .. k - 1,
                        sockets'[h][i].state = "LISTEN"
                 PROVE  sockets'[h][k].remote = Nobody
      BY DEF ListenersLast
    <2>1. h \in Host
      BY TcpAssumption
    <2>2. k \in DOMAIN sockets[h] /\ i \in DOMAIN sockets[h]
      BY <2>1, OnwardIs, Typed DEF HInv
    <2>3. sockets[h][i].state = "LISTEN"
      BY <2>1, <2>2, OnwardIs DEF Opening
    <2>4. sockets[h][k].remote = Nobody
      BY <2>2, <2>3 DEF HInv, ListenersLast
    <2> QED BY <2>1, <2>2, <2>4, OnwardIs
  <1>4. OwnPeers'
    <2> SUFFICES ASSUME NEW h \in Servers, NEW i \in DOMAIN sockets'[h], NEW k \in DOMAIN sockets'[h],
                        i # k, sockets'[h][i].remote # Nobody, sockets'[h][k].remote # Nobody
                 PROVE  <<sockets'[h][i].remote, sockets'[h][i].remotePort>> #
                        <<sockets'[h][k].remote, sockets'[h][k].remotePort>>
      BY DEF OwnPeers
    <2>1. h \in Host
      BY TcpAssumption
    <2>2. k \in DOMAIN sockets[h] /\ i \in DOMAIN sockets[h]
      BY <2>1, OnwardIs
    <2>3. sockets[h][i].remote # Nobody /\ sockets[h][k].remote # Nobody
      BY <2>1, <2>2, OnwardIs
    <2> QED BY <2>1, <2>2, <2>3, OnwardIs DEF HInv, OwnPeers
  <1>5. Genuine'
    <2> SUFFICES ASSUME NEW h \in Host, NEW m \in OnWay(h)'
                 PROVE  IsGenuine(m, h)'
      BY DEF Genuine
    <2>1. CASE m \in OnWay(h)
      <3>1. m.src \in Host /\ IsGenuine(m, h)
        BY <2>1, Typed DEF HInv, Genuine
      <3> QED BY <3>1, SendersStay
    <2> QED BY <2>1
  <1> QED BY <1>1, <1>2, <1>3, <1>4, <1>5, HandshakesStay DEF HInv

-----------------------------------------------------------------------------
(* The handler of a segment.                                               *)

LEMMA Sender ==
  ASSUME HInv, NEW h \in Host, NEW m \in OnWay(h), NEW k, IsFor(h, m, k)
  PROVE  /\ k \in DOMAIN sockets[h] /\ m.src \in Host /\ m \in Header
         /\ sockets[h][k].state = "LISTEN" => m.flags = {"SYN"} /\ h \in Servers /\ m.src \in Clients
         /\ sockets[h][k].state # "LISTEN" =>
              /\ sockets[h][k].remote = m.src
              /\ \E j \in DOMAIN sockets[m.src] :
                   /\ SentBy(m, h, j) /\ Peers(h, k, m.src, j)
                   /\ "ACK" \in m.flags /\ "SYN" \notin m.flags =>
                        sockets[m.src][j].state \notin {"SYN_SENT", "SYN_RECEIVED"}
         /\ "PSH" \in m.flags => sockets[h][k].state # "SYN_SENT"
  <1>1. k \in DOMAIN sockets[h] /\ Matches(sockets[h][k], m)
    BY DEF IsFor
  <1>2. m \in Header /\ m.src \in Host /\ m.flags \in Flags
    BY Typed DEF HInv
  <1>3. PICK j \in DOMAIN sockets[m.src] :
          /\ SentBy(m, h, j)
          /\ m.flags = {"SYN"} => m.src \in Clients
          /\ "ACK" \in m.flags /\ "SYN" \notin m.flags =>
               sockets[m.src][j].state \notin {"SYN_SENT", "SYN_RECEIVED"}
          /\ "PSH" \in m.flags => Heard(m.src, j)
    BY DEF HInv, Genuine, IsGenuine
  <1>4. ASSUME sockets[h][k].state = "LISTEN"
        PROVE  m.flags = {"SYN"} /\ h \in Servers /\ m.src \in Clients
    <2>1. h \in Servers
      BY <1>1, <1>4 DEF HInv, Addressed, AtClient
    <2>2. sockets[h][k].remote = Nobody
      BY <1>1, <1>4, <2>1 DEF HInv, Addressed, AtServer
    <2>3. "SYN" \in m.flags /\ "ACK" \notin m.flags
      BY <1>1, <1>2, <2>2, TcpAssumption DEF Matches
    <2>4. m.flags = {"SYN"}
      BY <1>2, <2>3 DEF Flags
    <2> QED BY <1>3, <2>1, <2>4
  <1>5. ASSUME sockets[h][k].state # "LISTEN"
        PROVE  sockets[h][k].remote = m.src /\ Peers(h, k, m.src, j)
    <2>1. /\ sockets[h][k].remote = m.src /\ sockets[h][k].remotePort = m.sport
          /\ sockets[h][k].localPort = m.dport
      BY <1>1, <1>5 DEF Matches
    <2> QED BY <1>1, <1>3, <2>1 DEF Peers, SentBy
  <1>6. ASSUME "PSH" \in m.flags
        PROVE  sockets[h][k].state # "SYN_SENT"
    <2>1. PICK g \in Host : \E l \in DOMAIN sockets[g] :
                               Peers(m.src, j, g, l) /\ sockets[g][l].state # "SYN_SENT"
      BY <1>3, <1>6 DEF Heard
    <2>2. PICK l \in DOMAIN sockets[g] : Peers(m.src, j, g, l) /\ sockets[g][l].state # "SYN_SENT"
      BY <2>1
    <2>3. g = h /\ m.src # Nobody
      BY <1>2, <1>3, <2>2, TcpAssumption DEF Peers, SentBy
    <2>4. CASE sockets[h][k].state # "LISTEN"
      <3>1. SameEnds(sockets[h][l], sockets[h][k]) /\ sockets[h][l].remote \in Host
        BY <1>1, <1>2, <1>5, <2>2, <2>3, <2>4 DEF SameEnds, Peers
      <3>2. l = k
        BY <1>1, <2>2, <2>3, <3>1, EndsDiffer
      <3> QED BY <2>2, <2>3, <3>2
    <2> QED BY <2>4
  <1> QED BY <1>1, <1>2, <1>3, <1>4, <1>5, <1>6

LEMMA SetIs ==
  ASSUME TTypeOK, NEW h \in Host, NEW k \in DOMAIN sockets[h], NEW s \in Socket,
         sockets' = [sockets EXCEPT ![h] = [sockets[h] EXCEPT ![k] = s]]
  PROVE  /\ sockets' \in [Host -> Seq(Socket)]
         /\ \A x \in Host : /\ Len(sockets'[x]) = Len(sockets[x])
                            /\ DOMAIN sockets'[x] = DOMAIN sockets[x]
         /\ \A x \in Host : \A y \in DOMAIN sockets[x] :
              sockets'[x][y] = IF x = h /\ y = k THEN s ELSE sockets[x][y]
  <1>2. sockets \in [Host -> Seq(Socket)]
    BY DEF TTypeOK
  <1>3. PICK q \in Seq(Socket) : q = sockets[h]
    BY <1>2
  <1>4. PICK r : r = [q EXCEPT ![k] = s]
    OBVIOUS
  <1>5. r \in Seq(Socket) /\ Len(r) = Len(q) /\ \A y \in DOMAIN q : r[y] = IF y = k THEN s ELSE q[y]
    BY <1>3, <1>4
  <1>6. /\ sockets'[h] = r /\ \A x \in Host \ {h} : sockets'[x] = sockets[x]
        /\ sockets' \in [Host -> Seq(Socket)]
    BY <1>2, <1>3, <1>4, <1>5
  <1>7. \A x \in Host : Len(sockets'[x]) = Len(sockets[x])
    BY <1>3, <1>5, <1>6
  <1>8. \A x \in Host : DOMAIN sockets'[x] = DOMAIN sockets[x]
    <2> TAKE x \in Host
    <2>1. sockets'[x] \in Seq(Socket) /\ sockets[x] \in Seq(Socket)
      BY <1>2, <1>6
    <2> QED BY <1>7, <2>1
  <1> QED BY <1>3, <1>5, <1>6, <1>7, <1>8

\* What becomes of tables and queues when a segment is handled.
LEMMA HandledIs ==
  ASSUME TTypeOK, NEW h \in Host, NEW i \in DOMAIN net[h], NEW k \in DOMAIN sockets[h],
         NEW s \in Socket, s.remote \in Host \ {h}, NEW replies \in Seq(Header),
         Handled(h, i, k, s, replies)
  PROVE  /\ sockets' \in [Host -> Seq(Socket)]
         /\ \A x \in Host : /\ Len(sockets'[x]) = Len(sockets[x])
                            /\ DOMAIN sockets'[x] = DOMAIN sockets[x]
         /\ \A x \in Host : \A y \in DOMAIN sockets[x] :
              sockets'[x][y] = IF x = h /\ y = k THEN s ELSE sockets[x][y]
         /\ net' \in [Host -> Seq(Header)]
         /\ \A x \in Host : \A m \in OnWay(x)' :
              \/ m \in OnWay(x)
              \/ x = s.remote /\ \E r \in DOMAIN replies : m = replies[r]
         /\ freePort' = freePort /\ task' = task /\ sent' = sent /\ revived' = revived
  <1>1. /\ sockets' = [sockets EXCEPT ![h] = [sockets[h] EXCEPT ![k] = s]]
        /\ net' = [net EXCEPT ![h] = RemoveAt(@, i), ![s.remote] = @ \o replies]
        /\ freePort' = freePort /\ task' = task /\ sent' = sent /\ revived' = revived
    BY DEF Handled
  <1>2. sockets \in [Host -> Seq(Socket)] /\ net \in [Host -> Seq(Header)]
    BY DEF TTypeOK
  <1>3. /\ sockets' \in [Host -> Seq(Socket)]
        /\ \A x \in Host : /\ Len(sockets'[x]) = Len(sockets[x])
                           /\ DOMAIN sockets'[x] = DOMAIN sockets[x]
        /\ \A x \in Host : \A y \in DOMAIN sockets[x] :
             sockets'[x][y] = IF x = h /\ y = k THEN s ELSE sockets[x][y]
    BY <1>1, SetIs
  <1>10. PICK rest : rest = RemoveAt(net[h], i)
    OBVIOUS
  <1>11. rest \in Seq(Header) /\ \A n \in DOMAIN rest : \E o \in DOMAIN net[h] : rest[n] = net[h][o]
    <2>1. PICK p \in Seq(Header) : p = net[h]
      BY <1>2
    <2>2. i \in DOMAIN p
      BY <2>1
    <2> QED BY <1>10, <2>1, <2>2, RemovedIs
  <1>12. PICK g \in Host \ {h}, p \in Seq(Header) : g = s.remote /\ p = net[g]
    BY <1>2
  <1>13. /\ p \o replies \in Seq(Header)
         /\ \A n \in DOMAIN (p \o replies) : \/ \E o \in DOMAIN p : (p \o replies)[n] = p[o]
                                             \/ \E o \in DOMAIN replies : (p \o replies)[n] = replies[o]
    BY JoinedIs
  <1>14. PICK joined \in Seq(Header) : joined = p \o replies
    BY <1>13
  <1>15. net' = [net EXCEPT ![h] = rest, ![g] = joined]
    BY <1>1, <1>2, <1>10, <1>12, <1>14
  <1>16. /\ net' \in [Host -> Seq(Header)] /\ net'[g] = joined /\ net'[h] = rest
         /\ \A x \in Host \ {g, h} : net'[x] = net[x]
    BY <1>2, <1>11, <1>12, <1>15
  <1>17. ASSUME NEW x \in Host, NEW m \in OnWay(x)'
         PROVE  \/ m \in OnWay(x)
                \/ x = s.remote /\ \E r \in DOMAIN replies : m = replies[r]
    <2>1. PICK n \in DOMAIN net'[x] : m = net'[x][n]
      BY DEF OnWay
    <2>2. CASE x = g
      <3>1. n \in DOMAIN (p \o replies) /\ m = (p \o replies)[n]
        BY <1>14, <1>16, <2>1, <2>2
      <3>2. CASE \E o \in DOMAIN p : (p \o replies)[n] = p[o]
        BY <1>12, <2>2, <3>1, <3>2 DEF OnWay
      <3>3. CASE \E o \in DOMAIN replies : (p \o replies)[n] = replies[o]
        BY <1>12, <2>2, <3>1, <3>3
      <3> QED BY <1>13, <3>1, <3>2, <3>3
    <2>3. CASE x = h
      BY <1>11, <1>16, <2>1, <2>3 DEF OnWay
    <2>4. CASE x # g /\ x # h
      BY <1>16, <2>1, <2>4 DEF OnWay
    <2> QED BY <2>2, <2>3, <2>4
  <1> QED BY <1>1, <1>3, <1>16, <1>17

\* What socket s of h sends, and what it answers, to a segment that is not a SYN to a
\* listener.
Sends(h, s, r) ==
  /\ r.src = h /\ r.sport = s.localPort /\ r.dport = s.remotePort
  /\ "SYN" \notin r.flags
  /\ "ACK" \in r.flags => s.state \notin {"SYN_SENT", "SYN_RECEIVED"}

Answers(h, s, r) == Sends(h, s, r) /\ "PSH" \notin r.flags

LEMMA SegmentIs ==
  ASSUME NEW h \in Host, NEW s \in Socket, NEW flags \in Flags
  PROVE  /\ Segment(h, s, flags, NoData) \in Header
         /\ Segment(h, s, flags, NoData).flags = flags
         /\ Segment(h, s, flags, NoData).seq = s.seq
         /\ "SYN" \notin flags /\ "PSH" \notin flags
            /\ ("ACK" \in flags => s.state \notin {"SYN_SENT", "SYN_RECEIVED"})
              => Answers(h, s, Segment(h, s, flags, NoData))
  BY DEF Segment, NoData, Header, Socket, Data, Answers, Sends

LEMMA CallStays ==
  ASSUME HInv, TTypeOK', Onward, NEW x \in Host, task'[x].at # "idle", task'[x] = task[x]
  PROVE  /\ task'[x].socket \in DOMAIN sockets'[x]
         /\ sockets'[x][task'[x].socket].state \notin {"LISTEN", "SYN_SENT", "SYN_RECEIVED"}
         /\ task'[x].at = "send" => x \in Senders /\ Heard(x, task[x].socket)'
  <1>1. PICK k : k = task[x].socket
    OBVIOUS
  <1>2. /\ k \in DOMAIN sockets[x]
        /\ sockets[x][k].state \notin {"LISTEN", "SYN_SENT", "SYN_RECEIVED"}
        /\ task[x].at = "send" => x \in Senders /\ Heard(x, k)
    BY <1>1 DEF HInv, InCall
  <1>3. task[x].at = "send" => Heard(x, k)'
    BY <1>2, HeardStays
  <1> QED BY <1>1, <1>2, <1>3, OnwardIs DEF Opening

LEMMA CallsStay ==
  ASSUME HInv, TTypeOK', Onward, \A x \in Host : task'[x].at # "idle" => task'[x] = task[x]
  PROVE  InCall'
  BY CallStays DEF InCall

\* Of all handlers only that of h makes another call or returns.
OnlyCalls(h) ==
  /\ call' \in [Host -> [at : {"idle", "send", "fin", "ack"}, socket : Nat]]
  /\ \A x \in Host \ {h} : call'[x] = call[x]

\* No handler makes a call at h.
NoCall(h) == call[h].at = "idle" /\ UNCHANGED call

LEMMA NoCallIs ==
  ASSUME TTypeOK, NEW h \in Host, NoCall(h)
  PROVE  OnlyCalls(h) /\ CallOn(h)'
  BY DEF TTypeOK, NoCall, OnlyCalls, CallOn

LEMMA HandlersCallsStay ==
  ASSUME HInv, NEW h \in Host, OnlyCalls(h), CallOn(h)',
         \A x \in Host \ {h} : sockets'[x] = sockets[x]
  PROVE  InHandler'
  BY DEF HInv, InHandler, CallOn, OnlyCalls

LEMMA HandledKeeps ==
  ASSUME HInv, NEW h \in Host, OnlyCalls(h), CallOn(h)',
         NEW i \in DOMAIN net[h], NEW k \in DOMAIN sockets[h],
         NEW s \in Socket, Becomes(h, k, s), s.remote \in Host,
         NEW replies \in Seq(Header), \A r \in DOMAIN replies : Answers(h, s, replies[r]),
         Handled(h, i, k, s, replies), mishaps' \in Nat,
         received' \in [Host -> Seq(Stream)], \A x \in Host : Len(received'[x]) = Len(received[x])
  PROVE  HInv'
  <1>0. TTypeOK /\ s.remote \in Host \ {h}
    BY Apart DEF HInv, Becomes, SameEnds
  <1>1. /\ sockets' \in [Host -> Seq(Socket)] /\ net' \in [Host -> Seq(Header)]
        /\ \A x \in Host : Len(sockets'[x]) = Len(sockets[x]) /\ DOMAIN sockets'[x] = DOMAIN sockets[x]
        /\ \A x \in Host : \A y \in DOMAIN sockets[x] :
             sockets'[x][y] = IF x = h /\ y = k THEN s ELSE sockets[x][y]
        /\ \A x \in Host : \A m \in OnWay(x)' :
             \/ m \in OnWay(x)
             \/ x = s.remote /\ \E r \in DOMAIN replies : m = replies[r]
        /\ freePort' = freePort /\ task' = task /\ sent' = sent
    BY <1>0, HandledIs
  <1>2. TTypeOK'
    BY <1>0, <1>1 DEF TTypeOK, OnlyCalls
  <1>3. Onward
    <2> SUFFICES ASSUME NEW x \in Host, NEW y \in DOMAIN sockets[x]
                 PROVE  Becomes(x, y, sockets'[x][y])
      BY <1>1 DEF Onward
    <2>1. CASE x = h /\ y = k
      BY <1>1, <2>1
    <2>2. CASE ~(x = h /\ y = k)
      BY <1>1, <2>2 DEF Becomes, SameEnds
    <2> QED BY <2>1, <2>2
  <1>4. InCall'
    BY <1>1, <1>2, <1>3, CallsStay
  <1>5. ASSUME NEW x \in Host, NEW m \in OnWay(x)', m \notin OnWay(x)
        PROVE  IsGenuine(m, x)'
    <2>1. x = s.remote /\ Answers(h, s, m)
      BY <1>1, <1>5
    <2>2. /\ k \in DOMAIN sockets'[h] /\ sockets'[h][k] = s /\ m.src = h
      BY <1>1, <2>1 DEF Answers, Sends
    <2>3. SentBy(m, x, k)'
      BY <2>1, <2>2 DEF SentBy, Answers, Sends
    <2> QED BY <2>1, <2>2, <2>3 DEF IsGenuine, Answers, Sends
  <1>6. InHandler'
    <2>1. \A x \in Host \ {h} : sockets'[x] = sockets[x]
      BY <1>0 DEF Handled, TTypeOK
    <2> QED BY <2>1, HandlersCallsStay
  <1> QED BY <1>1, <1>2, <1>3, <1>4, <1>5, <1>6, OnwardKeeps

LEMMA MishapsStayNatural ==
  ASSUME TTypeOK
  PROVE  /\ Mishap => mishaps' \in Nat
         /\ \A i : InTurn(i) => mishaps' \in Nat
  BY DEF TTypeOK, Mishap, InTurn

\* Nothing happens to the sockets, and no segment comes that was not there.
LEMMA QuietKeeps ==
  ASSUME HInv, UNCHANGED <<sockets, freePort, call, sent, received>>, mishaps' \in Nat,
         task' \in [Host -> [at : {"idle", "send", "fin"}, socket : Nat]], InCall',
         net' \in [Host -> Seq(Header)], \A x \in Host : \A m \in OnWay(x)' : m \in OnWay(x)
  PROVE  HInv'
  <1>1. TTypeOK'
    BY DEF HInv, TTypeOK
  <1>2. Onward
    BY DEF Onward, Becomes, SameEnds
  <1>3. InHandler'
    BY DEF HInv, InHandler, CallOn
  <1> QED BY <1>1, <1>2, <1>3, OnwardKeeps

\* Segment r joins the queue of host g.
Queued(g, r) == net' = [net EXCEPT ![g] = Append(@, r)]

LEMMA QueuedIs ==
  ASSUME TTypeOK, NEW g \in Host, NEW r \in Header, Queued(g, r)
  PROVE  /\ net' \in [Host -> Seq(Header)]
         /\ \A x \in Host : \A m \in OnWay(x)' : m \in OnWay(x) \/ (x = g /\ m = r)
  <1>1. PICK q \in Seq(Header) : q = net[g]
    BY DEF TTypeOK
  <1>2. PICK a : a = Append(q, r)
    OBVIOUS
  <1>3. /\ a \in Seq(Header) /\ DOMAIN a = 1 .. Len(q) + 1
        /\ DOMAIN q = 1 .. Len(q) /\ Len(q) \in Nat
        /\ \A n \in DOMAIN q : a[n] = q[n]
        /\ a[Len(q) + 1] = r
    BY <1>2, AppendedIs
  <1>4. net' \in [Host -> Seq(Header)] /\ net'[g] = a /\ \A x \in Host \ {g} : net'[x] = net[x]
    BY <1>1, <1>2, <1>3 DEF Queued, TTypeOK
  <1>5. ASSUME NEW x \in Host, NEW m \in OnWay(x)'
        PROVE  m \in OnWay(x) \/ (x = g /\ m = r)
    <2>1. PICK n \in DOMAIN net'[x] : m = net'[x][n]
      BY DEF OnWay
    <2>2. CASE x = g
      <3>1. n \in DOMAIN q \/ n = Len(q) + 1
        BY <1>3, <1>4, <2>1, <2>2
      <3> QED BY <1>1, <1>3, <1>4, <2>1, <2>2, <3>1 DEF OnWay
    <2>3. CASE x # g
      BY <1>4, <2>1, <2>3 DEF OnWay
    <2> QED BY <2>2, <2>3
  <1> QED BY <1>4, <1>5

\* A socket with s's remote end sends r.
IsSent(s, r) == IF s.remote \in Host THEN Queued(s.remote, r) ELSE net' = net

LEMMA EmitsIs ==
  ASSUME TTypeOK, NEW h, NEW s, NEW flags, Emits(h, s, flags)
  PROVE  IsSent(s, Segment(h, s, flags, NoData))
  BY DEF TTypeOK, Emits, IsSent, Queued

\* Socket k of h goes on as s and sends r, in the middle of a call.
LEMMA SenderKeeps ==
  ASSUME HInv, NEW h \in Host, OnlyCalls(h), CallOn(h)', NEW k \in DOMAIN sockets[h], NEW s \in Socket,
         sockets' = [sockets EXCEPT ![h] = [sockets[h] EXCEPT ![k] = s]],
         Becomes(h, k, s), s.state \notin Opening,
         NEW r \in Header, Sends(h, s, r), "PSH" \in r.flags => Heard(h, k),
         IsSent(s, r),
         task' \in [Host -> [at : {"idle", "send", "fin"}, socket : Nat]],
         \A x \in Host : task'[x].at # "idle" => task'[x] = task[x],
         freePort' = freePort, received' = received, mishaps' \in Nat,
         sent' \in [Host -> Seq(Stream)], \A x \in Host : Len(sent'[x]) = Len(sent[x])
  PROVE  HInv'
  <1>1. TTypeOK
    BY DEF HInv
  <1>2. /\ sockets' \in [Host -> Seq(Socket)]
        /\ \A x \in Host : /\ Len(sockets'[x]) = Len(sockets[x])
                           /\ DOMAIN sockets'[x] = DOMAIN sockets[x]
        /\ \A x \in Host : \A y \in DOMAIN sockets[x] :
             sockets'[x][y] = IF x = h /\ y = k THEN s ELSE sockets[x][y]
    BY <1>1, SetIs
  <1>3. PICK g : g = s.remote
    OBVIOUS
  <1>4. /\ net' \in [Host -> Seq(Header)]
        /\ \A x \in Host : \A m \in OnWay(x)' : m \in OnWay(x) \/ (x = g /\ m = r)
    <2>1. CASE g \in Host
      BY <1>1, <1>3, <2>1, QueuedIs DEF IsSent
    <2>2. CASE g \notin Host
      BY <1>1, <1>3, <2>2 DEF IsSent, TTypeOK, OnWay
    <2> QED BY <2>1, <2>2
  <1>5. TTypeOK'
    BY <1>1, <1>2, <1>4 DEF TTypeOK, OnlyCalls
  <1>6. Onward
    <2> SUFFICES ASSUME NEW x \in Host, NEW y \in DOMAIN sockets[x]
                 PROVE  Becomes(x, y, sockets'[x][y])
      BY <1>2 DEF Onward
    <2>1. CASE x = h /\ y = k
      BY <1>2, <2>1
    <2>2. CASE ~(x = h /\ y = k)
      BY <1>2, <2>2 DEF Becomes, SameEnds
    <2> QED BY <2>1, <2>2
  <1>7. InCall'
    BY <1>5, <1>6, CallsStay
  <1>8. IsGenuine(r, g)'
    <2>1. /\ k \in DOMAIN sockets'[h] /\ sockets'[h][k] = s /\ r.src = h
      BY <1>2 DEF Sends
    <2>2. SentBy(r, g, k)'
      BY <1>3, <2>1 DEF SentBy, Sends
    <2>3. "PSH" \in r.flags => Heard(h, k)'
      BY <1>5, <1>6, HeardStays
    <2> QED BY <2>1, <2>2, <2>3 DEF IsGenuine, Sends
  <1>9. InHandler'
    <2>1. \A x \in Host \ {h} : sockets'[x] = sockets[x]
      BY <1>1 DEF TTypeOK
    <2> QED BY <2>1, HandlersCallsStay
  <1> QED BY <1>4, <1>5, <1>6, <1>7, <1>8, <1>9, OnwardKeeps

-----------------------------------------------------------------------------
(* The invariant of the connections, action by action.                     *)

LEMMA ReceivedStays ==
  ASSUME TTypeOK, UNCHANGED received
  PROVE  /\ received' \in [Host -> Seq(Stream)]
         /\ \A x \in Host : Len(received'[x]) = Len(received[x])
  BY DEF TTypeOK

LEMMA RepliesAre ==
  ASSUME NEW h \in Host, NEW s \in Socket
  PROVE  /\ <<>> \in Seq(Header) /\ \A r \in DOMAIN <<>> : Answers(h, s, <<>>[r])
         /\ \A f \in Flags : Reply(h, s, f) \in Seq(Header)
         /\ \A f \in {{"RST"}, {"ACK"}, {"FIN", "ACK"}} :
              f = {"RST"} \/ s.state \notin {"SYN_SENT", "SYN_RECEIVED"} =>
                \A r \in DOMAIN Reply(h, s, f) : Answers(h, s, Reply(h, s, f)[r])
  <1>1. \A f \in Flags : Segment(h, s, f, NoData) \in Header
    BY SegmentIs
  <1>2. \A f \in Flags : Reply(h, s, f) \in Seq(Header)
    BY <1>1 DEF Reply
  <1>3. \A f : DOMAIN Reply(h, s, f) = {1} /\ Reply(h, s, f)[1] = Segment(h, s, f, NoData)
    BY DEF Reply
  <1>4. {{"RST"}, {"ACK"}, {"FIN", "ACK"}} \subseteq Flags
    BY DEF Flags
  <1>5. ASSUME NEW f \in {{"RST"}, {"ACK"}, {"FIN", "ACK"}},
               f = {"RST"} \/ s.state \notin {"SYN_SENT", "SYN_RECEIVED"}
        PROVE  Answers(h, s, Segment(h, s, f, NoData))
    <2>1. "SYN" \notin f /\ ("ACK" \in f => s.state \notin {"SYN_SENT", "SYN_RECEIVED"})
      BY <1>5
    <2>2. f \in Flags
      BY <1>4
    <2> QED BY <2>1, <2>2, SegmentIs
  <1> QED BY <1>2, <1>3, <1>5

LEMMA WithState ==
  \A s \in Socket, st \in States :
    LET t == [s EXCEPT !.state = st]
    IN  /\ t \in Socket /\ SameEnds(s, t) /\ t.remote = s.remote
        /\ t.state = st /\ t.seq = s.seq /\ t.ack = s.ack
  BY DEF Socket, SameEnds

LEMMA WithSeq ==
  \A s \in Socket, q \in Int :
    LET t == [s EXCEPT !.seq = q]
    IN  /\ t \in Socket /\ SameEnds(s, t) /\ t.remote = s.remote
        /\ t.state = s.state /\ t.seq = q /\ t.ack = s.ack
  BY DEF Socket, SameEnds

LEMMA WithAck ==
  \A s \in Socket, a \in Int :
    LET t == [s EXCEPT !.ack = a]
    IN  /\ t \in Socket /\ SameEnds(s, t) /\ t.remote = s.remote
        /\ t.state = s.state /\ t.seq = s.seq /\ t.ack = a
  BY DEF Socket, SameEnds

\* The socket stays what it is.
LEMMA SameBecomes ==
  ASSUME NEW h, NEW k
  PROVE  Becomes(h, k, sockets[h][k])
  BY DEF Becomes, SameEnds

\* Socket k of h, handling a segment, becomes s ...
Goes(h, k, s) ==
  LET o == sockets[h][k]
  IN  \/ s.state = o.state /\ s.seq = o.seq /\ s.ack = o.ack
      \/ o.state = "SYN_RECEIVED" /\ s.state = "ESTABLISHED" /\ s.seq = o.seq /\ s.ack = o.ack
      \/ /\ o.state = "SYN_SENT" /\ s.state = "ESTABLISHED" /\ s.seq = o.seq + 1
         /\ \E m \in OnWay(h) : "SYN" \in m.flags /\ s.ack = m.seq + 1
      \/ o.state = "FIN_WAIT1" /\ s.state = "FIN_WAIT2" /\ s.seq = o.seq /\ s.ack = o.ack
      \/ s.state \in {"CLOSED", "CLOSE_WAIT"} /\ s.seq = o.seq

\* ... and answers with its own addresses.
AnsweredAs(h, i, k, s) ==
  \E replies \in Seq(Header) :
    (\A r \in DOMAIN replies : Answers(h, s, replies[r])) /\ Handled(h, i, k, s, replies)

Moves(h, i, k) ==
  /\ k \in DOMAIN sockets[h] /\ received' = received /\ call' = call
  /\ \E s \in Socket : /\ Becomes(h, k, s) /\ Goes(h, k, s) /\ s.remote \in Host
                       /\ AnsweredAs(h, i, k, s)

LEMMA MovesKeeps ==
  ASSUME HInv, NEW h \in Host, NEW i \in DOMAIN net[h], NEW k, Moves(h, i, k), call[h].at = "idle",
         mishaps' \in Nat
  PROVE  HInv'
  <1>1. PICK s \in Socket : /\ Becomes(h, k, s) /\ s.remote \in Host
                            /\ AnsweredAs(h, i, k, s)
    BY DEF Moves
  <1>2. PICK replies \in Seq(Header) :
          (\A r \in DOMAIN replies : Answers(h, s, replies[r])) /\ Handled(h, i, k, s, replies)
    BY <1>1 DEF AnsweredAs
  <1>3. k \in DOMAIN sockets[h] /\ UNCHANGED received
    BY DEF Moves
  <1>4. /\ received' \in [Host -> Seq(Stream)]
        /\ \A x \in Host : Len(received'[x]) = Len(received[x])
    BY <1>3, ReceivedStays DEF HInv
  <1>5. OnlyCalls(h) /\ CallOn(h)'
    BY NoCallIs DEF Moves, NoCall, HInv
  <1> QED BY <1>1, <1>2, <1>3, <1>4, <1>5, HandledKeeps

LEMMA ResetMoves ==
  ASSUME HInv, NEW h \in Host, NEW i \in DOMAIN net[h], NEW k \in DOMAIN sockets[h],
         sockets[h][k].remote \in Host, Reset(h, i, k), UNCHANGED <<received, call>>
  PROVE  Moves(h, i, k)
  <1>1. PICK s \in Socket : s = sockets[h][k]
    BY Typed DEF HInv
  <1>2. PICK replies : replies = Reply(h, s, {"RST"})
    OBVIOUS
  <1>3. replies \in Seq(Header) /\ \A r \in DOMAIN replies : Answers(h, s, replies[r])
    BY <1>2, RepliesAre DEF Flags
  <1>4. Handled(h, i, k, s, replies)
    BY <1>1, <1>2 DEF Reset
  <1>5. AnsweredAs(h, i, k, s)
    BY <1>3, <1>4 DEF AnsweredAs
  <1>6. Becomes(h, k, s) /\ Goes(h, k, s)
    BY <1>1, SameBecomes DEF Goes
  <1> QED BY <1>1, <1>5, <1>6 DEF Moves

LEMMA OnRstMoves ==
  ASSUME HInv, NEW h \in Host, NEW i \in DOMAIN net[h], NEW k,
         IsFor(h, net[h][i], k), OnRst(h, i, k)
  PROVE  Moves(h, i, k)
  <1>1. PICK m \in OnWay(h) : m = net[h][i]
    BY Typed DEF HInv
  <1>2. /\ k \in DOMAIN sockets[h] /\ sockets[h][k].remote \in Host
        /\ sockets[h][k].remote # Nobody
    BY <1>1, Sender, TcpAssumption DEF OnRst
  <1>3. PICK o \in Socket : o = sockets[h][k]
    BY <1>2, Typed DEF HInv
  <1>4. PICK s : s = [o EXCEPT !.state = "CLOSED"]
    OBVIOUS
  <1>5. /\ s \in Socket /\ SameEnds(o, s) /\ s.state = "CLOSED" /\ s.remote = o.remote
        /\ s.seq = o.seq
    BY <1>4, WithState DEF States
  <1>6. Becomes(h, k, s) /\ Goes(h, k, s)
    BY <1>2, <1>3, <1>5 DEF Becomes, Goes, Opening
  <1>7. PICK replies : replies = <<>>
    OBVIOUS
  <1>8. replies \in Seq(Header) /\ \A r \in DOMAIN replies : Answers(h, s, replies[r])
    BY <1>5, <1>7, RepliesAre
  <1>9. Handled(h, i, k, s, replies) /\ received' = received /\ call' = call
    BY <1>3, <1>4, <1>7 DEF OnRst
  <1>10. AnsweredAs(h, i, k, s)
    BY <1>8, <1>9 DEF AnsweredAs
  <1> QED BY <1>2, <1>3, <1>5, <1>6, <1>9, <1>10 DEF Moves

LEMMA OnSynAckMoves ==
  ASSUME HInv, NEW h \in Host, NEW i \in DOMAIN net[h], NEW k,
         IsFor(h, net[h][i], k), OnSynAck(h, i, k)
  PROVE  Moves(h, i, k)
  <1>1. PICK m \in OnWay(h) : m = net[h][i]
    BY Typed DEF HInv
  <1>2. m.flags \in Flags /\ m.flags \cap {"SYN", "ACK", "FIN"} = {"SYN", "ACK"} /\ m.seq \in Int
    BY <1>1, Typed DEF OnSynAck, Class, HInv, Header
  <1>3. m.flags # {"SYN"} /\ "SYN" \in m.flags
    BY <1>2
  <1>4. /\ k \in DOMAIN sockets[h] /\ sockets[h][k].remote # Nobody
        /\ sockets[h][k].remote = m.src /\ m.src \in Host
        /\ \E j \in DOMAIN sockets[m.src] : Peers(h, k, m.src, j)
    BY <1>1, <1>3, Sender, TcpAssumption
  <1>5. PICK o \in Socket : o = sockets[h][k]
    BY <1>4, Typed DEF HInv
  <1>6. received' = received /\ call' = call
    BY DEF OnSynAck
  <1>7. CASE o.state # "SYN_SENT"
    <2>1. Reset(h, i, k) /\ UNCHANGED <<received, call>>
      BY <1>5, <1>6, <1>7 DEF OnSynAck
    <2> QED BY <1>4, <2>1, ResetMoves
  <1>8. CASE o.state = "SYN_SENT"
    <2>1. PICK s : s = [o EXCEPT !.state = "ESTABLISHED", !.ack = m.seq + 1, !.seq = o.seq + 1]
      OBVIOUS
    <2>2. PICK a \in Int, q \in Int : a = m.seq + 1 /\ q = o.seq + 1
      BY <1>2 DEF Socket
    <2>3. /\ s \in Socket /\ SameEnds(o, s) /\ s.state = "ESTABLISHED" /\ s.remote = o.remote
          /\ s.ack = m.seq + 1 /\ s.seq = o.seq + 1
      <3>1. PICK u : u = [o EXCEPT !.state = "ESTABLISHED"]
        OBVIOUS
      <3>2. /\ u \in Socket /\ SameEnds(o, u) /\ u.state = "ESTABLISHED" /\ u.remote = o.remote
        BY <3>1, WithState DEF States
      <3>3. PICK v : v = [u EXCEPT !.ack = a]
        OBVIOUS
      <3>4. v \in Socket /\ SameEnds(u, v) /\ v.state = u.state /\ v.remote = u.remote /\ v.ack = a
        BY <3>2, <3>3, WithAck
      <3>5. s = [v EXCEPT !.seq = q]
        BY <2>1, <2>2, <3>1, <3>3
      <3>6. /\ s \in Socket /\ SameEnds(v, s) /\ s.state = v.state /\ s.remote = v.remote
            /\ s.ack = v.ack /\ s.seq = q
        BY <3>4, <3>5, WithSeq
      <3> QED BY <2>2, <3>2, <3>4, <3>6 DEF SameEnds
    <2>4. h \notin Servers
      BY <1>4, <1>5, <1>8 DEF HInv, Addressed, AtServer
    <2>5. m.src \in Servers
      BY <1>4, <2>4 DEF HInv, Addressed, AtClient
    <2>6. \E j \in DOMAIN sockets[m.src] : Peers(h, k, m.src, j) /\ sockets[m.src][j].state # "SYN_SENT"
      BY <1>4, <2>5 DEF HInv, Addressed, AtServer
    <2>7. Becomes(h, k, s)
      BY <1>4, <1>5, <1>8, <2>3, <2>6 DEF Becomes, Heard, Opening
    <2>8. Goes(h, k, s)
      BY <1>3, <1>5, <1>8, <2>3 DEF Goes
    <2>9. PICK replies : replies = Reply(h, s, {"ACK"})
      OBVIOUS
    <2>10. replies \in Seq(Header) /\ \A r \in DOMAIN replies : Answers(h, s, replies[r])
      BY <2>3, <2>9, RepliesAre DEF Flags
    <2>11. Handled(h, i, k, s, replies)
      BY <1>1, <1>5, <1>8, <2>1, <2>9 DEF OnSynAck
    <2>12. AnsweredAs(h, i, k, s)
      BY <2>10, <2>11 DEF AnsweredAs
    <2> QED BY <1>4, <1>5, <1>6, <2>3, <2>7, <2>8, <2>12 DEF Moves
  <1> QED BY <1>7, <1>8

LEMMA OnFinMoves ==
  ASSUME HInv, NEW h \in Host, NEW i \in DOMAIN net[h], NEW k,
         IsFor(h, net[h][i], k), OnFin(h, i, k)
  PROVE  Moves(h, i, k)
  <1>1. PICK m \in OnWay(h) : m = net[h][i]
    BY Typed DEF HInv
  <1>2. m.flags # {"SYN"}
    BY <1>1 DEF OnFin, Class
  <1>3. /\ k \in DOMAIN sockets[h] /\ sockets[h][k].remote # Nobody
        /\ sockets[h][k].remote \in Host
    BY <1>1, <1>2, Sender, TcpAssumption
  <1>4. PICK o \in Socket : o = sockets[h][k]
    BY <1>3, Typed DEF HInv
  <1>5. received' = received /\ call' = call
    BY DEF OnFin
  <1>6. PICK t : t = [o EXCEPT !.ack = o.ack + 1]
    OBVIOUS
  <1>7. t \in Socket /\ SameEnds(o, t) /\ t.state = o.state /\ t.remote = o.remote /\ t.seq = o.seq
    <2>1. o.ack + 1 \in Int
      BY DEF Socket
    <2> QED BY <1>6, <2>1, WithAck
  <1>8. {"CLOSED", "CLOSE_WAIT"} \subseteq States \ Opening
    BY DEF States, Opening
  <1>9. ASSUME NEW st \in {"CLOSED", "CLOSE_WAIT"}, NEW u \in Socket, SameEnds(o, u),
               u.remote = o.remote, u.seq = o.seq, NEW s, s = [u EXCEPT !.state = st]
        PROVE  /\ s \in Socket /\ Becomes(h, k, s) /\ s.remote \in Host /\ s.state = st
               /\ Goes(h, k, s) /\ SameEnds(u, s)
    <2>1. s \in Socket /\ SameEnds(u, s) /\ s.state = st /\ s.remote = u.remote /\ s.seq = u.seq
      BY <1>8, <1>9, WithState
    <2>2. Goes(h, k, s)
      BY <1>4, <1>9, <2>1 DEF Goes
    <2> QED BY <1>3, <1>4, <1>8, <1>9, <2>1, <2>2 DEF Becomes, SameEnds
  <1>10. CASE o.state = "ESTABLISHED"
    <2>1. PICK s : s = [t EXCEPT !.state = "CLOSE_WAIT"]
      OBVIOUS
    <2>2. /\ s \in Socket /\ Becomes(h, k, s) /\ s.remote \in Host /\ s.state = "CLOSE_WAIT"
          /\ Goes(h, k, s) /\ SameEnds(t, s)
      BY <1>7, <1>9, <2>1
    <2>3. PICK first, second : first = Reply(h, t, {"ACK"}) /\ second = Reply(h, t, {"FIN", "ACK"})
      OBVIOUS
    <2>4. /\ first \in Seq(Header) /\ \A r \in DOMAIN first : Answers(h, t, first[r])
          /\ second \in Seq(Header) /\ \A r \in DOMAIN second : Answers(h, t, second[r])
      BY <1>7, <1>10, <2>3, RepliesAre DEF Flags
    <2>5. PICK replies : replies = first \o second
      OBVIOUS
    <2>6. /\ replies \in Seq(Header)
          /\ \A r \in DOMAIN replies : Answers(h, t, replies[r])
      BY <2>4, <2>5, JoinedIs
    <2>7. \A r \in DOMAIN replies : Answers(h, s, replies[r])
      BY <2>2, <2>6 DEF Answers, Sends, SameEnds
    <2>8. Handled(h, i, k, s, replies)
      BY <1>4, <1>6, <1>10, <2>1, <2>3, <2>5 DEF OnFin
    <2>9. AnsweredAs(h, i, k, s)
      BY <2>6, <2>7, <2>8 DEF AnsweredAs
    <2> QED BY <1>3, <1>5, <2>2, <2>9 DEF Moves
  <1>11. CASE o.state = "CLOSE_WAIT"
    <2>1. PICK s : s = [o EXCEPT !.state = "CLOSED"]
      OBVIOUS
    <2>2. s \in Socket /\ Becomes(h, k, s) /\ s.remote \in Host /\ Goes(h, k, s)
      BY <1>9, <2>1 DEF SameEnds
    <2>3. PICK replies : replies = <<>>
      OBVIOUS
    <2>4. replies \in Seq(Header) /\ \A r \in DOMAIN replies : Answers(h, s, replies[r])
      BY <2>2, <2>3, RepliesAre
    <2>5. Handled(h, i, k, s, replies)
      BY <1>4, <1>11, <2>1, <2>3 DEF OnFin
    <2>6. AnsweredAs(h, i, k, s)
      BY <2>4, <2>5 DEF AnsweredAs
    <2> QED BY <1>3, <1>5, <2>2, <2>6 DEF Moves
  <1>12. CASE o.state \in {"FIN_WAIT1", "FIN_WAIT2"}
    <2>1. PICK s : s = [t EXCEPT !.state = "CLOSED"]
      OBVIOUS
    <2>2. /\ s \in Socket /\ Becomes(h, k, s) /\ s.remote \in Host /\ s.state = "CLOSED"
          /\ Goes(h, k, s) /\ SameEnds(t, s)
      BY <1>7, <1>9, <2>1
    <2>3. PICK replies : replies = Reply(h, t, {"ACK"})
      OBVIOUS
    <2>4. replies \in Seq(Header) /\ \A r \in DOMAIN replies : Answers(h, t, replies[r])
      BY <1>7, <1>12, <2>3, RepliesAre DEF Flags
    <2>5. \A r \in DOMAIN replies : Answers(h, s, replies[r])
      BY <2>2, <2>4 DEF Answers, Sends, SameEnds
    <2>6. Handled(h, i, k, s, replies)
      BY <1>4, <1>6, <1>12, <2>1, <2>3 DEF OnFin
    <2>7. AnsweredAs(h, i, k, s)
      BY <2>4, <2>5, <2>6 DEF AnsweredAs
    <2> QED BY <1>3, <1>5, <2>2, <2>7 DEF Moves
  <1>13. CASE o.state \notin {"ESTABLISHED", "CLOSE_WAIT", "FIN_WAIT1", "FIN_WAIT2"}
    <2>1. Reset(h, i, k) /\ UNCHANGED <<received, call>>
      BY <1>4, <1>5, <1>13 DEF OnFin
    <2> QED BY <1>3, <2>1, ResetMoves
  <1> QED BY <1>10, <1>11, <1>12, <1>13

LEMMA OnAckMoves ==
  ASSUME HInv, NEW h \in Host, NEW i \in DOMAIN net[h], NEW k,
         IsFor(h, net[h][i], k), OnAck(h, i, k)
  PROVE  Moves(h, i, k)
  <1>1. PICK m \in OnWay(h) : m = net[h][i]
    BY Typed DEF HInv
  <1>2. "ACK" \in m.flags /\ "SYN" \notin m.flags
    BY <1>1 DEF OnAck, Class
  <1>3. /\ k \in DOMAIN sockets[h] /\ sockets[h][k].remote # Nobody
        /\ sockets[h][k].remote \in Host /\ m.src \in Host
        /\ \E j \in DOMAIN sockets[m.src] :
             Peers(h, k, m.src, j) /\ sockets[m.src][j].state \notin {"SYN_SENT", "SYN_RECEIVED"}
    BY <1>1, <1>2, Sender, TcpAssumption
  <1>4. PICK o \in Socket : o = sockets[h][k]
    BY <1>3, Typed DEF HInv
  <1>5. received' = received /\ call' = call
    BY DEF OnAck
  <1>6. PICK replies : replies = <<>>
    OBVIOUS
  <1>7. \A s \in Socket : replies \in Seq(Header) /\ \A r \in DOMAIN replies : Answers(h, s, replies[r])
    BY <1>6, RepliesAre
  <1>8. CASE o.state \in DOMAIN AfterAck
    <2>1. PICK st : st = AfterAck[o.state]
      OBVIOUS
    <2>2. \/ o.state = "SYN_RECEIVED" /\ st = "ESTABLISHED"
          \/ o.state = "FIN_WAIT1" /\ st = "FIN_WAIT2"
          \/ o.state = "CLOSE_WAIT" /\ st = "CLOSED"
      BY <1>8, <2>1 DEF AfterAck
    <2>3. st \in States \ Opening
      BY <2>2 DEF States, Opening
    <2>4. PICK s : s = [o EXCEPT !.state = st]
      OBVIOUS
    <2>5. /\ s \in Socket /\ SameEnds(o, s) /\ s.state = st /\ s.remote = o.remote
          /\ s.seq = o.seq /\ s.ack = o.ack
      BY <2>3, <2>4, WithState
    <2>6. Becomes(h, k, s)
      BY <1>3, <1>4, <2>3, <2>5 DEF Becomes, Heard
    <2>7. Goes(h, k, s)
      BY <1>4, <2>2, <2>5 DEF Goes
    <2>8. Handled(h, i, k, s, replies)
      BY <1>4, <1>6, <1>8, <2>1, <2>4 DEF OnAck
    <2>9. AnsweredAs(h, i, k, s)
      BY <1>7, <2>5, <2>8 DEF AnsweredAs
    <2> QED BY <1>3, <1>4, <1>5, <2>5, <2>6, <2>7, <2>9 DEF Moves
  <1>9. CASE o.state \notin DOMAIN AfterAck
    <2>1. Handled(h, i, k, o, replies)
      BY <1>4, <1>6, <1>9 DEF OnAck
    <2>2. Becomes(h, k, o) /\ Goes(h, k, o)
      BY <1>4, SameBecomes DEF Goes
    <2>3. AnsweredAs(h, i, k, o)
      BY <1>7, <2>1 DEF AnsweredAs
    <2> QED BY <1>3, <1>4, <1>5, <2>2, <2>3 DEF Moves
  <1> QED BY <1>8, <1>9

\* One more payload in one stream of one host.
LEMMA StreamsGrow ==
  ASSUME TTypeOK, NEW h \in Host, NEW k \in DOMAIN sockets[h], NEW d \in Data
  PROVE  /\ received' = [received EXCEPT ![h][k] = Append(@, d)] =>
              /\ received' \in [Host -> Seq(Stream)]
              /\ \A x \in Host : Len(received'[x]) = Len(received[x])
         /\ sent' = [sent EXCEPT ![h][k] = Append(@, d)] =>
              /\ sent' \in [Host -> Seq(Stream)]
              /\ \A x \in Host : Len(sent'[x]) = Len(sent[x])
  <1>1. ASSUME NEW f \in [Host -> Seq(Stream)], k \in DOMAIN f[h],
               NEW g, g = [f EXCEPT ![h][k] = Append(@, d)]
        PROVE  g \in [Host -> Seq(Stream)] /\ \A x \in Host : Len(g[x]) = Len(f[x])
    <2>1. PICK q \in Seq(Stream) : q = f[h]
      OBVIOUS
    <2>2. PICK r : r = [q EXCEPT ![k] = Append(q[k], d)]
      OBVIOUS
    <2>3. q[k] \in Stream
      BY <1>1, <2>1
    <2>4. Append(q[k], d) \in Stream
      BY <2>3, AppendedIs DEF Stream
    <2>5. r \in Seq(Stream) /\ Len(r) = Len(q)
      <3>1. PICK e \in Stream : e = Append(q[k], d)
        BY <2>4
      <3>2. r = [q EXCEPT ![k] = e] /\ k \in DOMAIN q
        BY <1>1, <2>1, <2>2, <3>1
      <3> QED BY <3>2
    <2>6. g = [f EXCEPT ![h] = r]
      BY <1>1, <2>1, <2>2
    <2> QED BY <2>1, <2>5, <2>6
  <1>2. k \in DOMAIN sent[h] /\ k \in DOMAIN received[h]
    BY Typed
  <1>3. sent \in [Host -> Seq(Stream)] /\ received \in [Host -> Seq(Stream)]
    BY DEF TTypeOK
  <1> QED BY <1>1, <1>2, <1>3

LEMMA OnDataKeeps ==
  ASSUME HInv, NEW h \in Host, NEW i \in DOMAIN net[h], NEW k, NEW accepts \in BOOLEAN,
         IsFor(h, net[h][i], k), OnData(h, i, k, accepts), call[h].at = "idle", mishaps' \in Nat
  PROVE  HInv'
  <1>1. PICK m \in OnWay(h) : m = net[h][i]
    BY Typed DEF HInv
  <1>2. "ACK" \in m.flags /\ "SYN" \notin m.flags
    BY <1>1 DEF OnData, Class
  <1>3. /\ k \in DOMAIN sockets[h] /\ sockets[h][k].state # "LISTEN"
        /\ sockets[h][k].remote = m.src /\ m.src \in Host
        /\ \E j \in DOMAIN sockets[m.src] : Peers(h, k, m.src, j)
    BY <1>1, <1>2, Sender
  <1>4. PICK o \in Socket : o = sockets[h][k]
    BY <1>3, Typed DEF HInv
  <1>5. CASE ~(InOrder(o, m) /\ accepts)
    <2>1. Reset(h, i, k) /\ UNCHANGED <<received, call>>
      BY <1>1, <1>4, <1>5 DEF OnData
    <2>2. Moves(h, i, k)
      BY <1>3, <2>1, ResetMoves
    <2> QED BY <2>2, MovesKeeps
  <1>6. CASE InOrder(o, m) /\ accepts
    <2>1. PICK t : t = [o EXCEPT !.ack = o.ack + Advance(m.data)]
      OBVIOUS
    <2>2. m.data \in Data
      BY Typed DEF HInv
    <2>3. PICK a \in Int : a = o.ack + Advance(m.data)
      BY <2>2 DEF Socket, Advance, HeaderBytes, Data
    <2>4. t \in Socket /\ SameEnds(o, t) /\ t.state = o.state /\ t.remote = o.remote
      BY <2>1, <2>3, WithAck
    <2>5. o.state \notin DOMAIN AfterAck
      BY <1>4 DEF OnData
    <2>6. PICK replies : replies = Reply(h, t, {"ACK"})
      OBVIOUS
    <2>7. Handled(h, i, k, t, replies) /\ received' = [received EXCEPT ![h][k] = Append(@, m.data)]
      BY <1>1, <1>4, <1>6, <2>1, <2>6 DEF OnData
    <2>8. o.state \notin {"SYN_SENT", "SYN_RECEIVED"}
      BY <1>1, <1>4, <2>5, Sender DEF OnData, AfterAck
    <2>9. replies \in Seq(Header) /\ \A r \in DOMAIN replies : Answers(h, t, replies[r])
      BY <2>4, <2>6, <2>8, RepliesAre DEF Flags
    <2>10. Becomes(h, k, t)
      BY <1>4, <2>4 DEF Becomes
    <2>11. /\ received' \in [Host -> Seq(Stream)]
           /\ \A x \in Host : Len(received'[x]) = Len(received[x])
      BY <1>3, <2>2, <2>7, StreamsGrow DEF HInv
    <2>12. OnlyCalls(h) /\ CallOn(h)'
      BY NoCallIs DEF OnData, NoCall, HInv
    <2> QED BY <1>3, <1>4, <2>4, <2>7, <2>9, <2>10, <2>11, <2>12, HandledKeeps
  <1> QED BY <1>5, <1>6

\* Of all sockets only socket k of h changes, and of all segments only a SYN|ACK of that
\* socket to host g is new.
OnlyBecomes(h, k, s) ==
  /\ \A x \in Host : Len(sockets'[x]) = Len(sockets[x]) /\ DOMAIN sockets'[x] = DOMAIN sockets[x]
  /\ \A x \in Host : \A y \in DOMAIN sockets[x] :
       sockets'[x][y] = IF x = h /\ y = k THEN s ELSE sockets[x][y]

OnlyAnswers(h, s, g) ==
  \A x \in Host : \A n \in OnWay(x)' :
    \/ n \in OnWay(x)
    \/ /\ x = g /\ n.src = h /\ n.sport = s.localPort /\ n.dport = s.remotePort
       /\ n.flags = {"SYN", "ACK"}

\* A listening socket gets the ends of the SYN it answers; all others stay as they are.
LEMMA BindingKeeps ==
  ASSUME HInv, NEW h \in Host, NEW k \in DOMAIN sockets[h], sockets[h][k].state = "LISTEN",
         NEW m \in OnWay(h), IsFor(h, m, k), NEW s \in Socket, s.state = "SYN_RECEIVED",
         s.localPort = sockets[h][k].localPort, s.remote = m.src, s.remotePort = m.sport,
         TTypeOK', InHandler', task' = task, freePort' = freePort,
         OnlyBecomes(h, k, s), OnlyAnswers(h, s, m.src)
  PROVE  HInv'
  <1>a. /\ \A x \in Host : Len(sockets'[x]) = Len(sockets[x]) /\ DOMAIN sockets'[x] = DOMAIN sockets[x]
        /\ \A x \in Host : \A y \in DOMAIN sockets[x] :
             sockets'[x][y] = IF x = h /\ y = k THEN s ELSE sockets[x][y]
    BY DEF OnlyBecomes
  <1>b. \A x \in Host : \A n \in OnWay(x)' :
          \/ n \in OnWay(x)
          \/ /\ x = m.src /\ n.src = h /\ n.sport = s.localPort /\ n.dport = s.remotePort
             /\ n.flags = {"SYN", "ACK"}
    BY DEF OnlyAnswers
  <1>1. /\ m.src \in Host /\ m.flags = {"SYN"} /\ h \in Servers /\ m.src \in Clients
        /\ m.src # h /\ m.src # Nobody
    BY Sender, TcpAssumption DEF Clients
  <1>2. /\ sockets[h][k].localPort = Port /\ sockets[h][k].remote = Nobody /\ m.dport = Port
    BY <1>1 DEF HInv, Addressed, AtServer, IsFor, Matches, Clients
  <1>3. PICK j \in DOMAIN sockets[m.src] : SentBy(m, h, j)
    BY DEF HInv, Genuine, IsGenuine
  <1>4. Peers(h, k, m.src, j)'
    BY <1>a, <1>1, <1>2, <1>3 DEF Peers, SentBy
  <1>5. ASSUME NEW x \in Host, NEW g \in Host, NEW y, NEW l, Peers(x, y, g, l)
        PROVE  /\ Peers(x, y, g, l)' /\ y \in DOMAIN sockets'[x] /\ l \in DOMAIN sockets'[g]
               /\ sockets'[x][y] = sockets[x][y] /\ sockets'[g][l] = sockets[g][l]
    <2>1. /\ y \in DOMAIN sockets[x] /\ l \in DOMAIN sockets[g]
          /\ sockets[x][y].remote = g /\ sockets[g][l].remote = x
      BY <1>5 DEF Peers
    <2>2. ~(x = h /\ y = k) /\ ~(g = h /\ l = k)
      BY <1>2, <2>1, TcpAssumption
    <2>3. /\ y \in DOMAIN sockets'[x] /\ l \in DOMAIN sockets'[g]
          /\ sockets'[x][y] = sockets[x][y] /\ sockets'[g][l] = sockets[g][l]
      BY <1>a, <2>1, <2>2
    <2> QED BY <1>5, <2>3 DEF Peers
  <1>6. ASSUME NEW x \in Host, NEW y, Heard(x, y)
        PROVE  Heard(x, y)'
    <2>1. PICK g \in Host : \E l \in DOMAIN sockets[g] : Peers(x, y, g, l) /\ sockets[g][l].state # "SYN_SENT"
      BY <1>6 DEF Heard
    <2>2. PICK l \in DOMAIN sockets[g] : Peers(x, y, g, l) /\ sockets[g][l].state # "SYN_SENT"
      BY <2>1
    <2>3. Peers(x, y, g, l)' /\ l \in DOMAIN sockets'[g] /\ sockets'[g][l].state # "SYN_SENT"
      BY <1>5, <2>2
    <2> QED BY <2>3 DEF Heard
  <1>7. Addressed'
    <2> SUFFICES ASSUME NEW x \in Host, NEW y \in DOMAIN sockets'[x]
                 PROVE  IF x \in Servers THEN AtServer(x, y)' ELSE AtClient(x, y)'
      BY DEF Addressed
    <2>1. y \in DOMAIN sockets[x]
      BY <1>a
    <2>2. CASE x \notin Servers
      BY <1>a, <1>1, <2>1, <2>2 DEF HInv, Addressed, AtClient
    <2>3. CASE x = h /\ y = k
      <3>1. \E g \in Clients : \E l \in DOMAIN sockets'[g] : Peers(h, k, g, l)'
        BY <1>a, <1>1, <1>3, <1>4
      <3> QED BY <1>a, <1>1, <1>2, <2>3, <3>1 DEF AtServer
    <2>4. CASE x \in Servers /\ ~(x = h /\ y = k)
      <3>1. AtServer(x, y) /\ sockets'[x][y] = sockets[x][y]
        BY <1>a, <2>1, <2>4 DEF HInv, Addressed
      <3>2. ASSUME sockets[x][y].remote # Nobody
            PROVE  \E g \in Clients : \E l \in DOMAIN sockets'[g] : Peers(x, y, g, l)'
        <4>1. PICK g \in Clients : \E l \in DOMAIN sockets[g] : Peers(x, y, g, l)
          BY <3>1, <3>2 DEF AtServer
        <4>2. PICK l \in DOMAIN sockets[g] : Peers(x, y, g, l)
          BY <4>1
        <4> QED BY <1>5, <4>2 DEF Clients
      <3> QED BY <2>4, <3>1, <3>2 DEF AtServer
    <2> QED BY <2>2, <2>3, <2>4
  <1>8. PortsInTurn' /\ TablesFit'
    BY <1>a DEF HInv, PortsInTurn, TablesFit, Clients
  <1>9. \A i \in DOMAIN sockets[h] : i < k => ~Matches(sockets[h][i], m)
    <2> TAKE i \in DOMAIN sockets[h]
    <2>1. i \in Nat /\ k \in Nat /\ i >= 1
      BY Typed DEF HInv
    <2>2. i < k => i \in 1 .. k - 1
      BY <2>1
    <2> QED BY <2>2 DEF IsFor
  <1>10. ListenersLast'
    <2> SUFFICES ASSUME NEW x \in Servers, NEW y \in DOMAIN sockets'[x], NEW i \in 1 .. y - 1,
                        sockets'[x][i].state = "LISTEN"
                 PROVE  sockets'[x][y].remote = Nobody
      BY DEF ListenersLast
    <2>1. x \in Host
      BY TcpAssumption
    <2>2. y \in DOMAIN sockets[x] /\ i \in DOMAIN sockets[x] /\ i < y
      BY <1>a, <2>1, Typed DEF HInv
    <2>3. sockets[x][i].state = "LISTEN" /\ ~(x = h /\ i = k)
      BY <1>a, <2>1, <2>2
    <2>4. sockets[x][y].remote = Nobody
      BY <2>2, <2>3 DEF HInv, ListenersLast
    <2>5. CASE x = h /\ y = k
      <3>1. sockets[h][i].localPort = Port
        BY <2>1, <2>2, <2>5 DEF HInv, Addressed, AtServer
      <3>2. Matches(sockets[h][i], m)
        BY <1>1, <1>2, <2>3, <2>5, <3>1 DEF Matches
      <3> QED BY <1>9, <2>2, <2>5, <3>2
    <2> QED BY <1>a, <2>1, <2>2, <2>4, <2>5
  <1>11. ASSUME NEW i \in DOMAIN sockets[h], i # k, sockets[h][i].remote # Nobody
         PROVE  <<sockets[h][i].remote, sockets[h][i].remotePort>> # <<m.src, m.sport>>
    <2>1. SUFFICES ASSUME sockets[h][i].remote = m.src, sockets[h][i].remotePort = m.sport
                   PROVE  FALSE
      OBVIOUS
    <2>2. sockets[h][i].localPort = Port
      BY <1>1 DEF HInv, Addressed, AtServer
    <2>3. Matches(sockets[h][i], m)
      BY <1>2, <2>1, <2>2 DEF Matches
    <2>4. i \in Nat /\ k \in Nat /\ i >= 1 /\ k >= 1
      BY Typed DEF HInv
    <2>5. CASE i > k
      <3>1. k \in 1 .. i - 1
        BY <2>4, <2>5
      <3> QED BY <1>1, <1>11, <3>1 DEF HInv, ListenersLast
    <2> QED BY <1>9, <1>11, <2>3, <2>4, <2>5
  <1>12. OwnPeers'
    <2> SUFFICES ASSUME NEW x \in Servers, NEW i \in DOMAIN sockets'[x], NEW y \in DOMAIN sockets'[x],
                        i # y, sockets'[x][i].remote # Nobody, sockets'[x][y].remote # Nobody
                 PROVE  <<sockets'[x][i].remote, sockets'[x][i].remotePort>> #
                        <<sockets'[x][y].remote, sockets'[x][y].remotePort>>
      BY DEF OwnPeers
    <2>1. x \in Host /\ i \in DOMAIN sockets[x] /\ y \in DOMAIN sockets[x]
      BY <1>a, TcpAssumption
    <2>2. CASE x = h /\ i = k
      BY <1>a, <1>11, <2>1, <2>2
    <2>3. CASE x = h /\ y = k
      BY <1>a, <1>11, <2>1, <2>3
    <2>4. CASE ~(x = h /\ i = k) /\ ~(x = h /\ y = k)
      BY <1>a, <2>1, <2>4 DEF HInv, OwnPeers
    <2> QED BY <2>2, <2>3, <2>4
  <1>13. InCall'
    <2> SUFFICES ASSUME NEW x \in Host, task[x].at # "idle"
                 PROVE  /\ task[x].socket \in DOMAIN sockets'[x]
                        /\ sockets'[x][task[x].socket].state \notin {"LISTEN", "SYN_SENT", "SYN_RECEIVED"}
                        /\ task[x].at = "send" => x \in Senders /\ Heard(x, task[x].socket)'
      BY DEF InCall
    <2>1. PICK y : y = task[x].socket
      OBVIOUS
    <2>2. /\ y \in DOMAIN sockets[x]
          /\ sockets[x][y].state \notin {"LISTEN", "SYN_SENT", "SYN_RECEIVED"}
          /\ task[x].at = "send" => x \in Senders /\ Heard(x, y)
      BY <2>1 DEF HInv, InCall
    <2>3. task[x].at = "send" => Heard(x, y)'
      BY <1>6, <2>2
    <2> QED BY <1>a, <2>1, <2>2, <2>3
  <1>14. Genuine'
    <2> SUFFICES ASSUME NEW x \in Host, NEW n \in OnWay(x)'
                 PROVE  IsGenuine(n, x)'
      BY DEF Genuine
    <2>1. CASE n \in OnWay(x)
      <3>1. n.src \in Host
        BY <2>1, Typed DEF HInv
      <3>2. PICK l \in DOMAIN sockets[n.src] :
              /\ SentBy(n, x, l)
              /\ n.flags = {"SYN"} => n.src \in Clients
              /\ n.flags = {"SYN", "ACK"} => n.src \in Servers
              /\ "ACK" \in n.flags /\ "SYN" \notin n.flags =>
                   sockets[n.src][l].state \notin {"SYN_SENT", "SYN_RECEIVED"}
              /\ "PSH" \in n.flags => Heard(n.src, l)
        BY <2>1 DEF HInv, Genuine, IsGenuine
      <3>3. sockets'[n.src][l] = sockets[n.src][l] /\ l \in DOMAIN sockets'[n.src]
        BY <1>a, <1>2, <3>1, <3>2, TcpAssumption DEF SentBy
      <3>4. SentBy(n, x, l)'
        BY <3>2, <3>3 DEF SentBy
      <3>5. "PSH" \in n.flags => Heard(n.src, l)'
        BY <1>6, <3>1, <3>2
      <3>6. "ACK" \in n.flags /\ "SYN" \notin n.flags =>
              sockets'[n.src][l].state \notin {"SYN_SENT", "SYN_RECEIVED"}
        BY <3>2, <3>3
      <3>7. l \in DOMAIN sockets'[n.src]
        BY <3>3
      <3> QED BY <3>2, <3>4, <3>5, <3>6, <3>7 DEF IsGenuine
    <2>2. CASE n \notin OnWay(x)
      <3>1. /\ x = m.src /\ n.src = h /\ n.sport = s.localPort /\ n.dport = s.remotePort
            /\ n.flags = {"SYN", "ACK"}
        BY <1>b, <2>2
      <3>2. sockets'[h][k] = s /\ k \in DOMAIN sockets'[h]
        BY <1>a
      <3>3. SentBy(n, x, k)'
        BY <3>1, <3>2 DEF SentBy
      <3>a. /\ {"SYN", "ACK"} # {"SYN"} /\ "SYN" \in {"SYN", "ACK"}
            /\ "PSH" \notin {"SYN", "ACK"}
        OBVIOUS
      <3>4. n.flags # {"SYN"} /\ "SYN" \in n.flags /\ "PSH" \notin n.flags
        BY <3>a, <3>1
      <3>5. n.src \in Servers /\ k \in DOMAIN sockets'[n.src]
        BY <1>1, <3>1, <3>2
      <3> QED BY <3>3, <3>4, <3>5 DEF IsGenuine
    <2> QED BY <2>1, <2>2
  <1>15. HandshakeAgrees'
    <2> SUFFICES ASSUME NEW x \in Host, NEW y \in DOMAIN sockets'[x],
                        sockets'[x][y].state = "ESTABLISHED"
                 PROVE  /\ \E g \in Host : \E l \in DOMAIN sockets'[g] :
                             Peers(x, y, g, l)' /\ sockets'[g][l].state # "SYN_SENT"
                        /\ \A i \in DOMAIN sockets'[x] : i # y =>
                             <<sockets'[x][i].remote, sockets'[x][i].remotePort, sockets'[x][i].localPort>> #
                             <<sockets'[x][y].remote, sockets'[x][y].remotePort, sockets'[x][y].localPort>>
      BY DEF HandshakeAgrees
    <2>1. /\ y \in DOMAIN sockets[x] /\ ~(x = h /\ y = k)
          /\ sockets[x][y].state = "ESTABLISHED" /\ sockets'[x][y] = sockets[x][y]
      BY <1>a
    <2>2. Heard(x, y)'
      BY <1>6, <2>1 DEF HInv, HandshakeAgrees, Heard
    <2>3. ASSUME NEW i \in DOMAIN sockets'[x], i # y
          PROVE  <<sockets'[x][i].remote, sockets'[x][i].remotePort, sockets'[x][i].localPort>> #
                 <<sockets'[x][y].remote, sockets'[x][y].remotePort, sockets'[x][y].localPort>>
      <3>1. CASE x = h /\ i = k
        <4>1. sockets[h][y].remote # Nobody
          BY <1>1, <2>1, <3>1 DEF HInv, Addressed, AtServer
        <4> QED BY <1>a, <1>11, <2>1, <2>3, <3>1, <4>1
      <3>2. CASE ~(x = h /\ i = k)
        <4>1. i \in DOMAIN sockets[x] /\ sockets'[x][i] = sockets[x][i]
          BY <1>a, <2>3, <3>2
        <4> QED BY <2>1, <2>3, <4>1 DEF HInv, HandshakeAgrees
      <3> QED BY <3>1, <3>2
    <2> QED BY <2>2, <2>3 DEF Heard
  <1> QED BY <1>7, <1>8, <1>10, <1>12, <1>13, <1>14, <1>15 DEF HInv

\* Socket k of h is bound to the sender of m.
Binds(h, i, k, m) ==
  \E s \in Socket :
    /\ s.state = "SYN_RECEIVED" /\ s.seq = 1 /\ s.ack = m.seq + 1
    /\ s.localPort = sockets[h][k].localPort /\ s.remote = m.src /\ s.remotePort = m.sport
    /\ OnlyBecomes(h, k, s) /\ OnlyAnswers(h, s, m.src)
    /\ \A x \in Host : \A n \in OnWay(x)' : n \in OnWay(x) \/ n.seq = 0
    /\ \E replies \in Seq(Header) :
         Handled(h, i, k, s, replies) /\ \A r \in DOMAIN replies : replies[r].flags = {"SYN", "ACK"}
    /\ UNCHANGED <<freePort, task, call, sent, received, revived>>

LEMMA OnSynBinds ==
  ASSUME HInv, NEW h \in Host, NEW i \in DOMAIN net[h], NEW k, NEW m \in OnWay(h), m = net[h][i],
         IsFor(h, m, k), OnSyn(h, i, k), mishaps' \in Nat, sockets[h][k].state = "LISTEN",
         call[h].at = "idle"
  PROVE  Binds(h, i, k, m) /\ TTypeOK' /\ InHandler'
  <1>1. k \in DOMAIN sockets[h] /\ m.src \in Host /\ m \in Header
    BY Sender
  <1>2. PICK o \in Socket : o = sockets[h][k]
    BY <1>1, Typed DEF HInv
  <1>3. PICK t : t = [o EXCEPT !.state = "SYN_RECEIVED", !.remote = m.src, !.remotePort = m.sport,
                               !.seq = 0, !.ack = m.seq + 1]
    OBVIOUS
  <1>4. PICK s : s = [t EXCEPT !.seq = 1]
    OBVIOUS
  <1>5. m.sport \in Nat /\ m.seq + 1 \in Int /\ m.src # h
    BY <1>1, <1>2, Sender DEF Header, Clients
  <1>6. /\ t.state = "SYN_RECEIVED" /\ t.localPort = o.localPort
        /\ t.remote = m.src /\ t.remotePort = m.sport /\ t.seq = 0 /\ t.ack = m.seq + 1
    BY <1>3 DEF Socket
  <1>7. t \in Socket
    <2>1. t = [state |-> t.state, localPort |-> t.localPort, remote |-> t.remote,
               remotePort |-> t.remotePort, seq |-> t.seq, ack |-> t.ack]
      <3>1. DOMAIN t = {"state", "localPort", "remote", "remotePort", "seq", "ack"}
        BY <1>3 DEF Socket
      <3>2. t = [f \in DOMAIN t |-> t[f]]
        BY <1>3 DEF Socket
      <3> QED BY <3>1, <3>2
    <2>2. "SYN_RECEIVED" \in States /\ o.localPort \in Nat
      BY DEF States, Socket
    <2> QED BY <1>1, <1>5, <1>6, <2>1, <2>2 DEF Socket
  <1>8. s \in Socket /\ SameEnds(t, s) /\ s.state = t.state /\ s.seq = 1 /\ s.ack = t.ack
    BY <1>4, <1>7, WithSeq
  <1>9. PICK r : r = Segment(h, t, {"SYN", "ACK"}, NoData)
    OBVIOUS
  <1>10. /\ r \in Header /\ r.src = h /\ r.sport = t.localPort /\ r.dport = t.remotePort
         /\ r.flags = {"SYN", "ACK"} /\ r.seq = 0
    <2>1. r \in Header
      BY <1>7, <1>9, SegmentIs DEF Flags
    <2> QED BY <1>6, <1>9, <2>1 DEF Segment
  <1>11. PICK replies : replies = <<r>>
    OBVIOUS
  <1>12. replies \in Seq(Header) /\ \A n \in DOMAIN replies : replies[n] = r
    BY <1>10, <1>11
  <1>13. Handled(h, i, k, s, replies) /\ UNCHANGED <<received, call>>
    BY <1>2, <1>3, <1>4, <1>9, <1>11 DEF OnSyn, Reply
  <1>14. s.remote \in Host \ {h} /\ TTypeOK
    BY <1>1, <1>5, <1>6, <1>8 DEF SameEnds, HInv
  <1>15. /\ sockets' \in [Host -> Seq(Socket)] /\ net' \in [Host -> Seq(Header)]
         /\ \A x \in Host : Len(sockets'[x]) = Len(sockets[x]) /\ DOMAIN sockets'[x] = DOMAIN sockets[x]
         /\ \A x \in Host : \A y \in DOMAIN sockets[x] :
              sockets'[x][y] = IF x = h /\ y = k THEN s ELSE sockets[x][y]
         /\ \A x \in Host : \A n \in OnWay(x)' :
              \/ n \in OnWay(x)
              \/ x = s.remote /\ \E a \in DOMAIN replies : n = replies[a]
         /\ freePort' = freePort /\ task' = task /\ sent' = sent /\ revived' = revived
    BY <1>1, <1>8, <1>12, <1>13, <1>14, HandledIs
  <1>16. TTypeOK'
    BY <1>13, <1>14, <1>15 DEF TTypeOK
  <1>17. OnlyBecomes(h, k, s) /\ OnlyAnswers(h, s, m.src)
    BY <1>6, <1>8, <1>10, <1>12, <1>15 DEF SameEnds, OnlyBecomes, OnlyAnswers
  <1>18. \A x \in Host : \A n \in OnWay(x)' : n \in OnWay(x) \/ n.seq = 0
    BY <1>10, <1>12, <1>15
  <1>19. /\ s.state = "SYN_RECEIVED" /\ s.ack = m.seq + 1 /\ s.localPort = sockets[h][k].localPort
         /\ s.remote = m.src /\ s.remotePort = m.sport
    BY <1>2, <1>6, <1>8 DEF SameEnds
  <1>20. /\ replies \in Seq(Header) /\ Handled(h, i, k, s, replies)
         /\ \A n \in DOMAIN replies : replies[n].flags = {"SYN", "ACK"}
    BY <1>10, <1>12, <1>13
  <1>21. InHandler'
    <2>1. \A x \in Host \ {h} : sockets'[x] = sockets[x]
      BY <1>13, <1>14 DEF Handled, TTypeOK
    <2>2. OnlyCalls(h) /\ CallOn(h)'
      BY <1>13, <1>14, NoCallIs DEF NoCall
    <2> QED BY <2>1, <2>2, HandlersCallsStay
  <1> QED BY <1>8, <1>13, <1>15, <1>16, <1>17, <1>18, <1>19, <1>20, <1>21 DEF Binds

LEMMA OnSynKeeps ==
  ASSUME HInv, NEW h \in Host, NEW i \in DOMAIN net[h], NEW k, call[h].at = "idle",
         IsFor(h, net[h][i], k), OnSyn(h, i, k), mishaps' \in Nat
  PROVE  HInv'
  <1>1. PICK m \in OnWay(h) : m = net[h][i]
    BY Typed DEF HInv
  <1>2. k \in DOMAIN sockets[h] /\ IsFor(h, m, k)
    BY <1>1, Sender
  <1>3. CASE sockets[h][k].state # "LISTEN"
    <2>1. Reset(h, i, k) /\ UNCHANGED <<received, call>> /\ sockets[h][k].remote \in Host
      BY <1>1, <1>3, Sender DEF OnSyn
    <2>2. Moves(h, i, k)
      BY <1>2, <2>1, ResetMoves
    <2> QED BY <2>2, MovesKeeps
  <1>4. CASE sockets[h][k].state = "LISTEN"
    <2>1. Binds(h, i, k, m) /\ TTypeOK' /\ InHandler'
      BY <1>1, <1>2, <1>4, OnSynBinds
    <2>2. PICK s \in Socket :
            /\ s.state = "SYN_RECEIVED"
            /\ s.localPort = sockets[h][k].localPort /\ s.remote = m.src /\ s.remotePort = m.sport
            /\ OnlyBecomes(h, k, s) /\ OnlyAnswers(h, s, m.src)
            /\ task' = task /\ freePort' = freePort
      BY <2>1 DEF Binds
    <2> QED BY <1>2, <1>4, <2>1, <2>2, BindingKeeps
  <1> QED BY <1>3, <1>4

\* The handler of a request begins its answer: the socket is ESTABLISHED, or was disconnected.
LEMMA OnRequestIs ==
  ASSUME HInv, NEW h \in Host, NEW i \in DOMAIN net[h], NEW k, call[h].at = "idle",
         IsFor(h, net[h][i], k), OnRequest(h, i, k), sockets[h][k].state # "CLOSED"
  PROVE  /\ k \in DOMAIN sockets[h] /\ sockets[h][k].remote \in Host
         /\ sockets[h][k].remote = net[h][i].src /\ net[h][i].data \in Data
         /\ sockets[h][k].state \in {"ESTABLISHED", "FIN_WAIT2"}
         /\ OnlyCalls(h) /\ call'[h] = [at |-> "send", socket |-> k]
  <1>1. PICK m \in OnWay(h) : m = net[h][i]
    BY Typed DEF HInv
  <1>2. "ACK" \in m.flags /\ "SYN" \notin m.flags /\ "PSH" \in m.flags
    BY <1>1 DEF OnRequest, Class
  <1>3. /\ k \in DOMAIN sockets[h] /\ sockets[h][k].state \notin {"LISTEN", "SYN_SENT"}
        /\ sockets[h][k].remote = m.src /\ m.src \in Host /\ m.data \in Data
    BY <1>1, <1>2, Sender, Typed DEF HInv
  <1>4. sockets[h][k].state \in States /\ k \in Nat
    BY <1>3, Typed DEF HInv
  <1>5. sockets[h][k].state \in {"ESTABLISHED", "FIN_WAIT2"}
    BY <1>3, <1>4 DEF OnRequest, AfterAck, States
  <1>6. OnlyCalls(h) /\ call'[h] = [at |-> "send", socket |-> k]
    BY <1>4 DEF OnRequest, OnlyCalls, HInv, TTypeOK
  <1> QED BY <1>1, <1>3, <1>5, <1>6

LEMMA OnRequestKeeps ==
  ASSUME HInv, NEW h \in Host, NEW i \in DOMAIN net[h], NEW k, call[h].at = "idle",
         IsFor(h, net[h][i], k), OnRequest(h, i, k), sockets[h][k].state # "CLOSED",
         mishaps' \in Nat
  PROVE  HInv'
  <1>1. PICK m \in OnWay(h) : m = net[h][i]
    BY Typed DEF HInv
  <1>2. /\ k \in DOMAIN sockets[h] /\ sockets[h][k].remote \in Host
        /\ sockets[h][k].remote = m.src /\ m.data \in Data
        /\ sockets[h][k].state \in {"ESTABLISHED", "FIN_WAIT2"}
        /\ OnlyCalls(h) /\ call'[h] = [at |-> "send", socket |-> k]
    BY <1>1, OnRequestIs
  <1>3. PICK o \in Socket : o = sockets[h][k]
    BY <1>2, Typed DEF HInv
  <1>4. PICK a \in Int : a = o.ack + Advance(m.data)
    BY <1>2 DEF Socket, Advance, HeaderBytes, Data
  <1>5. PICK t : t = [o EXCEPT !.ack = a]
    OBVIOUS
  <1>6. t \in Socket /\ SameEnds(o, t) /\ t.state = o.state /\ t.remote = o.remote
    BY <1>5, WithAck
  <1>7. PICK replies : replies = <<>>
    OBVIOUS
  <1>8. Handled(h, i, k, t, replies) /\ received' = [received EXCEPT ![h][k] = Append(@, m.data)]
    BY <1>1, <1>3, <1>4, <1>5, <1>7 DEF OnRequest
  <1>9. replies \in Seq(Header) /\ \A r \in DOMAIN replies : Answers(h, t, replies[r])
    BY <1>6, <1>7, RepliesAre
  <1>10. Becomes(h, k, t) /\ t.remote \in Host
    BY <1>2, <1>3, <1>6 DEF Becomes
  <1>11. /\ received' \in [Host -> Seq(Stream)]
         /\ \A x \in Host : Len(received'[x]) = Len(received[x])
    BY <1>2, <1>8, StreamsGrow DEF HInv
  <1>12. CallOn(h)'
    <2>1. k \in DOMAIN sockets'[h] /\ sockets'[h][k] = t
      BY <1>2, <1>8 DEF Handled, HInv, TTypeOK
    <2>2. t.state \in During["send"]
      BY <1>2, <1>3, <1>6 DEF During
    <2>3. h \in Answerers
      BY DEF OnRequest
    <2> QED BY <1>2, <1>10, <2>1, <2>2, <2>3 DEF CallOn
  <1> QED BY <1>2, <1>6, <1>8, <1>9, <1>10, <1>11, <1>12, HandledKeeps

LEMMA HandlersKeep ==
  ASSUME HInv, NEW h \in Host, NEW i \in DOMAIN net[h], NEW k \in DOMAIN sockets[h],
         call[h].at = "idle", sockets[h][k].state # "CLOSED",
         IsFor(h, net[h][i], k), OpenHandler(h, i, k), mishaps' \in Nat
  PROVE  HInv'
  <1>1. CASE OnSyn(h, i, k)
    BY <1>1, OnSynKeeps
  <1>2. CASE OnSynAck(h, i, k)
    BY <1>2, OnSynAckMoves, MovesKeeps
  <1>3. CASE OnFin(h, i, k)
    BY <1>3, OnFinMoves, MovesKeeps
  <1>4. CASE OnAck(h, i, k)
    BY <1>4, OnAckMoves, MovesKeeps
  <1>5. CASE OnData(h, i, k, TRUE)
    <2>1. PICK b \in BOOLEAN : b = TRUE
      OBVIOUS
    <2>2. OnData(h, i, k, b)
      BY <1>5, <2>1
    <2> QED BY <2>2, OnDataKeeps
  <1>6. CASE OnRequest(h, i, k)
    BY <1>6, OnRequestKeeps
  <1> QED BY <1>1, <1>2, <1>3, <1>4, <1>5, <1>6 DEF OpenHandler

\* A segment leaves the queue of h and nothing else happens to it.
LEMMA TakenIs ==
  ASSUME TTypeOK, NEW h \in Host, NEW i \in DOMAIN net[h],
         net' = [net EXCEPT ![h] = RemoveAt(@, i)]
  PROVE  /\ net' \in [Host -> Seq(Header)]
         /\ \A x \in Host : \A m \in OnWay(x)' : m \in OnWay(x)
  <1>1. PICK q \in Seq(Header) : q = net[h]
    BY DEF TTypeOK
  <1>2. PICK r : r = RemoveAt(q, i)
    OBVIOUS
  <1>3. i \in DOMAIN q
    BY <1>1
  <1>4. r \in Seq(Header) /\ \A n \in DOMAIN r : \E o \in DOMAIN q : r[n] = q[o]
    BY <1>2, <1>3, RemovedIs
  <1>5. net' = [net EXCEPT ![h] = r] /\ net \in [Host -> Seq(Header)]
    BY <1>1, <1>2 DEF TTypeOK
  <1>6. net' \in [Host -> Seq(Header)] /\ net'[h] = r /\ \A x \in Host \ {h} : net'[x] = net[x]
    BY <1>4, <1>5
  <1> QED BY <1>1, <1>4, <1>6 DEF OnWay

LEMMA TakenKeeps ==
  ASSUME HInv, NEW h \in Host, NEW i \in DOMAIN net[h], mishaps' \in Nat,
         net' = [net EXCEPT ![h] = RemoveAt(@, i)],
         UNCHANGED <<sockets, freePort, task, call, sent, received>>
  PROVE  HInv'
  <1>1. /\ net' \in [Host -> Seq(Header)]
        /\ \A x \in Host : \A m \in OnWay(x)' : m \in OnWay(x)
    BY TakenIs DEF HInv
  <1>2. InCall'
    BY DEF HInv, InCall, Heard, Peers
  <1>3. task' \in [Host -> [at : {"idle", "send", "fin"}, socket : Nat]]
    BY DEF HInv, TTypeOK
  <1> QED BY <1>1, <1>2, <1>3, QuietKeeps

LEMMA ReceiveKeeps ==
  ASSUME HInv, NEW h \in Host, NEW i \in DOMAIN net[h], Receive(h, i)
  PROVE  HInv'
  <1>1. mishaps' \in Nat /\ call[h].at = "idle"
    BY MishapsStayNatural DEF Receive, HInv, Idle
  <1>2. CASE OnNothing(h, i)
    BY <1>1, <1>2, TakenKeeps DEF OnNothing
  <1>3. ASSUME NEW k \in DOMAIN sockets[h], IsFor(h, net[h][i], k),
               OnRst(h, i, k) \/ (sockets[h][k].state # "CLOSED" /\ OpenHandler(h, i, k))
        PROVE  HInv'
    BY <1>1, <1>3, OnRstMoves, MovesKeeps, HandlersKeep
  <1> QED BY <1>2, <1>3 DEF Receive

LEMMA RefuseKeeps ==
  ASSUME HInv, NEW h \in Host, NEW k \in DOMAIN sockets[h], Refuse(h, k)
  PROVE  HInv'
  <1>1. mishaps' \in Nat /\ call[h].at = "idle"
    BY MishapsStayNatural DEF Refuse, HInv, Idle
  <1>2. PICK i \in DOMAIN net[h] : i = 1
    <2>1. PICK q \in Seq(Header) : q = net[h]
      BY DEF HInv, TTypeOK
    <2>2. q # <<>>
      BY <2>1 DEF Refuse
    <2> QED BY <2>1, <2>2
  <1>3. PICK b \in BOOLEAN : b = FALSE
    OBVIOUS
  <1>4. OnData(h, i, k, b) /\ IsFor(h, net[h][i], k)
    BY <1>2, <1>3 DEF Refuse
  <1> QED BY <1>1, <1>4, OnDataKeeps

LEMMA LoseKeeps ==
  ASSUME HInv, NEW h \in Host, NEW i \in DOMAIN net[h], Lose(h, i)
  PROVE  HInv'
  <1>1. mishaps' \in Nat
    BY MishapsStayNatural DEF Lose, HInv
  <1> QED BY <1>1, TakenKeeps DEF Lose

LEMMA RepeatKeeps ==
  ASSUME HInv, NEW h \in Host, NEW i \in DOMAIN net[h], Repeat(h, i)
  PROVE  HInv'
  <1>1. mishaps' \in Nat
    BY MishapsStayNatural DEF Repeat, HInv
  <1>2. PICK r \in Header : r = net[h][i] /\ r \in OnWay(h)
    BY Typed DEF HInv
  <1>3. Queued(h, r)
    BY <1>2 DEF Repeat, Queued
  <1>4. /\ net' \in [Host -> Seq(Header)]
        /\ \A x \in Host : \A m \in OnWay(x)' : m \in OnWay(x) \/ (x = h /\ m = r)
    BY <1>3, QueuedIs DEF HInv
  <1>5. InCall' /\ UNCHANGED <<sockets, freePort, task, call, sent, received>>
    BY DEF HInv, InCall, Heard, Peers, Repeat
  <1>6. task' \in [Host -> [at : {"idle", "send", "fin"}, socket : Nat]]
    BY <1>5 DEF HInv, TTypeOK
  <1> QED BY <1>1, <1>2, <1>4, <1>5, <1>6, QuietKeeps

-----------------------------------------------------------------------------
(* The calls of the application.                                           *)

LEMMA HasRemote ==
  ASSUME HInv, NEW h \in Host, NEW k \in DOMAIN sockets[h],
         sockets[h][k].state \notin {"LISTEN", "FIN_WAIT1"}
  PROVE  sockets[h][k].remote \in Host
  <1>1. CASE h \in Servers
    BY <1>1 DEF HInv, Addressed, AtServer, Peers, Clients
  <1>2. CASE h \notin Servers
    BY <1>2, TcpAssumption DEF HInv, Addressed, AtClient
  <1> QED BY <1>1, <1>2

LEMMA PayloadsAre ==
  \A p \in Payloads : p.len \in Nat \ {0} /\ p.used \in Nat /\ p.used <= p.len
  <1> TAKE p \in Payloads
  <1>1. PICK lz \in {lz \in Lengths \X Zeros : lz[2] <= lz[1]} :
          p = [len |-> lz[1], used |-> lz[1] - lz[2]]
    BY DEF Payloads
  <1>2. lz \in Lengths \X Zeros /\ lz[2] <= lz[1]
    OBVIOUS
  <1>3. lz[1] \in Lengths /\ lz[2] \in Zeros
    BY <1>2
  <1>4. Lengths \subseteq Nat \ {0} /\ Zeros \subseteq Nat
    BY TcpAssumption
  <1>5. PICK l \in Nat \ {0}, z \in Nat : l = lz[1] /\ z = lz[2]
    BY <1>3, <1>4
  <1>6. p.len = l /\ p.used = l - z /\ z <= l
    BY <1>1, <1>2, <1>5
  <1> QED BY <1>6

LEMMA SendMayGoKeeps ==
  ASSUME HInv, NEW h \in Host, NEW k \in DOMAIN sockets[h], SendMayGo(h, k)
  PROVE  HInv'
  <1>1. k \in Nat
    BY Typed DEF HInv
  <1>2. task' \in [Host -> [at : {"idle", "send", "fin"}, socket : Nat]] /\ mishaps' \in Nat
    BY <1>1 DEF SendMayGo, HInv, TTypeOK
  <1>3. Heard(h, k)
    BY DEF SendMayGo, HInv, HandshakeAgrees, Heard
  <1>4. InCall'
    <2> SUFFICES ASSUME NEW x \in Host, task'[x].at # "idle"
                 PROVE  /\ task'[x].socket \in DOMAIN sockets[x]
                        /\ sockets[x][task'[x].socket].state \notin {"LISTEN", "SYN_SENT", "SYN_RECEIVED"}
                        /\ task'[x].at = "send" => x \in Senders /\ Heard(x, task'[x].socket)
      BY DEF InCall, Heard, Peers, SendMayGo
    <2>1. CASE x = h
      <3>1. task'[h] = [at |-> "send", socket |-> k]
        BY DEF SendMayGo, HInv, TTypeOK
      <3> QED BY <1>3, <2>1, <3>1 DEF SendMayGo
    <2>2. CASE x # h
      <3>1. task'[x] = task[x]
        BY <2>2 DEF SendMayGo, HInv, TTypeOK
      <3> QED BY <3>1 DEF HInv, InCall
    <2> QED BY <2>1, <2>2
  <1>5. UNCHANGED <<sockets, freePort, call, net, sent, received>>
    BY DEF SendMayGo, Tasks
  <1>6. /\ net' \in [Host -> Seq(Header)]
        /\ \A x \in Host : \A m \in OnWay(x)' : m \in OnWay(x)
    BY <1>5 DEF HInv, TTypeOK, OnWay
  <1> QED BY <1>2, <1>4, <1>5, <1>6, QuietKeeps

\* The task of h is idle again, the others are where they were.
LEMMA IdleIs ==
  ASSUME TTypeOK, NEW h \in Host, task' = [task EXCEPT ![h] = Idle]
  PROVE  /\ task' \in [Host -> [at : {"idle", "send", "fin"}, socket : Nat]]
         /\ \A x \in Host : task'[x].at # "idle" => task'[x] = task[x]
  <1>1. /\ task' \in [Host -> [at : {"idle", "send", "fin"}, socket : Nat]]
        /\ task'[h].at = "idle" /\ \A x \in Host \ {h} : task'[x] = task[x]
    BY DEF TTypeOK, Idle
  <1> QED BY <1>1

LEMMA TaskIs ==
  ASSUME TTypeOK, NEW h \in Host, Tasks(h)
  PROVE  OnlyCalls(h) /\ CallOn(h)'
  BY NoCallIs DEF Tasks, NoCall, Idle

\* The sizes of a payload.
IsPayload(p) == p.len \in Nat \ {0} /\ p.used \in Nat /\ p.used <= p.len

LEMMA OutgoingIs ==
  ASSUME TTypeOK, NEW h \in Host, NEW k \in DOMAIN sockets[h], NEW p, IsPayload(p)
  PROVE  Outgoing(h, k, p) \in Data
  <1>1. sent[h] \in Seq(Stream) /\ k \in DOMAIN sent[h]
    BY Typed
  <1>2. sent[h][k] \in Seq(Data)
    BY <1>1 DEF Stream
  <1> QED BY <1>2 DEF Data, IsPayload, Outgoing

\* Socket k of h sends a payload.
LEMMA PayloadKeeps ==
  ASSUME HInv, NEW h \in Host, OnlyCalls(h), CallOn(h)', NEW k \in DOMAIN sockets[h],
         sockets[h][k].state \notin Opening, Heard(h, k), NEW p, IsPayload(p), PayloadGoes(h, k, p),
         task' \in [Host -> [at : {"idle", "send", "fin"}, socket : Nat]],
         \A x \in Host : task'[x].at # "idle" => task'[x] = task[x],
         freePort' = freePort, received' = received, mishaps' = mishaps
  PROVE  HInv'
  <1>0. TTypeOK
    BY DEF HInv
  <1>3. PICK o \in Socket : o = sockets[h][k]
    BY <1>0, Typed
  <1>4. PICK d \in Data : d = Outgoing(h, k, p)
    BY <1>0, OutgoingIs
  <1>6. PICK q \in Int : q = o.seq + p.len
    BY DEF Socket, IsPayload
  <1>7. PICK s : s = [o EXCEPT !.seq = q]
    OBVIOUS
  <1>8. s \in Socket /\ SameEnds(o, s) /\ s.state = o.state /\ s.remote = o.remote
    BY <1>7, WithSeq
  <1>9. sockets' = [sockets EXCEPT ![h] = [sockets[h] EXCEPT ![k] = s]]
    BY <1>3, <1>6, <1>7 DEF PayloadGoes
  <1>10. PICK r : r = Segment(h, o, {"PSH", "ACK"}, d)
    OBVIOUS
  <1>11. r \in Header /\ Sends(h, s, r)
    <2>1. /\ r.src = h /\ r.sport = s.localPort /\ r.dport = s.remotePort
          /\ r.flags = {"PSH", "ACK"}
      BY <1>8, <1>10 DEF Segment, SameEnds
    <2>2. r \in Header
      BY <1>10 DEF Segment, Header, Flags, Socket
    <2>3. "SYN" \notin {"PSH", "ACK"}
      OBVIOUS
    <2> QED BY <1>3, <1>8, <2>1, <2>2, <2>3 DEF Sends, Opening
  <1>12. IsSent(s, r)
    <2>1. o.remote \in Host
      BY <1>3 DEF Heard, Peers
    <2> QED BY <1>3, <1>4, <1>8, <1>10, <2>1 DEF PayloadGoes, IsSent, Queued
  <1>14. /\ sent' \in [Host -> Seq(Stream)]
         /\ \A x \in Host : Len(sent'[x]) = Len(sent[x])
    <2>1. sent' = [sent EXCEPT ![h][k] = Append(@, d)]
      BY <1>4 DEF PayloadGoes
    <2> QED BY <1>0, <2>1, StreamsGrow
  <1>16. mishaps' \in Nat
    BY <1>0 DEF TTypeOK
  <1>17. Becomes(h, k, s) /\ s.state \notin Opening
    BY <1>3, <1>8 DEF Becomes
  <1> QED BY <1>8, <1>9, <1>11, <1>12, <1>14, <1>16, <1>17, SenderKeeps

LEMMA SendGoesKeeps ==
  ASSUME HInv, NEW h \in Host, NEW p \in Payloads, SendGoes(h, p)
  PROVE  HInv'
  <1>0. TTypeOK
    BY DEF HInv
  <1>1. PICK k : k = task[h].socket
    OBVIOUS
  <1>2. k \in DOMAIN sockets[h] /\ sockets[h][k].state \notin Opening /\ Heard(h, k)
    BY <1>1 DEF SendGoes, HInv, InCall, Opening
  <1>3. /\ task' \in [Host -> [at : {"idle", "send", "fin"}, socket : Nat]]
        /\ \A x \in Host : task'[x].at # "idle" => task'[x] = task[x]
    BY <1>0, IdleIs DEF SendGoes
  <1>4. OnlyCalls(h) /\ CallOn(h)'
    BY <1>0, TaskIs DEF SendGoes
  <1>5. IsPayload(p) /\ PayloadGoes(h, k, p)
    BY <1>1, PayloadsAre DEF IsPayload, SendGoes
  <1>6. freePort' = freePort /\ received' = received /\ mishaps' = mishaps
    BY DEF SendGoes
  <1> QED BY <1>2, <1>3, <1>4, <1>5, <1>6, PayloadKeeps

LEMMA DisconnectSendsKeeps ==
  ASSUME HInv, NEW h \in Host, DisconnectSends(h)
  PROVE  HInv'
  <1>0. TTypeOK
    BY DEF HInv
  <1>1. PICK k : k = task[h].socket
    OBVIOUS
  <1>2. k \in DOMAIN sockets[h] /\ sockets[h][k].state \notin Opening
    BY <1>1 DEF DisconnectSends, HInv, InCall, Opening
  <1>3. PICK o \in Socket : o = sockets[h][k]
    BY <1>0, <1>2, Typed
  <1>6. PICK q \in Int : q = o.seq + 1
    BY DEF Socket
  <1>7. PICK s : s = [o EXCEPT !.seq = q]
    OBVIOUS
  <1>8. s \in Socket /\ SameEnds(o, s) /\ s.state = o.state /\ s.remote = o.remote
    BY <1>7, WithSeq
  <1>9. sockets' = [sockets EXCEPT ![h] = [sockets[h] EXCEPT ![k] = s]]
    BY <1>1, <1>3, <1>6, <1>7 DEF DisconnectSends
  <1>10. PICK r : r = Segment(h, o, {"FIN", "ACK"}, NoData)
    OBVIOUS
  <1>11. r \in Header /\ Sends(h, s, r) /\ "PSH" \notin r.flags
    <2>1. /\ r.src = h /\ r.sport = s.localPort /\ r.dport = s.remotePort
          /\ r.flags = {"FIN", "ACK"}
      BY <1>8, <1>10 DEF Segment, SameEnds
    <2>2. r \in Header
      BY <1>10, SegmentIs DEF Flags
    <2>3. "SYN" \notin {"FIN", "ACK"} /\ "PSH" \notin {"FIN", "ACK"}
      OBVIOUS
    <2> QED BY <1>2, <1>3, <1>8, <2>1, <2>2, <2>3 DEF Sends, Opening
  <1>12. IsSent(s, r)
    <2>1. Emits(h, o, {"FIN", "ACK"})
      BY <1>1, <1>3 DEF DisconnectSends
    <2> QED BY <1>0, <1>8, <1>10, <2>1, EmitsIs DEF IsSent
  <1>13. OnlyCalls(h) /\ CallOn(h)'
    BY <1>0, TaskIs DEF DisconnectSends
  <1>14. /\ sent' \in [Host -> Seq(Stream)]
         /\ \A x \in Host : Len(sent'[x]) = Len(sent[x])
    BY <1>0 DEF DisconnectSends, TTypeOK
  <1>15. /\ task' \in [Host -> [at : {"idle", "send", "fin"}, socket : Nat]]
         /\ \A x \in Host : task'[x].at # "idle" => task'[x] = task[x]
    BY <1>0, IdleIs DEF DisconnectSends
  <1>16. freePort' = freePort /\ received' = received /\ mishaps' \in Nat
    BY <1>0 DEF DisconnectSends, TTypeOK
  <1>17. Becomes(h, k, s) /\ s.state \notin Opening
    BY <1>2, <1>3, <1>8 DEF Becomes
  <1> QED BY <1>2, <1>8, <1>9, <1>11, <1>12, <1>13, <1>14, <1>15, <1>16, <1>17, SenderKeeps

LEMMA DisconnectStartsKeeps ==
  ASSUME HInv, NEW h \in Host, NEW k \in DOMAIN sockets[h], DisconnectStarts(h, k)
  PROVE  HInv'
  <1>0. TTypeOK
    BY DEF HInv
  <1>1. k \in Nat /\ mishaps' \in Nat
    BY <1>0, Typed DEF DisconnectStarts, Mishap, TTypeOK
  <1>2. OnlyCalls(h) /\ CallOn(h)'
    BY <1>0, TaskIs DEF DisconnectStarts
  <1>3. PICK o \in Socket : o = sockets[h][k]
    BY <1>0, Typed
  <1>4. PICK s : s = [o EXCEPT !.state = "FIN_WAIT1"]
    OBVIOUS
  <1>5. s \in Socket /\ SameEnds(o, s) /\ s.state = "FIN_WAIT1"
    BY <1>4, WithState DEF States
  <1>6. sockets' = [sockets EXCEPT ![h] = [sockets[h] EXCEPT ![k] = s]]
    BY <1>3, <1>4 DEF DisconnectStarts
  <1>7. /\ sockets' \in [Host -> Seq(Socket)]
        /\ \A x \in Host : /\ Len(sockets'[x]) = Len(sockets[x])
                           /\ DOMAIN sockets'[x] = DOMAIN sockets[x]
        /\ \A x \in Host : \A y \in DOMAIN sockets[x] :
             sockets'[x][y] = IF x = h /\ y = k THEN s ELSE sockets[x][y]
    BY <1>0, <1>5, <1>6, SetIs
  <1>8. /\ task' \in [Host -> [at : {"idle", "send", "fin"}, socket : Nat]]
        /\ task'[h] = [at |-> "fin", socket |-> k] /\ \A x \in Host \ {h} : task'[x] = task[x]
    BY <1>0, <1>1 DEF DisconnectStarts, TTypeOK
  <1>9. TTypeOK'
    BY <1>0, <1>1, <1>2, <1>7, <1>8 DEF TTypeOK, DisconnectStarts, OnlyCalls
  <1>10. Onward
    <2> SUFFICES ASSUME NEW x \in Host, NEW y \in DOMAIN sockets[x]
                 PROVE  Becomes(x, y, sockets'[x][y])
      BY <1>7 DEF Onward
    <2>1. CASE x = h /\ y = k
      BY <1>3, <1>5, <1>7, <2>1 DEF Becomes, Opening
    <2>2. CASE ~(x = h /\ y = k)
      BY <1>7, <2>2 DEF Becomes, SameEnds
    <2> QED BY <2>1, <2>2
  <1>11. InCall'
    <2> SUFFICES ASSUME NEW x \in Host, task'[x].at # "idle"
                 PROVE  /\ task'[x].socket \in DOMAIN sockets'[x]
                        /\ sockets'[x][task'[x].socket].state \notin {"LISTEN", "SYN_SENT", "SYN_RECEIVED"}
                        /\ task'[x].at = "send" => x \in Senders /\ Heard(x, task[x].socket)'
      BY DEF InCall
    <2>1. CASE x = h
      BY <1>5, <1>7, <1>8, <2>1
    <2>2. CASE x # h
      BY <1>8, <1>9, <1>10, <2>2, CallStays
    <2> QED BY <2>1, <2>2
  <1>12. freePort' = freePort /\ \A x \in Host : \A m \in OnWay(x)' : m \in OnWay(x)
    BY DEF DisconnectStarts, OnWay
  <1>13. InHandler'
    <2>1. \A x \in Host \ {h} : sockets'[x] = sockets[x]
      BY <1>0 DEF DisconnectStarts, TTypeOK
    <2> QED BY <1>2, <2>1, HandlersCallsStay
  <1> QED BY <1>9, <1>10, <1>11, <1>12, <1>13, OnwardKeeps

\* The call of h goes on, or it is over.
LEMMA CallGoesOn ==
  ASSUME TTypeOK, NEW h \in Host, NEW at \in {"idle", "fin", "ack"}, NEW k \in Nat,
         call' = [call EXCEPT ![h] = [at |-> at, socket |-> k]]
  PROVE  OnlyCalls(h) /\ call'[h].at = at /\ call'[h].socket = k
  BY DEF OnlyCalls, TTypeOK

\* The socket of a call, whoever calls.
LEMMA CallIs ==
  ASSUME HInv, NEW h \in Host, call[h].at \in {"send", "fin", "ack"}
  PROVE  /\ h \in Answerers /\ call[h].socket \in DOMAIN sockets[h] /\ call[h].socket \in Nat
         /\ sockets[h][call[h].socket] \in Socket /\ sockets[h][call[h].socket].remote \in Host
         /\ sockets[h][call[h].socket].state \in During[call[h].at]
         /\ \A at : [call EXCEPT ![h].at = at] =
                      [call EXCEPT ![h] = [at |-> at, socket |-> call[h].socket]]
  <1>1. /\ h \in Answerers
        /\ call[h].socket \in DOMAIN sockets[h] /\ sockets[h][call[h].socket].remote \in Host
        /\ sockets[h][call[h].socket].state \in During[call[h].at]
    BY DEF HInv, InHandler, CallOn
  <1>2. sockets[h][call[h].socket] \in Socket /\ call[h].socket \in Nat
    BY <1>1, Typed DEF HInv
  <1>3. \A at : [call EXCEPT ![h].at = at] = [call EXCEPT ![h] = [at |-> at, socket |-> call[h].socket]]
    <2>1. PICK c \in [at : {"idle", "send", "fin", "ack"}, socket : Nat] : c = call[h]
      BY DEF HInv, TTypeOK
    <2>2. \A at : [c EXCEPT !.at = at] = [at |-> at, socket |-> c.socket]
      OBVIOUS
    <2>3. \A at : [call EXCEPT ![h].at = at] = [call EXCEPT ![h] = [c EXCEPT !.at = at]]
      BY <2>1
    <2> QED BY <2>1, <2>2, <2>3
  <1> QED BY <1>1, <1>2, <1>3

LEMMA TasksStay ==
  ASSUME TTypeOK, task' = task
  PROVE  /\ task' \in [Host -> [at : {"idle", "send", "fin"}, socket : Nat]]
         /\ \A x \in Host : task'[x].at # "idle" => task'[x] = task[x]
  BY DEF TTypeOK

LEMMA AnswerSendsKeeps ==
  ASSUME HInv, NEW h \in Host, AnswerSends(h)
  PROVE  HInv'
  <1>0. TTypeOK
    BY DEF HInv
  <1>1. PICK k \in DOMAIN sockets[h] : k = call[h].socket /\ k \in Nat
    BY CallIs DEF AnswerSends
  <1>2. sockets[h][k].state = "ESTABLISHED" /\ PayloadGoes(h, k, Response)
    BY <1>1 DEF AnswerSends
  <1>3. Heard(h, k)
    BY <1>2 DEF HInv, HandshakeAgrees, Heard
  <1>4. OnlyCalls(h) /\ call'[h].at = "fin" /\ call'[h].socket = k
    <2>1. call' = [call EXCEPT ![h] = [at |-> "fin", socket |-> k]]
      BY <1>1, CallIs DEF AnswerSends
    <2> QED BY <1>0, <1>1, <2>1, CallGoesOn
  <1>5. CallOn(h)'
    <2>1. PICK o \in Socket : o = sockets[h][k] /\ o.remote \in Host
      BY <1>0, <1>3, Typed DEF Heard, Peers
    <2>2. PICK q \in Int : q = o.seq + Response.len
      BY DEF Socket, Response
    <2>3. sockets' = [sockets EXCEPT ![h] = [sockets[h] EXCEPT ![k] = [o EXCEPT !.seq = q]]]
      BY <1>2, <2>1, <2>2 DEF PayloadGoes
    <2>4. PICK s : s = [o EXCEPT !.seq = q]
      OBVIOUS
    <2>5. s \in Socket /\ s.state = "ESTABLISHED" /\ s.remote \in Host
      BY <1>2, <2>1, <2>4, WithSeq
    <2>6. k \in DOMAIN sockets'[h] /\ sockets'[h][k] = s
      BY <1>0, <2>3, <2>4, <2>5, SetIs
    <2>7. h \in Answerers
      BY CallIs DEF AnswerSends
    <2> QED BY <1>4, <2>5, <2>6, <2>7 DEF CallOn, During
  <1>6. IsPayload(Response)
    BY DEF IsPayload, Response
  <1>7. UNCHANGED <<freePort, task, received, mishaps>>
    BY DEF AnswerSends
  <1>8. /\ task' \in [Host -> [at : {"idle", "send", "fin"}, socket : Nat]]
        /\ \A x \in Host : task'[x].at # "idle" => task'[x] = task[x]
    BY <1>0, <1>7, TasksStay
  <1> QED BY <1>2, <1>3, <1>4, <1>5, <1>6, <1>7, <1>8, PayloadKeeps DEF Opening

\* The socket that answers is disconnected, all at once.
LEMMA AnswerDisconnectsIs ==
  ASSUME HInv, NEW h \in Host, AnswerDisconnects(h)
  PROVE  \E k \in DOMAIN sockets[h], s \in Socket, r \in Header :
           /\ call[h].socket = k /\ sockets[h][k].state = "ESTABLISHED"
           /\ SameEnds(sockets[h][k], s) /\ s.state = "FIN_WAIT1" /\ s.remote \in Host
           /\ s.seq = sockets[h][k].seq + 1 /\ s.ack = sockets[h][k].ack
           /\ sockets' = [sockets EXCEPT ![h] = [sockets[h] EXCEPT ![k] = s]]
           /\ Sends(h, s, r) /\ r.flags = {"FIN", "ACK"} /\ r.seq = sockets[h][k].seq
           /\ Queued(s.remote, r)
           /\ OnlyCalls(h) /\ CallOn(h)'
  <1>0. TTypeOK
    BY DEF HInv
  <1>1. PICK k \in DOMAIN sockets[h] : k = call[h].socket /\ k \in Nat
    BY CallIs DEF AnswerDisconnects
  <1>2. PICK o \in Socket : o = sockets[h][k] /\ o.remote \in Host /\ o.state = "ESTABLISHED"
    BY <1>1, CallIs DEF AnswerDisconnects, During
  <1>3. PICK q \in Int : q = o.seq + 1
    BY DEF Socket
  <1>4. PICK t : t = [o EXCEPT !.state = "FIN_WAIT1"]
    OBVIOUS
  <1>5. t \in Socket /\ SameEnds(o, t) /\ t.state = "FIN_WAIT1" /\ t.ack = o.ack /\ t.remote = o.remote
        /\ t.seq = o.seq
    BY <1>4, WithState DEF States
  <1>6. PICK s : s = [t EXCEPT !.seq = q]
    OBVIOUS
  <1>7. s \in Socket /\ SameEnds(t, s) /\ s.state = t.state /\ s.seq = q /\ s.ack = t.ack /\ s.remote = t.remote
    BY <1>5, <1>6, WithSeq
  <1>8. sockets' = [sockets EXCEPT ![h] = [sockets[h] EXCEPT ![k] = s]]
    <2>1. [t EXCEPT !.seq = @ + 1] = s
      BY <1>3, <1>5, <1>6 DEF Socket
    <2> QED BY <1>1, <1>2, <1>4, <2>1 DEF AnswerDisconnects
  <1>9. PICK r : r = Segment(h, t, {"FIN", "ACK"}, NoData)
    OBVIOUS
  <1>10. SameEnds(o, s) /\ s.remote = o.remote
    BY <1>5, <1>7 DEF SameEnds
  <1>11. r \in Header /\ Sends(h, s, r) /\ r.flags = {"FIN", "ACK"} /\ r.seq = o.seq
    <2>1. /\ r.src = h /\ r.sport = s.localPort /\ r.dport = s.remotePort
          /\ r.flags = {"FIN", "ACK"} /\ r.seq = o.seq
      BY <1>5, <1>9, <1>10 DEF Segment, SameEnds
    <2>2. r \in Header
      BY <1>5, <1>9, SegmentIs DEF Flags
    <2>3. "SYN" \notin {"FIN", "ACK"}
      OBVIOUS
    <2> QED BY <1>5, <1>7, <2>1, <2>2, <2>3 DEF Sends
  <1>12. Queued(s.remote, r)
    <2>1. Emits(h, t, {"FIN", "ACK"})
      BY <1>1, <1>2, <1>4 DEF AnswerDisconnects
    <2>2. IsSent(t, r)
      BY <1>0, <1>5, <1>9, <2>1, EmitsIs
    <2> QED BY <1>2, <1>5, <1>10, <2>2 DEF IsSent
  <1>13. OnlyCalls(h) /\ call'[h].at = "ack" /\ call'[h].socket = k
    <2>1. call' = [call EXCEPT ![h] = [at |-> "ack", socket |-> k]]
      BY <1>1, CallIs DEF AnswerDisconnects
    <2> QED BY <1>0, <1>1, <2>1, CallGoesOn
  <1>14. CallOn(h)'
    <2>1. k \in DOMAIN sockets'[h] /\ sockets'[h][k] = s
      BY <1>0, <1>7, <1>8, SetIs
    <2>2. h \in Answerers
      BY CallIs DEF AnswerDisconnects
    <2> QED BY <1>2, <1>5, <1>7, <1>10, <1>13, <2>1, <2>2 DEF CallOn, During
  <1> QED BY <1>1, <1>2, <1>3, <1>5, <1>7, <1>8, <1>10, <1>11, <1>12, <1>13, <1>14

LEMMA AnswerDisconnectsKeeps ==
  ASSUME HInv, NEW h \in Host, AnswerDisconnects(h)
  PROVE  HInv'
  <1>0. TTypeOK
    BY DEF HInv
  <1>1. PICK k \in DOMAIN sockets[h], s \in Socket, r \in Header :
          /\ sockets[h][k].state = "ESTABLISHED" /\ SameEnds(sockets[h][k], s)
          /\ s.state = "FIN_WAIT1" /\ s.remote \in Host
          /\ sockets' = [sockets EXCEPT ![h] = [sockets[h] EXCEPT ![k] = s]]
          /\ Sends(h, s, r) /\ r.flags = {"FIN", "ACK"} /\ Queued(s.remote, r)
          /\ OnlyCalls(h) /\ CallOn(h)'
    BY AnswerDisconnectsIs
  <1>2. UNCHANGED <<freePort, task, sent, received, mishaps>>
    BY DEF AnswerDisconnects
  <1>3. /\ task' \in [Host -> [at : {"idle", "send", "fin"}, socket : Nat]]
        /\ \A x \in Host : task'[x].at # "idle" => task'[x] = task[x]
    BY <1>0, <1>2, TasksStay
  <1>4. /\ sent' \in [Host -> Seq(Stream)] /\ mishaps' \in Nat
        /\ \A x \in Host : Len(sent'[x]) = Len(sent[x])
    BY <1>0, <1>2 DEF TTypeOK
  <1>5. Becomes(h, k, s) /\ s.state \notin Opening /\ "PSH" \notin r.flags /\ IsSent(s, r)
    BY <1>1 DEF Becomes, Opening, IsSent
  <1> QED BY <1>1, <1>2, <1>3, <1>4, <1>5, SenderKeeps

\* The acknowledgement of the request.
LEMMA AnswerReturnsIs ==
  ASSUME HInv, NEW h \in Host, AnswerReturns(h)
  PROVE  \E k \in DOMAIN sockets[h], s \in Socket, r \in Header :
           /\ call[h].socket = k /\ sockets[h][k] = s
           /\ s.state = "FIN_WAIT1" /\ s.remote \in Host
           /\ sockets' = [sockets EXCEPT ![h] = [sockets[h] EXCEPT ![k] = s]]
           /\ Sends(h, s, r) /\ r.flags = {"ACK"} /\ Queued(s.remote, r)
           /\ OnlyCalls(h) /\ CallOn(h)'
  <1>0. TTypeOK
    BY DEF HInv
  <1>1. PICK k \in DOMAIN sockets[h] : k = call[h].socket
    BY CallIs DEF AnswerReturns
  <1>2. PICK s \in Socket : s = sockets[h][k] /\ s.remote \in Host /\ s.state = "FIN_WAIT1"
    BY <1>1, CallIs DEF AnswerReturns, During
  <1>3. sockets' = [sockets EXCEPT ![h] = [sockets[h] EXCEPT ![k] = s]]
    BY <1>0, <1>2 DEF AnswerReturns, TTypeOK
  <1>4. PICK r : r = Segment(h, s, {"ACK"}, NoData)
    OBVIOUS
  <1>5. r \in Header /\ Sends(h, s, r) /\ r.flags = {"ACK"}
    <2>1. /\ r.src = h /\ r.sport = s.localPort /\ r.dport = s.remotePort /\ r.flags = {"ACK"}
      BY <1>4 DEF Segment
    <2>2. r \in Header
      BY <1>4, SegmentIs DEF Flags
    <2>3. "SYN" \notin {"ACK"}
      OBVIOUS
    <2> QED BY <1>2, <2>1, <2>2, <2>3 DEF Sends
  <1>6. Queued(s.remote, r)
    <2>1. Emits(h, s, {"ACK"})
      BY <1>1, <1>2 DEF AnswerReturns
    <2> QED BY <1>0, <1>2, <1>4, <2>1, EmitsIs DEF IsSent
  <1>7. OnlyCalls(h) /\ CallOn(h)'
    <2>1. call' = [call EXCEPT ![h] = [at |-> "idle", socket |-> 0]]
      BY DEF AnswerReturns, Idle
    <2> QED BY <1>0, <2>1, CallGoesOn DEF CallOn
  <1> QED BY <1>1, <1>2, <1>3, <1>5, <1>6, <1>7

LEMMA AnswerReturnsKeeps ==
  ASSUME HInv, NEW h \in Host, AnswerReturns(h)
  PROVE  HInv'
  <1>0. TTypeOK
    BY DEF HInv
  <1>1. PICK k \in DOMAIN sockets[h], s \in Socket, r \in Header :
          /\ sockets[h][k] = s /\ s.state = "FIN_WAIT1" /\ s.remote \in Host
          /\ sockets' = [sockets EXCEPT ![h] = [sockets[h] EXCEPT ![k] = s]]
          /\ Sends(h, s, r) /\ r.flags = {"ACK"} /\ Queued(s.remote, r)
          /\ OnlyCalls(h) /\ CallOn(h)'
    BY AnswerReturnsIs
  <1>2. UNCHANGED <<freePort, task, sent, received, mishaps>>
    BY DEF AnswerReturns
  <1>3. /\ task' \in [Host -> [at : {"idle", "send", "fin"}, socket : Nat]]
        /\ \A x \in Host : task'[x].at # "idle" => task'[x] = task[x]
    BY <1>0, <1>2, TasksStay
  <1>4. /\ sent' \in [Host -> Seq(Stream)] /\ mishaps' \in Nat
        /\ \A x \in Host : Len(sent'[x]) = Len(sent[x])
    BY <1>0, <1>2 DEF TTypeOK
  <1>5. Becomes(h, k, s) /\ s.state \notin Opening /\ "PSH" \notin r.flags /\ IsSent(s, r)
    BY <1>1, SameBecomes DEF Opening, IsSent
  <1> QED BY <1>1, <1>2, <1>3, <1>4, <1>5, SenderKeeps

LEMMA AnswersKeep ==
  ASSUME HInv, NEW h \in Host, Answer(h)
  PROVE  HInv'
  BY AnswerSendsKeeps, AnswerDisconnectsKeeps, AnswerReturnsKeeps DEF Answer

\* One more stream, an empty one, for host h.
OneMore(f, g, h) == g = [f EXCEPT ![h] = Append(@, <<>>)]

\* A socket is appended to the table of h; all others stay as they are.
LEMMA OpenedIs ==
  ASSUME TTypeOK, NEW h \in Host, NEW s \in Socket, Opened(h, s)
  PROVE  /\ sockets' \in [Host -> Seq(Socket)]
         /\ sent' \in [Host -> Seq(Stream)] /\ received' \in [Host -> Seq(Stream)]
         /\ \A x \in Host : Len(sent'[x]) = Len(sockets'[x]) /\ Len(received'[x]) = Len(sockets'[x])
         /\ \A x \in Host \ {h} : sockets'[x] = sockets[x]
         /\ Len(sockets'[h]) = Len(sockets[h]) + 1 /\ sockets'[h][Len(sockets[h]) + 1] = s
         /\ DOMAIN sockets'[h] = DOMAIN sockets[h] \cup {Len(sockets[h]) + 1}
         /\ \A y \in DOMAIN sockets[h] : sockets'[h][y] = sockets[h][y]
         /\ sent'[h][Len(sockets[h]) + 1] = <<>> /\ received'[h][Len(sockets[h]) + 1] = <<>>
         /\ \A x \in Host : \A y \in DOMAIN sockets[x] :
              sent'[x][y] = sent[x][y] /\ received'[x][y] = received[x][y]
  <1>1. /\ sockets \in [Host -> Seq(Socket)] /\ sent \in [Host -> Seq(Stream)]
        /\ received \in [Host -> Seq(Stream)]
        /\ \A x \in Host : Len(sent[x]) = Len(sockets[x]) /\ Len(received[x]) = Len(sockets[x])
    BY DEF TTypeOK
  <1>2. PICK q \in Seq(Socket) : q = sockets[h]
    BY <1>1
  <1>3. PICK r : r = Append(q, s)
    OBVIOUS
  <1>4. /\ r \in Seq(Socket) /\ DOMAIN r = 1 .. Len(q) + 1 /\ Len(r) = Len(q) + 1
        /\ DOMAIN q = 1 .. Len(q) /\ Len(q) \in Nat
        /\ \A n \in DOMAIN q : r[n] = q[n]
        /\ r[Len(q) + 1] = s
    BY <1>3, AppendedIs
  <1>5. sockets' = [sockets EXCEPT ![h] = r]
    BY <1>2, <1>3 DEF Opened
  <1>6. sockets' \in [Host -> Seq(Socket)] /\ sockets'[h] = r /\ \A x \in Host \ {h} : sockets'[x] = sockets[x]
    BY <1>1, <1>4, <1>5
  <1>7. <<>> \in Stream
    BY DEF Stream
  <1>8. ASSUME NEW f \in [Host -> Seq(Stream)], NEW g, OneMore(f, g, h)
        PROVE  /\ g \in [Host -> Seq(Stream)] /\ Len(g[h]) = Len(f[h]) + 1
               /\ \A x \in Host \ {h} : g[x] = f[x]
               /\ g[h][Len(f[h]) + 1] = <<>> /\ \A y \in DOMAIN f[h] : g[h][y] = f[h][y]
    <2>1. PICK e \in Stream : e = <<>>
      BY <1>7
    <2>2. PICK u \in Seq(Stream) : u = f[h]
      OBVIOUS
    <2>3. PICK v : v = Append(u, e)
      OBVIOUS
    <2>4. /\ v \in Seq(Stream) /\ Len(v) = Len(u) + 1
          /\ v[Len(u) + 1] = e /\ \A y \in DOMAIN u : v[y] = u[y]
      BY <2>3, AppendedIs
    <2>5. g = [f EXCEPT ![h] = v]
      BY <1>8, <2>1, <2>2, <2>3 DEF OneMore
    <2> QED BY <2>1, <2>2, <2>4, <2>5
  <1>9. /\ sent' \in [Host -> Seq(Stream)] /\ Len(sent'[h]) = Len(sent[h]) + 1
        /\ \A x \in Host \ {h} : sent'[x] = sent[x]
        /\ sent'[h][Len(sent[h]) + 1] = <<>> /\ \A y \in DOMAIN sent[h] : sent'[h][y] = sent[h][y]
    <2>1. PICK f \in [Host -> Seq(Stream)] : f = sent
      BY <1>1
    <2>2. PICK g : g = sent'
      OBVIOUS
    <2>3. OneMore(f, g, h)
      BY <2>1, <2>2 DEF Opened, OneMore
    <2>4. /\ g \in [Host -> Seq(Stream)] /\ Len(g[h]) = Len(f[h]) + 1
          /\ \A x \in Host \ {h} : g[x] = f[x]
          /\ g[h][Len(f[h]) + 1] = <<>> /\ \A y \in DOMAIN f[h] : g[h][y] = f[h][y]
      BY <1>8, <2>3
    <2> QED BY <2>1, <2>2, <2>4
  <1>10. /\ received' \in [Host -> Seq(Stream)] /\ Len(received'[h]) = Len(received[h]) + 1
         /\ \A x \in Host \ {h} : received'[x] = received[x]
         /\ received'[h][Len(received[h]) + 1] = <<>>
         /\ \A y \in DOMAIN received[h] : received'[h][y] = received[h][y]
    <2>1. PICK f \in [Host -> Seq(Stream)] : f = received
      BY <1>1
    <2>2. PICK g : g = received'
      OBVIOUS
    <2>3. OneMore(f, g, h)
      BY <2>1, <2>2 DEF Opened, OneMore
    <2>4. /\ g \in [Host -> Seq(Stream)] /\ Len(g[h]) = Len(f[h]) + 1
          /\ \A x \in Host \ {h} : g[x] = f[x]
          /\ g[h][Len(f[h]) + 1] = <<>> /\ \A y \in DOMAIN f[h] : g[h][y] = f[h][y]
      BY <1>8, <2>3
    <2> QED BY <2>1, <2>2, <2>4
  <1>11. DOMAIN r = DOMAIN q \cup {Len(q) + 1}
    BY <1>4
  <1>12. \A x \in Host : Len(sent'[x]) = Len(sockets'[x]) /\ Len(received'[x]) = Len(sockets'[x])
    <2> TAKE x \in Host
    <2>1. CASE x = h
      BY <1>1, <1>2, <1>4, <1>6, <1>9, <1>10, <2>1
    <2>2. CASE x # h
      BY <1>1, <1>6, <1>9, <1>10, <2>2
    <2> QED BY <2>1, <2>2
  <1>13. ASSUME NEW x \in Host, NEW y \in DOMAIN sockets[x]
         PROVE  sent'[x][y] = sent[x][y] /\ received'[x][y] = received[x][y]
    <2>1. y \in DOMAIN sent[x] /\ y \in DOMAIN received[x]
      BY Typed
    <2> QED BY <1>9, <1>10, <2>1
  <1>14. sent'[h][Len(sockets[h]) + 1] = <<>> /\ received'[h][Len(sockets[h]) + 1] = <<>>
    BY <1>1, <1>9, <1>10
  <1> QED BY <1>2, <1>4, <1>6, <1>9, <1>10, <1>11, <1>12, <1>13, <1>14

LEMMA OpenedKeeps ==
  ASSUME HInv, NEW h \in Host, NEW s \in Socket, Opened(h, s), TTypeOK',
         NEW n, n = Len(sockets[h]) + 1, s.state \in {"LISTEN", "SYN_SENT"},
         h \in Servers => s.remote = Nobody, NoCall(h),
         IF h \in Servers THEN AtServer(h, n)' ELSE AtClient(h, n)', PortsInTurn', TablesFit',
         \A k \in DOMAIN sockets[h] : sockets[h][k].state = "ESTABLISHED" =>
           <<s.remote, s.remotePort, s.localPort>> #
           <<sockets[h][k].remote, sockets[h][k].remotePort, sockets[h][k].localPort>>,
         task' = task,
         \A x \in Host : \A m \in OnWay(x)' : m \in OnWay(x) \/ IsGenuine(m, x)'
  PROVE  HInv'
  <1>1. /\ \A x \in Host \ {h} : sockets'[x] = sockets[x]
        /\ sockets'[h][n] = s /\ DOMAIN sockets'[h] = DOMAIN sockets[h] \cup {n}
        /\ \A y \in DOMAIN sockets[h] : sockets'[h][y] = sockets[h][y]
    BY OpenedIs DEF HInv
  <1>2. \A x \in Host : \A y \in DOMAIN sockets[x] :
          y \in DOMAIN sockets'[x] /\ sockets'[x][y] = sockets[x][y]
    BY <1>1
  <1>3. \A x \in Host : \A y \in DOMAIN sockets'[x] : y \in DOMAIN sockets[x] \/ (x = h /\ y = n)
    BY <1>1
  <1>4. \A x, g \in Host : \A y, l : Peers(x, y, g, l) => Peers(x, y, g, l)'
    BY <1>2 DEF Peers
  <1>5. ASSUME NEW x \in Host, NEW y, Heard(x, y)
        PROVE  Heard(x, y)'
    <2>1. PICK g \in Host : \E l \in DOMAIN sockets[g] : Peers(x, y, g, l) /\ sockets[g][l].state # "SYN_SENT"
      BY <1>5 DEF Heard
    <2>2. PICK l \in DOMAIN sockets[g] : Peers(x, y, g, l) /\ sockets[g][l].state # "SYN_SENT"
      BY <2>1
    <2>3. Peers(x, y, g, l)' /\ l \in DOMAIN sockets'[g] /\ sockets'[g][l].state # "SYN_SENT"
      BY <1>2, <1>4, <2>2
    <2> QED BY <2>3 DEF Heard
  <1>6. Addressed'
    <2> SUFFICES ASSUME NEW x \in Host, NEW y \in DOMAIN sockets'[x]
                 PROVE  IF x \in Servers THEN AtServer(x, y)' ELSE AtClient(x, y)'
      BY DEF Addressed
    <2>1. CASE x = h /\ y = n
      BY <2>1
    <2>2. CASE ~(x = h /\ y = n)
      <3>1. y \in DOMAIN sockets[x] /\ sockets'[x][y] = sockets[x][y]
        BY <1>2, <1>3, <2>2
      <3>2. CASE x \notin Servers
        BY <3>1, <3>2 DEF HInv, Addressed, AtClient
      <3>3. CASE x \in Servers
        <4>1. AtServer(x, y)
          BY <3>1, <3>3 DEF HInv, Addressed
        <4>2. ASSUME sockets[x][y].remote # Nobody
              PROVE  \E g \in Clients : \E l \in DOMAIN sockets'[g] : Peers(x, y, g, l)'
          <5>1. PICK g \in Clients : \E l \in DOMAIN sockets[g] : Peers(x, y, g, l)
            BY <4>1, <4>2 DEF AtServer
          <5>2. PICK l \in DOMAIN sockets[g] : Peers(x, y, g, l)
            BY <5>1
          <5> QED BY <1>2, <1>4, <5>2 DEF Clients
        <4> QED BY <3>1, <3>3, <4>1, <4>2 DEF AtServer
      <3> QED BY <3>2, <3>3
    <2> QED BY <2>1, <2>2
  <1>7. ListenersLast'
    <2> SUFFICES ASSUME NEW x \in Servers, NEW y \in DOMAIN sockets'[x], NEW i \in 1 .. y - 1,
                        sockets'[x][i].state = "LISTEN"
                 PROVE  sockets'[x][y].remote = Nobody
      BY DEF ListenersLast
    <2>1. x \in Host
      BY TcpAssumption
    <2>2. CASE x = h /\ y = n
      BY <1>1, <2>2
    <2>3. CASE ~(x = h /\ y = n)
      <3>1. y \in DOMAIN sockets[x]
        BY <1>3, <2>1, <2>3
      <3>2. i \in DOMAIN sockets[x]
        BY <2>1, <3>1, Typed DEF HInv
      <3> QED BY <1>2, <2>1, <3>1, <3>2 DEF HInv, ListenersLast
    <2> QED BY <2>2, <2>3
  <1>8. OwnPeers'
    <2> SUFFICES ASSUME NEW x \in Servers, NEW i \in DOMAIN sockets'[x], NEW y \in DOMAIN sockets'[x],
                        i # y, sockets'[x][i].remote # Nobody, sockets'[x][y].remote # Nobody
                 PROVE  <<sockets'[x][i].remote, sockets'[x][i].remotePort>> #
                        <<sockets'[x][y].remote, sockets'[x][y].remotePort>>
      BY DEF OwnPeers
    <2>1. x \in Host
      BY TcpAssumption
    <2>2. ~(x = h /\ i = n) /\ ~(x = h /\ y = n)
      BY <1>1
    <2>3. i \in DOMAIN sockets[x] /\ y \in DOMAIN sockets[x]
      BY <1>3, <2>1, <2>2
    <2> QED BY <1>2, <2>1, <2>3 DEF HInv, OwnPeers
  <1>9. InCall'
    <2> SUFFICES ASSUME NEW x \in Host, task[x].at # "idle"
                 PROVE  /\ task[x].socket \in DOMAIN sockets'[x]
                        /\ sockets'[x][task[x].socket].state \notin {"LISTEN", "SYN_SENT", "SYN_RECEIVED"}
                        /\ task[x].at = "send" => x \in Senders /\ Heard(x, task[x].socket)'
      BY DEF InCall
    <2>1. PICK y : y = task[x].socket
      OBVIOUS
    <2>2. /\ y \in DOMAIN sockets[x]
          /\ sockets[x][y].state \notin {"LISTEN", "SYN_SENT", "SYN_RECEIVED"}
          /\ task[x].at = "send" => x \in Senders /\ Heard(x, y)
      BY <2>1 DEF HInv, InCall
    <2>3. task[x].at = "send" => Heard(x, y)'
      BY <1>5, <2>2
    <2> QED BY <1>2, <2>1, <2>2, <2>3
  <1>10. Genuine'
    <2> SUFFICES ASSUME NEW x \in Host, NEW m \in OnWay(x)', m \in OnWay(x)
                 PROVE  IsGenuine(m, x)'
      BY DEF Genuine
    <2>1. m.src \in Host
      BY Typed DEF HInv
    <2>2. PICK l \in DOMAIN sockets[m.src] :
            /\ SentBy(m, x, l)
            /\ m.flags = {"SYN"} => m.src \in Clients
            /\ m.flags = {"SYN", "ACK"} => m.src \in Servers
            /\ "ACK" \in m.flags /\ "SYN" \notin m.flags =>
                 sockets[m.src][l].state \notin {"SYN_SENT", "SYN_RECEIVED"}
            /\ "PSH" \in m.flags => Heard(m.src, l)
      BY DEF HInv, Genuine, IsGenuine
    <2>3. sockets'[m.src][l] = sockets[m.src][l] /\ l \in DOMAIN sockets'[m.src]
      BY <1>2, <2>1
    <2>4. SentBy(m, x, l)'
      BY <2>2, <2>3 DEF SentBy
    <2>5. "PSH" \in m.flags => Heard(m.src, l)'
      BY <1>5, <2>1, <2>2
    <2>6. "ACK" \in m.flags /\ "SYN" \notin m.flags =>
            sockets'[m.src][l].state \notin {"SYN_SENT", "SYN_RECEIVED"}
      BY <2>2, <2>3
    <2>7. l \in DOMAIN sockets'[m.src]
      BY <2>3
    <2> QED BY <2>2, <2>4, <2>5, <2>6, <2>7 DEF IsGenuine
  <1>11. HandshakeAgrees'
    <2> SUFFICES ASSUME NEW x \in Host, NEW y \in DOMAIN sockets'[x],
                        sockets'[x][y].state = "ESTABLISHED"
                 PROVE  /\ \E g \in Host : \E l \in DOMAIN sockets'[g] :
                             Peers(x, y, g, l)' /\ sockets'[g][l].state # "SYN_SENT"
                        /\ \A i \in DOMAIN sockets'[x] : i # y =>
                             <<sockets'[x][i].remote, sockets'[x][i].remotePort, sockets'[x][i].localPort>> #
                             <<sockets'[x][y].remote, sockets'[x][y].remotePort, sockets'[x][y].localPort>>
      BY DEF HandshakeAgrees
    <2>1. ~(x = h /\ y = n)
      BY <1>1
    <2>2. /\ y \in DOMAIN sockets[x] /\ sockets[x][y].state = "ESTABLISHED"
          /\ sockets'[x][y] = sockets[x][y]
      BY <1>2, <1>3, <2>1
    <2>3. Heard(x, y)'
      BY <1>5, <2>2 DEF HInv, HandshakeAgrees, Heard
    <2>4. ASSUME NEW i \in DOMAIN sockets'[x], i # y
          PROVE  <<sockets'[x][i].remote, sockets'[x][i].remotePort, sockets'[x][i].localPort>> #
                 <<sockets'[x][y].remote, sockets'[x][y].remotePort, sockets'[x][y].localPort>>
      <3>1. CASE x = h /\ i = n
        BY <1>1, <2>2, <3>1
      <3>2. CASE ~(x = h /\ i = n)
        BY <1>2, <1>3, <2>2, <2>4, <3>2 DEF HInv, HandshakeAgrees
      <3> QED BY <3>1, <3>2
    <2> QED BY <2>3, <2>4 DEF Heard
  <1>12. InHandler'
    <2>1. OnlyCalls(h) /\ CallOn(h)'
      BY NoCallIs DEF HInv
    <2> QED BY <1>1, <2>1, HandlersCallsStay
  <1> QED BY <1>6, <1>7, <1>8, <1>9, <1>10, <1>11, <1>12 DEF HInv

LEMMA ListenKeeps ==
  ASSUME HInv, NEW h \in Host, Listen(h)
  PROVE  HInv'
  <1>0. TTypeOK
    BY DEF HInv
  <1>1. PICK s : s = [state |-> "LISTEN", localPort |-> Port, remote |-> Nobody,
                      remotePort |-> 0, seq |-> 0, ack |-> 0]
    OBVIOUS
  <1>2. s \in Socket /\ s.state = "LISTEN" /\ s.localPort = Port /\ s.remote = Nobody
    BY <1>1, TcpAssumption DEF Socket, States
  <1>3. /\ Opened(h, s) /\ h \in Servers /\ UNCHANGED <<freePort, task, call, net, mishaps>>
        /\ NoCall(h)
    BY <1>1 DEF Listen, Tasks, NoCall, Idle
  <1>4. PICK n : n = Len(sockets[h]) + 1
    OBVIOUS
  <1>5. /\ sockets' \in [Host -> Seq(Socket)]
        /\ sent' \in [Host -> Seq(Stream)] /\ received' \in [Host -> Seq(Stream)]
        /\ \A x \in Host : Len(sent'[x]) = Len(sockets'[x]) /\ Len(received'[x]) = Len(sockets'[x])
        /\ \A x \in Host \ {h} : sockets'[x] = sockets[x]
        /\ sockets'[h][n] = s
    BY <1>0, <1>2, <1>3, <1>4, OpenedIs
  <1>6. TTypeOK'
    BY <1>0, <1>3, <1>5 DEF TTypeOK
  <1>7. AtServer(h, n)'
    BY <1>2, <1>5 DEF AtServer
  <1>8. PortsInTurn' /\ TablesFit'
    BY <1>3, <1>5 DEF HInv, PortsInTurn, TablesFit, Clients
  <1>9. \A k \in DOMAIN sockets[h] : sockets[h][k].state = "ESTABLISHED" =>
          <<s.remote, s.remotePort, s.localPort>> #
          <<sockets[h][k].remote, sockets[h][k].remotePort, sockets[h][k].localPort>>
    <2> TAKE k \in DOMAIN sockets[h]
    <2>1. sockets[h][k].state = "ESTABLISHED" => sockets[h][k].remote \in Host
      BY HasRemote
    <2> QED BY <1>2, <2>1, TcpAssumption
  <1>10. \A x \in Host : \A m \in OnWay(x)' : m \in OnWay(x)
    BY <1>3 DEF OnWay
  <1>11. task' = task
    BY <1>3
  <1>12. s.state \in {"LISTEN", "SYN_SENT"} /\ (h \in Servers => s.remote = Nobody)
    BY <1>2
  <1> QED BY <1>2, <1>3, <1>4, <1>6, <1>7, <1>8, <1>9, <1>10, <1>11, <1>12, OpenedKeeps

LEMMA ConnectKeeps ==
  ASSUME HInv, NEW h \in Host, NEW g \in Host, Connect(h, g)
  PROVE  HInv'
  <1>0. TTypeOK
    BY DEF HInv
  <1>1. PICK s : s = [state |-> "SYN_SENT", localPort |-> freePort[h], remote |-> g,
                      remotePort |-> Port, seq |-> 0, ack |-> 0]
    OBVIOUS
  <1>2. /\ h \notin Servers /\ h \in Clients /\ g \in Servers /\ Len(sockets[h]) < MaxConnects
        /\ Opened(h, s) /\ UNCHANGED <<task, call, mishaps>> /\ NoCall(h)
    BY <1>1 DEF Connect, Clients, Tasks, NoCall, Idle
  <1>3. /\ s \in Socket /\ s.state = "SYN_SENT" /\ s.localPort = freePort[h]
        /\ s.remote = g /\ s.remotePort = Port
    BY <1>0, <1>1, TcpAssumption DEF Socket, States, TTypeOK
  <1>4. PICK n \in Nat : n = Len(sockets[h]) + 1
    BY <1>0, Typed
  <1>5. /\ sockets' \in [Host -> Seq(Socket)]
        /\ sent' \in [Host -> Seq(Stream)] /\ received' \in [Host -> Seq(Stream)]
        /\ \A x \in Host : Len(sent'[x]) = Len(sockets'[x]) /\ Len(received'[x]) = Len(sockets'[x])
        /\ \A x \in Host \ {h} : sockets'[x] = sockets[x]
        /\ Len(sockets'[h]) = n /\ sockets'[h][n] = s
        /\ DOMAIN sockets'[h] = DOMAIN sockets[h] \cup {n}
    BY <1>0, <1>2, <1>3, <1>4, OpenedIs
  <1>6. PICK r : r = Segment(h, s, {"SYN"}, NoData)
    OBVIOUS
  <1>7. /\ r \in Header /\ r.src = h /\ r.sport = s.localPort /\ r.dport = s.remotePort
        /\ r.flags = {"SYN"}
    <2>1. r \in Header
      BY <1>3, <1>6, SegmentIs DEF Flags
    <2> QED BY <1>6, <2>1 DEF Segment
  <1>8. Queued(g, r)
    BY <1>1, <1>6 DEF Connect, Queued
  <1>9. /\ net' \in [Host -> Seq(Header)]
        /\ \A x \in Host : \A m \in OnWay(x)' : m \in OnWay(x) \/ (x = g /\ m = r)
    BY <1>0, <1>7, <1>8, QueuedIs
  <1>10. freePort[h] = PortOf(n)
    BY <1>2, <1>4 DEF HInv, PortsInTurn
  <1>11. freePort' = [freePort EXCEPT ![h] = PortOf(n + 1)] /\ PortOf(n + 1) \in Nat
    <2>1. PICK p : p = (freePort[h] + 1) % 65536
      OBVIOUS
    <2>2. freePort' = [freePort EXCEPT ![h] = p]
      BY <2>1 DEF Connect
    <2>a. p = PortOf(n + 1)
      BY <1>10, <2>1, PortsGoOn
    <2>3. n + 1 \in Nat
      OBVIOUS
    <2>4. PortOf(n + 1) \in Nat
      BY <2>3, PortsGoOn
    <2> QED BY <2>2, <2>a, <2>4
  <1>12. /\ freePort' \in [Host -> Nat] /\ freePort'[h] = PortOf(n + 1)
         /\ \A x \in Host \ {h} : freePort'[x] = freePort[x]
    BY <1>0, <1>11 DEF TTypeOK
  <1>13. TTypeOK'
    BY <1>0, <1>2, <1>5, <1>9, <1>12 DEF TTypeOK
  <1>14. AtClient(h, n)'
    BY <1>2, <1>3, <1>5, <1>10 DEF AtClient
  <1>15. PortsInTurn'
    <2> SUFFICES ASSUME NEW x \in Clients
                 PROVE  freePort'[x] = PortOf(Len(sockets'[x]) + 1)
      BY DEF PortsInTurn
    <2>1. CASE x = h
      BY <1>5, <1>12, <2>1
    <2>2. CASE x # h
      BY <1>5, <1>12, <2>2 DEF HInv, PortsInTurn, Clients
    <2> QED BY <2>1, <2>2
  <1>16. TablesFit'
    <2> SUFFICES ASSUME NEW x \in Clients
                 PROVE  Len(sockets'[x]) <= MaxConnects
      BY DEF TablesFit
    <2>1. CASE x = h
      <3>1. Len(sockets[h]) \in Nat /\ MaxConnects \in Nat
        BY <1>0, Typed, TcpAssumption
      <3> QED BY <1>2, <1>4, <1>5, <2>1, <3>1
    <2>2. CASE x # h
      BY <1>5, <2>2 DEF HInv, TablesFit, Clients
    <2> QED BY <2>1, <2>2
  <1>17. \A k \in DOMAIN sockets[h] : sockets[h][k].state = "ESTABLISHED" =>
           <<s.remote, s.remotePort, s.localPort>> #
           <<sockets[h][k].remote, sockets[h][k].remotePort, sockets[h][k].localPort>>
    <2> TAKE k \in DOMAIN sockets[h]
    <2>1. sockets[h][k].localPort = PortOf(k)
      BY <1>2 DEF HInv, Addressed, AtClient
    <2>2. k \in 1 .. Len(sockets[h]) /\ Len(sockets[h]) \in Nat
      BY <1>0, Typed
    <2>3. MaxConnects \in Nat /\ MaxConnects <= 65535
      BY TcpAssumption
    <2>4. k \in Nat /\ 1 <= k /\ k <= 65535 /\ 1 <= n /\ n <= 65535 /\ k # n
      BY <1>2, <1>4, <2>2, <2>3
    <2>5. PortOf(k) # PortOf(n)
      BY <2>4, PortsDiffer
    <2> QED BY <1>3, <1>10, <2>1, <2>5
  <1>18. IsGenuine(r, g)'
    <2>1. n \in DOMAIN sockets'[h]
      BY <1>5
    <2>2. SentBy(r, g, n)'
      BY <1>3, <1>5, <1>7, <2>1 DEF SentBy
    <2>3. {"SYN"} # {"SYN", "ACK"} /\ "ACK" \notin {"SYN"} /\ "PSH" \notin {"SYN"}
      OBVIOUS
    <2> QED BY <1>2, <1>7, <2>1, <2>2, <2>3 DEF IsGenuine
  <1>19. \A x \in Host : \A m \in OnWay(x)' : m \in OnWay(x) \/ IsGenuine(m, x)'
    BY <1>9, <1>18
  <1>20. /\ s.state \in {"LISTEN", "SYN_SENT"} /\ (h \in Servers => s.remote = Nobody)
         /\ task' = task
    BY <1>2, <1>3
  <1> QED BY <1>2, <1>3, <1>4, <1>13, <1>14, <1>15, <1>16, <1>17, <1>19, <1>20, OpenedKeeps

-----------------------------------------------------------------------------
LEMMA HInitially == Init => HInv
  <1> SUFFICES ASSUME Init
               PROVE  HInv
    OBVIOUS
  <1>1. /\ \A h \in Host : sockets[h] = <<>> /\ net[h] = <<>> /\ task[h] = Idle /\ call[h] = Idle
        /\ \A h \in Host : freePort[h] = 1024 /\ sent[h] = <<>> /\ received[h] = <<>>
        /\ mishaps = 0
    BY DEF Init
  <1>2. DOMAIN <<>> = {} /\ Len(<<>>) = 0
    OBVIOUS
  <1>3. TTypeOK
    <2>1. sockets \in [Host -> Seq(Socket)] /\ net \in [Host -> Seq(Header)]
      BY DEF Init
    <2>2. sent \in [Host -> Seq(Stream)] /\ received \in [Host -> Seq(Stream)]
      BY DEF Init
    <2>3. /\ freePort \in [Host -> Nat] /\ task \in [Host -> [at : {"idle", "send", "fin"}, socket : Nat]]
          /\ call \in [Host -> [at : {"idle", "send", "fin", "ack"}, socket : Nat]]
      BY DEF Init, Idle
    <2> QED BY <1>1, <1>2, <2>1, <2>2, <2>3 DEF TTypeOK
  <1>4. Addressed /\ ListenersLast /\ OwnPeers /\ HandshakeAgrees
    BY <1>1, <1>2, TcpAssumption DEF Addressed, ListenersLast, OwnPeers, HandshakeAgrees
  <1>5. PortsInTurn /\ TablesFit
    <2>1. PortOf(1) = 1024
      BY DEF PortOf
    <2> QED BY <1>1, <1>2, <2>1, TcpAssumption DEF PortsInTurn, TablesFit, Clients
  <1>6. InCall /\ InHandler /\ Genuine
    BY <1>1, <1>2 DEF InCall, InHandler, CallOn, Idle, Genuine, OnWay
  <1> QED BY <1>3, <1>4, <1>5, <1>6 DEF HInv

LEMMA HUnchanged == HInv /\ UNCHANGED vars => HInv'
  <1> SUFFICES ASSUME HInv, UNCHANGED vars
               PROVE  HInv'
    OBVIOUS
  <1>1. TTypeOK' /\ net' \in [Host -> Seq(Header)] /\ mishaps' \in Nat
        /\ task' \in [Host -> [at : {"idle", "send", "fin"}, socket : Nat]]
    BY DEF vars, HInv, TTypeOK
  <1>2. InCall' /\ \A x \in Host : \A m \in OnWay(x)' : m \in OnWay(x)
    BY DEF vars, HInv, InCall, Heard, Peers, OnWay
  <1> QED BY <1>1, <1>2, QuietKeeps DEF vars

LEMMA HNextKeeps == HInv /\ Next => HInv'
  <1> SUFFICES ASSUME HInv, NEW h \in Host,
                      \/ Application(h)
                      \/ Answer(h)
                      \/ \E i \in DOMAIN net[h] : Receive(h, i) \/ Lose(h, i) \/ Repeat(h, i)
                      \/ \E k \in DOMAIN sockets[h] : Refuse(h, k)
               PROVE  HInv'
    BY DEF Next
  <1>1. CASE Application(h)
    BY <1>1, ListenKeeps, ConnectKeeps, SendMayGoKeeps, SendGoesKeeps, DisconnectStartsKeeps,
       DisconnectSendsKeeps DEF Application
  <1>2. CASE \E i \in DOMAIN net[h] : Receive(h, i) \/ Lose(h, i) \/ Repeat(h, i)
    BY <1>2, ReceiveKeeps, LoseKeeps, RepeatKeeps
  <1>3. CASE \E k \in DOMAIN sockets[h] : Refuse(h, k)
    BY <1>3, RefuseKeeps
  <1>4. CASE Answer(h)
    BY <1>4, AnswersKeep
  <1> QED BY <1>1, <1>2, <1>3, <1>4

\* The tables and the segments on their way fit together, whatever the network loses,
\* repeats and reorders and whenever sockets are disconnected: every segment has been sent
\* by a socket that still has its addresses, every server's socket with a remote end has a
\* client's there, and nothing happens to a socket while its handler answers on it.
THEOREM HandshakeInvariance == Spec => []HInv
  <1>1. HInv /\ [Next]_vars => HInv'
    BY HNextKeeps, HUnchanged
  <1> QED BY HInitially, <1>1, PTL DEF Spec

\* No listening socket is ESTABLISHED before its peer has got its SYN|ACK, and no two
\* sockets of a host answer for the same peer.
THEOREM HandshakesAgree == Spec => []HandshakeAgrees
  <1>1. HInv => HandshakeAgrees
    BY DEF HInv
  <1> QED BY HandshakeInvariance, <1>1, PTL

\* A handler whose Send never returns has been called for a connection that its own end has
\* disconnected: its socket is in FIN_WAIT2.
THEOREM HandlersHangOnlyWhenClosing == Spec => []HangsOnlyWhenClosing
  <1>1. HInv => HangsOnlyWhenClosing
    BY DEF HInv, InHandler, CallOn, During, HangsOnlyWhenClosing, Hangs
  <1> QED BY HandshakeInvariance, <1>1, PTL

-----------------------------------------------------------------------------
(* The streams: what has been sent, is on its way and has been taken.      *)

HasPeer(h, k) == \E g \in Host : \E j \in DOMAIN sockets[g] : Peers(h, k, g, j)

\* A socket whose application may still send, and the number its next payload will have.
MaySend(g, j) ==
  \/ sockets[g][j].state \in {"SYN_SENT", "SYN_RECEIVED", "ESTABLISHED"}
  \/ task[g].at = "send" /\ task[g].socket = j

Upcoming(g, j) == IF sockets[g][j].state = "SYN_SENT" THEN 1 ELSE sockets[g][j].seq

\* A socket that may still take payloads.
Live(h, k) == <<h, k>> \notin revived /\ sockets[h][k].state \notin {"CLOSE_WAIT", "CLOSED"}

\* No payload sent is all zero bytes.
NoneBlank(g, j) == \A n \in DOMAIN sent[g][j] : sent[g][j][n].used > 0

\* f is the number at which each payload of the socket begins, and the next will.
Begins(g, j, f) ==
  LET all == sent[g][j]
  IN  /\ f \in [1 .. Len(all) + 1 -> Nat] /\ f[1] = 1
      /\ \A n \in 1 .. Len(all) : \A i \in 1 .. n : f[i] + all[i].len <= f[n + 1]

Ahead(g, j, f) == MaySend(g, j) => f[Len(sent[g][j]) + 1] = Upcoming(g, j)

\* A segment on its way carries the payload its socket sent, at the number where it begins.
Placed(g, j, f) ==
  \A x \in Host : \A m \in OnWay(x) :
    m.src = g /\ SentBy(m, x, j) /\ "PSH" \in m.flags =>
      /\ m.data.nth \in DOMAIN sent[g][j]
      /\ m.data = sent[g][j][m.data.nth] /\ m.seq = f[m.data.nth]

\* What the peer has taken are the first payloads, and it expects a number after the
\* beginning of the last of these and not after that of the next.
Taken(g, j, f) ==
  \A h \in Host : \A k \in DOMAIN sockets[h] :
    Peers(h, k, g, j) /\ <<h, k>> \notin revived /\ NoneBlank(g, j) =>
      LET n == Len(received[h][k])
      IN  /\ n <= Len(sent[g][j])
          /\ \A i \in 1 .. n : received[h][k][i] = sent[g][j][i]
          /\ Live(h, k) => /\ n > 0 => f[n] < sockets[h][k].ack
                           /\ sockets[h][k].ack <= f[n + 1]

Flows(g, j) ==
  \E f \in [1 .. Len(sent[g][j]) + 1 -> Nat] :
    Begins(g, j, f) /\ Ahead(g, j, f) /\ Placed(g, j, f) /\ Taken(g, j, f)

\* Before the handshake is over nothing has been sent, taken or counted.
Fresh(h, k) ==
  LET s == sockets[h][k]
  IN  /\ s.state \in Opening => sent[h][k] = <<>> /\ received[h][k] = <<>>
      /\ s.state = "SYN_SENT" => s.seq = 0
      /\ s.remote = Nobody => received[h][k] = <<>>
      /\ h \in Clients /\ (s.ack # 0 \/ received[h][k] # <<>>) => HasPeer(h, k)

\* A socket in the middle of Disconnect is not ESTABLISHED.
NoneEstablished ==
  \A h \in Host : task[h].at = "fin" => sockets[h][task[h].socket].state # "ESTABLISHED"

\* The inductive invariant of the streams.
Streams ==
  /\ \A g \in Host : \A j \in DOMAIN sockets[g] : Fresh(g, j) /\ Flows(g, j)
  /\ \A h \in Host : \A m \in OnWay(h) : "SYN" \in m.flags => m.seq = 0
  /\ NoneEstablished

SInv == HInv /\ Streams

LEMMA PrefixIs ==
  ASSUME NEW S, NEW r \in Seq(S), NEW a \in Seq(S), Len(r) <= Len(a),
         \A i \in 1 .. Len(r) : r[i] = a[i]
  PROVE  IsPrefix(r, a)
  <1>1. Len(r) \in Nat /\ Len(a) \in Nat
    OBVIOUS
  <1>2. /\ SubSeq(r, 1, Len(r)) \in Seq(S) /\ Len(SubSeq(r, 1, Len(r))) = Len(r)
        /\ \A i \in 1 .. Len(r) : SubSeq(r, 1, Len(r))[i] = r[i]
    BY <1>1
  <1>3. /\ SubSeq(a, 1, Len(r)) \in Seq(S) /\ Len(SubSeq(a, 1, Len(r))) = Len(r)
        /\ \A i \in 1 .. Len(r) : SubSeq(a, 1, Len(r))[i] = a[i]
    BY <1>1
  <1>4. ASSUME NEW u \in Seq(S), NEW v \in Seq(S), Len(u) = Len(v), \A i \in 1 .. Len(u) : u[i] = v[i]
        PROVE  u = v
    BY <1>4, SMTT(30)
  <1>5. SubSeq(r, 1, Len(r)) = SubSeq(a, 1, Len(r))
    BY <1>2, <1>3, <1>4
  <1> QED BY <1>5 DEF IsPrefix

\* The invariant says what a handler is given.
LEMMA StreamsPrefix == SInv => StreamPrefix
  <1> SUFFICES ASSUME SInv, NEW h \in Host, NEW g \in Host, NEW k \in DOMAIN sockets[h]
               PROVE  /\ \A j \in DOMAIN sockets[g] :
                           Peers(h, k, g, j) /\ <<h, k>> \notin revived
                             /\ (\A n \in DOMAIN sent[g][j] : sent[g][j][n].used > 0)
                             => IsPrefix(received[h][k], sent[g][j])
                      /\ received[h][k] # <<>> =>
                           \E f \in Host : \E j \in DOMAIN sockets[f] : Peers(h, k, f, j)
    BY DEF StreamPrefix
  <1>0. HInv /\ Streams
    BY DEF SInv
  <1>1. ASSUME NEW j \in DOMAIN sockets[g], Peers(h, k, g, j), <<h, k>> \notin revived,
               \A n \in DOMAIN sent[g][j] : sent[g][j][n].used > 0
        PROVE  IsPrefix(received[h][k], sent[g][j])
    <2>1. PICK f : Taken(g, j, f)
      BY <1>0 DEF Streams, Flows
    <2>2. /\ Len(received[h][k]) <= Len(sent[g][j])
          /\ \A i \in 1 .. Len(received[h][k]) : received[h][k][i] = sent[g][j][i]
      BY <1>1, <2>1 DEF Taken, NoneBlank
    <2>3. received[h][k] \in Seq(Data) /\ sent[g][j] \in Seq(Data)
      <3>1. received[h] \in Seq(Stream) /\ sent[g] \in Seq(Stream)
            /\ DOMAIN received[h] = DOMAIN sockets[h] /\ DOMAIN sent[g] = DOMAIN sockets[g]
        BY <1>0, Typed DEF HInv
      <3> QED BY <3>1 DEF Stream
    <2>4. PICK r \in Seq(Data), a \in Seq(Data) : r = received[h][k] /\ a = sent[g][j]
      BY <2>3
    <2> QED BY <2>2, <2>4, PrefixIs
  <1>2. ASSUME received[h][k] # <<>>
        PROVE  \E f \in Host : \E j \in DOMAIN sockets[f] : Peers(h, k, f, j)
    <2>1. Fresh(h, k)
      BY <1>0 DEF Streams
    <2>2. CASE h \in Clients
      BY <1>2, <2>1, <2>2 DEF Fresh, HasPeer
    <2>3. CASE h \in Servers
      <3>1. sockets[h][k].remote # Nobody
        BY <1>2, <2>1 DEF Fresh
      <3> QED BY <1>0, <2>3, <3>1 DEF HInv, Addressed, AtServer, Clients
    <2> QED BY <2>2, <2>3 DEF Clients
  <1> QED BY <1>1, <1>2

-----------------------------------------------------------------------------
(* Steps that leave a stream alone.                                        *)

\* Socket j of g sends nothing, ...
Continues(g, j) ==
  /\ j \in DOMAIN sockets[g] /\ sent'[g][j] = sent[g][j]
  /\ MaySend(g, j)' => \/ MaySend(g, j) /\ Upcoming(g, j)' = Upcoming(g, j)
                       \/ sent[g][j] = <<>> /\ Upcoming(g, j)' = 1

\* ... there is nothing of it on its way that was not there, ...
NoneComes(g, j) ==
  \A x \in Host : \A m \in OnWay(x)' :
    m.src = g /\ SentBy(m, x, j)' /\ "PSH" \in m.flags => m \in OnWay(x) /\ SentBy(m, x, j)

\* ... and socket k of h takes nothing and expects what it did.
Awaits(h, k) ==
  /\ k \in DOMAIN sockets[h] /\ received'[h][k] = received[h][k]
  /\ <<h, k>> \notin revived' => <<h, k>> \notin revived
  /\ Live(h, k)' => Live(h, k) /\ sockets'[h][k].ack = sockets[h][k].ack

Untaken(h, k) == received'[h][k] = <<>> /\ (Live(h, k)' => sockets'[h][k].ack <= 1)

NoneTakes(g, j) ==
  \A h \in Host : \A k \in DOMAIN sockets'[h] :
    Peers(h, k, g, j)' => Untaken(h, k) \/ (Peers(h, k, g, j) /\ Awaits(h, k))

LEMMA FlowsStay ==
  ASSUME SInv, NEW g \in Host, NEW j, Continues(g, j), NoneComes(g, j), NoneTakes(g, j)
  PROVE  Flows(g, j)'
  <1>1. PICK f \in [1 .. Len(sent[g][j]) + 1 -> Nat] :
          Begins(g, j, f) /\ Ahead(g, j, f) /\ Placed(g, j, f) /\ Taken(g, j, f)
    BY DEF SInv, Streams, Flows, Continues
  <1>2. sent'[g][j] = sent[g][j]
    BY DEF Continues
  <1>3. Begins(g, j, f)'
    BY <1>1, <1>2 DEF Begins
  <1>4. Ahead(g, j, f)'
    <2>1. SUFFICES ASSUME MaySend(g, j)'
                   PROVE  f[Len(sent[g][j]) + 1] = Upcoming(g, j)'
      BY <1>2 DEF Ahead
    <2>2. CASE MaySend(g, j) /\ Upcoming(g, j)' = Upcoming(g, j)
      BY <1>1, <2>2 DEF Ahead
    <2>3. CASE sent[g][j] = <<>> /\ Upcoming(g, j)' = 1
      BY <1>1, <2>3 DEF Begins
    <2> QED BY <2>1, <2>2, <2>3 DEF Continues
  <1>5. Placed(g, j, f)'
    BY <1>1, <1>2 DEF Placed, NoneComes
  <1>6. Taken(g, j, f)'
    <2> SUFFICES ASSUME NEW h \in Host, NEW k \in DOMAIN sockets'[h], Peers(h, k, g, j)',
                        <<h, k>> \notin revived', NoneBlank(g, j)'
                 PROVE  /\ Len(received'[h][k]) <= Len(sent[g][j])
                        /\ \A i \in 1 .. Len(received'[h][k]) : received'[h][k][i] = sent[g][j][i]
                        /\ Live(h, k)' =>
                             /\ Len(received'[h][k]) > 0 =>
                                  f[Len(received'[h][k])] < sockets'[h][k].ack
                             /\ sockets'[h][k].ack <= f[Len(received'[h][k]) + 1]
      BY <1>2, SMTT(30) DEF Taken
    <2>1. CASE Untaken(h, k)
      <3>1. Len(sent[g][j]) \in Nat /\ f[1] = 1
        <4>1. sent[g] \in Seq(Stream) /\ j \in DOMAIN sent[g]
          BY Typed DEF SInv, HInv, Continues
        <4>2. sent[g][j] \in Seq(Data)
          BY <4>1 DEF Stream
        <4> QED BY <1>1, <4>2 DEF Begins
      <3>2. Len(received'[h][k]) = 0
        BY <2>1 DEF Untaken
      <3> QED BY <2>1, <3>1, <3>2 DEF Untaken
    <2>2. CASE Peers(h, k, g, j) /\ Awaits(h, k)
      <3>1. k \in DOMAIN sockets[h] /\ <<h, k>> \notin revived /\ received'[h][k] = received[h][k]
        BY <2>2 DEF Awaits
      <3>2. NoneBlank(g, j)
        BY <1>2 DEF NoneBlank
      <3> QED BY <1>1, <2>2, <3>1, <3>2 DEF Taken, Awaits
    <2> QED BY <2>1, <2>2 DEF NoneTakes
  <1>7. f \in [1 .. Len(sent'[g][j]) + 1 -> Nat]
    BY <1>2
  <1> QED BY <1>3, <1>4, <1>5, <1>6, <1>7 DEF Flows

-----------------------------------------------------------------------------
(* Steps that leave all streams alone.                                     *)

Steadily(x, y) ==
  /\ Continues(x, y) /\ received'[x][y] = received[x][y]
  /\ Untaken(x, y) \/ Awaits(x, y)
  /\ sockets'[x][y].state = "SYN_SENT" => sockets'[x][y].seq = sockets[x][y].seq
  /\ sockets'[x][y].state = "ESTABLISHED" => sockets[x][y].state \in Opening \cup {"ESTABLISHED"}
  /\ sockets'[x][y].ack = sockets[x][y].ack \/ HasPeer(x, y)

NoneNew ==
  \A x \in Host : \A m \in OnWay(x)' :
    m \in OnWay(x) \/ ("PSH" \notin m.flags /\ "SYN" \notin m.flags)

\* A task that leaves a call open leaves it as it is, or on a socket that is not ESTABLISHED.
NoneDisconnects ==
  \A x \in Host : task'[x].at = "fin" =>
    task'[x] = task[x] \/ sockets'[x][task'[x].socket].state # "ESTABLISHED"

LEMMA HasPeerStays ==
  ASSUME HInv, TTypeOK', Onward, NEW x \in Host, NEW y, HasPeer(x, y)
  PROVE  HasPeer(x, y)'
  <1>1. PICK g \in Host : \E j \in DOMAIN sockets[g] : Peers(x, y, g, j)
    BY DEF HasPeer
  <1>2. PICK j \in DOMAIN sockets[g] : Peers(x, y, g, j)
    BY <1>1
  <1>3. j \in DOMAIN sockets'[g] /\ Peers(x, y, g, j)'
    BY <1>2, OnwardIs, PeersStay
  <1> QED BY <1>3 DEF HasPeer

LEMMA NoneNewComes ==
  ASSUME HInv, TTypeOK', Onward, NoneNew, NEW g \in Host, NEW j
  PROVE  NoneComes(g, j)
  <1> SUFFICES ASSUME NEW x \in Host, NEW m \in OnWay(x)', m.src = g, SentBy(m, x, j)',
                      "PSH" \in m.flags
               PROVE  m \in OnWay(x) /\ SentBy(m, x, j)
    BY DEF NoneComes
  <1>1. m \in OnWay(x)
    BY DEF NoneNew
  <1> QED BY <1>1, SendersStay

LEMMA FreshStays ==
  ASSUME SInv, TTypeOK', Onward, NEW h \in Host, NEW k \in DOMAIN sockets[h], Steadily(h, k)
  PROVE  Fresh(h, k)'
  <1>1. HInv /\ Fresh(h, k)
    BY DEF SInv, Streams
  <1>2. sent'[h][k] = sent[h][k] /\ received'[h][k] = received[h][k]
    BY DEF Steadily, Continues
  <1>3. sockets'[h][k].state = sockets[h][k].state \/ sockets'[h][k].state \notin Opening
    BY <1>1, OnwardIs
  <1>4. sockets'[h][k].state = "SYN_SENT" => sockets'[h][k].seq = 0
    BY <1>1, <1>3 DEF Steadily, Fresh, Opening
  <1>5. ASSUME h \in Clients, sockets'[h][k].ack # 0 \/ received'[h][k] # <<>>
        PROVE  HasPeer(h, k)'
    <2>1. HasPeer(h, k)
      BY <1>1, <1>2, <1>5 DEF Steadily, Fresh
    <2> QED BY <1>1, <2>1, HasPeerStays
  <1>6. sockets'[h][k].remote = Nobody => sockets[h][k].remote = Nobody
    BY <1>1, OnwardIs
  <1> QED BY <1>1, <1>2, <1>3, <1>4, <1>5, <1>6 DEF Fresh

LEMMA NoneEstablishes ==
  ASSUME SInv, NoneDisconnects,
         \A x \in Host : \A y \in DOMAIN sockets[x] :
           sockets'[x][y].state = "ESTABLISHED" => sockets[x][y].state \in Opening \cup {"ESTABLISHED"}
  PROVE  NoneEstablished'
  <1> SUFFICES ASSUME NEW h \in Host, task'[h].at = "fin"
               PROVE  sockets'[h][task'[h].socket].state # "ESTABLISHED"
    BY DEF NoneEstablished
  <1>1. CASE task'[h] = task[h]
    <2>1. PICK k : k = task[h].socket
      OBVIOUS
    <2>2. /\ k \in DOMAIN sockets[h] /\ sockets[h][k].state # "ESTABLISHED"
          /\ sockets[h][k].state \notin Opening
      BY <1>1, <2>1 DEF SInv, Streams, NoneEstablished, HInv, InCall, Opening
    <2> QED BY <1>1, <2>1, <2>2
  <1> QED BY <1>1 DEF NoneDisconnects

LEMMA SteadyKeeps ==
  ASSUME SInv, HInv', Onward, NoneNew, NoneDisconnects,
         \A x \in Host : \A y \in DOMAIN sockets[x] : Steadily(x, y)
  PROVE  SInv'
  <1>1. HInv /\ Streams /\ TTypeOK'
    BY DEF SInv, HInv
  <1>2. ASSUME NEW g \in Host, NEW j \in DOMAIN sockets'[g]
        PROVE  Flows(g, j)'
    <2>1. j \in DOMAIN sockets[g]
      BY <1>1, OnwardIs
    <2>2. Continues(g, j)
      BY <2>1 DEF Steadily
    <2>3. NoneComes(g, j)
      BY <1>1, NoneNewComes
    <2>4. NoneTakes(g, j)
      <3> SUFFICES ASSUME NEW h \in Host, NEW k \in DOMAIN sockets'[h], Peers(h, k, g, j)'
                   PROVE  Untaken(h, k) \/ (Peers(h, k, g, j) /\ Awaits(h, k))
        BY DEF NoneTakes
      <3>1. k \in DOMAIN sockets[h] /\ Peers(h, k, g, j)
        BY <1>1, OnwardIs, PeersStay
      <3> QED BY <3>1 DEF Steadily
    <2> QED BY <2>2, <2>3, <2>4, FlowsStay
  <1>3. ASSUME NEW h \in Host, NEW k \in DOMAIN sockets'[h]
        PROVE  Fresh(h, k)'
    <2>1. k \in DOMAIN sockets[h] /\ Steadily(h, k)
      BY <1>1, OnwardIs
    <2> QED BY <1>1, <2>1, FreshStays
  <1>4. \A h \in Host : \A m \in OnWay(h)' : "SYN" \in m.flags => m.seq = 0
    BY <1>1 DEF Streams, NoneNew
  <1>5. NoneEstablished'
    BY NoneEstablishes DEF Steadily
  <1> QED BY <1>2, <1>3, <1>4, <1>5 DEF SInv, Streams

\* A socket to which nothing happens.
LEMMA UnmovedIsSteady ==
  ASSUME NEW x \in Host, NEW y \in DOMAIN sockets[x],
         sockets'[x][y] = sockets[x][y],
         sent'[x][y] = sent[x][y], received'[x][y] = received[x][y],
         <<x, y>> \notin revived' => <<x, y>> \notin revived,
         task'[x].at = "send" /\ task'[x].socket = y => MaySend(x, y)
  PROVE  Steadily(x, y)
  <1>1. Continues(x, y)
    BY DEF Continues, MaySend, Upcoming
  <1>2. Awaits(x, y)
    BY DEF Awaits, Live
  <1> QED BY <1>1, <1>2 DEF Steadily

LEMMA GoesSteadily ==
  ASSUME SInv, NEW h \in Host, NEW k \in DOMAIN sockets[h], NEW s, sockets'[h][k] = s,
         DOMAIN sockets'[h] = DOMAIN sockets[h], Goes(h, k, s), HasPeer(h, k),
         task' = task, sent' = sent, received' = received, revived' = revived
  PROVE  Steadily(h, k)
  <1>0. /\ InCall /\ Fresh(h, k)
        /\ task[h].at = "send" /\ task[h].socket = k => sockets[h][k].state \notin Opening
    BY DEF SInv, Streams, HInv, InCall, Opening
  <1>a. sockets[h][k].state = "SYN_SENT" /\ s.state = "ESTABLISHED" /\ s.seq = sockets[h][k].seq + 1
        /\ (\E m \in OnWay(h) : "SYN" \in m.flags /\ s.ack = m.seq + 1) => s.seq = 1 /\ s.ack = 1
    BY <1>0 DEF SInv, Streams, Fresh
  <1>1. Continues(h, k)
    <2>1. SUFFICES ASSUME MaySend(h, k)'
                   PROVE  \/ MaySend(h, k) /\ Upcoming(h, k)' = Upcoming(h, k)
                          \/ sent[h][k] = <<>> /\ Upcoming(h, k)' = 1
      BY DEF Continues
    <2>2. CASE sockets[h][k].state = "SYN_SENT" /\ s.state = "ESTABLISHED" /\ s.seq = 1
      BY <1>0, <2>2 DEF Upcoming, Fresh, Opening
    <2>3. CASE s.state = sockets[h][k].state /\ s.seq = sockets[h][k].seq
      BY <2>1, <2>3 DEF MaySend, Upcoming
    <2>4. CASE sockets[h][k].state = "SYN_RECEIVED" /\ s.state = "ESTABLISHED" /\ s.seq = sockets[h][k].seq
      BY <2>4 DEF MaySend, Upcoming
    <2>5. CASE s.state \in {"FIN_WAIT2", "CLOSED", "CLOSE_WAIT"} /\ s.seq = sockets[h][k].seq
      <3>1. task[h].at = "send" /\ task[h].socket = k
        BY <2>1, <2>5 DEF MaySend
      <3> QED BY <1>0, <2>5, <3>1 DEF MaySend, Upcoming, Opening
    <2> QED BY <1>a, <2>2, <2>3, <2>4, <2>5 DEF Goes
  <1>2. Untaken(h, k) \/ Awaits(h, k)
    <2>1. CASE sockets[h][k].state = "SYN_SENT" /\ s.ack = 1
      BY <1>0, <2>1 DEF Untaken, Fresh, Opening
    <2>2. CASE s.state = sockets[h][k].state /\ s.ack = sockets[h][k].ack
      BY <2>2 DEF Awaits, Live
    <2>3. CASE sockets[h][k].state \in {"SYN_RECEIVED", "FIN_WAIT1"} /\ s.ack = sockets[h][k].ack
      BY <2>3 DEF Awaits, Live
    <2>4. CASE s.state \in {"CLOSED", "CLOSE_WAIT"}
      BY <2>4 DEF Awaits, Live
    <2> QED BY <1>a, <2>1, <2>2, <2>3, <2>4 DEF Goes
  <1>3. /\ s.state = "SYN_SENT" => s.seq = sockets[h][k].seq
        /\ s.state = "ESTABLISHED" => sockets[h][k].state \in Opening \cup {"ESTABLISHED"}
    BY DEF Goes, Opening
  <1> QED BY <1>1, <1>2, <1>3 DEF Steadily

LEMMA MovesSteadily ==
  ASSUME SInv, HInv', NEW h \in Host, NEW i \in DOMAIN net[h], NEW k, Moves(h, i, k), HasPeer(h, k)
  PROVE  SInv'
  <1>a. PICK s \in Socket : /\ Becomes(h, k, s) /\ Goes(h, k, s) /\ s.remote \in Host
                            /\ AnsweredAs(h, i, k, s)
    BY DEF Moves
  <1>b. PICK replies \in Seq(Header) :
          (\A r \in DOMAIN replies : Answers(h, s, replies[r])) /\ Handled(h, i, k, s, replies)
    BY <1>a DEF AnsweredAs
  <1>c. k \in DOMAIN sockets[h] /\ received' = received
    BY DEF Moves
  <1>0. HInv /\ TTypeOK /\ s.remote \in Host \ {h}
    BY <1>a, <1>c, Apart DEF SInv, HInv, Becomes, SameEnds
  <1>1. /\ \A x \in Host : Len(sockets'[x]) = Len(sockets[x]) /\ DOMAIN sockets'[x] = DOMAIN sockets[x]
        /\ \A x \in Host : \A y \in DOMAIN sockets[x] :
             sockets'[x][y] = IF x = h /\ y = k THEN s ELSE sockets[x][y]
        /\ \A x \in Host : \A m \in OnWay(x)' :
             \/ m \in OnWay(x)
             \/ x = s.remote /\ \E r \in DOMAIN replies : m = replies[r]
        /\ task' = task /\ sent' = sent /\ revived' = revived
    BY <1>0, <1>b, <1>c, HandledIs
  <1>2. Onward
    <2> SUFFICES ASSUME NEW x \in Host, NEW y \in DOMAIN sockets[x]
                 PROVE  Becomes(x, y, sockets'[x][y])
      BY <1>1 DEF Onward
    <2>1. CASE x = h /\ y = k
      BY <1>a, <1>1, <2>1
    <2>2. CASE ~(x = h /\ y = k)
      BY <1>1, <2>2 DEF Becomes, SameEnds
    <2> QED BY <2>1, <2>2
  <1>3. NoneNew
    BY <1>b, <1>1 DEF NoneNew, Answers, Sends
  <1>4. NoneDisconnects
    BY <1>1 DEF NoneDisconnects
  <1>5. ASSUME NEW x \in Host, NEW y \in DOMAIN sockets[x]
        PROVE  Steadily(x, y)
    <2>1. CASE x = h /\ y = k
      BY <1>a, <1>c, <1>1, <2>1, GoesSteadily
    <2>2. CASE ~(x = h /\ y = k)
      BY <1>c, <1>1, <2>2, UnmovedIsSteady DEF MaySend
    <2> QED BY <2>1, <2>2
  <1> QED BY <1>2, <1>3, <1>4, <1>5, SteadyKeeps

\* The socket a segment is for has a peer, unless it listens.
LEMMA SenderIsPeer ==
  ASSUME HInv, NEW h \in Host, NEW m \in OnWay(h), NEW k, IsFor(h, m, k),
         sockets[h][k].state # "LISTEN"
  PROVE  k \in DOMAIN sockets[h] /\ HasPeer(h, k) /\ sockets[h][k].remote \in Host
  BY Sender DEF HasPeer

\* A task may only have got past the wait of Send.
OnlySendsStart ==
  \A x \in Host :
    \/ task'[x] = task[x]
    \/ task'[x].at = "send" /\ sockets[x][task'[x].socket].state = "ESTABLISHED"

NoneMore == \A x \in Host : \A m \in OnWay(x)' : m \in OnWay(x)

\* Nothing happens to the sockets, and what comes was there.
LEMMA QuietSteadily ==
  ASSUME SInv, HInv', UNCHANGED <<sockets, sent, received, revived>>,
         OnlySendsStart, NoneMore
  PROVE  SInv'
  <1>1. Onward
    BY DEF Onward, Becomes, SameEnds
  <1>2. NoneNew /\ NoneDisconnects
    <2>1. NoneNew
      BY DEF NoneNew, NoneMore
    <2>2. NoneDisconnects
      BY DEF NoneDisconnects, OnlySendsStart
    <2> QED BY <2>1, <2>2
  <1>3. ASSUME NEW x \in Host, NEW y \in DOMAIN sockets[x]
        PROVE  Steadily(x, y)
    <2>1. task'[x].at = "send" /\ task'[x].socket = y => MaySend(x, y)
      BY DEF MaySend, OnlySendsStart
    <2> QED BY <2>1, UnmovedIsSteady
  <1> QED BY <1>1, <1>2, <1>3, SteadyKeeps

LEMMA SendMayGoSteadily ==
  ASSUME SInv, HInv', NEW h \in Host, NEW k \in DOMAIN sockets[h], SendMayGo(h, k)
  PROVE  SInv'
  <1>1. /\ task'[h] = [at |-> "send", socket |-> k] /\ \A x \in Host \ {h} : task'[x] = task[x]
    BY DEF SendMayGo, SInv, HInv, TTypeOK
  <1>2. UNCHANGED <<sockets, sent, received, revived>> /\ NoneMore
    BY DEF SendMayGo, OnWay, NoneMore
  <1>3. OnlySendsStart
    BY <1>1 DEF SendMayGo, OnlySendsStart
  <1> QED BY <1>2, <1>3, QuietSteadily

LEMMA TakenSteadily ==
  ASSUME SInv, HInv', NEW h \in Host, NEW i \in DOMAIN net[h],
         net' = [net EXCEPT ![h] = RemoveAt(@, i)],
         UNCHANGED <<sockets, task, sent, received, revived>>
  PROVE  SInv'
  <1>1. NoneMore
    BY TakenIs DEF SInv, HInv, NoneMore
  <1>2. OnlySendsStart
    BY DEF OnlySendsStart
  <1> QED BY <1>1, <1>2, QuietSteadily

LEMMA RepeatSteadily ==
  ASSUME SInv, HInv', NEW h \in Host, NEW i \in DOMAIN net[h], Repeat(h, i)
  PROVE  SInv'
  <1>1. PICK r \in Header : r = net[h][i] /\ r \in OnWay(h)
    BY Typed DEF SInv, HInv
  <1>2. Queued(h, r)
    BY <1>1 DEF Repeat, Queued
  <1>3. \A x \in Host : \A m \in OnWay(x)' : m \in OnWay(x) \/ (x = h /\ m = r)
    BY <1>2, QueuedIs DEF SInv, HInv
  <1>4. UNCHANGED <<sockets, task, sent, received, revived>>
    BY DEF Repeat
  <1>5. NoneMore /\ OnlySendsStart
    BY <1>1, <1>3, <1>4 DEF NoneMore, OnlySendsStart
  <1> QED BY <1>4, <1>5, QuietSteadily

\* Disconnect has put socket k of h into FIN_WAIT1 ...
LEMMA DisconnectStartsIs ==
  ASSUME HInv, NEW h \in Host, NEW k \in DOMAIN sockets[h], DisconnectStarts(h, k)
  PROVE  /\ \E s \in Socket : /\ SameEnds(sockets[h][k], s) /\ s.state = "FIN_WAIT1"
                              /\ s.ack = sockets[h][k].ack /\ OnlyBecomes(h, k, s)
         /\ task[h] = Idle
         /\ task'[h] = [at |-> "fin", socket |-> k] /\ \A x \in Host \ {h} : task'[x] = task[x]
         /\ sent' = sent /\ received' = received /\ net' = net
  <1>0. TTypeOK
    BY DEF HInv
  <1>1. k \in Nat
    BY <1>0, Typed
  <1>2. PICK o \in Socket : o = sockets[h][k]
    BY <1>0, Typed
  <1>3. PICK s : s = [o EXCEPT !.state = "FIN_WAIT1"]
    OBVIOUS
  <1>4. s \in Socket /\ SameEnds(o, s) /\ s.state = "FIN_WAIT1" /\ s.ack = o.ack
    BY <1>3, WithState DEF States
  <1>5. sockets' = [sockets EXCEPT ![h] = [sockets[h] EXCEPT ![k] = s]]
    BY <1>2, <1>3 DEF DisconnectStarts
  <1>6. OnlyBecomes(h, k, s)
    BY <1>0, <1>4, <1>5, SetIs DEF OnlyBecomes
  <1>7. /\ task'[h] = [at |-> "fin", socket |-> k] /\ \A x \in Host \ {h} : task'[x] = task[x]
        /\ sent' = sent /\ received' = received /\ net' = net /\ task[h] = Idle
    BY <1>0, <1>1 DEF DisconnectStarts, TTypeOK
  <1> QED BY <1>2, <1>4, <1>6, <1>7

LEMMA DisconnectStartsSteadily ==
  ASSUME SInv, HInv', NEW h \in Host, NEW k \in DOMAIN sockets[h], DisconnectStarts(h, k)
  PROVE  SInv'
  <1>0. TTypeOK /\ HInv
    BY DEF SInv, HInv
  <1>1. PICK s \in Socket : /\ SameEnds(sockets[h][k], s) /\ s.state = "FIN_WAIT1"
                            /\ s.ack = sockets[h][k].ack /\ OnlyBecomes(h, k, s)
    BY <1>0, DisconnectStartsIs
  <1>2. /\ task[h] = Idle
        /\ task'[h] = [at |-> "fin", socket |-> k] /\ \A x \in Host \ {h} : task'[x] = task[x]
        /\ sent' = sent /\ received' = received /\ net' = net
    BY <1>0, DisconnectStartsIs
  <1>6. /\ \A x \in Host : /\ Len(sockets'[x]) = Len(sockets[x])
                           /\ DOMAIN sockets'[x] = DOMAIN sockets[x]
        /\ \A x \in Host : \A y \in DOMAIN sockets[x] :
             sockets'[x][y] = IF x = h /\ y = k THEN s ELSE sockets[x][y]
    BY <1>1 DEF OnlyBecomes
  <1>8. /\ revived \subseteq revived'
        /\ sockets[h][k].state \in {"CLOSE_WAIT", "CLOSED"} => <<h, k>> \in revived'
    BY DEF DisconnectStarts
  <1>9. Onward
    <2> SUFFICES ASSUME NEW x \in Host, NEW y \in DOMAIN sockets[x]
                 PROVE  Becomes(x, y, sockets'[x][y])
      BY <1>6 DEF Onward
    <2>1. CASE x = h /\ y = k
      BY <1>1, <1>2, <1>6, <2>1 DEF Becomes, Opening
    <2>2. CASE ~(x = h /\ y = k)
      BY <1>6, <2>2 DEF Becomes, SameEnds
    <2> QED BY <2>1, <2>2
  <1>10. NoneNew
    BY <1>2 DEF NoneNew, OnWay
  <1>11. NoneDisconnects
    BY <1>1, <1>2, <1>6 DEF NoneDisconnects
  <1>12. Steadily(h, k)
    <2>1. ~MaySend(h, k)'
      BY <1>1, <1>2, <1>6 DEF MaySend
    <2>2. Continues(h, k)
      BY <1>2, <1>6, <2>1 DEF Continues
    <2>3. Awaits(h, k)
      BY <1>1, <1>2, <1>6, <1>8 DEF Awaits, Live
    <2>4. /\ sockets'[h][k].state = "FIN_WAIT1" /\ sockets'[h][k].ack = sockets[h][k].ack
          /\ received'[h][k] = received[h][k]
      BY <1>1, <1>2, <1>6
    <2> QED BY <2>2, <2>3, <2>4 DEF Steadily
  <1>13. ASSUME NEW x \in Host, NEW y \in DOMAIN sockets[x], ~(x = h /\ y = k)
         PROVE  Steadily(x, y)
    <2>1. task'[x].at = "send" /\ task'[x].socket = y => MaySend(x, y)
      BY <1>2 DEF MaySend
    <2> QED BY <1>2, <1>6, <1>8, <1>13, <2>1, UnmovedIsSteady
  <1> QED BY <1>9, <1>10, <1>11, <1>12, <1>13, SteadyKeeps, SMTT(30)

\* Only r may be new on the way.
LEMMA SentIs ==
  ASSUME TTypeOK, NEW s, NEW r \in Header, IsSent(s, r)
  PROVE  \A x \in Host : \A m \in OnWay(x)' : m \in OnWay(x) \/ (x = s.remote /\ m = r)
  BY QueuedIs DEF IsSent, OnWay

\* ... and has sent the FIN.
FinSent(h, k, s, r) ==
  /\ k = task[h].socket /\ sockets[h][k].state \notin Opening \cup {"ESTABLISHED"}
  /\ SameEnds(sockets[h][k], s) /\ s.state = sockets[h][k].state /\ s.ack = sockets[h][k].ack
  /\ OnlyBecomes(h, k, s)
  /\ "PSH" \notin r.flags /\ "SYN" \notin r.flags /\ IsSent(s, r)
  /\ task'[h].at = "idle" /\ \A x \in Host \ {h} : task'[x] = task[x]
  /\ sent' = sent /\ received' = received /\ revived' = revived

LEMMA DisconnectSendsIs ==
  ASSUME SInv, NEW h \in Host, DisconnectSends(h)
  PROVE  \E k \in DOMAIN sockets[h], s \in Socket, r \in Header : FinSent(h, k, s, r)
  <1>0. TTypeOK /\ HInv
    BY DEF SInv, HInv
  <1>1. PICK k : k = task[h].socket
    OBVIOUS
  <1>2. /\ k \in DOMAIN sockets[h] /\ sockets[h][k].state \notin Opening
        /\ sockets[h][k].state # "ESTABLISHED"
    BY <1>1 DEF DisconnectSends, SInv, Streams, NoneEstablished, HInv, InCall, Opening
  <1>3. PICK o \in Socket : o = sockets[h][k]
    BY <1>0, <1>2, Typed
  <1>4. PICK q \in Int : q = o.seq + 1
    BY DEF Socket
  <1>5. PICK s : s = [o EXCEPT !.seq = q]
    OBVIOUS
  <1>6. s \in Socket /\ SameEnds(o, s) /\ s.state = o.state /\ s.remote = o.remote /\ s.ack = o.ack
    BY <1>5, WithSeq
  <1>7. sockets' = [sockets EXCEPT ![h] = [sockets[h] EXCEPT ![k] = s]]
    BY <1>1, <1>3, <1>4, <1>5 DEF DisconnectSends
  <1>8. OnlyBecomes(h, k, s)
    BY <1>0, <1>2, <1>6, <1>7, SetIs DEF OnlyBecomes
  <1>9. PICK r : r = Segment(h, o, {"FIN", "ACK"}, NoData)
    OBVIOUS
  <1>10. r \in Header /\ "PSH" \notin r.flags /\ "SYN" \notin r.flags
    <2>1. r \in Header /\ r.flags = {"FIN", "ACK"}
      BY <1>9, SegmentIs DEF Flags
    <2>2. "SYN" \notin {"FIN", "ACK"} /\ "PSH" \notin {"FIN", "ACK"}
      OBVIOUS
    <2> QED BY <2>1, <2>2
  <1>12. IsSent(s, r)
    <2>1. Emits(h, o, {"FIN", "ACK"})
      BY <1>1, <1>3 DEF DisconnectSends
    <2> QED BY <1>0, <1>6, <1>9, <2>1, EmitsIs DEF IsSent
  <1>13. /\ task'[h].at = "idle" /\ \A x \in Host \ {h} : task'[x] = task[x]
         /\ sent' = sent /\ received' = received /\ revived' = revived
    BY <1>0 DEF DisconnectSends, TTypeOK, Idle
  <1>14. FinSent(h, k, s, r)
    BY <1>1, <1>2, <1>3, <1>6, <1>8, <1>10, <1>12, <1>13 DEF FinSent
  <1> QED BY <1>2, <1>6, <1>10, <1>14

LEMMA DisconnectSendsSteadily ==
  ASSUME SInv, HInv', NEW h \in Host, DisconnectSends(h)
  PROVE  SInv'
  <1>0. TTypeOK /\ HInv
    BY DEF SInv, HInv
  <1>1. PICK k \in DOMAIN sockets[h], s \in Socket, r \in Header : FinSent(h, k, s, r)
    BY DisconnectSendsIs
  <1>2. /\ sockets[h][k].state \notin Opening \cup {"ESTABLISHED"}
        /\ SameEnds(sockets[h][k], s) /\ s.state = sockets[h][k].state /\ s.ack = sockets[h][k].ack
    BY <1>1 DEF FinSent
  <1>8. /\ \A x \in Host : /\ Len(sockets'[x]) = Len(sockets[x])
                           /\ DOMAIN sockets'[x] = DOMAIN sockets[x]
        /\ \A x \in Host : \A y \in DOMAIN sockets[x] :
             sockets'[x][y] = IF x = h /\ y = k THEN s ELSE sockets[x][y]
    BY <1>1 DEF FinSent, OnlyBecomes
  <1>10. "PSH" \notin r.flags /\ "SYN" \notin r.flags /\ IsSent(s, r)
    BY <1>1 DEF FinSent
  <1>13. NoneNew
    <2>1. \A x \in Host : \A m \in OnWay(x)' : m \in OnWay(x) \/ (x = s.remote /\ m = r)
      BY <1>0, <1>10, SentIs
    <2> QED BY <1>10, <2>1 DEF NoneNew
  <1>14. /\ task'[h].at = "idle" /\ \A x \in Host \ {h} : task'[x] = task[x]
         /\ sent' = sent /\ received' = received /\ revived' = revived
    BY <1>1 DEF FinSent
  <1>15. NoneDisconnects
    BY <1>14 DEF NoneDisconnects
  <1>16. Onward
    <2> SUFFICES ASSUME NEW x \in Host, NEW y \in DOMAIN sockets[x]
                 PROVE  Becomes(x, y, sockets'[x][y])
      BY <1>8 DEF Onward
    <2>1. CASE x = h /\ y = k
      BY <1>2, <1>8, <2>1 DEF Becomes, SameEnds
    <2>2. CASE ~(x = h /\ y = k)
      BY <1>8, <2>2 DEF Becomes, SameEnds
    <2> QED BY <2>1, <2>2
  <1>17. Steadily(h, k)
    <2>1. ~MaySend(h, k)'
      BY <1>2, <1>8, <1>14 DEF MaySend, Opening
    <2>2. Continues(h, k)
      BY <1>8, <1>14, <2>1 DEF Continues
    <2>3. Awaits(h, k)
      BY <1>2, <1>8, <1>14 DEF Awaits, Live
    <2>4. /\ sockets'[h][k].state \notin Opening \cup {"ESTABLISHED"}
          /\ sockets'[h][k].ack = sockets[h][k].ack /\ received'[h][k] = received[h][k]
      BY <1>2, <1>8, <1>14
    <2> QED BY <2>2, <2>3, <2>4 DEF Steadily, Opening
  <1>18. ASSUME NEW x \in Host, NEW y \in DOMAIN sockets[x], ~(x = h /\ y = k)
         PROVE  Steadily(x, y)
    <2>1. task'[x].at = "send" /\ task'[x].socket = y => MaySend(x, y)
      BY <1>14 DEF MaySend
    <2> QED BY <1>8, <1>14, <1>18, <2>1, UnmovedIsSteady
  <1> QED BY <1>13, <1>15, <1>16, <1>17, <1>18, SteadyKeeps

-----------------------------------------------------------------------------
(* A payload is taken.                                                     *)

\* The payload at the number that is expected is the next one.
LEMMA NextIs ==
  ASSUME NEW all \in Seq(Data), NEW f \in [1 .. Len(all) + 1 -> Nat],
         \A n \in 1 .. Len(all) : \A i \in 1 .. n : f[i] + all[i].len <= f[n + 1],
         \A n \in 1 .. Len(all) : all[n].used > 0,
         NEW r \in Nat, r <= Len(all), NEW n \in 1 .. Len(all),
         r > 0 => f[r] < f[n], f[n] <= f[r + 1]
  PROVE  /\ n = r + 1
         /\ f[r + 1] < f[n] + Advance(all[n]) /\ f[n] + Advance(all[n]) <= f[r + 2]
  <1>1. Len(all) \in Nat /\ \A i \in 1 .. Len(all) : all[i].len \in Nat /\ all[i].used \in Nat
                            /\ all[i].used <= all[i].len /\ all[i].len > 0
    <2>1. Len(all) \in Nat /\ \A i \in 1 .. Len(all) : all[i] \in Data
      OBVIOUS
    <2>2. \A d \in Data : /\ d.len \in Nat /\ d.used \in Nat /\ d.used <= d.len
                          /\ d.used > 0 => d.len > 0
      BY DEF Data
    <2> QED BY <2>1, <2>2
  <1>2. \A i \in 1 .. Len(all) + 1 : f[i] \in Nat
    OBVIOUS
  <1>3. ~(n <= r)
    <2> SUFFICES ASSUME n <= r
                 PROVE  FALSE
      OBVIOUS
    <2>1. f[r] < f[n] /\ r # n
      BY <1>1, <1>2
    <2>2. PICK b \in 1 .. Len(all) : b + 1 = r /\ n <= b
      <3>1. r - 1 \in 1 .. Len(all) /\ (r - 1) + 1 = r /\ n <= r - 1
        BY <1>1, <2>1
      <3> QED BY <3>1
    <2>3. f[n] + all[n].len <= f[r]
      BY <2>2
    <2>4. f[n] \in Nat /\ f[r] \in Nat /\ all[n].len \in Nat
      BY <1>1, <1>2
    <2> QED BY <2>1, <2>3, <2>4
  <1>4. ~(n > r + 1)
    <2> SUFFICES ASSUME n > r + 1
                 PROVE  FALSE
      OBVIOUS
    <2>1. PICK b \in 1 .. Len(all), a \in 1 .. Len(all) : b + 1 = n /\ a = r + 1 /\ a <= b
      <3>1. n - 1 \in 1 .. Len(all) /\ (n - 1) + 1 = n /\ r + 1 \in 1 .. Len(all) /\ r + 1 <= n - 1
        BY <1>1
      <3> QED BY <3>1
    <2>2. f[a] + all[a].len <= f[n]
      BY <2>1
    <2>3. f[a] \in Nat /\ f[n] \in Nat /\ all[a].len \in Nat /\ all[a].len > 0 /\ f[n] <= f[a]
      BY <1>1, <1>2, <2>1
    <2> QED BY <2>2, <2>3
  <1>5. n = r + 1
    BY <1>1, <1>3, <1>4
  <1>6. f[n] + all[n].len <= f[n + 1]
    BY <1>1
  <1>7. Advance(all[n]) = all[n].used
    BY <1>1 DEF Advance
  <1> QED BY <1>1, <1>2, <1>5, <1>6, <1>7

\* Only socket k of h takes a payload, d.
OnlyTakes(h, k, d) ==
  /\ received'[h][k] = Append(received[h][k], d)
  /\ \A x \in Host : \A y \in DOMAIN sockets[x] :
       ~(x = h /\ y = k) => received'[x][y] = received[x][y]

LEMMA TakingKeeps ==
  ASSUME SInv, HInv', NEW h \in Host, NEW k \in DOMAIN sockets[h], NEW m \in OnWay(h),
         NEW e \in Host, e = m.src, NEW j \in DOMAIN sockets[e], Peers(h, k, e, j), SentBy(m, h, j),
         sockets[h][k].state \in {"ESTABLISHED", "FIN_WAIT2"},
         "PSH" \in m.flags, m.seq = sockets[h][k].ack,
         NEW s, OnlyBecomes(h, k, s), SameEnds(sockets[h][k], s), s.state = sockets[h][k].state,
         s.seq = sockets[h][k].seq, s.ack = sockets[h][k].ack + Advance(m.data),
         NoneNew, task' = task, sent' = sent, revived' = revived, OnlyTakes(h, k, m.data)
  PROVE  SInv'
  <1>1. HInv /\ Streams /\ TTypeOK /\ TTypeOK'
    BY DEF SInv, HInv
  <1>2. /\ \A x \in Host : Len(sockets'[x]) = Len(sockets[x]) /\ DOMAIN sockets'[x] = DOMAIN sockets[x]
        /\ \A x \in Host : \A y \in DOMAIN sockets[x] :
             sockets'[x][y] = IF x = h /\ y = k THEN s ELSE sockets[x][y]
    BY DEF OnlyBecomes
  <1>3. Onward
    <2> SUFFICES ASSUME NEW x \in Host, NEW y \in DOMAIN sockets[x]
                 PROVE  Becomes(x, y, sockets'[x][y])
      BY <1>2 DEF Onward
    <2>1. CASE x = h /\ y = k
      BY <1>2, <2>1 DEF Becomes
    <2>2. CASE ~(x = h /\ y = k)
      BY <1>2, <2>2 DEF Becomes, SameEnds
    <2> QED BY <2>1, <2>2
  <1>4. ASSUME NEW x \in Host, NEW y \in DOMAIN sockets[x], ~(x = h /\ y = k)
        PROVE  Steadily(x, y)
    <2>1. /\ sockets'[x][y] = sockets[x][y] /\ DOMAIN sockets'[x] = DOMAIN sockets[x]
          /\ sent'[x][y] = sent[x][y] /\ received'[x][y] = received[x][y]
      BY <1>2, <1>4 DEF OnlyTakes
    <2>2. /\ <<x, y>> \notin revived' => <<x, y>> \notin revived
          /\ task'[x].at = "send" /\ task'[x].socket = y => MaySend(x, y)
      BY DEF MaySend
    <2> QED BY <2>1, <2>2, UnmovedIsSteady
  <1>5. ASSUME NEW g \in Host, NEW l \in DOMAIN sockets[g]
        PROVE  Continues(g, l) /\ NoneComes(g, l)
    <2>1. NoneComes(g, l)
      BY <1>1, <1>3, NoneNewComes
    <2>2. sockets'[g][l].state = sockets[g][l].state /\ sockets'[g][l].seq = sockets[g][l].seq
      BY <1>2
    <2>3. Continues(g, l)
      BY <2>2 DEF Continues, MaySend, Upcoming
    <2> QED BY <2>1, <2>3
  <1>6. ASSUME NEW g \in Host, NEW l \in DOMAIN sockets[g], ~(g = e /\ l = j)
        PROVE  Flows(g, l)'
    <2>1. NoneTakes(g, l)
      <3> SUFFICES ASSUME NEW x \in Host, NEW y \in DOMAIN sockets'[x], Peers(x, y, g, l)'
                   PROVE  Untaken(x, y) \/ (Peers(x, y, g, l) /\ Awaits(x, y))
        BY DEF NoneTakes
      <3>1. y \in DOMAIN sockets[x] /\ Peers(x, y, g, l)
        BY <1>1, <1>3, OnwardIs, PeersStay
      <3>2. ~(x = h /\ y = k)
        <4> SUFFICES ASSUME x = h, y = k
                     PROVE  FALSE
          OBVIOUS
        <4>1. g = e /\ SameEnds(sockets[g][l], sockets[g][j]) /\ sockets[g][l].remote \in Host
          BY <3>1 DEF Peers, SameEnds
        <4>2. l = j
          BY <1>1, <4>1, EndsDiffer
        <4> QED BY <1>6, <4>1, <4>2
      <3> QED BY <1>4, <3>1, <3>2 DEF Steadily
    <2> QED BY <1>5, <2>1, FlowsStay
  <1>7. Flows(e, j)'
    <2>1. PICK f \in [1 .. Len(sent[e][j]) + 1 -> Nat] :
            Begins(e, j, f) /\ Ahead(e, j, f) /\ Placed(e, j, f) /\ Taken(e, j, f)
      BY <1>1 DEF Streams, Flows
    <2>2. sent[e][j] \in Seq(Data) /\ received[h][k] \in Seq(Data)
      <3>1. /\ sent[e] \in Seq(Stream) /\ j \in DOMAIN sent[e]
            /\ received[h] \in Seq(Stream) /\ k \in DOMAIN received[h]
        BY <1>1, Typed
      <3> QED BY <3>1 DEF Stream
    <2>3. Begins(e, j, f)'
      BY <2>1 DEF Begins
    <2>4. Ahead(e, j, f)'
      <3>1. sockets'[e][j].state = sockets[e][j].state /\ sockets'[e][j].seq = sockets[e][j].seq
        BY <1>2
      <3> QED BY <2>1, <3>1 DEF Ahead, MaySend, Upcoming
    <2>5. Placed(e, j, f)'
      BY <1>5, <2>1 DEF Placed, NoneComes
    <2>6. Taken(e, j, f)'
      <3> SUFFICES ASSUME NEW x \in Host, NEW y \in DOMAIN sockets'[x], Peers(x, y, e, j)',
                          <<x, y>> \notin revived, NoneBlank(e, j)
                   PROVE  /\ Len(received'[x][y]) <= Len(sent[e][j])
                          /\ \A i \in 1 .. Len(received'[x][y]) : received'[x][y][i] = sent[e][j][i]
                          /\ Live(x, y)' =>
                               /\ Len(received'[x][y]) > 0 =>
                                    f[Len(received'[x][y])] < sockets'[x][y].ack
                               /\ sockets'[x][y].ack <= f[Len(received'[x][y]) + 1]
        BY DEF Taken, NoneBlank
      <3>1. y \in DOMAIN sockets[x] /\ Peers(x, y, e, j)
        BY <1>1, <1>3, OnwardIs, PeersStay
      <3>2. CASE ~(x = h /\ y = k)
        <4>1. received'[x][y] = received[x][y] /\ sockets'[x][y] = sockets[x][y]
          BY <1>2, <3>1, <3>2 DEF OnlyTakes
        <4>2. Live(x, y)' => Live(x, y)
          BY <4>1 DEF Live
        <4>3. /\ Len(received[x][y]) <= Len(sent[e][j])
              /\ \A i \in 1 .. Len(received[x][y]) : received[x][y][i] = sent[e][j][i]
              /\ Live(x, y) =>
                   /\ Len(received[x][y]) > 0 =>
                        f[Len(received[x][y])] < sockets[x][y].ack
                   /\ sockets[x][y].ack <= f[Len(received[x][y]) + 1]
          BY <2>1, <3>1 DEF Taken
        <4> QED BY <4>1, <4>2, <4>3
      <3>3. CASE x = h /\ y = k
        <4>1. PICK r \in Nat : r = Len(received[h][k])
          BY <2>2
        <4>2. Live(h, k)
          BY <3>3 DEF Live
        <4>3. /\ r <= Len(sent[e][j])
              /\ \A i \in 1 .. r : received[h][k][i] = sent[e][j][i]
              /\ r > 0 => f[r] < sockets[h][k].ack
              /\ sockets[h][k].ack <= f[r + 1]
          BY <2>1, <3>1, <3>3, <4>1, <4>2 DEF Taken
        <4>4. PICK n \in DOMAIN sent[e][j] : m.data = sent[e][j][n] /\ m.seq = f[n]
          BY <2>1 DEF Placed
        <4>5. n \in 1 .. Len(sent[e][j]) /\ \A i \in 1 .. Len(sent[e][j]) : sent[e][j][i].used > 0
          BY <2>2 DEF NoneBlank
        <4>6. PICK all \in Seq(Data) : all = sent[e][j]
          BY <2>2
        <4>7. /\ f \in [1 .. Len(all) + 1 -> Nat]
              /\ \A b \in 1 .. Len(all) : \A i \in 1 .. b : f[i] + all[i].len <= f[b + 1]
          BY <2>1, <4>6 DEF Begins
        <4>8. /\ n = r + 1
              /\ f[r + 1] < f[n] + Advance(all[n]) /\ f[n] + Advance(all[n]) <= f[r + 2]
          <5>1. /\ r <= Len(all) /\ n \in 1 .. Len(all)
                /\ \A i \in 1 .. Len(all) : all[i].used > 0
                /\ r > 0 => f[r] < f[n]
                /\ f[n] <= f[r + 1]
            BY <4>3, <4>4, <4>5, <4>6
          <5> HIDE <4>4
          <5> QED BY <4>7, <5>1, NextIs
        <4>9. sockets'[h][k].ack = f[n] + Advance(all[n])
          BY <1>2, <4>4, <4>6
        <4>10. /\ Len(received'[h][k]) = r + 1
               /\ received'[h][k][r + 1] = m.data
               /\ \A i \in 1 .. r : received'[h][k][i] = received[h][k][i]
          BY <2>2, <4>1, AppendedIs DEF OnlyTakes
        <4>11. \A i \in 1 .. r + 1 : received'[h][k][i] = sent[e][j][i]
          <5> TAKE i \in 1 .. r + 1
          <5>1. i \in 1 .. r \/ i = r + 1
            OBVIOUS
          <5> QED BY <4>3, <4>4, <4>8, <4>10, <5>1
        <4>12. r + 1 <= Len(sent[e][j]) /\ (r + 1) + 1 = r + 2
          BY <4>5, <4>8
        <4> QED BY <3>3, <4>8, <4>9, <4>10, <4>11, <4>12
      <3> QED BY <3>2, <3>3
    <2> QED BY <2>1, <2>3, <2>4, <2>5, <2>6 DEF Flows
  <1>8. ASSUME NEW x \in Host, NEW y \in DOMAIN sockets'[x]
        PROVE  Fresh(x, y)'
    <2>1. y \in DOMAIN sockets[x]
      BY <1>2
    <2>2. CASE ~(x = h /\ y = k)
      BY <1>1, <1>3, <1>4, <2>1, <2>2, FreshStays
    <2>3. CASE x = h /\ y = k
      <3>1. HasPeer(h, k)'
        BY <1>1, <1>3, HasPeerStays DEF HasPeer
      <3>2. sockets'[h][k].state \notin Opening /\ sockets'[h][k].remote # Nobody
        BY <1>2, TcpAssumption DEF Opening, Peers, SameEnds
      <3> QED BY <2>3, <3>1, <3>2 DEF Fresh, Opening
    <2> QED BY <2>2, <2>3
  <1>9. \A x \in Host : \A n \in OnWay(x)' : "SYN" \in n.flags => n.seq = 0
    BY <1>1 DEF Streams, NoneNew
  <1>10. NoneEstablished'
    <2>1. NoneDisconnects
      BY DEF NoneDisconnects
    <2> QED BY <1>2, <2>1, NoneEstablishes
  <1> QED BY <1>2, <1>6, <1>7, <1>8, <1>9, <1>10 DEF SInv, Streams

\* What a payload that is expected and accepted does: socket k of h becomes s and answers.
DataTaken(h, i, k, s, replies) ==
  /\ SameEnds(sockets[h][k], s) /\ s.state = sockets[h][k].state /\ s.seq = sockets[h][k].seq
  /\ s.ack = sockets[h][k].ack + Advance(net[h][i].data) /\ s.remote \in Host \ {h}
  /\ sockets[h][k].state \in {"ESTABLISHED", "FIN_WAIT2"} /\ net[h][i].seq = sockets[h][k].ack
  /\ \A r \in DOMAIN replies : Answers(h, s, replies[r])
  /\ Handled(h, i, k, s, replies) /\ OnlyBecomes(h, k, s) /\ NoneNew
  /\ OnlyTakes(h, k, net[h][i].data)
  /\ task' = task /\ sent' = sent /\ revived' = revived

\* The socket becomes t, whether it answers at once or, when the payload is a request, later.
TakenAs(h, i, k, t, replies) ==
  /\ Class(h, i) = {"ACK"} /\ "PSH" \in net[h][i].flags
  /\ sockets[h][k].state \notin DOMAIN AfterAck /\ InOrder(sockets[h][k], net[h][i])
  /\ t = [sockets[h][k] EXCEPT !.ack = sockets[h][k].ack + Advance(net[h][i].data)]
  /\ replies \in {<<>>, Reply(h, t, {"ACK"})} /\ Handled(h, i, k, t, replies)
  /\ received' = [received EXCEPT ![h][k] = Append(@, net[h][i].data)]

LEMMA PayloadTakes ==
  ASSUME HInv, NEW h \in Host, NEW i \in DOMAIN net[h], NEW k, NEW t, NEW replies,
         IsFor(h, net[h][i], k), sockets[h][k].state # "CLOSED", TakenAs(h, i, k, t, replies)
  PROVE  t \in Socket /\ replies \in Seq(Header) /\ DataTaken(h, i, k, t, replies)
  <1>0. TTypeOK
    BY DEF HInv
  <1>1. PICK m \in OnWay(h) : m = net[h][i]
    BY <1>0, Typed
  <1>2. "ACK" \in m.flags /\ "SYN" \notin m.flags /\ "PSH" \in m.flags
    BY <1>1 DEF TakenAs, Class
  <1>3. /\ k \in DOMAIN sockets[h] /\ sockets[h][k].state # "LISTEN"
        /\ sockets[h][k].remote = m.src /\ m.src \in Host
        /\ sockets[h][k].state # "SYN_SENT"
    BY <1>1, <1>2, Sender
  <1>4. PICK o \in Socket : o = sockets[h][k]
    BY <1>0, <1>3, Typed
  <1>5. t = [o EXCEPT !.ack = o.ack + Advance(m.data)]
    BY <1>1, <1>4 DEF TakenAs
  <1>6. m.data \in Data
    BY <1>0, Typed
  <1>7. PICK a \in Int : a = o.ack + Advance(m.data)
    BY <1>6 DEF Socket, Advance, HeaderBytes, Data
  <1>8. /\ t \in Socket /\ SameEnds(o, t) /\ t.state = o.state /\ t.remote = o.remote
        /\ t.seq = o.seq /\ t.ack = a
    <2>1. t = [o EXCEPT !.ack = a]
      BY <1>5, <1>7
    <2>2. PICK u : u = [o EXCEPT !.ack = a]
      OBVIOUS
    <2>3. /\ u \in Socket /\ SameEnds(o, u) /\ u.state = o.state /\ u.remote = o.remote
          /\ u.seq = o.seq /\ u.ack = a
      BY <2>2, WithAck
    <2>4. u = t
      BY <2>1, <2>2
    <2> QED BY <2>3, <2>4
  <1>9. o.state \in {"ESTABLISHED", "FIN_WAIT2"}
    <2>1. o.state \notin DOMAIN AfterAck /\ o.state \in States
      BY <1>4 DEF TakenAs, Socket
    <2> QED BY <1>3, <1>4, <2>1 DEF AfterAck, States
  <1>11. Handled(h, i, k, t, replies) /\ received' = [received EXCEPT ![h][k] = Append(@, m.data)]
    BY <1>1 DEF TakenAs
  <1>12. replies \in Seq(Header) /\ \A r \in DOMAIN replies : Answers(h, t, replies[r])
    <2>1. CASE replies = <<>>
      BY <2>1
    <2>2. CASE replies = Reply(h, t, {"ACK"})
      BY <1>8, <1>9, <2>2, RepliesAre DEF Flags
    <2> QED BY <2>1, <2>2 DEF TakenAs
  <1>13. t.remote \in Host \ {h}
    BY <1>3, <1>4, <1>8, Apart
  <1>14. /\ \A x \in Host : Len(sockets'[x]) = Len(sockets[x]) /\ DOMAIN sockets'[x] = DOMAIN sockets[x]
         /\ \A x \in Host : \A y \in DOMAIN sockets[x] :
              sockets'[x][y] = IF x = h /\ y = k THEN t ELSE sockets[x][y]
         /\ \A x \in Host : \A n \in OnWay(x)' :
              \/ n \in OnWay(x)
              \/ x = t.remote /\ \E r \in DOMAIN replies : n = replies[r]
         /\ task' = task /\ sent' = sent /\ revived' = revived
    BY <1>0, <1>3, <1>8, <1>11, <1>12, <1>13, HandledIs
  <1>15. OnlyBecomes(h, k, t) /\ NoneNew
    BY <1>12, <1>14 DEF OnlyBecomes, NoneNew, Answers, Sends
  <1>16. OnlyTakes(h, k, m.data)
    <2>1. received \in [Host -> Seq(Stream)] /\ k \in DOMAIN received[h]
      BY <1>0, <1>3, Typed DEF TTypeOK
    <2>2. PICK all : all = Append(received[h][k], m.data)
      OBVIOUS
    <2>3. received' = [received EXCEPT ![h] = [received[h] EXCEPT ![k] = all]]
      BY <1>11, <2>2
    <2> QED BY <2>1, <2>2, <2>3 DEF OnlyTakes
  <1>17. /\ SameEnds(sockets[h][k], t) /\ t.state = sockets[h][k].state
         /\ t.seq = sockets[h][k].seq /\ t.ack = sockets[h][k].ack + Advance(net[h][i].data)
         /\ sockets[h][k].state \in {"ESTABLISHED", "FIN_WAIT2"}
         /\ net[h][i].seq = sockets[h][k].ack
    BY <1>1, <1>4, <1>7, <1>8, <1>9 DEF TakenAs, InOrder
  <1>18. DataTaken(h, i, k, t, replies)
    BY <1>1, <1>11, <1>12, <1>13, <1>14, <1>15, <1>16, <1>17 DEF DataTaken
  <1> QED BY <1>8, <1>12, <1>18

LEMMA OnDataTakes ==
  ASSUME HInv, NEW h \in Host, NEW i \in DOMAIN net[h], NEW k, NEW accepts,
         IsFor(h, net[h][i], k), OnData(h, i, k, accepts), sockets[h][k].state # "CLOSED",
         InOrder(sockets[h][k], net[h][i]), accepts
  PROVE  \E s \in Socket, replies \in Seq(Header) : DataTaken(h, i, k, s, replies)
  <1>1. PICK t : t = [sockets[h][k] EXCEPT !.ack = sockets[h][k].ack + Advance(net[h][i].data)]
    OBVIOUS
  <1>2. PICK replies : replies = Reply(h, t, {"ACK"})
    OBVIOUS
  <1>3. TakenAs(h, i, k, t, replies)
    BY <1>1, <1>2 DEF OnData, TakenAs
  <1>5. t \in Socket /\ replies \in Seq(Header) /\ DataTaken(h, i, k, t, replies)
    BY <1>3, PayloadTakes
  <1> QED BY <1>5

\* A request is taken like any payload; the answer comes later.
LEMMA OnRequestTakes ==
  ASSUME HInv, NEW h \in Host, NEW i \in DOMAIN net[h], NEW k,
         IsFor(h, net[h][i], k), OnRequest(h, i, k), sockets[h][k].state # "CLOSED"
  PROVE  \E s \in Socket : DataTaken(h, i, k, s, <<>>)
  <1>1. PICK t : t = [sockets[h][k] EXCEPT !.ack = sockets[h][k].ack + Advance(net[h][i].data)]
    OBVIOUS
  <1>2. PICK replies : replies = <<>>
    OBVIOUS
  <1>3. TakenAs(h, i, k, t, replies)
    BY <1>1, <1>2 DEF OnRequest, TakenAs
  <1>5. t \in Socket /\ DataTaken(h, i, k, t, replies)
    BY <1>3, PayloadTakes
  <1> QED BY <1>2, <1>5

LEMMA TakenDataSteadily ==
  ASSUME SInv, HInv', NEW h \in Host, NEW i \in DOMAIN net[h], NEW k, IsFor(h, net[h][i], k),
         "PSH" \in net[h][i].flags, "SYN" \notin net[h][i].flags, sockets[h][k].state # "LISTEN",
         NEW s, NEW replies, DataTaken(h, i, k, s, replies)
  PROVE  SInv'
  <1>0. HInv /\ TTypeOK
    BY DEF SInv, HInv
  <1>1. PICK m \in OnWay(h) : m = net[h][i]
    BY <1>0, Typed
  <1>2. /\ k \in DOMAIN sockets[h] /\ m.src \in Host
        /\ \E j \in DOMAIN sockets[m.src] : SentBy(m, h, j) /\ Peers(h, k, m.src, j)
    BY <1>0, <1>1, Sender
  <1>3. PICK e \in Host : e = m.src
    BY <1>2
  <1>4. PICK j \in DOMAIN sockets[e] : SentBy(m, h, j) /\ Peers(h, k, e, j)
    BY <1>2, <1>3
  <1>5. /\ SameEnds(sockets[h][k], s) /\ s.state = sockets[h][k].state
        /\ s.seq = sockets[h][k].seq /\ s.ack = sockets[h][k].ack + Advance(m.data)
        /\ sockets[h][k].state \in {"ESTABLISHED", "FIN_WAIT2"} /\ m.seq = sockets[h][k].ack
        /\ OnlyBecomes(h, k, s) /\ NoneNew /\ OnlyTakes(h, k, m.data)
        /\ task' = task /\ sent' = sent /\ revived' = revived
    BY <1>1 DEF DataTaken
  <1> QED BY <1>1, <1>2, <1>3, <1>4, <1>5, TakingKeeps

LEMMA OnDataSteadily ==
  ASSUME SInv, HInv', NEW h \in Host, NEW i \in DOMAIN net[h], NEW k, NEW accepts \in BOOLEAN,
         IsFor(h, net[h][i], k), OnData(h, i, k, accepts),
         sockets[h][k].state # "CLOSED"
  PROVE  SInv'
  <1>0. HInv /\ TTypeOK
    BY DEF SInv, HInv
  <1>1. PICK m \in OnWay(h) : m = net[h][i]
    BY <1>0, Typed
  <1>2. "ACK" \in m.flags /\ "SYN" \notin m.flags /\ "PSH" \in m.flags
    BY <1>1 DEF OnData, Class
  <1>3. /\ k \in DOMAIN sockets[h] /\ sockets[h][k].state # "LISTEN"
        /\ sockets[h][k].remote = m.src /\ m.src \in Host
        /\ \E j \in DOMAIN sockets[m.src] : SentBy(m, h, j) /\ Peers(h, k, m.src, j)
    BY <1>0, <1>1, <1>2, Sender
  <1>4. CASE ~(InOrder(sockets[h][k], m) /\ accepts)
    <2>1. Reset(h, i, k) /\ UNCHANGED <<received, call>>
      BY <1>1, <1>4 DEF OnData
    <2>2. Moves(h, i, k)
      BY <1>0, <1>3, <2>1, ResetMoves
    <2> QED BY <1>3, <2>2, MovesSteadily DEF HasPeer
  <1>5. CASE InOrder(sockets[h][k], m) /\ accepts
    <2>1. PICK s \in Socket, replies \in Seq(Header) : DataTaken(h, i, k, s, replies)
      BY <1>0, <1>1, <1>5, OnDataTakes
    <2> QED BY <1>1, <1>2, <1>3, <2>1, TakenDataSteadily
  <1> QED BY <1>4, <1>5

LEMMA OnRequestSteadily ==
  ASSUME SInv, HInv', NEW h \in Host, NEW i \in DOMAIN net[h], NEW k,
         IsFor(h, net[h][i], k), OnRequest(h, i, k), sockets[h][k].state # "CLOSED"
  PROVE  SInv'
  <1>0. HInv /\ TTypeOK
    BY DEF SInv, HInv
  <1>1. PICK m \in OnWay(h) : m = net[h][i]
    BY <1>0, Typed
  <1>2. "ACK" \in m.flags /\ "SYN" \notin m.flags /\ "PSH" \in m.flags
    BY <1>1 DEF OnRequest, Class
  <1>3. sockets[h][k].state # "LISTEN"
    BY <1>0, <1>1, <1>2, Sender
  <1>4. PICK s \in Socket : DataTaken(h, i, k, s, <<>>)
    BY <1>0, OnRequestTakes
  <1> QED BY <1>1, <1>2, <1>3, <1>4, TakenDataSteadily

-----------------------------------------------------------------------------
(* A socket gets its peer.                                                 *)

LEMMA BindingSteadily ==
  ASSUME SInv, HInv', NEW h \in Servers, NEW k \in DOMAIN sockets[h], sockets[h][k].state = "LISTEN",
         NEW s \in Socket, s.state = "SYN_RECEIVED", s.seq = 1, s.ack = 1, s.remote \in Host,
         OnlyBecomes(h, k, s), OnlyAnswers(h, s, s.remote),
         \A x \in Host : \A n \in OnWay(x)' : n \in OnWay(x) \/ n.seq = 0,
         UNCHANGED <<task, sent, received, revived>>
  PROVE  SInv'
  <1>0. HInv /\ Streams /\ TTypeOK /\ h \in Host
    BY TcpAssumption DEF SInv, HInv
  <1>1. /\ \A x \in Host : Len(sockets'[x]) = Len(sockets[x]) /\ DOMAIN sockets'[x] = DOMAIN sockets[x]
        /\ \A x \in Host : \A y \in DOMAIN sockets[x] :
             sockets'[x][y] = IF x = h /\ y = k THEN s ELSE sockets[x][y]
    BY DEF OnlyBecomes
  <1>2. /\ sockets[h][k].remote = Nobody
        /\ sent[h][k] = <<>> /\ received[h][k] = <<>>
    BY <1>0 DEF HInv, Addressed, AtServer, Streams, Fresh, Opening
  <1>3. ASSUME NEW y \in DOMAIN sockets[h], y # k, sockets[h][y].remote = s.remote
        PROVE  sockets[h][y].remotePort # s.remotePort
    <2>1. sockets[h][y].remote # Nobody /\ s.remote # Nobody
      BY <1>3, TcpAssumption
    <2>2. sockets'[h][y] = sockets[h][y] /\ sockets'[h][k] = s /\ y \in DOMAIN sockets'[h]
          /\ k \in DOMAIN sockets'[h]
      BY <1>0, <1>1, <1>3
    <2> QED BY <1>3, <2>1, <2>2 DEF HInv, OwnPeers
  <1>4. ASSUME NEW x \in Host, NEW y \in DOMAIN sockets[x], ~(x = h /\ y = k)
        PROVE  Steadily(x, y)
    <2>1. /\ sockets'[x][y] = sockets[x][y] /\ DOMAIN sockets'[x] = DOMAIN sockets[x]
          /\ sent'[x][y] = sent[x][y] /\ received'[x][y] = received[x][y]
      BY <1>1, <1>4
    <2>2. /\ <<x, y>> \notin revived' => <<x, y>> \notin revived
          /\ task'[x].at = "send" /\ task'[x].socket = y => MaySend(x, y)
      BY DEF MaySend
    <2> QED BY <2>1, <2>2, UnmovedIsSteady
  <1>5. ASSUME NEW g \in Host, NEW l \in DOMAIN sockets'[g]
        PROVE  Flows(g, l)'
    <2>1. l \in DOMAIN sockets[g]
      BY <1>1
    <2>2. Continues(g, l)
      <3>1. CASE g = h /\ l = k
        <4>1. sockets'[h][k].state = "SYN_RECEIVED" /\ sockets'[h][k].seq = 1
          BY <1>0, <1>1
        <4> QED BY <1>2, <3>1, <4>1 DEF Continues, Upcoming
      <3> QED BY <1>4, <2>1, <3>1 DEF Steadily
    <2>3. NoneComes(g, l)
      <3> SUFFICES ASSUME NEW x \in Host, NEW n \in OnWay(x)', n.src = g, SentBy(n, x, l)',
                          "PSH" \in n.flags
                   PROVE  n \in OnWay(x) /\ SentBy(n, x, l)
        BY DEF NoneComes
      <3>1. n \in OnWay(x)
        <4>1. "PSH" \notin {"SYN", "ACK"}
          OBVIOUS
        <4> QED BY <4>1 DEF OnlyAnswers
      <3>2. CASE g = h /\ l = k
        <4>1. PICK y \in DOMAIN sockets[h] : SentBy(n, x, y)
          BY <1>0, <3>1, <3>2 DEF HInv, Genuine, IsGenuine
        <4>2. sockets[h][y].remote = x /\ sockets[h][y].remotePort = n.dport
          BY <3>2, <4>1 DEF SentBy
        <4>3. s.remote = x /\ s.remotePort = n.dport
          BY <1>0, <1>1, <3>2 DEF SentBy
        <4>4. y # k
          BY <1>2, <4>2, TcpAssumption
        <4> QED BY <1>3, <4>2, <4>3, <4>4
      <3>3. CASE ~(g = h /\ l = k)
        <4>1. sockets'[g][l] = sockets[g][l]
          BY <1>1, <2>1, <3>3
        <4> QED BY <2>1, <3>1, <4>1 DEF SentBy
      <3> QED BY <3>2, <3>3
    <2>4. NoneTakes(g, l)
      <3> SUFFICES ASSUME NEW x \in Host, NEW y \in DOMAIN sockets'[x], Peers(x, y, g, l)'
                   PROVE  Untaken(x, y) \/ (Peers(x, y, g, l) /\ Awaits(x, y))
        BY DEF NoneTakes
      <3>1. y \in DOMAIN sockets[x]
        BY <1>1
      <3>2. CASE x = h /\ y = k
        BY <1>0, <1>1, <1>2, <3>2 DEF Untaken
      <3>3. CASE ~(x = h /\ y = k) /\ ~(g = h /\ l = k)
        <4>1. sockets'[x][y] = sockets[x][y] /\ sockets'[g][l] = sockets[g][l]
          BY <1>1, <2>1, <3>1, <3>3
        <4>2. Peers(x, y, g, l)
          BY <2>1, <3>1, <4>1 DEF Peers
        <4> QED BY <1>4, <3>1, <3>3, <4>2 DEF Steadily
      <3>4. CASE ~(x = h /\ y = k) /\ g = h /\ l = k
        <4>1. /\ sockets'[x][y] = sockets[x][y] /\ sockets[x][y].remote = h
              /\ s.remote = x /\ s.remotePort = sockets[x][y].localPort
          BY <1>0, <1>1, <3>1, <3>4 DEF Peers
        <4>2. x \in Clients
          BY <1>0, <3>1, <4>1, Apart DEF Clients
        <4>3. ~HasPeer(x, y)
          <5>1. SUFFICES ASSUME NEW e \in Host, NEW z \in DOMAIN sockets[e], Peers(x, y, e, z)
                         PROVE  FALSE
            BY DEF HasPeer
          <5>2. e = h /\ sockets[h][z].remote = x /\ sockets[h][z].remotePort = sockets[x][y].localPort
            BY <4>1, <5>1 DEF Peers
          <5>3. z # k
            BY <1>2, <5>2, TcpAssumption
          <5> QED BY <1>3, <4>1, <5>2, <5>3
        <4>4. sockets[x][y].ack = 0 /\ received[x][y] = <<>>
          BY <1>0, <3>1, <4>2, <4>3 DEF Streams, Fresh
        <4> QED BY <4>1, <4>4 DEF Untaken
      <3> QED BY <3>2, <3>3, <3>4
    <2> QED BY <2>2, <2>3, <2>4, FlowsStay
  <1>6. ASSUME NEW x \in Host, NEW y \in DOMAIN sockets'[x]
        PROVE  Fresh(x, y)'
    <2>1. y \in DOMAIN sockets[x] /\ Fresh(x, y)
      BY <1>0, <1>1 DEF Streams
    <2>2. CASE x = h /\ y = k
      BY <1>0, <1>1, <1>2, <2>2 DEF Fresh, Clients
    <2>3. CASE ~(x = h /\ y = k)
      <3>1. sockets'[x][y] = sockets[x][y]
        BY <1>1, <2>1, <2>3
      <3>2. ASSUME HasPeer(x, y)
            PROVE  HasPeer(x, y)'
        <4>a. PICK e \in Host : \E z \in DOMAIN sockets[e] : Peers(x, y, e, z)
          BY <3>2 DEF HasPeer
        <4>1. PICK z \in DOMAIN sockets[e] : Peers(x, y, e, z)
          BY <4>a
        <4>2. ~(e = h /\ z = k)
          BY <1>2, <4>1, TcpAssumption DEF Peers
        <4>3. sockets'[e][z] = sockets[e][z] /\ z \in DOMAIN sockets'[e]
          BY <1>1, <4>1, <4>2
        <4>4. Peers(x, y, e, z)'
          BY <3>1, <4>1, <4>3 DEF Peers
        <4> QED BY <4>3, <4>4 DEF HasPeer
      <3> QED BY <2>1, <3>1, <3>2 DEF Fresh
    <2> QED BY <2>2, <2>3
  <1>7. \A x \in Host : \A n \in OnWay(x)' : "SYN" \in n.flags => n.seq = 0
    BY <1>0 DEF Streams
  <1>8. NoneEstablished'
    <2>1. NoneDisconnects
      BY DEF NoneDisconnects
    <2> QED BY <1>1, <2>1, NoneEstablishes
  <1> QED BY <1>5, <1>6, <1>7, <1>8 DEF SInv, Streams

LEMMA OnSynSteadily ==
  ASSUME SInv, HInv', NEW h \in Host, NEW i \in DOMAIN net[h], NEW k, call[h].at = "idle",
         IsFor(h, net[h][i], k), OnSyn(h, i, k), mishaps' \in Nat
  PROVE  SInv'
  <1>0. HInv /\ Streams /\ TTypeOK
    BY DEF SInv, HInv
  <1>1. PICK m \in OnWay(h) : m = net[h][i]
    BY <1>0, Typed
  <1>2. k \in DOMAIN sockets[h] /\ IsFor(h, m, k) /\ m.src \in Host
    BY <1>0, <1>1, Sender
  <1>3. CASE sockets[h][k].state # "LISTEN"
    <2>1. HasPeer(h, k) /\ sockets[h][k].remote \in Host
      BY <1>0, <1>2, <1>3, SenderIsPeer
    <2>2. Reset(h, i, k) /\ UNCHANGED <<received, call>>
      BY <1>1, <1>3 DEF OnSyn
    <2>3. Moves(h, i, k)
      BY <1>0, <1>2, <2>1, <2>2, ResetMoves
    <2> QED BY <2>1, <2>3, MovesSteadily
  <1>4. CASE sockets[h][k].state = "LISTEN"
    <2>1. Binds(h, i, k, m)
      BY <1>0, <1>1, <1>2, <1>4, OnSynBinds
    <2>2. PICK s \in Socket :
            /\ s.state = "SYN_RECEIVED" /\ s.seq = 1 /\ s.ack = m.seq + 1 /\ s.remote = m.src
            /\ OnlyBecomes(h, k, s) /\ OnlyAnswers(h, s, m.src)
            /\ \A x \in Host : \A n \in OnWay(x)' : n \in OnWay(x) \/ n.seq = 0
            /\ UNCHANGED <<task, sent, received, revived>>
      BY <2>1 DEF Binds
    <2>3. h \in Servers /\ "SYN" \in m.flags
      BY <1>0, <1>2, <1>4, Sender
    <2>4. m.seq = 0
      BY <1>0, <2>3 DEF Streams
    <2>5. s.ack = 1 /\ s.remote \in Host /\ OnlyAnswers(h, s, s.remote)
      BY <1>2, <2>2, <2>4
    <2> QED BY <1>2, <1>4, <2>2, <2>3, <2>5, BindingSteadily
  <1> QED BY <1>3, <1>4

-----------------------------------------------------------------------------
(* A socket is opened.                                                     *)

\* The socket n that h has opened: no other has its port, a segment on its way from there or
\* a peer that could be its own.
LEMMA OpenedIsNew ==
  ASSUME HInv, HInv', NEW h \in Host, NEW s \in Socket, Opened(h, s),
         NEW n, n = Len(sockets[h]) + 1,
         \/ s.state = "LISTEN" /\ s.remote = Nobody
         \/ s.state = "SYN_SENT" /\ h \in Clients
  PROVE  /\ \A y \in DOMAIN sockets[h] : sockets[h][y].localPort = s.localPort => s.remote = Nobody
         /\ \A x \in Host : \A m \in OnWay(x) : ~(m.src = h /\ SentBy(m, x, n)')
         /\ \A x \in Host : \A y \in DOMAIN sockets'[x] : ~Peers(x, y, h, n)'
  <1>0. TTypeOK
    BY DEF HInv
  <1>1. /\ \A x \in Host \ {h} : sockets'[x] = sockets[x]
        /\ sockets'[h][n] = s /\ DOMAIN sockets'[h] = DOMAIN sockets[h] \cup {n}
        /\ \A y \in DOMAIN sockets[h] : sockets'[h][y] = sockets[h][y]
    BY <1>0, OpenedIs
  <1>4. ASSUME NEW y \in DOMAIN sockets[h], sockets[h][y].localPort = s.localPort, s.remote # Nobody
        PROVE  FALSE
    <2>1. h \in Clients /\ h \notin Servers
      BY <1>4 DEF Clients
    <2>2. sockets[h][y].localPort = PortOf(y)
      BY <1>0, <2>1 DEF HInv, Addressed, AtClient
    <2>3. s.localPort = PortOf(n)
      <3>1. n \in DOMAIN sockets'[h] /\ sockets'[h][n] = s
        BY <1>1
      <3>2. AtClient(h, n)'
        BY <2>1, <3>1 DEF HInv, Addressed
      <3> QED BY <3>1, <3>2 DEF AtClient
    <2>4. Len(sockets'[h]) = n /\ Len(sockets'[h]) <= MaxConnects
      <3>1. Len(sockets'[h]) = n
        BY <1>0, OpenedIs
      <3> QED BY <2>1, <3>1 DEF HInv, TablesFit
    <2>5. y \in 1 .. Len(sockets[h]) /\ Len(sockets[h]) \in Nat
      BY <1>0, Typed
    <2>6. y \in Nat /\ n \in Nat /\ 1 <= y /\ y <= 65535 /\ 1 <= n /\ n <= 65535 /\ y # n
      BY <2>4, <2>5, TcpAssumption
    <2>7. PortOf(y) # PortOf(n)
      BY <2>6, PortsDiffer
    <2> QED BY <1>4, <2>2, <2>3, <2>7
  <1>5. ASSUME NEW x \in Host, NEW m \in OnWay(x), m.src = h, SentBy(m, x, n)'
        PROVE  FALSE
    <2>2. PICK y \in DOMAIN sockets[h] : SentBy(m, x, y)
      BY <1>0, <1>5 DEF HInv, Genuine, IsGenuine
    <2>3. s.remote = x /\ sockets[h][y].localPort = s.localPort
      BY <1>1, <1>5, <2>2 DEF SentBy
    <2>4. s.remote # Nobody
      BY <2>3, TcpAssumption
    <2> QED BY <1>4, <2>3, <2>4
  <1>7. ASSUME NEW x \in Host, NEW y \in DOMAIN sockets'[x], Peers(x, y, h, n)'
        PROVE  FALSE
    <2>1. s.remote = x /\ s.remote # Nobody /\ h \in Clients /\ s.state = "SYN_SENT"
      BY <1>1, <1>7, TcpAssumption DEF Peers
    <2>2. y \in DOMAIN sockets'[x] /\ sockets'[x][y].remote = h /\ sockets'[x][y].remotePort = s.localPort
      BY <1>1, <1>7 DEF Peers
    <2>3. x \in Servers
      <3>1. AtClient(h, n)'
        BY <1>1, <2>1 DEF HInv, Addressed, Clients
      <3> QED BY <1>1, <2>1, <3>1 DEF AtClient
    <2>4. y \in DOMAIN sockets[x] /\ sockets'[x][y] = sockets[x][y] /\ x # h
      BY <1>1, <2>1, <2>3 DEF Clients
    <2>5. AtServer(x, y) /\ sockets[x][y].remote # Nobody
      BY <1>0, <2>2, <2>3, <2>4, TcpAssumption DEF HInv, Addressed
    <2>6. PICK e \in Clients : \E z \in DOMAIN sockets[e] : Peers(x, y, e, z)
      BY <2>5 DEF AtServer
    <2>7. PICK z \in DOMAIN sockets[e] : Peers(x, y, e, z)
      BY <2>6
    <2>8. e = h /\ sockets[h][z].localPort = s.localPort
      BY <2>2, <2>4, <2>7 DEF Peers
    <2> QED BY <1>4, <2>1, <2>7, <2>8
  <1> QED BY <1>4, <1>5, <1>7

LEMMA OpenedSteadily ==
  ASSUME SInv, HInv', NEW h \in Host, NEW s \in Socket, Opened(h, s),
         NEW n, n = Len(sockets[h]) + 1, s.seq = 0, s.ack = 0,
         \/ s.state = "LISTEN" /\ s.remote = Nobody
         \/ s.state = "SYN_SENT" /\ h \in Clients,
         \A x \in Host : \A m \in OnWay(x)' :
           m \in OnWay(x) \/ ("PSH" \notin m.flags /\ m.seq = 0),
         task' = task, revived' = revived
  PROVE  SInv'
  <1>0. HInv /\ Streams /\ TTypeOK
    BY DEF SInv, HInv
  <1>1. /\ \A x \in Host \ {h} : sockets'[x] = sockets[x]
        /\ sockets'[h][n] = s /\ DOMAIN sockets'[h] = DOMAIN sockets[h] \cup {n}
        /\ \A y \in DOMAIN sockets[h] : sockets'[h][y] = sockets[h][y]
        /\ sent'[h][n] = <<>> /\ received'[h][n] = <<>>
        /\ \A x \in Host : \A y \in DOMAIN sockets[x] :
             sent'[x][y] = sent[x][y] /\ received'[x][y] = received[x][y]
    BY <1>0, OpenedIs
  <1>2. /\ \A x \in Host : \A y \in DOMAIN sockets[x] :
             y \in DOMAIN sockets'[x] /\ sockets'[x][y] = sockets[x][y] /\ ~(x = h /\ y = n)
        /\ \A x \in Host : \A y \in DOMAIN sockets'[x] : y \in DOMAIN sockets[x] \/ (x = h /\ y = n)
    <2>1. n \notin DOMAIN sockets[h]
      BY <1>0, Typed
    <2> QED BY <1>1, <2>1
  <1>3. ASSUME NEW x \in Host, NEW y \in DOMAIN sockets[x]
        PROVE  Steadily(x, y)
    <2>1. /\ sockets'[x][y] = sockets[x][y]
          /\ sent'[x][y] = sent[x][y] /\ received'[x][y] = received[x][y]
      BY <1>1, <1>2
    <2>2. /\ <<x, y>> \notin revived' => <<x, y>> \notin revived
          /\ task'[x].at = "send" /\ task'[x].socket = y => MaySend(x, y)
      BY DEF MaySend
    <2> QED BY <2>1, <2>2, UnmovedIsSteady
  <1>4. /\ \A x \in Host : \A m \in OnWay(x) : ~(m.src = h /\ SentBy(m, x, n)')
        /\ \A x \in Host : \A y \in DOMAIN sockets'[x] : ~Peers(x, y, h, n)'
    BY <1>0, OpenedIsNew
  <1>5. ASSUME NEW g \in Host, NEW l \in DOMAIN sockets[g]
        PROVE  Flows(g, l)'
    <2>1. Continues(g, l)
      BY <1>3 DEF Steadily
    <2>2. NoneComes(g, l)
      <3> SUFFICES ASSUME NEW x \in Host, NEW m \in OnWay(x)', m.src = g, SentBy(m, x, l)',
                          "PSH" \in m.flags
                   PROVE  m \in OnWay(x) /\ SentBy(m, x, l)
        BY DEF NoneComes
      <3> QED BY <1>2 DEF SentBy
    <2>3. NoneTakes(g, l)
      <3> SUFFICES ASSUME NEW x \in Host, NEW y \in DOMAIN sockets'[x], Peers(x, y, g, l)'
                   PROVE  Untaken(x, y) \/ (Peers(x, y, g, l) /\ Awaits(x, y))
        BY DEF NoneTakes
      <3>1. CASE x = h /\ y = n
        BY <1>1, <3>1 DEF Untaken
      <3>2. CASE y \in DOMAIN sockets[x]
        <4>1. Peers(x, y, g, l)
          BY <1>2, <3>2 DEF Peers
        <4> QED BY <1>3, <3>2, <4>1 DEF Steadily
      <3> QED BY <1>2, <3>1, <3>2
    <2> QED BY <2>1, <2>2, <2>3, FlowsStay
  <1>6. Flows(h, n)'
    <2>1. PICK f : f = [a \in 1 .. 1 |-> 1]
      OBVIOUS
    <2>2. /\ Len(sent'[h][n]) = 0 /\ f \in [1 .. Len(sent'[h][n]) + 1 -> Nat] /\ f[1] = 1
      BY <1>1, <2>1
    <2>3. Begins(h, n, f)'
      BY <2>2 DEF Begins
    <2>4. Ahead(h, n, f)'
      <3>1. ~(task[h].at = "send" /\ task[h].socket = n)
        BY <1>0, <1>2 DEF HInv, InCall
      <3>2. MaySend(h, n)' => s.state = "SYN_SENT"
        BY <1>1, <3>1 DEF MaySend
      <3> QED BY <1>1, <2>2, <3>2 DEF Ahead, Upcoming
    <2>6. Placed(h, n, f)'
      BY <1>4 DEF Placed
    <2>8. Taken(h, n, f)'
      BY <1>4 DEF Taken
    <2> QED BY <2>2, <2>3, <2>4, <2>6, <2>8 DEF Flows
  <1>7. ASSUME NEW x \in Host, NEW y \in DOMAIN sockets'[x]
        PROVE  Fresh(x, y)'
    <2>1. CASE x = h /\ y = n
      BY <1>1, <2>1 DEF Fresh
    <2>2. CASE y \in DOMAIN sockets[x]
      <3>1. /\ Fresh(x, y) /\ sockets'[x][y] = sockets[x][y]
            /\ sent'[x][y] = sent[x][y] /\ received'[x][y] = received[x][y]
        BY <1>0, <1>1, <1>2, <2>2 DEF Streams
      <3>2. HasPeer(x, y) => HasPeer(x, y)'
        BY <1>2 DEF HasPeer, Peers
      <3> QED BY <3>1, <3>2 DEF Fresh
    <2> QED BY <1>2, <2>1, <2>2
  <1>8. \A x \in Host : \A m \in OnWay(x)' : "SYN" \in m.flags => m.seq = 0
    BY <1>0 DEF Streams
  <1>9. NoneEstablished'
    <2>1. NoneDisconnects
      BY DEF NoneDisconnects
    <2> QED BY <1>2, <2>1, NoneEstablishes
  <1>10. \A g \in Host : \A l \in DOMAIN sockets'[g] : Flows(g, l)'
    BY <1>2, <1>5, <1>6
  <1> QED BY <1>7, <1>8, <1>9, <1>10 DEF SInv, Streams

LEMMA ListenSteadily ==
  ASSUME SInv, HInv', NEW h \in Host, Listen(h)
  PROVE  SInv'
  <1>1. PICK s : s = [state |-> "LISTEN", localPort |-> Port, remote |-> Nobody,
                      remotePort |-> 0, seq |-> 0, ack |-> 0]
    OBVIOUS
  <1>2. s \in Socket /\ s.state = "LISTEN" /\ s.remote = Nobody /\ s.seq = 0 /\ s.ack = 0
    BY <1>1, TcpAssumption DEF Socket, States
  <1>3. Opened(h, s) /\ UNCHANGED <<task, net, revived>>
    BY <1>1 DEF Listen
  <1>4. PICK n : n = Len(sockets[h]) + 1
    OBVIOUS
  <1>5. \A x \in Host : \A m \in OnWay(x)' :
          m \in OnWay(x) \/ ("PSH" \notin m.flags /\ m.seq = 0)
    BY <1>3 DEF OnWay
  <1>6. task' = task /\ revived' = revived
    BY <1>3
  <1> QED BY <1>2, <1>3, <1>4, <1>5, <1>6, OpenedSteadily

LEMMA ConnectSteadily ==
  ASSUME SInv, HInv', NEW h \in Host, NEW g \in Host, Connect(h, g)
  PROVE  SInv'
  <1>0. HInv /\ TTypeOK
    BY DEF SInv, HInv
  <1>1. PICK s : s = [state |-> "SYN_SENT", localPort |-> freePort[h], remote |-> g,
                      remotePort |-> Port, seq |-> 0, ack |-> 0]
    OBVIOUS
  <1>2. s \in Socket /\ s.state = "SYN_SENT" /\ s.seq = 0 /\ s.ack = 0
    BY <1>0, <1>1, TcpAssumption DEF Socket, States, TTypeOK
  <1>3. Opened(h, s) /\ h \in Clients /\ UNCHANGED <<task, revived>>
    BY <1>1 DEF Connect, Clients
  <1>4. PICK n : n = Len(sockets[h]) + 1
    OBVIOUS
  <1>5. PICK r : r = Segment(h, s, {"SYN"}, NoData)
    OBVIOUS
  <1>6. r \in Header /\ "PSH" \notin r.flags /\ r.seq = 0
    <2>1. r \in Header /\ r.flags = {"SYN"} /\ r.seq = s.seq
      BY <1>2, <1>5, SegmentIs DEF Flags
    <2>2. "PSH" \notin {"SYN"}
      OBVIOUS
    <2> QED BY <1>2, <2>1, <2>2
  <1>7. Queued(g, r)
    BY <1>1, <1>5 DEF Connect, Queued
  <1>8. \A x \in Host : \A m \in OnWay(x)' : m \in OnWay(x) \/ (x = g /\ m = r)
    BY <1>0, <1>6, <1>7, QueuedIs
  <1>9. \A x \in Host : \A m \in OnWay(x)' :
          m \in OnWay(x) \/ ("PSH" \notin m.flags /\ m.seq = 0)
    BY <1>6, <1>8
  <1>10. task' = task /\ revived' = revived
    BY <1>3
  <1> QED BY <1>2, <1>3, <1>4, <1>9, <1>10, OpenedSteadily

-----------------------------------------------------------------------------
(* A payload is sent.                                                      *)

\* Every payload ends before the later ones begin.
Spaced(all, f) ==
  \A n \in 1 .. Len(all) : \A i \in 1 .. n : f[i] + all[i].len <= f[n + 1]

\* f numbers the payloads, and e one more of them.
Numbers(all, f) == f \in [1 .. Len(all) + 1 -> Nat] /\ Spaced(all, f)

NumbersOn(all, d, f, e) ==
  /\ Numbers(Append(all, d), e)
  /\ \A n \in 1 .. Len(all) + 1 : e[n] = f[n]
  /\ e[Len(all) + 2] = f[Len(all) + 1] + d.len

\* One more payload begins where the ones before it end.
LEMMA OneMoreBegins ==
  ASSUME NEW all \in Seq(Data), NEW d \in Data, NEW f, Numbers(all, f)
  PROVE  \E e : NumbersOn(all, d, f, e)
  <1>0. PICK more \in Seq(Data) : more = Append(all, d)
    BY AppendedIs
  <1>1. PICK c \in Nat : c = Len(all)
    OBVIOUS
  <1>2. /\ Len(more) = c + 1
        /\ \A i \in 1 .. c : more[i] = all[i]
        /\ more[c + 1] = d
    BY <1>0, <1>1
  <1>3. PICK w \in Nat : w = d.len
    BY DEF Data
  <1>4. PICK e : e = [n \in 1 .. c + 2 |-> IF n <= c + 1 THEN f[n] ELSE f[c + 1] + w]
    OBVIOUS
  <1>5. \A n \in 1 .. c + 1 : f[n] \in Nat
    BY <1>1 DEF Numbers
  <1>6. /\ e \in [1 .. c + 2 -> Nat]
        /\ \A n \in 1 .. c + 1 : e[n] = f[n]
        /\ e[c + 2] = f[c + 1] + w
    BY <1>4, <1>5
  <1>7. \A i \in 1 .. c : all[i].len \in Nat
    <2>1. \A i \in 1 .. c : all[i] \in Data
      BY <1>1
    <2> QED BY <2>1 DEF Data
  <1>8. \A n \in 1 .. c : \A i \in 1 .. n : f[i] + all[i].len <= f[n + 1]
    BY <1>1 DEF Numbers, Spaced
  <1>9. ASSUME NEW n \in 1 .. c + 1, NEW i \in 1 .. n
        PROVE  e[i] + more[i].len <= e[n + 1]
    <2>1. CASE n <= c
      <3>1. n \in 1 .. c /\ i \in 1 .. c
        BY <2>1
      <3>2. f[i] + all[i].len <= f[n + 1] /\ more[i] = all[i]
        BY <1>2, <1>8, <3>1
      <3>3. e[i] = f[i] /\ e[n + 1] = f[n + 1]
        BY <1>6, <3>1
      <3> QED BY <3>2, <3>3
    <2>2. CASE n = c + 1 /\ i = n
      <3>1. more[i].len = w
        BY <1>2, <1>3, <2>2
      <3>2. e[i] = f[c + 1] /\ e[n + 1] = f[c + 1] + w /\ f[c + 1] \in Nat
        BY <1>5, <1>6, <2>2
      <3> QED BY <3>1, <3>2
    <2>3. CASE n = c + 1 /\ i # n
      <3>1. c \in 1 .. c /\ i \in 1 .. c
        BY <2>3
      <3>2. f[i] + all[i].len <= f[c + 1] /\ more[i] = all[i]
        BY <1>2, <1>8, <3>1
      <3>3. e[i] = f[i] /\ e[n + 1] = f[c + 1] + w
        BY <1>6, <2>3, <3>1
      <3>4. f[i] \in Nat /\ all[i].len \in Nat /\ f[c + 1] \in Nat
        BY <1>5, <1>7, <3>1
      <3> QED BY <3>2, <3>3, <3>4
    <2> QED BY <2>1, <2>2, <2>3
  <1>10. Spaced(more, e)
    BY <1>2, <1>9 DEF Spaced
  <1>11. c + 2 = Len(more) + 1 /\ c + 2 = Len(all) + 2 /\ c + 1 = Len(all) + 1
    BY <1>1, <1>2
  <1>12. Numbers(more, e)
    BY <1>6, <1>10, <1>11 DEF Numbers
  <1>13. /\ \A n \in 1 .. Len(all) + 1 : e[n] = f[n]
         /\ e[Len(all) + 2] = f[Len(all) + 1] + d.len
    BY <1>3, <1>6, <1>11
  <1>14. NumbersOn(all, d, f, e)
    BY <1>0, <1>12, <1>13 DEF NumbersOn
  <1> QED BY <1>14

\* Socket k of h sends d and nothing else is sent.
OnlySends(h, k, d) ==
  /\ sent'[h][k] = Append(sent[h][k], d)
  /\ \A x \in Host : \A y \in DOMAIN sockets[x] : ~(x = h /\ y = k) => sent'[x][y] = sent[x][y]

LEMMA SendingKeeps ==
  ASSUME SInv, HInv', NEW h \in Host, NEW k \in DOMAIN sockets[h],
         MaySend(h, k), sockets[h][k].state \notin Opening, Heard(h, k),
         NEW d \in Data, d.nth = Len(sent[h][k]) + 1,
         NEW s, OnlyBecomes(h, k, s), SameEnds(sockets[h][k], s), s.state = sockets[h][k].state,
         s.ack = sockets[h][k].ack, s.seq = sockets[h][k].seq + d.len,
         NEW r, r.src = h, r.data = d, r.seq = sockets[h][k].seq, "SYN" \notin r.flags,
         r.sport = s.localPort, r.dport = s.remotePort,
         \A x \in Host : \A m \in OnWay(x)' : m \in OnWay(x) \/ (x = s.remote /\ m = r),
         OnlySends(h, k, d), received' = received, revived' = revived,
         \A x \in Host : task'[x] = task[x] \/ task'[x].at = "idle"
  PROVE  SInv'
  <1>1. HInv /\ Streams /\ TTypeOK /\ TTypeOK'
    BY DEF SInv, HInv
  <1>2. /\ \A x \in Host : Len(sockets'[x]) = Len(sockets[x]) /\ DOMAIN sockets'[x] = DOMAIN sockets[x]
        /\ \A x \in Host : \A y \in DOMAIN sockets[x] :
             sockets'[x][y] = IF x = h /\ y = k THEN s ELSE sockets[x][y]
    BY DEF OnlyBecomes
  <1>3. sockets[h][k].state \notin Opening /\ s.remote \in Host /\ HasPeer(h, k)
    BY DEF SameEnds, Heard, Peers, HasPeer
  <1>4. Onward
    <2> SUFFICES ASSUME NEW x \in Host, NEW y \in DOMAIN sockets[x]
                 PROVE  Becomes(x, y, sockets'[x][y])
      BY <1>2 DEF Onward
    <2>1. CASE x = h /\ y = k
      BY <1>2, <2>1 DEF Becomes
    <2>2. CASE ~(x = h /\ y = k)
      BY <1>2, <2>2 DEF Becomes, SameEnds
    <2> QED BY <2>1, <2>2
  <1>5. ASSUME NEW x \in Host, NEW y \in DOMAIN sockets[x], ~(x = h /\ y = k)
        PROVE  Steadily(x, y)
    <2>1. /\ sockets'[x][y] = sockets[x][y]
          /\ sent'[x][y] = sent[x][y] /\ received'[x][y] = received[x][y]
      BY <1>2, <1>5 DEF OnlySends
    <2>2. /\ <<x, y>> \notin revived' => <<x, y>> \notin revived
          /\ task'[x].at = "send" /\ task'[x].socket = y => MaySend(x, y)
      BY DEF MaySend
    <2> QED BY <2>1, <2>2, UnmovedIsSteady
  <1>6. Awaits(h, k)
    BY <1>2 DEF Awaits, Live
  <1>7. ASSUME NEW x \in Host, NEW m \in OnWay(x)', m \notin OnWay(x), NEW l, SentBy(m, x, l)'
        PROVE  x = s.remote /\ m = r /\ l = k
    <2>1. x = s.remote /\ m = r
      BY <1>7
    <2>2. SentBy(r, x, l)
      BY <1>1, <1>4, <1>7, <2>1, SendersStay
    <2>3. l \in DOMAIN sockets[h] /\ SameEnds(sockets[h][l], sockets[h][k]) /\ sockets[h][l].remote \in Host
      BY <1>3, <2>1, <2>2 DEF SentBy, SameEnds
    <2> QED BY <1>1, <2>1, <2>3, EndsDiffer
  <1>8. ASSUME NEW g \in Host, NEW l \in DOMAIN sockets[g], ~(g = h /\ l = k)
        PROVE  Flows(g, l)'
    <2>1. Continues(g, l)
      BY <1>5, <1>8 DEF Steadily
    <2>2. NoneComes(g, l)
      <3> SUFFICES ASSUME NEW x \in Host, NEW m \in OnWay(x)', m.src = g, SentBy(m, x, l)',
                          "PSH" \in m.flags
                   PROVE  m \in OnWay(x) /\ SentBy(m, x, l)
        BY DEF NoneComes
      <3>1. m \in OnWay(x)
        BY <1>7, <1>8
      <3> QED BY <1>1, <1>4, <3>1, SendersStay
    <2>3. NoneTakes(g, l)
      <3> SUFFICES ASSUME NEW x \in Host, NEW y \in DOMAIN sockets'[x], Peers(x, y, g, l)'
                   PROVE  Untaken(x, y) \/ (Peers(x, y, g, l) /\ Awaits(x, y))
        BY DEF NoneTakes
      <3>1. y \in DOMAIN sockets[x] /\ Peers(x, y, g, l)
        BY <1>1, <1>4, OnwardIs, PeersStay
      <3> QED BY <1>5, <1>6, <3>1 DEF Steadily
    <2> QED BY <2>1, <2>2, <2>3, FlowsStay
  <1>9. Flows(h, k)'
    <2>1. PICK f \in [1 .. Len(sent[h][k]) + 1 -> Nat] :
            Begins(h, k, f) /\ Ahead(h, k, f) /\ Placed(h, k, f) /\ Taken(h, k, f)
      BY <1>1 DEF Streams, Flows
    <2>2. PICK all \in Seq(Data) : all = sent[h][k]
      <3>1. sent[h] \in Seq(Stream) /\ k \in DOMAIN sent[h]
        BY <1>1, Typed
      <3> QED BY <3>1 DEF Stream
    <2>3. Numbers(all, f) /\ f[1] = 1
      BY <2>1, <2>2 DEF Begins, Numbers, Spaced
    <2>4. PICK more \in Seq(Data) : more = Append(all, d)
      BY AppendedIs
    <2>5. PICK e : NumbersOn(all, d, f, e)
      BY <2>3, OneMoreBegins
    <2>6. /\ sent'[h][k] = more /\ Len(more) = Len(all) + 1 /\ Len(all) \in Nat
          /\ \A n \in 1 .. Len(all) : more[n] = all[n]
          /\ more[Len(all) + 1] = d
      BY <2>2, <2>4 DEF OnlySends
    <2>7. /\ e \in [1 .. Len(more) + 1 -> Nat] /\ Spaced(more, e)
          /\ \A n \in 1 .. Len(all) + 1 : e[n] = f[n]
          /\ e[Len(all) + 2] = f[Len(all) + 1] + d.len
          /\ Len(more) + 1 = Len(all) + 2
      BY <2>4, <2>5, <2>6 DEF NumbersOn, Numbers
    <2>8. Begins(h, k, e)'
      <3>1. 1 \in 1 .. Len(all) + 1
        BY <2>6
      <3>2. e[1] = 1
        BY <2>3, <2>7, <3>1
      <3> QED BY <2>6, <2>7, <3>2 DEF Begins, Spaced
    <2>9. f[Len(all) + 1] = sockets[h][k].seq
      <3>1. MaySend(h, k) /\ Upcoming(h, k) = sockets[h][k].seq
        BY <1>3 DEF MaySend, Upcoming, Opening
      <3> QED BY <2>1, <2>2, <3>1 DEF Ahead
    <2>10. Ahead(h, k, e)'
      <3>1. Upcoming(h, k)' = s.seq
        BY <1>2, <1>3 DEF Upcoming, Opening
      <3>2. e[Len(sent'[h][k]) + 1] = s.seq
        BY <2>6, <2>7, <2>9
      <3> QED BY <3>1, <3>2 DEF Ahead
    <2>11. Placed(h, k, e)'
      <3> SUFFICES ASSUME NEW x \in Host, NEW m \in OnWay(x)', m.src = h, SentBy(m, x, k)',
                          "PSH" \in m.flags
                   PROVE  /\ m.data.nth \in DOMAIN more
                          /\ m.data = more[m.data.nth] /\ m.seq = e[m.data.nth]
        BY <2>6 DEF Placed
      <3>1. CASE m \in OnWay(x)
        <4>1. SentBy(m, x, k)
          BY <1>1, <1>4, SendersStay
        <4>2. m.data.nth \in DOMAIN all /\ m.data = all[m.data.nth] /\ m.seq = f[m.data.nth]
          BY <2>1, <2>2, <3>1, <4>1 DEF Placed
        <4>3. PICK n \in 1 .. Len(all) : n = m.data.nth
          BY <4>2
        <4>4. n \in DOMAIN more /\ n \in 1 .. Len(all) + 1
          BY <2>6
        <4> QED BY <2>6, <2>7, <4>2, <4>3, <4>4
      <3>2. CASE m \notin OnWay(x)
        <4>1. m = r
          BY <1>7, <3>2
        <4>2. d.nth = Len(all) + 1 /\ Len(all) + 1 \in DOMAIN more
          BY <2>2, <2>6
        <4>3. e[Len(all) + 1] = f[Len(all) + 1]
          <5>1. Len(all) + 1 \in 1 .. Len(all) + 1
            BY <2>6
          <5> QED BY <2>7, <5>1
        <4> QED BY <2>6, <2>9, <4>1, <4>2, <4>3
      <3> QED BY <3>1, <3>2
    <2>12. Taken(h, k, e)'
      <3> SUFFICES ASSUME NEW x \in Host, NEW y \in DOMAIN sockets'[x], Peers(x, y, h, k)',
                          <<x, y>> \notin revived', NoneBlank(h, k)'
                   PROVE  /\ Len(received'[x][y]) <= Len(sent'[h][k])
                          /\ \A i \in 1 .. Len(received'[x][y]) :
                               received'[x][y][i] = sent'[h][k][i]
                          /\ Live(x, y)' =>
                               /\ Len(received'[x][y]) > 0 =>
                                    e[Len(received'[x][y])] < sockets'[x][y].ack
                               /\ sockets'[x][y].ack <= e[Len(received'[x][y]) + 1]
        BY DEF Taken
      <3>1. y \in DOMAIN sockets[x] /\ Peers(x, y, h, k)
        BY <1>1, <1>4, OnwardIs, PeersStay
      <3>2. NoneBlank(h, k)
        <4>1. \A n \in DOMAIN more : more[n].used > 0
          BY <2>6 DEF NoneBlank
        <4>2. \A n \in 1 .. Len(all) : n \in DOMAIN more
          BY <2>6
        <4>3. \A n \in 1 .. Len(all) : all[n].used > 0
          BY <2>6, <4>1, <4>2
        <4> QED BY <2>2, <4>3 DEF NoneBlank
      <3>3. /\ sockets'[x][y].ack = sockets[x][y].ack
            /\ sockets'[x][y].state = sockets[x][y].state
        BY <1>2, <3>1
      <3>4. Live(x, y)' => Live(x, y)
        BY <3>3 DEF Live
      <3>5. PICK n \in Nat : n = Len(received[x][y])
        <4>1. received[x] \in Seq(Stream) /\ y \in DOMAIN received[x]
          BY <1>1, <3>1, Typed
        <4>2. received[x][y] \in Seq(Data)
          BY <4>1 DEF Stream
        <4> QED BY <4>2
      <3>6. /\ n <= Len(all)
            /\ \A i \in 1 .. n : received[x][y][i] = all[i]
            /\ Live(x, y) => /\ n > 0 => f[n] < sockets[x][y].ack
                             /\ sockets[x][y].ack <= f[n + 1]
        <4>1. <<x, y>> \notin revived
          OBVIOUS
        <4>2. /\ Len(received[x][y]) <= Len(sent[h][k])
              /\ \A i \in 1 .. Len(received[x][y]) : received[x][y][i] = sent[h][k][i]
              /\ Live(x, y) =>
                   /\ Len(received[x][y]) > 0 =>
                        f[Len(received[x][y])] < sockets[x][y].ack
                   /\ sockets[x][y].ack <= f[Len(received[x][y]) + 1]
          BY <2>1, <3>1, <3>2, <4>1 DEF Taken
        <4> QED BY <2>2, <3>5, <4>2
      <3>7. /\ n > 0 => e[n] = f[n]
            /\ e[n + 1] = f[n + 1]
        <4>1. n + 1 \in 1 .. Len(all) + 1 /\ (n > 0 => n \in 1 .. Len(all) + 1)
          BY <2>6, <3>6
        <4> QED BY <2>7, <4>1
      <3>8. n <= Len(more) /\ \A i \in 1 .. n : received[x][y][i] = more[i]
        BY <2>6, <3>6
      <3>9. received'[x][y] = received[x][y]
        OBVIOUS
      <3> QED BY <2>6, <3>3, <3>4, <3>5, <3>6, <3>7, <3>8, <3>9
    <2>13. e \in [1 .. Len(sent'[h][k]) + 1 -> Nat]
      BY <2>6, <2>7
    <2> QED BY <2>8, <2>10, <2>11, <2>12, <2>13 DEF Flows
  <1>10. ASSUME NEW x \in Host, NEW y \in DOMAIN sockets'[x]
         PROVE  Fresh(x, y)'
    <2>1. y \in DOMAIN sockets[x]
      BY <1>2
    <2>2. CASE ~(x = h /\ y = k)
      BY <1>1, <1>4, <1>5, <2>1, <2>2, FreshStays
    <2>3. CASE x = h /\ y = k
      <3>1. HasPeer(h, k)'
        BY <1>1, <1>3, <1>4, HasPeerStays
      <3>2. sockets'[h][k].state \notin Opening /\ sockets'[h][k].remote # Nobody
        BY <1>2, <1>3, TcpAssumption
      <3> QED BY <2>3, <3>1, <3>2 DEF Fresh, Opening
    <2> QED BY <2>2, <2>3
  <1>11. \A x \in Host : \A m \in OnWay(x)' : "SYN" \in m.flags => m.seq = 0
    BY <1>1 DEF Streams
  <1>12. NoneEstablished'
    <2>1. NoneDisconnects
      BY DEF NoneDisconnects
    <2> QED BY <1>2, <2>1, NoneEstablishes
  <1>13. \A g \in Host : \A l \in DOMAIN sockets'[g] : Flows(g, l)'
    BY <1>2, <1>8, <1>9
  <1> QED BY <1>10, <1>11, <1>12, <1>13 DEF SInv, Streams

\* What Send does: socket k of h becomes s and sends the segment r with the payload d.
PayloadSent(h, k, d, s, r) ==
  /\ MaySend(h, k) /\ sockets[h][k].state \notin Opening /\ Heard(h, k)
  /\ d.nth = Len(sent[h][k]) + 1 /\ d.len > 0
  /\ OnlyBecomes(h, k, s) /\ SameEnds(sockets[h][k], s) /\ s.state = sockets[h][k].state
  /\ s.ack = sockets[h][k].ack /\ s.seq = sockets[h][k].seq + d.len
  /\ r.src = h /\ r.data = d /\ r.seq = sockets[h][k].seq /\ r.flags = {"PSH", "ACK"}
  /\ r.sport = s.localPort /\ r.dport = s.remotePort
  /\ s.remote \in Host /\ Queued(s.remote, r)
  /\ OnlySends(h, k, d) /\ received' = received /\ revived' = revived
  /\ \A x \in Host : task'[x] = task[x] \/ task'[x].at = "idle"

LEMMA PayloadGoesIs ==
  ASSUME SInv, NEW h \in Host, NEW k \in DOMAIN sockets[h], MaySend(h, k),
         sockets[h][k].state \notin Opening, Heard(h, k), NEW p, IsPayload(p), PayloadGoes(h, k, p),
         received' = received, revived' = revived,
         \A x \in Host : task'[x] = task[x] \/ task'[x].at = "idle"
  PROVE  \E d \in Data, s \in Socket, r \in Header : PayloadSent(h, k, d, s, r)
  <1>0. TTypeOK /\ HInv
    BY DEF SInv, HInv
  <1>3. PICK o \in Socket : o = sockets[h][k]
    BY <1>0, Typed
  <1>4. PICK d : d = Outgoing(h, k, p)
    OBVIOUS
  <1>5. d \in Data /\ d.nth = Len(sent[h][k]) + 1 /\ d.len = p.len /\ d.len > 0
    BY <1>0, <1>4, OutgoingIs DEF Outgoing, IsPayload
  <1>6. PICK q \in Int : q = o.seq + p.len
    BY DEF IsPayload, Socket
  <1>7. PICK s : s = [o EXCEPT !.seq = q]
    OBVIOUS
  <1>8. /\ s \in Socket /\ SameEnds(o, s) /\ s.state = o.state /\ s.remote = o.remote
        /\ s.ack = o.ack /\ s.seq = o.seq + d.len
    BY <1>5, <1>6, <1>7, WithSeq
  <1>9. sockets' = [sockets EXCEPT ![h] = [sockets[h] EXCEPT ![k] = s]]
    BY <1>3, <1>6, <1>7 DEF PayloadGoes
  <1>10. OnlyBecomes(h, k, s)
    BY <1>0, <1>8, <1>9, SetIs DEF OnlyBecomes
  <1>11. PICK r : r = Segment(h, o, {"PSH", "ACK"}, d)
    OBVIOUS
  <1>12. /\ r \in Header /\ r.src = h /\ r.data = d /\ r.seq = o.seq /\ r.flags = {"PSH", "ACK"}
         /\ r.sport = s.localPort /\ r.dport = s.remotePort
    <2>1. /\ r.src = h /\ r.sport = s.localPort /\ r.dport = s.remotePort
          /\ r.flags = {"PSH", "ACK"} /\ r.data = d /\ r.seq = o.seq
      BY <1>8, <1>11 DEF Segment, SameEnds
    <2>2. r \in Header
      BY <1>5, <1>11 DEF Segment, Header, Flags, Socket
    <2> QED BY <2>1, <2>2
  <1>13. Queued(s.remote, r)
    BY <1>3, <1>4, <1>8, <1>11 DEF PayloadGoes, Queued
  <1>14. s.remote \in Host
    BY <1>3, <1>8 DEF Heard, Peers
  <1>16. OnlySends(h, k, d)
    <2>1. sent \in [Host -> Seq(Stream)] /\ k \in DOMAIN sent[h]
      BY <1>0, Typed DEF TTypeOK
    <2>2. PICK all : all = Append(sent[h][k], d)
      OBVIOUS
    <2>3. sent' = [sent EXCEPT ![h] = [sent[h] EXCEPT ![k] = all]]
      BY <1>4, <2>2 DEF PayloadGoes
    <2> QED BY <2>1, <2>2, <2>3 DEF OnlySends
  <1>18. /\ SameEnds(sockets[h][k], s) /\ s.state = sockets[h][k].state
         /\ s.ack = sockets[h][k].ack /\ s.seq = sockets[h][k].seq + d.len
         /\ r.seq = sockets[h][k].seq
    BY <1>3, <1>8, <1>12
  <1>19. PayloadSent(h, k, d, s, r)
    BY <1>5, <1>10, <1>12, <1>13, <1>14, <1>16, <1>18 DEF PayloadSent
  <1> QED BY <1>5, <1>8, <1>12, <1>19

LEMMA SendGoesIs ==
  ASSUME SInv, NEW h \in Host, NEW p \in Payloads, SendGoes(h, p)
  PROVE  \E k \in DOMAIN sockets[h], d \in Data, s \in Socket, r \in Header :
           PayloadSent(h, k, d, s, r)
  <1>0. TTypeOK /\ HInv
    BY DEF SInv, HInv
  <1>1. PICK k : k = task[h].socket
    OBVIOUS
  <1>2. k \in DOMAIN sockets[h] /\ sockets[h][k].state \notin Opening /\ Heard(h, k)
    BY <1>0, <1>1 DEF SendGoes, HInv, InCall, Opening
  <1>3. MaySend(h, k)
    BY <1>1 DEF SendGoes, MaySend
  <1>4. IsPayload(p) /\ PayloadGoes(h, k, p)
    BY <1>1, PayloadsAre DEF IsPayload, SendGoes
  <1>5. /\ received' = received /\ revived' = revived
        /\ \A x \in Host : task'[x] = task[x] \/ task'[x].at = "idle"
    BY <1>0 DEF SendGoes, TTypeOK, Idle
  <1> QED BY <1>2, <1>3, <1>4, <1>5, PayloadGoesIs

LEMMA AnswerSendsIs ==
  ASSUME SInv, NEW h \in Host, AnswerSends(h)
  PROVE  /\ call[h].socket \in DOMAIN sockets[h] /\ sockets[h][call[h].socket].state = "ESTABLISHED"
         /\ \E d \in Data, s \in Socket, r \in Header : PayloadSent(h, call[h].socket, d, s, r)
  <1>0. HInv
    BY DEF SInv
  <1>1. PICK k \in DOMAIN sockets[h] : k = call[h].socket
    BY <1>0, CallIs DEF AnswerSends
  <1>2. sockets[h][k].state = "ESTABLISHED" /\ PayloadGoes(h, k, Response)
    BY <1>1 DEF AnswerSends
  <1>3. Heard(h, k) /\ MaySend(h, k) /\ sockets[h][k].state \notin Opening
    BY <1>0, <1>2 DEF HInv, HandshakeAgrees, Heard, MaySend, Opening
  <1>4. IsPayload(Response)
    BY DEF IsPayload, Response
  <1>5. /\ received' = received /\ revived' = revived
        /\ \A x \in Host : task'[x] = task[x] \/ task'[x].at = "idle"
    BY DEF AnswerSends
  <1>6. \E d \in Data, s \in Socket, r \in Header : PayloadSent(h, k, d, s, r)
    BY <1>2, <1>3, <1>4, <1>5, PayloadGoesIs
  <1> QED BY <1>1, <1>2, <1>6

LEMMA PayloadSteadily ==
  ASSUME SInv, HInv', NEW h \in Host, NEW k \in DOMAIN sockets[h], NEW d \in Data,
         NEW s \in Socket, NEW r \in Header, PayloadSent(h, k, d, s, r)
  PROVE  SInv'
  <1>0. TTypeOK /\ HInv
    BY DEF SInv, HInv
  <1>2. /\ MaySend(h, k) /\ sockets[h][k].state \notin Opening /\ Heard(h, k)
        /\ d.nth = Len(sent[h][k]) + 1
        /\ OnlyBecomes(h, k, s) /\ SameEnds(sockets[h][k], s) /\ s.state = sockets[h][k].state
        /\ s.ack = sockets[h][k].ack /\ s.seq = sockets[h][k].seq + d.len
        /\ r.src = h /\ r.data = d /\ r.seq = sockets[h][k].seq
        /\ r.sport = s.localPort /\ r.dport = s.remotePort
        /\ OnlySends(h, k, d) /\ received' = received /\ revived' = revived
        /\ \A x \in Host : task'[x] = task[x] \/ task'[x].at = "idle"
    BY DEF PayloadSent
  <1>3. "SYN" \notin r.flags
    <2>1. "SYN" \notin {"PSH", "ACK"}
      OBVIOUS
    <2> QED BY <2>1 DEF PayloadSent
  <1>4. \A x \in Host : \A m \in OnWay(x)' : m \in OnWay(x) \/ (x = s.remote /\ m = r)
    BY <1>0, QueuedIs DEF PayloadSent
  <1> QED BY <1>2, <1>3, <1>4, SendingKeeps

LEMMA SendGoesSteadily ==
  ASSUME SInv, HInv', NEW h \in Host, NEW p \in Payloads, SendGoes(h, p)
  PROVE  SInv'
  BY SendGoesIs, PayloadSteadily

-----------------------------------------------------------------------------
(* The handler answers.                                                    *)

LEMMA AnswerDisconnectsSteadily ==
  ASSUME SInv, HInv', NEW h \in Host, AnswerDisconnects(h)
  PROVE  SInv'
  <1>0. TTypeOK /\ HInv
    BY DEF SInv, HInv
  <1>1. PICK k \in DOMAIN sockets[h], s \in Socket, r \in Header :
           /\ call[h].socket = k /\ sockets[h][k].state = "ESTABLISHED"
           /\ SameEnds(sockets[h][k], s) /\ s.state = "FIN_WAIT1" /\ s.remote \in Host
           /\ s.ack = sockets[h][k].ack
           /\ sockets' = [sockets EXCEPT ![h] = [sockets[h] EXCEPT ![k] = s]]
           /\ r.flags = {"FIN", "ACK"} /\ Queued(s.remote, r)
    BY <1>0, AnswerDisconnectsIs
  <1>2. /\ \A x \in Host : /\ Len(sockets'[x]) = Len(sockets[x])
                           /\ DOMAIN sockets'[x] = DOMAIN sockets[x]
        /\ \A x \in Host : \A y \in DOMAIN sockets[x] :
             sockets'[x][y] = IF x = h /\ y = k THEN s ELSE sockets[x][y]
    BY <1>0, <1>1, SetIs
  <1>3. "PSH" \notin r.flags /\ "SYN" \notin r.flags
    <2>1. "SYN" \notin {"FIN", "ACK"} /\ "PSH" \notin {"FIN", "ACK"}
      OBVIOUS
    <2> QED BY <1>1, <2>1
  <1>4. NoneNew
    <2>1. \A x \in Host : \A m \in OnWay(x)' : m \in OnWay(x) \/ (x = s.remote /\ m = r)
      BY <1>0, <1>1, QueuedIs
    <2> QED BY <1>3, <2>1 DEF NoneNew
  <1>5. UNCHANGED <<task, sent, received, revived>>
    BY DEF AnswerDisconnects
  <1>6. NoneDisconnects
    BY <1>5 DEF NoneDisconnects
  <1>7. Onward
    <2> SUFFICES ASSUME NEW x \in Host, NEW y \in DOMAIN sockets[x]
                 PROVE  Becomes(x, y, sockets'[x][y])
      BY <1>2 DEF Onward
    <2>1. CASE x = h /\ y = k
      BY <1>1, <1>2, <2>1 DEF Becomes, Opening
    <2>2. CASE ~(x = h /\ y = k)
      BY <1>2, <2>2 DEF Becomes, SameEnds
    <2> QED BY <2>1, <2>2
  <1>8. Steadily(h, k)
    <2>1. task[h].at # "send"
      <3>1. h \in Answerers
        BY <1>0 DEF AnswerDisconnects, HInv, InHandler, CallOn
      <3>2. h \notin Senders
        BY <3>1, TcpAssumption
      <3> QED BY <1>0, <3>2 DEF HInv, InCall
    <2>2. ~MaySend(h, k)'
      BY <1>1, <1>2, <1>5, <2>1 DEF MaySend
    <2>3. Continues(h, k)
      BY <1>2, <1>5, <2>2 DEF Continues
    <2>4. Awaits(h, k)
      BY <1>1, <1>2, <1>5 DEF Awaits, Live
    <2>5. /\ sockets'[h][k].state = "FIN_WAIT1" /\ sockets'[h][k].ack = sockets[h][k].ack
          /\ received'[h][k] = received[h][k]
      BY <1>1, <1>2, <1>5
    <2> QED BY <2>3, <2>4, <2>5 DEF Steadily
  <1>9. ASSUME NEW x \in Host, NEW y \in DOMAIN sockets[x], ~(x = h /\ y = k)
        PROVE  Steadily(x, y)
    <2>1. task'[x].at = "send" /\ task'[x].socket = y => MaySend(x, y)
      BY <1>5 DEF MaySend
    <2> QED BY <1>2, <1>5, <1>9, <2>1, UnmovedIsSteady
  <1> QED BY <1>4, <1>6, <1>7, <1>8, <1>9, SteadyKeeps

LEMMA AnswerReturnsSteadily ==
  ASSUME SInv, HInv', NEW h \in Host, AnswerReturns(h)
  PROVE  SInv'
  <1>0. TTypeOK /\ HInv
    BY DEF SInv, HInv
  <1>1. PICK k \in DOMAIN sockets[h], s \in Socket, r \in Header :
           s = sockets[h][k] /\ r.flags = {"ACK"} /\ Queued(s.remote, r) /\ s.remote \in Host
    BY <1>0, AnswerReturnsIs
  <1>2. UNCHANGED <<sockets, task, sent, received, revived>>
    BY DEF AnswerReturns
  <1>3. NoneNew
    <2>1. \A x \in Host : \A m \in OnWay(x)' : m \in OnWay(x) \/ (x = s.remote /\ m = r)
      BY <1>0, <1>1, QueuedIs
    <2>2. "SYN" \notin {"ACK"} /\ "PSH" \notin {"ACK"}
      OBVIOUS
    <2> QED BY <1>1, <2>1, <2>2 DEF NoneNew
  <1>4. Onward /\ NoneDisconnects
    BY <1>2 DEF Onward, Becomes, SameEnds, NoneDisconnects
  <1>5. ASSUME NEW x \in Host, NEW y \in DOMAIN sockets[x]
        PROVE  Steadily(x, y)
    <2>1. task'[x].at = "send" /\ task'[x].socket = y => MaySend(x, y)
      BY <1>2 DEF MaySend
    <2> QED BY <1>2, <2>1, UnmovedIsSteady
  <1> QED BY <1>3, <1>4, <1>5, SteadyKeeps

LEMMA AnswerSteadily ==
  ASSUME SInv, HInv', NEW h \in Host, Answer(h)
  PROVE  SInv'
  <1>1. CASE AnswerSends(h)
    BY <1>1, AnswerSendsIs, PayloadSteadily
  <1> QED BY <1>1, AnswerDisconnectsSteadily, AnswerReturnsSteadily DEF Answer

-----------------------------------------------------------------------------
(* The invariant of the streams.                                           *)

\* A listening socket is given nothing but SYNs.
LEMMA NotListening ==
  ASSUME HInv, NEW h \in Host, NEW i \in DOMAIN net[h], NEW k, IsFor(h, net[h][i], k),
         "RST" \in net[h][i].flags \/ "ACK" \in Class(h, i) \/ "FIN" \in Class(h, i)
  PROVE  HasPeer(h, k)
  <1>1. PICK m \in OnWay(h) : m = net[h][i]
    BY Typed DEF HInv
  <1>2. m.flags # {"SYN"}
    BY <1>1 DEF Class
  <1>3. sockets[h][k].state # "LISTEN"
    BY <1>1, <1>2, Sender
  <1> QED BY <1>1, <1>3, SenderIsPeer

LEMMA HandlersSteadily ==
  ASSUME SInv, HInv', NEW h \in Host, NEW i \in DOMAIN net[h], NEW k \in DOMAIN sockets[h],
         call[h].at = "idle", IsFor(h, net[h][i], k), sockets[h][k].state # "CLOSED", OpenHandler(h, i, k),
         mishaps' \in Nat
  PROVE  SInv'
  <1>0. HInv
    BY DEF SInv
  <1>1. CASE OnSyn(h, i, k)
    BY <1>1, OnSynSteadily
  <1>2. CASE OnSynAck(h, i, k)
    <2>1. Moves(h, i, k)
      BY <1>0, <1>2, OnSynAckMoves
    <2>2. "ACK" \in Class(h, i)
      BY <1>2 DEF OnSynAck
    <2> QED BY <1>0, <2>1, <2>2, NotListening, MovesSteadily
  <1>3. CASE OnFin(h, i, k)
    <2>1. Moves(h, i, k)
      BY <1>0, <1>3, OnFinMoves
    <2>2. "FIN" \in Class(h, i)
      BY <1>3 DEF OnFin
    <2> QED BY <1>0, <2>1, <2>2, NotListening, MovesSteadily
  <1>4. CASE OnAck(h, i, k)
    <2>1. Moves(h, i, k)
      BY <1>0, <1>4, OnAckMoves
    <2>2. "ACK" \in Class(h, i)
      BY <1>4 DEF OnAck
    <2> QED BY <1>0, <2>1, <2>2, NotListening, MovesSteadily
  <1>5. CASE OnData(h, i, k, TRUE)
    <2>1. PICK b \in BOOLEAN : b = TRUE
      OBVIOUS
    <2>2. OnData(h, i, k, b)
      BY <1>5, <2>1
    <2> QED BY <2>2, OnDataSteadily
  <1>6. CASE OnRequest(h, i, k)
    BY <1>6, OnRequestSteadily
  <1> QED BY <1>1, <1>2, <1>3, <1>4, <1>5, <1>6 DEF OpenHandler

LEMMA ReceiveSteadily ==
  ASSUME SInv, HInv', NEW h \in Host, NEW i \in DOMAIN net[h], Receive(h, i)
  PROVE  SInv'
  <1>0. HInv
    BY DEF SInv
  <1>1. mishaps' \in Nat
    BY <1>0, MishapsStayNatural DEF Receive, HInv
  <1>2. CASE OnNothing(h, i)
    BY <1>2, TakenSteadily DEF OnNothing
  <1>3. ASSUME NEW k \in DOMAIN sockets[h], IsFor(h, net[h][i], k), OnRst(h, i, k)
        PROVE  SInv'
    <2>1. Moves(h, i, k)
      BY <1>0, <1>3, OnRstMoves
    <2>2. HasPeer(h, k)
      BY <1>0, <1>3, NotListening DEF OnRst
    <2> QED BY <2>1, <2>2, MovesSteadily
  <1>4. ASSUME NEW k \in DOMAIN sockets[h], IsFor(h, net[h][i], k),
               sockets[h][k].state # "CLOSED", OpenHandler(h, i, k)
        PROVE  SInv'
    BY <1>1, <1>4, HandlersSteadily DEF Receive, Idle
  <1> QED BY <1>2, <1>3, <1>4 DEF Receive

LEMMA RefuseSteadily ==
  ASSUME SInv, HInv', NEW h \in Host, NEW k \in DOMAIN sockets[h], Refuse(h, k)
  PROVE  SInv'
  <1>1. PICK i \in DOMAIN net[h] : i = 1
    <2>1. PICK q \in Seq(Header) : q = net[h]
      BY DEF SInv, HInv, TTypeOK
    <2>2. q # <<>>
      BY <2>1 DEF Refuse
    <2> QED BY <2>1, <2>2
  <1>2. PICK b \in BOOLEAN : b = FALSE
    OBVIOUS
  <1>3. OnData(h, i, k, b) /\ IsFor(h, net[h][i], k) /\ sockets[h][k].state # "CLOSED"
    BY <1>1, <1>2 DEF Refuse
  <1> QED BY <1>3, OnDataSteadily

LEMMA SInitially == Init => SInv
  <1> SUFFICES ASSUME Init
               PROVE  SInv
    OBVIOUS
  <1>1. \A h \in Host : sockets[h] = <<>> /\ net[h] = <<>> /\ task[h] = Idle
    BY DEF Init
  <1>2. DOMAIN <<>> = {}
    OBVIOUS
  <1>3. \A h \in Host : DOMAIN sockets[h] = {} /\ OnWay(h) = {}
    BY <1>1, <1>2 DEF OnWay
  <1>4. NoneEstablished
    BY <1>1 DEF NoneEstablished, Idle
  <1> QED BY <1>3, <1>4, HInitially DEF SInv, Streams

LEMMA SUnchanged == SInv /\ UNCHANGED vars => SInv'
  <1> SUFFICES ASSUME SInv, UNCHANGED vars
               PROVE  SInv'
    OBVIOUS
  <1>1. HInv'
    BY HUnchanged DEF SInv
  <1>2. NoneMore /\ OnlySendsStart
    BY DEF vars, NoneMore, OnlySendsStart, OnWay
  <1> QED BY <1>1, <1>2, QuietSteadily DEF vars

LEMMA SNextKeeps == SInv /\ Next => SInv'
  <1> SUFFICES ASSUME SInv, Next
               PROVE  SInv'
    OBVIOUS
  <1>1. HInv'
    BY HNextKeeps DEF SInv
  <1>2. PICK h \in Host :
          \/ Application(h) \/ Answer(h)
          \/ \E i \in DOMAIN net[h] : Receive(h, i) \/ Lose(h, i) \/ Repeat(h, i)
          \/ \E k \in DOMAIN sockets[h] : Refuse(h, k)
    BY DEF Next
  <1>3. CASE Application(h) \/ Answer(h)
    BY <1>1, <1>3, ListenSteadily, ConnectSteadily, SendMayGoSteadily, SendGoesSteadily,
       DisconnectStartsSteadily, DisconnectSendsSteadily, AnswerSteadily DEF Application
  <1>4. ASSUME NEW i \in DOMAIN net[h], Lose(h, i)
        PROVE  SInv'
    BY <1>1, <1>4, TakenSteadily DEF Lose
  <1>5. CASE \E i \in DOMAIN net[h] : Receive(h, i) \/ Lose(h, i) \/ Repeat(h, i)
    BY <1>1, <1>4, <1>5, ReceiveSteadily, RepeatSteadily
  <1>6. CASE \E k \in DOMAIN sockets[h] : Refuse(h, k)
    BY <1>1, <1>6, RefuseSteadily
  <1> QED BY <1>2, <1>3, <1>5, <1>6

\* Of every socket that sends, the numbers at which its payloads begin, in the order they
\* were sent, account for every segment on its way and for what its peer expects next.
THEOREM StreamInvariance == Spec => []SInv
  <1>1. SInv /\ [Next]_vars => SInv'
    BY SNextKeeps, SUnchanged
  <1> QED BY SInitially, <1>1, PTL DEF Spec

\* A handler is given a prefix of what the peer sent, whatever the network loses, repeats
\* and reorders and whatever a handler refuses.
THEOREM StreamsArePrefixes == Spec => []StreamPrefix
  <1> QED BY StreamInvariance, StreamsPrefix, PTL

-----------------------------------------------------------------------------
(* In calm: what is on its way between two sockets.                        *)

\* P are the positions in the queue q of the segments that carry a payload from one
\* socket to another, which has sent all, the other taken as many as got and expecting
\* ack; ends is the number the next payload will have, if there may be one.  They carry
\* the payloads not taken yet, in order, and their numbers lead from ack to the end.
Line(q, P, all, got, ack, ends) ==
  /\ got <= Len(all)
  /\ \A n \in 1 .. Len(all) : all[n].len > 0
  /\ got = 0 => ack = 1
  /\ \A i, l \in P : i < l => q[i].data.nth < q[l].data.nth
  /\ \A i \in P : got < q[i].data.nth
  /\ \A n \in got + 1 .. Len(all) : \E i \in P : q[i].data.nth = n
  /\ \A i, l \in P : q[l].data.nth = q[i].data.nth + 1 => q[l].seq = q[i].seq + q[i].data.len
  /\ \A i \in P : q[i].data.nth = got + 1 => q[i].seq = ack
  /\ \A i \in P : \A u \in ends : q[i].data.nth = Len(all) => u = q[i].seq + q[i].data.len
  /\ \A u \in ends : got = Len(all) => u = ack

\* Before anything is sent or taken.
LEMMA LineBegins ==
  ASSUME NEW q, NEW ends, ends \subseteq {1}
  PROVE  Line(q, {}, <<>>, 0, 1, ends)
  <1>1. Len(<<>>) = 0 /\ 1 .. 0 = {} /\ 0 + 1 .. 0 = {}
    OBVIOUS
  <1> QED BY <1>1 DEF Line

\* When nothing is on its way the expected number is the end.
LEMMA LineEnds ==
  ASSUME NEW q, NEW all \in Seq(Data), NEW got \in Nat, NEW ack, NEW ends,
         Line(q, {}, all, got, ack, ends)
  PROVE  \A u \in ends : u = ack
  <1>1. Len(all) \in Nat /\ got <= Len(all)
    BY DEF Line
  <1>2. ~(got < Len(all))
    <2> SUFFICES ASSUME got < Len(all)
                 PROVE  FALSE
      OBVIOUS
    <2>1. got + 1 \in got + 1 .. Len(all)
      BY <1>1
    <2> QED BY <2>1 DEF Line
  <1>3. got = Len(all)
    BY <1>1, <1>2
  <1> QED BY <1>3 DEF Line

\* What the segments carry has been sent.
Among(q, P, all) ==
  \A i \in P : q[i].data.nth \in 1 .. Len(all) /\ q[i].data = all[q[i].data.nth]

\* The first payload on the line is the one that is expected.
LEMMA LineHead ==
  ASSUME NEW q, NEW P \in SUBSET (Nat \ {0}), NEW all \in Seq(Data), NEW got \in Nat, NEW ack, NEW ends,
         Line(q, P, all, got, ack, ends), 1 \in P, Among(q, P, all)
  PROVE  q[1].data.nth = got + 1 /\ q[1].seq = ack
  <1>1. PICK n \in 1 .. Len(all) : n = q[1].data.nth
    BY DEF Among
  <1>2. got < n
    BY <1>1 DEF Line
  <1>3. got + 1 \in got + 1 .. Len(all)
    BY <1>1, <1>2
  <1>4. PICK i \in P : q[i].data.nth = got + 1
    BY <1>3 DEF Line
  <1>5. ~(1 < i)
    <2>1. 1 < i => q[1].data.nth < q[i].data.nth
      BY DEF Line
    <2> QED BY <1>1, <1>2, <1>4, <2>1
  <1>6. i = 1
    BY <1>5
  <1> QED BY <1>4, <1>6 DEF Line

\* The line moves forward in the queue, and the socket goes on, or stops sending.
LEMMA LineMoves ==
  ASSUME NEW q, NEW P \in SUBSET Nat, NEW all \in Seq(Data), NEW got \in Nat, NEW ack, NEW ends,
         Line(q, P, all, got, ack, ends),
         NEW r, NEW S \in SUBSET Nat, NEW c \in {0, 1},
         \A i \in S : i + c \in P /\ r[i] = q[i + c],
         \A i \in P : i - c \in S,
         NEW onward, onward \subseteq ends \/ (all = <<>> /\ onward \subseteq {1})
  PROVE  Line(r, S, all, got, ack, onward)
  <1>0. \A i \in S : i \in Nat /\ i + c \in P /\ r[i] = q[i + c]
    OBVIOUS
  <1>1. ASSUME NEW i \in S, NEW l \in S, i < l
        PROVE  r[i].data.nth < r[l].data.nth
    <2>1. i + c < l + c /\ i + c \in P /\ l + c \in P
      BY <1>0, <1>1
    <2>2. q[i + c].data.nth < q[l + c].data.nth
      BY <2>1 DEF Line
    <2> QED BY <1>0, <2>2
  <1>2. \A i \in S : got < r[i].data.nth
    BY DEF Line
  <1>3. ASSUME NEW n \in got + 1 .. Len(all)
        PROVE  \E i \in S : r[i].data.nth = n
    <2>1. PICK i \in P : q[i].data.nth = n
      BY DEF Line
    <2>2. i - c \in S /\ i \in Nat
      OBVIOUS
    <2>3. (i - c) + c = i
      BY <2>2
    <2>4. r[i - c] = q[(i - c) + c]
      BY <2>2
    <2>5. r[i - c] = q[i]
      BY <2>3, <2>4
    <2> QED BY <2>1, <2>2, <2>5
  <1>4. \A i, l \in S : r[l].data.nth = r[i].data.nth + 1 => r[l].seq = r[i].seq + r[i].data.len
    BY DEF Line
  <1>5. ASSUME NEW i \in S, r[i].data.nth = got + 1
        PROVE  r[i].seq = ack
    <2>1. i + c \in P /\ r[i] = q[i + c]
      OBVIOUS
    <2>2. q[i + c].data.nth = got + 1
      BY <1>5, <2>1
    <2>3. q[i + c].seq = ack
      BY <2>1, <2>2 DEF Line
    <2> QED BY <2>1, <2>3
  <1>6. ASSUME NEW i \in S, NEW u \in onward, r[i].data.nth = Len(all)
        PROVE  u = r[i].seq + r[i].data.len
    <2>1. CASE onward \subseteq ends
      <3>1. i + c \in P /\ r[i] = q[i + c] /\ u \in ends
        BY <2>1
      <3>2. q[i + c].data.nth = Len(all)
        BY <1>6, <3>1
      <3>3. u = q[i + c].seq + q[i + c].data.len
        BY <3>1, <3>2 DEF Line
      <3> QED BY <3>1, <3>3
    <2>2. CASE all = <<>>
      <3>1. got < Len(all) /\ Len(all) = 0
        BY <1>2, <1>6, <2>2
      <3> QED BY <3>1
    <2> QED BY <2>1, <2>2
  <1>7. ASSUME NEW u \in onward, got = Len(all)
        PROVE  u = ack
    <2>1. CASE onward \subseteq ends
      BY <1>7, <2>1 DEF Line
    <2>2. CASE all = <<>> /\ onward \subseteq {1}
      <3>1. got = 0
        BY <1>7, <2>2
      <3>2. ack = 1
        BY <3>1 DEF Line
      <3> QED BY <2>2, <3>2
    <2> QED BY <2>1, <2>2
  <1>8. got <= Len(all) /\ (\A n \in 1 .. Len(all) : all[n].len > 0) /\ (got = 0 => ack = 1)
    BY DEF Line
  <1> QED BY <1>1, <1>2, <1>3, <1>4, <1>5, <1>6, <1>7, <1>8 DEF Line

\* The first payload on the line is taken.
LEMMA LineIsTaken ==
  ASSUME NEW q, NEW P \in SUBSET (Nat \ {0}), NEW all \in Seq(Data), NEW got \in Nat,
         NEW ack \in Int, NEW ends, Line(q, P, all, got, ack, ends), 1 \in P,
         Among(q, P, all), NEW r, NEW S \in SUBSET (Nat \ {0}),
         \A i \in S : i + 1 \in P /\ r[i] = q[i + 1],
         \A i \in P : i > 1 => i - 1 \in S,
         NEW on, on = ack + q[1].data.len, NEW more \in Nat, more = got + 1
  PROVE  Line(r, S, all, more, on, ends)
  <1>1. q[1].data.nth = more /\ q[1].seq = ack
    BY LineHead
  <1>a. \A i \in S : i \in Nat /\ i + 1 \in P /\ r[i] = q[i + 1] /\ i + 1 # 1
    <2> SUFFICES ASSUME NEW i \in S
                 PROVE  i \in Nat /\ i + 1 \in P /\ r[i] = q[i + 1] /\ i + 1 # 1
      OBVIOUS
    <2>1. i \in Nat /\ i + 1 \in P /\ r[i] = q[i + 1]
      OBVIOUS
    <2>2. i + 1 # 1
      BY <2>1
    <2> QED BY <2>1, <2>2
  <1>2. more \in 1 .. Len(all) /\ more <= Len(all) /\ more # 0
    BY <1>1 DEF Among
  <1>3. ASSUME NEW i \in S, NEW l \in S, i < l
        PROVE  r[i].data.nth < r[l].data.nth
    <2>1. i + 1 < l + 1 /\ i + 1 \in P /\ l + 1 \in P
      BY <1>a, <1>3
    <2>2. q[i + 1].data.nth < q[l + 1].data.nth
      BY <2>1 DEF Line
    <2> QED BY <1>a, <2>2
  <1>4. \A i \in S : more < r[i].data.nth
    <2> SUFFICES ASSUME NEW i \in S
                 PROVE  more < r[i].data.nth
      OBVIOUS
    <2>1. i \in Nat /\ i + 1 \in P /\ r[i] = q[i + 1] /\ i + 1 # 1
      BY <1>a
    <2>2. 1 < i + 1
      BY <2>1
    <2>3. q[1].data.nth < q[i + 1].data.nth
      BY <2>1, <2>2 DEF Line
    <2> QED BY <1>1, <2>1, <2>3
  <1>5. ASSUME NEW n \in more + 1 .. Len(all)
        PROVE  \E i \in S : r[i].data.nth = n
    <2>1. n \in got + 1 .. Len(all) /\ n # more
      BY <1>2
    <2>2. PICK i \in P : q[i].data.nth = n
      BY <2>1 DEF Line
    <2>3. i # 1
      BY <1>1, <2>1, <2>2
    <2>4. i \in Nat /\ i > 1
      <3>1. i \in Nat \ {0}
        OBVIOUS
      <3>2. \A z \in Nat \ {0} : z # 1 => z \in Nat /\ z > 1
        OBVIOUS
      <3> QED BY ONLY <2>3, <3>1, <3>2
    <2>5. i - 1 \in S /\ (i - 1) + 1 = i
      BY <2>4
    <2>6. r[i - 1] = q[(i - 1) + 1]
      BY <2>5
    <2>7. r[i - 1] = q[i]
      BY <2>5, <2>6
    <2> QED BY <2>2, <2>5, <2>7
  <1>6. ASSUME NEW i \in S, NEW l \in S, r[l].data.nth = r[i].data.nth + 1
        PROVE  r[l].seq = r[i].seq + r[i].data.len
    <2>1. i + 1 \in P /\ l + 1 \in P /\ r[i] = q[i + 1] /\ r[l] = q[l + 1]
      BY <1>a
    <2> QED BY <1>6, <2>1 DEF Line
  <1>7. ASSUME NEW i \in S, r[i].data.nth = more + 1
        PROVE  r[i].seq = on
    <2>1. i + 1 \in P /\ r[i] = q[i + 1]
      OBVIOUS
    <2>3. q[i + 1].data.nth = q[1].data.nth + 1 /\ 1 \in P
      BY <1>1, <1>7, <2>1
    <2>2. q[i + 1].seq = q[1].seq + q[1].data.len
      BY <2>1, <2>3 DEF Line
    <2> QED BY <1>1, <2>1, <2>2
  <1>8. ASSUME NEW i \in S, NEW u \in ends, r[i].data.nth = Len(all)
        PROVE  u = r[i].seq + r[i].data.len
    <2>1. i + 1 \in P /\ r[i] = q[i + 1]
      BY <1>a
    <2> QED BY <1>8, <2>1 DEF Line
  <1>9. ASSUME NEW u \in ends, more = Len(all)
        PROVE  u = on
    BY <1>1, <1>9 DEF Line
  <1>10. \A n \in 1 .. Len(all) : all[n].len > 0
    BY DEF Line
  <1> QED BY <1>2, <1>3, <1>4, <1>5, <1>6, <1>7, <1>8, <1>9, <1>10 DEF Line

\* One more payload joins the line at its end.
LEMMA LineGrows ==
  ASSUME NEW q, NEW P \in SUBSET Nat, NEW all \in Seq(Data), NEW got \in Nat, NEW ack,
         NEW u \in Int, Line(q, P, all, got, ack, {u}),
         Among(q, P, all),
         NEW r, NEW e \in Nat, \A i \in P : i < e /\ r[i] = q[i],
         NEW d \in Data, d.len > 0, r[e].data = d, d.nth = Len(all) + 1, r[e].seq = u,
         NEW more \in Seq(Data), more = Append(all, d),
         NEW ends, ends \subseteq {u + d.len}
  PROVE  Line(r, P \cup {e}, more, got, ack, ends)
  <1>1. PICK c \in Nat : c = Len(all)
    OBVIOUS
  <1>2. /\ Len(more) = c + 1 /\ more[c + 1] = d /\ \A n \in 1 .. c : more[n] = all[n]
    BY <1>1
  <1>3. d.nth = c + 1 /\ r[e].data.nth = c + 1 /\ got <= c
    BY <1>1 DEF Line
  <1>4. \A i \in P : r[i] = q[i] /\ i # e /\ r[i].data.nth \in 1 .. c
    BY <1>1 DEF Among
  <1>5. \A n \in 1 .. Len(more) : more[n].len > 0
    <2> SUFFICES ASSUME NEW n \in 1 .. c + 1
                 PROVE  more[n].len > 0
      BY <1>2
    <2>1. CASE n = c + 1
      BY <1>2, <2>1
    <2>2. CASE n # c + 1
      <3>1. n \in 1 .. c
        BY <2>2
      <3>2. all[n].len > 0
        BY <1>1, <3>1 DEF Line
      <3> QED BY <1>2, <3>1, <3>2
    <2> QED BY <2>1, <2>2
  <1>6. ASSUME NEW i \in P \cup {e}, NEW l \in P \cup {e}, i < l
        PROVE  r[i].data.nth < r[l].data.nth
    <2>1. CASE i \in P /\ l \in P
      BY <1>4, <1>6, <2>1 DEF Line
    <2>2. CASE i \in P /\ l = e
      <3>1. r[i].data.nth \in 1 .. c
        BY <1>4, <2>2
      <3> QED BY <1>3, <2>2, <3>1
    <2>3. CASE i = e
      <3>1. e \in Nat /\ l \in Nat /\ l <= e
        BY <1>6, <2>3
      <3> QED BY <1>6, <2>3, <3>1
    <2> QED BY <2>1, <2>2, <2>3
  <1>7. \A i \in P \cup {e} : got < r[i].data.nth
    <2>1. \A i \in P : got < r[i].data.nth
      BY <1>4 DEF Line
    <2>2. got < c + 1
      BY <1>3
    <2> QED BY <1>3, <2>1, <2>2
  <1>8. ASSUME NEW n \in got + 1 .. Len(more)
        PROVE  \E i \in P \cup {e} : r[i].data.nth = n
    <2>1. CASE n = c + 1
      BY <1>3, <2>1
    <2>2. CASE n # c + 1
      <3>1. n \in got + 1 .. Len(all)
        BY <1>1, <1>2, <2>2
      <3>2. PICK i \in P : q[i].data.nth = n
        BY <3>1 DEF Line
      <3> QED BY <1>4, <3>2
    <2> QED BY <2>1, <2>2
  <1>9. ASSUME NEW i \in P \cup {e}, NEW l \in P \cup {e}, r[l].data.nth = r[i].data.nth + 1
        PROVE  r[l].seq = r[i].seq + r[i].data.len
    <2>1. CASE i \in P /\ l \in P
      <3>1. r[i] = q[i] /\ r[l] = q[l] /\ q[l].data.nth = q[i].data.nth + 1
        BY <1>4, <1>9, <2>1
      <3>2. q[l].seq = q[i].seq + q[i].data.len
        BY <2>1, <3>1 DEF Line
      <3> QED BY <3>1, <3>2
    <2>2. CASE i \in P /\ l = e
      <3>a. r[i] = q[i] /\ r[i].data.nth \in 1 .. c /\ r[l].data.nth = c + 1
        BY <1>3, <1>4, <2>2
      <3>b. r[i].data.nth = c
        BY <1>9, <3>a
      <3>1. q[i].data.nth = Len(all) /\ r[i] = q[i]
        BY <1>1, <3>a, <3>b
      <3>2. u = q[i].seq + q[i].data.len
        BY <2>2, <3>1 DEF Line
      <3>3. r[l].seq = u
        BY <2>2
      <3> QED BY <3>1, <3>2, <3>3
    <2>3. CASE i = e
      <3>1. CASE l = e
        BY <1>3, <1>9, <2>3, <3>1
      <3>2. CASE l \in P
        <4>1. r[l].data.nth \in 1 .. c
          BY <1>4, <3>2
        <4> QED BY <1>3, <1>9, <2>3, <4>1
      <3> QED BY <3>1, <3>2
    <2> QED BY <2>1, <2>2, <2>3
  <1>10. ASSUME NEW i \in P \cup {e}, r[i].data.nth = got + 1
         PROVE  r[i].seq = ack
    <2>1. CASE i \in P
      BY <1>4, <1>10, <2>1 DEF Line
    <2>2. CASE i = e
      <3>1. got = Len(all)
        BY <1>1, <1>3, <1>10, <2>2
      <3> QED BY <2>2, <3>1 DEF Line
    <2> QED BY <2>1, <2>2
  <1>11. ASSUME NEW i \in P \cup {e}, NEW v \in ends, r[i].data.nth = Len(more)
         PROVE  v = r[i].seq + r[i].data.len
    <2>1. i = e
      <3> SUFFICES ASSUME i \in P
                   PROVE  FALSE
        OBVIOUS
      <3>1. r[i].data.nth \in 1 .. c /\ r[i].data.nth = c + 1
        BY <1>2, <1>4, <1>11
      <3> QED BY <3>1
    <2> QED BY <2>1
  <1>12. got <= Len(more) /\ got # Len(more) /\ (got = 0 => ack = 1)
    <2>1. got <= c + 1 /\ got # c + 1
      BY <1>3
    <2> QED BY <1>2, <2>1 DEF Line
  <1> QED BY <1>5, <1>6, <1>7, <1>8, <1>9, <1>10, <1>11, <1>12 DEF Line

\* The segment at position i of the queue of x is of socket j of g.
From(x, i, g, j) == net[x][i].src = g /\ SentBy(net[x][i], x, j)

\* Where the payloads are that socket j of g has sent to x.
Carried(x, g, j) == {i \in DOMAIN net[x] : From(x, i, g, j) /\ "PSH" \in net[x][i].flags}

\* A socket that takes payloads, or will after its peer's ACK.
Active(x, y) == sockets[x][y].state \in {"SYN_RECEIVED", "ESTABLISHED"}

Full(g, j) == \A n \in DOMAIN sent[g][j] : sent[g][j][n].used = sent[g][j][n].len

Ends(g, j) == {u \in {Upcoming(g, j)} : MaySend(g, j)}

OnLine(x, y, g, j) ==
  Line(net[x], Carried(x, g, j), sent[g][j], Len(received[x][y]), sockets[x][y].ack, Ends(g, j))

\* A socket that sends payloads, has sent some or is about to.
Sending(g, j) ==
  \/ sockets[g][j].state = "ESTABLISHED"
  \/ task[g].at = "send" /\ task[g].socket = j
  \/ sent[g][j] # <<>>

\* Its ACK is on its way, ahead of its payloads.
Acked(x, g, j) ==
  \E i \in DOMAIN net[x] : /\ From(x, i, g, j) /\ net[x][i].flags = {"ACK"}
                           /\ \A l \in Carried(x, g, j) : i < l

\* Socket y of x is the receiving end and socket j of g the sending one.
Pair(x, y, g, j) ==
  /\ Active(x, y) /\ Full(g, j) => OnLine(x, y, g, j)
  /\ sockets[x][y].state = "SYN_SENT" => sent[g][j] = <<>>
  /\ sockets[x][y].state = "SYN_RECEIVED" /\ Sending(g, j) => Acked(x, g, j)

Pairs ==
  \A x, g \in Host : \A y \in DOMAIN sockets[x], j \in DOMAIN sockets[g] :
    Peers(x, y, g, j) => Pair(x, y, g, j)

\* A SYN on its way is the only one of its socket, which waits for the answer and has no
\* peer yet.
Syns ==
  \A x, g \in Host : \A i \in DOMAIN net[x], j \in DOMAIN sockets[g] :
    net[x][i].flags = {"SYN"} /\ From(x, i, g, j) =>
      /\ sockets[g][j].state = "SYN_SENT" /\ ~HasPeer(g, j)
      /\ \A l \in DOMAIN net[x] : net[x][l].flags = {"SYN"} /\ From(x, l, g, j) => l = i

\* As long as nothing out of the ordinary has happened, what is on its way between two
\* sockets is what the one has sent and the other has not taken, in order.
Ordered == Pairs /\ Syns

OInv == SInv /\ (mishaps = 0 => Ordered)

-----------------------------------------------------------------------------
(* Pairs that stay.                                                        *)

LEMMA PairTyped ==
  ASSUME SInv, NEW x \in Host, NEW g \in Host, NEW y \in DOMAIN sockets[x], NEW j \in DOMAIN sockets[g]
  PROVE  /\ sent[g][j] \in Seq(Data) /\ Len(received[x][y]) \in Nat /\ sockets[x][y].ack \in Int
         /\ sockets[g][j].seq \in Int /\ Upcoming(g, j) \in Int
         /\ Carried(x, g, j) \in SUBSET (Nat \ {0}) /\ Carried(x, g, j) \in SUBSET Nat
         /\ Among(net[x], Carried(x, g, j), sent[g][j])
         /\ \A i \in DOMAIN net[x] : i \in Nat /\ i >= 1 /\ i <= Len(net[x])
  <1>1. TTypeOK
    BY DEF SInv, HInv
  <1>2. sent[g][j] \in Seq(Data) /\ received[x][y] \in Seq(Data)
    <2>1. /\ sent[g] \in Seq(Stream) /\ j \in DOMAIN sent[g]
          /\ received[x] \in Seq(Stream) /\ y \in DOMAIN received[x]
      BY <1>1, Typed
    <2> QED BY <2>1 DEF Stream
  <1>3. sockets[x][y].ack \in Int /\ sockets[g][j].seq \in Int /\ Upcoming(g, j) \in Int
    BY <1>1, Typed DEF Upcoming
  <1>4. \A i \in DOMAIN net[x] : i \in Nat /\ i >= 1 /\ i <= Len(net[x])
    <2>1. DOMAIN net[x] = 1 .. Len(net[x]) /\ Len(net[x]) \in Nat
      BY <1>1, Typed
    <2> QED BY <2>1
  <1>5. Carried(x, g, j) \in SUBSET (Nat \ {0}) /\ Carried(x, g, j) \in SUBSET Nat
    BY <1>4 DEF Carried
  <1>6. Among(net[x], Carried(x, g, j), sent[g][j])
    <2>1. PICK f : Placed(g, j, f)
      BY DEF SInv, Streams, Flows
    <2> SUFFICES ASSUME NEW i \in Carried(x, g, j)
                 PROVE  /\ net[x][i].data.nth \in 1 .. Len(sent[g][j])
                        /\ net[x][i].data = sent[g][j][net[x][i].data.nth]
      BY DEF Among
    <2>2. /\ net[x][i] \in OnWay(x) /\ net[x][i].src = g /\ SentBy(net[x][i], x, j)
          /\ "PSH" \in net[x][i].flags
      BY DEF Carried, From, OnWay
    <2>3. DOMAIN sent[g][j] = 1 .. Len(sent[g][j])
      BY <1>2
    <2> QED BY <2>1, <2>2, <2>3 DEF Placed
  <1>7. Len(received[x][y]) \in Nat
    BY <1>2
  <1> QED BY <1>2, <1>3, <1>4, <1>5, <1>6, <1>7

\* Of a socket that has sent nothing there is nothing on its way.
LEMMA NextUnsent ==
  ASSUME SInv', NEW x \in Host, NEW g \in Host, NEW j \in DOMAIN sockets'[g], sent'[g][j] = <<>>
  PROVE  Carried(x, g, j)' = {} /\ Ends(g, j)' \subseteq {1}
  <1>1. PICK f : Begins(g, j, f)' /\ Ahead(g, j, f)' /\ Placed(g, j, f)'
    BY DEF SInv, Streams, Flows
  <1>2. Len(sent'[g][j]) = 0 /\ DOMAIN sent'[g][j] = {}
    OBVIOUS
  <1>3. Ends(g, j)' \subseteq {1}
    <2>1. MaySend(g, j)' => Upcoming(g, j)' = 1
      BY <1>1, <1>2 DEF Begins, Ahead
    <2> QED BY <2>1 DEF Ends
  <1>4. ASSUME NEW i \in Carried(x, g, j)'
        PROVE  FALSE
    <2>1. /\ net'[x][i] \in OnWay(x)' /\ net'[x][i].src = g /\ SentBy(net[x][i], x, j)'
          /\ "PSH" \in net'[x][i].flags
      BY DEF Carried, From, OnWay
    <2>2. net'[x][i].data.nth \in DOMAIN sent'[g][j]
      BY <1>1, <2>1 DEF Placed
    <2> QED BY <1>2, <2>2
  <1> QED BY <1>3, <1>4

\* The queue of x has lost its first c segments, and those at Added(x, c) are new.
Shifted(x, c) ==
  /\ \A i \in DOMAIN net[x] : i > c => i - c \in DOMAIN net'[x] /\ net'[x][i - c] = net[x][i]
  /\ \A i \in DOMAIN net'[x] : i + c \in DOMAIN net[x] => net'[x][i] = net[x][i + c]

Added(x, c) == {i \in DOMAIN net'[x] : i + c \notin DOMAIN net[x]}

\* What a step leaves of the sending end, ...
Speaks(g, j) ==
  /\ Continues(g, j)
  /\ g \in Clients /\ Sending(g, j)' =>
       Sending(g, j) \/ \E x \in Host : sockets[g][j].remote = x /\ Acked(x, g, j)'

\* ... of the receiving end, ...
Hears(x, y) ==
  /\ y \in DOMAIN sockets[x] /\ received'[x][y] = received[x][y]
  /\ Active(x, y)' => \/ Active(x, y) /\ sockets'[x][y].ack = sockets[x][y].ack
                      \/ sockets[x][y].state = "SYN_SENT" /\ sockets'[x][y].ack = 1
  /\ sockets'[x][y].state = "SYN_SENT" => sockets[x][y].state = "SYN_SENT"
  /\ sockets'[x][y].state = "SYN_RECEIVED" => sockets[x][y].state = "SYN_RECEIVED"

\* ... and of what is between them: nothing they wait for is taken, no payload comes.
Relays(x, y, g, j) ==
  \E c \in {0, 1} :
    /\ Shifted(x, c) /\ \A i \in Added(x, c) : i \notin Carried(x, g, j)'
    /\ c = 1 => /\ Active(x, y)' /\ Full(g, j) => 1 \notin Carried(x, g, j)
                /\ sockets'[x][y].state = "SYN_RECEIVED" =>
                     ~(From(x, 1, g, j) /\ net[x][1].flags = {"ACK"})

\* What a socket has on its way moves with the queue.
LEMMA CarriedMoves ==
  ASSUME TTypeOK', NEW x \in Host, NEW g \in Host, NEW j \in DOMAIN sockets[g],
         j \in DOMAIN sockets'[g], SameEnds(sockets[g][j], sockets'[g][j]), NEW c \in {0, 1},
         Shifted(x, c), \A i \in Added(x, c) : i \notin Carried(x, g, j)'
  PROVE  /\ \A m : m.src = g => (SentBy(m, x, j) <=> SentBy(m, x, j)')
         /\ \A i \in Carried(x, g, j)' :
              i \in Nat \ {0} /\ i + c \in Carried(x, g, j) /\ net'[x][i] = net[x][i + c]
         /\ \A i \in Carried(x, g, j) : i > c => i - c \in Carried(x, g, j)'
  <1>1. \A m : m.src = g => (SentBy(m, x, j) <=> SentBy(m, x, j)')
    BY DEF SentBy, SameEnds
  <1>2. ASSUME NEW i \in Carried(x, g, j)'
        PROVE  i \in Nat \ {0} /\ i + c \in Carried(x, g, j) /\ net'[x][i] = net[x][i + c]
    <2>1. i \in DOMAIN net'[x] /\ From(x, i, g, j)' /\ "PSH" \in net'[x][i].flags
      BY DEF Carried
    <2>2. i + c \in DOMAIN net[x] /\ net'[x][i] = net[x][i + c]
      BY <1>2, <2>1 DEF Shifted, Added
    <2>3. From(x, i + c, g, j)
      BY <1>1, <2>1, <2>2 DEF From
    <2>4. i \in Nat \ {0}
      <3>1. net' \in [Host -> Seq(Header)]
        BY DEF TTypeOK
      <3>2. net'[x] \in Seq(Header)
        BY <3>1
      <3> QED BY <2>1, <3>2
    <2> QED BY <2>1, <2>2, <2>3, <2>4 DEF Carried
  <1>3. ASSUME NEW i \in Carried(x, g, j), i > c
        PROVE  i - c \in Carried(x, g, j)'
    <2>1. i \in DOMAIN net[x] /\ From(x, i, g, j) /\ "PSH" \in net[x][i].flags
      BY DEF Carried
    <2>2. i - c \in DOMAIN net'[x] /\ net'[x][i - c] = net[x][i]
      BY <1>3, <2>1 DEF Shifted
    <2>3. From(x, i - c, g, j)'
      BY <1>1, <2>1, <2>2 DEF From
    <2> QED BY <2>1, <2>2, <2>3 DEF Carried
  <1> QED BY <1>1, <1>2, <1>3

LEMMA PairStays ==
  ASSUME SInv, SInv', NEW x \in Host, NEW g \in Host,
         NEW y \in DOMAIN sockets[x], NEW j \in DOMAIN sockets[g],
         y \in DOMAIN sockets'[x], j \in DOMAIN sockets'[g],
         Peers(x, y, g, j), Pair(x, y, g, j), SameEnds(sockets[g][j], sockets'[g][j]),
         Speaks(g, j), Hears(x, y), Relays(x, y, g, j)
  PROVE  Pair(x, y, g, j)'
  <1>1. PICK c \in {0, 1} :
          /\ Shifted(x, c) /\ \A i \in Added(x, c) : i \notin Carried(x, g, j)'
          /\ c = 1 => /\ Active(x, y)' /\ Full(g, j) => 1 \notin Carried(x, g, j)
                      /\ sockets'[x][y].state = "SYN_RECEIVED" =>
                           ~(From(x, 1, g, j) /\ net[x][1].flags = {"ACK"})
    BY DEF Relays
  <1>2. \A m : m.src = g => (SentBy(m, x, j) <=> SentBy(m, x, j)')
    BY <1>1, CarriedMoves DEF SInv, HInv
  <1>3. \A i \in Carried(x, g, j)' :
          i \in Nat /\ i + c \in Carried(x, g, j) /\ net'[x][i] = net[x][i + c]
    BY <1>1, CarriedMoves DEF SInv, HInv
  <1>4. \A i \in Carried(x, g, j) : i > c => i - c \in Carried(x, g, j)'
    BY <1>1, CarriedMoves DEF SInv, HInv
  <1>5. sent'[g][j] = sent[g][j] /\ received'[x][y] = received[x][y]
    BY DEF Speaks, Continues, Hears
  <1>6. ASSUME Active(x, y)', Full(g, j)'
        PROVE  OnLine(x, y, g, j)'
    <2>1. CASE Active(x, y) /\ sockets'[x][y].ack = sockets[x][y].ack
      <3>1. Full(g, j) /\ OnLine(x, y, g, j)
        BY <1>5, <1>6, <2>1 DEF Full, Pair
      <3>2. PICK q, r, S, ends, onward :
              /\ q = net[x] /\ r = net'[x] /\ S = Carried(x, g, j)'
              /\ ends = Ends(g, j) /\ onward = Ends(g, j)'
        OBVIOUS
      <3>3. PICK P \in SUBSET Nat, all \in Seq(Data), got \in Nat, ack \in Int :
              /\ P = Carried(x, g, j) /\ all = sent[g][j] /\ got = Len(received[x][y])
              /\ ack = sockets[x][y].ack /\ P \in SUBSET (Nat \ {0})
        BY PairTyped
      <3>4. S \in SUBSET Nat
        BY <1>3, <3>2
      <3>5. \A i \in S : i + c \in P /\ r[i] = q[i + c]
        BY <1>3, <3>2, <3>3
      <3>6. ASSUME NEW i \in P
            PROVE  i - c \in S
        <4>1. i \in Nat /\ i # 0 /\ (c = 1 => i # 1)
          BY <1>1, <1>6, <3>1, <3>3
        <4>2. i > c
          BY <4>1
        <4> QED BY <1>4, <3>2, <3>3, <4>2
      <3>7. onward \subseteq ends \/ (all = <<>> /\ onward \subseteq {1})
        BY <3>2, <3>3 DEF Speaks, Continues, Ends
      <3>8. Line(q, P, all, got, ack, ends)
        BY <3>1, <3>2, <3>3 DEF OnLine
      <3>9. Line(r, S, all, got, ack, onward)
        BY <3>4, <3>5, <3>6, <3>7, <3>8, LineMoves
      <3> QED BY <1>5, <2>1, <3>2, <3>3, <3>9 DEF OnLine
    <2>2. CASE sockets[x][y].state = "SYN_SENT" /\ sockets'[x][y].ack = 1
      <3>1. sent'[g][j] = <<>>
        BY <1>5, <2>2 DEF Pair
      <3>2. received'[x][y] = <<>>
        BY <1>5, <2>2 DEF SInv, Streams, Fresh, Opening
      <3>3. Carried(x, g, j)' = {} /\ Ends(g, j)' \subseteq {1} /\ Len(<<>>) = 0
        BY <3>1, NextUnsent
      <3>4. PICK q, ends : q = net'[x] /\ ends = Ends(g, j)'
        OBVIOUS
      <3>5. Line(q, {}, <<>>, 0, 1, ends)
        BY <3>3, <3>4, LineBegins
      <3> QED BY <2>2, <3>1, <3>2, <3>3, <3>4, <3>5 DEF OnLine
    <2> QED BY <1>6, <2>1, <2>2 DEF Hears
  <1>7. sockets'[x][y].state = "SYN_SENT" => sent'[g][j] = <<>>
    BY <1>5 DEF Hears, Pair
  <1>8. ASSUME sockets'[x][y].state = "SYN_RECEIVED", Sending(g, j)'
        PROVE  Acked(x, g, j)'
    <2>1. sockets[x][y].state = "SYN_RECEIVED"
      BY <1>8 DEF Hears
    <2>2. g \in Clients /\ sockets[g][j].remote = x
      <3>1. sockets[x][y].remote = g /\ sockets[g][j].remote = x
        BY DEF Peers
      <3>2. HInv
        BY DEF SInv
      <3>3. x \in Servers
        BY <2>1, <3>2 DEF HInv, Addressed, AtClient
      <3> QED BY <3>1, <3>2, <3>3, Apart
    <2>3. CASE Sending(g, j)
      <3>1. PICK i \in DOMAIN net[x] : /\ From(x, i, g, j) /\ net[x][i].flags = {"ACK"}
                                       /\ \A l \in Carried(x, g, j) : i < l
        BY <2>1, <2>3 DEF Pair, Acked
      <3>2. i \in Nat /\ i >= 1 /\ (c = 1 => i # 1)
        BY <1>1, <1>8, <3>1, PairTyped
      <3>3. i > c
        BY <3>2
      <3>4. i - c \in DOMAIN net'[x] /\ net'[x][i - c] = net[x][i]
        BY <1>1, <3>3 DEF Shifted
      <3>5. From(x, i - c, g, j)'
        BY <1>2, <3>1, <3>4 DEF From
      <3>6. ASSUME NEW l \in Carried(x, g, j)'
            PROVE  i - c < l
        <4>1. l \in Nat /\ i < l + c
          BY <1>3, <3>1
        <4> QED BY <3>2, <4>1
      <3> QED BY <3>1, <3>4, <3>5, <3>6 DEF Acked
    <2>4. CASE ~Sending(g, j)
      BY <1>8, <2>2, <2>4 DEF Speaks
    <2> QED BY <2>3, <2>4
  <1> QED BY <1>6, <1>7, <1>8 DEF Pair

-----------------------------------------------------------------------------
(* Queues that move on.                                                    *)

\* The first segment leaves a queue.
LEMMA TailIs ==
  ASSUME NEW S, NEW q \in Seq(S), 1 \in DOMAIN q
  PROVE  \E r \in Seq(S) : /\ r = RemoveAt(q, 1) /\ Len(q) \in Nat /\ Len(r) = Len(q) - 1
                           /\ \A n \in 1 .. Len(r) : r[n] = q[n + 1]
  <1>1. Len(q) \in Nat /\ Len(q) >= 1
    OBVIOUS
  <1>2. SubSeq(q, 1, 0) = <<>>
    OBVIOUS
  <1>a. PICK i \in 1 .. Len(q) : i = 1
    BY <1>1
  <1>b. /\ SubSeq(q, i + 1, Len(q)) \in Seq(S) /\ Len(SubSeq(q, i + 1, Len(q))) = Len(q) - i
        /\ \A n \in 1 .. Len(q) - i : SubSeq(q, i + 1, Len(q))[n] = q[i + n]
    BY <1>1
  <1>3. PICK r \in Seq(S) : r = SubSeq(q, i + 1, Len(q))
    BY <1>b
  <1>4. Len(r) = Len(q) - 1 /\ \A n \in 1 .. Len(q) - 1 : r[n] = q[n + 1]
    BY <1>a, <1>b, <1>3
  <1>5. RemoveAt(q, 1) = <<>> \o r
    BY <1>a, <1>2, <1>3 DEF RemoveAt
  <1>6. <<>> \o r = r
    OBVIOUS
  <1> QED BY <1>1, <1>4, <1>5, <1>6

\* A segment that neither carries a payload nor opens a connection.
IsPlain(m) == "PSH" \notin m.flags /\ m.flags # {"SYN"}

Plainly(x, c) == Shifted(x, c) /\ \A i \in Added(x, c) : IsPlain(net'[x][i])

LEMMA QueueRests ==
  ASSUME TTypeOK, NEW x \in Host, net'[x] = net[x]
  PROVE  Plainly(x, 0) /\ Added(x, 0) = {}
  <1>1. \A i \in DOMAIN net[x] : i + 0 = i /\ i - 0 = i
    BY Typed
  <1> QED BY <1>1 DEF Plainly, Shifted, Added

LEMMA QueueLosesHead ==
  ASSUME TTypeOK, NEW x \in Host, 1 \in DOMAIN net[x], net'[x] = RemoveAt(net[x], 1)
  PROVE  Plainly(x, 1) /\ Added(x, 1) = {}
  <1>1. PICK q \in Seq(Header) : q = net[x]
    BY DEF TTypeOK
  <1>2. PICK r \in Seq(Header) : /\ r = RemoveAt(q, 1) /\ Len(q) \in Nat /\ Len(r) = Len(q) - 1
                                 /\ \A n \in 1 .. Len(r) : r[n] = q[n + 1]
    BY <1>1, TailIs
  <1>3. net'[x] = r /\ net[x] = q /\ DOMAIN r = 1 .. Len(q) - 1 /\ DOMAIN q = 1 .. Len(q)
    BY <1>1, <1>2
  <1>4. ASSUME NEW i \in DOMAIN q, i > 1
        PROVE  i - 1 \in DOMAIN r /\ r[i - 1] = q[i]
    <2>1. i - 1 \in 1 .. Len(q) - 1 /\ (i - 1) + 1 = i
      BY <1>2, <1>3, <1>4
    <2>2. r[i - 1] = q[(i - 1) + 1]
      BY <1>2, <1>3, <2>1
    <2> QED BY <1>3, <2>1, <2>2
  <1>5. \A i \in DOMAIN r : i + 1 \in DOMAIN q /\ r[i] = q[i + 1]
    BY <1>2, <1>3
  <1>6. Shifted(x, 1)
    BY <1>3, <1>4, <1>5 DEF Shifted
  <1>7. Added(x, 1) = {}
    BY <1>3, <1>5 DEF Added
  <1> QED BY <1>6, <1>7 DEF Plainly

LEMMA QueueGrows ==
  ASSUME TTypeOK, NEW x \in Host, NEW more \in Seq(Header), net'[x] = net[x] \o more
  PROVE  /\ Shifted(x, 0)
         /\ \A i \in Added(x, 0) : \E n \in DOMAIN more : net'[x][i] = more[n]
         /\ \A n \in DOMAIN more :
              Len(net[x]) + n \in Added(x, 0) /\ net'[x][Len(net[x]) + n] = more[n]
  <1>1. PICK q \in Seq(Header) : q = net[x]
    BY DEF TTypeOK
  <1>2. /\ Len(q) \in Nat /\ Len(more) \in Nat /\ DOMAIN q = 1 .. Len(q)
        /\ DOMAIN more = 1 .. Len(more) /\ DOMAIN (q \o more) = 1 .. Len(q) + Len(more)
        /\ \A i \in 1 .. Len(q) : (q \o more)[i] = q[i]
    OBVIOUS
  <1>3. \A i \in DOMAIN q : i \in DOMAIN (q \o more) /\ i - 0 = i /\ i + 0 = i
    BY <1>2
  <1>4. \A i \in DOMAIN (q \o more) : i + 0 = i
    BY <1>2
  <1>5. Shifted(x, 0)
    BY <1>1, <1>2, <1>3, <1>4 DEF Shifted
  <1>6. ASSUME NEW i \in Added(x, 0)
        PROVE  \E n \in DOMAIN more : net'[x][i] = more[n]
    <2>1. i \in DOMAIN (q \o more) /\ i \notin DOMAIN q
      BY <1>1, <1>4 DEF Added
    <2>2. i \in Nat /\ i > Len(q) /\ i <= Len(q) + Len(more)
      BY <1>2, <2>1
    <2>3. i - Len(q) \in 1 .. Len(more) /\ (q \o more)[i] = more[i - Len(q)]
      BY <1>2, <2>2
    <2> QED BY <1>1, <1>2, <2>3
  <1>7. ASSUME NEW n \in DOMAIN more
        PROVE  Len(q) + n \in Added(x, 0) /\ (q \o more)[Len(q) + n] = more[n]
    <2>1. Len(q) + n \in 1 .. Len(q) + Len(more) /\ Len(q) + n > Len(q) /\ (Len(q) + n) - Len(q) = n
      BY <1>2
    <2>2. Len(q) + n \in DOMAIN (q \o more) /\ Len(q) + n \notin DOMAIN q
      BY <1>2, <2>1
    <2>3. (q \o more)[Len(q) + n] = more[(Len(q) + n) - Len(q)]
      BY <1>2, <2>1
    <2> QED BY <1>1, <1>4, <2>1, <2>2, <2>3 DEF Added
  <1> QED BY <1>1, <1>5, <1>6, <1>7

\* A segment that is sent joins the end of the queue.
LEMMA QueueGets ==
  ASSUME TTypeOK, NEW g \in Host, NEW r \in Header, Queued(g, r)
  PROVE  /\ Shifted(g, 0) /\ Added(g, 0) = {Len(net[g]) + 1}
         /\ net'[g][Len(net[g]) + 1] = r
         /\ \A x \in Host \ {g} : net'[x] = net[x]
  <1>1. PICK q \in Seq(Header) : q = net[g]
    BY DEF TTypeOK
  <1>2. net'[g] = Append(q, r) /\ \A x \in Host \ {g} : net'[x] = net[x]
    BY <1>1 DEF Queued, TTypeOK
  <1>3. /\ Len(q) \in Nat /\ DOMAIN q = 1 .. Len(q) /\ DOMAIN Append(q, r) = 1 .. Len(q) + 1
        /\ \A i \in DOMAIN q : Append(q, r)[i] = q[i]
        /\ Append(q, r)[Len(q) + 1] = r
    BY AppendedIs
  <1>4. \A i \in DOMAIN Append(q, r) : i + 0 = i /\ (i \notin DOMAIN q <=> i = Len(q) + 1)
    BY <1>3
  <1>5. \A i \in DOMAIN q : i \in DOMAIN Append(q, r) /\ i - 0 = i /\ i + 0 = i
    BY <1>3
  <1>6. Shifted(g, 0)
    BY <1>1, <1>2, <1>3, <1>4, <1>5 DEF Shifted
  <1>7. Len(q) + 1 \in DOMAIN Append(q, r)
    BY <1>3
  <1>8. Added(g, 0) = {Len(q) + 1}
    BY <1>1, <1>2, <1>4, <1>7 DEF Added
  <1> QED BY <1>1, <1>2, <1>3, <1>6, <1>8

\* The queues when the first segment of h is handled.
LEMMA HandledQueues ==
  ASSUME TTypeOK, NEW h \in Host, NEW i \in DOMAIN net[h], i = 1, NEW k, NEW s,
         NEW g \in Host \ {h}, g = s.remote, NEW replies \in Seq(Header), Handled(h, i, k, s, replies)
  PROVE  /\ Plainly(h, 1) /\ net'[g] = net[g] \o replies
         /\ \A x \in Host \ {h, g} : Plainly(x, 0)
  <1>1. /\ net' = [net EXCEPT ![h] = RemoveAt(@, 1), ![g] = @ \o replies]
        /\ net \in [Host -> Seq(Header)] /\ 1 \in DOMAIN net[h]
    BY DEF Handled, TTypeOK
  <1>2. /\ net'[h] = RemoveAt(net[h], 1) /\ net'[g] = net[g] \o replies
        /\ \A x \in Host \ {h, g} : net'[x] = net[x]
    BY <1>1
  <1> QED BY <1>1, <1>2, QueueLosesHead, QueueRests

-----------------------------------------------------------------------------
(* Steps that leave all pairs in order.                                    *)

\* A socket leaves SYN_SENT only when it has a peer.
Waits(x, y) ==
  sockets[x][y].state = "SYN_SENT" => sockets'[x][y].state = "SYN_SENT" \/ HasPeer(x, y)

\* The first segment of x, if it goes, is nothing its sockets wait for.
HeadPasses(x) ==
  \A g \in Host : \A y \in DOMAIN sockets[x], j \in DOMAIN sockets[g] :
    Peers(x, y, g, j) =>
      /\ Active(x, y)' /\ Full(g, j) => 1 \notin Carried(x, g, j)
      /\ sockets'[x][y].state = "SYN_RECEIVED" =>
           ~(From(x, 1, g, j) /\ net[x][1].flags = {"ACK"})

Passes(x) == Plainly(x, 0) \/ (Plainly(x, 1) /\ HeadPasses(x))

LEMMA PassesRelays ==
  ASSUME NEW x \in Host, NEW g \in Host, NEW y \in DOMAIN sockets[x], NEW j \in DOMAIN sockets[g],
         Peers(x, y, g, j), Passes(x)
  PROVE  Relays(x, y, g, j)
  <1>1. ASSUME NEW c \in {0, 1}, Plainly(x, c)
        PROVE  Shifted(x, c) /\ \A i \in Added(x, c) : i \notin Carried(x, g, j)'
    BY <1>1 DEF Plainly, IsPlain, Carried
  <1>2. CASE Plainly(x, 0)
    <2>1. PICK c \in {0, 1} : c = 0
      OBVIOUS
    <2>2. Shifted(x, c) /\ \A i \in Added(x, c) : i \notin Carried(x, g, j)'
      BY <1>1, <1>2, <2>1
    <2> QED BY <2>1, <2>2 DEF Relays
  <1>3. CASE Plainly(x, 1) /\ HeadPasses(x)
    <2>1. PICK c \in {0, 1} : c = 1
      OBVIOUS
    <2>2. Shifted(x, c) /\ \A i \in Added(x, c) : i \notin Carried(x, g, j)'
      BY <1>1, <1>3, <2>1
    <2>3. /\ Active(x, y)' /\ Full(g, j) => 1 \notin Carried(x, g, j)
          /\ sockets'[x][y].state = "SYN_RECEIVED" =>
               ~(From(x, 1, g, j) /\ net[x][1].flags = {"ACK"})
      BY <1>3 DEF HeadPasses
    <2> QED BY <2>2, <2>3 DEF Relays
  <1> QED BY <1>2, <1>3 DEF Passes

\* No SYN joins the queue of x.
NoSyns(x) == \E c \in {0, 1} : Shifted(x, c) /\ \A i \in Added(x, c) : net'[x][i].flags # {"SYN"}

LEMMA PassesNoSyns ==
  ASSUME NEW x \in Host, Passes(x)
  PROVE  NoSyns(x)
  <1>1. CASE Plainly(x, 0)
    BY <1>1 DEF NoSyns, Plainly, IsPlain
  <1>2. CASE Plainly(x, 1)
    BY <1>2 DEF NoSyns, Plainly, IsPlain
  <1> QED BY <1>1, <1>2 DEF Passes

LEMMA SynsStay ==
  ASSUME SInv, SInv', Syns, Onward,
         \A x \in Host : NoSyns(x) /\ \A y \in DOMAIN sockets[x] : Waits(x, y)
  PROVE  Syns'
  <1>0. HInv /\ TTypeOK /\ TTypeOK'
    BY DEF SInv, HInv
  <1> SUFFICES ASSUME NEW x \in Host, NEW g \in Host, NEW i \in DOMAIN net'[x], NEW j \in DOMAIN sockets'[g],
                      net'[x][i].flags = {"SYN"}, From(x, i, g, j)'
               PROVE  /\ sockets'[g][j].state = "SYN_SENT" /\ ~HasPeer(g, j)'
                      /\ \A l \in DOMAIN net'[x] : net'[x][l].flags = {"SYN"} /\ From(x, l, g, j)' => l = i
    BY DEF Syns
  <1>1. j \in DOMAIN sockets[g]
    BY <1>0, OnwardIs
  <1>2. PICK c \in {0, 1} : Shifted(x, c) /\ \A l \in Added(x, c) : net'[x][l].flags # {"SYN"}
    BY DEF NoSyns
  <1>3. ASSUME NEW l \in DOMAIN net'[x], net'[x][l].flags = {"SYN"}, From(x, l, g, j)'
        PROVE  l \in Nat /\ l + c \in DOMAIN net[x] /\ net[x][l + c].flags = {"SYN"} /\ From(x, l + c, g, j)
    <2>1. l + c \in DOMAIN net[x] /\ net'[x][l] = net[x][l + c]
      BY <1>2, <1>3 DEF Shifted, Added
    <2>2. net'[x][l].src = g /\ SentBy(net[x][l], x, j)'
      BY <1>3 DEF From
    <2>3. PICK m : m = net'[x][l]
      OBVIOUS
    <2>4. SentBy(m, x, j)'
      BY <2>2, <2>3 DEF SentBy
    <2>5. SentBy(m, x, j)
      BY <1>0, <2>2, <2>3, <2>4, SendersStay
    <2>6. l \in Nat
      <3>1. net'[x] \in Seq(Header)
        BY <1>0 DEF TTypeOK
      <3> QED BY <3>1
    <2> QED BY <1>3, <2>1, <2>2, <2>3, <2>5, <2>6 DEF From
  <1>4. i + c \in DOMAIN net[x] /\ net[x][i + c].flags = {"SYN"} /\ From(x, i + c, g, j)
    BY <1>3
  <1>5. /\ sockets[g][j].state = "SYN_SENT" /\ ~HasPeer(g, j)
        /\ \A l \in DOMAIN net[x] : net[x][l].flags = {"SYN"} /\ From(x, l, g, j) => l = i + c
    BY <1>1, <1>4 DEF Syns
  <1>6. sockets'[g][j].state = "SYN_SENT"
    BY <1>1, <1>5 DEF Waits
  <1>7. ~HasPeer(g, j)'
    <2> SUFFICES ASSUME NEW e \in Host, NEW z \in DOMAIN sockets'[e], Peers(g, j, e, z)'
                 PROVE  FALSE
      BY DEF HasPeer
    <2>1. Peers(g, j, e, z) /\ z \in DOMAIN sockets[e]
      BY <1>0, OnwardIs, PeersStay
    <2> QED BY <1>5, <2>1 DEF HasPeer
  <1>8. ASSUME NEW l \in DOMAIN net'[x], net'[x][l].flags = {"SYN"}, From(x, l, g, j)'
        PROVE  l = i
    <2>1. l \in Nat /\ i \in Nat /\ l + c = i + c
      BY <1>3, <1>5, <1>8
    <2> QED BY <2>1
  <1> QED BY <1>6, <1>7, <1>8

LEMMA OrderStays ==
  ASSUME SInv, SInv', Ordered, Onward,
         \A x \in Host : Passes(x) /\ \A y \in DOMAIN sockets[x] : Speaks(x, y) /\ Hears(x, y) /\ Waits(x, y)
  PROVE  Ordered'
  <1>0. HInv /\ TTypeOK /\ TTypeOK'
    BY DEF SInv, HInv
  <1>1. ASSUME NEW x \in Host, NEW g \in Host, NEW y \in DOMAIN sockets'[x], NEW j \in DOMAIN sockets'[g],
               Peers(x, y, g, j)'
        PROVE  Pair(x, y, g, j)'
    <2>1. y \in DOMAIN sockets[x] /\ j \in DOMAIN sockets[g] /\ Peers(x, y, g, j)
      BY <1>0, <1>1, OnwardIs, PeersStay
    <2>2. Pair(x, y, g, j) /\ Relays(x, y, g, j)
      BY <2>1, PassesRelays DEF Ordered, Pairs
    <2>3. SameEnds(sockets[g][j], sockets'[g][j])
      BY <2>1 DEF Onward, Becomes
    <2> QED BY <2>1, <2>2, <2>3, PairStays
  <1>2. Syns'
    <2>1. \A x \in Host : NoSyns(x) /\ \A y \in DOMAIN sockets[x] : Waits(x, y)
      BY PassesNoSyns
    <2> QED BY <2>1, SynsStay DEF Ordered
  <1> QED BY <1>1, <1>2 DEF Ordered, Pairs

\* A socket to which nothing happens.
LEMMA UnmovedStays ==
  ASSUME NEW x \in Host, NEW y \in DOMAIN sockets[x],
         sockets'[x][y] = sockets[x][y],
         sent'[x][y] = sent[x][y], received'[x][y] = received[x][y],
         task'[x].at = "send" /\ task'[x].socket = y =>
           \/ sockets[x][y].state = "ESTABLISHED"
           \/ task[x].at = "send" /\ task[x].socket = y
  PROVE  Speaks(x, y) /\ Hears(x, y) /\ Waits(x, y)
  <1>1. Continues(x, y)
    BY DEF Continues, MaySend, Upcoming
  <1>2. Sending(x, y)' => Sending(x, y)
    BY DEF Sending
  <1>3. Hears(x, y)
    BY DEF Hears, Active
  <1> QED BY <1>1, <1>2, <1>3 DEF Speaks, Waits

-----------------------------------------------------------------------------
(* The first segment of a queue is handled.                                *)

\* A segment of a socket's peer is for that socket, and for no other.
LEMMA ForPeer ==
  ASSUME HInv, NEW h \in Host, NEW g \in Host, NEW y \in DOMAIN sockets[h], NEW j \in DOMAIN sockets[g],
         Peers(h, y, g, j), NEW i \in DOMAIN net[h], From(h, i, g, j), "SYN" \notin net[h][i].flags
  PROVE  IsFor(h, net[h][i], y) /\ \A k \in DOMAIN sockets[h] : IsFor(h, net[h][i], k) => k = y
  <1>1. PICK m : m = net[h][i]
    OBVIOUS
  <1>2. /\ sockets[h][y].localPort = m.dport /\ sockets[h][y].remote = m.src
        /\ sockets[h][y].remotePort = m.sport /\ sockets[h][y].remote \in Host
    BY <1>1 DEF From, SentBy, Peers
  <1>3. Matches(sockets[h][y], m)
    BY <1>2 DEF Matches
  <1>4. ASSUME NEW k \in DOMAIN sockets[h], Matches(sockets[h][k], m)
        PROVE  k = y
    <2>1. SameEnds(sockets[h][k], sockets[h][y]) /\ sockets[h][k].remote \in Host
      BY <1>1, <1>2, <1>4 DEF Matches, SameEnds
    <2> QED BY <2>1, EndsDiffer
  <1>5. ASSUME NEW k \in 1 .. y - 1
        PROVE  ~Matches(sockets[h][k], m)
    <2>1. DOMAIN sockets[h] = 1 .. Len(sockets[h]) /\ Len(sockets[h]) \in Nat
      BY Typed DEF HInv
    <2>2. k \in DOMAIN sockets[h] /\ k # y
      BY <2>1
    <2> QED BY <1>4, <2>2
  <1> QED BY <1>1, <1>3, <1>4, <1>5 DEF IsFor

LEMMA FlagsAre ==
  /\ \A f \in Flags : "PSH" \in f => f = {"PSH", "ACK"}
  /\ "SYN" \notin {"PSH", "ACK"} /\ "SYN" \notin {"ACK"} /\ "PSH" \notin {"ACK"}
  /\ {"PSH", "ACK"} \cap {"SYN", "ACK", "FIN"} = {"ACK"} /\ {"ACK"} \cap {"SYN", "ACK", "FIN"} = {"ACK"}
  /\ "RST" \notin {"PSH", "ACK"} /\ "RST" \notin {"ACK"}
  <1>1. ASSUME NEW f \in Flags, "PSH" \in f
        PROVE  f = {"PSH", "ACK"}
    BY <1>1 DEF Flags
  <1> QED BY <1>1

\* The first segment of h is nothing that the socket it is for, k, waits for.
HeadIsIdle(h, k) ==
  LET m == net[h][1]
  IN  /\ "PSH" \in m.flags /\ Active(h, k)' =>
           \A g \in Host : \A j \in DOMAIN sockets[g] :
             Peers(h, k, g, j) /\ From(h, 1, g, j) => ~Full(g, j)
      /\ m.flags = {"ACK"} => sockets'[h][k].state # "SYN_RECEIVED"

LEMMA HeadIdlyPasses ==
  ASSUME SInv, NEW h \in Host, 1 \in DOMAIN net[h],
         \A k \in DOMAIN sockets[h] : IsFor(h, net[h][1], k) => HeadIsIdle(h, k)
  PROVE  HeadPasses(h)
  <1>1. HInv /\ net[h][1].flags \in Flags
    BY Typed DEF SInv, HInv
  <1>2. ASSUME NEW g \in Host, NEW y \in DOMAIN sockets[h], NEW j \in DOMAIN sockets[g],
               Peers(h, y, g, j), From(h, 1, g, j), "SYN" \notin net[h][1].flags
        PROVE  HeadIsIdle(h, y)
    BY <1>1, <1>2, ForPeer
  <1>3. ASSUME NEW g \in Host, NEW y \in DOMAIN sockets[h], NEW j \in DOMAIN sockets[g],
               Peers(h, y, g, j)
        PROVE  /\ Active(h, y)' /\ Full(g, j) => 1 \notin Carried(h, g, j)
               /\ sockets'[h][y].state = "SYN_RECEIVED" =>
                    ~(From(h, 1, g, j) /\ net[h][1].flags = {"ACK"})
    <2>1. ASSUME Active(h, y)', Full(g, j), 1 \in Carried(h, g, j)
          PROVE  FALSE
      <3>1. From(h, 1, g, j) /\ "PSH" \in net[h][1].flags
        BY <2>1 DEF Carried
      <3>2. "SYN" \notin net[h][1].flags
        BY <1>1, <3>1, FlagsAre
      <3> QED BY <1>2, <1>3, <2>1, <3>1, <3>2 DEF HeadIsIdle
    <2>2. ASSUME sockets'[h][y].state = "SYN_RECEIVED", From(h, 1, g, j), net[h][1].flags = {"ACK"}
          PROVE  FALSE
      BY <1>2, <1>3, <2>2, FlagsAre DEF HeadIsIdle
    <2> QED BY <2>1, <2>2
  <1> QED BY <1>3 DEF HeadPasses

\* A client that becomes ESTABLISHED says so.
Replied(h, k) ==
  sockets[h][k].state = "SYN_SENT" /\ sockets'[h][k].state = "ESTABLISHED" =>
    \E x \in Host : sockets[h][k].remote = x /\ Acked(x, h, k)'

LEMMA GoesInOrder ==
  ASSUME SInv, NEW h \in Host, NEW k \in DOMAIN sockets[h], NEW s, sockets'[h][k] = s,
         DOMAIN sockets'[h] = DOMAIN sockets[h], Goes(h, k, s), HasPeer(h, k), Replied(h, k),
         task' = task, sent' = sent, received' = received, revived' = revived
  PROVE  Speaks(h, k) /\ Hears(h, k) /\ Waits(h, k)
  <1>1. Continues(h, k)
    BY GoesSteadily DEF Steadily
  <1>2. Waits(h, k)
    BY DEF Waits
  <1>3. sockets[h][k].state = "SYN_SENT" /\ (\E m \in OnWay(h) : "SYN" \in m.flags /\ s.ack = m.seq + 1)
          => s.ack = 1
    BY DEF SInv, Streams
  <1>4. Hears(h, k)
    <2>1. CASE s.state = sockets[h][k].state /\ s.ack = sockets[h][k].ack
      BY <2>1 DEF Hears, Active
    <2>2. CASE sockets[h][k].state = "SYN_RECEIVED" /\ s.state = "ESTABLISHED" /\ s.ack = sockets[h][k].ack
      BY <2>2 DEF Hears, Active
    <2>3. CASE sockets[h][k].state = "SYN_SENT" /\ s.state = "ESTABLISHED" /\ s.ack = 1
      BY <2>3 DEF Hears, Active
    <2>4. CASE s.state \in {"FIN_WAIT2", "CLOSED", "CLOSE_WAIT"}
      BY <2>4 DEF Hears, Active
    <2> QED BY <1>3, <2>1, <2>2, <2>3, <2>4 DEF Goes
  <1>5. ASSUME h \in Clients, Sending(h, k)', ~Sending(h, k)
        PROVE  \E x \in Host : sockets[h][k].remote = x /\ Acked(x, h, k)'
    <2>1. s.state = "ESTABLISHED" /\ sockets[h][k].state # "ESTABLISHED"
      BY <1>5 DEF Sending
    <2>2. sockets[h][k].state # "SYN_RECEIVED"
      BY <1>5 DEF SInv, HInv, Addressed, AtClient, Clients
    <2>3. sockets[h][k].state = "SYN_SENT"
      BY <2>1, <2>2 DEF Goes
    <2> QED BY <2>1, <2>3 DEF Replied
  <1> QED BY <1>1, <1>2, <1>4, <1>5 DEF Speaks

LEMMA AnswersArePlain ==
  ASSUME NEW h, NEW s, NEW r, Answers(h, s, r)
  PROVE  IsPlain(r)
  <1>1. "SYN" \in {"SYN"}
    OBVIOUS
  <1> QED BY <1>1 DEF Answers, Sends, IsPlain

\* The queues when the answers to the first segment of h are plain.
LEMMA AnsweredQueues ==
  ASSUME TTypeOK, NEW h \in Host, NEW i \in DOMAIN net[h], i = 1, NEW k, NEW s,
         s.remote \in Host \ {h}, NEW replies \in Seq(Header),
         \A r \in DOMAIN replies : IsPlain(replies[r]), Handled(h, i, k, s, replies)
  PROVE  Plainly(h, 1) /\ \A x \in Host \ {h} : Plainly(x, 0)
  <1>1. PICK g \in Host \ {h} : g = s.remote
    OBVIOUS
  <1>2. /\ Plainly(h, 1) /\ net'[g] = net[g] \o replies
        /\ \A x \in Host \ {h, g} : Plainly(x, 0)
    BY <1>1, HandledQueues
  <1>3. Plainly(g, 0)
    <2>2. /\ Shifted(g, 0)
          /\ \A l \in Added(g, 0) : \E n \in DOMAIN replies : net'[g][l] = replies[n]
      BY <1>2, QueueGrows
    <2> QED BY <2>2 DEF Plainly
  <1> QED BY <1>2, <1>3

LEMMA MovesInOrder ==
  ASSUME SInv, SInv', Ordered, NEW h \in Host, NEW i \in DOMAIN net[h], i = 1,
         NEW k, Moves(h, i, k), HasPeer(h, k), Replied(h, k), HeadPasses(h)
  PROVE  Ordered'
  <1>a. PICK s \in Socket : /\ Becomes(h, k, s) /\ Goes(h, k, s) /\ s.remote \in Host
                            /\ AnsweredAs(h, i, k, s)
    BY DEF Moves
  <1>b. PICK replies \in Seq(Header) :
          (\A r \in DOMAIN replies : Answers(h, s, replies[r])) /\ Handled(h, i, k, s, replies)
    BY <1>a DEF AnsweredAs
  <1>c. k \in DOMAIN sockets[h] /\ received' = received
    BY DEF Moves
  <1>0. HInv /\ TTypeOK /\ s.remote \in Host \ {h}
    BY <1>a, <1>c, Apart DEF SInv, HInv, Becomes, SameEnds
  <1>1. /\ \A x \in Host : Len(sockets'[x]) = Len(sockets[x]) /\ DOMAIN sockets'[x] = DOMAIN sockets[x]
        /\ \A x \in Host : \A y \in DOMAIN sockets[x] :
             sockets'[x][y] = IF x = h /\ y = k THEN s ELSE sockets[x][y]
        /\ task' = task /\ sent' = sent /\ revived' = revived
    BY <1>0, <1>b, <1>c, HandledIs
  <1>2. Onward
    <2> SUFFICES ASSUME NEW x \in Host, NEW y \in DOMAIN sockets[x]
                 PROVE  Becomes(x, y, sockets'[x][y])
      BY <1>1 DEF Onward
    <2>1. CASE x = h /\ y = k
      BY <1>a, <1>1, <2>1
    <2>2. CASE ~(x = h /\ y = k)
      BY <1>1, <2>2 DEF Becomes, SameEnds
    <2> QED BY <2>1, <2>2
  <1>3. ASSUME NEW x \in Host, NEW y \in DOMAIN sockets[x]
        PROVE  Speaks(x, y) /\ Hears(x, y) /\ Waits(x, y)
    <2>1. CASE x = h /\ y = k
      BY <1>a, <1>c, <1>1, <2>1, GoesInOrder
    <2>2. CASE ~(x = h /\ y = k)
      BY <1>c, <1>1, <2>2, UnmovedStays
    <2> QED BY <2>1, <2>2
  <1>4. Plainly(h, 1) /\ \A x \in Host \ {h} : Plainly(x, 0)
    BY <1>0, <1>b, AnswersArePlain, AnsweredQueues
  <1>6. \A x \in Host : Passes(x)
    BY <1>4 DEF Passes
  <1> QED BY <1>2, <1>3, <1>6, OrderStays

LEMMA HandledSets ==
  ASSUME TTypeOK, NEW h \in Host, NEW i, NEW k \in DOMAIN sockets[h], NEW s, NEW replies,
         Handled(h, i, k, s, replies)
  PROVE  sockets'[h][k] = s
  <1>1. sockets' = [sockets EXCEPT ![h][k] = s] /\ sockets \in [Host -> Seq(Socket)]
    BY DEF Handled, TTypeOK
  <1>2. sockets'[h] = [sockets[h] EXCEPT ![k] = s]
    BY <1>1
  <1>3. sockets[h] \in Seq(Socket)
    BY <1>1
  <1> QED BY <1>2, <1>3

LEMMA ResetSets ==
  ASSUME TTypeOK, NEW h \in Host, NEW i, NEW k \in DOMAIN sockets[h], Reset(h, i, k)
  PROVE  sockets'[h][k] = sockets[h][k]
  <1>1. PICK s, replies : s = sockets[h][k] /\ replies = Reply(h, s, {"RST"})
    OBVIOUS
  <1>2. Handled(h, i, k, s, replies)
    BY <1>1 DEF Reset
  <1> QED BY <1>1, <1>2, HandledSets

\* Neither a payload nor an ACK.
LEMMA OthersPass ==
  ASSUME SInv, NEW h \in Host, 1 \in DOMAIN net[h],
         "PSH" \notin net[h][1].flags, net[h][1].flags # {"ACK"}
  PROVE  HeadPasses(h)
  <1>1. \A k \in DOMAIN sockets[h] : HeadIsIdle(h, k)
    BY DEF HeadIsIdle
  <1> QED BY <1>1, HeadIdlyPasses

LEMMA NotAcking ==
  ASSUME SInv, NEW h \in Host, NEW i \in DOMAIN net[h], i = 1,
         "RST" \in net[h][i].flags \/ Class(h, i) # {"ACK"}
  PROVE  HeadPasses(h)
  <1>1. net[h][i].flags \in Flags
    BY Typed DEF SInv, HInv
  <1>2. "PSH" \notin net[h][i].flags /\ net[h][i].flags # {"ACK"}
    BY <1>1, FlagsAre DEF Class
  <1> QED BY <1>2, OthersPass

LEMMA RstInOrder ==
  ASSUME SInv, SInv', Ordered, NEW h \in Host, NEW i \in DOMAIN net[h], i = 1, NEW k,
         IsFor(h, net[h][i], k), OnRst(h, i, k)
  PROVE  Ordered'
  <1>0. HInv /\ TTypeOK /\ k \in DOMAIN sockets[h]
    BY DEF SInv, HInv, IsFor
  <1>1. Moves(h, i, k) /\ HasPeer(h, k) /\ HeadPasses(h)
    BY <1>0, OnRstMoves, NotListening, NotAcking DEF OnRst
  <1>2. PICK o \in Socket : o = sockets[h][k]
    BY <1>0, Typed
  <1>6. PICK s, replies : s = [o EXCEPT !.state = "CLOSED"] /\ replies = <<>>
    OBVIOUS
  <1>3. s.state = "CLOSED"
    BY <1>2, <1>6, WithState DEF States
  <1>4. Handled(h, i, k, s, replies)
    BY <1>2, <1>6 DEF OnRst
  <1>5. Replied(h, k)
    BY <1>0, <1>3, <1>4, HandledSets DEF Replied
  <1> QED BY <1>1, <1>5, MovesInOrder

LEMMA ResetInOrder ==
  ASSUME SInv, SInv', Ordered, NEW h \in Host, NEW i \in DOMAIN net[h], i = 1, NEW k,
         k \in DOMAIN sockets[h], HasPeer(h, k), Reset(h, i, k), UNCHANGED <<received, call>>,
         HeadPasses(h)
  PROVE  Ordered'
  <1>0. HInv /\ TTypeOK
    BY DEF SInv, HInv
  <1>1. sockets[h][k].remote \in Host
    BY DEF HasPeer, Peers
  <1>2. Moves(h, i, k)
    BY <1>0, <1>1, ResetMoves
  <1>3. Replied(h, k)
    BY <1>0, ResetSets DEF Replied
  <1> QED BY <1>2, <1>3, MovesInOrder

LEMMA SynAckInOrder ==
  ASSUME SInv, SInv', Ordered, NEW h \in Host, NEW i \in DOMAIN net[h], i = 1, NEW k,
         IsFor(h, net[h][i], k), OnSynAck(h, i, k)
  PROVE  Ordered'
  <1>0. HInv /\ TTypeOK /\ TTypeOK' /\ k \in DOMAIN sockets[h]
    BY DEF SInv, HInv, IsFor
  <1>1. Moves(h, i, k) /\ HasPeer(h, k) /\ HeadPasses(h)
    <2>1. "ACK" \in Class(h, i) /\ Class(h, i) # {"ACK"}
      BY DEF OnSynAck
    <2> QED BY <1>0, <2>1, OnSynAckMoves, NotListening, NotAcking
  <1>2. PICK o \in Socket : o = sockets[h][k]
    BY <1>0, Typed
  <1>3. CASE o.state # "SYN_SENT"
    BY <1>2, <1>3, MovesInOrder, <1>1 DEF Replied
  <1>4. CASE o.state = "SYN_SENT"
    <2>1. PICK s : s = [o EXCEPT !.state = "ESTABLISHED", !.ack = net[h][i].seq + 1, !.seq = o.seq + 1]
      OBVIOUS
    <2>2. SameEnds(o, s)
      BY <2>1 DEF Socket, SameEnds
    <2>3. PICK r, replies : r = Segment(h, s, {"ACK"}, NoData) /\ replies = <<r>>
      OBVIOUS
    <2>4. Handled(h, i, k, s, replies) /\ sent' = sent
      BY <1>2, <1>4, <2>1, <2>3 DEF OnSynAck, Reply, Handled
    <2>5. sockets'[h][k] = s
      BY <1>0, <2>4, HandledSets
    <2>6. PICK x \in Host \ {h} : x = s.remote /\ x = o.remote
      <3>1. o.remote \in Host
        BY <1>1, <1>2 DEF HasPeer, Peers
      <3> QED BY <1>0, <1>2, <2>2, <3>1, Apart DEF SameEnds
    <2>7. r \in Header /\ replies \in Seq(Header) /\ 1 \in DOMAIN replies /\ replies[1] = r
      <3>1. sockets'[h][k] \in Socket
        <4>1. sockets' \in [Host -> Seq(Socket)]
          BY <1>0 DEF TTypeOK
        <4>2. sockets'[h] \in Seq(Socket) /\ k \in DOMAIN sockets'[h]
          BY <1>0, <4>1, <2>4 DEF Handled, TTypeOK
        <4> QED BY <4>2
      <3>2. r \in Header
        BY <2>3, <2>5, <3>1, SegmentIs DEF Flags
      <3> QED BY <2>3, <3>2
    <2>8. /\ r.src = h /\ r.sport = s.localPort /\ r.dport = s.remotePort /\ r.flags = {"ACK"}
      BY <2>3 DEF Segment
    <2>9. net'[x] = net[x] \o replies
      <3>1. /\ TTypeOK /\ x \in Host \ {h} /\ x = s.remote /\ replies \in Seq(Header)
            /\ Handled(h, i, k, s, replies)
        BY <1>0, <2>4, <2>6, <2>7
      <3> QED BY <3>1, HandledQueues, ZenonT(30)
    <2>10. PICK e \in DOMAIN net'[x] : net'[x][e] = r
      <3>1. /\ Len(net[x]) + 1 \in Added(x, 0) /\ net'[x][Len(net[x]) + 1] = r
        BY <1>0, <2>7, <2>9, QueueGrows, ZenonT(30)
      <3> QED BY <3>1 DEF Added
    <2>11. k \in DOMAIN sockets'[h] /\ From(x, e, h, k)'
      <3>1. k \in DOMAIN sockets'[h]
        BY <1>0, <2>4 DEF Handled, TTypeOK
      <3> QED BY <2>5, <2>6, <2>8, <2>10, <3>1 DEF From, SentBy
    <2>12. Carried(x, h, k)' = {}
      <3>1. sent'[h][k] = <<>>
        BY <1>0, <1>2, <1>4, <2>4 DEF SInv, Streams, Fresh, Opening
      <3> QED BY <2>11, <3>1, NextUnsent
    <2>13. Acked(x, h, k)'
      BY <2>8, <2>10, <2>11, <2>12 DEF Acked
    <2>14. Replied(h, k)
      BY <1>2, <2>6, <2>13 DEF Replied
    <2> QED BY <1>1, <2>14, MovesInOrder
  <1> QED BY <1>3, <1>4

LEMMA FinInOrder ==
  ASSUME SInv, SInv', Ordered, NEW h \in Host, NEW i \in DOMAIN net[h], i = 1, NEW k,
         IsFor(h, net[h][i], k), OnFin(h, i, k)
  PROVE  Ordered'
  <1>0. HInv /\ TTypeOK /\ k \in DOMAIN sockets[h]
    BY DEF SInv, HInv, IsFor
  <1>1. Moves(h, i, k) /\ HasPeer(h, k) /\ HeadPasses(h)
    <2>1. "FIN" \in Class(h, i) /\ Class(h, i) # {"ACK"}
      BY DEF OnFin
    <2> QED BY <1>0, <2>1, OnFinMoves, NotListening, NotAcking
  <1>2. sockets[h][k].state = "SYN_SENT" => Reset(h, i, k)
    BY DEF OnFin
  <1>3. Replied(h, k)
    BY <1>0, <1>2, ResetSets DEF Replied
  <1> QED BY <1>1, <1>3, MovesInOrder

\* No two sockets get the same segment.
LEMMA IsForOne ==
  ASSUME TTypeOK, NEW h \in Host, NEW m, NEW k, NEW l, IsFor(h, m, k), IsFor(h, m, l)
  PROVE  k = l
  <1>1. DOMAIN sockets[h] = 1 .. Len(sockets[h]) /\ Len(sockets[h]) \in Nat
    BY Typed
  <1>2. /\ k \in 1 .. Len(sockets[h]) /\ l \in 1 .. Len(sockets[h])
        /\ Matches(sockets[h][k], m) /\ Matches(sockets[h][l], m)
        /\ (\A n \in 1 .. k - 1 : ~Matches(sockets[h][n], m))
        /\ (\A n \in 1 .. l - 1 : ~Matches(sockets[h][n], m))
    BY <1>1 DEF IsFor
  <1>3. ~(k < l)
    <2>1. k < l => k \in 1 .. l - 1
      BY <1>1, <1>2
    <2> QED BY <1>2, <2>1
  <1>4. ~(l < k)
    <2>1. l < k => l \in 1 .. k - 1
      BY <1>1, <1>2
    <2> QED BY <1>2, <2>1
  <1> QED BY <1>1, <1>2, <1>3, <1>4

LEMMA AckStates ==
  ASSUME TTypeOK, NEW h \in Host, NEW i \in DOMAIN net[h], NEW k \in DOMAIN sockets[h], OnAck(h, i, k)
  PROVE  \/ /\ sockets[h][k].state = "SYN_RECEIVED" /\ sockets'[h][k].state = "ESTABLISHED"
         \/ /\ sockets[h][k].state \in {"FIN_WAIT1", "CLOSE_WAIT"}
            /\ sockets'[h][k].state \in {"FIN_WAIT2", "CLOSED"}
         \/ /\ sockets[h][k].state # "SYN_RECEIVED" /\ sockets'[h][k].state = sockets[h][k].state
            /\ net[h][i].flags = {"ACK"}
  <1>1. PICK o \in Socket : o = sockets[h][k]
    BY Typed
  <1>2. PICK replies : replies = <<>>
    OBVIOUS
  <1>3. CASE o.state \in DOMAIN AfterAck
    <2>1. PICK st : st = AfterAck[o.state]
      OBVIOUS
    <2>2. \/ o.state = "SYN_RECEIVED" /\ st = "ESTABLISHED"
          \/ o.state = "FIN_WAIT1" /\ st = "FIN_WAIT2"
          \/ o.state = "CLOSE_WAIT" /\ st = "CLOSED"
      BY <1>3, <2>1 DEF AfterAck
    <2>3. st \in States
      BY <2>2 DEF States
    <2>4. PICK s : s = [o EXCEPT !.state = st]
      OBVIOUS
    <2>5. s.state = st
      BY <2>3, <2>4, WithState
    <2>6. Handled(h, i, k, s, replies)
      BY <1>1, <1>2, <1>3, <2>1, <2>4 DEF OnAck
    <2>7. sockets'[h][k] = s
      BY <2>6, HandledSets
    <2> QED BY <1>1, <2>2, <2>5, <2>7
  <1>4. CASE o.state \notin DOMAIN AfterAck
    <2>1. Handled(h, i, k, o, replies) /\ net[h][i].flags = {"ACK"}
      BY <1>1, <1>2, <1>4 DEF OnAck
    <2>2. sockets'[h][k] = o
      BY <2>1, HandledSets
    <2>3. o.state # "SYN_RECEIVED"
      BY <1>4 DEF AfterAck
    <2> QED BY <1>1, <2>1, <2>2, <2>3
  <1> QED BY <1>3, <1>4

LEMMA AckInOrder ==
  ASSUME SInv, SInv', Ordered, NEW h \in Host, NEW i \in DOMAIN net[h], i = 1, NEW k,
         IsFor(h, net[h][i], k), OnAck(h, i, k)
  PROVE  Ordered'
  <1>0. HInv /\ TTypeOK /\ k \in DOMAIN sockets[h]
    BY DEF SInv, HInv, IsFor
  <1>1. Moves(h, i, k) /\ HasPeer(h, k)
    <2>1. "ACK" \in Class(h, i)
      BY DEF OnAck
    <2> QED BY <1>0, <2>1, OnAckMoves, NotListening
  <1>2. \/ /\ sockets[h][k].state = "SYN_RECEIVED" /\ sockets'[h][k].state = "ESTABLISHED"
        \/ /\ sockets[h][k].state \in {"FIN_WAIT1", "CLOSE_WAIT"}
           /\ sockets'[h][k].state \in {"FIN_WAIT2", "CLOSED"}
        \/ /\ sockets[h][k].state # "SYN_RECEIVED" /\ sockets'[h][k].state = sockets[h][k].state
           /\ net[h][i].flags = {"ACK"}
    BY <1>0, AckStates
  <1>3. ASSUME "PSH" \in net[h][1].flags, Active(h, k)', NEW g \in Host, NEW j \in DOMAIN sockets[g],
               Peers(h, k, g, j), From(h, 1, g, j), Full(g, j)
        PROVE  FALSE
    <2>1. sockets[h][k].state = "SYN_RECEIVED"
      BY <1>2, <1>3, FlagsAre DEF Active
    <2>2. 1 \in Carried(h, g, j)
      BY <1>3 DEF Carried
    <2>3. sent[g][j] # <<>>
      <3>1. net[h][1].data.nth \in 1 .. Len(sent[g][j])
        BY <1>0, <1>3, <2>2, PairTyped DEF Among
      <3>2. Len(<<>>) = 0
        OBVIOUS
      <3> QED BY <3>1, <3>2
    <2>4. Acked(h, g, j)
      BY <1>0, <1>3, <2>1, <2>3 DEF Ordered, Pairs, Pair, Sending
    <2>5. PICK n \in DOMAIN net[h] : n < 1
      BY <2>2, <2>4 DEF Acked
    <2>6. n \in Nat /\ n >= 1
      BY <1>0, <1>3, PairTyped
    <2> QED BY <2>5, <2>6
  <1>4. net[h][1].flags = {"ACK"} => sockets'[h][k].state # "SYN_RECEIVED"
    BY <1>2
  <1>5. HeadIsIdle(h, k)
    BY <1>3, <1>4 DEF HeadIsIdle
  <1>6. HeadPasses(h)
    BY <1>0, <1>5, IsForOne, HeadIdlyPasses
  <1>7. Replied(h, k)
    BY <1>2 DEF Replied
  <1> QED BY <1>1, <1>6, <1>7, MovesInOrder

LEMMA NothingInOrder ==
  ASSUME SInv, SInv', Ordered, NEW h \in Host, NEW i \in DOMAIN net[h], i = 1, OnNothing(h, i)
  PROVE  Ordered'
  <1>0. HInv /\ TTypeOK
    BY DEF SInv, HInv
  <1>1. /\ sockets' = sockets /\ task' = task /\ sent' = sent /\ received' = received
        /\ net' = [net EXCEPT ![h] = RemoveAt(@, i)] /\ net \in [Host -> Seq(Header)]
    BY <1>0 DEF OnNothing, TTypeOK
  <1>2. Onward
    BY <1>1 DEF Onward, Becomes, SameEnds
  <1>3. \A k \in DOMAIN sockets[h] : IsFor(h, net[h][1], k) => sockets[h][k].state = "CLOSED"
    BY <1>0, IsForOne DEF OnNothing
  <1>4. \A k \in DOMAIN sockets[h] : IsFor(h, net[h][1], k) => HeadIsIdle(h, k)
    BY <1>1, <1>3 DEF HeadIsIdle, Active
  <1>5. HeadPasses(h)
    BY <1>4, HeadIdlyPasses
  <1>6. ASSUME NEW x \in Host
        PROVE  Passes(x)
    <2>1. CASE x = h
      BY <1>0, <1>1, <1>5, <2>1, QueueLosesHead DEF Passes
    <2>2. CASE x # h
      BY <1>0, <1>1, <2>2, QueueRests DEF Passes
    <2> QED BY <2>1, <2>2
  <1>7. ASSUME NEW x \in Host, NEW y \in DOMAIN sockets[x]
        PROVE  Speaks(x, y) /\ Hears(x, y) /\ Waits(x, y)
    BY <1>1, UnmovedStays
  <1> QED BY <1>2, <1>6, <1>7, OrderStays

\* In calm a payload is not refused, unless its receiving end has stopped taking any.
LEMMA DataRefusedInOrder ==
  ASSUME SInv, SInv', Ordered, NEW h \in Host, NEW i \in DOMAIN net[h], i = 1, NEW k,
         IsFor(h, net[h][i], k), Class(h, i) = {"ACK"}, sockets[h][k].state \notin DOMAIN AfterAck,
         ~InOrder(sockets[h][k], net[h][i]), "PSH" \in net[h][i].flags,
         Reset(h, i, k), UNCHANGED <<received, call>>
  PROVE  Ordered'
  <1>0. HInv /\ TTypeOK /\ k \in DOMAIN sockets[h]
    BY DEF SInv, HInv, IsFor
  <1>1. HasPeer(h, k)
    BY <1>0, NotListening
  <1>2. sockets'[h][k] = sockets[h][k]
    BY <1>0, ResetSets
  <1>3. ASSUME Active(h, k)', NEW g \in Host, NEW j \in DOMAIN sockets[g],
               Peers(h, k, g, j), From(h, 1, g, j), Full(g, j)
        PROVE  FALSE
    <2>1. 1 \in Carried(h, g, j)
      BY <1>3 DEF Carried
    <2>2. OnLine(h, k, g, j)
      BY <1>0, <1>2, <1>3 DEF Ordered, Pairs, Pair, Active
    <2>3. PICK ack, ends, q : ack = sockets[h][k].ack /\ ends = Ends(g, j) /\ q = net[h]
      OBVIOUS
    <2>4. PICK P \in SUBSET (Nat \ {0}), all \in Seq(Data), got \in Nat :
            /\ P = Carried(h, g, j) /\ all = sent[g][j] /\ got = Len(received[h][k])
            /\ Among(q, P, all)
      BY <1>0, <2>3, PairTyped
    <2>5. Line(q, P, all, got, ack, ends) /\ 1 \in P
      BY <2>1, <2>2, <2>3, <2>4 DEF OnLine
    <2>7. Among(q, P, all)
      BY <2>4
    <2>6. q[1].seq = ack
      BY <2>5, <2>7, LineHead
    <2> QED BY <2>3, <2>6 DEF InOrder
  <1>4. "PSH" \in net[h][1].flags => net[h][1].flags # {"ACK"}
    BY FlagsAre
  <1>5. HeadIsIdle(h, k)
    BY <1>3, <1>4 DEF HeadIsIdle
  <1>6. HeadPasses(h)
    BY <1>0, <1>5, IsForOne, HeadIdlyPasses
  <1> QED BY <1>0, <1>1, <1>6, ResetInOrder

-----------------------------------------------------------------------------
(* A payload is taken, in order.                                           *)

LEMMA TakenInOrder ==
  ASSUME SInv, SInv', Ordered, NEW h \in Host, NEW i \in DOMAIN net[h], i = 1, NEW k,
         IsFor(h, net[h][i], k), "PSH" \in net[h][i].flags, "SYN" \notin net[h][i].flags,
         NEW s \in Socket, NEW replies \in Seq(Header), DataTaken(h, i, k, s, replies)
  PROVE  Ordered'
  <1>0. HInv /\ TTypeOK /\ TTypeOK' /\ k \in DOMAIN sockets[h]
    BY DEF SInv, HInv, IsFor
  <1>1. /\ SameEnds(sockets[h][k], s) /\ s.state = sockets[h][k].state /\ s.seq = sockets[h][k].seq
        /\ s.ack = sockets[h][k].ack + Advance(net[h][i].data)
        /\ sockets[h][k].state \in {"ESTABLISHED", "FIN_WAIT2"}
        /\ OnlyTakes(h, k, net[h][i].data) /\ task' = task /\ sent' = sent
    BY DEF DataTaken
  <1>2. /\ \A x \in Host : Len(sockets'[x]) = Len(sockets[x]) /\ DOMAIN sockets'[x] = DOMAIN sockets[x]
        /\ \A x \in Host : \A y \in DOMAIN sockets[x] :
             sockets'[x][y] = IF x = h /\ y = k THEN s ELSE sockets[x][y]
    BY DEF DataTaken, OnlyBecomes
  <1>3. Onward
    <2> SUFFICES ASSUME NEW x \in Host, NEW y \in DOMAIN sockets[x]
                 PROVE  Becomes(x, y, sockets'[x][y])
      BY <1>2 DEF Onward
    <2>1. CASE x = h /\ y = k
      BY <1>1, <1>2, <2>1 DEF Becomes
    <2>2. CASE ~(x = h /\ y = k)
      BY <1>2, <2>2 DEF Becomes, SameEnds
    <2> QED BY <2>1, <2>2
  <1>4. Plainly(h, 1) /\ \A x \in Host \ {h} : Plainly(x, 0)
    <2>1. /\ Handled(h, i, k, s, replies) /\ s.remote \in Host \ {h}
          /\ \A r \in DOMAIN replies : Answers(h, s, replies[r])
      BY DEF DataTaken
    <2>2. \A r \in DOMAIN replies : IsPlain(replies[r])
      BY <2>1, AnswersArePlain
    <2> QED BY <1>0, <2>1, <2>2, AnsweredQueues
  <1>5. \A x \in Host : \A y \in DOMAIN sockets[x] :
          sockets'[x][y].state = sockets[x][y].state /\ sockets'[x][y].seq = sockets[x][y].seq
    BY <1>1, <1>2
  <1>6. Syns'
    <2>1. \A x \in Host : NoSyns(x)
      BY <1>4 DEF NoSyns, Plainly, IsPlain
    <2> QED BY <1>3, <1>5, <2>1, SynsStay DEF Ordered, Waits
  <1>7. ASSUME NEW x \in Host, NEW y \in DOMAIN sockets[x]
        PROVE  Speaks(x, y)
    <2>1. Continues(x, y)
      BY <1>1, <1>5 DEF Continues, MaySend, Upcoming
    <2> QED BY <1>1, <1>5, <2>1 DEF Speaks, Sending
  <1>8. ASSUME NEW g \in Host, NEW y \in DOMAIN sockets[h], NEW l \in DOMAIN sockets[g],
               Peers(h, y, g, l), From(h, 1, g, l)
        PROVE  y = k
    BY <1>0, <1>8, ForPeer
  <1>9. ASSUME NEW x \in Host, NEW g \in Host, NEW y \in DOMAIN sockets[x], NEW l \in DOMAIN sockets[g],
               Peers(x, y, g, l), ~(x = h /\ y = k)
        PROVE  Pair(x, y, g, l)'
    <2>1. Passes(x) \/ (x = h /\ Relays(x, y, g, l))
      <3>1. CASE x = h
        <4>1. ~From(h, 1, g, l)
          BY <1>8, <1>9, <3>1
        <4>2. 1 \notin Carried(h, g, l)
          BY <4>1 DEF Carried
        <4>3. PICK c \in {0, 1} : c = 1
          OBVIOUS
        <4>4. Shifted(h, c) /\ \A n \in Added(h, c) : n \notin Carried(h, g, l)'
          BY <1>4, <4>3 DEF Plainly, IsPlain, Carried
        <4> QED BY <3>1, <4>1, <4>2, <4>4 DEF Relays
      <3>2. CASE x # h
        BY <1>4, <3>2 DEF Passes
      <3> QED BY <3>1, <3>2
    <2>2. Relays(x, y, g, l)
      BY <1>9, <2>1, PassesRelays
    <2>3. Hears(x, y)
      <3>1. sockets'[x][y] = sockets[x][y] /\ received'[x][y] = received[x][y]
        BY <1>1, <1>2, <1>9 DEF OnlyTakes
      <3> QED BY <3>1 DEF Hears, Active
    <2>4. SameEnds(sockets[g][l], sockets'[g][l]) /\ Pair(x, y, g, l)
      BY <1>3, <1>9 DEF Onward, Becomes, Ordered, Pairs
    <2>5. y \in DOMAIN sockets'[x] /\ l \in DOMAIN sockets'[g] /\ Speaks(g, l)
      BY <1>2, <1>7
    <2> QED BY <1>9, <2>2, <2>3, <2>4, <2>5, PairStays
  <1>10. ASSUME NEW g \in Host, NEW l \in DOMAIN sockets[g], Peers(h, k, g, l)
         PROVE  Pair(h, k, g, l)'
    <2>1. sockets'[h][k] = s /\ g # h
      BY <1>0, <1>2, <1>10, Apart DEF Peers
    <2>2. sockets'[g][l] = sockets[g][l] /\ l \in DOMAIN sockets'[g]
      BY <1>2, <1>10, <2>1
    <2>3. From(h, 1, g, l) /\ 1 \in Carried(h, g, l)
      <3>1. PICK m \in OnWay(h) : m = net[h][i]
        BY <1>0, Typed
      <3>2. m.flags # {"SYN"}
        BY <3>1
      <3>3. sockets[h][k].state # "LISTEN"
        BY <1>1
      <3>4. /\ sockets[h][k].remote = m.src /\ m.src \in Host
            /\ \E j \in DOMAIN sockets[m.src] : SentBy(m, h, j) /\ Peers(h, k, m.src, j)
        BY <1>0, <3>1, <3>3, Sender
      <3>5. g = m.src
        BY <1>10, <3>4 DEF Peers
      <3>6. PICK j \in DOMAIN sockets[g] : SentBy(m, h, j) /\ Peers(h, k, g, j)
        BY <3>4, <3>5
      <3>7. SameEnds(sockets[g][j], sockets[g][l]) /\ sockets[g][j].remote \in Host
        BY <1>10, <3>6 DEF Peers, SameEnds
      <3>8. j = l
        BY <1>0, <3>7, EndsDiffer
      <3> QED BY <3>1, <3>5, <3>6, <3>8 DEF From, Carried
    <2>4. ASSUME s.state = "ESTABLISHED", Full(g, l)
          PROVE  OnLine(h, k, g, l)'
      <3>1. OnLine(h, k, g, l)
        BY <1>0, <1>1, <1>10, <2>4 DEF Ordered, Pairs, Pair, Active
      <3>2. PICK ends, q, r : ends = Ends(g, l) /\ q = net[h] /\ r = net'[h]
        OBVIOUS
      <3>3. PICK P \in SUBSET (Nat \ {0}), all \in Seq(Data), got \in Nat, ack \in Int :
              /\ P = Carried(h, g, l) /\ all = sent[g][l] /\ got = Len(received[h][k])
              /\ ack = sockets[h][k].ack /\ Among(q, P, all)
        BY <1>0, <3>2, PairTyped
      <3>4. Line(q, P, all, got, ack, ends) /\ 1 \in P
        BY <2>3, <3>1, <3>2, <3>3 DEF OnLine
      <3>5. PICK S : S = Carried(h, g, l)'
        OBVIOUS
      <3>6. /\ \A n \in S : n \in Nat \ {0} /\ n + 1 \in P /\ r[n] = q[n + 1]
            /\ \A n \in P : n > 1 => n - 1 \in S
        <4>1. PICK c \in {0, 1} : c = 1
          OBVIOUS
        <4>2. Shifted(h, c) /\ \A n \in Added(h, c) : n \notin Carried(h, g, l)'
          BY <1>4, <4>1 DEF Plainly, IsPlain, Carried
        <4>3. SameEnds(sockets[g][l], sockets'[g][l])
          BY <2>2 DEF SameEnds
        <4>4. /\ \A n \in Carried(h, g, l)' :
                   n \in Nat \ {0} /\ n + c \in Carried(h, g, l) /\ net'[h][n] = net[h][n + c]
              /\ \A n \in Carried(h, g, l) : n > c => n - c \in Carried(h, g, l)'
          BY <1>0, <2>2, <4>2, <4>3, CarriedMoves
        <4> QED BY <3>2, <3>3, <3>5, <4>1, <4>4
      <3>7. PICK more \in Nat : more = got + 1
        OBVIOUS
      <3>13. PICK on : on = ack + q[1].data.len
        OBVIOUS
      <3>8. S \in SUBSET (Nat \ {0})
        BY <3>6
      <3>9. Line(r, S, all, more, on, ends)
        BY <3>3, <3>4, <3>6, <3>7, <3>8, <3>13, LineIsTaken
      <3>10. sockets'[h][k].ack = on
        <4>1. q[1].data = all[q[1].data.nth] /\ q[1].data.nth \in 1 .. Len(all)
          BY <3>3, <3>4 DEF Among
        <4>2. q[1].data.len > 0
          BY <3>4, <4>1 DEF Line
        <4>3. q[1].data.used = q[1].data.len
          <5>1. q[1].data.nth \in DOMAIN all
            BY <4>1
          <5> QED BY <2>4, <3>3, <4>1, <5>1 DEF Full
        <4>4. q[1].data \in Data
          BY <4>1
        <4>5. Advance(q[1].data) = q[1].data.len
          BY <4>2, <4>3, <4>4 DEF Advance, Data
        <4> QED BY <1>1, <2>1, <3>2, <3>3, <3>13, <4>5
      <3>11. Len(received'[h][k]) = more
        <4>1. received[h] \in Seq(Stream) /\ k \in DOMAIN received[h]
          BY <1>0, Typed
        <4>2. received[h][k] \in Seq(Data)
          BY <4>1 DEF Stream
        <4>3. net[h][i].data \in Data
          <5>1. PICK m \in OnWay(h) : m = net[h][i]
            BY <1>0, Typed
          <5> QED BY <1>0, <5>1, Typed
        <4>4. Len(Append(received[h][k], net[h][i].data)) = Len(received[h][k]) + 1
          BY <4>2, <4>3, AppendedIs
        <4> QED BY <1>1, <3>3, <3>7, <4>4 DEF OnlyTakes
      <3>12. Ends(g, l)' = ends
        BY <1>1, <2>2, <3>2 DEF Ends, Upcoming, MaySend
      <3> QED BY <1>1, <3>2, <3>3, <3>5, <3>9, <3>10, <3>11, <3>12 DEF OnLine
    <2>5. Active(h, k)' /\ Full(g, l)' => s.state = "ESTABLISHED" /\ Full(g, l)
      BY <1>1, <2>1 DEF Active, Full
    <2> QED BY <1>1, <2>1, <2>4, <2>5 DEF Pair
  <1>11. ASSUME NEW x \in Host, NEW g \in Host, NEW y \in DOMAIN sockets'[x], NEW l \in DOMAIN sockets'[g],
                Peers(x, y, g, l)'
         PROVE  Pair(x, y, g, l)'
    <2>1. y \in DOMAIN sockets[x] /\ l \in DOMAIN sockets[g] /\ Peers(x, y, g, l)
      BY <1>0, <1>3, <1>11, OnwardIs, PeersStay
    <2> QED BY <1>9, <1>10, <2>1
  <1> QED BY <1>6, <1>11 DEF Ordered, Pairs

LEMMA DataInOrder ==
  ASSUME SInv, SInv', Ordered, NEW h \in Host, NEW i \in DOMAIN net[h], i = 1, NEW k,
         NEW accepts, accepts, IsFor(h, net[h][i], k), OnData(h, i, k, accepts),
         sockets[h][k].state # "CLOSED"
  PROVE  Ordered'
  <1>0. HInv
    BY DEF SInv
  <1>1. /\ Class(h, i) = {"ACK"} /\ "PSH" \in net[h][i].flags /\ "SYN" \notin net[h][i].flags
        /\ sockets[h][k].state \notin DOMAIN AfterAck
    BY DEF OnData, Class
  <1>2. CASE InOrder(sockets[h][k], net[h][i])
    <2>1. PICK s \in Socket, replies \in Seq(Header) : DataTaken(h, i, k, s, replies)
      BY <1>0, <1>2, OnDataTakes
    <2> QED BY <1>1, <2>1, TakenInOrder
  <1>3. CASE ~InOrder(sockets[h][k], net[h][i])
    <2>1. Reset(h, i, k) /\ UNCHANGED <<received, call>>
      BY <1>3 DEF OnData
    <2> QED BY <1>1, <1>3, <2>1, DataRefusedInOrder
  <1> QED BY <1>2, <1>3

LEMMA RequestInOrder ==
  ASSUME SInv, SInv', Ordered, NEW h \in Host, NEW i \in DOMAIN net[h], i = 1, NEW k,
         IsFor(h, net[h][i], k), OnRequest(h, i, k), sockets[h][k].state # "CLOSED"
  PROVE  Ordered'
  <1>0. HInv
    BY DEF SInv
  <1>1. "PSH" \in net[h][i].flags /\ "SYN" \notin net[h][i].flags
    BY DEF OnRequest, Class
  <1>2. PICK none \in Seq(Header) : none = <<>>
    <2>1. <<>> \in Seq(Header)
      OBVIOUS
    <2> QED BY <2>1
  <1>3. PICK s \in Socket : DataTaken(h, i, k, s, none)
    BY <1>0, <1>2, OnRequestTakes
  <1> QED BY <1>1, <1>3, TakenInOrder

-----------------------------------------------------------------------------
(* A socket gets its peer, in order.                                       *)

LEMMA BindingInOrder ==
  ASSUME SInv, SInv', Ordered, NEW h \in Servers, NEW i \in DOMAIN net[h], i = 1,
         NEW k \in DOMAIN sockets[h], sockets[h][k].state = "LISTEN",
         NEW m \in OnWay(h), m = net[h][i], m.flags = {"SYN"}, m.src \in Clients,
         NEW s \in Socket, s.state = "SYN_RECEIVED", s.ack = 1, s.remote = m.src,
         s.localPort = sockets[h][k].localPort, s.remotePort = m.sport, m.dport = s.localPort,
         OnlyBecomes(h, k, s), Plainly(h, 1), \A x \in Host \ {h} : Plainly(x, 0),
         UNCHANGED <<task, sent, received>>
  PROVE  Ordered'
  <1>0. HInv /\ Streams /\ TTypeOK /\ TTypeOK' /\ HInv' /\ h \in Host
    BY TcpAssumption DEF SInv, HInv
  <1>1. /\ \A x \in Host : Len(sockets'[x]) = Len(sockets[x]) /\ DOMAIN sockets'[x] = DOMAIN sockets[x]
        /\ \A x \in Host : \A y \in DOMAIN sockets[x] :
             sockets'[x][y] = IF x = h /\ y = k THEN s ELSE sockets[x][y]
    BY DEF OnlyBecomes
  <1>2. /\ sockets[h][k].remote = Nobody
        /\ sent[h][k] = <<>> /\ received[h][k] = <<>>
    BY <1>0 DEF HInv, Addressed, AtServer, Streams, Fresh, Opening
  <1>3. PICK e \in Host : e = m.src /\ e \in Clients /\ e # h
    BY DEF Clients
  <1>4. PICK z \in DOMAIN sockets[e] : SentBy(m, h, z)
    BY <1>0, <1>3 DEF HInv, Genuine, IsGenuine
  <1>5. From(h, 1, e, z) /\ net[h][1].flags = {"SYN"}
    BY <1>3, <1>4 DEF From
  <1>6. /\ sockets[e][z].state = "SYN_SENT" /\ ~HasPeer(e, z)
        /\ \A l \in DOMAIN net[h] : net[h][l].flags = {"SYN"} /\ From(h, l, e, z) => l = 1
    BY <1>0, <1>5 DEF Ordered, Syns
  <1>7. sockets'[e][z] = sockets[e][z] /\ z \in DOMAIN sockets'[e] /\ sockets'[h][k] = s
        /\ k \in DOMAIN sockets'[h]
    BY <1>0, <1>1, <1>3
  <1>8. ASSUME NEW l \in DOMAIN sockets'[e], sockets'[e][l].remote = h,
               sockets'[e][l].localPort = s.remotePort, sockets'[e][l].remotePort = s.localPort
        PROVE  l = z
    <2>1. SameEnds(sockets'[e][l], sockets'[e][z]) /\ sockets'[e][l].remote \in Host
      BY <1>0, <1>3, <1>4, <1>7, <1>8 DEF SentBy, SameEnds
    <2>2. l \in DOMAIN sockets[e] /\ sockets'[e][l] = sockets[e][l]
      BY <1>1, <1>3
    <2>3. SameEnds(sockets[e][l], sockets[e][z]) /\ sockets[e][l].remote \in Host
      BY <1>7, <2>1, <2>2
    <2> QED BY <1>0, <2>2, <2>3, EndsDiffer
  <1>9. HeadPasses(h)
    <2>1. "PSH" \notin {"SYN"} /\ {"SYN"} # {"ACK"}
      <3>1. "SYN" \notin {"ACK"}
        OBVIOUS
      <3> QED BY <3>1
    <2> QED BY <1>0, <1>5, <2>1, OthersPass
  <1>10. \A x \in Host : Passes(x)
    BY <1>9 DEF Passes
  <1>11. ASSUME NEW x \in Host, NEW g \in Host, NEW y \in DOMAIN sockets[x], NEW l \in DOMAIN sockets[g],
                Peers(x, y, g, l), ~(x = h /\ y = k), ~(g = h /\ l = k)
         PROVE  Pair(x, y, g, l)'
    <2>1. /\ sockets'[x][y] = sockets[x][y] /\ sockets'[g][l] = sockets[g][l]
          /\ y \in DOMAIN sockets'[x] /\ l \in DOMAIN sockets'[g]
      BY <1>1, <1>11
    <2>2. Speaks(g, l) /\ Hears(x, y)
      <3>1. /\ sent'[x][y] = sent[x][y] /\ received'[x][y] = received[x][y] /\ task' = task
            /\ sent'[g][l] = sent[g][l] /\ received'[g][l] = received[g][l]
        OBVIOUS
      <3> QED BY <2>1, <3>1, UnmovedStays
    <2>3. Relays(x, y, g, l)
      BY <1>10, <1>11, PassesRelays
    <2>4. SameEnds(sockets[g][l], sockets'[g][l]) /\ Pair(x, y, g, l)
      BY <1>11, <2>1 DEF SameEnds, Ordered, Pairs
    <2> QED BY <1>11, <2>1, <2>2, <2>3, <2>4, PairStays
  <1>12. Pair(h, k, e, z)'
    <2>1. sent'[e][z] = <<>> /\ received'[h][k] = <<>>
      BY <1>0, <1>2, <1>6 DEF Streams, Fresh, Opening
    <2>2. Carried(h, e, z)' = {} /\ Ends(e, z)' \subseteq {1} /\ Len(<<>>) = 0
      BY <1>0, <1>7, <2>1, NextUnsent
    <2>3. PICK q, ends : q = net'[h] /\ ends = Ends(e, z)'
      OBVIOUS
    <2>4. Line(q, {}, <<>>, 0, 1, ends)
      BY <2>2, <2>3, LineBegins
    <2>5. OnLine(h, k, e, z)'
      BY <1>7, <2>1, <2>2, <2>3, <2>4 DEF OnLine
    <2>6. ~Sending(e, z)'
      <3>1. ~(task[e].at = "send" /\ task[e].socket = z)
        BY <1>0, <1>6 DEF HInv, InCall
      <3> QED BY <1>6, <1>7, <2>1, <3>1 DEF Sending
    <2> QED BY <1>7, <2>5, <2>6 DEF Pair
  <1>13. Pair(e, z, h, k)'
    <2>1. sent'[h][k] = <<>>
      BY <1>2
    <2> QED BY <1>6, <1>7, <2>1 DEF Pair, Active
  <1>14. ASSUME NEW x \in Host, NEW g \in Host, NEW y \in DOMAIN sockets'[x], NEW l \in DOMAIN sockets'[g],
                Peers(x, y, g, l)'
         PROVE  Pair(x, y, g, l)'
    <2>1. CASE x = h /\ y = k
      <3>1. g = e
        BY <1>3, <1>7, <1>14, <2>1 DEF Peers
      <3>2. l = z
        BY <1>7, <1>8, <1>14, <2>1, <3>1 DEF Peers
      <3> QED BY <1>12, <2>1, <3>1, <3>2
    <2>2. CASE g = h /\ l = k
      <3>1. x = e
        BY <1>3, <1>7, <1>14, <2>2 DEF Peers
      <3>2. y = z
        BY <1>7, <1>8, <1>14, <2>2, <3>1 DEF Peers
      <3> QED BY <1>13, <2>2, <3>1, <3>2
    <2>3. CASE ~(x = h /\ y = k) /\ ~(g = h /\ l = k)
      <3>1. y \in DOMAIN sockets[x] /\ l \in DOMAIN sockets[g]
        BY <1>1
      <3>2. sockets'[x][y] = sockets[x][y] /\ sockets'[g][l] = sockets[g][l]
        BY <1>1, <2>3, <3>1
      <3>3. Peers(x, y, g, l)
        BY <1>14, <3>1, <3>2 DEF Peers
      <3> QED BY <1>11, <2>3, <3>1, <3>3
    <2> QED BY <2>1, <2>2, <2>3
  <1>15. Syns'
    <2> SUFFICES ASSUME NEW x \in Host, NEW g \in Host, NEW n \in DOMAIN net'[x], NEW j \in DOMAIN sockets'[g],
                        net'[x][n].flags = {"SYN"}, From(x, n, g, j)'
                 PROVE  /\ sockets'[g][j].state = "SYN_SENT" /\ ~HasPeer(g, j)'
                        /\ \A l \in DOMAIN net'[x] : net'[x][l].flags = {"SYN"} /\ From(x, l, g, j)' => l = n
      BY DEF Syns
    <2>1. PICK c \in {0, 1} : Plainly(x, c) /\ (x = h => c = 1)
      OBVIOUS
    <2>2. ASSUME NEW l \in DOMAIN net'[x], net'[x][l].flags = {"SYN"}, From(x, l, g, j)'
          PROVE  l \in Nat /\ l >= 1 /\ l + c \in DOMAIN net[x] /\ net'[x][l] = net[x][l + c]
      <3>1. l + c \in DOMAIN net[x] /\ net'[x][l] = net[x][l + c]
        BY <2>1, <2>2 DEF Plainly, IsPlain, Shifted, Added
      <3>2. DOMAIN net'[x] = 1 .. Len(net'[x]) /\ Len(net'[x]) \in Nat
        <4>1. net'[x] \in Seq(Header)
          BY <1>0 DEF TTypeOK
        <4> QED BY <4>1
      <3> QED BY <3>1, <3>2
    <2>3. g \in Clients
      <3>1. net[x][n + c] \in OnWay(x) /\ net[x][n + c].src = g /\ net[x][n + c].flags = {"SYN"}
        <4>1. n + c \in DOMAIN net[x] /\ net'[x][n] = net[x][n + c]
          BY <2>2
        <4> QED BY <1>0, <4>1, Typed DEF From
      <3> QED BY <1>0, <3>1 DEF HInv, Genuine, IsGenuine
    <2>4. g # h /\ j \in DOMAIN sockets[g] /\ sockets'[g][j] = sockets[g][j]
      BY <1>1, <2>3 DEF Clients
    <2>5. ASSUME NEW l \in DOMAIN net'[x], net'[x][l].flags = {"SYN"}, From(x, l, g, j)'
          PROVE  net[x][l + c].flags = {"SYN"} /\ From(x, l + c, g, j)
      BY <2>2, <2>4, <2>5 DEF From, SentBy
    <2>6. n + c \in DOMAIN net[x] /\ net[x][n + c].flags = {"SYN"} /\ From(x, n + c, g, j) /\ n \in Nat /\ n >= 1
      BY <2>2, <2>5
    <2>7. /\ sockets[g][j].state = "SYN_SENT" /\ ~HasPeer(g, j)
          /\ \A l \in DOMAIN net[x] : net[x][l].flags = {"SYN"} /\ From(x, l, g, j) => l = n + c
      BY <2>4, <2>6 DEF Ordered, Syns
    <2>8. ASSUME NEW l \in DOMAIN net'[x], net'[x][l].flags = {"SYN"}, From(x, l, g, j)'
          PROVE  l = n
      <3>1. l \in Nat /\ l + c = n + c
        BY <2>2, <2>5, <2>7, <2>8
      <3> QED BY <2>6, <3>1
    <2>9. ASSUME NEW a \in Host, NEW b \in DOMAIN sockets'[a], Peers(g, j, a, b)'
          PROVE  FALSE
      <3>1. CASE ~(a = h /\ b = k)
        <4>1. b \in DOMAIN sockets[a] /\ sockets'[a][b] = sockets[a][b]
          BY <1>1, <3>1
        <4>2. Peers(g, j, a, b)
          BY <2>4, <2>9, <4>1 DEF Peers
        <4> QED BY <2>7, <4>1, <4>2 DEF HasPeer
      <3>2. CASE a = h /\ b = k
        <4>1. g = e
          BY <1>3, <1>7, <2>9, <3>2 DEF Peers
        <4>2. j = z
          BY <1>7, <1>8, <2>9, <3>2, <4>1 DEF Peers
        <4>3. sockets[g][j].remote = x
          BY <2>6 DEF From, SentBy
        <4>4. x = h
          BY <1>4, <1>3, <4>1, <4>2, <4>3 DEF SentBy
        <4>5. n + 1 = 1
          BY <1>6, <2>1, <2>6, <4>1, <4>2, <4>4
        <4> QED BY <2>6, <4>5
      <3> QED BY <3>1, <3>2
    <2> QED BY <2>4, <2>7, <2>8, <2>9 DEF HasPeer
  <1> QED BY <1>14, <1>15 DEF Ordered, Pairs

LEMMA SynInOrder ==
  ASSUME SInv, SInv', Ordered, NEW h \in Host, NEW i \in DOMAIN net[h], i = 1, NEW k,
         IsFor(h, net[h][i], k), OnSyn(h, i, k), mishaps' \in Nat, call[h].at = "idle"
  PROVE  Ordered'
  <1>0. HInv /\ Streams /\ TTypeOK
    BY DEF SInv, HInv
  <1>1. PICK m \in OnWay(h) : m = net[h][i]
    BY <1>0, Typed
  <1>2. k \in DOMAIN sockets[h] /\ IsFor(h, m, k) /\ m.src \in Host
    BY <1>0, <1>1, Sender
  <1>3. CASE sockets[h][k].state # "LISTEN"
    <2>1. HasPeer(h, k) /\ sockets[h][k].remote \in Host
      BY <1>0, <1>2, <1>3, SenderIsPeer
    <2>2. Reset(h, i, k) /\ UNCHANGED <<received, call>>
      BY <1>1, <1>3 DEF OnSyn
    <2>3. Class(h, i) # {"ACK"}
      <3>1. "SYN" \notin {"ACK"} /\ "SYN" \in {"SYN"}
        OBVIOUS
      <3>2. {"SYN"} # {"ACK"}
        BY <3>1
      <3> QED BY <3>2 DEF OnSyn
    <2>4. HeadPasses(h)
      BY <2>3, NotAcking
    <2> QED BY <1>2, <2>1, <2>2, <2>4, ResetInOrder
  <1>4. CASE sockets[h][k].state = "LISTEN"
    <2>1. Binds(h, i, k, m)
      BY <1>0, <1>1, <1>2, <1>4, OnSynBinds
    <2>2. PICK s \in Socket :
            /\ s.state = "SYN_RECEIVED" /\ s.seq = 1 /\ s.ack = m.seq + 1
            /\ s.localPort = sockets[h][k].localPort /\ s.remote = m.src /\ s.remotePort = m.sport
            /\ OnlyBecomes(h, k, s)
            /\ \E replies \in Seq(Header) :
                 /\ Handled(h, i, k, s, replies)
                 /\ \A r \in DOMAIN replies : replies[r].flags = {"SYN", "ACK"}
            /\ UNCHANGED <<task, sent, received>>
      BY <2>1 DEF Binds
    <2>3. h \in Servers /\ m.flags = {"SYN"} /\ m.src \in Clients
      BY <1>0, <1>2, <1>4, Sender
    <2>4. m.seq = 0
      BY <1>0, <2>3 DEF Streams
    <2>5. PICK replies \in Seq(Header) :
            /\ Handled(h, i, k, s, replies)
            /\ \A r \in DOMAIN replies : replies[r].flags = {"SYN", "ACK"}
      BY <2>2
    <2>6. \A r \in DOMAIN replies : IsPlain(replies[r])
      <3>1. "ACK" \notin {"SYN"} /\ "ACK" \in {"SYN", "ACK"} /\ "PSH" \notin {"SYN", "ACK"}
        OBVIOUS
      <3> QED BY <2>5, <3>1 DEF IsPlain
    <2>7. s.remote \in Host \ {h}
      BY <2>2, <2>3 DEF Clients
    <2>8. Plainly(h, 1) /\ \A x \in Host \ {h} : Plainly(x, 0)
      BY <1>0, <2>5, <2>6, <2>7, AnsweredQueues
    <2>9. s.ack = 1 /\ m.dport = s.localPort
      BY <1>2, <2>2, <2>4 DEF IsFor, Matches
    <2> QED BY <1>1, <1>2, <1>4, <2>2, <2>3, <2>8, <2>9, BindingInOrder
  <1> QED BY <1>3, <1>4

-----------------------------------------------------------------------------
(* Every step in calm, in order.                                           *)

LEMMA HandlersInOrder ==
  ASSUME SInv, SInv', Ordered, NEW h \in Host, NEW i \in DOMAIN net[h], i = 1,
         NEW k \in DOMAIN sockets[h], IsFor(h, net[h][i], k), sockets[h][k].state # "CLOSED",
         OpenHandler(h, i, k), mishaps' \in Nat, call[h].at = "idle"
  PROVE  Ordered'
  <1>1. CASE OnSyn(h, i, k)
    BY <1>1, SynInOrder
  <1>2. CASE OnSynAck(h, i, k)
    BY <1>2, SynAckInOrder
  <1>3. CASE OnFin(h, i, k)
    BY <1>3, FinInOrder
  <1>4. CASE OnAck(h, i, k)
    BY <1>4, AckInOrder
  <1>5. CASE OnData(h, i, k, TRUE)
    <2>1. PICK b \in BOOLEAN : b = TRUE
      OBVIOUS
    <2>2. OnData(h, i, k, b) /\ b
      BY <1>5, <2>1
    <2> QED BY <2>2, DataInOrder
  <1>6. CASE OnRequest(h, i, k)
    BY <1>6, RequestInOrder
  <1> QED BY <1>1, <1>2, <1>3, <1>4, <1>5, <1>6 DEF OpenHandler

LEMMA ReceiveInOrder ==
  ASSUME SInv, SInv', Ordered, NEW h \in Host, NEW i \in DOMAIN net[h], i = 1, Receive(h, i)
  PROVE  Ordered'
  <1>1. mishaps' \in Nat /\ call[h].at = "idle"
    BY DEF SInv, HInv, TTypeOK, Receive, Idle
  <1>2. CASE OnNothing(h, i)
    BY <1>2, NothingInOrder
  <1>3. ASSUME NEW k \in DOMAIN sockets[h], IsFor(h, net[h][i], k), OnRst(h, i, k)
        PROVE  Ordered'
    BY <1>3, RstInOrder
  <1>4. ASSUME NEW k \in DOMAIN sockets[h], IsFor(h, net[h][i], k),
               sockets[h][k].state # "CLOSED", OpenHandler(h, i, k)
        PROVE  Ordered'
    BY <1>1, <1>4, HandlersInOrder
  <1> QED BY <1>2, <1>3, <1>4 DEF Receive

\* Nothing but the task of a host moves on, to a Send from an established socket.
LEMMA SendMayGoInOrder ==
  ASSUME SInv, SInv', Ordered, NEW h \in Host, NEW k \in DOMAIN sockets[h], SendMayGo(h, k)
  PROVE  Ordered'
  <1>0. TTypeOK
    BY DEF SInv, HInv
  <1>1. /\ sockets' = sockets /\ net' = net /\ sent' = sent /\ received' = received
        /\ sockets[h][k].state = "ESTABLISHED"
        /\ task' = [task EXCEPT ![h] = [at |-> "send", socket |-> k]]
    BY DEF SendMayGo
  <1>2. \A x \in Host : Passes(x)
    BY <1>0, <1>1, QueueRests DEF Passes
  <1>3. Onward
    BY <1>1 DEF Onward, Becomes, SameEnds
  <1>4. ASSUME NEW x \in Host, NEW y \in DOMAIN sockets[x]
        PROVE  Speaks(x, y) /\ Hears(x, y) /\ Waits(x, y)
    <2>1. task'[x].at = "send" /\ task'[x].socket = y =>
            \/ sockets[x][y].state = "ESTABLISHED"
            \/ task[x].at = "send" /\ task[x].socket = y
      BY <1>0, <1>1 DEF TTypeOK
    <2> QED BY <1>1, <2>1, UnmovedStays
  <1> QED BY <1>2, <1>3, <1>4, OrderStays

\* A socket stops sending for good.
LEMMA StopsInOrder ==
  ASSUME NEW h \in Host, NEW k \in DOMAIN sockets[h], NEW s, sockets'[h][k] = s,
         s.ack = sockets[h][k].ack,
         s.state \notin Opening \cup {"ESTABLISHED"}, sockets[h][k].state \notin Opening,
         task'[h].at # "send", Sending(h, k)' => Sending(h, k),
         UNCHANGED <<sent, received>>
  PROVE  Speaks(h, k) /\ Hears(h, k) /\ Waits(h, k)
  <1>1. ~MaySend(h, k)'
    BY DEF MaySend, Opening
  <1>2. Speaks(h, k)
    BY <1>1 DEF Speaks, Continues
  <1>3. ~Active(h, k)'
    BY DEF Active, Opening
  <1> QED BY <1>2, <1>3 DEF Hears, Waits, Opening

LEMMA DisconnectStartsInOrder ==
  ASSUME SInv, SInv', Ordered, NEW h \in Host, NEW k \in DOMAIN sockets[h], DisconnectStarts(h, k),
         mishaps' = 0
  PROVE  Ordered'
  <1>0. TTypeOK /\ HInv
    BY DEF SInv, HInv
  <1>1. sockets[h][k].state = "ESTABLISHED"
    BY <1>0 DEF DisconnectStarts, Mishap, TTypeOK
  <1>2. PICK s \in Socket : /\ SameEnds(sockets[h][k], s) /\ s.state = "FIN_WAIT1"
                            /\ s.ack = sockets[h][k].ack /\ OnlyBecomes(h, k, s)
    BY <1>0, DisconnectStartsIs
  <1>3. /\ task'[h] = [at |-> "fin", socket |-> k] /\ \A x \in Host \ {h} : task'[x] = task[x]
        /\ sent' = sent /\ received' = received /\ net' = net
    BY <1>0, DisconnectStartsIs
  <1>4. \A x \in Host : \A y \in DOMAIN sockets[x] :
          sockets'[x][y] = IF x = h /\ y = k THEN s ELSE sockets[x][y]
    BY <1>2 DEF OnlyBecomes
  <1>5. \A x \in Host : Passes(x)
    BY <1>0, <1>3, QueueRests DEF Passes
  <1>6. Onward
    <2> SUFFICES ASSUME NEW x \in Host, NEW y \in DOMAIN sockets[x]
                 PROVE  Becomes(x, y, sockets'[x][y])
      BY <1>2 DEF Onward, OnlyBecomes
    <2>1. CASE x = h /\ y = k
      BY <1>1, <1>2, <1>4, <2>1 DEF Becomes, Opening
    <2>2. CASE ~(x = h /\ y = k)
      BY <1>4, <2>2 DEF Becomes, SameEnds
    <2> QED BY <2>1, <2>2
  <1>7. Speaks(h, k) /\ Hears(h, k) /\ Waits(h, k)
    <2>1. Sending(h, k)
      BY <1>1 DEF Sending
    <2>2. /\ sockets'[h][k] = s /\ task'[h].at # "send"
          /\ s.state \notin Opening \cup {"ESTABLISHED"} /\ sockets[h][k].state \notin Opening
      BY <1>1, <1>2, <1>3, <1>4 DEF Opening
    <2> QED BY <1>2, <1>3, <2>1, <2>2, StopsInOrder
  <1>8. ASSUME NEW x \in Host, NEW y \in DOMAIN sockets[x], ~(x = h /\ y = k)
        PROVE  Speaks(x, y) /\ Hears(x, y) /\ Waits(x, y)
    <2>1. sockets'[x][y] = sockets[x][y] /\ sent'[x][y] = sent[x][y] /\ received'[x][y] = received[x][y]
      BY <1>3, <1>4, <1>8
    <2>2. task'[x].at = "send" => task'[x] = task[x]
      BY <1>3
    <2> QED BY <2>1, <2>2, UnmovedStays
  <1>9. \A x \in Host : Passes(x) /\ \A y \in DOMAIN sockets[x] : Speaks(x, y) /\ Hears(x, y) /\ Waits(x, y)
    BY <1>5, <1>7, <1>8
  <1> QED BY <1>6, <1>9, OrderStays

\* A socket that is closing sends a segment without a payload.
LEMMA ClosingInOrder ==
  ASSUME SInv, SInv', Ordered, NEW h \in Host, NEW k \in DOMAIN sockets[h], NEW s \in Socket,
         NEW r \in Header, Becomes(h, k, s), s.ack = sockets[h][k].ack,
         sockets[h][k].state \notin Opening, s.state \notin Opening \cup {"ESTABLISHED"},
         OnlyBecomes(h, k, s), "PSH" \notin r.flags, "SYN" \notin r.flags, IsSent(s, r),
         task'[h].at # "send", \A x \in Host \ {h} : task'[x] = task[x],
         UNCHANGED <<sent, received>>
  PROVE  Ordered'
  <1>0. TTypeOK
    BY DEF SInv, HInv
  <1>1. \A x \in Host : \A y \in DOMAIN sockets[x] :
          sockets'[x][y] = IF x = h /\ y = k THEN s ELSE sockets[x][y]
    BY DEF OnlyBecomes
  <1>2. IsPlain(r)
    <2>1. "SYN" \in {"SYN"}
      OBVIOUS
    <2> QED BY <2>1 DEF IsPlain
  <1>3. ASSUME NEW x \in Host
        PROVE  Plainly(x, 0)
    <2>1. CASE net'[x] = net[x]
      BY <1>0, <2>1, QueueRests
    <2>2. CASE net'[x] # net[x]
      <3>1. s.remote \in Host /\ Queued(s.remote, r)
        BY <2>2 DEF IsSent
      <3>2. PICK g \in Host : g = s.remote /\ Queued(g, r)
        BY <3>1
      <3>3. /\ Shifted(g, 0) /\ Added(g, 0) = {Len(net[g]) + 1} /\ net'[g][Len(net[g]) + 1] = r
            /\ \A z \in Host \ {g} : net'[z] = net[z]
        BY <1>0, <3>2, QueueGets
      <3>4. x = g
        BY <2>2, <3>3
      <3> QED BY <1>2, <3>3, <3>4 DEF Plainly
    <2> QED BY <2>1, <2>2
  <1>4. Onward
    <2> SUFFICES ASSUME NEW x \in Host, NEW y \in DOMAIN sockets[x]
                 PROVE  Becomes(x, y, sockets'[x][y])
      BY DEF Onward, OnlyBecomes
    <2>1. CASE x = h /\ y = k
      BY <1>1, <2>1
    <2>2. CASE ~(x = h /\ y = k)
      BY <1>1, <2>2 DEF Becomes, SameEnds
    <2> QED BY <2>1, <2>2
  <1>5. Speaks(h, k) /\ Hears(h, k) /\ Waits(h, k)
    <2>1. sockets'[h][k] = s
      BY <1>1
    <2>2. Sending(h, k)' => Sending(h, k)
      BY <2>1 DEF Sending
    <2> QED BY <2>1, <2>2, StopsInOrder
  <1>6. ASSUME NEW x \in Host, NEW y \in DOMAIN sockets[x], ~(x = h /\ y = k)
        PROVE  Speaks(x, y) /\ Hears(x, y) /\ Waits(x, y)
    <2>1. sockets'[x][y] = sockets[x][y] /\ sent'[x][y] = sent[x][y] /\ received'[x][y] = received[x][y]
      BY <1>1, <1>6
    <2>2. task'[x].at = "send" => task'[x] = task[x]
      OBVIOUS
    <2> QED BY <2>1, <2>2, UnmovedStays
  <1>7. \A x \in Host : Passes(x) /\ \A y \in DOMAIN sockets[x] : Speaks(x, y) /\ Hears(x, y) /\ Waits(x, y)
    BY <1>3, <1>5, <1>6 DEF Passes
  <1> QED BY <1>4, <1>7, OrderStays

LEMMA DisconnectSendsInOrder ==
  ASSUME SInv, SInv', Ordered, NEW h \in Host, DisconnectSends(h)
  PROVE  Ordered'
  <1>1. PICK k \in DOMAIN sockets[h], s \in Socket, r \in Header : FinSent(h, k, s, r)
    BY DisconnectSendsIs
  <1>2. Becomes(h, k, s)
    BY <1>1 DEF FinSent, Becomes
  <1> QED BY <1>1, <1>2, ClosingInOrder DEF FinSent

\* The handler's own Disconnect, and the acknowledgement after it.
LEMMA HandlerClosesInOrder ==
  ASSUME SInv, SInv', Ordered, NEW h \in Host, AnswerDisconnects(h) \/ AnswerReturns(h)
  PROVE  Ordered'
  <1>0. TTypeOK /\ HInv
    BY DEF SInv, HInv
  <1>1. PICK k \in DOMAIN sockets[h], s \in Socket, r \in Header :
          /\ Becomes(h, k, s) /\ s.ack = sockets[h][k].ack /\ s.remote \in Host
          /\ sockets[h][k].state \notin Opening /\ s.state \notin Opening \cup {"ESTABLISHED"}
          /\ sockets' = [sockets EXCEPT ![h] = [sockets[h] EXCEPT ![k] = s]]
          /\ r.flags \in {{"FIN", "ACK"}, {"ACK"}} /\ Queued(s.remote, r)
    <2>1. CASE AnswerDisconnects(h)
      BY <1>0, <2>1, AnswerDisconnectsIs DEF Opening, Becomes
    <2>2. CASE AnswerReturns(h)
      BY <1>0, <2>2, AnswerReturnsIs DEF Opening, SameEnds, Becomes
    <2> QED BY <2>1, <2>2
  <1>2. OnlyBecomes(h, k, s)
    BY <1>0, <1>1, SetIs DEF OnlyBecomes
  <1>3. "PSH" \notin r.flags /\ "SYN" \notin r.flags
    <2>1. /\ "SYN" \notin {"FIN", "ACK"} /\ "PSH" \notin {"FIN", "ACK"}
          /\ "SYN" \notin {"ACK"} /\ "PSH" \notin {"ACK"}
      OBVIOUS
    <2> QED BY <1>1, <2>1
  <1>4. UNCHANGED <<task, sent, received>>
    BY DEF AnswerDisconnects, AnswerReturns
  <1>5. task'[h].at # "send"
    <2>1. h \in Answerers
      BY <1>0 DEF AnswerDisconnects, AnswerReturns, HInv, InHandler, CallOn
    <2>2. h \notin Senders
      BY <2>1, TcpAssumption
    <2> QED BY <1>0, <1>4, <2>2 DEF HInv, InCall
  <1> QED BY <1>1, <1>2, <1>3, <1>4, <1>5, ClosingInOrder DEF IsSent

\* A payload joins the end of the queue.
LEMMA CarriedGrows ==
  ASSUME TTypeOK, TTypeOK', NEW g \in Host, NEW h \in Host, NEW k \in DOMAIN sockets[h],
         k \in DOMAIN sockets'[h], SameEnds(sockets[h][k], sockets'[h][k]),
         NEW r \in Header, Queued(g, r), r.src = h, "PSH" \in r.flags, SentBy(r, g, k)',
         NEW e, e = Len(net[g]) + 1
  PROVE  /\ e \in Nat \ {0} /\ net'[g][e] = r
         /\ \A i \in DOMAIN net[g] : i < e /\ i \in DOMAIN net'[g] /\ net'[g][i] = net[g][i]
         /\ Carried(g, h, k)' = Carried(g, h, k) \cup {e}
  <1>1. Shifted(g, 0) /\ Added(g, 0) = {e} /\ net'[g][e] = r
    BY QueueGets
  <1>2. /\ Len(net[g]) \in Nat /\ DOMAIN net[g] = 1 .. Len(net[g])
        /\ Len(net'[g]) \in Nat /\ DOMAIN net'[g] = 1 .. Len(net'[g])
    <2>1. net[g] \in Seq(Header) /\ net'[g] \in Seq(Header)
      BY DEF TTypeOK
    <2> QED BY <2>1
  <1>3. e \in DOMAIN net'[g]
    BY <1>1 DEF Added
  <1>4. ASSUME NEW i \in DOMAIN net[g]
        PROVE  i < e /\ i \in DOMAIN net'[g] /\ net'[g][i] = net[g][i]
    <2>1. i \in Nat /\ i > 0 /\ i < e /\ i - 0 = i
      BY <1>2
    <2> QED BY <1>1, <2>1 DEF Shifted
  <1>5. ASSUME NEW i \in DOMAIN net'[g], i # e
        PROVE  i \in DOMAIN net[g]
    <2>1. i \in Nat /\ i + 0 = i
      BY <1>2
    <2> QED BY <1>1, <1>5, <2>1 DEF Added
  <1>6. \A m : m.src = h => (SentBy(m, g, k) <=> SentBy(m, g, k)')
    BY DEF SentBy, SameEnds
  <1>7. ASSUME NEW i \in Carried(g, h, k)', i # e
        PROVE  i \in Carried(g, h, k)
    <2>1. i \in DOMAIN net'[g] /\ From(g, i, h, k)' /\ "PSH" \in net'[g][i].flags
      BY DEF Carried
    <2>2. i \in DOMAIN net[g] /\ net'[g][i] = net[g][i]
      BY <1>4, <1>5, <1>7, <2>1
    <2>3. From(g, i, h, k)
      BY <1>6, <2>1, <2>2 DEF From
    <2> QED BY <2>1, <2>2, <2>3 DEF Carried
  <1>8. ASSUME NEW i \in Carried(g, h, k)
        PROVE  i \in Carried(g, h, k)'
    <2>1. i \in DOMAIN net[g] /\ From(g, i, h, k) /\ "PSH" \in net[g][i].flags
      BY DEF Carried
    <2>2. i \in DOMAIN net'[g] /\ net'[g][i] = net[g][i]
      BY <1>4, <2>1
    <2>3. From(g, i, h, k)'
      BY <1>6, <2>1, <2>2 DEF From
    <2> QED BY <2>1, <2>2, <2>3 DEF Carried
  <1>9. e \in Carried(g, h, k)'
    <2>1. From(g, e, h, k)'
      BY <1>1 DEF From, SentBy
    <2> QED BY <1>1, <1>3, <2>1 DEF Carried
  <1> QED BY <1>1, <1>2, <1>4, <1>7, <1>8, <1>9

\* Of a connection on which the one end sends a payload to the other.
LEMMA SentOnLine ==
  ASSUME SInv, SInv', Ordered, NEW h \in Host, NEW k \in DOMAIN sockets[h], NEW d \in Data,
         NEW s \in Socket, NEW r \in Header, PayloadSent(h, k, d, s, r),
         NEW g \in Host, NEW y \in DOMAIN sockets[g], Peers(g, y, h, k)
  PROVE  Pair(g, y, h, k)'
  <1>0. TTypeOK /\ HInv /\ TTypeOK'
    BY DEF SInv, HInv
  <1>1. /\ MaySend(h, k) /\ sockets[h][k].state \notin Opening /\ Heard(h, k)
        /\ d.nth = Len(sent[h][k]) + 1 /\ d.len > 0
        /\ SameEnds(sockets[h][k], s) /\ s.state = sockets[h][k].state
        /\ s.seq = sockets[h][k].seq + d.len
        /\ r.src = h /\ r.data = d /\ r.seq = sockets[h][k].seq /\ r.flags = {"PSH", "ACK"}
        /\ r.sport = s.localPort /\ r.dport = s.remotePort
        /\ s.remote \in Host /\ Queued(s.remote, r) /\ OnlySends(h, k, d) /\ received' = received
    BY DEF PayloadSent
  <1>2. \A x \in Host : /\ DOMAIN sockets'[x] = DOMAIN sockets[x]
                        /\ \A z \in DOMAIN sockets[x] :
                             sockets'[x][z] = IF x = h /\ z = k THEN s ELSE sockets[x][z]
    BY DEF PayloadSent, OnlyBecomes
  <1>3. /\ s.remote = g /\ g # h /\ sockets'[h][k] = s /\ k \in DOMAIN sockets'[h]
        /\ y \in DOMAIN sockets'[g] /\ sockets'[g][y] = sockets[g][y]
    <2>1. sockets[h][k].remote = g /\ g # h
      BY <1>0, Apart DEF Peers
    <2> QED BY <1>1, <1>2, <2>1 DEF SameEnds
  <1>4. PICK e : e = Len(net[g]) + 1
    OBVIOUS
  <1>5. /\ e \in Nat \ {0} /\ net'[g][e] = r
        /\ \A i \in DOMAIN net[g] : i < e /\ i \in DOMAIN net'[g] /\ net'[g][i] = net[g][i]
        /\ Carried(g, h, k)' = Carried(g, h, k) \cup {e}
    <2>1. SentBy(r, g, k)'
      BY <1>1, <1>3 DEF SentBy
    <2>2. "PSH" \in r.flags /\ Queued(g, r) /\ SameEnds(sockets[h][k], sockets'[h][k])
      BY <1>1, <1>3
    <2> QED BY <1>0, <1>1, <1>3, <1>4, <2>1, <2>2, CarriedGrows
  <1>6. sent[h][k] \in Seq(Data) /\ sent'[h][k] = Append(sent[h][k], d)
    <2>1. sent[h][k] \in Seq(Data)
      BY PairTyped
    <2> QED BY <1>1, <2>1 DEF OnlySends
  <1>7. sockets[g][y].state # "SYN_SENT"
    <2>2. PICK x \in Host : \E z \in DOMAIN sockets[x] : Peers(h, k, x, z) /\ sockets[x][z].state # "SYN_SENT"
      BY <1>1 DEF Heard
    <2>3. PICK z \in DOMAIN sockets[x] : Peers(h, k, x, z) /\ sockets[x][z].state # "SYN_SENT"
      BY <2>2
    <2>4. x = g /\ SameEnds(sockets[g][z], sockets[g][y]) /\ sockets[g][z].remote \in Host
      BY <2>3 DEF Peers, SameEnds
    <2>5. z = y
      BY <1>0, <2>3, <2>4, EndsDiffer
    <2> QED BY <2>3, <2>4, <2>5
  <1>8. ASSUME Active(g, y)', Full(h, k)'
        PROVE  OnLine(g, y, h, k)'
    <2>1. Full(h, k) /\ Active(g, y)
      <3>1. Active(g, y)
        BY <1>3, <1>8 DEF Active
      <3>2. ASSUME NEW n \in DOMAIN sent[h][k]
            PROVE  sent[h][k][n].used = sent[h][k][n].len
        <4>1. n \in DOMAIN sent'[h][k] /\ sent'[h][k][n] = sent[h][k][n]
          BY <1>6, AppendedIs
        <4> QED BY <1>8, <4>1 DEF Full
      <3> QED BY <3>1, <3>2 DEF Full
    <2>2. OnLine(g, y, h, k)
      BY <2>1 DEF Ordered, Pairs, Pair
    <2>3. PICK P \in SUBSET Nat, all \in Seq(Data), got \in Nat, ack \in Int, u \in Int :
            /\ P = Carried(g, h, k) /\ all = sent[h][k] /\ got = Len(received[g][y])
            /\ ack = sockets[g][y].ack /\ u = sockets[h][k].seq /\ Among(net[g], P, all)
      BY PairTyped
    <2>4. PICK q, t, ends : q = net[g] /\ t = net'[g] /\ ends = Ends(h, k)'
      OBVIOUS
    <2>12. PICK more \in Seq(Data) : more = Append(all, d)
      BY AppendedIs
    <2>5. Ends(h, k) = {u}
      <3>1. Upcoming(h, k) = u
        BY <1>1, <2>3 DEF Upcoming, Opening
      <3> QED BY <1>1, <3>1 DEF Ends
    <2>6. ends \subseteq {u + d.len}
      <3>1. s.state # "SYN_SENT"
        BY <1>1 DEF Opening
      <3>2. Upcoming(h, k)' = u + d.len
        BY <1>1, <1>3, <2>3, <3>1 DEF Upcoming
      <3> QED BY <2>4, <3>2 DEF Ends
    <2>7. Line(q, P, all, got, ack, {u})
      BY <2>2, <2>3, <2>4, <2>5 DEF OnLine
    <2>8. \A i \in P : i < e /\ t[i] = q[i]
      BY <1>5, <2>3, <2>4 DEF Carried
    <2>9. t[e].data = d /\ t[e].seq = u /\ d.nth = Len(all) + 1 /\ e \in Nat
      BY <1>1, <1>5, <2>3, <2>4
    <2>10. Among(q, P, all)
      BY <2>3, <2>4
    <2>11. Line(t, P \cup {e}, more, got, ack, ends)
      <3>1. d.len > 0
        BY <1>1
      <3> QED BY <2>6, <2>7, <2>8, <2>9, <2>10, <2>12, <3>1, LineGrows
    <2> QED BY <1>1, <1>3, <1>5, <1>6, <2>3, <2>4, <2>11, <2>12 DEF OnLine
  <1>9. ASSUME sockets'[g][y].state = "SYN_RECEIVED"
        PROVE  Acked(g, h, k)'
    <2>1. Acked(g, h, k)
      BY <1>1, <1>3, <1>9 DEF Ordered, Pairs, Pair, Sending, MaySend, Opening
    <2>2. PICK i \in DOMAIN net[g] : /\ From(g, i, h, k) /\ net[g][i].flags = {"ACK"}
                                     /\ \A l \in Carried(g, h, k) : i < l
      BY <2>1 DEF Acked
    <2>3. i \in DOMAIN net'[g] /\ net'[g][i] = net[g][i] /\ i < e
      BY <1>5
    <2>4. From(g, i, h, k)'
      <3>1. PICK m : m = net[g][i]
        OBVIOUS
      <3>2. SentBy(m, g, k) /\ m.src = h
        BY <2>2, <3>1 DEF From
      <3>3. SentBy(m, g, k)'
        BY <1>1, <1>3, <3>2 DEF SentBy, SameEnds
      <3> QED BY <2>3, <3>1, <3>2, <3>3 DEF From, SentBy
    <2> QED BY <1>5, <2>2, <2>3, <2>4 DEF Acked
  <1> QED BY <1>3, <1>7, <1>8, <1>9 DEF Pair

LEMMA PayloadInOrder ==
  ASSUME SInv, SInv', Ordered, NEW h \in Host, NEW k \in DOMAIN sockets[h], NEW d \in Data,
         NEW s \in Socket, NEW r \in Header, PayloadSent(h, k, d, s, r)
  PROVE  Ordered'
  <1>0. TTypeOK /\ HInv /\ TTypeOK'
    BY DEF SInv, HInv
  <1>1. /\ SameEnds(sockets[h][k], s) /\ s.state = sockets[h][k].state /\ s.ack = sockets[h][k].ack
        /\ r.src = h /\ r.flags = {"PSH", "ACK"} /\ r.sport = s.localPort /\ r.dport = s.remotePort
        /\ s.remote \in Host /\ Queued(s.remote, r) /\ OnlySends(h, k, d) /\ received' = received
        /\ \A x \in Host : task'[x] = task[x] \/ task'[x].at = "idle"
    BY DEF PayloadSent
  <1>2. \A x \in Host : /\ DOMAIN sockets'[x] = DOMAIN sockets[x]
                        /\ \A z \in DOMAIN sockets[x] :
                             sockets'[x][z] = IF x = h /\ z = k THEN s ELSE sockets[x][z]
    BY DEF PayloadSent, OnlyBecomes
  <1>3. Onward
    <2> SUFFICES ASSUME NEW x \in Host, NEW y \in DOMAIN sockets[x]
                 PROVE  Becomes(x, y, sockets'[x][y])
      BY DEF Onward, PayloadSent, OnlyBecomes
    <2>1. CASE x = h /\ y = k
      BY <1>1, <1>2, <2>1 DEF Becomes
    <2>2. CASE ~(x = h /\ y = k)
      BY <1>2, <2>2 DEF Becomes, SameEnds
    <2> QED BY <2>1, <2>2
  <1>4. PICK g \in Host : g = s.remote
    BY <1>1
  <1>5. /\ Shifted(g, 0) /\ Added(g, 0) = {Len(net[g]) + 1} /\ net'[g][Len(net[g]) + 1] = r
        /\ \A x \in Host \ {g} : net'[x] = net[x]
    <2>1. Queued(g, r)
      BY <1>1, <1>4
    <2> QED BY <1>0, <2>1, QueueGets
  <1>6. \A x \in Host \ {g} : Shifted(x, 0) /\ Added(x, 0) = {}
    BY <1>0, <1>5, QueueRests DEF Plainly
  <1>7. \A x \in Host : \A y \in DOMAIN sockets[x] : sockets'[x][y].state = sockets[x][y].state
    BY <1>1, <1>2
  <1>8. Syns'
    <2>1. {"PSH", "ACK"} # {"SYN"}
      <3>1. "SYN" \in {"SYN"} /\ "SYN" \notin {"PSH", "ACK"}
        OBVIOUS
      <3> QED BY <3>1
    <2>2. NoSyns(g)
      BY <1>1, <1>5, <2>1 DEF NoSyns
    <2>3. \A x \in Host \ {g} : NoSyns(x)
      BY <1>6 DEF NoSyns
    <2> QED BY <1>3, <1>7, <2>2, <2>3, SynsStay DEF Ordered, Waits
  <1>9. ASSUME NEW x \in Host, NEW a \in Host, NEW y \in DOMAIN sockets[x], NEW l \in DOMAIN sockets[a],
               Peers(x, y, a, l), ~(a = h /\ l = k)
        PROVE  Pair(x, y, a, l)'
    <2>1. Speaks(a, l)
      <3>1. /\ sockets'[a][l] = sockets[a][l] /\ sent'[a][l] = sent[a][l]
            /\ received'[a][l] = received[a][l]
            /\ task'[a].at = "send" => task'[a] = task[a]
        BY <1>1, <1>2, <1>9 DEF OnlySends
      <3> QED BY <3>1, UnmovedStays
    <2>2. Hears(x, y)
      <3>1. sockets'[x][y].state = sockets[x][y].state /\ sockets'[x][y].ack = sockets[x][y].ack
        BY <1>1, <1>2
      <3> QED BY <1>1, <3>1 DEF Hears, Active
    <2>3. Relays(x, y, a, l)
      <3>1. PICK c \in {0, 1} : c = 0
        OBVIOUS
      <3>2. Shifted(x, c)
        BY <1>5, <1>6, <3>1
      <3>3. ASSUME NEW i \in Added(x, c), i \in Carried(x, a, l)'
            PROVE  FALSE
        <4>1. x = g /\ net'[x][i] = r
          BY <1>5, <1>6, <3>1, <3>3
        <4>2. r.src = a /\ SentBy(net[x][i], x, l)'
          BY <3>3, <4>1 DEF Carried, From
        <4>3. SentBy(r, g, l)'
          BY <4>1, <4>2 DEF SentBy
        <4>4. /\ a = h /\ l # k /\ sockets[h][l].remote = g
              /\ sockets[h][l].localPort = s.localPort /\ sockets[h][l].remotePort = s.remotePort
          BY <1>1, <1>2, <1>9, <4>2, <4>3 DEF SentBy
        <4>5. SameEnds(sockets[h][l], sockets[h][k])
          BY <1>1, <1>4, <4>4 DEF SameEnds
        <4> QED BY <1>0, <4>4, <4>5, EndsDiffer
      <3> QED BY <3>1, <3>2, <3>3 DEF Relays
    <2>4. Pair(x, y, a, l)
      BY <1>9 DEF Ordered, Pairs
    <2>5. SameEnds(sockets[a][l], sockets'[a][l]) /\ l \in DOMAIN sockets'[a] /\ y \in DOMAIN sockets'[x]
      BY <1>2, <1>9 DEF SameEnds
    <2> QED BY <1>9, <2>1, <2>2, <2>3, <2>4, <2>5, PairStays
  <1>10. ASSUME NEW x \in Host, NEW a \in Host, NEW y \in DOMAIN sockets'[x], NEW l \in DOMAIN sockets'[a],
                Peers(x, y, a, l)'
         PROVE  Pair(x, y, a, l)'
    <2>1. y \in DOMAIN sockets[x] /\ l \in DOMAIN sockets[a] /\ Peers(x, y, a, l)
      BY <1>0, <1>3, <1>10, OnwardIs, PeersStay
    <2>2. CASE a = h /\ l = k
      BY <2>1, <2>2, SentOnLine
    <2> QED BY <1>9, <2>1, <2>2
  <1> QED BY <1>8, <1>10 DEF Ordered, Pairs

LEMMA SendGoesInOrder ==
  ASSUME SInv, SInv', Ordered, NEW h \in Host, NEW p \in Payloads, SendGoes(h, p)
  PROVE  Ordered'
  <1>1. PICK k \in DOMAIN sockets[h], d \in Data, s \in Socket, r \in Header :
          PayloadSent(h, k, d, s, r)
    BY SendGoesIs
  <1> QED BY <1>1, PayloadInOrder

LEMMA AnswerInOrder ==
  ASSUME SInv, SInv', Ordered, NEW h \in Host, Answer(h)
  PROVE  Ordered'
  <1>1. CASE AnswerSends(h)
    BY <1>1, AnswerSendsIs, PayloadInOrder
  <1> QED BY <1>1, HandlerClosesInOrder DEF Answer

\* The queues when h opens a socket: the only segment that comes is its SYN, if it sends one.
OnlySynComes(h, s) ==
  \A x \in Host :
    /\ Shifted(x, 0) /\ \A i, l \in Added(x, 0) : i = l
    /\ \A i \in Added(x, 0) : /\ net'[x][i].flags = {"SYN"} /\ net'[x][i].src = h
                              /\ net'[x][i].sport = s.localPort /\ s.remote = x

LEMMA OpenedInOrder ==
  ASSUME SInv, SInv', Ordered, NEW h \in Host, NEW s \in Socket, Opened(h, s),
         \/ s.state = "LISTEN" /\ s.remote = Nobody
         \/ s.state = "SYN_SENT" /\ h \in Clients,
         task' = task, OnlySynComes(h, s)
  PROVE  Ordered'
  <1>0. TTypeOK /\ HInv /\ TTypeOK' /\ HInv'
    BY DEF SInv, HInv
  <1>1. PICK n : n = Len(sockets[h]) + 1
    OBVIOUS
  <1>2. /\ \A x \in Host \ {h} : sockets'[x] = sockets[x]
        /\ sockets'[h][n] = s /\ DOMAIN sockets'[h] = DOMAIN sockets[h] \cup {n}
        /\ \A y \in DOMAIN sockets[h] : sockets'[h][y] = sockets[h][y]
        /\ \A x \in Host : \A y \in DOMAIN sockets[x] :
             sent'[x][y] = sent[x][y] /\ received'[x][y] = received[x][y]
    BY <1>0, <1>1, OpenedIs
  <1>3. /\ \A y \in DOMAIN sockets[h] : sockets[h][y].localPort = s.localPort => s.remote = Nobody
        /\ \A x \in Host : \A m \in OnWay(x) : ~(m.src = h /\ SentBy(m, x, n)')
        /\ \A x \in Host : \A y \in DOMAIN sockets'[x] : ~Peers(x, y, h, n)'
    BY <1>0, <1>1, OpenedIsNew
  <1>4. \A x \in Host : \A y \in DOMAIN sockets'[x] : ~Peers(h, n, x, y)'
    BY <1>3 DEF Peers
  <1>5. \A x \in Host : \A y \in DOMAIN sockets[x] :
          y \in DOMAIN sockets'[x] /\ sockets'[x][y] = sockets[x][y]
    BY <1>2
  <1>6. \A x \in Host : \A y \in DOMAIN sockets'[x] : y \in DOMAIN sockets[x] \/ (x = h /\ y = n)
    BY <1>2
  <1>7. ASSUME NEW x \in Host, NEW g \in Host, NEW y \in DOMAIN sockets'[x], NEW j \in DOMAIN sockets'[g],
               Peers(x, y, g, j)'
        PROVE  /\ y \in DOMAIN sockets[x] /\ j \in DOMAIN sockets[g] /\ Peers(x, y, g, j)
    <2>1. y \in DOMAIN sockets[x] /\ j \in DOMAIN sockets[g]
      BY <1>3, <1>4, <1>6, <1>7
    <2> QED BY <1>5, <1>7, <2>1 DEF Peers
  <1>8. ASSUME NEW x \in Host, NEW g \in Host, NEW y \in DOMAIN sockets'[x], NEW j \in DOMAIN sockets'[g],
               Peers(x, y, g, j)'
        PROVE  Pair(x, y, g, j)'
    <2>1. y \in DOMAIN sockets[x] /\ j \in DOMAIN sockets[g] /\ Peers(x, y, g, j)
      BY <1>7, <1>8
    <2>2. Speaks(g, j) /\ Hears(x, y)
      BY <1>2, <1>5, <2>1, UnmovedStays
    <2>3. Relays(x, y, g, j)
      <3>1. PICK c \in {0, 1} : c = 0
        OBVIOUS
      <3>2. "PSH" \notin {"SYN"}
        OBVIOUS
      <3>3. Shifted(x, c) /\ \A i \in Added(x, c) : i \notin Carried(x, g, j)'
        BY <3>1, <3>2 DEF OnlySynComes, Carried
      <3> QED BY <3>1, <3>3 DEF Relays
    <2>4. Pair(x, y, g, j) /\ SameEnds(sockets[g][j], sockets'[g][j])
      BY <1>5, <2>1 DEF Ordered, Pairs, SameEnds
    <2> QED BY <1>5, <2>1, <2>2, <2>3, <2>4, PairStays
  <1>9. ASSUME NEW x \in Host, NEW g \in Host, NEW i \in DOMAIN net'[x], NEW j \in DOMAIN sockets'[g],
               net'[x][i].flags = {"SYN"}, From(x, i, g, j)'
        PROVE  IF g = h /\ j = n
               THEN i \in Added(x, 0) /\ s.state = "SYN_SENT"
               ELSE /\ i \in DOMAIN net[x] /\ j \in DOMAIN sockets[g]
                    /\ net[x][i].flags = {"SYN"} /\ From(x, i, g, j)
    <2>1. PICK m : m = net'[x][i]
      OBVIOUS
    <2>2. m.src = g /\ SentBy(m, x, j)'
      BY <1>9, <2>1 DEF From, SentBy
    <2>3. CASE i \in Added(x, 0)
      <3>1. g = h /\ m.sport = s.localPort /\ s.remote = x
        BY <2>1, <2>2, <2>3 DEF OnlySynComes
      <3>2. s.remote # Nobody
        BY <3>1, TcpAssumption
      <3>3. sockets'[h][j].localPort = s.localPort
        BY <2>2, <3>1 DEF SentBy
      <3>4. j = n
        BY <1>3, <1>5, <1>6, <3>1, <3>2, <3>3
      <3> QED BY <2>3, <3>1, <3>2, <3>4
    <2>4. CASE i \notin Added(x, 0)
      <3>1. i + 0 = i
        <4>1. net'[x] \in Seq(Header)
          BY <1>0 DEF TTypeOK
        <4> QED BY <4>1
      <3>2. i \in DOMAIN net[x] /\ net[x][i] = m
        BY <2>1, <2>4, <3>1 DEF Added, OnlySynComes, Shifted
      <3>3. m \in OnWay(x)
        BY <3>2 DEF OnWay
      <3>4. ~(g = h /\ j = n)
        BY <1>3, <2>2, <3>3
      <3>5. j \in DOMAIN sockets[g] /\ sockets'[g][j] = sockets[g][j]
        BY <1>5, <1>6, <3>4
      <3>6. SentBy(m, x, j)
        BY <2>2, <3>5 DEF SentBy
      <3> QED BY <1>9, <2>1, <2>2, <3>2, <3>4, <3>5, <3>6 DEF From
    <2> QED BY <2>3, <2>4
  <1>10. Syns'
    <2> SUFFICES ASSUME NEW x \in Host, NEW g \in Host, NEW i \in DOMAIN net'[x], NEW j \in DOMAIN sockets'[g],
                        net'[x][i].flags = {"SYN"}, From(x, i, g, j)'
                 PROVE  /\ sockets'[g][j].state = "SYN_SENT" /\ ~HasPeer(g, j)'
                        /\ \A l \in DOMAIN net'[x] : net'[x][l].flags = {"SYN"} /\ From(x, l, g, j)' => l = i
      BY DEF Syns
    <2>1. CASE g = h /\ j = n
      <3>1. i \in Added(x, 0) /\ s.state = "SYN_SENT"
        BY <1>9, <2>1
      <3>2. ~HasPeer(g, j)'
        BY <1>4, <2>1 DEF HasPeer
      <3>3. \A l \in DOMAIN net'[x] : net'[x][l].flags = {"SYN"} /\ From(x, l, g, j)' => l \in Added(x, 0)
        BY <1>9, <2>1
      <3> QED BY <1>2, <2>1, <3>1, <3>2, <3>3 DEF OnlySynComes
    <2>2. CASE ~(g = h /\ j = n)
      <3>1. \A l \in DOMAIN net'[x] : net'[x][l].flags = {"SYN"} /\ From(x, l, g, j)' =>
              /\ l \in DOMAIN net[x] /\ j \in DOMAIN sockets[g]
              /\ net[x][l].flags = {"SYN"} /\ From(x, l, g, j)
        BY <1>9, <2>2
      <3>2. /\ sockets[g][j].state = "SYN_SENT" /\ ~HasPeer(g, j)
            /\ \A l \in DOMAIN net[x] : net[x][l].flags = {"SYN"} /\ From(x, l, g, j) => l = i
        BY <3>1 DEF Ordered, Syns
      <3>3. ~HasPeer(g, j)'
        <4> SUFFICES ASSUME NEW a \in Host, NEW b \in DOMAIN sockets'[a], Peers(g, j, a, b)'
                     PROVE  FALSE
          BY DEF HasPeer
        <4>1. b \in DOMAIN sockets[a] /\ Peers(g, j, a, b)
          BY <1>7
        <4> QED BY <3>2, <4>1 DEF HasPeer
      <3>4. sockets'[g][j].state = "SYN_SENT"
        BY <1>5, <3>1, <3>2
      <3> QED BY <3>1, <3>2, <3>3, <3>4
    <2> QED BY <2>1, <2>2
  <1> QED BY <1>8, <1>10 DEF Ordered, Pairs

LEMMA ListenInOrder ==
  ASSUME SInv, SInv', Ordered, NEW h \in Host, Listen(h)
  PROVE  Ordered'
  <1>1. PICK s : s = [state |-> "LISTEN", localPort |-> Port, remote |-> Nobody,
                      remotePort |-> 0, seq |-> 0, ack |-> 0]
    OBVIOUS
  <1>2. s \in Socket /\ s.state = "LISTEN" /\ s.remote = Nobody
    BY <1>1, TcpAssumption DEF Socket, States
  <1>3. Opened(h, s) /\ task' = task /\ net' = net
    BY <1>1 DEF Listen
  <1>4. OnlySynComes(h, s)
    <2>1. TTypeOK
      BY DEF SInv, HInv
    <2>2. \A x \in Host : Shifted(x, 0) /\ Added(x, 0) = {}
      BY <1>3, <2>1, QueueRests DEF Plainly
    <2> QED BY <2>2 DEF OnlySynComes
  <1> QED BY <1>2, <1>3, <1>4, OpenedInOrder

LEMMA ConnectInOrder ==
  ASSUME SInv, SInv', Ordered, NEW h \in Host, NEW g \in Host, Connect(h, g)
  PROVE  Ordered'
  <1>0. HInv /\ TTypeOK
    BY DEF SInv, HInv
  <1>1. PICK s : s = [state |-> "SYN_SENT", localPort |-> freePort[h], remote |-> g,
                      remotePort |-> Port, seq |-> 0, ack |-> 0]
    OBVIOUS
  <1>2. s \in Socket /\ s.state = "SYN_SENT" /\ s.remote = g
    BY <1>0, <1>1, TcpAssumption DEF Socket, States, TTypeOK
  <1>3. Opened(h, s) /\ h \in Clients /\ task' = task
    BY <1>1 DEF Connect, Clients
  <1>4. PICK r : r = Segment(h, s, {"SYN"}, NoData)
    OBVIOUS
  <1>5. r \in Header /\ r.flags = {"SYN"} /\ r.src = h /\ r.sport = s.localPort
    <2>1. r \in Header
      BY <1>2, <1>4, SegmentIs DEF Flags
    <2> QED BY <1>4, <2>1 DEF Segment
  <1>6. Queued(g, r)
    BY <1>1, <1>4 DEF Connect, Queued
  <1>7. /\ Shifted(g, 0) /\ Added(g, 0) = {Len(net[g]) + 1} /\ net'[g][Len(net[g]) + 1] = r
        /\ \A x \in Host \ {g} : net'[x] = net[x]
    BY <1>0, <1>5, <1>6, QueueGets
  <1>8. \A x \in Host \ {g} : Shifted(x, 0) /\ Added(x, 0) = {}
    BY <1>0, <1>7, QueueRests DEF Plainly
  <1>9. OnlySynComes(h, s)
    BY <1>2, <1>5, <1>7, <1>8 DEF OnlySynComes
  <1> QED BY <1>2, <1>3, <1>9, OpenedInOrder

-----------------------------------------------------------------------------
(* The invariant of the order.                                             *)

LEMMA OInitially == Init => OInv
  <1> SUFFICES ASSUME Init
               PROVE  SInv /\ Ordered
    BY DEF OInv
  <1>1. \A h \in Host : sockets[h] = <<>>
    BY DEF Init
  <1>2. \A h \in Host : DOMAIN sockets[h] = {}
    BY <1>1
  <1> QED BY <1>2, SInitially DEF Ordered, Pairs, Syns

LEMMA OUnchanged == OInv /\ UNCHANGED vars => OInv'
  <1> SUFFICES ASSUME OInv, UNCHANGED vars
               PROVE  OInv'
    OBVIOUS
  <1>1. SInv'
    BY SUnchanged DEF OInv
  <1>2. ASSUME mishaps' = 0
        PROVE  Ordered'
    <2>1. Ordered
      BY <1>2 DEF OInv, vars
    <2>2. SInv /\ TTypeOK
      BY DEF OInv, SInv, HInv
    <2>3. /\ net' = net /\ sockets' = sockets /\ sent' = sent /\ received' = received
          /\ task' = task
      BY DEF vars
    <2>4. \A x \in Host : Passes(x)
      BY <2>2, <2>3, QueueRests DEF Passes
    <2>5. Onward
      BY <2>3 DEF Onward, Becomes, SameEnds
    <2>6. \A x \in Host : \A y \in DOMAIN sockets[x] : Speaks(x, y) /\ Hears(x, y) /\ Waits(x, y)
      BY <2>3, UnmovedStays
    <2> QED BY <1>1, <2>1, <2>2, <2>4, <2>5, <2>6, OrderStays
  <1> QED BY <1>1, <1>2 DEF OInv

LEMMA OrderGoesOn ==
  ASSUME SInv, SInv', Ordered, Next, mishaps' = 0
  PROVE  Ordered'
  <1>1. PICK h \in Host :
          \/ Application(h) \/ Answer(h)
          \/ \E i \in DOMAIN net[h] : Receive(h, i) \/ Lose(h, i) \/ Repeat(h, i)
          \/ \E k \in DOMAIN sockets[h] : Refuse(h, k)
    BY DEF Next
  <1>2. ~Mishap
    <2>1. mishaps \in Nat
      BY DEF SInv, HInv, TTypeOK
    <2> QED BY <2>1 DEF Mishap
  <1>3. CASE Application(h)
    <2>1. ASSUME NEW g \in Host, Connect(h, g)
          PROVE  Ordered'
      BY <2>1, ConnectInOrder
    <2>2. ASSUME NEW k \in DOMAIN sockets[h], SendMayGo(h, k) \/ DisconnectStarts(h, k)
          PROVE  Ordered'
      BY <2>2, SendMayGoInOrder, DisconnectStartsInOrder
    <2>3. ASSUME NEW p \in Payloads, SendGoes(h, p)
          PROVE  Ordered'
      BY <2>3, SendGoesInOrder
    <2> QED BY <1>3, <2>1, <2>2, <2>3, ListenInOrder, DisconnectSendsInOrder DEF Application
  <1>4. ASSUME NEW i \in DOMAIN net[h], Receive(h, i) \/ Lose(h, i) \/ Repeat(h, i)
        PROVE  Ordered'
    <2>1. Receive(h, i) /\ i = 1
      BY <1>2, <1>4 DEF Receive, InTurn, Lose, Repeat
    <2> QED BY <2>1, ReceiveInOrder
  <1>5. ~\E k \in DOMAIN sockets[h] : Refuse(h, k)
    BY <1>2 DEF Refuse
  <1> QED BY <1>1, <1>3, <1>4, <1>5, AnswerInOrder

LEMMA MishapsOnlyGrow ==
  ASSUME mishaps \in Nat, Next, mishaps' = 0
  PROVE  mishaps = 0
  <1>1. ~Mishap
    BY DEF Mishap
  <1>2. PICK h \in Host :
          \/ Application(h) \/ Answer(h)
          \/ \E i \in DOMAIN net[h] : Receive(h, i) \/ Lose(h, i) \/ Repeat(h, i)
          \/ \E k \in DOMAIN sockets[h] : Refuse(h, k)
    BY DEF Next
  <1>3. CASE Application(h)
    <2>1. ASSUME NEW g \in Host, Connect(h, g)
          PROVE  mishaps' = mishaps
      BY <2>1 DEF Connect
    <2>2. ASSUME NEW k \in DOMAIN sockets[h], SendMayGo(h, k) \/ DisconnectStarts(h, k)
          PROVE  mishaps' = mishaps
      BY <1>1, <2>2 DEF SendMayGo, DisconnectStarts
    <2>3. ASSUME NEW p \in Payloads, SendGoes(h, p)
          PROVE  mishaps' = mishaps
      BY <2>3 DEF SendGoes
    <2>4. Listen(h) \/ DisconnectSends(h) => mishaps' = mishaps
      BY DEF Listen, DisconnectSends
    <2> QED BY <1>3, <2>1, <2>2, <2>3, <2>4 DEF Application
  <1>4. ASSUME NEW i \in DOMAIN net[h], Receive(h, i) \/ Lose(h, i) \/ Repeat(h, i)
        PROVE  mishaps' = mishaps
    BY <1>1, <1>4 DEF Receive, InTurn, Lose, Repeat
  <1>5. ~\E k \in DOMAIN sockets[h] : Refuse(h, k)
    BY <1>1 DEF Refuse
  <1>6. Answer(h) => mishaps' = mishaps
    BY DEF Answer, AnswerSends, AnswerDisconnects, AnswerReturns
  <1> QED BY <1>2, <1>3, <1>4, <1>5, <1>6

LEMMA ONextKeeps == OInv /\ Next => OInv'
  <1> SUFFICES ASSUME OInv, Next
               PROVE  OInv'
    OBVIOUS
  <1>1. SInv /\ SInv'
    BY SNextKeeps DEF OInv
  <1>2. ASSUME mishaps' = 0
        PROVE  Ordered'
    <2>1. mishaps = 0
      BY <1>1, <1>2, MishapsOnlyGrow DEF SInv, HInv, TTypeOK
    <2>2. Ordered
      BY <2>1 DEF OInv
    <2> QED BY <1>1, <1>2, <2>2, OrderGoesOn
  <1> QED BY <1>1, <1>2 DEF OInv

\* As long as nothing is lost, repeated, out of turn or refused, and no Disconnect finds its
\* socket in another state than ESTABLISHED, the payloads between two sockets are on their
\* way in order, and their numbers lead from the one expected to the one to be sent.
THEOREM OrderInvariance == Spec => []OInv
  <1>1. OInv /\ [Next]_vars => OInv'
    BY ONextKeeps, OUnchanged
  <1> QED BY OInitially, <1>1, PTL DEF Spec

LEMMA OrderSynchronises == OInv => Synchronised
  <1> SUFFICES ASSUME OInv, Calm, \A h \in Host : net[h] = <<>>,
                      NEW h \in Host, NEW g \in Host,
                      NEW k \in DOMAIN sockets[h], NEW j \in DOMAIN sockets[g], Peers(h, k, g, j),
                      sockets[h][k].state = "ESTABLISHED", sockets[g][j].state = "ESTABLISHED"
               PROVE  sockets[h][k].ack = sockets[g][j].seq
    BY DEF Synchronised
  <1>1. SInv /\ Ordered
    BY DEF OInv, Calm
  <1>2. Full(g, j)
    <2>1. j \in DOMAIN sent[g]
      BY <1>1, Typed DEF SInv, HInv
    <2> QED BY <2>1 DEF Calm, Full
  <1>3. OnLine(h, k, g, j)
    BY <1>1, <1>2 DEF Ordered, Pairs, Pair, Active
  <1>4. Carried(h, g, j) = {}
    BY DEF Carried
  <1>5. Ends(g, j) = {sockets[g][j].seq}
    BY DEF Ends, MaySend, Upcoming
  <1>6. PICK q, ends, ack : q = net[h] /\ ends = Ends(g, j) /\ ack = sockets[h][k].ack
    OBVIOUS
  <1>7. PICK all \in Seq(Data), got \in Nat : all = sent[g][j] /\ got = Len(received[h][k])
    BY <1>1, PairTyped
  <1>8. Line(q, {}, all, got, ack, ends)
    BY <1>3, <1>4, <1>6, <1>7 DEF OnLine
  <1>9. \A u \in ends : u = ack
    BY <1>8, LineEnds
  <1> QED BY <1>5, <1>6, <1>9

\* In calm, both ends of an established connection expect the number the other sends next
\* whenever nothing is on its way: every ACK, payload and reply has been accounted for.
THEOREM EndsSynchronised == Spec => []Synchronised
  <1> QED BY OrderInvariance, OrderSynchronises, PTL

-----------------------------------------------------------------------------
(* In calm: nothing is left behind.                                        *)

\* What is disconnected in calm is ESTABLISHED.
RInv == mishaps \in Nat /\ (mishaps = 0 => revived = {})

LEMMA OnlyDisconnectRevives ==
  ASSUME NEW h \in Host, NEW i \in DOMAIN net[h], Receive(h, i) \/ Lose(h, i) \/ Repeat(h, i)
  PROVE  revived' = revived
  <1>0. ASSUME NEW k, NEW s, NEW replies, Handled(h, i, k, s, replies)
        PROVE  revived' = revived
    BY <1>0 DEF Handled
  <1>1. ASSUME NEW k \in DOMAIN sockets[h], OnRst(h, i, k)
        PROVE  revived' = revived
    BY <1>0, <1>1 DEF OnRst
  <1>2. ASSUME NEW k \in DOMAIN sockets[h], OpenHandler(h, i, k)
        PROVE  revived' = revived
    <2>1. OnSyn(h, i, k) => revived' = revived
      BY <1>0 DEF OnSyn, Reset
    <2>2. OnSynAck(h, i, k) => revived' = revived
      BY <1>0 DEF OnSynAck, Reset
    <2>3. OnFin(h, i, k) => revived' = revived
      BY <1>0 DEF OnFin, Reset
    <2>4. OnAck(h, i, k) => revived' = revived
      BY <1>0 DEF OnAck
    <2>5. OnData(h, i, k, TRUE) => revived' = revived
      BY <1>0 DEF OnData, Reset
    <2>6. OnRequest(h, i, k) => revived' = revived
      BY <1>0 DEF OnRequest
    <2> QED BY <1>2, <2>1, <2>2, <2>3, <2>4, <2>5, <2>6 DEF OpenHandler
  <1>3. OnNothing(h, i) => revived' = revived
    BY DEF OnNothing
  <1>4. Lose(h, i) \/ Repeat(h, i) => revived' = revived
    BY DEF Lose, Repeat
  <1> QED BY <1>1, <1>2, <1>3, <1>4 DEF Receive

LEMMA RNextKeeps == OInv /\ RInv /\ Next => RInv'
  <1> SUFFICES ASSUME OInv, RInv, Next, mishaps' = 0
               PROVE  revived' = {}
    BY ONextKeeps DEF RInv, OInv, SInv, HInv, TTypeOK
  <1>1. mishaps = 0 /\ revived = {}
    BY MishapsOnlyGrow DEF RInv
  <1>2. ~Mishap
    BY <1>1 DEF Mishap
  <1>3. PICK h \in Host :
          \/ Application(h) \/ Answer(h)
          \/ \E i \in DOMAIN net[h] : Receive(h, i) \/ Lose(h, i) \/ Repeat(h, i)
          \/ \E k \in DOMAIN sockets[h] : Refuse(h, k)
    BY DEF Next
  <1>4. CASE Application(h)
    <2>1. ASSUME NEW g \in Host, Connect(h, g)
          PROVE  revived' = revived
      BY <2>1 DEF Connect
    <2>2. ASSUME NEW k \in DOMAIN sockets[h], SendMayGo(h, k)
          PROVE  revived' = revived
      BY <2>2 DEF SendMayGo
    <2>3. ASSUME NEW k \in DOMAIN sockets[h], DisconnectStarts(h, k)
          PROVE  revived' = revived
      BY <1>2, <2>3 DEF DisconnectStarts
    <2>4. ASSUME NEW p \in Payloads, SendGoes(h, p)
          PROVE  revived' = revived
      BY <2>4 DEF SendGoes
    <2>5. Listen(h) \/ DisconnectSends(h) => revived' = revived
      BY DEF Listen, DisconnectSends
    <2> QED BY <1>1, <1>4, <2>1, <2>2, <2>3, <2>4, <2>5 DEF Application
  <1>5. ~\E k \in DOMAIN sockets[h] : Refuse(h, k)
    BY <1>2 DEF Refuse
  <1>6. Answer(h) => revived' = revived
    BY DEF Answer, AnswerSends, AnswerDisconnects, AnswerReturns
  <1> QED BY <1>1, <1>3, <1>4, <1>5, <1>6, OnlyDisconnectRevives

\* In calm, a socket that is not closing has been handed everything its peer has sent,
\* whenever nothing is on its way.
DeliveredWhenQuiet ==
  Calm /\ (\A h \in Host : net[h] = <<>>) =>
    \A h, g \in Host : \A k \in DOMAIN sockets[h], j \in DOMAIN sockets[g] :
      Peers(h, k, g, j) /\ sockets[h][k].state \in {"SYN_SENT", "SYN_RECEIVED", "ESTABLISHED"} =>
        received[h][k] = sent[g][j]

LEMMA OrderDelivers == OInv /\ RInv => DeliveredWhenQuiet
  <1> SUFFICES ASSUME OInv, RInv, Calm, \A h \in Host : net[h] = <<>>,
                      NEW h \in Host, NEW g \in Host,
                      NEW k \in DOMAIN sockets[h], NEW j \in DOMAIN sockets[g], Peers(h, k, g, j),
                      sockets[h][k].state \in {"SYN_SENT", "SYN_RECEIVED", "ESTABLISHED"}
               PROVE  received[h][k] = sent[g][j]
    BY DEF DeliveredWhenQuiet
  <1>1. SInv /\ Streams /\ HInv /\ Ordered /\ revived = {}
    BY DEF OInv, RInv, Calm, SInv
  <1>2. received[h][k] \in Seq(Data) /\ sent[g][j] \in Seq(Data)
    <2>1. /\ received[h] \in Seq(Stream) /\ sent[g] \in Seq(Stream)
          /\ DOMAIN received[h] = DOMAIN sockets[h] /\ DOMAIN sent[g] = DOMAIN sockets[g]
      BY <1>1, Typed DEF HInv
    <2> QED BY <2>1 DEF Stream
  <1>3. CASE sockets[h][k].state = "SYN_SENT"
    BY <1>1, <1>3 DEF Ordered, Pairs, Pair, Streams, Fresh, Opening
  <1>4. CASE Active(h, k)
    <2>1. j \in DOMAIN sent[g]
      BY <1>1, Typed DEF HInv
    <2>2. Full(g, j)
      BY <2>1 DEF Calm, Full
    <2>3. OnLine(h, k, g, j) /\ Carried(h, g, j) = {}
      BY <1>1, <1>4, <2>2 DEF Ordered, Pairs, Pair, Carried
    <2>4. PICK all \in Seq(Data), got \in Nat : all = sent[g][j] /\ got = Len(received[h][k])
      BY <1>2
    <2>5. Line(net[h], {}, all, got, sockets[h][k].ack, Ends(g, j))
      BY <2>3, <2>4 DEF OnLine
    <2>6. got = Len(all)
      <3> SUFFICES ASSUME got # Len(all)
                   PROVE  FALSE
        OBVIOUS
      <3>1. got <= Len(all) /\ Len(all) \in Nat
        BY <2>5 DEF Line
      <3>2. got + 1 \in got + 1 .. Len(all)
        BY <3>1
      <3>3. \A n \in got + 1 .. Len(all) : \E i \in {} : net[h][i].data.nth = n
        BY <2>5 DEF Line
      <3> QED BY <3>2, <3>3
    <2>7. NoneBlank(g, j)
      <3>1. \A n \in 1 .. Len(all) : all[n].len > 0 /\ all[n].used = all[n].len
        BY <2>2, <2>4, <2>5 DEF Line, Full
      <3> QED BY <2>4, <3>1 DEF NoneBlank
    <2>8. \A i \in 1 .. Len(received[h][k]) : received[h][k][i] = sent[g][j][i]
      <3>1. PICK f : Taken(g, j, f)
        BY <1>1 DEF Streams, Flows
      <3>2. <<h, k>> \notin revived
        BY <1>1
      <3> QED BY <2>7, <3>1, <3>2 DEF Taken
    <2>9. ASSUME NEW u \in Seq(Data), NEW v \in Seq(Data), Len(u) = Len(v), \A i \in 1 .. Len(u) : u[i] = v[i]
          PROVE  u = v
      BY <2>9, SMTT(30)
    <2> QED BY <1>2, <2>4, <2>6, <2>8, <2>9
  <1> QED BY <1>3, <1>4 DEF Active

\* In calm nothing a socket has sent is left behind: what is not on its way any more has been
\* handed over, unless the receiving end has begun to close.
THEOREM NothingLeftBehind == Spec => []DeliveredWhenQuiet
  <1>1. Init => OInv /\ RInv
    BY OInitially DEF Init, RInv
  <1>2. RInv /\ UNCHANGED vars => RInv'
    BY DEF RInv, vars
  <1>3. OInv /\ RInv /\ [Next]_vars => OInv' /\ RInv'
    BY <1>2, ONextKeeps, OUnchanged, RNextKeeps
  <1> QED BY <1>1, <1>3, OrderDelivers, PTL DEF Spec
=============================================================================
