--------------------------------- MODULE Ip ---------------------------------
(***************************************************************************)
(* Packets on their way through a host: the ne2k card and its interrupt,   *)
(* the loopback device, netsoftisr, ARP, routing, IP, ICMP and UDP         *)
(* (dev/net, net/inet, net/lib/pkt.cc), with one ethernet card whose       *)
(* address is set.  A pkt_t is an id of 1 .. NPKT; the queues hold ids.    *)
(*                                                                         *)
(* The handlers call each other down to the card, so what they do is a     *)
(* function from the host's state to its next.  They run in the kernel,    *)
(* which nothing but the card's interrupt interrupts.  The card itself     *)
(* sends and receives at any time, between the handler's reading of its    *)
(* interrupt status and the acknowledgement of it too.                     *)
(***************************************************************************)
EXTENDS Integers, Sequences, SequencesExt, FiniteSetsExt

CONSTANTS
  Addr, HwAddr, Port,
  Me, Lo,      \* this host's addresses on the ethernet and on the loopback
  INADDRANY,
  HwOf,        \* the neighbours' hardware addresses, which they tell
  NPKT,        \* bound: packets that exist at a time
  NARP,        \* ARPTABSIZE
  MAXREXMIT,
  RING,        \* bound: frames in the card's receive ring
  Frames,      \* the frames that the wire delivers
  Routes,      \* the routes that are added: host, gateway (INADDRANY: none), daddr, net, dev
  Local,       \* the routes there are at first
  USock, UTask,
  Ports, Eph,  \* the ports that sockets bind, and the one newudpport gives
  Dests,       \* where datagrams are sent
  Peers,       \* the addresses that sockets connect to
  Posts        \* bound: how many signals others post

VARIABLES
  host,  \* pk, panicked; backlog; arp, lru; txq, txp, ring, flags (the card), left
         \* (how many frames isrprx still fetches); routes; socks (the chain), recvq
  inisr, \* the card's handler runs and has not acknowledged yet
  rcv,   \* what a task does: pc ("user", "wait", "woken"), on which socket
  sigs,  \* the tasks with a signal
  nsigs

ipvars == <<host, inisr, rcv, sigs, nsigs>>

Pkt == 1 .. NPKT
None == [type |-> "none"]
Bcast == "bcast"
IpPkt(proto, src, dst, dport) ==
  [type |-> "ip", ok |-> TRUE, proto |-> proto, src |-> src, dst |-> dst, dport |-> dport,
   hop |-> INADDRANY, hw |-> "none"]
ArpPkt(op, spa, tpa, sha, hw) ==
  [type |-> "arp", op |-> op, spa |-> spa, tpa |-> tpa, sha |-> sha, hw |-> hw]

\* ok: the header's length, version and checksum.  hop is the address the packet
\* goes to next.  "odd" is an ARP packet with the wrong lengths.
IpRec ==
  [type : {"ip"}, ok : BOOLEAN, proto : {"tcp", "udp", "icmp", "other"}, src : Addr, dst : Addr,
   dport : Port, hop : Addr, hw : HwAddr]
ArpRec ==
  [type : {"arp"}, op : {"request", "reply", "odd", "other"}, spa : Addr, tpa : Addr,
   sha : HwAddr, hw : HwAddr]
Unknown == [type |-> "unknown"]
PktRec == IpRec \cup ArpRec \cup {Unknown}
RouteRec == [host : BOOLEAN, gateway : Addr, daddr : Addr, net : SUBSET Addr, dev : {"lo", "eth"}]

\* A neighbour's ARP packets tell its own hardware address.
ASSUME IpAssumption ==
  /\ NPKT \in Nat /\ NARP \in Nat \ {0} /\ MAXREXMIT \in Nat /\ RING \in Nat /\ Posts \in Nat
  /\ {Me, Lo, INADDRANY} \subseteq Addr /\ {"me", "none", Bcast} \subseteq HwAddr
  /\ DOMAIN HwOf \subseteq Addr /\ HwOf \in [DOMAIN HwOf -> HwAddr]
  /\ Ports \cup {Eph} \subseteq Port /\ Peers \subseteq Addr /\ USock # {}
  /\ Dests \subseteq [addr : Addr, port : Port]
  /\ Routes \subseteq RouteRec /\ Local \in Seq(RouteRec)
  /\ Frames \subseteq PktRec
  /\ \A f \in Frames : f.type = "arp" /\ f.op # "odd" =>
       f.spa \in DOMAIN HwOf /\ f.sha = HwOf[f.spa]

----------------------------------------------------------------------------
(* Packets. *)

Unused(x) == {p \in Pkt : x.pk[p] = None}
newpkt(x) == CHOOSE p \in Pkt : x.pk[p] = None
Made(x, p, r) == [x EXCEPT !.pk[p] = r]

\* Its magic number shows a packet that is deleted twice.
delpkt(x, p) ==
  IF x.pk[p] = None THEN [x EXCEPT !.panicked = TRUE] ELSE [x EXCEPT !.pk[p] = None]
zapall(x, q) ==
  [x EXCEPT !.pk = [p \in Pkt |-> IF p \in ToSet(q) THEN None ELSE @[p]],
            !.panicked = @ \/ \E i \in DOMAIN q :
                               x.pk[q[i]] = None \/ \E j \in DOMAIN q : i # j /\ q[i] = q[j]]

----------------------------------------------------------------------------
(* The devices. *)

\* netdev_t::input.  From a task or a soft handler it runs with interrupts
\* on: the receive interrupt in the middle of enqtail loses the packet.
DevInput(x, p, lost) ==
  IF lost THEN [x EXCEPT !.pk[p] = None] ELSE [x EXCEPT !.backlog = Append(@, p)]

\* What is on the wire is a copy.
hardwareoutput(x, p) ==
  IF x.txp # None THEN [x EXCEPT !.txq = Append(@, p)]
  ELSE delpkt([x EXCEPT !.txp = x.pk[p]], p)

addhwhdr(x, p, hw) == [x EXCEPT !.pk[p].hw = hw]

isrptx(x) ==
  IF x.txq = << >> THEN x ELSE hardwareoutput([x EXCEPT !.txq = Tail(@)], Head(x.txq))

\* isrprx fetches the frames that are in the ring when it begins.  One for which
\* there is no packet is dropped.
isrprx(x) == [x EXCEPT !.left = Len(x.ring)]
Fetched(x) ==
  LET y == [x EXCEPT !.ring = Tail(@), !.left = @ - 1] IN
  IF Unused(y) = {} THEN y ELSE DevInput(Made(y, newpkt(y), Head(x.ring)), newpkt(y), FALSE)

----------------------------------------------------------------------------
(* ARP. *)

arpent_t == [stat |-> "inval", praddr |-> INADDRANY, hw |-> "none", q |-> << >>, nrexmit |-> 0, timer |-> FALSE]

InvalidatedKeep(e) == [e EXCEPT !.stat = "inval", !.nrexmit = 0, !.timer = FALSE]
Invalidated(e) == [e EXCEPT !.stat = "inval", !.nrexmit = 0, !.timer = FALSE, !.q = << >>]
invalidate(x, e) ==
  IF x.arp[e].stat = "inval" THEN x
  ELSE zapall([x EXCEPT !.arp[e] = Invalidated(@)], x.arp[e].q)

lookup(x, a) == {e \in 1 .. NARP : x.arp[e].stat # "inval" /\ x.arp[e].praddr = a}
Touched(x, e) ==
  LET i == CHOOSE i \in DOMAIN x.lru : x.lru[i] = e IN
  [x EXCEPT !.lru = Append(RemoveAt(@, i), e)]

\* The entry got is the last of lru: the address's own, or the least recently
\* used one in its place.
Reused(x, a) ==
  LET e == Head(x.lru) IN [invalidate(Touched(x, e), e) EXCEPT !.arp[e].praddr = a]
get(x, a) ==
  IF lookup(x, a) # {} THEN Touched(x, CHOOSE e \in lookup(x, a) : TRUE) ELSE Reused(x, a)

arprequest(x, a) ==
  LET p == newpkt(x) IN
  hardwareoutput(Made(x, p, ArpPkt("request", Me, a, "me", Bcast)), p)

rexmitto(x, e) ==
  LET y == [x EXCEPT !.arp[e].timer = FALSE, !.arp[e].nrexmit = @ + 1] IN
  IF x.arp[e].nrexmit >= MAXREXMIT THEN invalidate(y, e) ELSE arprequest(y, x.arp[e].praddr)

\* All the packets queued for the entry go out: the first to the card if it is
\* idle, the others to its queue.
replyarrive(x, e) ==
  LET q == x.arp[e].q
      y == [x EXCEPT !.arp[e].q = << >>,
                     !.pk = [p \in Pkt |-> IF p \in ToSet(q) THEN [@[p] EXCEPT !.hw = x.arp[e].hw]
                                           ELSE @[p]]]
  IN  IF q = << >> THEN x ELSE [hardwareoutput(y, Head(q)) EXCEPT !.txq = @ \o Tail(q)]

arpoutput(x, p, a) ==
  LET y == get(x, a)
      e == Last(y.lru)
      Waits == [y EXCEPT !.arp[e].q = Append(@, p)]
  IN
  CASE y.arp[e].stat = "inval" ->
         arprequest([Waits EXCEPT !.arp[e].stat = "waiting", !.arp[e].timer = TRUE], a)
    [] y.arp[e].stat = "waiting" -> Waits
    [] y.arp[e].stat = "resolved" -> hardwareoutput(addhwhdr(y, p, y.arp[e].hw), p)

\* The request's packet is used for the reply.
arpreply(x, p) ==
  LET r == x.pk[p] IN hardwareoutput(Made(x, p, ArpPkt("reply", Me, r.spa, "me", r.sha)), p)

tothishost(a) == a \in {Me, Lo}

\* A packet with the wrong lengths ("odd") has taken an entry before it is
\* dropped, since no entry has such a length.
arpinput(x, p) ==
  LET r == x.pk[p]
      y == get(x, r.spa)
      e == Last(y.lru)
      z == [y EXCEPT !.arp[e].stat = "resolved", !.arp[e].hw = r.sha,
                     !.arp[e].nrexmit = 0, !.arp[e].timer = FALSE]
  IN
  CASE r.op = "odd" -> delpkt(Reused(x, INADDRANY), p)
    [] r.op = "request" /\ tothishost(r.tpa) -> arpreply(z, p)
    [] r.op = "reply" -> delpkt(replyarrive(z, e), p)
    [] OTHER -> delpkt(z, p)

----------------------------------------------------------------------------
(* Routes, IP and ICMP. *)

\* The first of the list that covers the address.  The default route, whose
\* mask is 0, is one of the list and covers them all.
Covering(x, a) == {i \in DOMAIN x.routes : a \in x.routes[i].net}
HasRoute(x, a) == Covering(x, a) # {}
selectroute(x, a) == x.routes[Min(Covering(x, a))]
nexthop(r, a) == IF r.gateway # INADDRANY THEN r.gateway ELSE a

delroute(x, a) ==
  IF HasRoute(x, a) THEN [x EXCEPT !.routes = RemoveAt(@, Min(Covering(x, a)))] ELSE x
\* A gateway's device is that of the route to it, and a host's route covers it.
addroute(x, r) ==
  LET dev == IF r.gateway # INADDRANY THEN selectroute(x, r.gateway).dev ELSE r.dev
      net == IF r.host THEN {r.daddr} ELSE r.net
  IN  IF r.gateway # INADDRANY /\ ~HasRoute(x, r.gateway) THEN x
      ELSE [delroute(x, r.daddr) EXCEPT
              !.routes = Append(@, [r EXCEPT !.dev = dev, !.net = net])]

\* netdev_t::output and loopnetdev_t::output.
DevOutput(x, p, r, a, lost) ==
  LET hop == nexthop(r, a) IN
  IF r.dev = "lo" \/ hop = Me THEN DevInput(x, p, lost)
  ELSE arpoutput([x EXCEPT !.pk[p].hop = hop], p, hop)

ipforward(x, p, lost) ==
  LET a == x.pk[p].dst IN
  IF HasRoute(x, a) THEN DevOutput(x, p, selectroute(x, a), a, lost) ELSE delpkt(x, p)

ipoutput(x, p, lost) ==
  LET r == x.pk[p]
      dev == selectroute(x, r.dst).dev
      src == IF r.src # INADDRANY THEN r.src ELSE IF dev = "lo" THEN Lo ELSE Me
  IN  IF HasRoute(x, r.dst)
      THEN DevOutput([x EXCEPT !.pk[p].src = src], p, selectroute(x, r.dst), r.dst, lost)
      ELSE delpkt(x, p)

\* Both are sent before the packet that they answer is deleted.
icmpoutput(x, old, lost) ==
  LET p == newpkt(x) IN
  ipoutput(Made(x, p, IpPkt("icmp", x.pk[old].dst, x.pk[old].src, Eph)), p, lost)
icmpinput(x, p, lost) == delpkt(icmpoutput(x, p, lost), p)

\* A peer is an address together with its port.
Matches(s, r) ==
  /\ s.laddr \in {INADDRANY, r.dst} /\ s.lport = r.dport
  /\ s.faddr \in {INADDRANY, r.src}
\* The first socket of the chain that matches.
udpinput(x, p) ==
  LET hit == {i \in DOMAIN x.socks : Matches(x.socks[i], x.pk[p])} IN
  IF hit = {} THEN delpkt(x, p)
  ELSE [x EXCEPT !.recvq[x.socks[Min(hit)].id] = Append(@, p)]

\* No raw socket takes a packet here; module Tcp takes TCP's.
ipinput(x, p, lost) ==
  LET r == x.pk[p] IN
  CASE ~r.ok -> delpkt(x, p)
    [] r.ok /\ ~tothishost(r.dst) -> ipforward(x, p, lost)
    [] r.ok /\ tothishost(r.dst) ->
         CASE r.proto = "tcp" -> delpkt(x, p)
           [] r.proto = "udp" -> udpinput(x, p)
           [] OTHER -> icmpinput(x, p, lost)

\* A frame of another type is dropped, and not freed.
netrx(x, p, lost) ==
  CASE x.pk[p].type = "ip" -> ipinput(x, p, lost)
    [] x.pk[p].type = "arp" -> arpinput(x, p)
    [] OTHER -> [x EXCEPT !.pk[p] = None]

----------------------------------------------------------------------------
(* The steps. *)

\* Bound: what a step may allocate is there, for AKERN never fails.
Room(n) == Cardinality(Unused(host)) >= n
Needs(r) ==
  CASE r.type # "ip" -> 0
    [] r.type = "ip" /\ r.proto = "udp" /\ tothishost(r.dst) -> 0
    [] OTHER -> 2
InKernel == ~inisr /\ ~host.panicked
Only(x) == host' = x /\ UNCHANGED <<inisr, rcv, sigs, nsigs>>

Arrive(f) ==
  /\ Len(host.ring) < RING
  /\ Only([host EXCEPT !.ring = Append(@, f), !.flags = @ \cup {"prx"}])
Transmitted ==
  /\ host.txp # None
  /\ Only([host EXCEPT !.txp = None, !.flags = @ \cup {"ptx"}])

\* The handler; each frame it fetches; and its acknowledgement of everything that
\* is flagged by then.
Isr ==
  /\ InKernel /\ host.flags # {}
  /\ LET x == IF "ptx" \in host.flags THEN isrptx(host) ELSE host
         y == IF "prx" \in host.flags THEN isrprx(x) ELSE x
     IN  host' = y
  /\ inisr' = TRUE
  /\ UNCHANGED <<rcv, sigs, nsigs>>
IsrFetch ==
  /\ inisr /\ host.left > 0
  /\ Only(Fetched(host))
IsrAck ==
  /\ inisr /\ host.left = 0
  /\ host' = [host EXCEPT !.flags = {}]
  /\ inisr' = FALSE
  /\ UNCHANGED <<rcv, sigs, nsigs>>

\* waitq.broadcast() of the sockets that got something.
Awake(x) ==
  [t \in UTask |-> IF rcv[t].pc = "wait" /\ Len(x.recvq[rcv[t].s]) > Len(host.recvq[rcv[t].s])
                   THEN [rcv[t] EXCEPT !.pc = "woken"] ELSE rcv[t]]
\* One round of netsoftisr's loop.
Netsoftisr(lost) ==
  /\ InKernel /\ host.backlog # << >>
  /\ Room(Needs(host.pk[Head(host.backlog)]))
  /\ host' = netrx([host EXCEPT !.backlog = Tail(@)], Head(host.backlog), lost)
  /\ rcv' = Awake(host')
  /\ UNCHANGED <<inisr, sigs, nsigs>>

Rexmit(e) ==
  /\ InKernel /\ host.arp[e].timer /\ Room(1)
  /\ Only(rexmitto(host, e))

AddRoute(r) == InKernel /\ Only(addroute(host, r))

Open == {host.socks[i].id : i \in DOMAIN host.socks}
At(s) == CHOOSE i \in DOMAIN host.socks : host.socks[i].id = s
\* newudpport looks for the port in one byte order and returns it in the
\* other, so that it gives every socket the same.
NewSocket(s) ==
  /\ InKernel /\ s \notin Open
  /\ Only([host EXCEPT !.socks = Append(@, [id |-> s, laddr |-> INADDRANY, lport |-> Eph, faddr |-> INADDRANY])])
exist(a, port) ==
  \E i \in DOMAIN host.socks :
    /\ host.socks[i].lport = port
    /\ a = INADDRANY \/ host.socks[i].laddr \in {INADDRANY, a}
Bind(s, a, port) ==
  /\ InKernel /\ s \in Open /\ ~exist(a, port)
  /\ Only([host EXCEPT !.socks = Append(RemoveAt(@, At(s)),
                                        [host.socks[At(s)] EXCEPT !.laddr = a, !.lport = port])])
Connect(s, a) ==
  /\ InKernel /\ s \in Open
  /\ Only([host EXCEPT !.socks[At(s)].faddr = a])
\* What the socket received is not freed.
Close(s) ==
  /\ InKernel /\ s \in Open
  /\ \A t \in UTask : rcv[t].pc = "user" \/ rcv[t].s # s
  /\ Only([host EXCEPT !.socks = RemoveAt(@, At(s)), !.recvq[s] = << >>,
                       !.pk = [p \in Pkt |-> IF p \in ToSet(host.recvq[s]) THEN None ELSE @[p]]])

\* A datagram of one packet.  Where no route leads, both ipoutput and sendto
\* delete the packet.
Sendto(s, d, lost) ==
  /\ InKernel /\ s \in Open /\ Room(2)
  /\ LET k == host.socks[At(s)]
         p == newpkt(host)
         x == ipoutput(Made(host, p, IpPkt("udp", k.laddr, d.addr, d.port)), p, lost)
     IN  Only(IF HasRoute(host, d.addr) THEN x ELSE delpkt(x, p))

\* recvfrom, called or woken; the packet it takes is not freed.
Recvfrom(t, s) ==
  /\ InKernel /\ s \in Open
  /\ \/ rcv[t].pc = "user"
     \/ rcv[t].pc = "woken" /\ rcv[t].s = s
  /\ IF rcv[t].pc = "woken" /\ t \in sigs
     THEN /\ rcv' = [rcv EXCEPT ![t].pc = "user"]
          /\ sigs' = sigs \ {t}
          /\ UNCHANGED host
     ELSE /\ IF host.recvq[s] = << >>
             THEN rcv' = [rcv EXCEPT ![t] = [pc |-> "wait", s |-> s]] /\ UNCHANGED host
             ELSE /\ rcv' = [rcv EXCEPT ![t].pc = "user"]
                  /\ host' = [host EXCEPT !.recvq[s] = Tail(@), !.pk[Head(host.recvq[s])] = None]
          /\ UNCHANGED sigs
  /\ UNCHANGED <<inisr, nsigs>>

PostSignal(t) ==
  /\ rcv[t].pc # "user" /\ t \notin sigs /\ nsigs < Posts
  /\ sigs' = sigs \cup {t} /\ nsigs' = nsigs + 1
  /\ rcv' = [rcv EXCEPT ![t].pc = "woken"]
  /\ UNCHANGED <<host, inisr>>

IpInit ==
  /\ host = [pk |-> [p \in Pkt |-> None], panicked |-> FALSE, backlog |-> << >>,
             arp |-> [e \in 1 .. NARP |-> arpent_t], lru |-> [i \in 1 .. NARP |-> i],
             txq |-> << >>, txp |-> None, ring |-> << >>, flags |-> {}, left |-> 0,
             routes |-> Local, socks |-> << >>, recvq |-> [s \in USock |-> << >>]]
  /\ inisr = FALSE
  /\ rcv \in [UTask -> {[pc |-> "user", s |-> s] : s \in {CHOOSE s \in USock : TRUE}}]
  /\ sigs = {} /\ nsigs = 0
IpNext ==
  \/ \E f \in Frames : Arrive(f)
  \/ Transmitted
  \/ Isr
  \/ IsrFetch
  \/ IsrAck
  \/ \E lost \in BOOLEAN : Netsoftisr(lost)
  \/ \E e \in 1 .. NARP : Rexmit(e)
  \/ \E r \in Routes : AddRoute(r)
  \/ \E s \in USock : NewSocket(s)
  \/ \E s \in USock, a \in {INADDRANY, Me}, port \in Ports : Bind(s, a, port)
  \/ \E s \in USock, a \in Peers : Connect(s, a)
  \/ \E s \in USock : Close(s)
  \/ \E s \in USock, d \in Dests, lost \in BOOLEAN : Sendto(s, d, lost)
  \/ \E t \in UTask, s \in USock : Recvfrom(t, s)
  \/ \E t \in UTask : PostSignal(t)

IpSpec == IpInit /\ [][IpNext]_ipvars

----------------------------------------------------------------------------
(* Properties. *)

\* The queues in which packets lie: backlog, the card's, the ARP entries' and
\* the sockets'.
Place == ({"backlog", "txq"} \X {0}) \cup ({"arp"} \X (1 .. NARP)) \cup ({"recv"} \X USock)
Queue(x, k) ==
  CASE k[1] = "backlog" -> x.backlog
    [] k[1] = "txq" -> x.txq
    [] k[1] = "arp" -> x.arp[k[2]].q
    [] k[1] = "recv" -> x.recvq[k[2]]

\* A packet is in one queue, once, and is not freed while it is there,
\* whatever the interrupt, the timers and the tasks do with the queues.
InOnePlace ==
  \A k \in Place : \A i \in DOMAIN Queue(host, k) :
    /\ host.pk[Queue(host, k)[i]] # None
    /\ \A l \in Place : \A j \in DOMAIN Queue(host, l) :
         Queue(host, k)[i] = Queue(host, l)[j] => k = l /\ i = j

\* A frame that carries an IP packet bears the hardware address of the packet's
\* next hop, though the entry it waited in was taken for another address.
RightHost ==
  /\ \A i \in DOMAIN host.txq :
       host.pk[host.txq[i]].type = "ip" => host.pk[host.txq[i]].hw = HwOf[host.pk[host.txq[i]].hop]
  /\ host.txp.type = "ip" => host.txp.hw = HwOf[host.txp.hop]

\* What waits for an answer waits for its own next hop's, and an address has
\* one entry.
ArpIsSound ==
  \A e \in 1 .. NARP :
    /\ \A f \in 1 .. NARP :
         /\ host.arp[e].stat # "inval" /\ host.arp[f].stat # "inval"
         /\ host.arp[e].praddr = host.arp[f].praddr
         => e = f
    /\ \A i \in DOMAIN host.arp[e].q :
         host.arp[e].stat # "inval" /\ host.pk[host.arp[e].q[i]].hop = host.arp[e].praddr

\* No task sleeps in recvfrom while its socket has a packet.
NoSleepWithPacket ==
  \A t \in UTask : rcv[t].pc = "wait" => host.recvq[rcv[t].s] = << >>

\* The host's packets are in one queue, get to the host that is their next hop,
\* and wake their receivers.
PacketsAreSafe == InOnePlace /\ RightHost /\ ArpIsSound /\ NoSleepWithPacket
=============================================================================
