----------------------------- MODULE IrqProofs -----------------------------
(***************************************************************************)
(* TLAPS proofs about the timer wheel, for any wheel size, any number of   *)
(* timers and any periods; about the software interrupts that drive it,    *)
(* for any number of slots; and about the packets that the card's          *)
(* interrupt, netsoftisr, ARP's timers and the tasks carry through the     *)
(* host, for any number of packets, ARP entries, sockets and tasks.        *)
(***************************************************************************)
EXTENDS Timer, Softirq, Ip, SequenceTheorems, FiniteSetTheorems, WellFoundedInduction, TLAPS

\* Calls of timersoftisr to complete before slot k is drained.
Dist(k) == IF k >= cur THEN k - cur ELSE k - cur + NTICK

\* What a linked timer owes: its age and the distance still to go add up to its
\* period, exactly for short timers; the turn of the wheel in which a long timer
\* was started, and the last one, are charged in full.
TimerInv(t) ==
  /\ where[t] = "below" =>
       /\ age[t] + Dist(slot[t]) <= period[t]
       /\ age[t] + Dist(slot[t]) > period[t] - 2 * NTICK
       /\ period[t] < NTICK => age[t] + Dist(slot[t]) = period[t]
  /\ where[t] = "above" =>
       /\ period[t] >= NTICK
       /\ lefttick[t] >= NTICK
       /\ age[t] + lefttick[t] <= period[t] + cur
       /\ age[t] + lefttick[t] > period[t] + cur - NTICK

IInv == TypeOK /\ \A t \in Timer : TimerInv(t)

LEMMA InitOK == Init => IInv
<1> SUFFICES ASSUME Init PROVE IInv
  OBVIOUS
<1>1. draining \in BOOLEAN
  BY DEF Init
<1>2. TypeOK
  BY <1>1, TimerAssumption DEF Init, TypeOK
<1>3. \A t \in Timer : TimerInv(t)
  BY DEF Init, TimerInv
<1> QED BY <1>2, <1>3 DEF IInv

LEMMA NextOK == IInv /\ [Next]_vars => IInv'
<1> SUFFICES ASSUME IInv, [Next]_vars PROVE IInv'
  OBVIOUS
<1> USE TimerAssumption
<1>1. ASSUME NEW t \in Timer, NEW p \in Period, Start(t, p) PROVE IInv'
  <2>1. p \in Nat /\ p > 0
    OBVIOUS
  <2>2. Wrap(cur + p) \in 0 .. NTICK - 1 \/ p >= NTICK
    BY <2>1 DEF Wrap, IInv, TypeOK
  <2>3. TypeOK'
    BY <1>1, <2>1, <2>2 DEF Start, IInv, TypeOK
  <2>4. TimerInv(t)'
    BY <1>1, <2>1 DEF Start, IInv, TypeOK, TimerInv, Dist, Wrap
  <2>5. ASSUME NEW u \in Timer, u # t PROVE TimerInv(u)'
    BY <1>1, <2>5 DEF Start, IInv, TypeOK, TimerInv, Dist
  <2> QED BY <2>3, <2>4, <2>5 DEF IInv
<1>2. ASSUME NEW t \in Timer, Stop(t) \/ Fire(t) PROVE IInv'
  <2>1. TypeOK'
    BY <1>2 DEF Stop, Fire, IInv, TypeOK
  <2>2. ASSUME NEW u \in Timer PROVE TimerInv(u)'
    BY <1>2 DEF Stop, Fire, IInv, TypeOK, TimerInv, Dist
  <2> QED BY <2>1, <2>2 DEF IInv
<1>3. CASE Softisr \/ UNCHANGED vars
  <2>1. UNCHANGED <<cur, where, slot, period, lefttick, age>>
        /\ (draining' = draining \/ draining' = TRUE)
    BY <1>3 DEF Softisr, vars, timer
  <2> QED BY <2>1 DEF IInv, TypeOK, TimerInv, Dist
<1>4. CASE Advance
  <2>1. \A t \in Timer : where[t] = "below" => slot[t] # cur
    BY <1>4 DEF Advance, Due
  <2>2. cur \in Nat /\ cur < NTICK /\ cur' = IF cur + 1 = NTICK THEN 0 ELSE cur + 1
    BY <1>4 DEF Advance, Wrap, IInv, TypeOK
  <2>3. age' = [t \in Timer |-> IF where[t] = "off" THEN 0 ELSE age[t] + 1]
        /\ period' = period /\ draining' \in BOOLEAN
    BY <1>4 DEF Advance
  <2>4. CASE cur' # 0
    <3>1. UNCHANGED <<where, slot, lefttick>> /\ cur' = cur + 1
      BY <1>4, <2>2, <2>4 DEF Advance
    <3>2. TypeOK'
      <4>1. age' \in [Timer -> Nat]
        BY <2>3 DEF IInv, TypeOK
      <4> QED BY <2>2, <2>3, <3>1, <4>1 DEF IInv, TypeOK
    <3>3. ASSUME NEW t \in Timer PROVE TimerInv(t)'
      <4>1. /\ age[t] \in Nat /\ period[t] \in Nat /\ lefttick[t] \in Int
            /\ slot[t] \in 0 .. NTICK - 1 /\ TimerInv(t)
        BY DEF IInv, TypeOK
      <4>2. /\ where[t] # "off" => age'[t] = age[t] + 1
            /\ period'[t] = period[t] /\ where'[t] = where[t]
            /\ slot'[t] = slot[t] /\ lefttick'[t] = lefttick[t]
        BY <2>3, <3>1
      <4>3. where[t] = "below" => Dist(slot[t])' = Dist(slot[t]) - 1
        BY <2>1, <2>2, <3>1, <4>1 DEF Dist
      <4>4. Dist(slot[t]) \in Int
        BY <2>2, <4>1 DEF Dist
      <4> QED BY <2>2, <3>1, <4>1, <4>2, <4>3, <4>4 DEF TimerInv
    <3> QED BY <3>2, <3>3 DEF IInv
  <2>5. CASE cur' = 0
    <3>1. cur = NTICK - 1
      BY <2>2, <2>5
    <3>2. /\ lefttick' = [t \in Timer |-> IF where[t] = "above"
                                            THEN lefttick[t] - NTICK ELSE lefttick[t]]
          /\ where' = [t \in Timer |-> IF Descends(t) THEN "below" ELSE where[t]]
          /\ slot' = [t \in Timer |-> IF Descends(t)
                                        THEN Wrap(cur' + lefttick'[t]) ELSE slot[t]]
      BY <1>4, <2>5 DEF Advance
    <3>3. ASSUME NEW t \in Timer
          PROVE  TimerInv(t)' /\ slot'[t] \in 0 .. NTICK - 1
                 /\ where'[t] \in {"off", "below", "above"} /\ lefttick'[t] \in Int
      <4>1. /\ age[t] \in Nat /\ period[t] \in Nat /\ lefttick[t] \in Int
            /\ slot[t] \in 0 .. NTICK - 1 /\ TimerInv(t)
        BY DEF IInv, TypeOK
      <4>2. CASE Descends(t)
        <5>1. where'[t] = "below" /\ slot'[t] = Wrap(lefttick[t] - NTICK)
              /\ lefttick'[t] = lefttick[t] - NTICK /\ age'[t] = age[t] + 1
          BY <2>3, <2>5, <3>2, <4>1, <4>2 DEF Descends
        <5>2. lefttick[t] - NTICK \in 0 .. NTICK /\ period[t] >= NTICK
              /\ age[t] + lefttick[t] <= period[t] + NTICK - 1
              /\ age[t] + lefttick[t] > period[t] - 1
          BY <4>1, <4>2, <3>1 DEF Descends, TimerInv
        <5>3. Dist(slot[t])' \in Int /\ Dist(slot[t])' <= lefttick[t] - NTICK
              /\ Dist(slot[t])' >= lefttick[t] - 2 * NTICK
          BY <2>5, <4>1, <5>1, <5>2 DEF Wrap, Dist
        <5>4. slot'[t] \in 0 .. NTICK - 1
          BY <4>1, <5>1, <5>2 DEF Wrap
        <5>5. period'[t] = period[t]
          BY <2>3
        <5>6. TimerInv(t)'
          BY <4>1, <5>1, <5>2, <5>3, <5>5 DEF TimerInv
        <5> QED BY <4>1, <5>1, <5>4, <5>6
      <4>3. CASE where[t] = "above" /\ ~Descends(t)
        <5>1. where'[t] = "above" /\ slot'[t] = slot[t]
              /\ lefttick'[t] = lefttick[t] - NTICK /\ age'[t] = age[t] + 1
          BY <2>3, <3>2, <4>3
        <5>2. lefttick[t] - NTICK > NTICK
          BY <4>1, <4>3 DEF Descends
        <5> QED BY <2>3, <2>5, <3>1, <4>1, <4>3, <5>1, <5>2 DEF TimerInv
      <4>4. CASE where[t] = "below"
        <5>1. where'[t] = "below" /\ slot'[t] = slot[t] /\ age'[t] = age[t] + 1
              /\ lefttick'[t] = lefttick[t]
          BY <2>3, <3>2, <4>4 DEF Descends
        <5> QED BY <2>1, <2>3, <2>5, <3>1, <4>1, <4>4, <5>1 DEF TimerInv, Dist
      <4>5. CASE where[t] = "off"
        BY <3>2, <4>1, <4>5 DEF Descends, TimerInv
      <4> QED BY <4>2, <4>3, <4>4, <4>5 DEF IInv, TypeOK
    <3>4. TypeOK'
      <4>1. age' \in [Timer -> Nat]
        BY <2>3 DEF IInv, TypeOK
      <4>2. lefttick' \in [Timer -> Int] /\ slot' \in [Timer -> 0 .. NTICK - 1]
            /\ where' \in [Timer -> {"off", "below", "above"}]
        BY <3>2, <3>3
      <4> QED BY <2>2, <2>3, <4>1, <4>2 DEF IInv, TypeOK
    <3> QED BY <3>3, <3>4 DEF IInv
  <2> QED BY <2>4, <2>5
<1> QED BY <1>1, <1>2, <1>3, <1>4 DEF Next

\* Slots, places and ages keep their types.
THEOREM TypeCorrect == Spec => []TypeOK
<1>1. IInv => TypeOK
  BY DEF IInv
<1> QED BY <1>1, InitOK, NextOK, PTL DEF Spec

\* However long its period and however often the wheel turns, a timer is never
\* called later than its period says; one shorter than the wheel is called in
\* exactly its tick, and a long one less than two turns early.
THEOREM FiresOnTimeCorrect == Spec => []FiresOnTime
<1>1. IInv => NeverLate
  BY TimerAssumption DEF IInv, TypeOK, TimerInv, Dist, NeverLate
<1>2. IInv => ShortTimerExact
  BY TimerAssumption DEF IInv, TypeOK, TimerInv, Dist, ShortTimerExact, Due
<1>3. IInv => EarlyByLessThanTwoTurns
  BY TimerAssumption DEF IInv, TypeOK, TimerInv, Dist, EarlyByLessThanTwoTurns, Due
<1>4. IInv => FiresOnTime
  BY <1>1, <1>2, <1>3 DEF FiresOnTime
<1> QED BY <1>4, InitOK, NextOK, PTL DEF Spec

----------------------------------------------------------------------------
(* Software interrupts. *)

\* OneHandler is inductive as it stands: a doing bit is set by the step that
\* enters the handler and cleared by the one that leaves it, and no interrupt
\* that arrives in between runs rettouser, since it did not interrupt user code.
LEMMA OneHandlerStep == OneHandler /\ [SoftNext]_softvars => OneHandler'
<1> SUFFICES ASSUME OneHandler, [SoftNext]_softvars PROVE OneHandler'
  OBVIOUS
<1> USE DEF OneHandler
<1>1. ASSUME NEW r, Irq(r) PROVE OneHandler'
  BY <1>1 DEF Irq, ReturnTail
<1>2. CASE Syscall \/ SyscallReturn \/ Prempt
  BY <1>2 DEF Syscall, SyscallReturn, Prempt
<1>3. CASE DosoftirqNone \/ Dosoftirq \/ DosoftirqEnd
  BY <1>3 DEF DosoftirqNone, Dosoftirq, DosoftirqEnd
<1>4. CASE Skip \/ Test
  BY <1>4 DEF Skip, Test
<1>5. CASE Take
  BY <1>5 DEF Take
<1>6. CASE HandlerSti
  BY <1>6 DEF HandlerSti
<1>7. CASE HandlerReturn
  BY <1>7 DEF HandlerReturn
<1>8. CASE UNCHANGED softvars
  BY <1>8 DEF softvars
<1> QED BY <1>1, <1>2, <1>3, <1>4, <1>5, <1>6, <1>7, <1>8 DEF SoftNext

\* dosoftirq's note 3, for any number of slots, any build and any interrupts: no
\* handler of a soft interrupt is entered before the one that runs has returned.
THEOREM OneHandlerCorrect == SoftSpec => []OneHandler
<1>1. SoftInit => OneHandler
  BY DEF SoftInit, OneHandler
<1> QED BY <1>1, OneHandlerStep, PTL DEF SoftSpec

----------------------------------------------------------------------------
(* Packets.  What the runs check of them is not inductive.  HostOK adds    *)
(* the types; that all the ARP entries are in the list of their use, so    *)
(* that there is one to take; that a resolved entry has the hardware       *)
(* address its neighbour has, and only IP's packets wait for one; and that *)
(* ARP packets on their way in tell the truth.  A handler holds a packet   *)
(* that is in no queue (InHand) and leaves alone what it does not work on  *)
(* (Kept): the lemmas follow the handlers' calls of each other.            *)

Entry == 1 .. NARP
ArpentRec ==
  [stat : {"inval", "waiting", "resolved"}, praddr : Addr, hw : HwAddr, q : Seq(Pkt),
   nrexmit : Nat, timer : BOOLEAN]
SockRec == [id : USock, laddr : Addr, lport : Port, faddr : Addr]
HostRec ==
  [pk : [Pkt -> PktRec \cup {None}], panicked : BOOLEAN, backlog : Seq(Pkt),
   arp : [Entry -> ArpentRec], lru : Seq(Entry),
   txq : Seq(Pkt), txp : PktRec \cup {None}, ring : Seq(Frames), flags : SUBSET {"prx", "ptx"},
   left : Nat, routes : Seq(RouteRec), socks : Seq(SockRec), recvq : [USock -> Seq(Pkt)]]

\* All the entries are in the list of their use.
Listed(x) == \A e \in Entry : \E i \in DOMAIN x.lru : x.lru[i] = e
Placed(x) ==
  \A k \in Place : \A i \in DOMAIN Queue(x, k) :
    /\ x.pk[Queue(x, k)[i]] # None
    /\ \A l \in Place : \A j \in DOMAIN Queue(x, l) :
         Queue(x, k)[i] = Queue(x, l)[j] => k = l /\ i = j
\* An entry's packets are IP's and wait for its own address, which is resolved to
\* what the neighbour with that address told.
EntryOK(x, e) ==
  /\ \A i \in DOMAIN x.arp[e].q :
       /\ x.arp[e].stat # "inval"
       /\ x.pk[x.arp[e].q[i]].type = "ip"
       /\ x.pk[x.arp[e].q[i]].hop = x.arp[e].praddr
  /\ x.arp[e].stat = "resolved" => x.arp[e].hw = HwOf[x.arp[e].praddr]
OneEntry(x) ==
  \A e, f \in Entry :
    /\ x.arp[e].stat # "inval" /\ x.arp[f].stat # "inval"
    /\ x.arp[e].praddr = x.arp[f].praddr
    => e = f
RightHw(r) == r.type = "ip" => r.hw = HwOf[r.hop]
Outgoing(x) == (\A i \in DOMAIN x.txq : RightHw(x.pk[x.txq[i]])) /\ RightHw(x.txp)
Tells(r) == r.type = "arp" /\ r.op # "odd" => r.spa \in DOMAIN HwOf /\ r.sha = HwOf[r.spa]
Incoming(x) == \A i \in DOMAIN x.backlog : Tells(x.pk[x.backlog[i]])

HostOK(x) ==
  /\ x \in HostRec /\ Listed(x) /\ Placed(x)
  /\ (\A e \in Entry : EntryOK(x, e)) /\ OneEntry(x)
  /\ Outgoing(x) /\ Incoming(x)

\* A packet that a handler has taken out of the queues.
NotIn(x, p) == \A k \in Place : \A i \in DOMAIN Queue(x, k) : Queue(x, k)[i] # p
InHand(x, p) == p \in Pkt /\ x.pk[p] # None /\ NotIn(x, p)

\* What a handler that works on the packets P leaves alone.
Kept(x, y, P) ==
  /\ y.recvq = x.recvq /\ y.panicked = x.panicked /\ y.ring = x.ring /\ y.left = x.left
  /\ \A q \in Pkt \ P : InHand(x, q) => InHand(y, q) /\ y.pk[q] = x.pk[q]

----------------------------------------------------------------------------
(* Queues. *)

LEMMA MinIs ==
  ASSUME NEW S \in SUBSET Nat, S # {}
  PROVE  Min(S) \in S /\ \A y \in S : Min(S) <= y
<1> DEFINE R == {ss \in Nat \X Nat : ss[1] < ss[2]}
<1>1. IsWellFoundedOn(R, Nat)
  BY NatLessThanWellFounded DEF OpToRel
<1>2. \E x \in S : \A y \in S : ~ (<<y, x>> \in R)
  <2> HIDE DEF R
  <2> QED BY <1>1, WFMin
<1>3. PICK x \in S : \A y \in S : ~ (<<y, x>> \in R)
  BY <1>2
<1>4. ASSUME NEW y \in S PROVE x <= y
  <2>1. ~(<<y, x>>[1] < <<y, x>>[2])
    BY <1>3
  <2>2. x \in Nat /\ y \in Nat
    OBVIOUS
  <2> QED BY <2>1, <2>2
<1> QED BY <1>4 DEF Min

LEMMA RemoveAtIs ==
  ASSUME NEW S, NEW l \in Seq(S), NEW k \in 1 .. Len(l)
  PROVE  /\ RemoveAt(l, k) \in Seq(S)
         /\ Len(RemoveAt(l, k)) = Len(l) - 1
         /\ DOMAIN RemoveAt(l, k) = 1 .. Len(RemoveAt(l, k))
         /\ \A i \in 1 .. Len(RemoveAt(l, k)) : RemoveAt(l, k)[i] = IF i < k THEN l[i] ELSE l[i + 1]
<1>1. PICK n \in Nat : n = Len(l)
  OBVIOUS
<1>2. k \in 1 .. n /\ \A i \in 1 .. n : l[i] \in S
  BY <1>1
<1>3. \A i \in k + 1 .. n : l[i] \in S
  BY <1>2
<1>4. /\ SubSeq(l, k + 1, n) \in Seq(S)
      /\ Len(SubSeq(l, k + 1, n)) = IF k + 1 <= n THEN n - (k + 1) + 1 ELSE 0
      /\ \A i \in 1 .. n - (k + 1) + 1 : SubSeq(l, k + 1, n)[i] = l[k + 1 + i - 1]
  BY <1>2, <1>3, SubSeqProperties
<1>5. PICK b \in Seq(S) : b = SubSeq(l, k + 1, n)
  BY <1>4
<1>6. Len(b) = n - k
  BY <1>2, <1>4, <1>5
<1>7. ASSUME NEW i \in 1 .. n - k PROVE b[i] = l[i + k]
  <2>1. i \in 1 .. n - (k + 1) + 1 /\ k + 1 + i - 1 = i + k
    BY <1>2
  <2> QED BY <1>4, <1>5, <2>1
<1>8. \A i \in 1 .. k - 1 : l[i] \in S
  BY <1>2
<1>9. /\ SubSeq(l, 1, k - 1) \in Seq(S)
      /\ Len(SubSeq(l, 1, k - 1)) = k - 1
      /\ \A i \in 1 .. k - 1 : SubSeq(l, 1, k - 1)[i] = l[i]
  BY <1>2, <1>8
<1>10. PICK a \in Seq(S) : a = SubSeq(l, 1, k - 1)
  BY <1>9
<1>11. Len(a) = k - 1 /\ \A i \in 1 .. k - 1 : a[i] = l[i]
  BY <1>9, <1>10
<1>12. a \o b \in Seq(S) /\ Len(a \o b) = n - 1
  BY <1>2, <1>6, <1>11
<1>13. ASSUME NEW i \in 1 .. n - 1
       PROVE  (a \o b)[i] = IF i < k THEN l[i] ELSE l[i + 1]
  <2>1. CASE i < k
    <3>1. (a \o b)[i] = a[i]
      BY <1>2, <1>6, <1>11, <2>1
    <3> QED BY <1>2, <1>11, <2>1, <3>1
  <2>2. CASE ~(i < k)
    <3>1. (a \o b)[i] = b[i - (k - 1)]
      BY <1>2, <1>6, <1>11, <2>2
    <3>2. i - (k - 1) \in 1 .. n - k /\ (i - (k - 1)) + k = i + 1
      BY <1>2, <2>2
    <3> QED BY <1>7, <2>2, <3>1, <3>2
  <2> QED BY <2>1, <2>2
<1>14. RemoveAt(l, k) = a \o b
  BY <1>1, <1>5, <1>10 DEF RemoveAt
<1>15. DOMAIN (a \o b) = 1 .. Len(a \o b)
  OBVIOUS
<1> QED BY <1>1, <1>12, <1>13, <1>14, <1>15

LEMMA Places ==
  /\ <<"backlog", 0>> \in Place /\ <<"txq", 0>> \in Place
  /\ \A e \in Entry : <<"arp", e>> \in Place
  /\ \A v \in USock : <<"recv", v>> \in Place
  /\ \A k \in Place : \/ k = <<"backlog", 0>> \/ k = <<"txq", 0>>
                      \/ \E e \in Entry : k = <<"arp", e>>
                      \/ \E v \in USock : k = <<"recv", v>>
  BY DEF Place, Entry

LEMMA QueueIs ==
  ASSUME NEW x
  PROVE  /\ Queue(x, <<"backlog", 0>>) = x.backlog
         /\ Queue(x, <<"txq", 0>>) = x.txq
         /\ \A e \in Entry : Queue(x, <<"arp", e>>) = x.arp[e].q
         /\ \A v \in USock : Queue(x, <<"recv", v>>) = x.recvq[v]
  BY DEF Queue

LEMMA QueueSeq ==
  ASSUME NEW x \in HostRec, NEW k \in Place
  PROVE  /\ Queue(x, k) \in Seq(Pkt)
         /\ DOMAIN Queue(x, k) = 1 .. Len(Queue(x, k)) /\ Len(Queue(x, k)) \in Nat
         /\ \A i \in DOMAIN Queue(x, k) : Queue(x, k)[i] \in Pkt
<1>1. x.backlog \in Seq(Pkt) /\ x.txq \in Seq(Pkt)
  BY DEF HostRec
<1>2. \A e \in Entry : x.arp[e].q \in Seq(Pkt)
  BY DEF HostRec, ArpentRec
<1>3. \A v \in USock : x.recvq[v] \in Seq(Pkt)
  BY DEF HostRec
<1>4. Queue(x, k) \in Seq(Pkt)
  BY <1>1, <1>2, <1>3, Places, QueueIs
<1> QED BY <1>4

LEMMA UnusedNotIn ==
  ASSUME NEW x, Placed(x), NEW p, x.pk[p] = None
  PROVE  NotIn(x, p)
  BY DEF Placed, NotIn

LEMMA PlacedSame ==
  ASSUME NEW x, NEW y, Placed(x), \A k \in Place : Queue(y, k) = Queue(x, k),
         \A q : ~NotIn(x, q) => y.pk[q] # None
  PROVE  Placed(y) /\ \A q : NotIn(y, q) <=> NotIn(x, q)
<1>1. \A q : NotIn(y, q) <=> NotIn(x, q)
  BY DEF NotIn
<1>2. ASSUME NEW k \in Place, NEW i \in DOMAIN Queue(y, k)
      PROVE  y.pk[Queue(y, k)[i]] # None
  <2>1. ~NotIn(x, Queue(y, k)[i])
    BY <1>2 DEF NotIn
  <2> QED BY <2>1
<1> QED BY <1>1, <1>2 DEF Placed

LEMMA PlacedAppend ==
  ASSUME NEW x \in HostRec, NEW y, Placed(x), NEW k \in Place, NEW p \in Pkt, NotIn(x, p),
         Queue(y, k) = Append(Queue(x, k), p),
         \A l \in Place \ {k} : Queue(y, l) = Queue(x, l),
         \A q : ~NotIn(x, q) => y.pk[q] # None, y.pk[p] # None
  PROVE  Placed(y) /\ \A q : NotIn(y, q) <=> NotIn(x, q) /\ q # p
<1> DEFINE n == Len(Queue(x, k))
<1>1. /\ n \in Nat /\ DOMAIN Queue(y, k) = 1 .. n + 1 /\ DOMAIN Queue(x, k) = 1 .. n
      /\ Queue(y, k)[n + 1] = p /\ \A i \in 1 .. n : Queue(y, k)[i] = Queue(x, k)[i]
  BY QueueSeq, AppendProperties
<1> HIDE DEF n
<1>2. \A l \in Place : \A i \in DOMAIN Queue(y, l) :
        \/ l = k /\ i = n + 1 /\ Queue(y, l)[i] = p
        \/ i \in DOMAIN Queue(x, l) /\ Queue(y, l)[i] = Queue(x, l)[i]
  BY <1>1
<1>3. \A l \in Place : \A i \in DOMAIN Queue(x, l) :
        i \in DOMAIN Queue(y, l) /\ Queue(y, l)[i] = Queue(x, l)[i]
  BY <1>1
<1>4. \A q : NotIn(y, q) <=> NotIn(x, q) /\ q # p
  <2> SUFFICES ASSUME NEW q PROVE NotIn(y, q) <=> NotIn(x, q) /\ q # p
    OBVIOUS
  <2>1. NotIn(x, q) /\ q # p => NotIn(y, q)
    BY <1>2 DEF NotIn
  <2>2. NotIn(y, q) => NotIn(x, q)
    BY <1>3 DEF NotIn
  <2>3. NotIn(y, q) => q # p
    BY <1>1 DEF NotIn
  <2> QED BY <2>1, <2>2, <2>3
<1>5. \A l \in Place : \A i \in DOMAIN Queue(x, l) : Queue(x, l)[i] # p
  BY DEF NotIn
<1>6. ASSUME NEW l \in Place, NEW i \in DOMAIN Queue(y, l)
      PROVE  y.pk[Queue(y, l)[i]] # None
  <2>1. ~NotIn(y, Queue(y, l)[i])
    BY <1>6 DEF NotIn
  <2> QED BY <2>1, <1>4
<1>7. ASSUME NEW l \in Place, NEW i \in DOMAIN Queue(y, l),
             NEW m \in Place, NEW j \in DOMAIN Queue(y, m), Queue(y, l)[i] = Queue(y, m)[j]
      PROVE  l = m /\ i = j
  BY <1>2, <1>5, <1>7 DEF Placed
<1> QED BY <1>4, <1>6, <1>7 DEF Placed

LEMMA PlacedTail ==
  ASSUME NEW x \in HostRec, NEW y, Placed(x), NEW k \in Place, Queue(x, k) # << >>,
         Queue(y, k) = Tail(Queue(x, k)),
         \A l \in Place \ {k} : Queue(y, l) = Queue(x, l),
         \A q : ~NotIn(x, q) => y.pk[q] # None \/ q = Head(Queue(x, k))
  PROVE  /\ Placed(y) /\ NotIn(y, Head(Queue(x, k))) /\ Head(Queue(x, k)) \in Pkt
         /\ ~NotIn(x, Head(Queue(x, k))) /\ \A q : NotIn(x, q) => NotIn(y, q)
<1> DEFINE n == Len(Queue(x, k))
           h == Head(Queue(x, k))
<1>1. /\ n \in Nat \ {0} /\ DOMAIN Queue(y, k) = 1 .. n - 1 /\ DOMAIN Queue(x, k) = 1 .. n
      /\ Queue(x, k)[1] = h /\ \A i \in 1 .. n - 1 : Queue(y, k)[i] = Queue(x, k)[i + 1]
  BY QueueSeq, HeadTailProperties
<1> HIDE DEF n, h
<1>2. \A l \in Place : \A i \in DOMAIN Queue(y, l) :
        \/ l = k /\ i \in 1 .. n - 1 /\ i + 1 \in DOMAIN Queue(x, l) /\ Queue(y, l)[i] = Queue(x, l)[i + 1]
        \/ l # k /\ i \in DOMAIN Queue(x, l) /\ Queue(y, l)[i] = Queue(x, l)[i]
  BY <1>1
<1>3. \A q : NotIn(x, q) => NotIn(y, q)
  BY <1>2 DEF NotIn
<1>4. h \in Pkt /\ ~NotIn(x, h)
  BY <1>1, QueueSeq DEF NotIn
<1>5. ASSUME NEW l \in Place, NEW i \in DOMAIN Queue(y, l)
      PROVE  Queue(y, l)[i] # h
  <2>1. 1 \in DOMAIN Queue(x, k) /\ Queue(x, k)[1] = h
    BY <1>1
  <2>2. CASE l = k
    <3>1. i \in 1 .. n - 1 /\ i + 1 \in DOMAIN Queue(x, l) /\ Queue(y, l)[i] = Queue(x, l)[i + 1]
      BY <1>2, <2>2
    <3>2. i + 1 # 1
      BY <3>1, <1>1
    <3> QED BY <3>1, <3>2, <2>1, <2>2 DEF Placed
  <2>3. CASE l # k
    BY <1>2, <2>1, <2>3 DEF Placed
  <2> QED BY <2>2, <2>3
<1>6. NotIn(y, h)
  BY <1>5 DEF NotIn
<1>7. ASSUME NEW l \in Place, NEW i \in DOMAIN Queue(y, l)
      PROVE  y.pk[Queue(y, l)[i]] # None
  <2>1. ~NotIn(y, Queue(y, l)[i])
    BY <1>7 DEF NotIn
  <2> QED BY <2>1, <1>3, <1>5 DEF h
<1>8. ASSUME NEW l \in Place, NEW i \in DOMAIN Queue(y, l),
             NEW m \in Place, NEW j \in DOMAIN Queue(y, m), Queue(y, l)[i] = Queue(y, m)[j]
      PROVE  l = m /\ i = j
  <2>1. i \in Nat /\ j \in Nat
    <3>1. \A z \in Place \ {k} : DOMAIN Queue(x, z) = 1 .. Len(Queue(x, z)) /\ Len(Queue(x, z)) \in Nat
      BY QueueSeq
    <3> QED BY <1>1, <3>1, <1>8
  <2>2. CASE l = k /\ m = k
    <3>1. i + 1 = j + 1
      BY <1>2, <1>8, <2>2 DEF Placed
    <3> QED BY <3>1, <2>1, <2>2
  <2>3. CASE l # k \/ m # k
    BY <1>2, <1>8, <2>3 DEF Placed
  <2> QED BY <2>2, <2>3
<1>9. Head(Queue(x, k)) = h
  BY DEF h
<1> QED BY <1>3, <1>4, <1>6, <1>7, <1>8, <1>9 DEF Placed

LEMMA PlacedEmptied ==
  ASSUME NEW x \in HostRec, NEW y, Placed(x), NEW k \in Place, Queue(y, k) = << >>,
         \A l \in Place \ {k} : Queue(y, l) = Queue(x, l),
         \A q : ~NotIn(x, q) /\ q \notin ToSet(Queue(x, k)) => y.pk[q] # None
  PROVE  /\ Placed(y) /\ \A q : NotIn(x, q) => NotIn(y, q)
         /\ \A q \in ToSet(Queue(x, k)) : NotIn(y, q)
<1>1. \A l \in Place : \A i \in DOMAIN Queue(y, l) :
        l # k /\ i \in DOMAIN Queue(x, l) /\ Queue(y, l)[i] = Queue(x, l)[i]
  OBVIOUS
<1>2. \A q : NotIn(x, q) => NotIn(y, q)
  BY <1>1 DEF NotIn
<1>3. \A q \in ToSet(Queue(x, k)) : NotIn(y, q)
  BY <1>1 DEF NotIn, ToSet, Placed
<1>4. ASSUME NEW l \in Place, NEW i \in DOMAIN Queue(y, l)
      PROVE  y.pk[Queue(y, l)[i]] # None
  <2>1. ~NotIn(y, Queue(y, l)[i])
    BY <1>4 DEF NotIn
  <2> QED BY <2>1, <1>2, <1>3
<1> QED BY <1>1, <1>2, <1>3, <1>4 DEF Placed

\* Queue k is emptied, and its packets, or all of them but the first, are
\* appended to queue l.
LEMMA PlacedMoved ==
  ASSUME NEW x \in HostRec, NEW y, Placed(x), NEW k \in Place, NEW l \in Place, k # l,
         NEW d \in {0, 1}, Queue(y, k) = << >>,
         \A m \in Place \ {k, l} : Queue(y, m) = Queue(x, m),
         NEW n \in Nat, DOMAIN Queue(x, l) = 1 .. n,
         \A i \in DOMAIN Queue(y, l) :
           \/ i \in 1 .. n /\ Queue(y, l)[i] = Queue(x, l)[i]
           \/ /\ i \in Nat /\ i > n /\ i - n + d \in DOMAIN Queue(x, k)
              /\ Queue(y, l)[i] = Queue(x, k)[i - n + d],
         \A q : ~NotIn(y, q) => y.pk[q] # None
  PROVE  Placed(y) /\ \A q : NotIn(x, q) => NotIn(y, q)
<1>1. \A m \in Place : \A i \in DOMAIN Queue(y, m) :
        \/ m # k /\ i \in DOMAIN Queue(x, m) /\ Queue(y, m)[i] = Queue(x, m)[i]
        \/ /\ m = l /\ i \in Nat /\ i > n /\ i - n + d \in DOMAIN Queue(x, k)
           /\ Queue(y, m)[i] = Queue(x, k)[i - n + d]
  OBVIOUS
<1>2. \A q : NotIn(x, q) => NotIn(y, q)
  BY <1>1 DEF NotIn
<1>3. ASSUME NEW m \in Place, NEW i \in DOMAIN Queue(y, m)
      PROVE  y.pk[Queue(y, m)[i]] # None
  <2>1. ~NotIn(y, Queue(y, m)[i])
    BY <1>3 DEF NotIn
  <2> QED BY <2>1
<1>4. ASSUME NEW m \in Place, NEW i \in DOMAIN Queue(y, m),
             NEW o \in Place, NEW j \in DOMAIN Queue(y, o), Queue(y, m)[i] = Queue(y, o)[j]
      PROVE  m = o /\ i = j
  <2>1. CASE /\ m # k /\ i \in DOMAIN Queue(x, m) /\ Queue(y, m)[i] = Queue(x, m)[i]
             /\ o # k /\ j \in DOMAIN Queue(x, o) /\ Queue(y, o)[j] = Queue(x, o)[j]
    <3>1. Queue(x, m)[i] = Queue(x, o)[j]
      BY <1>4, <2>1
    <3>2. /\ i \in DOMAIN Queue(x, m) /\ j \in DOMAIN Queue(x, o)
      BY <2>1
    <3> HIDE <2>1
    <3> QED BY <3>1, <3>2 DEF Placed
  <2>2. CASE /\ m # k /\ i \in DOMAIN Queue(x, m) /\ Queue(y, m)[i] = Queue(x, m)[i]
             /\ j - n + d \in DOMAIN Queue(x, k) /\ Queue(y, o)[j] = Queue(x, k)[j - n + d]
    <3>1. PICK z \in DOMAIN Queue(x, k) : z = j - n + d
      BY <2>2
    <3>2. Queue(x, m)[i] = Queue(x, k)[z] /\ i \in DOMAIN Queue(x, m)
      BY <1>4, <2>2, <3>1
    <3> QED BY <2>2, <3>2 DEF Placed
  <2>3. CASE /\ i - n + d \in DOMAIN Queue(x, k) /\ Queue(y, m)[i] = Queue(x, k)[i - n + d]
             /\ o # k /\ j \in DOMAIN Queue(x, o) /\ Queue(y, o)[j] = Queue(x, o)[j]
    <3>1. PICK z \in DOMAIN Queue(x, k) : z = i - n + d
      BY <2>3
    <3>2. Queue(x, o)[j] = Queue(x, k)[z] /\ j \in DOMAIN Queue(x, o)
      BY <1>4, <2>3, <3>1
    <3> QED BY <2>3, <3>2 DEF Placed
  <2>4. CASE /\ m = l /\ i \in Nat /\ i - n + d \in DOMAIN Queue(x, k) /\ Queue(y, m)[i] = Queue(x, k)[i - n + d]
             /\ o = l /\ j \in Nat /\ j - n + d \in DOMAIN Queue(x, k) /\ Queue(y, o)[j] = Queue(x, k)[j - n + d]
    <3>1. i - n + d = j - n + d
      BY <1>4, <2>4 DEF Placed
    <3> QED BY <2>4, <3>1
  <2> QED BY <1>1, <2>1, <2>2, <2>3, <2>4
<1> QED BY <1>2, <1>3, <1>4 DEF Placed

LEMMA KeptTrans ==
  ASSUME NEW x, NEW y, NEW z, NEW P, NEW Q, Kept(x, y, P), Kept(y, z, Q)
  PROVE  Kept(x, z, P \cup Q)
  BY DEF Kept

----------------------------------------------------------------------------
(* Packets. *)

LEMMA PktTypes ==
  /\ \A r \in PktRec : r # None /\ r.type \in {"ip", "arp", "unknown"}
  /\ None.type = "none"
<1>1. \A r \in PktRec : r.type \in {"ip", "arp", "unknown"}
  BY DEF PktRec, IpRec, ArpRec, Unknown
<1>2. None.type = "none"
  BY DEF None
<1> QED BY <1>1, <1>2

LEMMA SetPk ==
  ASSUME NEW x, HostOK(x), NEW p \in Pkt, NotIn(x, p), NEW r \in PktRec \cup {None}
  PROVE  /\ HostOK(Made(x, p, r)) /\ Made(x, p, r).pk[p] = r
         /\ \A q \in Pkt \ {p} : Made(x, p, r).pk[q] = x.pk[q]
         /\ Kept(x, Made(x, p, r), {p}) /\ NotIn(Made(x, p, r), p)
         /\ Made(x, p, r).arp = x.arp /\ Made(x, p, r).lru = x.lru
         /\ Made(x, p, r).routes = x.routes
<1> DEFINE y == Made(x, p, r)
<1>1. x \in HostRec
  BY DEF HostOK
<1>2. /\ y.panicked = x.panicked /\ y.ring = x.ring /\ y.left = x.left /\ y.backlog = x.backlog /\ y.arp = x.arp /\ y.lru = x.lru
      /\ y.txq = x.txq /\ y.txp = x.txp /\ y.recvq = x.recvq /\ y.routes = x.routes
      /\ y.pk = [x.pk EXCEPT ![p] = r]
  BY <1>1 DEF HostRec, Made
<1>3. y \in HostRec
  BY <1>1 DEF HostRec, Made
<1> HIDE DEF y
<1>4. x.pk \in [Pkt -> PktRec \cup {None}]
  BY <1>1 DEF HostRec
<1>5. y.pk[p] = r /\ \A q : q # p => y.pk[q] = x.pk[q]
  BY <1>2, <1>4
<1>6. \A k \in Place : Queue(y, k) = Queue(x, k)
  BY <1>2 DEF Queue
<1>7. \A k \in Place : \A i \in DOMAIN Queue(x, k) : Queue(x, k)[i] # p
  BY DEF NotIn
<1>8. \A q : ~NotIn(x, q) => y.pk[q] # None
  BY <1>5 DEF NotIn, HostOK, Placed
<1>9. Placed(y) /\ \A q : NotIn(y, q) <=> NotIn(x, q)
  BY <1>6, <1>8, PlacedSame DEF HostOK
<1>10. Listed(y) /\ OneEntry(y)
  BY <1>2 DEF HostOK, Listed, OneEntry
<1>11. ASSUME NEW e \in Entry PROVE EntryOK(y, e)
  <2>1. \A i \in DOMAIN x.arp[e].q : x.arp[e].q[i] # p
    <3>1. <<"arp", e>> \in Place /\ Queue(x, <<"arp", e>>) = x.arp[e].q
      BY Places, QueueIs
    <3> QED BY <1>7, <3>1
  <2> QED BY <1>2, <1>5, <2>1 DEF HostOK, EntryOK
<1>12. Outgoing(y)
  <2>1. \A i \in DOMAIN x.txq : x.txq[i] # p
    BY <1>7, Places, QueueIs
  <2> QED BY <1>2, <1>5, <2>1 DEF HostOK, Outgoing
<1>13. Incoming(y)
  <2>1. \A i \in DOMAIN x.backlog : x.backlog[i] # p
    BY <1>7, Places, QueueIs
  <2> QED BY <1>2, <1>5, <2>1 DEF HostOK, Incoming
<1>14. Kept(x, y, {p})
  BY <1>2, <1>5, <1>9 DEF Kept, InHand
<1> QED BY <1>2, <1>3, <1>5, <1>9, <1>10, <1>11, <1>12, <1>13, <1>14 DEF HostOK, y

LEMMA DelIs ==
  ASSUME NEW x, HostOK(x), NEW p, InHand(x, p)
  PROVE  HostOK(delpkt(x, p)) /\ Kept(x, delpkt(x, p), {p})
<1>1. delpkt(x, p) = Made(x, p, None)
  BY DEF delpkt, InHand, Made
<1>2. p \in Pkt /\ NotIn(x, p) /\ None \in PktRec \cup {None}
  BY DEF InHand
<1>3. HostOK(Made(x, p, None)) /\ Kept(x, Made(x, p, None), {p})
  BY <1>2, SetPk
<1> QED BY <1>1, <1>3

LEMMA MadeIs ==
  ASSUME NEW x, HostOK(x), Unused(x) # {}, NEW r \in PktRec
  PROVE  LET p == newpkt(x)
             y == Made(x, p, r)
         IN  /\ p \in Unused(x) /\ p \in Pkt
             /\ HostOK(y) /\ InHand(y, p) /\ y.pk[p] = r /\ \A q \in Pkt \ {p} : y.pk[q] = x.pk[q]
             /\ Kept(x, y, {p}) /\ y.routes = x.routes /\ y.arp = x.arp
<1>1. PICK p \in Pkt : p = newpkt(x) /\ x.pk[p] = None
  BY DEF newpkt, Unused
<1>2. PICK y : y = Made(x, p, r)
  OBVIOUS
<1>3. NotIn(x, p)
  BY <1>1, UnusedNotIn DEF HostOK
<1>4. p \in Unused(x)
  BY <1>1 DEF Unused
<1>5. r \in PktRec \cup {None} /\ r # None
  BY PktTypes
<1>6. /\ HostOK(y) /\ y.pk[p] = r /\ Kept(x, y, {p}) /\ NotIn(y, p)
      /\ \A q \in Pkt \ {p} : y.pk[q] = x.pk[q]
      /\ y.routes = x.routes /\ y.arp = x.arp
  <2>1. r \in PktRec \cup {None}
    BY <1>5
  <2>2. /\ HostOK(y) /\ y.pk[p] = r /\ Kept(x, y, {p}) /\ NotIn(y, p)
        /\ y.routes = x.routes /\ y.arp = x.arp
    BY <1>2, <1>3, <2>1, SetPk, SMTT(40)
  <2>3. \A q \in Pkt \ {p} : y.pk[q] = x.pk[q]
    BY <1>2, <1>3, <2>1, SetPk
  <2> QED BY <2>2, <2>3
<1>7. InHand(y, p)
  BY <1>5, <1>6 DEF InHand
<1> QED BY <1>1, <1>2, <1>4, <1>6, <1>7

----------------------------------------------------------------------------
(* The devices. *)

LEMMA InputIs ==
  ASSUME NEW x, HostOK(x), NEW p, InHand(x, p), Tells(x.pk[p]), NEW lost \in BOOLEAN
  PROVE  HostOK(DevInput(x, p, lost)) /\ Kept(x, DevInput(x, p, lost), {p})
<1>1. CASE lost
  <2>1. DevInput(x, p, lost) = Made(x, p, None)
    BY <1>1 DEF DevInput, Made
  <2>2. p \in Pkt /\ NotIn(x, p) /\ None \in PktRec \cup {None}
    BY DEF InHand
  <2>3. HostOK(Made(x, p, None)) /\ Kept(x, Made(x, p, None), {p})
    BY <2>2, SetPk
  <2> QED BY <2>1, <2>3
<1>2. CASE ~lost
  <2> DEFINE y == [x EXCEPT !.backlog = Append(@, p)]
  <2>1. DevInput(x, p, lost) = y
    BY <1>2 DEF DevInput
  <2>2. x \in HostRec /\ p \in Pkt
    BY DEF HostOK, InHand
  <2>3. /\ y.panicked = x.panicked /\ y.ring = x.ring /\ y.left = x.left /\ y.pk = x.pk /\ y.arp = x.arp /\ y.lru = x.lru
        /\ y.txq = x.txq /\ y.txp = x.txp /\ y.recvq = x.recvq /\ y.backlog = Append(x.backlog, p)
    BY <2>2 DEF HostRec
  <2>4. x.backlog \in Seq(Pkt)
    BY <2>2 DEF HostRec
  <2>5. y.backlog \in Seq(Pkt)
    BY <2>2, <2>3, <2>4
  <2>6. y \in HostRec
    BY <2>2, <2>5, <2>3 DEF HostRec
  <2> HIDE DEF y
  <2>7. Queue(y, <<"backlog", 0>>) = Append(Queue(x, <<"backlog", 0>>), p)
    BY <2>3, QueueIs
  <2>8. \A l \in Place \ {<<"backlog", 0>>} : Queue(y, l) = Queue(x, l)
    BY <2>3, QueueIs, Places
  <2>9. \A q : ~NotIn(x, q) => y.pk[q] # None
    BY <2>3 DEF HostOK, Placed, NotIn
  <2>10. Placed(y) /\ \A q : NotIn(y, q) <=> NotIn(x, q) /\ q # p
    <3>1. Placed(x) /\ NotIn(x, p) /\ y.pk[p] # None /\ <<"backlog", 0>> \in Place
      BY <2>3, Places DEF HostOK, InHand
    <3> QED BY <2>2, <2>7, <2>8, <2>9, <3>1, PlacedAppend
  <2>11. Listed(y) /\ OneEntry(y) /\ Outgoing(y) /\ \A e \in Entry : EntryOK(y, e)
    BY <2>3 DEF HostOK, Listed, OneEntry, Outgoing, EntryOK
  <2>12. Incoming(y)
    <3>1. \A i \in DOMAIN y.backlog : y.backlog[i] = p \/ (i \in DOMAIN x.backlog /\ y.backlog[i] = x.backlog[i])
      BY <2>2, <2>3, <2>4
    <3> QED BY <2>3, <3>1 DEF HostOK, Incoming
  <2>13. Kept(x, y, {p})
    BY <2>3, <2>10 DEF Kept, InHand
  <2> QED BY <2>1, <2>6, <2>10, <2>11, <2>12, <2>13 DEF HostOK
<1> QED BY <1>1, <1>2

LEMMA OutputIs ==
  ASSUME NEW x, HostOK(x), NEW p, InHand(x, p), RightHw(x.pk[p])
  PROVE  /\ HostOK(hardwareoutput(x, p)) /\ Kept(x, hardwareoutput(x, p), {p})
<1>1. x \in HostRec /\ p \in Pkt /\ x.pk \in [Pkt -> PktRec \cup {None}]
  BY DEF HostOK, InHand, HostRec
<1>2. CASE x.txp = None
  <2> DEFINE y == [x EXCEPT !.txp = x.pk[p]]
  <2>1. hardwareoutput(x, p) = delpkt(y, p)
    BY <1>2 DEF hardwareoutput
  <2>2. /\ y.panicked = x.panicked /\ y.ring = x.ring /\ y.left = x.left /\ y.pk = x.pk /\ y.arp = x.arp /\ y.lru = x.lru
        /\ y.txq = x.txq /\ y.txp = x.pk[p] /\ y.recvq = x.recvq /\ y.backlog = x.backlog
    BY <1>1 DEF HostRec
  <2>3. y \in HostRec
    BY <1>1 DEF HostRec
  <2> HIDE DEF y
  <2>4. \A l \in Place : Queue(y, l) = Queue(x, l)
    BY <2>2 DEF Queue
  <2>5. Placed(y) /\ \A q : NotIn(y, q) <=> NotIn(x, q)
    BY <2>2, <2>4 DEF HostOK, Placed, NotIn
  <2>6. Listed(y) /\ OneEntry(y) /\ Outgoing(y) /\ Incoming(y) /\ \A e \in Entry : EntryOK(y, e)
    BY <2>2 DEF HostOK, Listed, OneEntry, Outgoing, Incoming, EntryOK
  <2>7. HostOK(y) /\ InHand(y, p) /\ Kept(x, y, {p})
    BY <2>2, <2>3, <2>5, <2>6 DEF HostOK, InHand, Kept
  <2>8. HostOK(delpkt(y, p)) /\ Kept(y, delpkt(y, p), {p})
    BY <2>7, DelIs
  <2>9. Kept(x, delpkt(y, p), {p})
    BY <2>7, <2>8 DEF Kept
  <2> QED BY <2>1, <2>8, <2>9
<1>3. CASE x.txp # None
  <2> DEFINE y == [x EXCEPT !.txq = Append(@, p)]
  <2>1. hardwareoutput(x, p) = y
    BY <1>3 DEF hardwareoutput
  <2>3. /\ y.panicked = x.panicked /\ y.ring = x.ring /\ y.left = x.left /\ y.pk = x.pk /\ y.arp = x.arp /\ y.lru = x.lru
        /\ y.backlog = x.backlog /\ y.txp = x.txp /\ y.recvq = x.recvq /\ y.txq = Append(x.txq, p)
    BY <1>1 DEF HostRec
  <2>4. x.txq \in Seq(Pkt)
    BY <1>1 DEF HostRec
  <2>5. y.txq \in Seq(Pkt)
    BY <1>1, <2>3, <2>4
  <2>6. y \in HostRec
    BY <1>1, <2>5, <2>3 DEF HostRec
  <2> HIDE DEF y
  <2>7. Queue(y, <<"txq", 0>>) = Append(Queue(x, <<"txq", 0>>), p)
    BY <2>3, QueueIs
  <2>8. \A l \in Place \ {<<"txq", 0>>} : Queue(y, l) = Queue(x, l)
    BY <2>3, QueueIs, Places
  <2>9. \A q : ~NotIn(x, q) => y.pk[q] # None
    BY <2>3 DEF HostOK, Placed, NotIn
  <2>10. Placed(y) /\ \A q : NotIn(y, q) <=> NotIn(x, q) /\ q # p
    <3>1. Placed(x) /\ NotIn(x, p) /\ y.pk[p] # None /\ <<"txq", 0>> \in Place
      BY <2>3, Places DEF HostOK, InHand
    <3> QED BY <1>1, <2>7, <2>8, <2>9, <3>1, PlacedAppend
  <2>11. Listed(y) /\ OneEntry(y) /\ Incoming(y) /\ \A e \in Entry : EntryOK(y, e)
    BY <2>3 DEF HostOK, Listed, OneEntry, Incoming, EntryOK
  <2>12. Outgoing(y)
    <3>1. \A i \in DOMAIN y.txq : y.txq[i] = p \/ (i \in DOMAIN x.txq /\ y.txq[i] = x.txq[i])
      BY <1>1, <2>3, <2>4
    <3> QED BY <2>3, <3>1 DEF HostOK, Outgoing
  <2>13. Kept(x, y, {p})
    BY <2>3, <2>10 DEF Kept, InHand
  <2> QED BY <2>1, <2>6, <2>10, <2>11, <2>12, <2>13 DEF HostOK
<1> QED BY <1>2, <1>3

----------------------------------------------------------------------------
(* ARP. *)

WithEntry(x, e, r) == [x EXCEPT !.arp[e] = r]

LEMMA EntryFields ==
  ASSUME NEW x \in HostRec, NEW e \in Entry, NEW r \in ArpentRec,
         NEW y, y = WithEntry(x, e, r)
  PROVE  /\ y \in HostRec
         /\ y.panicked = x.panicked /\ y.ring = x.ring /\ y.left = x.left /\ y.backlog = x.backlog /\ y.pk = x.pk /\ y.lru = x.lru
         /\ y.txq = x.txq /\ y.txp = x.txp /\ y.recvq = x.recvq /\ y.routes = x.routes
         /\ y.arp[e] = r
         /\ \A f \in Entry \ {e} : y.arp[f] = x.arp[f]
<1>1. /\ y.panicked = x.panicked /\ y.ring = x.ring /\ y.left = x.left /\ y.backlog = x.backlog /\ y.pk = x.pk /\ y.lru = x.lru
      /\ y.txq = x.txq /\ y.txp = x.txp /\ y.recvq = x.recvq /\ y.routes = x.routes
      /\ y.arp = [x.arp EXCEPT ![e] = r]
  BY DEF WithEntry, HostRec
<1>2. y \in HostRec
  BY DEF WithEntry, HostRec
<1>3. x.arp \in [Entry -> ArpentRec]
  BY DEF HostRec
<1>4. y.arp[e] = r /\ \A f \in Entry \ {e} : y.arp[f] = x.arp[f]
  BY <1>1, <1>3
<1> QED BY <1>1, <1>2, <1>4

\* No other entry is for address a.
Alone(x, e, a) == \A f \in Entry \ {e} : x.arp[f].stat # "inval" => x.arp[f].praddr # a

\* An entry changes and keeps its packets.
LEMMA SetEntry ==
  ASSUME NEW x, HostOK(x), NEW e \in Entry, NEW r \in ArpentRec, r.q = x.arp[e].q,
         r.q # << >> => r.stat # "inval" /\ r.praddr = x.arp[e].praddr,
         r.stat = "resolved" => r.hw = HwOf[r.praddr],
         r.stat # "inval" => Alone(x, e, r.praddr)
  PROVE  HostOK(WithEntry(x, e, r)) /\ Kept(x, WithEntry(x, e, r), {})
<1>0. PICK y : y = WithEntry(x, e, r)
  OBVIOUS
<1>1. x \in HostRec
  BY DEF HostOK
<1>2. /\ y \in HostRec
      /\ y.panicked = x.panicked /\ y.ring = x.ring /\ y.left = x.left /\ y.backlog = x.backlog /\ y.pk = x.pk /\ y.lru = x.lru
      /\ y.txq = x.txq /\ y.txp = x.txp /\ y.recvq = x.recvq
      /\ y.arp[e] = r /\ \A f \in Entry \ {e} : y.arp[f] = x.arp[f]
  BY <1>0, <1>1, EntryFields
<1>3. \A k \in Place : Queue(y, k) = Queue(x, k)
  <2>1. \A f \in Entry : y.arp[f].q = x.arp[f].q
    BY <1>2
  <2> QED BY <1>2, <2>1, Places, QueueIs
<1>4. Placed(y) /\ \A q : NotIn(y, q) <=> NotIn(x, q)
  BY <1>2, <1>3 DEF HostOK, Placed, NotIn
<1>5. Listed(y) /\ Outgoing(y) /\ Incoming(y)
  BY <1>2 DEF HostOK, Listed, Outgoing, Incoming
<1>6. OneEntry(y)
  BY <1>2 DEF HostOK, OneEntry, Alone
<1>7. ASSUME NEW f \in Entry PROVE EntryOK(y, f)
  <2>1. EntryOK(x, f) /\ EntryOK(x, e)
    BY DEF HostOK
  <2>2. CASE f # e
    BY <1>2, <2>1, <2>2 DEF EntryOK
  <2>3. CASE f = e
    <3>1. \A i \in DOMAIN r.q : r.q # << >>
      OBVIOUS
    <3> QED BY <1>2, <2>1, <2>3, <3>1 DEF EntryOK
  <2> QED BY <2>2, <2>3
<1>8. Kept(x, y, {})
  BY <1>2, <1>4 DEF Kept, InHand
<1> QED BY <1>0, <1>2, <1>4, <1>5, <1>6, <1>7, <1>8 DEF HostOK

\* A packet joins an entry's queue.
LEMMA JoinEntry ==
  ASSUME NEW x, HostOK(x), NEW e \in Entry, NEW r \in ArpentRec, NEW p, InHand(x, p),
         r.q = Append(x.arp[e].q, p), x.pk[p].type = "ip", x.pk[p].hop = r.praddr,
         r.stat = "waiting", r.praddr = x.arp[e].praddr, Alone(x, e, r.praddr)
  PROVE  HostOK(WithEntry(x, e, r)) /\ Kept(x, WithEntry(x, e, r), {p})
<1>0. PICK y : y = WithEntry(x, e, r)
  OBVIOUS
<1>1. x \in HostRec /\ p \in Pkt /\ Placed(x) /\ NotIn(x, p) /\ x.pk[p] # None
  BY DEF HostOK, InHand
<1>2. /\ y \in HostRec
      /\ y.panicked = x.panicked /\ y.ring = x.ring /\ y.left = x.left /\ y.backlog = x.backlog /\ y.pk = x.pk /\ y.lru = x.lru
      /\ y.txq = x.txq /\ y.txp = x.txp /\ y.recvq = x.recvq
      /\ y.arp[e] = r /\ \A f \in Entry \ {e} : y.arp[f] = x.arp[f]
  BY <1>0, <1>1, EntryFields
<1>3. <<"arp", e>> \in Place /\ Queue(y, <<"arp", e>>) = Append(Queue(x, <<"arp", e>>), p)
  BY <1>2, Places, QueueIs
<1>4. \A l \in Place \ {<<"arp", e>>} : Queue(y, l) = Queue(x, l)
  BY <1>2, Places, QueueIs, SMTT(40)
<1>5. \A q : ~NotIn(x, q) => y.pk[q] # None
  BY <1>1, <1>2 DEF Placed, NotIn
<1>6. y.pk[p] # None
  BY <1>1, <1>2
<1>7. Placed(y) /\ \A q : NotIn(y, q) <=> NotIn(x, q) /\ q # p
  <2>1. PICK k \in Place : k = <<"arp", e>>
    BY <1>3
  <2>2. Queue(y, k) = Append(Queue(x, k), p) /\ \A l \in Place \ {k} : Queue(y, l) = Queue(x, l)
    BY <1>3, <1>4, <2>1
  <2> HIDE <2>1
  <2> QED BY <1>1, <2>2, <1>5, <1>6, PlacedAppend, SMTT(40)
<1>8. Listed(y) /\ Outgoing(y) /\ Incoming(y)
  BY <1>2 DEF HostOK, Listed, Outgoing, Incoming
<1>9. OneEntry(y)
  BY <1>2 DEF HostOK, OneEntry, Alone
<1>10. ASSUME NEW f \in Entry PROVE EntryOK(y, f)
  <2>1. EntryOK(x, f) /\ EntryOK(x, e) /\ x.arp[e].q \in Seq(Pkt)
    BY <1>1 DEF HostOK, HostRec, ArpentRec
  <2>2. CASE f # e
    BY <1>2, <2>1, <2>2 DEF EntryOK
  <2>3. CASE f = e
    <3>1. \A i \in DOMAIN r.q : r.q[i] = p \/ (i \in DOMAIN x.arp[e].q /\ r.q[i] = x.arp[e].q[i])
      BY <1>1, <2>1
    <3> QED BY <1>2, <2>1, <2>3, <3>1, ZenonT(60) DEF EntryOK
  <2> QED BY <2>2, <2>3, SMTT(40)
<1>11. Kept(x, y, {p})
  BY <1>2, <1>7 DEF Kept, InHand
<1> QED BY <1>0, <1>2, <1>7, <1>8, <1>9, <1>10, <1>11 DEF HostOK

LEMMA TouchedIs ==
  ASSUME NEW x, HostOK(x), NEW e \in Entry
  PROVE  /\ HostOK(Touched(x, e)) /\ Kept(x, Touched(x, e), {}) /\ Touched(x, e).pk = x.pk
         /\ Touched(x, e).arp = x.arp /\ Last(Touched(x, e).lru) = e
         /\ Touched(x, e).routes = x.routes
<1>1. x \in HostRec /\ x.lru \in Seq(Entry)
  BY DEF HostOK, HostRec
<1> DEFINE k == CHOOSE i \in DOMAIN x.lru : x.lru[i] = e
           q == Append(RemoveAt(x.lru, k), e)
<1>2. k \in 1 .. Len(x.lru) /\ x.lru[k] = e
  BY <1>1 DEF HostOK, Listed
<1>3. PICK y : y = [x EXCEPT !.lru = q]
  OBVIOUS
<1>4. Touched(x, e) = y
  BY <1>3 DEF Touched
<1> HIDE DEF k
<1>5. PICK r \in Seq(Entry) :
        /\ r = RemoveAt(x.lru, k) /\ Len(r) = Len(x.lru) - 1
        /\ \A i \in 1 .. Len(r) : r[i] = IF i < k THEN x.lru[i] ELSE x.lru[i + 1]
  BY <1>1, <1>2, RemoveAtIs
<1>6. q \in Seq(Entry) /\ q = Append(r, e)
  BY <1>5
<1> HIDE DEF q
<1>7. /\ y.panicked = x.panicked /\ y.ring = x.ring /\ y.left = x.left /\ y.backlog = x.backlog /\ y.pk = x.pk /\ y.lru = q
      /\ y.txq = x.txq /\ y.txp = x.txp /\ y.recvq = x.recvq /\ y.routes = x.routes /\ y.arp = x.arp
  BY <1>1, <1>3 DEF HostRec
<1>8. y \in HostRec
  BY <1>1, <1>3, <1>6 DEF HostRec
<1>9. Last(y.lru) = e
  BY <1>5, <1>6, <1>7 DEF Last
<1>10. Listed(y)
  <2> SUFFICES ASSUME NEW f \in Entry PROVE \E i \in DOMAIN q : q[i] = f
    BY <1>7 DEF Listed
  <2>1. PICK n \in Nat : n = Len(x.lru) /\ k \in 1 .. n
    BY <1>1, <1>2
  <2>2. /\ DOMAIN q = 1 .. n /\ q[n] = e
        /\ \A i \in 1 .. n - 1 : q[i] = IF i < k THEN x.lru[i] ELSE x.lru[i + 1]
    BY <1>5, <1>6, <2>1
  <2>3. PICK j \in 1 .. n : x.lru[j] = f
    BY <1>1, <2>1 DEF HostOK, Listed
  <2>4. CASE j = k
    BY <1>2, <2>1, <2>2, <2>3, <2>4
  <2>5. CASE j < k
    <3>1. j \in 1 .. n - 1
      BY <2>1, <2>3, <2>5
    <3>2. q[j] = x.lru[j]
      BY <2>2, <2>5, <3>1
    <3> QED BY <2>2, <2>3, <3>1, <3>2
  <2>6. CASE j > k
    <3>1. j - 1 \in 1 .. n - 1 /\ ~(j - 1 < k) /\ j - 1 + 1 = j
      BY <2>1, <2>3, <2>6
    <3>2. q[j - 1] = x.lru[j]
      BY <2>2, <3>1
    <3> QED BY <2>2, <2>3, <3>1, <3>2
  <2> QED BY <2>1, <2>3, <2>4, <2>5, <2>6
<1>11. \A l \in Place : Queue(y, l) = Queue(x, l)
  BY <1>7 DEF Queue
<1>12. Placed(y) /\ \A z : NotIn(y, z) <=> NotIn(x, z)
  BY <1>7, <1>11 DEF HostOK, Placed, NotIn
<1>13. OneEntry(y) /\ Outgoing(y) /\ Incoming(y) /\ \A f \in Entry : EntryOK(y, f)
  BY <1>7 DEF HostOK, OneEntry, Outgoing, Incoming, EntryOK
<1>14. Kept(x, y, {})
  BY <1>7, <1>12 DEF Kept, InHand
<1> QED BY <1>4, <1>7, <1>8, <1>9, <1>10, <1>12, <1>13, <1>14 DEF HostOK

LEMMA InvalidateIs ==
  ASSUME NEW x, HostOK(x), NEW e \in Entry
  PROVE  /\ HostOK(invalidate(x, e)) /\ Kept(x, invalidate(x, e), {})
         /\ invalidate(x, e).arp[e].stat = "inval" /\ invalidate(x, e).arp[e].q = << >>
         /\ \A f \in Entry \ {e} : invalidate(x, e).arp[f] = x.arp[f]
         /\ invalidate(x, e).lru = x.lru /\ invalidate(x, e).routes = x.routes
         /\ Unused(x) \subseteq Unused(invalidate(x, e))
<1>1. x \in HostRec /\ Placed(x) /\ x.arp[e] \in ArpentRec
  BY DEF HostOK, HostRec
<1>2. x.arp[e].q \in Seq(Pkt)
  BY <1>1 DEF ArpentRec
<1>3. CASE x.arp[e].stat = "inval"
  <2>1. invalidate(x, e) = x
    BY <1>3 DEF invalidate
  <2>2. \A i \in DOMAIN x.arp[e].q : FALSE
    BY <1>3 DEF HostOK, EntryOK
  <2>3. x.arp[e].q = << >>
    <3>1. PICK q \in Seq(Pkt) : q = x.arp[e].q /\ \A i \in DOMAIN q : FALSE
      BY <1>2, <2>2
    <3>2. DOMAIN q = 1 .. Len(q) /\ Len(q) \in Nat
      OBVIOUS
    <3>3. Len(q) \notin Nat \ {0}
      <4> SUFFICES ASSUME Len(q) \in Nat \ {0} PROVE FALSE
        OBVIOUS
      <4>1. 1 \in DOMAIN q
        BY <3>2
      <4> QED BY <3>1, <4>1
    <3>4. q = << >>
      BY <3>3, EmptySeq
    <3> QED BY <3>1, <3>4
  <2>4. Kept(x, x, {})
    BY DEF Kept
  <2> QED BY <1>3, <2>1, <2>3, <2>4
<1>4. CASE x.arp[e].stat # "inval"
  <2>1. PICK q : q = x.arp[e].q
    OBVIOUS
  <2>2. PICK z : z = WithEntry(x, e, Invalidated(x.arp[e]))
    OBVIOUS
  <2>3. PICK y : y = zapall(z, q)
    OBVIOUS
  <2>4. invalidate(x, e) = y
    <3>1. z = [x EXCEPT !.arp[e] = Invalidated(@)]
      BY <2>2 DEF WithEntry
    <3> QED BY <1>4, <2>1, <2>3, <3>1 DEF invalidate
  <2>5. PICK r : r = Invalidated(x.arp[e])
    OBVIOUS
  <2>6. r \in ArpentRec /\ r.stat = "inval" /\ r.q = << >>
    <3>1. \A a \in ArpentRec :
            LET b == Invalidated(a) IN b \in ArpentRec /\ b.stat = "inval" /\ b.q = << >>
      <4>1. << >> \in Seq(Pkt)
        OBVIOUS
      <4> QED BY <4>1, Zenon DEF Invalidated, ArpentRec
    <3> QED BY <1>1, <2>5, <3>1
  <2>7. /\ z \in HostRec
        /\ z.panicked = x.panicked /\ z.ring = x.ring /\ z.left = x.left /\ z.backlog = x.backlog /\ z.pk = x.pk /\ z.lru = x.lru
        /\ z.txq = x.txq /\ z.txp = x.txp /\ z.recvq = x.recvq /\ z.routes = x.routes
        /\ z.arp[e] = r /\ \A f \in Entry \ {e} : z.arp[f] = x.arp[f]
    BY <1>1, <2>2, <2>5, <2>6, EntryFields
  <2>8. PICK h : h = [p \in Pkt |-> IF p \in ToSet(q) THEN None ELSE z.pk[p]]
    OBVIOUS
  <2>9. PICK b : b = (z.panicked \/ \E i \in DOMAIN q : z.pk[q[i]] = None \/ \E j \in DOMAIN q : i # j /\ q[i] = q[j])
    OBVIOUS
  <2>10. y = [z EXCEPT !.pk = h, !.panicked = b]
    BY <2>3, <2>8, <2>9 DEF zapall
  <2>11. <<"arp", e>> \in Place /\ Queue(x, <<"arp", e>>) = q
    BY <2>1, Places, QueueIs
  <2>12. \A i \in DOMAIN q : z.pk[q[i]] # None /\ \A j \in DOMAIN q : q[i] = q[j] => i = j
    BY <1>1, <2>7, <2>11 DEF Placed
  <2>13. b = x.panicked
    BY <2>7, <2>9, <2>12, <1>1 DEF HostRec
  <2>14. z.pk \in [Pkt -> PktRec \cup {None}]
    BY <2>7 DEF HostRec
  <2>15. h \in [Pkt -> PktRec \cup {None}]
    BY <2>8, <2>14
  <2>16. b \in BOOLEAN
    BY <1>1, <2>13 DEF HostRec
  <2>17. /\ y.panicked = b /\ y.ring = z.ring /\ y.left = z.left /\ y.pk = h /\ y.backlog = z.backlog /\ y.lru = z.lru /\ y.arp = z.arp
         /\ y.txq = z.txq /\ y.txp = z.txp /\ y.recvq = z.recvq /\ y.routes = z.routes
    BY <2>7, <2>10 DEF HostRec
  <2>18. y \in HostRec
    BY <2>7, <2>10, <2>15, <2>16 DEF HostRec
  <2>19. Queue(y, <<"arp", e>>) = << >> /\ \A l \in Place \ {<<"arp", e>>} : Queue(y, l) = Queue(x, l)
    BY <2>6, <2>7, <2>17, Places, QueueIs
  <2>20. \A p \in Pkt : p \notin ToSet(q) => y.pk[p] = x.pk[p]
    BY <2>7, <2>8, <2>17
  <2>21. \A p : ~NotIn(x, p) => p \in Pkt
    BY <1>1, QueueSeq DEF NotIn
  <2>22. \A p : ~NotIn(x, p) /\ p \notin ToSet(q) => y.pk[p] # None
    <3>1. \A p : ~NotIn(x, p) => x.pk[p] # None
      BY <1>1 DEF Placed, NotIn
    <3> QED BY <2>20, <2>21, <3>1
  <2>23. Placed(y) /\ \A p : NotIn(x, p) => NotIn(y, p)
    BY <1>1, <2>11, <2>19, <2>22, PlacedEmptied
  <2>24. \A p : p \in ToSet(q) => ~NotIn(x, p)
    BY <2>11 DEF NotIn, ToSet
  <2>25. Listed(y)
    BY <2>7, <2>17 DEF HostOK, Listed
  <2>26. OneEntry(y)
    BY <2>6, <2>7, <2>17 DEF HostOK, OneEntry
  <2>27. \A l \in Place \ {<<"arp", e>>} : \A i \in DOMAIN Queue(x, l) : y.pk[Queue(x, l)[i]] = x.pk[Queue(x, l)[i]]
    <3> SUFFICES ASSUME NEW l \in Place \ {<<"arp", e>>}, NEW i \in DOMAIN Queue(x, l)
                 PROVE  Queue(x, l)[i] \in Pkt /\ Queue(x, l)[i] \notin ToSet(q)
      BY <2>20
    <3>1. Queue(x, l)[i] \in Pkt
      BY <1>1, QueueSeq
    <3>2. \A j \in DOMAIN q : q[j] # Queue(x, l)[i]
      BY <1>1, <2>11 DEF Placed
    <3> QED BY <3>1, <3>2 DEF ToSet
  <2>28. ASSUME NEW f \in Entry PROVE EntryOK(y, f)
    <3>1. CASE f = e
      BY <2>6, <2>7, <2>17, <3>1 DEF EntryOK
    <3>2. CASE f # e
      <4>1. <<"arp", f>> \in Place \ {<<"arp", e>>} /\ Queue(x, <<"arp", f>>) = x.arp[f].q
        BY <3>2, Places, QueueIs
      <4>2. \A i \in DOMAIN x.arp[f].q : y.pk[x.arp[f].q[i]] = x.pk[x.arp[f].q[i]]
        BY <2>27, <4>1
      <4>3. y.arp[f] = x.arp[f] /\ EntryOK(x, f)
        BY <2>7, <2>17, <3>2 DEF HostOK
      <4> QED BY <4>2, <4>3 DEF EntryOK
    <3> QED BY <3>1, <3>2
  <2>29. Outgoing(y) /\ Incoming(y)
    <3>1. \A i \in DOMAIN x.txq : y.pk[x.txq[i]] = x.pk[x.txq[i]]
      <4>1. <<"txq", 0>> \in Place \ {<<"arp", e>>} /\ Queue(x, <<"txq", 0>>) = x.txq
        BY Places, QueueIs
      <4> QED BY <2>27, <4>1
    <3>2. \A i \in DOMAIN x.backlog : y.pk[x.backlog[i]] = x.pk[x.backlog[i]]
      <4>1. <<"backlog", 0>> \in Place \ {<<"arp", e>>} /\ Queue(x, <<"backlog", 0>>) = x.backlog
        BY Places, QueueIs
      <4> QED BY <2>27, <4>1
    <3> QED BY <2>7, <2>17, <3>1, <3>2 DEF HostOK, Outgoing, Incoming
  <2>30. Kept(x, y, {})
    BY <2>7, <2>13, <2>17, <2>20, <2>23, <2>24 DEF Kept, InHand
  <2>31. Unused(x) \subseteq Unused(y)
    BY <2>7, <2>8, <2>17 DEF Unused
  <2>32. HostOK(y)
    BY <2>18, <2>23, <2>25, <2>26, <2>28, <2>29 DEF HostOK
  <2> QED BY <2>4, <2>6, <2>7, <2>17, <2>30, <2>31, <2>32
<1> QED BY <1>3, <1>4

\* What get has found for address a.
Got(x, e, a) == e \in Entry /\ x.arp[e].praddr = a /\ Alone(x, e, a)

LEMMA LruHead ==
  ASSUME NEW x, HostOK(x)
  PROVE  Head(x.lru) \in Entry
<1>1. x.lru \in Seq(Entry)
  BY DEF HostOK, HostRec
<1>2. 1 \in Entry
  BY IpAssumption DEF Entry
<1>3. x.lru # << >>
  BY <1>2 DEF HostOK, Listed
<1> QED BY <1>1, <1>3, HeadTailProperties

LEMMA ReusedIs ==
  ASSUME NEW x, HostOK(x), NEW a \in Addr
  PROVE  /\ HostOK(Reused(x, a)) /\ Kept(x, Reused(x, a), {}) /\ Reused(x, a).routes = x.routes
         /\ Last(Reused(x, a).lru) \in Entry /\ Reused(x, a).arp[Last(Reused(x, a).lru)].praddr = a
         /\ Reused(x, a).arp[Last(Reused(x, a).lru)].stat = "inval"
         /\ Reused(x, a).arp[Last(Reused(x, a).lru)].q = << >>
         /\ \A f \in Entry \ {Last(Reused(x, a).lru)} : Reused(x, a).arp[f] = x.arp[f]
         /\ Unused(x) \subseteq Unused(Reused(x, a))
<1>1. PICK e \in Entry : e = Head(x.lru)
  BY LruHead
<1>2. PICK y : y = Touched(x, e)
  OBVIOUS
<1>3. /\ HostOK(y) /\ Kept(x, y, {}) /\ y.pk = x.pk /\ y.arp = x.arp /\ Last(y.lru) = e
      /\ y.routes = x.routes
  BY <1>2, TouchedIs
<1>4. PICK z : z = invalidate(y, e)
  OBVIOUS
<1>5. /\ HostOK(z) /\ Kept(y, z, {}) /\ z.arp[e].stat = "inval" /\ z.arp[e].q = << >>
      /\ \A f \in Entry \ {e} : z.arp[f] = y.arp[f]
      /\ z.lru = y.lru /\ z.routes = y.routes /\ Unused(y) \subseteq Unused(z)
  BY <1>3, <1>4, InvalidateIs
<1>6. z \in HostRec /\ z.arp[e] \in ArpentRec /\ z.arp \in [Entry -> ArpentRec]
  BY <1>5 DEF HostOK, HostRec
<1>7. PICK r : r = [z.arp[e] EXCEPT !.praddr = a]
  OBVIOUS
<1>8. r \in ArpentRec /\ r.praddr = a /\ r.stat = "inval" /\ r.q = << >>
  <2>1. \A c \in ArpentRec :
          /\ [c EXCEPT !.praddr = a] \in ArpentRec /\ [c EXCEPT !.praddr = a].praddr = a
          /\ [c EXCEPT !.praddr = a].stat = c.stat /\ [c EXCEPT !.praddr = a].q = c.q
    BY DEF ArpentRec
  <2> QED BY <1>5, <1>6, <1>7, <2>1
<1>9. PICK w : w = WithEntry(z, e, r)
  OBVIOUS
<1>10. Reused(x, a) = w
  BY <1>1, <1>2, <1>4, <1>7, <1>9, <1>6 DEF Reused, WithEntry
<1>11. /\ w.pk = z.pk /\ w.lru = z.lru /\ w.routes = z.routes
       /\ w.arp[e] = r /\ \A f \in Entry \ {e} : w.arp[f] = z.arp[f]
  <2>1. z \in HostRec /\ r \in ArpentRec
    BY <1>6, <1>8
  <2> QED BY <1>9, <2>1, EntryFields
<1>12. HostOK(w) /\ Kept(z, w, {})
  BY <1>5, <1>8, <1>9, SetEntry
<1>13. Kept(x, w, {})
  BY <1>3, <1>5, <1>12 DEF Kept
<1>14. Unused(x) \subseteq Unused(w)
  BY <1>3, <1>5, <1>11 DEF Unused
<1>15. Last(w.lru) = e
  BY <1>3, <1>5, <1>11
<1> QED BY <1>3, <1>5, <1>8, <1>10, <1>11, <1>12, <1>13, <1>14, <1>15

LEMMA GetIs ==
  ASSUME NEW x, HostOK(x), NEW a \in Addr
  PROVE  /\ HostOK(get(x, a)) /\ Kept(x, get(x, a), {}) /\ get(x, a).routes = x.routes
         /\ Got(get(x, a), Last(get(x, a).lru), a)
         /\ Unused(x) \subseteq Unused(get(x, a))
<1>1. CASE lookup(x, a) # {}
  <2>1. PICK e \in Entry : e = (CHOOSE f \in lookup(x, a) : TRUE) /\ e \in lookup(x, a)
    BY <1>1 DEF lookup, Entry
  <2>2. get(x, a) = Touched(x, e)
    BY <1>1, <2>1 DEF get
  <2>3. /\ HostOK(Touched(x, e)) /\ Kept(x, Touched(x, e), {}) /\ Touched(x, e).pk = x.pk
        /\ Touched(x, e).arp = x.arp /\ Last(Touched(x, e).lru) = e
        /\ Touched(x, e).routes = x.routes
    BY TouchedIs
  <2>4. Got(Touched(x, e), e, a)
    <3>1. x.arp[e].stat # "inval" /\ x.arp[e].praddr = a
      BY <2>1 DEF lookup
    <3>2. \A f \in Entry \ {e} : x.arp[f].stat # "inval" => x.arp[f].praddr # a
      BY <3>1 DEF HostOK, OneEntry
    <3> QED BY <2>3, <3>1, <3>2 DEF Got, Alone
  <2>5. Unused(Touched(x, e)) = Unused(x)
    BY <2>3 DEF Unused
  <2> QED BY <2>2, <2>3, <2>4, <2>5
<1>2. CASE lookup(x, a) = {}
  <2>1. PICK y : y = Reused(x, a)
    OBVIOUS
  <2>2. get(x, a) = y
    BY <1>2, <2>1 DEF get
  <2>3. /\ HostOK(y) /\ Kept(x, y, {}) /\ y.routes = x.routes
        /\ Last(y.lru) \in Entry /\ y.arp[Last(y.lru)].praddr = a
        /\ \A f \in Entry \ {Last(y.lru)} : y.arp[f] = x.arp[f]
        /\ Unused(x) \subseteq Unused(y)
    BY <2>1, ReusedIs
  <2>4. Alone(y, Last(y.lru), a)
    <3>1. \A f \in Entry : x.arp[f].stat # "inval" => x.arp[f].praddr # a
      BY <1>2 DEF lookup, Entry
    <3> QED BY <2>3, <3>1 DEF Alone
  <2> QED BY <2>2, <2>3, <2>4 DEF Got
<1> QED BY <1>1, <1>2

\* What the records of packets become.
LEMMA IpFields ==
  ASSUME NEW r \in PktRec \cup {None}, r.type = "ip"
  PROVE  /\ r \in IpRec /\ r.src \in Addr /\ r.dst \in Addr
         /\ \A h \in HwAddr :
              /\ [r EXCEPT !.hw = h] \in IpRec /\ [r EXCEPT !.hw = h].hw = h
              /\ [r EXCEPT !.hw = h].hop = r.hop /\ [r EXCEPT !.hw = h].type = "ip"
         /\ \A a \in Addr :
              /\ [r EXCEPT !.hop = a] \in IpRec /\ [r EXCEPT !.hop = a].hop = a
              /\ [r EXCEPT !.hop = a].type = "ip" /\ [r EXCEPT !.hop = a].dst = r.dst
              /\ [r EXCEPT !.src = a] \in IpRec /\ [r EXCEPT !.src = a].dst = r.dst
              /\ [r EXCEPT !.src = a].type = "ip"
<1>1. r \in IpRec
  BY DEF PktRec, ArpRec, Unknown, None
<1> QED BY <1>1 DEF IpRec

LEMMA RequestIs ==
  ASSUME NEW x, HostOK(x), NEW a \in Addr, Unused(x) # {}
  PROVE  HostOK(arprequest(x, a)) /\ Kept(x, arprequest(x, a), {})
<1>1. PICK r : r = ArpPkt("request", Me, a, "me", Bcast)
  OBVIOUS
<1>2. r \in PktRec /\ RightHw(r)
  BY <1>1, IpAssumption DEF ArpPkt, PktRec, ArpRec, RightHw
<1>3. PICK p : p = newpkt(x)
  OBVIOUS
<1>4. PICK y : y = Made(x, p, r)
  OBVIOUS
<1>5. p \in Unused(x) /\ HostOK(y) /\ InHand(y, p) /\ y.pk[p] = r /\ Kept(x, y, {p})
  BY <1>2, <1>3, <1>4, MadeIs
<1>6. arprequest(x, a) = hardwareoutput(y, p)
  BY <1>1, <1>3, <1>4 DEF arprequest
<1>7. HostOK(hardwareoutput(y, p)) /\ Kept(y, hardwareoutput(y, p), {p})
  BY <1>2, <1>5, OutputIs
<1>8. ~InHand(x, p)
  BY <1>5 DEF InHand, Unused
<1>9. Kept(x, hardwareoutput(y, p), {})
  BY <1>5, <1>7, <1>8 DEF Kept
<1> QED BY <1>6, <1>7, <1>9

\* The entry's timer and its count change.
LEMMA SameEntry ==
  ASSUME NEW x, HostOK(x), NEW e \in Entry, NEW r \in ArpentRec, r.q = x.arp[e].q,
         r.stat = x.arp[e].stat, r.praddr = x.arp[e].praddr, r.hw = x.arp[e].hw
  PROVE  HostOK(WithEntry(x, e, r)) /\ Kept(x, WithEntry(x, e, r), {})
<1>1. EntryOK(x, e) /\ x.arp[e].q \in Seq(Pkt)
  BY DEF HostOK, HostRec, ArpentRec
<1>2. r.q # << >> => r.stat # "inval" /\ r.praddr = x.arp[e].praddr
  <2> SUFFICES ASSUME r.q # << >> PROVE r.stat # "inval"
    OBVIOUS
  <2>1. Len(x.arp[e].q) \in Nat \ {0} /\ DOMAIN x.arp[e].q = 1 .. Len(x.arp[e].q)
    BY <1>1, EmptySeq
  <2>2. 1 \in DOMAIN x.arp[e].q
    BY <2>1
  <2> QED BY <1>1, <2>2 DEF EntryOK
<1>3. r.stat = "resolved" => r.hw = HwOf[r.praddr]
  BY <1>1 DEF EntryOK
<1>4. r.stat # "inval" => Alone(x, e, r.praddr)
  BY DEF HostOK, OneEntry, Alone
<1> QED BY <1>2, <1>3, <1>4, SetEntry

LEMMA RexmitIs ==
  ASSUME NEW x, HostOK(x), NEW e \in Entry, Unused(x) # {}
  PROVE  HostOK(rexmitto(x, e)) /\ Kept(x, rexmitto(x, e), {})
<1>1. x \in HostRec /\ x.arp[e] \in ArpentRec /\ x.arp \in [Entry -> ArpentRec]
  BY DEF HostOK, HostRec
<1>2. PICK r : r = [x.arp[e] EXCEPT !.timer = FALSE, !.nrexmit = @ + 1]
  OBVIOUS
<1>3. /\ r \in ArpentRec /\ r.q = x.arp[e].q /\ r.stat = x.arp[e].stat
      /\ r.praddr = x.arp[e].praddr /\ r.hw = x.arp[e].hw /\ r.praddr \in Addr
  <2>1. \A c \in ArpentRec :
          LET b == [c EXCEPT !.timer = FALSE, !.nrexmit = @ + 1] IN
          /\ b \in ArpentRec /\ b.q = c.q /\ b.stat = c.stat /\ b.praddr = c.praddr
          /\ b.hw = c.hw /\ b.praddr \in Addr
    <3>1. \A c \in ArpentRec : c.nrexmit + 1 \in Nat
      BY DEF ArpentRec
    <3> SUFFICES ASSUME NEW c \in ArpentRec, NEW n \in Nat
                 PROVE  LET b == [c EXCEPT !.timer = FALSE, !.nrexmit = n] IN
                        /\ b \in ArpentRec /\ b.q = c.q /\ b.stat = c.stat /\ b.praddr = c.praddr
                        /\ b.hw = c.hw /\ b.praddr \in Addr
      BY <3>1
    <3> QED BY DEF ArpentRec
  <2> QED BY <1>1, <1>2, <2>1
<1>4. PICK y : y = WithEntry(x, e, r)
  OBVIOUS
<1>5. y = [x EXCEPT !.arp[e].timer = FALSE, !.arp[e].nrexmit = @ + 1]
  BY <1>1, <1>2, <1>4 DEF WithEntry
<1>6. HostOK(y) /\ Kept(x, y, {})
  BY <1>3, <1>4, SameEntry
<1>7. y.pk = x.pk
  <2>1. x \in HostRec /\ r \in ArpentRec
    BY <1>1, <1>3
  <2> QED BY <1>4, <2>1, EntryFields
<1>8. CASE x.arp[e].nrexmit >= MAXREXMIT
  <2>1. rexmitto(x, e) = invalidate(y, e)
    BY <1>5, <1>8 DEF rexmitto
  <2>2. HostOK(invalidate(y, e)) /\ Kept(y, invalidate(y, e), {})
    BY <1>6, InvalidateIs
  <2>3. Kept(x, invalidate(y, e), {})
    BY <1>6, <2>2 DEF Kept
  <2> QED BY <2>1, <2>2, <2>3
<1>9. CASE ~(x.arp[e].nrexmit >= MAXREXMIT)
  <2>1. rexmitto(x, e) = arprequest(y, x.arp[e].praddr)
    BY <1>5, <1>9 DEF rexmitto
  <2>2. Unused(y) # {}
    BY <1>7 DEF Unused
  <2>3. PICK a \in Addr : a = x.arp[e].praddr
    BY <1>3
  <2>4. HostOK(arprequest(y, a)) /\ Kept(y, arprequest(y, a), {})
    BY <1>6, <2>2, RequestIs
  <2>5. Kept(x, arprequest(y, a), {})
    BY <1>6, <2>4 DEF Kept
  <2> QED BY <2>1, <2>3, <2>4, <2>5
<1> QED BY <1>8, <1>9

\* A packet goes out with its next hop's address.
LEMMA SendIs ==
  ASSUME NEW x, HostOK(x), NEW p, InHand(x, p), x.pk[p].type = "ip",
         NEW h \in HwAddr, h = HwOf[x.pk[p].hop]
  PROVE  LET y == hardwareoutput(addhwhdr(x, p, h), p) IN HostOK(y) /\ Kept(x, y, {p})
<1>1. x \in HostRec /\ p \in Pkt /\ NotIn(x, p) /\ x.pk \in [Pkt -> PktRec \cup {None}]
  BY DEF HostOK, HostRec, InHand
<1>2. PICK r : r = [x.pk[p] EXCEPT !.hw = h]
  OBVIOUS
<1>3. r \in IpRec /\ RightHw(r)
  <2>1. x.pk[p] \in PktRec \cup {None}
    BY <1>1
  <2> QED BY <1>2, <2>1, IpFields DEF RightHw
<1>4. r \in PktRec /\ r \in PktRec \cup {None} /\ r # None
  BY <1>3, PktTypes DEF PktRec
<1>5. PICK y : y = Made(x, p, r)
  OBVIOUS
<1>6. addhwhdr(x, p, h) = y
  BY <1>1, <1>2, <1>5 DEF addhwhdr, Made
<1>7. HostOK(y) /\ y.pk[p] = r /\ Kept(x, y, {p}) /\ NotIn(y, p)
  <2>1. p \in Pkt /\ NotIn(x, p) /\ r \in PktRec \cup {None}
    BY <1>1, <1>4
  <2> QED BY <1>5, <2>1, SetPk
<1>8. y.pk[p] = r
  BY <1>7
<1>9. InHand(y, p)
  BY <1>1, <1>4, <1>7, <1>8 DEF InHand
<1>10. HostOK(hardwareoutput(y, p)) /\ Kept(y, hardwareoutput(y, p), {p})
  BY <1>3, <1>7, <1>8, <1>9, OutputIs
<1>11. Kept(x, hardwareoutput(y, p), {p})
  BY <1>7, <1>10 DEF Kept
<1> QED BY <1>6, <1>10, <1>11

LEMMA ArpOutputIs ==
  ASSUME NEW x, HostOK(x), NEW p, InHand(x, p), x.pk[p].type = "ip",
         NEW a \in Addr, x.pk[p].hop = a, Unused(x) # {}
  PROVE  HostOK(arpoutput(x, p, a)) /\ Kept(x, arpoutput(x, p, a), {p})
<1>1. PICK y : y = get(x, a)
  OBVIOUS
<1>2. PICK e : e = Last(y.lru)
  OBVIOUS
<1>3. HostOK(y) /\ Kept(x, y, {}) /\ Got(y, e, a) /\ Unused(x) \subseteq Unused(y)
  BY <1>1, <1>2, GetIs
<1>4. e \in Entry /\ y.arp[e].praddr = a /\ Alone(y, e, a)
  BY <1>3 DEF Got
<1>5. y \in HostRec /\ y.arp[e] \in ArpentRec /\ y.arp \in [Entry -> ArpentRec]
  BY <1>3, <1>4 DEF HostOK, HostRec
<1>6. InHand(y, p) /\ y.pk[p] = x.pk[p] /\ p \in Pkt
  BY <1>3 DEF Kept, InHand
<1>7. y.arp[e].stat \in {"inval", "waiting", "resolved"} /\ y.arp[e].hw \in HwAddr
  BY <1>5 DEF ArpentRec
<1>8. y.arp[e].q \in Seq(Pkt)
  BY <1>5 DEF ArpentRec
<1>9. PICK q \in Seq(Pkt) : q = Append(y.arp[e].q, p)
  <2>1. PICK b \in Seq(Pkt) : b = y.arp[e].q
    BY <1>8
  <2>2. Append(b, p) \in Seq(Pkt)
    BY <1>6
  <2> QED BY <2>1, <2>2
<1>10. CASE y.arp[e].stat = "inval"
  <2>1. PICK r : r = [y.arp[e] EXCEPT !.q = q, !.stat = "waiting", !.timer = TRUE]
    OBVIOUS
  <2>2. r \in ArpentRec /\ r.q = q /\ r.stat = "waiting" /\ r.praddr = a
    <3>1. \A c \in ArpentRec :
            LET b == [c EXCEPT !.q = q, !.stat = "waiting", !.timer = TRUE] IN
            b \in ArpentRec /\ b.q = q /\ b.stat = "waiting" /\ b.praddr = c.praddr
      BY DEF ArpentRec
    <3> QED BY <1>4, <1>5, <2>1, <3>1
  <2>3. PICK z : z = WithEntry(y, e, r)
    OBVIOUS
  <2>4. [[y EXCEPT !.arp[e].q = Append(@, p)] EXCEPT !.arp[e].stat = "waiting", !.arp[e].timer = TRUE] = z
    BY <1>4, <1>5, <1>9, <2>1, <2>3 DEF WithEntry
  <2>5. arpoutput(x, p, a) = arprequest(z, a)
    BY <1>1, <1>2, <1>10, <2>4 DEF arpoutput
  <2>6. HostOK(z) /\ Kept(y, z, {p})
    <3>1. r.q = Append(y.arp[e].q, p) /\ y.pk[p].type = "ip" /\ y.pk[p].hop = r.praddr
      BY <1>6, <1>9, <2>2
    <3>2. r.stat = "waiting" /\ r.praddr = y.arp[e].praddr /\ Alone(y, e, r.praddr) /\ r \in ArpentRec
      BY <1>4, <2>2
    <3> QED BY <1>3, <1>4, <1>6, <2>3, <3>1, <3>2, JoinEntry
  <2>7. z.pk = y.pk
    <3>1. y \in HostRec /\ r \in ArpentRec /\ e \in Entry
      BY <1>4, <1>5, <2>2
    <3> QED BY <2>3, <3>1, EntryFields
  <2>8. Unused(z) # {}
    BY <1>3, <2>7 DEF Unused
  <2>9. HostOK(arprequest(z, a)) /\ Kept(z, arprequest(z, a), {})
    BY <2>6, <2>8, RequestIs
  <2>10. Kept(x, arprequest(z, a), {p})
    BY <1>3, <2>6, <2>9 DEF Kept
  <2> QED BY <2>5, <2>9, <2>10
<1>11. CASE y.arp[e].stat = "waiting"
  <2>1. PICK r : r = [y.arp[e] EXCEPT !.q = q]
    OBVIOUS
  <2>2. r \in ArpentRec /\ r.q = q /\ r.stat = "waiting" /\ r.praddr = a
    <3>1. \A c \in ArpentRec :
            LET b == [c EXCEPT !.q = q] IN
            b \in ArpentRec /\ b.q = q /\ b.stat = c.stat /\ b.praddr = c.praddr
      BY DEF ArpentRec
    <3> QED BY <1>4, <1>5, <1>11, <2>1, <3>1
  <2>3. PICK z : z = WithEntry(y, e, r)
    OBVIOUS
  <2>4. [y EXCEPT !.arp[e].q = Append(@, p)] = z
    BY <1>4, <1>5, <1>9, <2>1, <2>3 DEF WithEntry
  <2>5. arpoutput(x, p, a) = z
    BY <1>1, <1>2, <1>11, <2>4 DEF arpoutput
  <2>6. HostOK(z) /\ Kept(y, z, {p})
    <3>1. r.q = Append(y.arp[e].q, p) /\ y.pk[p].type = "ip" /\ y.pk[p].hop = r.praddr
      BY <1>6, <1>9, <2>2
    <3>2. r.stat = "waiting" /\ r.praddr = y.arp[e].praddr /\ Alone(y, e, r.praddr) /\ r \in ArpentRec
      BY <1>4, <2>2
    <3> QED BY <1>3, <1>4, <1>6, <2>3, <3>1, <3>2, JoinEntry
  <2>7. Kept(x, z, {p})
    BY <1>3, <2>6 DEF Kept
  <2> QED BY <2>5, <2>6, <2>7
<1>12. CASE y.arp[e].stat = "resolved"
  <2>1. PICK h \in HwAddr : h = y.arp[e].hw
    BY <1>7
  <2>2. h = HwOf[y.pk[p].hop] /\ y.pk[p].type = "ip"
    BY <1>3, <1>4, <1>6, <1>12, <2>1 DEF HostOK, EntryOK
  <2>3. PICK z : z = hardwareoutput(addhwhdr(y, p, h), p)
    OBVIOUS
  <2>4. arpoutput(x, p, a) = z
    BY <1>1, <1>2, <1>12, <2>1, <2>3 DEF arpoutput
  <2>5. HostOK(z) /\ Kept(y, z, {p})
    BY <1>3, <1>6, <2>2, <2>3, SendIs
  <2>6. Kept(x, z, {p})
    BY <1>3, <2>5 DEF Kept
  <2> QED BY <2>4, <2>5, <2>6
<1> QED BY <1>7, <1>10, <1>11, <1>12

\* The packets of entry e go to the card's queue, all of them or (d = 1) all but
\* the first.
Goes(x, e, q, z, d, n) ==
  /\ q \in Seq(Pkt) /\ q = x.arp[e].q /\ z \in HostRec /\ d \in {0, 1} /\ n \in Nat /\ n = Len(x.txq)
  /\ z.panicked = x.panicked /\ z.ring = x.ring /\ z.left = x.left /\ z.backlog = x.backlog /\ z.lru = x.lru /\ z.recvq = x.recvq
  /\ z.arp[e].q = << >> /\ z.arp[e].stat = x.arp[e].stat
  /\ z.arp[e].praddr = x.arp[e].praddr /\ z.arp[e].hw = x.arp[e].hw
  /\ \A f \in Entry \ {e} : z.arp[f] = x.arp[f]
  /\ \A i \in DOMAIN z.txq :
       \/ i \in 1 .. n /\ z.txq[i] = x.txq[i]
       \/ i \in Nat /\ i > n /\ i - n + d \in DOMAIN q /\ z.txq[i] = q[i - n + d]
  /\ \A p \in Pkt \ ToSet(q) : z.pk[p] = x.pk[p]
  /\ \A j \in DOMAIN q : (j = 1 /\ d = 1) \/ (z.pk[q[j]] # None /\ RightHw(z.pk[q[j]]))
  /\ RightHw(z.txp)

LEMMA QueueGoes ==
  ASSUME NEW x, HostOK(x), NEW e \in Entry, NEW q, NEW z, NEW d, NEW n, Goes(x, e, q, z, d, n)
  PROVE  HostOK(z) /\ Kept(x, z, {})
<1>0. PICK k \in Place, l \in Place : k = <<"arp", e>> /\ l = <<"txq", 0>>
  BY Places
<1>1. x \in HostRec /\ Placed(x) /\ x.txq \in Seq(Pkt) /\ d \in {0, 1} /\ n \in Nat
  BY DEF HostOK, HostRec, Goes
<1>2. /\ k # l /\ Queue(x, k) = q /\ Queue(z, k) = << >>
      /\ Queue(x, l) = x.txq /\ Queue(z, l) = z.txq
  BY <1>0, QueueIs DEF Goes
<1>3. \A m \in Place \ {k, l} : Queue(z, m) = Queue(x, m)
  <2>1. z.backlog = x.backlog /\ z.recvq = x.recvq /\ \A f \in Entry \ {e} : z.arp[f] = x.arp[f]
    BY DEF Goes
  <2>2. ASSUME NEW m \in Place \ {k, l} PROVE Queue(z, m) = Queue(x, m)
    <3>1. CASE \E f \in Entry : m = <<"arp", f>>
      <4>1. PICK f \in Entry \ {e} : m = <<"arp", f>>
        BY <1>0, <3>1
      <4>2. Queue(z, m) = z.arp[f].q /\ Queue(x, m) = x.arp[f].q
        BY <4>1, QueueIs
      <4> QED BY <2>1, <4>2
    <3>2. CASE m = <<"backlog", 0>> \/ \E v \in USock : m = <<"recv", v>>
      BY <2>1, <3>2, QueueIs
    <3> QED BY <1>0, <3>1, <3>2, Places
  <2> QED BY <2>2
<1>4. DOMAIN Queue(x, l) = 1 .. n
  BY <1>1, <1>2 DEF Goes
<1>5. \A i \in DOMAIN Queue(z, l) :
        \/ i \in 1 .. n /\ Queue(z, l)[i] = Queue(x, l)[i]
        \/ /\ i \in Nat /\ i > n /\ i - n + d \in DOMAIN Queue(x, k)
           /\ Queue(z, l)[i] = Queue(x, k)[i - n + d]
  BY <1>2 DEF Goes
<1>6. \A m \in Place \ {k} : \A i \in DOMAIN Queue(x, m) : z.pk[Queue(x, m)[i]] = x.pk[Queue(x, m)[i]]
  <2> SUFFICES ASSUME NEW m \in Place \ {k}, NEW i \in DOMAIN Queue(x, m)
               PROVE  Queue(x, m)[i] \in Pkt \ ToSet(q)
    BY DEF Goes
  <2>1. Queue(x, m)[i] \in Pkt
    BY <1>1, QueueSeq
  <2>2. \A j \in DOMAIN q : q[j] # Queue(x, m)[i]
    BY <1>1, <1>2 DEF Placed
  <2> QED BY <2>1, <2>2 DEF ToSet
<1>7. ASSUME NEW i \in DOMAIN z.txq, ~(i \in 1 .. n)
      PROVE  z.pk[z.txq[i]] # None /\ RightHw(z.pk[z.txq[i]])
  <2>1. PICK j \in DOMAIN q : z.txq[i] = q[j] /\ j = i - n + d /\ i \in Nat /\ i > n
    BY <1>7 DEF Goes
  <2>2. ~(j = 1 /\ d = 1)
    BY <1>1, <2>1
  <2> QED BY <2>1, <2>2 DEF Goes
<1>8. ASSUME NEW m \in Place, NEW i \in DOMAIN Queue(z, m)
      PROVE  z.pk[Queue(z, m)[i]] # None
  <2>1. CASE m = k
    BY <1>2, <1>8, <2>1
  <2>2. CASE m \notin {k, l}
    BY <1>1, <1>3, <1>6, <1>8, <2>2 DEF Placed
  <2>3. CASE m = l
    <3>1. CASE i \in 1 .. n
      <4>1. z.txq[i] = x.txq[i] /\ i \in DOMAIN Queue(x, l)
        BY <1>1, <1>2, <1>4, <1>8, <2>3, <3>1 DEF Goes
      <4> QED BY <1>1, <1>2, <1>6, <2>3, <4>1 DEF Placed
    <3>2. CASE ~(i \in 1 .. n)
      BY <1>2, <1>7, <1>8, <2>3, <3>2
    <3> QED BY <3>1, <3>2
  <2> QED BY <2>1, <2>2, <2>3
<1>9. \A p : ~NotIn(z, p) => z.pk[p] # None
  BY <1>8 DEF NotIn
<1>10. Placed(z) /\ \A p : NotIn(x, p) => NotIn(z, p)
  <2>1. /\ x \in HostRec /\ Placed(x) /\ d \in {0, 1} /\ n \in Nat /\ k # l /\ Queue(z, k) = << >>
    BY <1>1, <1>2
  <2> QED BY <2>1, <1>3, <1>4, <1>5, <1>9, PlacedMoved
<1>11. Listed(z)
  BY DEF HostOK, Listed, Goes
<1>12. OneEntry(z)
  <2>1. \A f \in Entry : z.arp[f].stat = x.arp[f].stat /\ z.arp[f].praddr = x.arp[f].praddr
    BY DEF Goes
  <2> QED BY <2>1 DEF HostOK, OneEntry
<1>13. ASSUME NEW f \in Entry PROVE EntryOK(z, f)
  <2>1. EntryOK(x, f)
    BY DEF HostOK
  <2>2. CASE f = e
    BY <2>1, <2>2 DEF EntryOK, Goes
  <2>3. CASE f # e
    <3>1. <<"arp", f>> \in Place \ {k} /\ Queue(x, <<"arp", f>>) = x.arp[f].q
      BY <1>0, <2>3, Places, QueueIs
    <3>2. \A i \in DOMAIN x.arp[f].q : z.pk[x.arp[f].q[i]] = x.pk[x.arp[f].q[i]]
      BY <1>6, <3>1
    <3>3. z.arp[f] = x.arp[f]
      BY <2>3 DEF Goes
    <3> QED BY <2>1, <3>2, <3>3 DEF EntryOK
  <2> QED BY <2>2, <2>3
<1>14. Incoming(z)
  <2>1. <<"backlog", 0>> \in Place \ {k} /\ Queue(x, <<"backlog", 0>>) = x.backlog
    BY <1>0, Places, QueueIs
  <2>2. \A i \in DOMAIN x.backlog : z.pk[x.backlog[i]] = x.pk[x.backlog[i]]
    BY <1>6, <2>1
  <2> QED BY <2>2 DEF HostOK, Incoming, Goes
<1>15. Outgoing(z)
  <2> SUFFICES ASSUME NEW i \in DOMAIN z.txq PROVE RightHw(z.pk[z.txq[i]])
    BY DEF Outgoing, Goes
  <2>1. CASE i \in 1 .. n
    <3>1. z.txq[i] = x.txq[i] /\ i \in DOMAIN x.txq /\ i \in DOMAIN Queue(x, l) /\ l \in Place \ {k}
      BY <1>1, <1>2, <1>4, <2>1 DEF Goes
    <3>2. z.pk[x.txq[i]] = x.pk[x.txq[i]]
      BY <1>2, <1>6, <3>1
    <3> QED BY <3>1, <3>2 DEF HostOK, Outgoing
  <2>2. CASE ~(i \in 1 .. n)
    BY <1>7, <2>2
  <2> QED BY <2>1, <2>2
<1>16. Kept(x, z, {})
  <2>1. \A p : p \in ToSet(q) => ~NotIn(x, p)
    BY <1>2 DEF NotIn, ToSet
  <2>2. z.recvq = x.recvq /\ z.panicked = x.panicked /\ z.ring = x.ring /\ z.left = x.left /\ \A p \in Pkt \ ToSet(q) : z.pk[p] = x.pk[p]
    BY DEF Goes
  <2> QED BY <1>10, <2>1, <2>2 DEF Kept, InHand
<1>17. z \in HostRec
  BY DEF Goes
<1> QED BY <1>10, <1>11, <1>12, <1>13, <1>14, <1>15, <1>16, <1>17 DEF HostOK

\* The card's queue with the others of q behind it.
LEMMA TailJoined ==
  ASSUME NEW a \in Seq(Pkt), NEW q \in Seq(Pkt), q # << >>
  PROVE  LET b == a \o Tail(q) IN
         /\ b \in Seq(Pkt)
         /\ \A i \in DOMAIN b :
              \/ i \in 1 .. Len(a) /\ b[i] = a[i]
              \/ /\ i \in Nat /\ i > Len(a) /\ i - Len(a) + 1 \in DOMAIN q
                 /\ b[i] = q[i - Len(a) + 1]
<1>1. PICK t \in Seq(Pkt) : t = Tail(q)
  BY HeadTailProperties
<1>2. PICK n \in Nat, m \in Nat : n = Len(a) /\ m = Len(q) /\ m > 0
  BY EmptySeq
<1>3. Len(t) = m - 1 /\ \A i \in 1 .. m - 1 : t[i] = q[i + 1]
  BY <1>1, <1>2, HeadTailProperties
<1>8. a \o t \in Seq(Pkt) /\ Len(a \o t) = Len(a) + Len(t)
  BY ConcatProperties
<1>4. PICK b \in Seq(Pkt) : b = a \o t
  BY <1>8
<1>9. Len(b) = n + m - 1
  BY <1>2, <1>3, <1>4, <1>8
<1>5. DOMAIN b = 1 .. n + m - 1 /\ DOMAIN q = 1 .. m
  BY <1>2, <1>9
<1>6. ASSUME NEW i \in DOMAIN b, ~(i \in 1 .. n)
      PROVE  /\ i \in Nat /\ i > n /\ i - n + 1 \in DOMAIN q
             /\ b[i] = q[i - n + 1]
  <2>1. i \in Nat /\ i > n /\ i - n + 1 \in 1 .. m /\ i - n \in 1 .. m - 1
    BY <1>2, <1>5, <1>6
  <2>2. b[i] = t[i - n]
    BY <1>2, <1>3, <1>4, <1>5, <2>1
  <2>3. t[i - n] = q[i - n + 1]
    BY <1>3, <2>1
  <2> QED BY <1>5, <2>1, <2>2, <2>3
<1>7. ASSUME NEW i \in DOMAIN b, i \in 1 .. n PROVE b[i] = a[i]
  BY <1>2, <1>4, <1>5, <1>7
<1> QED BY <1>1, <1>2, <1>4, <1>6, <1>7

LEMMA ReplyIs ==
  ASSUME NEW x, HostOK(x), NEW e \in Entry, x.arp[e].stat = "resolved"
  PROVE  HostOK(replyarrive(x, e)) /\ Kept(x, replyarrive(x, e), {})
<1>1. x \in HostRec /\ x.arp[e] \in ArpentRec /\ x.arp \in [Entry -> ArpentRec] /\ Placed(x)
  BY DEF HostOK, HostRec
<1>2. x.arp[e].q \in Seq(Pkt) /\ x.arp[e].hw \in HwAddr
  BY <1>1 DEF ArpentRec
<1>3. PICK q \in Seq(Pkt) : q = x.arp[e].q
  BY <1>2
<1>4. CASE q = << >>
  <2>1. replyarrive(x, e) = x
    BY <1>3, <1>4 DEF replyarrive
  <2> QED BY <2>1 DEF Kept
<1>5. CASE q # << >>
  <2>1. PICK h \in HwAddr : h = x.arp[e].hw
    BY <1>2
  <2>2. PICK g : g = [p \in Pkt |-> IF p \in ToSet(q) THEN [x.pk[p] EXCEPT !.hw = h] ELSE x.pk[p]]
    OBVIOUS
  <2>3. x.pk \in [Pkt -> PktRec \cup {None}] /\ x.txq \in Seq(Pkt) /\ x.txp \in PktRec \cup {None}
    BY <1>1 DEF HostRec
  <2>4. \A j \in DOMAIN q : q[j] \in Pkt
    OBVIOUS
  <2>5. ASSUME NEW j \in DOMAIN q
        PROVE  g[q[j]] \in IpRec /\ g[q[j]] # None /\ RightHw(g[q[j]])
    <3>1. x.pk[q[j]].type = "ip" /\ h = HwOf[x.pk[q[j]].hop]
      BY <1>3, <2>1 DEF HostOK, EntryOK
    <3>2. PICK r \in PktRec \cup {None} : r = x.pk[q[j]]
      BY <2>3, <2>4
    <3>3. [r EXCEPT !.hw = h] \in IpRec /\ RightHw([r EXCEPT !.hw = h])
      BY <3>1, <3>2, IpFields DEF RightHw
    <3>4. g[q[j]] = [r EXCEPT !.hw = h]
      BY <2>2, <2>4, <3>2 DEF ToSet
    <3>5. g[q[j]] \in PktRec
      BY <3>3, <3>4 DEF PktRec
    <3> QED BY <3>3, <3>4, <3>5, PktTypes
  <2>6. \A p \in Pkt \ ToSet(q) : g[p] = x.pk[p]
    BY <2>2
  <2>7. g \in [Pkt -> PktRec \cup {None}]
    <3>1. \A p \in Pkt : g[p] \in PktRec \cup {None}
      <4> SUFFICES ASSUME NEW p \in Pkt PROVE g[p] \in PktRec \cup {None}
        OBVIOUS
      <4>1. CASE p \in ToSet(q)
        BY <2>5, <4>1 DEF ToSet, PktRec
      <4>2. CASE p \notin ToSet(q)
        BY <2>3, <2>6, <4>2
      <4> QED BY <4>1, <4>2
    <3>2. g = [p \in Pkt |-> g[p]]
      BY <2>2
    <3> QED BY <3>1, <3>2
  <2>8. PICK r : r = [x.arp[e] EXCEPT !.q = << >>]
    OBVIOUS
  <2>9. /\ r \in ArpentRec /\ r.q = << >> /\ r.stat = x.arp[e].stat
        /\ r.praddr = x.arp[e].praddr /\ r.hw = x.arp[e].hw
    <3>1. << >> \in Seq(Pkt)
      OBVIOUS
    <3>2. \A c \in ArpentRec :
            LET b == [c EXCEPT !.q = << >>] IN
            /\ b \in ArpentRec /\ b.q = << >> /\ b.stat = c.stat /\ b.praddr = c.praddr /\ b.hw = c.hw
      BY <3>1, Zenon DEF ArpentRec
    <3> QED BY <1>1, <2>8, <3>2
  <2>10. PICK w : w = WithEntry(x, e, r)
    OBVIOUS
  <2>11. /\ w \in HostRec
         /\ w.panicked = x.panicked /\ w.ring = x.ring /\ w.left = x.left /\ w.backlog = x.backlog /\ w.pk = x.pk /\ w.lru = x.lru
         /\ w.txq = x.txq /\ w.txp = x.txp /\ w.recvq = x.recvq
         /\ w.arp[e] = r /\ \A f \in Entry \ {e} : w.arp[f] = x.arp[f]
    <3>1. x \in HostRec /\ r \in ArpentRec
      BY <1>1, <2>9
    <3> QED BY <2>10, <3>1, EntryFields
  <2>12. PICK y : y = [w EXCEPT !.pk = g]
    OBVIOUS
  <2>13. y = [x EXCEPT !.arp[e].q = << >>, 
                       !.pk = [p \in Pkt |-> IF p \in ToSet(q) THEN [@[p] EXCEPT !.hw = x.arp[e].hw]
                                             ELSE @[p]]]
    <3>1. w = [x EXCEPT !.arp[e].q = << >>]
      BY <1>1, <2>8, <2>10 DEF WithEntry
    <3> QED BY <1>1, <2>1, <2>2, <2>12, <3>1 DEF HostRec
  <2>14. /\ y \in HostRec
         /\ y.panicked = x.panicked /\ y.ring = x.ring /\ y.left = x.left /\ y.backlog = x.backlog /\ y.pk = g /\ y.lru = x.lru
         /\ y.txq = x.txq /\ y.txp = x.txp /\ y.recvq = x.recvq /\ y.arp = w.arp
    BY <2>7, <2>11, <2>12 DEF HostRec
  <2>15. PICK f \in Pkt : f = Head(q) /\ f = q[1] /\ 1 \in DOMAIN q
    BY <1>5
  <2>16. PICK n \in Nat : n = Len(x.txq)
    BY <2>3
  <2>17. PICK z : z = [hardwareoutput(y, f) EXCEPT !.txq = @ \o Tail(q)]
    OBVIOUS
  <2>18. replyarrive(x, e) = z
    BY <1>3, <1>5, <2>13, <2>15, <2>17 DEF replyarrive
  <2>19. g[f] # None /\ RightHw(g[f]) /\ g[f] \in PktRec \cup {None}
    BY <2>5, <2>7, <2>15
  <2>20. \A p : p \notin ToSet(q) => p # f
    BY <2>15 DEF ToSet
  <2>21. PICK a \in Seq(Pkt) : a = x.txq
    BY <2>3
  <2>22. CASE x.txp # None
    <3>11. Append(a, f) \in Seq(Pkt)
      BY AppendProperties
    <3>12. PICK c \in Seq(Pkt) : c = Append(a, f)
      BY <3>11
    <3>13. Len(c) = n + 1 /\ c[n + 1] = f /\ \A i \in 1 .. n : c[i] = a[i]
      BY <2>16, <2>21, <3>12
    <3>1. PICK b : b = c \o Tail(q)
      OBVIOUS
    <3>14. /\ b \in Seq(Pkt)
          /\ \A i \in DOMAIN b :
               \/ i \in 1 .. Len(c) /\ b[i] = c[i]
               \/ /\ i \in Nat /\ i > Len(c) /\ i - Len(c) + 1 \in DOMAIN q
                  /\ b[i] = q[i - Len(c) + 1]
      BY <1>5, <3>1, TailJoined
    <3>2. z = [[y EXCEPT !.txq = Append(@, f)] EXCEPT !.txq = @ \o Tail(q)]
      BY <2>14, <2>17, <2>22 DEF hardwareoutput
    <3>3. z = [y EXCEPT !.txq = b]
      BY <2>14, <2>21, <3>12, <3>1, <3>2 DEF HostRec
    <3>4. /\ z \in HostRec
          /\ z.panicked = x.panicked /\ z.ring = x.ring /\ z.left = x.left /\ z.backlog = x.backlog /\ z.pk = g /\ z.lru = x.lru
          /\ z.txq = b /\ z.txp = x.txp /\ z.recvq = x.recvq /\ z.arp = w.arp
      BY <2>14, <3>14, <3>3 DEF HostRec
    <3>5. ASSUME NEW i \in DOMAIN b
          PROVE  \/ i \in 1 .. n /\ b[i] = a[i]
                 \/ i \in Nat /\ i > n /\ i - n + 0 \in DOMAIN q /\ b[i] = q[i - n + 0]
      <4>1. CASE i \in 1 .. Len(c) /\ b[i] = c[i]
        BY <2>15, <2>16, <3>13, <4>1
      <4>2. CASE /\ i \in Nat /\ i > Len(c) /\ i - Len(c) + 1 \in DOMAIN q
                 /\ b[i] = q[i - Len(c) + 1]
        <5>1. PICK m \in Nat : m = Len(c) /\ m = n + 1
          BY <3>13
        <5>2. i - m + 1 = i - n + 0 /\ i > n
          BY <4>2, <5>1
        <5> QED BY <4>2, <5>1, <5>2
      <4> QED BY <3>14, <4>1, <4>2
    <3>6. RightHw(z.txp)
      BY <3>4 DEF HostOK, Outgoing
    <3>7. \A p \in Pkt \ ToSet(q) : z.pk[p] = x.pk[p]
      BY <2>6, <3>4
    <3>8. \A j \in DOMAIN q : z.pk[q[j]] # None /\ RightHw(z.pk[q[j]])
      BY <2>5, <3>4
    <3>9. /\ z.arp[e].q = << >> /\ z.arp[e].stat = x.arp[e].stat
          /\ z.arp[e].praddr = x.arp[e].praddr /\ z.arp[e].hw = x.arp[e].hw
          /\ \A c1 \in Entry \ {e} : z.arp[c1] = x.arp[c1]
      BY <2>9, <2>11, <3>4
    <3>10. Goes(x, e, q, z, 0, n)
      BY <1>3, <2>16, <2>21, <3>4, <3>5, <3>6, <3>7, <3>8, <3>9 DEF Goes
    <3> QED BY <2>18, <3>10, QueueGoes
  <2>23. CASE x.txp = None
    <3>1. PICK b : b = a \o Tail(q)
      OBVIOUS
    <3>9. /\ b \in Seq(Pkt)
          /\ \A i \in DOMAIN b :
               \/ i \in 1 .. n /\ b[i] = a[i]
               \/ i \in Nat /\ i > n /\ i - n + 1 \in DOMAIN q /\ b[i] = q[i - n + 1]
      BY <1>5, <2>16, <2>21, <3>1, TailJoined, SMTT(40)
    <3>2. PICK u : u = [y EXCEPT !.txp = g[f]]
      OBVIOUS
    <3>3. /\ u \in HostRec
          /\ u.panicked = x.panicked /\ u.ring = x.ring /\ u.left = x.left /\ u.backlog = x.backlog /\ u.pk = g /\ u.lru = x.lru
          /\ u.txq = x.txq /\ u.txp = g[f] /\ u.recvq = x.recvq /\ u.arp = w.arp
      BY <2>14, <2>19, <3>2 DEF HostRec
    <3>4. PICK v : v = [u EXCEPT !.pk[f] = None]
      OBVIOUS
    <3>5. hardwareoutput(y, f) = v
      BY <2>14, <2>19, <2>23, <3>2, <3>3, <3>4 DEF hardwareoutput, delpkt
    <3>6. /\ v \in HostRec
          /\ v.panicked = x.panicked /\ v.ring = x.ring /\ v.left = x.left /\ v.backlog = x.backlog /\ v.pk = [g EXCEPT ![f] = None] /\ v.lru = x.lru
          /\ v.txq = x.txq /\ v.txp = g[f] /\ v.recvq = x.recvq /\ v.arp = w.arp
      BY <2>7, <3>3, <3>4 DEF HostRec
    <3>7. z = [v EXCEPT !.txq = b]
      BY <2>17, <2>21, <3>1, <3>5, <3>6 DEF HostRec
    <3>8. /\ z \in HostRec
          /\ z.panicked = x.panicked /\ z.ring = x.ring /\ z.left = x.left /\ z.backlog = x.backlog /\ z.pk = [g EXCEPT ![f] = None] /\ z.lru = x.lru
          /\ z.txq = b /\ z.txp = g[f] /\ z.recvq = x.recvq /\ z.arp = w.arp
      BY <3>9, <3>6, <3>7 DEF HostRec
    <3>10. RightHw(z.txp)
      BY <2>19, <3>8
    <3>11. \A p \in Pkt \ {f} : z.pk[p] = g[p]
      BY <2>7, <3>8
    <3>12. \A p \in Pkt \ ToSet(q) : z.pk[p] = x.pk[p]
      BY <2>6, <2>20, <3>11
    <3>13. ASSUME NEW j \in DOMAIN q, j # 1
           PROVE  z.pk[q[j]] # None /\ RightHw(z.pk[q[j]])
      <4>1. <<"arp", e>> \in Place /\ Queue(x, <<"arp", e>>) = q
        BY <1>3, Places, QueueIs
      <4>2. q[j] # f
        BY <1>1, <2>15, <3>13, <4>1 DEF Placed
      <4> QED BY <2>4, <2>5, <3>11, <4>2
    <3>14. /\ z.arp[e].q = << >> /\ z.arp[e].stat = x.arp[e].stat
           /\ z.arp[e].praddr = x.arp[e].praddr /\ z.arp[e].hw = x.arp[e].hw
           /\ \A c \in Entry \ {e} : z.arp[c] = x.arp[c]
      BY <2>9, <2>11, <3>8
    <3>15. /\ z.panicked = x.panicked /\ z.ring = x.ring /\ z.left = x.left /\ z.backlog = x.backlog /\ z.lru = x.lru
           /\ z.recvq = x.recvq /\ z.txq = b
      BY <3>8
    <3>16. Goes(x, e, q, z, 1, n)
      BY <1>3, <2>16, <2>21, <3>8, <3>15, <3>9, <3>10, <3>12, <3>13, <3>14 DEF Goes
    <3> QED BY <2>18, <3>16, QueueGoes
  <2> QED BY <2>22, <2>23
<1> QED BY <1>4, <1>5

LEMMA ArpFields ==
  ASSUME NEW r \in PktRec \cup {None}, r.type = "arp"
  PROVE  /\ r.op \in {"request", "reply", "odd", "other"} /\ r.spa \in Addr /\ r.sha \in HwAddr
<1>1. r \in ArpRec
  BY DEF PktRec, IpRec, Unknown, None
<1> QED BY <1>1 DEF ArpRec

LEMMA ArpReplyIs ==
  ASSUME NEW x, HostOK(x), NEW p, InHand(x, p), x.pk[p].type = "arp"
  PROVE  HostOK(arpreply(x, p)) /\ Kept(x, arpreply(x, p), {p})
<1>1. p \in Pkt /\ NotIn(x, p) /\ x.pk[p] \in PktRec \cup {None}
  BY DEF HostOK, HostRec, InHand
<1>2. x.pk[p].spa \in Addr /\ x.pk[p].sha \in HwAddr
  BY <1>1, ArpFields
<1>3. PICK r : r = ArpPkt("reply", Me, x.pk[p].spa, "me", x.pk[p].sha)
  OBVIOUS
<1>4. r \in PktRec /\ RightHw(r)
  BY <1>2, <1>3, IpAssumption DEF ArpPkt, PktRec, ArpRec, RightHw
<1>5. PICK y : y = Made(x, p, r)
  OBVIOUS
<1>6. r \in PktRec \cup {None} /\ r # None
  BY <1>4, PktTypes
<1>7. HostOK(y) /\ y.pk[p] = r /\ Kept(x, y, {p}) /\ NotIn(y, p)
  <2>1. p \in Pkt /\ NotIn(x, p) /\ r \in PktRec \cup {None}
    BY <1>1, <1>6
  <2> QED BY <1>5, <2>1, SetPk, ZenonT(60)
<1>8. y.pk[p] = r
  BY <1>7
<1>9. InHand(y, p)
  BY <1>1, <1>6, <1>7, <1>8 DEF InHand
<1>10. HostOK(hardwareoutput(y, p)) /\ Kept(y, hardwareoutput(y, p), {p})
  BY <1>4, <1>7, <1>8, <1>9, OutputIs
<1>11. Kept(x, hardwareoutput(y, p), {p})
  BY <1>7, <1>10 DEF Kept
<1>12. arpreply(x, p) = hardwareoutput(y, p)
  BY <1>3, <1>5 DEF arpreply
<1> QED BY <1>10, <1>11, <1>12

LEMMA ArpInputIs ==
  ASSUME NEW x, HostOK(x), NEW p, InHand(x, p), x.pk[p].type = "arp", Tells(x.pk[p])
  PROVE  HostOK(arpinput(x, p)) /\ Kept(x, arpinput(x, p), {p})
<1>1. p \in Pkt /\ x.pk[p] \in PktRec \cup {None}
  BY DEF HostOK, HostRec, InHand
<1>2. PICK r : r = x.pk[p]
  OBVIOUS
<1>3. r.op \in {"request", "reply", "odd", "other"} /\ r.spa \in Addr /\ r.sha \in HwAddr
  BY <1>1, <1>2, ArpFields
<1>4. CASE r.op = "odd"
  <2>1. PICK y : y = Reused(x, INADDRANY)
    OBVIOUS
  <2>2. INADDRANY \in Addr
    BY IpAssumption
  <2>3. HostOK(y) /\ Kept(x, y, {})
    BY <2>1, <2>2, ReusedIs
  <2>4. InHand(y, p)
    BY <1>1, <2>3 DEF Kept
  <2>5. HostOK(delpkt(y, p)) /\ Kept(y, delpkt(y, p), {p})
    BY <2>3, <2>4, DelIs
  <2>6. Kept(x, delpkt(y, p), {p})
    BY <2>3, <2>5 DEF Kept
  <2>7. arpinput(x, p) = delpkt(y, p)
    BY <1>2, <1>4, <2>1 DEF arpinput
  <2> QED BY <2>5, <2>6, <2>7
<1>5. CASE r.op # "odd"
  <2>1. PICK y : y = get(x, r.spa)
    OBVIOUS
  <2>2. PICK e : e = Last(y.lru)
    OBVIOUS
  <2>3. HostOK(y) /\ Kept(x, y, {}) /\ Got(y, e, r.spa)
    BY <1>3, <2>1, <2>2, GetIs
  <2>4. e \in Entry /\ y.arp[e].praddr = r.spa /\ Alone(y, e, r.spa)
    BY <2>3 DEF Got
  <2>5. y \in HostRec /\ y.arp[e] \in ArpentRec /\ y.arp \in [Entry -> ArpentRec]
    BY <2>3, <2>4 DEF HostOK, HostRec
  <2>6. PICK c : c = [y.arp[e] EXCEPT !.stat = "resolved", !.hw = r.sha, !.nrexmit = 0, !.timer = FALSE]
    OBVIOUS
  <2>7. /\ c \in ArpentRec /\ c.q = y.arp[e].q /\ c.stat = "resolved"
        /\ c.praddr = y.arp[e].praddr /\ c.hw = r.sha
    <3>1. PICK h \in HwAddr : h = r.sha
      BY <1>3
    <3>2. \A b \in ArpentRec :
            LET a == [b EXCEPT !.stat = "resolved", !.hw = h, !.nrexmit = 0, !.timer = FALSE] IN
            /\ a \in ArpentRec /\ a.q = b.q /\ a.stat = "resolved"
            /\ a.praddr = b.praddr /\ a.hw = h
      BY DEF ArpentRec
    <3> QED BY <2>5, <2>6, <3>1, <3>2
  <2>8. PICK z : z = WithEntry(y, e, c)
    OBVIOUS
  <2>9. [y EXCEPT !.arp[e].stat = "resolved", !.arp[e].hw = r.sha,
                  !.arp[e].nrexmit = 0, !.arp[e].timer = FALSE] = z
    BY <2>4, <2>5, <2>6, <2>8, ZenonT(60) DEF WithEntry
  <2>10. HostOK(z) /\ Kept(y, z, {})
    <3>1. c.stat = "resolved" => c.hw = HwOf[c.praddr]
      BY <1>2, <1>5, <2>4, <2>7 DEF Tells
    <3>2. c.stat # "inval" => Alone(y, e, c.praddr)
      BY <2>4, <2>7
    <3>3. c.q # << >> => c.stat # "inval" /\ c.praddr = y.arp[e].praddr
      BY <2>7
    <3>4. c \in ArpentRec /\ c.q = y.arp[e].q /\ e \in Entry /\ HostOK(y)
      BY <2>3, <2>4, <2>7
    <3> QED BY <2>8, <3>1, <3>2, <3>3, <3>4, SetEntry
  <2>11. z.arp[e].stat = "resolved"
    <3>1. y \in HostRec /\ c \in ArpentRec /\ e \in Entry
      BY <2>4, <2>5, <2>7
    <3>2. z.arp[e] = c
      BY <2>8, <3>1, EntryFields
    <3> QED BY <2>7, <3>2
  <2>12. InHand(z, p) /\ z.pk[p] = r /\ Kept(x, z, {})
    BY <1>1, <1>2, <2>3, <2>10 DEF Kept
  <2>13. CASE r.op = "request" /\ tothishost(r.tpa)
    <3>1. arpinput(x, p) = arpreply(z, p)
      BY <1>2, <1>5, <2>1, <2>2, <2>9, <2>13 DEF arpinput
    <3>2. HostOK(arpreply(z, p)) /\ Kept(z, arpreply(z, p), {p})
      BY <1>2, <2>10, <2>12, ArpReplyIs
    <3>3. Kept(x, arpreply(z, p), {p})
      BY <2>12, <3>2 DEF Kept
    <3> QED BY <3>1, <3>2, <3>3
  <2>14. CASE r.op = "reply"
    <3>1. PICK w : w = replyarrive(z, e)
      OBVIOUS
    <3>2. HostOK(w) /\ Kept(z, w, {})
      BY <2>4, <2>10, <2>11, <3>1, ReplyIs
    <3>3. InHand(w, p)
      BY <1>1, <2>12, <3>2 DEF Kept
    <3>4. HostOK(delpkt(w, p)) /\ Kept(w, delpkt(w, p), {p})
      BY <3>2, <3>3, DelIs
    <3>5. Kept(x, delpkt(w, p), {p})
      BY <2>12, <3>2, <3>4, SMTT(40) DEF Kept
    <3>6. arpinput(x, p) = delpkt(w, p)
      BY <1>2, <1>5, <2>1, <2>2, <2>9, <2>14, <3>1, ZenonT(60) DEF arpinput
    <3> QED BY <3>4, <3>5, <3>6
  <2>15. CASE r.op # "reply" /\ ~(r.op = "request" /\ tothishost(r.tpa))
    <3>1. arpinput(x, p) = delpkt(z, p)
      BY <1>2, <1>5, <2>1, <2>2, <2>9, <2>15 DEF arpinput
    <3>2. HostOK(delpkt(z, p)) /\ Kept(z, delpkt(z, p), {p})
      BY <2>10, <2>12, DelIs
    <3>3. Kept(x, delpkt(z, p), {p})
      BY <2>12, <3>2 DEF Kept
    <3> QED BY <3>1, <3>2, <3>3
  <2> QED BY <2>13, <2>14, <2>15
<1> QED BY <1>4, <1>5

----------------------------------------------------------------------------
(* Routes, IP, ICMP and UDP. *)

LEMMA RouteIs ==
  ASSUME NEW x \in HostRec, NEW a, HasRoute(x, a)
  PROVE  /\ Min(Covering(x, a)) \in 1 .. Len(x.routes) /\ selectroute(x, a) \in RouteRec
<1>1. PICK l \in Seq(RouteRec) : l = x.routes
  BY DEF HostRec
<1>2. PICK S \in SUBSET Nat : S = Covering(x, a) /\ S # {} /\ S \subseteq 1 .. Len(l)
  <2>1. DOMAIN l = 1 .. Len(l) /\ Len(l) \in Nat
    OBVIOUS
  <2>2. Covering(x, a) \subseteq 1 .. Len(l)
    BY <1>1, <2>1 DEF Covering
  <2>3. Covering(x, a) \in SUBSET Nat
    BY <2>1, <2>2
  <2> QED BY <2>2, <2>3 DEF HasRoute
<1>3. Min(S) \in S
  BY <1>2, MinIs
<1>4. PICK i \in 1 .. Len(l) : i = Min(S)
  BY <1>2, <1>3
<1>5. l[i] \in RouteRec
  OBVIOUS
<1> QED BY <1>1, <1>2, <1>4, <1>5 DEF selectroute

LEMMA DevOutputIs ==
  ASSUME NEW x, HostOK(x), NEW p, InHand(x, p), x.pk[p].type = "ip", NEW r \in RouteRec,
         NEW a \in Addr, Unused(x) # {}, NEW lost \in BOOLEAN
  PROVE  HostOK(DevOutput(x, p, r, a, lost)) /\ Kept(x, DevOutput(x, p, r, a, lost), {p})
<1>1. PICK b \in Addr : b = nexthop(r, a)
  BY DEF nexthop, RouteRec
<1>2. CASE r.dev = "lo" \/ b = Me
  <2>1. DevOutput(x, p, r, a, lost) = DevInput(x, p, lost)
    BY <1>1, <1>2 DEF DevOutput
  <2>2. Tells(x.pk[p])
    BY DEF Tells
  <2> QED BY <2>1, <2>2, InputIs
<1>3. CASE ~(r.dev = "lo" \/ b = Me)
  <2>1. p \in Pkt /\ NotIn(x, p) /\ x.pk[p] \in PktRec \cup {None} /\ x.pk \in [Pkt -> PktRec \cup {None}]
    BY DEF HostOK, HostRec, InHand
  <2>2. PICK s1 : s1 = [x.pk[p] EXCEPT !.hop = b]
    OBVIOUS
  <2>3. s1 \in IpRec /\ s1.hop = b /\ s1.type = "ip"
    BY <2>1, <2>2, IpFields, ZenonT(60)
  <2>4. PICK y : y = Made(x, p, s1)
    OBVIOUS
  <2>5. s1 \in PktRec \cup {None} /\ s1 # None
    BY <2>3, PktTypes DEF PktRec
  <2>6. /\ HostOK(y) /\ y.pk[p] = s1 /\ Kept(x, y, {p}) /\ NotIn(y, p)
        /\ \A q \in Pkt \ {p} : y.pk[q] = x.pk[q]
    <3>1. p \in Pkt /\ NotIn(x, p) /\ s1 \in PktRec \cup {None}
      BY <2>1, <2>5
    <3> QED BY <2>4, <3>1, SetPk, SMTT(40)
  <2>7. InHand(y, p) /\ y.pk[p].type = "ip" /\ y.pk[p].hop = b
    BY <2>1, <2>3, <2>5, <2>6 DEF InHand
  <2>8. Unused(y) # {}
    <3>1. PICK u \in Pkt : x.pk[u] = None
      BY DEF Unused
    <3>2. u # p
      BY <3>1 DEF InHand
    <3>3. y.pk[u] = None
      BY <2>6, <3>1, <3>2
    <3> QED BY <3>3 DEF Unused
  <2>9. HostOK(arpoutput(y, p, b)) /\ Kept(y, arpoutput(y, p, b), {p})
    BY <2>6, <2>7, <2>8, ArpOutputIs
  <2>10. Kept(x, arpoutput(y, p, b), {p})
    BY <2>6, <2>9 DEF Kept
  <2>11. y = [x EXCEPT !.pk[p].hop = b]
    BY <2>1, <2>2, <2>4 DEF Made
  <2>12. DevOutput(x, p, r, a, lost) = arpoutput(y, p, b)
    BY <1>1, <1>3, <2>11 DEF DevOutput
  <2> QED BY <2>9, <2>10, <2>12
<1> QED BY <1>2, <1>3

LEMMA ForwardIs ==
  ASSUME NEW x, HostOK(x), NEW p, InHand(x, p), x.pk[p].type = "ip", Unused(x) # {},
         NEW lost \in BOOLEAN
  PROVE  HostOK(ipforward(x, p, lost)) /\ Kept(x, ipforward(x, p, lost), {p})
<1>1. PICK a \in Addr : a = x.pk[p].dst
  <2>1. x.pk[p] \in PktRec \cup {None}
    BY DEF HostOK, HostRec, InHand
  <2> QED BY <2>1, IpFields
<1>2. CASE HasRoute(x, a)
  <2>1. PICK r \in RouteRec : r = selectroute(x, a)
    BY <1>2, RouteIs DEF HostOK
  <2>2. ipforward(x, p, lost) = DevOutput(x, p, r, a, lost)
    BY <1>1, <1>2, <2>1 DEF ipforward
  <2> QED BY <2>2, DevOutputIs
<1>3. CASE ~HasRoute(x, a)
  <2>1. ipforward(x, p, lost) = delpkt(x, p)
    BY <1>1, <1>3 DEF ipforward
  <2> QED BY <2>1, DelIs
<1> QED BY <1>2, <1>3

LEMMA IpOutputIs ==
  ASSUME NEW x, HostOK(x), NEW p, InHand(x, p), x.pk[p].type = "ip", Unused(x) # {},
         NEW lost \in BOOLEAN
  PROVE  HostOK(ipoutput(x, p, lost)) /\ Kept(x, ipoutput(x, p, lost), {p})
<1>1. p \in Pkt /\ NotIn(x, p) /\ x.pk[p] \in PktRec \cup {None} /\ x.pk \in [Pkt -> PktRec \cup {None}]
  BY DEF HostOK, HostRec, InHand
<1>2. PICK r : r = x.pk[p]
  OBVIOUS
<1>3. PICK a \in Addr : a = r.dst /\ r.src \in Addr
  BY <1>1, <1>2, IpFields
<1>6. r.type = "ip" /\ r \in PktRec \cup {None}
  BY <1>1, <1>2
<1>4. CASE HasRoute(x, a)
  <2>1. PICK c \in RouteRec : c = selectroute(x, a)
    BY <1>4, RouteIs DEF HostOK
  <2>2. PICK b \in Addr : b = (IF r.src # INADDRANY THEN r.src ELSE IF c.dev = "lo" THEN Lo ELSE Me)
    BY <1>3, IpAssumption
  <2>3. PICK d : d = [r EXCEPT !.src = b]
    OBVIOUS
  <2>4. d \in IpRec /\ d.type = "ip"
    <3>1. [r EXCEPT !.src = b] \in IpRec /\ [r EXCEPT !.src = b].type = "ip"
      BY <1>6, IpFields
    <3> QED BY <2>3, <3>1
  <2>5. PICK y : y = Made(x, p, d)
    OBVIOUS
  <2>6. d \in PktRec \cup {None} /\ d # None
    BY <2>4, PktTypes DEF PktRec
  <2>7. /\ HostOK(y) /\ y.pk[p] = d /\ Kept(x, y, {p}) /\ NotIn(y, p)
        /\ \A q \in Pkt \ {p} : y.pk[q] = x.pk[q]
    <3>1. p \in Pkt /\ NotIn(x, p) /\ d \in PktRec \cup {None}
      BY <1>1, <2>6
    <3> QED BY <2>5, <3>1, SetPk, ZenonT(60)
  <2>8. InHand(y, p) /\ y.pk[p].type = "ip"
    BY <1>1, <2>4, <2>6, <2>7 DEF InHand
  <2>9. Unused(y) # {}
    <3>1. PICK u \in Pkt : x.pk[u] = None
      BY DEF Unused
    <3>2. u # p
      BY <3>1 DEF InHand
    <3>3. y.pk[u] = None
      BY <2>7, <3>1, <3>2
    <3> QED BY <3>3 DEF Unused
  <2>10. PICK z : z = DevOutput(y, p, c, a, lost)
    OBVIOUS
  <2>11. HostOK(z) /\ Kept(y, z, {p})
    BY <2>7, <2>8, <2>9, <2>10, DevOutputIs
  <2>12. Kept(x, z, {p})
    BY <2>7, <2>11 DEF Kept
  <2>13. y = [x EXCEPT !.pk[p].src = b]
    BY <1>1, <1>2, <2>3, <2>5 DEF Made
  <2>14. ipoutput(x, p, lost) = z
    BY <1>2, <1>3, <1>4, <2>1, <2>2, <2>10, <2>13 DEF ipoutput
  <2> QED BY <2>11, <2>12, <2>14
<1>5. CASE ~HasRoute(x, a)
  <2>1. ipoutput(x, p, lost) = delpkt(x, p)
    BY <1>2, <1>3, <1>5 DEF ipoutput
  <2> QED BY <2>1, DelIs
<1> QED BY <1>4, <1>5

\* There is room for a packet and for the ARP request that it may need.
TwoUnused(x) == \E p, q \in Unused(x) : p # q

LEMMA IpPktIs ==
  ASSUME NEW a \in Addr, NEW b \in Addr, NEW port \in Port
  PROVE  /\ IpPkt("icmp", a, b, port) \in IpRec /\ IpPkt("icmp", a, b, port).dst = b
         /\ IpPkt("udp", a, b, port) \in IpRec /\ IpPkt("udp", a, b, port).dst = b
  BY IpAssumption DEF IpPkt, IpRec

LEMMA NewIpPkt ==
  ASSUME NEW x, HostOK(x), TwoUnused(x), NEW r \in IpRec,
         NEW p, p = newpkt(x), NEW y, y = Made(x, p, r)
  PROVE  /\ p \in Unused(x) /\ HostOK(y) /\ InHand(y, p) /\ y.pk[p] = r /\ r.type = "ip"
         /\ Kept(x, y, {p}) /\ Unused(y) # {} /\ y.routes = x.routes
<1>1. r \in PktRec /\ r.type = "ip"
  BY DEF PktRec, IpRec
<1>2. Unused(x) # {}
  BY DEF TwoUnused
<1>3. /\ p \in Unused(x) /\ HostOK(y) /\ InHand(y, p) /\ y.pk[p] = r
      /\ Kept(x, y, {p}) /\ y.routes = x.routes
  BY <1>1, <1>2, MadeIs
<1>4. \A q \in Pkt \ {p} : y.pk[q] = x.pk[q]
  BY <1>1, <1>2, MadeIs
<1>5. PICK u \in Unused(x) : u # p
  BY DEF TwoUnused
<1>6. u \in Unused(y)
  BY <1>4, <1>5 DEF Unused
<1> QED BY <1>1, <1>3, <1>6

LEMMA IcmpInputIs ==
  ASSUME NEW x, HostOK(x), NEW p, InHand(x, p), x.pk[p].type = "ip", TwoUnused(x),
         NEW lost \in BOOLEAN
  PROVE  HostOK(icmpinput(x, p, lost)) /\ Kept(x, icmpinput(x, p, lost), {p})
<1>1. p \in Pkt /\ x.pk[p] \in PktRec \cup {None}
  BY DEF HostOK, HostRec, InHand
<1>2. PICK a \in Addr, b \in Addr : a = x.pk[p].dst /\ b = x.pk[p].src
  BY <1>1, IpFields
<1>3. PICK q : q = newpkt(x)
  OBVIOUS
<1>4. PICK y : y = Made(x, q, IpPkt("icmp", a, b, Eph))
  OBVIOUS
<1>5. /\ q \in Unused(x) /\ HostOK(y) /\ InHand(y, q) /\ y.pk[q].type = "ip"
      /\ Kept(x, y, {q}) /\ Unused(y) # {}
  <2>1. PICK r \in IpRec : r = IpPkt("icmp", a, b, Eph)
    BY IpPktIs, IpAssumption
  <2>2. y = Made(x, q, r)
    BY <1>4, <2>1
  <2> QED BY <1>3, <2>2, NewIpPkt
<1>6. PICK z : z = ipoutput(y, q, lost)
  OBVIOUS
<1>7. HostOK(z) /\ Kept(y, z, {q})
  BY <1>5, <1>6, IpOutputIs
<1>8. p # q
  BY <1>5 DEF InHand, Unused
<1>9. Kept(x, z, {q}) /\ InHand(z, p)
  BY <1>1, <1>5, <1>7, <1>8 DEF Kept
<1>10. ~InHand(x, q)
  BY <1>5 DEF InHand, Unused
<1>11. HostOK(delpkt(z, p)) /\ Kept(z, delpkt(z, p), {p})
  BY <1>7, <1>9, DelIs
<1>12. Kept(x, delpkt(z, p), {p})
  BY <1>9, <1>10, <1>11 DEF Kept
<1>13. icmpinput(x, p, lost) = delpkt(z, p)
  BY <1>2, <1>3, <1>4, <1>6 DEF icmpinput, icmpoutput
<1> QED BY <1>11, <1>12, <1>13

\* A socket's queue changes only by getting longer.
Longer(x, y) ==
  /\ y.panicked = x.panicked /\ y.ring = x.ring /\ y.left = x.left
  /\ \A s1 \in USock : y.recvq[s1] = x.recvq[s1] \/ Len(y.recvq[s1]) > Len(x.recvq[s1])

LEMMA UdpInputIs ==
  ASSUME NEW x, HostOK(x), NEW p, InHand(x, p)
  PROVE  HostOK(udpinput(x, p)) /\ Longer(x, udpinput(x, p))
<1>1. x \in HostRec /\ p \in Pkt /\ Placed(x) /\ NotIn(x, p) /\ x.pk[p] # None
  BY DEF HostOK, InHand
<1>2. PICK l \in Seq(SockRec) : l = x.socks
  BY <1>1 DEF HostRec
<1>3. PICK H : H = {i \in DOMAIN x.socks : Matches(x.socks[i], x.pk[p])}
  OBVIOUS
<1>4. CASE H = {}
  <2>1. udpinput(x, p) = delpkt(x, p)
    BY <1>3, <1>4 DEF udpinput
  <2>2. HostOK(delpkt(x, p)) /\ Kept(x, delpkt(x, p), {p})
    BY DelIs
  <2> QED BY <2>1, <2>2 DEF Kept, Longer
<1>5. CASE H # {}
  <2>1. H \subseteq 1 .. Len(l) /\ Len(l) \in Nat
    BY <1>2, <1>3
  <2>2. H \in SUBSET Nat
    BY <2>1
  <2>3. Min(H) \in H
    BY <1>5, <2>2, MinIs
  <2>4. PICK i \in 1 .. Len(l) : i = Min(H)
    BY <2>1, <2>3
  <2>5. l[i] \in SockRec
    OBVIOUS
  <2>6. PICK u \in USock : u = l[i].id
    BY <2>5 DEF SockRec
  <2>7. x.recvq \in [USock -> Seq(Pkt)]
    BY <1>1 DEF HostRec
  <2>8. PICK q \in Seq(Pkt) : q = x.recvq[u]
    BY <2>7
  <2>9. Append(q, p) \in Seq(Pkt) /\ Len(Append(q, p)) = Len(q) + 1 /\ Len(q) \in Nat
    BY <1>1, AppendProperties
  <2>10. PICK a \in Seq(Pkt) : a = Append(q, p)
    BY <2>9
  <2>24. Len(a) > Len(q)
    <3>1. PICK n \in Nat : n = Len(q)
      BY <2>9
    <3>2. Len(a) = n + 1
      BY <2>9, <2>10, <3>1
    <3> QED BY <3>1, <3>2
  <2>11. PICK y : y = [x EXCEPT !.recvq = [x.recvq EXCEPT ![u] = a]]
    OBVIOUS
  <2>12. udpinput(x, p) = y
    BY <1>2, <1>3, <1>5, <2>4, <2>6, <2>8, <2>10, <2>11 DEF udpinput
  <2>13. [x.recvq EXCEPT ![u] = a] \in [USock -> Seq(Pkt)]
    BY <2>7
  <2>14. /\ y \in HostRec
         /\ y.panicked = x.panicked /\ y.ring = x.ring /\ y.left = x.left /\ y.pk = x.pk /\ y.arp = x.arp /\ y.lru = x.lru
         /\ y.backlog = x.backlog /\ y.txp = x.txp /\ y.txq = x.txq
         /\ y.recvq = [x.recvq EXCEPT ![u] = a]
    BY <1>1, <2>11, <2>13 DEF HostRec
  <2>15. y.recvq[u] = a /\ \A s1 \in USock \ {u} : y.recvq[s1] = x.recvq[s1]
    BY <2>7, <2>14
  <2>16. PICK k \in Place : k = <<"recv", u>>
    BY Places
  <2>17. Queue(y, k) = Append(Queue(x, k), p)
    BY <2>8, <2>10, <2>15, <2>16, QueueIs
  <2>18. \A m \in Place \ {k} : Queue(y, m) = Queue(x, m)
    <3> SUFFICES ASSUME NEW m \in Place \ {k} PROVE Queue(y, m) = Queue(x, m)
      OBVIOUS
    <3>1. CASE \E v \in USock : m = <<"recv", v>>
      <4>1. PICK v \in USock : m = <<"recv", v>>
        BY <3>1
      <4>2. v # u
        BY <2>16, <4>1
      <4>3. Queue(y, m) = y.recvq[v] /\ Queue(x, m) = x.recvq[v]
        BY <4>1, QueueIs
      <4> QED BY <2>15, <4>2, <4>3
    <3>2. CASE ~\E v \in USock : m = <<"recv", v>>
      <4>1. m = <<"backlog", 0>> \/ m = <<"txq", 0>> \/ \E e \in Entry : m = <<"arp", e>>
        BY <3>2, Places
      <4>2. y.backlog = x.backlog /\ y.txq = x.txq /\ y.arp = x.arp
        BY <2>14
      <4> HIDE <3>2
      <4> QED BY <4>1, <4>2, QueueIs
    <3> QED BY <3>1, <3>2
  <2>19. y.pk[p] # None /\ \A c : ~NotIn(x, c) => y.pk[c] # None
    BY <1>1, <2>14 DEF Placed, NotIn
  <2>20. Placed(y)
    BY <1>1, <2>17, <2>18, <2>19, PlacedAppend
  <2>21. Listed(y) /\ OneEntry(y) /\ Outgoing(y) /\ Incoming(y) /\ \A e \in Entry : EntryOK(y, e)
    BY <2>14 DEF HostOK, Listed, OneEntry, Outgoing, Incoming, EntryOK
  <2>22. HostOK(y)
    BY <2>14, <2>20, <2>21 DEF HostOK
  <2>23. Longer(x, y)
    BY <2>8, <2>24, <2>14, <2>15 DEF Longer
  <2> QED BY <2>12, <2>22, <2>23
<1> QED BY <1>4, <1>5

LEMMA NetrxIs ==
  ASSUME NEW x, HostOK(x), NEW p, InHand(x, p), Tells(x.pk[p]), NEW lost \in BOOLEAN,
         Needs(x.pk[p]) = 2 => TwoUnused(x)
  PROVE  HostOK(netrx(x, p, lost)) /\ Longer(x, netrx(x, p, lost))
<1>0. \A y : Kept(x, y, {p}) => Longer(x, y)
  BY DEF Kept, Longer
<1>1. p \in Pkt /\ NotIn(x, p) /\ x.pk[p] \in PktRec \cup {None} /\ x.pk[p] # None
  BY DEF HostOK, HostRec, InHand
<1>2. PICK r \in PktRec : r = x.pk[p]
  BY <1>1
<1>3. CASE r.type = "arp"
  <2>1. netrx(x, p, lost) = arpinput(x, p)
    BY <1>2, <1>3 DEF netrx
  <2> QED BY <1>0, <1>2, <1>3, <2>1, ArpInputIs
<1>4. CASE r.type \notin {"ip", "arp"}
  <2>1. netrx(x, p, lost) = Made(x, p, None)
    BY <1>2, <1>4 DEF netrx, Made
  <2>2. HostOK(Made(x, p, None)) /\ Kept(x, Made(x, p, None), {p})
    BY <1>1, SetPk
  <2> QED BY <1>0, <2>1, <2>2
<1>5. CASE r.type = "ip"
  <2>1. netrx(x, p, lost) = ipinput(x, p, lost)
    BY <1>2, <1>5 DEF netrx
  <2>2. r.ok \in BOOLEAN /\ r.proto \in {"tcp", "udp", "icmp", "other"}
    <3>1. r \in IpRec
      BY <1>5, IpFields
    <3> QED BY <3>1 DEF IpRec
  <2>3. CASE ~r.ok \/ (r.ok /\ tothishost(r.dst) /\ r.proto = "tcp")
    <3>1. ipinput(x, p, lost) = delpkt(x, p)
      BY <1>2, <2>3 DEF ipinput
    <3> QED BY <1>0, <2>1, <3>1, DelIs
  <2>4. CASE r.ok /\ tothishost(r.dst) /\ r.proto = "udp"
    <3>1. ipinput(x, p, lost) = udpinput(x, p)
      BY <1>2, <2>4 DEF ipinput
    <3> QED BY <2>1, <3>1, UdpInputIs
  <2>5. CASE r.ok /\ tothishost(r.dst) /\ r.proto \in {"icmp", "other"}
    <3>1. ipinput(x, p, lost) = icmpinput(x, p, lost)
      BY <1>2, <2>5 DEF ipinput
    <3>2. TwoUnused(x)
      BY <1>2, <1>5, <2>5 DEF Needs
    <3> QED BY <1>0, <1>2, <1>5, <2>1, <3>1, <3>2, IcmpInputIs
  <2>6. CASE r.ok /\ ~tothishost(r.dst)
    <3>1. ipinput(x, p, lost) = ipforward(x, p, lost)
      BY <1>2, <2>6 DEF ipinput
    <3>2. Unused(x) # {}
      BY <1>2, <1>5, <2>6 DEF Needs, TwoUnused
    <3> QED BY <1>0, <1>2, <1>5, <2>1, <3>1, <3>2, ForwardIs
  <2> QED BY <2>2, <2>3, <2>4, <2>5, <2>6
<1> QED BY <1>3, <1>4, <1>5

----------------------------------------------------------------------------
(* The steps. *)

RcvRec == [pc : {"user", "wait", "woken"}, s : USock]
IpInv ==
  /\ HostOK(host) /\ host.left <= Len(host.ring)
  /\ rcv \in [UTask -> RcvRec] /\ NoSleepWithPacket

\* A datagram for an address that no route leads to, whose packet both ipoutput
\* and sendto delete.
SendsNowhere ==
  \E s1 \in USock, d \in Dests, lost \in BOOLEAN : Sendto(s1, d, lost) /\ ~HasRoute(host, d.addr)
StepOK == IpInv' /\ (host'.panicked = host.panicked \/ SendsNowhere)

LEMMA StillOK ==
  ASSUME NEW x, HostOK(x), NEW y \in HostRec, Placed(y),
         y.pk = x.pk, y.arp = x.arp, y.lru = x.lru, RightHw(y.txp),
         \A i \in DOMAIN y.txq : \E j \in DOMAIN x.txq : y.txq[i] = x.txq[j],
         \A i \in DOMAIN y.backlog : \E j \in DOMAIN x.backlog : y.backlog[i] = x.backlog[j]
  PROVE  HostOK(y)
<1>1. Listed(y) /\ OneEntry(y) /\ \A e \in Entry : EntryOK(y, e)
  BY DEF HostOK, Listed, OneEntry, EntryOK
<1>2. Outgoing(y) /\ Incoming(y)
  BY DEF HostOK, Outgoing, Incoming
<1> QED BY <1>1, <1>2 DEF HostOK

LEMMA SameQueues ==
  ASSUME NEW x, HostOK(x), NEW y \in HostRec, RightHw(y.txp),
         y.pk = x.pk, y.backlog = x.backlog, y.arp = x.arp, y.lru = x.lru, y.txq = x.txq,
         y.recvq = x.recvq
  PROVE  HostOK(y)
<1>1. \A k \in Place : Queue(y, k) = Queue(x, k)
  BY DEF Queue
<1>2. \A q : ~NotIn(x, q) => y.pk[q] # None
  BY DEF HostOK, Placed, NotIn
<1>3. Placed(y)
  BY <1>1, <1>2, PlacedSame DEF HostOK
<1> QED BY <1>3, StillOK

LEMMA TailIs ==
  ASSUME NEW q \in Seq(Pkt), q # << >>
  PROVE  /\ Tail(q) \in Seq(Pkt) /\ 1 \in DOMAIN q /\ Head(q) = q[1]
         /\ \A i \in DOMAIN Tail(q) : \E j \in DOMAIN q : Tail(q)[i] = q[j]
<1>1. PICK t \in Seq(Pkt) : t = Tail(q)
  BY HeadTailProperties
<1>2. PICK m \in Nat : m = Len(q) /\ m > 0
  BY EmptySeq
<1>3. Len(t) = m - 1 /\ (\A i \in 1 .. m - 1 : t[i] = q[i + 1]) /\ Head(q) = q[1]
  BY <1>1, <1>2, HeadTailProperties
<1>4. DOMAIN t = 1 .. m - 1 /\ DOMAIN q = 1 .. m
  BY <1>2, <1>3
<1>5. ASSUME NEW i \in DOMAIN t PROVE \E j \in DOMAIN q : t[i] = q[j]
  <2>1. i \in 1 .. m - 1 /\ i + 1 \in 1 .. m
    BY <1>2, <1>4
  <2> QED BY <1>3, <1>4, <2>1
<1> QED BY <1>1, <1>2, <1>3, <1>4, <1>5

LEMMA RoomIs ==
  ASSUME NEW x
  PROVE  /\ Cardinality(Unused(x)) >= 1 => Unused(x) # {}
         /\ Cardinality(Unused(x)) >= 2 => TwoUnused(x)
<1>1. IsFiniteSet(Pkt)
  BY IpAssumption, FS_Interval DEF Pkt
<1>2. Unused(x) \subseteq Pkt
  BY DEF Unused
<1>3. PICK U : U = Unused(x) /\ IsFiniteSet(U)
  BY <1>1, <1>2, FS_Subset
<1>4. U = {} => Cardinality(U) = 0
  BY FS_EmptySet
<1>5. \A p : Cardinality({p}) = 1
  BY FS_Singleton
<1>6. ASSUME Cardinality(U) >= 2 PROVE \E p, q \in U : p # q
  <2>1. U # {}
    BY <1>4, <1>6
  <2>2. PICK p \in U : TRUE
    BY <2>1
  <2>3. U # {p}
    <3> SUFFICES ASSUME U = {p} PROVE FALSE
      OBVIOUS
    <3>1. Cardinality(U) = 1
      BY <1>5
    <3> QED BY <1>6, <3>1
  <2> QED BY <2>2, <2>3
<1> QED BY <1>3, <1>4, <1>6 DEF TwoUnused

LEMMA OnlyHost ==
  ASSUME IpInv, NEW x, host' = x, rcv' = rcv, HostOK(x), x.recvq = host.recvq, x.left <= Len(x.ring),
         x.panicked = host.panicked \/ SendsNowhere
  PROVE  StepOK
  BY DEF IpInv, StepOK, NoSleepWithPacket

LEMMA OnlyIs ==
  ASSUME IpInv, NEW x, Only(x), HostOK(x), x.recvq = host.recvq, x.left <= Len(x.ring),
         x.panicked = host.panicked \/ SendsNowhere
  PROVE  StepOK
  BY OnlyHost DEF Only

LEMMA OnlyKept ==
  ASSUME IpInv, NEW x, Only(x), HostOK(x), NEW P, Kept(host, x, P)
  PROVE  StepOK
<1>1. x.recvq = host.recvq /\ x.panicked = host.panicked /\ x.left = host.left /\ x.ring = host.ring
  BY DEF Kept
<1>2. x.left <= Len(x.ring)
  BY <1>1 DEF IpInv
<1> QED BY <1>1, <1>2, OnlyIs

LEMMA ArriveOK ==
  ASSUME IpInv, NEW f \in Frames, Arrive(f)
  PROVE  StepOK
<1>1. HostOK(host) /\ host \in HostRec
  BY DEF IpInv, HostOK
<1>2. PICK q \in Seq(Frames) : q = host.ring
  BY <1>1 DEF HostRec
<1>3. PICK n \in Nat, m \in Nat : n = Len(q) /\ m = host.left /\ m <= n
  BY <1>1, <1>2 DEF IpInv, HostRec
<1>4. Append(q, f) \in Seq(Frames) /\ Len(Append(q, f)) = n + 1
  BY <1>3, AppendProperties
<1>5. PICK y : y = [host EXCEPT !.ring = Append(q, f), !.flags = @ \cup {"prx"}]
  OBVIOUS
<1>6. host.flags \cup {"prx"} \in SUBSET {"prx", "ptx"}
  BY <1>1 DEF HostRec
<1>7. /\ y \in HostRec /\ y.ring = Append(q, f) /\ y.left = m
      /\ y.panicked = host.panicked /\ y.pk = host.pk /\ y.backlog = host.backlog /\ y.arp = host.arp
      /\ y.lru = host.lru /\ y.txq = host.txq /\ y.txp = host.txp /\ y.recvq = host.recvq
  BY <1>1, <1>3, <1>4, <1>5, <1>6 DEF HostRec
<1>8. RightHw(y.txp)
  BY <1>1, <1>7 DEF HostOK, Outgoing
<1>9. HostOK(y)
  BY <1>1, <1>7, <1>8, SameQueues
<1>10. y.left <= Len(y.ring)
  BY <1>3, <1>4, <1>7
<1>11. Only(y)
  BY <1>2, <1>5 DEF Arrive
<1> QED BY <1>7, <1>9, <1>10, <1>11, OnlyIs

LEMMA TransmittedOK ==
  ASSUME IpInv, Transmitted
  PROVE  StepOK
<1>1. HostOK(host) /\ host \in HostRec
  BY DEF IpInv, HostOK
<1>2. PICK y : y = [host EXCEPT !.txp = None, !.flags = @ \cup {"ptx"}]
  OBVIOUS
<1>3. host.flags \cup {"ptx"} \in SUBSET {"prx", "ptx"}
  BY <1>1 DEF HostRec
<1>4. /\ y \in HostRec /\ y.ring = host.ring /\ y.left = host.left /\ y.txp = None
      /\ y.panicked = host.panicked /\ y.pk = host.pk /\ y.backlog = host.backlog /\ y.arp = host.arp
      /\ y.lru = host.lru /\ y.txq = host.txq /\ y.recvq = host.recvq
  BY <1>1, <1>2, <1>3 DEF HostRec
<1>5. RightHw(y.txp)
  BY <1>4, PktTypes DEF RightHw
<1>6. HostOK(y)
  BY <1>1, <1>4, <1>5, SameQueues
<1>7. y.left <= Len(y.ring) /\ Only(y)
  BY <1>2, <1>4 DEF IpInv, Transmitted
<1> QED BY <1>4, <1>6, <1>7, OnlyIs

\* The first packet of the card's queue goes out.
LEMMA IsrptxIs ==
  ASSUME NEW x, HostOK(x)
  PROVE  /\ HostOK(isrptx(x)) /\ isrptx(x).recvq = x.recvq /\ isrptx(x).panicked = x.panicked
         /\ isrptx(x).ring = x.ring /\ isrptx(x).left = x.left
<1>1. x \in HostRec /\ Placed(x)
  BY DEF HostOK
<1>2. PICK q \in Seq(Pkt) : q = x.txq
  BY <1>1 DEF HostRec
<1>3. CASE q = << >>
  BY <1>2, <1>3 DEF isrptx
<1>4. CASE q # << >>
  <2>1. /\ Tail(q) \in Seq(Pkt) /\ 1 \in DOMAIN q /\ Head(q) = q[1]
        /\ \A i \in DOMAIN Tail(q) : \E j \in DOMAIN q : Tail(q)[i] = q[j]
    BY <1>4, TailIs
  <2>2. PICK y : y = [x EXCEPT !.txq = Tail(q)]
    OBVIOUS
  <2>3. PICK p : p = Head(q)
    OBVIOUS
  <2>4. isrptx(x) = hardwareoutput(y, p)
    BY <1>2, <1>4, <2>2, <2>3 DEF isrptx
  <2>5. /\ y \in HostRec /\ y.ring = x.ring /\ y.left = x.left /\ y.txq = Tail(q) /\ y.txp = x.txp
        /\ y.panicked = x.panicked /\ y.pk = x.pk /\ y.backlog = x.backlog /\ y.arp = x.arp
        /\ y.lru = x.lru /\ y.recvq = x.recvq
    BY <1>1, <2>1, <2>2 DEF HostRec
  <2>6. PICK k \in Place : k = <<"txq", 0>>
    BY Places
  <2>7. Queue(x, k) = q /\ Queue(y, k) = Tail(q)
    BY <1>2, <2>5, <2>6, QueueIs
  <2>8. \A m \in Place \ {k} : Queue(y, m) = Queue(x, m)
    BY <2>5, <2>6, QueueIs, Places
  <2>9. \A c : ~NotIn(x, c) => y.pk[c] # None
    BY <1>1, <2>5 DEF Placed, NotIn
  <2>10. Placed(y) /\ NotIn(y, p) /\ p \in Pkt /\ ~NotIn(x, p)
    <3>1. Queue(x, k) # << >> /\ Queue(y, k) = Tail(Queue(x, k)) /\ p = Head(Queue(x, k))
      BY <1>4, <2>3, <2>7
    <3> QED BY <1>1, <2>8, <2>9, <3>1, PlacedTail
  <2>11. RightHw(y.txp) /\ RightHw(y.pk[p])
    BY <1>2, <2>1, <2>3, <2>5 DEF HostOK, Outgoing
  <2>12. HostOK(y)
    <3>1. \A i \in DOMAIN y.txq : \E j \in DOMAIN x.txq : y.txq[i] = x.txq[j]
      BY <1>2, <2>1, <2>5
    <3>2. \A i \in DOMAIN y.backlog : \E j \in DOMAIN x.backlog : y.backlog[i] = x.backlog[j]
      BY <2>5
    <3> QED BY <2>5, <2>10, <2>11, <3>1, <3>2, StillOK
  <2>13. InHand(y, p)
    BY <2>9, <2>10 DEF InHand
  <2>14. HostOK(hardwareoutput(y, p)) /\ Kept(y, hardwareoutput(y, p), {p})
    BY <2>11, <2>12, <2>13, OutputIs
  <2> QED BY <2>4, <2>5, <2>14 DEF Kept
<1> QED BY <1>3, <1>4

LEMMA IsrOK ==
  ASSUME IpInv, Isr
  PROVE  StepOK
<1>1. HostOK(host)
  BY DEF IpInv
<1>2. PICK x : x = (IF "ptx" \in host.flags THEN isrptx(host) ELSE host)
  OBVIOUS
<1>3. /\ HostOK(x) /\ x.recvq = host.recvq /\ x.panicked = host.panicked
      /\ x.ring = host.ring /\ x.left = host.left
  BY <1>1, <1>2, IsrptxIs
<1>4. x \in HostRec /\ Len(x.ring) \in Nat
  BY <1>3 DEF HostOK, HostRec
<1>5. PICK y : y = (IF "prx" \in host.flags THEN isrprx(x) ELSE x)
  OBVIOUS
<1>6. host' = y
  BY <1>2, <1>5 DEF Isr
<1>7. CASE "prx" \in host.flags
  <2>1. y = [x EXCEPT !.left = Len(x.ring)]
    BY <1>5, <1>7 DEF isrprx
  <2>2. /\ y \in HostRec /\ y.ring = x.ring /\ y.left = Len(x.ring) /\ y.txq = x.txq /\ y.txp = x.txp
        /\ y.panicked = x.panicked /\ y.pk = x.pk /\ y.backlog = x.backlog /\ y.arp = x.arp
        /\ y.lru = x.lru /\ y.recvq = x.recvq
    BY <1>4, <2>1 DEF HostRec
  <2>3. RightHw(y.txp)
    BY <1>3, <2>2 DEF HostOK, Outgoing
  <2>4. HostOK(y)
    BY <1>3, <2>2, <2>3, SameQueues
  <2>5. y.left <= Len(y.ring)
    BY <1>4, <2>2
  <2> QED BY <1>3, <1>6, <2>2, <2>4, <2>5 DEF IpInv, StepOK, NoSleepWithPacket, Isr
<1>8. CASE "prx" \notin host.flags
  <2>1. y = x
    BY <1>5, <1>8
  <2> QED BY <1>3, <1>6, <2>1 DEF IpInv, StepOK, NoSleepWithPacket, Isr
<1> QED BY <1>7, <1>8

LEMMA IsrFetchOK ==
  ASSUME IpInv, IsrFetch
  PROVE  StepOK
<1>1. HostOK(host) /\ host \in HostRec /\ host.left > 0
  BY DEF IpInv, HostOK, IsrFetch
<1>2. PICK q \in Seq(Frames) : q = host.ring
  BY <1>1 DEF HostRec
<1>3. PICK n \in Nat, m \in Nat : n = Len(q) /\ m = host.left /\ m <= n
  BY <1>1, <1>2 DEF IpInv, HostRec
<1>4. q # << >> /\ m > 0 /\ m - 1 \in Nat
  BY <1>1, <1>3
<1>5. Head(q) \in Frames /\ Tail(q) \in Seq(Frames) /\ Len(Tail(q)) = n - 1
  BY <1>3, <1>4, HeadTailProperties
<1>6. PICK y : y = [host EXCEPT !.ring = Tail(q), !.left = m - 1]
  OBVIOUS
<1>7. /\ y \in HostRec /\ y.ring = Tail(q) /\ y.left = m - 1 /\ y.txq = host.txq /\ y.txp = host.txp
      /\ y.panicked = host.panicked /\ y.pk = host.pk /\ y.backlog = host.backlog /\ y.arp = host.arp
      /\ y.lru = host.lru /\ y.recvq = host.recvq
  BY <1>1, <1>4, <1>5, <1>6 DEF HostRec
<1>8. RightHw(y.txp)
  BY <1>1, <1>7 DEF HostOK, Outgoing
<1>9. HostOK(y)
  BY <1>1, <1>7, <1>8, SameQueues
<1>10. y.left <= Len(y.ring)
  BY <1>3, <1>5, <1>7
<1>11. CASE Unused(y) = {}
  <2>1. Only(y)
    BY <1>2, <1>3, <1>6, <1>11 DEF IsrFetch, Fetched
  <2> QED BY <1>7, <1>9, <1>10, <2>1, OnlyIs
<1>12. CASE Unused(y) # {}
  <2>1. PICK r \in PktRec : r = Head(q) /\ Tells(r)
    BY <1>5, IpAssumption DEF Tells
  <2>2. PICK p : p = newpkt(y)
    OBVIOUS
  <2>3. PICK z : z = Made(y, p, r)
    OBVIOUS
  <2>4. HostOK(z) /\ InHand(z, p) /\ z.pk[p] = r /\ Kept(y, z, {p})
    BY <1>9, <1>12, <2>2, <2>3, MadeIs
  <2>5. PICK w : w = DevInput(z, p, FALSE)
    OBVIOUS
  <2>6. HostOK(w) /\ Kept(z, w, {p})
    BY <2>1, <2>4, <2>5, InputIs
  <2>7. Only(w)
    BY <1>2, <1>3, <1>6, <1>12, <2>1, <2>2, <2>3, <2>5 DEF IsrFetch, Fetched
  <2>8. w.recvq = host.recvq /\ w.panicked = host.panicked /\ w.ring = y.ring /\ w.left = y.left
    BY <1>7, <2>4, <2>6 DEF Kept
  <2> QED BY <1>10, <2>6, <2>7, <2>8, OnlyIs
<1> QED BY <1>11, <1>12

LEMMA IsrAckOK ==
  ASSUME IpInv, IsrAck
  PROVE  StepOK
<1>1. HostOK(host) /\ host \in HostRec
  BY DEF IpInv, HostOK
<1>2. PICK y : y = [host EXCEPT !.flags = {}]
  OBVIOUS
<1>3. /\ y \in HostRec /\ y.ring = host.ring /\ y.left = host.left /\ y.txp = host.txp
      /\ y.panicked = host.panicked /\ y.pk = host.pk /\ y.backlog = host.backlog /\ y.arp = host.arp
      /\ y.lru = host.lru /\ y.txq = host.txq /\ y.recvq = host.recvq
  BY <1>1, <1>2 DEF HostRec
<1>4. RightHw(y.txp)
  BY <1>1, <1>3 DEF HostOK, Outgoing
<1>5. HostOK(y)
  BY <1>1, <1>3, <1>4, SameQueues
<1>6. host' = y /\ rcv' = rcv
  BY <1>2 DEF IsrAck
<1>7. y.left <= Len(y.ring)
  BY <1>3 DEF IpInv
<1> QED BY <1>3, <1>5, <1>6, <1>7, OnlyHost

LEMMA NetsoftisrOK ==
  ASSUME IpInv, NEW lost \in BOOLEAN, Netsoftisr(lost)
  PROVE  StepOK
<1>1. HostOK(host) /\ host \in HostRec /\ Placed(host)
  BY DEF IpInv, HostOK
<1>2. PICK q \in Seq(Pkt) : q = host.backlog /\ q # << >>
  BY <1>1 DEF HostRec, Netsoftisr
<1>3. /\ Tail(q) \in Seq(Pkt) /\ 1 \in DOMAIN q /\ Head(q) = q[1]
      /\ \A i \in DOMAIN Tail(q) : \E j \in DOMAIN q : Tail(q)[i] = q[j]
  BY <1>2, TailIs
<1>4. PICK y : y = [host EXCEPT !.backlog = Tail(q)]
  OBVIOUS
<1>5. PICK p : p = Head(q)
  OBVIOUS
<1>6. /\ y \in HostRec /\ y.ring = host.ring /\ y.left = host.left /\ y.txq = host.txq /\ y.txp = host.txp
      /\ y.panicked = host.panicked /\ y.pk = host.pk /\ y.backlog = Tail(q) /\ y.arp = host.arp
      /\ y.lru = host.lru /\ y.recvq = host.recvq
  BY <1>1, <1>3, <1>4 DEF HostRec
<1>7. PICK k \in Place : k = <<"backlog", 0>>
  BY Places
<1>8. Queue(host, k) = q /\ Queue(y, k) = Tail(q)
  BY <1>2, <1>6, <1>7, QueueIs
<1>9. \A m \in Place \ {k} : Queue(y, m) = Queue(host, m)
  <2>1. y.txq = host.txq /\ y.arp = host.arp /\ y.recvq = host.recvq
    BY <1>6
  <2>2. \A m \in Place \ {k} : \/ m = <<"txq", 0>> \/ \E e \in Entry : m = <<"arp", e>>
                               \/ \E v \in USock : m = <<"recv", v>>
    BY <1>7, Places
  <2> QED BY <2>1, <2>2, QueueIs
<1>10. \A c : ~NotIn(host, c) => y.pk[c] # None
  BY <1>1, <1>6 DEF Placed, NotIn
<1>11. Placed(y) /\ NotIn(y, p) /\ p \in Pkt /\ ~NotIn(host, p)
  <2>1. Queue(host, k) # << >> /\ Queue(y, k) = Tail(Queue(host, k)) /\ p = Head(Queue(host, k))
    BY <1>2, <1>5, <1>8
  <2> QED BY <1>1, <1>9, <1>10, <2>1, PlacedTail
<1>12. RightHw(y.txp) /\ Tells(y.pk[p])
  BY <1>1, <1>2, <1>3, <1>5, <1>6 DEF HostOK, Outgoing, Incoming
<1>13. HostOK(y)
  <2>1. \A i \in DOMAIN y.backlog : \E j \in DOMAIN host.backlog : y.backlog[i] = host.backlog[j]
    BY <1>2, <1>3, <1>6
  <2>2. \A i \in DOMAIN y.txq : \E j \in DOMAIN host.txq : y.txq[i] = host.txq[j]
    BY <1>6
  <2>3. /\ HostOK(host) /\ y \in HostRec /\ Placed(y) /\ RightHw(y.txp)
        /\ y.pk = host.pk /\ y.arp = host.arp /\ y.lru = host.lru
    BY <1>1, <1>6, <1>11, <1>12
  <2> QED BY <2>1, <2>2, <2>3, StillOK
<1>14. InHand(y, p)
  BY <1>10, <1>11 DEF InHand
<1>15. Needs(y.pk[p]) = 2 => TwoUnused(y)
  <2> SUFFICES ASSUME Needs(y.pk[p]) = 2 PROVE TwoUnused(y)
    OBVIOUS
  <2>1. Cardinality(Unused(host)) >= 2
    BY <1>2, <1>5, <1>6 DEF Netsoftisr, Room
  <2>2. Unused(host) = Unused(y)
    BY <1>6 DEF Unused
  <2> QED BY <2>1, <2>2, RoomIs
<1>16. PICK z : z = netrx(y, p, lost)
  OBVIOUS
<1>17. HostOK(z) /\ Longer(y, z)
  BY <1>12, <1>13, <1>14, <1>15, <1>16, NetrxIs
<1>18. host' = z
  BY <1>2, <1>4, <1>5, <1>16 DEF Netsoftisr
<1>19. rcv' = Awake(z) /\ rcv \in [UTask -> RcvRec]
  BY <1>18 DEF Netsoftisr, IpInv
<1>20. /\ z.panicked = host.panicked /\ z.ring = host.ring /\ z.left = host.left
       /\ \A s1 \in USock : z.recvq[s1] = host.recvq[s1] \/ Len(z.recvq[s1]) > Len(host.recvq[s1])
  BY <1>6, <1>17 DEF Longer
<1>21. ASSUME NEW t \in UTask
       PROVE  /\ rcv'[t] \in RcvRec
              /\ rcv'[t].pc = "wait" => z.recvq[rcv'[t].s] = << >>
  <2>1. rcv[t] \in RcvRec
    BY <1>19
  <2>2. CASE rcv[t].pc = "wait" /\ Len(z.recvq[rcv[t].s]) > Len(host.recvq[rcv[t].s])
    <3>1. rcv'[t] = [rcv[t] EXCEPT !.pc = "woken"]
      BY <1>19, <2>2 DEF Awake
    <3> QED BY <2>1, <3>1 DEF RcvRec
  <2>3. CASE ~(rcv[t].pc = "wait" /\ Len(z.recvq[rcv[t].s]) > Len(host.recvq[rcv[t].s]))
    <3>1. rcv'[t] = rcv[t]
      BY <1>19, <2>3 DEF Awake
    <3>2. rcv[t].s \in USock
      BY <2>1 DEF RcvRec
    <3>3. rcv[t].pc = "wait" => host.recvq[rcv[t].s] = << >>
      BY DEF IpInv, NoSleepWithPacket
    <3> QED BY <1>20, <2>1, <2>3, <3>1, <3>2, <3>3
  <2> QED BY <2>2, <2>3
<1>22. rcv' \in [UTask -> RcvRec]
  <2>1. rcv' = [t \in UTask |-> rcv'[t]]
    BY <1>19 DEF Awake
  <2> QED BY <1>21, <2>1
<1>23. host'.left <= Len(host'.ring) /\ host'.panicked = host.panicked /\ HostOK(host')
  BY <1>17, <1>18, <1>20 DEF IpInv
<1>24. NoSleepWithPacket'
  BY <1>18, <1>21 DEF NoSleepWithPacket
<1>25. HostOK(host)'
  BY <1>23 DEF HostOK, HostRec, Listed, Placed, Queue, EntryOK, OneEntry, Outgoing, Incoming
<1> QED BY <1>22, <1>23, <1>24, <1>25 DEF IpInv, StepOK

LEMMA RexmitOK ==
  ASSUME IpInv, NEW e \in 1 .. NARP, Rexmit(e)
  PROVE  StepOK
<1>1. HostOK(host) /\ e \in Entry
  BY DEF IpInv, Entry
<1>2. Unused(host) # {}
  BY RoomIs DEF Rexmit, Room
<1>3. PICK y : y = rexmitto(host, e)
  OBVIOUS
<1>4. HostOK(y) /\ Kept(host, y, {})
  BY <1>1, <1>2, <1>3, RexmitIs
<1>5. Only(y)
  BY <1>3 DEF Rexmit
<1> QED BY <1>4, <1>5, OnlyKept

\* The list of routes or that of the sockets changes.
LEMMA ListsChange ==
  ASSUME IpInv, NEW y, Only(y), NEW a \in Seq(RouteRec), NEW b \in Seq(SockRec),
         y = [host EXCEPT !.routes = a, !.socks = b]
  PROVE  StepOK
<1>1. HostOK(host) /\ host \in HostRec
  BY DEF IpInv, HostOK
<1>2. /\ y \in HostRec /\ y.ring = host.ring /\ y.left = host.left /\ y.txp = host.txp
      /\ y.panicked = host.panicked /\ y.pk = host.pk /\ y.backlog = host.backlog /\ y.arp = host.arp
      /\ y.lru = host.lru /\ y.txq = host.txq /\ y.recvq = host.recvq
  BY <1>1 DEF HostRec
<1>3. RightHw(y.txp)
  BY <1>1, <1>2 DEF HostOK, Outgoing
<1>4. HostOK(y)
  BY <1>1, <1>2, <1>3, SameQueues
<1>5. y.left <= Len(y.ring)
  BY <1>2 DEF IpInv
<1> QED BY <1>2, <1>4, <1>5, OnlyIs

LEMMA AddRouteOK ==
  ASSUME IpInv, NEW r \in Routes, AddRoute(r)
  PROVE  StepOK
<1>1. host \in HostRec /\ r \in RouteRec
  BY IpAssumption DEF IpInv, HostOK
<1>2. PICK a \in Seq(RouteRec), b \in Seq(SockRec) : a = host.routes /\ b = host.socks
  BY <1>1 DEF HostRec
<1>3. CASE r.gateway # INADDRANY /\ ~HasRoute(host, r.gateway)
  <2>1. Only(host)
    BY <1>3 DEF AddRoute, addroute
  <2>2. host = [host EXCEPT !.routes = a, !.socks = b]
    BY <1>1, <1>2 DEF HostRec
  <2> QED BY <2>1, <2>2, ListsChange
<1>4. CASE ~(r.gateway # INADDRANY /\ ~HasRoute(host, r.gateway))
  <2>1. PICK d \in {"lo", "eth"} :
          d = IF r.gateway # INADDRANY THEN selectroute(host, r.gateway).dev ELSE r.dev
    <3>1. CASE r.gateway # INADDRANY
      <4>1. selectroute(host, r.gateway) \in RouteRec
        BY <1>1, <1>4, <3>1, RouteIs
      <4>2. selectroute(host, r.gateway).dev \in {"lo", "eth"}
        BY <4>1 DEF RouteRec
      <4> QED BY <3>1, <4>2
    <3>2. CASE r.gateway = INADDRANY
      <4>1. r.dev \in {"lo", "eth"}
        BY <1>1 DEF RouteRec
      <4> QED BY <3>2, <4>1
    <3> QED BY <3>1, <3>2
  <2>2. PICK n \in SUBSET Addr : n = IF r.host THEN {r.daddr} ELSE r.net
    <3>1. r.daddr \in Addr /\ r.net \in SUBSET Addr
      BY <1>1 DEF RouteRec
    <3>2. {r.daddr} \in SUBSET Addr
      BY <3>1
    <3> QED BY <3>1, <3>2
  <2>3. PICK c \in RouteRec : c = [r EXCEPT !.dev = d, !.net = n]
    <3>1. [r EXCEPT !.dev = d, !.net = n] \in RouteRec
      BY <1>1 DEF RouteRec
    <3> QED BY <3>1
  <2>4. PICK l \in Seq(RouteRec) : delroute(host, r.daddr) = [host EXCEPT !.routes = l]
    <3>1. CASE HasRoute(host, r.daddr)
      <4>1. PICK i \in 1 .. Len(a) : i = Min(Covering(host, r.daddr))
        BY <1>1, <1>2, <3>1, RouteIs
      <4>2. RemoveAt(a, i) \in Seq(RouteRec)
        BY RemoveAtIs
      <4>3. delroute(host, r.daddr) = [host EXCEPT !.routes = RemoveAt(a, i)]
        BY <1>2, <3>1, <4>1 DEF delroute
      <4> QED BY <4>2, <4>3
    <3>2. CASE ~HasRoute(host, r.daddr)
      <4>1. delroute(host, r.daddr) = host
        BY <3>2 DEF delroute
      <4>2. host = [host EXCEPT !.routes = a]
        BY <1>1, <1>2 DEF HostRec
      <4> QED BY <4>1, <4>2
    <3> QED BY <3>1, <3>2
  <2>5. PICK m \in Seq(RouteRec) : m = Append(l, c)
    <3>1. Append(l, c) \in Seq(RouteRec)
      BY AppendProperties
    <3> QED BY <3>1
  <2>6. addroute(host, r) = [[host EXCEPT !.routes = l] EXCEPT !.routes = Append(@, c)]
    BY <1>4, <2>1, <2>2, <2>3, <2>4 DEF addroute
  <2>7. [[host EXCEPT !.routes = l] EXCEPT !.routes = Append(@, c)] = [host EXCEPT !.routes = m, !.socks = b]
    BY <1>1, <1>2, <2>5 DEF HostRec
  <2>8. PICK y : y = addroute(host, r)
    OBVIOUS
  <2>9. Only(y) /\ y = [host EXCEPT !.routes = m, !.socks = b]
    BY <2>6, <2>7, <2>8 DEF AddRoute
  <2> QED BY <2>9, ListsChange
<1> QED BY <1>3, <1>4

LEMMA AtIs ==
  ASSUME host \in HostRec, NEW u \in Open
  PROVE  /\ At(u) \in 1 .. Len(host.socks) /\ host.socks[At(u)] \in SockRec /\ u \in USock
<1>1. PICK l \in Seq(SockRec) : l = host.socks
  BY DEF HostRec
<1>2. PICK i \in 1 .. Len(l) : i = At(u) /\ l[i].id = u
  BY <1>1 DEF Open, At
<1>3. l[i] \in SockRec
  OBVIOUS
<1> QED BY <1>1, <1>2, <1>3 DEF SockRec

LEMMA NewSocketOK ==
  ASSUME IpInv, NEW u \in USock, NewSocket(u)
  PROVE  StepOK
<1>1. host \in HostRec
  BY DEF IpInv, HostOK
<1>2. PICK a \in Seq(RouteRec), b \in Seq(SockRec) : a = host.routes /\ b = host.socks
  BY <1>1 DEF HostRec
<1>3. PICK k \in SockRec : k = [id |-> u, laddr |-> INADDRANY, lport |-> Eph, faddr |-> INADDRANY]
  BY IpAssumption DEF SockRec
<1>4. Append(b, k) \in Seq(SockRec)
  BY AppendProperties
<1>5. PICK c \in Seq(SockRec) : c = Append(b, k)
  BY <1>4
<1>6. PICK y : y = [host EXCEPT !.socks = c]
  OBVIOUS
<1>7. y = [host EXCEPT !.routes = a, !.socks = c]
  BY <1>1, <1>2, <1>6 DEF HostRec
<1>8. Only(y)
  BY <1>2, <1>3, <1>5, <1>6 DEF NewSocket
<1> QED BY <1>7, <1>8, ListsChange

LEMMA BindOK ==
  ASSUME IpInv, NEW u \in USock, NEW adr \in {INADDRANY, Me}, NEW port \in Ports, Bind(u, adr, port)
  PROVE  StepOK
<1>1. host \in HostRec /\ adr \in Addr /\ port \in Port /\ u \in Open
  BY IpAssumption DEF IpInv, HostOK, Bind
<1>2. PICK a \in Seq(RouteRec), b \in Seq(SockRec) : a = host.routes /\ b = host.socks
  BY <1>1 DEF HostRec
<1>3. PICK i \in 1 .. Len(b), k0 \in SockRec : i = At(u) /\ k0 = b[i]
  BY <1>1, <1>2, AtIs
<1>4. PICK k \in SockRec : k = [k0 EXCEPT !.laddr = adr, !.lport = port]
  <2>1. [k0 EXCEPT !.laddr = adr, !.lport = port] \in SockRec
    BY <1>1 DEF SockRec
  <2> QED BY <2>1
<1>5. PICK e \in Seq(SockRec) : e = RemoveAt(b, i)
  BY RemoveAtIs
<1>6. Append(e, k) \in Seq(SockRec)
  BY AppendProperties
<1>7. PICK c \in Seq(SockRec) : c = Append(e, k)
  BY <1>6
<1>8. PICK y : y = [host EXCEPT !.socks = c]
  OBVIOUS
<1>9. y = [host EXCEPT !.routes = a, !.socks = c]
  BY <1>1, <1>2, <1>8 DEF HostRec
<1>10. Only(y)
  BY <1>2, <1>3, <1>4, <1>5, <1>7, <1>8 DEF Bind
<1> QED BY <1>9, <1>10, ListsChange

LEMMA ConnectOK ==
  ASSUME IpInv, NEW u \in USock, NEW adr \in Peers, Connect(u, adr)
  PROVE  StepOK
<1>1. host \in HostRec /\ adr \in Addr /\ u \in Open
  BY IpAssumption DEF IpInv, HostOK, Connect
<1>2. PICK a \in Seq(RouteRec), b \in Seq(SockRec) : a = host.routes /\ b = host.socks
  BY <1>1 DEF HostRec
<1>3. PICK i \in 1 .. Len(b), k0 \in SockRec : i = At(u) /\ k0 = b[i]
  BY <1>1, <1>2, AtIs
<1>4. PICK k \in SockRec : k = [k0 EXCEPT !.faddr = adr]
  <2>1. [k0 EXCEPT !.faddr = adr] \in SockRec
    BY <1>1 DEF SockRec
  <2> QED BY <2>1
<1>5. [b EXCEPT ![i] = k] \in Seq(SockRec)
  OBVIOUS
<1>6. PICK c \in Seq(SockRec) : c = [b EXCEPT ![i] = k]
  BY <1>5
<1>7. PICK y : y = [host EXCEPT !.socks = c]
  OBVIOUS
<1>8. y = [host EXCEPT !.routes = a, !.socks = c]
  BY <1>1, <1>2, <1>7 DEF HostRec
<1>9. Only(y)
  BY <1>2, <1>3, <1>4, <1>6, <1>7 DEF Connect
<1> QED BY <1>8, <1>9, ListsChange

LEMMA CloseOK ==
  ASSUME IpInv, NEW u \in USock, Close(u)
  PROVE  StepOK
<1>1. HostOK(host) /\ host \in HostRec /\ Placed(host) /\ u \in Open
  BY DEF IpInv, HostOK, Close
<1>0. PICK b \in Seq(SockRec) : b = host.socks
  BY <1>1 DEF HostRec
<1>2. PICK i \in 1 .. Len(b) : b = host.socks /\ i = At(u)
  BY <1>0, <1>1, AtIs
<1>3. PICK c \in Seq(SockRec) : c = RemoveAt(b, i)
  BY RemoveAtIs
<1>4. host.recvq \in [USock -> Seq(Pkt)] /\ host.pk \in [Pkt -> PktRec \cup {None}]
  BY <1>1 DEF HostRec
<1>5. PICK q : q = host.recvq[u]
  OBVIOUS
<1>6. PICK g : g = [host.recvq EXCEPT ![u] = << >>]
  OBVIOUS
<1>7. << >> \in Seq(Pkt)
  OBVIOUS
<1>8. /\ g \in [USock -> Seq(Pkt)] /\ g[u] = << >>
      /\ \A v \in USock \ {u} : g[v] = host.recvq[v]
  BY <1>4, <1>6, <1>7
<1>9. PICK h : h = [p \in Pkt |-> IF p \in ToSet(q) THEN None ELSE host.pk[p]]
  OBVIOUS
<1>10. h \in [Pkt -> PktRec \cup {None}] /\ \A p \in Pkt \ ToSet(q) : h[p] = host.pk[p]
  BY <1>4, <1>9
<1>11. PICK y : y = [host EXCEPT !.socks = c, !.recvq = g, !.pk = h]
  OBVIOUS
<1>12. /\ y \in HostRec /\ y.ring = host.ring /\ y.left = host.left /\ y.txq = host.txq /\ y.txp = host.txp
       /\ y.panicked = host.panicked /\ y.pk = h /\ y.backlog = host.backlog /\ y.arp = host.arp
       /\ y.lru = host.lru /\ y.recvq = g
  BY <1>1, <1>8, <1>10, <1>11 DEF HostRec
<1>13. Only(y)
  BY <1>2, <1>3, <1>5, <1>6, <1>9, <1>11 DEF Close
<1>14. PICK k \in Place : k = <<"recv", u>>
  BY Places
<1>15. Queue(host, k) = q /\ Queue(y, k) = << >>
  BY <1>5, <1>8, <1>12, <1>14, QueueIs
<1>16. ASSUME NEW m \in Place \ {k} PROVE Queue(y, m) = Queue(host, m)
  <2>1. CASE \E v \in USock : m = <<"recv", v>>
    <3>1. PICK v \in USock : m = <<"recv", v>>
      BY <2>1
    <3>2. v # u
      BY <1>14, <3>1
    <3>3. Queue(y, m) = y.recvq[v] /\ Queue(host, m) = host.recvq[v]
      BY <3>1, QueueIs
    <3> QED BY <1>8, <1>12, <3>2, <3>3
  <2>2. CASE m = <<"backlog", 0>> \/ m = <<"txq", 0>> \/ \E e \in Entry : m = <<"arp", e>>
    <3>1. y.txq = host.txq /\ y.arp = host.arp /\ y.backlog = host.backlog
      BY <1>12
    <3> QED BY <2>2, <3>1, QueueIs, ZenonT(60)
  <2> QED BY <2>1, <2>2, Places
<1>17. ASSUME NEW m \in Place \ {k}, NEW j \in DOMAIN Queue(host, m)
       PROVE  y.pk[Queue(host, m)[j]] = host.pk[Queue(host, m)[j]]
  <2>1. Queue(host, m)[j] \in Pkt
    BY <1>1, QueueSeq
  <2>2. \A l \in DOMAIN q : q[l] # Queue(host, m)[j]
    BY <1>1, <1>15 DEF Placed
  <2>3. Queue(host, m)[j] \in Pkt \ ToSet(q)
    BY <2>1, <2>2 DEF ToSet
  <2> QED BY <1>10, <1>12, <2>3
<1>18. \A p : ~NotIn(host, p) /\ p \notin ToSet(q) => y.pk[p] # None
  <2>1. \A p : ~NotIn(host, p) => p \in Pkt
    BY <1>1, QueueSeq DEF NotIn
  <2>2. \A p : ~NotIn(host, p) => host.pk[p] # None
    BY <1>1 DEF Placed, NotIn
  <2> QED BY <1>10, <1>12, <2>1, <2>2
<1>19. Placed(y)
  BY <1>1, <1>15, <1>16, <1>18, PlacedEmptied
<1>20. Listed(y) /\ OneEntry(y)
  BY <1>1, <1>12 DEF HostOK, Listed, OneEntry
<1>21. ASSUME NEW e \in Entry PROVE EntryOK(y, e)
  <2>1. <<"arp", e>> \in Place \ {k} /\ Queue(host, <<"arp", e>>) = host.arp[e].q
    BY <1>14, Places, QueueIs
  <2>2. \A j \in DOMAIN host.arp[e].q : y.pk[host.arp[e].q[j]] = host.pk[host.arp[e].q[j]]
    BY <1>17, <2>1
  <2>3. y.arp[e] = host.arp[e] /\ EntryOK(host, e)
    BY <1>1, <1>12 DEF HostOK
  <2> QED BY <2>2, <2>3 DEF EntryOK
<1>22. Outgoing(y) /\ Incoming(y)
  <2>1. <<"txq", 0>> \in Place \ {k} /\ Queue(host, <<"txq", 0>>) = host.txq
    BY <1>14, Places, QueueIs
  <2>2. \A j \in DOMAIN host.txq : y.pk[host.txq[j]] = host.pk[host.txq[j]]
    BY <1>17, <2>1
  <2>3. <<"backlog", 0>> \in Place \ {k} /\ Queue(host, <<"backlog", 0>>) = host.backlog
    BY <1>14, Places, QueueIs
  <2>4. \A j \in DOMAIN host.backlog : y.pk[host.backlog[j]] = host.pk[host.backlog[j]]
    BY <1>17, <2>3
  <2> QED BY <1>1, <1>12, <2>2, <2>4 DEF HostOK, Outgoing, Incoming
<1>23. HostOK(y)
  BY <1>12, <1>19, <1>20, <1>21, <1>22 DEF HostOK
<1>24. host' = y /\ rcv' = rcv
  BY <1>13 DEF Only
<1>25. NoSleepWithPacket'
  <2> SUFFICES ASSUME NEW t \in UTask, rcv[t].pc = "wait" PROVE g[rcv[t].s] = << >>
    BY <1>12, <1>24 DEF NoSleepWithPacket
  <2>1. rcv[t].s # u
    BY DEF Close
  <2>2. rcv[t].s \in USock /\ host.recvq[rcv[t].s] = << >>
    BY DEF IpInv, RcvRec, NoSleepWithPacket
  <2> QED BY <1>8, <2>1, <2>2
<1>26. HostOK(host)' /\ (host.left <= Len(host.ring))' /\ host'.panicked = host.panicked
  BY <1>12, <1>23, <1>24 DEF IpInv
<1> QED BY <1>24, <1>25, <1>26 DEF IpInv, StepOK

LEMMA SendtoOK ==
  ASSUME IpInv, NEW u \in USock, NEW d \in Dests, NEW lost \in BOOLEAN, Sendto(u, d, lost)
  PROVE  StepOK
<1>1. HostOK(host) /\ host \in HostRec /\ u \in Open
  BY DEF IpInv, HostOK, Sendto
<1>2. TwoUnused(host)
  BY RoomIs DEF Sendto, Room
<1>3. host.socks[At(u)].laddr \in Addr
  BY <1>1, AtIs DEF SockRec
<1>4. d.addr \in Addr /\ d.port \in Port
  BY IpAssumption
<1>5. PICK r \in IpRec : r = IpPkt("udp", host.socks[At(u)].laddr, d.addr, d.port) /\ r.dst = d.addr
  BY <1>3, <1>4, IpPktIs
<1>6. PICK p : p = newpkt(host)
  OBVIOUS
<1>7. PICK y : y = Made(host, p, r)
  OBVIOUS
<1>8. /\ p \in Unused(host) /\ HostOK(y) /\ InHand(y, p) /\ y.pk[p] = r /\ r.type = "ip"
      /\ Kept(host, y, {p}) /\ Unused(y) # {} /\ y.routes = host.routes
  BY <1>1, <1>2, <1>6, <1>7, NewIpPkt
<1>9. PICK x : x = ipoutput(y, p, lost)
  OBVIOUS
<1>10. HostOK(x) /\ Kept(y, x, {p})
  <2>1. y.pk[p].type = "ip"
    BY <1>8
  <2> QED BY <1>8, <1>9, <2>1, IpOutputIs
<1>11. Kept(host, x, {p})
  BY <1>8, <1>10 DEF Kept
<1>12. CASE HasRoute(host, d.addr)
  <2>1. Only(x)
    BY <1>5, <1>6, <1>7, <1>9, <1>12 DEF Sendto
  <2> QED BY <1>10, <1>11, <2>1, OnlyKept
<1>13. CASE ~HasRoute(host, d.addr)
  <2>1. Only(delpkt(x, p))
    BY <1>5, <1>6, <1>7, <1>9, <1>13 DEF Sendto
  <2>2. SendsNowhere
    BY <1>13 DEF SendsNowhere
  <2>3. ~HasRoute(y, r.dst)
    BY <1>5, <1>8, <1>13 DEF HasRoute, Covering
  <2>4. x = delpkt(y, p)
    BY <1>8, <1>9, <2>3 DEF ipoutput
  <2>5. y.pk[p] # None /\ p \in Pkt
    BY <1>8 DEF InHand
  <2>6. x.pk[p] = None
    <3>1. y.pk \in [Pkt -> PktRec \cup {None}]
      BY <1>8 DEF HostOK, HostRec
    <3>2. y \in HostRec
      BY <1>8 DEF HostOK
    <3>3. x = [y EXCEPT !.pk[p] = None]
      BY <2>4, <2>5 DEF delpkt
    <3>4. x.pk = [y.pk EXCEPT ![p] = None]
      BY <3>2, <3>3 DEF HostRec
    <3> QED BY <2>5, <3>1, <3>4
  <2>7. PICK z : z = [x EXCEPT !.panicked = TRUE]
    OBVIOUS
  <2>8. delpkt(x, p) = z
    BY <2>6, <2>7 DEF delpkt
  <2>9. x \in HostRec
    BY <1>10 DEF HostOK
  <2>10. /\ z \in HostRec /\ z.ring = x.ring /\ z.left = x.left /\ z.txp = x.txp
         /\ z.pk = x.pk /\ z.backlog = x.backlog /\ z.arp = x.arp
         /\ z.lru = x.lru /\ z.txq = x.txq /\ z.recvq = x.recvq
    BY <2>7, <2>9 DEF HostRec
  <2>11. RightHw(z.txp)
    BY <1>10, <2>10 DEF HostOK, Outgoing
  <2>12. HostOK(z)
    BY <1>10, <2>10, <2>11, SameQueues
  <2>13. z.recvq = host.recvq /\ z.left <= Len(z.ring)
    BY <1>11, <2>10 DEF Kept, IpInv
  <2>14. Only(z)
    BY <2>1, <2>8
  <2> QED BY <2>2, <2>12, <2>13, <2>14, OnlyIs
<1> QED BY <1>12, <1>13

LEMMA RecvfromOK ==
  ASSUME IpInv, NEW t \in UTask, NEW u \in USock, Recvfrom(t, u)
  PROVE  StepOK
<1>1. HostOK(host) /\ host \in HostRec /\ Placed(host) /\ rcv \in [UTask -> RcvRec]
  BY DEF IpInv, HostOK
<1>2. rcv[t] \in RcvRec /\ [rcv[t] EXCEPT !.pc = "user"] \in RcvRec /\ [pc |-> "wait", s |-> u] \in RcvRec
  BY <1>1 DEF RcvRec
<1>3. [rcv[t] EXCEPT !.pc = "user"].pc = "user"
  BY <1>2 DEF RcvRec
<1>4. CASE host' = host /\ rcv' = [rcv EXCEPT ![t].pc = "user"]
  <2>1. rcv' \in [UTask -> RcvRec]
    BY <1>1, <1>2, <1>4
  <2>2. \A v \in UTask : rcv'[v].pc = "wait" => rcv'[v] = rcv[v]
    BY <1>1, <1>3, <1>4
  <2>3. NoSleepWithPacket'
    BY <1>4, <2>2 DEF NoSleepWithPacket, IpInv
  <2> QED BY <1>4, <2>1, <2>3 DEF IpInv, StepOK
<1>5. CASE host' = host /\ host.recvq[u] = << >> /\ rcv' = [rcv EXCEPT ![t] = [pc |-> "wait", s |-> u]]
  <2>1. rcv' \in [UTask -> RcvRec]
    BY <1>1, <1>2, <1>5
  <2>2. \A v \in UTask : rcv'[v] = rcv[v] \/ rcv'[v].s = u
    BY <1>1, <1>5
  <2>3. NoSleepWithPacket'
    BY <1>5, <2>2 DEF NoSleepWithPacket, IpInv
  <2> QED BY <1>5, <2>1, <2>3 DEF IpInv, StepOK
<1>6. CASE /\ host.recvq[u] # << >> /\ rcv' = [rcv EXCEPT ![t].pc = "user"]
           /\ host' = [host EXCEPT !.recvq[u] = Tail(@), !.pk[Head(host.recvq[u])] = None]
  <2>1. host.recvq \in [USock -> Seq(Pkt)] /\ host.pk \in [Pkt -> PktRec \cup {None}]
    BY <1>1 DEF HostRec
  <2>2. PICK q \in Seq(Pkt) : q = host.recvq[u] /\ q # << >>
    BY <1>6, <2>1
  <2>3. Tail(q) \in Seq(Pkt)
    BY <2>2, TailIs
  <2>4. PICK g : g = [host.recvq EXCEPT ![u] = Tail(q)]
    OBVIOUS
  <2>5. /\ g \in [USock -> Seq(Pkt)] /\ g[u] = Tail(q)
        /\ \A v \in USock \ {u} : g[v] = host.recvq[v]
    BY <2>1, <2>3, <2>4
  <2>6. PICK y : y = [host EXCEPT !.recvq = g]
    OBVIOUS
  <2>7. /\ y \in HostRec /\ y.ring = host.ring /\ y.left = host.left /\ y.txq = host.txq /\ y.txp = host.txp
        /\ y.panicked = host.panicked /\ y.pk = host.pk /\ y.backlog = host.backlog /\ y.arp = host.arp
        /\ y.lru = host.lru /\ y.recvq = g
    BY <1>1, <2>5, <2>6 DEF HostRec
  <2>8. PICK k \in Place : k = <<"recv", u>>
    BY Places
  <2>9. Queue(host, k) = q /\ Queue(y, k) = Tail(q)
    BY <2>2, <2>5, <2>7, <2>8, QueueIs
  <2>10. ASSUME NEW m \in Place \ {k} PROVE Queue(y, m) = Queue(host, m)
    <3>1. CASE \E v \in USock : m = <<"recv", v>>
      <4>1. PICK v \in USock : m = <<"recv", v>>
        BY <3>1
      <4>2. v # u
        BY <2>8, <4>1
      <4>3. Queue(y, m) = y.recvq[v] /\ Queue(host, m) = host.recvq[v]
        BY <4>1, QueueIs
      <4> QED BY <2>5, <2>7, <4>2, <4>3
    <3>2. CASE m = <<"backlog", 0>> \/ m = <<"txq", 0>> \/ \E e \in Entry : m = <<"arp", e>>
      <4>1. y.txq = host.txq /\ y.arp = host.arp /\ y.backlog = host.backlog
        BY <2>7
      <4> QED BY <3>2, <4>1, QueueIs, ZenonT(60)
    <3> QED BY <3>1, <3>2, Places
  <2>11. \A c : ~NotIn(host, c) => y.pk[c] # None
    BY <1>1, <2>7 DEF Placed, NotIn
  <2>12. PICK p : p = Head(q)
    OBVIOUS
  <2>13. Placed(y) /\ NotIn(y, p) /\ p \in Pkt
    <3>1. Queue(host, k) # << >> /\ Queue(y, k) = Tail(Queue(host, k)) /\ p = Head(Queue(host, k))
      BY <2>2, <2>9, <2>12
    <3> QED BY <1>1, <2>10, <2>11, <3>1, PlacedTail
  <2>14. RightHw(y.txp)
    BY <1>1, <2>7 DEF HostOK, Outgoing
  <2>15. HostOK(y)
    <3>1. \A i \in DOMAIN y.txq : \E j \in DOMAIN host.txq : y.txq[i] = host.txq[j]
      BY <2>7
    <3>2. \A i \in DOMAIN y.backlog : \E j \in DOMAIN host.backlog : y.backlog[i] = host.backlog[j]
      BY <2>7
    <3>3. /\ HostOK(host) /\ y \in HostRec /\ Placed(y) /\ RightHw(y.txp)
          /\ y.pk = host.pk /\ y.arp = host.arp /\ y.lru = host.lru
      BY <1>1, <2>7, <2>13, <2>14
    <3> QED BY <3>1, <3>2, <3>3, StillOK
  <2>16. PICK z : z = Made(y, p, None)
    OBVIOUS
  <2>17. HostOK(z) /\ Kept(y, z, {p})
    <3>1. None \in PktRec \cup {None} /\ p \in Pkt /\ NotIn(y, p) /\ HostOK(y)
      BY <2>13, <2>15
    <3> QED BY <2>16, <3>1, SetPk
  <2>18. host' = z
    BY <1>1, <1>6, <2>2, <2>4, <2>6, <2>12, <2>16 DEF Made, HostRec
  <2>19. rcv' \in [UTask -> RcvRec]
    BY <1>1, <1>2, <1>6
  <2>20. \A v \in UTask : rcv'[v].pc = "wait" => rcv'[v] = rcv[v]
    BY <1>1, <1>3, <1>6
  <2>21. z.recvq = g /\ z.panicked = host.panicked /\ z.ring = host.ring /\ z.left = host.left
    BY <2>7, <2>17 DEF Kept
  <2>22. NoSleepWithPacket'
    <3> SUFFICES ASSUME NEW v \in UTask, rcv'[v].pc = "wait" PROVE g[rcv'[v].s] = << >>
      BY <2>18, <2>21 DEF NoSleepWithPacket
    <3>1. rcv'[v] = rcv[v] /\ rcv[v].s \in USock /\ host.recvq[rcv[v].s] = << >>
      BY <2>20, <1>1 DEF IpInv, RcvRec, NoSleepWithPacket
    <3>2. rcv[v].s # u
      BY <2>2, <3>1
    <3> QED BY <2>5, <3>1, <3>2
  <2>23. HostOK(host)' /\ (host.left <= Len(host.ring))' /\ host'.panicked = host.panicked
    BY <2>17, <2>18, <2>21 DEF IpInv
  <2> QED BY <2>19, <2>22, <2>23 DEF IpInv, StepOK
<1> QED BY <1>4, <1>5, <1>6 DEF Recvfrom

LEMMA PostSignalOK ==
  ASSUME IpInv, NEW t \in UTask, PostSignal(t)
  PROVE  StepOK
<1>1. rcv \in [UTask -> RcvRec] /\ rcv[t] \in RcvRec /\ host' = host
  BY DEF IpInv, PostSignal
<1>2. [rcv[t] EXCEPT !.pc = "woken"] \in RcvRec /\ [rcv[t] EXCEPT !.pc = "woken"].pc = "woken"
  BY <1>1 DEF RcvRec
<1>3. rcv' = [rcv EXCEPT ![t] = [rcv[t] EXCEPT !.pc = "woken"]]
  BY DEF PostSignal
<1>4. rcv' \in [UTask -> RcvRec]
  BY <1>1, <1>2, <1>3
<1>5. \A v \in UTask : rcv'[v].pc = "wait" => rcv'[v] = rcv[v]
  BY <1>1, <1>2, <1>3
<1>6. NoSleepWithPacket'
  BY <1>1, <1>5 DEF NoSleepWithPacket, IpInv
<1> QED BY <1>1, <1>4, <1>6 DEF IpInv, StepOK

LEMMA IpInitOK == IpInit => IpInv
<1> SUFFICES ASSUME IpInit PROVE IpInv
  OBVIOUS
<1>1. PICK l \in Seq(Entry) : l = [i \in Entry |-> i] /\ \A e \in Entry : e \in DOMAIN l /\ l[e] = e
  <2>1. NARP \in Nat
    BY IpAssumption
  <2>2. [i \in 1 .. NARP |-> i] \in Seq(Entry)
    BY <2>1, SeqDef DEF Entry
  <2> QED BY <2>2 DEF Entry
<1>2. arpent_t \in ArpentRec /\ arpent_t.stat = "inval" /\ arpent_t.q = << >>
  <2>1. << >> \in Seq(Pkt)
    OBVIOUS
  <2> QED BY <2>1, IpAssumption DEF arpent_t, ArpentRec
<1>3. host \in HostRec
  <2>1. /\ [p \in Pkt |-> None] \in [Pkt -> PktRec \cup {None}]
        /\ << >> \in Seq(Pkt) /\ << >> \in Seq(Frames) /\ << >> \in Seq(SockRec)
        /\ [e \in Entry |-> arpent_t] \in [Entry -> ArpentRec]
        /\ [v \in USock |-> << >>] \in [USock -> Seq(Pkt)]
    BY <1>2
  <2>2. Local \in Seq(RouteRec) /\ {} \in SUBSET {"prx", "ptx"} /\ None \in PktRec \cup {None} /\ 0 \in Nat
    BY IpAssumption
  <2>3. /\ host.pk = [p \in Pkt |-> None] /\ host.panicked = FALSE /\ host.backlog = << >>
        /\ host.arp = [e \in Entry |-> arpent_t] /\ host.lru = l /\ host.txq = << >> /\ host.txp = None
        /\ host.ring = << >> /\ host.flags = {} /\ host.left = 0 /\ host.routes = Local
        /\ host.socks = << >> /\ host.recvq = [v \in USock |-> << >>]
    BY <1>1 DEF IpInit, Entry
  <2>4. host = [pk |-> host.pk, panicked |-> host.panicked, backlog |-> host.backlog,
                arp |-> host.arp, lru |-> host.lru, txq |-> host.txq, txp |-> host.txp,
                ring |-> host.ring, flags |-> host.flags, left |-> host.left, routes |-> host.routes,
                socks |-> host.socks, recvq |-> host.recvq]
    BY DEF IpInit
  <2> QED BY <2>1, <2>2, <2>3, <2>4 DEF HostRec
<1>4. /\ host.backlog = << >> /\ host.txq = << >> /\ host.txp = None /\ host.lru = l
      /\ host.ring = << >> /\ host.left = 0
      /\ (\A e \in Entry : host.arp[e] = arpent_t) /\ (\A v \in USock : host.recvq[v] = << >>)
  BY <1>1 DEF IpInit, Entry
<1>5. \A k \in Place : Queue(host, k) = << >>
  BY <1>2, <1>4, Places, QueueIs
<1>6. Placed(host)
  BY <1>5 DEF Placed
<1>7. Listed(host)
  BY <1>1, <1>4 DEF Listed
<1>8. OneEntry(host) /\ \A e \in Entry : EntryOK(host, e)
  BY <1>2, <1>4 DEF OneEntry, EntryOK
<1>9. Outgoing(host) /\ Incoming(host)
  BY <1>4, PktTypes DEF Outgoing, Incoming, RightHw
<1>10. rcv \in [UTask -> RcvRec] /\ \A t \in UTask : rcv[t].pc = "user"
  <2>1. (CHOOSE v \in USock : TRUE) \in USock
    BY IpAssumption
  <2>2. PICK v0 \in USock : rcv \in [UTask -> {[pc |-> "user", s |-> v0]}]
    BY <2>1 DEF IpInit
  <2> QED BY <2>2 DEF RcvRec
<1>11. NoSleepWithPacket
  BY <1>10 DEF NoSleepWithPacket
<1>12. host.left <= Len(host.ring)
  BY <1>4
<1> QED BY <1>3, <1>6, <1>7, <1>8, <1>9, <1>10, <1>11, <1>12 DEF IpInv, HostOK

LEMMA IpNextOK ==
  ASSUME IpInv, IpNext
  PROVE  StepOK
<1>1. CASE \E f \in Frames : Arrive(f)
  BY <1>1, ArriveOK
<1>2. CASE Transmitted
  BY <1>2, TransmittedOK
<1>3. CASE Isr
  BY <1>3, IsrOK
<1>4. CASE IsrFetch
  BY <1>4, IsrFetchOK
<1>5. CASE IsrAck
  BY <1>5, IsrAckOK
<1>6. CASE \E lost \in BOOLEAN : Netsoftisr(lost)
  BY <1>6, NetsoftisrOK
<1>7. CASE \E e \in 1 .. NARP : Rexmit(e)
  BY <1>7, RexmitOK
<1>8. CASE \E r \in Routes : AddRoute(r)
  BY <1>8, AddRouteOK
<1>9. CASE \E u \in USock : NewSocket(u)
  BY <1>9, NewSocketOK
<1>10. CASE \E u \in USock, a \in {INADDRANY, Me}, port \in Ports : Bind(u, a, port)
  BY <1>10, BindOK
<1>11. CASE \E u \in USock, a \in Peers : Connect(u, a)
  BY <1>11, ConnectOK
<1>12. CASE \E u \in USock : Close(u)
  BY <1>12, CloseOK
<1>13. CASE \E u \in USock, d \in Dests, lost \in BOOLEAN : Sendto(u, d, lost)
  BY <1>13, SendtoOK
<1>14. CASE \E t \in UTask, u \in USock : Recvfrom(t, u)
  BY <1>14, RecvfromOK
<1>15. CASE \E t \in UTask : PostSignal(t)
  BY <1>15, PostSignalOK
<1> QED BY <1>1, <1>2, <1>3, <1>4, <1>5, <1>6, <1>7, <1>8, <1>9, <1>10, <1>11, <1>12, <1>13,
           <1>14, <1>15 DEF IpNext

LEMMA IpStutterOK ==
  ASSUME IpInv, UNCHANGED ipvars
  PROVE  StepOK
<1>1. host' = host /\ rcv' = rcv
  BY DEF ipvars
<1> QED BY <1>1 DEF IpInv, StepOK, NoSleepWithPacket

LEMMA IpInvSafe == IpInv => PacketsAreSafe
<1> SUFFICES ASSUME IpInv PROVE PacketsAreSafe
  OBVIOUS
<1>1. InOnePlace
  BY DEF IpInv, HostOK, Placed, InOnePlace
<1>2. RightHost
  BY DEF IpInv, HostOK, Outgoing, RightHw, RightHost
<1>3. ArpIsSound
  BY DEF IpInv, HostOK, EntryOK, OneEntry, ArpIsSound, Entry
<1> QED BY <1>1, <1>2, <1>3 DEF PacketsAreSafe, IpInv

\* Whatever the wire delivers, the card's interrupt, netsoftisr, ARP's timers and
\* the tasks do, and however few packets, entries and sockets there are: a packet
\* is in one queue, once, and is not freed there; a frame that carries an IP packet
\* bears the hardware address of its next hop, also when its ARP entry was taken
\* for another address meanwhile; an address has one entry; and no task sleeps in
\* recvfrom while its socket has a packet.
THEOREM PacketsSafe == IpSpec => []PacketsAreSafe
<1>1. IpInv /\ [IpNext]_ipvars => IpInv'
  BY IpNextOK, IpStutterOK DEF StepOK
<1> QED BY <1>1, IpInitOK, IpInvSafe, PTL DEF IpSpec

\* delpkt's panic at a packet that was deleted already is met in one way only.
OnlySendtoPanics == [][host'.panicked = host.panicked \/ SendsNowhere]_ipvars

\* No handler deletes a packet twice, also when an ARP entry is invalidated with
\* packets that wait in it, but for sendto where no route leads.
THEOREM PanicsBySendto == IpSpec => OnlySendtoPanics
<1>1. IpInv /\ [IpNext]_ipvars => IpInv'
  BY IpNextOK, IpStutterOK DEF StepOK
<1>2. IpInv /\ [IpNext]_ipvars => [host'.panicked = host.panicked \/ SendsNowhere]_ipvars
  BY IpNextOK, IpStutterOK DEF StepOK
<1> QED BY <1>1, <1>2, IpInitOK, PTL DEF IpSpec, OnlySendtoPanics
=============================================================================
