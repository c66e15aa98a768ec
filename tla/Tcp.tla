-------------------------------- MODULE Tcp --------------------------------
(***************************************************************************)
(* One TCP connection of net/inet: a client's socket, and the socket that  *)
(* a listening one makes for it, joined by a network.  Packets are handled *)
(* and timers fire in soft interrupts, each of them in one step; the two   *)
(* application tasks are in between.  A data packet carries one byte.      *)
(*                                                                         *)
(* A step on a socket is a function of a record [s, out, wake, lwake]: the *)
(* socket, the packets it sends, and whether it wakes the sleepers of its  *)
(* own waitq or of the listening socket's.                                 *)
(***************************************************************************)
EXTENDS Integers, Sequences, SequencesExt, FiniteSetsExt

CONSTANTS
  MODULUS,               \* of sequence numbers (2^32)
  ISS,                   \* the initial send sequence number of an end
  OPTLEN,                \* the bytes of the MSS option
  MAXREXMIT, MAXDELACK,
  SNDBUF, RCVBUF,        \* the buffers, in packets
  MaxSend,               \* bound: the bytes an end writes
  Faults, MaxFaults,     \* what the network may do ("lose", "dup", "reorder"), how often
  Pipelined,             \* applications write, and shut down, before all is acknowledged
  Hasty                  \* timers may fire while packets are on their way

End == {"c", "s"}
Peer(e) == IF e = "c" THEN "s" ELSE "c"

VARIABLES
  sock,      \* the two tcpsock_t
  net,       \* the packets on their way to an end
  nfault,
  app,       \* what an application does: the system call it is in
  asleep,    \* the ends whose application sleeps
  pending,   \* the packet it has made and not yet sent
  sent, got, shut, eof     \* see Stream

tcpvars == <<sock, net, nfault, app, asleep, pending, sent, got, shut, eof>>

----------------------------------------------------------------------------
(* Sequence numbers: modulo 2^32, compared by the sign of the difference;  *)
(* but ackarrived compares them as numbers.                                *)
Add(a, n) == (a + n) % MODULUS
SeqLt(a, b) == (a - b) % MODULUS > MODULUS \div 2

Started == {"ESTAB", "FINWAIT1", "FINWAIT2", "TIMEWAIT", "CLOSEWAIT", "LASTACK", "CLOSING"}
Closed == [st |-> "CLOSED", nxt |-> 0, wnd |-> 0, unacked |-> << >>, lseq |-> 0, lack |-> 0,
           rnxt |-> 0, fin |-> FALSE, q |-> << >>, oos |-> << >>, ndel |-> 0, nrex |-> 0,
           tm |-> FALSE, sbuf |-> SNDBUF, rbuf |-> RCVBUF]
Of(s) == [s |-> s, out |-> << >>, wake |-> FALSE, lwake |-> FALSE]
Change(r, st) == [r EXCEPT !.s.st = st]

SynFin(p) == Cardinality(p.flags \cap {"SYN", "FIN"})
EndSeq(p) == Add(p.seq, Len(p.data) + SynFin(p))

----------------------------------------------------------------------------
(* tcpoutput.cc *)

\* output builds the packet, which takes its sequence numbers,
Packet(s, flags, data) ==
  [flags |-> flags, seq |-> s.nxt, ack |-> IF "ACK" \in flags THEN s.rnxt ELSE 0,
   wnd |-> IF s.rbuf < 1 THEN 0 ELSE s.rbuf, data |-> data,
   opt |-> IF "SYN" \in flags THEN OPTLEN ELSE 0]
Built(s, p) ==
  [s EXCEPT !.nxt = EndSeq(p), !.wnd = @ - Len(p.data), !.sbuf = @ - 1,
            !.ndel = IF "ACK" \in p.flags THEN 0 ELSE @]
\* and sends it; it is kept until it is acknowledged, unless it is a pure ACK.
Kicked(r, p) ==
  LET kept == p.data # << >> \/ SynFin(p) > 0
  IN  [r EXCEPT !.out = Append(@, p),
                !.s.unacked = IF kept THEN Append(@, p) ELSE @,
                !.s.tm = @ \/ kept]
\* sendflags: AKERN, which waits neither for memory nor for the window.
Sendflags(r, flags) ==
  LET p == Packet(r.s, flags, << >>) IN Kicked([r EXCEPT !.s = Built(@, p)], p)

\* rexmitto: the first packet again, but not for ever.
RexmitSwapped(s) ==
  LET n == s.nrex + 1
      do == n >= MAXREXMIT /\ s.unacked # << >>
  IN  [Of(s) EXCEPT !.s.nrex = n, !.s.tm = do, !.out = IF do THEN <<Head(s.unacked)>> ELSE << >>]
Rexmit(s) ==
  LET n == s.nrex + 1
      do == n < MAXREXMIT /\ s.unacked # << >>
  IN  [Of(s) EXCEPT !.s.nrex = n, !.s.tm = do, !.out = IF do THEN <<Head(s.unacked)>> ELSE << >>]

----------------------------------------------------------------------------
(* tcpinput.cc *)

\* updatesndwnd.
Updatesndwnd(r, p) ==
  LET s == r.s
      ack == "ACK" \in p.flags
  IN  IF \/ SeqLt(s.lseq, p.seq)
         \/ s.lseq = p.seq /\ ack /\ SeqLt(s.lack, p.ack)
         \/ ack /\ s.lack = p.ack /\ s.wnd < p.wnd
        THEN [r EXCEPT !.s.lseq = p.seq, !.s.lack = p.ack, !.s.wnd = p.wnd] ELSE r

\* ackarrived: whole packets are acknowledged.
Ackarrived(r, ack) ==
  LET u == r.s.unacked
      n == Max({k \in 0 .. Len(u) : \A i \in 1 .. k : ack >= EndSeq(u[i])})
  IN  IF n = 0 THEN r
      ELSE [r EXCEPT !.s.unacked = SubSeq(u, n + 1, Len(u)), !.s.nrex = 0, !.s.tm = n < Len(u),
                     !.s.sbuf = @ + n, !.wake = TRUE]

\* A packet in the receive queues, from start on: input counts the options as
\* data.
Content(p) == p.data \o [i \in 1 .. p.opt |-> "junk"]
InEnd(p) == Add(EndSeq(p), p.opt)
Tails(c, n) == SubSeq(c, Len(c) - n + 1, Len(c))

AcceptedAgain(r, start, end, data) ==
  IF r.s.rbuf < 1 THEN r
  ELSE [r EXCEPT !.wake = TRUE, !.s.rbuf = @ - 1,
                 !.s.q = Append(@, [start |-> start, end |-> end, data |-> data])]
\* inputdata, for a packet with data.  One at rcvnxt takes the first packet
\* out of sequence along, but not rcvnxt; one that comes early is kept only
\* before the others.
Accepted(r, start, end, data) ==
  LET s == [r.s EXCEPT !.rbuf = @ - 1]
      along == s.oos # << >> /\ Head(s.oos).start = end
      x == [start |-> start, end |-> end, data |-> data]
  IN  IF r.s.rbuf < 1 THEN r
      ELSE [r EXCEPT !.wake = TRUE, !.s =
             IF start = s.rnxt
               THEN [s EXCEPT !.rnxt = end,
                              !.q = IF along THEN @ \o <<x, Head(s.oos)>> ELSE Append(@, x),
                              !.oos = IF along THEN Tail(@) ELSE @]
             ELSE IF s.oos = << >> \/ SeqLt(end, Head(s.oos).start)
               THEN [s EXCEPT !.oos = <<x>> \o @]
             ELSE s]
\* Every second packet is answered by an ACK, of what came before it.
Delack(r) ==
  LET n == r.s.ndel + 1
      r1 == [r EXCEPT !.s.ndel = n]
  IN  IF n = MAXDELACK THEN Sendflags(r1, {"ACK"}) ELSE r1
\* A FIN counts when it comes, whatever is missing before it.
Inputdata(r0, p) ==
  LET r == Delack(r0)
      late == SeqLt(p.seq, r.s.rnxt)
      start == IF late THEN r.s.rnxt ELSE p.seq
      data == IF late THEN Tails(Content(p), (InEnd(p) - start) % MODULUS) ELSE Content(p)
  IN  IF "FIN" \in p.flags
        THEN IF r.s.fin THEN r
             ELSE [r EXCEPT !.s.fin = TRUE, !.wake = TRUE, !.s.rnxt = Add(@, 1)]
      ELSE IF SeqLt(InEnd(p), r.s.rnxt) \/ start = InEnd(p) THEN r
      ELSE Accepted(r, start, InEnd(p), data)

\* initirs.
Initirs(s, p) == [s EXCEPT !.lseq = p.seq, !.rnxt = Add(p.seq, 1), !.wnd = p.wnd]

Ackeq(s, p) == "ACK" \in p.flags /\ p.ack = s.nxt
\* entertimewait.
Timewait(r) == [r EXCEPT !.s.st = "TIMEWAIT", !.s.tm = FALSE]

\* The functions input... of the states; d is what inputdata makes of r.
Inputs(r, d, p) ==
  LET st == r.s.st
      acked == Ackeq(r.s, p)
      a == Sendflags(d, {"ACK"})
  IN  CASE st = "SYNSENT" ->
             IF "SYN" \notin p.flags \/ ~acked THEN r
             ELSE [Change(Sendflags([r EXCEPT !.s = Initirs(@, p)], {"ACK"}), "ESTAB")
                     EXCEPT !.wake = TRUE]
        [] st = "SYNRECV" -> IF acked THEN [Change(r, "ESTAB") EXCEPT !.lwake = TRUE] ELSE r
        [] st = "ESTAB" -> IF d.s.fin THEN Change(d, "CLOSEWAIT") ELSE d
        [] st = "FINWAIT1" ->
             IF d.s.fin /\ acked THEN Timewait(a)
             ELSE IF d.s.fin THEN Change(a, "CLOSING")
             ELSE IF acked THEN Change(d, "FINWAIT2") ELSE d
        [] st = "FINWAIT2" -> IF d.s.fin THEN Timewait(a) ELSE d
        [] st = "CLOSEWAIT" -> IF d.s.fin THEN a ELSE d
        [] st = "LASTACK" -> IF acked THEN Change(Sendflags(r, {"ACK"}), "CLOSED") ELSE r
        [] st = "CLOSING" -> IF acked THEN Timewait(a) ELSE d
        [] OTHER -> r

\* What input does in every state; a reset ends an established connection
\* only (abort).
Heard(s, p) ==
  LET r == IF s.st \in Started THEN Updatesndwnd(Of(s), p) ELSE Of(s)
  IN  IF "ACK" \in p.flags THEN Ackarrived(r, p.ack) ELSE r
Abort(s) == IF s.st = "ESTAB" THEN Of([s EXCEPT !.st = "CLOSED", !.tm = FALSE]) ELSE Of(s)

\* inputlisten: a SYN makes the socket of the connection (there is one).
Listen(p) ==
  IF "SYN" \in p.flags
    THEN Change(Sendflags(Of(Initirs([Closed EXCEPT !.nxt = ISS["s"], !.lack = ISS["s"]], p)),
                          {"SYN", "ACK"}), "SYNRECV")
    ELSE [Of(Closed) EXCEPT !.out =
            <<[flags |-> {"RST"}, seq |-> p.ack, ack |-> Add(p.seq, SynFin(p)), wnd |-> 0,
               data |-> << >>, opt |-> 0]>>]

----------------------------------------------------------------------------
(* Steps. *)

\* The outcome r of a step on e's socket; others is what is left in the net
\* for e.
Outcome(e, result, others) ==
  \E r \in {result} :
    /\ sock' = [sock EXCEPT ![e] = r.s]
    /\ net' = [net EXCEPT ![e] = others, ![Peer(e)] = @ \o r.out]
    /\ asleep' = IF (IF app[e] = "accept" THEN r.lwake ELSE r.wake) THEN asleep \ {e} ELSE asleep
Step(e, r) == Outcome(e, r, net[e])

\* tcpinput: a closed or waiting socket is passed over, and on the server's
\* side the listening one takes the packet.
Matches(e) == sock[e].st \notin {"CLOSED", "TIMEWAIT", "GONE"}
Input(e, p, others) ==
  IF "RST" \in p.flags THEN Outcome(e, Abort(sock[e]), others)
  ELSE \E r \in {Heard(sock[e], p)} : \E d \in {Inputdata(r, p)} :
         Outcome(e, Inputs(r, d, p), others)
Deliver(e) ==
  \E i \in DOMAIN net[e] :
    /\ i = 1 \/ "reorder" \in Faults
    /\ LET p == net[e][i]
           others == RemoveAt(net[e], i)
       IN  CASE Matches(e) -> Input(e, p, others)
             [] ~Matches(e) /\ e = "s" /\ ("SYN" \in p.flags => sock[e] = Closed) ->
                  Outcome(e, IF "SYN" \in p.flags THEN Listen(p)
                             ELSE [Listen(p) EXCEPT !.s = sock[e]], others)
             [] OTHER -> Outcome(e, Of(sock[e]), others)
    /\ UNCHANGED <<nfault, app, pending, sent, got, shut, eof>>

\* The network loses or doubles a packet; unless Hasty, only once both ends
\* are established.
Fault(e) ==
  /\ nfault < MaxFaults /\ nfault' = nfault + 1
  /\ Hasty \/ \A x \in End : sock[x].st \in Started \cup {"GONE"}
  /\ \E i \in DOMAIN net[e] :
       \/ "lose" \in Faults /\ net' = [net EXCEPT ![e] = RemoveAt(@, i)]
       \/ "dup" \in Faults /\ net' = [net EXCEPT ![e] = Append(@, @[i])]
  /\ UNCHANGED <<sock, app, asleep, pending, sent, got, shut, eof>>

Quiet == Hasty \/ \A e \in End : net[e] = << >>
RexmitTimeout(e) ==
  /\ sock[e].tm /\ Quiet /\ Step(e, Rexmit(sock[e]))
  /\ UNCHANGED <<nfault, app, pending, sent, got, shut, eof>>
\* timewaitto and destroyto: a socket that nobody refers to is deleted.
Destroy(e) ==
  /\ app[e] = "closed" /\ sock[e].st # "GONE" /\ Quiet /\ (Hasty \/ ~sock[e].tm)
  /\ Step(e, Of([Closed EXCEPT !.st = "GONE"]))
  /\ UNCHANGED <<nfault, app, pending, sent, got, shut, eof>>

----------------------------------------------------------------------------
(* System calls.  An application that waits sleeps on the waitq, and looks *)
(* again when it is woken.                                                 *)
Sleep(e) == asleep' = asleep \cup {e}
Enters(e, call) == app' = [app EXCEPT ![e] = call]
Awake(e, call) == app[e] = call /\ e \notin asleep
Unchanged == UNCHANGED <<nfault, sent, got, shut, eof>>

Connect ==
  /\ app["c"] = "start"
  /\ LET s == [Closed EXCEPT !.nxt = ISS["c"], !.lack = ISS["c"], !.wnd = RCVBUF]
         r == Change(Sendflags(Of(s), {"SYN"}), "SYNSENT")
     IN  sock' = [sock EXCEPT !["c"] = r.s] /\ net' = [net EXCEPT !["s"] = @ \o r.out]
  /\ Enters("c", "connect") /\ Sleep("c") /\ UNCHANGED pending /\ Unchanged
Connected ==
  /\ Awake("c", "connect")
  /\ IF sock["c"].st = "ESTAB" THEN Enters("c", "run") /\ UNCHANGED asleep
                               ELSE Sleep("c") /\ UNCHANGED app
  /\ UNCHANGED <<sock, net, pending>> /\ Unchanged
\* accept takes an established connection (fetchclient).
Accept ==
  /\ Awake("s", "accept")
  /\ IF sock["s"].st = "ESTAB" THEN Enters("s", "run") /\ UNCHANGED asleep
                               ELSE Sleep("s") /\ UNCHANGED app
  /\ UNCHANGED <<sock, net, pending>> /\ Unchanged

MayTalk(e) == sock[e].st \in Started /\ (Pipelined \/ sock[e].unacked = << >>)
\* send: output waits for buffer space, takes its sequence numbers, then waits
\* for the window.
Send(e) ==
  /\ Awake(e, "run") /\ e \notin shut /\ sent[e] < MaxSend[e] /\ MayTalk(e)
  /\ IF sock[e].sbuf < 1 THEN Sleep(e) /\ UNCHANGED <<sock, pending, sent, app>>
     ELSE LET p == Packet(sock[e], {"ACK"}, <<sent[e] + 1>>)
          IN  /\ sock' = [sock EXCEPT ![e] = Built(@, p)]
              /\ pending' = [pending EXCEPT ![e] = <<p>>]
              /\ sent' = [sent EXCEPT ![e] = @ + 1]
              /\ Enters(e, "output") /\ UNCHANGED asleep
  /\ UNCHANGED <<net, nfault, got, shut, eof>>
Output(e) ==
  /\ Awake(e, "output")
  /\ IF sock[e].wnd < 1 THEN Sleep(e) /\ UNCHANGED <<sock, net, app, pending>>
     ELSE /\ Step(e, Kicked(Of(sock[e]), pending[e][1]))
          /\ pending' = [pending EXCEPT ![e] = << >>] /\ Enters(e, "run")
  /\ Unchanged

\* recv: what is in the queue, or the end.
Recv(e) ==
  /\ Awake(e, "run") /\ e \notin eof
  /\ LET s == sock[e]
     IN  \/ /\ s.q # << >> /\ s.st \in Started
            /\ sock' = [sock EXCEPT ![e].q = Tail(@), ![e].rbuf = @ + 1]
            /\ got' = [got EXCEPT ![e] = @ \o Head(s.q).data]
            /\ UNCHANGED eof
         \/ /\ s.q = << >> /\ s.fin /\ s.st \in Started /\ eof' = eof \cup {e}
            /\ UNCHANGED <<sock, got>>
  /\ UNCHANGED <<net, nfault, app, asleep, pending, sent, shut>>

\* shutdown sends the FIN; close does so too and gives the socket up.
Shutdown(e) ==
  /\ Awake(e, "run") /\ (Pipelined \/ sock[e].unacked = << >>)
  /\ \E call \in {"run", "closed"} :
       /\ Enters(e, call)
       /\ IF sock[e].st \in {"ESTAB", "CLOSEWAIT"}
            THEN /\ Step(e, Change(Sendflags(Of(sock[e]), {"FIN", "ACK"}),
                                   IF sock[e].st = "ESTAB" THEN "FINWAIT1" ELSE "LASTACK"))
                 /\ shut' = shut \cup {e}
            ELSE call = "closed" /\ UNCHANGED <<sock, net, asleep, shut>>
  /\ UNCHANGED <<nfault, pending, sent, got, eof>>

----------------------------------------------------------------------------
TcpInit ==
  /\ sock = [e \in End |-> Closed] /\ net = [e \in End |-> << >>] /\ nfault = 0
  /\ app = [e \in End |-> IF e = "c" THEN "start" ELSE "accept"] /\ asleep = {"s"}
  /\ pending = [e \in End |-> << >>]
  /\ sent = [e \in End |-> 0] /\ got = [e \in End |-> << >>] /\ shut = {} /\ eof = {}

Kernel(e) == Deliver(e) \/ RexmitTimeout(e) \/ Destroy(e)
Calls(e) == Send(e) \/ Output(e) \/ Recv(e) \/ Shutdown(e)
TcpNext ==
  \/ Connect \/ Connected \/ Accept
  \/ \E e \in End : Kernel(e) \/ Calls(e) \/ Fault(e)

\* Packets arrive and timers fire sooner or later; an application goes on when
\* it is woken, and reads.
TcpFairness ==
  /\ WF_tcpvars(Connect) /\ WF_tcpvars(Connected) /\ WF_tcpvars(Accept)
  /\ \A e \in End : /\ WF_tcpvars(Deliver(e)) /\ WF_tcpvars(RexmitTimeout(e))
                    /\ WF_tcpvars(Output(e)) /\ WF_tcpvars(Recv(e))
TcpSpec == TcpInit /\ [][TcpNext]_tcpvars
FairTcp == TcpSpec /\ TcpFairness

----------------------------------------------------------------------------
(* Properties. *)

\* The connection is a stream in both directions (module Stream).
Streams == INSTANCE Stream
ImplementsStream == Streams!StreamSpec

\* What the receiver waits for can still be sent: it is acknowledged only
\* after it was received, whatever is lost, repeated or answered late.
NothingForgotten ==
  \A e \in End :
    LET s == sock[e]
        next == sock[Peer(e)].rnxt
    IN  s.st \in Started /\ sock[Peer(e)].st \in Started =>
          next = s.nxt \/ \E p \in ToSet(s.unacked \o pending[e]) : p.seq = next

\* Every byte that was written comes to the other end's queue, unless one of
\* them is closed, for fewer losses than rexmitto puts up with.
Missing(e) == sent[e] > Len(got[Peer(e)]) + Len(sock[Peer(e)].q)
SentArrives ==
  \A e \in End : Missing(e) ~> (~Missing(e) \/ \E x \in End : app[x] = "closed")

\* "listening socket will be unblocked from accept" (inputsynrecv): once the
\* connection is established the server's accept returns it.
AcceptReturns == sock["s"].st = "ESTAB" ~> app["s"] # "accept"
=============================================================================
