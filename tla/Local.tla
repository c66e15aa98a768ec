------------------------------- MODULE Local -------------------------------
(***************************************************************************)
(* Local stream sockets, net/unix/stream.cc: a server binds a path and     *)
(* accepts, clients connect to the path and sleep until they are taken or  *)
(* refused, and the two ends get a pair of pipes (module Pipe carries what *)
(* is sent through them).  Calls run without interruption up to a sleep.   *)
(***************************************************************************)
EXTENDS Integers, Sequences, SequencesExt, FiniteSetsExt

CONSTANTS
  LSock, LTask, Path,
  Server,     \* the sockets that bind and accept, and do not connect
  End,        \* bound: the sockets that accept makes
  LPipe,      \* bound: the pipes
  NoPipe,
  Interrupts  \* bound: how many signals others post

None == "none"

ASSUME LocalAssumption ==
  /\ LSock # {} /\ Server \cup End \subseteq LSock
  /\ IsFiniteSet(LTask) /\ None \notin Path
  /\ LPipe \subseteq Nat /\ IsFiniteSet(LPipe) /\ NoPipe \notin LPipe

VARIABLES
  live,      \* the sockets that exist
  bindi,     \* the path that a socket is bound to
  made,      \* the paths that exist
  clientq,   \* the clients that wait for a server, in order
  input, output,
  retcode,
  sockq,     \* who sleeps on a socket, in order
  sockcall,  \* what a task does: op ("user", "connect", "accept"), s, asleep
  sigd,      \* the tasks with a signal
  nints,
  paired,    \* the clients accepted since they called connect
  faulted    \* the kernel has followed a null pointer

sockvars == <<live, bindi, made, clientq, input, output, retcode, sockq, sockcall, sigd, nints,
              paired, faulted>>

InUser == [op |-> "user", s |-> CHOOSE s \in LSock : TRUE, asleep |-> FALSE]
Runs(t) == sockcall[t].op = "user" /\ ~faulted
SomeRuns == \E t \in LTask : Runs(t)
\* A queue from which one is unlinked.
Without(q, e) == IF e \in ToSet(q) THEN RemoveAt(q, CHOOSE i \in DOMAIN q : q[i] = e) ELSE q
Queued(c) == \E s \in LSock : c \in ToSet(clientq[s])
Pipes(s) == {input[s], output[s]} \ {NoPipe}
Unused == {p \in LPipe : \A s \in LSock : p \notin Pipes(s)}
\* The server bound to a path, inode_t::unstsock.
unstsock(p) == {s \in live : bindi[s] = p}

\* s0 writes what s1 reads, and the other way round.
pair(s0, s1, new) ==
  LET p == Min(new)
      q == Min(new \ {p})
  IN
  /\ input' = [input EXCEPT ![s1] = p, ![s0] = q]
  /\ output' = [output EXCEPT ![s0] = p, ![s1] = q]

\* waitq.signal() on the sockets of S: the first sleeper of each.
First(S) == {Head(sockq[s]) : s \in {s \in S : sockq[s] # << >>}}
Awake(T) == [t \in LTask |-> IF t \in T THEN [sockcall[t] EXCEPT !.asleep = FALSE] ELSE sockcall[t]]
Signalled(S) == [s \in LSock |-> IF s \in S /\ sockq[s] # << >> THEN Tail(sockq[s]) ELSE sockq[s]]
RefusedNot(S) == retcode
Refused(S) == [c \in LSock |-> IF c \in S THEN "ECONNREFUSED" ELSE retcode[c]]

----------------------------------------------------------------------------
unixsocket(s) ==
  /\ SomeRuns /\ s \notin live \cup End
  /\ live' = live \cup {s}
  /\ UNCHANGED <<bindi, made, clientq, input, output, retcode, sockq, sockcall, sigd, nints, paired, faulted>>

unixsocketpair(a, b) ==
  /\ SomeRuns /\ a # b /\ {a, b} \cap (live \cup Server \cup End) = {}
  /\ Cardinality(Unused) >= 2
  /\ live' = live \cup {a, b}
  /\ pair(a, b, Unused)
  /\ UNCHANGED <<bindi, made, clientq, retcode, sockq, sockcall, sigd, nints, paired, faulted>>

\* domkfifo makes the path if it is not there.
Bind(s, p) ==
  /\ SomeRuns /\ s \in live \cap Server /\ bindi[s] = None
  /\ made' = made \cup {p}
  /\ bindi' = IF unstsock(p) = {} THEN [bindi EXCEPT ![s] = p] ELSE bindi
  /\ UNCHANGED <<live, clientq, input, output, retcode, sockq, sockcall, sigd, nints, paired, faulted>>

\* Assumed: tasks that share a client socket do not connect it while another
\* has not returned from connect, whose return code the call would overwrite.
Idle(s) == \A u \in LTask : sockcall[u].op = "user" \/ sockcall[u].s # s

\* Up to its sleep.  That the path has a server is not asked.
Connect(t, c, p) ==
  /\ Runs(t) /\ c \in live \ (Server \cup End) /\ Idle(c)
  /\ Pipes(c) = {} /\ ~Queued(c) /\ p \in made
  /\ IF unstsock(p) = {}
     THEN faulted' = TRUE /\ UNCHANGED <<clientq, retcode, sockq, sockcall, paired>>
     ELSE LET s == CHOOSE s \in unstsock(p) : TRUE IN
          /\ clientq' = [clientq EXCEPT ![s] = Append(@, c)]
          /\ retcode' = [retcode EXCEPT ![c] = "0"]
          /\ sockcall' = [Awake(First({s})) EXCEPT ![t] = [op |-> "connect", s |-> c, asleep |-> TRUE]]
          /\ sockq' = [Signalled({s}) EXCEPT ![c] = Append(@, t)]
          /\ paired' = paired \ {c}
          /\ UNCHANGED faulted
  /\ UNCHANGED <<live, bindi, made, input, output, sigd, nints>>

Back(t, T) == sockcall' = [Awake(T) EXCEPT ![t] = InUser]
Wakes(t, op) == sockcall[t].op = op /\ ~sockcall[t].asleep /\ ~faulted

\* Interrupted, it leaves its socket in the server's queue.
ConnectReturns(t) ==
  /\ Wakes(t, "connect")
  /\ retcode' = IF t \in sigd THEN [retcode EXCEPT ![sockcall[t].s] = "EINTR"] ELSE retcode
  /\ sigd' = sigd \ {t}
  /\ Back(t, {})
  /\ UNCHANGED <<live, bindi, made, clientq, input, output, sockq, nints, paired, faulted>>

\* accept, called on s or woken in it: takes a client, or sleeps.
\* Interrupted, it refuses all of them.
freeclient(s) ==
  /\ clientq' = [clientq EXCEPT ![s] = << >>]
  /\ retcode' = Refused(ToSet(clientq[s]))
  /\ sockq' = Signalled(ToSet(clientq[s]))
AcceptInterrupted(t) ==
  /\ Wakes(t, "accept") /\ t \in sigd
  /\ freeclient(sockcall[t].s)
  /\ Back(t, First(ToSet(clientq[sockcall[t].s])))
  /\ sigd' = sigd \ {t}
  /\ UNCHANGED <<live, bindi, made, input, output, nints, paired, faulted>>
Accepting(t, s) ==
  \/ Runs(t) /\ s \in live \cap Server
  \/ Wakes(t, "accept") /\ sockcall[t].s = s /\ t \notin sigd
AcceptSleeps(t, s) ==
  /\ Accepting(t, s) /\ clientq[s] = << >>
  /\ sockcall' = [sockcall EXCEPT ![t] = [op |-> "accept", s |-> s, asleep |-> TRUE]]
  /\ sockq' = [sockq EXCEPT ![s] = Append(@, t)]
  /\ UNCHANGED <<live, bindi, made, clientq, input, output, retcode, sigd, nints, paired, faulted>>
\* new is the server's end.  Where the task has no descriptor left for it, it
\* is closed, and the client, though refused, keeps its own ends of the pipes.
AcceptTakes(t, s, new, fdleft) ==
  /\ Accepting(t, s) /\ clientq[s] # << >>
  /\ new \in End \ live /\ Cardinality(Unused) >= 2
  /\ LET client == Head(clientq[s])
         p == Min(Unused)
         q == Min(Unused \ {p})
     IN
     /\ clientq' = [clientq EXCEPT ![s] = Tail(@)]
     /\ sockq' = Signalled({client})
     /\ Back(t, First({client}))
     /\ IF fdleft
        THEN pair(client, new, Unused) /\ live' = live \cup {new} /\ UNCHANGED retcode
        ELSE /\ input' = [input EXCEPT ![client] = q]
             /\ output' = [output EXCEPT ![client] = p]
             /\ retcode' = Refused({client})
             /\ UNCHANGED live
     /\ paired' = paired \cup {client}
  /\ UNCHANGED <<bindi, made, sigd, nints, faulted>>

shutdown(s, how) ==
  /\ SomeRuns /\ Pipes(s) # {}
  /\ input' = IF how \in {0, 2} THEN [input EXCEPT ![s] = NoPipe] ELSE input
  /\ output' = IF how \in {1, 2} THEN [output EXCEPT ![s] = NoPipe] ELSE output
  /\ UNCHANGED <<live, bindi, made, clientq, retcode, sockq, sockcall, sigd, nints, paired, faulted>>

\* The last reference is gone: ~unstsock_t.  A task in a call holds one.
Close(s) ==
  /\ SomeRuns /\ s \in live /\ Idle(s)
  /\ live' = live \ {s}
  /\ clientq' = [k \in LSock |-> IF k = s THEN << >> ELSE Without(clientq[k], s)]
  /\ retcode' = [Refused(ToSet(clientq[s])) EXCEPT ![s] = "0"]
  /\ sockq' = Signalled(ToSet(clientq[s]))
  /\ sockcall' = Awake(First(ToSet(clientq[s])))
  /\ bindi' = [bindi EXCEPT ![s] = None]
  /\ input' = [input EXCEPT ![s] = NoPipe] /\ output' = [output EXCEPT ![s] = NoPipe]
  /\ paired' = paired \ {s}
  /\ UNCHANGED <<made, sigd, nints, faulted>>

Interrupt(t) ==
  /\ sockcall[t].op # "user" /\ t \notin sigd /\ nints < Interrupts
  /\ sigd' = sigd \cup {t} /\ nints' = nints + 1
  /\ sockcall' = Awake({t})
  /\ sockq' = [s \in LSock |-> Without(sockq[s], t)]
  /\ UNCHANGED <<live, bindi, made, clientq, input, output, retcode, paired, faulted>>

LocalInit ==
  /\ live = {} /\ made = {} /\ sigd = {} /\ paired = {}
  /\ bindi = [s \in LSock |-> None]
  /\ clientq = [s \in LSock |-> << >>] /\ sockq = [s \in LSock |-> << >>]
  /\ input = [s \in LSock |-> NoPipe] /\ output = [s \in LSock |-> NoPipe]
  /\ retcode = [s \in LSock |-> "0"]
  /\ sockcall = [t \in LTask |-> InUser]
  /\ nints = 0 /\ faulted = FALSE
LocalNext ==
  \/ \E s \in LSock : unixsocket(s)
  \/ \E a, b \in LSock : unixsocketpair(a, b)
  \/ \E s \in LSock, p \in Path : Bind(s, p)
  \/ \E t \in LTask, c \in LSock, p \in Path : Connect(t, c, p)
  \/ \E t \in LTask : ConnectReturns(t)
  \/ \E t \in LTask : AcceptInterrupted(t)
  \/ \E t \in LTask, s \in LSock : AcceptSleeps(t, s)
  \/ \E t \in LTask, s, new \in LSock, fdleft \in BOOLEAN : AcceptTakes(t, s, new, fdleft)
  \/ \E s \in LSock, how \in 0 .. 2 : shutdown(s, how)
  \/ \E s \in LSock : Close(s)
  \/ \E t \in LTask : Interrupt(t)
LocalSpec == LocalInit /\ [][LocalNext]_sockvars

----------------------------------------------------------------------------
\* A client that sleeps in connect is in the queue of a server that exists,
\* which will take or refuse it.
ClientsAreQueued ==
  \A t \in LTask : sockcall[t].op = "connect" /\ sockcall[t].asleep =>
    \E s \in live \cap Server : sockcall[t].s \in ToSet(clientq[s])

\* What is queued exists, is queued once, and is not connected.
QueuesAreSound ==
  \A s \in LSock : \A c \in ToSet(clientq[s]) :
    /\ {s, c} \subseteq live /\ Pipes(c) = {}
    /\ \A k \in LSock \ {s} : c \notin ToSet(clientq[k])
    /\ Cardinality({i \in DOMAIN clientq[s] : clientq[s][i] = c}) = 1

Comers(s) == {t \in LTask : sockcall[t].op = "accept" /\ ~sockcall[t].asleep /\ sockcall[t].s = s}

\* No task sleeps in accept while more clients wait than tasks are awake there.
AcceptorsAreWoken ==
  \A s \in Server :
    (\E t \in LTask : sockcall[t].op = "accept" /\ sockcall[t].asleep /\ sockcall[t].s = s) =>
      Len(clientq[s]) <= Cardinality(Comers(s))

\* connect that is about to return 0 was accepted.
SuccessIsTrue ==
  \A t \in LTask : Wakes(t, "connect") /\ t \notin sigd /\ retcode[sockcall[t].s] = "0" =>
    sockcall[t].s \in paired

\* A pipe has one socket that reads it and one that writes it, two of them.
PipesArePaired ==
  \A s, k \in LSock :
    /\ s # k /\ input[s] # NoPipe => input[s] # input[k]
    /\ s # k /\ output[s] # NoPipe => output[s] # output[k]
    /\ input[s] # NoPipe => input[s] # output[s]
    /\ input[s] # NoPipe /\ input[s] = output[k] /\ NoPipe \notin {output[s], input[k]} =>
         output[s] = input[k]

\* connect, accept, close and signals in any order: a client sleeps only where a
\* server will take or refuse it, no task sleeps in accept over clients, connect
\* returns 0 to who was accepted, and the ends of the pipes are paired.
ConnectionsAreSound ==
  ClientsAreQueued /\ QueuesAreSound /\ AcceptorsAreWoken /\ SuccessIsTrue /\ PipesArePaired
=============================================================================
