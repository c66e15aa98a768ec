------------------------------- MODULE MCSync -------------------------------
(***************************************************************************)
(* The sleeping locks, the ring buffer, the pipe and local stream sockets  *)
(* for TLC.  They share no state, so one behaviour is a behaviour of one   *)
(* of them (part) and the others rest in their initial states.  Local      *)
(* sockets: two clients, one server, three tasks that accept or connect.   *)
(***************************************************************************)
EXTENDS IoLock, RWLock, Pipe, Fifoq, Local, TLC

CONSTANTS a, b, c, x, y

MCTask == {a, b, c}
MCChar == {x, y}
MCCount == {1, 3}
MCLPipe == 1 .. 2
MCSym == Permutations({b, c})

VARIABLE part

mcvars == <<part, iovars, vars, pipevars, ringvars, sockvars>>

MCInit ==
  /\ part \in {"iolock", "rwlock", "pipe", "fifoq", "local"}
  /\ IoInit /\ Init /\ PipeInit /\ FifoqInit /\ LocalInit
  /\ part # "fifoq" => q.room[0] = x

IoStep == part = "iolock" /\ IoNext /\ UNCHANGED <<part, vars, pipevars, ringvars, sockvars>>
RwStep == part = "rwlock" /\ Next /\ UNCHANGED <<part, iovars, pipevars, ringvars, sockvars>>
PipeStep == part = "pipe" /\ PipeNext /\ UNCHANGED <<part, iovars, vars, ringvars, sockvars>>
FifoStep == part = "fifoq" /\ FifoqNext /\ UNCHANGED <<part, iovars, vars, pipevars, sockvars>>
UnStep == part = "local" /\ LocalNext /\ UNCHANGED <<part, iovars, vars, pipevars, ringvars>>

MCNext == IoStep \/ RwStep \/ PipeStep \/ FifoStep \/ UnStep

MCSpec == MCInit /\ [][MCNext]_mcvars
=============================================================================
