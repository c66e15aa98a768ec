-------------------------------- MODULE Pipe --------------------------------
(***************************************************************************)
(* Pipes, kern/pipe.cc.  The ring buffer of module Fifoq keeps the bytes   *)
(* in order; here only their number matters.  One wait queue serves        *)
(* readers and writers; each transfer wakes them all.                      *)
(*                                                                         *)
(* A system call runs without interruption up to its wait() or its return. *)
(* The two ends are descriptors (fdes_t) that processes share after fork;  *)
(* pipefd_t, and with it nreader or nwriter, goes when the last one closes.*)
(***************************************************************************)
EXTENDS Integers, SyncParams

VARIABLES
  nbyte,          \* bytes in the pipe
  reader, writer, \* the tasks that have the read end, the write end open
  hassig,         \* the tasks with a pending signal
  pipepc,         \* see PipePC
  left            \* what the task still has to write, 0 outside write

pipevars == <<nbyte, reader, writer, hassig, pipepc, left>>

(***************************************************************************)
(* "user": not in a call.  "read", "write": at the head of the loop.       *)
(* "rwait", "wwait": in waitq.  "rwoken", "wwoken": woken, in wait().      *)
(***************************************************************************)
PipePC == {"user", "read", "rwait", "rwoken", "write", "wwait", "wwoken"}

\* pipe_t::nreader and nwriter count pipefd_t, of which each end has one.
nreaderfd == IF reader = {} THEN 0 ELSE 1
nwriterfd == IF writer = {} THEN 0 ELSE 1

Woken(p) == IF p = "rwait" THEN "rwoken" ELSE IF p = "wwait" THEN "wwoken" ELSE p

\* waitq.broadcast(); task t goes on at p.
PipeBroadcast(t, p) == [u \in Task |-> IF u = t THEN p ELSE Woken(pipepc[u])]
PipeGoto(t, p) == pipepc' = [pipepc EXCEPT ![t] = p]

\* The loop's head is reached from the call, or from a wait that no signal cut
\* short.
AtRead(t) == pipepc[t] = "read" \/ (pipepc[t] = "rwoken" /\ t \notin hassig)
AtWrite(t) == pipepc[t] = "write" \/ (pipepc[t] = "wwoken" /\ t \notin hassig)

\* waitq.wait() and the test behind it: a pending signal ends the call.
WaitOr(t, p) == IF t \in hassig THEN "user" ELSE p

----------------------------------------------------------------------------
(* pipe_t::read. *)

CallRead(t) ==
  /\ pipepc[t] = "user" /\ t \in reader
  /\ PipeGoto(t, "read")
  /\ UNCHANGED <<nbyte, reader, writer, hassig, left>>

ReadEof(t) ==
  /\ AtRead(t) /\ nbyte = 0 /\ nwriterfd = 0
  /\ PipeGoto(t, "user")
  /\ UNCHANGED <<nbyte, reader, writer, hassig, left>>

ReadWait(t) ==
  /\ AtRead(t) /\ nbyte = 0 /\ nwriterfd # 0
  /\ PipeGoto(t, WaitOr(t, "rwait"))
  /\ UNCHANGED <<nbyte, reader, writer, hassig, left>>

ReadGetSilent(t, n) ==
  /\ AtRead(t) /\ nbyte # 0
  /\ nbyte' = nbyte - Smaller(n, nbyte)
  /\ PipeGoto(t, "user")
  /\ UNCHANGED <<reader, writer, hassig, left>>
ReadGet(t, n) ==
  /\ AtRead(t) /\ nbyte # 0
  /\ nbyte' = nbyte - Smaller(n, nbyte)
  /\ pipepc' = PipeBroadcast(t, "user")
  /\ UNCHANGED <<reader, writer, hassig, left>>

----------------------------------------------------------------------------
(* pipe_t::write. *)

CallWrite(t, n) ==
  /\ pipepc[t] = "user" /\ t \in writer
  /\ PipeGoto(t, "write")
  /\ left' = [left EXCEPT ![t] = n]
  /\ UNCHANGED <<nbyte, reader, writer, hassig>>

\* Nobody can read any more: SIGPIPE is posted, also after a partial write.
WritePipe(t) ==
  /\ AtWrite(t) /\ nreaderfd = 0
  /\ hassig' = hassig \cup {t}
  /\ PipeGoto(t, "user")
  /\ left' = [left EXCEPT ![t] = 0]
  /\ UNCHANGED <<nbyte, reader, writer>>

WriteWait(t) ==
  /\ AtWrite(t) /\ nreaderfd # 0 /\ nbyte = SIZE
  /\ PipeGoto(t, WaitOr(t, "wwait"))
  /\ left' = [left EXCEPT ![t] = IF t \in hassig THEN 0 ELSE @]
  /\ UNCHANGED <<nbyte, reader, writer, hassig>>

\* Room for some of it: after the transfer the loop ends, or the pipe is full
\* and its next turn waits.
WritePut(t) ==
  LET n == Smaller(left[t], SIZE - nbyte)
  IN  /\ AtWrite(t) /\ nreaderfd # 0 /\ nbyte < SIZE
      /\ nbyte' = nbyte + n
      /\ left' = [left EXCEPT ![t] = IF t \in hassig THEN 0 ELSE @ - n]
      /\ pipepc' = PipeBroadcast(t, IF n = left[t] THEN "user" ELSE WaitOr(t, "wwait"))
      /\ UNCHANGED <<reader, writer, hassig>>

\* A call that was woken with a signal pending does not look at the pipe again.
Interrupted(t) ==
  /\ pipepc[t] \in {"rwoken", "wwoken"} /\ t \in hassig
  /\ PipeGoto(t, "user")
  /\ left' = [left EXCEPT ![t] = 0]
  /\ UNCHANGED <<nbyte, reader, writer, hassig>>

----------------------------------------------------------------------------
(* Descriptors and signals. *)

\* ~pipefd_t of the read end: rlose() when the last task closes it.
CloseRead(t) ==
  /\ pipepc[t] = "user" /\ t \in reader
  /\ reader' = reader \ {t}
  /\ pipepc' = IF reader' = {} THEN PipeBroadcast(t, "user") ELSE pipepc
  /\ UNCHANGED <<nbyte, writer, hassig, left>>

CloseWrite(t) ==
  /\ pipepc[t] = "user" /\ t \in writer
  /\ writer' = writer \ {t}
  /\ pipepc' = IF writer' = {} THEN PipeBroadcast(t, "user") ELSE pipepc
  /\ UNCHANGED <<nbyte, reader, hassig, left>>

\* t forks u, which shares the ends that t has open.
Fork(t, u) ==
  /\ pipepc[t] = "user" /\ pipepc[u] = "user" /\ u \notin reader \cup writer
  /\ t \in reader \cup writer
  /\ reader' = IF t \in reader THEN reader \cup {u} ELSE reader
  /\ writer' = IF t \in writer THEN writer \cup {u} ELSE writer
  /\ UNCHANGED <<nbyte, hassig, pipepc, left>>

\* task_t::post wakes a task in interruptible sleep.
Post(t) ==
  /\ t \notin hassig
  /\ hassig' = hassig \cup {t}
  /\ pipepc' = [pipepc EXCEPT ![t] = Woken(@)]
  /\ UNCHANGED <<nbyte, reader, writer, left>>

\* checksignal, on the way back to user mode.
CheckSignal(t) ==
  /\ pipepc[t] = "user" /\ t \in hassig
  /\ hassig' = hassig \ {t}
  /\ UNCHANGED <<nbyte, reader, writer, pipepc, left>>

----------------------------------------------------------------------------
PipeInit ==
  /\ nbyte = 0
  /\ reader = {creator} /\ writer = {creator} /\ hassig = {}
  /\ pipepc = [t \in Task |-> "user"]
  /\ left = [t \in Task |-> 0]

PipeNext ==
  \E t \in Task :
    \/ CallRead(t) \/ ReadEof(t) \/ ReadWait(t) \/ \E n \in Count : ReadGet(t, n)
    \/ \E n \in Count : CallWrite(t, n)
    \/ WritePipe(t) \/ WriteWait(t) \/ WritePut(t) \/ Interrupted(t)
    \/ CloseRead(t) \/ CloseWrite(t) \/ Post(t) \/ CheckSignal(t)
    \/ \E u \in Task : Fork(t, u)

PipeSpec == PipeInit /\ [][PipeNext]_pipevars

----------------------------------------------------------------------------
(* Properties. *)

\* Every variable keeps its type, and a task in a call has the end it uses
\* open: no pipe_t is deleted under a sleeper.
PipeTypeOK ==
  /\ nbyte \in 0 .. SIZE
  /\ reader \in SUBSET Task /\ writer \in SUBSET Task /\ hassig \in SUBSET Task
  /\ pipepc \in [Task -> PipePC]
  /\ left \in [Task -> Nat]
  /\ \A t \in Task : /\ pipepc[t] \in {"read", "rwait", "rwoken"} => t \in reader
                     /\ pipepc[t] \in {"write", "wwait", "wwoken"} => t \in writer

\* Nobody sleeps on a pipe that could serve him, nor with a signal pending: a
\* waiting reader finds the pipe empty and a writer left, a waiting writer
\* finds it full and a reader left.  So readers and writers never wait for
\* each other.
NoSleepWithWork ==
  \A t \in Task :
    /\ pipepc[t] = "rwait" => nbyte = 0 /\ writer # {}
    /\ pipepc[t] = "wwait" => nbyte = SIZE /\ reader # {}
    /\ pipepc[t] \in {"rwait", "wwait"} => t \notin hassig
=============================================================================
