------------------------------- MODULE IoLock -------------------------------
(***************************************************************************)
(* iolock_t of kern/lock.cc, the lock on a buffer under disk I/O: a task   *)
(* takes it, submits the I/O, and the disk interrupt gives it back.        *)
(*                                                                         *)
(* Tasks take turns as in module Sched: the one in the kernel (curr) keeps *)
(* the processor until it sleeps or leaves.  The interrupt may come        *)
(* between any two steps; what the code does with interrupts off is one    *)
(* step here.                                                              *)
(***************************************************************************)
EXTENDS SyncParams, Sequences

CONSTANT MaxOps  \* bound: calls of lock() and wait() each task makes

ASSUME IoLockAssumption == MaxOps \in Nat

VARIABLES
  locked,    \* iolock_t::locked_
  waitq,     \* iolock_t::waitq
  inflight,  \* the holder's I/O is at the disk
  curr,
  iopc,      \* see IoPC
  op,        \* the call the task is in
  nop,       \* calls made so far
  again      \* history: tasks that have been woken in the call they are in

iovars == <<locked, waitq, inflight, curr, iopc, op, nop, again>>

(***************************************************************************)
(* "out": not in a call.  "first": the first test of the while loop.       *)
(* "asleep": in waitq.  "ready": woken, not running yet.  "again": a later *)
(* test.  "doze": that test was true, waitsleep's cli not reached.         *)
(* "got": lock() returned, the I/O is not submitted.                       *)
(***************************************************************************)
IoPC == {"out", "first", "asleep", "ready", "again", "doze", "got"}

IoGoto(t, p) == iopc' = [iopc EXCEPT ![t] = p]

\* A task calls lock() or wait().
Enter(t, o) ==
  /\ curr = NULL /\ iopc[t] = "out" /\ nop[t] < MaxOps
  /\ curr' = t
  /\ op' = [op EXCEPT ![t] = o]
  /\ nop' = [nop EXCEPT ![t] = @ + 1]
  /\ again' = again \ {t}
  /\ IoGoto(t, "first")
  /\ UNCHANGED <<locked, waitq, inflight>>

\* The loop ends: lock() takes the lock, wait() just returns.
Leave(t) ==
  /\ ~locked
  /\ IF op[t] = "lock"
       THEN locked' = TRUE /\ IoGoto(t, "got") /\ UNCHANGED curr
       ELSE UNCHANGED locked /\ IoGoto(t, "out") /\ curr' = NULL
  /\ UNCHANGED <<waitq, inflight, op, nop, again>>

\* waitq_t::waitsleep.
Sleep(t) ==
  /\ waitq' = Append(waitq, t)
  /\ IoGoto(t, "asleep")
  /\ curr' = NULL
  /\ UNCHANGED <<locked, inflight, op, nop, again>>

\* The first test is made after cli(): no interrupt between it and waitsleep.
FirstTestOpen(t) ==
  /\ iopc[t] = "first"
  /\ \/ Leave(t)
     \/ locked /\ IoGoto(t, "doze") /\ UNCHANGED <<locked, waitq, inflight, curr, op, nop, again>>
FirstTest(t) ==
  /\ iopc[t] = "first"
  /\ Leave(t) \/ (locked /\ Sleep(t))

\* The task that was woken runs again.  waitsleep left interrupts on.
Resume(t) ==
  /\ curr = NULL /\ iopc[t] = "ready"
  /\ curr' = t
  /\ again' = again \cup {t}
  /\ IoGoto(t, "again")
  /\ UNCHANGED <<locked, waitq, inflight, op, nop>>

TestAgain(t) ==
  /\ iopc[t] = "again"
  /\ \/ Leave(t)
     \/ locked /\ IoGoto(t, "doze") /\ UNCHANGED <<locked, waitq, inflight, curr, op, nop, again>>

SleepAgain(t) == iopc[t] = "doze" /\ Sleep(t)

\* The holder hands the buffer to the disk driver and leaves.
Submit(t) ==
  /\ iopc[t] = "got"
  /\ inflight' = TRUE
  /\ curr' = NULL
  /\ IoGoto(t, "out")
  /\ UNCHANGED <<locked, waitq, op, nop, again>>

\* iolock_t::unlock, called by the disk interrupt: broadcast wakes everyone.
IoUnlock ==
  /\ inflight /\ inflight' = FALSE
  /\ locked' = FALSE
  /\ waitq' = << >>
  /\ iopc' = [t \in Task |-> IF iopc[t] = "asleep" THEN "ready" ELSE iopc[t]]
  /\ UNCHANGED <<curr, op, nop, again>>

IoInit ==
  /\ locked = FALSE /\ waitq = << >> /\ inflight = FALSE /\ curr = NULL
  /\ iopc = [t \in Task |-> "out"]
  /\ op = [t \in Task |-> "wait"]
  /\ nop = [t \in Task |-> 0] /\ again = {}

Step(t) == FirstTest(t) \/ Resume(t) \/ TestAgain(t) \/ SleepAgain(t) \/ Submit(t)

IoNext ==
  \/ \E t \in Task : Step(t) \/ \E o \in {"lock", "wait"} : Enter(t, o)
  \/ IoUnlock

IoSpec == IoInit /\ [][IoNext]_iovars

\* Every task in the kernel runs on, every woken task gets the processor, and
\* every I/O ends with an interrupt.
IoFairSpec == IoSpec /\ WF_iovars(IoUnlock) /\ \A t \in Task : WF_iovars(Step(t))

----------------------------------------------------------------------------
(* Properties. *)

\* Every variable keeps its type, and waitq links exactly the tasks asleep.
IoTypeOK ==
  /\ locked \in BOOLEAN /\ inflight \in BOOLEAN
  /\ waitq \in Seq(Task)
  /\ {waitq[i] : i \in 1 .. Len(waitq)} = {t \in Task : iopc[t] = "asleep"}
  /\ curr \in Task \cup {NULL}
  /\ iopc \in [Task -> IoPC]
  /\ op \in [Task -> {"lock", "wait"}]
  /\ nop \in [Task -> 0 .. MaxOps] /\ again \in SUBSET Task

\* The lock has one holder at a time: a task that has it or the disk.
OneHolder ==
  LET holders == {t \in Task : iopc[t] = "got"}
  IN  Cardinality(holders) + (IF inflight THEN 1 ELSE 0) = (IF locked THEN 1 ELSE 0)

\* One turn of the loop is safe: a task that went to sleep on its first test
\* sleeps only while the lock is held, so that an unlock is still to come.
FirstSleepIsWoken == \A t \in Task : iopc[t] = "asleep" /\ t \notin again => locked

\* Exclusion, and no sleep without an unlock to come after the first test.
LockIsSafe == OneHolder /\ FirstSleepIsWoken

\* lock() and wait() return: the buffer's I/O is over in the end and whoever
\* waits for it goes on.
WaitReturns == \A t \in Task : (iopc[t] = "asleep") ~> (iopc[t] # "asleep")
=============================================================================
