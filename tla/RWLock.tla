------------------------------- MODULE RWLock -------------------------------
(***************************************************************************)
(* rwlock_t of kern/lock.cc, the lock on an inode's contents.  It is used  *)
(* in process context only, so each call runs without interruption up to   *)
(* its sleep() or its return; holders may sleep while they hold it.        *)
(***************************************************************************)
EXTENDS Integers, FiniteSets, SyncParams

VARIABLES
  state,      \* rwlock_t::state
  nreader,
  lockowner,
  pc,         \* see PC
  panicked    \* the task that ran into wlock()'s panic, or NULL

vars == <<state, nreader, lockowner, pc, panicked>>

(***************************************************************************)
(* "out": holds nothing.  "rsleep"/"wsleep": in waitq, from rlock/wlock.   *)
(* "rwoken"/"wwoken": woken, about to test the state again.                *)
(* "read"/"write": holds the lock.                                         *)
(***************************************************************************)
PC == {"out", "rsleep", "rwoken", "read", "wsleep", "wwoken", "write"}

Goto(t, p) == pc' = [pc EXCEPT ![t] = p]
Running == panicked = NULL

\* waitq.broadcast().
WakeOne(from, t) ==
  LET w == CHOOSE u \in Task \cup {NULL} :
             u = NULL <=> \A v \in Task : from[v] \notin {"rsleep", "wsleep"}
  IN  [u \in Task |-> IF u = t THEN "out"
                      ELSE IF u = w /\ from[u] = "rsleep" THEN "rwoken"
                      ELSE IF u = w /\ from[u] = "wsleep" THEN "wwoken" ELSE from[u]]
Broadcast(from, t) ==
  [u \in Task |-> IF u = t THEN "out"
                  ELSE IF from[u] = "rsleep" THEN "rwoken"
                  ELSE IF from[u] = "wsleep" THEN "wwoken" ELSE from[u]]

\* rwlock_t::rlock: sleep while a writer has the lock.
Rlock(t) ==
  /\ Running /\ pc[t] \in {"out", "rwoken"}
  /\ IF state = "WRITING"
       THEN Goto(t, "rsleep") /\ UNCHANGED <<state, nreader, lockowner>>
       ELSE /\ state' = "READING"
            /\ nreader' = nreader + 1
            /\ lockowner' = t
            /\ Goto(t, "read")
  /\ UNCHANGED panicked

\* rwlock_t::wlock: sleep until the lock is free, but panic when the lock's
\* recorded owner is the caller.
Wlock(t) ==
  /\ Running /\ pc[t] \in {"out", "wwoken"}
  /\ IF state # "FREE"
       THEN /\ IF lockowner = t
                 THEN panicked' = t /\ UNCHANGED pc
                 ELSE Goto(t, "wsleep") /\ UNCHANGED panicked
            /\ UNCHANGED <<state, lockowner>>
       ELSE /\ state' = "WRITING"
            /\ lockowner' = t
            /\ Goto(t, "write")
            /\ UNCHANGED panicked
  /\ UNCHANGED nreader

\* rwlock_t::unlock: the last reader, and the writer, free the lock.
Unlock(t) ==
  /\ Running /\ pc[t] \in {"read", "write"}
  /\ nreader' = IF state = "READING" THEN nreader - 1 ELSE nreader
  /\ IF state = "READING" /\ nreader > 1
       THEN Goto(t, "out") /\ UNCHANGED <<state, lockowner>>
       ELSE /\ state' = "FREE"
            /\ lockowner' = NULL
            /\ pc' = Broadcast(pc, t)
  /\ UNCHANGED panicked

Init ==
  /\ state = "FREE" /\ nreader = 0 /\ lockowner = NULL
  /\ pc = [t \in Task |-> "out"]
  /\ panicked = NULL

Next == \E t \in Task : Rlock(t) \/ Wlock(t) \/ Unlock(t)

Spec == Init /\ [][Next]_vars

----------------------------------------------------------------------------
(* Properties. *)

Readers == {t \in Task : pc[t] = "read"}
Writers == {t \in Task : pc[t] = "write"}

\* Every variable keeps its type.
TypeOK ==
  /\ state \in {"FREE", "READING", "WRITING"}
  /\ nreader \in Nat
  /\ lockowner \in Task \cup {NULL}
  /\ pc \in [Task -> PC]
  /\ panicked \in Task \cup {NULL}

\* A writer is alone, and the reader count is the number of readers: state and
\* nreader describe who really holds the lock, so unlock() frees it exactly
\* when the last holder leaves.
Exclusion ==
  /\ nreader = Cardinality(Readers)
  /\ state = "FREE" <=> Readers = {} /\ Writers = {}
  /\ state = "WRITING" <=> Writers # {}
  /\ \A t, u \in Writers : t = u
  /\ Writers # {} => Readers = {}

\* No lost wakeup: whoever sleeps, sleeps behind a holder that will broadcast.
SleepersHaveWaker ==
  \A t \in Task : /\ pc[t] = "rsleep" => state = "WRITING"
                  /\ pc[t] = "wsleep" => state # "FREE"

\* rlock(), wlock() and unlock() by any tasks in any order: holders exclude each
\* other, and nobody sleeps on a lock that no holder will free.
RwLockIsSafe == Exclusion /\ SleepersHaveWaker
=============================================================================
