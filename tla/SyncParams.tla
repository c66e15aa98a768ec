----------------------------- MODULE SyncParams -----------------------------
(***************************************************************************)
(* The constants of the modules on sleeping locks, ring buffers and pipes  *)
(* (IoLock, RWLock, Fifoq, Pipe) and what their proofs assume of them.     *)
(***************************************************************************)
EXTENDS Integers, FiniteSets

CONSTANTS
  Task,
  NULL,     \* no task
  Char,     \* what a byte of a ring buffer may be
  SIZE,     \* room of a ring buffer in bytes, a power of two (4096 for a pipe,
            \* 512 for a tty)
  creator,  \* the task that has called pipe()
  Count     \* the counts that a pipe's read and write are called with

ASSUME TaskAssumption == IsFiniteSet(Task) /\ NULL \notin Task

ASSUME RoomAssumption == SIZE \in Nat /\ SIZE > 1

ASSUME CallAssumption == creator \in Task /\ Count \subseteq Nat \ {0}

Smaller(m, n) == IF m <= n THEN m ELSE n

=============================================================================
