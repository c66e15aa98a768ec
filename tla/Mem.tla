-------------------------------- MODULE Mem --------------------------------
(***************************************************************************)
(* What virtual memory promises the tasks: each has an array of pages of   *)
(* its own.  fork gives the child a copy of the parent's array, and from   *)
(* then on no store of the one is seen by the other.                       *)
(***************************************************************************)
CONSTANTS Task, Page, Val,
          Fresh         \* Fresh[v]: what page v holds before the first store

VARIABLES mem,          \* mem[t][v]: what task t has at page v
          seen          \* the value the last load returned

memvars == <<mem, seen>>

Init == mem = [t \in Task |-> Fresh] /\ seen \in Val

Load(t, v) == seen' = mem[t][v] /\ UNCHANGED mem

Store(t, v, x) == mem' = [mem EXCEPT ![t][v] = x] /\ UNCHANGED seen

Fork(p, c) ==
    /\ mem[c] = Fresh
    /\ mem' = [mem EXCEPT ![c] = mem[p]]
    /\ UNCHANGED seen

\* Exit, and the shrinking of a segment, forget pages.
Forget(t, P) ==
    /\ mem' = [mem EXCEPT ![t] = [v \in Page |-> IF v \in P THEN Fresh[v] ELSE @[v]]]
    /\ UNCHANGED seen

\* exec starts afresh with its arguments, x, at the top of the stack.
Exec(t, top, x) ==
    /\ mem' = [mem EXCEPT ![t] = [Fresh EXCEPT ![top] = x]]
    /\ UNCHANGED seen

Next ==
    \E t \in Task :
        \/ \E v \in Page : Load(t, v)
        \/ \E v \in Page, x \in Val : Store(t, v, x)
        \/ \E c \in Task \ {t} : Fork(t, c)
        \/ \E P \in SUBSET Page : Forget(t, P)
        \/ \E v \in Page, x \in Val : Exec(t, v, x)

Spec == Init /\ [][Next]_memvars
=============================================================================
