------------------------------ MODULE MCSched ------------------------------
(* Instance of Sched for TLC. *)
EXTENDS Sched

CONSTANTS a, b, q

MCTask == {idle, a, b}
MCWaitQ == {q}
MCNiceInc == {-1, 1, 2}

=============================================================================
