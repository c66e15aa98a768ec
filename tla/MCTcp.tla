------------------------------- MODULE MCTcp -------------------------------
(* One TCP connection for TLC: the client writes a byte. *)
EXTENDS Tcp

MCIss == [e \in End |-> IF e = "c" THEN 1 ELSE 3]
MCSend == [e \in End |-> IF e = "c" THEN 1 ELSE 0]
=============================================================================
