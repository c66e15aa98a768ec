------------------------------- MODULE MCIrq -------------------------------
(***************************************************************************)
(* The timer wheel and the software interrupts for TLC.  One behaviour is  *)
(* a behaviour of one of them (part), and the other rests: of the soft     *)
(* interrupts the wheel needs only that its own is served (RequestServed). *)
(* The wheel has 4 slots and periods up to more than two turns; the soft   *)
(* interrupts are the timer's, the console's and the network's.            *)
(***************************************************************************)
EXTENDS Timer, Softirq

CONSTANTS t1, t2

MCTimer == {t1, t2}
MCPeriod == {3, 4, 8, 9}

VARIABLE part

mcvars == <<part, vars, softvars>>

MCInit == part \in {"timer", "softirq"} /\ Init /\ SoftInit /\ (part = "timer" => ~racy)

TimerStep == part = "timer" /\ Next /\ UNCHANGED <<part, softvars>>
SoftStep == part = "softirq" /\ SoftNext /\ UNCHANGED <<part, vars>>

MCNext == TimerStep \/ SoftStep

MCSpec ==
  /\ MCInit /\ [][MCNext]_mcvars
  /\ part = "timer" => Fairness
  /\ part = "softirq" => SoftFairness
=============================================================================
