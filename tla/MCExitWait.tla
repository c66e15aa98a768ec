----------------------------- MODULE MCExitWait -----------------------------
(***************************************************************************)
(* ExitWait for TLC: init and three more tasks, whose orphans come to      *)
(* init.  Tasks wait for any child, kill with SIGKILL only and leave       *)
(* SIGCHLD alone, so that SigChld, SigStop, SysSignal and WaitNothing      *)
(* cannot happen: MCNext is Next without them.                             *)
(***************************************************************************)
EXTENDS ExitWait, TLC

CONSTANTS a, b, d

MCTask == {init, a, b, d}
MCPid == {any}
MCKill == {"SIGKILL"}

MCNext ==
  \E t \in Task :
    \/ \E u \in Task : Fork(t, u) \/ Kill(t, u, "SIGKILL")
    \/ \E w \in Want : Report(t, w) \/ WaitSleep(t, w)
    \/ Flush(t) \/ WaitEintr(t) \/ SigKill(t)
    \/ Exit(t) \/ DisposeSigvec(t) \/ BecomeZombie(t)

MCFairSpec == Init /\ [][MCNext]_vars /\ Fairness
=============================================================================
