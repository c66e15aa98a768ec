------------------------------- MODULE MCProc -------------------------------
(***************************************************************************)
(* Processes for TLC.  One behaviour is a behaviour of one part, and the   *)
(* others rest.                                                            *)
(*                                                                         *)
(* Exit and wait: init and two tasks.  Signals: a trap, a child's and a    *)
(* stop signal, two nested handlers.  Groups: three tasks, two groups and  *)
(* a session besides idletask's.  Files: two tasks with two descriptors,   *)
(* a file and a directory, five calls.                                     *)
(***************************************************************************)
EXTENDS ExitWait, Signal, Pgrp, Files, TLC

CONSTANTS u1, u2

MCTask == {init, u1, u2}
MCPid == {any, u1, u2}
MCBoth == {"SIGKILL", "SIGSTOP"}
MCFunc == {"DFL", "IGN", "HND"}
MCSym == Permutations({u1, u2})

MCSTask == {u1}
MCParent == [t \in {u1} |-> init]
MCMask == {{}, {8}}
MCFlag == {{}, {"ONESHOT", "NOMASK"}}

MCFTask == {u1, u2}
MCInode == {"reg", "dir"}
MCDirectory == {"dir"}

VARIABLE part

mcvars == <<part, vars, sigvars, pgvars, fvars>>

\* While the files rest, u1 is the task that exists.
FilesRest == fpc = [t \in FTask |-> IF t = u1 THEN "user" ELSE "none"]

MCInit ==
  /\ part \in {"exitwait", "signal", "pgrp", "files"}
  /\ part # "files" => FilesRest
  /\ Init /\ SigInit /\ PgInit /\ FInit

ExitWaitStep == part = "exitwait" /\ Next /\ UNCHANGED <<part, sigvars, pgvars, fvars>>
SignalStep == part = "signal" /\ SigNext /\ UNCHANGED <<part, vars, pgvars, fvars>>
PgrpStep == part = "pgrp" /\ PgNext /\ UNCHANGED <<part, vars, sigvars, fvars>>
FilesStep == part = "files" /\ FNext /\ UNCHANGED <<part, vars, sigvars, pgvars>>

MCNext == ExitWaitStep \/ SignalStep \/ PgrpStep \/ FilesStep

MCSpec == MCInit /\ [][MCNext]_mcvars
=============================================================================
