-------------------------------- MODULE Pgrp --------------------------------
(***************************************************************************)
(* Process groups, sessions and the terminal they control: kern/pgrp.cc,   *)
(* the part of fork, exit and wait that moves tasks between groups         *)
(* (kern/taskdb.cc, kern/kill.cc), and opening the console and its ioctl   *)
(* (dev/chr/condev.cc, dev/chr/tty.cc).                                    *)
(*                                                                         *)
(* A task is its pid, which is not used again.  pgrp_t and session_t are   *)
(* objects that are freed when their last member leaves.                   *)
(***************************************************************************)
EXTENDS Integers, FiniteSets

CONSTANTS
  PTask, initpid,
  Group, Session, \* numbers, for the objects
  Idle, None,     \* idletask's group and session, which it does not leave
  Hashed,         \* whether findpgrp finds a group: the constructor hashes the
                  \* group under its pgid before it has one
  Foreign         \* whether TIOCSPGRP is called for groups of other sessions

ASSUME PgrpAssumption ==
  /\ initpid \in PTask /\ Idle \in Group \cap Session /\ Hashed \subseteq BOOLEAN
  /\ None \notin PTask \cup Group \cup Session

VARIABLES
  alive,    \* "none", "live", "zombie", "gone"
  pparent,
  pgrp,     \* the group of each task
  grp,      \* pgrp_t: session (None when it is free), pgid, hashed
  ses,      \* session_t: live, leader, fg, tty (whether the console is its)
  console,  \* tty_t::session of the console
  freedused \* a session was used after it was deleted

pgvars == <<alive, pparent, pgrp, grp, ses, console, freedused>>

NoGroup == [session |-> None, pgid |-> None, hashed |-> FALSE]
NoSession == [live |-> FALSE, leader |-> None, fg |-> None, tty |-> FALSE]
Live(t) == alive[t] = "live" /\ ~freedused
Sess(t) == grp[pgrp[t]].session
findpgrp(p) == {g \in Group : grp[g].session # None /\ grp[g].pgid = p /\ grp[g].hashed}

\* A state is a record of the objects; leave and the constructors change it.
Now == [pgrp |-> pgrp, grp |-> grp, ses |-> ses, console |-> console]
Is(x) == pgrp' = x.pgrp /\ grp' = x.grp /\ ses' = x.ses /\ console' = x.console

----------------------------------------------------------------------------
(* leave, enter, and the constructors. *)

\* ~session_t: the console is no one's any more, even if it had passed to
\* another session.
Deleted(x, s) ==
  [x EXCEPT !.ses[s] = NoSession, !.console = IF x.ses[s].tty THEN None ELSE @]

\* A member, and with it perhaps the leader, goes; an empty group goes.
Gone(x, t, s) == [x EXCEPT !.pgrp[t] = None, !.ses[s].leader = IF @ = t THEN None ELSE @]
Emptied(x, g, s) == [x EXCEPT !.grp[g] = NoGroup, !.ses[s].fg = IF @ = g THEN None ELSE @]

LeaveKeepingFg(x, t) ==
  LET g == x.pgrp[t]
      y == Gone(x, t, x.grp[g].session)
  IN  IF g = Idle \/ \E u \in PTask : y.pgrp[u] = g THEN y ELSE [y EXCEPT !.grp[g] = NoGroup]

Leave(x, t) ==
  LET g == x.pgrp[t]
      s == x.grp[g].session
      y == Gone(x, t, s)
      z == Emptied(y, g, s)
  IN  IF g = Idle \/ \E u \in PTask : y.pgrp[u] = g THEN y
      ELSE IF \E h \in Group : z.grp[h].session = s THEN z
      ELSE Deleted(z, s)

Enters(x, t, g) == [x EXCEPT !.pgrp[t] = g]
NewGroup(x, s, t, g, h) ==
  [x EXCEPT !.pgrp[t] = g, !.grp[g] = [session |-> s, pgid |-> t, hashed |-> h]]
NewSession(x, t, s, g, h) ==
  NewGroup([x EXCEPT !.ses[s] = [live |-> TRUE, leader |-> t, fg |-> None, tty |-> FALSE]], s, t, g, h)

\* The allocator's choice does not matter.
FreeGroup(x) == LET G == {g \in Group : x.grp[g].session = None} IN {g \in G : \A h \in G : g <= h}
FreeSession(x) == LET S == {s \in Session : ~x.ses[s].live} IN {s \in S : \A r \in S : s <= r}

----------------------------------------------------------------------------
(* Tasks come and go. *)

PgFork(t, c) ==
  /\ Live(t) /\ alive[c] = "none"
  /\ alive' = [alive EXCEPT ![c] = "live"]
  /\ pparent' = [pparent EXCEPT ![c] = t]
  /\ Is(Enters(Now, c, pgrp[t]))
  /\ UNCHANGED freedused

\* The zombie stays in its group, and the leader stays leader, until waitpid.
PgExit(t) ==
  /\ Live(t) /\ t # initpid
  /\ alive' = [alive EXCEPT ![t] = "zombie"]
  /\ pparent' = [u \in PTask |-> IF pparent[u] = t THEN initpid ELSE pparent[u]]
  /\ UNCHANGED <<pgrp, grp, ses, console, freedused>>

\* ~task_t, uninstall.
Reap(t) ==
  /\ alive[t] = "zombie" /\ ~freedused
  /\ alive' = [alive EXCEPT ![t] = "gone"]
  /\ pparent' = [pparent EXCEPT ![t] = None]
  /\ Is(Leave(Now, t))
  /\ UNCHANGED freedused

----------------------------------------------------------------------------
(* setsid and setpgid. *)

MaySetsid(t) == grp[pgrp[t]].pgid # t

Setsid(t) ==
  /\ Live(t) /\ MaySetsid(t)
  /\ \E x \in {Leave(Now, t)} : \E h \in Hashed :
       \E s \in FreeSession(x), g \in FreeGroup(x) : Is(NewSession(x, t, s, g, h))
  /\ UNCHANGED <<alive, pparent, freedused>>

\* mychild: a descendant.
mychild(t, u) ==
  LET above[n \in 0 .. Cardinality(PTask)] ==
        IF n = 0 THEN {pparent[u]} ELSE above[n - 1] \cup {pparent[v] : v \in above[n - 1] \cap PTask}
  IN  t \in above[Cardinality(PTask)]

MayMove(t, u) ==
  /\ u = t \/ (mychild(t, u) /\ Sess(u) = Sess(t))
  /\ ses[Sess(u)].leader # u

\* A new group in u's session, which leave may just have deleted.
SetpgidNew(t, u) ==
  /\ Live(t) /\ alive[u] \in {"live", "zombie"} /\ MayMove(t, u)
  /\ findpgrp(u) = {}
  /\ \E x \in {Leave(Now, u)} : \E g \in FreeGroup(x), h \in Hashed :
       IF x.ses[Sess(u)].live
         THEN Is(NewGroup(x, Sess(u), u, g, h)) /\ UNCHANGED freedused
         ELSE Is(x) /\ freedused' = TRUE
  /\ UNCHANGED <<alive, pparent>>

\* Joining does not ask for the session of the group.
SetpgidJoin(t, u, p) ==
  /\ Live(t) /\ alive[u] \in {"live", "zombie"} /\ MayMove(t, u) /\ p # u
  /\ \E g \in findpgrp(p) : g # pgrp[u] /\ Is(Enters(Leave(Now, u), u, g))
  /\ UNCHANGED <<alive, pparent, freedused>>

----------------------------------------------------------------------------
(* The terminal. *)

\* condev_t::open by a session that has no terminal.
OpenConsole(t) ==
  /\ Live(t) /\ ~ses[Sess(t)].tty
  /\ ses' = [ses EXCEPT ![Sess(t)].tty = TRUE, ![Sess(t)].fg = pgrp[t]]
  /\ console' = Sess(t)
  /\ UNCHANGED <<alive, pparent, pgrp, grp, freedused>>

\* TIOCSPGRP, from anyone who has the console open.
Setfg(p) ==
  /\ console # None /\ ~freedused
  /\ ses[console].fg # None
  /\ \E g \in findpgrp(p) :
       /\ Foreign \/ grp[g].session = console
       /\ ses' = [ses EXCEPT ![console].fg = g]
  /\ UNCHANGED <<alive, pparent, pgrp, grp, console, freedused>>

----------------------------------------------------------------------------
\* init starts in the group and the session of idletask, of pid 0.
PgInit ==
  /\ alive = [t \in PTask |-> IF t = initpid THEN "live" ELSE "none"]
  /\ pparent = [t \in PTask |-> None]
  /\ pgrp = [t \in PTask |-> IF t = initpid THEN Idle ELSE None]
  /\ grp = [g \in Group |-> IF g = Idle THEN [session |-> Idle, pgid |-> 0, hashed |-> FALSE] ELSE NoGroup]
  /\ ses = [s \in Session |-> IF s = Idle THEN [NoSession EXCEPT !.live = TRUE] ELSE NoSession]
  /\ console = None /\ freedused = FALSE

PgStep(t) ==
  \/ \E c \in PTask : PgFork(t, c) \/ SetpgidNew(t, c)
  \/ PgExit(t) \/ Reap(t) \/ Setsid(t) \/ OpenConsole(t) \/ Setfg(t)
  \/ \E u, p \in PTask : SetpgidJoin(t, u, p)
PgNext == \E t \in PTask : PgStep(t)
PgSpec == PgInit /\ [][PgNext]_pgvars

(***************************************************************************)
(* An interrupt key goes to a foreground group that is there: notifyfg     *)
(* follows tty_t::session and its fg in a software interrupt, whoever has  *)
(* exited, moved or made a session of its own meanwhile.                   *)
(***************************************************************************)
FgIsLive ==
  console # None =>
    ses[console].live /\ (ses[console].fg # None => grp[ses[console].fg].session = console)
=============================================================================
