------------------------------ MODULE ExitWait ------------------------------
(***************************************************************************)
(* The life of processes: fork (kern/fork.cc, kern/taskdb.cc), exit, wait  *)
(* and the signals between parent and child (kern/kill.cc, and stop() and  *)
(* checksignal() of kern/signal.cc).                                       *)
(*                                                                         *)
(* Kernel code is not preempted: a call runs in one step up to the place   *)
(* where it may sleep.  doexit may sleep twice, while it closes files and, *)
(* its signal vector already disposed of, while it lets its directories    *)
(* go.  Of the signals there are SIGKILL, SIGCHLD and SIGSTOP, unmasked.   *)
(***************************************************************************)
EXTENDS Integers, Sequences, FiniteSets, SequencesExt

CONSTANTS
  Task,
  init,   \* inittask; its program never exits
  any,    \* waitpid's pid -1
  NULL,
  \* The arguments that calls are made with:
  Pid,       \* of waitpid: some tasks, and any
  Untraced,  \* of waitpid: whether WUNTRACED is given
  KillSig,   \* of kill: some of SIGKILL and SIGSTOP
  Func       \* of signal(SIGCHLD): some of "DFL", "IGN" and "HND"

ASSUME ExitWaitAssumption ==
  /\ init \in Task /\ any \notin Task /\ NULL \notin Task
  /\ Pid \subseteq Task \cup {any} /\ Untraced \subseteq BOOLEAN
  /\ KillSig \subseteq {"SIGKILL", "SIGSTOP"}
  /\ Func \subseteq {"DFL", "IGN", "HND"}

VARIABLES
  state,     \* task_t::state; "none" is a task_t that is not installed
  parent,    \* task_t::parent; NULL for init, whose parent is idletask
  childq,    \* task_t::childq, oldest child first
  pc,        \* "user"; "wait": in waitpid's sleep; "close", "lose": in doexit
  want,      \* the argument of the waitpid a task is in: pid and WUNTRACED
  waiting,   \* TFWAITCHLDEXIT
  pending,   \* task_t::sigset
  func,      \* the action for SIGCHLD: "DFL", "IGN" or "HND"
  exitcode,  \* a stopped task's exitcode is not 0: its stop is to be reported
  panicked   \* a disposed signal vector has been read

vars == <<state, parent, childq, pc, want, waiting, pending, func, exitcode, panicked>>

Signame == {"SIGKILL", "SIGCHLD", "SIGSTOP"}
Rng(q) == {q[i] : i \in 1 .. Len(q)}

Running(t) == ~panicked /\ state[t] = "TRUN"
AtUser(t) == Running(t) /\ pc[t] = "user"

----------------------------------------------------------------------------
(* task_t::post. *)

\* The tests before sigset.add: zombies and, but for SIGCHLD, init are left
\* alone; SIGCHLD is dropped when its action is the default one.
Accepts(t, s) ==
  /\ state[t] \notin {"none", "TZOMBIE"}
  /\ t = init => s = "SIGCHLD"
  /\ s = "SIGCHLD" => func[t] # "DFL"

\* sigvec->get(): a task that has disposed of its vector must not come here.
Trips(t) == pc[t] = "lose" /\ state[t] # "TZOMBIE"

\* Signal s is posted to each task of S; those of C are told besides that a
\* child is gone (notify).  Not in this step: the poster u, which becomes st.
Sent(S, s) == [t \in Task |-> IF t \in S /\ Accepts(t, s)
                                  THEN pending[t] \cup {s} ELSE pending[t]]
WokenBySignal(S, s, C) == {t \in S : state[t] = "TWAIT" /\ Accepts(t, s)}
WokenNot(S, s, C) == {t \in C : state[t] = "TWAIT" /\ waiting[t]}
Woken(S, s, C) ==
  {t \in S : state[t] = "TWAIT" /\ (Accepts(t, s) \/ (t \in C /\ waiting[t]))}
StateAfter(S, s, C, u, st) ==
  [t \in Task |-> IF t = u THEN st ELSE IF t \in Woken(S, s, C) THEN "TRUN" ELSE state[t]]

----------------------------------------------------------------------------
(* fork, and the actions for SIGCHLD. *)

\* clone and install: the child goes to the tail of its parent's childq.
Fork(t, c) ==
  /\ AtUser(t) /\ state[c] = "none"
  /\ state' = [state EXCEPT ![c] = "TRUN"]
  /\ parent' = [parent EXCEPT ![c] = t]
  /\ childq' = [childq EXCEPT ![t] = Append(@, c), ![c] = << >>]
  /\ pc' = [pc EXCEPT ![c] = "user"]
  /\ waiting' = [waiting EXCEPT ![c] = FALSE]
  /\ pending' = [pending EXCEPT ![c] = {}]
  /\ func' = [func EXCEPT ![c] = func[t]]
  /\ exitcode' = [exitcode EXCEPT ![c] = FALSE]
  /\ UNCHANGED <<want, panicked>>

\* syssignal and syssigaction, with checkpending: a pending SIGCHLD is dropped
\* when its action becomes the default one.
SysSignal(t, f) ==
  /\ AtUser(t) /\ f # func[t]
  /\ func' = [func EXCEPT ![t] = f]
  /\ pending' = IF f = "DFL" THEN [pending EXCEPT ![t] = @ \ {"SIGCHLD"}] ELSE pending
  /\ UNCHANGED <<state, parent, childq, pc, want, waiting, exitcode, panicked>>

\* flush() of sysexecve: handlers go, and so do the pending signals, those that
\* were posted while execve slept included.
Flush(t) ==
  /\ AtUser(t)
  /\ func' = [func EXCEPT ![t] = IF @ = "IGN" THEN @ ELSE "DFL"]
  /\ pending' = [pending EXCEPT ![t] = {}]
  /\ UNCHANGED <<state, parent, childq, pc, want, waiting, exitcode, panicked>>

\* syskill of one task.
Kill(t, u, s) ==
  /\ AtUser(t) /\ state[u] # "none"
  /\ panicked' = Trips(u)
  /\ pending' = Sent({u}, s)
  /\ state' = StateAfter({u}, s, {}, t, state[t])
  /\ UNCHANGED <<parent, childq, pc, want, waiting, func, exitcode>>

----------------------------------------------------------------------------
(* waitpid. *)

Matches(w, c) == w.pid = any \/ w.pid = c

\* The first child in childq that waitpid has something to tell about.
Tells(w, c) ==
  /\ Matches(w, c)
  /\ state[c] = "TZOMBIE" \/ (state[c] = "TSTOP" /\ w.untraced /\ exitcode[c])
First(t, w) ==
  childq[t][CHOOSE i \in 1 .. Len(childq[t]) :
              /\ Tells(w, childq[t][i])
              /\ \A j \in 1 .. i - 1 : ~Tells(w, childq[t][j])]
HasNews(t, w) == \E c \in Rng(childq[t]) : Tells(w, c)

\* A queue that the elements of Z have left; the others keep their order.
Without(q, Z) ==
  LET Kept == {i \in 1 .. Len(q) : q[i] \notin Z}
      Rank(i) == Cardinality({j \in Kept : j <= i})
  IN  [n \in 1 .. Cardinality(Kept) |-> q[CHOOSE i \in Kept : Rank(i) = n]]

\* delete of the zombies Z, children of t: task_t::uninstall.
Delete(t, Z) ==
  /\ state' = [c \in Task |-> IF c \in Z THEN "none" ELSE state[c]]
  /\ parent' = [c \in Task |-> IF c \in Z THEN NULL ELSE parent[c]]
  /\ childq' = [childq EXCEPT ![t] = Without(@, Z)]
  /\ func' = [c \in Task |-> IF c \in Z THEN "DFL" ELSE func[c]]

\* The call returns.
Default == [pid |-> any, untraced |-> FALSE]
Return(t) ==
  /\ pc' = [pc EXCEPT ![t] = "user"]
  /\ want' = [want EXCEPT ![t] = Default]

\* waitpid is called, or goes back to "repeat" because a child has gone.
Scans(t, w) ==
  \/ AtUser(t)
  \/ Running(t) /\ pc[t] = "wait" /\ ~waiting[t] /\ w = want[t]

\* A child is reported: a zombie is deleted, a stop is reported once.
Report(t, w) ==
  /\ Scans(t, w) /\ HasNews(t, w)
  /\ LET c == First(t, w)
     IN  IF state[c] = "TZOMBIE"
           THEN Delete(t, {c}) /\ UNCHANGED exitcode
           ELSE /\ exitcode' = [exitcode EXCEPT ![c] = FALSE]
                /\ UNCHANGED <<state, parent, childq, func>>
  /\ Return(t)
  /\ UNCHANGED <<waiting, pending, panicked>>

\* Nothing yet: sleep, unless a signal is pending (EINTR).
WaitSleep(t, w) ==
  /\ Scans(t, w) /\ ~HasNews(t, w)
  /\ \E c \in Rng(childq[t]) : Matches(w, c)
  /\ pending[t] = {}
  /\ waiting' = [waiting EXCEPT ![t] = TRUE]
  /\ state' = [state EXCEPT ![t] = "TWAIT"]
  /\ pc' = [pc EXCEPT ![t] = "wait"]
  /\ want' = [want EXCEPT ![t] = w]
  /\ UNCHANGED <<parent, childq, pending, func, exitcode, panicked>>

\* The repeated wait() finds a signal pending: EINTR.
WaitNothing(t) ==
  /\ Running(t) /\ pc[t] = "wait" /\ ~waiting[t]
  /\ ~HasNews(t, want[t]) /\ pending[t] # {}
  /\ Return(t)
  /\ UNCHANGED <<state, parent, childq, waiting, pending, func, exitcode, panicked>>

\* Woken by a signal, the flag still set: EINTR.
WaitEintr(t) ==
  /\ Running(t) /\ pc[t] = "wait" /\ waiting[t]
  /\ waiting' = [waiting EXCEPT ![t] = FALSE]
  /\ Return(t)
  /\ UNCHANGED <<state, parent, childq, pending, func, exitcode, panicked>>

----------------------------------------------------------------------------
(* exit. *)

\* sysexit, or a SIGKILL found by checksignal: files are closed.
Exit(t) ==
  /\ AtUser(t) /\ t # init
  /\ state' = [state EXCEPT ![t] = "TSLEEP"]
  /\ pc' = [pc EXCEPT ![t] = "close"]
  /\ UNCHANGED <<parent, childq, want, waiting, pending, func, exitcode, panicked>>

\* The signal vector goes, then the directories are let go.
DisposeSigvec(t) ==
  /\ ~panicked /\ pc[t] = "close"
  /\ pc' = [pc EXCEPT ![t] = "lose"]
  /\ UNCHANGED <<state, parent, childq, want, waiting, pending, func, exitcode, panicked>>

\* The rest of doexit: the parent is notified; the children go to init, which
\* is notified of the zombies and the stopped ones; t becomes a zombie.
NotifiedParent(t) == {parent[t]}
Notified(t) ==
  {parent[t]} \cup
  (IF \E c \in Rng(childq[t]) : state[c] \in {"TZOMBIE", "TSTOP"} THEN {init} ELSE {})

BecomeZombieKeep(t) ==
  /\ ~panicked /\ pc[t] = "lose" /\ state[t] = "TSLEEP"
  /\ LET N == Notified(t)
     IN  /\ panicked' = \E n \in N : Trips(n)
         /\ pending' = Sent(N, "SIGCHLD")
         /\ state' = StateAfter(N, "SIGCHLD", N, t, "TZOMBIE")
         /\ waiting' = [u \in Task |-> waiting[u] /\ u \notin N]
  /\ UNCHANGED <<parent, childq, pc, want, func, exitcode>>
BecomeZombie(t) ==
  /\ ~panicked /\ pc[t] = "lose" /\ state[t] = "TSLEEP"
  /\ LET N == Notified(t)
     IN  /\ panicked' = \E n \in N : Trips(n)
         /\ pending' = Sent(N, "SIGCHLD")
         /\ state' = StateAfter(N, "SIGCHLD", N, t, "TZOMBIE")
         /\ waiting' = [u \in Task |-> waiting[u] /\ u \notin N]
  /\ parent' = [c \in Task |-> IF c \in Rng(childq[t]) THEN init ELSE parent[c]]
  /\ childq' = [childq EXCEPT ![init] = @ \o childq[t], ![t] = << >>]
  /\ UNCHANGED <<pc, want, func, exitcode>>

----------------------------------------------------------------------------
(* checksignal, on the way back to user mode, lowest signal first. *)

Lowest(t, s) ==
  /\ AtUser(t) /\ s \in pending[t]
  /\ s # "SIGKILL" => "SIGKILL" \notin pending[t]
  /\ s = "SIGSTOP" => "SIGCHLD" \notin pending[t]

SigKill(t) == Lowest(t, "SIGKILL") /\ Exit(t)

\* SIGCHLD: run the handler, do nothing, or reap every zombie.
Zombies(t) == {c \in Rng(childq[t]) : state[c] = "TZOMBIE"}
SigChld(t) ==
  /\ Lowest(t, "SIGCHLD")
  /\ pending' = [pending EXCEPT ![t] = @ \ {"SIGCHLD"}]
  /\ IF func[t] = "IGN" THEN Delete(t, Zombies(t))
       ELSE UNCHANGED <<state, parent, childq, func>>
  /\ UNCHANGED <<pc, want, waiting, exitcode, panicked>>

\* SIGSTOP: stop().  The parent gets SIGCHLD (unless it asked for none of these)
\* but is not woken from waitpid.  Nothing makes a stopped task run again.
SigStop(t, nocldstop) ==
  /\ Lowest(t, "SIGSTOP")
  /\ LET N == IF nocldstop THEN {} ELSE {parent[t]}
     IN  /\ panicked' = Trips(parent[t])
         /\ pending' = [Sent(N, "SIGCHLD") EXCEPT ![t] = @ \ {"SIGSTOP"}]
         /\ state' = StateAfter(N, "SIGCHLD", {}, t, "TSTOP")
  /\ exitcode' = [exitcode EXCEPT ![t] = TRUE]
  /\ UNCHANGED <<parent, childq, pc, want, waiting, func>>

----------------------------------------------------------------------------
Init ==
  /\ state = [t \in Task |-> IF t = init THEN "TRUN" ELSE "none"]
  /\ parent = [t \in Task |-> NULL]
  /\ childq = [t \in Task |-> << >>]
  /\ pc = [t \in Task |-> "user"]
  /\ want = [t \in Task |-> Default]
  /\ waiting = [t \in Task |-> FALSE]
  /\ pending = [t \in Task |-> {}]
  /\ func = [t \in Task |-> "DFL"]
  /\ exitcode = [t \in Task |-> FALSE]
  /\ panicked = FALSE

Want == [pid : Pid, untraced : Untraced]

Next ==
  \E t \in Task :
    \/ \E u \in Task : Fork(t, u) \/ \E s \in KillSig : Kill(t, u, s)
    \/ \E f \in Func : SysSignal(t, f)
    \/ Flush(t)
    \/ \E w \in Want : Report(t, w) \/ WaitSleep(t, w)
    \/ WaitNothing(t) \/ WaitEintr(t)
    \/ Exit(t) \/ DisposeSigvec(t) \/ BecomeZombie(t)
    \/ SigKill(t) \/ SigChld(t) \/ \E n \in BOOLEAN : SigStop(t, n)

Spec == Init /\ [][Next]_vars

\* A task that is in the kernel and can go on does; its sleeps in doexit end.
GoesOn(t) ==
  \/ DisposeSigvec(t) \/ BecomeZombie(t) \/ WaitEintr(t) \/ WaitNothing(t)
  \/ pc[t] = "wait" /\ \E w \in Want : Report(t, w) \/ WaitSleep(t, w)

\* Besides, signals are looked at on the way back to user mode, which the clock
\* forces on every task, and init keeps waiting for any child.
Fairness ==
  /\ \A t \in Task : WF_vars(GoesOn(t)) /\ SF_vars(SigKill(t))
  /\ SF_vars(Report(init, Default))

FairSpec == Spec /\ Fairness

----------------------------------------------------------------------------
(* Properties. *)

\* Every variable keeps its type; nothing but SIGCHLD ever reaches init.
TypeOK ==
  /\ state \in [Task -> {"none", "TRUN", "TSLEEP", "TWAIT", "TZOMBIE", "TSTOP"}]
  /\ parent \in [Task -> Task \cup {NULL}]
  /\ childq \in [Task -> Seq(Task)]
  /\ pc \in [Task -> {"user", "wait", "close", "lose"}]
  /\ want \in [Task -> [pid : Task \cup {any}, untraced : BOOLEAN]]
  /\ waiting \in [Task -> BOOLEAN]
  /\ pending \in [Task -> SUBSET Signame] /\ pending[init] \subseteq {"SIGCHLD"}
  /\ func \in [Task -> {"DFL", "IGN", "HND"}]
  /\ exitcode \in [Task -> BOOLEAN]
  /\ panicked \in BOOLEAN

Exists(t) == state[t] # "none"
Alive(t) == state[t] \notin {"none", "TZOMBIE"}

\* Every process has one living parent that can wait for it, however exits and
\* reaping interleave, and a task_t is deleted only when its childq is empty
\* (uninstall alleges it).
FamilyIsTree ==
  /\ \A t, c \in Task :
       c \in Rng(childq[t]) <=> Exists(c) /\ parent[c] = t
  /\ \A t \in Task : IsInjective(childq[t])
  /\ \A c \in Task \ {init} : Exists(c) => parent[c] # NULL /\ Alive(parent[c])
  /\ \A t \in Task : ~Alive(t) => childq[t] = << >>

\* No child is missed: nobody sleeps in waitpid while a zombie that he waits
\* for hangs in his childq, also if it got there because its parent died.
NoZombieMissed ==
  \A t \in Task : state[t] = "TWAIT" /\ pc[t] = "wait" =>
    \A c \in Rng(childq[t]) : ~(state[c] = "TZOMBIE" /\ Matches(want[t], c))

\* "if the flag TFWAITCHIDEXIT is cleared, we are waken up due to our child
\* exit" (syswaitpid): the flag is set throughout the sleep, and a sleeper that
\* finds it cleared has a child to look at.
FlagTellsWhy ==
  \A t \in Task : pc[t] = "wait" =>
    /\ state[t] = "TWAIT" => waiting[t]
    /\ ~waiting[t] => \E c \in Rng(childq[t]) : state[c] \in {"TZOMBIE", "TSTOP"}

\* waitpid sleeps over nothing, and its flag tells the truth.
WaitersAreTold == NoZombieMissed /\ FlagTellsWhy

\* Whoever is orphaned and dies is buried: a zombie that has come to init does
\* not stay for ever, if init waits for any child (and the kernel does not
\* panic).
OrphansAreReaped ==
  [](want[init].pid = any) =>
    \A c \in Task : (state[c] = "TZOMBIE" /\ parent[c] = init)
                      ~> (state[c] = "none" \/ panicked)

\* A SIGKILL that has been posted to a task that runs or sleeps ends it, unless
\* it has been stopped meanwhile or an execve throws the signal away.
KillEnds ==
  \A t \in Task : ("SIGKILL" \in pending[t] /\ Alive(t))
                    ~> (~Alive(t) \/ state[t] = "TSTOP" \/ panicked
                        \/ "SIGKILL" \notin pending[t])
=============================================================================
