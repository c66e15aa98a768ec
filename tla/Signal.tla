------------------------------- MODULE Signal -------------------------------
(***************************************************************************)
(* Signals as a task sees them: kern/signal.h, kern/signal.cc and, of      *)
(* kern/kill.cc, post and force.  A task changes its own mask and actions  *)
(* and others post to it; a system call ends, like an interrupt of user    *)
(* code, with checksignal, which sets up at most one handler.              *)
(*                                                                         *)
(* Signals have their numbers.  Of a handler's frame on the user stack     *)
(* only the saved mask is kept; programs return from handlers with the     *)
(* frames that setupframe made, innermost first.                           *)
(***************************************************************************)
EXTENDS Integers, Sequences, SequencesExt, FiniteSetsExt

CONSTANTS
  STask, inittask,
  Parent,        \* the parent of each task
  Signo, Trap,   \* the signals that occur, and those of traps
  Mask,          \* the sets that masks are changed with
  Flag,          \* the sets of sigaction flags that occur
  MaxFrame,      \* bound on nested handlers
  MaxPosts       \* bound on the signals that are posted

SIGBUS == 7
SIGKILL == 9
SIGCHLD == 17
SIGCONT == 18
SIGSTOP == 19
StopSig == {19, 20, 21, 22}

\* Signal numbers start at 1, so that {0} is no mask, and no trap of the
\* processor posts SIGCHLD (asm/trap.cc).
SignalParams ==
  /\ Signo \subseteq Nat \ {0} /\ SIGCHLD \in Signo
  /\ Trap \subseteq Signo \ {SIGCHLD}
  /\ Mask \subseteq SUBSET Signo
ASSUME SignalAssumption == SignalParams

VARIABLES
  sigset, sigmask,
  vec,       \* sigvec: func ("DFL", "IGN", "HND"), mask and flags
  frame,     \* the masks saved in the frames on the stack
  spc,       \* "user"; "ret": on the way there; "wait", "woken": in syspause
             \* or syssigsuspend; "stop", "zombie"
  oldmask,   \* syssigsuspend's local; {0} in syspause
  base,      \* the mask that the program has asked for outside its handlers
  nsent

sigvars == <<sigset, sigmask, vec, frame, spc, oldmask, base, nsent>>

\* del(a), and del of several, whose complements are joined by "or": it takes
\* away only what equals each of them.
del(S, a) == S \ {a}
DelMany(S, T) == {s \in S : \E a \in T : s # a}
invalid(S) == SIGKILL \in S \/ SIGSTOP \in S

\* sigdflact: its entries from 23 on are one too late.
sigdflign(s) == s \in {7, 17, 18, 24, 28, 29}
Stops(s) == s \in StopSig
unmasked(t) == sigset[t] \ sigmask[t]

----------------------------------------------------------------------------
(* post and force. *)

\* What sigset is after the removal of the signals that s undoes.
Undone(t, s) ==
  CASE s \in {SIGKILL, SIGCONT} -> DelMany(sigset[t], StopSig)
    [] s \in StopSig -> del(sigset[t], SIGCONT)
    [] OTHER -> sigset[t]
Dropped(f, s) == (f = "IGN" /\ s # SIGCHLD) \/ (f = "DFL" /\ sigdflign(s))
Reaches(t, s) == spc[t] # "zombie" /\ (t = inittask => s = SIGCHLD)

Posted(t, s, f) == IF ~Reaches(t, s) THEN sigset[t]
                   ELSE Undone(t, s) \cup IF Dropped(f, s) THEN {} ELSE {s}
\* Only a task in an interruptible sleep is woken.
Wakes(t, s, f) == Reaches(t, s) /\ ~Dropped(f, s) /\ s \notin sigmask[t] /\ spc[t] = "wait"

Post(t, s) ==
  /\ nsent < MaxPosts /\ nsent' = nsent + 1
  /\ sigset' = [sigset EXCEPT ![t] = Posted(t, s, vec[t][s].func)]
  /\ spc' = IF Wakes(t, s, vec[t][s].func) THEN [spc EXCEPT ![t] = "woken"] ELSE spc
  /\ UNCHANGED <<sigmask, vec, frame, oldmask, base>>

\* A trap of the task itself.
Forced(t, s) ==
  /\ spc[t] = "user" /\ nsent < MaxPosts /\ nsent' = nsent + 1
  /\ sigmask' = [sigmask EXCEPT ![t] = del(@, s)]
  /\ vec' = [vec EXCEPT ![t][s].func = IF @ = "IGN" THEN "DFL" ELSE @]
  /\ sigset' = [sigset EXCEPT ![t] = Posted(t, s, vec'[t][s].func)]
  /\ spc' = [spc EXCEPT ![t] = "ret"]
  /\ base' = IF frame[t] = << >> THEN [base EXCEPT ![t] = del(@, s)] ELSE base
  /\ UNCHANGED <<frame, oldmask>>

----------------------------------------------------------------------------
(* The system calls. *)

Call(t) == spc[t] = "user" /\ spc' = [spc EXCEPT ![t] = "ret"]

\* syssigprocmask and sysssetmask.
Setmask(t, m) ==
  /\ Call(t)
  /\ ~invalid(m)
  /\ \E new \in {sigmask[t] \cup m, sigmask[t] \ m, m} :
       /\ sigmask' = [sigmask EXCEPT ![t] = new]
       /\ base' = IF frame[t] = << >> THEN [base EXCEPT ![t] = new] ELSE base
  /\ UNCHANGED <<sigset, vec, frame, oldmask, nsent>>

\* checkpending: a signal that comes to be ignored is discarded; but SIGCHLD
\* with SIGXIGN is not ignored.
CheckpendingNot(t, s, f) == sigset[t]
Checkpending(t, s, f) ==
  IF (f = "IGN" /\ s # SIGCHLD) \/ (f = "DFL" /\ sigdflign(s)) THEN del(sigset[t], s) ELSE sigset[t]

\* syssigaction, and with the flags ONESHOT and NOMASK also syssignal.
Sigaction(t, s, f, m, fl) ==
  /\ Call(t)
  /\ s \notin {SIGKILL, SIGSTOP} /\ ~invalid(m)
  /\ vec' = [vec EXCEPT ![t][s] =
               [func |-> f, mask |-> IF "NOMASK" \in fl THEN {} ELSE m \cup {s}, flags |-> fl]]
  /\ sigset' = [sigset EXCEPT ![t] = Checkpending(t, s, f)]
  /\ UNCHANGED <<sigmask, frame, oldmask, base, nsent>>

\* flush() of execve: the mask stays, handlers and pending signals go.
Exec(t) ==
  /\ Call(t)
  /\ sigset' = [sigset EXCEPT ![t] = {}]
  /\ vec' = [vec EXCEPT ![t] = [s \in Signo |->
               [func |-> IF vec[t][s].func = "IGN" THEN "IGN" ELSE "DFL", mask |-> {}, flags |-> {}]]]
  /\ frame' = [frame EXCEPT ![t] = << >>]
  /\ base' = [base EXCEPT ![t] = sigmask[t]]
  /\ UNCHANGED <<sigmask, oldmask, nsent>>

\* waitq.wait() does not sleep with an unmasked signal.
Wait(S, m) == IF S \ m = {} THEN "wait" ELSE "woken"

Sigsuspend(t, m) ==
  /\ spc[t] = "user" /\ ~invalid(m)
  /\ oldmask' = [oldmask EXCEPT ![t] = sigmask[t]]
  /\ sigmask' = [sigmask EXCEPT ![t] = m]
  /\ spc' = [spc EXCEPT ![t] = Wait(sigset[t], m)]
  /\ UNCHANGED <<sigset, vec, frame, base, nsent>>

Pause(t) ==
  /\ spc[t] = "user"
  /\ oldmask' = [oldmask EXCEPT ![t] = {0}]
  /\ spc' = [spc EXCEPT ![t] = Wait(sigset[t], sigmask[t])]
  /\ UNCHANGED <<sigset, sigmask, vec, frame, base, nsent>>

\* The rest of the two: syssigsuspend takes the old mask back before any
\* handler is set up.
Wakeup(t) ==
  /\ spc[t] = "woken"
  /\ spc' = [spc EXCEPT ![t] = "ret"]
  /\ sigmask' = IF oldmask[t] = {0} THEN sigmask ELSE [sigmask EXCEPT ![t] = oldmask[t]]
  /\ oldmask' = [oldmask EXCEPT ![t] = {0}]
  /\ UNCHANGED <<sigset, vec, frame, base, nsent>>

Sigreturn(t) ==
  /\ Call(t) /\ frame[t] # << >>
  /\ sigmask' = [sigmask EXCEPT ![t] = DelMany(Last(frame[t]), {SIGKILL, SIGSTOP})]
  /\ frame' = [frame EXCEPT ![t] = Front(@)]
  /\ UNCHANGED <<sigset, vec, oldmask, base, nsent>>

----------------------------------------------------------------------------
(* checksignal. *)

\* What setupframe saves.
SavedLate(t, s) == sigmask[t] \cup vec[t][s].mask
Saved(t, s) == sigmask[t]

\* The signals that end checksignal's loop: those that a handler, the end or a
\* stop of the task answers.  Of init's only SIGCHLD is not passed over.
Answered(t) == {s \in unmasked(t) : (t = inittask => s = SIGCHLD) /\ vec[t][s].func # "IGN"
                                    /\ ~(vec[t][s].func = "DFL" /\ sigdflign(s))}

\* The signals up to the answered one are taken, lowest number first.
Nothing(t) ==
  /\ spc[t] = "ret" /\ Answered(t) = {}
  /\ spc' = [spc EXCEPT ![t] = "user"]
  /\ sigset' = [sigset EXCEPT ![t] = @ \ unmasked(t)]
  /\ UNCHANGED <<sigmask, vec, frame, oldmask, base, nsent>>

Taken(t, s) == [sigset EXCEPT ![t] = {x \in @ : x \in sigmask[t] \/ x > s}]

\* The second disjunct: the stack has no room for the frame.
Handler(t, s) ==
  /\ sigset' = Taken(t, s)
  /\ \/ /\ Len(frame[t]) < MaxFrame
        /\ frame' = [frame EXCEPT ![t] = Append(@, Saved(t, s))]
        /\ sigmask' = [sigmask EXCEPT ![t] = @ \cup vec[t][s].mask]
        /\ vec' = IF "ONESHOT" \in vec[t][s].flags THEN [vec EXCEPT ![t][s].func = "DFL"] ELSE vec
        /\ spc' = [spc EXCEPT ![t] = "user"]
     \/ spc' = [spc EXCEPT ![t] = "zombie"] /\ UNCHANGED <<frame, sigmask, vec>>
  /\ UNCHANGED <<oldmask, base, nsent>>

\* stop(): the parent hears of it.  No signal wakes a stopped task.
Stop(t, s) ==
  LET p == Parent[t]
      told == p \in STask /\ "NOCLDSTOP" \notin vec[p][SIGCHLD].flags
      after == Taken(t, s)
  IN
  /\ sigset' = IF told THEN [after EXCEPT ![p] = Posted(p, SIGCHLD, vec[p][SIGCHLD].func)] ELSE after
  /\ spc' = [u \in STask |-> IF u = t THEN "stop"
                             ELSE IF told /\ u = p /\ Wakes(p, SIGCHLD, vec[p][SIGCHLD].func) THEN "woken"
                             ELSE spc[u]]
  /\ UNCHANGED <<sigmask, vec, frame, oldmask, base, nsent>>

Terminate(t, s) ==
  /\ sigset' = Taken(t, s)
  /\ spc' = [spc EXCEPT ![t] = "zombie"]
  /\ UNCHANGED <<sigmask, vec, frame, oldmask, base, nsent>>

Checksignal(t) ==
  /\ spc[t] = "ret" /\ Answered(t) # {}
  /\ \E s \in {Min(Answered(t))} :
       IF vec[t][s].func = "HND" THEN Handler(t, s)
       ELSE IF Stops(s) THEN Stop(t, s) ELSE Terminate(t, s)

\* An interrupt of user code.
Interrupt(t) == Call(t) /\ unmasked(t) # {} /\ UNCHANGED <<sigset, sigmask, vec, frame, oldmask, base, nsent>>

----------------------------------------------------------------------------
SigInit ==
  /\ sigset = [t \in STask |-> {}] /\ sigmask = [t \in STask |-> {}]
  /\ vec = [t \in STask |-> [s \in Signo |-> [func |-> "DFL", mask |-> {}, flags |-> {}]]]
  /\ frame = [t \in STask |-> << >>]
  /\ spc = [t \in STask |-> "user"]
  /\ oldmask = [t \in STask |-> {0}]
  /\ base = [t \in STask |-> {}]
  /\ nsent = 0

SigStep(t) ==
  \/ \E s \in Signo : Post(t, s)
  \/ \E s \in Trap : Forced(t, s)
  \/ \E m \in Mask : Setmask(t, m) \/ Sigsuspend(t, m)
  \/ \E s \in Signo, f \in {"DFL", "IGN", "HND"}, m \in Mask, fl \in Flag : Sigaction(t, s, f, m, fl)
  \/ Exec(t) \/ Pause(t) \/ Wakeup(t) \/ Sigreturn(t)
  \/ Nothing(t) \/ Checksignal(t) \/ Interrupt(t)

SigNext == \E t \in STask : SigStep(t)
SigSpec == SigInit /\ [][SigNext]_sigvars

(***************************************************************************)
(* "Setting a signal action to SIG_IGN for a signal that is pending shall  *)
(* cause the pending signal to be discarded", and the same for a default   *)
(* action that ignores (comment before checkpending): whatever calls,      *)
(* posts, handlers that reset their action and execs there were, a signal  *)
(* that is ignored is not pending.  SIGCHLD with SIG_IGN is excepted.      *)
(***************************************************************************)
IgnoredNotPending == \A t \in STask : \A s \in sigset[t] : ~Dropped(vec[t][s].func, s)

(***************************************************************************)
(* A task in pause or sigsuspend has no signal that its mask lets through: *)
(* neither one that came before the mask was changed nor one posted since. *)
(***************************************************************************)
SleepsWithoutSignal == \A t \in STask : spc[t] = "wait" => unmasked(t) = {}

\* What is pending is still to be taken, and nobody sleeps on it.
PendingIsDue == IgnoredNotPending /\ SleepsWithoutSignal

(***************************************************************************)
(* When no handler runs, the mask is the one the program set outside its   *)
(* handlers: handlers that interrupt handlers, a mask set inside one and   *)
(* sigsuspend leave nothing behind.                                        *)
(***************************************************************************)
MaskComesBack ==
  \A t \in STask : spc[t] \in {"user", "ret"} /\ frame[t] = << >> => sigmask[t] = base[t]
=============================================================================
