-------------------------------- MODULE Sched --------------------------------
(***************************************************************************)
(* The scheduler of kern/sched.cc with the sleeping half of kern/lock.cc:  *)
(* NRUNTASKQ run queues indexed by a task's time-slice counter, a bit mask *)
(* of the non-empty ones, recharge of the counters, preemption on the way  *)
(* back to user mode, and wait queues.                                     *)
(*                                                                         *)
(* The kernel runs on one processor and is never preempted in kernel mode: *)
(* control leaves a task only inside sched().  Interrupt handlers run      *)
(* between any two steps, except while interrupts are off (cli).           *)
(***************************************************************************)
EXTENDS Integers, Sequences

CONSTANTS
  Task,       \* task_t objects
  idle,       \* idletask
  NRUNTASKQ,  \* number of run queues (32 in the code)
  WaitQ,      \* wait queues that tasks share
  Priority0,  \* idletask's priority, inherited through fork (16 in the code)
  NiceInc     \* the arguments sysnice is called with

ASSUME SchedAssumption ==
  /\ idle \in Task
  /\ NRUNTASKQ \in Nat /\ NRUNTASKQ > 1
  /\ Priority0 \in 0 .. NRUNTASKQ - 1
  /\ NiceInc \subseteq Int

Idx == 0 .. NRUNTASKQ - 1

VARIABLES
  state,       \* task_t::state; "none" is a task_t that is not installed
  counter,     \* task_t::counter, the ticks left and the run queue it is in
  priority,    \* task_t::priority
  hassig,      \* task_t::hassig(): an unmasked signal is pending
  pc,          \* where the task's own control is, see PC below
  alltaskq,    \* every installed task, oldest first
  runtaskq,    \* the run queues
  mask,        \* the set bits of mask
  waitq,       \* the shared wait queues
  curr,        \* the current task
  needresched,
  cli,         \* interrupts are off: curr is inside sched()
  todo         \* what is left of the foreach over alltaskq in find()

queues == <<alltaskq, runtaskq, mask, waitq>>
vars == <<state, counter, priority, hassig, pc, queues, curr, needresched,
          cli, todo>>

State == {"none", "TRUN", "TSLEEP", "TWAIT", "TZOMBIE", "TSTOP"}

(***************************************************************************)
(* "user": in user mode.  "kern": in a system call.  "sched": about to     *)
(* call sched() from waitsleep or syncb, then on with "kern".  "ret": in   *)
(* rettouser, before prempt().  "soft": prempt() done, in dosoftirq() and  *)
(* checksignal().                                                          *)
(***************************************************************************)
PC == {"none", "user", "kern", "sched", "ret", "soft"}

Rng(q) == {q[i] : i \in 1 .. Len(q)}
Inj(q) == \A i, j \in 1 .. Len(q) : q[i] = q[j] => i = j

----------------------------------------------------------------------------
(* Run queues. *)

\* queue_tl::unlink, wherever in the queue the task is.
Unlink(q, t) ==
  LET k == CHOOSE i \in 1 .. Len(q) : q[i] = t
  IN  [i \in 1 .. Len(q) - 1 |-> IF i < k THEN q[i] ELSE q[i + 1]]

\* task_t::deqrun: the queues and the mask after t has left its queue.
DeqQ(t) == [runtaskq EXCEPT ![counter[t]] = Unlink(@, t)]
DeqMask(t) == IF Unlink(runtaskq[counter[t]], t) = << >>
                THEN mask \ {counter[t]} ELSE mask

\* task_t::enqrun: t joins the tail of queue c.
EnqQ(rq, t, c) == [rq EXCEPT ![c] = Append(@, t)]
EnqMask(m, c) == m \cup {c}

SetCounterInPlace(t, newval) ==
  /\ counter' = [counter EXCEPT ![t] = newval]
  /\ UNCHANGED <<runtaskq, mask>>

\* task_t::setcounter: a runnable task moves to its new queue.
SetCounter(t, newval) ==
  /\ counter' = [counter EXCEPT ![t] = newval]
  /\ IF state[t] # "TRUN"
       THEN UNCHANGED <<runtaskq, mask>>
       ELSE /\ runtaskq' = EnqQ(DeqQ(t), t, newval)
            /\ mask' = EnqMask(DeqMask(t), newval)

\* task_t::wakeup: only a sleeper is moved, from its wait queue to the tail
\* of the run queue its counter names.
Wakeup(t) ==
  IF state[t] \in {"TSLEEP", "TWAIT"}
    THEN /\ state' = [state EXCEPT ![t] = "TRUN"]
         /\ waitq' = [q \in WaitQ |-> IF t \in Rng(waitq[q])
                                        THEN Unlink(waitq[q], t) ELSE waitq[q]]
         /\ runtaskq' = EnqQ(runtaskq, t, counter[t])
         /\ mask' = EnqMask(mask, counter[t])
         /\ needresched' = (needresched \/ counter[t] >= counter[curr] + 2)
    ELSE UNCHANGED <<state, waitq, runtaskq, mask, needresched>>

\* waitq_t::signal: wake the head.  broadcast() is a run of such steps: each
\* wakeup is atomic, interrupts may come between two of them.
Signal(q) == waitq[q] # << >> /\ Wakeup(Head(waitq[q]))

\* task_t::post of some unmasked, not ignored signal.
PostNoWake(t) ==
  /\ t # idle /\ state[t] \notin {"none", "TZOMBIE"}
  /\ hassig' = [hassig EXCEPT ![t] = TRUE]
  /\ UNCHANGED <<state, waitq, runtaskq, mask, needresched>>
Post(t) ==
  /\ t # idle /\ state[t] \notin {"none", "TZOMBIE"}
  /\ hassig' = [hassig EXCEPT ![t] = TRUE]
  /\ IF state[t] = "TWAIT" THEN Wakeup(t)
       ELSE UNCHANGED <<state, waitq, runtaskq, mask, needresched>>

\* A user-mode task that is interrupted leaves through rettouser; a task
\* interrupted in the kernel just goes on.
IrqTail == pc' = IF pc[curr] = "user" THEN [pc EXCEPT ![curr] = "ret"] ELSE pc

----------------------------------------------------------------------------
(* Interrupts. *)

\* The clock: timerisr.
TimerisrNoCharge ==
  /\ ~cli
  /\ needresched' = (needresched \/ state[curr] = "TRUN")
  /\ IrqTail
  /\ UNCHANGED <<state, counter, priority, hassig, queues, curr, cli, todo>>
Timerisr ==
  /\ ~cli
  /\ IF state[curr] # "TRUN"
       THEN UNCHANGED <<counter, runtaskq, mask, needresched>>
       ELSE /\ needresched' = TRUE
            /\ IF counter[curr] = 0
                 THEN UNCHANGED <<counter, runtaskq, mask>>
                 ELSE SetCounter(curr, counter[curr] - 1)
  /\ IrqTail
  /\ UNCHANGED <<state, priority, hassig, alltaskq, waitq, curr, cli, todo>>

\* A device interrupt that wakes the head of a wait queue.
Devirq(q) ==
  /\ ~cli
  /\ Signal(q)
  /\ IrqTail
  /\ UNCHANGED <<counter, priority, hassig, alltaskq, curr, cli, todo>>

----------------------------------------------------------------------------
(* System calls of the current task. *)

At(p) == ~cli /\ pc[curr] = p
InKernel == At("kern") /\ curr # idle
GoTo(p) == pc' = [pc EXCEPT ![curr] = p]

Trap ==
  /\ At("user") /\ GoTo("kern")
  /\ UNCHANGED <<state, counter, priority, hassig, queues, curr, needresched,
                 cli, todo>>

\* sysnice: the new priority is taken only when it is in range, the counter
\* is zeroed in any case.  The idle task's own code (mm/idletaskcode.h) forks
\* init and from then on only calls nice with an argument out of range.
SysNice(inc) ==
  /\ At("kern")
  /\ priority' = IF curr # idle /\ priority[curr] - inc \in Idx
                   THEN [priority EXCEPT ![curr] = @ - inc] ELSE priority
  /\ SetCounter(curr, 0)
  /\ GoTo("ret")
  /\ UNCHANGED <<state, hassig, alltaskq, waitq, curr, needresched, cli, todo>>

\* sysfork: the child is a copy, runnable at once in the parent's queue.
Fork(c) ==
  /\ At("kern") /\ state[c] = "none"
  /\ curr = idle => alltaskq = <<idle>>
  /\ state' = [state EXCEPT ![c] = "TRUN"]
  /\ counter' = [counter EXCEPT ![c] = counter[curr]]
  /\ priority' = [priority EXCEPT ![c] = priority[curr]]
  /\ hassig' = [hassig EXCEPT ![c] = FALSE]
  /\ pc' = [pc EXCEPT ![c] = "user", ![curr] = "ret"]
  /\ alltaskq' = Append(alltaskq, c)
  /\ runtaskq' = EnqQ(runtaskq, c, counter[curr])
  /\ mask' = EnqMask(mask, counter[curr])
  /\ UNCHANGED <<waitq, curr, needresched, cli, todo>>

\* task_t::uninstall of a zombie, by the parent's waitpid.
Uninstall(c) ==
  /\ InKernel /\ state[c] = "TZOMBIE" /\ c # curr
  /\ state' = [state EXCEPT ![c] = "none"]
  /\ pc' = [pc EXCEPT ![c] = "none"]
  /\ alltaskq' = Unlink(alltaskq, c)
  /\ UNCHANGED <<counter, priority, hassig, runtaskq, mask, waitq, curr,
                 needresched, cli, todo>>

\* The cli section of waitq_t::waitsleep, up to its sti.  A zombie and a
\* stopped task sleep on queues that nobody signals.
WaitSleep(st, wq) ==
  /\ runtaskq' = DeqQ(curr)
  /\ mask' = DeqMask(curr)
  /\ state' = [state EXCEPT ![curr] = st]
  /\ waitq' = wq
  /\ GoTo("sched")
  /\ UNCHANGED <<counter, priority, hassig, alltaskq, curr, needresched, cli,
                 todo>>

Sleep(q) ==
  /\ InKernel
  /\ WaitSleep("TSLEEP", [waitq EXCEPT ![q] = Append(@, curr)])

\* waitq_t::wait: nothing happens when a signal is already pending.
Wait(q) ==
  /\ InKernel
  /\ ~hassig[curr]
  /\ WaitSleep("TWAIT", [waitq EXCEPT ![q] = Append(@, curr)])

Exit ==
  /\ InKernel \/ (At("soft") /\ curr # idle /\ hassig[curr])
  /\ WaitSleep("TZOMBIE", waitq)

\* The current task wakes others or posts a signal to them; dosoftirq() and
\* the timers it runs do the same ("soft").
KernSignal(q) ==
  /\ InKernel \/ At("soft")
  /\ Signal(q)
  /\ UNCHANGED <<counter, priority, hassig, pc, alltaskq, curr, cli, todo>>

KernPost(t) ==
  /\ InKernel \/ At("soft")
  /\ Post(t)
  /\ UNCHANGED <<counter, priority, pc, alltaskq, curr, cli, todo>>

\* alarm(): the timer of a timed sleep wakes its task, wherever it is queued.
Alarm(t) ==
  /\ At("soft") /\ state[t] \in {"TSLEEP", "TWAIT"}
  /\ Wakeup(t)
  /\ UNCHANGED <<counter, priority, hassig, pc, alltaskq, curr, cli, todo>>

\* prempt() called from kernel code (syncb).
KernPrempt ==
  /\ InKernel /\ needresched /\ GoTo("sched")
  /\ UNCHANGED <<state, counter, priority, hassig, queues, curr, needresched,
                 cli, todo>>

SysReturn ==
  /\ At("kern") /\ GoTo("ret")
  /\ UNCHANGED <<state, counter, priority, hassig, queues, curr, needresched,
                 cli, todo>>

----------------------------------------------------------------------------
(* rettouser: prempt(), dosoftirq(), checksignal(). *)

PremptNot ==
  /\ At("ret") /\ ~needresched /\ GoTo("soft")
  /\ UNCHANGED <<state, counter, priority, hassig, queues, curr, needresched,
                 cli, todo>>

\* checksignal: run a handler (or nothing), terminate, or stop.  One handler
\* is set up per return to user mode: more signals may stay pending.
CheckSignal ==
  /\ At("soft") /\ GoTo("user")
  /\ \E more \in BOOLEAN :
       hassig' = [hassig EXCEPT ![curr] = @ /\ more]
  /\ UNCHANGED <<state, counter, priority, queues, curr, needresched, cli, todo>>

Stop ==
  /\ At("soft") /\ curr # idle /\ hassig[curr]
  /\ WaitSleep("TSTOP", waitq)

----------------------------------------------------------------------------
(* sched(): one atomic piece of code, interrupts off throughout. *)

InSched == pc[curr] = "sched" \/ (pc[curr] = "ret" /\ needresched)

Top(i) == i \in mask /\ \A j \in mask : j <= i

\* find(): every runnable task has used up its time; go over alltaskq.
FindEmpty ==
  /\ InSched /\ todo = << >> /\ Top(0)
  /\ cli' = TRUE
  /\ todo' = alltaskq
  /\ UNCHANGED <<state, counter, priority, hassig, pc, queues, curr, needresched>>

RechargeValNoIdle(t) ==
  LET v == priority[t] + 2 * counter[t]
  IN  IF t = idle THEN 0 ELSE IF v >= NRUNTASKQ THEN NRUNTASKQ - 1 ELSE v
RechargeVal(t) ==
  LET v == priority[t] + 2 * counter[t]
  IN  IF t = idle THEN 1 ELSE IF v >= NRUNTASKQ THEN NRUNTASKQ - 1 ELSE v

Recharge ==
  /\ todo # << >>
  /\ SetCounter(Head(todo), RechargeVal(Head(todo)))
  /\ todo' = Tail(todo)
  /\ UNCHANGED <<state, priority, hassig, pc, alltaskq, waitq, curr,
                 needresched, cli>>

\* The head of the highest queue is the target; the current task goes on if
\* it is still runnable and has the target's counter.
SwitchStay(target) ==
  /\ pc' = [pc EXCEPT ![curr] = IF @ = "sched" THEN "kern" ELSE "soft"]
  /\ curr' = IF state[curr] = "TRUN" THEN curr ELSE target
Switch(target) ==
  /\ pc' = [pc EXCEPT ![curr] = IF @ = "sched" THEN "kern" ELSE "soft"]
  /\ curr' = IF state[curr] = "TRUN" /\ counter[curr] = counter[target]
               THEN curr ELSE target

Sched(i) ==
  /\ InSched /\ todo = << >> /\ Top(i) /\ i # 0
  /\ Switch(Head(runtaskq[i]))
  /\ needresched' = FALSE
  /\ cli' = FALSE
  /\ UNCHANGED <<state, counter, priority, hassig, queues, todo>>

----------------------------------------------------------------------------
Init ==
  /\ state = [t \in Task |-> IF t = idle THEN "TRUN" ELSE "none"]
  /\ counter = [t \in Task |-> 1]
  /\ priority = [t \in Task |-> Priority0]
  /\ hassig = [t \in Task |-> FALSE]
  /\ pc = [t \in Task |-> IF t = idle THEN "user" ELSE "none"]
  /\ alltaskq = <<idle>>
  /\ runtaskq = [c \in Idx |-> IF c = 1 THEN <<idle>> ELSE << >>]
  /\ mask = {1}
  /\ waitq = [q \in WaitQ |-> << >>]
  /\ curr = idle
  /\ needresched = FALSE
  /\ cli = FALSE
  /\ todo = << >>

Next ==
  \/ Timerisr
  \/ \E q \in WaitQ : Devirq(q) \/ Sleep(q) \/ Wait(q) \/ KernSignal(q)
  \/ \E t \in Task : Fork(t) \/ Uninstall(t) \/ KernPost(t) \/ Alarm(t)
  \/ \E inc \in NiceInc : SysNice(inc)
  \/ Trap \/ Exit \/ KernPrempt \/ SysReturn
  \/ PremptNot \/ CheckSignal \/ Stop
  \/ FindEmpty \/ Recharge \/ \E i \in Idx : Sched(i)

Spec == Init /\ [][Next]_vars

\* The kernel code of the current task runs on, and the clock goes on ticking
\* while user code runs.
Fairness ==
  /\ WF_vars(SysReturn) /\ WF_vars(PremptNot) /\ WF_vars(CheckSignal)
  /\ WF_vars(FindEmpty) /\ WF_vars(Recharge) /\ WF_vars(\E i \in Idx : Sched(i))
  /\ SF_vars(state[curr] = "TRUN" /\ Timerisr)

FairSpec == Spec /\ Fairness

----------------------------------------------------------------------------
(* Properties. *)

\* Every variable keeps its type (the declarations of kern/sched.cc and
\* kern/sched.h); a run queue index is in range, as enqrun and deqrun assert.
TypeOK ==
  /\ state \in [Task -> State]
  /\ counter \in [Task -> Idx]
  /\ priority \in [Task -> Idx]
  /\ hassig \in [Task -> BOOLEAN]
  /\ pc \in [Task -> PC]
  /\ alltaskq \in Seq(Task)
  /\ runtaskq \in [Idx -> Seq(Task)]
  /\ mask \in SUBSET Idx
  /\ waitq \in [WaitQ -> Seq(Task)]
  /\ curr \in Task
  /\ needresched \in BOOLEAN
  /\ cli \in BOOLEAN
  /\ todo \in Seq(Task)

\* checkmask(): a bit of the mask is set exactly when its queue is not empty,
\* after every interleaving of interrupts with sleeping, waking and ticking.
MaskMatchesQueues == \A c \in Idx : c \in mask <=> runtaskq[c] # << >>

\* No runnable task is lost and none runs twice: a task is in run queue c, once,
\* exactly when it is TRUN and its counter is c.
RunnableIsQueued ==
  /\ \A t \in Task, c \in Idx :
       t \in Rng(runtaskq[c]) <=> (state[t] = "TRUN" /\ counter[t] = c)
  /\ \A c \in Idx : Inj(runtaskq[c])

\* A sleeper can be found by whoever is to wake it: it is in exactly one wait
\* queue, once; nobody else is in one.
SleeperIsQueued ==
  /\ \A t \in Task :
       state[t] \in {"TSLEEP", "TWAIT"} <=> \E q \in WaitQ : t \in Rng(waitq[q])
  /\ \A q \in WaitQ : Inj(waitq[q])
  /\ \A p, q \in WaitQ : p # q => Rng(waitq[p]) \cap Rng(waitq[q]) = {}

\* checkwait(): a task in interruptible sleep has no signal to handle, so that
\* no signal waits for an unrelated wakeup.
NoSignalAsleep == \A t \in Task : state[t] = "TWAIT" => ~hassig[t]

\* Nothing is lost from alltaskq, which find() recharges and kill(-1) signals:
\* it holds each installed task once.  The idle task, which find() falls back
\* on, stays runnable.
AllTasksListed ==
  /\ \A t \in Task : t \in Rng(alltaskq) <=> state[t] # "none"
  /\ Inj(alltaskq)
  /\ state[idle] = "TRUN"

\* Run queues, mask, wait queues and alltaskq agree with the tasks' states and
\* counters at every moment an interrupt may look at them.
QueuesConsistent ==
  MaskMatchesQueues /\ RunnableIsQueued /\ SleeperIsQueued /\ AllTasksListed

\* The current task is runnable, except between waitsleep's sti and sched().
CurrRuns == state[curr] = "TRUN" \/ pc[curr] = "sched"

\* Only when all runnable tasks have used up their time are the counters
\* recharged (find's comment), and one round of it leaves find() a queue other
\* than 0 to take from: the "goto repeat" loop ends.
RechargeEnds == [][FindEmpty => (\A t \in Task : state[t] = "TRUN" => counter[t] = 0)
                                 /\ ~cli]_vars

\* sched() gives the processor to a task no runnable task has more time than.
PicksLargestCounter ==
  [][needresched /\ ~needresched' =>
       \A t \in Task : state[t] = "TRUN" => counter[t] <= counter[curr']]_vars

\* A runnable task with a positive priority gets the processor in the end,
\* whatever the others do, unless tasks go on being forked for ever: a child
\* starts with its parent's counter, so an endless chain of short-lived
\* processes need never let the counters run out.
NoStarvation ==
  <>[][\A c \in Task : ~Fork(c)]_vars =>
    \A t \in Task \ {idle} : (state[t] = "TRUN" /\ priority[t] > 0) ~> (curr = t)

=============================================================================
