---------------------------- MODULE SchedProofs ----------------------------
(***************************************************************************)
(* TLAPS proofs about the scheduler, for any number of tasks, run queues   *)
(* and wait queues.                                                        *)
(***************************************************************************)
EXTENDS Sched, TLAPS

\* The run queues rq, the mask m, the states st and the counters ct agree.
QueueOK(rq, m, st, ct) ==
  /\ rq \in [Idx -> Seq(Task)]
  /\ m \in SUBSET Idx
  /\ \A c \in Idx : c \in m <=> rq[c] # << >>
  /\ \A c \in Idx : Inj(rq[c])
  /\ \A t \in Task, c \in Idx :
       t \in Rng(rq[c]) <=> (st[t] = "TRUN" /\ ct[t] = c)

\* Unlinking an element of a queue without duplicates removes just that one
\* (queue_tl::unlink).
LEMMA UnlinkProps ==
  ASSUME NEW S, NEW q \in Seq(S), NEW t \in Rng(q), Inj(q)
  PROVE  /\ Unlink(q, t) \in Seq(S)
         /\ Rng(Unlink(q, t)) = Rng(q) \ {t}
         /\ Inj(Unlink(q, t))
<1> DEFINE k == CHOOSE i \in 1 .. Len(q) : q[i] = t
           u == [i \in 1 .. Len(q) - 1 |-> IF i < k THEN q[i] ELSE q[i + 1]]
<1>1. k \in 1 .. Len(q) /\ q[k] = t
  BY DEF Rng
<1>2. Unlink(q, t) = u
  BY DEF Unlink
<1>3. Len(q) \in Nat /\ Len(q) - 1 \in Nat /\ \A i \in 1 .. Len(q) : q[i] \in S
  BY <1>1
<1> HIDE DEF k
<1>4. u \in Seq(S) /\ Len(u) = Len(q) - 1
  <2>1. \A i \in 1 .. Len(q) - 1 : u[i] \in S
    BY <1>1, <1>3
  <2>2. u \in [1 .. Len(q) - 1 -> S]
    BY <2>1
  <2> QED BY <2>2, <1>3
<1>5. Inj(u)
  BY <1>1, <1>3, <1>4 DEF Inj
<1>6. Rng(u) = Rng(q) \ {t}
  <2>1. ASSUME NEW x \in Rng(u) PROVE x \in Rng(q) \ {t}
    <3>1. PICK i \in 1 .. Len(q) - 1 : u[i] = x
      BY <1>4 DEF Rng
    <3>2. CASE i < k
      BY <3>1, <3>2, <1>1, <1>3 DEF Rng, Inj
    <3>3. CASE ~(i < k)
      BY <3>1, <3>3, <1>1, <1>3 DEF Rng, Inj
    <3> QED BY <3>2, <3>3
  <2>2. ASSUME NEW x \in Rng(q), x # t PROVE x \in Rng(u)
    <3>1. PICK i \in 1 .. Len(q) : q[i] = x
      BY DEF Rng
    <3>2. i # k
      BY <3>1, <2>2, <1>1
    <3>3. CASE i < k
      <4>1. i \in 1 .. Len(u) /\ u[i] = x
        BY <3>1, <3>3, <1>1, <1>3, <1>4
      <4> QED BY <4>1 DEF Rng
    <3>4. CASE i > k
      <4>1. i - 1 \in 1 .. Len(u) /\ u[i - 1] = x
        BY <3>1, <3>4, <1>1, <1>3, <1>4
      <4> QED BY <4>1 DEF Rng
    <3> QED BY <3>2, <3>3, <3>4, <1>1
  <2> QED BY <2>1, <2>2
<1> QED BY <1>2, <1>4, <1>5, <1>6

\* A task that joins the tail of a queue it is not in (queue_tl::enqtail).
LEMMA AppendProps ==
  ASSUME NEW S, NEW q \in Seq(S), NEW t \in S, t \notin Rng(q), Inj(q)
  PROVE  /\ Append(q, t) \in Seq(S)
         /\ Append(q, t) # << >>
         /\ Rng(Append(q, t)) = Rng(q) \cup {t}
         /\ Inj(Append(q, t))
<1> DEFINE a == Append(q, t)
<1>1. a \in Seq(S) /\ Len(a) = Len(q) + 1 /\ Len(q) \in Nat
  OBVIOUS
<1>2. a[Len(q) + 1] = t /\ \A i \in 1 .. Len(q) : a[i] = q[i]
  OBVIOUS
<1> HIDE DEF a
<1>3. a # << >>
  BY <1>1
<1>4. Rng(a) = Rng(q) \cup {t}
  <2>1. ASSUME NEW x \in Rng(a) PROVE x \in Rng(q) \cup {t}
    BY <1>1, <1>2 DEF Rng
  <2>2. ASSUME NEW x \in Rng(q) \cup {t} PROVE x \in Rng(a)
    <3>1. CASE x = t
      <4>1. Len(q) + 1 \in 1 .. Len(a)
        BY <1>1
      <4> QED BY <4>1, <3>1, <1>2 DEF Rng
    <3>2. CASE x \in Rng(q)
      <4>1. PICK i \in 1 .. Len(q) : q[i] = x
        BY <3>2 DEF Rng
      <4>2. i \in 1 .. Len(a) /\ a[i] = x
        BY <4>1, <1>1, <1>2
      <4> QED BY <4>2 DEF Rng
    <3> QED BY <3>1, <3>2
  <2> QED BY <2>1, <2>2
<1>5. Inj(a)
  <2>1. \A i \in 1 .. Len(q) : q[i] # t
    BY DEF Rng
  <2> QED BY <1>1, <1>2, <2>1 DEF Inj
<1> QED BY <1>1, <1>3, <1>4, <1>5 DEF a

\* enqrun of a task that was not runnable.
LEMMA EnqOK ==
  ASSUME NEW rq, NEW m, NEW st \in [Task -> State], NEW ct \in [Task -> Idx],
         QueueOK(rq, m, st, ct),
         NEW t \in Task, st[t] # "TRUN", NEW c \in Idx
  PROVE  QueueOK(EnqQ(rq, t, c), EnqMask(m, c),
                 [st EXCEPT ![t] = "TRUN"], [ct EXCEPT ![t] = c])
<1>1. t \notin Rng(rq[c]) /\ Inj(rq[c]) /\ rq[c] \in Seq(Task)
  BY DEF QueueOK
<1>2. /\ Append(rq[c], t) \in Seq(Task)
      /\ Append(rq[c], t) # << >>
      /\ Rng(Append(rq[c], t)) = Rng(rq[c]) \cup {t}
      /\ Inj(Append(rq[c], t))
  BY <1>1, AppendProps
<1> DEFINE rq2 == EnqQ(rq, t, c)
<1>3. rq2 \in [Idx -> Seq(Task)] /\ rq2[c] = Append(rq[c], t)
      /\ \A d \in Idx : d # c => rq2[d] = rq[d]
  BY <1>2 DEF EnqQ, QueueOK
<1> HIDE DEF rq2
<1>4. \A u \in Task, d \in Idx :
        u \in Rng(rq2[d]) <=> ([st EXCEPT ![t] = "TRUN"][u] = "TRUN"
                                /\ [ct EXCEPT ![t] = c][u] = d)
  <2> SUFFICES ASSUME NEW u \in Task, NEW d \in Idx
               PROVE  u \in Rng(rq2[d]) <=> ([st EXCEPT ![t] = "TRUN"][u] = "TRUN"
                                             /\ [ct EXCEPT ![t] = c][u] = d)
    OBVIOUS
  <2>0. u \in Rng(rq[d]) <=> (st[u] = "TRUN" /\ ct[u] = d)
    BY DEF QueueOK
  <2>1. CASE d = c
    BY <2>0, <2>1, <1>2, <1>3
  <2>2. CASE d # c
    BY <2>0, <2>2, <1>2, <1>3
  <2> QED BY <2>1, <2>2
<1>5. \A d \in Idx : Inj(rq2[d])
  BY <1>2, <1>3 DEF QueueOK
<1>6. EnqMask(m, c) \in SUBSET Idx
      /\ \A d \in Idx : d \in EnqMask(m, c) <=> rq2[d] # << >>
  BY <1>2, <1>3 DEF QueueOK, EnqMask
<1> QED BY <1>3, <1>4, <1>5, <1>6 DEF QueueOK, rq2

\* deqrun of a runnable task that goes to another state.
LEMMA DeqOK ==
  ASSUME state \in [Task -> State], counter \in [Task -> Idx],
         QueueOK(runtaskq, mask, state, counter),
         NEW t \in Task, state[t] = "TRUN", NEW s, s # "TRUN"
  PROVE  QueueOK(DeqQ(t), DeqMask(t), [state EXCEPT ![t] = s], counter)
<1> DEFINE c == counter[t]
           rq2 == DeqQ(t)
<1>1. c \in Idx /\ t \in Rng(runtaskq[c]) /\ Inj(runtaskq[c])
      /\ runtaskq[c] \in Seq(Task)
  BY DEF QueueOK
<1>2. /\ Unlink(runtaskq[c], t) \in Seq(Task)
      /\ Rng(Unlink(runtaskq[c], t)) = Rng(runtaskq[c]) \ {t}
      /\ Inj(Unlink(runtaskq[c], t))
  BY <1>1, UnlinkProps
<1>3. rq2 \in [Idx -> Seq(Task)] /\ rq2[c] = Unlink(runtaskq[c], t)
      /\ \A d \in Idx : d # c => rq2[d] = runtaskq[d]
  BY <1>1, <1>2 DEF DeqQ, QueueOK
<1>4. DeqMask(t) = IF rq2[c] = << >> THEN mask \ {c} ELSE mask
  BY <1>3 DEF DeqMask
<1>5. \A d \in Idx : d \in mask <=> runtaskq[d] # << >>
  BY DEF QueueOK
<1>6. runtaskq[c] # << >>
  BY <1>1 DEF Rng
<1> HIDE DEF rq2, c
<1>7. \A d \in Idx : d \in DeqMask(t) <=> rq2[d] # << >>
  BY <1>1, <1>3, <1>4, <1>5, <1>6
<1>8. \A u \in Task, d \in Idx :
        u \in Rng(rq2[d]) <=> ([state EXCEPT ![t] = s][u] = "TRUN" /\ counter[u] = d)
  <2> SUFFICES ASSUME NEW u \in Task, NEW d \in Idx
               PROVE  u \in Rng(rq2[d]) <=>
                        ([state EXCEPT ![t] = s][u] = "TRUN" /\ counter[u] = d)
    OBVIOUS
  <2>0. u \in Rng(runtaskq[d]) <=> (state[u] = "TRUN" /\ counter[u] = d)
    BY DEF QueueOK
  <2>1. CASE d = c
    BY <2>0, <2>1, <1>2, <1>3
  <2>2. CASE d # c
    BY <2>0, <2>2, <1>3 DEF c
  <2> QED BY <2>1, <2>2
<1>9. \A d \in Idx : Inj(rq2[d])
  BY <1>1, <1>2, <1>3 DEF QueueOK
<1>10. DeqMask(t) \in SUBSET Idx
  BY <1>4 DEF QueueOK
<1> QED BY <1>3, <1>7, <1>8, <1>9, <1>10 DEF QueueOK, rq2

\* setcounter moves a runnable task and only relabels any other.
LEMMA SetCounterOK ==
  ASSUME state \in [Task -> State], counter \in [Task -> Idx],
         QueueOK(runtaskq, mask, state, counter),
         NEW t \in Task, NEW v \in Idx, SetCounter(t, v), state' = state
  PROVE  /\ counter' \in [Task -> Idx]
         /\ QueueOK(runtaskq', mask', state', counter')
<1>1. counter' = [counter EXCEPT ![t] = v] /\ counter' \in [Task -> Idx]
  BY DEF SetCounter
<1>2. CASE state[t] # "TRUN"
  <2>1. runtaskq' = runtaskq /\ mask' = mask
    BY <1>2 DEF SetCounter
  <2> QED BY <1>1, <1>2, <2>1 DEF QueueOK
<1>3. CASE state[t] = "TRUN"
  <2> DEFINE st == [state EXCEPT ![t] = "none"]
  <2>1. QueueOK(DeqQ(t), DeqMask(t), st, counter)
    BY <1>3, DeqOK
  <2>2. st \in [Task -> State] /\ st[t] # "TRUN" /\ [st EXCEPT ![t] = "TRUN"] = state
    BY <1>3 DEF State
  <2>3. runtaskq' = EnqQ(DeqQ(t), t, v) /\ mask' = EnqMask(DeqMask(t), v)
    BY <1>3 DEF SetCounter
  <2> HIDE DEF st
  <2>4. QueueOK(EnqQ(DeqQ(t), t, v), EnqMask(DeqMask(t), v),
                [st EXCEPT ![t] = "TRUN"], [counter EXCEPT ![t] = v])
    BY <2>1, <2>2, EnqOK
  <2> QED BY <1>1, <2>2, <2>3, <2>4
<1> QED BY <1>1, <1>2, <1>3

----------------------------------------------------------------------------
(* The inductive invariant. *)

\* The part of the type invariant that QueueOK does not state.
OtherTypes ==
  /\ state \in [Task -> State]
  /\ counter \in [Task -> Idx]
  /\ priority \in [Task -> Idx]
  /\ hassig \in [Task -> BOOLEAN]
  /\ pc \in [Task -> PC]
  /\ alltaskq \in Seq(Task)
  /\ waitq \in [WaitQ -> Seq(Task)]
  /\ curr \in Task
  /\ needresched \in BOOLEAN
  /\ cli \in BOOLEAN
  /\ todo \in Seq(Task)

\* No part is inductive alone: deqrun finds the task only because a runnable
\* task is queued under its own counter, waitsleep may dequeue curr only because
\* curr is runnable, and sched's target is runnable only because the mask tells
\* the truth.
IInv ==
  /\ OtherTypes
  /\ QueueOK(runtaskq, mask, state, counter)
  /\ SleeperIsQueued
  /\ NoSignalAsleep
  /\ AllTasksListed
  /\ CurrRuns

LEMMA IInvParts ==
  IInv => /\ TypeOK /\ MaskMatchesQueues /\ RunnableIsQueued /\ SleeperIsQueued
          /\ NoSignalAsleep /\ AllTasksListed /\ CurrRuns
BY DEF IInv, TypeOK, OtherTypes, QueueOK, MaskMatchesQueues, RunnableIsQueued

\* wakeup() of any task: only a sleeper changes, and it becomes runnable.
LEMMA WakeupOK ==
  ASSUME IInv, NEW t \in Task, Wakeup(t), counter' = counter
  PROVE  /\ state' \in [Task -> State]
         /\ waitq' \in [WaitQ -> Seq(Task)]
         /\ needresched' \in BOOLEAN
         /\ QueueOK(runtaskq', mask', state', counter')
         /\ SleeperIsQueued'
         /\ \A u \in Task : state'[u] = state[u]
                            \/ (state[u] # "none" /\ state'[u] = "TRUN")
         /\ state'[t] # "TWAIT"
<1> USE DEF IInv
<1>1. CASE state[t] \notin {"TSLEEP", "TWAIT"}
  <2>1. UNCHANGED <<state, waitq, runtaskq, mask, needresched>>
    BY <1>1 DEF Wakeup
  <2> QED BY <1>1, <2>1 DEF OtherTypes, SleeperIsQueued, QueueOK
<1>2. CASE state[t] \in {"TSLEEP", "TWAIT"}
  <2>1. /\ state' = [state EXCEPT ![t] = "TRUN"]
        /\ runtaskq' = EnqQ(runtaskq, t, counter[t])
        /\ mask' = EnqMask(mask, counter[t])
        /\ needresched' \in BOOLEAN
        /\ waitq' = [q \in WaitQ |-> IF t \in Rng(waitq[q])
                                       THEN Unlink(waitq[q], t) ELSE waitq[q]]
    BY <1>2 DEF Wakeup, OtherTypes
  <2>2. /\ state' \in [Task -> State] /\ counter[t] \in Idx
        /\ [counter EXCEPT ![t] = counter[t]] = counter
    BY <2>1 DEF OtherTypes, State
  <2>3. QueueOK(runtaskq', mask', state', counter')
    <3>1. QueueOK(EnqQ(runtaskq, t, counter[t]), EnqMask(mask, counter[t]),
                  [state EXCEPT ![t] = "TRUN"], [counter EXCEPT ![t] = counter[t]])
      BY <1>2, <2>2, EnqOK DEF OtherTypes
    <3> QED BY <3>1, <2>1, <2>2
  <2>4. \A q \in WaitQ : /\ waitq'[q] \in Seq(Task)
                         /\ Rng(waitq'[q]) = Rng(waitq[q]) \ {t}
                         /\ Inj(waitq'[q])
    <3> TAKE q \in WaitQ
    <3>1. waitq[q] \in Seq(Task) /\ Inj(waitq[q])
      BY DEF OtherTypes, SleeperIsQueued
    <3>2. CASE t \in Rng(waitq[q])
      <4>1. waitq'[q] = Unlink(waitq[q], t)
        BY <2>1, <3>2
      <4> QED BY <4>1, <3>1, <3>2, UnlinkProps
    <3>3. CASE t \notin Rng(waitq[q])
      BY <2>1, <3>1, <3>3
    <3> QED BY <3>2, <3>3
  <2>5. waitq' \in [WaitQ -> Seq(Task)]
    BY <2>1, <2>4
  <2>6. SleeperIsQueued'
    <3>1. \A u \in Task : state'[u] \in {"TSLEEP", "TWAIT"}
                            <=> \E q \in WaitQ : u \in Rng(waitq'[q])
      <4> TAKE u \in Task
      <4>1. state[u] \in {"TSLEEP", "TWAIT"} <=> \E q \in WaitQ : u \in Rng(waitq[q])
        BY DEF SleeperIsQueued
      <4>2. CASE u = t
        BY <4>2, <2>1, <2>2, <2>4 DEF OtherTypes
      <4>3. CASE u # t
        BY <4>1, <4>3, <2>1, <2>4 DEF OtherTypes
      <4> QED BY <4>2, <4>3
    <3> QED BY <3>1, <2>4 DEF SleeperIsQueued
  <2> QED BY <1>2, <2>1, <2>2, <2>3, <2>5, <2>6 DEF OtherTypes
<1> QED BY <1>1, <1>2

\* waitsleep() of the current task, into the shared queue wq names or, for a
\* zombie or stopped task, into none.
LEMMA WaitSleepOK ==
  ASSUME IInv, NEW st \in {"TSLEEP", "TWAIT", "TZOMBIE", "TSTOP"}, NEW STATE wq,
         WaitSleep(st, wq), ~cli, state[curr] = "TRUN", curr # idle,
         st = "TWAIT" => ~hassig[curr],
         \/ st \in {"TZOMBIE", "TSTOP"} /\ wq = waitq
         \/ /\ st \in {"TSLEEP", "TWAIT"}
            /\ \E q \in WaitQ : wq = [waitq EXCEPT ![q] = Append(@, curr)]
  PROVE  IInv'
<1> USE DEF IInv
<1>1. /\ runtaskq' = DeqQ(curr) /\ mask' = DeqMask(curr)
      /\ state' = [state EXCEPT ![curr] = st] /\ waitq' = wq
      /\ pc' = [pc EXCEPT ![curr] = "sched"]
      /\ UNCHANGED <<counter, priority, hassig, alltaskq, curr, needresched, cli,
                     todo>>
  BY DEF WaitSleep, GoTo
<1>2. QueueOK(runtaskq', mask', state', counter')
  BY <1>1, DeqOK DEF OtherTypes
<1>3. \A q \in WaitQ : curr \notin Rng(waitq[q])
  BY DEF SleeperIsQueued, OtherTypes
<1>4. SleeperIsQueued' /\ waitq' \in [WaitQ -> Seq(Task)]
  <2>1. CASE st \in {"TZOMBIE", "TSTOP"} /\ wq = waitq
    BY <2>1, <1>1, <1>3 DEF SleeperIsQueued, OtherTypes
  <2>2. CASE st \in {"TSLEEP", "TWAIT"} /\ \E q \in WaitQ : wq = [waitq EXCEPT ![q] = Append(@, curr)]
    <3>1. PICK q \in WaitQ : wq = [waitq EXCEPT ![q] = Append(@, curr)]
      BY <2>2
    <3>2. /\ Append(waitq[q], curr) \in Seq(Task)
          /\ Rng(Append(waitq[q], curr)) = Rng(waitq[q]) \cup {curr}
          /\ Inj(Append(waitq[q], curr))
      BY <1>3, AppendProps DEF SleeperIsQueued, OtherTypes
    <3>3. /\ waitq' \in [WaitQ -> Seq(Task)]
          /\ waitq'[q] = Append(waitq[q], curr)
          /\ \A p \in WaitQ : p # q => waitq'[p] = waitq[p]
      BY <3>1, <3>2, <1>1 DEF OtherTypes
    <3>4. \A u \in Task : state'[u] \in {"TSLEEP", "TWAIT"}
                            <=> \E p \in WaitQ : u \in Rng(waitq'[p])
      <4> TAKE u \in Task
      <4>1. state[u] \in {"TSLEEP", "TWAIT"} <=> \E p \in WaitQ : u \in Rng(waitq[p])
        BY DEF SleeperIsQueued
      <4>2. CASE u = curr
        BY <4>2, <2>2, <1>1, <3>2, <3>3 DEF OtherTypes
      <4>3. CASE u # curr
        BY <4>1, <4>3, <1>1, <3>2, <3>3 DEF OtherTypes
      <4> QED BY <4>2, <4>3
    <3>5. \A p \in WaitQ : Inj(waitq'[p])
      BY <3>2, <3>3 DEF SleeperIsQueued
    <3>6. \A p, r \in WaitQ : p # r => Rng(waitq'[p]) \cap Rng(waitq'[r]) = {}
      <4> SUFFICES ASSUME NEW p \in WaitQ, NEW r \in WaitQ, p # r
                   PROVE  Rng(waitq'[p]) \cap Rng(waitq'[r]) = {}
        OBVIOUS
      <4>1. Rng(waitq[p]) \cap Rng(waitq[r]) = {}
        BY DEF SleeperIsQueued
      <4>2. CASE p = q
        BY <4>1, <4>2, <1>3, <3>2, <3>3
      <4>3. CASE r = q
        BY <4>1, <4>3, <1>3, <3>2, <3>3
      <4>4. CASE p # q /\ r # q
        BY <4>1, <4>4, <3>3
      <4> QED BY <4>2, <4>3, <4>4
    <3> QED BY <3>3, <3>4, <3>5, <3>6 DEF SleeperIsQueued
  <2> QED BY <2>1, <2>2
<1>5. NoSignalAsleep' /\ CurrRuns' /\ OtherTypes'
  BY <1>1, <1>4 DEF NoSignalAsleep, CurrRuns, OtherTypes, State, PC
<1>6. AllTasksListed'
  BY <1>1 DEF AllTasksListed, OtherTypes
<1> QED BY <1>2, <1>4, <1>5, <1>6

LEMMA InitOK == Init => IInv
<1> SUFFICES ASSUME Init PROVE IInv
  OBVIOUS
<1> USE SchedAssumption DEF Init
<1>0. 1 \in Idx /\ Priority0 \in Idx
  BY DEF Idx
<1>1. /\ <<idle>> \in Seq(Task) /\ <<idle>> # << >> /\ << >> \in Seq(Task)
      /\ Rng(<<idle>>) = {idle} /\ Inj(<<idle>>)
      /\ Rng(<< >>) = {} /\ Inj(<< >>)
  BY DEF Rng, Inj
<1>2. OtherTypes
  <2>1. hassig \in [Task -> BOOLEAN] /\ needresched \in BOOLEAN /\ cli \in BOOLEAN
    OBVIOUS
  <2> QED BY <1>0, <1>1, <2>1 DEF OtherTypes, State, PC
<1>3. QueueOK(runtaskq, mask, state, counter)
  BY <1>0, <1>1 DEF QueueOK
<1>4. SleeperIsQueued /\ NoSignalAsleep /\ AllTasksListed /\ CurrRuns
  BY <1>1 DEF SleeperIsQueued, NoSignalAsleep, AllTasksListed, CurrRuns
<1> QED BY <1>2, <1>3, <1>4 DEF IInv

\* Steps that leave the queues and the states alone and keep curr runnable.
LEMMA QuietOK ==
  ASSUME IInv, UNCHANGED <<state, counter, runtaskq, mask, waitq, alltaskq>>,
         OtherTypes', NoSignalAsleep', CurrRuns'
  PROVE  IInv'
BY DEF IInv, SleeperIsQueued, AllTasksListed, QueueOK

\* Steps that only move a task between run queues.
LEMMA MoveOK ==
  ASSUME IInv, UNCHANGED <<state, hassig, waitq, alltaskq>>,
         NEW STATE t, t \in Task, NEW STATE v, v \in Idx, SetCounter(t, v),
         priority' \in [Task -> Idx], pc' \in [Task -> PC], curr' \in Task,
         needresched' \in BOOLEAN, cli' \in BOOLEAN, todo' \in Seq(Task), CurrRuns'
  PROVE  IInv'
<1>1. counter' \in [Task -> Idx] /\ QueueOK(runtaskq', mask', state', counter')
  BY SetCounterOK DEF IInv, OtherTypes
<1> QED BY <1>1 DEF IInv, OtherTypes, SleeperIsQueued, NoSignalAsleep, AllTasksListed

\* Steps that wake a task and leave the rest alone but for pc and hassig.
LEMMA WakeStepOK ==
  ASSUME IInv, NEW STATE t, t \in Task, Wakeup(t),
         UNCHANGED <<counter, priority, alltaskq, curr, cli, todo>>,
         pc' \in [Task -> PC],
         hassig' = hassig \/ hassig' = [hassig EXCEPT ![t] = TRUE],
         pc[curr] = "sched" => pc'[curr] = "sched"
  PROVE  IInv'
<1>1. /\ state' \in [Task -> State]
      /\ waitq' \in [WaitQ -> Seq(Task)]
      /\ needresched' \in BOOLEAN
      /\ QueueOK(runtaskq', mask', state', counter')
      /\ SleeperIsQueued'
      /\ \A u \in Task : state'[u] = state[u]
                         \/ (state[u] # "none" /\ state'[u] = "TRUN")
      /\ state'[t] # "TWAIT"
  BY WakeupOK
<1>2. OtherTypes'
  BY <1>1 DEF IInv, OtherTypes
<1>3. NoSignalAsleep'
  BY <1>1 DEF IInv, OtherTypes, NoSignalAsleep
<1>4. AllTasksListed'
  BY <1>1, SchedAssumption DEF IInv, OtherTypes, AllTasksListed
<1>5. CurrRuns'
  BY <1>1 DEF IInv, OtherTypes, CurrRuns
<1> QED BY <1>1, <1>2, <1>3, <1>4, <1>5 DEF IInv

LEMMA NextOK == IInv /\ [Next]_vars => IInv'
<1> SUFFICES ASSUME IInv, [Next]_vars PROVE IInv'
  OBVIOUS
<1> USE SchedAssumption
<1>0. OtherTypes /\ curr \in Task /\ 0 \in Idx /\ 1 \in Idx
  BY DEF IInv, OtherTypes, Idx
<1>a. pc[curr] # "sched" => state[curr] = "TRUN"
  BY DEF IInv, CurrRuns
<1>b. \A q \in WaitQ : waitq[q] # << >> => Head(waitq[q]) \in Task
  BY <1>0 DEF OtherTypes
<1>1. CASE Timerisr
  <2>1. pc' \in [Task -> PC] /\ CurrRuns'
    BY <1>0, <1>1 DEF Timerisr, IrqTail, OtherTypes, PC, CurrRuns, IInv
  <2>2. CASE counter' = counter
    <3>1. counter[curr] - 1 # counter[curr]
      BY <1>0 DEF OtherTypes, Idx
    <3>2. ~SetCounter(curr, counter[curr] - 1)
      BY <1>0, <2>2, <3>1 DEF SetCounter, OtherTypes
    <3>3. UNCHANGED <<runtaskq, mask>> /\ (needresched' = needresched \/ needresched' = TRUE)
      BY <1>1, <3>2 DEF Timerisr
    <3>4. UNCHANGED <<state, priority, hassig, alltaskq, waitq, curr, cli, todo>>
      BY <1>1 DEF Timerisr
    <3>5. OtherTypes' /\ NoSignalAsleep'
      BY <1>0, <2>1, <2>2, <3>3, <3>4 DEF OtherTypes, NoSignalAsleep, IInv
    <3> QED BY <2>1, <2>2, <3>3, <3>4, <3>5, QuietOK
  <2>3. CASE counter' # counter
    <3>1. SetCounter(curr, counter[curr] - 1) /\ counter[curr] # 0 /\ needresched' = TRUE
      BY <1>1, <2>3 DEF Timerisr
    <3>2. counter[curr] - 1 \in Idx
      BY <1>0, <3>1 DEF OtherTypes, Idx
    <3>3. UNCHANGED <<state, priority, hassig, alltaskq, waitq, curr, cli, todo>>
      BY <1>1 DEF Timerisr
    <3> QED BY <1>0, <2>1, <3>1, <3>2, <3>3, MoveOK DEF OtherTypes
  <2> QED BY <2>2, <2>3
<1>2. ASSUME NEW q \in WaitQ, Devirq(q) PROVE IInv'
  <2>1. Head(waitq[q]) \in Task /\ Wakeup(Head(waitq[q]))
    BY <1>b, <1>2 DEF Devirq, Signal
  <2>2. UNCHANGED <<counter, priority, hassig, alltaskq, curr, cli, todo>>
    BY <1>2 DEF Devirq
  <2>3. pc' \in [Task -> PC] /\ (pc[curr] = "sched" => pc'[curr] = "sched")
    BY <1>0, <1>2 DEF Devirq, IrqTail, OtherTypes, PC
  <2> QED BY <2>1, <2>2, <2>3, WakeStepOK
<1>3. ASSUME NEW q \in WaitQ, Sleep(q) PROVE IInv'
  <2>1. WaitSleep("TSLEEP", [waitq EXCEPT ![q] = Append(@, curr)]) /\ ~cli
        /\ state[curr] = "TRUN" /\ curr # idle
    BY <1>3, <1>a DEF Sleep, InKernel, At
  <2> QED BY <2>1, WaitSleepOK
<1>4. ASSUME NEW q \in WaitQ, Wait(q) PROVE IInv'
  <2>1. WaitSleep("TWAIT", [waitq EXCEPT ![q] = Append(@, curr)]) /\ ~cli
        /\ state[curr] = "TRUN" /\ curr # idle /\ ~hassig[curr]
    BY <1>4, <1>a DEF Wait, InKernel, At
  <2> QED BY <2>1, WaitSleepOK
<1>5. ASSUME NEW q \in WaitQ, KernSignal(q) PROVE IInv'
  <2>1. Head(waitq[q]) \in Task /\ Wakeup(Head(waitq[q]))
    BY <1>b, <1>5 DEF KernSignal, Signal
  <2>2. UNCHANGED <<counter, priority, hassig, pc, alltaskq, curr, cli, todo>>
    BY <1>5 DEF KernSignal
  <2> QED BY <1>0, <2>1, <2>2, WakeStepOK DEF OtherTypes
<1>6. ASSUME NEW c \in Task, Fork(c) PROVE IInv'
  <2>1. /\ state[c] = "none" /\ state[curr] = "TRUN" /\ c # curr /\ c # idle
        /\ state' = [state EXCEPT ![c] = "TRUN"]
        /\ counter' = [counter EXCEPT ![c] = counter[curr]]
        /\ priority' = [priority EXCEPT ![c] = priority[curr]]
        /\ hassig' = [hassig EXCEPT ![c] = FALSE]
        /\ pc' = [pc EXCEPT ![c] = "user", ![curr] = "ret"]
        /\ alltaskq' = Append(alltaskq, c)
        /\ runtaskq' = EnqQ(runtaskq, c, counter[curr])
        /\ mask' = EnqMask(mask, counter[curr])
        /\ UNCHANGED <<waitq, curr, needresched, cli, todo>>
    BY <1>6, <1>a DEF Fork, At, IInv, AllTasksListed
  <2>2. QueueOK(runtaskq', mask', state', counter')
    BY <1>0, <2>1, EnqOK DEF IInv, OtherTypes
  <2>3. /\ Append(alltaskq, c) \in Seq(Task) /\ Inj(Append(alltaskq, c))
        /\ Rng(Append(alltaskq, c)) = Rng(alltaskq) \cup {c}
    BY <2>1, AppendProps DEF IInv, OtherTypes, AllTasksListed
  <2>4. OtherTypes'
    <3>1. hassig' \in [Task -> BOOLEAN]
      BY <1>0, <2>1 DEF OtherTypes
    <3> QED BY <1>0, <2>1, <2>3, <3>1 DEF OtherTypes, State, PC
  <2>5. AllTasksListed'
    BY <1>0, <2>1, <2>3 DEF IInv, AllTasksListed, OtherTypes
  <2>6. SleeperIsQueued'
    BY <1>0, <2>1 DEF IInv, SleeperIsQueued, OtherTypes
  <2>7. NoSignalAsleep' /\ CurrRuns'
    BY <1>0, <2>1 DEF IInv, NoSignalAsleep, CurrRuns, OtherTypes
  <2> QED BY <2>2, <2>4, <2>5, <2>6, <2>7 DEF IInv
<1>7. ASSUME NEW c \in Task, Uninstall(c) PROVE IInv'
  <2>1. /\ state[c] = "TZOMBIE" /\ c # curr
        /\ state' = [state EXCEPT ![c] = "none"]
        /\ pc' = [pc EXCEPT ![c] = "none"]
        /\ alltaskq' = Unlink(alltaskq, c)
        /\ UNCHANGED <<counter, priority, hassig, runtaskq, mask, waitq, curr,
                       needresched, cli, todo>>
    BY <1>7 DEF Uninstall
  <2>2. /\ Unlink(alltaskq, c) \in Seq(Task) /\ Inj(Unlink(alltaskq, c))
        /\ Rng(Unlink(alltaskq, c)) = Rng(alltaskq) \ {c}
    BY <2>1, UnlinkProps DEF IInv, OtherTypes, AllTasksListed
  <2>3. OtherTypes'
    BY <1>0, <2>1, <2>2 DEF OtherTypes, State, PC
  <2>4. QueueOK(runtaskq', mask', state', counter')
    BY <1>0, <2>1 DEF IInv, QueueOK, OtherTypes
  <2>5. SleeperIsQueued'
    BY <1>0, <2>1 DEF IInv, SleeperIsQueued, OtherTypes
  <2>6. AllTasksListed'
    BY <1>0, <2>1, <2>2 DEF IInv, AllTasksListed, OtherTypes
  <2>7. NoSignalAsleep' /\ CurrRuns'
    BY <1>0, <2>1 DEF IInv, NoSignalAsleep, CurrRuns, OtherTypes
  <2> QED BY <2>3, <2>4, <2>5, <2>6, <2>7 DEF IInv
<1>8. ASSUME NEW t \in Task, KernPost(t) PROVE IInv'
  <2>1. /\ hassig' = [hassig EXCEPT ![t] = TRUE]
        /\ UNCHANGED <<counter, priority, pc, alltaskq, curr, cli, todo>>
    BY <1>8 DEF KernPost, Post
  <2>2. CASE state[t] = "TWAIT"
    <3>1. Wakeup(t)
      BY <1>8, <2>2 DEF KernPost, Post
    <3> QED BY <1>0, <2>1, <3>1, WakeStepOK DEF OtherTypes
  <2>3. CASE state[t] # "TWAIT"
    <3>1. UNCHANGED <<state, waitq, runtaskq, mask, needresched>>
      BY <1>8, <2>3 DEF KernPost, Post
    <3>2. OtherTypes'
      <4>1. hassig' \in [Task -> BOOLEAN]
        BY <1>0, <2>1 DEF OtherTypes
      <4> QED BY <1>0, <2>1, <3>1, <4>1 DEF OtherTypes
    <3>3. NoSignalAsleep' /\ CurrRuns'
      BY <1>0, <2>1, <2>3, <3>1 DEF IInv, NoSignalAsleep, CurrRuns, OtherTypes
    <3> QED BY <2>1, <3>1, <3>2, <3>3, QuietOK
  <2> QED BY <2>2, <2>3
<1>9. ASSUME NEW t \in Task, Alarm(t) PROVE IInv'
  <2>1. Wakeup(t) /\ UNCHANGED <<counter, priority, hassig, pc, alltaskq, curr, cli, todo>>
    BY <1>9 DEF Alarm
  <2> QED BY <1>0, <2>1, WakeStepOK DEF OtherTypes
<1>10. ASSUME NEW inc \in NiceInc, SysNice(inc) PROVE IInv'
  <2>1. /\ SetCounter(curr, 0) /\ pc' = [pc EXCEPT ![curr] = "ret"]
        /\ UNCHANGED <<state, hassig, alltaskq, waitq, curr, needresched, cli, todo>>
        /\ state[curr] = "TRUN"
    BY <1>10, <1>a DEF SysNice, GoTo, At
  <2>2. priority' \in [Task -> Idx]
    BY <1>0, <1>10 DEF SysNice, OtherTypes
  <2>3. pc' \in [Task -> PC] /\ CurrRuns'
    BY <1>0, <2>1 DEF OtherTypes, PC, CurrRuns
  <2> QED BY <1>0, <2>1, <2>2, <2>3, MoveOK DEF OtherTypes
<1>11. CASE Trap \/ SysReturn \/ PremptNot
  <2>1. UNCHANGED <<state, counter, priority, hassig, queues, curr, needresched, cli, todo>>
    BY <1>11 DEF Trap, SysReturn, PremptNot
  <2>2. pc' \in [Task -> PC] /\ state[curr] = "TRUN"
    BY <1>0, <1>11, <1>a DEF Trap, SysReturn, PremptNot, At, GoTo, OtherTypes, PC
  <2>3. OtherTypes' /\ NoSignalAsleep' /\ CurrRuns'
    BY <1>0, <2>1, <2>2 DEF OtherTypes, NoSignalAsleep, CurrRuns, IInv, queues
  <2> QED BY <2>1, <2>3, QuietOK DEF queues
<1>12. CASE KernPrempt
  <2>1. UNCHANGED <<state, counter, priority, hassig, queues, curr, needresched, cli, todo>>
    BY <1>12 DEF KernPrempt
  <2>2. pc' \in [Task -> PC] /\ state[curr] = "TRUN"
    BY <1>0, <1>12, <1>a DEF KernPrempt, InKernel, At, GoTo, OtherTypes, PC
  <2>3. OtherTypes' /\ NoSignalAsleep' /\ CurrRuns'
    BY <1>0, <2>1, <2>2 DEF OtherTypes, NoSignalAsleep, CurrRuns, IInv, queues
  <2> QED BY <2>1, <2>3, QuietOK DEF queues
<1>13. CASE Exit
  <2>1. WaitSleep("TZOMBIE", waitq) /\ ~cli /\ state[curr] = "TRUN" /\ curr # idle
    BY <1>13, <1>a DEF Exit, InKernel, At
  <2> QED BY <2>1, WaitSleepOK
<1>14. CASE Stop
  <2>1. WaitSleep("TSTOP", waitq) /\ ~cli /\ state[curr] = "TRUN" /\ curr # idle
    BY <1>14, <1>a DEF Stop, At
  <2> QED BY <2>1, WaitSleepOK
<1>15. CASE CheckSignal
  <2>1. UNCHANGED <<state, counter, priority, queues, curr, needresched, cli, todo>>
        /\ state[curr] = "TRUN"
    BY <1>15, <1>a DEF CheckSignal, At
  <2>2. pc' \in [Task -> PC]
    BY <1>0, <1>15 DEF CheckSignal, GoTo, OtherTypes, PC
  <2>3. PICK more \in BOOLEAN : hassig' = [hassig EXCEPT ![curr] = @ /\ more]
    BY <1>15 DEF CheckSignal
  <2>4. hassig' \in [Task -> BOOLEAN] /\ \A t \in Task : hassig'[t] => hassig[t]
    BY <1>0, <2>3 DEF OtherTypes
  <2>5. OtherTypes' /\ NoSignalAsleep' /\ CurrRuns'
    BY <1>0, <2>1, <2>2, <2>4 DEF OtherTypes, NoSignalAsleep, CurrRuns, IInv, queues
  <2> QED BY <2>1, <2>5, QuietOK DEF queues
<1>16. CASE FindEmpty
  <2>1. UNCHANGED <<state, counter, priority, hassig, pc, queues, curr, needresched>>
        /\ cli' = TRUE /\ todo' = alltaskq
    BY <1>16 DEF FindEmpty
  <2>2. OtherTypes' /\ NoSignalAsleep' /\ CurrRuns'
    BY <1>0, <2>1 DEF OtherTypes, NoSignalAsleep, CurrRuns, IInv, queues
  <2> QED BY <2>1, <2>2, QuietOK DEF queues
<1>17. CASE Recharge
  <2> DEFINE t == Head(todo)
  <2>1. t \in Task /\ todo' = Tail(todo) /\ Tail(todo) \in Seq(Task)
    BY <1>0, <1>17 DEF Recharge, OtherTypes
  <2>2. RechargeVal(t) \in Idx
    <3>1. priority[t] \in Idx /\ counter[t] \in Idx
      BY <1>0, <2>1 DEF OtherTypes
    <3> QED BY <1>0, <3>1 DEF RechargeVal, Idx
  <2>3. SetCounter(t, RechargeVal(t))
        /\ UNCHANGED <<state, priority, hassig, pc, alltaskq, waitq, curr, needresched, cli>>
    BY <1>17 DEF Recharge
  <2>4. CurrRuns'
    BY <2>3 DEF IInv, CurrRuns
  <2> QED BY <1>0, <2>1, <2>2, <2>3, <2>4, MoveOK DEF OtherTypes
<1>18. ASSUME NEW i \in Idx, Sched(i) PROVE IInv'
  <2> DEFINE h == Head(runtaskq[i])
  <2>1. UNCHANGED <<state, counter, priority, hassig, queues, todo>>
        /\ needresched' = FALSE /\ cli' = FALSE
    BY <1>18 DEF Sched
  <2>2. i \in mask /\ runtaskq[i] # << >> /\ runtaskq[i] \in Seq(Task)
    BY <1>18 DEF Sched, Top, IInv, QueueOK
  <2>3. h \in Task /\ h \in Rng(runtaskq[i])
    BY <2>2 DEF Rng
  <2>4. state[h] = "TRUN"
    BY <2>3 DEF IInv, QueueOK
  <2>5. pc' \in [Task -> PC] /\ curr' \in Task /\ state[curr'] = "TRUN"
    BY <1>0, <1>18, <2>3, <2>4 DEF Sched, Switch, OtherTypes, PC
  <2>6. OtherTypes' /\ NoSignalAsleep' /\ CurrRuns'
    BY <1>0, <2>1, <2>5 DEF OtherTypes, NoSignalAsleep, CurrRuns, IInv, queues
  <2> QED BY <2>1, <2>6, QuietOK DEF queues
<1>19. CASE UNCHANGED vars
  <2>1. OtherTypes' /\ NoSignalAsleep' /\ CurrRuns'
    BY <1>0, <1>19 DEF vars, queues, OtherTypes, NoSignalAsleep, CurrRuns, IInv
  <2> QED BY <1>19, <2>1, QuietOK DEF vars, queues
<1> QED
  BY <1>1, <1>2, <1>3, <1>4, <1>5, <1>6, <1>7, <1>8, <1>9, <1>10, <1>11, <1>12,
     <1>13, <1>14, <1>15, <1>16, <1>17, <1>18, <1>19 DEF Next

\* The scheduler's variables keep their types in every behaviour: counters and
\* priorities stay inside the run queue array.
THEOREM TypeCorrect == Spec => []TypeOK
<1>1. IInv => TypeOK
  BY IInvParts
<1> QED BY <1>1, InitOK, NextOK, PTL DEF Spec

\* checkmask() never fails, no interleaving of ticks, wakeups, forks and sleeps
\* loses a runnable task, queues it twice or under another counter, and every
\* sleeper stays where its waker will look for it; for every number of tasks,
\* run queues and wait queues.
THEOREM QueuesCorrect == Spec => []QueuesConsistent
<1>1. IInv => QueuesConsistent
  BY IInvParts DEF QueuesConsistent
<1> QED BY <1>1, InitOK, NextOK, PTL DEF Spec

\* checkwait() never fails: a task with a pending signal is never left in
\* interruptible sleep.
THEOREM CheckWaitCorrect == Spec => []NoSignalAsleep
<1>1. IInv => NoSignalAsleep
  BY IInvParts
<1> QED BY <1>1, InitOK, NextOK, PTL DEF Spec

----------------------------------------------------------------------------
(* sched() itself. *)

\* While sched() runs, the idle task is still to be recharged or has its tick.
IdleCharged == cli => idle \in Rng(todo) \/ counter[idle] = 1

LEMMA IdleChargedOK == IInv /\ IdleCharged /\ [Next]_vars => IdleCharged'
<1> SUFFICES ASSUME IInv, IdleCharged, [Next]_vars PROVE IdleCharged'
  OBVIOUS
<1>1. CASE FindEmpty
  <2>1. todo' = alltaskq /\ idle \in Rng(alltaskq)
    BY <1>1, SchedAssumption DEF FindEmpty, IInv, AllTasksListed
  <2> QED BY <2>1 DEF IdleCharged
<1>2. CASE Recharge
  <2> DEFINE t == Head(todo)
  <2>1. /\ todo # << >> /\ todo \in Seq(Task) /\ t \in Task /\ cli' = cli
        /\ todo' = Tail(todo) /\ counter' = [counter EXCEPT ![t] = RechargeVal(t)]
        /\ counter \in [Task -> Idx]
    BY <1>2 DEF Recharge, SetCounter, IInv, OtherTypes
  <2>2. CASE t = idle
    BY <2>1, <2>2 DEF RechargeVal, IdleCharged
  <2>3. CASE t # idle
    <3>1. counter'[idle] = counter[idle]
      BY <2>1, <2>3, SchedAssumption
    <3>2. ASSUME idle \in Rng(todo) PROVE idle \in Rng(todo')
      <4>1. PICK i \in 1 .. Len(todo) : todo[i] = idle
        BY <3>2 DEF Rng
      <4>2. i # 1
        BY <4>1, <2>1, <2>3
      <4>3. i - 1 \in 1 .. Len(Tail(todo)) /\ Tail(todo)[i - 1] = idle
        BY <4>1, <4>2, <2>1
      <4> QED BY <4>3, <2>1 DEF Rng
    <3> QED BY <2>1, <3>1, <3>2 DEF IdleCharged
  <2> QED BY <2>2, <2>3
<1>3. CASE (\E i \in Idx : Sched(i)) \/ UNCHANGED vars
  BY <1>3 DEF Sched, vars, IdleCharged
<1>4. CASE ~cli /\ cli' = cli
  BY <1>4 DEF IdleCharged
<1>5. \/ FindEmpty \/ Recharge \/ (\E i \in Idx : Sched(i)) \/ UNCHANGED vars
      \/ (~cli /\ cli' = cli)
  BY DEF Next, Timerisr, Devirq, Sleep, Wait, KernSignal, Fork, Uninstall, KernPost,
         Alarm, SysNice, Trap, Exit, KernPrempt, SysReturn, PremptNot, CheckSignal,
         Stop, At, InKernel, WaitSleep
<1> QED BY <1>1, <1>2, <1>3, <1>4, <1>5

\* find() recharges only when no runnable task has a tick left, and its "goto
\* repeat" is taken at most once per call: the idle task always gets a tick.
THEOREM RechargeCorrect == Spec => RechargeEnds
<1>1. Init => IdleCharged
  BY DEF Init, IdleCharged
<1>2. ASSUME IInv, IdleCharged, FindEmpty
      PROVE  (\A t \in Task : state[t] = "TRUN" => counter[t] = 0) /\ ~cli
  <2>1. todo = << >> /\ \A j \in mask : j <= 0
    BY <1>2 DEF FindEmpty, Top
  <2>2. \A t \in Task : state[t] = "TRUN" => counter[t] \in mask
    BY <1>2 DEF IInv, OtherTypes, QueueOK, Rng
  <2>3. \A t \in Task : counter[t] \in Nat
    BY <1>2, SchedAssumption DEF IInv, OtherTypes, Idx
  <2>4. \A t \in Task : state[t] = "TRUN" => counter[t] = 0
    BY <2>1, <2>2, <2>3
  <2>5. counter[idle] = 0
    BY <1>2, <2>4, SchedAssumption DEF IInv, AllTasksListed
  <2>6. idle \notin Rng(todo)
    BY <2>1 DEF Rng
  <2> QED BY <1>2, <2>4, <2>5, <2>6 DEF IdleCharged
<1>3. IInv /\ IdleCharged =>
        [FindEmpty => (\A t \in Task : state[t] = "TRUN" => counter[t] = 0) /\ ~cli]_vars
  BY <1>2
<1> QED BY <1>1, <1>3, InitOK, NextOK, IdleChargedOK, PTL DEF Spec, RechargeEnds

\* Whoever sched() chooses has at least as many ticks left as every other
\* runnable task.
THEOREM PickCorrect == Spec => PicksLargestCounter
<1>1. ASSUME IInv, [Next]_vars, needresched, ~needresched'
      PROVE  \A t \in Task : state[t] = "TRUN" => counter[t] <= counter[curr']
  <2>1. ASSUME NEW t \in Task, Wakeup(t) PROVE FALSE
    BY <1>1, <2>1 DEF Wakeup
  <2>2. ~Timerisr
    BY <1>1 DEF Timerisr
  <2>3. \A q \in WaitQ : ~Devirq(q) /\ ~KernSignal(q)
    <3>1. \A q \in WaitQ : waitq[q] # << >> => Head(waitq[q]) \in Task
      BY <1>1 DEF IInv, OtherTypes
    <3> QED BY <2>1, <3>1 DEF Devirq, KernSignal, Signal
  <2>4. \A t \in Task : ~KernPost(t) /\ ~Alarm(t)
    <3>1. \A t \in Task : ~Alarm(t)
      BY <2>1 DEF Alarm
    <3>2. \A t \in Task : ~KernPost(t)
      BY <1>1, <2>1 DEF KernPost, Post
    <3> QED BY <3>1, <3>2
  <2>5. \E i \in Idx : Sched(i)
    BY <1>1, <2>2, <2>3, <2>4
       DEF Next, Sleep, Wait, Fork, Uninstall, SysNice, Trap, Exit, KernPrempt, SysReturn,
           PremptNot, CheckSignal, Stop, WaitSleep, FindEmpty, Recharge, vars
  <2>6. PICK i \in Idx : Sched(i)
    BY <2>5
  <2> DEFINE h == Head(runtaskq[i])
  <2>7. i \in mask /\ runtaskq[i] # << >> /\ runtaskq[i] \in Seq(Task)
        /\ \A j \in mask : j <= i
    BY <1>1, <2>6 DEF Sched, Top, IInv, QueueOK
  <2>8. h \in Task /\ h \in Rng(runtaskq[i])
    BY <2>7 DEF Rng
  <2>9. counter[h] = i
    BY <1>1, <2>8 DEF IInv, QueueOK
  <2>10. counter[curr'] = i
    BY <2>6, <2>9 DEF Sched, Switch
  <2>11. \A t \in Task : state[t] = "TRUN" => counter[t] \in mask
    BY <1>1 DEF IInv, OtherTypes, QueueOK, Rng
  <2> QED BY <2>7, <2>10, <2>11
<1>2. IInv /\ [Next]_vars =>
        [needresched /\ ~needresched' =>
           \A t \in Task : state[t] = "TRUN" => counter[t] <= counter[curr']]_vars
  BY <1>1
<1> QED BY <1>2, InitOK, NextOK, PTL DEF Spec, PicksLargestCounter

=============================================================================
