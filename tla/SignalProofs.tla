---------------------------- MODULE SignalProofs ----------------------------
(***************************************************************************)
(* TLAPS proofs about signals, for any number of tasks, any set of signals *)
(* and any depth of nested handlers, and about the process groups and the  *)
(* sessions that signals are sent to.                                      *)
(***************************************************************************)
EXTENDS Signal, Pgrp, WellFoundedInduction, SequenceTheorems, TLAPS

Func == {"DFL", "IGN", "HND"}
Action == [func : Func, mask : SUBSET Signo, flags : Flag \cup {{}}]

SigTypeOK ==
  /\ sigset \in [STask -> SUBSET Signo]
  /\ sigmask \in [STask -> SUBSET Signo]
  /\ vec \in [STask -> [Signo -> Action]]
  /\ frame \in [STask -> Seq(SUBSET Signo)]
  /\ spc \in [STask -> {"user", "ret", "wait", "woken", "stop", "zombie"}]
  /\ oldmask \in [STask -> (SUBSET Signo) \cup {{0}}]
  /\ base \in [STask -> SUBSET Signo]

\* The mask a task has outside the call it is in: sigsuspend's is a loan.
Own(t) == IF spc[t] \in {"wait", "woken"} /\ oldmask[t] # {0} THEN oldmask[t] ELSE sigmask[t]

\* With no handler that is the mask the program asked for; with handlers, the
\* frame of the outermost one has kept it, whatever was set inside.
BaseIsKept ==
  \A t \in STask : spc[t] \notin {"stop", "zombie"} =>
    IF frame[t] = << >> THEN Own(t) = base[t] ELSE frame[t][1] = base[t]

IInv == SigTypeOK /\ IgnoredNotPending /\ SleepsWithoutSignal /\ BaseIsKept

----------------------------------------------------------------------------
(* Lemmas about the operators. *)

\* The signals are numbers, so a set of them has a least one.
LEMMA MinIs ==
  ASSUME NEW S \in SUBSET Nat, S # {}
  PROVE  Min(S) \in S /\ \A y \in S : Min(S) <= y
<1> DEFINE R == {ss \in Nat \X Nat : ss[1] < ss[2]}
<1>1. IsWellFoundedOn(R, Nat)
  BY NatLessThanWellFounded DEF OpToRel
<1>2. \E x \in S : \A y \in S : ~ (<<y, x>> \in R)
  <2> HIDE DEF R
  <2> QED BY <1>1, WFMin
<1>3. PICK x \in S : \A y \in S : ~ (<<y, x>> \in R)
  BY <1>2
<1>4. ASSUME NEW y \in S PROVE x <= y
  <2>1. ~(<<y, x>>[1] < <<y, x>>[2])
    BY <1>3
  <2>2. x \in Nat /\ y \in Nat
    OBVIOUS
  <2> QED BY <2>1, <2>2
<1> QED BY <1>4 DEF Min

\* What a post leaves: nothing but what was there and the signal, and that only
\* when its action lets it.
LEMMA PostedIs ==
  ASSUME SigTypeOK, NEW t \in STask, NEW s \in Signo, NEW f
  PROVE  /\ Posted(t, s, f) \in SUBSET Signo
         /\ \A x \in Posted(t, s, f) : x \in sigset[t] \/ (x = s /\ ~Dropped(f, s) /\ Reaches(t, s))
<1>1. sigset[t] \in SUBSET Signo
  BY DEF SigTypeOK
<1>2. Undone(t, s) \subseteq sigset[t]
  BY DEF Undone, DelMany, del
<1> QED BY <1>1, <1>2 DEF Posted

\* del of several takes nothing away, in setmask after a handler: no signal is
\* both SIGKILL and SIGSTOP.
LEMMA DelManyTakesNothing == \A S : DelMany(S, {SIGKILL, SIGSTOP}) = S
BY DEF DelMany, SIGKILL, SIGSTOP

\* Taking the innermost frame off.
LEMMA FrontLast ==
  ASSUME NEW S, NEW q \in Seq(S), Len(q) # 0
  PROVE  /\ Front(q) \in Seq(S) /\ Last(q) \in S
         /\ Len(q) = 1 => Front(q) = << >> /\ Last(q) = q[1]
         /\ Len(q) # 1 => Front(q) # << >> /\ Front(q)[1] = q[1]
<1>1. PICK n \in Nat : n = Len(q) - 1
  OBVIOUS
<1>2. SubSeq(q, 1, n) \in Seq(S) /\ Len(SubSeq(q, 1, n)) = n
  BY <1>1
<1>3. n # 0 => SubSeq(q, 1, n)[1] = q[1]
  BY <1>1
<1>4. q[Len(q)] \in S
  BY <1>1
<1>5. n = 0 => SubSeq(q, 1, n) = << >>
  BY <1>2
<1>6. n # 0 => SubSeq(q, 1, n) # << >>
  BY <1>2
<1>7. Front(q) = SubSeq(q, 1, n) /\ Last(q) = q[Len(q)]
  BY <1>1 DEF Front, Last
<1> QED BY <1>1, <1>2, <1>3, <1>4, <1>5, <1>6, <1>7

----------------------------------------------------------------------------
(* The steps. *)

\* A step that leaves the masks alone and nobody's call begins or ends.
LEMMA BaseSame ==
  ASSUME BaseIsKept, UNCHANGED <<sigmask, frame, oldmask, base>>,
         \A u \in STask : spc'[u] \notin {"stop", "zombie"} =>
            /\ spc[u] \notin {"stop", "zombie"}
            /\ spc'[u] \in {"wait", "woken"} <=> spc[u] \in {"wait", "woken"}
  PROVE  BaseIsKept'
BY DEF BaseIsKept, Own

\* Only task t's state changes, and t does not sleep: what the invariant asks of t.
LEMMA OneTask ==
  ASSUME IInv, NEW t \in STask, SigTypeOK',
         \A u \in STask \ {t} :
            /\ sigset'[u] = sigset[u] /\ sigmask'[u] = sigmask[u] /\ vec'[u] = vec[u]
            /\ frame'[u] = frame[u] /\ spc'[u] = spc[u] /\ oldmask'[u] = oldmask[u]
            /\ base'[u] = base[u],
         \A s \in sigset'[t] : ~Dropped(vec'[t][s].func, s),
         spc'[t] = "wait" => sigset'[t] \ sigmask'[t] = {},
         spc'[t] \notin {"stop", "zombie"} =>
            IF frame'[t] = << >> THEN Own(t)' = base'[t] ELSE frame'[t][1] = base'[t]
  PROVE  IInv'
<1>1. IgnoredNotPending'
  BY DEF IInv, IgnoredNotPending
<1>2. SleepsWithoutSignal'
  BY DEF IInv, SleepsWithoutSignal, unmasked
<1>3. BaseIsKept'
  BY DEF IInv, BaseIsKept, Own
<1> QED BY <1>1, <1>2, <1>3 DEF IInv

LEMMA InitIInv == ASSUME SignalParams, SigInit PROVE IInv
<1>1. SigTypeOK
  <2>1. \A s \in Signo : [func |-> "DFL", mask |-> {}, flags |-> {}] \in Action
    BY DEF Action, Func
  <2>2. vec \in [STask -> [Signo -> Action]]
    BY <2>1 DEF SigInit
  <2>3. << >> \in Seq(SUBSET Signo)
    OBVIOUS
  <2> QED BY <2>2, <2>3 DEF SigInit, SigTypeOK
<1> QED BY <1>1 DEF SigInit, IInv, IgnoredNotPending, SleepsWithoutSignal, BaseIsKept, Own, unmasked

LEMMA PostStep ==
  ASSUME SignalParams, IInv, NEW t \in STask, NEW s \in Signo, Post(t, s)
  PROVE  IInv'
<1>1. SigTypeOK /\ IgnoredNotPending /\ SleepsWithoutSignal /\ BaseIsKept
  BY DEF IInv
<1> DEFINE f == vec[t][s].func
<1>2. /\ sigset' = [sigset EXCEPT ![t] = Posted(t, s, f)]
      /\ spc' = IF Wakes(t, s, f) THEN [spc EXCEPT ![t] = "woken"] ELSE spc
      /\ UNCHANGED <<sigmask, vec, frame, oldmask, base>>
  BY DEF Post
<1>3. /\ Posted(t, s, f) \in SUBSET Signo
      /\ \A x \in Posted(t, s, f) : x \in sigset[t] \/ (x = s /\ ~Dropped(f, s) /\ Reaches(t, s))
  BY <1>1, PostedIs
<1>4. SigTypeOK'
  BY <1>1, <1>2, <1>3 DEF SigTypeOK
<1>5. sigset'[t] = Posted(t, s, f) /\ \A u \in STask \ {t} : sigset'[u] = sigset[u]
  BY <1>1, <1>2 DEF SigTypeOK
<1>6. /\ Wakes(t, s, f) => spc[t] = "wait" /\ spc'[t] = "woken"
      /\ ~Wakes(t, s, f) => spc'[t] = spc[t]
      /\ \A u \in STask \ {t} : spc'[u] = spc[u]
  BY <1>1, <1>2 DEF SigTypeOK, Wakes
<1>7. IgnoredNotPending'
  BY <1>1, <1>2, <1>3, <1>5 DEF IgnoredNotPending
<1>8. SleepsWithoutSignal'
  <2> SUFFICES ASSUME NEW u \in STask, spc'[u] = "wait" PROVE sigset'[u] \ sigmask'[u] = {}
    BY DEF SleepsWithoutSignal, unmasked
  <2>1. CASE u # t
    BY <1>1, <1>2, <1>5, <1>6, <2>1 DEF SleepsWithoutSignal, unmasked
  <2>2. CASE u = t
    <3>1. ~Wakes(t, s, f) /\ spc[t] = "wait" /\ sigset[t] \ sigmask[t] = {}
      BY <1>1, <1>6, <2>2 DEF SleepsWithoutSignal, unmasked
    <3>2. ~Dropped(f, s) /\ Reaches(t, s) => s \in sigmask[t]
      BY <3>1 DEF Wakes
    <3> QED BY <1>2, <1>3, <1>5, <2>2, <3>1, <3>2
  <2> QED BY <2>1, <2>2
<1>9. BaseIsKept'
  BY <1>1, <1>2, <1>6, BaseSame
<1> QED BY <1>4, <1>7, <1>8, <1>9 DEF IInv

\* The action of a trap's signal is made the default before it is posted.
LEMMA ForceStep ==
  ASSUME SignalParams, IInv, NEW t \in STask, NEW s \in Trap, Forced(t, s)
  PROVE  IInv'
<1>1. SigTypeOK /\ IgnoredNotPending /\ SleepsWithoutSignal /\ BaseIsKept /\ s \in Signo /\ s # SIGCHLD
  BY DEF IInv, SignalParams
<1> DEFINE g == IF vec[t][s].func = "IGN" THEN "DFL" ELSE vec[t][s].func
           a == [vec[t][s] EXCEPT !.func = g]
<1>2. /\ spc[t] = "user"
      /\ sigmask' = [sigmask EXCEPT ![t] = sigmask[t] \ {s}]
      /\ vec' = [vec EXCEPT ![t] = [vec[t] EXCEPT ![s] = a]]
      /\ sigset' = [sigset EXCEPT ![t] = Posted(t, s, vec'[t][s].func)]
      /\ spc' = [spc EXCEPT ![t] = "ret"]
      /\ base' = IF frame[t] = << >> THEN [base EXCEPT ![t] = base[t] \ {s}] ELSE base
      /\ UNCHANGED <<frame, oldmask>>
  BY DEF Forced, del
<1>3. vec[t] \in [Signo -> Action] /\ vec[t][s] \in Action
  BY <1>1 DEF SigTypeOK
<1>4. a \in Action /\ a.func = g
  BY <1>3 DEF Action, Func
<1> HIDE DEF a
<1>5. /\ vec' \in [STask -> [Signo -> Action]]
      /\ vec'[t][s].func = g
      /\ \A x \in Signo \ {s} : vec'[t][x] = vec[t][x]
      /\ \A u \in STask \ {t} : vec'[u] = vec[u]
  BY <1>1, <1>2, <1>3, <1>4 DEF SigTypeOK
<1> HIDE DEF g
<1>6. /\ Posted(t, s, g) \in SUBSET Signo
      /\ \A x \in Posted(t, s, g) : x \in sigset[t] \/ (x = s /\ ~Dropped(g, s) /\ Reaches(t, s))
  BY <1>1, PostedIs
<1>7. SigTypeOK'
  <2>1. sigset' \in [STask -> SUBSET Signo]
    BY <1>1, <1>2, <1>5, <1>6 DEF SigTypeOK
  <2>2. base' \in [STask -> SUBSET Signo] /\ sigmask' \in [STask -> SUBSET Signo]
    BY <1>1, <1>2 DEF SigTypeOK
  <2> QED BY <1>1, <1>2, <1>5, <2>1, <2>2 DEF SigTypeOK
<1>8. \A x \in sigset'[t] : ~Dropped(vec'[t][x].func, x)
  <2> SUFFICES ASSUME NEW x \in sigset'[t] PROVE ~Dropped(vec'[t][x].func, x)
    OBVIOUS
  <2>1. x \in Posted(t, s, g) /\ sigset[t] \in SUBSET Signo
    BY <1>1, <1>2, <1>5 DEF SigTypeOK
  <2>2. CASE x # s
    <3>1. x \in sigset[t] /\ x \in Signo
      BY <1>6, <2>1, <2>2
    <3>2. vec'[t][x] = vec[t][x]
      BY <1>5, <2>2, <3>1
    <3>3. ~Dropped(vec[t][x].func, x)
      BY <1>1, <3>1 DEF IgnoredNotPending
    <3> QED BY <3>2, <3>3
  <2>3. CASE x = s
    <3>1. CASE ~Dropped(g, s)
      BY <1>5, <2>3, <3>1
    <3>2. CASE x \in sigset[t]
      <4>1. ~Dropped(vec[t][s].func, s)
        BY <1>1, <2>3, <3>2 DEF IgnoredNotPending
      <4>2. vec[t][s].func # "IGN"
        BY <1>1, <4>1 DEF Dropped
      <4>3. g = vec[t][s].func
        BY <4>2 DEF g
      <4> QED BY <1>5, <2>3, <4>1, <4>3
    <3> QED BY <1>6, <2>1, <2>3, <3>1, <3>2
  <2> QED BY <2>2, <2>3
<1>9. spc'[t] = "ret" /\ sigmask'[t] = sigmask[t] \ {s}
  BY <1>1, <1>2 DEF SigTypeOK
<1>10. IF frame'[t] = << >> THEN Own(t)' = base'[t] ELSE frame'[t][1] = base'[t]
  <2>1. IF frame[t] = << >> THEN sigmask[t] = base[t] ELSE frame[t][1] = base[t]
    BY <1>1, <1>2 DEF BaseIsKept, Own
  <2>2. Own(t)' = sigmask'[t]
    BY <1>9 DEF Own
  <2> QED BY <1>1, <1>2, <1>9, <2>1, <2>2 DEF SigTypeOK
<1>11. \A u \in STask \ {t} :
            /\ sigset'[u] = sigset[u] /\ sigmask'[u] = sigmask[u] /\ vec'[u] = vec[u]
            /\ frame'[u] = frame[u] /\ spc'[u] = spc[u] /\ oldmask'[u] = oldmask[u]
            /\ base'[u] = base[u]
  BY <1>1, <1>2, <1>5 DEF SigTypeOK
<1> QED BY <1>7, <1>8, <1>9, <1>10, <1>11, OneTask

\* The calls that change masks.
LEMMA MaskCallStep ==
  ASSUME SignalParams, IInv, NEW t \in STask, NEW m \in Mask, Setmask(t, m) \/ Sigsuspend(t, m)
  PROVE  IInv'
<1>1. SigTypeOK /\ IgnoredNotPending /\ BaseIsKept /\ m \in SUBSET Signo
  BY DEF IInv, SignalParams
<1>2. UNCHANGED <<sigset, vec, frame>> /\ spc[t] = "user"
  BY DEF Setmask, Sigsuspend, Call
<1>3. \A x \in sigset'[t] : ~Dropped(vec'[t][x].func, x)
  BY <1>1, <1>2 DEF IgnoredNotPending
<1>4. IF frame[t] = << >> THEN sigmask[t] = base[t] ELSE frame[t][1] = base[t]
  BY <1>1, <1>2 DEF BaseIsKept, Own
<1>5. CASE Setmask(t, m)
  <2>1. PICK new \in {sigmask[t] \cup m, sigmask[t] \ m, m} :
          /\ sigmask' = [sigmask EXCEPT ![t] = new]
          /\ base' = IF frame[t] = << >> THEN [base EXCEPT ![t] = new] ELSE base
    BY <1>5 DEF Setmask
  <2>2. spc' = [spc EXCEPT ![t] = "ret"] /\ oldmask' = oldmask
    BY <1>5 DEF Setmask, Call
  <2>3. new \in SUBSET Signo
    BY <1>1 DEF SigTypeOK
  <2>4. SigTypeOK'
    BY <1>1, <1>2, <2>1, <2>2, <2>3 DEF SigTypeOK
  <2>5. spc'[t] = "ret" /\ sigmask'[t] = new /\ Own(t)' = new
    BY <1>1, <2>1, <2>2 DEF SigTypeOK, Own
  <2>6. IF frame'[t] = << >> THEN Own(t)' = base'[t] ELSE frame'[t][1] = base'[t]
    BY <1>1, <1>2, <1>4, <2>1, <2>5 DEF SigTypeOK
  <2>7. \A u \in STask \ {t} :
            /\ sigset'[u] = sigset[u] /\ sigmask'[u] = sigmask[u] /\ vec'[u] = vec[u]
            /\ frame'[u] = frame[u] /\ spc'[u] = spc[u] /\ oldmask'[u] = oldmask[u]
            /\ base'[u] = base[u]
    BY <1>1, <1>2, <2>1, <2>2 DEF SigTypeOK
  <2> QED BY <1>3, <2>4, <2>5, <2>6, <2>7, OneTask
<1>6. CASE Sigsuspend(t, m)
  <2>1. /\ oldmask' = [oldmask EXCEPT ![t] = sigmask[t]] /\ sigmask' = [sigmask EXCEPT ![t] = m]
        /\ spc' = [spc EXCEPT ![t] = Wait(sigset[t], m)] /\ base' = base
    BY <1>6 DEF Sigsuspend
  <2>2. SigTypeOK'
    BY <1>1, <1>2, <2>1 DEF SigTypeOK, Wait
  <2>3. /\ spc'[t] = Wait(sigset[t], m) /\ sigmask'[t] = m /\ oldmask'[t] = sigmask[t]
        /\ spc'[t] \in {"wait", "woken"}
    BY <1>1, <2>1 DEF SigTypeOK, Wait
  <2>4. sigmask[t] # {0}
    BY <1>1 DEF SigTypeOK, SignalParams
  <2>5. Own(t)' = sigmask[t]
    BY <2>3, <2>4 DEF Own
  <2>6. IF frame'[t] = << >> THEN Own(t)' = base'[t] ELSE frame'[t][1] = base'[t]
    BY <1>2, <1>4, <2>1, <2>5
  <2>7. \A u \in STask \ {t} :
            /\ sigset'[u] = sigset[u] /\ sigmask'[u] = sigmask[u] /\ vec'[u] = vec[u]
            /\ frame'[u] = frame[u] /\ spc'[u] = spc[u] /\ oldmask'[u] = oldmask[u]
            /\ base'[u] = base[u]
    BY <1>1, <1>2, <2>1 DEF SigTypeOK
  <2>8. spc'[t] = "wait" => sigset'[t] \ sigmask'[t] = {}
    BY <1>2, <2>3 DEF Wait
  <2> QED BY <1>3, <2>2, <2>6, <2>7, <2>8, OneTask
<1> QED BY <1>5, <1>6

LEMMA SigactionStep ==
  ASSUME SignalParams, IInv, NEW t \in STask, NEW s \in Signo, NEW f \in Func,
         NEW m \in Mask, NEW fl \in Flag, Sigaction(t, s, f, m, fl)
  PROVE  IInv'
<1>1. SigTypeOK /\ IgnoredNotPending /\ BaseIsKept /\ m \in SUBSET Signo
  BY DEF IInv, SignalParams
<1> DEFINE a == [func |-> f, mask |-> IF "NOMASK" \in fl THEN {} ELSE m \cup {s}, flags |-> fl]
<1>2. /\ spc[t] = "user" /\ spc' = [spc EXCEPT ![t] = "ret"]
      /\ vec' = [vec EXCEPT ![t] = [vec[t] EXCEPT ![s] = a]]
      /\ sigset' = [sigset EXCEPT ![t] = Checkpending(t, s, f)]
      /\ UNCHANGED <<sigmask, frame, oldmask, base>>
  BY DEF Sigaction, Call
<1>3. a \in Action /\ a.func = f
  BY <1>1 DEF Action
<1>4. vec[t] \in [Signo -> Action] /\ sigset[t] \in SUBSET Signo
  BY <1>1 DEF SigTypeOK
<1> HIDE DEF a
<1>5. /\ vec' \in [STask -> [Signo -> Action]]
      /\ vec'[t][s].func = f
      /\ \A x \in Signo \ {s} : vec'[t][x] = vec[t][x]
      /\ \A u \in STask \ {t} : vec'[u] = vec[u]
  BY <1>1, <1>2, <1>3, <1>4 DEF SigTypeOK
<1>6. /\ Checkpending(t, s, f) \subseteq sigset[t]
      /\ s \in Checkpending(t, s, f) => ~Dropped(f, s)
  BY DEF Checkpending, Dropped, del
<1>7. SigTypeOK'
  BY <1>1, <1>2, <1>4, <1>5, <1>6 DEF SigTypeOK
<1>8. sigset'[t] = Checkpending(t, s, f) /\ spc'[t] = "ret"
  BY <1>1, <1>2 DEF SigTypeOK
<1>9. \A x \in sigset'[t] : ~Dropped(vec'[t][x].func, x)
  <2> SUFFICES ASSUME NEW x \in sigset'[t] PROVE ~Dropped(vec'[t][x].func, x)
    OBVIOUS
  <2>1. x \in sigset[t] /\ x \in Signo
    BY <1>4, <1>6, <1>8
  <2>2. CASE x = s
    BY <1>5, <1>6, <1>8, <2>2
  <2>3. CASE x # s
    BY <1>1, <1>5, <2>1, <2>3 DEF IgnoredNotPending
  <2> QED BY <2>2, <2>3
<1>10. IF frame'[t] = << >> THEN Own(t)' = base'[t] ELSE frame'[t][1] = base'[t]
  BY <1>1, <1>2, <1>8 DEF BaseIsKept, Own
<1>11. \A u \in STask \ {t} :
            /\ sigset'[u] = sigset[u] /\ sigmask'[u] = sigmask[u] /\ vec'[u] = vec[u]
            /\ frame'[u] = frame[u] /\ spc'[u] = spc[u] /\ oldmask'[u] = oldmask[u]
            /\ base'[u] = base[u]
  BY <1>1, <1>2, <1>5 DEF SigTypeOK
<1> QED BY <1>7, <1>8, <1>9, <1>10, <1>11, OneTask

LEMMA ExecStep ==
  ASSUME SignalParams, IInv, NEW t \in STask, Exec(t)
  PROVE  IInv'
<1>1. SigTypeOK
  BY DEF IInv
<1> DEFINE v == [s \in Signo |-> [func |-> IF vec[t][s].func = "IGN" THEN "IGN" ELSE "DFL",
                                  mask |-> {}, flags |-> {}]]
<1>2. /\ spc' = [spc EXCEPT ![t] = "ret"] /\ sigset' = [sigset EXCEPT ![t] = {}]
      /\ vec' = [vec EXCEPT ![t] = v]
      /\ frame' = [frame EXCEPT ![t] = << >>] /\ base' = [base EXCEPT ![t] = sigmask[t]]
      /\ UNCHANGED <<sigmask, oldmask>>
  BY DEF Exec, Call
<1>3. v \in [Signo -> Action]
  <2>1. \A s \in Signo : [func |-> IF vec[t][s].func = "IGN" THEN "IGN" ELSE "DFL",
                          mask |-> {}, flags |-> {}] \in Action
    BY DEF Action, Func
  <2> QED BY <2>1
<1> HIDE DEF v
<1>4. << >> \in Seq(SUBSET Signo)
  OBVIOUS
<1>5. SigTypeOK'
  BY <1>1, <1>2, <1>3, <1>4 DEF SigTypeOK
<1>6. /\ spc'[t] = "ret" /\ sigset'[t] = {} /\ frame'[t] = << >> /\ base'[t] = sigmask[t]
      /\ Own(t)' = sigmask[t]
  BY <1>1, <1>2 DEF SigTypeOK, Own
<1>7. \A u \in STask \ {t} :
            /\ sigset'[u] = sigset[u] /\ sigmask'[u] = sigmask[u] /\ vec'[u] = vec[u]
            /\ frame'[u] = frame[u] /\ spc'[u] = spc[u] /\ oldmask'[u] = oldmask[u]
            /\ base'[u] = base[u]
  BY <1>1, <1>2 DEF SigTypeOK
<1> QED BY <1>5, <1>6, <1>7, OneTask

\* pause, the end of pause and sigsuspend, and an interrupt of user code.
LEMMA PauseStep ==
  ASSUME SignalParams, IInv, NEW t \in STask, Pause(t) \/ Wakeup(t) \/ Interrupt(t)
  PROVE  IInv'
<1>1. SigTypeOK /\ IgnoredNotPending /\ BaseIsKept
  BY DEF IInv
<1>2. UNCHANGED <<sigset, vec, frame, base>>
  BY DEF Pause, Wakeup, Interrupt
<1>3. \A x \in sigset'[t] : ~Dropped(vec'[t][x].func, x)
  BY <1>1, <1>2 DEF IgnoredNotPending
<1>4. spc[t] \in {"user", "woken"} /\ IF frame[t] = << >> THEN Own(t) = base[t] ELSE frame[t][1] = base[t]
  BY <1>1 DEF BaseIsKept, Pause, Wakeup, Interrupt, Call
<1>5. /\ SigTypeOK'
      /\ Own(t)' = Own(t)
      /\ spc'[t] = "wait" => sigset'[t] \ sigmask'[t] = {}
      /\ \A u \in STask \ {t} :
            /\ sigset'[u] = sigset[u] /\ sigmask'[u] = sigmask[u] /\ vec'[u] = vec[u]
            /\ frame'[u] = frame[u] /\ spc'[u] = spc[u] /\ oldmask'[u] = oldmask[u]
            /\ base'[u] = base[u]
  <2>1. CASE Pause(t)
    <3>1. /\ spc[t] = "user" /\ oldmask' = [oldmask EXCEPT ![t] = {0}]
          /\ spc' = [spc EXCEPT ![t] = Wait(sigset[t], sigmask[t])] /\ sigmask' = sigmask
      BY <2>1 DEF Pause
    <3> QED BY <1>1, <1>2, <3>1 DEF SigTypeOK, Own, Wait
  <2>2. CASE Wakeup(t)
    <3>1. /\ spc[t] = "woken" /\ spc' = [spc EXCEPT ![t] = "ret"]
          /\ sigmask' = IF oldmask[t] = {0} THEN sigmask ELSE [sigmask EXCEPT ![t] = oldmask[t]]
          /\ oldmask' = [oldmask EXCEPT ![t] = {0}]
      BY <2>2 DEF Wakeup
    <3>2. sigmask' \in [STask -> SUBSET Signo]
      BY <1>1, <3>1 DEF SigTypeOK
    <3>3. SigTypeOK'
      BY <1>1, <1>2, <3>1, <3>2 DEF SigTypeOK
    <3> QED BY <1>1, <1>2, <3>1, <3>3 DEF SigTypeOK, Own
  <2>3. CASE Interrupt(t)
    <3>1. spc[t] = "user" /\ spc' = [spc EXCEPT ![t] = "ret"] /\ UNCHANGED <<sigmask, oldmask>>
      BY <2>3 DEF Interrupt, Call
    <3> QED BY <1>1, <1>2, <3>1 DEF SigTypeOK, Own
  <2> QED BY <2>1, <2>2, <2>3
<1>6. spc'[t] \notin {"stop", "zombie"} =>
        IF frame'[t] = << >> THEN Own(t)' = base'[t] ELSE frame'[t][1] = base'[t]
  BY <1>2, <1>4, <1>5
<1> QED BY <1>3, <1>5, <1>6, OneTask

LEMMA SigreturnStep ==
  ASSUME SignalParams, IInv, NEW t \in STask, Sigreturn(t)
  PROVE  IInv'
<1>1. SigTypeOK /\ IgnoredNotPending /\ BaseIsKept
  BY DEF IInv
<1>2. /\ spc[t] = "user" /\ spc' = [spc EXCEPT ![t] = "ret"] /\ frame[t] # << >>
      /\ sigmask' = [sigmask EXCEPT ![t] = Last(frame[t])]
      /\ frame' = [frame EXCEPT ![t] = Front(frame[t])]
      /\ UNCHANGED <<sigset, vec, oldmask, base>>
  BY DelManyTakesNothing DEF Sigreturn, Call
<1>3. frame[t] \in Seq(SUBSET Signo) /\ Len(frame[t]) \in Nat /\ Len(frame[t]) # 0
  BY <1>1, <1>2 DEF SigTypeOK
<1>4. frame[t][1] = base[t]
  BY <1>1, <1>2 DEF BaseIsKept
<1>5. /\ Front(frame[t]) \in Seq(SUBSET Signo) /\ Last(frame[t]) \in SUBSET Signo
      /\ Len(frame[t]) = 1 => Front(frame[t]) = << >> /\ Last(frame[t]) = frame[t][1]
      /\ Len(frame[t]) # 1 => Front(frame[t]) # << >> /\ Front(frame[t])[1] = frame[t][1]
  BY <1>3, FrontLast
<1>6. SigTypeOK'
  BY <1>1, <1>2, <1>5 DEF SigTypeOK
<1>7. /\ spc'[t] = "ret" /\ frame'[t] = Front(frame[t]) /\ base'[t] = base[t]
      /\ Own(t)' = Last(frame[t])
  BY <1>1, <1>2 DEF SigTypeOK, Own
<1>8. IF frame'[t] = << >> THEN Own(t)' = base'[t] ELSE frame'[t][1] = base'[t]
  BY <1>4, <1>5, <1>7
<1>9. \A u \in STask \ {t} :
            /\ sigset'[u] = sigset[u] /\ sigmask'[u] = sigmask[u] /\ vec'[u] = vec[u]
            /\ frame'[u] = frame[u] /\ spc'[u] = spc[u] /\ oldmask'[u] = oldmask[u]
            /\ base'[u] = base[u]
  BY <1>1, <1>2 DEF SigTypeOK
<1>10. \A x \in sigset'[t] : ~Dropped(vec'[t][x].func, x)
  BY <1>1, <1>2 DEF IgnoredNotPending
<1> QED BY <1>6, <1>7, <1>8, <1>9, <1>10, OneTask

LEMMA NothingStep ==
  ASSUME SignalParams, IInv, NEW t \in STask, Nothing(t)
  PROVE  IInv'
<1>1. SigTypeOK /\ IgnoredNotPending /\ BaseIsKept
  BY DEF IInv
<1>2. /\ spc[t] = "ret" /\ spc' = [spc EXCEPT ![t] = "user"]
      /\ sigset' = [sigset EXCEPT ![t] = sigset[t] \ unmasked(t)]
      /\ UNCHANGED <<sigmask, vec, frame, oldmask, base>>
  BY DEF Nothing
<1>3. SigTypeOK'
  BY <1>1, <1>2 DEF SigTypeOK
<1>4. spc'[t] = "user" /\ \A x \in sigset'[t] : x \in sigset[t]
  BY <1>1, <1>2 DEF SigTypeOK
<1>5. \A x \in sigset'[t] : ~Dropped(vec'[t][x].func, x)
  BY <1>1, <1>2, <1>4 DEF IgnoredNotPending
<1>6. \A u \in STask \ {t} :
            /\ sigset'[u] = sigset[u] /\ sigmask'[u] = sigmask[u] /\ vec'[u] = vec[u]
            /\ frame'[u] = frame[u] /\ spc'[u] = spc[u] /\ oldmask'[u] = oldmask[u]
            /\ base'[u] = base[u]
  BY <1>1, <1>2 DEF SigTypeOK
<1>7. IF frame'[t] = << >> THEN Own(t)' = base'[t] ELSE frame'[t][1] = base'[t]
  BY <1>1, <1>2, <1>4 DEF BaseIsKept, Own
<1> QED BY <1>3, <1>4, <1>5, <1>6, <1>7, OneTask

\* What checksignal takes: only task t's set shrinks, and s goes.
LEMMA TakenIs ==
  ASSUME SigTypeOK, NEW t \in STask, NEW s \in Signo, s \in Nat, s \notin sigmask[t]
  PROVE  /\ Taken(t, s) \in [STask -> SUBSET Signo]
         /\ \A u \in STask \ {t} : Taken(t, s)[u] = sigset[u]
         /\ Taken(t, s)[t] \subseteq sigset[t] /\ s \notin Taken(t, s)[t]
<1>1. sigset \in [STask -> SUBSET Signo] /\ sigset[t] \in SUBSET Signo
  BY DEF SigTypeOK
<1> DEFINE Q == {x \in sigset[t] : x \in sigmask[t] \/ x > s}
<1>2. Q \in SUBSET Signo /\ Q \subseteq sigset[t] /\ s \notin Q
  BY <1>1
<1>3. Taken(t, s) = [sigset EXCEPT ![t] = Q]
  BY DEF Taken
<1> HIDE DEF Q
<1> QED BY <1>1, <1>2, <1>3

\* The frame of a new handler.
LEMMA Appended ==
  ASSUME NEW S, NEW q \in Seq(S), NEW e \in S
  PROVE  /\ Append(q, e) \in Seq(S) /\ Append(q, e) # << >>
         /\ q = << >> => Append(q, e)[1] = e
         /\ q # << >> => Append(q, e)[1] = q[1]
<1>1. Append(q, e) \in Seq(S) /\ Len(Append(q, e)) = Len(q) + 1 /\ Len(q) \in Nat
  OBVIOUS
<1>2. q = << >> => Append(q, e)[1] = e
  OBVIOUS
<1>3. q # << >> => Append(q, e)[1] = q[1]
  OBVIOUS
<1>4. Append(q, e) # << >>
  BY <1>1
<1> QED BY <1>1, <1>2, <1>3, <1>4

LEMMA HandlerStep ==
  ASSUME SignalParams, IInv, NEW t \in STask, NEW s \in Signo, spc[t] = "ret",
         s \in sigset[t] \ sigmask[t], Handler(t, s)
  PROVE  IInv'
<1>1. SigTypeOK /\ IgnoredNotPending /\ BaseIsKept /\ s \in Nat
  BY DEF IInv, SignalParams
<1>2. /\ sigset' \in [STask -> SUBSET Signo]
      /\ \A u \in STask \ {t} : sigset'[u] = sigset[u]
      /\ sigset'[t] \subseteq sigset[t] /\ s \notin sigset'[t]
  BY <1>1, TakenIs DEF Handler
<1>3. UNCHANGED <<oldmask, base>>
  BY DEF Handler
<1>4. sigset[t] \in SUBSET Signo /\ sigmask[t] \in SUBSET Signo /\ vec[t] \in [Signo -> Action]
      /\ frame[t] \in Seq(SUBSET Signo)
  BY <1>1 DEF SigTypeOK
<1>5. CASE spc' = [spc EXCEPT ![t] = "zombie"] /\ UNCHANGED <<frame, sigmask, vec>>
  <2>1. SigTypeOK' /\ spc'[t] = "zombie"
    BY <1>1, <1>2, <1>3, <1>5 DEF SigTypeOK
  <2>2. \A x \in sigset'[t] : ~Dropped(vec'[t][x].func, x)
    BY <1>1, <1>2, <1>5 DEF IgnoredNotPending
  <2>3. \A u \in STask \ {t} :
            /\ sigset'[u] = sigset[u] /\ sigmask'[u] = sigmask[u] /\ vec'[u] = vec[u]
            /\ frame'[u] = frame[u] /\ spc'[u] = spc[u] /\ oldmask'[u] = oldmask[u]
            /\ base'[u] = base[u]
    BY <1>1, <1>2, <1>3, <1>5 DEF SigTypeOK
  <2> QED BY <2>1, <2>2, <2>3, OneTask
<1>6. CASE /\ frame' = [frame EXCEPT ![t] = Append(@, Saved(t, s))]
           /\ sigmask' = [sigmask EXCEPT ![t] = @ \cup vec[t][s].mask]
           /\ vec' = IF "ONESHOT" \in vec[t][s].flags THEN [vec EXCEPT ![t][s].func = "DFL"] ELSE vec
           /\ spc' = [spc EXCEPT ![t] = "user"]
  <2> DEFINE a == [vec[t][s] EXCEPT !.func = "DFL"]
  <2>1. vec[t][s] \in Action /\ vec[t][s].mask \in SUBSET Signo /\ a \in Action
    BY <1>4 DEF Action, Func
  <2>2. vec' = vec \/ vec' = [vec EXCEPT ![t] = [vec[t] EXCEPT ![s] = a]]
    BY <1>6
  <2> HIDE DEF a
  <2>3. /\ vec' \in [STask -> [Signo -> Action]]
        /\ \A x \in Signo \ {s} : vec'[t][x] = vec[t][x]
        /\ \A u \in STask \ {t} : vec'[u] = vec[u]
    <3>1. vec \in [STask -> [Signo -> Action]]
      BY <1>1 DEF SigTypeOK
    <3>2. CASE vec' = vec
      BY <3>1, <3>2
    <3>3. CASE vec' = [vec EXCEPT ![t] = [vec[t] EXCEPT ![s] = a]]
      <4>1. [vec[t] EXCEPT ![s] = a] \in [Signo -> Action]
        BY <1>4, <2>1
      <4>2. vec'[t] = [vec[t] EXCEPT ![s] = a]
        BY <3>1, <3>3
      <4> QED BY <1>4, <3>1, <3>3, <4>1, <4>2
    <3> QED BY <2>2, <3>2, <3>3
  <2> DEFINE q == Append(frame[t], sigmask[t])
  <2>4. /\ q \in Seq(SUBSET Signo) /\ q # << >>
        /\ frame[t] = << >> => q[1] = sigmask[t]
        /\ frame[t] # << >> => q[1] = frame[t][1]
    BY <1>4, Appended
  <2>5. frame' = [frame EXCEPT ![t] = q]
    BY <1>6 DEF Saved
  <2> HIDE DEF q
  <2>6. frame' \in [STask -> Seq(SUBSET Signo)] /\ frame'[t] = q
        /\ \A u \in STask \ {t} : frame'[u] = frame[u]
    BY <1>1, <2>4, <2>5 DEF SigTypeOK
  <2>7. /\ sigmask' \in [STask -> SUBSET Signo]
        /\ \A u \in STask \ {t} : sigmask'[u] = sigmask[u] /\ spc'[u] = spc[u]
        /\ spc'[t] = "user"
    BY <1>1, <1>6, <2>1 DEF SigTypeOK
  <2>8. SigTypeOK'
    BY <1>1, <1>2, <1>3, <1>6, <2>3, <2>6, <2>7 DEF SigTypeOK
  <2>9. \A x \in sigset'[t] : ~Dropped(vec'[t][x].func, x)
    <3> SUFFICES ASSUME NEW x \in sigset'[t] PROVE ~Dropped(vec'[t][x].func, x)
      OBVIOUS
    <3>1. x \in sigset[t] /\ x \in Signo \ {s}
      BY <1>2, <1>4
    <3> QED BY <1>1, <2>3, <3>1 DEF IgnoredNotPending
  <2>10. IF frame[t] = << >> THEN sigmask[t] = base[t] ELSE frame[t][1] = base[t]
    BY <1>1 DEF BaseIsKept, Own
  <2>11. IF frame'[t] = << >> THEN Own(t)' = base'[t] ELSE frame'[t][1] = base'[t]
    BY <1>3, <2>4, <2>6, <2>10
  <2>12. \A u \in STask \ {t} :
            /\ sigset'[u] = sigset[u] /\ sigmask'[u] = sigmask[u] /\ vec'[u] = vec[u]
            /\ frame'[u] = frame[u] /\ spc'[u] = spc[u] /\ oldmask'[u] = oldmask[u]
            /\ base'[u] = base[u]
    BY <1>2, <1>3, <2>3, <2>6, <2>7
  <2> QED BY <2>7, <2>8, <2>9, <2>11, <2>12, OneTask
<1> QED BY <1>5, <1>6 DEF Handler

\* A stop posts SIGCHLD to the parent, which may be asleep.
LEMMA StopStep ==
  ASSUME SignalParams, IInv, NEW t \in STask, NEW s \in Signo, spc[t] = "ret",
         s \in sigset[t] \ sigmask[t], Stop(t, s)
  PROVE  IInv'
<1> DEFINE p == Parent[t]
           f == vec[p][SIGCHLD].func
           told == p \in STask /\ "NOCLDSTOP" \notin vec[p][SIGCHLD].flags
           after == Taken(t, s)
<1>1. SigTypeOK /\ IgnoredNotPending /\ SleepsWithoutSignal /\ BaseIsKept /\ s \in Nat /\ SIGCHLD \in Signo
  BY DEF IInv, SignalParams
<1>2. /\ sigset' = IF told THEN [after EXCEPT ![p] = Posted(p, SIGCHLD, f)] ELSE after
      /\ spc' = [u \in STask |-> IF u = t THEN "stop"
                                 ELSE IF told /\ u = p /\ Wakes(p, SIGCHLD, f) THEN "woken" ELSE spc[u]]
      /\ UNCHANGED <<sigmask, vec, frame, oldmask, base>>
  BY DEF Stop
<1>3. /\ after \in [STask -> SUBSET Signo]
      /\ \A u \in STask \ {t} : after[u] = sigset[u]
      /\ after[t] \subseteq sigset[t] /\ s \notin after[t]
  BY <1>1, TakenIs
<1>4. p \in STask => /\ Posted(p, SIGCHLD, f) \in SUBSET Signo
                     /\ \A x \in Posted(p, SIGCHLD, f) :
                          x \in sigset[p] \/ (x = SIGCHLD /\ ~Dropped(f, SIGCHLD) /\ Reaches(p, SIGCHLD))
  <2> SUFFICES ASSUME p \in STask
               PROVE  /\ Posted(p, SIGCHLD, f) \in SUBSET Signo
                      /\ \A x \in Posted(p, SIGCHLD, f) :
                           x \in sigset[p] \/ (x = SIGCHLD /\ ~Dropped(f, SIGCHLD) /\ Reaches(p, SIGCHLD))
    OBVIOUS
  <2> HIDE DEF p, f
  <2> QED BY ONLY <1>1, p \in STask, PostedIs
<1>5. told => p \in STask
  OBVIOUS
<1>6. \A u \in STask : spc'[u] = IF u = t THEN "stop"
         ELSE IF told /\ u = p /\ Wakes(p, SIGCHLD, f) THEN "woken" ELSE spc[u]
  BY <1>2
<1>7. Wakes(p, SIGCHLD, f) => spc[p] = "wait"
  BY DEF Wakes
<1>8. ~Wakes(p, SIGCHLD, f) /\ ~Dropped(f, SIGCHLD) /\ Reaches(p, SIGCHLD) /\ spc[p] = "wait" => SIGCHLD \in sigmask[p]
  BY DEF Wakes
<1> HIDE DEF after, told
<1>9. sigset' \in [STask -> SUBSET Signo]
  BY <1>2, <1>3, <1>4, <1>5
<1>10. spc' \in [STask -> {"user", "ret", "wait", "woken", "stop", "zombie"}]
  BY <1>1, <1>2 DEF SigTypeOK
<1>11. SigTypeOK'
  BY <1>1, <1>2, <1>9, <1>10 DEF SigTypeOK
<1>12. \A u \in STask : \A x \in sigset'[u] :
         x \in sigset[u] \/ (told /\ u = p /\ x = SIGCHLD /\ ~Dropped(f, SIGCHLD) /\ Reaches(p, SIGCHLD))
  <2> SUFFICES ASSUME NEW u \in STask, NEW x \in sigset'[u]
               PROVE  x \in sigset[u] \/ (told /\ u = p /\ x = SIGCHLD /\ ~Dropped(f, SIGCHLD) /\ Reaches(p, SIGCHLD))
    OBVIOUS
  <2>1. CASE told /\ u = p
    BY <1>2, <1>3, <1>4, <1>5, <2>1
  <2>2. CASE ~(told /\ u = p)
    <3>1. sigset'[u] = after[u]
      BY <1>2, <1>3, <2>2
    <3> QED BY <1>3, <3>1
  <2> QED BY <2>1, <2>2
<1>13. IgnoredNotPending'
  BY <1>1, <1>2, <1>12 DEF IgnoredNotPending
<1>14. SleepsWithoutSignal'
  <2> SUFFICES ASSUME NEW u \in STask, spc'[u] = "wait" PROVE sigset'[u] \ sigmask'[u] = {}
    BY DEF SleepsWithoutSignal, unmasked
  <2>1. spc[u] = "wait" /\ (told /\ u = p => ~Wakes(p, SIGCHLD, f))
    BY <1>6
  <2>2. sigset[u] \ sigmask[u] = {}
    BY <1>1, <2>1 DEF SleepsWithoutSignal, unmasked
  <2>3. \A x \in sigset'[u] : x \in sigmask[u]
    BY <1>8, <1>12, <2>1, <2>2
  <2> QED BY <1>2, <2>3
<1>15. BaseIsKept'
  <2>1. \A u \in STask : spc'[u] \notin {"stop", "zombie"} =>
            /\ spc[u] \notin {"stop", "zombie"}
            /\ spc'[u] \in {"wait", "woken"} <=> spc[u] \in {"wait", "woken"}
    BY <1>6, <1>7
  <2> QED BY <1>1, <1>2, <2>1, BaseSame
<1> QED BY <1>11, <1>13, <1>14, <1>15 DEF IInv

LEMMA ChecksignalStep ==
  ASSUME SignalParams, IInv, NEW t \in STask, Checksignal(t)
  PROVE  IInv'
<1>1. SigTypeOK /\ IgnoredNotPending /\ BaseIsKept
  BY DEF IInv
<1>2. Answered(t) \in SUBSET Nat /\ Answered(t) # {}
  BY <1>1 DEF Checksignal, Answered, unmasked, SigTypeOK, SignalParams
<1>3. Min(Answered(t)) \in Answered(t)
  BY <1>2, MinIs
<1>4. PICK s \in Answered(t) : IF vec[t][s].func = "HND" THEN Handler(t, s)
                               ELSE IF Stops(s) THEN Stop(t, s) ELSE Terminate(t, s)
  BY <1>3 DEF Checksignal
<1>5. s \in Signo /\ s \in sigset[t] \ sigmask[t] /\ spc[t] = "ret" /\ s \in Nat
  BY <1>1, <1>2 DEF Answered, unmasked, SigTypeOK, Checksignal
<1>6. CASE Handler(t, s)
  BY <1>5, <1>6, HandlerStep
<1>7. CASE Stop(t, s)
  BY <1>5, <1>7, StopStep
<1>8. CASE Terminate(t, s)
  <2>1. /\ sigset' = Taken(t, s) /\ spc' = [spc EXCEPT ![t] = "zombie"]
        /\ UNCHANGED <<sigmask, vec, frame, oldmask, base>>
    BY <1>8 DEF Terminate
  <2>2. /\ sigset' \in [STask -> SUBSET Signo]
        /\ \A u \in STask \ {t} : sigset'[u] = sigset[u]
        /\ sigset'[t] \subseteq sigset[t]
    BY <1>1, <1>5, <2>1, TakenIs
  <2>3. SigTypeOK' /\ spc'[t] = "zombie"
    BY <1>1, <2>1, <2>2 DEF SigTypeOK
  <2>4. \A x \in sigset'[t] : ~Dropped(vec'[t][x].func, x)
    BY <1>1, <2>1, <2>2 DEF IgnoredNotPending
  <2>5. \A u \in STask \ {t} :
            /\ sigset'[u] = sigset[u] /\ sigmask'[u] = sigmask[u] /\ vec'[u] = vec[u]
            /\ frame'[u] = frame[u] /\ spc'[u] = spc[u] /\ oldmask'[u] = oldmask[u]
            /\ base'[u] = base[u]
    BY <1>1, <2>1, <2>2 DEF SigTypeOK
  <2> QED BY <2>3, <2>4, <2>5, OneTask
<1> QED BY <1>4, <1>6, <1>7, <1>8

LEMMA NextIInv == ASSUME SignalParams, IInv, [SigNext]_sigvars PROVE IInv'
<1>1. CASE SigNext
  <2>1. PICK t \in STask : SigStep(t)
    BY <1>1 DEF SigNext
  <2>2. CASE \E s \in Signo : Post(t, s)
    BY <2>2, PostStep
  <2>3. CASE \E s \in Trap : Forced(t, s)
    BY <2>3, ForceStep
  <2>4. CASE \E m \in Mask : Setmask(t, m) \/ Sigsuspend(t, m)
    BY <2>4, MaskCallStep
  <2>5. CASE \E s \in Signo, f \in {"DFL", "IGN", "HND"}, m \in Mask, fl \in Flag : Sigaction(t, s, f, m, fl)
    BY <2>5, SigactionStep DEF Func
  <2>6. CASE Exec(t)
    BY <2>6, ExecStep
  <2>7. CASE Pause(t) \/ Wakeup(t) \/ Interrupt(t)
    BY <2>7, PauseStep
  <2>8. CASE Sigreturn(t)
    BY <2>8, SigreturnStep
  <2>9. CASE Nothing(t)
    BY <2>9, NothingStep
  <2>10. CASE Checksignal(t)
    BY <2>10, ChecksignalStep
  <2> QED BY <2>1, <2>2, <2>3, <2>4, <2>5, <2>6, <2>7, <2>8, <2>9, <2>10 DEF SigStep
<1>2. CASE UNCHANGED sigvars
  BY <1>2 DEF sigvars, IInv, SigTypeOK, IgnoredNotPending, SleepsWithoutSignal, BaseIsKept, Own, unmasked
<1> QED BY <1>1, <1>2

----------------------------------------------------------------------------
LEMMA SigIInv == SigSpec => []IInv
<1>1. SigInit => IInv
  BY InitIInv, SignalAssumption
<1>2. IInv /\ [SigNext]_sigvars => IInv'
  BY NextIInv, SignalAssumption
<1> QED BY <1>1, <1>2, PTL DEF SigSpec

(***************************************************************************)
(* However many tasks post, stop, run handlers, change actions, exec and   *)
(* sleep, an ignored signal is never pending, and no task sleeps in pause  *)
(* or sigsuspend on a signal that its mask lets through.                   *)
(***************************************************************************)
THEOREM PendingIsDueCorrect == SigSpec => []PendingIsDue
<1>1. IInv => PendingIsDue
  BY DEF IInv, PendingIsDue
<1> QED BY <1>1, SigIInv, PTL

(***************************************************************************)
(* However deep handlers nest, and whatever mask one of them sets or       *)
(* suspends with, the last return to the program restores the mask that    *)
(* the program set itself.                                                 *)
(***************************************************************************)
THEOREM MaskComesBackCorrect == SigSpec => []MaskComesBack
<1>1. IInv => MaskComesBack
  BY DEF IInv, MaskComesBack, BaseIsKept, Own
<1> QED BY <1>1, SigIInv, PTL

----------------------------------------------------------------------------
(* Process groups and sessions. *)

GroupRec == [session : Session \cup {None}, pgid : PTask \cup {0, None}, hashed : BOOLEAN]
SessionRec ==
  [live : BOOLEAN, leader : PTask \cup {None}, fg : Group \cup {None}, tty : BOOLEAN]
Objects ==
  [pgrp : [PTask -> Group \cup {None}], grp : [Group -> GroupRec],
   ses : [Session -> SessionRec], console : Session \cup {None}]

\* What the objects owe each other: the console's session is there and knows of
\* the console, a foreground group is of its session, a group's session is there.
Linked(x) ==
  /\ x.console # None => x.ses[x.console].live /\ x.ses[x.console].tty
  /\ \A s \in Session : x.ses[s].fg # None => x.grp[x.ses[s].fg].session = s
  /\ \A g \in Group : x.grp[g].session # None => x.ses[x.grp[g].session].live

\* The task is in a group that is there.
Placed(x, t) == x.pgrp[t] # None /\ x.grp[x.pgrp[t]].session # None

PgInv ==
  /\ alive \in [PTask -> {"none", "live", "zombie", "gone"}]
  /\ Now \in Objects /\ Linked(Now)
  /\ ~freedused => \A t \in PTask : alive[t] \in {"live", "zombie"} => Placed(Now, t)

----------------------------------------------------------------------------
(* leave, part by part. *)

\* The member goes, and the leader with it.
LEMMA GoneIs ==
  ASSUME NEW x \in Objects, NEW t \in PTask, NEW s \in Session
  PROVE  /\ Gone(x, t, s).pgrp[t] = None
         /\ \A u \in PTask \ {t} : Gone(x, t, s).pgrp[u] = x.pgrp[u]
         /\ Gone(x, t, s).grp = x.grp
         /\ Gone(x, t, s).console = x.console
         /\ \A r \in Session \ {s} : Gone(x, t, s).ses[r] = x.ses[r]
         /\ Gone(x, t, s).ses[s].live = x.ses[s].live
         /\ Gone(x, t, s).ses[s].tty = x.ses[s].tty
         /\ Gone(x, t, s).ses[s].fg = x.ses[s].fg
         /\ Gone(x, t, s) \in Objects
<1>1. PICK a : a = Gone(x, t, s)
  OBVIOUS
<1>2. a.pgrp = [x.pgrp EXCEPT ![t] = None] /\ a.grp = x.grp /\ a.console = x.console
  BY <1>1 DEF Objects, Gone
<1>3. a.ses = [x.ses EXCEPT ![s].leader = IF @ = t THEN None ELSE @]
  BY <1>1 DEF Objects, Gone
<1>4. a = [pgrp |-> a.pgrp, grp |-> a.grp, ses |-> a.ses, console |-> a.console]
  BY <1>1 DEF Objects, Gone
<1>5. /\ a.pgrp \in [PTask -> Group \cup {None}] /\ a.grp \in [Group -> GroupRec]
      /\ a.console \in Session \cup {None}
  BY <1>2 DEF Objects
<1>6. a.ses \in [Session -> SessionRec]
  BY <1>3 DEF Objects, SessionRec
<1>7. a \in Objects
  BY <1>4, <1>5, <1>6 DEF Objects
<1>8. x.ses \in [Session -> SessionRec]
  BY DEF Objects
<1>9. /\ \A r \in Session \ {s} : a.ses[r] = x.ses[r]
      /\ a.ses[s].live = x.ses[s].live /\ a.ses[s].tty = x.ses[s].tty /\ a.ses[s].fg = x.ses[s].fg
  BY <1>3, <1>8 DEF SessionRec
<1>10. a.pgrp[t] = None /\ \A u \in PTask \ {t} : a.pgrp[u] = x.pgrp[u]
  BY <1>2 DEF Objects
<1> QED BY <1>1, <1>2, <1>7, <1>9, <1>10

\* An empty group goes.
LEMMA EmptiedIs ==
  ASSUME NEW x \in Objects, NEW g \in Group, NEW s \in Session
  PROVE  /\ Emptied(x, g, s).grp[g] = NoGroup
         /\ \A h \in Group \ {g} : Emptied(x, g, s).grp[h] = x.grp[h]
         /\ Emptied(x, g, s).pgrp = x.pgrp
         /\ Emptied(x, g, s).console = x.console
         /\ \A r \in Session \ {s} : Emptied(x, g, s).ses[r] = x.ses[r]
         /\ Emptied(x, g, s).ses[s].live = x.ses[s].live
         /\ Emptied(x, g, s).ses[s].tty = x.ses[s].tty
         /\ Emptied(x, g, s).ses[s].fg = IF x.ses[s].fg = g THEN None ELSE x.ses[s].fg
         /\ Emptied(x, g, s) \in Objects
<1>1. PICK a : a = Emptied(x, g, s)
  OBVIOUS
<1>2. a.grp = [x.grp EXCEPT ![g] = NoGroup] /\ a.pgrp = x.pgrp /\ a.console = x.console
  BY <1>1 DEF Objects, Emptied
<1>3. a.ses = [x.ses EXCEPT ![s].fg = IF @ = g THEN None ELSE @]
  BY <1>1 DEF Objects, Emptied
<1>4. a = [pgrp |-> a.pgrp, grp |-> a.grp, ses |-> a.ses, console |-> a.console]
  BY <1>1 DEF Objects, Emptied
<1>5. /\ a.pgrp \in [PTask -> Group \cup {None}] /\ a.grp \in [Group -> GroupRec]
      /\ a.console \in Session \cup {None}
  BY <1>2 DEF Objects, GroupRec, NoGroup
<1>6. a.ses \in [Session -> SessionRec]
  BY <1>3 DEF Objects, SessionRec
<1>7. a \in Objects
  BY <1>4, <1>5, <1>6 DEF Objects
<1>8. a.grp[g] = NoGroup /\ \A h \in Group \ {g} : a.grp[h] = x.grp[h]
  BY <1>2 DEF Objects
<1>9. x.ses \in [Session -> SessionRec]
  BY DEF Objects
<1>10. /\ \A r \in Session \ {s} : a.ses[r] = x.ses[r]
       /\ a.ses[s].live = x.ses[s].live /\ a.ses[s].tty = x.ses[s].tty
       /\ a.ses[s].fg = IF x.ses[s].fg = g THEN None ELSE x.ses[s].fg
  BY <1>3, <1>9 DEF SessionRec
<1> QED BY <1>1, <1>2, <1>7, <1>8, <1>10

\* An empty session goes, and the console is no one's.
LEMMA DeletedIs ==
  ASSUME NEW x \in Objects, NEW s \in Session
  PROVE  /\ Deleted(x, s).grp = x.grp /\ Deleted(x, s).pgrp = x.pgrp
         /\ Deleted(x, s).console = IF x.ses[s].tty THEN None ELSE x.console
         /\ Deleted(x, s).ses[s] = NoSession
         /\ \A r \in Session \ {s} : Deleted(x, s).ses[r] = x.ses[r]
         /\ Deleted(x, s) \in Objects
  BY DEF Objects, Deleted, SessionRec, NoSession

\* y is x when t has left g, a group of s: at most g and s change.
Left(x, y, t, g, s) ==
  /\ y \in Objects
  /\ y.pgrp[t] = None /\ \A u \in PTask \ {t} : y.pgrp[u] = x.pgrp[u]
  /\ \A h \in Group \ {g} : y.grp[h] = x.grp[h]
  /\ \A r \in Session \ {s} : y.ses[r] = x.ses[r]

\* Others stay in the group; or it was empty; or the session was, too.
Stays(x, y, g, s) ==
  /\ y.grp = x.grp /\ y.console = x.console
  /\ y.ses[s].live = x.ses[s].live /\ y.ses[s].tty = x.ses[s].tty
  /\ y.ses[s].fg = x.ses[s].fg
GroupGoes(x, y, g, s) ==
  /\ \A u \in PTask : y.pgrp[u] # g
  /\ y.grp[g] = NoGroup /\ y.console = x.console
  /\ y.ses[s].live = x.ses[s].live /\ y.ses[s].tty = x.ses[s].tty
  /\ y.ses[s].fg = IF x.ses[s].fg = g THEN None ELSE x.ses[s].fg
SessionGoes(x, y, g, s) ==
  /\ \A u \in PTask : y.pgrp[u] # g
  /\ \A h \in Group : y.grp[h].session # s
  /\ y.grp[g] = NoGroup /\ y.ses[s] = NoSession
  /\ y.console = IF x.ses[s].tty THEN None ELSE x.console

LEMMA LeaveIs ==
  ASSUME NEW x \in Objects, NEW t \in PTask, NEW y, y = Leave(x, t),
         NEW g \in Group, g = x.pgrp[t], NEW s \in Session, s = x.grp[g].session
  PROVE  Left(x, y, t, g, s) /\ (Stays(x, y, g, s) \/ GroupGoes(x, y, g, s) \/ SessionGoes(x, y, g, s))
<1>1. PICK a : a = Gone(x, t, s)
  OBVIOUS
<1>2. PICK b : b = Emptied(a, g, s)
  OBVIOUS
<1>3. PICK d : d = Deleted(b, s)
  OBVIOUS
<1>4. y = IF g = Idle \/ \E u \in PTask : a.pgrp[u] = g THEN a
          ELSE IF \E h \in Group : b.grp[h].session = s THEN b ELSE d
  BY <1>1, <1>2, <1>3 DEF Leave
<1>5. /\ a.pgrp[t] = None /\ \A u \in PTask \ {t} : a.pgrp[u] = x.pgrp[u]
      /\ a.grp = x.grp /\ a.console = x.console
      /\ \A r \in Session \ {s} : a.ses[r] = x.ses[r]
      /\ a.ses[s].live = x.ses[s].live /\ a.ses[s].tty = x.ses[s].tty /\ a.ses[s].fg = x.ses[s].fg
      /\ a \in Objects
  BY ONLY <1>1, GoneIs, x \in Objects, t \in PTask, s \in Session
<1>6. /\ b.grp[g] = NoGroup /\ \A h \in Group \ {g} : b.grp[h] = a.grp[h]
      /\ b.pgrp = a.pgrp /\ b.console = a.console
      /\ \A r \in Session \ {s} : b.ses[r] = a.ses[r]
      /\ b.ses[s].live = a.ses[s].live /\ b.ses[s].tty = a.ses[s].tty
      /\ b.ses[s].fg = IF a.ses[s].fg = g THEN None ELSE a.ses[s].fg
      /\ b \in Objects
  BY ONLY <1>2, <1>5, EmptiedIs, g \in Group, s \in Session
<1>7. /\ d.grp = b.grp /\ d.pgrp = b.pgrp
      /\ d.console = IF b.ses[s].tty THEN None ELSE b.console
      /\ d.ses[s] = NoSession
      /\ \A r \in Session \ {s} : d.ses[r] = b.ses[r]
      /\ d \in Objects
  BY ONLY <1>3, <1>6, DeletedIs, s \in Session
<1>8. Left(x, a, t, g, s) /\ Left(x, b, t, g, s) /\ Left(x, d, t, g, s)
  <2>1. Left(x, a, t, g, s)
    BY ONLY <1>5 DEF Left
  <2>2. Left(x, b, t, g, s)
    BY ONLY <1>5, <1>6 DEF Left
  <2>3. Left(x, d, t, g, s)
    BY ONLY <1>5, <1>6, <1>7 DEF Left
  <2> QED BY <2>1, <2>2, <2>3
<1>9. CASE g = Idle \/ \E u \in PTask : a.pgrp[u] = g
  BY <1>4, <1>5, <1>8, <1>9 DEF Stays
<1>10. CASE ~(g = Idle \/ \E u \in PTask : a.pgrp[u] = g) /\ \E h \in Group : b.grp[h].session = s
  <2>1. y = b
    BY <1>4, <1>10
  <2>2. GroupGoes(x, b, g, s)
    BY <1>5, <1>6, <1>10 DEF GroupGoes
  <2> QED BY <2>1, <2>2, <1>8
<1>11. CASE ~(g = Idle \/ \E u \in PTask : a.pgrp[u] = g) /\ ~\E h \in Group : b.grp[h].session = s
  <2>1. y = d
    BY <1>4, <1>11
  <2>2. SessionGoes(x, d, g, s)
    BY ONLY <1>5, <1>6, <1>7, <1>11, g \in Group, s \in Session DEF SessionGoes
  <2> QED BY <2>1, <2>2, <1>8
<1> QED BY <1>9, <1>10, <1>11

LEMMA LeaveKeeps ==
  ASSUME NEW x \in Objects, Linked(x), NEW t \in PTask, Placed(x, t), NEW y, y = Leave(x, t)
  PROVE  /\ y \in Objects /\ Linked(y)
         /\ \A u \in PTask \ {t} : y.pgrp[u] = x.pgrp[u] /\ (Placed(x, u) => Placed(y, u))
         /\ \A h \in Group \ {x.pgrp[t]} : y.grp[h] = x.grp[h]
<1>1. PICK g \in Group : g = x.pgrp[t]
  BY DEF Placed, Objects
<1>2. PICK s \in Session : s = x.grp[g].session
  BY <1>1 DEF Placed, Objects, GroupRec
<1>3. /\ Left(x, y, t, g, s)
      /\ Stays(x, y, g, s) \/ GroupGoes(x, y, g, s) \/ SessionGoes(x, y, g, s)
  BY <1>1, <1>2, LeaveIs
<1>4. /\ x.console \in Session \cup {None} /\ \A r \in Session : x.ses[r].fg \in Group \cup {None}
      /\ \A h \in Group : x.grp[h].session \in Session \cup {None}
      /\ \A u \in PTask : x.pgrp[u] \in Group \cup {None}
  BY DEF Objects, SessionRec, GroupRec
<1>5. /\ NoGroup.session = None
      /\ NoSession.live = FALSE /\ NoSession.fg = None /\ NoSession.tty = FALSE
  BY DEF NoGroup, NoSession
<1>6. /\ x.console # None => x.ses[x.console].live /\ x.ses[x.console].tty
      /\ \A r \in Session : x.ses[r].fg # None => x.grp[x.ses[r].fg].session = r
      /\ \A h \in Group : x.grp[h].session # None => x.ses[x.grp[h].session].live
  BY DEF Linked
<1>7. y \in Objects /\ \A h \in Group \ {x.pgrp[t]} : y.grp[h] = x.grp[h]
  BY <1>1, <1>3 DEF Left
<1>8. Linked(y)
  <2>1. y.console # None => y.ses[y.console].live /\ y.ses[y.console].tty
    BY <1>3, <1>4, <1>5, <1>6 DEF Left, Stays, GroupGoes, SessionGoes
  <2>2. ASSUME NEW r \in Session, y.ses[r].fg # None PROVE y.grp[y.ses[r].fg].session = r
    <3>1. CASE r # s
      <4>1. x.ses[r].fg # g
        BY <1>2, <1>6, <3>1, <2>2, <1>3 DEF Left
      <4> QED BY <4>1, <1>3, <1>4, <1>6, <3>1, <2>2 DEF Left
    <3>2. CASE r = s
      <4>1. CASE Stays(x, y, g, s)
        BY ONLY <4>1, <3>2, <2>2, <1>6, r \in Session DEF Stays
      <4>2. CASE GroupGoes(x, y, g, s)
        <5>1. x.ses[s].fg # g /\ y.ses[s].fg = x.ses[s].fg
          BY <4>2, <3>2, <2>2 DEF GroupGoes
        <5>2. y.grp[x.ses[s].fg] = x.grp[x.ses[s].fg]
          BY <5>1, <3>2, <2>2, <1>3, <1>4 DEF Left
        <5> QED BY <5>1, <5>2, <3>2, <2>2, <1>6
      <4>3. CASE SessionGoes(x, y, g, s)
        BY <4>3, <3>2, <2>2, <1>5 DEF SessionGoes
      <4> QED BY <4>1, <4>2, <4>3, <1>3
    <3> QED BY <3>1, <3>2
  <2>3. ASSUME NEW h \in Group, y.grp[h].session # None PROVE y.ses[y.grp[h].session].live
    <3>1. CASE Stays(x, y, g, s)
      BY <3>1, <2>3, <1>3, <1>4, <1>6 DEF Left, Stays
    <3>2. CASE GroupGoes(x, y, g, s) \/ SessionGoes(x, y, g, s)
      <4>1. h # g
        BY <3>2, <2>3, <1>5 DEF GroupGoes, SessionGoes
      <4>2. y.grp[h] = x.grp[h]
        BY <4>1, <1>3 DEF Left
      <4>3. PICK r \in Session : r = x.grp[h].session /\ x.ses[r].live
        BY <4>2, <2>3, <1>4, <1>6
      <4>4. CASE r # s
        BY <4>2, <4>3, <4>4, <1>3 DEF Left
      <4>5. CASE r = s
        BY <4>2, <4>3, <4>5, <3>2 DEF GroupGoes, SessionGoes
      <4> QED BY <4>4, <4>5
    <3> QED BY <3>1, <3>2, <1>3
  <2> QED BY <2>1, <2>2, <2>3 DEF Linked
<1>9. ASSUME NEW u \in PTask \ {t} PROVE y.pgrp[u] = x.pgrp[u] /\ (Placed(x, u) => Placed(y, u))
  BY <1>3, <1>4 DEF Left, Stays, GroupGoes, SessionGoes, Placed
<1> QED BY <1>7, <1>8, <1>9

\* A task enters a group that is there.
LEMMA EntersKeeps ==
  ASSUME NEW x \in Objects, Linked(x), NEW t \in PTask, NEW g \in Group, x.grp[g].session # None,
         NEW y, y = Enters(x, t, g)
  PROVE  y \in Objects /\ Linked(y) /\ Placed(y, t) /\ \A u \in PTask \ {t} : Placed(x, u) => Placed(y, u)
<1>1. /\ y.pgrp = [x.pgrp EXCEPT ![t] = g] /\ y.grp = x.grp /\ y.ses = x.ses
      /\ y.console = x.console /\ y \in Objects
  BY DEF Enters, Objects
<1>2. x.pgrp \in [PTask -> Group \cup {None}]
  BY DEF Objects
<1>3. /\ y.pgrp[t] = g /\ \A u \in PTask \ {t} : y.pgrp[u] = x.pgrp[u]
  BY ONLY <1>1, <1>2, t \in PTask, g \in Group
<1>4. g # None
  BY PgrpAssumption
<1>5. Linked(y)
  BY <1>1 DEF Linked
<1> QED BY <1>1, <1>3, <1>4, <1>5 DEF Placed

\* A group is made in a session that is there.
LEMMA NewGroupKeeps ==
  ASSUME NEW x \in Objects, Linked(x), NEW t \in PTask, NEW s \in Session, NEW g \in Group,
         NEW h \in BOOLEAN, x.ses[s].live, x.grp[g].session = None, NEW y, y = NewGroup(x, s, t, g, h)
  PROVE  y \in Objects /\ Linked(y) /\ Placed(y, t) /\ \A u \in PTask \ {t} : Placed(x, u) => Placed(y, u)
<1>1. /\ y.pgrp = [x.pgrp EXCEPT ![t] = g]
      /\ y.grp = [x.grp EXCEPT ![g] = [session |-> s, pgid |-> t, hashed |-> h]]
      /\ y.ses = x.ses /\ y.console = x.console
  BY DEF NewGroup, Objects
<1>2. y \in Objects
  BY DEF NewGroup, Objects, GroupRec
<1>3. /\ x.pgrp \in [PTask -> Group \cup {None}] /\ x.grp \in [Group -> GroupRec]
      /\ \A r \in Session : x.ses[r].fg \in Group \cup {None}
      /\ \A k \in Group : x.grp[k].session \in Session \cup {None}
  BY DEF Objects, GroupRec, SessionRec
<1>4. y.pgrp[t] = g /\ \A u \in PTask \ {t} : y.pgrp[u] = x.pgrp[u]
  BY ONLY <1>1, <1>3, t \in PTask, g \in Group
<1>5. y.grp[g].session = s /\ \A k \in Group \ {g} : y.grp[k] = x.grp[k]
  BY ONLY <1>1, <1>3, g \in Group
<1>6. g # None /\ s # None
  BY PgrpAssumption
<1>7. Linked(y)
  <2>1. /\ x.console # None => x.ses[x.console].live /\ x.ses[x.console].tty
        /\ \A r \in Session : x.ses[r].fg # None => x.grp[x.ses[r].fg].session = r
        /\ \A k \in Group : x.grp[k].session # None => x.ses[x.grp[k].session].live
    BY DEF Linked
  <2>2. ASSUME NEW r \in Session, y.ses[r].fg # None PROVE y.grp[y.ses[r].fg].session = r
    <3>1. x.ses[r].fg \in Group \ {g}
      BY <2>1, <2>2, <1>1, <1>3, PgrpAssumption
    <3> QED BY <3>1, <2>1, <2>2, <1>1, <1>5
  <2>3. ASSUME NEW k \in Group, y.grp[k].session # None PROVE y.ses[y.grp[k].session].live
    <3>1. CASE k = g
      BY <3>1, <1>1, <1>5
    <3>2. CASE k # g
      BY <3>2, <2>1, <2>3, <1>1, <1>5
    <3> QED BY <3>1, <3>2
  <2> QED BY <2>1, <2>2, <2>3, <1>1 DEF Linked
<1>8. ASSUME NEW u \in PTask \ {t}, Placed(x, u) PROVE Placed(y, u)
  BY <1>8, <1>3, <1>4, <1>5, <1>6 DEF Placed
<1> QED BY <1>2, <1>4, <1>5, <1>6, <1>7, <1>8 DEF Placed

\* A session is made with a group of its own.
LEMMA NewSessionKeeps ==
  ASSUME NEW x \in Objects, Linked(x), NEW t \in PTask, NEW s \in Session, NEW g \in Group,
         NEW h \in BOOLEAN, ~x.ses[s].live, x.grp[g].session = None, NEW y, y = NewSession(x, t, s, g, h)
  PROVE  y \in Objects /\ Linked(y) /\ Placed(y, t) /\ \A u \in PTask \ {t} : Placed(x, u) => Placed(y, u)
<1>1. PICK z : z = [x EXCEPT !.ses[s] = [live |-> TRUE, leader |-> t, fg |-> None, tty |-> FALSE]]
  OBVIOUS
<1>2. y = NewGroup(z, s, t, g, h)
  BY <1>1 DEF NewSession
<1>3. /\ z.pgrp = x.pgrp /\ z.grp = x.grp /\ z.console = x.console
      /\ z.ses = [x.ses EXCEPT ![s] = [live |-> TRUE, leader |-> t, fg |-> None, tty |-> FALSE]]
  BY ONLY <1>1, x \in Objects, s \in Session DEF Objects
<1>4. z \in Objects
  BY ONLY <1>1, x \in Objects, s \in Session, t \in PTask DEF Objects, SessionRec
<1>5. x.ses \in [Session -> SessionRec] /\ x.console \in Session \cup {None}
      /\ \A k \in Group : x.grp[k].session \in Session \cup {None}
  BY DEF Objects, GroupRec
<1>6. /\ z.ses[s].live /\ z.ses[s].fg = None
      /\ \A r \in Session \ {s} : z.ses[r] = x.ses[r]
  BY ONLY <1>3, <1>5, s \in Session
<1>7. Linked(z)
  BY <1>3, <1>5, <1>6 DEF Linked
<1>8. /\ y \in Objects /\ Linked(y) /\ Placed(y, t)
      /\ \A u \in PTask \ {t} : Placed(z, u) => Placed(y, u)
  BY <1>2, <1>3, <1>4, <1>6, <1>7, NewGroupKeeps
<1> QED BY <1>3, <1>8 DEF Placed

----------------------------------------------------------------------------
(* The actions. *)

LEMMA IsNow ==
  ASSUME NEW x \in Objects, Is(x)
  PROVE  Now' = x
  BY DEF Is, Now, Objects

LEMMA InitPgInv == PgInit => PgInv
<1> SUFFICES ASSUME PgInit PROVE PgInv
  OBVIOUS
<1>1. alive \in [PTask -> {"none", "live", "zombie", "gone"}]
  BY DEF PgInit
<1>2. pgrp \in [PTask -> Group \cup {None}] /\ console = None /\ Now.console = None
  BY PgrpAssumption DEF PgInit, Now
<1>3. grp \in [Group -> GroupRec]
  BY PgrpAssumption DEF PgInit, GroupRec, NoGroup
<1>4. ses \in [Session -> SessionRec]
  BY PgrpAssumption DEF PgInit, SessionRec, NoSession
<1>5. Now \in Objects
  BY <1>2, <1>3, <1>4 DEF Now, Objects
<1>6. Linked(Now)
  <2>1. \A s \in Session : ses[s].fg = None
    BY DEF PgInit, NoSession
  <2>2. \A g \in Group : grp[g].session # None => grp[g].session = Idle
    BY DEF PgInit, NoGroup
  <2>3. ses[Idle].live
    BY PgrpAssumption DEF PgInit, NoSession
  <2> QED BY <1>2, <2>1, <2>2, <2>3 DEF Linked, Now
<1>7. \A t \in PTask : alive[t] \in {"live", "zombie"} => Placed(Now, t)
  <2>1. \A t \in PTask : alive[t] \in {"live", "zombie"} => t = initpid
    BY DEF PgInit
  <2>2. pgrp[initpid] = Idle /\ grp[Idle].session = Idle /\ Idle # None
    BY PgrpAssumption DEF PgInit
  <2> QED BY <2>1, <2>2 DEF Placed, Now
<1> QED BY <1>1, <1>5, <1>6, <1>7 DEF PgInv

\* A step after which the objects are x, and everyone who lives is in a group.
LEMMA StepPgInv ==
  ASSUME PgInv, NEW x \in Objects, Linked(x), Is(x),
         alive' \in [PTask -> {"none", "live", "zombie", "gone"}],
         freedused' \/ \A u \in PTask : alive'[u] \in {"live", "zombie"} => Placed(x, u)
  PROVE  PgInv'
<1>1. Now' = x
  BY IsNow
<1>2. Linked(Now)' /\ (Now \in Objects)'
  BY <1>1 DEF Linked, Objects, GroupRec, SessionRec
<1>3. \A u \in PTask : Placed(x, u) => Placed(Now, u)'
  BY <1>1 DEF Placed
<1> QED BY <1>2, <1>3 DEF PgInv

LEMMA ForkStep ==
  ASSUME PgInv, NEW t \in PTask, NEW c \in PTask, PgFork(t, c)
  PROVE  PgInv'
<1>1. Placed(Now, t) /\ Now \in Objects /\ Linked(Now) /\ ~freedused
  BY DEF PgInv, PgFork, Live
<1>2. pgrp[t] \in Group /\ Now.grp[pgrp[t]].session # None
  BY <1>1 DEF Placed, Now, Objects
<1>3. PICK y : y = Enters(Now, c, pgrp[t])
  OBVIOUS
<1>4. /\ y \in Objects /\ Linked(y) /\ Placed(y, c)
      /\ \A u \in PTask \ {c} : Placed(Now, u) => Placed(y, u)
  BY ONLY <1>1, <1>2, <1>3, EntersKeeps, c \in PTask
<1>5. Is(y) /\ alive' = [alive EXCEPT ![c] = "live"]
  BY <1>3 DEF PgFork
<1>6. \A u \in PTask \ {c} : alive[u] \in {"live", "zombie"} => Placed(Now, u)
  BY <1>1 DEF PgInv
<1>7. /\ alive' \in [PTask -> {"none", "live", "zombie", "gone"}]
      /\ \A u \in PTask \ {c} : alive'[u] = alive[u]
  BY <1>5 DEF PgInv
<1> QED BY <1>4, <1>5, <1>6, <1>7, StepPgInv

LEMMA ExitStep ==
  ASSUME PgInv, NEW t \in PTask, PgExit(t)
  PROVE  PgInv'
<1>1. Now \in Objects /\ Linked(Now) /\ Is(Now)
  BY DEF PgInv, PgExit, Is, Now
<1>2. /\ alive' = [alive EXCEPT ![t] = "zombie"] /\ alive[t] = "live" /\ ~freedused
      /\ alive \in [PTask -> {"none", "live", "zombie", "gone"}]
      /\ \A u \in PTask : alive[u] \in {"live", "zombie"} => Placed(Now, u)
  BY DEF PgInv, PgExit, Live
<1>3. /\ alive' \in [PTask -> {"none", "live", "zombie", "gone"}]
      /\ \A u \in PTask : alive'[u] \in {"live", "zombie"} => Placed(Now, u)
  BY <1>2
<1> QED BY <1>1, <1>3, StepPgInv

LEMMA ReapStep ==
  ASSUME PgInv, NEW t \in PTask, Reap(t)
  PROVE  PgInv'
<1>1. /\ Now \in Objects /\ Linked(Now) /\ Placed(Now, t)
      /\ alive \in [PTask -> {"none", "live", "zombie", "gone"}]
      /\ \A u \in PTask : alive[u] \in {"live", "zombie"} => Placed(Now, u)
  BY DEF PgInv, Reap
<1>2. PICK y : y = Leave(Now, t)
  OBVIOUS
<1>3. /\ y \in Objects /\ Linked(y)
      /\ \A u \in PTask \ {t} : Placed(Now, u) => Placed(y, u)
  BY ONLY <1>1, <1>2, LeaveKeeps, t \in PTask
<1>4. Is(y) /\ alive' = [alive EXCEPT ![t] = "gone"]
  BY <1>2 DEF Reap
<1>5. /\ alive' \in [PTask -> {"none", "live", "zombie", "gone"}]
      /\ \A u \in PTask : alive'[u] \in {"live", "zombie"} => Placed(y, u)
  BY <1>1, <1>3, <1>4
<1> QED BY <1>3, <1>4, <1>5, StepPgInv

LEMMA SetsidStep ==
  ASSUME PgInv, NEW t \in PTask, Setsid(t)
  PROVE  PgInv'
<1>1. /\ Now \in Objects /\ Linked(Now) /\ Placed(Now, t)
      /\ alive \in [PTask -> {"none", "live", "zombie", "gone"}] /\ alive' = alive
      /\ \A u \in PTask : alive[u] \in {"live", "zombie"} => Placed(Now, u)
  BY DEF PgInv, Setsid, Live
<1>2. PICK x : x = Leave(Now, t)
  OBVIOUS
<1>3. PICK h \in Hashed, s \in FreeSession(x), g \in FreeGroup(x) : Is(NewSession(x, t, s, g, h))
  BY <1>2 DEF Setsid
<1>4. /\ x \in Objects /\ Linked(x)
      /\ \A u \in PTask \ {t} : Placed(Now, u) => Placed(x, u)
  BY ONLY <1>1, <1>2, LeaveKeeps, t \in PTask
<1>5. /\ h \in BOOLEAN /\ s \in Session /\ g \in Group
      /\ ~x.ses[s].live /\ x.grp[g].session = None
  BY PgrpAssumption DEF FreeSession, FreeGroup
<1>6. PICK y : y = NewSession(x, t, s, g, h)
  OBVIOUS
<1>7. /\ y \in Objects /\ Linked(y) /\ Placed(y, t)
      /\ \A u \in PTask \ {t} : Placed(x, u) => Placed(y, u)
  BY ONLY <1>4, <1>5, <1>6, NewSessionKeeps, t \in PTask
<1>8. \A u \in PTask : alive'[u] \in {"live", "zombie"} => Placed(y, u)
  BY <1>1, <1>4, <1>7
<1> QED BY <1>1, <1>3, <1>6, <1>7, <1>8, StepPgInv

LEMMA SetpgidNewStep ==
  ASSUME PgInv, NEW t \in PTask, NEW u \in PTask, SetpgidNew(t, u)
  PROVE  PgInv'
<1>1. /\ Now \in Objects /\ Linked(Now) /\ Placed(Now, u)
      /\ alive \in [PTask -> {"none", "live", "zombie", "gone"}] /\ alive' = alive
      /\ \A v \in PTask : alive[v] \in {"live", "zombie"} => Placed(Now, v)
  BY DEF PgInv, SetpgidNew, Live
<1>2. PICK x : x = Leave(Now, u)
  OBVIOUS
<1>3. PICK g \in FreeGroup(x), h \in Hashed :
        IF x.ses[Sess(u)].live
          THEN Is(NewGroup(x, Sess(u), u, g, h)) /\ UNCHANGED freedused
          ELSE Is(x) /\ freedused' = TRUE
  BY <1>2 DEF SetpgidNew
<1>4. /\ x \in Objects /\ Linked(x)
      /\ \A v \in PTask \ {u} : Placed(Now, v) => Placed(x, v)
  BY ONLY <1>1, <1>2, LeaveKeeps, u \in PTask
<1>5. CASE x.ses[Sess(u)].live
  <2>1. h \in BOOLEAN /\ g \in Group /\ x.grp[g].session = None
    BY PgrpAssumption DEF FreeGroup
  <2>2. Sess(u) \in Session
    BY <1>1 DEF Sess, Placed, Now, Objects, GroupRec
  <2>3. PICK y : y = NewGroup(x, Sess(u), u, g, h)
    OBVIOUS
  <2>4. /\ y \in Objects /\ Linked(y) /\ Placed(y, u)
        /\ \A v \in PTask \ {u} : Placed(x, v) => Placed(y, v)
    BY ONLY <1>4, <1>5, <2>1, <2>2, <2>3, NewGroupKeeps, u \in PTask
  <2>5. \A v \in PTask : alive'[v] \in {"live", "zombie"} => Placed(y, v)
    BY <1>1, <1>4, <2>4
  <2> QED BY <1>1, <1>3, <1>5, <2>3, <2>4, <2>5, StepPgInv
<1>6. CASE ~x.ses[Sess(u)].live
  BY <1>1, <1>3, <1>4, <1>6, StepPgInv
<1> QED BY <1>5, <1>6

LEMMA SetpgidJoinStep ==
  ASSUME PgInv, NEW t \in PTask, NEW u \in PTask, NEW p \in PTask, SetpgidJoin(t, u, p)
  PROVE  PgInv'
<1>1. /\ Now \in Objects /\ Linked(Now) /\ Placed(Now, u)
      /\ alive \in [PTask -> {"none", "live", "zombie", "gone"}] /\ alive' = alive
      /\ \A v \in PTask : alive[v] \in {"live", "zombie"} => Placed(Now, v)
  BY DEF PgInv, SetpgidJoin, Live
<1>2. PICK x : x = Leave(Now, u)
  OBVIOUS
<1>3. PICK g \in findpgrp(p) : g # pgrp[u] /\ Is(Enters(x, u, g))
  BY <1>2 DEF SetpgidJoin
<1>4. /\ x \in Objects /\ Linked(x)
      /\ \A v \in PTask \ {u} : Placed(Now, v) => Placed(x, v)
      /\ \A h \in Group \ {Now.pgrp[u]} : x.grp[h] = Now.grp[h]
  BY ONLY <1>1, <1>2, LeaveKeeps, u \in PTask
<1>5. g \in Group /\ g # Now.pgrp[u] /\ Now.grp[g].session # None
  BY <1>3 DEF findpgrp, Now
<1>6. x.grp[g].session # None
  BY <1>4, <1>5
<1>7. PICK y : y = Enters(x, u, g)
  OBVIOUS
<1>8. /\ y \in Objects /\ Linked(y) /\ Placed(y, u)
      /\ \A v \in PTask \ {u} : Placed(x, v) => Placed(y, v)
  BY ONLY <1>4, <1>5, <1>6, <1>7, EntersKeeps, u \in PTask
<1>9. \A v \in PTask : alive'[v] \in {"live", "zombie"} => Placed(y, v)
  BY <1>1, <1>4, <1>8
<1> QED BY <1>1, <1>3, <1>7, <1>8, <1>9, StepPgInv

\* The foreground group of a session becomes g, a group of it.
Foregrounds(s, g) ==
  /\ ses' \in [Session -> SessionRec]
  /\ \A r \in Session \ {s} : ses'[r] = ses[r]
  /\ ses'[s].fg = g /\ ses'[s].live = ses[s].live /\ (ses[s].tty => ses'[s].tty)
  /\ console' = console \/ (console' = s /\ ses'[s].tty)

LEMMA FgStep ==
  ASSUME PgInv, ~freedused, NEW s \in Session, NEW g \in Group, grp[g].session = s,
         NEW c \in Session, c = console', Foregrounds(s, g),
         UNCHANGED <<alive, pgrp, grp, freedused>>
  PROVE  PgInv'
<1>1. /\ pgrp \in [PTask -> Group \cup {None}] /\ grp \in [Group -> GroupRec]
      /\ ses \in [Session -> SessionRec]
  BY DEF PgInv, Now, Objects
<1>2. /\ ses' \in [Session -> SessionRec]
      /\ \A r \in Session \ {s} : ses'[r] = ses[r]
      /\ ses'[s].fg = g /\ ses'[s].live = ses[s].live /\ (ses[s].tty => ses'[s].tty)
      /\ c = console \/ (c = s /\ ses'[s].tty)
  BY DEF Foregrounds
<1>3. /\ console # None => ses[console].live /\ ses[console].tty
      /\ \A r \in Session : ses[r].fg # None => grp[ses[r].fg].session = r
      /\ \A h \in Group : grp[h].session # None => ses[grp[h].session].live
  BY DEF PgInv, Linked, Now
<1>4. PICK x : x = [pgrp |-> pgrp, grp |-> grp, ses |-> ses', console |-> c]
  OBVIOUS
<1>5. x \in Objects /\ Is(x)
  BY <1>1, <1>2, <1>4 DEF Objects, Is
<1>6. \A h \in Group : grp[h].session \in Session \cup {None}
  BY <1>1 DEF GroupRec
<1>7. ses[s].live /\ s # None
  BY <1>3, PgrpAssumption
<1>8. ses'[c].live /\ ses'[c].tty
  BY <1>2, <1>3, <1>7, PgrpAssumption
<1>9. \A r \in Session : ses'[r].fg # None => grp[ses'[r].fg].session = r
  BY <1>2, <1>3
<1>10. \A h \in Group : grp[h].session # None => ses'[grp[h].session].live
  BY <1>2, <1>3, <1>6
<1>11. Linked(x)
  BY <1>4, <1>8, <1>9, <1>10 DEF Linked
<1>12. \A u \in PTask : alive'[u] \in {"live", "zombie"} => Placed(x, u)
  BY <1>4 DEF PgInv, Placed, Now
<1> QED BY <1>5, <1>11, <1>12, StepPgInv DEF PgInv

LEMMA OpenConsoleStep ==
  ASSUME PgInv, NEW t \in PTask, OpenConsole(t)
  PROVE  PgInv'
<1>1. Now \in Objects /\ Placed(Now, t) /\ ~freedused
  BY DEF PgInv, OpenConsole, Live
<1>2. pgrp[t] \in Group /\ Sess(t) \in Session
  BY <1>1 DEF Placed, Now, Objects, GroupRec, Sess
<1>3. console' = Sess(t) /\ UNCHANGED <<alive, pgrp, grp, freedused>>
  BY DEF OpenConsole
<1>5. Foregrounds(Sess(t), pgrp[t])
  <2>1. ses \in [Session -> SessionRec]
    BY <1>1 DEF Now, Objects
  <2>2. ses' = [ses EXCEPT ![Sess(t)].tty = TRUE, ![Sess(t)].fg = pgrp[t]]
    BY DEF OpenConsole
  <2>3. PICK s \in Session, g \in Group : s = Sess(t) /\ g = pgrp[t]
    BY <1>2
  <2>4. ses' = [ses EXCEPT ![s] = [ses[s] EXCEPT !.tty = TRUE, !.fg = g]]
    BY <2>1, <2>2, <2>3, Zenon
  <2>5. [ses[s] EXCEPT !.tty = TRUE, !.fg = g] \in SessionRec
    BY <2>1 DEF SessionRec
  <2> QED BY <2>1, <2>3, <2>4, <2>5, <1>3 DEF Foregrounds, SessionRec
<1>4. grp[pgrp[t]].session = Sess(t)
  BY DEF Sess
<1> QED BY <1>1, <1>2, <1>3, <1>4, <1>5, FgStep

LEMMA SetfgStep ==
  ASSUME PgInv, ~Foreign, NEW p \in PTask, Setfg(p)
  PROVE  PgInv'
<1>1. console \in Session /\ ~freedused /\ ses \in [Session -> SessionRec]
  BY DEF PgInv, Setfg, Now, Objects
<1>2. PICK g \in Group : /\ grp[g].session = console /\ ses' = [ses EXCEPT ![console].fg = g]
                         /\ UNCHANGED <<alive, pgrp, grp, console, freedused>>
  BY DEF Setfg, findpgrp
<1>3. Foregrounds(console, g)
  <2>1. PICK s \in Session : s = console
    BY <1>1
  <2>2. ses' = [ses EXCEPT ![s].fg = g]
    BY <1>2, <2>1
  <2> QED BY <1>1, <1>2, <2>1, <2>2 DEF Foregrounds, SessionRec
<1> QED BY <1>1, <1>2, <1>3, FgStep

----------------------------------------------------------------------------
LEMMA NextPgInv == ASSUME ~Foreign, PgInv, [PgNext]_pgvars PROVE PgInv'
<1>1. ASSUME NEW t \in PTask, PgStep(t) PROVE PgInv'
  BY <1>1, ForkStep, SetpgidNewStep, ExitStep, ReapStep, SetsidStep, OpenConsoleStep, SetfgStep,
     SetpgidJoinStep DEF PgStep
<1>2. CASE UNCHANGED pgvars
  BY <1>2 DEF pgvars, PgInv, Now, Linked, Placed
<1> QED BY <1>1, <1>2 DEF PgNext

(***************************************************************************)
(* However tasks fork, exit, are reaped, make sessions and change groups,  *)
(* an interrupt key finds the terminal's session, and its foreground       *)
(* group, if it has one, is a group of that session: the console never     *)
(* points to a session or a group that has been freed.  TIOCSPGRP is       *)
(* assumed to be called for groups of the console's session, which the     *)
(* code does not ask for.                                                  *)
(***************************************************************************)
THEOREM FgIsLiveCorrect == ~Foreign => (PgSpec => []FgIsLive)
<1> SUFFICES ASSUME ~Foreign PROVE PgSpec => []FgIsLive
  OBVIOUS
<1>1. PgInit => PgInv
  BY InitPgInv
<1>2. PgInv /\ [PgNext]_pgvars => PgInv'
  BY NextPgInv
<1>3. PgInv => FgIsLive
  BY DEF PgInv, Linked, Now, FgIsLive, Objects
<1> QED BY <1>1, <1>2, <1>3, PTL DEF PgSpec
=============================================================================
