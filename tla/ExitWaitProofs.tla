--------------------------- MODULE ExitWaitProofs ---------------------------
(***************************************************************************)
(* TLAPS proofs about the life of processes, for any number of tasks: the  *)
(* family tree that fork, exit, reparenting and reaping change, and the    *)
(* flag between a parent in waitpid and its children.                      *)
(***************************************************************************)
EXTENDS ExitWait, FiniteSetTheorems, FunctionTheorems, WellFoundedInduction, TLAPS

\* init is nobody's child, and runs or waits; nobody is his own child.
InitLives ==
  /\ parent[init] = NULL /\ state[init] \in {"TRUN", "TWAIT"} /\ pc[init] \in {"user", "wait"}
  /\ \A c \in Task : parent[c] # c

IInv == TypeOK /\ InitLives /\ FamilyIsTree /\ WaitersAreTold

----------------------------------------------------------------------------
(* Lemmas about the queues. *)

LEMMA LeastOf ==
  ASSUME NEW S \in SUBSET Nat, S # {}
  PROVE  \E x \in S : \A y \in S : x <= y
<1> DEFINE R == {ss \in Nat \X Nat : ss[1] < ss[2]}
<1>1. IsWellFoundedOn(R, Nat)
  BY NatLessThanWellFounded DEF OpToRel
<1>2. \E x \in S : \A y \in S : ~ (<<y, x>> \in R)
  <2> HIDE DEF R
  <2> QED BY <1>1, WFMin
<1>3. PICK x \in S : \A y \in S : ~ (<<y, x>> \in R)
  BY <1>2
<1>4. ASSUME NEW y \in S PROVE x <= y
  <2>1. ~(<<y, x>>[1] < <<y, x>>[2])
    BY <1>3
  <2>2. x \in Nat /\ y \in Nat
    OBVIOUS
  <2> QED BY <2>1, <2>2
<1> QED BY <1>4

\* A new child at the tail.
LEMMA AppendIs ==
  ASSUME NEW S, NEW q \in Seq(S), NEW e \in S
  PROVE  /\ Append(q, e) \in Seq(S)
         /\ Rng(Append(q, e)) = Rng(q) \cup {e}
         /\ IsInjective(q) /\ e \notin Rng(q) => IsInjective(Append(q, e))
<1> DEFINE r == Append(q, e)
<1>1. /\ r \in Seq(S) /\ Len(r) = Len(q) + 1 /\ Len(q) \in Nat
      /\ DOMAIN q = 1 .. Len(q) /\ DOMAIN r = 1 .. Len(r)
      /\ \A i \in 1 .. Len(q) : r[i] = q[i]
      /\ r[Len(q) + 1] = e
  OBVIOUS
<1> HIDE DEF r
<1>2. Rng(r) = Rng(q) \cup {e}
  BY <1>1 DEF Rng
<1>3. IsInjective(q) /\ e \notin Rng(q) => IsInjective(r)
  BY <1>1 DEF Rng, IsInjective
<1> QED BY <1>1, <1>2, <1>3 DEF r

\* The children of a dead task behind those of init.
LEMMA ConcatIs ==
  ASSUME NEW S, NEW p \in Seq(S), NEW q \in Seq(S)
  PROVE  /\ p \o q \in Seq(S)
         /\ Rng(p \o q) = Rng(p) \cup Rng(q)
         /\ IsInjective(p) /\ IsInjective(q) /\ Rng(p) \cap Rng(q) = {} => IsInjective(p \o q)
<1> DEFINE r == p \o q
<1>1. /\ r \in Seq(S) /\ Len(r) = Len(p) + Len(q) /\ Len(q) \in Nat /\ Len(p) \in Nat
      /\ DOMAIN q = 1 .. Len(q) /\ DOMAIN r = 1 .. Len(r) /\ DOMAIN p = 1 .. Len(p)
      /\ \A i \in 1 .. Len(p) : r[i] = p[i]
      /\ \A i \in 1 .. Len(q) : r[Len(p) + i] = q[i]
  OBVIOUS
<1> HIDE DEF r
<1>2. \A i \in 1 .. Len(r) : i \in 1 .. Len(p) \/ (i - Len(p) \in 1 .. Len(q) /\ r[i] = q[i - Len(p)])
  <2> SUFFICES ASSUME NEW i \in 1 .. Len(r), i \notin 1 .. Len(p)
               PROVE  i - Len(p) \in 1 .. Len(q) /\ r[i] = q[i - Len(p)]
    OBVIOUS
  <2>1. i \in Nat /\ i > Len(p) /\ i <= Len(p) + Len(q)
    BY <1>1
  <2>2. i - Len(p) \in 1 .. Len(q) /\ Len(p) + (i - Len(p)) = i
    BY <1>1, <2>1
  <2> QED BY <1>1, <2>2
<1>3. Rng(r) = Rng(p) \cup Rng(q)
  <2>1. Rng(r) \subseteq Rng(p) \cup Rng(q)
    BY <1>1, <1>2 DEF Rng
  <2>2. Rng(p) \subseteq Rng(r)
    BY <1>1 DEF Rng
  <2>3. \A i \in 1 .. Len(q) : Len(p) + i \in 1 .. Len(r)
    BY <1>1
  <2>4. Rng(q) \subseteq Rng(r)
    BY <1>1, <2>3 DEF Rng
  <2> QED BY <2>1, <2>2, <2>4
<1>4. IsInjective(p) /\ IsInjective(q) /\ Rng(p) \cap Rng(q) = {} => IsInjective(r)
  <2> SUFFICES ASSUME IsInjective(p), IsInjective(q), Rng(p) \cap Rng(q) = {},
                      NEW i \in 1 .. Len(r), NEW j \in 1 .. Len(r), r[i] = r[j]
               PROVE  i = j
    BY <1>1 DEF IsInjective
  <2>1. i \in 1 .. Len(p) => r[i] \in Rng(p)
    BY <1>1 DEF Rng
  <2>2. j \in 1 .. Len(p) => r[j] \in Rng(p)
    BY <1>1 DEF Rng
  <2>3. i \notin 1 .. Len(p) => r[i] \in Rng(q)
    BY <1>2 DEF Rng
  <2>4. j \notin 1 .. Len(p) => r[j] \in Rng(q)
    BY <1>2 DEF Rng
  <2>5. CASE i \in 1 .. Len(p) /\ j \in 1 .. Len(p)
    BY <1>1, <2>5 DEF IsInjective
  <2>6. CASE i \notin 1 .. Len(p) /\ j \notin 1 .. Len(p)
    <3>1. /\ i - Len(p) \in 1 .. Len(q) /\ j - Len(p) \in 1 .. Len(q)
          /\ q[i - Len(p)] = q[j - Len(p)]
      BY <1>2, <2>6
    <3>2. i - Len(p) = j - Len(p)
      BY <1>1, <3>1 DEF IsInjective
    <3> QED BY <1>1, <3>2
  <2> QED BY <2>1, <2>2, <2>3, <2>4, <2>5, <2>6
<1> QED BY <1>1, <1>3, <1>4 DEF r

\* A queue that the elements of Z have left has the others, each as before.
LEMMA WithoutIs ==
  ASSUME NEW S, NEW q \in Seq(S), NEW Z
  PROVE  /\ Without(q, Z) \in Seq(S)
         /\ Rng(Without(q, Z)) = Rng(q) \ Z
         /\ IsInjective(q) => IsInjective(Without(q, Z))
<1> DEFINE Kept == {i \in 1 .. Len(q) : q[i] \notin Z}
           Below(i) == {j \in Kept : j <= i}
           Rank(i) == Cardinality(Below(i))
           n == Cardinality(Kept)
           rank == [i \in Kept |-> Rank(i)]
           At(k) == CHOOSE i \in Kept : Rank(i) = k
           r == [k \in 1 .. n |-> q[At(k)]]
<1>1. Len(q) \in Nat /\ \A i \in 1 .. Len(q) : q[i] \in S
  OBVIOUS
<1>2. IsFiniteSet(1 .. Len(q)) /\ Kept \in SUBSET (1 .. Len(q))
  BY <1>1, FS_Interval
<1>3. IsFiniteSet(Kept) /\ n \in Nat
  BY <1>2, FS_Subset, FS_CardinalityType
<1>4. \A i \in Kept : i \in Nat /\ IsFiniteSet(Below(i)) /\ Rank(i) \in Nat /\ Rank(i) <= n /\ Rank(i) # 0
  <2> SUFFICES ASSUME NEW i \in Kept
               PROVE  i \in Nat /\ IsFiniteSet(Below(i)) /\ Rank(i) \in Nat /\ Rank(i) <= n /\ Rank(i) # 0
    OBVIOUS
  <2>1. i \in Nat /\ i <= i
    BY <1>1, <1>2
  <2>2. Below(i) \in SUBSET Kept /\ i \in Below(i)
    BY <2>1
  <2> HIDE DEF Below, Kept
  <2>3. IsFiniteSet(Below(i)) /\ Rank(i) <= n
    BY <1>3, <2>2, FS_Subset
  <2>4. Rank(i) \in Nat
    BY <2>3, FS_CardinalityType
  <2>5. Rank(i) # 0
    BY <2>2, <2>3, FS_EmptySet
  <2> QED BY <2>1, <2>3, <2>4, <2>5
<1>5. \A i, j \in Kept : i < j => Rank(i) # Rank(j)
  <2> SUFFICES ASSUME NEW i \in Kept, NEW j \in Kept, i < j PROVE Rank(i) # Rank(j)
    OBVIOUS
  <2>1. i \in Nat /\ j \in Nat /\ \A k \in Kept : k \in Nat
    BY <1>4
  <2>2. Below(i) \in SUBSET Below(j) /\ j \in Below(j) /\ j \notin Below(i)
    BY <2>1
  <2>3. IsFiniteSet(Below(j))
    BY <1>4
  <2> HIDE DEF Below, Kept
  <2> QED BY <2>2, <2>3, FS_Subset
<1>6. \A i, j \in Kept : Rank(i) = Rank(j) => i = j
  <2> SUFFICES ASSUME NEW i \in Kept, NEW j \in Kept, Rank(i) = Rank(j) PROVE i = j
    OBVIOUS
  <2>1. i \in Nat /\ j \in Nat
    BY <1>4
  <2>2. ~(i < j) /\ ~(j < i)
    BY <1>5
  <2> HIDE DEF Rank, Kept
  <2> QED BY <2>1, <2>2
<1>7. rank \in Injection(Kept, 1 .. n)
  <2>1. \A i \in Kept : Rank(i) \in 1 .. n
    <3> SUFFICES ASSUME NEW i \in Kept PROVE Rank(i) \in 1 .. n
      OBVIOUS
    <3>1. n \in Nat /\ Rank(i) \in Nat /\ Rank(i) <= n /\ Rank(i) # 0
      BY <1>3, <1>4
    <3> HIDE DEF Rank, Kept, n
    <3> QED BY ONLY <3>1
  <2> HIDE DEF Rank, Kept, n
  <2> QED BY <1>6, <2>1 DEF Injection, IsInjective
<1>8. rank \in Surjection(Kept, 1 .. n)
  <2>1. IsFiniteSet(1 .. n) /\ Cardinality(1 .. n) = Cardinality(Kept)
    BY <1>3, FS_Interval
  <2> HIDE DEF rank, Kept
  <2> QED BY <1>7, <2>1, FS_Injection
<1>9. \A k \in 1 .. n : \E i \in Kept : Rank(i) = k
  <2> HIDE DEF Rank, Kept, n
  <2> QED BY <1>8 DEF Surjection
<1>10. \A k \in 1 .. n : At(k) \in Kept /\ Rank(At(k)) = k
  <2> HIDE DEF Rank, Kept, n
  <2> QED BY <1>9
<1>11. \A i \in Kept : Rank(i) \in 1 .. n /\ At(Rank(i)) = i
  <2>1. \A i \in Kept : Rank(i) \in 1 .. n
    <3> SUFFICES ASSUME NEW i \in Kept PROVE Rank(i) \in 1 .. n
      OBVIOUS
    <3>1. n \in Nat /\ Rank(i) \in Nat /\ Rank(i) <= n /\ Rank(i) # 0
      BY <1>3, <1>4
    <3> HIDE DEF Rank, Kept, n
    <3> QED BY ONLY <3>1
  <2> HIDE DEF Rank, Kept, n
  <2> QED BY <1>6, <2>1
<1>12. Without(q, Z) = r
  BY DEF Without
<1>13. \A i \in Kept : i \in 1 .. Len(q) /\ q[i] \in S \ Z
  BY <1>1
<1>14. \A i \in 1 .. Len(q) : q[i] \notin Z => i \in Kept
  OBVIOUS
<1> HIDE DEF Kept, Rank, At, n
<1>15. r \in Seq(S) /\ Len(r) = n /\ DOMAIN r = 1 .. n /\ \A k \in 1 .. n : r[k] = q[At(k)]
  BY <1>3, <1>10, <1>13
<1> HIDE DEF r
<1>16. Rng(r) \subseteq Rng(q) \ Z
  BY <1>10, <1>13, <1>15 DEF Rng
<1>17. Rng(q) \ Z \subseteq Rng(r)
  <2> SUFFICES ASSUME NEW x \in Rng(q), x \notin Z PROVE x \in Rng(r)
    OBVIOUS
  <2>1. PICK i \in 1 .. Len(q) : x = q[i]
    BY DEF Rng
  <2>2. Rank(i) \in 1 .. n /\ At(Rank(i)) = i
    BY <1>11, <1>14, <2>1
  <2>3. r[Rank(i)] = x
    BY <1>15, <2>1, <2>2
  <2> QED BY <1>15, <2>2, <2>3 DEF Rng
<1>18. IsInjective(q) => IsInjective(r)
  <2> SUFFICES ASSUME IsInjective(q), NEW k \in 1 .. n, NEW l \in 1 .. n, r[k] = r[l] PROVE k = l
    BY <1>15 DEF IsInjective
  <2>1. At(k) \in DOMAIN q /\ At(l) \in DOMAIN q /\ q[At(k)] = q[At(l)]
    BY <1>10, <1>13, <1>15
  <2>2. At(k) = At(l)
    BY <2>1 DEF IsInjective
  <2> QED BY <1>10, <2>2
<1> QED BY <1>12, <1>15, <1>16, <1>17, <1>18

\* What waitpid finds first is a child that it has something to tell about.
LEMMA FirstIs ==
  ASSUME TypeOK, NEW t \in Task, NEW w, HasNews(t, w)
  PROVE  First(t, w) \in Rng(childq[t]) /\ Tells(w, First(t, w)) /\ First(t, w) \in Task
<1> DEFINE q == childq[t]
           N == {i \in 1 .. Len(q) : Tells(w, q[i])}
<1>1. q \in Seq(Task) /\ Len(q) \in Nat
  BY DEF TypeOK
<1>2. N \in SUBSET Nat /\ N # {}
  BY <1>1 DEF HasNews, Rng
<1>3. PICK i \in N : \A j \in N : i <= j
  <2> HIDE DEF N
  <2> QED BY <1>2, LeastOf
<1>4. \A j \in 1 .. i - 1 : ~Tells(w, q[j])
  BY <1>1, <1>3
<1>5. \E k \in 1 .. Len(q) : Tells(w, q[k]) /\ \A j \in 1 .. k - 1 : ~Tells(w, q[j])
  BY <1>3, <1>4
<1>6. PICK k \in 1 .. Len(q) : Tells(w, q[k]) /\ First(t, w) = q[k]
  <2> HIDE DEF q
  <2>1. First(t, w) = q[CHOOSE k \in 1 .. Len(q) : Tells(w, q[k]) /\ \A j \in 1 .. k - 1 : ~Tells(w, q[j])]
    BY DEF First, q
  <2> QED BY <1>5, <2>1
<1> QED BY <1>1, <1>6 DEF Rng

\* Posting changes states only by waking sleepers of waitpid.
LEMMA StateAfterIs ==
  ASSUME TypeOK, NEW S, NEW s, NEW C, NEW u, NEW st \in {"TRUN", "TSTOP", "TZOMBIE", "TSLEEP", "TWAIT"}
  PROVE  /\ StateAfter(S, s, C, u, st) \in [Task -> {"none", "TRUN", "TSLEEP", "TWAIT", "TZOMBIE", "TSTOP"}]
         /\ \A x \in Task : StateAfter(S, s, C, u, st)[x] =
              IF x = u THEN st ELSE IF x \in Woken(S, s, C) THEN "TRUN" ELSE state[x]
         /\ \A x \in Task \ {u} : \/ StateAfter(S, s, C, u, st)[x] = state[x]
                                  \/ state[x] = "TWAIT" /\ StateAfter(S, s, C, u, st)[x] = "TRUN"
BY DEF StateAfter, Woken, TypeOK

LEMMA PostedIs ==
  ASSUME TypeOK, NEW S, NEW s \in Signame
  PROVE  Sent(S, s) \in [Task -> SUBSET Signame] /\ Sent(S, s)[init] \subseteq {"SIGCHLD"}
BY ExitWaitAssumption DEF Sent, TypeOK, Accepts

----------------------------------------------------------------------------
(* Types, and that init lives. *)

\* The steps of waitpid, which share their last assignments.
LEMMA ReturnIs ==
  ASSUME TypeOK, NEW t \in Task, Return(t)
  PROVE  /\ pc' \in [Task -> {"user", "wait", "close", "lose"}]
         /\ want' \in [Task -> [pid : Task \cup {any}, untraced : BOOLEAN]]
         /\ pc'[t] = "user" /\ \A x \in Task \ {t} : pc'[x] = pc[x] /\ want'[x] = want[x]
BY DEF Return, TypeOK, Default

LEMMA DeleteIs ==
  ASSUME TypeOK, NEW t \in Task, NEW Z, Delete(t, Z)
  PROVE  /\ state' \in [Task -> {"none", "TRUN", "TSLEEP", "TWAIT", "TZOMBIE", "TSTOP"}]
         /\ parent' \in [Task -> Task \cup {NULL}]
         /\ childq' \in [Task -> Seq(Task)]
         /\ func' \in [Task -> {"DFL", "IGN", "HND"}]
         /\ \A c \in Task \cap Z : state'[c] = "none" /\ parent'[c] = NULL
         /\ \A c \in Task \ Z : state'[c] = state[c] /\ parent'[c] = parent[c]
         /\ Rng(childq'[t]) = Rng(childq[t]) \ Z
         /\ IsInjective(childq[t]) => IsInjective(childq'[t])
         /\ \A u \in Task \ {t} : childq'[u] = childq[u]
<1>1. childq[t] \in Seq(Task) /\ childq \in [Task -> Seq(Task)]
  BY DEF TypeOK
<1>2. /\ Without(childq[t], Z) \in Seq(Task)
      /\ Rng(Without(childq[t], Z)) = Rng(childq[t]) \ Z
      /\ IsInjective(childq[t]) => IsInjective(Without(childq[t], Z))
  BY <1>1, WithoutIs
<1>3. /\ state' = [c \in Task |-> IF c \in Z THEN "none" ELSE state[c]]
      /\ parent' = [c \in Task |-> IF c \in Z THEN NULL ELSE parent[c]]
      /\ childq' = [childq EXCEPT ![t] = Without(childq[t], Z)]
      /\ func' = [c \in Task |-> IF c \in Z THEN "DFL" ELSE func[c]]
  BY DEF Delete
<1>4. /\ childq' \in [Task -> Seq(Task)] /\ childq'[t] = Without(childq[t], Z)
      /\ \A u \in Task \ {t} : childq'[u] = childq[u]
  BY <1>1, <1>2, <1>3
<1>5. /\ state' \in [Task -> {"none", "TRUN", "TSLEEP", "TWAIT", "TZOMBIE", "TSTOP"}]
      /\ parent' \in [Task -> Task \cup {NULL}]
      /\ func' \in [Task -> {"DFL", "IGN", "HND"}]
  BY <1>3 DEF TypeOK
<1>6. /\ \A c \in Task \cap Z : state'[c] = "none" /\ parent'[c] = NULL
      /\ \A c \in Task \ Z : state'[c] = state[c] /\ parent'[c] = parent[c]
  BY <1>3
<1> QED BY <1>2, <1>4, <1>5, <1>6

LEMMA WantIs == Want \subseteq [pid : Task \cup {any}, untraced : BOOLEAN]
BY ExitWaitAssumption DEF Want

LEMMA TypeNext ==
  ASSUME TypeOK, [Next]_vars PROVE TypeOK'
<1>1. CASE UNCHANGED vars
  BY <1>1 DEF TypeOK, vars
<1>2. CASE Next
  <2>1. PICK t \in Task :
    \/ \E u \in Task : Fork(t, u) \/ \E s \in KillSig : Kill(t, u, s)
    \/ \E f \in Func : SysSignal(t, f)
    \/ Flush(t)
    \/ \E w \in Want : Report(t, w) \/ WaitSleep(t, w)
    \/ WaitNothing(t) \/ WaitEintr(t)
    \/ Exit(t) \/ DisposeSigvec(t) \/ BecomeZombie(t)
    \/ SigKill(t) \/ SigChld(t) \/ \E n \in BOOLEAN : SigStop(t, n)
    BY <1>2 DEF Next
  <2>2. ASSUME NEW c \in Task, Fork(t, c) PROVE TypeOK'
    <3>1. Append(childq[t], c) \in Seq(Task) /\ << >> \in Seq(Task)
      BY DEF TypeOK
    <3>2. childq' \in [Task -> Seq(Task)]
      BY <2>2, <3>1 DEF Fork, TypeOK
    <3>3. pending' \in [Task -> SUBSET Signame] /\ pending'[init] \subseteq {"SIGCHLD"}
      BY <2>2, ExitWaitAssumption DEF Fork, TypeOK
    <3>4. func' \in [Task -> {"DFL", "IGN", "HND"}] /\ waiting' \in [Task -> BOOLEAN]
          /\ exitcode' \in [Task -> BOOLEAN]
      BY <2>2 DEF Fork, TypeOK
    <3> QED BY <2>2, <3>2, <3>3, <3>4 DEF Fork, TypeOK
  <2>3. ASSUME NEW u \in Task, NEW s \in KillSig, Kill(t, u, s) PROVE TypeOK'
    <3>1. s \in Signame
      BY ExitWaitAssumption DEF Signame
    <3>2. state[t] = "TRUN"
      BY <2>3 DEF Kill, AtUser, Running
    <3>3. state' \in [Task -> {"none", "TRUN", "TSLEEP", "TWAIT", "TZOMBIE", "TSTOP"}]
      BY <2>3, <3>2, StateAfterIs DEF Kill
    <3>4. pending' \in [Task -> SUBSET Signame] /\ pending'[init] \subseteq {"SIGCHLD"}
      BY <2>3, <3>1, PostedIs DEF Kill
    <3>5. panicked' \in BOOLEAN
      BY <2>3 DEF Kill, Trips
    <3> QED BY <2>3, <3>3, <3>4, <3>5 DEF Kill, TypeOK
  <2>4. ASSUME NEW f \in Func, SysSignal(t, f) PROVE TypeOK'
    <3>1. func' \in [Task -> {"DFL", "IGN", "HND"}]
      BY <2>4, ExitWaitAssumption DEF SysSignal, TypeOK
    <3>2. pending' \in [Task -> SUBSET Signame] /\ pending'[init] \subseteq {"SIGCHLD"}
      BY <2>4, ExitWaitAssumption DEF SysSignal, TypeOK
    <3> QED BY <2>4, <3>1, <3>2 DEF SysSignal, TypeOK
  <2>5. CASE Flush(t)
    <3>1. func' \in [Task -> {"DFL", "IGN", "HND"}]
      BY <2>5 DEF Flush, TypeOK
    <3>2. pending' \in [Task -> SUBSET Signame] /\ pending'[init] \subseteq {"SIGCHLD"}
      BY <2>5, ExitWaitAssumption DEF Flush, TypeOK
    <3> QED BY <2>5, <3>1, <3>2 DEF Flush, TypeOK
  <2>6. ASSUME NEW w \in Want, Report(t, w) PROVE TypeOK'
    <3>1. /\ pc' \in [Task -> {"user", "wait", "close", "lose"}]
          /\ want' \in [Task -> [pid : Task \cup {any}, untraced : BOOLEAN]]
      BY <2>6, ReturnIs DEF Report
    <3>2. UNCHANGED <<waiting, pending, panicked>>
      BY <2>6 DEF Report
    <3>3. CASE Delete(t, {First(t, w)}) /\ UNCHANGED exitcode
      <4>1. /\ state' \in [Task -> {"none", "TRUN", "TSLEEP", "TWAIT", "TZOMBIE", "TSTOP"}]
            /\ parent' \in [Task -> Task \cup {NULL}]
            /\ childq' \in [Task -> Seq(Task)]
            /\ func' \in [Task -> {"DFL", "IGN", "HND"}]
        BY <3>3, DeleteIs
      <4> QED BY <3>1, <3>2, <3>3, <4>1 DEF TypeOK
    <3>4. CASE /\ exitcode' = [exitcode EXCEPT ![First(t, w)] = FALSE]
               /\ UNCHANGED <<state, parent, childq, func>>
      <4>1. exitcode' \in [Task -> BOOLEAN]
        BY <3>4 DEF TypeOK
      <4> QED BY <3>1, <3>2, <3>4, <4>1 DEF TypeOK
    <3> QED BY <2>6, <3>3, <3>4 DEF Report
  <2>7. ASSUME NEW w \in Want, WaitSleep(t, w) PROVE TypeOK'
    <3>1. want' \in [Task -> [pid : Task \cup {any}, untraced : BOOLEAN]]
      BY <2>7, WantIs DEF WaitSleep, TypeOK
    <3>2. waiting' \in [Task -> BOOLEAN]
      BY <2>7 DEF WaitSleep, TypeOK
    <3> QED BY <2>7, <3>1, <3>2 DEF WaitSleep, TypeOK
  <2>8. CASE WaitNothing(t)
    BY <2>8, ReturnIs DEF WaitNothing, TypeOK
  <2>9. CASE WaitEintr(t)
    <3>1. waiting' \in [Task -> BOOLEAN]
      BY <2>9 DEF WaitEintr, TypeOK
    <3> QED BY <2>9, <3>1, ReturnIs DEF WaitEintr, TypeOK
  <2>10. CASE Exit(t) \/ SigKill(t)
    BY <2>10 DEF Exit, SigKill, TypeOK
  <2>11. CASE DisposeSigvec(t)
    BY <2>11 DEF DisposeSigvec, TypeOK
  <2>12. CASE BecomeZombie(t)
    <3>1. state' \in [Task -> {"none", "TRUN", "TSLEEP", "TWAIT", "TZOMBIE", "TSTOP"}]
      BY <2>12, StateAfterIs DEF BecomeZombie
    <3>2. pending' \in [Task -> SUBSET Signame] /\ pending'[init] \subseteq {"SIGCHLD"}
      BY <2>12, PostedIs DEF BecomeZombie, Signame
    <3>3. parent' \in [Task -> Task \cup {NULL}]
      BY <2>12, ExitWaitAssumption DEF BecomeZombie, TypeOK
    <3>4. childq' \in [Task -> Seq(Task)]
      <4>1. childq[init] \o childq[t] \in Seq(Task) /\ << >> \in Seq(Task)
        BY ExitWaitAssumption DEF TypeOK
      <4> QED BY <2>12, <4>1 DEF BecomeZombie, TypeOK
    <3>5. panicked' \in BOOLEAN
      BY <2>12 DEF BecomeZombie, Trips
    <3>6. waiting' \in [Task -> BOOLEAN]
      BY <2>12 DEF BecomeZombie
    <3> QED BY <2>12, <3>1, <3>2, <3>3, <3>4, <3>5, <3>6 DEF BecomeZombie, TypeOK
  <2>13. CASE SigChld(t)
    <3>1. pending' \in [Task -> SUBSET Signame] /\ pending'[init] \subseteq {"SIGCHLD"}
      BY <2>13, ExitWaitAssumption DEF SigChld, TypeOK
    <3>2. UNCHANGED <<pc, want, waiting, exitcode, panicked>>
      BY <2>13 DEF SigChld
    <3>3. CASE Delete(t, Zombies(t))
      <4>1. /\ state' \in [Task -> {"none", "TRUN", "TSLEEP", "TWAIT", "TZOMBIE", "TSTOP"}]
            /\ parent' \in [Task -> Task \cup {NULL}]
            /\ childq' \in [Task -> Seq(Task)]
            /\ func' \in [Task -> {"DFL", "IGN", "HND"}]
        BY <3>3, DeleteIs
      <4> QED BY <3>1, <3>2, <4>1 DEF TypeOK
    <3>4. CASE UNCHANGED <<state, parent, childq, func>>
      BY <3>1, <3>2, <3>4 DEF TypeOK
    <3> QED BY <2>13, <3>3, <3>4 DEF SigChld
  <2>14. ASSUME NEW n \in BOOLEAN, SigStop(t, n) PROVE TypeOK'
    <3>1. PICK N : /\ panicked' = Trips(parent[t])
                   /\ pending' = [Sent(N, "SIGCHLD") EXCEPT ![t] = @ \ {"SIGSTOP"}]
                   /\ state' = StateAfter(N, "SIGCHLD", {}, t, "TSTOP")
      BY <2>14 DEF SigStop
    <3>2. state' \in [Task -> {"none", "TRUN", "TSLEEP", "TWAIT", "TZOMBIE", "TSTOP"}]
      BY <3>1, StateAfterIs
    <3>3. Sent(N, "SIGCHLD") \in [Task -> SUBSET Signame] /\ Sent(N, "SIGCHLD")[init] \subseteq {"SIGCHLD"}
      BY PostedIs DEF Signame
    <3>4. pending' \in [Task -> SUBSET Signame] /\ pending'[init] \subseteq {"SIGCHLD"}
      BY <3>1, <3>3, ExitWaitAssumption
    <3>5. panicked' \in BOOLEAN
      BY <3>1 DEF Trips
    <3>6. exitcode' \in [Task -> BOOLEAN]
      BY <2>14 DEF SigStop, TypeOK
    <3> QED BY <2>14, <3>2, <3>4, <3>5, <3>6 DEF SigStop, TypeOK
  <2> QED BY <2>1, <2>2, <2>3, <2>4, <2>5, <2>6, <2>7, <2>8, <2>9, <2>10, <2>11, <2>12, <2>13, <2>14
<1> QED BY <1>1, <1>2

----------------------------------------------------------------------------
(* The family and its sleepers. *)

\* A step in which nobody is born, reaped or moved, dies or continues, and each
\* waiter waits as before or has just looked.
LEMMA QuietStep ==
  ASSUME IInv, UNCHANGED <<parent, childq>>,
         \A x \in Task : /\ state'[x] = "none" <=> state[x] = "none"
                         /\ state'[x] = "TZOMBIE" <=> state[x] = "TZOMBIE"
                         /\ state[x] = "TSTOP" => state'[x] = "TSTOP",
         \A x \in Task : pc'[x] = "wait" =>
            \/ /\ pc[x] = "wait" /\ waiting'[x] = waiting[x] /\ want'[x] = want[x]
               /\ state'[x] = "TWAIT" => state[x] = "TWAIT"
            \/ /\ waiting'[x]
               /\ \A c \in Rng(childq[x]) : ~(state[c] = "TZOMBIE" /\ Matches(want'[x], c)),
         InitLives'
  PROVE  InitLives' /\ FamilyIsTree' /\ WaitersAreTold'
<1>1. TypeOK /\ InitLives /\ FamilyIsTree /\ NoZombieMissed /\ FlagTellsWhy
  BY DEF IInv, WaitersAreTold
<1>2. \A x \in Task : \A c \in Rng(childq[x]) : c \in Task
  BY <1>1 DEF TypeOK, Rng
<1>3. FamilyIsTree'
  BY <1>1 DEF FamilyIsTree, Exists, Alive, TypeOK
<1>4. NoZombieMissed'
  BY <1>1, <1>2 DEF NoZombieMissed, Matches
<1>5. FlagTellsWhy'
  BY <1>1, <1>2 DEF FlagTellsWhy
<1> QED BY <1>3, <1>4, <1>5 DEF WaitersAreTold

LEMMA ForkStep ==
  ASSUME IInv, NEW t \in Task, NEW c \in Task, Fork(t, c)
  PROVE  InitLives' /\ FamilyIsTree' /\ WaitersAreTold'
<1>1. TypeOK /\ InitLives /\ FamilyIsTree /\ NoZombieMissed /\ FlagTellsWhy
  BY DEF IInv, WaitersAreTold
<1>2. /\ state[t] = "TRUN" /\ pc[t] = "user" /\ state[c] = "none" /\ c # t /\ c # init
  BY <1>1 DEF Fork, AtUser, Running, InitLives
<1>3. childq[c] = << >>
  BY <1>1, <1>2 DEF FamilyIsTree, Alive
<1>4. \A u \in Task : c \notin Rng(childq[u])
  BY <1>1, <1>2 DEF FamilyIsTree, Exists
<1>5. /\ Append(childq[t], c) \in Seq(Task)
      /\ Rng(Append(childq[t], c)) = Rng(childq[t]) \cup {c}
      /\ IsInjective(Append(childq[t], c))
  <2>1. childq[t] \in Seq(Task) /\ IsInjective(childq[t])
    BY <1>1 DEF TypeOK, FamilyIsTree
  <2> QED BY <1>4, <2>1, AppendIs
<1>6. /\ childq'[t] = Append(childq[t], c) /\ \A u \in Task \ {t} : childq'[u] = childq[u]
      /\ state'[c] = "TRUN" /\ \A u \in Task \ {c} : state'[u] = state[u]
      /\ parent'[c] = t /\ \A u \in Task \ {c} : parent'[u] = parent[u]
      /\ pc'[c] = "user" /\ \A u \in Task \ {c} : pc'[u] = pc[u]
      /\ \A u \in Task \ {c} : waiting'[u] = waiting[u]
      /\ want' = want
  BY <1>1, <1>2, <1>3 DEF Fork, TypeOK
<1>7. \A x \in Task : Rng(childq'[x]) = IF x = t THEN Rng(childq[t]) \cup {c} ELSE Rng(childq[x])
  BY <1>5, <1>6
<1>8. \A x \in Task : \A d \in Rng(childq[x]) : d \in Task \ {c}
  BY <1>1, <1>4 DEF TypeOK, Rng
<1>9. InitLives'
  BY <1>1, <1>2, <1>6, ExitWaitAssumption DEF InitLives
<1>10. FamilyIsTree'
  <2>1. \A x, d \in Task : d \in Rng(childq[x]) <=> state[d] # "none" /\ parent[d] = x
    BY <1>1 DEF FamilyIsTree, Exists
  <2>2. \A x, d \in Task : d \in Rng(childq'[x]) <=> state'[d] # "none" /\ parent'[d] = x
    <3> SUFFICES ASSUME NEW x \in Task, NEW d \in Task
                 PROVE  d \in Rng(childq'[x]) <=> state'[d] # "none" /\ parent'[d] = x
      OBVIOUS
    <3>1. CASE d = c
      BY <1>2, <1>4, <1>6, <1>7, <3>1
    <3>2. CASE d # c
      BY <1>6, <1>7, <2>1, <3>2
    <3> QED BY <3>1, <3>2
  <2>3. \A x \in Task : IsInjective(childq'[x])
    BY <1>1, <1>5, <1>6 DEF FamilyIsTree
  <2>4. \A d \in Task \ {init} : state'[d] # "none" =>
          parent'[d] # NULL /\ state'[parent'[d]] \notin {"none", "TZOMBIE"}
    <3> SUFFICES ASSUME NEW d \in Task \ {init}, state'[d] # "none"
                 PROVE  parent'[d] # NULL /\ state'[parent'[d]] \notin {"none", "TZOMBIE"}
      OBVIOUS
    <3>1. CASE d = c
      BY <1>2, <1>6, <3>1, ExitWaitAssumption
    <3>2. CASE d # c
      <4>1. parent[d] # NULL /\ state[parent[d]] \notin {"none", "TZOMBIE"} /\ parent[d] \in Task
        BY <1>1, <1>6, <3>2 DEF FamilyIsTree, Exists, Alive, TypeOK
      <4>2. parent'[d] = parent[d] /\ parent[d] # c
        BY <1>2, <1>6, <3>2, <4>1
      <4> QED BY <1>6, <4>1, <4>2
    <3> QED BY <3>1, <3>2
  <2>5. \A x \in Task : state'[x] \in {"none", "TZOMBIE"} => childq'[x] = << >>
    BY <1>1, <1>2, <1>6 DEF FamilyIsTree, Alive
  <2> QED BY <2>2, <2>3, <2>4, <2>5 DEF FamilyIsTree, Exists, Alive
<1>11. NoZombieMissed'
  BY <1>1, <1>2, <1>6, <1>7, <1>8 DEF NoZombieMissed, Matches
<1>12. FlagTellsWhy'
  BY <1>1, <1>2, <1>6, <1>7, <1>8 DEF FlagTellsWhy
<1> QED BY <1>9, <1>10, <1>11, <1>12 DEF WaitersAreTold

\* Zombies are reaped by their parent, which is at user level then.
LEMMA DeleteStep ==
  ASSUME IInv, NEW t \in Task, NEW Z \in SUBSET Rng(childq[t]), \A c \in Z : state[c] = "TZOMBIE",
         state[t] = "TRUN", pc'[t] = "user", \A x \in Task \ {t} : pc'[x] = pc[x] /\ want'[x] = want[x],
         waiting' = waiting, Delete(t, Z)
  PROVE  InitLives' /\ FamilyIsTree' /\ WaitersAreTold'
<1>1. TypeOK /\ InitLives /\ FamilyIsTree /\ NoZombieMissed /\ FlagTellsWhy
  BY DEF IInv, WaitersAreTold
<1>2. /\ \A c \in Task \cap Z : state'[c] = "none" /\ parent'[c] = NULL
      /\ \A c \in Task \ Z : state'[c] = state[c] /\ parent'[c] = parent[c]
      /\ Rng(childq'[t]) = Rng(childq[t]) \ Z
      /\ IsInjective(childq[t]) => IsInjective(childq'[t])
      /\ \A u \in Task \ {t} : childq'[u] = childq[u]
  BY <1>1, DeleteIs
<1>3. \A x \in Task : \A d \in Rng(childq[x]) : d \in Task
  BY <1>1 DEF TypeOK, Rng
<1>4. \A x, d \in Task : d \in Rng(childq[x]) <=> state[d] # "none" /\ parent[d] = x
  BY <1>1 DEF FamilyIsTree, Exists
<1>5. init \notin Z /\ t \notin Z /\ \A c \in Z : c \in Task /\ childq[c] = << >> /\ parent[c] = t
  BY <1>1, <1>3, <1>4 DEF InitLives, FamilyIsTree, Alive
<1>6. \A x \in Task \ {t} : \A d \in Rng(childq[x]) : d \in Task \ Z
  BY <1>3, <1>4, <1>5
<1>7. InitLives'
  <2>1. parent'[init] = NULL /\ state'[init] \in {"TRUN", "TWAIT"}
    BY <1>1, <1>2, <1>5, ExitWaitAssumption DEF InitLives
  <2>2. pc'[init] \in {"user", "wait"}
    BY <1>1, ExitWaitAssumption DEF InitLives
  <2>3. \A c \in Task : parent'[c] # c
    BY <1>1, <1>2, ExitWaitAssumption DEF InitLives
  <2> QED BY <2>1, <2>2, <2>3 DEF InitLives
<1>8. FamilyIsTree'
  <2>1. \A x, d \in Task : d \in Rng(childq'[x]) <=> state'[d] # "none" /\ parent'[d] = x
    <3> SUFFICES ASSUME NEW x \in Task, NEW d \in Task
                 PROVE  d \in Rng(childq'[x]) <=> state'[d] # "none" /\ parent'[d] = x
      OBVIOUS
    <3>1. CASE d \in Z
      <4>1. state'[d] = "none"
        BY <1>2, <3>1
      <4>2. d \notin Rng(childq'[x])
        BY <1>2, <1>6, <3>1
      <4> QED BY <4>1, <4>2
    <3>2. CASE d \notin Z
      <4>1. state'[d] = state[d] /\ parent'[d] = parent[d]
        BY <1>2, <3>2
      <4>2. d \in Rng(childq'[x]) <=> d \in Rng(childq[x])
        BY <1>2, <3>2
      <4> QED BY <1>4, <4>1, <4>2
    <3> QED BY <3>1, <3>2
  <2>2. \A x \in Task : IsInjective(childq'[x])
    BY <1>1, <1>2 DEF FamilyIsTree
  <2>3. \A d \in Task \ {init} : state'[d] # "none" =>
          parent'[d] # NULL /\ state'[parent'[d]] \notin {"none", "TZOMBIE"}
    <3> SUFFICES ASSUME NEW d \in Task \ {init}, state'[d] # "none"
                 PROVE  parent'[d] # NULL /\ state'[parent'[d]] \notin {"none", "TZOMBIE"}
      OBVIOUS
    <3>1. d \notin Z
      BY <1>2
    <3>2. state'[d] = state[d] /\ parent'[d] = parent[d]
      BY <1>2, <3>1
    <3>3. parent[d] # NULL /\ state[parent[d]] \notin {"none", "TZOMBIE"} /\ parent[d] \in Task
      BY <1>1, <3>2 DEF FamilyIsTree, Exists, Alive, TypeOK
    <3> QED BY <1>2, <3>2, <3>3
  <2>4. \A x \in Task : state'[x] \in {"none", "TZOMBIE"} => childq'[x] = << >>
    <3> SUFFICES ASSUME NEW x \in Task, state'[x] \in {"none", "TZOMBIE"} PROVE childq'[x] = << >>
      OBVIOUS
    <3>1. x # t
      BY <1>2, <1>5
    <3>2. childq[x] = << >>
      <4>1. CASE x \in Z
        BY <1>5, <4>1
      <4>2. CASE x \notin Z
        BY <1>1, <1>2, <4>2 DEF FamilyIsTree, Alive
      <4> QED BY <4>1, <4>2
    <3> QED BY <1>2, <3>1, <3>2
  <2> QED BY <2>1, <2>2, <2>3, <2>4 DEF FamilyIsTree, Exists, Alive
<1>9. \A x \in Task : pc'[x] = "wait" =>
        /\ x # t /\ pc[x] = "wait" /\ childq'[x] = childq[x] /\ want'[x] = want[x]
        /\ state'[x] = "TWAIT" => state[x] = "TWAIT"
  BY <1>2
<1>10. NoZombieMissed'
  BY <1>1, <1>2, <1>6, <1>9 DEF NoZombieMissed, Matches
<1>11. FlagTellsWhy'
  BY <1>1, <1>2, <1>6, <1>9 DEF FlagTellsWhy
<1> QED BY <1>7, <1>8, <1>10, <1>11 DEF WaitersAreTold

\* The end of doexit.  A parent, or init, that sleeps in waitpid has its flag
\* set, so that its notification wakes it; whoever is not notified has got no
\* zombie.
LEMMA ZombieStep ==
  ASSUME IInv, NEW t \in Task, BecomeZombie(t)
  PROVE  InitLives' /\ FamilyIsTree' /\ WaitersAreTold'
<1>1. TypeOK /\ InitLives /\ FamilyIsTree /\ NoZombieMissed /\ FlagTellsWhy
  BY DEF IInv, WaitersAreTold
<1>2. init \in Task /\ NULL \notin Task
  BY ExitWaitAssumption
<1>3. pc[t] = "lose" /\ state[t] = "TSLEEP" /\ t # init /\ parent[t] # NULL
  BY <1>1 DEF BecomeZombie, InitLives, FamilyIsTree, Exists
<1>4. PICK N : N = Notified(t)
  OBVIOUS
<1>5. /\ state' = StateAfter(N, "SIGCHLD", N, t, "TZOMBIE")
      /\ waiting' = [u \in Task |-> waiting[u] /\ u \notin N]
      /\ parent' = [c \in Task |-> IF c \in Rng(childq[t]) THEN init ELSE parent[c]]
      /\ childq' = [childq EXCEPT ![init] = childq[init] \o childq[t], ![t] = << >>]
      /\ pc' = pc /\ want' = want
  BY <1>3, <1>4 DEF BecomeZombie
<1>6. /\ \A x \in Task : state'[x] =
              IF x = t THEN "TZOMBIE" ELSE IF x \in Woken(N, "SIGCHLD", N) THEN "TRUN" ELSE state[x]
      /\ \A x \in Task \ {t} : state'[x] = state[x] \/ (state[x] = "TWAIT" /\ state'[x] = "TRUN")
  BY <1>1, <1>5, StateAfterIs
<1>7. \A x \in Task : \A d \in Rng(childq[x]) : d \in Task
  BY <1>1 DEF TypeOK, Rng
<1>8. \A x, d \in Task : d \in Rng(childq[x]) <=> state[d] # "none" /\ parent[d] = x
  BY <1>1 DEF FamilyIsTree, Exists
<1>9. init \notin Rng(childq[t]) /\ Rng(childq[init]) \cap Rng(childq[t]) = {}
  BY <1>1, <1>2, <1>3, <1>7, <1>8 DEF InitLives
<1>10. /\ Rng(childq[init] \o childq[t]) = Rng(childq[init]) \cup Rng(childq[t])
       /\ IsInjective(childq[init] \o childq[t])
  <2>1. /\ childq[init] \in Seq(Task) /\ childq[t] \in Seq(Task)
        /\ IsInjective(childq[init]) /\ IsInjective(childq[t])
    BY <1>1, <1>2 DEF TypeOK, FamilyIsTree
  <2> QED BY <1>9, <2>1, ConcatIs
<1>11. /\ childq'[init] = childq[init] \o childq[t] /\ childq'[t] = << >>
       /\ \A x \in Task \ {init, t} : childq'[x] = childq[x]
  BY <1>1, <1>2, <1>3, <1>5 DEF TypeOK
<1>12. /\ \A d \in Rng(childq[t]) : parent'[d] = init
       /\ \A d \in Task : d \notin Rng(childq[t]) => parent'[d] = parent[d]
  BY <1>5, <1>7
<1>13. Rng(childq'[t]) = {} /\ IsInjective(childq'[t])
  BY <1>11 DEF Rng, IsInjective
<1>14. InitLives'
  <2>1. \A c \in Task : parent'[c] # c
    BY <1>1, <1>9, <1>12 DEF InitLives
  <2> QED BY <1>1, <1>2, <1>3, <1>5, <1>6, <1>9, <1>12, <2>1 DEF InitLives
<1>15. FamilyIsTree'
  <2>1. \A x, d \in Task : d \in Rng(childq'[x]) <=> state'[d] # "none" /\ parent'[d] = x
    <3> SUFFICES ASSUME NEW x \in Task, NEW d \in Task
                 PROVE  d \in Rng(childq'[x]) <=> state'[d] # "none" /\ parent'[d] = x
      OBVIOUS
    <3>1. state'[d] # "none" <=> state[d] # "none"
      BY <1>3, <1>6
    <3>4. Rng(childq'[x]) = IF x = init THEN Rng(childq[init]) \cup Rng(childq[t])
                            ELSE IF x = t THEN {} ELSE Rng(childq[x])
      <4>1. CASE x = init
        BY ONLY <1>10, <1>11, <4>1
      <4>2. CASE x = t
        BY ONLY <1>3, <1>13, <4>2
      <4>3. CASE x # init /\ x # t
        BY ONLY <1>11, <4>3, x \in Task
      <4> QED BY <4>1, <4>2, <4>3
    <3>5. d \in Rng(childq[x]) <=> state[d] # "none" /\ parent[d] = x
      BY <1>8
    <3>6. d \in Rng(childq[t]) <=> state[d] # "none" /\ parent[d] = t
      BY <1>8
    <3>7. d \in Rng(childq[init]) <=> state[d] # "none" /\ parent[d] = init
      BY <1>2, <1>8
    <3>2. CASE d \in Rng(childq[t])
      <4>1. parent'[d] = init
        BY ONLY <1>12, <3>2
      <4> QED BY ONLY <1>3, <3>1, <3>2, <3>4, <3>5, <3>6, <3>7, <4>1
    <3>3. CASE d \notin Rng(childq[t])
      <4>1. parent'[d] = parent[d]
        BY ONLY <1>12, <3>3, d \in Task
      <4> QED BY ONLY <1>3, <3>1, <3>3, <3>4, <3>5, <3>6, <3>7, <4>1
    <3> QED BY <3>2, <3>3
  <2>2. \A x \in Task : IsInjective(childq'[x])
    BY <1>1, <1>2, <1>10, <1>11, <1>13 DEF FamilyIsTree
  <2>3. \A d \in Task \ {init} : state'[d] # "none" =>
          parent'[d] # NULL /\ state'[parent'[d]] \notin {"none", "TZOMBIE"}
    <3> SUFFICES ASSUME NEW d \in Task \ {init}, state'[d] # "none"
                 PROVE  parent'[d] # NULL /\ state'[parent'[d]] \notin {"none", "TZOMBIE"}
      OBVIOUS
    <3>1. CASE d \in Rng(childq[t])
      BY <1>1, <1>2, <1>3, <1>6, <1>12, <3>1 DEF InitLives
    <3>2. CASE d \notin Rng(childq[t])
      <4>1. parent'[d] = parent[d] /\ state[d] # "none"
        BY <1>3, <1>6, <1>12, <3>2
      <4>2. parent[d] # NULL /\ state[parent[d]] \notin {"none", "TZOMBIE"} /\ parent[d] \in Task
        BY <1>1, <4>1 DEF FamilyIsTree, Exists, Alive, TypeOK
      <4>3. parent[d] # t
        BY <1>8, <3>2, <4>1
      <4> QED BY <1>6, <4>1, <4>2, <4>3
    <3> QED BY <3>1, <3>2
  <2>4. \A x \in Task : state'[x] \in {"none", "TZOMBIE"} => childq'[x] = << >>
    <3> SUFFICES ASSUME NEW x \in Task, state'[x] \in {"none", "TZOMBIE"} PROVE childq'[x] = << >>
      OBVIOUS
    <3>1. CASE x = t
      BY <1>11, <3>1
    <3>2. CASE x # t
      <4>1. state[x] \in {"none", "TZOMBIE"}
        BY <1>6, <3>2
      <4>2. childq[x] = << >> /\ x # init
        BY <1>1, <4>1 DEF FamilyIsTree, Alive, InitLives
      <4> QED BY <1>11, <3>2, <4>2
    <3> QED BY <3>1, <3>2
  <2> QED BY <2>1, <2>2, <2>3, <2>4 DEF FamilyIsTree, Exists, Alive
<1>16. t \in Rng(childq[parent[t]]) /\ parent[t] \in Task /\ parent[t] \in N
  BY <1>1, <1>3, <1>4, <1>8 DEF TypeOK, Notified
<1>17. init \in N \/ \A c \in Rng(childq[t]) : state[c] \notin {"TZOMBIE", "TSTOP"}
  BY <1>4 DEF Notified
<1>18. \A x \in N : x = parent[t] \/ (x = init /\ \E c \in Rng(childq[t]) : state[c] \in {"TZOMBIE", "TSTOP"})
  BY <1>4 DEF Notified
<1>19. \A x \in Task : state[x] = "TWAIT" /\ x \in N /\ pc[x] = "wait" => state'[x] = "TRUN"
  <2> SUFFICES ASSUME NEW x \in Task, state[x] = "TWAIT", x \in N, pc[x] = "wait"
               PROVE  state'[x] = "TRUN"
    OBVIOUS
  <2>1. waiting[x]
    BY <1>1 DEF FlagTellsWhy
  <2>2. x \in Woken(N, "SIGCHLD", N)
    BY <2>1 DEF Woken
  <2> QED BY <1>3, <1>6, <2>2
<1>20. NoZombieMissed'
  <2> SUFFICES ASSUME NEW x \in Task, state'[x] = "TWAIT", pc[x] = "wait", NEW d \in Rng(childq'[x]),
                      state'[d] = "TZOMBIE", Matches(want[x], d)
               PROVE  FALSE
    BY <1>5 DEF NoZombieMissed, Matches
  <2>1. state[x] = "TWAIT" /\ x # t /\ x \notin N
    BY <1>6, <1>19
  <2>2. \A c \in Rng(childq[x]) : ~(state[c] = "TZOMBIE" /\ Matches(want[x], c))
    BY <1>1, <2>1 DEF NoZombieMissed
  <2>3. CASE d \in Rng(childq[x])
    <3>1. d # t
      BY <1>8, <1>16, <2>1, <2>3
    <3> QED BY <1>6, <1>7, <2>2, <2>3, <3>1
  <2>4. CASE d \notin Rng(childq[x])
    <3>1. x = init /\ d \in Rng(childq[t])
      BY <1>10, <1>11, <2>1, <2>4
    <3>2. state[d] \notin {"TZOMBIE", "TSTOP"} /\ d \in Task
      BY <1>7, <1>17, <2>1, <3>1
    <3>3. d = t
      BY <1>6, <3>2
    <3> QED BY <1>1, <1>8, <3>1, <3>3 DEF InitLives
  <2> QED BY <2>3, <2>4
<1>21. FlagTellsWhy'
  <2> SUFFICES ASSUME NEW x \in Task, pc[x] = "wait"
               PROVE  /\ state'[x] = "TWAIT" => waiting'[x]
                      /\ ~waiting'[x] => \E c \in Rng(childq'[x]) : state'[c] \in {"TZOMBIE", "TSTOP"}
    BY <1>5 DEF FlagTellsWhy
  <2>0. x # t
    BY <1>3
  <2>1. /\ state[x] = "TWAIT" => waiting[x]
        /\ ~waiting[x] => \E c \in Rng(childq[x]) : state[c] \in {"TZOMBIE", "TSTOP"}
    BY <1>1 DEF FlagTellsWhy
  <2>2. state'[x] = "TWAIT" => waiting'[x]
    BY <1>5, <1>6, <1>19, <2>0, <2>1
  <2>3. Rng(childq[x]) \subseteq Rng(childq'[x])
    BY <1>10, <1>11, <2>0
  <2>4. \A c \in Task : state[c] \in {"TZOMBIE", "TSTOP"} => state'[c] \in {"TZOMBIE", "TSTOP"}
    BY <1>6
  <2>5. ASSUME ~waiting'[x] PROVE \E c \in Rng(childq'[x]) : state'[c] \in {"TZOMBIE", "TSTOP"}
    <3>1. CASE ~waiting[x]
      BY <1>7, <2>1, <2>3, <2>4, <3>1
    <3>2. CASE x \in N /\ x = parent[t]
      BY <1>6, <1>16, <2>3, <3>2
    <3>3. CASE x \in N /\ x # parent[t]
      <4>1. x = init /\ \E c \in Rng(childq[t]) : state[c] \in {"TZOMBIE", "TSTOP"}
        BY <1>18, <3>3
      <4> QED BY <1>7, <1>10, <1>11, <2>4, <4>1
    <3> QED BY <1>5, <2>5, <3>1, <3>2, <3>3
  <2> QED BY <2>2, <2>5
<1> QED BY <1>14, <1>15, <1>20, <1>21 DEF WaitersAreTold

LEMMA FamilyNext ==
  ASSUME IInv, [Next]_vars PROVE InitLives' /\ FamilyIsTree' /\ WaitersAreTold'
<1>0. TypeOK /\ InitLives /\ FamilyIsTree /\ WaitersAreTold /\ init \in Task
  BY ExitWaitAssumption DEF IInv
<1>1. CASE UNCHANGED vars
  <2>1. InitLives'
    BY <1>0, <1>1 DEF vars, InitLives
  <2> QED BY <1>1, <2>1, QuietStep DEF vars
<1>2. CASE Next
  <2>1. PICK t \in Task :
    \/ \E u \in Task : Fork(t, u) \/ \E s \in KillSig : Kill(t, u, s)
    \/ \E f \in Func : SysSignal(t, f)
    \/ Flush(t)
    \/ \E w \in Want : Report(t, w) \/ WaitSleep(t, w)
    \/ WaitNothing(t) \/ WaitEintr(t)
    \/ Exit(t) \/ DisposeSigvec(t) \/ BecomeZombie(t)
    \/ SigKill(t) \/ SigChld(t) \/ \E n \in BOOLEAN : SigStop(t, n)
    BY <1>2 DEF Next
  <2>2. ASSUME NEW c \in Task, Fork(t, c) PROVE InitLives' /\ FamilyIsTree' /\ WaitersAreTold'
    BY <2>2, ForkStep
  <2>3. ASSUME NEW u \in Task, NEW s \in KillSig, Kill(t, u, s)
        PROVE  InitLives' /\ FamilyIsTree' /\ WaitersAreTold'
    <3>1. /\ state[t] = "TRUN" /\ UNCHANGED <<parent, childq, pc, want, waiting>>
          /\ state' = StateAfter({u}, s, {}, t, state[t])
      BY <2>3 DEF Kill, AtUser, Running
    <3>2. /\ state'[t] = state[t]
          /\ \A x \in Task \ {t} : state'[x] = state[x] \/ (state[x] = "TWAIT" /\ state'[x] = "TRUN")
      BY <1>0, <3>1, StateAfterIs
    <3>3. InitLives'
      BY <1>0, <3>1, <3>2 DEF InitLives
    <3>4. \A x \in Task : /\ state'[x] = "none" <=> state[x] = "none"
                          /\ state'[x] = "TZOMBIE" <=> state[x] = "TZOMBIE"
                          /\ state[x] = "TSTOP" => state'[x] = "TSTOP"
                          /\ state'[x] = "TWAIT" => state[x] = "TWAIT"
      BY <3>1, <3>2
    <3> QED BY <3>1, <3>3, <3>4, QuietStep
  <2>4. CASE (\E f \in Func : SysSignal(t, f)) \/ Flush(t)
    <3>1. UNCHANGED <<state, parent, childq, pc, want, waiting>>
      BY <2>4 DEF SysSignal, Flush
    <3>2. InitLives'
      BY <1>0, <3>1 DEF InitLives
    <3> QED BY <3>1, <3>2, QuietStep
  <2>5. ASSUME NEW w \in Want, Report(t, w) PROVE InitLives' /\ FamilyIsTree' /\ WaitersAreTold'
    <3>1. state[t] = "TRUN" /\ waiting' = waiting /\ Return(t) /\ HasNews(t, w)
      BY <2>5 DEF Report, Scans, AtUser, Running
    <3>2. pc'[t] = "user" /\ \A x \in Task \ {t} : pc'[x] = pc[x] /\ want'[x] = want[x]
      BY <1>0, <3>1, ReturnIs
    <3>3. First(t, w) \in Rng(childq[t])
      BY <1>0, <3>1, FirstIs
    <3>4. CASE state[First(t, w)] = "TZOMBIE" /\ Delete(t, {First(t, w)})
      <4>1. PICK Z : Z = {First(t, w)}
        OBVIOUS
      <4>2. Z \in SUBSET Rng(childq[t]) /\ Delete(t, Z) /\ \A c \in Z : state[c] = "TZOMBIE"
        BY <3>3, <3>4, <4>1
      <4> QED BY <3>1, <3>2, <4>2, DeleteStep
    <3>5. CASE UNCHANGED <<state, parent, childq>>
      <4>1. InitLives'
        BY <1>0, <3>2, <3>5 DEF InitLives
      <4> QED BY <3>1, <3>2, <3>5, <4>1, QuietStep
    <3> QED BY <2>5, <3>4, <3>5 DEF Report
  <2>6. ASSUME NEW w \in Want, WaitSleep(t, w) PROVE InitLives' /\ FamilyIsTree' /\ WaitersAreTold'
    <3>1. /\ state[t] = "TRUN" /\ ~HasNews(t, w) /\ UNCHANGED <<parent, childq>>
          /\ waiting' = [waiting EXCEPT ![t] = TRUE] /\ state' = [state EXCEPT ![t] = "TWAIT"]
          /\ pc' = [pc EXCEPT ![t] = "wait"] /\ want' = [want EXCEPT ![t] = w]
      BY <2>6 DEF WaitSleep, Scans, AtUser, Running
    <3>2. /\ waiting'[t] = TRUE /\ want'[t] = w /\ state'[t] = "TWAIT" /\ pc'[t] = "wait"
          /\ \A x \in Task \ {t} : /\ waiting'[x] = waiting[x] /\ want'[x] = want[x]
                                   /\ state'[x] = state[x] /\ pc'[x] = pc[x]
      BY <1>0, <3>1 DEF TypeOK
    <3>3. InitLives'
      BY <1>0, <3>1, <3>2 DEF InitLives
    <3>4. \A c \in Rng(childq[t]) : ~(state[c] = "TZOMBIE" /\ Matches(want'[t], c))
      BY <3>1, <3>2 DEF HasNews, Tells, Matches
    <3>5. \A x \in Task : /\ state'[x] = "none" <=> state[x] = "none"
                          /\ state'[x] = "TZOMBIE" <=> state[x] = "TZOMBIE"
                          /\ state[x] = "TSTOP" => state'[x] = "TSTOP"
      BY <3>1, <3>2
    <3>6. \A x \in Task : pc'[x] = "wait" =>
            \/ /\ pc[x] = "wait" /\ waiting'[x] = waiting[x] /\ want'[x] = want[x]
               /\ state'[x] = "TWAIT" => state[x] = "TWAIT"
            \/ /\ waiting'[x]
               /\ \A c \in Rng(childq[x]) : ~(state[c] = "TZOMBIE" /\ Matches(want'[x], c))
      <4> SUFFICES ASSUME NEW x \in Task, pc'[x] = "wait"
                   PROVE  \/ /\ pc[x] = "wait" /\ waiting'[x] = waiting[x] /\ want'[x] = want[x]
                             /\ state'[x] = "TWAIT" => state[x] = "TWAIT"
                          \/ /\ waiting'[x]
                             /\ \A c \in Rng(childq[x]) : ~(state[c] = "TZOMBIE" /\ Matches(want'[x], c))
        OBVIOUS
      <4>1. CASE x = t
        BY <3>2, <3>4, <4>1
      <4>2. CASE x # t
        BY <3>2, <4>2
      <4> QED BY <4>1, <4>2
    <3> QED BY <3>1, <3>3, <3>5, <3>6, QuietStep
  <2>7. CASE WaitNothing(t) \/ WaitEintr(t)
    <3>1. Return(t) /\ UNCHANGED <<state, parent, childq>>
      BY <2>7 DEF WaitNothing, WaitEintr
    <3>2. pc'[t] = "user" /\ \A x \in Task \ {t} : pc'[x] = pc[x] /\ want'[x] = want[x]
      BY <1>0, <3>1, ReturnIs
    <3>3. \A x \in Task \ {t} : waiting'[x] = waiting[x]
      BY <1>0, <2>7 DEF WaitNothing, WaitEintr, TypeOK
    <3>4. InitLives'
      BY <1>0, <3>1, <3>2 DEF InitLives
    <3> QED BY <3>1, <3>2, <3>3, <3>4, QuietStep
  <2>8. CASE Exit(t) \/ SigKill(t)
    <3>1. /\ state[t] = "TRUN" /\ UNCHANGED <<parent, childq, want, waiting>> /\ t # init
          /\ state' = [state EXCEPT ![t] = "TSLEEP"] /\ pc' = [pc EXCEPT ![t] = "close"]
      BY <2>8 DEF Exit, SigKill, AtUser, Running
    <3>2. /\ state'[t] = "TSLEEP" /\ pc'[t] = "close"
          /\ \A x \in Task \ {t} : state'[x] = state[x] /\ pc'[x] = pc[x]
      BY <1>0, <3>1 DEF TypeOK
    <3>3. InitLives'
      BY <1>0, <3>1, <3>2 DEF InitLives
    <3>4. \A x \in Task : /\ state'[x] = "none" <=> state[x] = "none"
                          /\ state'[x] = "TZOMBIE" <=> state[x] = "TZOMBIE"
                          /\ state[x] = "TSTOP" => state'[x] = "TSTOP"
                          /\ pc'[x] = "wait" => pc[x] = "wait" /\ state'[x] = state[x]
      BY <3>1, <3>2
    <3> QED BY <3>1, <3>3, <3>4, QuietStep
  <2>9. CASE DisposeSigvec(t)
    <3>1. /\ pc[t] = "close" /\ pc' = [pc EXCEPT ![t] = "lose"]
          /\ UNCHANGED <<state, parent, childq, want, waiting>>
      BY <2>9 DEF DisposeSigvec
    <3>2. pc'[t] = "lose" /\ t # init /\ \A x \in Task \ {t} : pc'[x] = pc[x]
      BY <1>0, <3>1 DEF TypeOK, InitLives
    <3>3. InitLives'
      BY <1>0, <3>1, <3>2 DEF InitLives
    <3> QED BY <3>1, <3>2, <3>3, QuietStep
  <2>10. CASE BecomeZombie(t)
    BY <2>10, ZombieStep
  <2>11. CASE SigChld(t)
    <3>1. state[t] = "TRUN" /\ pc[t] = "user" /\ UNCHANGED <<pc, want, waiting>>
      BY <2>11 DEF SigChld, Lowest, AtUser, Running
    <3>2. CASE Delete(t, Zombies(t))
      <4>1. PICK Z : Z = Zombies(t)
        OBVIOUS
      <4>2. Z \in SUBSET Rng(childq[t]) /\ Delete(t, Z) /\ \A c \in Z : state[c] = "TZOMBIE"
        BY <3>2, <4>1 DEF Zombies
      <4> QED BY <3>1, <4>2, DeleteStep
    <3>3. CASE UNCHANGED <<state, parent, childq>>
      <4>1. InitLives'
        BY <1>0, <3>1, <3>3 DEF InitLives
      <4> QED BY <3>1, <3>3, <4>1, QuietStep
    <3> QED BY <2>11, <3>2, <3>3 DEF SigChld
  <2>12. ASSUME NEW n \in BOOLEAN, SigStop(t, n) PROVE InitLives' /\ FamilyIsTree' /\ WaitersAreTold'
    <3>1. /\ state[t] = "TRUN" /\ pc[t] = "user" /\ "SIGSTOP" \in pending[t]
          /\ UNCHANGED <<parent, childq, pc, want, waiting>>
      BY <2>12 DEF SigStop, Lowest, AtUser, Running
    <3>2. PICK N : state' = StateAfter(N, "SIGCHLD", {}, t, "TSTOP")
      BY <2>12 DEF SigStop
    <3>3. /\ state'[t] = "TSTOP"
          /\ \A x \in Task \ {t} : state'[x] = state[x] \/ (state[x] = "TWAIT" /\ state'[x] = "TRUN")
      BY <1>0, <3>2, StateAfterIs
    <3>4. t # init
      BY <1>0, <3>1 DEF TypeOK
    <3>5. InitLives'
      BY <1>0, <3>1, <3>3, <3>4 DEF InitLives
    <3>6. \A x \in Task : /\ state'[x] = "none" <=> state[x] = "none"
                          /\ state'[x] = "TZOMBIE" <=> state[x] = "TZOMBIE"
                          /\ state[x] = "TSTOP" => state'[x] = "TSTOP"
                          /\ state'[x] = "TWAIT" => state[x] = "TWAIT"
      BY <3>1, <3>3
    <3> QED BY <3>1, <3>5, <3>6, QuietStep
  <2> QED BY <2>1, <2>2, <2>3, <2>4, <2>5, <2>6, <2>7, <2>8, <2>9, <2>10, <2>11, <2>12
<1> QED BY <1>1, <1>2

----------------------------------------------------------------------------
LEMMA InitIInv == Init => IInv
<1> SUFFICES ASSUME Init PROVE IInv
  OBVIOUS
<1>1. TypeOK
  <2>1. << >> \in Seq(Task) /\ Default \in [pid : Task \cup {any}, untraced : BOOLEAN]
    BY DEF Default
  <2> QED BY <2>1, ExitWaitAssumption DEF Init, TypeOK
<1>2. InitLives
  BY ExitWaitAssumption DEF Init, InitLives
<1>3. \A t \in Task : childq[t] = << >> /\ Rng(childq[t]) = {} /\ IsInjective(childq[t])
  BY DEF Init, Rng, IsInjective
<1>4. FamilyIsTree
  BY <1>3, ExitWaitAssumption DEF Init, FamilyIsTree, Exists, Alive
<1>5. WaitersAreTold
  BY ExitWaitAssumption DEF Init, WaitersAreTold, NoZombieMissed, FlagTellsWhy
<1> QED BY <1>1, <1>2, <1>4, <1>5 DEF IInv

LEMMA Inductive == Spec => []IInv
<1>1. IInv /\ [Next]_vars => IInv'
  BY TypeNext, FamilyNext DEF IInv
<1> QED BY <1>1, InitIInv, PTL DEF Spec

(***************************************************************************)
(* Every variable keeps its type, and nothing but SIGCHLD reaches init.    *)
(***************************************************************************)
THEOREM ExitWaitTypes == Spec => []TypeOK
<1>1. IInv => TypeOK
  BY DEF IInv
<1> QED BY <1>1, Inductive, PTL

(***************************************************************************)
(* Whatever tasks fork, exit, are killed, stopped, reaped by waitpid or by *)
(* an ignored SIGCHLD, in whatever order: every process hangs in exactly   *)
(* one living parent's childq, once, and nothing that is deleted has       *)
(* children.                                                               *)
(***************************************************************************)
THEOREM FamilyCorrect == Spec => []FamilyIsTree
<1>1. IInv => FamilyIsTree
  BY DEF IInv
<1> QED BY <1>1, Inductive, PTL

(***************************************************************************)
(* No task sleeps in waitpid over a zombie that it waits for, its own or   *)
(* one that came to it when the parent died, and TFWAITCHLDEXIT tells why  *)
(* it was woken.                                                           *)
(***************************************************************************)
THEOREM WaitersCorrect == Spec => []WaitersAreTold
<1>1. IInv => WaitersAreTold
  BY DEF IInv
<1> QED BY <1>1, Inductive, PTL
=============================================================================
