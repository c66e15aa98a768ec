----------------------------- MODULE SyncProofs -----------------------------
(***************************************************************************)
(* TLAPS proofs about rwlock_t and iolock_t, for any finite set of tasks,  *)
(* about pipes, for any number of tasks, any room and any counts, about    *)
(* the ring buffer that pipes and terminals are made of, and about local   *)
(* stream sockets, for any sockets, tasks and paths.                       *)
(***************************************************************************)
EXTENDS IoLock, RWLock, Pipe, Fifoq, Local, FiniteSetTheorems, SequenceTheorems, WellFoundedInduction, TLAPS

\* Exclusion and SleepersHaveWaker are inductive together: that a sleeping
\* reader sits behind a writer is what makes the last reader's broadcast enough.
IInv == TypeOK /\ Exclusion /\ SleepersHaveWaker

\* The set of readers changes by one task, and its cardinality with it.
LEMMA ReaderCount ==
  ASSUME NEW S \in SUBSET Task, NEW t \in Task
  PROVE  /\ Cardinality(S) \in Nat
         /\ Cardinality(S) = 0 <=> S = {}
         /\ t \notin S => Cardinality(S \cup {t}) = Cardinality(S) + 1
         /\ t \in S => Cardinality(S \ {t}) = Cardinality(S) - 1
<1>1. IsFiniteSet(S)
  BY TaskAssumption, FS_Subset
<1>2. Cardinality(S) \in Nat /\ (Cardinality(S) = 0 <=> S = {})
  BY <1>1, FS_CardinalityType, FS_EmptySet
<1>3. t \notin S => Cardinality(S \cup {t}) = Cardinality(S) + 1
  BY <1>1, FS_AddElement
<1>4. t \in S => Cardinality(S \ {t}) = Cardinality(S) - 1
  BY <1>1, FS_RemoveElement
<1> QED BY <1>2, <1>3, <1>4

LEMMA InitOK == Init => IInv
<1> SUFFICES ASSUME Init PROVE IInv
  OBVIOUS
<1>1. Readers = {} /\ Writers = {} /\ Cardinality(Readers) = 0
  BY FS_EmptySet DEF Init, Readers, Writers
<1>2. TypeOK
  BY DEF Init, TypeOK, PC
<1> QED BY <1>1, <1>2 DEF Init, IInv, Exclusion, SleepersHaveWaker

LEMMA NextOK == IInv /\ [Next]_vars => IInv'
<1> SUFFICES ASSUME IInv, [Next]_vars PROVE IInv'
  OBVIOUS
<1>0. TypeOK /\ Exclusion /\ SleepersHaveWaker /\ Readers \in SUBSET Task
  BY DEF IInv, Readers
<1>1. ASSUME NEW t \in Task, Rlock(t) PROVE IInv'
  <2>0. t \notin Readers /\ t \notin Writers
    BY <1>1 DEF Rlock, Readers, Writers
  <2>1. CASE state = "WRITING"
    <3>1. pc' = [pc EXCEPT ![t] = "rsleep"] /\ UNCHANGED <<state, nreader, lockowner, panicked>>
      BY <1>1, <2>1 DEF Rlock, Goto
    <3>2. Readers' = Readers /\ Writers' = Writers
      BY <1>0, <2>0, <3>1 DEF Readers, Writers, TypeOK
    <3>3. TypeOK' /\ SleepersHaveWaker'
      BY <1>0, <2>1, <3>1 DEF TypeOK, PC, SleepersHaveWaker
    <3> QED BY <1>0, <3>1, <3>2, <3>3 DEF IInv, Exclusion
  <2>2. CASE state # "WRITING"
    <3>1. /\ pc' = [pc EXCEPT ![t] = "read"] /\ state' = "READING"
          /\ nreader' = nreader + 1 /\ lockowner' = t /\ panicked' = panicked
      BY <1>1, <2>2 DEF Rlock, Goto
    <3>2. Readers' = Readers \cup {t} /\ Writers' = Writers /\ Writers = {}
      BY <1>0, <2>0, <2>2, <3>1 DEF Readers, Writers, TypeOK, Exclusion
    <3>3. nreader' = Cardinality(Readers')
      BY <1>0, <2>0, <3>1, <3>2, ReaderCount DEF Exclusion
    <3>4. TypeOK' /\ SleepersHaveWaker'
      BY <1>0, <2>2, <3>1 DEF TypeOK, PC, SleepersHaveWaker
    <3> QED BY <3>1, <3>2, <3>3, <3>4 DEF IInv, Exclusion
  <2> QED BY <2>1, <2>2
<1>2. ASSUME NEW t \in Task, Wlock(t) PROVE IInv'
  <2>0. t \notin Readers /\ t \notin Writers
    BY <1>2 DEF Wlock, Readers, Writers
  <2>1. CASE state # "FREE"
    <3>1. /\ UNCHANGED <<state, nreader, lockowner>>
          /\ \/ pc' = pc /\ panicked' = t
             \/ pc' = [pc EXCEPT ![t] = "wsleep"] /\ panicked' = panicked
      BY <1>2, <2>1 DEF Wlock, Goto
    <3>2. Readers' = Readers /\ Writers' = Writers
      BY <1>0, <2>0, <3>1 DEF Readers, Writers, TypeOK
    <3>3. TypeOK' /\ SleepersHaveWaker'
      BY <1>0, <2>1, <3>1 DEF TypeOK, PC, SleepersHaveWaker
    <3> QED BY <1>0, <3>1, <3>2, <3>3 DEF IInv, Exclusion
  <2>2. CASE state = "FREE"
    <3>1. /\ pc' = [pc EXCEPT ![t] = "write"] /\ state' = "WRITING"
          /\ lockowner' = t /\ UNCHANGED <<nreader, panicked>>
      BY <1>2, <2>2 DEF Wlock, Goto
    <3>2. Readers' = Readers /\ Writers' = {t} /\ Readers = {}
      BY <1>0, <2>0, <2>2, <3>1 DEF Readers, Writers, TypeOK, Exclusion
    <3>3. TypeOK' /\ SleepersHaveWaker'
      BY <1>0, <2>2, <3>1 DEF TypeOK, PC, SleepersHaveWaker
    <3> QED BY <1>0, <3>1, <3>2, <3>3 DEF IInv, Exclusion
  <2> QED BY <2>1, <2>2
<1>3. ASSUME NEW t \in Task, Unlock(t) PROVE IInv'
  <2>1. CASE state = "READING" /\ nreader > 1
    <3>1. /\ pc' = [pc EXCEPT ![t] = "out"] /\ nreader' = nreader - 1
          /\ UNCHANGED <<state, lockowner, panicked>>
      BY <1>3, <2>1 DEF Unlock, Goto
    <3>2. t \in Readers /\ Writers = {}
      BY <1>0, <1>3, <2>1 DEF Unlock, Readers, Writers, Exclusion
    <3>3. Readers' = Readers \ {t} /\ Writers' = {}
      BY <1>0, <3>1, <3>2 DEF Readers, Writers, TypeOK
    <3>4. Cardinality(Readers') = nreader - 1 /\ Readers' # {} /\ nreader \in Nat
      <4>1. Cardinality(Readers') = nreader - 1 /\ nreader \in Nat
        BY <1>0, <3>2, <3>3, ReaderCount DEF Exclusion, TypeOK
      <4>2. Readers' \in SUBSET Task
        BY <1>0, <3>3
      <4>3. Cardinality(Readers') = 0 <=> Readers' = {}
        BY <1>3, <4>2, ReaderCount
      <4> QED BY <2>1, <4>1, <4>3
    <3>5. TypeOK' /\ SleepersHaveWaker'
      BY <1>0, <2>1, <3>1, <3>4 DEF TypeOK, PC, SleepersHaveWaker
    <3> QED BY <1>0, <2>1, <3>1, <3>3, <3>4, <3>5 DEF IInv, Exclusion
  <2>2. CASE ~(state = "READING" /\ nreader > 1)
    <3>1. /\ pc' = Broadcast(pc, t) /\ state' = "FREE" /\ lockowner' = NULL
          /\ nreader' = IF state = "READING" THEN nreader - 1 ELSE nreader
          /\ panicked' = panicked
      BY <1>3, <2>2 DEF Unlock
    <3>2. \A u \in Task : pc'[u] = IF u = t THEN "out"
                                   ELSE IF pc[u] = "rsleep" THEN "rwoken"
                                   ELSE IF pc[u] = "wsleep" THEN "wwoken" ELSE pc[u]
      BY <3>1 DEF Broadcast
    <3>3. Readers' = Readers \ {t} /\ Writers' = Writers \ {t}
      BY <3>2 DEF Readers, Writers
    <3>4. Readers' = {} /\ Writers' = {} /\ nreader' = 0
      <4>1. CASE state = "READING"
        <5>1. t \in Readers /\ Writers = {}
          BY <1>0, <1>3, <4>1 DEF Unlock, Readers, Writers, Exclusion
        <5>2. nreader = Cardinality(Readers) /\ nreader \in Nat /\ nreader <= 1
          BY <1>0, <2>2, <4>1 DEF Exclusion, TypeOK
        <5>3. nreader # 0 /\ Cardinality(Readers \ {t}) = nreader - 1
          BY <1>0, <5>1, <5>2, ReaderCount
        <5>4. Readers \ {t} = {}
          <6>1. Readers \ {t} \in SUBSET Task /\ Cardinality(Readers \ {t}) = 0
            BY <1>0, <5>2, <5>3
          <6> QED BY <6>1, ReaderCount
        <5> QED BY <3>1, <3>3, <4>1, <5>1, <5>2, <5>3, <5>4
      <4>2. CASE state # "READING"
        <5>1. t \in Writers /\ Readers = {} /\ Writers = {t}
          BY <1>0, <1>3, <4>2 DEF Unlock, Readers, Writers, Exclusion, TypeOK
        <5>2. nreader = 0
          BY <1>0, <5>1, ReaderCount DEF Exclusion
        <5> QED BY <3>1, <3>3, <4>2, <5>1, <5>2
      <4> QED BY <4>1, <4>2
    <3>5. Cardinality(Readers') = 0
      BY <3>4, FS_EmptySet
    <3>6. TypeOK'
      <4>1. pc' \in [Task -> PC]
        BY <1>0, <3>1 DEF TypeOK, PC, Broadcast
      <4> QED BY <1>0, <3>1, <3>4, <4>1 DEF TypeOK
    <3>7. SleepersHaveWaker'
      BY <3>2 DEF SleepersHaveWaker
    <3> QED BY <3>1, <3>4, <3>5, <3>6, <3>7 DEF IInv, Exclusion
  <2> QED BY <2>1, <2>2
<1>4. CASE UNCHANGED vars
  BY <1>0, <1>4 DEF vars, IInv, TypeOK, Exclusion, SleepersHaveWaker, Readers, Writers
<1> QED BY <1>1, <1>2, <1>3, <1>4 DEF Next

\* The lock's fields keep their types; nreader never goes below zero.
THEOREM TypeCorrect == Spec => []TypeOK
<1>1. IInv => TypeOK
  BY DEF IInv
<1> QED BY <1>1, InitOK, NextOK, PTL DEF Spec

\* For any number of tasks, readers and writers exclude each other, the reader
\* count is exact, and no sleeper is left behind by an unlock().
THEOREM RwLockCorrect == Spec => []RwLockIsSafe
<1>1. IInv => RwLockIsSafe
  BY DEF IInv, RwLockIsSafe
<1> QED BY <1>1, InitOK, NextOK, PTL DEF Spec

----------------------------------------------------------------------------
(* Pipes. *)

USE RoomAssumption, CallAssumption

PipeIInv == PipeTypeOK /\ NoSleepWithWork

LEMMA PipeInitOK == PipeInit => PipeIInv
  BY DEF PipeInit, PipeIInv, PipeTypeOK, NoSleepWithWork, PipePC

\* Waking keeps a task in its call, and leaves nobody asleep.
LEMMA BroadcastOK ==
  ASSUME PipeTypeOK, NEW t \in Task, NEW p \in PipePC, pipepc' = PipeBroadcast(t, p)
  PROVE  /\ pipepc' \in [Task -> PipePC]
         /\ pipepc'[t] = p
         /\ \A u \in Task \ {t} :
              /\ pipepc'[u] \notin {"rwait", "wwait"}
              /\ pipepc'[u] \in {"read", "rwoken"} => pipepc[u] \in {"read", "rwait", "rwoken"}
              /\ pipepc'[u] \in {"write", "wwoken"} => pipepc[u] \in {"write", "wwait", "wwoken"}
  BY DEF PipeBroadcast, Woken, PipePC, PipeTypeOK

\* Steps that keep the bytes and the ends.
LEMMA QuietOK ==
  ASSUME PipeIInv, NEW t \in Task,
         \/ CallRead(t) \/ ReadEof(t) \/ ReadWait(t) \/ WriteWait(t)
         \/ Interrupted(t) \/ WritePipe(t) \/ CheckSignal(t)
         \/ \E n \in Count : CallWrite(t, n)
  PROVE  PipeIInv'
<1>1. CASE CallRead(t)
  BY <1>1 DEF PipeIInv, PipeTypeOK, NoSleepWithWork, PipePC, CallRead, PipeGoto
<1>2. CASE ReadEof(t)
  BY <1>2 DEF PipeIInv, PipeTypeOK, NoSleepWithWork, PipePC, ReadEof, PipeGoto
<1>3. CASE ReadWait(t)
  BY <1>3 DEF PipeIInv, PipeTypeOK, NoSleepWithWork, PipePC, ReadWait, AtRead, PipeGoto, WaitOr, nwriterfd
<1>4. CASE WriteWait(t)
  BY <1>4 DEF PipeIInv, PipeTypeOK, NoSleepWithWork, PipePC, WriteWait, AtWrite, PipeGoto, WaitOr, nreaderfd
<1>5. CASE Interrupted(t)
  BY <1>5 DEF PipeIInv, PipeTypeOK, NoSleepWithWork, PipePC, Interrupted, PipeGoto
<1>6. CASE WritePipe(t)
  BY <1>6 DEF PipeIInv, PipeTypeOK, NoSleepWithWork, PipePC, WritePipe, PipeGoto
<1>7. CASE CheckSignal(t)
  BY <1>7 DEF PipeIInv, PipeTypeOK, NoSleepWithWork, PipePC, CheckSignal
<1>8. CASE \E n \in Count : CallWrite(t, n)
  BY <1>8 DEF PipeIInv, PipeTypeOK, NoSleepWithWork, PipePC, CallWrite, PipeGoto
<1> QED
  BY <1>1, <1>2, <1>3, <1>4, <1>5, <1>6, <1>7, <1>8

\* A read leaves nobody asleep; its caller is back in user mode.
LEMMA ReadGetOK ==
  ASSUME PipeIInv, NEW t \in Task, NEW n \in Count, ReadGet(t, n)
  PROVE  PipeIInv'
<1>1. /\ pipepc' \in [Task -> PipePC] /\ pipepc'[t] = "user"
      /\ \A u \in Task \ {t} :
           /\ pipepc'[u] \notin {"rwait", "wwait"}
           /\ pipepc'[u] \in {"read", "rwoken"} => pipepc[u] \in {"read", "rwait", "rwoken"}
           /\ pipepc'[u] \in {"write", "wwoken"} => pipepc[u] \in {"write", "wwait", "wwoken"}
  BY BroadcastOK DEF ReadGet, PipeIInv, PipePC
<1>2. nbyte' \in 0 .. SIZE
  BY DEF ReadGet, Smaller, PipeIInv, PipeTypeOK
<1> QED
  BY <1>1, <1>2 DEF ReadGet, PipeIInv, PipeTypeOK, NoSleepWithWork

\* A write leaves nobody asleep but its caller, and him only at a full pipe.
LEMMA WritePutOK ==
  ASSUME PipeIInv, NEW t \in Task, WritePut(t)
  PROVE  PipeIInv'
<1> DEFINE n == Smaller(left[t], SIZE - nbyte)
           p == IF n = left[t] THEN "user" ELSE WaitOr(t, "wwait")
<1>1. /\ n \in Nat /\ n <= left[t] /\ nbyte + n \in 0 .. SIZE
      /\ n # left[t] => nbyte + n = SIZE
  BY DEF Smaller, PipeIInv, PipeTypeOK
<1>2. p \in PipePC /\ p \in {"user", "wwait"} /\ (p = "wwait" => n # left[t] /\ t \notin hassig)
  BY DEF PipePC, WaitOr
<1>3. pipepc' = PipeBroadcast(t, p)
  BY DEF WritePut
<1>4. /\ pipepc' \in [Task -> PipePC] /\ pipepc'[t] = p
      /\ \A u \in Task \ {t} :
           /\ pipepc'[u] \notin {"rwait", "wwait"}
           /\ pipepc'[u] \in {"read", "rwoken"} => pipepc[u] \in {"read", "rwait", "rwoken"}
           /\ pipepc'[u] \in {"write", "wwoken"} => pipepc[u] \in {"write", "wwait", "wwoken"}
  <2>1. PipeTypeOK
    BY DEF PipeIInv
  <2> HIDE DEF p
  <2> QED
    BY <1>2, <1>3, <2>1, BroadcastOK
<1>5. t \in writer /\ reader # {}
  BY DEF WritePut, AtWrite, nreaderfd, PipeIInv, PipeTypeOK
<1>6. nbyte' = nbyte + n /\ left' = [left EXCEPT ![t] = IF t \in hassig THEN 0 ELSE @ - n]
      /\ UNCHANGED <<reader, writer, hassig>>
  BY DEF WritePut
<1> HIDE DEF n, p
<1>7. PipeTypeOK'
  BY <1>1, <1>2, <1>4, <1>5, <1>6 DEF PipeIInv, PipeTypeOK
<1>8. NoSleepWithWork'
  BY <1>1, <1>2, <1>4, <1>5, <1>6 DEF NoSleepWithWork
<1> QED
  BY <1>7, <1>8 DEF PipeIInv

\* The last close of an end wakes everybody.
LEMMA CloseOK ==
  ASSUME PipeIInv, NEW t \in Task, CloseRead(t) \/ CloseWrite(t)
  PROVE  PipeIInv'
<1>1. CASE reader' # {} /\ CloseRead(t)
  BY <1>1 DEF CloseRead, PipeIInv, PipeTypeOK, NoSleepWithWork, PipePC
<1>2. CASE writer' # {} /\ CloseWrite(t)
  BY <1>2 DEF CloseWrite, PipeIInv, PipeTypeOK, NoSleepWithWork, PipePC
<1>3. CASE (reader' = {} /\ CloseRead(t)) \/ (writer' = {} /\ CloseWrite(t))
  <2>1. /\ pipepc' \in [Task -> PipePC] /\ pipepc'[t] = "user"
        /\ \A u \in Task \ {t} :
             /\ pipepc'[u] \notin {"rwait", "wwait"}
             /\ pipepc'[u] \in {"read", "rwoken"} => pipepc[u] \in {"read", "rwait", "rwoken"}
             /\ pipepc'[u] \in {"write", "wwoken"} => pipepc[u] \in {"write", "wwait", "wwoken"}
    BY <1>3, BroadcastOK DEF CloseRead, CloseWrite, PipeIInv, PipePC
  <2> QED
    BY <1>3, <2>1 DEF CloseRead, CloseWrite, PipeIInv, PipeTypeOK, NoSleepWithWork
<1> QED
  BY <1>1, <1>2, <1>3

LEMMA PipeNextOK == PipeIInv /\ [PipeNext]_pipevars => PipeIInv'
<1> SUFFICES ASSUME PipeIInv, [PipeNext]_pipevars PROVE PipeIInv'
  OBVIOUS
<1>1. CASE UNCHANGED pipevars
  BY <1>1 DEF pipevars, PipeIInv, PipeTypeOK, NoSleepWithWork
<1>2. ASSUME NEW t \in Task, Post(t)
      PROVE  PipeIInv'
  BY <1>2 DEF Post, Woken, PipeIInv, PipeTypeOK, NoSleepWithWork, PipePC
<1>3. ASSUME NEW t \in Task, NEW u \in Task, Fork(t, u)
      PROVE  PipeIInv'
  BY <1>3 DEF Fork, PipeIInv, PipeTypeOK, NoSleepWithWork, PipePC
<1> QED
  BY <1>1, <1>2, <1>3, QuietOK, ReadGetOK, WritePutOK, CloseOK DEF PipeNext

\* PipeTypeOK for every number of tasks: in particular a task that sleeps in read()
\* or write() has its end open, so ~pipe_t never runs under it.
THEOREM PipeTypeCorrect == PipeSpec => []PipeTypeOK
<1>1. PipeIInv => PipeTypeOK
  BY DEF PipeIInv
<1> QED
  BY <1>1, PipeInitOK, PipeNextOK, PTL DEF PipeSpec

\* No wakeup of a pipe is lost: whoever sleeps in read() or write() has nothing
\* to do and somebody to wait for.
THEOREM NoSleepWithWorkCorrect == PipeSpec => []NoSleepWithWork
<1>1. PipeIInv => NoSleepWithWork
  BY DEF PipeIInv
<1> QED
  BY <1>1, PipeInitOK, PipeNextOK, PTL DEF PipeSpec

----------------------------------------------------------------------------
(* The ring buffer, for every size of the room: the pointers stay          *)
(* consistent, and it implements the queue of module Fifo.                 *)

HIDE CallAssumption

Idx == 0 .. SIZE - 1
Ring == [room : [Idx -> Char], r : Idx, w : Idx, nbyte : 0 .. SIZE]

\* The write pointer is nbyte places behind the read pointer.
Good(f) == f \in Ring /\ f.w = Offset(f.r + f.nbyte)

\* Steps around the ring add up.
LEMMA OffsetAdd ==
  ASSUME NEW a \in Idx, NEW m \in 0 .. SIZE, NEW n \in 0 .. SIZE, m + n <= SIZE
  PROVE  /\ Offset(a + m) \in Idx
         /\ Offset(Offset(a + m) + n) = Offset(a + (m + n))
  BY DEF Offset, Idx

LEMMA StepBack ==
  ASSUME NEW a \in Idx, NEW n \in 0 .. SIZE
  PROVE  /\ Offset(a - 1) \in Idx
         /\ Offset(Offset(a - 1) + (n + 1)) = Offset(a + n) \/ n = SIZE
         /\ n > 0 => /\ Offset(Offset(a + n) + (-1)) = Offset(a + (n - 1))
                     /\ Offset(a + (n - 1)) \in Idx
         /\ \A k \in 2 .. n + 1 :
              n < SIZE => /\ Offset(Offset(a - 1) + k - 1) = Offset(a + (k - 1) - 1)
                          /\ Offset(Offset(a - 1) + k - 1) # Offset(a - 1)
                          /\ Offset(Offset(a - 1) + k - 1) \in Idx
<1>1. Offset(a - 1) = IF a = 0 THEN SIZE - 1 ELSE a - 1
  BY DEF Offset, Idx
<1>2. CASE a = 0
  BY <1>1, <1>2 DEF Offset, Idx
<1>3. CASE a # 0
  BY <1>1, <1>3 DEF Offset, Idx
<1> QED
  BY <1>2, <1>3

LEMMA OffsetBetween ==
  ASSUME NEW r \in Idx, NEW n \in 0 .. SIZE, NEW w, w = Offset(r + n)
  PROVE  /\ r < w => n = w - r
         /\ w < r => n = SIZE + w - r
         /\ r = w => n \in {0, SIZE}
  BY DEF Offset, Idx

LEMMA GoodParts == ASSUME Good(q) PROVE FifoqTypeOK /\ Check
<1>1. q \in Ring /\ q.r \in Idx /\ q.nbyte \in 0 .. SIZE /\ q.w = Offset(q.r + q.nbyte)
  BY DEF Good, Ring
<1>2. FifoqTypeOK
  BY <1>1 DEF FifoqTypeOK, Ring, Idx
<1>3. Check
  BY <1>1, OffsetBetween DEF Check
<1> QED
  BY <1>2, <1>3

----------------------------------------------------------------------------
(* What the two turns of the loops amount to. *)

LEMMA PutChunkIs ==
  ASSUME NEW f, Good(f), NEW bs \in Seq(Char)
  PROVE  LET n == Smaller(Len(bs), Maxwchunk(f))
             g == PutChunk(f, bs)
         IN  /\ n \in Nat /\ n <= Len(bs) /\ n <= SIZE - f.nbyte /\ n <= SIZE - f.w
             /\ Good(g) /\ g.r = f.r /\ g.nbyte = f.nbyte + n
             /\ \A i \in Idx : g.room[i] = IF i \in f.w .. f.w + n - 1
                                             THEN bs[i - f.w + 1] ELSE f.room[i]
<1> DEFINE n == Smaller(Len(bs), Maxwchunk(f))
           room == [i \in 0 .. SIZE - 1 |->
                      IF i \in f.w .. f.w + n - 1 THEN bs[i - f.w + 1] ELSE f.room[i]]
<1>1. /\ f.room \in [Idx -> Char] /\ f.r \in Idx /\ f.w \in Idx /\ f.nbyte \in 0 .. SIZE
      /\ f = [room |-> f.room, r |-> f.r, w |-> f.w, nbyte |-> f.nbyte]
  BY DEF Good, Ring
<1>2. n \in Nat /\ n <= Len(bs) /\ n <= SIZE - f.nbyte /\ n <= SIZE - f.w
  BY <1>1 DEF Smaller, Maxwchunk, Idx
<1>3. room \in [Idx -> Char]
  <2>1. ASSUME NEW i \in Idx, i \in f.w .. f.w + n - 1
        PROVE  bs[i - f.w + 1] \in Char
    <3>1. i - f.w + 1 \in 1 .. Len(bs)
      BY <1>1, <1>2, <2>1 DEF Idx
    <3> QED
      BY <3>1
  <2> QED
    BY <1>1, <2>1 DEF Idx
<1> HIDE DEF room, n
<1>4. PutChunk(f, bs) = [room |-> room, r |-> f.r, w |-> Offset(f.w + n), nbyte |-> f.nbyte + n]
  BY <1>1 DEF PutChunk, Adjustwptr, Store, n, room
<1>5. Offset(f.w + n) \in Idx /\ f.nbyte + n \in 0 .. SIZE
      /\ Offset(f.w + n) = Offset(f.r + (f.nbyte + n))
  <2>1. n \in 0 .. SIZE /\ f.nbyte + n <= SIZE /\ f.nbyte + n \in 0 .. SIZE /\ 0 \in 0 .. SIZE
        /\ n + 0 = n
    BY <1>1, <1>2 DEF Idx
  <2>2. f.w = Offset(f.r + f.nbyte)
    BY DEF Good
  <2>3. Offset(f.w + n) = Offset(f.r + (f.nbyte + n))
    BY <1>1, <2>1, <2>2, OffsetAdd
  <2>4. Offset(f.w + n) \in Idx
    BY <1>1, <2>1, OffsetAdd
  <2> QED
    BY <2>1, <2>3, <2>4
<1>6. Good(PutChunk(f, bs))
  BY <1>1, <1>3, <1>4, <1>5 DEF Good, Ring
<1>7. \A i \in Idx : room[i] = IF i \in f.w .. f.w + n - 1
                                 THEN bs[i - f.w + 1] ELSE f.room[i]
  BY DEF room, Idx
<1> QED
  BY <1>2, <1>4, <1>6, <1>7 DEF n

LEMMA GetChunkIs ==
  ASSUME NEW f, Good(f), NEW len \in Nat
  PROVE  LET n == Smaller(len, Maxrchunk(f))
             g == GetChunk(f, len)
         IN  /\ n \in Nat /\ n <= len /\ n <= f.nbyte /\ n <= SIZE - f.r
             /\ Good(g) /\ g.r = Offset(f.r + n) /\ g.nbyte = f.nbyte - n
             /\ g.room = f.room
<1> DEFINE n == Smaller(len, Maxrchunk(f))
<1>1. /\ f.room \in [Idx -> Char] /\ f.r \in Idx /\ f.w \in Idx /\ f.nbyte \in 0 .. SIZE
      /\ f = [room |-> f.room, r |-> f.r, w |-> f.w, nbyte |-> f.nbyte]
  BY DEF Good, Ring
<1>2. n \in Nat /\ n <= len /\ n <= f.nbyte /\ n <= SIZE - f.r
  BY <1>1 DEF Smaller, Maxrchunk, Idx
<1> HIDE DEF n
<1>3. GetChunk(f, len) = [room |-> f.room, r |-> Offset(f.r + n), w |-> f.w, nbyte |-> f.nbyte - n]
  BY <1>1 DEF GetChunk, Adjustrptr, n
<1>4. Offset(f.r + n) \in Idx /\ f.nbyte - n \in 0 .. SIZE
      /\ f.w = Offset(Offset(f.r + n) + (f.nbyte - n))
  <2>1. n \in 0 .. SIZE /\ f.nbyte - n \in 0 .. SIZE /\ n + (f.nbyte - n) = f.nbyte
        /\ f.nbyte <= SIZE
    BY <1>1, <1>2 DEF Idx
  <2>2. f.w = Offset(f.r + f.nbyte)
    BY DEF Good
  <2>3. Offset(f.r + n) \in Idx
        /\ Offset(Offset(f.r + n) + (f.nbyte - n)) = Offset(f.r + (n + (f.nbyte - n)))
    BY <1>1, <2>1, OffsetAdd
  <2> QED
    BY <2>1, <2>2, <2>3
<1> QED
  BY <1>1, <1>2, <1>3, <1>4 DEF Good, Ring, n

----------------------------------------------------------------------------
(* The contents of the ring. *)

Contents(f) == Bytes(f, f.nbyte)

\* A place that is written is no place of the contents.
LEMMA PlaceFree ==
  ASSUME NEW r \in Idx, NEW nb \in 0 .. SIZE, NEW w, w = Offset(r + nb),
         NEW n \in Nat, n <= SIZE - nb, n <= SIZE - w, NEW k \in 1 .. nb + n
  PROVE  /\ Offset(r + k - 1) \in Idx
         /\ k <= nb => Offset(r + k - 1) \notin w .. w + n - 1
         /\ k > nb => Offset(r + k - 1) \in w .. w + n - 1
         /\ k > nb => Offset(r + k - 1) - w + 1 = k - nb
<1>1. CASE r + nb < SIZE
  BY <1>1 DEF Offset, Idx
<1>2. CASE r + nb >= SIZE
  BY <1>2 DEF Offset, Idx
<1> QED
  BY <1>1, <1>2 DEF Idx

\* One turn of the loop appends a part of bs to the contents.
LEMMA PutChunkContents ==
  ASSUME NEW f, Good(f), NEW bs \in Seq(Char)
  PROVE  LET n == Smaller(Len(bs), Maxwchunk(f))
             g == PutChunk(f, bs)
         IN  \A k \in 1 .. f.nbyte + n :
               Contents(g)[k] = IF k <= f.nbyte THEN Contents(f)[k] ELSE bs[k - f.nbyte]
<1> DEFINE n == Smaller(Len(bs), Maxwchunk(f))
           g == PutChunk(f, bs)
<1>1. /\ n \in Nat /\ n <= Len(bs) /\ n <= SIZE - f.nbyte /\ n <= SIZE - f.w
      /\ Good(g) /\ g.r = f.r /\ g.nbyte = f.nbyte + n
      /\ \A i \in Idx : g.room[i] = IF i \in f.w .. f.w + n - 1
                                      THEN bs[i - f.w + 1] ELSE f.room[i]
  BY PutChunkIs
<1>2. f.r \in Idx /\ f.nbyte \in 0 .. SIZE /\ f.w = Offset(f.r + f.nbyte)
  BY DEF Good, Ring
<1> HIDE DEF n, g
<1> SUFFICES ASSUME NEW k \in 1 .. f.nbyte + n
             PROVE  Contents(g)[k] = IF k <= f.nbyte THEN Contents(f)[k]
                                     ELSE bs[k - f.nbyte]
  BY DEF n, g
<1> DEFINE i == Offset(f.r + k - 1)
<1>3. /\ i \in Idx
      /\ k <= f.nbyte => i \notin f.w .. f.w + n - 1
      /\ k > f.nbyte => i \in f.w .. f.w + n - 1
      /\ k > f.nbyte => i - f.w + 1 = k - f.nbyte
  BY <1>1, <1>2, PlaceFree
<1>4. Contents(g)[k] = g.room[i]
  BY <1>1 DEF Contents, Bytes
<1>5. k <= f.nbyte => Contents(f)[k] = f.room[i]
  BY <1>2 DEF Contents, Bytes
<1> HIDE DEF i
<1>6. CASE k <= f.nbyte
  BY <1>1, <1>3, <1>4, <1>5, <1>6
<1>7. CASE ~(k <= f.nbyte)
  <2>1. k > f.nbyte
    BY <1>2, <1>7
  <2> QED
    BY <1>1, <1>3, <1>4, <1>7, <2>1
<1> QED
  BY <1>6, <1>7

\* The arithmetic of the two turns, for a pointer at w.
LEMMA TwoTurns ==
  ASSUME NEW len \in Nat, NEW nb \in Nat, nb <= SIZE, NEW w \in Nat, w < SIZE,
         NEW m1, m1 = Smaller(len, Smaller(SIZE - nb, SIZE - w)),
         NEW w2, w2 = IF w + m1 >= SIZE THEN w + m1 - SIZE ELSE w + m1,
         NEW m2, m2 = Smaller(len - m1, Smaller(SIZE - (nb + m1), SIZE - w2))
  PROVE  /\ Smaller(len, SIZE - nb) \in Nat /\ Smaller(len, SIZE - nb) <= len
         /\ Smaller(len, SIZE - nb) = m1 + m2
<1>1. m1 \in Nat /\ w2 \in Nat
  BY DEF Smaller
<1>2. CASE m1 = len
  BY <1>1, <1>2 DEF Smaller
<1>3. CASE m1 = SIZE - nb
  BY <1>1, <1>3 DEF Smaller
<1>4. CASE m1 = SIZE - w
  <2>1. w2 = 0
    BY <1>1, <1>4
  <2> QED
    BY <1>1, <1>4, <2>1 DEF Smaller
<1> QED
  BY <1>2, <1>3, <1>4 DEF Smaller

\* putc(buf, len) puts as much as there is room for: two turns are enough.
LEMMA PutIs ==
  ASSUME NEW f, Good(f), NEW bs \in Seq(Char)
  PROVE  LET n == Smaller(Len(bs), SIZE - f.nbyte)
         IN  /\ n \in Nat /\ n <= Len(bs)
             /\ Good(Put(f, bs)) /\ Put(f, bs).nbyte = f.nbyte + n
             /\ \A k \in 1 .. f.nbyte + n :
                  Contents(Put(f, bs))[k] = IF k <= f.nbyte THEN Contents(f)[k]
                                            ELSE bs[k - f.nbyte]
<1> DEFINE n == Smaller(Len(bs), SIZE - f.nbyte)
           n1 == Smaller(Len(bs), Maxwchunk(f))
           g == PutChunk(f, bs)
           rest == Rest(f, bs)
           n2 == Smaller(Len(rest), Maxwchunk(g))
           h == PutChunk(g, rest)
<1>1. f.r \in Idx /\ f.w \in Idx /\ f.nbyte \in 0 .. SIZE /\ f.w = Offset(f.r + f.nbyte)
  BY DEF Good, Ring
<1>2. /\ n1 \in Nat /\ n1 <= Len(bs) /\ n1 <= SIZE - f.nbyte /\ n1 <= SIZE - f.w
      /\ Good(g) /\ g.r = f.r /\ g.nbyte = f.nbyte + n1
  BY PutChunkIs
<1>3. g.w \in Idx /\ g.nbyte \in 0 .. SIZE /\ g.w = Offset(f.w + n1)
  <2>1. g.w = Offset(f.w + n1)
    BY DEF PutChunk, Adjustwptr, Store
  <2> QED
    BY <1>2, <2>1 DEF Good, Ring
<1>4. /\ rest \in Seq(Char) /\ Len(rest) = Len(bs) - n1
      /\ \A k \in 1 .. Len(rest) : rest[k] = bs[k + n1]
  <2>1. rest = SubSeq(bs, n1 + 1, Len(bs))
    BY DEF Rest
  <2>2. n1 + 1 \in 1 .. Len(bs) + 1
    BY <1>2
  <2> HIDE DEF n1, rest
  <2> QED
    BY <2>1, <2>2, <1>2
<1>5. /\ n2 \in Nat /\ n2 <= Len(rest) /\ n2 <= SIZE - g.nbyte
      /\ Good(h) /\ h.nbyte = g.nbyte + n2
  BY <1>2, <1>4, PutChunkIs
<1>6. \A k \in 1 .. f.nbyte + n1 :
        Contents(g)[k] = IF k <= f.nbyte THEN Contents(f)[k] ELSE bs[k - f.nbyte]
  BY PutChunkContents
<1>7. \A k \in 1 .. g.nbyte + n2 :
        Contents(h)[k] = IF k <= g.nbyte THEN Contents(g)[k] ELSE rest[k - g.nbyte]
  BY <1>2, <1>4, PutChunkContents
<1>8. n \in Nat /\ n <= Len(bs) /\ n = n1 + n2
  <2>1. n1 = Smaller(Len(bs), Smaller(SIZE - f.nbyte, SIZE - f.w))
        /\ n2 = Smaller(Len(bs) - n1, Smaller(SIZE - (f.nbyte + n1), SIZE - g.w))
    BY <1>2, <1>4 DEF Maxwchunk
  <2>2. g.w = IF f.w + n1 >= SIZE THEN f.w + n1 - SIZE ELSE f.w + n1
    BY <1>1, <1>2, <1>3 DEF Offset, Idx
  <2>3. Len(bs) \in Nat
    OBVIOUS
  <2>4. f.w \in Nat /\ f.w < SIZE /\ f.nbyte \in Nat /\ f.nbyte <= SIZE
    BY <1>1 DEF Idx
  <2>5. n = Smaller(Len(bs), SIZE - f.nbyte)
    OBVIOUS
  <2> HIDE DEF n, n1, n2, g, rest
  <2> QED
    BY <2>1, <2>2, <2>3, <2>4, <2>5, TwoTurns
<1>9. Put(f, bs) = h
  BY DEF Put
<1> HIDE DEF n, n1, n2, g, h, rest
<1>10. ASSUME NEW k \in 1 .. f.nbyte + n
       PROVE  Contents(h)[k] = IF k <= f.nbyte THEN Contents(f)[k] ELSE bs[k - f.nbyte]
  <2>1. k \in 1 .. g.nbyte + n2
    BY <1>1, <1>2, <1>5, <1>8
  <2>2. CASE k <= g.nbyte
    BY <1>1, <1>2, <1>6, <1>7, <2>1, <2>2
  <2>3. CASE ~(k <= g.nbyte)
    <3>1. k - g.nbyte \in 1 .. Len(rest) /\ ~(k <= f.nbyte) /\ k - g.nbyte + n1 = k - f.nbyte
      BY <1>1, <1>2, <1>5, <2>1, <2>3
    <3> QED
      BY <1>4, <1>7, <2>1, <2>3, <3>1
  <2> QED
    BY <2>2, <2>3
<1>11. h.nbyte = f.nbyte + n
  BY <1>1, <1>2, <1>5, <1>8
<1> QED
  BY <1>5, <1>8, <1>9, <1>10, <1>11 DEF n

\* The two turns of getc together take as much as there is.
LEMMA GetTurns ==
  ASSUME NEW f, Good(f), NEW len \in Nat
  PROVE  LET n1 == Smaller(len, Maxrchunk(f))
             g == GetChunk(f, len)
             n2 == Smaller(len - n1, Maxrchunk(g))
         IN  /\ Smaller(len, f.nbyte) \in Nat /\ Smaller(len, f.nbyte) <= len
             /\ Smaller(len, f.nbyte) = n1 + n2
<1> DEFINE n == Smaller(len, f.nbyte)
           n1 == Smaller(len, Maxrchunk(f))
           g == GetChunk(f, len)
           n2 == Smaller(len - n1, Maxrchunk(g))
<1>1. f.r \in Idx /\ f.nbyte \in 0 .. SIZE
  BY DEF Good, Ring
<1>2. /\ n1 \in Nat /\ n1 <= len /\ n1 <= f.nbyte /\ n1 <= SIZE - f.r
      /\ g.r = Offset(f.r + n1) /\ g.nbyte = f.nbyte - n1
  BY GetChunkIs
<1>3. n1 = Smaller(len, Smaller(SIZE - (SIZE - f.nbyte), SIZE - f.r))
      /\ n2 = Smaller(len - n1, Smaller(SIZE - ((SIZE - f.nbyte) + n1), SIZE - g.r))
  <2>1. SIZE - (SIZE - f.nbyte) = f.nbyte /\ SIZE - ((SIZE - f.nbyte) + n1) = f.nbyte - n1
    BY <1>1, <1>2
  <2> QED
    BY <2>1, <1>2 DEF Maxrchunk
<1>4. g.r = IF f.r + n1 >= SIZE THEN f.r + n1 - SIZE ELSE f.r + n1
  BY <1>1, <1>2 DEF Offset, Idx
<1>5. f.r \in Nat /\ f.r < SIZE /\ SIZE - f.nbyte \in Nat /\ SIZE - f.nbyte <= SIZE
  BY <1>1 DEF Idx
<1>6. n = Smaller(len, SIZE - (SIZE - f.nbyte))
  BY <1>1
<1> HIDE DEF n, n1, n2, g
<1>7. n \in Nat /\ n <= len /\ n = n1 + n2
  BY <1>3, <1>4, <1>5, <1>6, TwoTurns
<1> QED
  BY <1>7 DEF n, n1, n2, g

\* getc(buf, len) takes as much as there is, again in two turns.
LEMMA GetIs ==
  ASSUME NEW f, Good(f), NEW len \in Nat
  PROVE  LET n == Smaller(len, f.nbyte)
         IN  /\ n \in Nat /\ n <= f.nbyte
             /\ Good(Get(f, len)) /\ Get(f, len).nbyte = f.nbyte - n
             /\ Get(f, len).room = f.room
             /\ Get(f, len).r = Offset(f.r + n)
<1> DEFINE n == Smaller(len, f.nbyte)
           n1 == Smaller(len, Maxrchunk(f))
           g == GetChunk(f, len)
           n2 == Smaller(len - n1, Maxrchunk(g))
           h == GetChunk(g, len - n1)
<1>1. f.r \in Idx /\ f.nbyte \in 0 .. SIZE
  BY DEF Good, Ring
<1>2. /\ n1 \in Nat /\ n1 <= len /\ n1 <= f.nbyte /\ n1 <= SIZE - f.r
      /\ Good(g) /\ g.r = Offset(f.r + n1) /\ g.nbyte = f.nbyte - n1 /\ g.room = f.room
  BY GetChunkIs
<1>3. len - n1 \in Nat
  BY <1>2
<1>4. /\ n2 \in Nat /\ n2 <= len - n1 /\ n2 <= g.nbyte /\ n2 <= SIZE - g.r
      /\ Good(h) /\ h.r = Offset(g.r + n2) /\ h.nbyte = g.nbyte - n2 /\ h.room = g.room
  BY <1>2, <1>3, GetChunkIs
<1>5. n \in Nat /\ n <= len /\ n = n1 + n2
  BY GetTurns
<1>6. Get(f, len) = h
  BY DEF Get
<1> HIDE DEF n, n1, n2, g, h
<1>7. h.nbyte = f.nbyte - n /\ n <= f.nbyte
  BY <1>1, <1>2, <1>4, <1>5
<1>8. h.r = Offset(f.r + n)
  <2>1. n1 \in 0 .. SIZE /\ n2 \in 0 .. SIZE /\ n1 + n2 <= SIZE
    BY <1>1, <1>2, <1>4, <1>5, <1>7
  <2> QED
    BY <1>1, <1>2, <1>4, <1>5, <2>1, OffsetAdd
<1> QED
  BY <1>2, <1>4, <1>5, <1>6, <1>7, <1>8 DEF n

\* What is left in the ring is the rest of the contents.
LEMMA GetContents ==
  ASSUME NEW f, Good(f), NEW len \in Nat
  PROVE  \A k \in 1 .. Get(f, len).nbyte :
           Contents(Get(f, len))[k] = Contents(f)[k + Smaller(len, f.nbyte)]
<1> DEFINE n == Smaller(len, f.nbyte)
           g == Get(f, len)
<1>1. /\ n \in Nat /\ n <= f.nbyte /\ g.nbyte = f.nbyte - n
      /\ g.room = f.room /\ g.r = Offset(f.r + n)
  BY GetIs
<1>2. f.r \in Idx /\ f.nbyte \in 0 .. SIZE
  BY DEF Good, Ring
<1> HIDE DEF n, g
<1> SUFFICES ASSUME NEW k \in 1 .. g.nbyte
             PROVE  Contents(g)[k] = Contents(f)[k + n]
  BY DEF n, g
<1>3. Contents(g)[k] = g.room[Offset(g.r + k - 1)]
  BY DEF Contents, Bytes
<1>4. k + n \in 1 .. f.nbyte
  BY <1>1, <1>2
<1>5. Contents(f)[k + n] = f.room[Offset(f.r + (k + n) - 1)]
  BY <1>4 DEF Contents, Bytes
<1>6. Offset(g.r + k - 1) = Offset(f.r + (k + n) - 1)
  <2>1. n \in 0 .. SIZE /\ k - 1 \in 0 .. SIZE /\ n + (k - 1) <= SIZE
        /\ n + (k - 1) = (k + n) - 1
    BY <1>1, <1>2, <1>4
  <2>2. Offset(Offset(f.r + n) + (k - 1)) = Offset(f.r + (n + (k - 1)))
        /\ Offset(f.r + n) \in Idx
    BY <1>2, <2>1, OffsetAdd
  <2>3. g.r + k - 1 = Offset(f.r + n) + (k - 1) /\ f.r + (k + n) - 1 = f.r + (n + (k - 1))
    BY <1>1, <1>2, <2>1, <2>2 DEF Idx
  <2> QED
    BY <2>2, <2>3
<1> QED
  BY <1>1, <1>3, <1>5, <1>6

\* peekc(buf, len) leaves the ring as it was.
LEMMA PeekIs ==
  ASSUME NEW f, Good(f), NEW len \in Nat
  PROVE  Peekc(f, len) = f
<1> DEFINE n == Smaller(len, f.nbyte)
           g == Get(f, len)
<1>1. f.r \in Idx /\ f.nbyte \in 0 .. SIZE
      /\ f = [room |-> f.room, r |-> f.r, w |-> f.w, nbyte |-> f.nbyte]
  BY DEF Good, Ring
<1>2. /\ n \in Nat /\ n <= f.nbyte /\ g.nbyte = f.nbyte - n
      /\ g.room = f.room /\ g.r = Offset(f.r + n)
  BY GetIs
<1>3. g.w = f.w
  BY DEF Get, GetChunk, Adjustrptr
<1> HIDE DEF n, g
<1>4. g.nbyte - f.nbyte = -n /\ g.nbyte - (-n) = f.nbyte
  BY <1>1, <1>2
<1>5. Offset(g.r + (-n)) = f.r
  BY <1>1, <1>2 DEF Offset, Idx
<1>6. Peekc(f, len) = [room |-> f.room, r |-> f.r, w |-> f.w, nbyte |-> f.nbyte]
  BY <1>2, <1>3, <1>4, <1>5 DEF Peekc, Adjustrptr, g
<1> QED
  BY <1>1, <1>6

\* ungetc puts one character in front.
LEMMA UngetIs ==
  ASSUME NEW f, Good(f), NEW c \in Char, ~Full(f)
  PROVE  LET g == Ungetc(f, c)
         IN  /\ Good(g) /\ g.nbyte = f.nbyte + 1
             /\ \A k \in 1 .. g.nbyte :
                  Contents(g)[k] = IF k = 1 THEN c ELSE Contents(f)[k - 1]
<1> DEFINE p == Offset(f.r - 1)
           room == [f.room EXCEPT ![p] = c]
           g == Ungetc(f, c)
<1>1. f.room \in [Idx -> Char] /\ f.r \in Idx /\ f.w \in Idx
      /\ f.nbyte \in 0 .. SIZE - 1 /\ f.w = Offset(f.r + f.nbyte)
  BY DEF Good, Ring, Full
<1>2. f.nbyte - (-1) = f.nbyte + 1 /\ f.r + (-1) = f.r - 1
  BY <1>1 DEF Idx
<1>3. g = [room |-> room, r |-> p, w |-> f.w, nbyte |-> f.nbyte + 1]
  BY <1>2 DEF Ungetc, Adjustrptr, Store
<1>0. f.nbyte \in 0 .. SIZE /\ f.nbyte # SIZE /\ f.nbyte < SIZE
  BY <1>1
<1>4. p \in Idx /\ f.w = Offset(p + (f.nbyte + 1))
  BY <1>0, <1>1, StepBack
<1>5. \A k \in 2 .. f.nbyte + 1 : /\ Offset(p + k - 1) = Offset(f.r + (k - 1) - 1)
                                  /\ Offset(p + k - 1) # p
                                  /\ Offset(p + k - 1) \in Idx
  BY <1>0, <1>1, StepBack
<1>6. Offset(p + 1 - 1) = p
  BY <1>4 DEF Offset, Idx
<1> HIDE DEF g, p
<1>7. room \in [Idx -> Char] /\ room[p] = c /\ \A i \in Idx : i # p => room[i] = f.room[i]
  BY <1>1, <1>4
<1> HIDE DEF room
<1>8. Good(g) /\ g.nbyte = f.nbyte + 1
  BY <1>1, <1>3, <1>4, <1>7 DEF Good, Ring
<1>9. ASSUME NEW k \in 1 .. f.nbyte + 1
      PROVE  Contents(g)[k] = IF k = 1 THEN c ELSE Contents(f)[k - 1]
  <2>1. Contents(g)[k] = room[Offset(p + k - 1)]
    BY <1>3 DEF Contents, Bytes
  <2>2. CASE k = 1
    BY <1>6, <1>7, <2>1, <2>2
  <2>3. CASE k # 1
    <3>1. k \in 2 .. f.nbyte + 1 /\ k - 1 \in 1 .. f.nbyte
      BY <1>1, <2>3
    <3>2. Contents(f)[k - 1] = f.room[Offset(f.r + (k - 1) - 1)]
      BY <3>1 DEF Contents, Bytes
    <3> QED
      BY <1>5, <1>7, <2>1, <2>3, <3>1, <3>2
  <2> QED
    BY <2>2, <2>3
<1> QED
  BY <1>8, <1>9 DEF g

\* unputc takes the last character back.
LEMMA UnputIs ==
  ASSUME NEW f, Good(f), ~Empty(f)
  PROVE  LET g == Unputc(f)
         IN  /\ Good(g) /\ g.nbyte = f.nbyte - 1
             /\ \A k \in 1 .. g.nbyte : Contents(g)[k] = Contents(f)[k]
             /\ g.room[g.w] = Contents(f)[f.nbyte]
<1> DEFINE g == Unputc(f)
<1>1. f.room \in [Idx -> Char] /\ f.r \in Idx /\ f.w \in Idx
      /\ f.nbyte \in 1 .. SIZE /\ f.w = Offset(f.r + f.nbyte)
  BY DEF Good, Ring, Empty
<1>2. f.nbyte + (-1) = f.nbyte - 1
  BY <1>1
<1>3. g = [room |-> f.room, r |-> f.r, w |-> Offset(f.w + (-1)), nbyte |-> f.nbyte - 1]
  BY <1>2 DEF Unputc, Adjustwptr
<1>4. Offset(f.w + (-1)) \in Idx /\ Offset(f.w + (-1)) = Offset(f.r + (f.nbyte - 1))
  <2>1. f.nbyte \in 0 .. SIZE /\ f.nbyte > 0
    BY <1>1
  <2> QED
    BY <1>1, <2>1, StepBack
<1> HIDE DEF g
<1>5. Good(g) /\ g.nbyte = f.nbyte - 1
  BY <1>1, <1>3, <1>4 DEF Good, Ring
<1>6. ASSUME NEW k \in 1 .. f.nbyte - 1
      PROVE  Contents(g)[k] = Contents(f)[k]
  BY <1>1, <1>3 DEF Contents, Bytes
<1>7. g.room[g.w] = Contents(f)[f.nbyte]
  <2>1. Contents(f)[f.nbyte] = f.room[Offset(f.r + f.nbyte - 1)]
    BY <1>1 DEF Contents, Bytes
  <2>2. f.r + f.nbyte - 1 = f.r + (f.nbyte - 1)
    BY <1>1 DEF Idx
  <2> QED
    BY <1>3, <1>4, <2>1, <2>2
<1> QED
  BY <1>5, <1>6, <1>7 DEF g

LEMMA InitqIs ==
  ASSUME NEW room \in [Idx -> Char]
  PROVE  Good(Initq(room)) /\ Initq(room).nbyte = 0
<1>1. 0 \in Idx /\ Offset(0 + 0) = 0 /\ 0 \in 0 .. SIZE
  BY DEF Idx, Offset
<1> QED
  BY <1>1 DEF Good, Ring, Initq

----------------------------------------------------------------------------
(* The theorems. *)

LEMMA RingInitOK == FifoqInit => Good(q)
<1> SUFFICES ASSUME NEW c \in Char, q = Initq([i \in 0 .. SIZE - 1 |-> c])
             PROVE  Good(q)
  BY DEF FifoqInit
<1>1. [i \in 0 .. SIZE - 1 |-> c] \in [Idx -> Char]
  BY DEF Idx
<1> QED
  BY <1>1, InitqIs

LEMMA RingNextOK == Good(q) /\ [FifoqNext]_ringvars => Good(q)'
<1> SUFFICES ASSUME Good(q), [FifoqNext]_ringvars PROVE Good(q')
  BY DEF Good
<1>1. CASE UNCHANGED ringvars
  BY <1>1 DEF ringvars
<1>2. ASSUME NEW n \in 1 .. SIZE, NEW bs \in [1 .. n -> Char], DoPut(bs)
      PROVE  Good(q')
  <2>1. bs \in Seq(Char)
    OBVIOUS
  <2> QED
    BY <1>2, <2>1, PutIs DEF DoPut
<1>3. ASSUME NEW n \in 1 .. SIZE, DoGet(n) \/ DoPeekc(n)
      PROVE  Good(q')
  <2>1. n \in Nat /\ (q' = Get(q, n) \/ q' = Peekc(q, n))
    BY <1>3 DEF DoGet, DoPeekc
  <2> QED
    BY <2>1, GetIs, PeekIs
<1>4. ASSUME NEW c \in Char, DoUngetc(c)
      PROVE  Good(q')
  BY <1>4, UngetIs DEF DoUngetc
<1>5. CASE DoUnputc
  BY <1>5, UnputIs DEF DoUnputc
<1>6. CASE DoClear
  <2>1. q.room \in [Idx -> Char]
    BY DEF Good, Ring
  <2> QED
    BY <1>6, <2>1, InitqIs DEF DoClear
<1> QED
  BY <1>1, <1>2, <1>3, <1>4, <1>5, <1>6 DEF FifoqNext

\* The read and the write pointer stay inside the room, for every size.
THEOREM RingTypeCorrect == FifoqSpec => []FifoqTypeOK
<1>1. Good(q) => FifoqTypeOK
  BY GoodParts
<1> QED
  BY <1>1, RingInitOK, RingNextOK, PTL DEF FifoqSpec

\* fifoq_t::check() never fails, for every size of the room.
THEOREM CheckCorrect == FifoqSpec => []Check
<1>1. Good(q) => Check
  BY GoodParts
<1> QED
  BY <1>1, RingInitOK, RingNextOK, PTL DEF FifoqSpec

----------------------------------------------------------------------------
(* Refinement. *)

LEMMA ContentsSeq ==
  ASSUME NEW f, Good(f)
  PROVE  Contents(f) \in Seq(Char) /\ Len(Contents(f)) = f.nbyte
<1>1. f.room \in [Idx -> Char] /\ f.r \in Idx /\ f.nbyte \in 0 .. SIZE
  BY DEF Good, Ring
<1>2. ASSUME NEW k \in 1 .. f.nbyte
      PROVE  f.room[Offset(f.r + k - 1)] \in Char
  <2>1. Offset(f.r + k - 1) \in Idx
    BY <1>1 DEF Offset, Idx
  <2> QED
    BY <1>1, <2>1
<1> QED
  BY <1>1, <1>2 DEF Contents, Bytes

\* Where the bytes of the two chunks lie.
LEMMA ChunkPlaces ==
  ASSUME NEW r \in Idx, NEW n1 \in Nat, n1 <= SIZE - r, NEW n2 \in Nat,
         NEW r2, r2 = Offset(r + n1), n2 <= SIZE - r2
  PROVE  /\ \A k \in 1 .. n1 : Offset(r + k - 1) = r + k - 1
         /\ \A k \in n1 + 1 .. n1 + n2 : Offset(r + k - 1) = r2 + (k - n1) - 1
<1>1. ASSUME NEW k \in 1 .. n1
      PROVE  Offset(r + k - 1) = r + k - 1
  BY <1>1 DEF Offset, Idx
<1>2. ASSUME NEW k \in n1 + 1 .. n1 + n2
      PROVE  Offset(r + k - 1) = r2 + (k - n1) - 1
  BY <1>2 DEF Offset, Idx
<1> QED
  BY <1>1, <1>2

\* getc(buf, len) copies out the oldest bytes, across the end of the room too.
LEMMA ReadedIs ==
  ASSUME NEW f, Good(f), NEW len \in Nat
  PROVE  Readed(f, len) = SubSeq(Contents(f), 1, Smaller(len, f.nbyte))
<1> DEFINE n == Smaller(len, f.nbyte)
           n1 == Smaller(len, Maxrchunk(f))
           g == GetChunk(f, len)
           n2 == Smaller(len - n1, Maxrchunk(g))
           s == Contents(f)
           x == Chunk(f, len)
           y == Chunk(g, len - n1)
           t == SubSeq(s, 1, n)
<1>1. f.room \in [Idx -> Char] /\ f.r \in Idx /\ f.nbyte \in 0 .. SIZE
  BY DEF Good, Ring
<1>2. /\ n1 \in Nat /\ n1 <= len /\ n1 <= f.nbyte /\ n1 <= SIZE - f.r
      /\ Good(g) /\ g.r = Offset(f.r + n1) /\ g.nbyte = f.nbyte - n1 /\ g.room = f.room
  BY GetChunkIs
<1>3. n2 \in Nat /\ n2 <= SIZE - g.r
  <2>1. len - n1 \in Nat
    BY <1>2
  <2> QED
    BY <1>2, <2>1, GetChunkIs
<1>4. n \in Nat /\ n = n1 + n2
  BY GetTurns
<1>5. n <= f.nbyte
  BY <1>1, GetIs
<1>6. x = [i \in 1 .. n1 |-> f.room[f.r + i - 1]]
  BY DEF Chunk
<1>7. y = [i \in 1 .. n2 |-> f.room[g.r + i - 1]]
  BY <1>2 DEF Chunk
<1>8. s \in Seq(Char) /\ Len(s) = f.nbyte
      /\ \A k \in 1 .. f.nbyte : s[k] = f.room[Offset(f.r + k - 1)]
  BY ContentsSeq DEF Contents, Bytes
<1>9. Readed(f, len) = x \o y
  BY DEF Readed
<1> HIDE DEF n, n1, n2, g, s, x, y
<1>10. t \in Seq(Char) /\ Len(t) = n /\ \A i \in 1 .. n : t[i] = s[i]
  BY <1>4, <1>5, <1>8
<1> HIDE DEF t
<1>11. /\ \A k \in 1 .. n1 : Offset(f.r + k - 1) = f.r + k - 1
       /\ \A k \in n1 + 1 .. n1 + n2 : Offset(f.r + k - 1) = g.r + (k - n1) - 1
  BY <1>1, <1>2, <1>3, ChunkPlaces
<1>12. x \in Seq(Char) /\ Len(x) = n1 /\ \A k \in 1 .. n1 : x[k] = s[k]
  <2>1. ASSUME NEW k \in 1 .. n1
        PROVE  x[k] = s[k] /\ x[k] \in Char
    <3>1. k \in 1 .. f.nbyte
      BY <1>1, <1>2
    <3>2. s[k] \in Char
      BY <1>1, <1>8, <3>1
    <3> QED
      BY <1>6, <1>8, <1>11, <3>1, <3>2
  <2>2. x \in [1 .. n1 -> Char]
    BY <1>6, <2>1
  <2> QED
    BY <1>2, <2>1, <2>2
<1>13. y \in Seq(Char) /\ Len(y) = n2 /\ \A k \in 1 .. n2 : y[k] = s[n1 + k]
  <2>1. ASSUME NEW k \in 1 .. n2
        PROVE  y[k] = s[n1 + k] /\ y[k] \in Char
    <3>1. n1 + k \in 1 .. f.nbyte /\ n1 + k \in n1 + 1 .. n1 + n2 /\ (n1 + k) - n1 = k
      BY <1>1, <1>2, <1>3, <1>4, <1>5
    <3>2. s[n1 + k] \in Char
      BY <1>1, <1>8, <3>1
    <3>3. Offset(f.r + (n1 + k) - 1) = g.r + k - 1
      BY <1>11, <3>1
    <3> QED
      BY <1>7, <1>8, <3>1, <3>2, <3>3
  <2>2. y \in [1 .. n2 -> Char]
    BY <1>7, <2>1
  <2> QED
    BY <1>3, <2>1, <2>2
<1>14. /\ x \o y \in Seq(Char) /\ Len(x \o y) = n1 + n2
       /\ \A i \in 1 .. n1 + n2 : (x \o y)[i] = IF i <= n1 THEN x[i] ELSE y[i - n1]
  BY <1>12, <1>13, ConcatProperties
<1>15. ASSUME NEW i \in 1 .. n1 + n2
       PROVE  (x \o y)[i] = t[i]
  <2>1. CASE i <= n1
    BY <1>2, <1>4, <1>10, <1>12, <1>14, <2>1
  <2>2. CASE ~(i <= n1)
    <3>1. i - n1 \in 1 .. n2 /\ n1 + (i - n1) = i
      BY <1>2, <1>3, <2>2
    <3> QED
      BY <1>4, <1>10, <1>13, <1>14, <2>2, <3>1
  <2> QED
    BY <2>1, <2>2
<1>16. x \o y = t
  BY <1>2, <1>3, <1>4, <1>10, <1>14, <1>15, SeqEqual
<1> QED
  BY <1>9, <1>16 DEF t, s, n

LEMMA SmallerIsMin == \A a, b \in Int : Abstract!Min(a, b) = Smaller(a, b)
  BY DEF Abstract!Min, Smaller

LEMMA PutRefines ==
  ASSUME Good(q), NEW bs \in Seq(Char), DoPut(bs)
  PROVE  Abstract!Put(bs)
<1> DEFINE n == Smaller(Len(bs), SIZE - q.nbyte)
           s == Contents(q)
           t == SubSeq(bs, 1, n)
<1>1. q.nbyte \in 0 .. SIZE
  BY DEF Good, Ring
<1>2. /\ n \in Nat /\ n <= Len(bs)
      /\ Good(q') /\ q'.nbyte = q.nbyte + n
      /\ \A k \in 1 .. q.nbyte + n :
           Contents(q')[k] = IF k <= q.nbyte THEN s[k] ELSE bs[k - q.nbyte]
  BY PutIs DEF DoPut
<1>3. s \in Seq(Char) /\ Len(s) = q.nbyte /\ Contents(q') \in Seq(Char)
      /\ Len(Contents(q')) = q.nbyte + n
  BY <1>2, ContentsSeq
<1> HIDE DEF n, s
<1>4. t \in Seq(Char) /\ Len(t) = n /\ \A i \in 1 .. n : t[i] = bs[i]
  BY <1>2
<1> HIDE DEF t
<1>5. /\ s \o t \in Seq(Char) /\ Len(s \o t) = q.nbyte + n
      /\ \A i \in 1 .. q.nbyte + n : (s \o t)[i] = IF i <= q.nbyte THEN s[i] ELSE t[i - q.nbyte]
  <2>1. /\ s \o t \in Seq(Char) /\ Len(s \o t) = Len(s) + Len(t)
        /\ \A i \in 1 .. Len(s) + Len(t) : (s \o t)[i] = IF i <= Len(s) THEN s[i] ELSE t[i - Len(s)]
    BY ONLY <1>3, <1>4, ConcatProperties
  <2> QED BY ONLY <1>3, <1>4, <2>1
<1>6. ASSUME NEW i \in 1 .. q.nbyte + n
      PROVE  Contents(q')[i] = (s \o t)[i]
  <2>1. CASE i <= q.nbyte
    BY <1>2, <1>5, <2>1
  <2>2. CASE ~(i <= q.nbyte)
    <3>1. i - q.nbyte \in 1 .. n
      BY <1>1, <1>2, <2>2
    <3> QED
      BY <1>2, <1>4, <1>5, <2>2, <3>1
  <2> QED
    BY <2>1, <2>2
<1>7. Contents(q') = s \o t
  BY <1>3, <1>5, <1>6, SeqEqual
<1>8. Abstract!Min(Len(bs), SIZE - Len(s)) = n
  BY <1>1, <1>3, SmallerIsMin DEF n
<1>9. call' = <<"putc", bs, n>>
  <2>1. call' = <<"putc", bs, q'.nbyte - q.nbyte>>
    BY DEF DoPut, Written
  <2>2. q'.nbyte - q.nbyte = n
    BY <1>1, <1>2
  <2> QED
    BY <2>1, <2>2
<1> QED
  BY <1>7, <1>8, <1>9 DEF Abstract!Put, s, t, Contents

LEMMA GetRefines ==
  ASSUME Good(q), NEW n \in 1 .. SIZE, DoGet(n)
  PROVE  Abstract!Get(n)
<1> DEFINE m == Smaller(n, q.nbyte)
           s == Contents(q)
           t == SubSeq(s, m + 1, Len(s))
<1>1. q.nbyte \in 0 .. SIZE
  BY DEF Good, Ring
<1>2. m \in Nat /\ m <= q.nbyte /\ Good(q') /\ q'.nbyte = q.nbyte - m
      /\ \A k \in 1 .. q'.nbyte : Contents(q')[k] = s[k + m]
  <2>1. n \in Nat /\ q' = Get(q, n)
    BY DEF DoGet
  <2>2. m \in Nat /\ m <= q.nbyte /\ Good(q') /\ q'.nbyte = q.nbyte - m
    BY <2>1, GetIs
  <2>3. \A k \in 1 .. q'.nbyte : Contents(q')[k] = s[k + m]
    BY <2>1, GetContents
  <2> QED
    BY <2>2, <2>3
<1>3. s \in Seq(Char) /\ Len(s) = q.nbyte /\ Contents(q') \in Seq(Char)
      /\ Len(Contents(q')) = q.nbyte - m
  BY <1>2, ContentsSeq
<1> HIDE DEF m, s
<1>4. t \in Seq(Char) /\ Len(t) = q.nbyte - m /\ \A i \in 1 .. q.nbyte - m : t[i] = s[i + m]
  <2> DEFINE e == Len(s)
  <2>1. m + 1 \in 1 .. e + 1 /\ e \in (m + 1) - 1 .. e /\ e - (m + 1) + 1 = q.nbyte - m
        /\ (IF m + 1 <= e THEN e - (m + 1) + 1 ELSE 0) = q.nbyte - m
    BY <1>1, <1>2, <1>3
  <2>2. /\ t \in Seq(Char) /\ Len(t) = q.nbyte - m
        /\ \A i \in 1 .. q.nbyte - m : t[i] = s[(m + 1) + i - 1]
    BY <1>3, <2>1, SubSeqProperties
  <2>3. \A i \in 1 .. q.nbyte - m : (m + 1) + i - 1 = i + m
    BY <1>1, <1>2
  <2> QED
    BY <2>2, <2>3
<1> HIDE DEF t
<1>5. Contents(q') = t
  BY <1>2, <1>3, <1>4, SeqEqual
<1>6. Abstract!Min(n, Len(s)) = m
  BY <1>1, <1>3, SmallerIsMin DEF m
<1>7. call' = <<"getc", n, SubSeq(s, 1, m)>>
  <2>1. n \in Nat
    OBVIOUS
  <2>2. Readed(q, n) = SubSeq(s, 1, m)
    BY <2>1, ReadedIs DEF s, m
  <2> QED
    BY <2>2 DEF DoGet
<1> QED
  BY <1>5, <1>6, <1>7 DEF Abstract!Get, Abstract!Oldest, s, t, Contents

LEMMA PeekRefines ==
  ASSUME Good(q), NEW n \in 1 .. SIZE, DoPeekc(n)
  PROVE  Abstract!Peek(n)
<1> DEFINE m == Smaller(n, q.nbyte)
           s == Contents(q)
<1>1. q.nbyte \in 0 .. SIZE /\ n \in Nat
  BY DEF Good, Ring
<1>2. q' = q
  BY <1>1, PeekIs DEF DoPeekc
<1>3. Len(s) = q.nbyte
  BY ContentsSeq
<1>4. call' = <<"peekc", n, SubSeq(s, 1, m)>>
  BY <1>1, ReadedIs DEF DoPeekc
<1>5. Abstract!Min(n, Len(s)) = m
  BY <1>1, <1>3, SmallerIsMin
<1> HIDE DEF m, s
<1>6. Contents(q') = s
  BY <1>2 DEF s, Contents
<1> QED
  BY <1>4, <1>5, <1>6 DEF Abstract!Peek, Abstract!Oldest, s, Contents

LEMMA UngetRefines ==
  ASSUME Good(q), NEW c \in Char, DoUngetc(c)
  PROVE  Abstract!Unget(c)
<1> DEFINE s == Contents(q)
           t == <<c>> \o s
<1>1. q.nbyte \in 0 .. SIZE /\ q.nbyte < SIZE
  BY DEF Good, Ring, DoUngetc, Full
<1>2. /\ Good(q') /\ q'.nbyte = q.nbyte + 1
      /\ \A k \in 1 .. q'.nbyte : Contents(q')[k] = IF k = 1 THEN c ELSE s[k - 1]
  BY UngetIs DEF DoUngetc
<1>3. s \in Seq(Char) /\ Len(s) = q.nbyte /\ Contents(q') \in Seq(Char)
      /\ Len(Contents(q')) = q.nbyte + 1
  BY <1>2, ContentsSeq
<1> HIDE DEF s
<1>4. <<c>> \in Seq(Char) /\ Len(<<c>>) = 1 /\ <<c>>[1] = c
  OBVIOUS
<1>5. /\ t \in Seq(Char) /\ Len(t) = 1 + q.nbyte
      /\ \A i \in 1 .. 1 + q.nbyte : t[i] = IF i <= 1 THEN <<c>>[i] ELSE s[i - 1]
  BY <1>3, <1>4, ConcatProperties
<1> HIDE DEF t
<1>6. \A i \in 1 .. q.nbyte + 1 : Contents(q')[i] = t[i]
  BY <1>1, <1>2, <1>4, <1>5
<1>7. Contents(q') = t
  BY <1>1, <1>3, <1>5, <1>6, SeqEqual
<1>8. call' = <<"ungetc", c>>
  BY DEF DoUngetc
<1> QED
  BY <1>1, <1>3, <1>7, <1>8 DEF Abstract!Unget, s, t, Contents

LEMMA UnputRefines ==
  ASSUME Good(q), DoUnputc
  PROVE  Abstract!Unput
<1> DEFINE s == Contents(q)
           t == SubSeq(s, 1, Len(s) - 1)
<1>1. q.nbyte \in 1 .. SIZE
  BY DEF Good, Ring, DoUnputc, Empty
<1>2. /\ Good(q') /\ q'.nbyte = q.nbyte - 1
      /\ \A k \in 1 .. q'.nbyte : Contents(q')[k] = s[k]
      /\ call' = <<"unputc", s[q.nbyte]>>
  BY UnputIs DEF DoUnputc
<1>3. s \in Seq(Char) /\ Len(s) = q.nbyte /\ Contents(q') \in Seq(Char)
      /\ Len(Contents(q')) = q.nbyte - 1
  BY <1>2, ContentsSeq
<1> HIDE DEF s
<1>4. t \in Seq(Char) /\ Len(t) = q.nbyte - 1 /\ \A i \in 1 .. q.nbyte - 1 : t[i] = s[i]
  BY <1>1, <1>3
<1> HIDE DEF t
<1>5. Contents(q') = t
  BY <1>2, <1>3, <1>4, SeqEqual
<1>6. s # << >>
  BY <1>1, <1>3
<1> QED
  BY <1>2, <1>3, <1>5, <1>6 DEF Abstract!Unput, s, t, Contents

LEMMA EmptyContents == ASSUME NEW f, f.nbyte = 0 PROVE Bytes(f, f.nbyte) = << >>
  BY DEF Bytes

LEMMA StepRefines ==
  ASSUME Good(q), [FifoqNext]_ringvars
  PROVE  [Abstract!Next]_<<Bytes(q, q.nbyte), call>>
<1>1. CASE UNCHANGED ringvars
  BY <1>1 DEF Bytes, ringvars
<1>2. ASSUME NEW n \in 1 .. SIZE, NEW bs \in [1 .. n -> Char], DoPut(bs)
      PROVE  Abstract!Next
  <2>1. bs \in Seq(Char) /\ n \in 0 .. SIZE
    OBVIOUS
  <2>2. Abstract!Put(bs)
    BY <1>2, <2>1, PutRefines
  <2> QED
    BY <2>1, <2>2 DEF Abstract!Next
<1>3. ASSUME NEW n \in 1 .. SIZE, DoGet(n)
      PROVE  Abstract!Next
  BY <1>3, GetRefines DEF Abstract!Next
<1>4. ASSUME NEW n \in 1 .. SIZE, DoPeekc(n)
      PROVE  Abstract!Next
  BY <1>4, PeekRefines DEF Abstract!Next
<1>5. ASSUME NEW c \in Char, DoUngetc(c)
      PROVE  Abstract!Next
  BY <1>5, UngetRefines DEF Abstract!Next
<1>6. CASE DoUnputc
  BY <1>6, UnputRefines DEF Abstract!Next
<1>7. CASE DoClear
  <2>1. q.room \in [Idx -> Char]
    BY DEF Good, Ring
  <2>2. q'.nbyte = 0
    BY <1>7, <2>1, InitqIs DEF DoClear
  <2>3. Bytes(q', q'.nbyte) = << >>
    BY <2>2, EmptyContents
  <2> QED
    BY <1>7, <2>3 DEF DoClear, Abstract!Next, Abstract!Clear
<1> QED
  BY <1>1, <1>2, <1>3, <1>4, <1>5, <1>6, <1>7 DEF FifoqNext

\* The ring buffer, chunks and all, is a bounded first-in first-out queue, for
\* every size of the room.
THEOREM FifoCorrect == FifoqSpec => ImplementsFifo
<1>1. FifoqInit => Abstract!Init
  <2> SUFFICES ASSUME NEW c \in Char, q = Initq([i \in 0 .. SIZE - 1 |-> c])
               PROVE  Bytes(q, q.nbyte) = << >>
    BY DEF FifoqInit, Abstract!Init
  <2>1. q.nbyte = 0
    BY DEF Initq
  <2> QED
    BY <2>1, EmptyContents
<1> QED
  BY <1>1, RingInitOK, RingNextOK, StepRefines, PTL DEF FifoqSpec, ImplementsFifo, Abstract!Spec

----------------------------------------------------------------------------
(* iolock_t. *)

\* The task that has the processor is the only one in the kernel; the lock is
\* held by that task, or by the disk, or by nobody; a later turn of the loop is
\* known by the history.
Got == \E t \in Task : iopc[t] = "got"
IoInv ==
  /\ locked \in BOOLEAN /\ inflight \in BOOLEAN /\ iopc \in [Task -> IoPC]
  /\ \A t \in Task : iopc[t] \in {"first", "again", "doze", "got"} => curr = t
  /\ locked <=> inflight \/ Got
  /\ ~(inflight /\ Got)
  /\ \A t \in Task : iopc[t] \in {"again", "doze"} => t \in again
  /\ FirstSleepIsWoken

LEMMA IoInitInv == IoInit => IoInv
  BY DEF IoInit, IoInv, IoPC, Got, FirstSleepIsWoken

LEMMA IoSetPc ==
  ASSUME IoInv, NEW t \in Task, NEW p \in IoPC, IoGoto(t, p)
  PROVE  iopc' \in [Task -> IoPC] /\ iopc'[t] = p /\ \A u \in Task \ {t} : iopc'[u] = iopc[u]
  BY DEF IoGoto, IoInv

LEMMA IoLeave ==
  ASSUME IoInv, NEW t \in Task, iopc[t] \in {"first", "again"}, Leave(t)
  PROVE  IoInv'
<1>1. CASE op[t] = "lock"
  <2>1. iopc' \in [Task -> IoPC] /\ iopc'[t] = "got" /\ \A u \in Task \ {t} : iopc'[u] = iopc[u]
    BY <1>1, IoSetPc DEF Leave, IoPC
  <2> QED BY <1>1, <2>1, TaskAssumption DEF Leave, IoInv, Got, FirstSleepIsWoken
<1>2. CASE op[t] # "lock"
  <2>1. iopc' \in [Task -> IoPC] /\ iopc'[t] = "out" /\ \A u \in Task \ {t} : iopc'[u] = iopc[u]
    BY <1>2, IoSetPc DEF Leave, IoPC
  <2> QED BY <1>2, <2>1, TaskAssumption DEF Leave, IoInv, Got, FirstSleepIsWoken
<1> QED BY <1>1, <1>2

LEMMA IoSleep ==
  ASSUME IoInv, NEW t \in Task, iopc[t] \in {"first", "doze"}, iopc[t] = "first" => locked, Sleep(t)
  PROVE  IoInv'
<1>1. iopc' \in [Task -> IoPC] /\ iopc'[t] = "asleep" /\ \A u \in Task \ {t} : iopc'[u] = iopc[u]
  BY IoSetPc DEF Sleep, IoPC
<1> QED BY <1>1, TaskAssumption DEF Sleep, IoInv, Got, FirstSleepIsWoken

LEMMA IoNextInv == IoInv /\ [IoNext]_iovars => IoInv'
<1> SUFFICES ASSUME IoInv, [IoNext]_iovars PROVE IoInv'
  OBVIOUS
<1>1. ASSUME NEW t \in Task, NEW o, Enter(t, o) PROVE IoInv'
  <2>1. iopc' \in [Task -> IoPC] /\ iopc'[t] = "first" /\ \A u \in Task \ {t} : iopc'[u] = iopc[u]
    BY <1>1, IoSetPc DEF Enter, IoPC
  <2> QED BY <1>1, <2>1, TaskAssumption DEF Enter, IoInv, Got, FirstSleepIsWoken
<1>2. ASSUME NEW t \in Task, FirstTest(t) PROVE IoInv'
  BY <1>2, IoLeave, IoSleep DEF FirstTest
<1>3. ASSUME NEW t \in Task, Resume(t) PROVE IoInv'
  <2>1. iopc' \in [Task -> IoPC] /\ iopc'[t] = "again" /\ \A u \in Task \ {t} : iopc'[u] = iopc[u]
    BY <1>3, IoSetPc DEF Resume, IoPC
  <2> QED BY <1>3, <2>1, TaskAssumption DEF Resume, IoInv, Got, FirstSleepIsWoken
<1>4. ASSUME NEW t \in Task, TestAgain(t) PROVE IoInv'
  <2>1. CASE Leave(t)
    BY <1>4, <2>1, IoLeave DEF TestAgain
  <2>2. CASE IoGoto(t, "doze") /\ UNCHANGED <<locked, waitq, inflight, curr, op, nop, again>>
    <3>1. iopc' \in [Task -> IoPC] /\ iopc'[t] = "doze" /\ \A u \in Task \ {t} : iopc'[u] = iopc[u]
      BY <2>2, IoSetPc DEF IoPC
    <3> QED BY <1>4, <2>2, <3>1 DEF TestAgain, IoInv, Got, FirstSleepIsWoken
  <2> QED BY <1>4, <2>1, <2>2 DEF TestAgain
<1>5. ASSUME NEW t \in Task, SleepAgain(t) PROVE IoInv'
  BY <1>5, IoSleep DEF SleepAgain
<1>6. ASSUME NEW t \in Task, Submit(t) PROVE IoInv'
  <2>1. iopc' \in [Task -> IoPC] /\ iopc'[t] = "out" /\ \A u \in Task \ {t} : iopc'[u] = iopc[u]
    BY <1>6, IoSetPc DEF Submit, IoPC
  <2> QED BY <1>6, <2>1, TaskAssumption DEF Submit, IoInv, Got, FirstSleepIsWoken
<1>7. CASE IoUnlock
  BY <1>7 DEF IoUnlock, IoInv, IoPC, Got, FirstSleepIsWoken
<1>8. CASE UNCHANGED iovars
  BY <1>8 DEF iovars, IoInv, Got, FirstSleepIsWoken
<1> QED BY <1>1, <1>2, <1>3, <1>4, <1>5, <1>6, <1>7, <1>8 DEF IoNext, Step

LEMMA IoOneHolder == IoInv => OneHolder
<1> SUFFICES ASSUME IoInv PROVE OneHolder
  OBVIOUS
<1>1. CASE Got
  <2>1. PICK t \in Task : iopc[t] = "got"
    BY <1>1 DEF Got
  <2>2. {u \in Task : iopc[u] = "got"} = {t}
    BY <2>1 DEF IoInv
  <2>3. Cardinality({u \in Task : iopc[u] = "got"}) = 1
    BY <2>2, FS_Singleton
  <2> QED BY <1>1, <2>3 DEF IoInv, OneHolder
<1>2. CASE ~Got
  <2>1. {u \in Task : iopc[u] = "got"} = {}
    BY <1>2 DEF Got
  <2>2. Cardinality({u \in Task : iopc[u] = "got"}) = 0
    BY <2>1, FS_EmptySet
  <2> QED BY <1>2, <2>2 DEF IoInv, OneHolder
<1> QED BY <1>1, <1>2

(***************************************************************************)
(* For any number of tasks and calls an I/O lock has one holder, the task  *)
(* that took it or the disk that works for it, and a task that lock() or   *)
(* wait() put to sleep on its first test sleeps only while it is held.     *)
(***************************************************************************)
THEOREM LockIsSafeCorrect == IoSpec => []LockIsSafe
<1>1. IoInv => LockIsSafe
  BY IoOneHolder DEF IoInv, LockIsSafe
<1> QED BY <1>1, IoInitInv, IoNextInv, PTL DEF IoSpec

----------------------------------------------------------------------------
(***************************************************************************)
(* Local stream sockets.  LInv adds to the parts of ConnectionsAreSound    *)
(* what makes them inductive: who is in which call and on which socket,    *)
(* that the wait queues of the sockets link exactly the tasks that sleep,  *)
(* each once, and that clients queue only at servers that are bound.       *)
(***************************************************************************)

LCall == [op : {"user", "connect", "accept"}, s : LSock, asleep : BOOLEAN]
\* The types of what the calls read.
LTypeOK ==
  /\ live \subseteq LSock
  /\ bindi \in [LSock -> Path \cup {None}]
  /\ clientq \in [LSock -> Seq(LSock)]
  /\ input \in [LSock -> LPipe \cup {NoPipe}] /\ output \in [LSock -> LPipe \cup {NoPipe}]
  /\ retcode \in [LSock -> {"0", "EINTR", "ECONNREFUSED"}]
  /\ sockcall \in [LTask -> LCall]

\* Of the calls w: accept is on a server, connect on a client that is in no
\* other call, and both on sockets that exist.
CallsOK(w) ==
  \A t \in LTask :
    /\ w[t].op = "user" => ~w[t].asleep
    /\ w[t].op = "accept" => w[t].s \in live \cap Server
    /\ w[t].op = "connect" =>
         /\ w[t].s \in live \ Server
         /\ \A u \in LTask : w[u].op = "connect" /\ w[u].s = w[t].s => u = t

\* The queues link exactly the tasks that sleep in the calls w.
SleepersOK(w, lines) ==
  /\ lines \in [LSock -> Seq(LTask)]
  /\ \A s \in LSock : IsInjective(lines[s])
  /\ \A s \in LSock, t \in LTask : t \in ToSet(lines[s]) <=> w[t].asleep /\ w[t].s = s

\* Servers are bound, clients are queued there, once.
ClientsOK ==
  /\ \A s \in LSock : bindi[s] # None => s \in live \cap Server
  /\ \A s \in LSock : IsInjective(clientq[s])
  /\ \A s \in LSock : \A c \in ToSet(clientq[s]) :
       /\ s \in live \cap Server /\ c \in live \ Server /\ Pipes(c) = {}
       /\ \A k \in LSock \ {s} : c \notin ToSet(clientq[k])

\* The inductive invariant.
LInv ==
  /\ LTypeOK /\ CallsOK(sockcall) /\ SleepersOK(sockcall, sockq) /\ ClientsOK
  /\ ClientsAreQueued /\ AcceptorsAreWoken /\ SuccessIsTrue /\ PipesArePaired
----------------------------------------------------------------------------
(* Queues, each of whose members is linked once.                           *)

\* The first of a queue is unlinked by a signal.
LEMMA LineSignalled ==
  ASSUME NEW S, NEW l \in Seq(S), IsInjective(l), l # << >>
  PROVE  /\ Tail(l) \in Seq(S) /\ IsInjective(Tail(l))
         /\ Head(l) \in S /\ Head(l) \in ToSet(l)
         /\ ToSet(Tail(l)) = ToSet(l) \ {Head(l)}
         /\ Len(Tail(l)) = Len(l) - 1
<1> DEFINE r == Tail(l)
<1>1. /\ r \in Seq(S) /\ Len(r) = Len(l) - 1 /\ Len(l) \in Nat /\ Len(l) # 0
      /\ DOMAIN l = 1 .. Len(l) /\ DOMAIN r = 1 .. Len(r)
      /\ \A i \in 1 .. Len(r) : r[i] = l[i + 1]
      /\ Head(l) = l[1] /\ l[1] \in S
  OBVIOUS
<1> HIDE DEF r
<1>2. IsInjective(r)
  <2> SUFFICES ASSUME NEW i \in 1 .. Len(r), NEW j \in 1 .. Len(r), r[i] = r[j] PROVE i = j
    BY <1>1 DEF IsInjective
  <2>1. i + 1 \in 1 .. Len(l) /\ j + 1 \in 1 .. Len(l) /\ l[i + 1] = l[j + 1]
    BY <1>1
  <2>2. i + 1 = j + 1
    BY <1>1, <2>1 DEF IsInjective
  <2> QED BY <2>2
<1>3. ToSet(r) \subseteq ToSet(l) \ {l[1]}
  <2> SUFFICES ASSUME NEW i \in 1 .. Len(r) PROVE r[i] \in ToSet(l) /\ r[i] # l[1]
    BY <1>1 DEF ToSet
  <2>1. i + 1 \in 1 .. Len(l) /\ 1 \in 1 .. Len(l) /\ i + 1 # 1
    BY <1>1
  <2>2. l[i + 1] # l[1]
    BY <1>1, <2>1 DEF IsInjective
  <2> QED BY <1>1, <2>1, <2>2 DEF ToSet
<1>4. ToSet(l) \ {l[1]} \subseteq ToSet(r)
  <2> SUFFICES ASSUME NEW i \in 1 .. Len(l), l[i] # l[1] PROVE l[i] \in ToSet(r)
    BY <1>1 DEF ToSet
  <2>1. i - 1 \in 1 .. Len(r) /\ (i - 1) + 1 = i
    BY <1>1
  <2>2. r[i - 1] = l[i]
    BY <1>1, <2>1
  <2> QED BY <1>1, <2>1, <2>2 DEF ToSet
<1>5. l[1] \in ToSet(l)
  BY <1>1 DEF ToSet
<1> QED BY <1>1, <1>2, <1>3, <1>4, <1>5 DEF r

\* A task or a client that is not in a queue is linked at its tail.
LEMMA LineAppended ==
  ASSUME NEW S, NEW l \in Seq(S), IsInjective(l), NEW e \in S, e \notin ToSet(l)
  PROVE  /\ Append(l, e) \in Seq(S) /\ IsInjective(Append(l, e))
         /\ ToSet(Append(l, e)) = ToSet(l) \cup {e}
         /\ Len(Append(l, e)) = Len(l) + 1
<1> DEFINE r == Append(l, e)
<1>1. /\ r \in Seq(S) /\ Len(r) = Len(l) + 1 /\ Len(l) \in Nat
      /\ DOMAIN l = 1 .. Len(l) /\ DOMAIN r = 1 .. Len(r)
      /\ \A i \in 1 .. Len(l) : r[i] = l[i]
      /\ r[Len(l) + 1] = e
  OBVIOUS
<1> HIDE DEF r
<1>2. ToSet(r) = ToSet(l) \cup {e}
  BY <1>1 DEF ToSet
<1>3. IsInjective(r)
  BY <1>1 DEF ToSet, IsInjective
<1> QED BY <1>1, <1>2, <1>3 DEF r

\* The elements that stay when one is removed move up.
LEMMA RemoveAtIs ==
  ASSUME NEW S, NEW l \in Seq(S), NEW k \in 1 .. Len(l)
  PROVE  /\ RemoveAt(l, k) \in Seq(S)
         /\ Len(RemoveAt(l, k)) = Len(l) - 1
         /\ DOMAIN RemoveAt(l, k) = 1 .. Len(RemoveAt(l, k))
         /\ \A i \in 1 .. Len(RemoveAt(l, k)) : RemoveAt(l, k)[i] = IF i < k THEN l[i] ELSE l[i + 1]
<1>1. PICK n \in Nat : n = Len(l)
  OBVIOUS
<1>2. k \in 1 .. n /\ \A i \in 1 .. n : l[i] \in S
  BY <1>1
<1>3. \A i \in k + 1 .. n : l[i] \in S
  BY <1>2
<1>4. /\ SubSeq(l, k + 1, n) \in Seq(S)
      /\ Len(SubSeq(l, k + 1, n)) = IF k + 1 <= n THEN n - (k + 1) + 1 ELSE 0
      /\ \A i \in 1 .. n - (k + 1) + 1 : SubSeq(l, k + 1, n)[i] = l[k + 1 + i - 1]
  BY <1>2, <1>3, SubSeqProperties
<1>5. PICK b \in Seq(S) : b = SubSeq(l, k + 1, n)
  BY <1>4
<1>6. Len(b) = n - k
  BY <1>2, <1>4, <1>5
<1>7. ASSUME NEW i \in 1 .. n - k PROVE b[i] = l[i + k]
  <2>1. i \in 1 .. n - (k + 1) + 1 /\ k + 1 + i - 1 = i + k
    BY <1>2
  <2> QED BY <1>4, <1>5, <2>1
<1>8. \A i \in 1 .. k - 1 : l[i] \in S
  BY <1>2
<1>9. /\ SubSeq(l, 1, k - 1) \in Seq(S)
      /\ Len(SubSeq(l, 1, k - 1)) = k - 1
      /\ \A i \in 1 .. k - 1 : SubSeq(l, 1, k - 1)[i] = l[i]
  BY <1>2, <1>8
<1>10. PICK a \in Seq(S) : a = SubSeq(l, 1, k - 1)
  BY <1>9
<1>11. Len(a) = k - 1 /\ \A i \in 1 .. k - 1 : a[i] = l[i]
  BY <1>9, <1>10
<1>12. a \o b \in Seq(S) /\ Len(a \o b) = n - 1
  BY <1>2, <1>6, <1>11
<1>13. ASSUME NEW i \in 1 .. n - 1
       PROVE  (a \o b)[i] = IF i < k THEN l[i] ELSE l[i + 1]
  <2>1. CASE i < k
    <3>1. (a \o b)[i] = a[i]
      BY <1>2, <1>6, <1>11, <2>1
    <3> QED BY <1>2, <1>11, <2>1, <3>1
  <2>2. CASE ~(i < k)
    <3>1. (a \o b)[i] = b[i - (k - 1)]
      BY <1>2, <1>6, <1>11, <2>2
    <3>2. i - (k - 1) \in 1 .. n - k /\ (i - (k - 1)) + k = i + 1
      BY <1>2, <2>2
    <3> QED BY <1>7, <2>2, <3>1, <3>2
  <2> QED BY <2>1, <2>2
<1>14. RemoveAt(l, k) = a \o b
  BY <1>1, <1>5, <1>10 DEF RemoveAt
<1>15. DOMAIN (a \o b) = 1 .. Len(a \o b)
  OBVIOUS
<1> QED BY <1>1, <1>12, <1>13, <1>14, <1>15

\* One that leaves a queue from anywhere leaves the others.
LEMMA LineWithout ==
  ASSUME NEW S, NEW l \in Seq(S), IsInjective(l), NEW e
  PROVE  /\ Without(l, e) \in Seq(S) /\ IsInjective(Without(l, e))
         /\ ToSet(Without(l, e)) = ToSet(l) \ {e}
         /\ Len(Without(l, e)) <= Len(l)
<1>1. Len(l) \in Nat /\ DOMAIN l = 1 .. Len(l) /\ Len(l) <= Len(l)
  OBVIOUS
<1>2. CASE e \notin ToSet(l)
  BY <1>1, <1>2 DEF Without
<1>3. CASE e \in ToSet(l)
  <2> DEFINE k == CHOOSE i \in DOMAIN l : l[i] = e
             r == RemoveAt(l, k)
  <2>1. k \in 1 .. Len(l) /\ l[k] = e
    BY <1>1, <1>3 DEF ToSet
  <2>2. Without(l, e) = r
    BY <1>3 DEF Without
  <2> HIDE DEF k
  <2>3. /\ r \in Seq(S) /\ Len(r) = Len(l) - 1 /\ DOMAIN r = 1 .. Len(r)
        /\ \A i \in 1 .. Len(r) : r[i] = IF i < k THEN l[i] ELSE l[i + 1]
    BY <2>1, RemoveAtIs
  <2> HIDE DEF r
  <2>4. IsInjective(r)
    <3> SUFFICES ASSUME NEW i \in 1 .. Len(r), NEW j \in 1 .. Len(r), r[i] = r[j] PROVE i = j
      BY <2>3 DEF IsInjective
    <3> DEFINE at(m) == IF m < k THEN m ELSE m + 1
    <3>1. at(i) \in 1 .. Len(l) /\ at(j) \in 1 .. Len(l) /\ l[at(i)] = l[at(j)]
      BY <1>1, <2>1, <2>3
    <3>2. at(i) = at(j)
      <4> HIDE DEF at
      <4> QED BY <1>1, <3>1 DEF IsInjective
    <3> QED BY <2>1, <3>2
  <2>5. ToSet(r) \subseteq ToSet(l) \ {e}
    <3> SUFFICES ASSUME NEW i \in 1 .. Len(r) PROVE r[i] \in ToSet(l) /\ r[i] # e
      BY <2>3 DEF ToSet
    <3>1. PICK m \in 1 .. Len(l) : m # k /\ r[i] = l[m]
      BY <1>1, <2>1, <2>3
    <3>2. l[m] # l[k]
      BY <1>1, <2>1, <3>1 DEF IsInjective
    <3> QED BY <1>1, <2>1, <3>1, <3>2 DEF ToSet
  <2>6. ToSet(l) \ {e} \subseteq ToSet(r)
    <3> SUFFICES ASSUME NEW m \in 1 .. Len(l), l[m] # e PROVE l[m] \in ToSet(r)
      BY <1>1 DEF ToSet
    <3>1. m # k
      BY <2>1
    <3>2. PICK i \in 1 .. Len(r) : i = IF m < k THEN m ELSE m - 1
      BY <1>1, <2>1, <2>3, <3>1
    <3>3. r[i] = l[m]
      BY <1>1, <2>1, <2>3, <3>1, <3>2
    <3> QED BY <2>3, <3>3 DEF ToSet
  <2>7. Len(r) <= Len(l)
    BY <1>1, <2>3
  <2> QED BY <2>2, <2>3, <2>4, <2>5, <2>6, <2>7
<1> QED BY <1>2, <1>3
----------------------------------------------------------------------------
(* The sleepers of a socket.                                               *)

\* What waking the tasks of T does to a call.
LEMMA AwakeIs ==
  ASSUME sockcall \in [LTask -> LCall], NEW T, NEW t \in LTask
  PROVE  /\ Awake(T)[t] \in LCall
         /\ Awake(T)[t].op = sockcall[t].op /\ Awake(T)[t].s = sockcall[t].s
         /\ Awake(T)[t].asleep <=> sockcall[t].asleep /\ t \notin T
<1>1. PICK c \in LCall : c = sockcall[t]
  OBVIOUS
<1>2. CASE t \in T
  <2>1. Awake(T)[t] = [c EXCEPT !.asleep = FALSE]
    BY <1>1, <1>2 DEF Awake
  <2>2. /\ [c EXCEPT !.asleep = FALSE] \in LCall
        /\ [c EXCEPT !.asleep = FALSE].op = c.op /\ [c EXCEPT !.asleep = FALSE].s = c.s
        /\ [c EXCEPT !.asleep = FALSE].asleep = FALSE
    BY DEF LCall
  <2> QED BY <1>1, <1>2, <2>1, <2>2
<1>3. CASE t \notin T
  <2>1. Awake(T)[t] = c
    BY <1>1, <1>3 DEF Awake
  <2> QED BY <1>1, <1>3, <2>1
<1> QED BY <1>2, <1>3

\* The first sleepers of the sockets of S sleep there, and are its only heads.
LEMMA FirstIs ==
  ASSUME sockcall \in [LTask -> LCall], SleepersOK(sockcall, sockq), NEW S \in SUBSET LSock
  PROVE  /\ \A t \in First(S) : t \in LTask /\ sockcall[t].asleep /\ sockcall[t].s \in S
         /\ \A s \in S : sockq[s] # << >> => Head(sockq[s]) \in First(S)
         /\ \A s \in S, t \in LTask : t \in ToSet(sockq[s]) /\ t \in First(S) => t = Head(sockq[s])
<1>1. ASSUME NEW s \in LSock, sockq[s] # << >>
      PROVE  /\ Head(sockq[s]) \in LTask /\ Head(sockq[s]) \in ToSet(sockq[s])
             /\ sockcall[Head(sockq[s])].asleep /\ sockcall[Head(sockq[s])].s = s
  <2>1. sockq[s] \in Seq(LTask) /\ IsInjective(sockq[s])
    BY DEF SleepersOK
  <2>2. Head(sockq[s]) \in LTask /\ Head(sockq[s]) \in ToSet(sockq[s])
    BY <1>1, <2>1, LineSignalled
  <2> QED BY <2>2 DEF SleepersOK
<1>2. \A t \in First(S) : \E s \in S : sockq[s] # << >> /\ t = Head(sockq[s])
  BY DEF First
<1>3. \A s \in S : sockq[s] # << >> => Head(sockq[s]) \in First(S)
  BY DEF First
<1>4. ASSUME NEW s \in S, NEW t \in LTask, t \in ToSet(sockq[s]), t \in First(S)
      PROVE  t = Head(sockq[s])
  <2>1. PICK x \in S : sockq[x] # << >> /\ t = Head(sockq[x])
    BY <1>2, <1>4
  <2>2. sockcall[t].s = x
    BY <1>1, <2>1
  <2>3. sockcall[t].s = s
    BY <1>4 DEF SleepersOK
  <2> QED BY <2>1, <2>2, <2>3
<1> QED BY <1>1, <1>2, <1>3, <1>4

\* A signal on some sockets keeps queues and calls together.
LEMMA SignalledOK ==
  ASSUME sockcall \in [LTask -> LCall], SleepersOK(sockcall, sockq), NEW S \in SUBSET LSock
  PROVE  SleepersOK(Awake(First(S)), Signalled(S))
<1> DEFINE w == Awake(First(S))
           r == Signalled(S)
<1>1. ASSUME NEW s \in LSock
      PROVE  /\ r[s] \in Seq(LTask) /\ IsInjective(r[s])
             /\ \A t \in LTask : t \in ToSet(r[s]) <=> t \in ToSet(sockq[s]) /\ ~(s \in S /\ t \in First(S))
  <2>1. sockq[s] \in Seq(LTask) /\ IsInjective(sockq[s])
    BY DEF SleepersOK
  <2>2. CASE s \in S /\ sockq[s] # << >>
    <3>1. r[s] = Tail(sockq[s])
      BY <2>2 DEF Signalled
    <3>2. \A t \in LTask : t \in ToSet(sockq[s]) => (t \in First(S) <=> t = Head(sockq[s]))
      BY <2>2, FirstIs
    <3>3. /\ Tail(sockq[s]) \in Seq(LTask) /\ IsInjective(Tail(sockq[s]))
          /\ ToSet(Tail(sockq[s])) = ToSet(sockq[s]) \ {Head(sockq[s])}
      BY <2>1, <2>2, LineSignalled
    <3> HIDE DEF r
    <3> QED BY <2>2, <3>1, <3>2, <3>3
  <2>3. CASE ~(s \in S /\ sockq[s] # << >>)
    <3>1. r[s] = sockq[s]
      BY <2>3 DEF Signalled
    <3>2. sockq[s] = << >> => ToSet(sockq[s]) = {}
      BY DEF ToSet
    <3> HIDE DEF r
    <3> QED BY <2>1, <2>3, <3>1, <3>2
  <2> QED BY <2>2, <2>3
<1>2. r \in [LSock -> Seq(LTask)]
  <2>1. \A s \in LSock : r[s] \in Seq(LTask)
    BY <1>1
  <2> QED BY <2>1 DEF Signalled
<1>3. ASSUME NEW s \in LSock, NEW t \in LTask
      PROVE  t \in ToSet(r[s]) <=> w[t].asleep /\ w[t].s = s
  <2>1. t \in ToSet(sockq[s]) <=> sockcall[t].asleep /\ sockcall[t].s = s
    BY DEF SleepersOK
  <2>2. t \in First(S) => sockcall[t].s \in S
    BY FirstIs
  <2>3. w[t].s = sockcall[t].s /\ (w[t].asleep <=> sockcall[t].asleep /\ t \notin First(S))
    BY AwakeIs
  <2>4. t \in ToSet(r[s]) <=> t \in ToSet(sockq[s]) /\ ~(s \in S /\ t \in First(S))
    BY <1>1
  <2> HIDE DEF r, w
  <2> QED BY <2>1, <2>2, <2>3, <2>4
<1> HIDE DEF r, w
<1>4. SleepersOK(w, r)
  BY <1>1, <1>2, <1>3 DEF SleepersOK
<1> QED BY <1>4 DEF r, w

\* A task that is awake falls asleep at the tail of a queue.
LEMMA SleepsOK ==
  ASSUME NEW w \in [LTask -> LCall], NEW k, SleepersOK(w, k),
         NEW t \in LTask, NEW s \in LSock, NEW c \in LCall, ~w[t].asleep, c.asleep, c.s = s
  PROVE  SleepersOK([w EXCEPT ![t] = c], [k EXCEPT ![s] = Append(@, t)])
<1>1. k[s] \in Seq(LTask) /\ IsInjective(k[s]) /\ t \notin ToSet(k[s])
  BY DEF SleepersOK
<1>2. PICK l \in Seq(LTask) : l = Append(k[s], t)
  BY <1>1, LineAppended
<1>3. IsInjective(l) /\ ToSet(l) = ToSet(k[s]) \cup {t}
  BY <1>1, <1>2, LineAppended
<1>4. PICK k2 : k2 = [k EXCEPT ![s] = l]
  OBVIOUS
<1>5. k2 \in [LSock -> Seq(LTask)] /\ k2[s] = l /\ \A x \in LSock \ {s} : k2[x] = k[x]
  BY <1>4 DEF SleepersOK
<1>6. PICK w2 : w2 = [w EXCEPT ![t] = c]
  OBVIOUS
<1>7. w2[t] = c /\ \A u \in LTask \ {t} : w2[u] = w[u]
  BY <1>6
<1>8. \A x \in LSock : IsInjective(k2[x])
  BY <1>3, <1>5 DEF SleepersOK
<1>9. ASSUME NEW x \in LSock, NEW u \in LTask
      PROVE  u \in ToSet(k2[x]) <=> w2[u].asleep /\ w2[u].s = x
  <2>1. u \in ToSet(k[x]) <=> w[u].asleep /\ w[u].s = x
    BY DEF SleepersOK
  <2>2. CASE u = t
    BY <1>3, <1>5, <1>7, <2>1, <2>2
  <2>3. CASE u # t
    BY <1>3, <1>5, <1>7, <2>1, <2>3
  <2> QED BY <2>2, <2>3
<1>10. SleepersOK(w2, k2)
  BY <1>5, <1>8, <1>9 DEF SleepersOK
<1> QED BY <1>2, <1>4, <1>6, <1>10

\* A task that is awake is in no queue, and may go back to the user.
LEMMA StaysAwakeOK ==
  ASSUME NEW w \in [LTask -> LCall], NEW k, SleepersOK(w, k),
         NEW t \in LTask, ~w[t].asleep
  PROVE  /\ SleepersOK([w EXCEPT ![t] = InUser], k)
         /\ [w EXCEPT ![t] = InUser] \in [LTask -> LCall]
<1>1. PICK c \in LCall : c = InUser
  BY LocalAssumption DEF InUser, LCall
<1>2. ~c.asleep
  BY <1>1 DEF InUser
<1>3. PICK w2 : w2 = [w EXCEPT ![t] = c]
  OBVIOUS
<1>4. w2 \in [LTask -> LCall] /\ w2[t] = c /\ \A u \in LTask \ {t} : w2[u] = w[u]
  BY <1>3
<1>5. SleepersOK(w2, k)
  BY <1>2, <1>4 DEF SleepersOK
<1> QED BY <1>1, <1>3, <1>4, <1>5

\* A signal to a task takes it out of the queue that it sleeps in.
LEMMA InterruptedOK ==
  ASSUME sockcall \in [LTask -> LCall], SleepersOK(sockcall, sockq), NEW t \in LTask
  PROVE  SleepersOK(Awake({t}), [s \in LSock |-> Without(sockq[s], t)])
<1>1. PICK r : r = [s \in LSock |-> Without(sockq[s], t)]
  OBVIOUS
<1>2. PICK w : w = Awake({t})
  OBVIOUS
<1>3. ASSUME NEW s \in LSock
      PROVE  r[s] \in Seq(LTask) /\ IsInjective(r[s]) /\ ToSet(r[s]) = ToSet(sockq[s]) \ {t}
  <2>1. sockq[s] \in Seq(LTask) /\ IsInjective(sockq[s])
    BY DEF SleepersOK
  <2>2. r[s] = Without(sockq[s], t)
    BY <1>1
  <2> QED BY <2>1, <2>2, LineWithout
<1>4. r \in [LSock -> Seq(LTask)]
  <2>1. \A s \in LSock : Without(sockq[s], t) \in Seq(LTask)
    BY <1>1, <1>3
  <2> QED BY <1>1, <2>1
<1>5. ASSUME NEW s \in LSock, NEW u \in LTask
      PROVE  u \in ToSet(r[s]) <=> w[u].asleep /\ w[u].s = s
  <2>1. u \in ToSet(sockq[s]) <=> sockcall[u].asleep /\ sockcall[u].s = s
    BY DEF SleepersOK
  <2>2. w[u].s = sockcall[u].s /\ (w[u].asleep <=> sockcall[u].asleep /\ u \notin {t})
    BY <1>2, AwakeIs
  <2>3. u \in ToSet(r[s]) <=> u \in ToSet(sockq[s]) /\ u # t
    BY <1>3
  <2> QED BY <2>1, <2>2, <2>3
<1>6. SleepersOK(w, r)
  BY <1>3, <1>4, <1>5 DEF SleepersOK
<1> QED BY <1>1, <1>2, <1>6
----------------------------------------------------------------------------
(* The pipes.                                                              *)

\* A set of pipe numbers has a least one.
LEMMA LeastIs ==
  ASSUME NEW S \in SUBSET Nat, S # {}
  PROVE  Min(S) \in S /\ \A y \in S : Min(S) <= y
<1> DEFINE R == {ss \in Nat \X Nat : ss[1] < ss[2]}
<1>1. IsWellFoundedOn(R, Nat)
  BY NatLessThanWellFounded DEF OpToRel
<1>2. \E x \in S : \A y \in S : ~ (<<y, x>> \in R)
  <2> HIDE DEF R
  <2> QED BY <1>1, WFMin
<1>3. PICK x \in S : \A y \in S : ~ (<<y, x>> \in R)
  BY <1>2
<1>4. ASSUME NEW y \in S PROVE x <= y
  <2>1. ~(<<y, x>>[1] < <<y, x>>[2])
    BY <1>3
  <2>2. x \in Nat /\ y \in Nat
    OBVIOUS
  <2> QED BY <2>1, <2>2
<1> QED BY <1>4 DEF Min

\* The part of LTypeOK that is about pipes.
PipesTyped == input \in [LSock -> LPipe \cup {NoPipe}] /\ output \in [LSock -> LPipe \cup {NoPipe}]

\* The two pipes that a new connection takes are two, and no socket has them.
LEMMA NewPipes ==
  ASSUME Cardinality(Unused) >= 2
  PROVE  \E p, r \in LPipe :
           /\ p = Min(Unused) /\ r = Min(Unused \ {p}) /\ p # r
           /\ \A s \in LSock : {p, r} \cap {input[s], output[s]} = {}
<1>1. Unused \in SUBSET Nat /\ Unused \in SUBSET LPipe /\ IsFiniteSet(Unused)
  BY LocalAssumption, FS_Subset DEF Unused
<1>2. Unused # {}
  BY FS_EmptySet
<1>3. PICK p \in Unused : p = Min(Unused)
  BY <1>1, <1>2, LeastIs
<1>4. Unused \ {p} # {}
  <2>1. SUFFICES ASSUME Unused = {p} PROVE FALSE
    BY <1>3
  <2>2. Cardinality(Unused) = 1
    BY <2>1, FS_Singleton
  <2> QED BY <2>2
<1>5. PICK r \in Unused \ {p} : r = Min(Unused \ {p})
  <2>1. Unused \ {p} \in SUBSET Nat
    BY <1>1
  <2> QED BY <1>4, <2>1, LeastIs
<1>6. ASSUME NEW x \in Unused PROVE x # NoPipe /\ \A s \in LSock : x # input[s] /\ x # output[s]
  BY LocalAssumption DEF Unused, Pipes
<1>7. p # NoPipe /\ \A s \in LSock : p # input[s] /\ p # output[s]
  BY <1>6
<1>8. r # NoPipe /\ \A s \in LSock : r # input[s] /\ r # output[s]
  BY <1>6
<1> QED BY <1>1, <1>3, <1>5, <1>7, <1>8

\* pair() gives two sockets the two ends of two pipes that nobody has.
LEMMA PairOK ==
  ASSUME PipesTyped, PipesArePaired, NEW a \in LSock, NEW b \in LSock, a # b,
         Cardinality(Unused) >= 2, pair(a, b, Unused)
  PROVE  PipesTyped' /\ PipesArePaired'
<1>1. PICK p, r \in LPipe :
        /\ p = Min(Unused) /\ r = Min(Unused \ {p}) /\ p # r
        /\ \A s \in LSock : {p, r} \cap {input[s], output[s]} = {}
  BY NewPipes
<1>2. input' = [input EXCEPT ![b] = p, ![a] = r] /\ output' = [output EXCEPT ![a] = p, ![b] = r]
  BY <1>1 DEF pair
<1>3. PipesTyped'
  BY <1>1, <1>2 DEF PipesTyped
<1>4. /\ input'[b] = p /\ input'[a] = r /\ output'[a] = p /\ output'[b] = r
      /\ \A s \in LSock \ {a, b} : input'[s] = input[s] /\ output'[s] = output[s]
  BY <1>2 DEF PipesTyped
<1>5. p # NoPipe /\ r # NoPipe /\ \A s \in LSock : p # input[s] /\ p # output[s] /\ r # input[s] /\ r # output[s]
  BY <1>1, LocalAssumption
<1>6. PipesArePaired'
  BY <1>1, <1>4, <1>5 DEF PipesArePaired
<1> QED BY <1>3, <1>6

\* A client whose server end was closed keeps its ends of two such pipes.
LEMMA OneEndOK ==
  ASSUME PipesTyped, PipesArePaired, NEW a \in LSock, NEW p \in LPipe, NEW r \in LPipe, p # r,
         \A s \in LSock : {p, r} \cap {input[s], output[s]} = {},
         input' = [input EXCEPT ![a] = r], output' = [output EXCEPT ![a] = p]
  PROVE  PipesTyped' /\ PipesArePaired'
<1>1. PipesTyped'
  BY DEF PipesTyped
<1>2. /\ input'[a] = r /\ output'[a] = p
      /\ \A s \in LSock \ {a} : input'[s] = input[s] /\ output'[s] = output[s]
  BY DEF PipesTyped
<1>3. p # NoPipe /\ r # NoPipe /\ \A s \in LSock : p # input[s] /\ p # output[s] /\ r # input[s] /\ r # output[s]
  BY LocalAssumption
<1>4. PipesArePaired'
  BY <1>2, <1>3 DEF PipesArePaired
<1> QED BY <1>1, <1>4

\* Sockets that drop their ends of pipes leave the others paired.
LEMMA LeavesOK ==
  ASSUME PipesArePaired, PipesTyped',
         \A s \in LSock : input'[s] \in {input[s], NoPipe} /\ output'[s] \in {output[s], NoPipe}
  PROVE  PipesArePaired'
<1> SUFFICES ASSUME NEW s \in LSock, NEW k \in LSock
             PROVE  /\ s # k /\ input'[s] # NoPipe => input'[s] # input'[k]
                    /\ s # k /\ output'[s] # NoPipe => output'[s] # output'[k]
                    /\ input'[s] # NoPipe => input'[s] # output'[s]
                    /\ input'[s] # NoPipe /\ input'[s] = output'[k] /\ NoPipe \notin {output'[s], input'[k]} =>
                         output'[s] = input'[k]
  BY DEF PipesArePaired
<1>1. /\ input'[s] = input[s] \/ input'[s] = NoPipe
      /\ input'[k] = input[k] \/ input'[k] = NoPipe
      /\ output'[s] = output[s] \/ output'[s] = NoPipe
      /\ output'[k] = output[k] \/ output'[k] = NoPipe
  OBVIOUS
<1> QED BY <1>1 DEF PipesArePaired
----------------------------------------------------------------------------
(* The calls.                                                              *)

\* In a step, a task goes back to the user or stays in its call, where it does
\* not fall asleep.
Calm(u) ==
  \/ sockcall'[u].op = "user" /\ ~sockcall'[u].asleep
  \/ /\ sockcall'[u].op = sockcall[u].op /\ sockcall'[u].s = sockcall[u].s
     /\ sockcall'[u].asleep => sockcall[u].asleep
     /\ sockcall[u].op # "user" /\ sockcall[u].s \in live => sockcall[u].s \in live'

\* Steps in which no task enters a call keep the calls apart.
LEMMA CalmOK ==
  ASSUME CallsOK(sockcall), \A u \in LTask : Calm(u)
  PROVE  CallsOK(sockcall)'
<1> SUFFICES ASSUME NEW t \in LTask
             PROVE  /\ sockcall'[t].op = "user" => ~sockcall'[t].asleep
                    /\ sockcall'[t].op = "accept" => sockcall'[t].s \in live' \cap Server
                    /\ sockcall'[t].op = "connect" =>
                         /\ sockcall'[t].s \in live' \ Server
                         /\ \A u \in LTask : sockcall'[u].op = "connect" /\ sockcall'[u].s = sockcall'[t].s => u = t
  BY DEF CallsOK
<1>1. Calm(t) /\ \A u \in LTask : Calm(u)
  OBVIOUS
<1>2. /\ sockcall[t].op = "user" => ~sockcall[t].asleep
      /\ sockcall[t].op = "accept" => sockcall[t].s \in live \cap Server
      /\ sockcall[t].op = "connect" => sockcall[t].s \in live \ Server
      /\ sockcall[t].op = "connect" =>
           \A u \in LTask : sockcall[u].op = "connect" /\ sockcall[u].s = sockcall[t].s => u = t
  BY DEF CallsOK
<1>3. CASE sockcall'[t].op = "user" /\ ~sockcall'[t].asleep
  BY <1>3
<1>4. CASE ~(sockcall'[t].op = "user" /\ ~sockcall'[t].asleep)
  <2>1. /\ sockcall'[t].op = sockcall[t].op /\ sockcall'[t].s = sockcall[t].s
        /\ sockcall'[t].asleep => sockcall[t].asleep
        /\ sockcall[t].op # "user" /\ sockcall[t].s \in live => sockcall[t].s \in live'
    BY <1>1, <1>4 DEF Calm
  <2>2. sockcall'[t].op = "connect" =>
          \A u \in LTask : sockcall'[u].op = "connect" /\ sockcall'[u].s = sockcall'[t].s => u = t
    <3> SUFFICES ASSUME sockcall'[t].op = "connect", NEW u \in LTask,
                        sockcall'[u].op = "connect", sockcall'[u].s = sockcall'[t].s
                 PROVE  u = t
      OBVIOUS
    <3>1. sockcall[u].op = "connect" /\ sockcall[u].s = sockcall[t].s
      BY <1>1, <2>1 DEF Calm
    <3> QED BY <1>2, <2>1, <3>1
  <2> QED BY <1>2, <2>1, <2>2
<1> QED BY <1>3, <1>4

\* Who sleeps on a client is the one task that connects it, so that a signal
\* wakes it.
LEMMA ConnectIsWoken ==
  ASSUME sockcall \in [LTask -> LCall], CallsOK(sockcall), SleepersOK(sockcall, sockq),
         NEW S \in SUBSET LSock, NEW t \in LTask,
         sockcall[t].op = "connect", sockcall[t].asleep, sockcall[t].s \in S
  PROVE  t \in First(S)
<1>1. PICK c \in S : c = sockcall[t].s
  OBVIOUS
<1>2. sockq[c] \in Seq(LTask) /\ IsInjective(sockq[c]) /\ t \in ToSet(sockq[c])
  BY <1>1 DEF SleepersOK
<1>3. sockq[c] # << >>
  BY <1>2 DEF ToSet
<1>4. Head(sockq[c]) \in LTask /\ Head(sockq[c]) \in ToSet(sockq[c])
  BY <1>2, <1>3, LineSignalled
<1>5. PICK h \in LTask : h = Head(sockq[c])
  BY <1>4
<1>6. sockcall[h].asleep /\ sockcall[h].s = c
  BY <1>4, <1>5 DEF SleepersOK
<1>7. sockcall[h].op \in {"user", "connect", "accept"}
  BY DEF LCall
<1>8. sockcall[h].op = "connect"
  BY <1>1, <1>6, <1>7 DEF CallsOK
<1>9. h = t
  BY <1>1, <1>6, <1>8 DEF CallsOK
<1>10. Head(sockq[c]) \in First(S)
  BY <1>3, FirstIs
<1> QED BY <1>5, <1>9, <1>10

\* Who sleeps on what is no server is in connect.
LEMMA OnClient ==
  ASSUME sockcall \in [LTask -> LCall], CallsOK(sockcall), NEW t \in LTask,
         sockcall[t].asleep, sockcall[t].s \notin Server
  PROVE  sockcall[t].op = "connect"
<1>1. sockcall[t].op \in {"user", "connect", "accept"}
  BY DEF LCall
<1> QED BY <1>1 DEF CallsOK

\* Who sleeps on a server is in accept.
LEMMA OnServer ==
  ASSUME sockcall \in [LTask -> LCall], CallsOK(sockcall), NEW t \in LTask,
         sockcall[t].asleep, sockcall[t].s \in Server
  PROVE  sockcall[t].op = "accept"
<1>1. sockcall[t].op \in {"user", "connect", "accept"}
  BY DEF LCall
<1> QED BY <1>1 DEF CallsOK

\* AcceptorsAreWoken of one server.
Enough(s) ==
  (\E t \in LTask : sockcall[t].op = "accept" /\ sockcall[t].asleep /\ sockcall[t].s = s) =>
    Len(clientq[s]) <= Cardinality(Comers(s))

\* The tasks that are awake in accept can be counted.
LEMMA ComersFinite == \A s : IsFiniteSet(Comers(s)) /\ Cardinality(Comers(s)) \in Nat
<1> TAKE s
<1>1. Comers(s) \subseteq LTask
  BY DEF Comers
<1>2. IsFiniteSet(Comers(s))
  BY <1>1, LocalAssumption, FS_Subset
<1> QED BY <1>2, FS_CardinalityType

\* And so can they after a step.
LEMMA ComersFiniteNext == \A s : IsFiniteSet(Comers(s)') /\ Cardinality(Comers(s)') \in Nat
<1> TAKE s
<1>1. Comers(s)' \subseteq LTask
  BY DEF Comers
<1>2. IsFiniteSet(Comers(s)')
  BY <1>1, LocalAssumption, FS_Subset
<1> QED BY <1>2, FS_CardinalityType

\* Where no task falls asleep or leaves, and no client comes.
LEMMA EnoughKept ==
  ASSUME NEW s, Enough(s), Len(clientq[s]) \in Nat, Len(clientq[s])' \in Nat,
         Len(clientq[s])' <= Len(clientq[s]),
         \A t \in LTask : sockcall'[t].op = "accept" /\ sockcall'[t].asleep /\ sockcall'[t].s = s =>
                            sockcall[t].op = "accept" /\ sockcall[t].asleep /\ sockcall[t].s = s,
         \A t \in Comers(s) : t \in Comers(s)'
  PROVE  Enough(s)'
<1>1. IsFiniteSet(Comers(s)') /\ Cardinality(Comers(s)) \in Nat /\ Cardinality(Comers(s)') \in Nat
  BY ComersFinite, ComersFiniteNext
<1>2. Comers(s) \in SUBSET Comers(s)'
  OBVIOUS
<1>3. Cardinality(Comers(s)) <= Cardinality(Comers(s)')
  BY <1>1, <1>2, FS_Subset
<1> SUFFICES ASSUME NEW t \in LTask, sockcall'[t].op = "accept", sockcall'[t].asleep, sockcall'[t].s = s
             PROVE  Len(clientq[s])' <= Cardinality(Comers(s)')
  BY DEF Enough
<1>4. Len(clientq[s]) <= Cardinality(Comers(s))
  BY DEF Enough
<1> QED BY <1>1, <1>3, <1>4
----------------------------------------------------------------------------
(* The steps.                                                              *)

\* What a step that moves no client and no task leaves alone.
QuietVars == <<clientq, retcode, sockq, sockcall, sigd, paired>>

\* A step that moves no client and no task.
LEMMA QuietSocketOK ==
  ASSUME LInv, UNCHANGED QuietVars,
         live \subseteq live', live' \subseteq LSock, faulted => faulted',
         bindi' \in [LSock -> Path \cup {None}],
         \A s \in LSock : bindi'[s] # None => s \in live' \cap Server,
         PipesTyped', PipesArePaired', \A c \in live : Pipes(c) = {} => Pipes(c)' = {}
  PROVE  LInv'
<1>1. /\ clientq' = clientq /\ retcode' = retcode /\ sockq' = sockq /\ sockcall' = sockcall
      /\ sigd' = sigd /\ paired' = paired
  BY DEF QuietVars
<1>2. LTypeOK'
  BY <1>1 DEF LInv, LTypeOK, PipesTyped
<1>3. CallsOK(sockcall)'
  BY <1>1 DEF LInv, CallsOK
<1>4. SleepersOK(sockcall, sockq)'
  BY <1>1 DEF LInv
<1>5. ClientsOK'
  <2>1. \A s \in LSock : IsInjective(clientq'[s])
    BY <1>1 DEF LInv, ClientsOK
  <2>2. ASSUME NEW s \in LSock, NEW c \in ToSet(clientq'[s])
        PROVE  /\ s \in live' \cap Server /\ c \in live' \ Server /\ Pipes(c)' = {}
               /\ \A k \in LSock \ {s} : c \notin ToSet(clientq'[k])
    BY <1>1, <2>2 DEF LInv, ClientsOK
  <2> QED BY <2>1, <2>2 DEF ClientsOK
<1>6. ClientsAreQueued'
  BY <1>1 DEF LInv, ClientsAreQueued
<1>7. AcceptorsAreWoken'
  BY <1>1 DEF LInv, AcceptorsAreWoken, Comers
<1>8. SuccessIsTrue'
  BY <1>1 DEF LInv, SuccessIsTrue, Wakes
<1> QED BY <1>2, <1>3, <1>4, <1>5, <1>6, <1>7, <1>8 DEF LInv

\* socket() makes a socket that nobody waits on.
LEMMA SocketStep ==
  ASSUME LInv, NEW s \in LSock, unixsocket(s)
  PROVE  LInv'
<1>1. /\ UNCHANGED QuietVars /\ faulted' = faulted /\ bindi' = bindi
      /\ input' = input /\ output' = output /\ live' = live \cup {s}
  BY DEF unixsocket, QuietVars
<1>2. PipesTyped' /\ PipesArePaired' /\ \A c \in live : Pipes(c) = {} => Pipes(c)' = {}
  BY <1>1 DEF LInv, LTypeOK, PipesTyped, PipesArePaired, Pipes
<1>3. live' \subseteq LSock /\ bindi' \in [LSock -> Path \cup {None}]
  BY <1>1 DEF LInv, LTypeOK
<1>4. \A x \in LSock : bindi'[x] # None => x \in live' \cap Server
  BY <1>1 DEF LInv, ClientsOK
<1> QED BY <1>1, <1>2, <1>3, <1>4, QuietSocketOK

\* socketpair() pairs two sockets that were not there, which no queue has.
LEMMA SocketpairStep ==
  ASSUME LInv, NEW a \in LSock, NEW b \in LSock, unixsocketpair(a, b)
  PROVE  LInv'
<1>1. /\ UNCHANGED QuietVars /\ faulted' = faulted /\ bindi' = bindi /\ live' = live \cup {a, b}
      /\ a # b /\ a \notin live /\ b \notin live
      /\ Cardinality(Unused) >= 2 /\ pair(a, b, Unused)
  BY DEF unixsocketpair, QuietVars
<1>2. PipesTyped /\ PipesArePaired
  BY DEF LInv, LTypeOK, PipesTyped
<1>3. PipesTyped' /\ PipesArePaired'
  BY <1>1, <1>2, PairOK
<1>4. live \subseteq LSock /\ live' \subseteq LSock /\ bindi' \in [LSock -> Path \cup {None}]
  BY <1>1 DEF LInv, LTypeOK
<1>5. \A c \in live : input'[c] = input[c] /\ output'[c] = output[c]
  BY <1>1, <1>2, <1>4 DEF pair, PipesTyped
<1>6. \A c \in live : Pipes(c) = {} => Pipes(c)' = {}
  BY <1>5 DEF Pipes
<1>7. \A x \in LSock : bindi'[x] # None => x \in live' \cap Server
  BY <1>1 DEF LInv, ClientsOK
<1>8. live \subseteq live' /\ (faulted => faulted')
  BY <1>1
<1> QED BY <1>1, <1>3, <1>4, <1>6, <1>7, <1>8, QuietSocketOK

\* bind() makes a path lead to a server that exists.
LEMMA BindStep ==
  ASSUME LInv, NEW s \in LSock, NEW p \in Path, Bind(s, p)
  PROVE  LInv'
<1>1. /\ UNCHANGED QuietVars /\ faulted' = faulted /\ live' = live
      /\ input' = input /\ output' = output /\ s \in live \cap Server
      /\ bindi' = [bindi EXCEPT ![s] = p] \/ bindi' = bindi
  BY DEF Bind, QuietVars
<1>2. PipesTyped' /\ PipesArePaired' /\ \A c \in live : Pipes(c) = {} => Pipes(c)' = {}
  BY <1>1 DEF LInv, LTypeOK, PipesTyped, PipesArePaired, Pipes
<1>3. live' \subseteq LSock /\ bindi \in [LSock -> Path \cup {None}]
  BY <1>1 DEF LInv, LTypeOK
<1>4. bindi' \in [LSock -> Path \cup {None}]
  BY <1>1, <1>3
<1>5. \A x \in LSock : bindi[x] # None => x \in live \cap Server
  BY DEF LInv, ClientsOK
<1>6. \A x \in LSock : bindi'[x] # None => x \in live' \cap Server
  BY <1>1, <1>3, <1>5
<1>7. live \subseteq live' /\ (faulted => faulted')
  BY <1>1
<1> QED BY <1>1, <1>2, <1>3, <1>4, <1>6, <1>7, QuietSocketOK

\* shutdown() drops one end or both, of a socket that no queue has.
LEMMA ShutdownStep ==
  ASSUME LInv, NEW s \in LSock, NEW how \in 0 .. 2, shutdown(s, how)
  PROVE  LInv'
<1>1. /\ UNCHANGED QuietVars /\ faulted' = faulted /\ live' = live /\ bindi' = bindi
      /\ input' = [input EXCEPT ![s] = NoPipe] \/ input' = input
      /\ output' = [output EXCEPT ![s] = NoPipe] \/ output' = output
  BY DEF shutdown, QuietVars
<1>2. PipesTyped /\ PipesArePaired
  BY DEF LInv, LTypeOK, PipesTyped
<1>3. PipesTyped' /\ \A x \in LSock : input'[x] \in {input[x], NoPipe} /\ output'[x] \in {output[x], NoPipe}
  BY <1>1, <1>2 DEF PipesTyped
<1>4. PipesArePaired'
  BY <1>2, <1>3, LeavesOK
<1>5. live \subseteq LSock /\ live' \subseteq LSock /\ bindi' \in [LSock -> Path \cup {None}]
  BY <1>1 DEF LInv, LTypeOK
<1>6. \A c \in live : Pipes(c) = {} => Pipes(c)' = {}
  BY <1>3, <1>5 DEF Pipes
<1>7. \A x \in LSock : bindi'[x] # None => x \in live' \cap Server
  BY <1>1 DEF LInv, ClientsOK
<1>8. live \subseteq live' /\ (faulted => faulted')
  BY <1>1
<1> QED BY <1>1, <1>3, <1>4, <1>5, <1>6, <1>7, <1>8, QuietSocketOK
\* LInv taken apart, with Enough for AcceptorsAreWoken.
LInvParts ==
  /\ LTypeOK /\ sockcall \in [LTask -> LCall] /\ CallsOK(sockcall) /\ SleepersOK(sockcall, sockq)
  /\ ClientsOK /\ ClientsAreQueued /\ (\A s \in Server : s \in LSock /\ Enough(s))
  /\ SuccessIsTrue /\ PipesTyped /\ PipesArePaired /\ \A s \in LSock : Len(clientq[s]) \in Nat

\* The invariant, with what is read off it again and again.
LEMMA Parts == ASSUME LInv PROVE LInvParts
<1>1. LTypeOK /\ sockcall \in [LTask -> LCall] /\ PipesTyped /\ clientq \in [LSock -> Seq(LSock)]
  BY DEF LInv, LTypeOK, PipesTyped
<1>2. \A s \in LSock : Len(clientq[s]) \in Nat
  BY <1>1
<1>3. \A s \in Server : s \in LSock /\ Enough(s)
  BY LocalAssumption DEF LInv, AcceptorsAreWoken, Enough
<1> QED BY <1>1, <1>2, <1>3 DEF LInv, LInvParts

\* A step that leaves the clients where they are.
LEMMA ClientsKept ==
  ASSUME ClientsOK, UNCHANGED <<live, bindi, clientq, input, output>>
  PROVE  ClientsOK'
BY DEF ClientsOK, Pipes

\* connect goes back to its user, interrupted or not: its code is its own.
LEMMA ConnectReturnsStep ==
  ASSUME LInv, NEW t \in LTask, ConnectReturns(t)
  PROVE  LInv'
<1>1. LInvParts
  BY Parts
<1>2. /\ sockcall[t].op = "connect" /\ ~sockcall[t].asleep /\ ~faulted
      /\ retcode' = retcode \/ retcode' = [retcode EXCEPT ![sockcall[t].s] = "EINTR"]
      /\ sigd' = sigd \ {t} /\ sockcall' = [Awake({}) EXCEPT ![t] = InUser]
      /\ UNCHANGED <<live, bindi, clientq, input, output, sockq, paired, faulted>>
  BY DEF ConnectReturns, Wakes, Back
<1>3. Awake({}) = sockcall
  BY <1>1 DEF LInvParts, Awake
<1>4. SleepersOK(sockcall', sockq') /\ sockcall' \in [LTask -> LCall]
  BY <1>1, <1>2, <1>3, StaysAwakeOK DEF LInvParts
<1>5. sockcall'[t] = InUser /\ \A u \in LTask \ {t} : sockcall'[u] = sockcall[u]
  BY <1>1, <1>2, <1>3 DEF LInvParts
<1>6. sockcall'[t].op = "user" /\ ~sockcall'[t].asleep
  BY <1>5 DEF InUser
<1>7. CallsOK(sockcall)'
  <2>1. \A u \in LTask : Calm(u)
    BY <1>2, <1>5, <1>6 DEF Calm
  <2> QED BY <1>1, <2>1, CalmOK DEF LInvParts
<1>8. LTypeOK'
  BY <1>1, <1>2, <1>4 DEF LInvParts, LTypeOK
<1>9. ClientsOK' /\ PipesArePaired'
  BY <1>1, <1>2, ClientsKept DEF LInvParts, PipesArePaired
<1>10. ClientsAreQueued'
  BY <1>1, <1>2, <1>5, <1>6 DEF LInvParts, ClientsAreQueued
<1>11. AcceptorsAreWoken'
  <2>1. ASSUME NEW s \in Server PROVE Enough(s)'
    <3>1. /\ Enough(s) /\ Len(clientq[s]) \in Nat /\ clientq' = clientq
      BY <1>1, <1>2 DEF LInvParts
    <3>2. \A u \in LTask : sockcall'[u].op = "accept" /\ sockcall'[u].asleep /\ sockcall'[u].s = s =>
                             sockcall[u].op = "accept" /\ sockcall[u].asleep /\ sockcall[u].s = s
      BY <1>5, <1>6
    <3>3. \A u \in Comers(s) : u \in Comers(s)'
      BY <1>2, <1>5 DEF Comers
    <3>4. Len(clientq[s])' \in Nat /\ Len(clientq[s])' <= Len(clientq[s])
      BY <3>1
    <3> QED BY <3>1, <3>2, <3>3, <3>4, EnoughKept
  <2> QED BY <2>1 DEF AcceptorsAreWoken, Enough
<1>12. SuccessIsTrue'
  <2> SUFFICES ASSUME NEW u \in LTask, Wakes(u, "connect")', u \notin sigd', retcode'[sockcall'[u].s] = "0"
               PROVE  sockcall'[u].s \in paired'
    BY DEF SuccessIsTrue
  <2>1. u # t /\ sockcall'[u] = sockcall[u] /\ u \notin sigd /\ Wakes(u, "connect")
    BY <1>2, <1>5, <1>6 DEF Wakes
  <2>2. sockcall[u].op = "connect" /\ sockcall[u].s # sockcall[t].s
    BY <1>1, <1>2, <2>1 DEF LInvParts, CallsOK, Wakes
  <2>3. sockcall[u].s \in LSock /\ retcode \in [LSock -> {"0", "EINTR", "ECONNREFUSED"}]
    BY <1>1 DEF LInvParts, LTypeOK, LCall
  <2>4. retcode'[sockcall[u].s] = retcode[sockcall[u].s]
    BY <1>2, <2>2, <2>3
  <2> QED BY <1>1, <1>2, <2>1, <2>4 DEF LInvParts, SuccessIsTrue
<1> QED BY <1>4, <1>7, <1>8, <1>9, <1>10, <1>11, <1>12 DEF LInv

\* A signal wakes a task in its call, and leaves its client queued.
LEMMA InterruptStep ==
  ASSUME LInv, NEW t \in LTask, Interrupt(t)
  PROVE  LInv'
<1>1. LInvParts
  BY Parts
<1>2. /\ sigd' = sigd \cup {t} /\ sockcall' = Awake({t})
      /\ sockq' = [s \in LSock |-> Without(sockq[s], t)]
      /\ UNCHANGED <<live, bindi, clientq, input, output, retcode, paired, faulted>>
  BY DEF Interrupt
<1>3. SleepersOK(sockcall', sockq')
  BY <1>1, <1>2, InterruptedOK DEF LInvParts
<1>4. \A u \in LTask :
        /\ sockcall'[u] \in LCall
        /\ sockcall'[u].op = sockcall[u].op /\ sockcall'[u].s = sockcall[u].s
        /\ sockcall'[u].asleep => sockcall[u].asleep /\ u # t
        /\ sockcall[u].asleep /\ u # t => sockcall'[u].asleep
  <2> SUFFICES ASSUME NEW u \in LTask
               PROVE  /\ sockcall'[u] \in LCall
                      /\ sockcall'[u].op = sockcall[u].op /\ sockcall'[u].s = sockcall[u].s
                      /\ sockcall'[u].asleep => sockcall[u].asleep /\ u # t
                      /\ sockcall[u].asleep /\ u # t => sockcall'[u].asleep
    OBVIOUS
  <2>1. /\ Awake({t})[u] \in LCall
        /\ Awake({t})[u].op = sockcall[u].op /\ Awake({t})[u].s = sockcall[u].s
        /\ Awake({t})[u].asleep <=> sockcall[u].asleep /\ u \notin {t}
    BY <1>1, AwakeIs DEF LInvParts
  <2> QED BY <1>2, <2>1
<1>5. sockcall' \in [LTask -> LCall]
  BY <1>2, <1>4 DEF Awake
<1>7. CallsOK(sockcall)'
  <2>1. \A u \in LTask : Calm(u)
    BY <1>2, <1>4 DEF Calm
  <2> QED BY <1>1, <2>1, CalmOK DEF LInvParts
<1>8. LTypeOK'
  BY <1>1, <1>2, <1>5 DEF LInvParts, LTypeOK
<1>9. ClientsOK' /\ PipesArePaired'
  BY <1>1, <1>2, ClientsKept DEF LInvParts, PipesArePaired
<1>10. ClientsAreQueued'
  BY <1>1, <1>2, <1>4 DEF LInvParts, ClientsAreQueued
<1>11. AcceptorsAreWoken'
  <2>1. ASSUME NEW s \in Server PROVE Enough(s)'
    <3>1. /\ Enough(s) /\ Len(clientq[s]) \in Nat /\ clientq' = clientq
      BY <1>1, <1>2 DEF LInvParts
    <3>2. \A u \in LTask : sockcall'[u].op = "accept" /\ sockcall'[u].asleep /\ sockcall'[u].s = s =>
                             sockcall[u].op = "accept" /\ sockcall[u].asleep /\ sockcall[u].s = s
      BY <1>4
    <3>3. \A u \in Comers(s) : u \in Comers(s)'
      BY <1>4 DEF Comers
    <3>4. Len(clientq[s])' \in Nat /\ Len(clientq[s])' <= Len(clientq[s])
      BY <3>1
    <3> QED BY <3>1, <3>2, <3>3, <3>4, EnoughKept
  <2> QED BY <2>1 DEF AcceptorsAreWoken, Enough
<1>12. SuccessIsTrue'
  <2> SUFFICES ASSUME NEW u \in LTask, Wakes(u, "connect")', u \notin sigd', retcode'[sockcall'[u].s] = "0"
               PROVE  sockcall'[u].s \in paired'
    BY DEF SuccessIsTrue
  <2>1. u # t /\ u \notin sigd /\ Wakes(u, "connect") /\ sockcall'[u].s = sockcall[u].s
    BY <1>2, <1>4 DEF Wakes
  <2> QED BY <1>1, <1>2, <2>1 DEF LInvParts, SuccessIsTrue
<1> QED BY <1>3, <1>7, <1>8, <1>9, <1>10, <1>11, <1>12 DEF LInv

\* accept sleeps over an empty queue only.
LEMMA AcceptSleepsStep ==
  ASSUME LInv, NEW t \in LTask, NEW s \in LSock, AcceptSleeps(t, s)
  PROVE  LInv'
<1>1. LInvParts
  BY Parts
<1>2. PICK c \in LCall : c = [op |-> "accept", s |-> s, asleep |-> TRUE]
  BY DEF LCall
<1>3. c.op = "accept" /\ c.s = s /\ c.asleep
  BY <1>2
<1>4. /\ Accepting(t, s) /\ clientq[s] = << >>
      /\ sockcall' = [sockcall EXCEPT ![t] = c] /\ sockq' = [sockq EXCEPT ![s] = Append(@, t)]
      /\ UNCHANGED <<live, bindi, clientq, input, output, retcode, sigd, paired, faulted>>
  BY <1>2 DEF AcceptSleeps
<1>5. /\ ~sockcall[t].asleep /\ s \in live \cap Server
      /\ sockcall[t].op = "user" \/ (sockcall[t].op = "accept" /\ sockcall[t].s = s)
  BY <1>1, <1>4 DEF LInvParts, CallsOK, Accepting, Runs, Wakes
<1>6. SleepersOK(sockcall', sockq')
  BY <1>1, <1>3, <1>4, <1>5, SleepsOK DEF LInvParts
<1>7. /\ sockcall' \in [LTask -> LCall] /\ sockcall'[t] = c
      /\ \A u \in LTask \ {t} : sockcall'[u] = sockcall[u]
  BY <1>1, <1>4 DEF LInvParts
<1>8. CallsOK(sockcall)'
  BY <1>1, <1>3, <1>4, <1>5, <1>7 DEF LInvParts, CallsOK
<1>9. LTypeOK'
  BY <1>1, <1>4, <1>7 DEF LInvParts, LTypeOK
<1>10. ClientsOK' /\ PipesArePaired'
  BY <1>1, <1>4, ClientsKept DEF LInvParts, PipesArePaired
<1>11. ClientsAreQueued'
  BY <1>1, <1>3, <1>4, <1>7 DEF LInvParts, ClientsAreQueued
<1>12. AcceptorsAreWoken'
  <2>1. ASSUME NEW x \in Server, x # s PROVE Enough(x)'
    <3>1. /\ Enough(x) /\ Len(clientq[x]) \in Nat /\ clientq' = clientq
      BY <1>1, <1>4 DEF LInvParts
    <3>2. \A u \in LTask : sockcall'[u].op = "accept" /\ sockcall'[u].asleep /\ sockcall'[u].s = x =>
                             sockcall[u].op = "accept" /\ sockcall[u].asleep /\ sockcall[u].s = x
      BY <1>3, <1>7, <2>1
    <3>3. \A u \in Comers(x) : u \in Comers(x)'
      BY <1>5, <1>7, <2>1 DEF Comers
    <3>4. Len(clientq[x])' \in Nat /\ Len(clientq[x])' <= Len(clientq[x])
      BY <3>1
    <3> QED BY <3>1, <3>2, <3>3, <3>4, EnoughKept
  <2>2. Enough(s)'
    <3>1. Len(clientq[s])' = 0
      BY <1>4
    <3>2. Cardinality(Comers(s)') \in Nat
      BY ComersFiniteNext
    <3> QED BY <3>1, <3>2 DEF Enough
  <2> QED BY <2>1, <2>2 DEF AcceptorsAreWoken, Enough
<1>13. SuccessIsTrue'
  <2> SUFFICES ASSUME NEW u \in LTask, Wakes(u, "connect")', u \notin sigd', retcode'[sockcall'[u].s] = "0"
               PROVE  sockcall'[u].s \in paired'
    BY DEF SuccessIsTrue
  <2>1. u # t /\ u \notin sigd /\ Wakes(u, "connect") /\ sockcall'[u].s = sockcall[u].s
    BY <1>3, <1>4, <1>7 DEF Wakes
  <2> QED BY <1>1, <1>4, <2>1 DEF LInvParts, SuccessIsTrue
<1> QED BY <1>6, <1>8, <1>9, <1>10, <1>11, <1>12, <1>13 DEF LInv
\* What a signal on the sockets of S does to the calls.
LEMMA WokenCalls ==
  ASSUME LInvParts, NEW S \in SUBSET LSock
  PROVE  /\ SleepersOK(Awake(First(S)), Signalled(S))
         /\ Awake(First(S)) \in [LTask -> LCall]
         /\ \A u \in LTask :
              /\ Awake(First(S))[u].op = sockcall[u].op
              /\ Awake(First(S))[u].s = sockcall[u].s
              /\ Awake(First(S))[u].asleep => sockcall[u].asleep /\ u \notin First(S)
              /\ sockcall[u].asleep /\ u \notin First(S) => Awake(First(S))[u].asleep
<1>1. SleepersOK(Awake(First(S)), Signalled(S))
  BY SignalledOK DEF LInvParts
<1>2. ASSUME NEW u \in LTask
      PROVE  /\ Awake(First(S))[u] \in LCall
             /\ Awake(First(S))[u].op = sockcall[u].op /\ Awake(First(S))[u].s = sockcall[u].s
             /\ Awake(First(S))[u].asleep <=> sockcall[u].asleep /\ u \notin First(S)
  BY AwakeIs DEF LInvParts
<1>3. Awake(First(S)) \in [LTask -> LCall]
  <2>1. \A u \in LTask : Awake(First(S))[u] \in LCall
    BY <1>2
  <2>2. Awake(First(S)) = [u \in LTask |-> Awake(First(S))[u]]
    BY DEF Awake
  <2> QED BY <2>1, <2>2
<1>4. ASSUME NEW u \in LTask
      PROVE  /\ Awake(First(S))[u].op = sockcall[u].op
             /\ Awake(First(S))[u].s = sockcall[u].s
             /\ Awake(First(S))[u].asleep => sockcall[u].asleep /\ u \notin First(S)
             /\ sockcall[u].asleep /\ u \notin First(S) => Awake(First(S))[u].asleep
  BY <1>2
<1> QED BY <1>1, <1>3, <1>4

\* connect up to its sleep, with the server s.
Connects(t, c, s) ==
  /\ sockcall[t].op = "user" /\ c \in live \ Server /\ Idle(c) /\ Pipes(c) = {} /\ ~Queued(c)
  /\ clientq' = [clientq EXCEPT ![s] = Append(@, c)]
  /\ retcode' = [retcode EXCEPT ![c] = "0"]
  /\ sockcall' = [Awake(First({s})) EXCEPT ![t] = [op |-> "connect", s |-> c, asleep |-> TRUE]]
  /\ sockq' = [Signalled({s}) EXCEPT ![c] = Append(@, t)]
  /\ paired' = paired \ {c}
  /\ UNCHANGED <<live, bindi, input, output, sigd, faulted>>

\* connect queues its client at a server and wakes an acceptor, if one sleeps.
LEMMA ConnectsStep ==
  ASSUME LInv, NEW t \in LTask, NEW c \in LSock, NEW s \in LSock, s \in live \cap Server, Connects(t, c, s)
  PROVE  LInv'
<1>1. LInvParts
  BY Parts
<1>2. PICK d \in LCall : d = [op |-> "connect", s |-> c, asleep |-> TRUE]
  BY DEF LCall
<1>3. d.op = "connect" /\ d.s = c /\ d.asleep
  BY <1>2
<1>4. /\ sockcall[t].op = "user" /\ c \in live \ Server /\ Idle(c) /\ Pipes(c) = {} /\ ~Queued(c)
      /\ clientq' = [clientq EXCEPT ![s] = Append(@, c)]
      /\ retcode' = [retcode EXCEPT ![c] = "0"]
      /\ sockcall' = [Awake(First({s})) EXCEPT ![t] = d]
      /\ sockq' = [Signalled({s}) EXCEPT ![c] = Append(@, t)]
      /\ paired' = paired \ {c} /\ faulted' = faulted /\ sigd' = sigd
      /\ live' = live /\ bindi' = bindi /\ input' = input /\ output' = output
  BY <1>2 DEF Connects
<1>5. PICK w \in [LTask -> LCall] : w = Awake(First({s}))
  BY <1>1, WokenCalls
<1>6. /\ SleepersOK(w, Signalled({s}))
      /\ \A u \in LTask :
           /\ w[u].op = sockcall[u].op /\ w[u].s = sockcall[u].s
           /\ w[u].asleep => sockcall[u].asleep /\ u \notin First({s})
           /\ sockcall[u].asleep /\ u \notin First({s}) => w[u].asleep
  BY <1>1, <1>5, WokenCalls
<1>7. ~sockcall[t].asleep /\ ~w[t].asleep
  BY <1>1, <1>4, <1>6 DEF LInvParts, CallsOK
<1>8. SleepersOK(sockcall', sockq')
  BY <1>3, <1>4, <1>5, <1>6, <1>7, SleepsOK
<1>9. /\ sockcall' \in [LTask -> LCall] /\ sockcall'[t] = d
      /\ \A u \in LTask \ {t} : sockcall'[u] = w[u]
  BY <1>4, <1>5
<1>10. \A u \in LTask \ {t} :
         /\ sockcall'[u].op = sockcall[u].op /\ sockcall'[u].s = sockcall[u].s
         /\ sockcall'[u].asleep => sockcall[u].asleep /\ u \notin First({s})
         /\ sockcall[u].asleep /\ u \notin First({s}) => sockcall'[u].asleep
  BY <1>6, <1>9
<1>11. \A u \in LTask : sockcall[u].op = "user" \/ sockcall[u].s # c
  BY <1>4 DEF Idle
<1>12. CallsOK(sockcall)'
  <2> SUFFICES ASSUME NEW u \in LTask
               PROVE  /\ sockcall'[u].op = "user" => ~sockcall'[u].asleep
                      /\ sockcall'[u].op = "accept" => sockcall'[u].s \in live' \cap Server
                      /\ sockcall'[u].op = "connect" => sockcall'[u].s \in live' \ Server
                      /\ sockcall'[u].op = "connect" =>
                           \A v \in LTask : sockcall'[v].op = "connect" /\ sockcall'[v].s = sockcall'[u].s => v = u
    BY DEF CallsOK
  <2>1. CASE u = t
    BY <1>3, <1>4, <1>9, <1>10, <1>11, <2>1
  <2>2. CASE u # t
    <3>1. /\ sockcall[u].op = "user" => ~sockcall[u].asleep
          /\ sockcall[u].op = "accept" => sockcall[u].s \in live \cap Server
          /\ sockcall[u].op = "connect" => sockcall[u].s \in live \ Server
          /\ sockcall[u].op = "connect" =>
               \A v \in LTask : sockcall[v].op = "connect" /\ sockcall[v].s = sockcall[u].s => v = u
      BY <1>1 DEF LInvParts, CallsOK
    <3>2. /\ sockcall'[u].op = sockcall[u].op /\ sockcall'[u].s = sockcall[u].s
          /\ sockcall'[u].asleep => sockcall[u].asleep
      BY <1>10, <2>2
    <3>3. ASSUME NEW v \in LTask, sockcall'[u].op = "connect", sockcall'[v].op = "connect",
                 sockcall'[v].s = sockcall'[u].s
          PROVE  v = u
      <4>1. CASE v = t
        BY <1>3, <1>9, <1>11, <3>2, <3>3, <4>1
      <4>2. CASE v # t
        BY <1>10, <3>1, <3>2, <3>3, <4>2
      <4> QED BY <4>1, <4>2
    <3> QED BY <1>4, <3>1, <3>2, <3>3
  <2> QED BY <2>1, <2>2
<1>13. clientq \in [LSock -> Seq(LSock)] /\ retcode \in [LSock -> {"0", "EINTR", "ECONNREFUSED"}]
  BY <1>1 DEF LInvParts, LTypeOK
<1>14. clientq[s] \in Seq(LSock) /\ IsInjective(clientq[s]) /\ \A x \in LSock : c \notin ToSet(clientq[x])
  BY <1>1, <1>4, <1>13 DEF LInvParts, ClientsOK, Queued
<1>15. PICK l \in Seq(LSock) : l = Append(clientq[s], c)
  BY <1>14, LineAppended
<1>16. IsInjective(l) /\ ToSet(l) = ToSet(clientq[s]) \cup {c} /\ Len(l) = Len(clientq[s]) + 1
  BY <1>14, <1>15, LineAppended
<1>17. /\ clientq' \in [LSock -> Seq(LSock)] /\ clientq'[s] = l
       /\ \A x \in LSock \ {s} : clientq'[x] = clientq[x]
  BY <1>4, <1>13, <1>15
<1>18. LTypeOK'
  BY <1>1, <1>4, <1>9, <1>13, <1>17 DEF LInvParts, LTypeOK
<1>19. PipesArePaired'
  BY <1>1, <1>4 DEF LInvParts, PipesArePaired
<1>20. ClientsOK'
  <2>1. \A x \in LSock : IsInjective(clientq'[x])
    BY <1>1, <1>16, <1>17 DEF LInvParts, ClientsOK
  <2>2. \A x \in LSock : bindi'[x] # None => x \in live' \cap Server
    BY <1>1, <1>4 DEF LInvParts, ClientsOK
  <2>3. ASSUME NEW x \in LSock, NEW e \in ToSet(clientq'[x])
        PROVE  /\ x \in live' \cap Server /\ e \in live' \ Server /\ Pipes(e)' = {}
               /\ \A k \in LSock \ {x} : e \notin ToSet(clientq'[k])
    <3>1. Pipes(e)' = Pipes(e) /\ \A k \in LSock : ToSet(clientq'[k]) = IF k = s THEN ToSet(clientq[s]) \cup {c}
                                                                        ELSE ToSet(clientq[k])
      BY <1>4, <1>16, <1>17 DEF Pipes
    <3>2. CASE e = c
      BY <1>4, <1>14, <2>3, <3>1, <3>2
    <3>3. CASE e # c
      <4>1. e \in ToSet(clientq[x])
        BY <2>3, <3>1, <3>3
      <4>2. /\ x \in live \cap Server /\ e \in live \ Server /\ Pipes(e) = {}
            /\ \A k \in LSock \ {x} : e \notin ToSet(clientq[k])
        BY <1>1, <4>1 DEF LInvParts, ClientsOK
      <4> QED BY <1>4, <3>1, <3>3, <4>2
    <3> QED BY <3>2, <3>3
  <2> QED BY <2>1, <2>2, <2>3 DEF ClientsOK
<1>21. ClientsAreQueued'
  <2> SUFFICES ASSUME NEW u \in LTask, sockcall'[u].op = "connect", sockcall'[u].asleep
               PROVE  \E x \in live' \cap Server : sockcall'[u].s \in ToSet(clientq'[x])
    BY DEF ClientsAreQueued
  <2>1. CASE u = t
    BY <1>3, <1>4, <1>9, <1>16, <1>17, <2>1
  <2>2. CASE u # t
    <3>1. PICK x \in live \cap Server : sockcall[u].s \in ToSet(clientq[x])
      BY <1>1, <1>10, <2>2 DEF LInvParts, ClientsAreQueued
    <3>2. x \in LSock
      BY LocalAssumption
    <3>3. sockcall[u].s \in ToSet(clientq'[x])
      BY <1>16, <1>17, <3>1, <3>2
    <3> QED BY <1>4, <1>10, <2>2, <3>1, <3>3
  <2> QED BY <2>1, <2>2
<1>22. ASSUME NEW x \in Server, x # s PROVE Enough(x)'
  <2>1. /\ Enough(x) /\ Len(clientq[x]) \in Nat /\ clientq'[x] = clientq[x]
    BY <1>1, <1>17, <1>22 DEF LInvParts
  <2>2. \A u \in LTask : sockcall'[u].op = "accept" /\ sockcall'[u].asleep /\ sockcall'[u].s = x =>
                           sockcall[u].op = "accept" /\ sockcall[u].asleep /\ sockcall[u].s = x
    BY <1>3, <1>9, <1>10
  <2>3. \A u \in Comers(x) : u \in Comers(x)'
    BY <1>4, <1>10 DEF Comers
  <2>4. Len(clientq[x])' \in Nat /\ Len(clientq[x])' <= Len(clientq[x])
    BY <2>1
  <2> QED BY <2>1, <2>2, <2>3, <2>4, EnoughKept
<1>23. Enough(s)'
  <2> SUFFICES ASSUME NEW x \in LTask, sockcall'[x].op = "accept", sockcall'[x].asleep, sockcall'[x].s = s
               PROVE  Len(clientq'[s]) <= Cardinality(Comers(s)')
    BY DEF Enough
  <2>1. sockcall[x].op = "accept" /\ sockcall[x].asleep /\ sockcall[x].s = s
    BY <1>3, <1>9, <1>10
  <2>2. Len(clientq[s]) <= Cardinality(Comers(s)) /\ Len(clientq[s]) \in Nat
    BY <1>1, <2>1 DEF LInvParts, Enough
  <2>3. sockq[s] # << >>
    BY <1>1, <2>1 DEF LInvParts, SleepersOK, ToSet
  <2>4. PICK h \in First({s}) : h = Head(sockq[s])
    BY <1>1, <2>3, FirstIs DEF LInvParts
  <2>5. h \in LTask /\ sockcall[h].asleep /\ sockcall[h].s = s
    BY <1>1, FirstIs DEF LInvParts
  <2>6. sockcall[h].op = "accept"
    BY <1>1, <2>5, OnServer DEF LInvParts
  <2>7. h # t /\ ~sockcall'[h].asleep
    BY <1>4, <1>10, <2>4, <2>5, <2>6
  <2>8. h \notin Comers(s) /\ Comers(s) \cup {h} \in SUBSET Comers(s)'
    BY <1>4, <1>10, <2>5, <2>6, <2>7 DEF Comers
  <2>9. IsFiniteSet(Comers(s)) /\ IsFiniteSet(Comers(s)')
    BY ComersFinite, ComersFiniteNext
  <2>10. Cardinality(Comers(s) \cup {h}) = Cardinality(Comers(s)) + 1
    BY <2>8, <2>9, FS_AddElement
  <2>11. Cardinality(Comers(s) \cup {h}) <= Cardinality(Comers(s)')
    BY <2>8, <2>9, FS_Subset
  <2>12. Cardinality(Comers(s)) \in Nat /\ Cardinality(Comers(s)') \in Nat
    BY ComersFinite, ComersFiniteNext
  <2> QED BY <1>16, <1>17, <2>2, <2>10, <2>11, <2>12
<1>24. AcceptorsAreWoken'
  BY <1>22, <1>23 DEF AcceptorsAreWoken, Enough
<1>25. SuccessIsTrue'
  <2> SUFFICES ASSUME NEW u \in LTask, Wakes(u, "connect")', u \notin sigd', retcode'[sockcall'[u].s] = "0"
               PROVE  sockcall'[u].s \in paired'
    BY DEF SuccessIsTrue
  <2>1. u # t /\ u \notin sigd /\ sockcall[u].op = "connect" /\ sockcall'[u].s = sockcall[u].s /\ ~faulted
    BY <1>3, <1>4, <1>9, <1>10 DEF Wakes
  <2>2. sockcall[u].s # c /\ sockcall[u].s # s
    BY <1>1, <1>11, <2>1 DEF LInvParts, CallsOK
  <2>3. u \notin First({s})
    BY <1>1, <2>2, FirstIs DEF LInvParts
  <2>4. Wakes(u, "connect")
    BY <1>10, <2>1, <2>3 DEF Wakes
  <2>5. sockcall[u].s \in LSock
    BY <1>1 DEF LInvParts, LCall
  <2>6. retcode'[sockcall[u].s] = retcode[sockcall[u].s]
    BY <1>4, <1>13, <2>2, <2>5
  <2> QED BY <1>1, <1>4, <2>1, <2>2, <2>4, <2>6 DEF LInvParts, SuccessIsTrue
<1> QED BY <1>8, <1>12, <1>18, <1>19, <1>20, <1>21, <1>24, <1>25 DEF LInv
\* connect, to a server or to a path that has none.
LEMMA ConnectStep ==
  ASSUME LInv, NEW t \in LTask, NEW c \in LSock, NEW p \in Path, Connect(t, c, p)
  PROVE  LInv'
<1>1. CASE unstsock(p) = {}
  <2>1. /\ UNCHANGED QuietVars /\ faulted' = TRUE /\ live' = live /\ bindi' = bindi
        /\ input' = input /\ output' = output
    BY <1>1 DEF Connect, QuietVars
  <2>2. PipesTyped' /\ PipesArePaired' /\ \A x \in live : Pipes(x) = {} => Pipes(x)' = {}
    BY <2>1 DEF LInv, LTypeOK, PipesTyped, PipesArePaired, Pipes
  <2>3. live' \subseteq LSock /\ bindi' \in [LSock -> Path \cup {None}]
    BY <2>1 DEF LInv, LTypeOK
  <2>4. \A x \in LSock : bindi'[x] # None => x \in live' \cap Server
    BY <2>1 DEF LInv, ClientsOK
  <2>5. live \subseteq live' /\ (faulted => faulted')
    BY <2>1
  <2> QED BY <2>1, <2>2, <2>3, <2>4, <2>5, QuietSocketOK
<1>2. CASE unstsock(p) # {}
  <2>1. PICK s \in unstsock(p) : s = CHOOSE x \in unstsock(p) : TRUE
    BY <1>2
  <2>2. s \in live /\ bindi[s] = p /\ s \in LSock
    BY DEF unstsock, LInv, LTypeOK
  <2>3. s \in live \cap Server
    BY <2>2, LocalAssumption DEF LInv, ClientsOK
  <2>4. Connects(t, c, s)
    BY <1>2, <2>1 DEF Connect, Connects, Runs
  <2> QED BY <2>2, <2>3, <2>4, ConnectsStep
<1> QED BY <1>1, <1>2

\* In a step that signals the sockets of Z, a task goes back to the user, or it
\* stays in its call, where it is woken if it is the first sleeper on one of them.
StaysOrIsWoken(Z, u) ==
  \/ sockcall'[u].op = "user" /\ ~sockcall'[u].asleep
  \/ /\ sockcall'[u].op = sockcall[u].op /\ sockcall'[u].s = sockcall[u].s
     /\ sockcall'[u].asleep => sockcall[u].asleep /\ u \notin First(Z)
     /\ sockcall[u].asleep /\ u \notin First(Z) => sockcall'[u].asleep
     /\ sockcall[u].op # "user" /\ sockcall[u].s \in live => sockcall[u].s \in live'

\* The clients of Z are taken or refused, the others that are connecting stay.
Released(Z) ==
  /\ \A u \in LTask : StaysOrIsWoken(Z, u) /\ (sockcall'[u].op = "connect" /\ u \in sigd => u \in sigd')
  /\ \A c \in Z : retcode'[c] # "0" \/ c \in paired'
  /\ \A u \in LTask : sockcall[u].op = "connect" /\ sockcall[u].s \notin Z =>
       /\ retcode'[sockcall[u].s] = retcode[sockcall[u].s]
       /\ sockcall[u].s \in paired => sockcall[u].s \in paired'
       /\ \A x \in live \cap Server : sockcall[u].s \in ToSet(clientq[x]) =>
            x \in live' /\ sockcall[u].s \in ToSet(clientq'[x])
  /\ faulted' = faulted

\* Who connects a client of Z is woken with a code or a pair, the others wait on.
LEMMA ReleasedOK ==
  ASSUME LInv, NEW Z \in SUBSET LSock, Released(Z)
  PROVE  CallsOK(sockcall)' /\ ClientsAreQueued' /\ SuccessIsTrue'
<1>1. LInvParts
  BY Parts
<1>2. \A u \in LTask : StaysOrIsWoken(Z, u)
  BY DEF Released
<1>3. CallsOK(sockcall)'
  <2>1. \A u \in LTask : Calm(u)
    BY <1>2 DEF StaysOrIsWoken, Calm
  <2> QED BY <1>1, <2>1, CalmOK DEF LInvParts
<1>4. ClientsAreQueued'
  <2> SUFFICES ASSUME NEW u \in LTask, sockcall'[u].op = "connect", sockcall'[u].asleep
               PROVE  \E x \in live' \cap Server : sockcall'[u].s \in ToSet(clientq'[x])
    BY DEF ClientsAreQueued
  <2>1. /\ sockcall[u].op = "connect" /\ sockcall'[u].s = sockcall[u].s
        /\ sockcall[u].asleep /\ u \notin First(Z)
    BY <1>2 DEF StaysOrIsWoken
  <2>2. PICK x \in live \cap Server : sockcall[u].s \in ToSet(clientq[x])
    BY <1>1, <2>1 DEF LInvParts, ClientsAreQueued
  <2>3. sockcall[u].s \notin Z
    BY <1>1, <2>1, ConnectIsWoken DEF LInvParts
  <2>4. x \in live' /\ sockcall[u].s \in ToSet(clientq'[x])
    BY <2>1, <2>2, <2>3 DEF Released
  <2> QED BY <2>1, <2>4
<1>5. SuccessIsTrue'
  <2> SUFFICES ASSUME NEW u \in LTask, Wakes(u, "connect")', u \notin sigd', retcode'[sockcall'[u].s] = "0"
               PROVE  sockcall'[u].s \in paired'
    BY DEF SuccessIsTrue
  <2>1. sockcall'[u].op = "connect" /\ ~sockcall'[u].asleep /\ ~faulted
    BY DEF Wakes, Released
  <2>2. /\ sockcall[u].op = "connect" /\ sockcall'[u].s = sockcall[u].s
        /\ sockcall[u].asleep => u \in First(Z)
    BY <1>2, <2>1 DEF StaysOrIsWoken
  <2>3. u \notin sigd
    BY <2>1 DEF Released
  <2>4. CASE sockcall[u].s \in Z
    BY <2>2, <2>4 DEF Released
  <2>5. CASE sockcall[u].s \notin Z
    <3>1. u \notin First(Z)
      BY <1>1, <2>5, FirstIs DEF LInvParts
    <3>2. Wakes(u, "connect")
      BY <2>1, <2>2, <3>1 DEF Wakes
    <3>3. /\ retcode'[sockcall[u].s] = retcode[sockcall[u].s]
          /\ sockcall[u].s \in paired => sockcall[u].s \in paired'
      BY <2>2, <2>5 DEF Released
    <3> QED BY <1>1, <2>2, <2>3, <3>2, <3>3 DEF LInvParts, SuccessIsTrue
  <2> QED BY <2>4, <2>5
<1> QED BY <1>3, <1>4, <1>5

\* A server that the task t has not left, and whose queue has not grown.
LEMMA ReleasedEnough ==
  ASSUME LInv, NEW Z \in SUBSET LSock, Released(Z), NEW x \in Server,
         Len(clientq'[x]) \in Nat, Len(clientq'[x]) <= Len(clientq[x]),
         \A u \in LTask : u \in Comers(x) => sockcall'[u].op = sockcall[u].op
  PROVE  Enough(x)'
<1>1. LInvParts
  BY Parts
<1>2. Enough(x) /\ Len(clientq[x]) \in Nat
  BY <1>1 DEF LInvParts
<1>3. \A u \in LTask : StaysOrIsWoken(Z, u)
  BY DEF Released
<1>4. \A u \in LTask : sockcall'[u].op = "accept" /\ sockcall'[u].asleep /\ sockcall'[u].s = x =>
                         sockcall[u].op = "accept" /\ sockcall[u].asleep /\ sockcall[u].s = x
  BY <1>3 DEF StaysOrIsWoken
<1>5. \A u \in Comers(x) : u \in Comers(x)'
  <2> SUFFICES ASSUME NEW u \in Comers(x) PROVE u \in Comers(x)'
    OBVIOUS
  <2>1. u \in LTask /\ sockcall[u].op = "accept" /\ ~sockcall[u].asleep /\ sockcall[u].s = x
    BY DEF Comers
  <2>2. sockcall'[u].op = "accept"
    BY <2>1
  <2>3. sockcall'[u].s = x /\ ~sockcall'[u].asleep
    BY <1>3, <2>1, <2>2 DEF StaysOrIsWoken
  <2> QED BY <2>1, <2>2, <2>3 DEF Comers
<1> QED BY <1>2, <1>4, <1>5, EnoughKept
\* Clients leave the queues, and those that stay are as before.
LEMMA ShrunkOK ==
  ASSUME ClientsOK, \A x \in LSock : bindi'[x] # None => x \in live' \cap Server,
         \A x \in LSock : /\ IsInjective(clientq'[x]) /\ ToSet(clientq'[x]) \subseteq ToSet(clientq[x])
                          /\ \A c \in ToSet(clientq'[x]) :
                               {x, c} \subseteq live' /\ input'[c] = input[c] /\ output'[c] = output[c]
  PROVE  ClientsOK'
<1>1. ASSUME NEW x \in LSock, NEW c \in ToSet(clientq'[x])
      PROVE  /\ x \in live' \cap Server /\ c \in live' \ Server /\ Pipes(c)' = {}
             /\ \A k \in LSock \ {x} : c \notin ToSet(clientq'[k])
  <2>1. c \in ToSet(clientq[x]) /\ {x, c} \subseteq live' /\ input'[c] = input[c] /\ output'[c] = output[c]
    BY <1>1
  <2>2. Pipes(c)' = Pipes(c)
    BY <2>1 DEF Pipes
  <2>3. /\ x \in Server /\ c \notin Server /\ Pipes(c) = {}
        /\ \A k \in LSock \ {x} : c \notin ToSet(clientq[k])
    BY <2>1 DEF ClientsOK
  <2> QED BY <2>1, <2>2, <2>3
<1> QED BY <1>1 DEF ClientsOK

\* The clients of a queue.
LEMMA QueueIs ==
  ASSUME LInv, NEW s \in LSock
  PROVE  /\ clientq[s] \in Seq(LSock) /\ IsInjective(clientq[s]) /\ Len(clientq[s]) \in Nat
         /\ ToSet(clientq[s]) \in SUBSET LSock
         /\ \A c \in ToSet(clientq[s]) :
              /\ s \in live \cap Server /\ c \in live \ Server
              /\ \A k \in LSock \ {s} : c \notin ToSet(clientq[k])
<1>1. clientq[s] \in Seq(LSock) /\ live \subseteq LSock
  BY DEF LInv, LTypeOK
<1>2. /\ IsInjective(clientq[s])
      /\ \A c \in ToSet(clientq[s]) :
           /\ s \in live \cap Server /\ c \in live \ Server
           /\ \A k \in LSock \ {s} : c \notin ToSet(clientq[k])
  BY DEF LInv, ClientsOK
<1>3. Len(clientq[s]) \in Nat
  BY <1>1
<1>4. ToSet(clientq[s]) \in SUBSET LSock
  BY <1>1, <1>2
<1> QED BY <1>1, <1>2, <1>3, <1>4

\* t goes back to the user and the sockets of Z are signalled.
LEMMA BackCalls ==
  ASSUME LInvParts, NEW Z \in SUBSET LSock, NEW t \in LTask, ~sockcall[t].asleep,
         Back(t, First(Z)), sockq' = Signalled(Z), live \subseteq live'
  PROVE  /\ SleepersOK(sockcall', sockq') /\ sockcall' \in [LTask -> LCall]
         /\ sockcall'[t].op = "user" /\ \A u \in LTask \ {t} : sockcall'[u].op = sockcall[u].op
         /\ \A u \in LTask : StaysOrIsWoken(Z, u)
<1>1. PICK w \in [LTask -> LCall] : w = Awake(First(Z))
  BY WokenCalls
<1>2. /\ SleepersOK(w, Signalled(Z))
      /\ \A u \in LTask :
           /\ w[u].op = sockcall[u].op /\ w[u].s = sockcall[u].s
           /\ w[u].asleep => sockcall[u].asleep /\ u \notin First(Z)
           /\ sockcall[u].asleep /\ u \notin First(Z) => w[u].asleep
  BY <1>1, WokenCalls
<1>3. sockcall' = [w EXCEPT ![t] = InUser]
  BY <1>1 DEF Back
<1>4. SleepersOK(sockcall', sockq') /\ sockcall' \in [LTask -> LCall]
  BY <1>2, <1>3, StaysAwakeOK
<1>5. sockcall'[t] = InUser /\ \A u \in LTask \ {t} : sockcall'[u] = w[u]
  BY <1>3
<1>6. sockcall'[t].op = "user" /\ ~sockcall'[t].asleep
  BY <1>5 DEF InUser
<1>7. \A u \in LTask \ {t} : sockcall'[u].op = sockcall[u].op
  BY <1>2, <1>5
<1>8. \A u \in LTask : StaysOrIsWoken(Z, u)
  BY <1>2, <1>5, <1>6 DEF StaysOrIsWoken
<1> QED BY <1>4, <1>6, <1>7, <1>8

\* An interrupted accept refuses all clients of its server.
LEMMA AcceptInterruptedStep ==
  ASSUME LInv, NEW t \in LTask, AcceptInterrupted(t)
  PROVE  LInv'
<1>1. LInvParts
  BY Parts
<1>2. PICK s \in LSock : s = sockcall[t].s
  BY <1>1 DEF LInvParts, LCall
<1>3. PICK Z \in SUBSET LSock : Z = ToSet(clientq[s])
  BY QueueIs
<1>4. /\ sockcall[t].op = "accept" /\ ~sockcall[t].asleep /\ sigd' = sigd \ {t}
      /\ clientq' = [clientq EXCEPT ![s] = << >>] /\ retcode' = Refused(Z) /\ sockq' = Signalled(Z)
      /\ Back(t, First(Z)) /\ live' = live /\ bindi' = bindi /\ input' = input /\ output' = output
      /\ paired' = paired /\ faulted' = faulted
  BY <1>2, <1>3 DEF AcceptInterrupted, Wakes, freeclient
<1>5. /\ SleepersOK(sockcall', sockq') /\ sockcall' \in [LTask -> LCall]
      /\ sockcall'[t].op = "user" /\ \A u \in LTask \ {t} : sockcall'[u].op = sockcall[u].op
      /\ \A u \in LTask : StaysOrIsWoken(Z, u)
  <2>1. live \subseteq live'
    BY <1>4
  <2> QED BY <1>1, <1>4, <2>1, BackCalls
<1>6. clientq \in [LSock -> Seq(LSock)] /\ retcode \in [LSock -> {"0", "EINTR", "ECONNREFUSED"}]
  BY <1>1 DEF LInvParts, LTypeOK
<1>7. << >> \in Seq(LSock) /\ IsInjective(<< >>) /\ ToSet(<< >>) = {} /\ Len(<< >>) = 0
  BY DEF IsInjective, ToSet
<1>8. /\ clientq' \in [LSock -> Seq(LSock)] /\ clientq'[s] = << >>
      /\ \A x \in LSock \ {s} : clientq'[x] = clientq[x]
  BY <1>4, <1>6, <1>7
<1>9. /\ retcode' \in [LSock -> {"0", "EINTR", "ECONNREFUSED"}]
      /\ \A c \in Z : retcode'[c] = "ECONNREFUSED"
      /\ \A c \in LSock \ Z : retcode'[c] = retcode[c]
  BY <1>4, <1>6 DEF Refused
<1>10. Released(Z)
  <2>1. \A u \in LTask : sockcall'[u].op = "connect" /\ u \in sigd => u \in sigd'
    BY <1>4, <1>5
  <2>2. \A c \in Z : retcode'[c] # "0" \/ c \in paired'
    BY <1>9
  <2>3. ASSUME NEW u \in LTask, sockcall[u].op = "connect", sockcall[u].s \notin Z
        PROVE  /\ retcode'[sockcall[u].s] = retcode[sockcall[u].s]
               /\ sockcall[u].s \in paired => sockcall[u].s \in paired'
               /\ \A x \in live \cap Server : sockcall[u].s \in ToSet(clientq[x]) =>
                    x \in live' /\ sockcall[u].s \in ToSet(clientq'[x])
    <3>1. sockcall[u].s \in LSock
      BY <1>1 DEF LInvParts, LCall
    <3>2. \A x \in live \cap Server : x \in LSock
      BY LocalAssumption
    <3> QED BY <1>3, <1>4, <1>8, <1>9, <2>3, <3>1, <3>2
  <2> QED BY <1>4, <1>5, <2>1, <2>2, <2>3 DEF Released
<1>11. CallsOK(sockcall)' /\ ClientsAreQueued' /\ SuccessIsTrue'
  BY <1>10, ReleasedOK
<1>12. AcceptorsAreWoken'
  <2>1. ASSUME NEW x \in Server, x # s PROVE Enough(x)'
    <3>1. x \in LSock /\ Len(clientq[x]) \in Nat
      BY <1>1 DEF LInvParts
    <3>2. Len(clientq'[x]) \in Nat /\ Len(clientq'[x]) <= Len(clientq[x])
      BY <1>8, <2>1, <3>1
    <3>3. \A u \in LTask : u \in Comers(x) => sockcall'[u].op = sockcall[u].op
      BY <1>2, <1>5, <2>1 DEF Comers
    <3> QED BY <1>10, <3>2, <3>3, ReleasedEnough
  <2>2. Enough(s)'
    <3>1. Cardinality(Comers(s)') \in Nat
      BY ComersFiniteNext
    <3> QED BY <1>7, <1>8, <3>1 DEF Enough
  <2> QED BY <2>1, <2>2 DEF AcceptorsAreWoken, Enough
<1>13. ClientsOK'
  <2>1. \A x \in LSock : bindi'[x] # None => x \in live' \cap Server
    BY <1>1, <1>4 DEF LInvParts, ClientsOK
  <2>2. ASSUME NEW x \in LSock
        PROVE  /\ IsInjective(clientq'[x]) /\ ToSet(clientq'[x]) \subseteq ToSet(clientq[x])
               /\ \A c \in ToSet(clientq'[x]) :
                    {x, c} \subseteq live' /\ input'[c] = input[c] /\ output'[c] = output[c]
    BY <1>4, <1>7, <1>8, QueueIs
  <2> QED BY <1>1, <2>1, <2>2, ShrunkOK DEF LInvParts
<1>14. LTypeOK' /\ PipesArePaired'
  BY <1>1, <1>4, <1>5, <1>8, <1>9 DEF LInvParts, LTypeOK, PipesArePaired
<1> QED BY <1>5, <1>11, <1>12, <1>13, <1>14 DEF LInv

\* The last close of a socket refuses its clients, or takes it from its queue.
LEMMA CloseStep ==
  ASSUME LInv, NEW s \in LSock, Close(s)
  PROVE  LInv'
<1>1. LInvParts
  BY Parts
<1>2. PICK Z \in SUBSET LSock : Z = ToSet(clientq[s])
  BY QueueIs
<1>3. /\ s \in live /\ live' = live \ {s}
      /\ clientq' = [k \in LSock |-> IF k = s THEN << >> ELSE Without(clientq[k], s)]
      /\ retcode' = [Refused(Z) EXCEPT ![s] = "0"] /\ sockq' = Signalled(Z) /\ sockcall' = Awake(First(Z))
      /\ bindi' = [bindi EXCEPT ![s] = None]
      /\ input' = [input EXCEPT ![s] = NoPipe] /\ output' = [output EXCEPT ![s] = NoPipe]
      /\ paired' = paired \ {s} /\ sigd' = sigd /\ faulted' = faulted
  BY <1>2 DEF Close
<1>4. \A u \in LTask : sockcall[u].op = "user" \/ sockcall[u].s # s
  BY DEF Close, Idle
<1>5. /\ SleepersOK(sockcall', sockq') /\ sockcall' \in [LTask -> LCall]
      /\ \A u \in LTask :
           /\ sockcall'[u].op = sockcall[u].op /\ sockcall'[u].s = sockcall[u].s
           /\ sockcall'[u].asleep => sockcall[u].asleep /\ u \notin First(Z)
           /\ sockcall[u].asleep /\ u \notin First(Z) => sockcall'[u].asleep
  BY <1>1, <1>3, WokenCalls
<1>6. \A u \in LTask : StaysOrIsWoken(Z, u)
  BY <1>3, <1>4, <1>5 DEF StaysOrIsWoken
<1>7. /\ clientq \in [LSock -> Seq(LSock)] /\ retcode \in [LSock -> {"0", "EINTR", "ECONNREFUSED"}]
      /\ live \subseteq LSock /\ bindi \in [LSock -> Path \cup {None}]
  BY <1>1 DEF LInvParts, LTypeOK
<1>8. << >> \in Seq(LSock) /\ IsInjective(<< >>) /\ ToSet(<< >>) = {} /\ Len(<< >>) = 0
  BY DEF IsInjective, ToSet
<1>9. ASSUME NEW x \in LSock
      PROVE  /\ clientq'[x] \in Seq(LSock) /\ IsInjective(clientq'[x]) /\ Len(clientq'[x]) <= Len(clientq[x])
             /\ ToSet(clientq'[x]) = IF x = s THEN {} ELSE ToSet(clientq[x]) \ {s}
  <2>1. clientq[x] \in Seq(LSock) /\ IsInjective(clientq[x]) /\ Len(clientq[x]) \in Nat
    BY QueueIs
  <2>2. CASE x = s
    <3>1. clientq'[x] = << >>
      BY <1>3, <2>2
    <3> QED BY <1>8, <2>1, <2>2, <3>1
  <2>3. CASE x # s
    <3>1. clientq'[x] = Without(clientq[x], s)
      BY <1>3, <2>3
    <3> QED BY <2>1, <2>3, <3>1, LineWithout
  <2> QED BY <2>2, <2>3
<1>10. clientq' \in [LSock -> Seq(LSock)]
  <2>1. clientq' = [k \in LSock |-> clientq'[k]]
    BY <1>3
  <2> QED BY <1>9, <2>1
<1>11. s \notin Z
  BY <1>2, QueueIs
<1>12. /\ retcode' \in [LSock -> {"0", "EINTR", "ECONNREFUSED"}]
       /\ \A c \in Z : retcode'[c] = "ECONNREFUSED"
       /\ \A c \in LSock \ (Z \cup {s}) : retcode'[c] = retcode[c]
  BY <1>3, <1>7, <1>11 DEF Refused
<1>13. Released(Z)
  <2>1. \A u \in LTask : sockcall'[u].op = "connect" /\ u \in sigd => u \in sigd'
    BY <1>3
  <2>2. \A c \in Z : retcode'[c] # "0" \/ c \in paired'
    BY <1>12
  <2>3. ASSUME NEW u \in LTask, sockcall[u].op = "connect", sockcall[u].s \notin Z
        PROVE  /\ retcode'[sockcall[u].s] = retcode[sockcall[u].s]
               /\ sockcall[u].s \in paired => sockcall[u].s \in paired'
               /\ \A x \in live \cap Server : sockcall[u].s \in ToSet(clientq[x]) =>
                    x \in live' /\ sockcall[u].s \in ToSet(clientq'[x])
    <3>1. sockcall[u].s \in LSock /\ sockcall[u].s # s
      BY <1>1, <1>4, <2>3 DEF LInvParts, LCall
    <3>2. \A x \in live \cap Server : x \in LSock
      BY LocalAssumption
    <3>3. \A x \in live \cap Server : sockcall[u].s \in ToSet(clientq[x]) =>
                    x \in live' /\ sockcall[u].s \in ToSet(clientq'[x])
      BY <1>2, <1>3, <1>9, <2>3, <3>1, <3>2
    <3> QED BY <1>3, <1>12, <2>3, <3>1, <3>3
  <2> QED BY <1>3, <1>6, <2>1, <2>2, <2>3 DEF Released
<1>14. CallsOK(sockcall)' /\ ClientsAreQueued' /\ SuccessIsTrue'
  BY <1>13, ReleasedOK
<1>15. AcceptorsAreWoken'
  <2>1. ASSUME NEW x \in Server PROVE Enough(x)'
    <3>1. x \in LSock
      BY LocalAssumption
    <3>2. clientq'[x] \in Seq(LSock) /\ Len(clientq'[x]) <= Len(clientq[x])
      BY <1>9, <3>1
    <3>3. Len(clientq'[x]) \in Nat
      BY <3>2
    <3>4. \A u \in LTask : u \in Comers(x) => sockcall'[u].op = sockcall[u].op
      BY <1>5
    <3> QED BY <1>13, <3>2, <3>3, <3>4, ReleasedEnough
  <2> QED BY <2>1 DEF AcceptorsAreWoken, Enough
<1>16. PipesTyped' /\ \A x \in LSock : input'[x] \in {input[x], NoPipe} /\ output'[x] \in {output[x], NoPipe}
  BY <1>1, <1>3 DEF LInvParts, PipesTyped
<1>17. PipesArePaired'
  BY <1>1, <1>16, LeavesOK DEF LInvParts
<1>18. bindi' \in [LSock -> Path \cup {None}] /\ \A x \in LSock : bindi'[x] # None => x \in live' \cap Server
  <2>1. \A x \in LSock : bindi[x] # None => x \in live \cap Server
    BY <1>1 DEF LInvParts, ClientsOK
  <2> QED BY <1>3, <1>7, <2>1
<1>19. ClientsOK'
  <2>1. ASSUME NEW x \in LSock
        PROVE  /\ IsInjective(clientq'[x]) /\ ToSet(clientq'[x]) \subseteq ToSet(clientq[x])
               /\ \A c \in ToSet(clientq'[x]) :
                    {x, c} \subseteq live' /\ input'[c] = input[c] /\ output'[c] = output[c]
    <3>1. IsInjective(clientq'[x]) /\ ToSet(clientq'[x]) \subseteq ToSet(clientq[x])
      BY <1>9
    <3>2. ASSUME NEW c \in ToSet(clientq'[x])
          PROVE  {x, c} \subseteq live' /\ input'[c] = input[c] /\ output'[c] = output[c]
      <4>1. x # s /\ c # s /\ c \in ToSet(clientq[x])
        BY <1>9, <3>2
      <4>2. x \in live /\ c \in live
        BY <4>1, QueueIs
      <4> QED BY <1>1, <1>3, <1>7, <4>1, <4>2 DEF LInvParts, PipesTyped
    <3> QED BY <3>1, <3>2
  <2> QED BY <1>1, <1>18, <2>1, ShrunkOK DEF LInvParts
<1>20. LTypeOK'
  <2>1. live' \subseteq LSock
    BY <1>3, <1>7
  <2> QED BY <1>5, <1>10, <1>12, <1>16, <1>18, <2>1 DEF LTypeOK, PipesTyped
<1> QED BY <1>5, <1>14, <1>15, <1>17, <1>19, <1>20 DEF LInv
\* accept takes the first client: a client fewer, and a task fewer awake for it.
LEMMA AcceptTakesStep ==
  ASSUME LInv, NEW t \in LTask, NEW s \in LSock, NEW new \in LSock, NEW fdleft \in BOOLEAN,
         AcceptTakes(t, s, new, fdleft)
  PROVE  LInv'
<1>1. LInvParts
  BY Parts
<1>2. /\ clientq[s] \in Seq(LSock) /\ IsInjective(clientq[s]) /\ Len(clientq[s]) \in Nat
      /\ clientq[s] # << >>
  BY QueueIs DEF AcceptTakes
<1>3. PICK client \in LSock : client = Head(clientq[s])
  BY <1>2, LineSignalled
<1>4. /\ client \in ToSet(clientq[s]) /\ Tail(clientq[s]) \in Seq(LSock) /\ IsInjective(Tail(clientq[s]))
      /\ ToSet(Tail(clientq[s])) = ToSet(clientq[s]) \ {client} /\ Len(Tail(clientq[s])) = Len(clientq[s]) - 1
  BY <1>2, <1>3, LineSignalled
<1>5. client \in live \ Server /\ \A k \in LSock \ {s} : client \notin ToSet(clientq[k])
  BY <1>4, QueueIs
<1>6. /\ Accepting(t, s) /\ new \notin live /\ Cardinality(Unused) >= 2
      /\ clientq' = [clientq EXCEPT ![s] = Tail(@)]
      /\ sockq' = Signalled({client}) /\ Back(t, First({client}))
      /\ paired' = paired \cup {client} /\ bindi' = bindi /\ sigd' = sigd /\ faulted' = faulted
  BY <1>3 DEF AcceptTakes
<1>7. PICK p, r \in LPipe :
        /\ p = Min(Unused) /\ r = Min(Unused \ {p}) /\ p # r
        /\ \A x \in LSock : {p, r} \cap {input[x], output[x]} = {}
  BY <1>6, NewPipes
<1>8. \/ pair(client, new, Unused) /\ live' = live \cup {new} /\ retcode' = retcode
      \/ /\ input' = [input EXCEPT ![client] = r] /\ output' = [output EXCEPT ![client] = p]
         /\ retcode' = Refused({client}) /\ live' = live
  BY <1>3, <1>7 DEF AcceptTakes
<1>9. /\ ~sockcall[t].asleep /\ s \in live \cap Server
      /\ sockcall[t].op = "user" \/ (sockcall[t].op = "accept" /\ sockcall[t].s = s)
  BY <1>1, <1>6 DEF LInvParts, CallsOK, Accepting, Runs, Wakes
<1>10. live \subseteq live' /\ live' \subseteq LSock /\ live \subseteq LSock
  BY <1>1, <1>8 DEF LInvParts, LTypeOK
<1>11. /\ SleepersOK(sockcall', sockq') /\ sockcall' \in [LTask -> LCall]
       /\ sockcall'[t].op = "user" /\ \A u \in LTask \ {t} : sockcall'[u].op = sockcall[u].op
       /\ \A u \in LTask : StaysOrIsWoken({client}, u)
  BY <1>1, <1>6, <1>9, <1>10, BackCalls
<1>12. clientq \in [LSock -> Seq(LSock)] /\ retcode \in [LSock -> {"0", "EINTR", "ECONNREFUSED"}]
  BY <1>1 DEF LInvParts, LTypeOK
<1>13. /\ clientq' \in [LSock -> Seq(LSock)] /\ clientq'[s] = Tail(clientq[s])
       /\ \A x \in LSock \ {s} : clientq'[x] = clientq[x]
  BY <1>4, <1>6, <1>12
<1>14. /\ retcode' \in [LSock -> {"0", "EINTR", "ECONNREFUSED"}]
       /\ \A c \in LSock \ {client} : retcode'[c] = retcode[c]
  BY <1>8, <1>12 DEF Refused
<1>15. Released({client})
  <2>1. ASSUME NEW u \in LTask, sockcall[u].op = "connect", sockcall[u].s \notin {client}
        PROVE  /\ retcode'[sockcall[u].s] = retcode[sockcall[u].s]
               /\ sockcall[u].s \in paired => sockcall[u].s \in paired'
               /\ \A x \in live \cap Server : sockcall[u].s \in ToSet(clientq[x]) =>
                    x \in live' /\ sockcall[u].s \in ToSet(clientq'[x])
    <3>1. sockcall[u].s \in LSock
      BY <1>1 DEF LInvParts, LCall
    <3>2. \A x \in live \cap Server : x \in LSock
      BY LocalAssumption
    <3>3. \A x \in live \cap Server : sockcall[u].s \in ToSet(clientq[x]) =>
                    x \in live' /\ sockcall[u].s \in ToSet(clientq'[x])
      BY <1>4, <1>10, <1>13, <2>1, <3>2
    <3> QED BY <1>6, <1>14, <2>1, <3>1, <3>3
  <2>2. \A u \in LTask : sockcall'[u].op = "connect" /\ u \in sigd => u \in sigd'
    BY <1>6
  <2>3. \A c \in {client} : retcode'[c] # "0" \/ c \in paired'
    BY <1>6
  <2> QED BY <1>6, <1>11, <2>1, <2>2, <2>3 DEF Released
<1>16. CallsOK(sockcall)' /\ ClientsAreQueued' /\ SuccessIsTrue'
  BY <1>15, ReleasedOK
<1>17. ASSUME NEW x \in Server, x # s PROVE Enough(x)'
  <2>1. x \in LSock /\ Len(clientq[x]) \in Nat
    BY <1>1 DEF LInvParts
  <2>2. Len(clientq'[x]) \in Nat /\ Len(clientq'[x]) <= Len(clientq[x])
    BY <1>13, <1>17, <2>1
  <2>3. \A u \in LTask : u \in Comers(x) => sockcall'[u].op = sockcall[u].op
    BY <1>9, <1>11, <1>17 DEF Comers
  <2> QED BY <1>15, <2>2, <2>3, ReleasedEnough
<1>18. Enough(s)'
  <2> SUFFICES ASSUME NEW x \in LTask, sockcall'[x].op = "accept", sockcall'[x].asleep, sockcall'[x].s = s
               PROVE  Len(clientq'[s]) <= Cardinality(Comers(s)')
    BY DEF Enough
  <2>1. sockcall[x].op = "accept" /\ sockcall[x].asleep /\ sockcall[x].s = s
    BY <1>11 DEF StaysOrIsWoken
  <2>2. Len(clientq[s]) <= Cardinality(Comers(s))
    BY <1>1, <1>9, <2>1 DEF LInvParts, Enough
  <2>3. Comers(s) \ {t} \in SUBSET Comers(s)'
    <3> SUFFICES ASSUME NEW u \in Comers(s), u # t PROVE u \in Comers(s)'
      OBVIOUS
    <3>1. u \in LTask /\ sockcall[u].op = "accept" /\ ~sockcall[u].asleep /\ sockcall[u].s = s
      BY DEF Comers
    <3>2. sockcall'[u].op = "accept" /\ StaysOrIsWoken({client}, u)
      BY <1>11, <3>1
    <3>3. sockcall'[u].s = s /\ ~sockcall'[u].asleep
      BY <3>1, <3>2 DEF StaysOrIsWoken
    <3> QED BY <3>1, <3>2, <3>3 DEF Comers
  <2>4. IsFiniteSet(Comers(s)) /\ IsFiniteSet(Comers(s)')
    BY ComersFinite, ComersFiniteNext
  <2>5. Cardinality(Comers(s) \ {t}) <= Cardinality(Comers(s)')
    BY <2>3, <2>4, FS_Subset
  <2>6. Cardinality(Comers(s)) - 1 <= Cardinality(Comers(s) \ {t})
    <3>1. Cardinality(Comers(s)) \in Nat
      BY ComersFinite
    <3>2. CASE t \in Comers(s)
      <4>1. Cardinality(Comers(s) \ {t}) = Cardinality(Comers(s)) - 1
        BY <2>4, <3>2, FS_RemoveElement
      <4> QED BY <3>1, <4>1
    <3>3. CASE t \notin Comers(s)
      <4>1. Comers(s) \ {t} = Comers(s)
        BY <3>3
      <4>2. Cardinality(Comers(s) \ {t}) = Cardinality(Comers(s))
        BY <4>1
      <4> QED BY <3>1, <4>2
    <3> QED BY <3>2, <3>3
  <2>7. /\ Cardinality(Comers(s)) \in Nat /\ Cardinality(Comers(s)') \in Nat
        /\ Cardinality(Comers(s) \ {t}) \in Nat
    <3>1. IsFiniteSet(Comers(s) \ {t})
      BY <2>4, FS_Subset
    <3> QED BY <3>1, ComersFinite, ComersFiniteNext, FS_CardinalityType
  <2> QED BY <1>2, <1>4, <1>13, <2>2, <2>5, <2>6, <2>7
<1>19. AcceptorsAreWoken'
  BY <1>17, <1>18 DEF AcceptorsAreWoken, Enough
<1>20. client # new
  BY <1>5, <1>6
<1>21. PipesTyped' /\ PipesArePaired'
  <2>1. CASE pair(client, new, Unused)
    BY <1>1, <1>6, <1>20, <2>1, PairOK DEF LInvParts
  <2>2. CASE input' = [input EXCEPT ![client] = r] /\ output' = [output EXCEPT ![client] = p]
    BY <1>1, <1>7, <2>2, OneEndOK DEF LInvParts
  <2> QED BY <1>8, <2>1, <2>2
<1>22. \A x \in LSock \ {client, new} : input'[x] = input[x] /\ output'[x] = output[x]
  BY <1>1, <1>8 DEF LInvParts, PipesTyped, pair
<1>23. ClientsOK'
  <2>1. \A x \in LSock : bindi'[x] # None => x \in live' \cap Server
    BY <1>1, <1>6, <1>10 DEF LInvParts, ClientsOK
  <2>2. ASSUME NEW x \in LSock
        PROVE  /\ IsInjective(clientq'[x]) /\ ToSet(clientq'[x]) \subseteq ToSet(clientq[x])
               /\ \A c \in ToSet(clientq'[x]) :
                    {x, c} \subseteq live' /\ input'[c] = input[c] /\ output'[c] = output[c]
    <3>1. IsInjective(clientq'[x]) /\ ToSet(clientq'[x]) \subseteq ToSet(clientq[x]) \ {client}
      BY <1>4, <1>5, <1>13, QueueIs
    <3>2. ASSUME NEW c \in ToSet(clientq'[x])
          PROVE  {x, c} \subseteq live' /\ input'[c] = input[c] /\ output'[c] = output[c]
      <4>1. c \in ToSet(clientq[x]) /\ c # client
        BY <3>1, <3>2
      <4>2. x \in live /\ c \in live
        BY <4>1, QueueIs
      <4> QED BY <1>6, <1>10, <1>22, <4>1, <4>2
    <3> QED BY <3>1, <3>2
  <2> QED BY <1>1, <2>1, <2>2, ShrunkOK DEF LInvParts
<1>24. LTypeOK'
  BY <1>1, <1>6, <1>10, <1>11, <1>13, <1>14, <1>21 DEF LInvParts, LTypeOK, PipesTyped
<1> QED BY <1>11, <1>16, <1>19, <1>21, <1>23, <1>24 DEF LInv

\* With no socket there is nothing to wait for.
LEMMA LInitOK == LocalInit => LInv
<1> SUFFICES ASSUME LocalInit PROVE LInv
  OBVIOUS
<1>1. << >> \in Seq(LSock) /\ << >> \in Seq(LTask) /\ IsInjective(<< >>) /\ ToSet(<< >>) = {}
  BY DEF IsInjective, ToSet
<1>2. InUser \in LCall /\ InUser.op = "user" /\ ~InUser.asleep
  BY LocalAssumption DEF InUser, LCall
<1>3. LTypeOK
  BY <1>1, <1>2 DEF LocalInit, LTypeOK
<1>4. \A t \in LTask : sockcall[t].op = "user" /\ ~sockcall[t].asleep
  BY <1>2 DEF LocalInit
<1>5. CallsOK(sockcall) /\ ClientsAreQueued /\ SuccessIsTrue /\ AcceptorsAreWoken
  BY <1>4 DEF CallsOK, ClientsAreQueued, SuccessIsTrue, Wakes, AcceptorsAreWoken
<1>6. SleepersOK(sockcall, sockq)
  BY <1>1, <1>4 DEF LocalInit, SleepersOK
<1>7. ClientsOK
  BY <1>1 DEF LocalInit, ClientsOK
<1>8. PipesArePaired
  BY DEF LocalInit, PipesArePaired
<1> QED BY <1>3, <1>5, <1>6, <1>7, <1>8 DEF LInv

\* Every step keeps the invariant.
LEMMA LNextOK == LInv /\ [LocalNext]_sockvars => LInv'
<1> SUFFICES ASSUME LInv, [LocalNext]_sockvars PROVE LInv'
  OBVIOUS
<1>1. CASE UNCHANGED sockvars
  <2>1. /\ UNCHANGED QuietVars /\ faulted' = faulted /\ bindi' = bindi /\ live' = live
        /\ input' = input /\ output' = output
    BY <1>1 DEF sockvars, QuietVars
  <2>2. PipesTyped' /\ PipesArePaired' /\ \A c \in live : Pipes(c) = {} => Pipes(c)' = {}
    BY <2>1 DEF LInv, LTypeOK, PipesTyped, PipesArePaired, Pipes
  <2>3. live' \subseteq LSock /\ bindi' \in [LSock -> Path \cup {None}]
    BY <2>1 DEF LInv, LTypeOK
  <2>4. \A x \in LSock : bindi'[x] # None => x \in live' \cap Server
    BY <2>1 DEF LInv, ClientsOK
  <2>5. live \subseteq live' /\ (faulted => faulted')
    BY <2>1
  <2> QED BY <2>1, <2>2, <2>3, <2>4, <2>5, QuietSocketOK
<1>2. ASSUME NEW s \in LSock, unixsocket(s) PROVE LInv'
  BY <1>2, SocketStep
<1>3. ASSUME NEW a \in LSock, NEW b \in LSock, unixsocketpair(a, b) PROVE LInv'
  BY <1>3, SocketpairStep
<1>4. ASSUME NEW s \in LSock, NEW p \in Path, Bind(s, p) PROVE LInv'
  BY <1>4, BindStep
<1>5. ASSUME NEW t \in LTask, NEW c \in LSock, NEW p \in Path, Connect(t, c, p) PROVE LInv'
  BY <1>5, ConnectStep
<1>6. ASSUME NEW t \in LTask, ConnectReturns(t) PROVE LInv'
  BY <1>6, ConnectReturnsStep
<1>7. ASSUME NEW t \in LTask, AcceptInterrupted(t) PROVE LInv'
  BY <1>7, AcceptInterruptedStep
<1>8. ASSUME NEW t \in LTask, NEW s \in LSock, AcceptSleeps(t, s) PROVE LInv'
  BY <1>8, AcceptSleepsStep
<1>9. ASSUME NEW t \in LTask, NEW s \in LSock, NEW new \in LSock, NEW fdleft \in BOOLEAN,
             AcceptTakes(t, s, new, fdleft)
      PROVE  LInv'
  BY <1>9, AcceptTakesStep
<1>10. ASSUME NEW s \in LSock, NEW how \in 0 .. 2, shutdown(s, how) PROVE LInv'
  BY <1>10, ShutdownStep
<1>11. ASSUME NEW s \in LSock, Close(s) PROVE LInv'
  BY <1>11, CloseStep
<1>12. ASSUME NEW t \in LTask, Interrupt(t) PROVE LInv'
  BY <1>12, InterruptStep
<1> QED BY <1>1, <1>2, <1>3, <1>4, <1>5, <1>6, <1>7, <1>8, <1>9, <1>10, <1>11, <1>12 DEF LocalNext

\* The invariant holds all that ConnectionsAreSound says.
LEMMA LInvSound == LInv => ConnectionsAreSound
<1> SUFFICES ASSUME LInv PROVE ConnectionsAreSound
  OBVIOUS
<1>1. QueuesAreSound
  <2> SUFFICES ASSUME NEW s \in LSock, NEW c \in ToSet(clientq[s])
               PROVE  /\ {s, c} \subseteq live /\ Pipes(c) = {}
                      /\ \A k \in LSock \ {s} : c \notin ToSet(clientq[k])
                      /\ Cardinality({i \in DOMAIN clientq[s] : clientq[s][i] = c}) = 1
    BY DEF QueuesAreSound
  <2>1. /\ {s, c} \subseteq live /\ Pipes(c) = {} /\ IsInjective(clientq[s])
        /\ \A k \in LSock \ {s} : c \notin ToSet(clientq[k])
    BY DEF LInv, ClientsOK
  <2>2. PICK j \in DOMAIN clientq[s] : clientq[s][j] = c
    BY DEF ToSet
  <2>3. {i \in DOMAIN clientq[s] : clientq[s][i] = c} = {j}
    BY <2>1, <2>2 DEF IsInjective
  <2> QED BY <2>1, <2>3, FS_Singleton
<1> QED BY <1>1 DEF LInv, ConnectionsAreSound

(***************************************************************************)
(* For any number of servers, clients, tasks, paths and pipes, whatever    *)
(* the order of connect, accept, close, shutdown and signals: a task that  *)
(* sleeps in connect is queued at a server that exists, none sleeps in     *)
(* accept while more clients wait than tasks are awake there, connect says *)
(* 0 only to a client that was accepted, and pipes join the ends of pairs. *)
(***************************************************************************)
THEOREM ConnectionsCorrect == LocalSpec => []ConnectionsAreSound
BY LInitOK, LNextOK, LInvSound, PTL DEF LocalSpec
=============================================================================
