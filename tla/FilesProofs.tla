---------------------------- MODULE FilesProofs ----------------------------
(***************************************************************************)
(* TLAPS proofs about the file system, for any finite numbers of tasks,    *)
(* descriptors, buffers and inodes, and for any numbers of calls.          *)
(*                                                                         *)
(*  - Open files: tables, descriptions and inodes agree (FInv).            *)
(*  - The buffer cache: what was last written to a block is not lost, and  *)
(*    a buffer in use keeps its block (BufInv).                            *)
(*  - The inode cache: names, fields and slots agree, and a slot in use    *)
(*    keeps its inode (IInv).                                              *)
(***************************************************************************)
EXTENDS
  Files, BufCache, ICache,
  FiniteSetTheorems, SequenceTheorems, WellFoundedInduction, TLAPS

Flags == {"READ", "WRITE", "APPEND", "TRUNC"}
FdesRec == [refcnt : Nat, inode : Inode \cup {Nil}, flags : SUBSET Flags, curpos : Int]
CallRec ==
  [fd : Fd \cup {Nil}, to : Fd \cup {Nil}, inode : Inode \cup {Nil}, flags : SUBSET Flags, pos : Int]

FTypeOK ==
  /\ fvec \in [FTask -> [Fd -> Fdes \cup {Nil}]]
  /\ closemap \in [FTask -> SUBSET Fd]
  /\ fdes \in [Fdes -> FdesRec]
  /\ iref \in [Inode -> Int] /\ size \in [Inode -> Int]
  /\ fpc \in [FTask -> {"none", "user", "open", "close", "dup2", "exec", "exit", "read", "write"}]
  /\ fcall \in [FTask -> CallRec]

\* What a task's call has in hand, by where it sleeps.
CallOK(t) ==
  /\ fpc[t] \in {"none", "user", "open"} => fcall[t].fd = Nil
  /\ fpc[t] \in {"none", "user", "read", "write"} => fcall[t].inode = Nil
  /\ fpc[t] = "none" => Open(t) = {}
  /\ fpc[t] = "open" => fcall[t].inode # Nil
  /\ fpc[t] \in {"close", "dup2"} => fcall[t].fd # Nil
  /\ fpc[t] = "dup2" => fcall[t].to \in Open(t) \ {fcall[t].fd}
  /\ fpc[t] \in {"read", "write"} => fcall[t].fd \in Open(t)
  /\ fpc[t] \in {"exec", "exit"} /\ fcall[t].fd = Nil => fcall[t].inode = Nil
  /\ fpc[t] = "exec" => fcall[t].fd \notin closemap[t]

MarkedOpen(t) == fpc[t] # "exit" => closemap[t] \subseteq Open(t)
OwnOK(t) == CallOK(t) /\ MarkedOpen(t)

DescOK == \A f \in Fdes : fdes[f].refcnt > 0 => fdes[f].inode # Nil

FInv == FTypeOK /\ DescOK /\ FilesAreCounted /\ \A t \in FTask : OwnOK(t)

----------------------------------------------------------------------------
(* Counts. *)

LEMMA FiniteSlots ==
  ASSUME NEW f PROVE IsFiniteSet(Slots(f))
<1>1. IsFiniteSet(FTask \X Fd)
  BY FS_Product, FilesAssumption
<1> QED BY <1>1, FS_Subset DEF Slots

LEMMA FiniteUsers ==
  ASSUME NEW i PROVE IsFiniteSet(Users(i)) /\ IsFiniteSet(Callers(i))
  BY FS_Subset, FilesAssumption DEF Users, Callers

LEMMA InSlots ==
  ASSUME NEW t \in FTask, NEW d \in Fd, NEW f
  PROVE  <<t, d>> \in Slots(f) <=> Counted(t, d, f)
  BY DEF Slots

\* Only t's own variables change.
Frame(t) ==
  \A u \in FTask \ {t} :
    fvec'[u] = fvec[u] /\ closemap'[u] = closemap[u] /\ fpc'[u] = fpc[u] /\ fcall'[u] = fcall[u]

LEMMA OthersOK ==
  ASSUME NEW t \in FTask, \A u \in FTask : OwnOK(u), Frame(t), OwnOK(t)'
  PROVE  (\A u \in FTask : OwnOK(u))'
<1>1. ASSUME NEW u \in FTask \ {t} PROVE OwnOK(u)'
  BY DEF Frame, OwnOK, CallOK, MarkedOpen, Open
<1> QED BY <1>1

LEMMA OthersCounted ==
  ASSUME NEW t \in FTask, Frame(t), NEW u \in FTask \ {t}, NEW d \in Fd, NEW f
  PROVE  Counted(u, d, f)' <=> Counted(u, d, f)
  BY DEF Frame, Counted

\* The slots of f stay, but for slot e of t.
SlotsBut(t, e, f) == \A d \in Fd \ {e} : Counted(t, d, f)' <=> Counted(t, d, f)

LEMMA SlotsSame ==
  ASSUME NEW t \in FTask, Frame(t), NEW f, \A d \in Fd : Counted(t, d, f)' <=> Counted(t, d, f)
  PROVE  Slots(f)' = Slots(f)
<1>1. ASSUME NEW s \in FTask \X Fd PROVE s \in Slots(f)' <=> s \in Slots(f)
  <2>1. s[1] \in FTask /\ s[2] \in Fd
    OBVIOUS
  <2>2. Counted(s[1], s[2], f)' <=> Counted(s[1], s[2], f)
    BY <2>1, OthersCounted
  <2> QED BY <2>2 DEF Slots
<1> QED BY <1>1 DEF Slots

LEMMA SlotsAdd ==
  ASSUME NEW t \in FTask, Frame(t), NEW e \in Fd, NEW f, SlotsBut(t, e, f),
         ~Counted(t, e, f), Counted(t, e, f)'
  PROVE  Cardinality(Slots(f)') = Cardinality(Slots(f)) + 1
<1>1. ASSUME NEW s \in FTask \X Fd PROVE s \in Slots(f)' <=> s \in Slots(f) \cup {<<t, e>>}
  <2>1. s[1] \in FTask /\ s[2] \in Fd /\ s = <<s[1], s[2]>>
    OBVIOUS
  <2>2. CASE s[1] # t
    <3>1. Counted(s[1], s[2], f)' <=> Counted(s[1], s[2], f)
      BY <2>1, <2>2, OthersCounted
    <3> QED BY <3>1, <2>2 DEF Slots
  <2>3. CASE s[1] = t /\ s[2] # e
    <3>1. Counted(s[1], s[2], f)' <=> Counted(s[1], s[2], f)
      BY <2>1, <2>3 DEF SlotsBut
    <3> QED BY <3>1, <2>3 DEF Slots
  <2>4. CASE s[1] = t /\ s[2] = e
    BY <2>1, <2>4 DEF Slots
  <2> QED BY <2>2, <2>3, <2>4
<1>2. <<t, e>> \in FTask \X Fd
  OBVIOUS
<1>3. Slots(f)' = Slots(f) \cup {<<t, e>>}
  BY <1>1, <1>2 DEF Slots
<1>4. <<t, e>> \notin Slots(f)
  BY InSlots
<1> QED BY <1>3, <1>4, FiniteSlots, FS_AddElement

LEMMA SlotsDrop ==
  ASSUME NEW t \in FTask, Frame(t), NEW e \in Fd, NEW f, SlotsBut(t, e, f),
         Counted(t, e, f), ~Counted(t, e, f)'
  PROVE  Cardinality(Slots(f)') = Cardinality(Slots(f)) - 1
<1>1. ASSUME NEW s \in FTask \X Fd PROVE s \in Slots(f)' <=> s \in Slots(f) \ {<<t, e>>}
  <2>1. s[1] \in FTask /\ s[2] \in Fd /\ s = <<s[1], s[2]>>
    OBVIOUS
  <2>2. CASE s[1] # t
    <3>1. Counted(s[1], s[2], f)' <=> Counted(s[1], s[2], f)
      BY <2>1, <2>2, OthersCounted
    <3> QED BY <3>1, <2>2 DEF Slots
  <2>3. CASE s[1] = t /\ s[2] # e
    <3>1. Counted(s[1], s[2], f)' <=> Counted(s[1], s[2], f)
      BY <2>1, <2>3 DEF SlotsBut
    <3> QED BY <3>1, <2>3 DEF Slots
  <2>4. CASE s[1] = t /\ s[2] = e
    BY <2>1, <2>4 DEF Slots
  <2> QED BY <2>2, <2>3, <2>4
<1>2. Slots(f)' = Slots(f) \ {<<t, e>>}
  BY <1>1 DEF Slots
<1>3. <<t, e>> \in Slots(f)
  BY InSlots
<1> QED BY <1>2, <1>3, FiniteSlots, FS_RemoveElement

\* Slot e of t, which counted for none, comes to count for f; slot e of t, which
\* counted for f, ceases to; no slot of t changes.
Gains(t, e, f) ==
  \A g \in Fdes : SlotsBut(t, e, g) /\ ~Counted(t, e, g) /\ (Counted(t, e, g)' <=> g = f)
Loses(t, e, f) ==
  \A g \in Fdes : SlotsBut(t, e, g) /\ (Counted(t, e, g) <=> g = f) /\ ~Counted(t, e, g)'
Keeps(t) == \A g \in Fdes, d \in Fd : Counted(t, d, g)' <=> Counted(t, d, g)

RefsOK == \A g \in Fdes : fdes[g].refcnt = Cardinality(Slots(g))

LEMMA RefsGain ==
  ASSUME RefsOK, NEW t \in FTask, Frame(t), NEW e \in Fd, NEW f \in Fdes, Gains(t, e, f),
         fdes'[f].refcnt = fdes[f].refcnt + 1, \A g \in Fdes \ {f} : fdes'[g].refcnt = fdes[g].refcnt
  PROVE  RefsOK'
<1>1. ASSUME NEW g \in Fdes \ {f} PROVE fdes'[g].refcnt = Cardinality(Slots(g)')
  <2>1. \A d \in Fd : Counted(t, d, g)' <=> Counted(t, d, g)
    BY DEF Gains, SlotsBut
  <2>2. Slots(g)' = Slots(g)
    BY <2>1, SlotsSame
  <2> QED BY <2>2 DEF RefsOK
<1>2. Cardinality(Slots(f)') = Cardinality(Slots(f)) + 1
  BY SlotsAdd DEF Gains
<1> QED BY <1>1, <1>2 DEF RefsOK

LEMMA RefsLose ==
  ASSUME RefsOK, NEW t \in FTask, Frame(t), NEW e \in Fd, NEW f \in Fdes, Loses(t, e, f),
         fdes'[f].refcnt = fdes[f].refcnt - 1, \A g \in Fdes \ {f} : fdes'[g].refcnt = fdes[g].refcnt
  PROVE  RefsOK'
<1>1. ASSUME NEW g \in Fdes \ {f} PROVE fdes'[g].refcnt = Cardinality(Slots(g)')
  <2>1. \A d \in Fd : Counted(t, d, g)' <=> Counted(t, d, g)
    BY DEF Loses, SlotsBut
  <2>2. Slots(g)' = Slots(g)
    BY <2>1, SlotsSame
  <2> QED BY <2>2 DEF RefsOK
<1>2. Cardinality(Slots(f)') = Cardinality(Slots(f)) - 1
  BY SlotsDrop DEF Loses
<1> QED BY <1>1, <1>2 DEF RefsOK

LEMMA RefsKeep ==
  ASSUME RefsOK, NEW t \in FTask, Frame(t), Keeps(t), \A g \in Fdes : fdes'[g].refcnt = fdes[g].refcnt
  PROVE  RefsOK'
<1>1. ASSUME NEW g \in Fdes PROVE fdes'[g].refcnt = Cardinality(Slots(g)')
  <2>1. Slots(g)' = Slots(g)
    BY SlotsSame DEF Keeps
  <2> QED BY <2>1 DEF RefsOK
<1> QED BY <1>1 DEF RefsOK

\* A slot that counts points to a description that is there.
LEMMA CountedLives ==
  ASSUME RefsOK, fdes \in [Fdes -> FdesRec],
         NEW t \in FTask, NEW d \in Fd, NEW f \in Fdes, Counted(t, d, f)
  PROVE  fdes[f].refcnt > 0
<1>1. Slots(f) # {}
  BY InSlots
<1>2. Cardinality(Slots(f)) \in Nat /\ Cardinality(Slots(f)) # 0
  BY <1>1, FiniteSlots, FS_CardinalityType, FS_EmptySet
<1> QED BY <1>2 DEF RefsOK

LEMMA DeadNotCounted ==
  ASSUME RefsOK, fdes \in [Fdes -> FdesRec],
         NEW t \in FTask, NEW d \in Fd, NEW f \in Fdes, fdes[f].refcnt = 0
  PROVE  ~Counted(t, d, f)
  BY CountedLives

----------------------------------------------------------------------------
(* The inodes' counts. *)

InodesOK == \A i \in Inode : iref[i] = Cardinality(Users(i)) + Cardinality(Callers(i))

CardNat(i) == Cardinality(Users(i)) \in Nat /\ Cardinality(Callers(i)) \in Nat
LEMMA CardsNat == ASSUME NEW i PROVE CardNat(i)
  BY FiniteUsers, FS_CardinalityType DEF CardNat

LEMMA CallersSame ==
  ASSUME NEW t \in FTask, Frame(t), NEW i, fcall'[t].inode = i <=> fcall[t].inode = i
  PROVE  Callers(i)' = Callers(i)
  BY DEF Callers, Frame

LEMMA CallersJoin ==
  ASSUME NEW t \in FTask, Frame(t), NEW i, fcall[t].inode # i, fcall'[t].inode = i
  PROVE  Cardinality(Callers(i)') = Cardinality(Callers(i)) + 1
<1>1. Callers(i)' = Callers(i) \cup {t} /\ t \notin Callers(i)
  BY DEF Callers, Frame
<1> QED BY <1>1, FiniteUsers, FS_AddElement

LEMMA CallersQuit ==
  ASSUME NEW t \in FTask, Frame(t), NEW i, fcall[t].inode = i, fcall'[t].inode # i
  PROVE  Cardinality(Callers(i)') = Cardinality(Callers(i)) - 1
<1>1. Callers(i)' = Callers(i) \ {t} /\ t \in Callers(i)
  BY DEF Callers, Frame
<1> QED BY <1>1, FiniteUsers, FS_RemoveElement

\* A description's life and inode.
User(f, i) == fdes[f].refcnt > 0 /\ fdes[f].inode = i

LEMMA UsersSame ==
  ASSUME NEW i, \A f \in Fdes : User(f, i)' <=> User(f, i)
  PROVE  Users(i)' = Users(i)
  BY DEF Users, User

LEMMA UsersJoin ==
  ASSUME NEW i, NEW f \in Fdes, \A g \in Fdes \ {f} : User(g, i)' <=> User(g, i), ~User(f, i), User(f, i)'
  PROVE  Cardinality(Users(i)') = Cardinality(Users(i)) + 1
<1>1. Users(i)' = Users(i) \cup {f} /\ f \notin Users(i)
  BY DEF Users, User
<1> QED BY <1>1, FiniteUsers, FS_AddElement

LEMMA UsersQuit ==
  ASSUME NEW i, NEW f \in Fdes, \A g \in Fdes \ {f} : User(g, i)' <=> User(g, i), User(f, i), ~User(f, i)'
  PROVE  Cardinality(Users(i)') = Cardinality(Users(i)) - 1
<1>1. Users(i)' = Users(i) \ {f} /\ f \in Users(i)
  BY DEF Users, User
<1> QED BY <1>1, FiniteUsers, FS_RemoveElement

SameUsers == \A f \in Fdes, i \in Inode : User(f, i)' <=> User(f, i)

LEMMA InodesKeep ==
  ASSUME InodesOK, NEW t \in FTask, Frame(t), fcall'[t].inode = fcall[t].inode, SameUsers, iref' = iref
  PROVE  InodesOK'
<1>1. ASSUME NEW i \in Inode PROVE Users(i)' = Users(i) /\ Callers(i)' = Callers(i)
  BY CallersSame, UsersSame DEF SameUsers
<1> QED BY <1>1 DEF InodesOK

LEMMA InodesJoin ==
  ASSUME InodesOK, iref \in [Inode -> Int], NEW t \in FTask, Frame(t), NEW i \in Inode, fcall[t].inode = Nil,
         fcall'[t].inode = i, SameUsers, iref' = [iref EXCEPT ![i] = @ + 1]
  PROVE  InodesOK'
<1>1. ASSUME NEW j \in Inode \ {i} PROVE Users(j)' = Users(j) /\ Callers(j)' = Callers(j) /\ iref'[j] = iref[j]
  BY CallersSame, UsersSame, FilesAssumption DEF SameUsers
<1>2. Users(i)' = Users(i) /\ Cardinality(Callers(i)') = Cardinality(Callers(i)) + 1 /\ iref'[i] = iref[i] + 1
  BY CallersJoin, UsersSame, FilesAssumption DEF SameUsers
<1>3. iref[i] = Cardinality(Users(i)) + Cardinality(Callers(i)) /\ CardNat(i)
  BY CardsNat DEF InodesOK
<1>4. iref'[i] = Cardinality(Users(i)') + Cardinality(Callers(i)')
  BY ONLY <1>2, <1>3 DEF CardNat
<1>5. ASSUME NEW j \in Inode PROVE iref'[j] = Cardinality(Users(j)') + Cardinality(Callers(j)')
  BY <1>1, <1>4 DEF InodesOK
<1> QED BY <1>5 DEF InodesOK

\* The end of a call with what it may have in hand.
LEMMA InodesQuit ==
  ASSUME InodesOK, iref \in [Inode -> Int], NEW t \in FTask, Frame(t),
         NEW i \in Inode \cup {Nil}, fcall[t].inode = i, fcall'[t].inode = Nil, SameUsers,
         iref' = IF i = Nil THEN iref ELSE [iref EXCEPT ![i] = @ - 1]
  PROVE  InodesOK'
<1>1. ASSUME NEW j \in Inode \ {i} PROVE Users(j)' = Users(j) /\ Callers(j)' = Callers(j) /\ iref'[j] = iref[j]
  BY CallersSame, UsersSame, FilesAssumption DEF SameUsers
<1>2. ASSUME i \in Inode
      PROVE  Users(i)' = Users(i) /\ Cardinality(Callers(i)') = Cardinality(Callers(i)) - 1 /\ iref'[i] = iref[i] - 1
  BY <1>2, CallersQuit, UsersSame, FilesAssumption DEF SameUsers
<1>3. ASSUME NEW j \in Inode PROVE iref'[j] = Cardinality(Users(j)') + Cardinality(Callers(j)')
  BY <1>1, <1>2, CardsNat DEF InodesOK, CardNat
<1> QED BY <1>3 DEF InodesOK

\* The users of all inodes stay, but for f.
UsersBut(f) == \A g \in Fdes \ {f}, i \in Inode : User(g, i)' <=> User(g, i)

\* What a call has in hand passes to a new description.
LEMMA InodesOpened ==
  ASSUME InodesOK, iref \in [Inode -> Int], NEW t \in FTask, Frame(t),
         NEW i \in Inode, fcall[t].inode = i, fcall'[t].inode = Nil, iref' = iref,
         NEW f \in Fdes, UsersBut(f), fdes[f].refcnt = 0, fdes'[f].refcnt = 1, fdes'[f].inode = i
  PROVE  InodesOK'
<1>1. ASSUME NEW j \in Inode \ {i} PROVE Users(j)' = Users(j) /\ Callers(j)' = Callers(j)
  <2>1. \A g \in Fdes : User(g, j)' <=> User(g, j)
    BY DEF UsersBut, User
  <2> QED BY <2>1, CallersSame, UsersSame, FilesAssumption
<1>2. Cardinality(Users(i)') = Cardinality(Users(i)) + 1
  <2>1. ~User(f, i) /\ User(f, i)' /\ \A g \in Fdes \ {f} : User(g, i)' <=> User(g, i)
    BY DEF UsersBut, User
  <2> QED BY <2>1, UsersJoin
<1>3. Cardinality(Callers(i)') = Cardinality(Callers(i)) - 1
  BY CallersQuit, FilesAssumption
<1>4. ASSUME NEW j \in Inode PROVE iref'[j] = Cardinality(Users(j)') + Cardinality(Callers(j)')
  BY <1>1, <1>2, <1>3, CardsNat DEF InodesOK, CardNat
<1> QED BY <1>4 DEF InodesOK

\* The last reference to a description is lost: its inode passes to the call.
LEMMA InodesLast ==
  ASSUME InodesOK, iref \in [Inode -> Int], NEW t \in FTask, Frame(t),
         NEW i \in Inode, fcall[t].inode = Nil, fcall'[t].inode = i, iref' = iref,
         NEW f \in Fdes, UsersBut(f), fdes[f].refcnt = 1, fdes[f].inode = i, fdes'[f].refcnt = 0
  PROVE  InodesOK'
<1>1. ASSUME NEW j \in Inode \ {i} PROVE Users(j)' = Users(j) /\ Callers(j)' = Callers(j)
  <2>1. \A g \in Fdes : User(g, j)' <=> User(g, j)
    BY DEF UsersBut, User
  <2> QED BY <2>1, CallersSame, UsersSame, FilesAssumption
<1>2. Cardinality(Users(i)') = Cardinality(Users(i)) - 1
  <2>1. User(f, i) /\ ~User(f, i)' /\ \A g \in Fdes \ {f} : User(g, i)' <=> User(g, i)
    BY DEF UsersBut, User
  <2> QED BY <2>1, UsersQuit
<1>3. Cardinality(Callers(i)') = Cardinality(Callers(i)) + 1
  BY CallersJoin, FilesAssumption
<1>4. ASSUME NEW j \in Inode PROVE iref'[j] = Cardinality(Users(j)') + Cardinality(Callers(j)')
  BY <1>1, <1>2, <1>3, CardsNat DEF InodesOK, CardNat
<1> QED BY <1>4 DEF InodesOK

----------------------------------------------------------------------------
(* Records. *)

LEMMA NoCallIs == NoCall \in CallRec /\ NoCall.fd = Nil /\ NoCall.inode = Nil
  BY DEF NoCall, CallRec

OpenCall(i, fl) == [NoCall EXCEPT !.inode = i, !.flags = fl]
LoseCall(d, to, i) == [NoCall EXCEPT !.fd = d, !.to = to, !.inode = i]
RwCall(d, pos) == [NoCall EXCEPT !.fd = d, !.pos = pos]

LEMMA OpenCallIs ==
  ASSUME NEW i \in Inode, NEW fl \in SUBSET Flags
  PROVE  OpenCall(i, fl) \in CallRec /\ OpenCall(i, fl).fd = Nil /\ OpenCall(i, fl).inode = i
<1>1. PICK b : b = [NoCall EXCEPT !.inode = i]
  OBVIOUS
<1>2. b \in CallRec /\ b.fd = Nil /\ b.inode = i
  BY <1>1, NoCallIs DEF CallRec
<1>3. OpenCall(i, fl) = [b EXCEPT !.flags = fl]
  BY <1>1 DEF OpenCall
<1> QED BY <1>2, <1>3 DEF CallRec

LEMMA LoseCallIs ==
  ASSUME NEW d \in Fd, NEW to \in Fd \cup {Nil}, NEW i \in Inode \cup {Nil}
  PROVE  /\ LoseCall(d, to, i) \in CallRec /\ LoseCall(d, to, i).fd = d
         /\ LoseCall(d, to, i).to = to /\ LoseCall(d, to, i).inode = i
<1>1. PICK a : a = [NoCall EXCEPT !.fd = d]
  OBVIOUS
<1>2. PICK b : b = [a EXCEPT !.to = to]
  OBVIOUS
<1>3. a \in CallRec /\ a.fd = d
  BY <1>1, NoCallIs DEF CallRec
<1>4. b \in CallRec /\ b.fd = d /\ b.to = to
  BY <1>2, <1>3 DEF CallRec
<1>5. LoseCall(d, to, i) = [b EXCEPT !.inode = i]
  BY <1>1, <1>2 DEF LoseCall
<1> QED BY <1>4, <1>5 DEF CallRec

LEMMA RwCallIs ==
  ASSUME NEW d \in Fd, NEW pos \in Int
  PROVE  RwCall(d, pos) \in CallRec /\ RwCall(d, pos).fd = d /\ RwCall(d, pos).inode = Nil
  BY DEF RwCall, NoCall, CallRec

FPC == {"none", "user", "open", "close", "dup2", "exec", "exit", "read", "write"}

\* Goto, when tables and marks of the others stay.
LEMMA GotoIs ==
  ASSUME FTypeOK, NEW t \in FTask, NEW p \in FPC, NEW c \in CallRec, Goto(t, p, c)
  PROVE  /\ fpc' \in [FTask -> FPC] /\ fcall' \in [FTask -> CallRec]
         /\ fpc'[t] = p /\ fcall'[t] = c
         /\ \A u \in FTask \ {t} : fpc'[u] = fpc[u] /\ fcall'[u] = fcall[u]
  BY DEF FTypeOK, Goto, FPC

\* A slot of t is set.
LEMMA SetSlot ==
  ASSUME FTypeOK, NEW t \in FTask, NEW d \in Fd, NEW f \in Fdes \cup {Nil},
         fvec' = [fvec EXCEPT ![t][d] = f]
  PROVE  /\ fvec' \in [FTask -> [Fd -> Fdes \cup {Nil}]]
         /\ fvec'[t][d] = f /\ \A e \in Fd \ {d} : fvec'[t][e] = fvec[t][e]
         /\ \A u \in FTask \ {t} : fvec'[u] = fvec[u]
  BY DEF FTypeOK

LEMMA SharesIs ==
  ASSUME fdes \in [Fdes -> FdesRec], NEW f \in Fdes, fdes' = Shares(f)
  PROVE  /\ fdes' \in [Fdes -> FdesRec]
         /\ fdes'[f].refcnt = fdes[f].refcnt + 1 /\ fdes'[f].inode = fdes[f].inode
         /\ \A g \in Fdes \ {f} : fdes'[g] = fdes[g]
  BY DEF Shares, FdesRec

LEMMA LostIs ==
  ASSUME fdes \in [Fdes -> FdesRec], NEW f \in Fdes, fdes[f].refcnt > 0, fdes' = Lost(f)
  PROVE  /\ fdes' \in [Fdes -> FdesRec]
         /\ fdes'[f].refcnt = fdes[f].refcnt - 1
         /\ fdes[f].refcnt > 1 => fdes'[f].inode = fdes[f].inode
         /\ \A g \in Fdes \ {f} : fdes'[g] = fdes[g]
<1>2. CASE fdes[f].refcnt = 1
  BY <1>2 DEF Lost, NoFdes, FdesRec
<1>3. CASE fdes[f].refcnt # 1
  <2>1. fdes' = [fdes EXCEPT ![f].refcnt = fdes[f].refcnt - 1]
    BY <1>3 DEF Lost
  <2>2. fdes[f].refcnt \in Nat /\ fdes[f].refcnt - 1 \in Nat
    BY DEF FdesRec
  <2> QED BY <1>3, <2>1, <2>2 DEF FdesRec
<1> QED BY <1>2, <1>3

\* Only the position of f changes.
LEMMA SeekIs ==
  ASSUME fdes \in [Fdes -> FdesRec], NEW f \in Fdes, NEW pos \in Int,
         fdes' = [fdes EXCEPT ![f].curpos = pos]
  PROVE  /\ fdes' \in [Fdes -> FdesRec]
         /\ \A g \in Fdes : fdes'[g].refcnt = fdes[g].refcnt /\ fdes'[g].inode = fdes[g].inode
  BY DEF FdesRec

----------------------------------------------------------------------------
(* One lemma per action. *)

LEMMA InvIs == FInv <=> FTypeOK /\ DescOK /\ RefsOK /\ InodesOK /\ \A t \in FTask : OwnOK(t)
  BY DEF FInv, FilesAreCounted, RefsOK, InodesOK

LEMMA Assemble ==
  ASSUME FInv, NEW t \in FTask, Frame(t), FTypeOK', DescOK', RefsOK', InodesOK', OwnOK(t)'
  PROVE  FInv'
<1>1. (\A u \in FTask : OwnOK(u))'
  BY OthersOK, InvIs
<1> QED BY <1>1 DEF FInv, FilesAreCounted, RefsOK, InodesOK

\* The descriptions live and hold what they did.
LEMMA SameDescs ==
  ASSUME DescOK, \A g \in Fdes : fdes'[g].refcnt = fdes[g].refcnt /\ fdes'[g].inode = fdes[g].inode
  PROVE  SameUsers /\ DescOK'
  BY DEF SameUsers, DescOK, User

\* No call sleeps over a slot, before or after, and the table stays.
LEMMA KeepsFree ==
  ASSUME NEW t \in FTask, fvec'[t] = fvec[t], fcall[t].fd = Nil, fcall'[t].fd = Nil
  PROVE  Keeps(t)
  BY FilesAssumption DEF Keeps, Counted

LEMMA SysOpenStep ==
  ASSUME FInv, NEW t \in FTask, NEW i \in Inode, NEW fl \in SUBSET Flags, SysOpen(t, i, fl)
  PROVE  FInv'
<1>1. FTypeOK /\ DescOK /\ RefsOK /\ InodesOK /\ OwnOK(t)
  BY InvIs
<1>2. fpc[t] = "user" /\ fcall[t].fd = Nil /\ fcall[t].inode = Nil
  BY <1>1 DEF SysOpen, InUser, OwnOK, CallOK
<1>3. PICK c : c = OpenCall(i, fl)
  OBVIOUS
<1>4. c \in CallRec /\ c.fd = Nil /\ c.inode = i
  BY <1>3, OpenCallIs
<1>5. Goto(t, "open", c) /\ iref' = [iref EXCEPT ![i] = @ + 1] /\ UNCHANGED <<fvec, closemap, fdes, size>>
  BY <1>3 DEF SysOpen, OpenCall
<1>6. /\ fpc' \in [FTask -> FPC] /\ fcall' \in [FTask -> CallRec] /\ fpc'[t] = "open" /\ fcall'[t] = c
      /\ \A u \in FTask \ {t} : fpc'[u] = fpc[u] /\ fcall'[u] = fcall[u]
  BY <1>1, <1>4, <1>5, GotoIs DEF FPC
<1>7. Frame(t)
  BY <1>5, <1>6 DEF Frame
<1>8. FTypeOK'
  BY <1>1, <1>5, <1>6 DEF FTypeOK, FPC
<1>9. SameUsers /\ DescOK'
  BY <1>1, <1>5, SameDescs
<1>10. RefsOK'
  BY <1>1, <1>2, <1>4, <1>5, <1>6, <1>7, KeepsFree, RefsKeep
<1>11. InodesOK'
  BY <1>1, <1>2, <1>4, <1>5, <1>6, <1>7, <1>9, InodesJoin DEF FTypeOK
<1>12. OwnOK(t)'
  BY <1>1, <1>2, <1>4, <1>5, <1>6, FilesAssumption DEF OwnOK, CallOK, MarkedOpen, Open
<1> QED BY <1>7, <1>8, <1>9, <1>10, <1>11, <1>12, Assemble

\* The end of a call whose task goes on, and what it finds then.
LEMMA BackIs ==
  ASSUME FTypeOK, NEW t \in FTask, NEW p \in FPC, Goto(t, p, NoCall)
  PROVE  /\ fpc' \in [FTask -> FPC] /\ fcall' \in [FTask -> CallRec]
         /\ fpc'[t] = p /\ fcall'[t].fd = Nil /\ fcall'[t].inode = Nil
         /\ \A u \in FTask \ {t} : fpc'[u] = fpc[u] /\ fcall'[u] = fcall[u]
  BY GotoIs, NoCallIs

LEMMA DoopenFails ==
  ASSUME FInv, NEW t \in FTask, fpc[t] = "open", NEW i \in Inode, fcall[t].inode = i,
         iref' = [iref EXCEPT ![i] = @ - 1], size' \in [Inode -> Int], Back(t),
         UNCHANGED <<fvec, fdes, closemap>>
  PROVE  FInv'
<1>1. FTypeOK /\ DescOK /\ RefsOK /\ InodesOK /\ OwnOK(t)
  BY InvIs
<1>2. fcall[t].fd = Nil
  BY <1>1 DEF OwnOK, CallOK
<1>6. /\ fpc' \in [FTask -> FPC] /\ fcall' \in [FTask -> CallRec] 
      /\ fpc'[t] = "user" /\ fcall'[t].fd = Nil /\ fcall'[t].inode = Nil
      /\ \A u \in FTask \ {t} : fpc'[u] = fpc[u] /\ fcall'[u] = fcall[u]
  BY <1>1, BackIs DEF FPC, Back
<1>7. Frame(t)
  BY <1>6 DEF Frame
<1>8. FTypeOK'
  BY <1>1, <1>6 DEF FTypeOK, FPC
<1>9. SameUsers /\ DescOK'
  BY <1>1, SameDescs
<1>10. RefsOK'
  BY <1>1, <1>2, <1>6, <1>7, KeepsFree, RefsKeep
<1>11. i # Nil /\ iref \in [Inode -> Int]
  BY <1>1, FilesAssumption DEF FTypeOK
<1>12. InodesOK'
  BY <1>1, <1>6, <1>7, <1>9, <1>11, InodesQuit
<1>13. OwnOK(t)'
  BY <1>1, <1>6, FilesAssumption DEF OwnOK, CallOK, MarkedOpen, Open
<1> QED BY <1>7, <1>8, <1>9, <1>10, <1>12, <1>13, Assemble

LEMMA DoopenOpens ==
  ASSUME FInv, NEW t \in FTask, fpc[t] = "open", NEW i \in Inode, fcall[t].inode = i,
         NEW d \in Fd, d \notin Open(t), NEW f \in Fdes, fdes[f].refcnt = 0,
         fvec' = [fvec EXCEPT ![t][d] = f],
         fdes' = [fdes EXCEPT ![f] = [refcnt |-> 1, inode |-> i, flags |-> fcall[t].flags, curpos |-> 0]],
         size' \in [Inode -> Int], Back(t), UNCHANGED <<iref, closemap>>
  PROVE  FInv'
<1>1. FTypeOK /\ DescOK /\ RefsOK /\ InodesOK /\ OwnOK(t)
  BY InvIs
<1>2. fcall[t].fd = Nil /\ fvec[t][d] = Nil /\ iref \in [Inode -> Int]
  BY <1>1 DEF OwnOK, CallOK, Open, FTypeOK
<1>3. fcall[t].flags \in SUBSET Flags
  BY <1>1 DEF FTypeOK, CallRec
<1>4. /\ fdes' \in [Fdes -> FdesRec] /\ fdes'[f].refcnt = 1 /\ fdes'[f].inode = i
      /\ \A g \in Fdes \ {f} : fdes'[g] = fdes[g]
  BY <1>1, <1>3 DEF FTypeOK, FdesRec
<1>5. /\ fvec' \in [FTask -> [Fd -> Fdes \cup {Nil}]]
      /\ fvec'[t][d] = f /\ \A e \in Fd \ {d} : fvec'[t][e] = fvec[t][e]
      /\ \A u \in FTask \ {t} : fvec'[u] = fvec[u]
  BY <1>1, SetSlot
<1>6. /\ fpc' \in [FTask -> FPC] /\ fcall' \in [FTask -> CallRec] 
      /\ fpc'[t] = "user" /\ fcall'[t].fd = Nil /\ fcall'[t].inode = Nil
      /\ \A u \in FTask \ {t} : fpc'[u] = fpc[u] /\ fcall'[u] = fcall[u]
  BY <1>1, BackIs DEF FPC, Back
<1>7. Frame(t)
  BY <1>5, <1>6 DEF Frame
<1>8. FTypeOK'
  BY <1>1, <1>4, <1>5, <1>6 DEF FTypeOK, FPC
<1>9. DescOK' /\ UsersBut(f)
  BY <1>1, <1>4, FilesAssumption DEF DescOK, UsersBut, User
<1>10. Gains(t, d, f)
  BY <1>2, <1>5, <1>6, FilesAssumption DEF Gains, SlotsBut, Counted
<1>11. fdes'[f].refcnt = fdes[f].refcnt + 1
  BY <1>4
<1>12. RefsOK'
  BY <1>1, <1>4, <1>7, <1>10, <1>11, RefsGain
<1>13. InodesOK'
  BY <1>1, <1>2, <1>4, <1>6, <1>7, <1>9, InodesOpened
<1>14. OwnOK(t)'
  BY <1>1, <1>5, <1>6, FilesAssumption DEF OwnOK, CallOK, MarkedOpen, Open
<1> QED BY <1>7, <1>8, <1>9, <1>12, <1>13, <1>14, Assemble

LEMMA DoopenStep ==
  ASSUME FInv, NEW t \in FTask, Doopen(t)
  PROVE  FInv'
<1>1. FTypeOK /\ OwnOK(t)
  BY InvIs
<1>2. PICK i : i = fcall[t].inode
  OBVIOUS
<1>3. i \in Inode /\ fpc[t] = "open" /\ Back(t) /\ closemap' = closemap
  BY <1>1, <1>2 DEF FTypeOK, OwnOK, CallOK, CallRec, Doopen
<1>4. size' \in [Inode -> Int]
  BY <1>1, <1>2, <1>3 DEF FTypeOK, Doopen
<1>5. CASE iref' = [iref EXCEPT ![i] = @ - 1] /\ UNCHANGED <<fvec, fdes>>
  BY <1>2, <1>3, <1>4, <1>5, DoopenFails
<1>6. CASE /\ \E d \in getslot(t), f \in Least({f \in Fdes : fdes[f].refcnt = 0}) :
               /\ fvec' = [fvec EXCEPT ![t][d] = f]
               /\ fdes' = [fdes EXCEPT ![f] = [refcnt |-> 1, inode |-> i, flags |-> fcall[t].flags, curpos |-> 0]]
           /\ UNCHANGED iref
  <2>1. PICK d \in getslot(t), f \in Least({f \in Fdes : fdes[f].refcnt = 0}) :
               /\ fvec' = [fvec EXCEPT ![t][d] = f]
               /\ fdes' = [fdes EXCEPT ![f] = [refcnt |-> 1, inode |-> i, flags |-> fcall[t].flags, curpos |-> 0]]
    BY <1>6
  <2>2. d \in Fd /\ d \notin Open(t) /\ f \in Fdes /\ fdes[f].refcnt = 0
    BY <2>1 DEF getslot, Least
  <2> QED BY <1>2, <1>3, <1>4, <1>6, <2>1, <2>2, DoopenOpens
<1> QED BY <1>2, <1>5, <1>6 DEF Doopen

\* dup, and dup2 to a slot that is free.
LEMMA TakesSlot ==
  ASSUME FInv, NEW t \in FTask, fpc[t] = "user", NEW d \in Open(t), NEW e \in Fd \ Open(t),
         fvec' = [fvec EXCEPT ![t][e] = fvec[t][d]], fdes' = Shares(fvec[t][d]),
         UNCHANGED <<closemap, iref, size, fpc, fcall>>
  PROVE  FInv'
<1>1. FTypeOK /\ DescOK /\ RefsOK /\ InodesOK /\ OwnOK(t)
  BY InvIs
<1>2. fcall[t].fd = Nil /\ fvec[t][e] = Nil /\ fdes \in [Fdes -> FdesRec]
  BY <1>1 DEF OwnOK, CallOK, Open, FTypeOK
<1>3. PICK f : f = fvec[t][d]
  OBVIOUS
<1>4. f \in Fdes /\ d \in Fd
  BY <1>1, <1>3 DEF FTypeOK, Open
<1>5. /\ fdes' \in [Fdes -> FdesRec]
      /\ fdes'[f].refcnt = fdes[f].refcnt + 1 /\ fdes'[f].inode = fdes[f].inode
      /\ \A g \in Fdes \ {f} : fdes'[g] = fdes[g]
  BY <1>2, <1>3, <1>4, SharesIs
<1>6. /\ fvec' \in [FTask -> [Fd -> Fdes \cup {Nil}]]
      /\ fvec'[t][e] = f /\ \A b \in Fd \ {e} : fvec'[t][b] = fvec[t][b]
      /\ \A u \in FTask \ {t} : fvec'[u] = fvec[u]
  BY <1>1, <1>3, <1>4, SetSlot
<1>7. Frame(t)
  BY <1>6 DEF Frame
<1>8. FTypeOK'
  BY <1>1, <1>5, <1>6 DEF FTypeOK
<1>9. Gains(t, e, f)
  BY <1>2, <1>6, FilesAssumption DEF Gains, SlotsBut, Counted
<1>10. RefsOK'
  BY <1>1, <1>4, <1>5, <1>7, <1>9, RefsGain
<1>11. fdes[f].refcnt > 0
  <2>1. Counted(t, d, f)
    BY <1>2, <1>3, <1>4, FilesAssumption DEF Counted
  <2> QED BY <1>1, <1>2, <1>4, <2>1, CountedLives
<1>12. DescOK' /\ SameUsers
  <2>1. fdes[f].refcnt \in Nat
    BY <1>2, <1>4 DEF FdesRec
  <2> QED BY <1>1, <1>5, <1>11, <2>1 DEF DescOK, SameUsers, User
<1>13. InodesOK'
  BY <1>1, <1>7, <1>12, InodesKeep
<1>14. OwnOK(t)'
  BY <1>1, <1>2, <1>4, <1>6, FilesAssumption DEF OwnOK, CallOK, MarkedOpen, Open
<1> QED BY <1>7, <1>8, <1>10, <1>12, <1>13, <1>14, Assemble

LEMMA DupStep ==
  ASSUME FInv, NEW t \in FTask, NEW d \in Fd, NEW lowest \in Fd, Dup(t, d, lowest)
  PROVE  FInv'
<1>1. PICK e \in Least({e \in Fd \ Open(t) : e >= lowest}) : fvec' = [fvec EXCEPT ![t][e] = fvec[t][d]]
  BY DEF Dup
<1>2. e \in Fd \ Open(t)
  BY DEF Least
<1> QED BY <1>1, <1>2, TakesSlot DEF Dup, InUser

LEMMA SetfdStep ==
  ASSUME FInv, NEW t \in FTask, NEW d \in Fd, NEW on \in BOOLEAN, Setfd(t, d, on)
  PROVE  FInv'
<1>1. FTypeOK /\ DescOK /\ RefsOK /\ InodesOK /\ OwnOK(t)
  BY InvIs
<1>2. /\ fpc[t] = "user" /\ d \in Open(t) /\ UNCHANGED <<fvec, fdes, iref, size, fpc, fcall>>
      /\ closemap' = [closemap EXCEPT ![t] = IF on THEN @ \cup {d} ELSE @ \ {d}]
  BY DEF Setfd, InUser
<1>3. /\ closemap' \in [FTask -> SUBSET Fd] /\ closemap'[t] \subseteq closemap[t] \cup {d}
      /\ \A u \in FTask \ {t} : closemap'[u] = closemap[u]
  BY <1>1, <1>2 DEF FTypeOK
<1>4. Frame(t)
  BY <1>2, <1>3 DEF Frame
<1>5. FTypeOK'
  BY <1>1, <1>2, <1>3 DEF FTypeOK
<1>6. Keeps(t)
  BY <1>2 DEF Keeps, Counted
<1>7. SameUsers /\ DescOK'
  BY <1>1, <1>2, SameDescs
<1>8. RefsOK'
  BY <1>1, <1>2, <1>4, <1>6, RefsKeep
<1>9. InodesOK'
  BY <1>1, <1>2, <1>4, <1>7, InodesKeep
<1>10. OwnOK(t)'
  BY <1>1, <1>2, <1>3 DEF OwnOK, CallOK, MarkedOpen, Open
<1> QED BY <1>4, <1>5, <1>7, <1>8, <1>9, <1>10, Assemble

\* t has nothing in hand and lets slot d go in a call that sleeps at p.
MayLose(t, d, p, to) ==
  /\ fcall[t].fd = Nil /\ fcall[t].inode = Nil /\ d \in Open(t)
  /\ p \in {"close", "dup2", "exec", "exit"} /\ to \in Fd \cup {Nil}
  /\ p = "dup2" => to \in Open(t) \ {d}
  /\ p # "exit" => fpc[t] # "exit"

LEMMA LoseStep ==
  ASSUME FInv, NEW t \in FTask, NEW d, NEW p, NEW to, MayLose(t, d, p, to), Lose(t, d, p, to),
         closemap' \in [FTask -> SUBSET Fd], closemap'[t] \subseteq closemap[t],
         \A u \in FTask \ {t} : closemap'[u] = closemap[u], p = "exec" => d \notin closemap'[t],
         UNCHANGED <<fvec, iref, size>>
  PROVE  FInv'
<1>1. FTypeOK /\ DescOK /\ RefsOK /\ InodesOK /\ OwnOK(t)
  BY InvIs
<1>2. /\ fcall[t].fd = Nil /\ fcall[t].inode = Nil /\ d \in Fd /\ fdes \in [Fdes -> FdesRec]
      /\ iref \in [Inode -> Int] /\ p \in FPC /\ to \in Fd \cup {Nil}
  BY <1>1 DEF MayLose, Open, FTypeOK, FPC
<1>3. PICK f : f = fvec[t][d]
  OBVIOUS
<1>4. f \in Fdes
  BY <1>1, <1>3 DEF FTypeOK, MayLose, Open
<1>5. fdes[f].refcnt > 0 /\ fdes[f].refcnt \in Nat
  <2>1. Counted(t, d, f)
    BY <1>2, <1>3, FilesAssumption DEF Counted
  <2>2. fdes[f].refcnt > 0
    BY <1>1, <1>2, <1>4, <2>1, CountedLives
  <2> QED BY <1>2, <1>4, <2>2 DEF FdesRec
<1>6. fdes' = Lost(f)
  BY <1>3 DEF Lose
<1>7. /\ fdes' \in [Fdes -> FdesRec] /\ fdes'[f].refcnt = fdes[f].refcnt - 1
      /\ fdes[f].refcnt > 1 => fdes'[f].inode = fdes[f].inode
      /\ \A g \in Fdes \ {f} : fdes'[g] = fdes[g]
  BY <1>2, <1>4, <1>5, <1>6, LostIs
<1>8. PICK i : i = IF fdes[f].refcnt = 1 THEN fdes[f].inode ELSE Nil
  OBVIOUS
<1>9. i \in Inode \cup {Nil} /\ (fdes[f].refcnt = 1 => i \in Inode /\ i = fdes[f].inode)
  BY <1>1, <1>2, <1>4, <1>5, <1>8 DEF DescOK, FdesRec
<1>10. PICK c : c = LoseCall(d, to, i)
  OBVIOUS
<1>11. c \in CallRec /\ c.fd = d /\ c.to = to /\ c.inode = i
  BY <1>2, <1>9, <1>10, LoseCallIs
<1>12. Goto(t, p, c)
  BY <1>3, <1>8, <1>10 DEF Lose, LoseCall
<1>13. /\ fpc' \in [FTask -> FPC] /\ fcall' \in [FTask -> CallRec] /\ fpc'[t] = p /\ fcall'[t] = c
       /\ \A u \in FTask \ {t} : fpc'[u] = fpc[u] /\ fcall'[u] = fcall[u]
  BY <1>1, <1>2, <1>11, <1>12, GotoIs
<1>14. Frame(t)
  BY <1>13 DEF Frame
<1>15. FTypeOK'
  BY <1>1, <1>7, <1>13 DEF FTypeOK, FPC
<1>16. Loses(t, d, f)
  <2>1. p \notin {"read", "write"} /\ fcall'[t].fd = d /\ fpc'[t] = p /\ fvec' = fvec
    BY <1>11, <1>13 DEF MayLose
  <2> QED BY <1>2, <1>3, <2>1, FilesAssumption DEF Loses, SlotsBut, Counted
<1>17. RefsOK'
  BY <1>1, <1>2, <1>4, <1>7, <1>14, <1>16, RefsLose
<1>18. DescOK' /\ UsersBut(f)
  BY <1>1, <1>5, <1>7 DEF DescOK, UsersBut, User
<1>19. InodesOK'
  <2>1. CASE fdes[f].refcnt = 1
    <3>1. fdes'[f].refcnt = 0 /\ i \in Inode /\ fdes[f].inode = i /\ fcall'[t].inode = i
      BY <1>7, <1>9, <1>11, <1>13, <2>1
    <3> QED BY <1>1, <1>2, <1>4, <1>14, <1>18, <2>1, <3>1, InodesLast
  <2>2. CASE fdes[f].refcnt # 1
    <3>1. SameUsers
      BY <1>4, <1>5, <1>7, <2>2 DEF SameUsers, User
    <3>2. fcall'[t].inode = fcall[t].inode
      BY <1>2, <1>8, <1>11, <1>13, <2>2
    <3> QED BY <1>1, <1>14, <3>1, <3>2, InodesKeep
  <2> QED BY <2>1, <2>2
<1>20. OwnOK(t)'
  BY <1>1, <1>2, <1>11, <1>13, FilesAssumption DEF MayLose, OwnOK, CallOK, MarkedOpen, Open
<1> QED BY <1>14, <1>15, <1>17, <1>18, <1>19, <1>20, Assemble

LEMMA CloseStep ==
  ASSUME FInv, NEW t \in FTask, NEW d \in Fd, Close(t, d)
  PROVE  FInv'
<1>1. FTypeOK /\ OwnOK(t)
  BY InvIs
<1>2. MayLose(t, d, "close", Nil)
  BY <1>1 DEF MayLose, Close, InUser, OwnOK, CallOK
<1>3. Lose(t, d, "close", Nil) /\ UNCHANGED <<fvec, closemap, iref, size>> /\ closemap \in [FTask -> SUBSET Fd]
  BY <1>1 DEF Close, FTypeOK
<1> QED BY <1>2, <1>3, LoseStep

LEMMA Dup2Step ==
  ASSUME FInv, NEW t \in FTask, NEW d \in Fd, NEW e \in Fd, Dup2(t, d, e)
  PROVE  FInv'
<1>1. FTypeOK /\ OwnOK(t)
  BY InvIs
<1>2. CASE e \in Open(t)
  <2>1. MayLose(t, e, "dup2", d)
    BY <1>1, <1>2 DEF MayLose, Dup2, InUser, OwnOK, CallOK
  <2>2. Lose(t, e, "dup2", d) /\ UNCHANGED <<fvec, closemap, iref, size>> /\ closemap \in [FTask -> SUBSET Fd]
    BY <1>1, <1>2 DEF Dup2, FTypeOK
  <2> QED BY <2>1, <2>2, LoseStep
<1>3. CASE e \notin Open(t)
  BY <1>3, TakesSlot DEF Dup2, InUser
<1> QED BY <1>2, <1>3

\* t sleeps at the end of a close of slot d, at p next.
MayFree(t, d, p) ==
  /\ d \in Fd /\ fcall[t].fd = d /\ fpc[t] \in {"close", "exec", "exit"}
  /\ p \in {"user", "exec", "exit"} /\ (fpc[t] = "exit" <=> p = "exit")

LEMMA FreesSlot ==
  ASSUME FInv, NEW t \in FTask, NEW d, NEW p, MayFree(t, d, p), Goto(t, p, NoCall), iref' = Unref(t),
         fvec' = [fvec EXCEPT ![t][d] = Nil],
         closemap' \in [FTask -> SUBSET Fd], closemap'[t] \subseteq closemap[t],
         \A u \in FTask \ {t} : closemap'[u] = closemap[u], p # "exit" => d \notin closemap'[t],
         UNCHANGED <<fdes, size>>
  PROVE  FInv'
<1>1. FTypeOK /\ DescOK /\ RefsOK /\ InodesOK /\ OwnOK(t)
  BY InvIs
<1>2. /\ d \in Fd /\ fcall[t].fd = d /\ fpc[t] \notin {"read", "write"} /\ p \in FPC
      /\ iref \in [Inode -> Int] /\ Nil \in Fdes \cup {Nil}
  BY <1>1 DEF MayFree, FPC, FTypeOK
<1>3. PICK i : i = fcall[t].inode
  OBVIOUS
<1>4. i \in Inode \cup {Nil} /\ iref' = IF i = Nil THEN iref ELSE [iref EXCEPT ![i] = @ - 1]
  BY <1>1, <1>3 DEF Unref, FTypeOK, CallRec
<1>5. /\ fvec' \in [FTask -> [Fd -> Fdes \cup {Nil}]]
      /\ fvec'[t][d] = Nil /\ \A e \in Fd \ {d} : fvec'[t][e] = fvec[t][e]
      /\ \A u \in FTask \ {t} : fvec'[u] = fvec[u]
  BY <1>1, <1>2 DEF FTypeOK
<1>6. /\ fpc' \in [FTask -> FPC] /\ fcall' \in [FTask -> CallRec]
      /\ fpc'[t] = p /\ fcall'[t].fd = Nil /\ fcall'[t].inode = Nil
      /\ \A u \in FTask \ {t} : fpc'[u] = fpc[u] /\ fcall'[u] = fcall[u]
  BY <1>1, <1>2, BackIs
<1>7. Frame(t)
  BY <1>5, <1>6 DEF Frame
<1>8. iref' \in [Inode -> Int]
  BY <1>2, <1>4
<1>9. FTypeOK'
  BY <1>1, <1>5, <1>6, <1>8 DEF FTypeOK, FPC
<1>10. Keeps(t)
  BY <1>2, <1>5, <1>6, FilesAssumption DEF Keeps, Counted
<1>11. SameUsers /\ DescOK'
  BY <1>1, SameDescs
<1>12. RefsOK'
  BY <1>1, <1>7, <1>10, RefsKeep
<1>13. InodesOK'
  BY <1>1, <1>2, <1>3, <1>4, <1>6, <1>7, <1>11, InodesQuit
<1>14. OwnOK(t)'
  <2>1. CallOK(t)'
    BY <1>6, <1>9, FilesAssumption DEF CallOK, MayFree, FTypeOK
  <2>2. MarkedOpen(t)'
    BY <1>1, <1>2, <1>5, <1>6 DEF OwnOK, MarkedOpen, MayFree, Open
  <2> QED BY <2>1, <2>2 DEF OwnOK
<1> QED BY <1>7, <1>9, <1>11, <1>12, <1>13, <1>14, Assemble

LEMMA ClosedIs ==
  ASSUME FTypeOK, NEW t \in FTask, NEW d, closemap' = Closed(t, d)
  PROVE  /\ closemap' \in [FTask -> SUBSET Fd] /\ closemap'[t] = closemap[t] \ {d}
         /\ \A u \in FTask \ {t} : closemap'[u] = closemap[u]
  BY DEF FTypeOK, Closed

LEMMA CloseEndStep ==
  ASSUME FInv, NEW t \in FTask, CloseEnd(t)
  PROVE  FInv'
<1>1. FTypeOK /\ OwnOK(t)
  BY InvIs
<1>2. PICK d : d = fcall[t].fd
  OBVIOUS
<1>3. MayFree(t, d, "user")
  BY <1>1, <1>2 DEF CloseEnd, OwnOK, CallOK, FTypeOK, CallRec, MayFree
<1>4. /\ Goto(t, "user", NoCall) /\ iref' = Unref(t) /\ UNCHANGED <<fdes, size>>
      /\ fvec' = [fvec EXCEPT ![t][d] = Nil] /\ closemap' = Closed(t, d)
  BY <1>2 DEF CloseEnd, Back
<1>5. /\ closemap' \in [FTask -> SUBSET Fd] /\ closemap'[t] = closemap[t] \ {d}
      /\ \A u \in FTask \ {t} : closemap'[u] = closemap[u]
  BY <1>1, <1>4, ClosedIs
<1> QED BY <1>3, <1>4, <1>5, FreesSlot

LEMMA CloseNextEndStep ==
  ASSUME FInv, NEW t \in FTask, CloseNextEnd(t)
  PROVE  FInv'
<1>1. FTypeOK /\ OwnOK(t)
  BY InvIs
<1>2. PICK d : d = fcall[t].fd
  OBVIOUS
<1>3. MayFree(t, d, fpc[t])
  BY <1>1, <1>2 DEF CloseNextEnd, FTypeOK, CallRec, MayFree
<1>4. /\ Goto(t, fpc[t], NoCall) /\ iref' = Unref(t) /\ UNCHANGED <<closemap, fdes, size>>
      /\ fvec' = [fvec EXCEPT ![t][d] = Nil] /\ closemap \in [FTask -> SUBSET Fd]
  BY <1>1, <1>2 DEF CloseNextEnd, FTypeOK
<1>5. fpc[t] # "exit" => d \notin closemap[t]
  BY <1>1, <1>2 DEF CloseNextEnd, OwnOK, CallOK
<1> QED BY <1>3, <1>4, <1>5, FreesSlot

LEMMA Dup2EndStep ==
  ASSUME FInv, NEW t \in FTask, Dup2End(t)
  PROVE  FInv'
<1>1. FTypeOK /\ DescOK /\ RefsOK /\ InodesOK /\ OwnOK(t)
  BY InvIs
<1>2. PICK d : d = fcall[t].fd
  OBVIOUS
<1>3. PICK e : e = fcall[t].to
  OBVIOUS
<1>4. PICK f : f = fvec[t][e]
  OBVIOUS
<1>5. PICK i : i = fcall[t].inode
  OBVIOUS
<1>6. fpc[t] = "dup2" /\ d \in Fd /\ e \in Open(t) /\ e # d
  BY <1>1, <1>2, <1>3 DEF Dup2End, OwnOK, CallOK, FTypeOK, CallRec
<1>7. e \in Fd /\ f \in Fdes /\ fdes \in [Fdes -> FdesRec] /\ iref \in [Inode -> Int]
  BY <1>1, <1>4, <1>6 DEF FTypeOK, Open
<1>8. i \in Inode \cup {Nil} /\ iref' = IF i = Nil THEN iref ELSE [iref EXCEPT ![i] = @ - 1]
  BY <1>1, <1>5 DEF Dup2End, Unref, FTypeOK, CallRec
<1>9. iref' \in [Inode -> Int]
  BY <1>7, <1>8
<1>10. /\ fvec' = [fvec EXCEPT ![t][d] = f] /\ fdes' = Shares(f) /\ closemap' = Closed(t, d)
       /\ Goto(t, "user", NoCall) /\ size' = size
  BY <1>2, <1>3, <1>4 DEF Dup2End, Back
<1>11. /\ fvec' \in [FTask -> [Fd -> Fdes \cup {Nil}]]
       /\ fvec'[t][d] = f /\ \A b \in Fd \ {d} : fvec'[t][b] = fvec[t][b]
       /\ \A u \in FTask \ {t} : fvec'[u] = fvec[u]
  BY <1>1, <1>6, <1>7, <1>10, SetSlot
<1>12. /\ fdes' \in [Fdes -> FdesRec]
       /\ fdes'[f].refcnt = fdes[f].refcnt + 1 /\ fdes'[f].inode = fdes[f].inode
       /\ \A g \in Fdes \ {f} : fdes'[g] = fdes[g]
  BY <1>7, <1>10, SharesIs
<1>13. /\ closemap' \in [FTask -> SUBSET Fd] /\ closemap'[t] = closemap[t] \ {d}
       /\ \A u \in FTask \ {t} : closemap'[u] = closemap[u]
  BY <1>1, <1>10, ClosedIs
<1>14. /\ fpc' \in [FTask -> FPC] /\ fcall' \in [FTask -> CallRec]
       /\ fpc'[t] = "user" /\ fcall'[t].fd = Nil /\ fcall'[t].inode = Nil
       /\ \A u \in FTask \ {t} : fpc'[u] = fpc[u] /\ fcall'[u] = fcall[u]
  BY <1>1, <1>10, BackIs DEF FPC
<1>15. Frame(t)
  BY <1>11, <1>13, <1>14 DEF Frame
<1>16. FTypeOK'
  BY <1>1, <1>9, <1>10, <1>11, <1>12, <1>13, <1>14 DEF FTypeOK, FPC
<1>17. Gains(t, d, f)
  BY <1>2, <1>6, <1>11, <1>14, FilesAssumption DEF Gains, SlotsBut, Counted
<1>18. RefsOK'
  BY <1>1, <1>6, <1>7, <1>12, <1>15, <1>17, RefsGain
<1>19. fdes[f].refcnt > 0 /\ fdes[f].refcnt \in Nat
  <2>1. Counted(t, e, f)
    BY <1>2, <1>4, <1>6 DEF Counted
  <2>2. fdes[f].refcnt > 0
    BY <1>1, <1>7, <2>1, CountedLives
  <2> QED BY <1>7, <2>2 DEF FdesRec
<1>20. DescOK' /\ SameUsers
  BY <1>1, <1>12, <1>19 DEF DescOK, SameUsers, User
<1>21. InodesOK'
  BY <1>1, <1>5, <1>7, <1>8, <1>14, <1>15, <1>20, InodesQuit
<1>22. OwnOK(t)'
  <2>1. CallOK(t)'
    BY <1>14 DEF CallOK
  <2>2. MarkedOpen(t)'
    BY <1>1, <1>6, <1>11, <1>13, <1>14 DEF OwnOK, MarkedOpen, Open
  <2> QED BY <2>1, <2>2 DEF OwnOK
<1> QED BY <1>15, <1>16, <1>18, <1>20, <1>21, <1>22, Assemble

LEMMA CloseNextStep ==
  ASSUME FInv, NEW t \in FTask, CloseNext(t)
  PROVE  FInv'
<1>1. FTypeOK /\ OwnOK(t)
  BY InvIs
<1>2. PICK p : p = fpc[t]
  OBVIOUS
<1>3. PICK d \in Least(ToClose(t)) :
        Lose(t, d, p, Nil) /\ closemap' = IF p = "exec" THEN Closed(t, d) ELSE closemap
  BY <1>2 DEF CloseNext
<1>4. p \in {"exec", "exit"} /\ fcall[t].fd = Nil /\ UNCHANGED <<fvec, iref, size>>
  BY <1>2 DEF CloseNext
<1>5. d \in Open(t)
  BY <1>1, <1>2, <1>3, <1>4 DEF Least, ToClose, OwnOK, MarkedOpen
<1>6. MayLose(t, d, p, Nil)
  BY <1>1, <1>2, <1>4, <1>5 DEF MayLose, OwnOK, CallOK
<1>7. /\ closemap' \in [FTask -> SUBSET Fd] /\ closemap'[t] \subseteq closemap[t]
      /\ \A u \in FTask \ {t} : closemap'[u] = closemap[u]
      /\ p = "exec" => d \notin closemap'[t]
  <2>1. CASE p = "exec"
    BY <1>1, <1>3, <2>1, ClosedIs
  <2>2. CASE p # "exec"
    BY <1>1, <1>3, <2>2 DEF FTypeOK
  <2> QED BY <2>1, <2>2
<1> QED BY <1>3, <1>4, <1>6, <1>7, LoseStep

\* A step between calls: t has nothing in hand, and only goes on to p.
MayGo(t, p) ==
  /\ fcall[t].fd = Nil /\ fcall[t].inode = Nil /\ p \in {"none", "user", "exec", "exit"}
  /\ p = "none" => Open(t) = {}
  /\ p # "exit" => fpc[t] # "exit" \/ closemap'[t] = {}

LEMMA GoesOn ==
  ASSUME FInv, NEW t \in FTask, NEW p, MayGo(t, p), Goto(t, p, NoCall),
         closemap' \in [FTask -> SUBSET Fd], closemap'[t] \subseteq closemap[t],
         \A u \in FTask \ {t} : closemap'[u] = closemap[u],
         UNCHANGED <<fvec, fdes, iref, size>>
  PROVE  FInv'
<1>1. FTypeOK /\ DescOK /\ RefsOK /\ InodesOK /\ OwnOK(t)
  BY InvIs
<1>2. fcall[t].fd = Nil /\ fcall[t].inode = Nil /\ p \in FPC
  BY DEF MayGo, FPC
<1>3. /\ fpc' \in [FTask -> FPC] /\ fcall' \in [FTask -> CallRec]
      /\ fpc'[t] = p /\ fcall'[t].fd = Nil /\ fcall'[t].inode = Nil
      /\ \A u \in FTask \ {t} : fpc'[u] = fpc[u] /\ fcall'[u] = fcall[u]
  BY <1>1, <1>2, BackIs
<1>4. Frame(t)
  BY <1>3 DEF Frame
<1>5. FTypeOK'
  BY <1>1, <1>3 DEF FTypeOK, FPC
<1>6. SameUsers /\ DescOK'
  BY <1>1, SameDescs
<1>7. RefsOK'
  BY <1>1, <1>2, <1>3, <1>4, KeepsFree, RefsKeep
<1>8. InodesOK'
  BY <1>1, <1>2, <1>3, <1>4, <1>6, InodesKeep
<1>9. OwnOK(t)'
  <2>1. CallOK(t)'
    BY <1>3, <1>5, FilesAssumption DEF CallOK, MayGo, FTypeOK, Open
  <2>2. MarkedOpen(t)'
    BY <1>1, <1>3 DEF OwnOK, MarkedOpen, MayGo, Open
  <2> QED BY <2>1, <2>2 DEF OwnOK
<1> QED BY <1>4, <1>5, <1>6, <1>7, <1>8, <1>9, Assemble

LEMMA GoingStep ==
  ASSUME FInv, NEW t \in FTask, Closeonexec(t) \/ Closeall(t) \/ CloseDone(t)
  PROVE  FInv'
<1>1. FTypeOK /\ OwnOK(t) /\ closemap \in [FTask -> SUBSET Fd]
  BY InvIs DEF FTypeOK
<1>2. CASE Closeonexec(t)
  <2>1. MayGo(t, "exec") /\ Goto(t, "exec", NoCall) /\ UNCHANGED <<fvec, closemap, fdes, iref, size>>
    BY <1>1, <1>2 DEF MayGo, Closeonexec, InUser, OwnOK, CallOK
  <2> QED BY <1>1, <2>1, GoesOn
<1>3. CASE Closeall(t)
  <2>1. MayGo(t, "exit") /\ Goto(t, "exit", NoCall) /\ UNCHANGED <<fvec, closemap, fdes, iref, size>>
    BY <1>1, <1>3 DEF MayGo, Closeall, InUser, OwnOK, CallOK
  <2> QED BY <1>1, <2>1, GoesOn
<1>4. CASE CloseDone(t) /\ fpc[t] = "exec"
  <2>1. MayGo(t, "user") /\ Goto(t, "user", NoCall) /\ UNCHANGED <<fvec, closemap, fdes, iref, size>>
    BY <1>1, <1>4 DEF MayGo, CloseDone, OwnOK, CallOK
  <2> QED BY <1>1, <2>1, GoesOn
<1>5. CASE CloseDone(t) /\ fpc[t] = "exit"
  <2>1. closemap' = [closemap EXCEPT ![t] = {}]
    BY <1>5 DEF CloseDone
  <2>2. /\ closemap' \in [FTask -> SUBSET Fd] /\ closemap'[t] = {}
        /\ \A u \in FTask \ {t} : closemap'[u] = closemap[u]
    BY <1>1, <2>1
  <2>3. MayGo(t, "none") /\ Goto(t, "none", NoCall) /\ UNCHANGED <<fvec, fdes, iref, size>>
    BY <1>1, <1>5, <2>2 DEF MayGo, CloseDone, ToClose, OwnOK, CallOK
  <2> QED BY <2>2, <2>3, GoesOn
<1> QED BY <1>2, <1>3, <1>4, <1>5 DEF CloseDone

\* A step that only moves the position of f and takes t from call to call.
MayMove(t, f, pos) ==
  /\ f \in Fdes /\ pos \in Int /\ fdes' = [fdes EXCEPT ![f].curpos = pos]
  /\ Frame(t) /\ fpc' \in [FTask -> FPC] /\ fcall' \in [FTask -> CallRec]
  /\ fcall[t].inode = Nil /\ fcall'[t].inode = Nil
  /\ UNCHANGED <<fvec, closemap, iref>> /\ size' \in [Inode -> Int]

LEMMA Moves ==
  ASSUME FInv, NEW t \in FTask, NEW f, NEW pos, MayMove(t, f, pos), Keeps(t), OwnOK(t)'
  PROVE  FInv'
<1>1. FTypeOK /\ DescOK /\ RefsOK /\ InodesOK
  BY InvIs
<1>2. /\ fdes' \in [Fdes -> FdesRec]
      /\ \A g \in Fdes : fdes'[g].refcnt = fdes[g].refcnt /\ fdes'[g].inode = fdes[g].inode
  BY <1>1, SeekIs DEF FTypeOK, MayMove
<1>3. Frame(t) /\ fcall'[t].inode = fcall[t].inode /\ iref' = iref
  BY DEF MayMove
<1>4. FTypeOK'
  BY <1>1, <1>2 DEF FTypeOK, MayMove, FPC
<1>5. SameUsers /\ DescOK'
  BY <1>1, <1>2, SameDescs
<1>6. RefsOK'
  BY <1>1, <1>2, <1>3, RefsKeep
<1>7. InodesOK'
  BY <1>1, <1>3, <1>5, InodesKeep
<1> QED BY <1>3, <1>4, <1>5, <1>6, <1>7, Assemble

LEMMA LseekStep ==
  ASSUME FInv, NEW t \in FTask, NEW d \in Fd, Lseek(t, d, 0)
  PROVE  FInv'
<1>1. FTypeOK /\ OwnOK(t)
  BY InvIs
<1>2. /\ fpc[t] = "user" /\ d \in Open(t) /\ UNCHANGED <<fvec, closemap, iref, size, fpc, fcall>>
      /\ fdes' = [fdes EXCEPT ![fvec[t][d]].curpos = 0]
  BY DEF Lseek, InUser
<1>3. MayMove(t, fvec[t][d], 0)
  BY <1>1, <1>2 DEF MayMove, FTypeOK, OwnOK, CallOK, Open, Frame, FPC
<1>4. Keeps(t) /\ OwnOK(t)'
  BY <1>1, <1>2 DEF Keeps, Counted, OwnOK, CallOK, MarkedOpen, Open
<1> QED BY <1>3, <1>4, Moves

LEMMA StartStep ==
  ASSUME FInv, NEW t \in FTask, NEW d \in Fd, NEW how \in {"read", "write"}, Start(t, d, how)
  PROVE  FInv'
<1>1. FTypeOK /\ DescOK /\ RefsOK /\ OwnOK(t)
  BY InvIs
<1>2. PICK f : f = fvec[t][d]
  OBVIOUS
<1>3. PICK pos : pos = IF how = "write" /\ "APPEND" \in fdes[f].flags THEN size[fdes[f].inode] ELSE fdes[f].curpos
  OBVIOUS
<1>4. /\ fpc[t] = "user" /\ d \in Open(t) /\ UNCHANGED <<fvec, closemap, iref, size>>
      /\ fdes' = [fdes EXCEPT ![f].curpos = pos] /\ Goto(t, how, RwCall(d, pos))
  BY <1>2, <1>3 DEF Start, InUser, RwCall
<1>5. fcall[t].fd = Nil /\ fcall[t].inode = Nil /\ f \in Fdes /\ fdes[f] \in FdesRec
  BY <1>1, <1>2, <1>4 DEF OwnOK, CallOK, Open, FTypeOK
<1>6. fdes[f].inode \in Inode
  <2>1. Counted(t, d, f)
    BY <1>2, <1>5, FilesAssumption DEF Counted
  <2>2. fdes[f].refcnt > 0
    BY <1>1, <1>5, <2>1, CountedLives DEF FTypeOK
  <2> QED BY <1>1, <1>5, <2>2 DEF DescOK, FdesRec
<1>7. pos \in Int
  BY <1>1, <1>3, <1>5, <1>6 DEF FTypeOK, FdesRec
<1>8. RwCall(d, pos) \in CallRec /\ RwCall(d, pos).fd = d /\ RwCall(d, pos).inode = Nil
  BY <1>7, RwCallIs
<1>9. /\ fpc' \in [FTask -> FPC] /\ fcall' \in [FTask -> CallRec] /\ fpc'[t] = how
      /\ fcall'[t] = RwCall(d, pos)
      /\ \A u \in FTask \ {t} : fpc'[u] = fpc[u] /\ fcall'[u] = fcall[u]
  BY <1>1, <1>4, <1>8, GotoIs DEF FPC
<1>10. MayMove(t, f, pos)
  BY <1>1, <1>4, <1>5, <1>7, <1>8, <1>9 DEF MayMove, Frame, FTypeOK
<1>11. Keeps(t)
  BY <1>4, <1>5, <1>8, <1>9, FilesAssumption DEF Keeps, Counted
<1>12. OwnOK(t)'
  BY <1>1, <1>4, <1>8, <1>9 DEF OwnOK, CallOK, MarkedOpen, Open
<1> QED BY <1>10, <1>11, <1>12, Moves

LEMMA MaxIs ==
  ASSUME NEW a \in Int, NEW b \in Int PROVE Max({a, b}) \in Int
  BY DEF Max

LEMMA FinishStep ==
  ASSUME FInv, NEW t \in FTask, Finish(t)
  PROVE  FInv'
<1>1. FTypeOK /\ OwnOK(t)
  BY InvIs
<1>2. PICK d : d = fcall[t].fd
  OBVIOUS
<1>3. PICK f : f = fvec[t][d]
  OBVIOUS
<1>4. PICK i : i = fdes[f].inode
  OBVIOUS
<1>5. PICK n : n = IF fpc[t] = "write" \/ fcall[t].pos < size[i] THEN 1 ELSE 0
  OBVIOUS
<1>6. /\ fpc[t] \in {"read", "write"} /\ UNCHANGED <<fvec, closemap, iref>>
      /\ size' = IF fpc[t] = "write" THEN [size EXCEPT ![i] = Max({@, fcall[t].pos + 1})] ELSE size
      /\ fdes' = [fdes EXCEPT ![f].curpos = @ + n] /\ Goto(t, "user", NoCall)
  BY <1>2, <1>3, <1>4, <1>5 DEF Finish, Back
<1>7. d \in Open(t) /\ fcall[t].inode = Nil /\ f \in Fdes /\ fdes[f] \in FdesRec /\ fcall[t] \in CallRec
  BY <1>1, <1>2, <1>3, <1>6 DEF OwnOK, CallOK, FTypeOK, Open
<1>8. n \in Int /\ fdes[f].curpos \in Int /\ fcall[t].pos + 1 \in Int
  BY <1>5, <1>7 DEF FdesRec, CallRec
<1>9. fdes' = [fdes EXCEPT ![f].curpos = fdes[f].curpos + n] /\ fdes[f].curpos + n \in Int
  BY <1>6, <1>7, <1>8
<1>10. size' \in [Inode -> Int]
  <2>1. \A j \in Inode : Max({size[j], fcall[t].pos + 1}) \in Int
    BY <1>1, <1>8, MaxIs DEF FTypeOK
  <2> QED BY <1>1, <1>6, <2>1 DEF FTypeOK
<1>11. /\ fpc' \in [FTask -> FPC] /\ fcall' \in [FTask -> CallRec]
       /\ fpc'[t] = "user" /\ fcall'[t].fd = Nil /\ fcall'[t].inode = Nil
       /\ \A u \in FTask \ {t} : fpc'[u] = fpc[u] /\ fcall'[u] = fcall[u]
  BY <1>1, <1>6, BackIs DEF FPC
<1>12. MayMove(t, f, fdes[f].curpos + n)
  BY <1>6, <1>7, <1>9, <1>10, <1>11 DEF MayMove, Frame
<1>13. Keeps(t)
  BY <1>2, <1>6, <1>11, FilesAssumption DEF Keeps, Counted
<1>14. OwnOK(t)'
  BY <1>1, <1>6, <1>11 DEF OwnOK, CallOK, MarkedOpen, Open
<1> QED BY <1>12, <1>13, <1>14, Moves

\* The slots of t that point to f.
Fds(t, f) == {d \in Fd : fvec[t][d] = f}

LEMMA FdsNat ==
  ASSUME NEW t, NEW f PROVE IsFiniteSet(Fds(t, f)) /\ Cardinality(Fds(t, f)) \in Nat
<1>1. IsFiniteSet(Fds(t, f))
  BY FS_Subset, FilesAssumption DEF Fds
<1> QED BY <1>1, FS_CardinalityType

\* c, which had no slot, has those of t.
LEMMA SlotsCopied ==
  ASSUME NEW t \in FTask, NEW c \in FTask, Frame(c), NEW f \in Fdes, \A d \in Fd : ~Counted(c, d, f),
         \A d \in Fd : Counted(c, d, f)' <=> fvec[t][d] = f
  PROVE  Cardinality(Slots(f)') = Cardinality(Slots(f)) + Cardinality(Fds(t, f))
<1>1. ASSUME NEW s \in FTask \X Fd PROVE s \in Slots(f)' <=> s \in Slots(f) \cup ({c} \X Fds(t, f))
  <2>1. s[1] \in FTask /\ s[2] \in Fd /\ s = <<s[1], s[2]>>
    OBVIOUS
  <2>2. CASE s[1] # c
    <3>1. Counted(s[1], s[2], f)' <=> Counted(s[1], s[2], f)
      BY <2>1, <2>2, OthersCounted
    <3>2. s \notin {c} \X Fds(t, f)
      BY <2>2
    <3> QED BY <3>1, <3>2 DEF Slots
  <2>3. CASE s[1] = c
    <3>1. s \in {c} \X Fds(t, f) <=> fvec[t][s[2]] = f
      BY <2>1, <2>3 DEF Fds
    <3>2. s \notin Slots(f) /\ (s \in Slots(f)' <=> fvec[t][s[2]] = f)
      BY <2>1, <2>3 DEF Slots
    <3> QED BY <3>1, <3>2
  <2> QED BY <2>2, <2>3
<1>2. Fds(t, f) \subseteq Fd
  BY DEF Fds
<1>3. Slots(f)' = Slots(f) \cup ({c} \X Fds(t, f))
  <2>1. {c} \X Fds(t, f) \subseteq FTask \X Fd
    BY <1>2
  <2>2. Slots(f) \subseteq FTask \X Fd /\ Slots(f)' \subseteq FTask \X Fd
    BY DEF Slots
  <2> QED BY <1>1, <2>1, <2>2
<1>4. Slots(f) \cap ({c} \X Fds(t, f)) = {}
  <2>1. ASSUME NEW s \in Slots(f), s \in {c} \X Fds(t, f) PROVE FALSE
    <3>1. s[1] = c /\ s[2] \in Fd /\ Counted(s[1], s[2], f)
      BY <1>2, <2>1 DEF Slots
    <3> QED BY <3>1
  <2> QED BY <2>1
<1>5. IsFiniteSet(Slots(f)) /\ IsFiniteSet(Fds(t, f)) /\ IsFiniteSet({c}) /\ Cardinality({c}) = 1
  BY FiniteSlots, FdsNat, FS_Singleton
<1>6. IsFiniteSet({c} \X Fds(t, f)) /\ Cardinality({c} \X Fds(t, f)) = 1 * Cardinality(Fds(t, f))
  BY <1>5, FS_Product
<1>7. Cardinality(Slots(f)') = Cardinality(Slots(f)) + Cardinality({c} \X Fds(t, f)) - Cardinality({})
  BY ONLY <1>3, <1>4, <1>5, <1>6, FS_Union
<1>8. Cardinality({}) = 0 /\ Cardinality(Slots(f)) \in Nat /\ Cardinality(Fds(t, f)) \in Nat
  BY <1>5, FdsNat, FS_EmptySet, FS_CardinalityType
<1> QED BY ONLY <1>6, <1>7, <1>8

LEMMA CloneStep ==
  ASSUME FInv, NEW t \in FTask, NEW c \in FTask, Clone(t, c)
  PROVE  FInv'
<1>1. FTypeOK /\ DescOK /\ RefsOK /\ InodesOK /\ OwnOK(t) /\ OwnOK(c)
  BY InvIs
<1>2. /\ fpc[t] = "user" /\ fpc[c] = "none" /\ fpc' = [fpc EXCEPT ![c] = "user"]
      /\ fvec' = [fvec EXCEPT ![c] = fvec[t]] /\ closemap' = [closemap EXCEPT ![c] = {}]
      /\ fdes' = HoldAll(t) /\ UNCHANGED <<iref, size, fcall>>
  BY DEF Clone, InUser
<1>3. fcall[t].fd = Nil /\ fcall[c].fd = Nil /\ fcall[c].inode = Nil /\ Open(c) = {}
  BY <1>1, <1>2 DEF OwnOK, CallOK
<1>4. /\ Frame(c) /\ fvec'[c] = fvec[t] /\ fpc'[c] = "user" /\ closemap'[c] = {}
      /\ fvec' \in [FTask -> [Fd -> Fdes \cup {Nil}]] /\ fpc' \in [FTask -> FPC]
      /\ closemap' \in [FTask -> SUBSET Fd]
  BY <1>1, <1>2 DEF Frame, FTypeOK, FPC
<1>5. ASSUME NEW f \in Fdes
      PROVE  /\ fdes'[f] \in FdesRec /\ fdes'[f].inode = fdes[f].inode
             /\ fdes'[f].refcnt = fdes[f].refcnt + Cardinality(Fds(t, f))
  <2>1. fdes'[f] = [fdes[f] EXCEPT !.refcnt = @ + Cardinality(Fds(t, f))]
    BY <1>2 DEF HoldAll, Fds
  <2>2. fdes[f] \in FdesRec
    BY <1>1 DEF FTypeOK
  <2>3. PICK n : n = Cardinality(Fds(t, f))
    OBVIOUS
  <2>4. n \in Nat
    BY <2>3, FdsNat
  <2> QED BY ONLY <2>1, <2>2, <2>3, <2>4 DEF FdesRec
<1>6. fdes' \in [Fdes -> FdesRec]
  BY <1>2, <1>5 DEF HoldAll
<1>7. FTypeOK'
  BY <1>1, <1>2, <1>4, <1>6 DEF FTypeOK, FPC
<1>8. ASSUME NEW f \in Fdes PROVE fdes'[f].refcnt = Cardinality(Slots(f)')
  <2>1. \A d \in Fd : ~Counted(c, d, f)
    BY <1>3, FilesAssumption DEF Counted, Open
  <2>2. \A d \in Fd : Counted(c, d, f)' <=> fvec[t][d] = f
    BY <1>2, <1>3, <1>4, FilesAssumption DEF Counted
  <2>3. Cardinality(Slots(f)') = Cardinality(Slots(f)) + Cardinality(Fds(t, f))
    BY <1>4, <2>1, <2>2, SlotsCopied
  <2> QED BY <1>1, <1>5, <2>3 DEF RefsOK
<1>9. RefsOK'
  BY <1>8 DEF RefsOK
<1>10. ASSUME NEW f \in Fdes, fdes[f].refcnt = 0 PROVE fdes'[f].refcnt = 0
  <2>1. Fds(t, f) = {}
    <3>1. ASSUME NEW d \in Fd, fvec[t][d] = f PROVE FALSE
      <4>1. Counted(t, d, f)
        BY <1>3, <3>1, FilesAssumption DEF Counted
      <4> QED BY <1>1, <1>10, <4>1, DeadNotCounted DEF FTypeOK
    <3> QED BY <3>1 DEF Fds
  <2>2. Cardinality(Fds(t, f)) = 0
    BY <2>1, FS_EmptySet
  <2> QED BY <1>5, <1>10, <2>2
<1>11. ASSUME NEW f \in Fdes PROVE fdes'[f].refcnt > 0 <=> fdes[f].refcnt > 0
  <2>1. fdes[f].refcnt \in Nat /\ Cardinality(Fds(t, f)) \in Nat
    BY <1>1, FdsNat DEF FTypeOK, FdesRec
  <2> QED BY <1>5, <1>10, <2>1
<1>12. SameUsers /\ DescOK'
  BY <1>1, <1>5, <1>11 DEF SameUsers, DescOK, User
<1>13. InodesOK'
  BY <1>1, <1>2, <1>4, <1>12, InodesKeep
<1>14. OwnOK(c)'
  BY <1>2, <1>3, <1>4 DEF OwnOK, CallOK, MarkedOpen
<1> QED BY <1>4, <1>7, <1>9, <1>12, <1>13, <1>14, Assemble

----------------------------------------------------------------------------
LEMMA FInitInv == FInit => FInv
<1> SUFFICES ASSUME FInit PROVE FInv
  OBVIOUS
<1>1. \A t \in FTask : fpc[t] \in {"user", "none"} /\ fcall[t] = NoCall /\ closemap[t] = {} /\ Open(t) = {}
  BY DEF FInit, Open
<1>2. NoFdes \in FdesRec /\ NoFdes.refcnt = 0
  BY DEF NoFdes, FdesRec
<1>3. fpc \in [FTask -> FPC]
  BY DEF FInit, FPC
<1>4. FTypeOK
  BY <1>2, <1>3, NoCallIs DEF FInit, FTypeOK, FPC
<1>5. DescOK
  BY <1>2 DEF FInit, DescOK
<1>6. RefsOK
  <2>1. ASSUME NEW f \in Fdes PROVE Slots(f) = {}
    <3>1. ASSUME NEW s \in FTask \X Fd PROVE ~Counted(s[1], s[2], f)
      <4>1. s[1] \in FTask /\ s[2] \in Fd
        OBVIOUS
      <4> QED BY <4>1, FilesAssumption DEF FInit, Counted
    <3> QED BY <3>1 DEF Slots
  <2> QED BY <1>2, <2>1, FS_EmptySet DEF RefsOK, FInit
<1>7. InodesOK
  <2>1. ASSUME NEW i \in Inode PROVE Users(i) = {} /\ Callers(i) = {}
    BY <1>1, <1>2, NoCallIs, FilesAssumption DEF FInit, Users, Callers
  <2> QED BY <2>1, FS_EmptySet DEF InodesOK, FInit
<1>8. \A t \in FTask : OwnOK(t)
  BY <1>1, NoCallIs DEF OwnOK, CallOK, MarkedOpen
<1> QED BY <1>4, <1>5, <1>6, <1>7, <1>8, InvIs

LEMMA FNextInv == FInv /\ [FNext]_fvars => FInv'
<1> SUFFICES ASSUME FInv, [FNext]_fvars PROVE FInv'
  OBVIOUS
<1>1. CASE UNCHANGED fvars
  BY <1>1 DEF fvars, FInv, FTypeOK, DescOK, FilesAreCounted, Slots, Counted, Users, Callers,
              OwnOK, CallOK, MarkedOpen, Open
<1>2. ASSUME NEW t \in FTask, FStep(t) PROVE FInv'
  <2>1. ASSUME NEW i \in Inode, NEW fl \in {{"READ"}, {"READ", "WRITE", "APPEND"}, {"WRITE", "TRUNC"}},
               SysOpen(t, i, fl)
        PROVE  FInv'
    <3>1. fl \in SUBSET Flags
      BY DEF Flags
    <3> QED BY <2>1, <3>1, SysOpenStep
  <2>2. ASSUME NEW d \in Fd, NEW e \in Fd, Dup(t, d, e) \/ Dup2(t, d, e) PROVE FInv'
    BY <2>2, DupStep, Dup2Step
  <2>3. ASSUME NEW d \in Fd, \/ Close(t, d) \/ Lseek(t, d, 0)
                             \/ \E on \in BOOLEAN : Setfd(t, d, on)
                             \/ \E how \in {"read", "write"} : Start(t, d, how)
        PROVE  FInv'
    BY <2>3, CloseStep, LseekStep, SetfdStep, StartStep
  <2>4. ASSUME NEW c \in FTask, Clone(t, c) PROVE FInv'
    BY <2>4, CloneStep
  <2>5. CASE Doopen(t) \/ CloseEnd(t) \/ Dup2End(t) \/ CloseNext(t) \/ CloseNextEnd(t) \/ Finish(t)
    BY <2>5, DoopenStep, CloseEndStep, Dup2EndStep, CloseNextStep, CloseNextEndStep, FinishStep
  <2>6. CASE Closeonexec(t) \/ Closeall(t) \/ CloseDone(t)
    BY <2>6, GoingStep
  <2> QED BY <1>2, <2>1, <2>2, <2>3, <2>4, <2>5, <2>6 DEF FStep
<1> QED BY <1>1, <1>2 DEF FNext

\* The counts of descriptions and inodes are exact, and every descriptor that
\* exec is to close is open: through opens that fail, closes that sleep while
\* others share and close the same descriptions, forks, execs and exits.
THEOREM TablesAgreeCorrect == FSpec => []TablesAgree
<1>1. FInv => TablesAgree
  BY DEF FInv, OwnOK, MarkedOpen, TablesAgree, MarkedAreOpen
<1> QED BY <1>1, FInitInv, FNextInv, PTL DEF FSpec

----------------------------------------------------------------------------
(* The buffer cache. *)

BufPc == {"out", "repeat", "hit", "scan", "waitany", "submit", "written", "losing", "core",
          "sync", "got", "reading", "have", "panic"}
BufCallRec ==
  [op : {"none", "read", "ahead", "get", "sync"}, bno : Block \cup {NoBlock}, buf : SUBSET Buf,
   cand : Nat, pos : Nat \ {0}, todo : Seq(Buf), cluster : Seq(Buf), left : SUBSET Buf]

BufTypeOK ==
  /\ blk \in [Buf -> Block \cup {NoBlock}]
  /\ bstate \in [Buf -> {"BINVAL", "BCLEAN", "BDIRTY"}]
  /\ refcnt \in [Buf -> Int]
  /\ freeq \in Seq(Buf)
  /\ io \in [Buf -> {"free", "BREAD", "BWRITE"}]
  /\ DOMAIN data = Buf /\ DOMAIN disk = Block /\ DOMAIN last = Block
  /\ curr \in BufTask \cup {Nobody}
  /\ tpc \in [BufTask -> BufPc]
  /\ call \in [BufTask -> BufCallRec]

\* Where a task is in the cache says what it has there.
NoBuffer == {"out", "repeat", "scan", "sync", "panic"}
Mine == {"hit", "got", "reading", "have"}
Writes == {"submit", "written", "losing"}
BufTaskOK(t) ==
  /\ tpc[t] # "out" => call[t].bno \in Block
  /\ tpc[t] \in NoBuffer => call[t].buf = {}
  /\ tpc[t] \notin NoBuffer => \E b \in Buf : call[t].buf = {b}
  /\ tpc[t] \in Mine => \A b \in call[t].buf : blk[b] = call[t].bno
  /\ tpc[t] \notin Writes => call[t].cluster = << >>
  /\ IsInjective(call[t].cluster)
  /\ tpc[t] = "scan" => curr = t /\ Findb(call[t].bno) = {}

\* A block has one buffer.
OneBuffer == \A a, b \in Buf : blk[a] = blk[b] /\ blk[a] \in Block => a = b

\* The tasks that hold a buffer, for themselves and in a cluster.
Has(t, b) == tpc[t] # "waitany" /\ b \in call[t].buf
HasToo(t, b) == Contains(call[t].cluster, b)
BufHolders(b) == {t \in BufTask : Has(t, b)}
BufWriters(b) == {t \in BufTask : HasToo(t, b)}
BufCounts == \A b \in Buf : refcnt[b] = Cardinality(BufHolders(b)) + Cardinality(BufWriters(b))

\* What a buffer and the disk have of a block.
BlockOK(n) ==
  /\ (\A b \in Findb(n) : bstate[b] # "BDIRTY") => disk[n] = last[n]
  /\ \A b \in Findb(n) :
       /\ bstate[b] # "BINVAL" => data[b] = last[n]
       /\ io[b] = "BWRITE" => bstate[b] = "BDIRTY"
       /\ io[b] = "BREAD" => bstate[b] = "BINVAL"
BlocksOK == \A n \in Block \ excused : BlockOK(n)

BufTasksOK == \A t \in BufTask : BufTaskOK(t)
BufInv == BufTypeOK /\ BufTasksOK /\ OneBuffer /\ BufCounts /\ BlocksOK

----------------------------------------------------------------------------
(* Counting. *)

Bit(p) == IF p THEN 1 ELSE 0

\* One task more or less in a set of tasks.
LEMMA OneTaskApart ==
  ASSUME NEW S \in SUBSET BufTask, NEW T \in SUBSET BufTask, NEW t \in BufTask,
         \A u \in BufTask \ {t} : u \in S <=> u \in T
  PROVE  /\ Cardinality(T) = Cardinality(S) + Bit(t \in T) - Bit(t \in S)
         /\ Cardinality(S) \in Nat /\ Cardinality(T) \in Nat
<1>1. IsFiniteSet(S) /\ IsFiniteSet(T)
  BY BufAssumption, FS_Subset
<1>2. Cardinality(S) \in Nat /\ Cardinality(T) \in Nat
  BY <1>1, FS_CardinalityType
<1>3. CASE t \in S <=> t \in T
  <2>1. S = T
    BY <1>3
  <2> QED BY <1>2, <2>1 DEF Bit
<1>4. CASE t \in T /\ t \notin S
  <2>1. T = S \cup {t}
    BY <1>4
  <2> QED BY <1>1, <1>2, <1>4, <2>1, FS_AddElement DEF Bit
<1>5. CASE t \in S /\ t \notin T
  <2>1. T = S \ {t}
    BY <1>5
  <2> QED BY <1>1, <1>2, <1>5, <2>1, FS_RemoveElement DEF Bit
<1> QED BY <1>3, <1>4, <1>5

\* Only t's own variables change.
BufFrame(t) == \A u \in BufTask \ {t} : tpc'[u] = tpc[u] /\ call'[u] = call[u]
\* The count of every buffer follows what t has.
Follows(t) ==
  \A b \in Buf :
    refcnt'[b] = refcnt[b] + Bit(Has(t, b)') - Bit(Has(t, b)) + Bit(HasToo(t, b)') - Bit(HasToo(t, b))

LEMMA CountsFollow ==
  ASSUME BufCounts, NEW t \in BufTask, BufFrame(t), Follows(t)
  PROVE  BufCounts'
<1> SUFFICES ASSUME NEW b \in Buf
             PROVE  refcnt'[b] = Cardinality(BufHolders(b)') + Cardinality(BufWriters(b)')
  BY DEF BufCounts
<1>1. /\ BufHolders(b) \in SUBSET BufTask /\ BufHolders(b)' \in SUBSET BufTask
      /\ BufWriters(b) \in SUBSET BufTask /\ BufWriters(b)' \in SUBSET BufTask
  BY DEF BufHolders, BufWriters
<1>2. \A u \in BufTask \ {t} : u \in BufHolders(b) <=> u \in BufHolders(b)'
  BY DEF BufFrame, BufHolders, Has
<1>3. \A u \in BufTask \ {t} : u \in BufWriters(b) <=> u \in BufWriters(b)'
  BY DEF BufFrame, BufWriters, HasToo
<1>4. /\ Cardinality(BufHolders(b)') =
           Cardinality(BufHolders(b)) + Bit(t \in BufHolders(b)') - Bit(t \in BufHolders(b))
      /\ Cardinality(BufHolders(b)) \in Nat /\ Cardinality(BufHolders(b)') \in Nat
  BY <1>1, <1>2, OneTaskApart
<1>5. /\ Cardinality(BufWriters(b)') =
           Cardinality(BufWriters(b)) + Bit(t \in BufWriters(b)') - Bit(t \in BufWriters(b))
      /\ Cardinality(BufWriters(b)) \in Nat /\ Cardinality(BufWriters(b)') \in Nat
  BY <1>1, <1>3, OneTaskApart
<1>6. /\ t \in BufHolders(b) <=> Has(t, b)
      /\ t \in BufWriters(b) <=> HasToo(t, b)
      /\ t \in BufHolders(b)' <=> Has(t, b)'
      /\ t \in BufWriters(b)' <=> HasToo(t, b)'
  BY DEF BufHolders, BufWriters
<1>7. refcnt[b] = Cardinality(BufHolders(b)) + Cardinality(BufWriters(b))
  BY DEF BufCounts
<1>8. refcnt'[b] = refcnt[b] + Bit(Has(t, b)') - Bit(Has(t, b)) + Bit(HasToo(t, b)') - Bit(HasToo(t, b))
  BY DEF Follows
<1> QED BY <1>4, <1>5, <1>6, <1>7, <1>8 DEF Bit

\* A buffer that a task has is in use.
LEMMA HeldIsInUse ==
  ASSUME BufCounts, NEW t \in BufTask, NEW b \in Buf, Has(t, b) \/ HasToo(t, b)
  PROVE  refcnt[b] > 0
<1>1. BufHolders(b) \in SUBSET BufTask /\ BufWriters(b) \in SUBSET BufTask
  BY DEF BufHolders, BufWriters
<1>2. IsFiniteSet(BufHolders(b)) /\ IsFiniteSet(BufWriters(b))
  BY <1>1, BufAssumption, FS_Subset
<1>3. Cardinality(BufHolders(b)) \in Nat /\ Cardinality(BufWriters(b)) \in Nat
  BY <1>2, FS_CardinalityType
<1>4. BufHolders(b) # {} \/ BufWriters(b) # {}
  BY DEF BufHolders, BufWriters
<1>5. Cardinality(BufHolders(b)) # 0 \/ Cardinality(BufWriters(b)) # 0
  BY <1>2, <1>4, FS_EmptySet
<1> QED BY <1>3, <1>5 DEF BufCounts

----------------------------------------------------------------------------
(* The free list and the cluster. *)

LEMMA RemovedSeq ==
  ASSUME NEW S, NEW l \in Seq(S), NEW k \in 1 .. Len(l)
  PROVE  RemoveAt(l, k) \in Seq(S)
<1>1. PICK n \in Nat : n = Len(l)
  OBVIOUS
<1>2. k \in 1 .. n /\ \A i \in 1 .. n : l[i] \in S
  BY <1>1
<1>3. SubSeq(l, 1, k - 1) \in Seq(S)
  BY <1>2, SubSeqProperties
<1>4. SubSeq(l, k + 1, n) \in Seq(S)
  BY <1>2, SubSeqProperties
<1>5. SubSeq(l, 1, k - 1) \o SubSeq(l, k + 1, n) \in Seq(S)
  BY <1>3, <1>4, ConcatProperties
<1> QED BY <1>1, <1>5 DEF RemoveAt

LEMMA UnlinkedSeq ==
  ASSUME freeq \in Seq(Buf), NEW b
  PROVE  Unlinked(b) \in Seq(Buf)
<1>1. CASE ~Contains(freeq, b)
  BY <1>1 DEF Unlinked
<1>2. CASE Contains(freeq, b)
  <2> DEFINE k == CHOOSE i \in DOMAIN freeq : freeq[i] = b
  <2>1. DOMAIN freeq = 1 .. Len(freeq)
    OBVIOUS
  <2>2. k \in 1 .. Len(freeq)
    BY <1>2, <2>1 DEF Contains
  <2>3. Unlinked(b) = RemoveAt(freeq, k)
    BY <1>2 DEF Unlinked
  <2> HIDE DEF k
  <2> QED BY <2>2, <2>3, RemovedSeq
<1> QED BY <1>1, <1>2

LEMMA FreedSeq ==
  ASSUME freeq \in Seq(Buf), NEW b \in Buf
  PROVE  Freed(b) \in Seq(Buf)
BY DEF Freed

\* A set of numbers has a least one.
LEMMA LeastOf ==
  ASSUME NEW S \in SUBSET Nat, S # {}
  PROVE  \E x \in S : \A y \in S : x <= y
<1> DEFINE R == {ss \in Nat \X Nat : ss[1] < ss[2]}
<1>1. IsWellFoundedOn(R, Nat)
  BY NatLessThanWellFounded DEF OpToRel
<1>2. \E x \in S : \A y \in S : ~ (<<y, x>> \in R)
  <2> HIDE DEF R
  <2> QED BY <1>1, WFMin
<1>3. PICK x \in S : \A y \in S : ~ (<<y, x>> \in R)
  BY <1>2
<1>4. ASSUME NEW y \in S PROVE x <= y
  <2>1. ~(<<y, x>>[1] < <<y, x>>[2])
    BY <1>3
  <2>2. x \in Nat /\ y \in Nat
    OBVIOUS
  <2> QED BY <2>1, <2>2
<1> QED BY <1>4

\* writeb's loops stop where a block is not ideal or the array ends.
LEMMA ReachIs ==
  ASSUME NEW b, NEW d \in Int, NEW room \in Nat
  PROVE  /\ Reach(b, d, room) \in 0 .. room
         /\ \A i \in 1 .. Reach(b, d, room) : Ideal(blk[b] + d * i)
<1> DEFINE P(k) == /\ \A i \in 1 .. k : Ideal(blk[b] + d * i)
                   /\ k = room \/ ~Ideal(blk[b] + d * (k + 1))
           S == {k \in 0 .. room : k = room \/ ~Ideal(blk[b] + d * (k + 1))}
<1>1. room \in S /\ S \in SUBSET Nat
  OBVIOUS
<1>2. PICK x \in S : \A y \in S : x <= y
  <2> HIDE DEF S
  <2> QED BY <1>1, LeastOf
<1>3. ASSUME NEW i \in 1 .. x PROVE Ideal(blk[b] + d * i)
  <2>1. i - 1 \in 0 .. room /\ ~(x <= i - 1) /\ i - 1 # room /\ (i - 1) + 1 = i
    BY <1>1, <1>2
  <2>2. i - 1 \notin S
    BY <1>2, <2>1
  <2> QED BY <2>1, <2>2
<1>4. x \in 0 .. room /\ P(x)
  BY <1>3
<1>5. Reach(b, d, room) = CHOOSE k \in 0 .. room : P(k)
  BY DEF Reach
<1> QED BY <1>4, <1>5

\* writeb's array has each buffer once.
LEMMA ClusterIs ==
  ASSUME BufTypeOK, NEW b \in Buf
  PROVE  Cluster(b) \in Seq(Buf) /\ IsInjective(Cluster(b))
<1>1. PICK l \in 0 .. CLUSTER : l = Reach(b, -1, CLUSTER)
  BY ReachIs, BufAssumption
<1>2. \A i \in 1 .. l : Ideal(blk[b] + (-1) * i)
  BY <1>1, ReachIs, BufAssumption
<1>3. CLUSTER - 1 \in Nat
  BY BufAssumption
<1>4. PICK r \in 0 .. CLUSTER - 1 : r = Reach(b, 1, CLUSTER - 1)
  BY <1>3, ReachIs
<1>5. \A i \in 1 .. r : Ideal(blk[b] + 1 * i)
  BY <1>3, <1>4, ReachIs
<1>6. blk[b] \in Int /\ l \in Nat /\ r \in Nat
  <2>1. blk[b] \in Block \cup {NoBlock}
    BY DEF BufTypeOK
  <2>2. blk[b] \in Int
    BY <2>1, BufAssumption
  <2>3. l \in Nat /\ r \in Nat
    BY <1>3, BufAssumption
  <2> QED BY <2>2, <2>3
<1> DEFINE el(i) == IF i = l + 1 THEN b ELSE CHOOSE x \in Findb(blk[b] - l - 1 + i) : TRUE
<1>7. Cluster(b) = [i \in 1 .. l + 1 + r |-> el(i)]
  BY <1>1, <1>4 DEF Cluster
<1>8. ASSUME NEW i \in 1 .. l + 1 + r
      PROVE  el(i) \in Buf /\ blk[el(i)] = blk[b] - l - 1 + i
  <2>1. CASE i = l + 1
    BY <1>6, <2>1
  <2>2. CASE i # l + 1
    <3>1. Ideal(blk[b] - l - 1 + i)
      <4>1. CASE i < l + 1
        <5>1. l + 1 - i \in 1 .. l /\ blk[b] + (-1) * (l + 1 - i) = blk[b] - l - 1 + i
          BY <1>6, <4>1
        <5> QED BY <1>2, <5>1
      <4>2. CASE ~(i < l + 1)
        <5>1. i - l - 1 \in 1 .. r /\ blk[b] + 1 * (i - l - 1) = blk[b] - l - 1 + i
          BY <1>6, <2>2, <4>2
        <5> QED BY <1>5, <5>1
      <4> QED BY <4>1, <4>2
    <3>2. el(i) \in Findb(blk[b] - l - 1 + i)
      BY <2>2, <3>1 DEF Ideal
    <3> QED BY <3>2 DEF Findb
  <2> QED BY <2>1, <2>2
<1> HIDE DEF el
<1>9. l + 1 + r \in Nat
  BY <1>6
<1>10. Cluster(b) \in Seq(Buf)
  BY <1>7, <1>8, <1>9
<1>11. IsInjective(Cluster(b))
  <2> SUFFICES ASSUME NEW i \in 1 .. l + 1 + r, NEW j \in 1 .. l + 1 + r, el(i) = el(j)
               PROVE  i = j
    BY <1>7 DEF IsInjective
  <2> QED BY <1>6, <1>8
<1> QED BY <1>10, <1>11

----------------------------------------------------------------------------
(* What the steps of a task have in common. *)

LEMMA BufCallIs ==
  ASSUME BufTypeOK, NEW t \in BufTask, NEW c \in BufCallRec, BufCall(t, c)
  PROVE  /\ call' \in [BufTask -> BufCallRec] /\ call'[t] = c
         /\ \A u \in BufTask \ {t} : call'[u] = call[u]
BY DEF BufTypeOK, BufCall

LEMMA BufGotoIs ==
  ASSUME BufTypeOK, NEW t \in BufTask, NEW l \in BufPc, BufGoto(t, l)
  PROVE  /\ tpc' \in [BufTask -> BufPc] /\ tpc'[t] = l
         /\ \A u \in BufTask \ {t} : tpc'[u] = tpc[u]
BY DEF BufTypeOK, BufGoto

LEMMA BufferIs ==
  ASSUME NEW t \in BufTask, NEW b, call[t].buf = {b}
  PROVE  Buffer(t) = b
BY DEF Buffer

\* The contents and what is known of them stay.
Still == UNCHANGED <<blk, bstate, io, contents>>

LEMMA StillBlocks ==
  ASSUME BlocksOK, Still
  PROVE  BlocksOK'
<1>1. blk' = blk /\ bstate' = bstate /\ io' = io /\ data' = data /\ disk' = disk /\ last' = last /\ excused' = excused
  BY DEF Still, contents
<1>2. \A n : Findb(n)' = Findb(n)
  BY <1>1 DEF Findb
<1> QED BY <1>1, <1>2 DEF BlocksOK, BlockOK

\* A step of t that gives no buffer to another block.
LEMMA StepKeeps ==
  ASSUME BufInv, NEW t \in BufTask, curr \in {t, Nobody}, BufFrame(t), blk' = blk,
         BufTypeOK', BufTaskOK(t)', Follows(t), BlocksOK'
  PROVE  BufInv'
<1>1. ASSUME NEW u \in BufTask \ {t} PROVE BufTaskOK(u)'
  <2>1. tpc'[u] = tpc[u] /\ call'[u] = call[u] /\ BufTaskOK(u)
    BY DEF BufFrame, BufInv, BufTasksOK
  <2>2. tpc[u] # "scan"
    BY <2>1, BufAssumption DEF BufTaskOK
  <2> QED BY <2>1, <2>2 DEF BufTaskOK
<1>2. BufTasksOK'
  BY <1>1 DEF BufTasksOK
<1>3. OneBuffer'
  BY DEF BufInv, OneBuffer
<1>4. BufCounts'
  BY CountsFollow DEF BufInv
<1> QED BY <1>2, <1>3, <1>4 DEF BufInv

\* How counts follow.
HasAll(t, S) == \A b \in Buf : Has(t, b) <=> b \in S
HasAllToo(t, S) == \A b \in Buf : HasToo(t, b) <=> b \in S

LEMMA SameFollows ==
  ASSUME BufTypeOK, NEW t \in BufTask, refcnt' = refcnt, NEW S, NEW T,
         HasAll(t, S), HasAll(t, S)', HasAllToo(t, T), HasAllToo(t, T)'
  PROVE  Follows(t)
BY DEF BufTypeOK, Follows, HasAll, HasAllToo, Bit

LEMMA HeldFollows ==
  ASSUME BufTypeOK, NEW t \in BufTask, NEW b \in Buf, refcnt' = Held({b}), NEW T,
         HasAll(t, {}), HasAll(t, {b})', HasAllToo(t, T), HasAllToo(t, T)'
  PROVE  Follows(t)
BY DEF BufTypeOK, Follows, HasAll, HasAllToo, Held, Bit

LEMMA DroppedFollows ==
  ASSUME BufTypeOK, NEW t \in BufTask, NEW b \in Buf, refcnt' = Dropped(b), NEW T,
         HasAll(t, {b}), HasAll(t, {})', HasAllToo(t, T), HasAllToo(t, T)'
  PROVE  Follows(t)
BY DEF BufTypeOK, Follows, HasAll, HasAllToo, Dropped, Bit

LEMMA DroppedTooFollows ==
  ASSUME BufTypeOK, NEW t \in BufTask, NEW b \in Buf, refcnt' = Dropped(b), NEW S, NEW T, b \notin T,
         HasAll(t, S), HasAll(t, S)', HasAllToo(t, T \cup {b}), HasAllToo(t, T)'
  PROVE  Follows(t)
BY DEF BufTypeOK, Follows, HasAll, HasAllToo, Dropped, Bit

LEMMA WritebFollows ==
  ASSUME BufTypeOK, NEW t \in BufTask, NEW b \in Buf, NEW T,
         refcnt' = [e \in Buf |-> refcnt[e] + (IF e = b THEN 1 ELSE 0) + (IF e \in T THEN 1 ELSE 0)],
         HasAll(t, {}), HasAll(t, {b})', HasAllToo(t, {}), HasAllToo(t, T)'
  PROVE  Follows(t)
BY DEF BufTypeOK, Follows, HasAll, HasAllToo, Bit

LEMMA TypedCounts ==
  ASSUME BufTypeOK
  PROVE  /\ \A b \in Buf : Dropped(b) \in [Buf -> Int]
         /\ \A S : Held(S) \in [Buf -> Int]
         /\ \A b, T : [e \in Buf |-> refcnt[e] + (IF e = b THEN 1 ELSE 0) + (IF e \in T THEN 1 ELSE 0)]
                        \in [Buf -> Int]
BY DEF BufTypeOK, Dropped, Held

\* What a task has where it has no cluster.
LEMMA NoCluster ==
  ASSUME NEW t \in BufTask, call[t].cluster = << >>
  PROVE  HasAllToo(t, {})
BY DEF HasAllToo, HasToo, Contains

----------------------------------------------------------------------------
(* The steps. *)

\* A task outside the cache has nothing there.
LEMMA AtRest ==
  ASSUME NEW t \in BufTask, tpc'[t] = "out", call'[t] = Rest
  PROVE  BufTaskOK(t)' /\ HasAll(t, {})' /\ HasAllToo(t, {})'
BY DEF Rest, BufTaskOK, NoBuffer, Mine, Writes, HasAll, HasAllToo, Has, HasToo, Contains, IsInjective

LEMMA RestTyped == Rest \in BufCallRec
BY DEF Rest, BufCallRec

\* A call of which some fields change is a call; the others stay.
FieldsOf(c, d) == d.bno = c.bno /\ d.buf = c.buf /\ d.cluster = c.cluster /\ d.op = c.op
LEMMA CallPos ==
  ASSUME NEW c \in BufCallRec, NEW p \in Nat \ {0}
  PROVE  [c EXCEPT !.pos = p] \in BufCallRec /\ FieldsOf(c, [c EXCEPT !.pos = p])
BY DEF BufCallRec, FieldsOf
LEMMA CallCand ==
  ASSUME NEW c \in BufCallRec, NEW k \in Nat
  PROVE  [c EXCEPT !.cand = k] \in BufCallRec /\ FieldsOf(c, [c EXCEPT !.cand = k])
BY DEF BufCallRec, FieldsOf
LEMMA CallLeft ==
  ASSUME NEW c \in BufCallRec, NEW L \in SUBSET Buf
  PROVE  [c EXCEPT !.left = L] \in BufCallRec /\ FieldsOf(c, [c EXCEPT !.left = L])
BY DEF BufCallRec, FieldsOf
LEMMA CallTodo ==
  ASSUME NEW c \in BufCallRec, NEW q \in Seq(Buf)
  PROVE  [c EXCEPT !.todo = q] \in BufCallRec /\ FieldsOf(c, [c EXCEPT !.todo = q])
BY DEF BufCallRec, FieldsOf
LEMMA CallBuf ==
  ASSUME NEW c \in BufCallRec, NEW B \in SUBSET Buf
  PROVE  /\ [c EXCEPT !.buf = B] \in BufCallRec
         /\ [c EXCEPT !.buf = B].bno = c.bno /\ [c EXCEPT !.buf = B].buf = B
         /\ [c EXCEPT !.buf = B].cluster = c.cluster
BY DEF BufCallRec
LEMMA CallCluster ==
  ASSUME NEW c \in BufCallRec, NEW q \in Seq(Buf)
  PROVE  /\ [c EXCEPT !.cluster = q] \in BufCallRec
         /\ [c EXCEPT !.cluster = q].bno = c.bno /\ [c EXCEPT !.cluster = q].buf = c.buf
         /\ [c EXCEPT !.cluster = q].cluster = q
BY DEF BufCallRec

LEMMA EnterStep ==
  ASSUME BufInv, NEW t \in BufTask, NEW n \in Block, NEW op \in {"read", "ahead", "get", "sync"},
         Enter(t, op, n)
  PROVE  BufInv'
<1>1. /\ BufTypeOK /\ BufTaskOK(t) /\ curr = Nobody /\ tpc[t] = "out" /\ curr' = t
      /\ UNCHANGED cache
  BY DEF BufInv, BufTasksOK, Enter
<1>2. UNCHANGED <<blk, bstate, refcnt, freeq, io, data, disk, last, excused>>
  BY <1>1 DEF cache
<1>3. PICK c \in BufCallRec : /\ BufCall(t, c) /\ c.bno = n /\ c.buf = {} /\ c.cluster = << >>
  <2>1. PICK L \in SUBSET Buf : L = IF op = "sync" THEN Buf ELSE {}
    OBVIOUS
  <2>2. PICK k \in Nat : k = CANDIDATES
    BY BufAssumption
  <2>3. PICK r \in BufCallRec : r = Rest /\ r.buf = {} /\ r.cluster = << >>
    BY RestTyped DEF Rest
  <2> DEFINE c == [r EXCEPT !.op = op, !.bno = n, !.cand = k, !.left = L]
  <2>4. c \in BufCallRec /\ c.bno = n /\ c.buf = {} /\ c.cluster = << >>
    <3>1. c \in BufCallRec /\ c.bno = n /\ c.buf = r.buf /\ c.cluster = r.cluster
      BY DEF BufCallRec
    <3> HIDE DEF c
    <3> QED BY <2>3, <3>1
  <2>5. BufCall(t, c)
    BY <2>1, <2>2, <2>3 DEF Enter
  <2> QED BY <2>4, <2>5
<1>4. PICK l \in {"sync", "repeat"} : BufGoto(t, l)
  BY DEF Enter
<1>5. /\ call' \in [BufTask -> BufCallRec] /\ call'[t] = c
      /\ tpc' \in [BufTask -> BufPc] /\ tpc'[t] = l /\ BufFrame(t)
  BY <1>1, <1>3, <1>4, BufCallIs, BufGotoIs, l \in BufPc DEF BufFrame, BufPc
<1>6. BufTypeOK'
  BY <1>1, <1>2, <1>5 DEF BufTypeOK
<1>7. BufTaskOK(t)'
  BY <1>3, <1>4, <1>5 DEF BufTaskOK, NoBuffer, Mine, Writes, IsInjective
<1>8. HasAll(t, {}) /\ HasAll(t, {})' /\ HasAllToo(t, {}) /\ HasAllToo(t, {})'
  BY <1>1, <1>3, <1>4, <1>5 DEF BufTaskOK, NoBuffer, Writes, HasAll, HasAllToo, Has, HasToo, Contains
<1>9. Follows(t)
  BY <1>1, <1>2, <1>8, SameFollows
<1>10. BlocksOK'
  BY <1>2, StillBlocks DEF BufInv, Still, contents
<1> QED BY <1>1, <1>2, <1>5, <1>6, <1>7, <1>9, <1>10, StepKeeps

LEMMA RepeatStep ==
  ASSUME BufInv, NEW t \in BufTask, Repeat(t)
  PROVE  BufInv'
<1>1. /\ BufTypeOK /\ BufTaskOK(t) /\ curr = t /\ tpc[t] = "repeat" /\ curr' = t
      /\ UNCHANGED <<blk, bstate, freeq, io, data, disk, last, excused>>
  BY DEF BufInv, BufTasksOK, Repeat, Runs, contents
<1>2. /\ call[t].bno \in Block /\ call[t].buf = {} /\ call[t].cluster = << >>
  BY <1>1 DEF BufTaskOK, NoBuffer, Writes
<1>3. PICK c \in BufCallRec : c = call[t]
  BY <1>1 DEF BufTypeOK
<1>4. BlocksOK'
  BY <1>1, StillBlocks DEF BufInv, Still, contents
<1>5. HasAll(t, {}) /\ HasAllToo(t, {})
  BY <1>2 DEF HasAll, HasAllToo, Has, HasToo, Contains
<1>6. CASE Findb(c.bno) # {}
  <2>1. PICK b \in Buf : Findb(c.bno) = {b} /\ blk[b] = c.bno
    BY <1>2, <1>3, <1>6 DEF BufInv, OneBuffer, Findb
  <2>2. refcnt' = Held({b}) /\ BufCall(t, [c EXCEPT !.buf = {b}]) /\ BufGoto(t, "hit")
    BY <1>3, <1>6, <2>1 DEF Repeat
  <2>3. PICK d \in BufCallRec : /\ d = [c EXCEPT !.buf = {b}]
                                /\ d.bno = c.bno /\ d.buf = {b} /\ d.cluster = c.cluster
    BY CallBuf
  <2>4. /\ call' \in [BufTask -> BufCallRec] /\ call'[t] = d
        /\ tpc' \in [BufTask -> BufPc] /\ tpc'[t] = "hit" /\ BufFrame(t)
    BY <1>1, <2>2, <2>3, BufCallIs, BufGotoIs, "hit" \in BufPc DEF BufFrame, BufPc
  <2>5. BufTypeOK'
    BY <1>1, <2>2, <2>4, TypedCounts DEF BufTypeOK
  <2>6. BufTaskOK(t)'
    BY <1>1, <1>2, <1>3, <2>1, <2>3, <2>4 DEF BufTaskOK, NoBuffer, Mine, Writes, IsInjective
  <2>7. HasAll(t, {b})' /\ HasAllToo(t, {})'
    BY <1>2, <1>3, <2>3, <2>4 DEF HasAll, HasAllToo, Has, HasToo, Contains
  <2>8. Follows(t)
    BY <1>1, <1>5, <2>2, <2>7, HeldFollows
  <2> QED BY <1>1, <1>4, <2>4, <2>5, <2>6, <2>8, StepKeeps
<1>7. CASE Findb(c.bno) = {}
  <2>2. refcnt' = refcnt /\ BufCall(t, [c EXCEPT !.pos = 1]) /\ BufGoto(t, "scan")
    BY <1>3, <1>7 DEF Repeat
  <2>3. PICK d \in BufCallRec : /\ d = [c EXCEPT !.pos = 1]
                                /\ d.bno = c.bno /\ d.buf = c.buf /\ d.cluster = c.cluster
    BY CallPos, 1 \in Nat \ {0} DEF FieldsOf
  <2>4. /\ call' \in [BufTask -> BufCallRec] /\ call'[t] = d
        /\ tpc' \in [BufTask -> BufPc] /\ tpc'[t] = "scan" /\ BufFrame(t)
    BY <1>1, <2>2, <2>3, BufCallIs, BufGotoIs, "scan" \in BufPc DEF BufFrame, BufPc
  <2>5. BufTypeOK'
    BY <1>1, <2>2, <2>4 DEF BufTypeOK
  <2>6. Findb(c.bno)' = {}
    BY <1>1, <1>7, <2>3, <2>4 DEF Findb
  <2>7. BufTaskOK(t)'
    BY <1>1, <1>2, <1>3, <1>7, <2>3, <2>4, <2>6 DEF BufTaskOK, NoBuffer, Mine, Writes, IsInjective, Findb
  <2>8. HasAll(t, {})' /\ HasAllToo(t, {})'
    BY <1>2, <1>3, <2>3, <2>4 DEF HasAll, HasAllToo, Has, HasToo, Contains
  <2>9. Follows(t)
    BY <1>1, <1>5, <2>2, <2>8, SameFollows
  <2> QED BY <1>1, <1>4, <2>4, <2>5, <2>7, <2>9, StepKeeps
<1> QED BY <1>6, <1>7

LEMMA HitStep ==
  ASSUME BufInv, NEW t \in BufTask, BufHit(t)
  PROVE  BufInv'
<1>1. /\ BufTypeOK /\ BufTaskOK(t) /\ tpc[t] = "hit" /\ curr \in {t, Nobody} /\ curr' \in {t, Nobody}
      /\ UNCHANGED <<blk, bstate, refcnt, io, data, disk, last, excused, call>>
      /\ (UNCHANGED <<tpc, freeq>>) \/ (BufGoto(t, "got") /\ freeq' = Unlinked(Buffer(t)))
  BY DEF BufInv, BufTasksOK, BufHit, contents
<1>2. PICK b \in Buf : call[t].buf = {b}
  BY <1>1 DEF BufTaskOK, NoBuffer
<1>3. freeq' \in Seq(Buf)
  BY <1>1, UnlinkedSeq DEF BufTypeOK
<1>4. tpc' \in [BufTask -> BufPc] /\ tpc'[t] \in {"hit", "got"} /\ BufFrame(t)
  BY <1>1, BufGotoIs, "got" \in BufPc DEF BufFrame, BufPc, BufTypeOK
<1>5. BufTypeOK'
  BY <1>1, <1>3, <1>4 DEF BufTypeOK
<1>6. BufTaskOK(t)'
  BY <1>1, <1>2, <1>4 DEF BufTaskOK, NoBuffer, Mine, Writes
<1>7. HasAll(t, {b}) /\ HasAll(t, {b})' /\ HasAllToo(t, {}) /\ HasAllToo(t, {})'
  BY <1>1, <1>2, <1>4 DEF BufTaskOK, Writes, HasAll, HasAllToo, Has, HasToo, Contains
<1>8. Follows(t)
  BY <1>1, <1>7, SameFollows
<1>9. BlocksOK'
  BY <1>1, StillBlocks DEF BufInv, Still, contents
<1> QED BY <1>1, <1>4, <1>5, <1>6, <1>8, <1>9, StepKeeps

\* Task t goes to l, and its call becomes d.
BufMoves(t, l, d) ==
  /\ BufGoto(t, l) \/ (tpc' = tpc /\ tpc[t] = l)
  /\ BufCall(t, d) \/ (call' = call /\ call[t] = d)

LEMMA BufMovesIs ==
  ASSUME BufTypeOK, NEW t \in BufTask, NEW l \in BufPc, NEW d \in BufCallRec, BufMoves(t, l, d)
  PROVE  /\ call' \in [BufTask -> BufCallRec] /\ call'[t] = d
         /\ tpc' \in [BufTask -> BufPc] /\ tpc'[t] = l /\ BufFrame(t)
<1>1. call' \in [BufTask -> BufCallRec] /\ call'[t] = d /\ \A u \in BufTask \ {t} : call'[u] = call[u]
  BY BufCallIs DEF BufMoves, BufTypeOK
<1>2. tpc' \in [BufTask -> BufPc] /\ tpc'[t] = l /\ \A u \in BufTask \ {t} : tpc'[u] = tpc[u]
  BY BufGotoIs DEF BufMoves, BufTypeOK
<1> QED BY <1>1, <1>2 DEF BufFrame

\* A step that leaves the contents alone.
LEMMA StillStep ==
  ASSUME BufInv, NEW t \in BufTask, NEW l \in BufPc, NEW d \in BufCallRec, BufMoves(t, l, d), Still,
         curr \in {t, Nobody}, curr' \in {t, Nobody}, freeq' \in Seq(Buf), refcnt' \in [Buf -> Int],
         BufTaskOK(t)', Follows(t)
  PROVE  BufInv'
<1>1. BufTypeOK /\ BlocksOK
  BY DEF BufInv
<1>2. /\ call' \in [BufTask -> BufCallRec] /\ call'[t] = d
      /\ tpc' \in [BufTask -> BufPc] /\ tpc'[t] = l /\ BufFrame(t)
  BY <1>1, BufMovesIs
<1>3. blk' = blk /\ bstate' = bstate /\ io' = io /\ data' = data /\ disk' = disk /\ last' = last
  BY DEF Still, contents
<1>4. BufTypeOK'
  BY <1>1, <1>2, <1>3 DEF BufTypeOK
<1> QED BY <1>1, <1>2, <1>3, <1>4, StillBlocks, StepKeeps

\* The same where the counts stay, too.
LEMMA QuietStep ==
  ASSUME BufInv, NEW t \in BufTask, NEW l \in BufPc, NEW d \in BufCallRec, BufMoves(t, l, d), Still,
         curr \in {t, Nobody}, curr' \in {t, Nobody}, freeq' \in Seq(Buf), refcnt' = refcnt,
         BufTaskOK(t)', NEW S, NEW T, HasAll(t, S), HasAll(t, S)', HasAllToo(t, T), HasAllToo(t, T)'
  PROVE  BufInv'
<1>1. BufTypeOK /\ refcnt' \in [Buf -> Int]
  BY DEF BufInv, BufTypeOK
<1>2. Follows(t)
  BY <1>1, SameFollows
<1> QED BY <1>1, <1>2, StillStep

\* writeb holds core and the cluster around it.
LEMMA WritebStep ==
  ASSUME BufInv, NEW t \in BufTask, NEW b \in Buf, NEW c \in BufCallRec, Still,
         tpc[t] \in NoBuffer, tpc[t] # "out", c.bno = call[t].bno,
         curr \in {t, Nobody}, curr' = t, freeq' = freeq, Writeb(t, b, c), BufGoto(t, "submit")
  PROVE  BufInv'
<1>1. BufTypeOK /\ BufTaskOK(t)
  BY DEF BufInv, BufTasksOK
<1>2. PICK q \in Seq(Buf) : q = Cluster(b) /\ IsInjective(q)
  BY <1>1, ClusterIs
<1>3. PICK d \in BufCallRec : /\ d = [c EXCEPT !.buf = {b}, !.cluster = q, !.todo = q]
                              /\ d.bno = c.bno /\ d.buf = {b} /\ d.cluster = q
  <2> DEFINE d == [c EXCEPT !.buf = {b}, !.cluster = q, !.todo = q]
  <2>1. d \in BufCallRec /\ d.bno = c.bno /\ d.buf = {b} /\ d.cluster = q
    BY DEF BufCallRec
  <2> QED BY <2>1
<1>4. BufMoves(t, "submit", d) /\ "submit" \in BufPc
  BY <1>2, <1>3 DEF Writeb, BufMoves, BufPc
<1>5. call'[t] = d /\ tpc'[t] = "submit"
  BY <1>1, <1>4, BufMovesIs
<1>6. refcnt' = [e \in Buf |-> refcnt[e] + (IF e = b THEN 1 ELSE 0) + (IF e \in {x \in Buf : Contains(q, x)} THEN 1 ELSE 0)]
  BY <1>2 DEF Writeb
<1>7. PICK T : T = {x \in Buf : Contains(q, x)}
  OBVIOUS
<1>8. HasAll(t, {}) /\ HasAllToo(t, {})
  BY <1>1 DEF BufTaskOK, NoBuffer, Writes, HasAll, HasAllToo, Has, HasToo, Contains
<1>9. HasAll(t, {b})' /\ HasAllToo(t, T)'
  BY <1>3, <1>5, <1>7 DEF HasAll, HasAllToo, Has, HasToo
<1>10. Follows(t)
  BY <1>1, <1>6, <1>7, <1>8, <1>9, WritebFollows
<1>11. refcnt' \in [Buf -> Int]
  BY <1>1, <1>6 DEF BufTypeOK
<1>12. BufTaskOK(t)'
  BY <1>1, <1>2, <1>3, <1>5 DEF BufTaskOK, NoBuffer, Mine, Writes
<1>13. freeq' \in Seq(Buf)
  BY <1>1 DEF BufTypeOK
<1> QED BY <1>4, <1>10, <1>11, <1>12, <1>13, StillStep

\* A task that scans has nothing.
LEMMA Scanning ==
  ASSUME BufInv, NEW t \in BufTask, tpc[t] = "scan"
  PROVE  /\ curr = t /\ Findb(call[t].bno) = {} /\ call[t].bno \in Block
         /\ call[t].buf = {} /\ call[t].cluster = << >>
         /\ HasAll(t, {}) /\ HasAllToo(t, {})
BY DEF BufInv, BufTasksOK, BufTaskOK, NoBuffer, Writes, HasAll, HasAllToo, Has, HasToo, Contains

\* The scan goes on.
LEMMA ScanOn ==
  ASSUME BufInv, NEW t \in BufTask, tpc[t] = "scan", NEW d \in BufCallRec, FieldsOf(call[t], d),
         BufCall(t, d), UNCHANGED <<cache, curr, tpc>>
  PROVE  BufInv'
<1>1. BufTypeOK
  BY DEF BufInv
<1>2. Still /\ freeq' = freeq /\ refcnt' = refcnt /\ curr' = curr /\ tpc' = tpc /\ blk' = blk
  BY DEF Still, cache, contents
<1>3. BufMoves(t, "scan", d) /\ "scan" \in BufPc
  BY <1>2 DEF BufMoves, BufPc
<1>4. call'[t] = d /\ tpc'[t] = "scan"
  BY <1>1, <1>3, BufMovesIs
<1>5. d.bno = call[t].bno /\ d.buf = call[t].buf /\ d.cluster = call[t].cluster
  BY DEF FieldsOf
<1>6. Findb(call[t].bno) = {} /\ curr = t /\ call[t].bno \in Block /\ call[t].buf = {} /\ call[t].cluster = << >>
      /\ HasAll(t, {}) /\ HasAllToo(t, {})
  BY Scanning
<1>7. HasAll(t, {})' /\ HasAllToo(t, {})'
  BY <1>4, <1>5, <1>6 DEF HasAll, HasAllToo, Has, HasToo, Contains
<1>8. BufTaskOK(t)'
  BY <1>2, <1>4, <1>5, <1>6 DEF BufTaskOK, NoBuffer, Mine, Writes, IsInjective, Findb
<1>9. freeq' \in Seq(Buf)
  BY <1>1, <1>2 DEF BufTypeOK
<1> QED BY <1>2, <1>3, <1>6, <1>7, <1>8, <1>9, QuietStep

\* The scan gives a buffer that nobody has, and that is clean, to the block.
LEMMA TakeStep ==
  ASSUME BufInv, NEW t \in BufTask, tpc[t] = "scan", NEW b \in Buf, ~InUse(b), ~Locked(b),
         bstate[b] # "BDIRTY", TakeBuf(t, b), UNCHANGED <<io, contents>>
  PROVE  BufInv'
<1>1. BufTypeOK /\ BlocksOK /\ BufCounts /\ OneBuffer
  BY DEF BufInv
<1>2. /\ curr = t /\ Findb(call[t].bno) = {} /\ call[t].bno \in Block /\ call[t].buf = {}
      /\ call[t].cluster = << >> /\ HasAll(t, {}) /\ HasAllToo(t, {})
  BY Scanning
<1>3. PICK c \in BufCallRec : c = call[t]
  BY <1>1 DEF BufTypeOK
<1>4. PICK n \in Block : n = call[t].bno
  BY <1>2
<1>5. /\ refcnt' = Held({b}) /\ freeq' = Unlinked(b) /\ bstate' = [bstate EXCEPT ![b] = "BINVAL"]
      /\ blk' = [blk EXCEPT ![b] = n] /\ BufCall(t, [c EXCEPT !.buf = {b}])
      /\ BufGoto(t, "got") /\ curr' = curr
      /\ io' = io /\ data' = data /\ disk' = disk /\ last' = last /\ excused' = excused
  BY <1>3, <1>4 DEF TakeBuf, contents
<1>6. PICK d \in BufCallRec : /\ d = [c EXCEPT !.buf = {b}]
                              /\ d.bno = c.bno /\ d.buf = {b} /\ d.cluster = c.cluster
  BY CallBuf
<1>7. BufMoves(t, "got", d) /\ "got" \in BufPc
  BY <1>5, <1>6 DEF BufMoves, BufPc
<1>8. /\ call' \in [BufTask -> BufCallRec] /\ call'[t] = d
      /\ tpc' \in [BufTask -> BufPc] /\ tpc'[t] = "got" /\ BufFrame(t)
  BY <1>1, <1>7, BufMovesIs
<1>9. /\ blk' \in [Buf -> Block \cup {NoBlock}] /\ blk'[b] = n
      /\ \A x \in Buf \ {b} : blk'[x] = blk[x] /\ blk[x] # n
  BY <1>1, <1>2, <1>4, <1>5 DEF BufTypeOK, Findb
<1>10. /\ bstate' \in [Buf -> {"BINVAL", "BCLEAN", "BDIRTY"}] /\ bstate'[b] = "BINVAL"
       /\ \A x \in Buf \ {b} : bstate'[x] = bstate[x]
  BY <1>1, <1>5 DEF BufTypeOK
<1>11. BufTypeOK'
  <2>1. freeq' \in Seq(Buf) /\ refcnt' \in [Buf -> Int]
    BY <1>1, <1>5, UnlinkedSeq, TypedCounts DEF BufTypeOK
  <2> QED BY <1>1, <1>5, <1>8, <1>9, <1>10, <2>1 DEF BufTypeOK
<1>12. HasAll(t, {b})' /\ HasAllToo(t, {})'
  BY <1>2, <1>3, <1>6, <1>8 DEF HasAll, HasAllToo, Has, HasToo, Contains
<1>13. BufCounts'
  BY <1>1, <1>2, <1>5, <1>8, <1>12, HeldFollows, CountsFollow
<1>14. BufTaskOK(t)'
  BY <1>2, <1>3, <1>4, <1>6, <1>8, <1>9 DEF BufTaskOK, NoBuffer, Mine, Writes, IsInjective
<1>15. ASSUME NEW u \in BufTask \ {t} PROVE BufTaskOK(u)'
  <2>1. tpc'[u] = tpc[u] /\ call'[u] = call[u] /\ BufTaskOK(u)
    BY <1>8 DEF BufFrame, BufInv, BufTasksOK
  <2>2. tpc[u] # "scan"
    BY <1>2, <2>1 DEF BufTaskOK
  <2>3. tpc[u] \in Mine => b \notin call[u].buf
    BY <1>1, HeldIsInUse DEF InUse, Has, Mine
  <2>4. tpc[u] \in Mine => call[u].buf \in SUBSET Buf
    BY <1>1 DEF BufTypeOK, BufCallRec
  <2>5. tpc[u] \in Mine => \A x \in call[u].buf : blk'[x] = call[u].bno
    BY <1>9, <2>1, <2>3, <2>4 DEF BufTaskOK
  <2> QED BY <2>1, <2>2, <2>5 DEF BufTaskOK
<1>16. OneBuffer'
  <2> SUFFICES ASSUME NEW x \in Buf, NEW y \in Buf, blk'[x] = blk'[y], blk'[x] \in Block
               PROVE  x = y
    BY DEF OneBuffer
  <2> QED BY <1>1, <1>9 DEF OneBuffer
<1>17. BlocksOK'
  <2> SUFFICES ASSUME NEW m \in Block \ excused PROVE BlockOK(m)'
    BY <1>5 DEF BlocksOK
  <2>1. BlockOK(m)
    BY <1>1 DEF BlocksOK
  <2>2. CASE m = n
    <3>1. Findb(m)' = {b}
      BY <1>9, <2>2 DEF Findb
    <3>2. disk[m] = last[m]
      BY <1>2, <1>4, <2>1, <2>2 DEF BlockOK
    <3> QED BY <1>5, <1>10, <3>1, <3>2 DEF BlockOK, Locked
  <2>3. CASE m # n
    <3>1. Findb(m)' = Findb(m) \ {b}
      BY <1>9, <2>3 DEF Findb
    <3>2. \A x \in Findb(m)' : x \in Findb(m) /\ x \in Buf \ {b}
      BY <3>1 DEF Findb
    <3>3. (\A x \in Findb(m)' : bstate'[x] # "BDIRTY") => disk[m] = last[m]
      BY <1>10, <2>1, <3>1, <3>2 DEF BlockOK
    <3> QED BY <1>5, <1>10, <2>1, <3>2, <3>3 DEF BlockOK
  <2> QED BY <2>2, <2>3
<1> QED BY <1>11, <1>13, <1>14, <1>15, <1>16, <1>17 DEF BufInv, BufTasksOK

LEMMA ScanStep ==
  ASSUME BufInv, NEW t \in BufTask, Scan(t)
  PROVE  BufInv'
<1>1. BufTypeOK /\ tpc[t] = "scan"
  BY DEF BufInv, Scan, Runs
<1>2. /\ curr = t /\ Findb(call[t].bno) = {} /\ call[t].bno \in Block /\ call[t].buf = {}
      /\ call[t].cluster = << >> /\ HasAll(t, {}) /\ HasAllToo(t, {})
  BY <1>1, Scanning
<1>3. PICK c \in BufCallRec : c = call[t]
  BY <1>1 DEF BufTypeOK
<1>4. PICK at \in Nat \ {0} : at = c.pos
  BY DEF BufCallRec
<1>5. PICK k \in Nat : k = IF c.cand > 0 THEN c.cand - 1 ELSE 0
  <2>1. c.cand \in Nat
    BY DEF BufCallRec
  <2> QED BY <2>1
<1>6. PICK next \in BufCallRec : next = [c EXCEPT !.pos = at + 1] /\ FieldsOf(c, next)
  <2>1. at + 1 \in Nat \ {0}
    OBVIOUS
  <2> QED BY <2>1, CallPos
<1>7. PICK e \in BufCallRec : e = [next EXCEPT !.cand = k] /\ FieldsOf(c, e)
  <2>1. PICK e \in BufCallRec : e = [next EXCEPT !.cand = k] /\ FieldsOf(next, e)
    BY CallCand
  <2> QED BY <1>6, <2>1 DEF FieldsOf
<1>8. CASE at > Len(freeq)
  <2>1. BufGoto(t, "panic") /\ UNCHANGED <<cache, curr, call>>
    BY <1>3, <1>4, <1>8 DEF Scan
  <2>2. /\ Still /\ freeq' = freeq /\ refcnt' = refcnt /\ curr' = curr /\ blk' = blk
    BY <2>1 DEF Still, cache, contents
  <2>3. BufMoves(t, "panic", c) /\ "panic" \in BufPc
    BY <1>3, <2>1 DEF BufMoves, BufPc
  <2>4. call'[t] = c /\ tpc'[t] = "panic"
    BY <1>1, <2>3, BufMovesIs
  <2>5. HasAll(t, {})' /\ HasAllToo(t, {})'
    BY <1>2, <1>3, <2>4 DEF HasAll, HasAllToo, Has, HasToo, Contains
  <2>6. BufTaskOK(t)'
    BY <1>2, <1>3, <2>4 DEF BufTaskOK, NoBuffer, Mine, Writes, IsInjective
  <2>7. freeq' \in Seq(Buf)
    BY <1>1, <2>2 DEF BufTypeOK
  <2> QED BY <1>2, <2>2, <2>3, <2>5, <2>6, <2>7, QuietStep
<1>9. CASE ~(at > Len(freeq))
  <2>1. PICK b \in Buf : b = freeq[at]
    <3>1. freeq \in Seq(Buf)
      BY <1>1 DEF BufTypeOK
    <3> QED BY <1>9, <3>1
  <2>2. CASE InUse(b)
    <3>1. BufCall(t, next) /\ UNCHANGED <<cache, curr, tpc>>
      BY <1>3, <1>4, <1>6, <1>9, <2>1, <2>2 DEF Scan
    <3> QED BY <1>1, <1>3, <1>6, <3>1, ScanOn
  <2>3. CASE ~InUse(b) /\ Locked(b) /\ k > 0
    <3>1. BufCall(t, e) /\ UNCHANGED <<cache, curr, tpc>>
      BY <1>3, <1>4, <1>5, <1>6, <1>7, <1>9, <2>1, <2>3 DEF Scan
    <3> QED BY <1>1, <1>3, <1>7, <3>1, ScanOn
  <2>4. CASE ~InUse(b) /\ Locked(b) /\ ~(k > 0)
    <3>1. /\ BufCall(t, [next EXCEPT !.cand = k, !.buf = {b}])
          /\ BufGoto(t, "waitany") /\ curr' = Nobody /\ UNCHANGED cache
      BY <1>3, <1>4, <1>5, <1>6, <1>9, <2>1, <2>4 DEF Scan
    <3> DEFINE f == [next EXCEPT !.cand = k, !.buf = {b}]
    <3>2. f \in BufCallRec /\ f.bno = next.bno /\ f.buf = {b} /\ f.cluster = next.cluster
      BY DEF BufCallRec
    <3>3. BufCall(t, f)
      BY <3>1
    <3> HIDE DEF f
    <3>4. f.bno = call[t].bno /\ f.cluster = << >>
      BY <1>2, <1>3, <1>6, <3>2 DEF FieldsOf
    <3>5. /\ Still /\ freeq' = freeq /\ refcnt' = refcnt /\ blk' = blk
      BY <3>1 DEF Still, cache, contents
    <3>6. BufMoves(t, "waitany", f) /\ "waitany" \in BufPc
      BY <3>1, <3>3 DEF BufMoves, BufPc
    <3>7. call'[t] = f /\ tpc'[t] = "waitany"
      BY <1>1, <3>2, <3>6, BufMovesIs
    <3>8. HasAll(t, {})' /\ HasAllToo(t, {})'
      BY <3>4, <3>7 DEF HasAll, HasAllToo, Has, HasToo, Contains
    <3>9. BufTaskOK(t)'
      BY <1>2, <3>2, <3>4, <3>7 DEF BufTaskOK, NoBuffer, Mine, Writes, IsInjective
    <3>10. freeq' \in Seq(Buf)
      BY <1>1, <3>5 DEF BufTypeOK
    <3> QED BY <1>2, <3>1, <3>2, <3>5, <3>6, <3>8, <3>9, <3>10, QuietStep
  <2>5. CASE ~InUse(b) /\ ~Locked(b) /\ bstate[b] = "BDIRTY"
    <3>1. PICK f \in BufCallRec : f = [c EXCEPT !.cand = k] /\ FieldsOf(c, f)
      BY CallCand
    <3>2. /\ Writeb(t, b, f) /\ BufGoto(t, "submit")
          /\ UNCHANGED <<blk, bstate, freeq, io, contents, curr>>
      BY <1>3, <1>4, <1>5, <1>9, <2>1, <2>5, <3>1 DEF Scan
    <3>3. Still /\ freeq' = freeq /\ curr' = t
      BY <1>2, <3>2 DEF Still
    <3> QED BY <1>1, <1>2, <1>3, <3>1, <3>2, <3>3, WritebStep DEF NoBuffer, FieldsOf
  <2>6. CASE ~InUse(b) /\ ~Locked(b) /\ bstate[b] # "BDIRTY"
    <3>1. TakeBuf(t, b) /\ UNCHANGED <<io, contents>>
      BY <1>3, <1>4, <1>9, <2>1, <2>6 DEF Scan
    <3> QED BY <1>1, <2>6, <3>1, TakeStep
  <2> QED BY <2>2, <2>3, <2>4, <2>5, <2>6
<1> QED BY <1>8, <1>9

LEMMA AgainStep ==
  ASSUME BufInv, NEW t \in BufTask, Again(t)
  PROVE  BufInv'
<1>1. /\ BufTypeOK /\ BufTaskOK(t) /\ curr = Nobody /\ tpc[t] = "waitany" /\ curr' = t
      /\ UNCHANGED cache
  BY DEF BufInv, BufTasksOK, Again
<1>2. call[t].bno \in Block /\ call[t].cluster = << >>
  BY <1>1 DEF BufTaskOK, Writes
<1>3. PICK c \in BufCallRec : c = call[t]
  BY <1>1 DEF BufTypeOK
<1>4. PICK d \in BufCallRec : /\ d = [c EXCEPT !.buf = {}]
                              /\ d.bno = c.bno /\ d.buf = {} /\ d.cluster = c.cluster
  BY CallBuf
<1>5. BufMoves(t, "repeat", d) /\ "repeat" \in BufPc
  BY <1>3, <1>4 DEF Again, AfterSleep, BufMoves, BufPc
<1>6. call'[t] = d /\ tpc'[t] = "repeat"
  BY <1>1, <1>5, BufMovesIs
<1>7. Still /\ freeq' = freeq /\ refcnt' = refcnt /\ blk' = blk
  BY <1>1 DEF Still, cache, contents
<1>8. HasAll(t, {}) /\ HasAllToo(t, {}) /\ HasAll(t, {})' /\ HasAllToo(t, {})'
  BY <1>1, <1>2, <1>3, <1>4, <1>6 DEF HasAll, HasAllToo, Has, HasToo, Contains
<1>9. BufTaskOK(t)'
  BY <1>2, <1>3, <1>4, <1>6 DEF BufTaskOK, NoBuffer, Mine, Writes, IsInjective
<1>10. freeq' \in Seq(Buf)
  BY <1>1, <1>7 DEF BufTypeOK
<1> QED BY <1>1, <1>5, <1>7, <1>8, <1>9, <1>10, QuietStep

\* A buffer that is handed to the device keeps its contents.
LEMMA SubmitBlocks ==
  ASSUME BufTypeOK, BlocksOK, NEW b \in Buf, NEW cmd \in {"BREAD", "BWRITE"}, Dev!Submit(b, cmd),
         UNCHANGED <<blk, contents>>
  PROVE  BlocksOK' /\ io' \in [Buf -> {"free", "BREAD", "BWRITE"}] /\ bstate' = bstate
<1>1. /\ blk' = blk /\ data' = data /\ disk' = disk /\ last' = last /\ excused' = excused
      /\ bstate' = bstate /\ io' = [io EXCEPT ![b] = cmd]
      /\ bstate[b] = IF cmd = "BREAD" THEN "BINVAL" ELSE "BDIRTY"
  BY DEF Dev!Submit, contents
<1>2. io' \in [Buf -> {"free", "BREAD", "BWRITE"}] /\ io'[b] = cmd /\ \A x \in Buf \ {b} : io'[x] = io[x]
  BY <1>1 DEF BufTypeOK
<1>3. \A n : Findb(n)' = Findb(n) /\ Findb(n) \subseteq Buf
  BY <1>1 DEF Findb
<1>4. BlocksOK'
  BY <1>1, <1>2, <1>3 DEF BlocksOK, BlockOK
<1> QED BY <1>1, <1>2, <1>4

\* The head of a sequence without repetition is not in its tail.
LEMMA HeadApart ==
  ASSUME NEW q \in Seq(Buf), q # << >>, IsInjective(q)
  PROVE  /\ Head(q) \in Buf /\ Tail(q) \in Seq(Buf) /\ IsInjective(Tail(q))
         /\ ~Contains(Tail(q), Head(q))
         /\ \A x : Contains(q, x) <=> (x = Head(q) \/ Contains(Tail(q), x))
<1>1. PICK n \in Nat \ {0} : n = Len(q)
  OBVIOUS
<1>2. Head(q) = q[1] /\ Head(q) \in Buf /\ Tail(q) \in Seq(Buf)
  OBVIOUS
<1>3. DOMAIN q = 1 .. n
  BY <1>1
<1>4. DOMAIN Tail(q) = 1 .. n - 1 /\ \A i \in 1 .. n - 1 : Tail(q)[i] = q[i + 1]
  BY <1>1
<1>5. \A i, j \in 1 .. n : q[i] = q[j] => i = j
  BY <1>3 DEF IsInjective
<1>6. IsInjective(Tail(q))
  <2> SUFFICES ASSUME NEW i \in 1 .. n - 1, NEW j \in 1 .. n - 1, Tail(q)[i] = Tail(q)[j]
               PROVE  i = j
    BY <1>4 DEF IsInjective
  <2>1. i + 1 \in 1 .. n /\ j + 1 \in 1 .. n /\ q[i + 1] = q[j + 1]
    BY <1>4
  <2>2. i + 1 = j + 1
    BY <1>5, <2>1
  <2> QED BY <2>2
<1>7. \A i \in 1 .. n - 1 : i + 1 \in 1 .. n /\ i + 1 # 1
  OBVIOUS
<1>8. ~Contains(Tail(q), Head(q))
  BY <1>2, <1>4, <1>5, <1>7, 1 \in 1 .. n DEF Contains
<1>9. ASSUME NEW x PROVE Contains(q, x) <=> (x = Head(q) \/ Contains(Tail(q), x))
  <2>1. ASSUME NEW i \in 1 .. n, q[i] = x PROVE x = Head(q) \/ Contains(Tail(q), x)
    <3>1. CASE i = 1
      BY <1>2, <2>1, <3>1
    <3>2. CASE i # 1
      <4>1. i - 1 \in 1 .. n - 1 /\ (i - 1) + 1 = i
        BY <3>2
      <4> QED BY <1>4, <2>1, <4>1 DEF Contains
    <3> QED BY <3>1, <3>2
  <2>2. ASSUME NEW i \in 1 .. n - 1, Tail(q)[i] = x PROVE \E j \in 1 .. n : q[j] = x
    BY <1>4, <1>7, <2>2
  <2> QED BY <1>2, <1>3, <1>4, <2>1, <2>2, 1 \in 1 .. n DEF Contains
<1> QED BY <1>2, <1>6, <1>8, <1>9

\* Task t goes to l with the same buffer and the same cluster.
LEMMA KeepsHas ==
  ASSUME BufTypeOK, NEW t \in BufTask, NEW l \in BufPc, NEW d \in BufCallRec, BufMoves(t, l, d),
         FieldsOf(call[t], d), tpc[t] # "waitany", l # "waitany"
  PROVE  \E S, T : HasAll(t, S) /\ HasAll(t, S)' /\ HasAllToo(t, T) /\ HasAllToo(t, T)'
<1>1. call'[t] = d /\ tpc'[t] = l
  BY BufMovesIs
<1>2. d.buf = call[t].buf /\ d.cluster = call[t].cluster
  BY DEF FieldsOf
<1>3. PICK S : S = call[t].buf
  OBVIOUS
<1>4. PICK T : T = {x \in Buf : Contains(call[t].cluster, x)}
  OBVIOUS
<1>5. HasAll(t, S) /\ HasAll(t, S)'
  BY <1>1, <1>2, <1>3 DEF HasAll, Has
<1>6. HasAllToo(t, T) /\ HasAllToo(t, T)'
  BY <1>1, <1>2, <1>4 DEF HasAllToo, HasToo
<1> QED BY <1>5, <1>6

\* A step among the places with a cluster.
LEMMA WritingOn ==
  ASSUME BufInv, NEW t \in BufTask, tpc[t] \in Writes, NEW l \in Writes, NEW d \in BufCallRec,
         BufMoves(t, l, d), FieldsOf(call[t], d), curr \in {t, Nobody}, curr' \in {t, Nobody},
         UNCHANGED <<blk, refcnt, freeq, contents>>, BlocksOK',
         io' \in [Buf -> {"free", "BREAD", "BWRITE"}], bstate' = bstate
  PROVE  BufInv'
<1>1. BufTypeOK /\ BufTaskOK(t) /\ l \in BufPc /\ tpc[t] # "waitany" /\ l # "waitany"
  BY DEF BufInv, BufTasksOK, Writes, BufPc
<1>2. /\ call' \in [BufTask -> BufCallRec] /\ call'[t] = d
      /\ tpc' \in [BufTask -> BufPc] /\ tpc'[t] = l /\ BufFrame(t)
  BY <1>1, BufMovesIs
<1>3. blk' = blk /\ refcnt' = refcnt /\ freeq' = freeq /\ data' = data /\ disk' = disk /\ last' = last
  BY DEF contents
<1>4. BufTypeOK'
  BY <1>1, <1>2, <1>3 DEF BufTypeOK
<1>5. BufTaskOK(t)'
  BY <1>1, <1>2, <1>3 DEF BufTaskOK, NoBuffer, Mine, Writes, FieldsOf
<1>6. PICK S, T : HasAll(t, S) /\ HasAll(t, S)' /\ HasAllToo(t, T) /\ HasAllToo(t, T)'
  BY <1>1, KeepsHas
<1>7. Follows(t)
  BY <1>1, <1>3, <1>6, SameFollows
<1> QED BY <1>2, <1>3, <1>4, <1>5, <1>7, StepKeeps

LEMMA SubmitStep ==
  ASSUME BufInv, NEW t \in BufTask, Submit(t)
  PROVE  BufInv'
<1>1. BufTypeOK /\ BlocksOK /\ tpc[t] = "submit" /\ curr \in {t, Nobody}
  BY DEF BufInv, Submit
<1>2. PICK c \in BufCallRec : c = call[t]
  BY <1>1 DEF BufTypeOK
<1>3. c.todo \in Seq(Buf) /\ c.cluster \in Seq(Buf) /\ io \in [Buf -> {"free", "BREAD", "BWRITE"}]
  BY <1>1 DEF BufCallRec, BufTypeOK
<1>4. CASE c.todo = << >>
  <2>1. curr' = t /\ BufCall(t, [c EXCEPT !.todo = c.cluster]) /\ BufGoto(t, "written") /\ UNCHANGED cache
    BY <1>2, <1>4 DEF Submit
  <2>2. PICK d \in BufCallRec : d = [c EXCEPT !.todo = c.cluster] /\ FieldsOf(c, d)
    BY <1>3, CallTodo
  <2>3. BufMoves(t, "written", d) /\ "written" \in Writes /\ tpc[t] \in Writes
    BY <1>1, <2>1, <2>2 DEF BufMoves, Writes
  <2>4. Still /\ UNCHANGED <<blk, refcnt, freeq, contents>> /\ bstate' = bstate /\ io' = io
    BY <2>1 DEF Still, cache, contents
  <2> QED BY <1>1, <1>2, <1>3, <2>1, <2>2, <2>3, <2>4, StillBlocks, WritingOn
<1>5. CASE c.todo # << >>
  <2>1. PICK b \in Buf : b = Head(c.todo)
    BY <1>3, <1>5
  <2>2. UNCHANGED <<blk, refcnt, freeq, contents, tpc>>
    BY <1>2, <1>5 DEF Submit
  <2>3. CASE Locked(b)
    <3>1. curr' = Nobody /\ UNCHANGED <<io, bstate, call>>
      BY <1>2, <1>5, <2>1, <2>3 DEF Submit
    <3>2. BufMoves(t, "submit", c) /\ "submit" \in Writes /\ tpc[t] \in Writes /\ FieldsOf(call[t], c)
      BY <1>1, <1>2, <2>2, <3>1 DEF BufMoves, Writes, FieldsOf
    <3>3. Still
      BY <2>2, <3>1 DEF Still, contents
    <3> QED BY <1>1, <1>3, <2>2, <3>1, <3>2, <3>3, StillBlocks, WritingOn
  <2>4. CASE ~Locked(b)
    <3>1. /\ curr' = t /\ BufCall(t, [c EXCEPT !.todo = Tail(c.todo)])
          /\ IF Wanted(b) THEN Dev!Submit(b, "BWRITE") ELSE UNCHANGED <<io, bstate>>
      BY <1>2, <1>5, <2>1, <2>4 DEF Submit
    <3>2. Tail(c.todo) \in Seq(Buf)
      BY <1>3, <1>5
    <3>3. PICK d \in BufCallRec : d = [c EXCEPT !.todo = Tail(c.todo)] /\ FieldsOf(c, d)
      BY <3>2, CallTodo
    <3>4. BufMoves(t, "submit", d) /\ "submit" \in Writes /\ tpc[t] \in Writes
      BY <1>1, <2>2, <3>1, <3>3 DEF BufMoves, Writes
    <3>5. BlocksOK' /\ io' \in [Buf -> {"free", "BREAD", "BWRITE"}] /\ bstate' = bstate
      <4>1. CASE Wanted(b)
        <5>1. Dev!Submit(b, "BWRITE") /\ UNCHANGED <<blk, contents>>
          BY <2>2, <3>1, <4>1
        <5> QED BY <1>1, <5>1, SubmitBlocks
      <4>2. CASE ~Wanted(b)
        <5>1. Still /\ bstate' = bstate /\ io' = io
          BY <2>2, <3>1, <4>2 DEF Still
        <5> QED BY <1>1, <1>3, <5>1, StillBlocks
      <4> QED BY <4>1, <4>2
    <3> QED BY <1>1, <1>2, <2>2, <3>1, <3>3, <3>4, <3>5, WritingOn
  <2> QED BY <2>3, <2>4
<1> QED BY <1>4, <1>5

LEMMA WaitWrittenStep ==
  ASSUME BufInv, NEW t \in BufTask, WaitWritten(t)
  PROVE  BufInv'
<1>1. BufTypeOK /\ BlocksOK /\ tpc[t] = "written" /\ curr \in {t, Nobody} /\ UNCHANGED cache
  BY DEF BufInv, WaitWritten
<1>2. PICK c \in BufCallRec : c = call[t]
  BY <1>1 DEF BufTypeOK
<1>3. c.todo \in Seq(Buf) /\ io \in [Buf -> {"free", "BREAD", "BWRITE"}]
  BY <1>1 DEF BufCallRec, BufTypeOK
<1>4. Still /\ UNCHANGED <<blk, refcnt, freeq, contents>> /\ bstate' = bstate /\ io' = io
  BY <1>1 DEF Still, cache, contents
<1>5. BlocksOK' /\ io' \in [Buf -> {"free", "BREAD", "BWRITE"}] /\ tpc[t] \in Writes
  BY <1>1, <1>3, <1>4, StillBlocks DEF Writes
<1>6. PICK l \in Writes, d \in BufCallRec : BufMoves(t, l, d) /\ FieldsOf(c, d) /\ curr' \in {t, Nobody}
  <2>1. CASE c.todo = << >>
    <3>1. BufMoves(t, "losing", c) /\ FieldsOf(c, c) /\ curr' = t /\ "losing" \in Writes
      BY <1>2, <2>1 DEF WaitWritten, BufMoves, Writes, FieldsOf
    <3> QED BY <3>1
  <2>2. CASE c.todo # << >> /\ Locked(Head(c.todo))
    <3>1. BufMoves(t, "written", c) /\ FieldsOf(c, c) /\ curr' = Nobody /\ "written" \in Writes
      BY <1>1, <1>2, <2>2 DEF WaitWritten, BufMoves, Writes, FieldsOf
    <3> QED BY <3>1
  <2>3. CASE c.todo # << >> /\ ~Locked(Head(c.todo))
    <3>1. Tail(c.todo) \in Seq(Buf)
      BY <1>3, <2>3
    <3>2. PICK d \in BufCallRec : d = [c EXCEPT !.todo = Tail(c.todo)] /\ FieldsOf(c, d)
      BY <3>1, CallTodo
    <3>3. BufMoves(t, "written", d) /\ curr' = t /\ "written" \in Writes
      BY <1>1, <1>2, <2>3, <3>2 DEF WaitWritten, BufMoves, Writes
    <3> QED BY <3>2, <3>3
  <2> QED BY <2>1, <2>2, <2>3
<1> QED BY <1>1, <1>2, <1>4, <1>5, <1>6, WritingOn

LEMMA LoseClusterStep ==
  ASSUME BufInv, NEW t \in BufTask, LoseCluster(t)
  PROVE  BufInv'
<1>1. /\ BufTypeOK /\ BufTaskOK(t) /\ curr = t /\ tpc[t] = "losing" /\ curr' = curr
      /\ UNCHANGED <<blk, bstate, io, contents>>
  BY DEF BufInv, BufTasksOK, LoseCluster, Runs
<1>2. PICK c \in BufCallRec : c = call[t]
  BY <1>1 DEF BufTypeOK
<1>3. c.cluster \in Seq(Buf) /\ freeq \in Seq(Buf) /\ IsInjective(c.cluster)
  BY <1>1, <1>2 DEF BufCallRec, BufTypeOK, BufTaskOK
<1>4. c.bno \in Block
  BY <1>1, <1>2 DEF BufTaskOK
<1>5. PICK e \in Buf : c.buf = {e}
  BY <1>1, <1>2 DEF BufTaskOK, NoBuffer
<1>6. Still
  BY <1>1 DEF Still
<1>7. HasAll(t, {e})
  BY <1>1, <1>2, <1>5 DEF HasAll, Has
<1>8. CASE c.cluster = << >>
  <2>1. BufMoves(t, "core", c) /\ "core" \in BufPc /\ refcnt' = refcnt /\ freeq' = freeq
    BY <1>2, <1>8 DEF LoseCluster, BufMoves, BufPc
  <2>2. call'[t] = c /\ tpc'[t] = "core"
    BY <1>1, <2>1, BufMovesIs
  <2>3. HasAll(t, {e})' /\ HasAllToo(t, {}) /\ HasAllToo(t, {})'
    BY <1>2, <1>5, <1>8, <2>2 DEF HasAll, HasAllToo, Has, HasToo, Contains
  <2>4. BufTaskOK(t)'
    BY <1>3, <1>4, <1>5, <1>8, <2>2 DEF BufTaskOK, NoBuffer, Mine, Writes
  <2> QED BY <1>1, <1>3, <1>6, <1>7, <2>1, <2>3, <2>4, QuietStep
<1>9. CASE c.cluster # << >>
  <2>1. PICK q \in Seq(Buf) : q = c.cluster /\ q # << >> /\ IsInjective(q)
    BY <1>3, <1>9
  <2>2. PICK b \in Buf, r \in Seq(Buf) : b = Head(q) /\ r = Tail(q)
    <3>1. Head(q) \in Buf /\ Tail(q) \in Seq(Buf)
      BY <2>1
    <3> QED BY <3>1
  <2>3. /\ IsInjective(r) /\ ~Contains(r, b)
        /\ \A x : Contains(q, x) <=> (x = b \/ Contains(r, x))
    BY <2>1, <2>2, HeadApart
  <2>4. /\ refcnt' = Dropped(b) /\ freeq' = Freed(b) /\ BufCall(t, [c EXCEPT !.cluster = r]) /\ tpc' = tpc
    BY <1>2, <1>9, <2>1, <2>2 DEF LoseCluster
  <2>5. PICK d \in BufCallRec : /\ d = [c EXCEPT !.cluster = r]
                                /\ d.bno = c.bno /\ d.buf = c.buf /\ d.cluster = r
    BY CallCluster
  <2>6. BufMoves(t, "losing", d) /\ "losing" \in BufPc
    BY <1>1, <2>4, <2>5 DEF BufMoves, BufPc
  <2>7. call'[t] = d /\ tpc'[t] = "losing"
    BY <1>1, <2>6, BufMovesIs
  <2>8. PICK T : T = {x \in Buf : Contains(r, x)}
    OBVIOUS
  <2>9. b \notin T /\ HasAllToo(t, T \cup {b}) /\ HasAllToo(t, T)' /\ HasAll(t, {e})'
    BY <1>2, <1>5, <2>1, <2>3, <2>5, <2>7, <2>8 DEF HasAll, HasAllToo, Has, HasToo
  <2>10. Follows(t)
    BY <1>1, <1>7, <2>4, <2>9, DroppedTooFollows
  <2>11. BufTaskOK(t)'
    BY <1>4, <1>5, <2>3, <2>5, <2>7 DEF BufTaskOK, NoBuffer, Mine, Writes
  <2>12. freeq' \in Seq(Buf) /\ refcnt' \in [Buf -> Int]
    BY <1>1, <1>3, <2>4, FreedSeq, TypedCounts
  <2> QED BY <1>1, <1>6, <2>6, <2>10, <2>11, <2>12, StillStep
<1> QED BY <1>8, <1>9

\* A task that has a buffer for itself.
LEMMA HasOne ==
  ASSUME BufInv, NEW t \in BufTask, tpc[t] \in Mine \cup {"core"}
  PROVE  /\ call[t].bno \in Block /\ call[t].cluster = << >> /\ IsInjective(call[t].cluster)
         /\ \E b \in Buf : call[t].buf = {b} /\ Buffer(t) = b /\ HasAll(t, {b}) /\ HasAllToo(t, {})
                           /\ (tpc[t] \in Mine => blk[b] = call[t].bno)
<1>1. BufTaskOK(t)
  BY DEF BufInv, BufTasksOK
<1>2. call[t].bno \in Block /\ call[t].cluster = << >> /\ IsInjective(call[t].cluster)
  BY <1>1 DEF BufTaskOK, Mine, Writes
<1>3. PICK b \in Buf : call[t].buf = {b}
  BY <1>1 DEF BufTaskOK, NoBuffer, Mine
<1>4. Buffer(t) = b
  BY <1>3, BufferIs
<1>5. HasAll(t, {b}) /\ HasAllToo(t, {})
  BY <1>2, <1>3 DEF HasAll, HasAllToo, Has, HasToo, Contains, Mine
<1>6. tpc[t] \in Mine => blk[b] = call[t].bno
  BY <1>1, <1>3 DEF BufTaskOK
<1> QED BY <1>2, <1>3, <1>4, <1>5, <1>6

LEMMA CoreStep ==
  ASSUME BufInv, NEW t \in BufTask, Core(t)
  PROVE  BufInv'
<1>1. BufTypeOK /\ tpc[t] = "core" /\ curr \in {t, Nobody}
  BY DEF BufInv, Core
<1>2. PICK c \in BufCallRec : c = call[t]
  BY <1>1 DEF BufTypeOK
<1>3. /\ c.bno \in Block /\ c.cluster = << >> /\ IsInjective(c.cluster) /\ freeq \in Seq(Buf)
  BY <1>1, <1>2, HasOne DEF BufTypeOK
<1>4. PICK b \in Buf : c.buf = {b} /\ Buffer(t) = b /\ HasAll(t, {b}) /\ HasAllToo(t, {})
  BY <1>1, <1>2, HasOne
<1>5. CASE UNCHANGED <<cache, call, tpc>> /\ curr' = Nobody
  <2>1. Still /\ refcnt' = refcnt /\ freeq' = freeq
    BY <1>5 DEF Still, cache, contents
  <2>2. BufMoves(t, "core", c) /\ "core" \in BufPc
    BY <1>1, <1>2, <1>5 DEF BufMoves, BufPc
  <2>3. call'[t] = c /\ tpc'[t] = "core"
    BY <1>1, <2>2, BufMovesIs
  <2>4. HasAll(t, {b})' /\ HasAllToo(t, {})'
    BY <1>3, <1>4, <2>3 DEF HasAll, HasAllToo, Has, HasToo, Contains
  <2>5. BufTaskOK(t)'
    BY <1>3, <1>4, <2>3 DEF BufTaskOK, NoBuffer, Mine, Writes
  <2> QED BY <1>1, <1>3, <1>4, <1>5, <2>1, <2>2, <2>4, <2>5, QuietStep
<1>6. CASE ~(UNCHANGED <<cache, call, tpc>> /\ curr' = Nobody)
  <2>1. /\ refcnt' = Dropped(b) /\ freeq' = Freed(b) /\ BufCall(t, [c EXCEPT !.buf = {}])
        /\ \E l \in {"sync", "repeat"} : BufGoto(t, l)
        /\ curr' \in {t, Nobody} /\ UNCHANGED <<blk, bstate, io, contents>>
    BY <1>2, <1>4, <1>6 DEF Core, AfterSleep
  <2>2. PICK d \in BufCallRec : /\ d = [c EXCEPT !.buf = {}]
                                /\ d.bno = c.bno /\ d.buf = {} /\ d.cluster = c.cluster
    BY CallBuf
  <2>3. PICK l \in {"sync", "repeat"} : BufGoto(t, l)
    BY <2>1
  <2>4. BufMoves(t, l, d) /\ l \in BufPc
    BY <2>1, <2>2, <2>3 DEF BufMoves, BufPc
  <2>5. call'[t] = d /\ tpc'[t] = l
    BY <1>1, <2>4, BufMovesIs
  <2>6. HasAll(t, {})' /\ HasAllToo(t, {})'
    BY <1>3, <2>2, <2>5 DEF HasAll, HasAllToo, Has, HasToo, Contains
  <2>7. BufTaskOK(t)'
    BY <1>3, <2>2, <2>3, <2>5 DEF BufTaskOK, NoBuffer, Mine, Writes
  <2>8. Follows(t)
    BY <1>1, <1>4, <2>1, <2>6, DroppedFollows
  <2>9. freeq' \in Seq(Buf) /\ refcnt' \in [Buf -> Int] /\ Still
    BY <1>1, <1>3, <2>1, FreedSeq, TypedCounts DEF Still
  <2> QED BY <1>1, <2>1, <2>4, <2>7, <2>8, <2>9, StillStep
<1> QED BY <1>5, <1>6

\* A task without a buffer goes on, or leaves.
LEMMA SyncStep ==
  ASSUME BufInv, NEW t \in BufTask, Syncb(t)
  PROVE  BufInv'
<1>1. /\ BufTypeOK /\ BufTaskOK(t) /\ tpc[t] = "sync" /\ curr \in {t, Nobody} /\ freeq' = freeq
      /\ UNCHANGED <<blk, bstate, io, contents>>
  BY DEF BufInv, BufTasksOK, Syncb
<1>2. PICK c \in BufCallRec : c = call[t]
  BY <1>1 DEF BufTypeOK
<1>3. c.bno \in Block /\ c.buf = {} /\ c.cluster = << >> /\ freeq \in Seq(Buf) /\ c.left \in SUBSET Buf
  BY <1>1, <1>2 DEF BufTaskOK, NoBuffer, Writes, BufTypeOK, BufCallRec
<1>4. Still
  BY <1>1 DEF Still
<1>5. HasAll(t, {}) /\ HasAllToo(t, {})
  BY <1>2, <1>3 DEF HasAll, HasAllToo, Has, HasToo, Contains
<1>6. CASE c.left = {}
  <2>1. curr' = Nobody /\ BufGoto(t, "out") /\ BufCall(t, Rest) /\ refcnt' = refcnt
    BY <1>2, <1>6 DEF Syncb
  <2>2. BufMoves(t, "out", Rest) /\ "out" \in BufPc /\ Rest \in BufCallRec
    BY <2>1, RestTyped DEF BufMoves, BufPc
  <2>3. call'[t] = Rest /\ tpc'[t] = "out"
    BY <1>1, <2>2, BufMovesIs
  <2> QED BY <1>1, <1>3, <1>4, <1>5, <2>1, <2>2, <2>3, AtRest, QuietStep
<1>7. CASE c.left # {}
  <2>1. PICK b \in Buf : b = CHOOSE e \in c.left : TRUE
    BY <1>3, <1>7
  <2>2. PICK d \in BufCallRec : d = [c EXCEPT !.left = c.left \ {b}] /\ FieldsOf(c, d)
    BY <1>3, CallLeft
  <2>3. CASE blk[b] = NoBlock
    <3>1. curr' = Nobody /\ BufMoves(t, "sync", d) /\ "sync" \in BufPc /\ refcnt' = refcnt
      BY <1>1, <1>2, <1>7, <2>1, <2>2, <2>3 DEF Syncb, BufMoves, BufPc
    <3>2. call'[t] = d /\ tpc'[t] = "sync"
      BY <1>1, <3>1, BufMovesIs
    <3>3. HasAll(t, {})' /\ HasAllToo(t, {})'
      BY <1>3, <2>2, <3>2 DEF HasAll, HasAllToo, Has, HasToo, Contains, FieldsOf
    <3>4. BufTaskOK(t)'
      BY <1>3, <2>2, <3>2 DEF BufTaskOK, NoBuffer, Mine, Writes, FieldsOf, IsInjective
    <3> QED BY <1>1, <1>3, <1>4, <1>5, <3>1, <3>3, <3>4, QuietStep
  <2>4. CASE blk[b] # NoBlock
    <3>1. curr' = t /\ Writeb(t, b, d) /\ BufGoto(t, "submit")
      BY <1>2, <1>7, <2>1, <2>2, <2>4 DEF Syncb
    <3> QED BY <1>1, <1>2, <1>4, <2>2, <3>1, WritebStep DEF NoBuffer, FieldsOf
  <2> QED BY <2>3, <2>4
<1> QED BY <1>6, <1>7

\* The holder leaves the cache; what happens to the contents meanwhile is for
\* each step to say.
LEMMA LeaveKeeps ==
  ASSUME BufInv, NEW t \in BufTask, tpc[t] \in Mine, Leave(t), curr \in {t, Nobody}, blk' = blk,
         bstate' \in [Buf -> {"BINVAL", "BCLEAN", "BDIRTY"}], io' \in [Buf -> {"free", "BREAD", "BWRITE"}],
         DOMAIN data' = Buf, DOMAIN disk' = Block, DOMAIN last' = Block, BlocksOK'
  PROVE  BufInv'
<1>1. BufTypeOK
  BY DEF BufInv
<1>2. PICK b \in Buf : Buffer(t) = b /\ HasAll(t, {b}) /\ HasAllToo(t, {})
  BY HasOne
<1>3. /\ curr' = Nobody /\ BufGoto(t, "out") /\ BufCall(t, Rest)
      /\ refcnt' = Dropped(b) /\ freeq' = Freed(b)
  BY <1>2 DEF Leave
<1>4. BufMoves(t, "out", Rest) /\ "out" \in BufPc /\ Rest \in BufCallRec
  BY <1>3, RestTyped DEF BufMoves, BufPc
<1>5. /\ call' \in [BufTask -> BufCallRec] /\ call'[t] = Rest
      /\ tpc' \in [BufTask -> BufPc] /\ tpc'[t] = "out" /\ BufFrame(t)
  BY <1>1, <1>4, BufMovesIs
<1>6. BufTaskOK(t)' /\ HasAll(t, {})' /\ HasAllToo(t, {})'
  BY <1>5, AtRest
<1>7. Follows(t)
  BY <1>1, <1>2, <1>3, <1>6, DroppedFollows
<1>8. freeq' \in Seq(Buf) /\ refcnt' \in [Buf -> Int]
  BY <1>1, <1>3, FreedSeq, TypedCounts DEF BufTypeOK
<1>9. BufTypeOK'
  BY <1>1, <1>3, <1>5, <1>8 DEF BufTypeOK
<1> QED BY <1>5, <1>6, <1>7, <1>9, StepKeeps

\* The holder goes to another place where it has its buffer.
LEMMA HolderOn ==
  ASSUME BufInv, NEW t \in BufTask, tpc[t] \in Mine, NEW l \in Mine, BufMoves(t, l, call[t]),
         curr \in {t, Nobody}, curr' \in {t, Nobody}, UNCHANGED <<blk, refcnt, freeq, contents>>,
         bstate' = bstate, io' \in [Buf -> {"free", "BREAD", "BWRITE"}], BlocksOK'
  PROVE  BufInv'
<1>1. BufTypeOK /\ BufTaskOK(t) /\ l \in BufPc /\ tpc[t] # "waitany" /\ l # "waitany"
  BY DEF BufInv, BufTasksOK, Mine, BufPc
<1>2. PICK c \in BufCallRec : c = call[t]
  BY <1>1 DEF BufTypeOK
<1>3. /\ call' \in [BufTask -> BufCallRec] /\ call'[t] = c
      /\ tpc' \in [BufTask -> BufPc] /\ tpc'[t] = l /\ BufFrame(t)
  BY <1>1, <1>2, BufMovesIs
<1>4. blk' = blk /\ refcnt' = refcnt /\ freeq' = freeq /\ data' = data /\ disk' = disk /\ last' = last
  BY DEF contents
<1>5. BufTypeOK'
  BY <1>1, <1>3, <1>4 DEF BufTypeOK
<1>6. BufTaskOK(t)'
  BY <1>1, <1>2, <1>3, <1>4 DEF BufTaskOK, NoBuffer, Mine, Writes
<1>7. PICK S, T : HasAll(t, S) /\ HasAll(t, S)' /\ HasAllToo(t, T) /\ HasAllToo(t, T)'
  BY <1>1, <1>2, KeepsHas DEF FieldsOf
<1>8. Follows(t)
  BY <1>1, <1>4, <1>7, SameFollows
<1> QED BY <1>3, <1>4, <1>5, <1>6, <1>8, StepKeeps

LEMMA GotStep ==
  ASSUME BufInv, NEW t \in BufTask, Got(t)
  PROVE  BufInv'
<1>1. /\ BufTypeOK /\ BlocksOK /\ curr = t /\ tpc[t] = "got" /\ UNCHANGED <<blk, contents>>
  BY DEF BufInv, Got, Runs
<1>2. tpc[t] \in Mine /\ "reading" \in Mine /\ "have" \in Mine
  BY <1>1 DEF Mine
<1>3. PICK b \in Buf : Buffer(t) = b
  BY <1>2, HasOne
<1>4. /\ bstate \in [Buf -> {"BINVAL", "BCLEAN", "BDIRTY"}] /\ io \in [Buf -> {"free", "BREAD", "BWRITE"}]
      /\ DOMAIN data = Buf /\ DOMAIN disk = Block /\ DOMAIN last = Block
  BY <1>1 DEF BufTypeOK
<1>5. /\ blk' = blk /\ data' = data /\ disk' = disk /\ last' = last
  BY <1>1 DEF contents
<1>6. BlocksOK' /\ io' \in [Buf -> {"free", "BREAD", "BWRITE"}] /\ bstate' = bstate
  <2>1. CASE Dev!Submit(b, "BREAD")
    BY <1>1, <2>1, SubmitBlocks
  <2>2. CASE UNCHANGED <<io, bstate>>
    <3>1. Still /\ io' = io /\ bstate' = bstate
      BY <1>1, <2>2 DEF Still
    <3> QED BY <1>1, <1>4, <3>1, StillBlocks
  <2> QED BY <1>3, <2>1, <2>2 DEF Got
<1>7. CASE Leave(t)
  BY <1>1, <1>2, <1>4, <1>5, <1>6, <1>7, LeaveKeeps
<1>8. CASE BufGoto(t, "reading") /\ curr' = Nobody /\ UNCHANGED <<refcnt, freeq, call>>
  <2>1. BufMoves(t, "reading", call[t]) /\ UNCHANGED <<blk, refcnt, freeq, contents>>
    BY <1>1, <1>8 DEF BufMoves
  <2> QED BY <1>1, <1>2, <1>6, <1>8, <2>1, HolderOn
<1>9. CASE BufGoto(t, "have") /\ UNCHANGED <<curr, refcnt, freeq, call>>
  <2>1. BufMoves(t, "have", call[t]) /\ UNCHANGED <<blk, refcnt, freeq, contents>> /\ curr' = t
    BY <1>1, <1>9 DEF BufMoves
  <2> QED BY <1>1, <1>2, <1>6, <2>1, HolderOn
<1> QED BY <1>7, <1>8, <1>9 DEF Got

LEMMA ReadStep ==
  ASSUME BufInv, NEW t \in BufTask, BufRead(t)
  PROVE  BufInv'
<1>1. /\ BufTypeOK /\ BlocksOK /\ curr = Nobody /\ tpc[t] = "reading" /\ UNCHANGED <<blk, bstate, io, contents>>
  BY DEF BufInv, BufRead
<1>2. tpc[t] \in Mine /\ "have" \in Mine
  BY <1>1 DEF Mine
<1>3. /\ bstate \in [Buf -> {"BINVAL", "BCLEAN", "BDIRTY"}] /\ io \in [Buf -> {"free", "BREAD", "BWRITE"}]
      /\ DOMAIN data = Buf /\ DOMAIN disk = Block /\ DOMAIN last = Block
  BY <1>1 DEF BufTypeOK
<1>4. blk' = blk /\ bstate' = bstate /\ io' = io /\ data' = data /\ disk' = disk /\ last' = last
  BY <1>1 DEF contents
<1>5. BlocksOK'
  BY <1>1, StillBlocks DEF Still
<1>6. CASE Leave(t)
  BY <1>1, <1>2, <1>3, <1>4, <1>5, <1>6, LeaveKeeps
<1>7. CASE curr' = t /\ BufGoto(t, "have") /\ UNCHANGED <<refcnt, freeq, call>>
  <2>1. BufMoves(t, "have", call[t]) /\ UNCHANGED <<blk, refcnt, freeq, contents>>
    BY <1>1, <1>7 DEF BufMoves
  <2> QED BY <1>1, <1>2, <1>3, <1>4, <1>5, <1>7, <2>1, HolderOn
<1> QED BY <1>6, <1>7 DEF BufRead

LEMMA PauseStep ==
  ASSUME BufInv, NEW t \in BufTask, Pause(t)
  PROVE  BufInv'
<1>1. /\ BufTypeOK /\ BlocksOK /\ curr \in {t, Nobody} /\ curr' \in {t, Nobody} /\ tpc[t] = "have"
      /\ UNCHANGED <<cache, tpc, call>>
  BY DEF BufInv, Pause
<1>2. tpc[t] \in Mine /\ "have" \in Mine
  BY <1>1 DEF Mine
<1>3. Still /\ UNCHANGED <<blk, refcnt, freeq, contents>> /\ bstate' = bstate /\ io' = io
  BY <1>1 DEF cache, Still, contents
<1>4. BufMoves(t, "have", call[t])
  BY <1>1 DEF BufMoves
<1>5. BlocksOK' /\ io' \in [Buf -> {"free", "BREAD", "BWRITE"}]
  BY <1>1, <1>3, StillBlocks DEF BufTypeOK
<1> QED BY <1>1, <1>2, <1>3, <1>4, <1>5, HolderOn

LEMMA LoseBufStep ==
  ASSUME BufInv, NEW t \in BufTask, LoseBuf(t)
  PROVE  BufInv'
<1>1. /\ BufTypeOK /\ BlocksOK /\ curr = t /\ tpc[t] = "have" /\ UNCHANGED <<blk, bstate, io, contents>>
      /\ Leave(t)
  BY DEF BufInv, LoseBuf, Runs
<1>2. tpc[t] \in Mine
  BY <1>1 DEF Mine
<1>3. /\ bstate \in [Buf -> {"BINVAL", "BCLEAN", "BDIRTY"}] /\ io \in [Buf -> {"free", "BREAD", "BWRITE"}]
      /\ DOMAIN data = Buf /\ DOMAIN disk = Block /\ DOMAIN last = Block
  BY <1>1 DEF BufTypeOK
<1>4. blk' = blk /\ bstate' = bstate /\ io' = io /\ data' = data /\ disk' = disk /\ last' = last
  BY <1>1 DEF contents
<1>5. BlocksOK'
  BY <1>1, StillBlocks DEF Still
<1> QED BY <1>1, <1>2, <1>3, <1>4, <1>5, LeaveKeeps

\* The newest contents are in the buffer, and it is dirty.
LEMMA ChangeStep ==
  ASSUME BufInv, NEW t \in BufTask, Change(t)
  PROVE  BufInv'
<1>1. /\ BufTypeOK /\ BlocksOK /\ OneBuffer /\ curr = t /\ tpc[t] = "have" /\ Leave(t)
      /\ UNCHANGED <<blk, io, disk>>
  BY DEF BufInv, Change, Runs
<1>2. tpc[t] \in Mine
  BY <1>1 DEF Mine
<1>3. PICK b \in Buf, n \in Block : Buffer(t) = b /\ blk[b] = n /\ call[t].bno = n
  BY <1>2, HasOne
<1>4. /\ last' = [last EXCEPT ![n] = @ + 1] /\ data' = [data EXCEPT ![b] = last[n] + 1]
      /\ bstate' = [bstate EXCEPT ![b] = "BDIRTY"]
      /\ excused' = IF Locked(b) THEN excused \cup {n} ELSE excused
  BY <1>3 DEF Change
<1>5. /\ bstate \in [Buf -> {"BINVAL", "BCLEAN", "BDIRTY"}] /\ io \in [Buf -> {"free", "BREAD", "BWRITE"}]
      /\ DOMAIN data = Buf /\ DOMAIN disk = Block /\ DOMAIN last = Block
  BY <1>1 DEF BufTypeOK
<1>6. /\ bstate' \in [Buf -> {"BINVAL", "BCLEAN", "BDIRTY"}] /\ bstate'[b] = "BDIRTY"
      /\ \A x \in Buf \ {b} : bstate'[x] = bstate[x]
  BY <1>4, <1>5
<1>7. /\ DOMAIN data' = Buf /\ data'[b] = last[n] + 1 /\ \A x \in Buf \ {b} : data'[x] = data[x]
  BY <1>4, <1>5
<1>8. /\ DOMAIN last' = Block /\ last'[n] = last[n] + 1 /\ \A m \in Block \ {n} : last'[m] = last[m]
  BY <1>4, <1>5
<1>9. BlocksOK'
  <2> SUFFICES ASSUME NEW m \in Block, m \notin excused' PROVE BlockOK(m)'
    BY DEF BlocksOK
  <2>1. m \notin excused /\ BlockOK(m) /\ (m = n => io[b] = "free")
    BY <1>1, <1>4 DEF BlocksOK, Locked
  <2>2. Findb(m)' = Findb(m) /\ Findb(m) \subseteq Buf
    BY <1>1 DEF Findb
  <2>3. CASE m = n
    <3>1. Findb(m) = {b}
      BY <1>1, <1>3, <2>3 DEF Findb, OneBuffer
    <3> QED BY <1>1, <1>6, <1>7, <1>8, <2>1, <2>2, <2>3, <3>1 DEF BlockOK
  <2>4. CASE m # n
    <3>1. b \notin Findb(m)
      BY <1>3, <2>4 DEF Findb
    <3> QED BY <1>1, <1>6, <1>7, <1>8, <2>1, <2>2, <2>4, <3>1 DEF BlockOK
  <2> QED BY <2>3, <2>4
<1>10. io' \in [Buf -> {"free", "BREAD", "BWRITE"}] /\ DOMAIN disk' = Block /\ blk' = blk
  BY <1>1, <1>5
<1> QED BY <1>1, <1>2, <1>6, <1>7, <1>8, <1>9, <1>10, LeaveKeeps

\* The disk and the buffer have the other's contents, or an error is excused.
LEMMA CompleteBlocks ==
  ASSUME BufInv, NEW b \in Buf, Complete(b)
  PROVE  /\ BlocksOK' /\ io' \in [Buf -> {"free", "BREAD", "BWRITE"}]
         /\ bstate' \in [Buf -> {"BINVAL", "BCLEAN", "BDIRTY"}]
         /\ DOMAIN data' = Buf /\ DOMAIN disk' = Block
<1>1. BufTypeOK /\ BlocksOK /\ OneBuffer /\ blk' = blk /\ last' = last
  BY DEF BufInv, Complete
<1>2. /\ bstate \in [Buf -> {"BINVAL", "BCLEAN", "BDIRTY"}] /\ io \in [Buf -> {"free", "BREAD", "BWRITE"}]
      /\ DOMAIN data = Buf /\ DOMAIN disk = Block
  BY <1>1 DEF BufTypeOK
<1>3. /\ io[b] \in {"BREAD", "BWRITE"}
      /\ io' = [x \in Buf |-> IF x \in {b} THEN "free" ELSE io[x]]
      /\ \E bad \in SUBSET {b} :
           bstate' = [x \in Buf |-> IF x \in bad THEN "BINVAL"
                                    ELSE IF x \in {b} THEN "BCLEAN" ELSE bstate[x]]
  BY DEF Complete, Dev!Complete, Dev!Cmd
<1>4. /\ io' \in [Buf -> {"free", "BREAD", "BWRITE"}] /\ io'[b] = "free"
      /\ \A x \in Buf \ {b} : io'[x] = io[x]
  BY <1>2, <1>3
<1>5. /\ bstate' \in [Buf -> {"BINVAL", "BCLEAN", "BDIRTY"}] /\ bstate'[b] # "BDIRTY"
      /\ \A x \in Buf \ {b} : bstate'[x] = bstate[x]
  BY <1>2, <1>3
<1>6. PICK n : n = blk[b]
  OBVIOUS
<1>7. \/ /\ bstate'[b] = "BCLEAN" /\ io[b] = "BWRITE" /\ disk' = [disk EXCEPT ![n] = data[b]]
         /\ data' = data /\ excused' = excused
      \/ /\ bstate'[b] = "BCLEAN" /\ io[b] = "BREAD" /\ data' = [data EXCEPT ![b] = disk[n]]
         /\ disk' = disk /\ excused' = excused
      \/ /\ bstate'[b] = "BINVAL" /\ data' = data /\ disk' = disk
         /\ excused' = IF io[b] = "BWRITE" THEN excused \cup {n} ELSE excused
  BY <1>3, <1>6 DEF Complete
<1>8. /\ DOMAIN data' = Buf /\ \A x \in Buf \ {b} : data'[x] = data[x]
  BY <1>2, <1>7
<1>9. /\ DOMAIN disk' = Block /\ \A m \in Block : m # n => disk'[m] = disk[m]
  BY <1>2, <1>7
<1>10. BlocksOK'
  <2> SUFFICES ASSUME NEW m \in Block, m \notin excused' PROVE BlockOK(m)'
    BY DEF BlocksOK
  <2>1. m \notin excused /\ BlockOK(m)
    BY <1>1, <1>7 DEF BlocksOK
  <2>2. Findb(m)' = Findb(m) /\ Findb(m) \subseteq Buf
    BY <1>1 DEF Findb
  <2>3. CASE m = n
    <3>1. Findb(m) = {b}
      BY <1>1, <1>6, <2>3 DEF Findb, OneBuffer
    <3>2. /\ bstate[b] # "BDIRTY" => disk[m] = last[m]
          /\ bstate[b] # "BINVAL" => data[b] = last[m]
          /\ io[b] = "BWRITE" => bstate[b] = "BDIRTY"
          /\ io[b] = "BREAD" => bstate[b] = "BINVAL"
      BY <2>1, <3>1 DEF BlockOK
    <3>3. disk'[m] = last[m] /\ (bstate'[b] # "BINVAL" => data'[b] = last[m])
      <4>1. CASE /\ bstate'[b] = "BCLEAN" /\ io[b] = "BWRITE" /\ disk' = [disk EXCEPT ![n] = data[b]]
                 /\ data' = data
        BY <1>2, <2>3, <3>2, <4>1
      <4>2. CASE /\ bstate'[b] = "BCLEAN" /\ io[b] = "BREAD" /\ data' = [data EXCEPT ![b] = disk[n]]
                 /\ disk' = disk
        BY <1>2, <2>3, <3>2, <4>2
      <4>3. CASE /\ bstate'[b] = "BINVAL" /\ disk' = disk
                 /\ excused' = IF io[b] = "BWRITE" THEN excused \cup {n} ELSE excused
        <5>1. io[b] = "BREAD"
          BY <1>3, <2>3, <4>3
        <5> QED BY <3>2, <4>3, <5>1
      <4> QED BY <1>7, <4>1, <4>2, <4>3
    <3> QED BY <1>1, <1>4, <2>2, <3>1, <3>3 DEF BlockOK
  <2>4. CASE m # n
    <3>1. b \notin Findb(m)
      BY <1>6, <2>4 DEF Findb
    <3> QED BY <1>1, <1>4, <1>5, <1>8, <1>9, <2>1, <2>2, <2>4, <3>1 DEF BlockOK
  <2> QED BY <2>3, <2>4
<1> QED BY <1>4, <1>5, <1>8, <1>9, <1>10

LEMMA CompleteStep ==
  ASSUME BufInv, NEW b \in Buf, Complete(b)
  PROVE  BufInv'
<1>1. BufTypeOK /\ UNCHANGED <<blk, refcnt, freeq, last, curr, tpc, call>>
  BY DEF BufInv, Complete
<1>2. blk' = blk /\ refcnt' = refcnt /\ freeq' = freeq /\ last' = last /\ curr' = curr /\ tpc' = tpc /\ call' = call
  BY <1>1
<1>3. /\ BlocksOK' /\ io' \in [Buf -> {"free", "BREAD", "BWRITE"}]
      /\ bstate' \in [Buf -> {"BINVAL", "BCLEAN", "BDIRTY"}] /\ DOMAIN data' = Buf /\ DOMAIN disk' = Block
  BY CompleteBlocks
<1>4. BufTypeOK'
  BY <1>1, <1>2, <1>3 DEF BufTypeOK
<1>5. BufTasksOK'
  BY <1>2 DEF BufInv, BufTasksOK, BufTaskOK, Findb
<1>6. OneBuffer'
  BY <1>2 DEF BufInv, OneBuffer
<1>7. BufCounts'
  BY <1>2 DEF BufInv, BufCounts, BufHolders, BufWriters, Has, HasToo
<1> QED BY <1>3, <1>4, <1>5, <1>6, <1>7 DEF BufInv

\* The free list holds every buffer at first.
\* The free lists start with all buffers and all inodes.
LEMMA ListOfAll ==
  ASSUME NEW S, IsFiniteSet(S)
  PROVE  SetToSeq(S) \in Seq(S)
<1>1. PICK n \in Nat : n = Cardinality(S)
  BY FS_CardinalityType
<1>2. \E f : f \in [1 .. n -> S] /\ IsInjective(f)
  <2>1. ExistsBijection(1 .. n, S)
    BY <1>1, FS_CountingElements, FS_CardinalityType
  <2>2. PICK f \in Bijection(1 .. n, S) : TRUE
    BY <2>1 DEF ExistsBijection
  <2>3. f \in [1 .. n -> S] /\ IsInjective(f)
    BY <2>2 DEF Bijection, Injection, Surjection, IsInjective
  <2> QED BY <2>3
<1>3. SetToSeq(S) \in [1 .. n -> S]
  BY <1>1, <1>2 DEF SetToSeq
<1> QED BY <1>3

LEMMA BufStarts == BufInit => BufInv
<1> SUFFICES ASSUME BufInit PROVE BufInv
  OBVIOUS
<1>1. /\ blk = [b \in Buf |-> NoBlock] /\ bstate = [b \in Buf |-> "BINVAL"]
      /\ refcnt = [b \in Buf |-> 0] /\ freeq \in Seq(Buf)
      /\ io = [b \in Buf |-> "free"] /\ data = [b \in Buf |-> 0]
      /\ disk = [n \in Block |-> 0] /\ last = [n \in Block |-> 0]
      /\ curr = Nobody /\ tpc = [t \in BufTask |-> "out"] /\ call = [t \in BufTask |-> Rest]
  BY ListOfAll, BufAssumption DEF BufInit
<1>2. PICK r \in BufCallRec : r = Rest /\ r.buf = {} /\ r.cluster = << >>
  BY RestTyped DEF Rest
<1>3. BufTypeOK
  <2>1. call \in [BufTask -> BufCallRec] /\ tpc \in [BufTask -> BufPc]
    BY <1>1, <1>2, "out" \in BufPc DEF BufPc
  <2> QED BY <1>1, <2>1 DEF BufTypeOK
<1>4. BufTasksOK
  BY <1>1, <1>2 DEF BufTasksOK, BufTaskOK, NoBuffer, Mine, IsInjective
<1>5. NoBlock \notin Block
  BY BufAssumption
<1>6. OneBuffer
  BY <1>1, <1>5 DEF OneBuffer
<1>7. \A n \in Block : Findb(n) = {}
  BY <1>1, <1>5 DEF Findb
<1>8. BlocksOK
  BY <1>1, <1>7 DEF BlocksOK, BlockOK
<1>9. BufCounts
  <2>1. \A b \in Buf : BufHolders(b) = {} /\ BufWriters(b) = {}
    BY <1>1, <1>2 DEF BufHolders, BufWriters, Has, HasToo, Contains
  <2>2. Cardinality({}) = 0
    BY FS_EmptySet
  <2>3. ASSUME NEW b \in Buf
        PROVE  refcnt[b] = Cardinality(BufHolders(b)) + Cardinality(BufWriters(b))
    <3>1. BufHolders(b) = {} /\ BufWriters(b) = {}
      BY <2>1
    <3>2. Cardinality(BufHolders(b)) = 0 /\ Cardinality(BufWriters(b)) = 0
      BY <2>2, <3>1
    <3>3. refcnt[b] = 0
      BY <1>1
    <3> QED BY <3>2, <3>3
  <2> QED BY <2>3 DEF BufCounts
<1> QED BY <1>3, <1>4, <1>6, <1>8, <1>9 DEF BufInv

LEMMA BufKeeps == BufInv /\ [BufNext]_bufvars => BufInv'
<1> SUFFICES ASSUME BufInv, [BufNext]_bufvars PROVE BufInv'
  OBVIOUS
<1>1. ASSUME NEW t \in BufTask, BufStep(t) PROVE BufInv'
  BY <1>1, RepeatStep, HitStep, ScanStep, AgainStep, SubmitStep, WaitWrittenStep, LoseClusterStep,
     CoreStep, SyncStep, GotStep, ReadStep, LoseBufStep, ChangeStep DEF BufStep
<1>2. CASE UNCHANGED bufvars
  <2>1. UNCHANGED <<blk, bstate, refcnt, freeq, io, data, disk, last, excused, curr, tpc, call>>
    BY <1>2 DEF bufvars, cache
  <2>2. BufTypeOK' /\ BufTasksOK' /\ OneBuffer'
    BY <2>1 DEF BufInv, BufTypeOK, BufTasksOK, BufTaskOK, OneBuffer, Findb
  <2>3. BufCounts' /\ BlocksOK'
    BY <2>1 DEF BufInv, BufCounts, BufHolders, BufWriters, Has, HasToo, BlocksOK, BlockOK, Findb
  <2> QED BY <2>2, <2>3 DEF BufInv
<1> QED BY <1>1, <1>2, PauseStep, EnterStep, CompleteStep DEF BufNext

\* The cache loses no block (getb, breada, writeback and syncb of fs/buf.cc):
\* a block is in one buffer at most, and what was last written to it is on the
\* disk, or in its dirty buffer, whatever other tasks do while one waits for a
\* buffer or writes a cluster; only a change made during a transfer of the
\* block, or a failed write, may lose it.
THEOREM BlockContentsKept == BufSpec => []NewestIsKept
<1>1. BufInv => NewestIsKept
  <2> SUFFICES ASSUME BufInv, NEW n \in Block \ excused
               PROVE  /\ Cardinality(Findb(n)) <= 1
                      /\ \/ /\ disk[n] = last[n]
                            /\ \A b \in Findb(n) : bstate[b] = "BCLEAN" => data[b] = last[n]
                         \/ \E b \in Findb(n) : bstate[b] = "BDIRTY" /\ data[b] = last[n]
    BY DEF NewestIsKept
  <2>1. Findb(n) = {} \/ \E b : Findb(n) = {b}
    BY DEF BufInv, OneBuffer, Findb
  <2>2. Cardinality(Findb(n)) <= 1
    <3>1. Cardinality({}) = 0 /\ \A b : Cardinality({b}) = 1
      BY FS_EmptySet, FS_Singleton
    <3>2. Cardinality(Findb(n)) = 0 \/ Cardinality(Findb(n)) = 1
      BY <2>1, <3>1
    <3> QED BY <3>2
  <2>3. BlockOK(n)
    BY DEF BufInv, BlocksOK
  <2> QED BY <2>2, <2>3 DEF BlockOK
<1> QED BY <1>1, BufStarts, BufKeeps, PTL DEF BufSpec

\* A step that changes a buffer's block is a scan's.
LEMMA OnlyScanTakes ==
  ASSUME BufInv, [BufNext]_bufvars, NEW b \in Buf, blk'[b] # blk[b]
  PROVE  /\ refcnt[b] = 0 /\ io[b] = "free" /\ bstate[b] # "BDIRTY"
         /\ \A t \in BufTask : b \in call[t].buf => tpc[t] = "waitany"
<1>1. PICK t \in BufTask : Scan(t)
  <2>1. blk' # blk
    OBVIOUS
  <2>2. ~UNCHANGED bufvars
    BY <2>1 DEF bufvars, cache
  <2>3. ASSUME NEW t \in BufTask, BufStep(t) \/ Pause(t) PROVE Scan(t)
    BY <2>1, <2>3 DEF BufStep, Pause, Repeat, BufHit, Again, Submit, WaitWritten, LoseCluster, Core, Syncb,
       Got, BufRead, LoseBuf, Change, cache
  <2>4. ASSUME NEW t \in BufTask, NEW n, NEW op, Enter(t, op, n) PROVE FALSE
    BY <2>1, <2>4 DEF Enter, cache
  <2>5. ASSUME NEW x \in Buf, Complete(x) PROVE FALSE
    BY <2>1, <2>5 DEF Complete
  <2> QED BY <2>2, <2>3, <2>4, <2>5 DEF BufNext
<1>2. BufTypeOK /\ BufCounts
  BY DEF BufInv
<1>3. PICK c \in BufCallRec : c = call[t] /\ c.pos \in Nat \ {0}
  BY <1>2 DEF BufTypeOK, BufCallRec
<1>4. ~UNCHANGED cache /\ ~UNCHANGED <<blk, bstate, freeq, io, contents, curr>>
  BY DEF cache
<1>5. PICK x \in Buf : ~InUse(x) /\ ~Locked(x) /\ bstate[x] # "BDIRTY" /\ TakeBuf(t, x)
  <2>1. ~(c.pos > Len(freeq))
    BY <1>1, <1>3, <1>4 DEF Scan
  <2>2. freeq[c.pos] \in Buf
    <3>1. freeq \in Seq(Buf)
      BY <1>2 DEF BufTypeOK
    <3> QED BY <1>3, <2>1, <3>1
  <2> QED BY <1>1, <1>3, <1>4, <2>1, <2>2 DEF Scan
<1>6. x = b
  BY <1>2, <1>5 DEF TakeBuf, BufTypeOK
<1>7. refcnt[b] \in Int /\ \A u \in BufTask : Has(u, b) => refcnt[b] > 0
  BY <1>2, HeldIsInUse DEF BufTypeOK
<1>8. refcnt[b] >= 0
  <2>1. IsFiniteSet(BufHolders(b)) /\ IsFiniteSet(BufWriters(b))
    BY BufAssumption, FS_Subset DEF BufHolders, BufWriters
  <2>2. Cardinality(BufHolders(b)) \in Nat /\ Cardinality(BufWriters(b)) \in Nat
    BY <2>1, FS_CardinalityType
  <2> QED BY <1>2, <2>2 DEF BufCounts
<1> QED BY <1>5, <1>6, <1>7, <1>8 DEF InUse, Locked, Has

\* getb (fs/buf.cc) gives no buffer to another block that a task holds,
\* waits for or does I/O on, nor one whose contents are not written yet.
THEOREM HeldBlocksStay == BufSpec => HeldKeepsBlock
<1>1. BufInv /\ [BufNext]_bufvars =>
        [\A b \in Buf : blk'[b] # blk[b] =>
           /\ refcnt[b] = 0 /\ io[b] = "free" /\ bstate[b] # "BDIRTY"
           /\ \A t \in BufTask : b \in call[t].buf => tpc[t] = "waitany"]_bufvars
  BY OnlyScanTakes
<1> QED BY <1>1, BufStarts, BufKeeps, PTL DEF BufSpec, HeldKeepsBlock

----------------------------------------------------------------------------
(* The inode cache. *)

IPc == {"out", "geti", "wait", "hit", "read", "write", "have", "open", "lose", "trunc", "done", "fail",
        "next", "lock", "umount"}
Fields == [nlink : Int, full : BOOLEAN]
ICallRec ==
  [op : {"none", "open", "unlink", "sync", "umount"}, ino : Ino \cup {NoIno}, slot : SUBSET Slot,
   cand : Int, left : SUBSET Slot]

ITypeOK ==
  /\ ino \in [Slot -> Ino \cup {NoIno}]
  /\ istate \in [Slot -> {"IINVAL", "ICLEAN", "IDIRTY"}]
  /\ irefcnt \in [Slot -> Int] /\ ilock \in [Slot -> BOOLEAN]
  /\ slot \in [Slot -> Fields] /\ ifreeq \in Seq(Slot)
  /\ dinode \in [Ino -> Fields] /\ newest \in [Ino -> Fields]
  /\ imap \in SUBSET Ino /\ links \in [Ino -> Int] /\ iexcused \in SUBSET Ino
  /\ dirlock \in [ITask -> {"free", "r", "w"}]
  /\ ipc \in [ITask -> IPc] /\ icall \in [ITask -> ICallRec]

\* Where a task is says what it has.
NoSlotPc == {"out", "geti", "done", "next", "umount"}
Searches == {"geti", "wait", "hit", "read", "have"}
Named == {"open", "unlink"}
ITaskOK(t) ==
  /\ ipc[t] \in NoSlotPc => icall[t].slot = {}
  /\ ipc[t] \notin NoSlotPc /\ ipc[t] # "fail" => \E s \in Slot : icall[t].slot = {s}
  /\ ipc[t] = "fail" => icall[t].slot = {} \/ \E s \in Slot : icall[t].slot = {s}
  /\ ipc[t] = "out" => icall[t].op = "none"
  /\ ipc[t] \in Searches \cup {"open", "fail"} => icall[t].op \in Named /\ icall[t].ino \in Ino
  /\ ipc[t] \in {"next", "lock", "umount"} => icall[t].op \in {"sync", "umount"}
  /\ ipc[t] = "umount" => icall[t].op = "umount" /\ icall[t].left = {}
  /\ ipc[t] = "write" => icall[t].op \in Named \cup {"sync", "umount"}
  /\ ipc[t] = "write" /\ icall[t].op \in Named => dirlock[t] # "free" /\ icall[t].ino \in Ino
  /\ ipc[t] \in Searches => dirlock[t] # "free"
  /\ ipc[t] \in {"hit", "read", "have", "open"} => \A s \in icall[t].slot : ino[s] = icall[t].ino
  /\ ipc[t] \in {"write", "trunc"} => \A s \in icall[t].slot : ino[s] \in Ino
  /\ ipc[t] \in {"read", "write"} => \A s \in icall[t].slot : ilock[s]

\* One task at a time reads or writes an inode.
ILocksOK ==
  \A t, u \in ITask : \A s \in icall[t].slot \cap icall[u].slot :
    ipc[t] \in {"read", "write"} /\ ipc[u] \in {"read", "write"} => t = u

HasSlot(t, s) ==
  /\ s \in icall[t].slot
  /\ \/ ipc[t] \in {"hit", "read", "have", "open", "lose", "lock", "fail"}
     \/ ipc[t] = "write" /\ Syncs(t)
SlotHolders(s) == {t \in ITask : HasSlot(t, s)}
ICounts == \A s \in Slot : irefcnt[s] = Cardinality(SlotHolders(s))

OneSlot == \A r, s \in Slot : ino[r] = ino[s] /\ ino[r] \in Ino => r = s
ValidIno == \A s \in Slot : istate[s] # "IINVAL" => ino[s] \in Ino

\* What a task may rely on, as long as its inode has no excuse.
UseOK(t, s) ==
  /\ ipc[t] \in {"have", "open"} => istate[s] # "IINVAL"
  /\ ipc[t] = "read" => istate[s] = "IINVAL"
  /\ ipc[t] = "write" => istate[s] = "IDIRTY"
  /\ ipc[t] = "trunc" =>
       /\ irefcnt[s] = 0 /\ istate[s] # "IINVAL" /\ ~(slot[s].nlink > 0)
       /\ \A u \in ITask \ {t} : ipc[u] = "trunc" => s \notin icall[u].slot
UsesOK == \A t \in ITask : \A s \in icall[t].slot : ino[s] \notin iexcused => UseOK(t, s)

\* What umount has written stays written.
UmountOK ==
  \A t \in ITask : icall[t].op = "umount" =>
    \A s \in Slot \ icall[t].left :
      istate[s] = "IDIRTY" /\ ino[s] \notin iexcused => ipc[t] \in {"lock", "write"} /\ s \in icall[t].slot

InodeOK(i) ==
  /\ i \notin imap => ~(links[i] > 0)
  /\ i \in imap =>
       /\ links[i] = newest[i].nlink
       /\ \A s \in Findi(i) : istate[s] # "IINVAL" => slot[s] = newest[i]
       /\ (\A s \in Findi(i) : istate[s] # "IDIRTY") => dinode[i] = newest[i]
CachedOK == \A i \in Ino \ iexcused : InodeOK(i)

ITasksOK == \A t \in ITask : ITaskOK(t)
IInv ==
  ITypeOK /\ ITasksOK /\ ILocksOK /\ ICounts /\ OneSlot /\ ValidIno /\ UsesOK /\ UmountOK /\ CachedOK

----------------------------------------------------------------------------
(* What the steps of a task have in common. *)

IFrame(t) ==
  \A u \in ITask \ {t} : ipc'[u] = ipc[u] /\ icall'[u] = icall[u] /\ dirlock'[u] = dirlock[u]

LEMMA OneITaskApart ==
  ASSUME NEW S \in SUBSET ITask, NEW T \in SUBSET ITask, NEW t \in ITask,
         \A u \in ITask \ {t} : u \in S <=> u \in T
  PROVE  /\ Cardinality(T) = Cardinality(S) + Bit(t \in T) - Bit(t \in S)
         /\ Cardinality(S) \in Nat /\ Cardinality(T) \in Nat
<1>1. IsFiniteSet(S) /\ IsFiniteSet(T)
  BY IAssumption, FS_Subset
<1>2. Cardinality(S) \in Nat /\ Cardinality(T) \in Nat
  BY <1>1, FS_CardinalityType
<1>3. CASE t \in S <=> t \in T
  <2>1. S = T
    BY <1>3
  <2> QED BY <1>2, <2>1 DEF Bit
<1>4. CASE t \in T /\ t \notin S
  <2>1. T = S \cup {t}
    BY <1>4
  <2> QED BY <1>1, <1>2, <1>4, <2>1, FS_AddElement DEF Bit
<1>5. CASE t \in S /\ t \notin T
  <2>1. T = S \ {t}
    BY <1>5
  <2> QED BY <1>1, <1>2, <1>5, <2>1, FS_RemoveElement DEF Bit
<1> QED BY <1>3, <1>4, <1>5

\* The counts follow what t has.
IFollows(t) == \A s \in Slot : irefcnt'[s] = irefcnt[s] + Bit(HasSlot(t, s)') - Bit(HasSlot(t, s))

LEMMA ICountsFollow ==
  ASSUME ICounts, NEW t \in ITask, IFrame(t), IFollows(t)
  PROVE  ICounts'
<1> SUFFICES ASSUME NEW s \in Slot
             PROVE  irefcnt'[s] = Cardinality(SlotHolders(s)')
  BY DEF ICounts
<1>1. SlotHolders(s) \in SUBSET ITask /\ SlotHolders(s)' \in SUBSET ITask
  BY DEF SlotHolders
<1>2. \A u \in ITask \ {t} : u \in SlotHolders(s) <=> u \in SlotHolders(s)'
  BY DEF IFrame, SlotHolders, HasSlot, Syncs
<1>3. /\ Cardinality(SlotHolders(s)') =
           Cardinality(SlotHolders(s)) + Bit(t \in SlotHolders(s)') - Bit(t \in SlotHolders(s))
      /\ Cardinality(SlotHolders(s)) \in Nat /\ Cardinality(SlotHolders(s)') \in Nat
  BY <1>1, <1>2, OneITaskApart
<1>4. (t \in SlotHolders(s) <=> HasSlot(t, s)) /\ (t \in SlotHolders(s)' <=> HasSlot(t, s)')
  BY DEF SlotHolders
<1>5. irefcnt[s] = Cardinality(SlotHolders(s))
  BY DEF ICounts
<1>6. irefcnt'[s] = irefcnt[s] + Bit(HasSlot(t, s)') - Bit(HasSlot(t, s))
  BY DEF IFollows
<1> QED BY <1>3, <1>4, <1>5, <1>6 DEF Bit

\* A slot that a task has is in use, and counts are not negative.
LEMMA HeldSlotInUse ==
  ASSUME ICounts, NEW s \in Slot
  PROVE  irefcnt[s] \in Nat /\ \A t \in ITask : HasSlot(t, s) => irefcnt[s] > 0
<1>1. SlotHolders(s) \in SUBSET ITask
  BY DEF SlotHolders
<1>2. IsFiniteSet(SlotHolders(s))
  BY <1>1, IAssumption, FS_Subset
<1>3. Cardinality(SlotHolders(s)) \in Nat
  BY <1>2, FS_CardinalityType
<1>4. ASSUME NEW t \in ITask, HasSlot(t, s) PROVE Cardinality(SlotHolders(s)) # 0
  <2>1. SlotHolders(s) # {}
    BY <1>4 DEF SlotHolders
  <2> QED BY <1>2, <2>1, FS_EmptySet
<1> QED BY <1>3, <1>4 DEF ICounts

\* Only an unheld, unlocked slot gets another number; a slot is unlocked by
\* the task that locked it, and locked when nobody has the lock.
SafeIno == \A s \in Slot : ino'[s] = ino[s] \/ (irefcnt[s] = 0 /\ ~ilock[s] /\ ino'[s] \in Ino)
SafeLock(t) ==
  /\ \A s \in Slot : ilock'[s] = ilock[s] \/ ilock'[s] \/ (s \in icall[t].slot /\ ipc[t] \in {"read", "write"})
  /\ ipc'[t] \in {"read", "write"} => \A s \in icall'[t].slot : ~ilock[s]

\* What t and the others may rely on after a step of t.
MyUse(t) == \A s \in icall'[t].slot : ino'[s] \notin iexcused' => UseOK(t, s)'
OtherUse(t) ==
  \A u \in ITask \ {t} : \A s \in icall[u].slot : ino'[s] \notin iexcused' => UseOK(u, s)'

\* What umount has written.
Written(t) ==
  icall'[t].op = "umount" =>
    \A s \in Slot \ icall'[t].left :
      istate'[s] = "IDIRTY" /\ ino'[s] \notin iexcused' => ipc'[t] \in {"lock", "write"} /\ s \in icall'[t].slot
NoNewDirt(t) ==
  (\E u \in ITask \ {t} : icall[u].op = "umount") =>
    \A s \in Slot : istate'[s] = "IDIRTY" /\ ino'[s] \notin iexcused' =>
      istate[s] = "IDIRTY" /\ ino[s] \notin iexcused

LEMMA OthersStand ==
  ASSUME IInv, NEW t \in ITask, IFrame(t), ITypeOK', SafeIno, SafeLock(t)
  PROVE  \A u \in ITask \ {t} : ITaskOK(u)'
<1> SUFFICES ASSUME NEW u \in ITask \ {t} PROVE ITaskOK(u)'
  OBVIOUS
<1>1. ITypeOK /\ ITaskOK(u) /\ ICounts /\ ILocksOK
  BY DEF IInv, ITasksOK
<1>2. ipc'[u] = ipc[u] /\ icall'[u] = icall[u] /\ dirlock'[u] = dirlock[u]
  BY DEF IFrame
<1>3. icall[u].slot \subseteq Slot
  BY <1>1 DEF ITypeOK, ICallRec
<1>4. ASSUME ipc[u] \in {"hit", "read", "have", "open"}, NEW s \in icall[u].slot
      PROVE  ino'[s] = icall[u].ino
  <2>1. HasSlot(u, s)
    BY <1>4 DEF HasSlot
  <2>2. irefcnt[s] # 0
    BY <1>1, <1>3, <1>4, <2>1, HeldSlotInUse
  <2> QED BY <1>1, <1>3, <1>4, <2>2 DEF ITaskOK, SafeIno
<1>5. ASSUME ipc[u] \in {"write", "trunc"}, NEW s \in icall[u].slot
      PROVE  ino'[s] \in Ino
  BY <1>1, <1>3, <1>5 DEF ITaskOK, SafeIno
<1>6. ASSUME ipc[u] \in {"read", "write"}, NEW s \in icall[u].slot
      PROVE  ilock'[s]
  <2>1. ilock[s]
    BY <1>1, <1>6 DEF ITaskOK
  <2>2. ~(s \in icall[t].slot /\ ipc[t] \in {"read", "write"})
    BY <1>1, <1>6 DEF ILocksOK
  <2> QED BY <1>3, <2>1, <2>2 DEF SafeLock
<1> QED BY <1>1, <1>2, <1>4, <1>5, <1>6 DEF ITaskOK

LEMMA LocksStand ==
  ASSUME IInv, NEW t \in ITask, IFrame(t), SafeLock(t)
  PROVE  ILocksOK'
<1> SUFFICES ASSUME NEW u \in ITask, NEW v \in ITask, u # v, NEW s,
                    s \in icall'[u].slot, s \in icall'[v].slot,
                    ipc'[u] \in {"read", "write"}, ipc'[v] \in {"read", "write"}
             PROVE  FALSE
  BY DEF ILocksOK
<1>1. ITasksOK /\ ILocksOK
  BY DEF IInv
<1>2. CASE u # t /\ v # t
  BY <1>1, <1>2 DEF IFrame, ILocksOK
<1>3. CASE u = t
  <2>1. ipc[v] \in {"read", "write"} /\ s \in icall[v].slot
    BY <1>3 DEF IFrame
  <2>2. ilock[s]
    BY <1>1, <2>1 DEF ITasksOK, ITaskOK
  <2> QED BY <1>3, <2>2 DEF SafeLock
<1>4. CASE v = t
  <2>1. ipc[u] \in {"read", "write"} /\ s \in icall[u].slot
    BY <1>4 DEF IFrame
  <2>2. ilock[s]
    BY <1>1, <2>1 DEF ITasksOK, ITaskOK
  <2> QED BY <1>4, <2>2 DEF SafeLock
<1> QED BY <1>2, <1>3, <1>4

LEMMA IKeeps ==
  ASSUME IInv, NEW t \in ITask, IFrame(t), ITypeOK', ITaskOK(t)', SafeIno, SafeLock(t), IFollows(t),
         MyUse(t), OtherUse(t), Written(t), NoNewDirt(t), OneSlot', ValidIno', CachedOK'
  PROVE  IInv'
<1>1. ITasksOK'
  BY OthersStand DEF ITasksOK
<1>2. ILocksOK' /\ ICounts'
  BY LocksStand, ICountsFollow DEF IInv
<1>3. UsesOK'
  <2> SUFFICES ASSUME NEW u \in ITask, NEW s \in icall'[u].slot, ino'[s] \notin iexcused'
               PROVE  UseOK(u, s)'
    BY DEF UsesOK
  <2>1. CASE u = t
    BY <2>1 DEF MyUse
  <2>2. CASE u # t
    <3>1. s \in icall[u].slot
      BY <2>2 DEF IFrame
    <3> QED BY <2>2, <3>1 DEF OtherUse
  <2> QED BY <2>1, <2>2
<1>4. UmountOK'
  <2> SUFFICES ASSUME NEW u \in ITask, icall'[u].op = "umount", NEW s \in Slot \ icall'[u].left,
                      istate'[s] = "IDIRTY", ino'[s] \notin iexcused'
               PROVE  ipc'[u] \in {"lock", "write"} /\ s \in icall'[u].slot
    BY DEF UmountOK
  <2>1. CASE u = t
    BY <2>1 DEF Written
  <2>2. CASE u # t
    <3>1. icall'[u] = icall[u] /\ ipc'[u] = ipc[u]
      BY <2>2 DEF IFrame
    <3>2. istate[s] = "IDIRTY" /\ ino[s] \notin iexcused
      BY <2>2, <3>1 DEF NoNewDirt
    <3> QED BY <3>1, <3>2 DEF IInv, UmountOK
  <2> QED BY <2>1, <2>2
<1> QED BY <1>1, <1>2, <1>3, <1>4 DEF IInv

----------------------------------------------------------------------------
(* Steps that leave the inodes alone. *)

IMoves(t, l, d) ==
  /\ IGoto(t, l) \/ (ipc' = ipc /\ ipc[t] = l)
  /\ ICall(t, d) \/ (icall' = icall /\ icall[t] = d)

LEMMA IMovesIs ==
  ASSUME ITypeOK, NEW t \in ITask, NEW l \in IPc, NEW d \in ICallRec, IMoves(t, l, d)
  PROVE  /\ icall' \in [ITask -> ICallRec] /\ icall'[t] = d
         /\ ipc' \in [ITask -> IPc] /\ ipc'[t] = l
         /\ \A u \in ITask \ {t} : ipc'[u] = ipc[u] /\ icall'[u] = icall[u]
<1>1. icall' \in [ITask -> ICallRec] /\ icall'[t] = d /\ \A u \in ITask \ {t} : icall'[u] = icall[u]
  BY DEF IMoves, ICall, ITypeOK
<1>2. ipc' \in [ITask -> IPc] /\ ipc'[t] = l /\ \A u \in ITask \ {t} : ipc'[u] = ipc[u]
  BY DEF IMoves, IGoto, ITypeOK
<1> QED BY <1>1, <1>2

LEMMA SlotOfCall ==
  ASSUME NEW c \in ICallRec, NEW S \in SUBSET Slot
  PROVE  \E d \in ICallRec : /\ d = [c EXCEPT !.slot = S] /\ d.slot = S
                             /\ d.op = c.op /\ d.ino = c.ino /\ d.left = c.left
<1>1. /\ [c EXCEPT !.slot = S] \in ICallRec /\ [c EXCEPT !.slot = S].slot = S
      /\ [c EXCEPT !.slot = S].op = c.op /\ [c EXCEPT !.slot = S].ino = c.ino
      /\ [c EXCEPT !.slot = S].left = c.left
  BY DEF ICallRec
<1> QED BY <1>1

LEMMA NoSlotTyped ==
  NoSlot \in ICallRec /\ NoSlot.op = "none" /\ NoSlot.slot = {} /\ NoSlot.left = {}
BY DEF NoSlot, ICallRec

LEMMA MyIs ==
  ASSUME NEW t \in ITask, NEW s, icall[t].slot = {s}
  PROVE  My(t) = s
BY DEF My

\* The directory's lock is t's own.
DirFrame(t) == dirlock' \in [ITask -> {"free", "r", "w"}] /\ \A u \in ITask \ {t} : dirlock'[u] = dirlock[u]
IStill == UNCHANGED <<ino, istate, irefcnt, slot, dinode, imap, links, newest, iexcused>>
SameHeld(t) == \A s \in Slot : HasSlot(t, s)' <=> HasSlot(t, s)

LEMMA IQuiet ==
  ASSUME IInv, NEW t \in ITask, NEW l \in IPc \ {"trunc"}, NEW d \in ICallRec, IMoves(t, l, d), IStill,
         ifreeq' \in Seq(Slot), ilock' \in [Slot -> BOOLEAN], DirFrame(t),
         ITaskOK(t)', SafeLock(t), SameHeld(t), MyUse(t), Written(t)
  PROVE  IInv'
<1>1. ITypeOK /\ UsesOK /\ ICounts
  BY DEF IInv
<1>2. /\ ino' = ino /\ istate' = istate /\ irefcnt' = irefcnt /\ slot' = slot /\ dinode' = dinode
      /\ imap' = imap /\ links' = links /\ newest' = newest /\ iexcused' = iexcused
  BY DEF IStill
<1>3. /\ icall' \in [ITask -> ICallRec] /\ icall'[t] = d
      /\ ipc' \in [ITask -> IPc] /\ ipc'[t] = l
      /\ \A u \in ITask \ {t} : ipc'[u] = ipc[u] /\ icall'[u] = icall[u]
  BY <1>1, IMovesIs
<1>4. IFrame(t)
  BY <1>3 DEF IFrame, DirFrame
<1>5. ITypeOK'
  BY <1>1, <1>2, <1>3 DEF ITypeOK, DirFrame
<1>6. SafeIno
  BY <1>2 DEF SafeIno
<1>7. IFollows(t)
  <2>1. \A s \in Slot : irefcnt[s] \in Int
    BY <1>1 DEF ITypeOK
  <2>2. ASSUME NEW s \in Slot PROVE Bit(HasSlot(t, s)') = Bit(HasSlot(t, s)) /\ Bit(HasSlot(t, s)) \in Int
    BY DEF SameHeld, Bit
  <2> QED BY <1>2, <2>1, <2>2 DEF IFollows
<1>8. OtherUse(t)
  <2> SUFFICES ASSUME NEW u \in ITask \ {t}, NEW s \in icall[u].slot, ino[s] \notin iexcused
               PROVE  UseOK(u, s)'
    BY <1>2 DEF OtherUse
  <2>1. UseOK(u, s)
    BY <1>1 DEF UsesOK
  <2>2. \A v \in ITask \ {u} : ipc'[v] = "trunc" => ipc[v] = "trunc" /\ icall'[v] = icall[v]
    BY <1>3
  <2> QED BY <1>2, <1>3, <2>1, <2>2 DEF UseOK
<1>9. NoNewDirt(t)
  BY <1>2 DEF NoNewDirt
<1>10. OneSlot' /\ ValidIno'
  BY <1>2 DEF IInv, OneSlot, ValidIno
<1>11. CachedOK'
  BY <1>2 DEF IInv, CachedOK, InodeOK, Findi
<1> QED BY <1>4, <1>5, <1>6, <1>7, <1>8, <1>9, <1>10, <1>11, IKeeps

\* The same when the locks of the inodes stay, too.
LEMMA IStays ==
  ASSUME IInv, NEW t \in ITask, NEW l \in IPc \ {"trunc", "read", "write"}, NEW d \in ICallRec,
         IMoves(t, l, d), IStill, ifreeq' \in Seq(Slot), ilock' = ilock, DirFrame(t),
         ITaskOK(t)', SameHeld(t), MyUse(t), Written(t)
  PROVE  IInv'
<1>1. ITypeOK
  BY DEF IInv
<1>2. ipc'[t] = l
  BY <1>1, IMovesIs
<1>3. ilock' \in [Slot -> BOOLEAN] /\ SafeLock(t)
  BY <1>1, <1>2 DEF ITypeOK, SafeLock
<1> QED BY <1>3, IQuiet

LEMMA TableStill ==
  ASSUME IInv, UNCHANGED table
  PROVE  /\ ino' = ino /\ istate' = istate /\ irefcnt' = irefcnt /\ slot' = slot /\ ilock' = ilock
         /\ ifreeq' = ifreeq /\ ifreeq' \in Seq(Slot)
BY DEF table, IInv, ITypeOK

LEMMA DirStays ==
  ASSUME IInv, NEW t \in ITask, dirlock' = dirlock
  PROVE  DirFrame(t)
BY DEF DirFrame, IInv, ITypeOK

LEMMA DirSet ==
  ASSUME IInv, NEW t \in ITask, NEW l \in {"free", "r", "w"}, dirlock' = [dirlock EXCEPT ![t] = l]
  PROVE  DirFrame(t) /\ dirlock'[t] = l
BY DEF DirFrame, IInv, ITypeOK

LEMMA WaitOtherStep ==
  ASSUME IInv, NEW t \in ITask, WaitOther(t)
  PROVE  IInv'
<1>1. ITypeOK /\ ITaskOK(t) /\ ipc[t] = "wait"
  BY DEF IInv, ITasksOK, WaitOther
<1>2. UNCHANGED table /\ UNCHANGED <<dinode, imap, links, newest, iexcused, dirlock>>
  BY DEF WaitOther, ondisk
<1>3. IStill /\ ilock' = ilock /\ ifreeq' \in Seq(Slot) /\ DirFrame(t) /\ dirlock' = dirlock
  BY <1>2, TableStill, DirStays DEF IStill
<1>4. PICK c \in ICallRec : c = icall[t]
  BY <1>1 DEF ITypeOK
<1>5. PICK d \in ICallRec : /\ d = [c EXCEPT !.slot = {}] /\ d.slot = {}
                            /\ d.op = c.op /\ d.ino = c.ino /\ d.left = c.left
  BY SlotOfCall
<1>6. IMoves(t, "geti", d) /\ "geti" \in IPc \ {"trunc", "read", "write"} /\ "geti" \in IPc
  BY <1>4, <1>5 DEF WaitOther, IMoves, IPc
<1>7. icall'[t] = d /\ ipc'[t] = "geti"
  BY <1>1, <1>6, IMovesIs
<1>8. c.op \in Named /\ c.ino \in Ino /\ dirlock'[t] # "free"
  BY <1>1, <1>3, <1>4 DEF ITaskOK, Searches
<1>9. ITaskOK(t)'
  BY <1>5, <1>7, <1>8 DEF ITaskOK, NoSlotPc, Searches
<1>10. SameHeld(t) /\ MyUse(t) /\ Written(t)
  BY <1>1, <1>5, <1>7, <1>8 DEF SameHeld, HasSlot, MyUse, Written, Named
<1> QED BY <1>3, <1>6, <1>9, <1>10, IStays

LEMMA OpenedStep ==
  ASSUME IInv, NEW t \in ITask, Opened(t)
  PROVE  IInv'
<1>1. ITypeOK /\ ITaskOK(t) /\ UsesOK /\ ipc[t] = "have"
  BY DEF IInv, ITasksOK, Opened
<1>2. UNCHANGED table /\ UNCHANGED <<dinode, imap, links, newest, iexcused, icall>>
  BY DEF Opened
<1>3. IStill /\ ilock' = ilock /\ ifreeq' \in Seq(Slot) /\ DirFrame(t)
  BY <1>2, TableStill, DirSet DEF IStill, Opened
<1>4. PICK c \in ICallRec : c = icall[t]
  BY <1>1 DEF ITypeOK
<1>5. IMoves(t, "open", c) /\ "open" \in IPc \ {"trunc", "read", "write"} /\ "open" \in IPc
  BY <1>2, <1>4 DEF Opened, IMoves, IPc
<1>6. icall'[t] = c /\ ipc'[t] = "open"
  BY <1>1, <1>5, IMovesIs
<1>7. c.op \in Named /\ c.ino \in Ino /\ (\E s \in Slot : c.slot = {s}) /\ \A s \in c.slot : ino[s] = c.ino
  BY <1>1, <1>4 DEF ITaskOK, Searches, NoSlotPc
<1>8. ino' = ino /\ istate' = istate /\ iexcused' = iexcused
  BY <1>3 DEF IStill
<1>9. ITaskOK(t)'
  BY <1>6, <1>7, <1>8 DEF ITaskOK, NoSlotPc, Searches
<1>10. SameHeld(t) /\ Written(t)
  BY <1>1, <1>4, <1>6, <1>7 DEF SameHeld, HasSlot, Written, Named
<1>11. MyUse(t)
  BY <1>1, <1>4, <1>6, <1>8 DEF MyUse, UsesOK, UseOK
<1> QED BY <1>3, <1>5, <1>9, <1>10, <1>11, IStays

LEMMA CloseInodeStep ==
  ASSUME IInv, NEW t \in ITask, CloseInode(t)
  PROVE  IInv'
<1>1. ITypeOK /\ ITaskOK(t) /\ ipc[t] = "open"
  BY DEF IInv, ITasksOK, CloseInode
<1>2. UNCHANGED table /\ UNCHANGED <<dinode, imap, links, newest, iexcused, icall, dirlock>>
  BY DEF CloseInode, ondisk
<1>3. IStill /\ ilock' = ilock /\ ifreeq' \in Seq(Slot) /\ DirFrame(t)
  BY <1>2, TableStill, DirStays DEF IStill
<1>4. PICK c \in ICallRec : c = icall[t]
  BY <1>1 DEF ITypeOK
<1>5. IMoves(t, "lose", c) /\ "lose" \in IPc \ {"trunc", "read", "write"} /\ "lose" \in IPc
  BY <1>2, <1>4 DEF CloseInode, IMoves, IPc
<1>6. icall'[t] = c /\ ipc'[t] = "lose"
  BY <1>1, <1>5, IMovesIs
<1>7. c.op \in Named /\ (\E s \in Slot : c.slot = {s})
  BY <1>1, <1>4 DEF ITaskOK, Searches, NoSlotPc
<1>8. ITaskOK(t)'
  BY <1>6, <1>7 DEF ITaskOK, NoSlotPc, Searches
<1>9. SameHeld(t) /\ Written(t) /\ MyUse(t)
  BY <1>1, <1>4, <1>6, <1>7 DEF SameHeld, HasSlot, Written, Named, MyUse, UseOK
<1> QED BY <1>3, <1>5, <1>8, <1>9, IStays

LEMMA IReturnStep ==
  ASSUME IInv, NEW t \in ITask, IReturn(t)
  PROVE  IInv'
<1>1. ITypeOK /\ ITaskOK(t) /\ UmountOK /\ ipc[t] = "done"
  BY DEF IInv, ITasksOK, IReturn
<1>2. UNCHANGED table /\ UNCHANGED <<dinode, imap, links, newest, iexcused>>
  BY DEF IReturn
<1>3. IStill /\ ilock' = ilock /\ ifreeq' \in Seq(Slot) /\ DirFrame(t)
  BY <1>2, TableStill, DirSet DEF IStill, IReturn
<1>4. PICK c \in ICallRec : c = icall[t] /\ c.slot = {}
  BY <1>1 DEF ITypeOK, ITaskOK, NoSlotPc
<1>5. ino' = ino /\ istate' = istate /\ iexcused' = iexcused
  BY <1>3 DEF IStill
<1>6. CASE Syncs(t)
  <2>1. IMoves(t, "next", c) /\ "next" \in IPc \ {"trunc", "read", "write"} /\ "next" \in IPc
    BY <1>4, <1>6 DEF IReturn, IMoves, IPc
  <2>2. icall'[t] = c /\ ipc'[t] = "next"
    BY <1>1, <2>1, IMovesIs
  <2>3. ITaskOK(t)'
    BY <1>4, <1>6, <2>2 DEF ITaskOK, NoSlotPc, Searches, Syncs
  <2>4. SameHeld(t) /\ MyUse(t)
    BY <1>1, <1>4, <2>2 DEF SameHeld, HasSlot, MyUse
  <2>5. Written(t)
    BY <1>1, <1>4, <1>5, <2>2 DEF Written, UmountOK
  <2> QED BY <1>3, <2>1, <2>3, <2>4, <2>5, IStays
<1>7. CASE ~Syncs(t)
  <2>1. IMoves(t, "out", NoSlot) /\ "out" \in IPc \ {"trunc", "read", "write"} /\ "out" \in IPc
    BY <1>7 DEF IReturn, IMoves, IPc
  <2>2. icall'[t] = NoSlot /\ ipc'[t] = "out"
    BY <1>1, <2>1, IMovesIs, NoSlotTyped
  <2>3. ITaskOK(t)' /\ Written(t)
    BY <2>2, NoSlotTyped DEF ITaskOK, NoSlotPc, Searches, Written
  <2>4. SameHeld(t) /\ MyUse(t)
    BY <1>1, <1>4, <2>2, NoSlotTyped DEF SameHeld, HasSlot, MyUse
  <2> QED BY <1>3, <2>1, <2>3, <2>4, IStays, NoSlotTyped
<1> QED BY <1>6, <1>7

LEMMA IFailStep ==
  ASSUME IInv, NEW t \in ITask, IFail(t)
  PROVE  IInv'
<1>1. ITypeOK /\ ITaskOK(t) /\ ipc[t] = "fail"
  BY DEF IInv, ITasksOK, IFail
<1>2. UNCHANGED table /\ UNCHANGED <<dinode, imap, links, newest, iexcused, icall, dirlock>>
  BY DEF IFail, ondisk
<1>3. IStill /\ ilock' = ilock /\ ifreeq' \in Seq(Slot) /\ DirFrame(t)
  BY <1>2, TableStill, DirStays DEF IStill
<1>4. PICK c \in ICallRec : c = icall[t]
  BY <1>1 DEF ITypeOK
<1>5. PICK l \in {"done", "lose"} : l = IF c.slot = {} THEN "done" ELSE "lose"
  OBVIOUS
<1>6. IMoves(t, l, c) /\ l \in IPc \ {"trunc", "read", "write"} /\ l \in IPc
  BY <1>2, <1>4, <1>5 DEF IFail, IMoves, IPc
<1>7. icall'[t] = c /\ ipc'[t] = l
  BY <1>1, <1>6, IMovesIs
<1>8. c.op \in Named /\ (c.slot = {} \/ \E s \in Slot : c.slot = {s})
  BY <1>1, <1>4 DEF ITaskOK
<1>9. ITaskOK(t)'
  BY <1>5, <1>7, <1>8 DEF ITaskOK, NoSlotPc, Searches
<1>10. SameHeld(t) /\ Written(t) /\ MyUse(t)
  BY <1>1, <1>4, <1>5, <1>7, <1>8 DEF SameHeld, HasSlot, Written, Named, MyUse, UseOK
<1> QED BY <1>3, <1>6, <1>9, <1>10, IStays

LEMMA LookupStep ==
  ASSUME IInv, NEW t \in ITask, NEW i \in Ino, NEW op \in {"open", "unlink"}, Lookup(t, op, i)
  PROVE  IInv'
<1>1. ITypeOK /\ ITaskOK(t) /\ ipc[t] = "out"
  BY DEF IInv, ITasksOK, Lookup
<1>2. UNCHANGED table /\ UNCHANGED <<dinode, imap, links, newest, iexcused>>
  BY DEF Lookup
<1>3. PICK m \in {"r", "w"} : dirlock' = [dirlock EXCEPT ![t] = m]
  BY DEF Lookup
<1>4. IStill /\ ilock' = ilock /\ ifreeq' \in Seq(Slot) /\ DirFrame(t) /\ dirlock'[t] = m
  BY <1>2, <1>3, TableStill, DirSet DEF IStill
<1>5. PICK k \in Int : k = ICANDIDATES
  BY IAssumption
<1>6. PICK r \in ICallRec : r = NoSlot /\ r.slot = {}
  BY NoSlotTyped
<1> DEFINE d == [r EXCEPT !.op = op, !.ino = i, !.cand = k]
<1>7. d \in ICallRec /\ d.op = op /\ d.ino = i /\ d.slot = r.slot
  BY DEF ICallRec
<1>8. ICall(t, d) /\ IGoto(t, "geti")
  BY <1>5, <1>6 DEF Lookup
<1> HIDE DEF d
<1>9. IMoves(t, "geti", d) /\ "geti" \in IPc \ {"trunc", "read", "write"} /\ "geti" \in IPc
  BY <1>8 DEF IMoves, IPc
<1>10. icall'[t] = d /\ ipc'[t] = "geti"
  BY <1>1, <1>7, <1>9, IMovesIs
<1>11. ITaskOK(t)'
  BY <1>3, <1>4, <1>6, <1>7, <1>10 DEF ITaskOK, NoSlotPc, Searches, Named
<1>12. SameHeld(t) /\ Written(t) /\ MyUse(t)
  BY <1>1, <1>6, <1>7, <1>10 DEF SameHeld, HasSlot, Written, MyUse
<1> QED BY <1>4, <1>7, <1>9, <1>11, <1>12, IStays

LEMMA SynciStep ==
  ASSUME IInv, NEW t \in ITask, NEW op \in {"sync", "umount"}, Synci(t, op)
  PROVE  IInv'
<1>1. ITypeOK /\ ITaskOK(t) /\ ipc[t] = "out"
  BY DEF IInv, ITasksOK, Synci
<1>2. UNCHANGED table /\ UNCHANGED <<dinode, imap, links, newest, iexcused, dirlock>>
  BY DEF Synci, ondisk
<1>3. IStill /\ ilock' = ilock /\ ifreeq' \in Seq(Slot) /\ DirFrame(t)
  BY <1>2, TableStill, DirStays DEF IStill
<1>4. PICK r \in ICallRec : r = NoSlot /\ r.slot = {}
  BY NoSlotTyped
<1> DEFINE d == [r EXCEPT !.op = op, !.left = Slot]
<1>5. d \in ICallRec /\ d.op = op /\ d.left = Slot /\ d.slot = r.slot
  BY DEF ICallRec
<1>6. ICall(t, d) /\ IGoto(t, "next")
  BY <1>4 DEF Synci
<1> HIDE DEF d
<1>7. IMoves(t, "next", d) /\ "next" \in IPc \ {"trunc", "read", "write"} /\ "next" \in IPc
  BY <1>6 DEF IMoves, IPc
<1>8. icall'[t] = d /\ ipc'[t] = "next"
  BY <1>1, <1>5, <1>7, IMovesIs
<1>9. ITaskOK(t)'
  BY <1>4, <1>5, <1>8 DEF ITaskOK, NoSlotPc, Searches, Named
<1>10. SameHeld(t) /\ Written(t) /\ MyUse(t)
  BY <1>1, <1>4, <1>5, <1>8 DEF SameHeld, HasSlot, Written, MyUse
<1> QED BY <1>3, <1>5, <1>7, <1>9, <1>10, IStays

\* A task locks the inode s to read or to write it.
LEMMA LockStep ==
  ASSUME IInv, NEW t \in ITask, NEW s \in Slot, ilock' = [ilock EXCEPT ![s] = TRUE], ~ilock[s],
         icall'[t].slot = {s}
  PROVE  ilock' \in [Slot -> BOOLEAN] /\ SafeLock(t) /\ ilock'[s]
<1>1. ilock \in [Slot -> BOOLEAN]
  BY DEF IInv, ITypeOK
<1>2. ilock' \in [Slot -> BOOLEAN] /\ ilock'[s] /\ \A r \in Slot \ {s} : ilock'[r] = ilock[r]
  BY <1>1
<1> QED BY <1>2 DEF SafeLock

\* It unlocks the inode.
LEMMA UnlockStep ==
  ASSUME IInv, NEW t \in ITask, NEW s \in Slot, ilock' = [ilock EXCEPT ![s] = FALSE],
         s \in icall[t].slot, ipc[t] \in {"read", "write"}, ipc'[t] \notin {"read", "write"}
  PROVE  ilock' \in [Slot -> BOOLEAN] /\ SafeLock(t)
<1>1. ilock \in [Slot -> BOOLEAN]
  BY DEF IInv, ITypeOK
<1>2. ilock' \in [Slot -> BOOLEAN] /\ \A r \in Slot \ {s} : ilock'[r] = ilock[r]
  BY <1>1
<1> QED BY <1>2 DEF SafeLock

LEMMA WithoutSlotSeq ==
  ASSUME ifreeq \in Seq(Slot), NEW s
  PROVE  WithoutSlot(s) \in Seq(Slot)
<1>1. CASE ~Contains(ifreeq, s)
  BY <1>1 DEF WithoutSlot
<1>2. CASE Contains(ifreeq, s)
  <2> DEFINE k == CHOOSE i \in DOMAIN ifreeq : ifreeq[i] = s
  <2>1. DOMAIN ifreeq = 1 .. Len(ifreeq)
    OBVIOUS
  <2>2. k \in 1 .. Len(ifreeq)
    BY <1>2, <2>1 DEF Contains
  <2>3. WithoutSlot(s) = RemoveAt(ifreeq, k)
    BY <1>2 DEF WithoutSlot
  <2> HIDE DEF k
  <2> QED BY <2>2, <2>3, RemovedSeq
<1> QED BY <1>1, <1>2

LEMMA IHitStep ==
  ASSUME IInv, NEW t \in ITask, IHit(t)
  PROVE  IInv'
<1>1. ITypeOK /\ ITaskOK(t) /\ ipc[t] = "hit"
  BY DEF IInv, ITasksOK, IHit
<1>2. UNCHANGED <<ino, istate, irefcnt, slot, dinode, imap, links, newest, iexcused, icall, dirlock>>
  BY DEF IHit, ondisk
<1>3. PICK c \in ICallRec, s \in Slot : c = icall[t] /\ c.slot = {s} /\ My(t) = s
  <2>1. PICK s \in Slot : icall[t].slot = {s}
    BY <1>1 DEF ITaskOK, NoSlotPc
  <2>2. icall[t] \in ICallRec /\ My(t) = s
    BY <1>1, <2>1, MyIs DEF ITypeOK
  <2> QED BY <2>1, <2>2
<1>4. IStill /\ ifreeq' \in Seq(Slot) /\ DirFrame(t) /\ dirlock' = dirlock
  BY <1>1, <1>2, DirStays, WithoutSlotSeq DEF IStill, IHit, ITypeOK
<1>5. c.op \in Named /\ c.ino \in Ino /\ ino[s] = c.ino /\ dirlock[t] # "free" /\ ~ilock[s]
  BY <1>1, <1>3 DEF ITaskOK, Searches, IHit
<1>6. ino' = ino /\ istate' = istate /\ iexcused' = iexcused
  BY <1>2
<1>7. CASE istate[s] # "IINVAL"
  <2>1. IMoves(t, "have", c) /\ "have" \in IPc \ {"trunc", "read", "write"} /\ "have" \in IPc /\ ilock' = ilock
    BY <1>2, <1>3, <1>7 DEF IHit, IMoves, IPc
  <2>2. icall'[t] = c /\ ipc'[t] = "have"
    BY <1>1, <2>1, IMovesIs
  <2>3. ITaskOK(t)'
    BY <1>3, <1>4, <1>5, <1>6, <2>2 DEF ITaskOK, NoSlotPc, Searches
  <2>4. SameHeld(t) /\ Written(t) /\ MyUse(t)
    BY <1>1, <1>3, <1>5, <1>6, <1>7, <2>2 DEF SameHeld, HasSlot, Written, Named, MyUse, UseOK
  <2> QED BY <1>4, <2>1, <2>3, <2>4, IStays
<1>8. CASE istate[s] = "IINVAL"
  <2>1. IMoves(t, "read", c) /\ "read" \in IPc \ {"trunc"} /\ "read" \in IPc /\ ilock' = [ilock EXCEPT ![s] = TRUE]
    BY <1>2, <1>3, <1>8 DEF IHit, IMoves, IPc
  <2>2. icall'[t] = c /\ ipc'[t] = "read"
    BY <1>1, <2>1, IMovesIs
  <2>3. ilock' \in [Slot -> BOOLEAN] /\ SafeLock(t) /\ ilock'[s]
    BY <1>3, <1>5, <2>1, <2>2, LockStep
  <2>4. ITaskOK(t)'
    BY <1>3, <1>4, <1>5, <1>6, <2>2, <2>3 DEF ITaskOK, NoSlotPc, Searches
  <2>5. SameHeld(t) /\ Written(t) /\ MyUse(t)
    BY <1>1, <1>3, <1>5, <1>6, <1>8, <2>2 DEF SameHeld, HasSlot, Written, Named, MyUse, UseOK
  <2> QED BY <1>4, <2>1, <2>3, <2>4, <2>5, IQuiet
<1> QED BY <1>7, <1>8

LEMMA SyncLockStep ==
  ASSUME IInv, NEW t \in ITask, SyncLock(t)
  PROVE  IInv'
<1>1. ITypeOK /\ ITaskOK(t) /\ ipc[t] = "lock" /\ UmountOK /\ ValidIno
  BY DEF IInv, ITasksOK, SyncLock
<1>2. UNCHANGED <<ino, istate, irefcnt, slot, dinode, imap, links, newest, iexcused, icall, dirlock, ifreeq>>
  BY DEF SyncLock, ondisk
<1>3. PICK c \in ICallRec, s \in Slot : c = icall[t] /\ c.slot = {s} /\ My(t) = s
  <2>1. PICK s \in Slot : icall[t].slot = {s}
    BY <1>1 DEF ITaskOK, NoSlotPc
  <2>2. icall[t] \in ICallRec /\ My(t) = s
    BY <1>1, <2>1, MyIs DEF ITypeOK
  <2> QED BY <2>1, <2>2
<1>4. IStill /\ ifreeq' \in Seq(Slot) /\ DirFrame(t) /\ dirlock' = dirlock
  BY <1>1, <1>2, DirStays DEF IStill, ITypeOK
<1>5. c.op \in {"sync", "umount"} /\ ~ilock[s]
  BY <1>1, <1>3 DEF ITaskOK, SyncLock
<1>6. ino' = ino /\ istate' = istate /\ iexcused' = iexcused
  BY <1>2
<1>7. CASE istate[s] # "IDIRTY"
  <2>1. IMoves(t, "lose", c) /\ "lose" \in IPc \ {"trunc", "read", "write"} /\ "lose" \in IPc /\ ilock' = ilock
    BY <1>2, <1>3, <1>7 DEF SyncLock, IMoves, IPc
  <2>2. icall'[t] = c /\ ipc'[t] = "lose"
    BY <1>1, <2>1, IMovesIs
  <2>3. ITaskOK(t)'
    BY <1>3, <1>4, <1>5, <1>6, <2>2 DEF ITaskOK, NoSlotPc, Searches
  <2>4. SameHeld(t) /\ MyUse(t)
    BY <1>1, <1>3, <1>5, <1>6, <1>7, <2>2 DEF SameHeld, HasSlot, MyUse, UseOK
  <2>5. Written(t)
    BY <1>1, <1>3, <1>6, <1>7, <2>2 DEF Written, UmountOK
  <2> QED BY <1>4, <2>1, <2>3, <2>4, <2>5, IStays
<1>8. CASE istate[s] = "IDIRTY"
  <2>1. IMoves(t, "write", c) /\ "write" \in IPc \ {"trunc"} /\ "write" \in IPc /\ ilock' = [ilock EXCEPT ![s] = TRUE]
    BY <1>2, <1>3, <1>8 DEF SyncLock, IMoves, IPc
  <2>2. icall'[t] = c /\ ipc'[t] = "write"
    BY <1>1, <2>1, IMovesIs
  <2>3. ilock' \in [Slot -> BOOLEAN] /\ SafeLock(t) /\ ilock'[s]
    BY <1>3, <1>5, <2>1, <2>2, LockStep
  <2>4. ITaskOK(t)'
    BY <1>1, <1>3, <1>4, <1>5, <1>6, <1>8, <2>2, <2>3 DEF ITaskOK, NoSlotPc, Searches, Named, ValidIno
  <2>5. SameHeld(t) /\ MyUse(t)
    BY <1>1, <1>3, <1>5, <1>6, <1>8, <2>2 DEF SameHeld, HasSlot, Syncs, MyUse, UseOK
  <2>6. Written(t)
    BY <1>1, <1>3, <1>6, <2>2 DEF Written, UmountOK
  <2> QED BY <1>4, <2>1, <2>3, <2>4, <2>5, <2>6, IQuiet
<1> QED BY <1>7, <1>8

\* The scan of the free list stops at an unheld inode.
LEMMA PickIs ==
  ASSUME ITypeOK, NEW t \in ITask, Stops(t) # {}
  PROVE  /\ Pick(t) \in Stops(t) /\ ifreeq[Pick(t)] \in Slot /\ irefcnt[ifreeq[Pick(t)]] = 0
         /\ CandLeft(t, Pick(t)) \in Int
<1>1. ifreeq \in Seq(Slot) /\ icall[t].cand \in Int
  BY DEF ITypeOK, ICallRec
<1>2. PICK n \in Nat : n = Len(ifreeq) /\ DOMAIN ifreeq = 1 .. n
  BY <1>1
<1>3. Unheld \in SUBSET (1 .. n) /\ Stops(t) \subseteq Unheld /\ Stops(t) \in SUBSET Nat
  BY <1>2 DEF Unheld, Stops
<1>4. \E k \in Stops(t) : \A j \in Stops(t) : k <= j
  BY <1>3, LeastOf
<1>5. Pick(t) \in Stops(t)
  BY <1>4 DEF Pick
<1>6. Pick(t) \in 1 .. n /\ irefcnt[ifreeq[Pick(t)]] = 0
  BY <1>3, <1>5 DEF Unheld
<1>7. Seen(Pick(t)) \in Nat
  <2>1. {j \in Unheld : j <= Pick(t)} \in SUBSET (1 .. n)
    BY <1>3
  <2>3. IsFiniteSet(1 .. n)
    BY FS_Interval
  <2>2. IsFiniteSet({j \in Unheld : j <= Pick(t)})
    BY <2>1, <2>3, FS_Subset
  <2> QED BY <2>2, FS_CardinalityType DEF Seen
<1> QED BY <1>1, <1>2, <1>5, <1>6, <1>7 DEF CandLeft

\* A task holds one more inode.
LEMMA HoldKeeps ==
  ASSUME IInv, NEW t \in ITask, NEW l \in {"hit", "lock"}, NEW d \in ICallRec, NEW s \in Slot,
         IMoves(t, l, d), d.slot = {s}, icall[t].slot = {}, HoldSlots({s}),
         UNCHANGED <<ino, istate, ilock, slot, ifreeq, dinode, imap, links, newest, dirlock>>,
         ITaskOK(t)', d.op = "umount" => \A r \in Slot \ d.left :
                                           r # s /\ istate[r] = "IDIRTY" => ino[r] \in iexcused
  PROVE  IInv'
<1>1. ITypeOK /\ UsesOK /\ ITasksOK
  BY DEF IInv
<1>2. /\ ino' = ino /\ istate' = istate /\ ilock' = ilock /\ slot' = slot /\ ifreeq' = ifreeq
      /\ dinode' = dinode /\ imap' = imap /\ links' = links /\ newest' = newest /\ dirlock' = dirlock
  OBVIOUS
<1>3. /\ irefcnt' = [r \in Slot |-> irefcnt[r] + IF r \in {s} THEN 1 ELSE 0]
      /\ iexcused' = IF \E u \in ITask : ipc[u] = "trunc" /\ My(u) \in {s} THEN Ino ELSE iexcused
  BY DEF HoldSlots
<1>4. irefcnt' \in [Slot -> Int] /\ \A r \in Slot : r # s => irefcnt'[r] = irefcnt[r]
  BY <1>1, <1>3 DEF ITypeOK
<1>5. iexcused' \in SUBSET Ino /\ iexcused \subseteq iexcused'
  BY <1>1, <1>3 DEF ITypeOK
<1>6. l \in IPc /\ l \notin {"trunc", "read", "write"}
  BY DEF IPc
<1>7. /\ icall' \in [ITask -> ICallRec] /\ icall'[t] = d
      /\ ipc' \in [ITask -> IPc] /\ ipc'[t] = l
      /\ \A u \in ITask \ {t} : ipc'[u] = ipc[u] /\ icall'[u] = icall[u]
  BY <1>1, <1>6, IMovesIs
<1>8. IFrame(t)
  BY <1>2, <1>7 DEF IFrame
<1>9. ITypeOK'
  BY <1>1, <1>2, <1>4, <1>5, <1>7 DEF ITypeOK
<1>10. SafeIno /\ SafeLock(t)
  BY <1>2, <1>6, <1>7 DEF SafeIno, SafeLock
<1>11. IFollows(t)
  <2> SUFFICES ASSUME NEW r \in Slot
               PROVE  irefcnt'[r] = irefcnt[r] + Bit(HasSlot(t, r)') - Bit(HasSlot(t, r))
    BY DEF IFollows
  <2>1. ~HasSlot(t, r) /\ (HasSlot(t, r)' <=> r = s)
    BY <1>7 DEF HasSlot
  <2>2. Bit(HasSlot(t, r)) = 0 /\ Bit(HasSlot(t, r)') = IF r = s THEN 1 ELSE 0
    BY <2>1 DEF Bit
  <2>3. irefcnt[r] \in Int
    BY <1>1 DEF ITypeOK
  <2> QED BY <1>3, <2>2, <2>3
<1>12. MyUse(t)
  BY <1>6, <1>7 DEF MyUse, UseOK
<1>13. OtherUse(t)
  <2> SUFFICES ASSUME NEW u \in ITask \ {t}, NEW r \in icall[u].slot, ino[r] \notin iexcused'
               PROVE  UseOK(u, r)'
    BY <1>2 DEF OtherUse
  <2>1. UseOK(u, r) /\ ITaskOK(u) /\ r \in Slot
    BY <1>1, <1>5 DEF UsesOK, ITasksOK, ITypeOK, ICallRec
  <2>2. \A v \in ITask \ {u} : ipc'[v] = "trunc" => ipc[v] = "trunc" /\ icall'[v] = icall[v]
    BY <1>6, <1>7
  <2>3. ipc[u] = "trunc" => r # s
    <3> SUFFICES ASSUME ipc[u] = "trunc", r = s PROVE FALSE
      OBVIOUS
    <3>1. icall[u].slot = {s} /\ ino[s] \in Ino
      BY <2>1 DEF ITaskOK, NoSlotPc
    <3>2. My(u) = s
      BY <3>1, MyIs
    <3> QED BY <1>3, <3>1, <3>2
  <2>4. ipc[u] = "trunc" => irefcnt'[r] = irefcnt[r]
    BY <1>4, <2>1, <2>3
  <2> QED BY <1>2, <1>7, <2>1, <2>2, <2>4 DEF UseOK
<1>14. Written(t)
  <2> SUFFICES ASSUME d.op = "umount", NEW r \in Slot \ d.left, istate[r] = "IDIRTY", ino[r] \notin iexcused'
               PROVE  l \in {"lock", "write"} /\ r \in d.slot
    BY <1>2, <1>7 DEF Written
  <2>1. l = "lock"
    BY <1>7 DEF ITaskOK, Searches, Named
  <2>2. r = s
    BY <1>5
  <2> QED BY <2>1, <2>2
<1>15. NoNewDirt(t)
  BY <1>2, <1>5 DEF NoNewDirt
<1>16. OneSlot' /\ ValidIno'
  BY <1>2 DEF IInv, OneSlot, ValidIno
<1>17. CachedOK'
  BY <1>2, <1>5 DEF IInv, CachedOK, InodeOK, Findi
<1> QED BY <1>8, <1>9, <1>10, <1>11, <1>12, <1>13, <1>14, <1>15, <1>16, <1>17, IKeeps

\* The unheld, unlocked inode s is given to the number of the call.
LEMMA TakeSlotStep ==
  ASSUME IInv, NEW t \in ITask, ipc[t] = "geti", NEW s \in Slot, irefcnt[s] = 0, ~ilock[s],
         Findi(icall[t].ino) = {}, TakeSlot(t, s), UNCHANGED <<slot, ondisk>>
  PROVE  IInv'
<1>1. ITypeOK /\ UsesOK /\ ITasksOK /\ ITaskOK(t) /\ ICounts
  BY DEF IInv, ITasksOK
<1>2. PICK c \in ICallRec : c = icall[t]
  BY <1>1 DEF ITypeOK
<1>3. c.op \in Named /\ c.ino \in Ino /\ dirlock[t] # "free" /\ c.slot = {}
  BY <1>1, <1>2 DEF ITaskOK, Searches, NoSlotPc
<1>4. PICK i \in Ino : i = c.ino
  BY <1>3
<1>5. PICK d \in ICallRec : /\ d = [c EXCEPT !.slot = {s}] /\ d.slot = {s}
                            /\ d.op = c.op /\ d.ino = c.ino /\ d.left = c.left
  <2>1. {s} \in SUBSET Slot
    OBVIOUS
  <2> QED BY <2>1, SlotOfCall
<1>6. /\ istate[s] # "IDIRTY" /\ HoldSlots({s}) /\ ifreeq' = WithoutSlot(s)
      /\ istate' = [istate EXCEPT ![s] = "IINVAL"] /\ ino' = [ino EXCEPT ![s] = i]
      /\ ilock' = [ilock EXCEPT ![s] = TRUE] /\ IMoves(t, "read", d) /\ "read" \in IPc
  BY <1>2, <1>4, <1>5 DEF TakeSlot, IMoves, IPc
<1>7. slot' = slot /\ dinode' = dinode /\ imap' = imap /\ links' = links /\ newest' = newest /\ dirlock' = dirlock
  BY DEF ondisk
<1>8. /\ irefcnt' = [r \in Slot |-> irefcnt[r] + IF r \in {s} THEN 1 ELSE 0]
      /\ iexcused' = IF \E u \in ITask : ipc[u] = "trunc" /\ My(u) \in {s} THEN Ino ELSE iexcused
  BY <1>6 DEF HoldSlots
<1>9. irefcnt' \in [Slot -> Int] /\ \A r \in Slot : r # s => irefcnt'[r] = irefcnt[r]
  BY <1>1, <1>8 DEF ITypeOK
<1>10. iexcused' \in SUBSET Ino /\ iexcused \subseteq iexcused'
  BY <1>1, <1>8 DEF ITypeOK
<1>11. /\ icall' \in [ITask -> ICallRec] /\ icall'[t] = d
       /\ ipc' \in [ITask -> IPc] /\ ipc'[t] = "read"
       /\ \A u \in ITask \ {t} : ipc'[u] = ipc[u] /\ icall'[u] = icall[u]
  BY <1>1, <1>6, IMovesIs
<1>12. IFrame(t)
  BY <1>7, <1>11 DEF IFrame
<1>13. ilock' \in [Slot -> BOOLEAN] /\ SafeLock(t) /\ ilock'[s]
  BY <1>5, <1>6, <1>11, LockStep
<1>14. /\ ino' \in [Slot -> Ino \cup {NoIno}] /\ ino'[s] = i
       /\ \A r \in Slot \ {s} : ino'[r] = ino[r] /\ ino[r] # i
  BY <1>1, <1>2, <1>4, <1>6 DEF ITypeOK, Findi
<1>15. /\ istate' \in [Slot -> {"IINVAL", "ICLEAN", "IDIRTY"}] /\ istate'[s] = "IINVAL"
       /\ \A r \in Slot \ {s} : istate'[r] = istate[r]
  BY <1>1, <1>6 DEF ITypeOK
<1>16. ifreeq' \in Seq(Slot)
  BY <1>1, <1>6, WithoutSlotSeq DEF ITypeOK
<1>17. ITypeOK'
  BY <1>1, <1>7, <1>9, <1>10, <1>11, <1>13, <1>14, <1>15, <1>16 DEF ITypeOK
<1>18. ITaskOK(t)'
  BY <1>3, <1>4, <1>5, <1>7, <1>11, <1>13, <1>14 DEF ITaskOK, Searches, NoSlotPc
<1>19. SafeIno
  BY <1>14 DEF SafeIno
<1>20. IFollows(t)
  <2> SUFFICES ASSUME NEW r \in Slot
               PROVE  irefcnt'[r] = irefcnt[r] + Bit(HasSlot(t, r)') - Bit(HasSlot(t, r))
    BY DEF IFollows
  <2>1. ~HasSlot(t, r) /\ (HasSlot(t, r)' <=> r = s)
    BY <1>2, <1>3, <1>5, <1>11 DEF HasSlot
  <2>2. Bit(HasSlot(t, r)) = 0 /\ Bit(HasSlot(t, r)') = IF r = s THEN 1 ELSE 0
    BY <2>1 DEF Bit
  <2>3. irefcnt[r] \in Int
    BY <1>1 DEF ITypeOK
  <2> QED BY <1>8, <2>2, <2>3
<1>21. MyUse(t)
  BY <1>5, <1>11, <1>15 DEF MyUse, UseOK
<1>22. OtherUse(t)
  <2> SUFFICES ASSUME NEW u \in ITask \ {t}, NEW r \in icall[u].slot, ino'[r] \notin iexcused'
               PROVE  UseOK(u, r)'
    BY DEF OtherUse
  <2>1. ITaskOK(u) /\ r \in Slot
    BY <1>1 DEF ITasksOK, ITypeOK, ICallRec
  <2>2. \A v \in ITask \ {u} : ipc'[v] = "trunc" => ipc[v] = "trunc" /\ icall'[v] = icall[v]
    BY <1>11
  <2>3. CASE r # s
    <3>1. UseOK(u, r)
      BY <1>1, <1>10, <1>14, <2>1, <2>3 DEF UsesOK
    <3>2. istate'[r] = istate[r] /\ irefcnt'[r] = irefcnt[r]
      BY <1>9, <1>15, <2>1, <2>3
    <3> QED BY <1>7, <1>11, <2>2, <3>1, <3>2 DEF UseOK
  <2>4. CASE r = s
    <3>1. ipc[u] \notin {"have", "open", "read"}
      BY <1>1, <2>1, <2>4, HeldSlotInUse DEF HasSlot
    <3>2. ipc[u] # "write"
      BY <2>1, <2>4 DEF ITaskOK
    <3>3. ipc[u] # "trunc"
      <4> SUFFICES ASSUME ipc[u] = "trunc" PROVE FALSE
        OBVIOUS
      <4>1. icall[u].slot = {s}
        BY <2>1, <2>4 DEF ITaskOK, NoSlotPc
      <4>2. My(u) = s
        BY <4>1, MyIs
      <4> QED BY <1>8, <1>14, <2>4, <4>2
    <3> QED BY <1>11, <3>1, <3>2, <3>3 DEF UseOK
  <2> QED BY <2>3, <2>4
<1>23. Written(t)
  BY <1>3, <1>5, <1>11 DEF Written, Named
<1>24. NoNewDirt(t)
  BY <1>10, <1>14, <1>15 DEF NoNewDirt
<1>25. OneSlot'
  <2> SUFFICES ASSUME NEW r \in Slot, NEW q \in Slot, ino'[r] = ino'[q], ino'[r] \in Ino PROVE r = q
    BY DEF OneSlot
  <2> QED BY <1>14 DEF IInv, OneSlot
<1>26. ValidIno'
  BY <1>14, <1>15 DEF IInv, ValidIno
<1>27. CachedOK'
  <2> SUFFICES ASSUME NEW j \in Ino, j \notin iexcused' PROVE InodeOK(j)'
    BY DEF CachedOK
  <2>1. InodeOK(j)
    BY <1>10 DEF IInv, CachedOK
  <2>2. DOMAIN ino = Slot /\ DOMAIN ino' = Slot
    BY <1>1, <1>14 DEF ITypeOK
  <2>3. CASE j = i
    <3>1. Findi(j)' = {s} /\ Findi(j) = {}
      BY <1>2, <1>4, <1>14, <2>2, <2>3 DEF Findi
    <3> QED BY <1>7, <1>15, <2>1, <3>1 DEF InodeOK
  <2>4. CASE j # i
    <3>1. Findi(j)' = Findi(j) \ {s} /\ Findi(j) \subseteq Slot
      BY <1>14, <2>2, <2>4 DEF Findi
    <3>2. \A r \in Findi(j)' : r \in Findi(j) /\ istate'[r] = istate[r]
      BY <1>15, <3>1
    <3>3. (\A r \in Findi(j)' : istate'[r] # "IDIRTY") => \A r \in Findi(j) : istate[r] # "IDIRTY"
      BY <1>6, <3>1, <3>2
    <3> QED BY <1>7, <2>1, <3>2, <3>3 DEF InodeOK
  <2> QED BY <2>3, <2>4
<1> QED BY <1>12, <1>13, <1>17, <1>18, <1>19, <1>20, <1>21, <1>22, <1>23, <1>24, <1>25, <1>26, <1>27, IKeeps

LEMMA GetiStep ==
  ASSUME IInv, NEW t \in ITask, Geti(t)
  PROVE  IInv'
<1>1. ITypeOK /\ ITaskOK(t) /\ OneSlot /\ ValidIno /\ ipc[t] = "geti" /\ UNCHANGED <<slot, ondisk>>
  BY DEF IInv, ITasksOK, Geti
<1>2. PICK c \in ICallRec : c = icall[t]
  BY <1>1 DEF ITypeOK
<1>3. c.op \in Named /\ c.ino \in Ino /\ dirlock[t] # "free" /\ c.slot = {}
  BY <1>1, <1>2 DEF ITaskOK, Searches, NoSlotPc
<1>4. slot' = slot /\ dinode' = dinode /\ imap' = imap /\ links' = links /\ newest' = newest /\ dirlock' = dirlock
  BY <1>1 DEF ondisk
<1>5. DirFrame(t)
  BY <1>4, DirStays
<1>6. CASE Findi(c.ino) # {}
  <2>1. PICK s \in Slot : Findi(c.ino) = {s} /\ ino[s] = c.ino
    <3>1. DOMAIN ino = Slot
      BY <1>1 DEF ITypeOK
    <3>2. PICK s \in Slot : s \in Findi(c.ino) /\ ino[s] = c.ino
      BY <1>6, <3>1 DEF Findi
    <3>3. \A r \in Findi(c.ino) : r = s
      BY <1>1, <1>3, <3>1, <3>2 DEF OneSlot, Findi
    <3> QED BY <3>2, <3>3
  <2>2. PICK d \in ICallRec : /\ d = [c EXCEPT !.slot = {s}] /\ d.slot = {s}
                              /\ d.op = c.op /\ d.ino = c.ino /\ d.left = c.left
    <3>1. {s} \in SUBSET Slot
      OBVIOUS
    <3> QED BY <3>1, SlotOfCall
  <2>3. HoldSlots({s}) /\ IMoves(t, "hit", d) /\ "hit" \in IPc /\ UNCHANGED <<ino, istate, ilock, ifreeq>>
    BY <1>2, <1>6, <2>1, <2>2 DEF Geti, IMoves, IPc
  <2>4. icall'[t] = d /\ ipc'[t] = "hit"
    BY <1>1, <2>3, IMovesIs
  <2>5. ITaskOK(t)'
    BY <1>3, <1>4, <2>1, <2>2, <2>3, <2>4 DEF ITaskOK, Searches, NoSlotPc
  <2>6. UNCHANGED <<ino, istate, ilock, slot, ifreeq, dinode, imap, links, newest, dirlock>>
    BY <1>4, <2>3
  <2>7. d.op # "umount" /\ icall[t].slot = {}
    BY <1>2, <1>3, <2>2 DEF Named
  <2> QED BY <2>2, <2>3, <2>5, <2>6, <2>7, HoldKeeps
<1>7. CASE Findi(c.ino) = {} /\ Stops(t) = {}
  <2>1. IGoto(t, "fail") /\ UNCHANGED <<table, iexcused, icall>>
    BY <1>2, <1>7 DEF Geti
  <2>2. IStill /\ ilock' = ilock /\ ifreeq' \in Seq(Slot)
    BY <1>4, <2>1, TableStill DEF IStill
  <2>3. IMoves(t, "fail", c) /\ "fail" \in IPc \ {"trunc", "read", "write"} /\ "fail" \in IPc
    BY <1>2, <2>1 DEF IMoves, IPc
  <2>4. icall'[t] = c /\ ipc'[t] = "fail"
    BY <1>1, <2>3, IMovesIs
  <2>5. ITaskOK(t)'
    BY <1>3, <2>4 DEF ITaskOK, Searches, NoSlotPc
  <2>6. SameHeld(t) /\ MyUse(t) /\ Written(t)
    BY <1>2, <1>3, <2>4 DEF SameHeld, HasSlot, MyUse, Written, Named
  <2> QED BY <1>5, <2>2, <2>3, <2>5, <2>6, IStays
<1>8. CASE Findi(c.ino) = {} /\ Stops(t) # {}
  <2>1. PICK k : k = Pick(t)
    OBVIOUS
  <2>2. PICK s \in Slot : s = ifreeq[k] /\ irefcnt[s] = 0
    BY <1>1, <1>8, <2>1, PickIs
  <2>3. PICK q \in Int : q = CandLeft(t, k)
    BY <1>1, <1>8, <2>1, PickIs
  <2> DEFINE d == [c EXCEPT !.cand = q, !.slot = {s}]
  <2>4. d \in ICallRec /\ d.slot = {s} /\ d.op = c.op /\ d.ino = c.ino
    BY DEF ICallRec
  <2>5. \/ /\ ilock[s] /\ ICall(t, d) /\ IGoto(t, "wait") /\ UNCHANGED <<table, iexcused>>
        \/ /\ ~ilock[s] /\ istate[s] = "IDIRTY" /\ ICall(t, d) /\ IGoto(t, "write")
           /\ ilock' = [ilock EXCEPT ![s] = TRUE] /\ UNCHANGED <<ino, istate, irefcnt, ifreeq, iexcused>>
        \/ ~ilock[s] /\ TakeSlot(t, s)
    BY <1>2, <1>8, <2>1, <2>2, <2>3 DEF Geti
  <2> HIDE DEF d
  <2>6. CASE ilock[s] /\ ICall(t, d) /\ IGoto(t, "wait") /\ UNCHANGED <<table, iexcused>>
    <3>1. IStill /\ ilock' = ilock /\ ifreeq' \in Seq(Slot)
      BY <1>4, <2>6, TableStill DEF IStill
    <3>2. IMoves(t, "wait", d) /\ "wait" \in IPc \ {"trunc", "read", "write"} /\ "wait" \in IPc
      BY <2>6 DEF IMoves, IPc
    <3>3. icall'[t] = d /\ ipc'[t] = "wait"
      BY <1>1, <2>4, <3>2, IMovesIs
    <3>4. ITaskOK(t)'
      BY <1>3, <1>4, <2>4, <3>3 DEF ITaskOK, Searches, NoSlotPc
    <3>5. SameHeld(t) /\ MyUse(t) /\ Written(t)
      BY <1>2, <1>3, <2>4, <3>3 DEF SameHeld, HasSlot, MyUse, UseOK, Written, Named
    <3> QED BY <1>5, <2>4, <3>1, <3>2, <3>4, <3>5, IStays
  <2>7. CASE /\ ~ilock[s] /\ istate[s] = "IDIRTY" /\ ICall(t, d) /\ IGoto(t, "write")
             /\ ilock' = [ilock EXCEPT ![s] = TRUE] /\ UNCHANGED <<ino, istate, irefcnt, ifreeq, iexcused>>
    <3>1. IStill /\ ifreeq' \in Seq(Slot) /\ ino' = ino /\ istate' = istate
      BY <1>1, <1>4, <2>7 DEF IStill, ITypeOK
    <3>2. IMoves(t, "write", d) /\ "write" \in IPc \ {"trunc"} /\ "write" \in IPc
      BY <2>7 DEF IMoves, IPc
    <3>3. icall'[t] = d /\ ipc'[t] = "write"
      BY <1>1, <2>4, <3>2, IMovesIs
    <3>4. ilock' \in [Slot -> BOOLEAN] /\ SafeLock(t) /\ ilock'[s]
      BY <2>4, <2>7, <3>3, LockStep
    <3>5. ino[s] \in Ino
      BY <1>1, <2>7 DEF ValidIno
    <3>6. ITaskOK(t)'
      BY <1>3, <1>4, <2>4, <3>1, <3>3, <3>4, <3>5 DEF ITaskOK, Searches, NoSlotPc
    <3>7. SameHeld(t) /\ MyUse(t) /\ Written(t)
      BY <1>2, <1>3, <2>4, <2>7, <3>1, <3>3 DEF SameHeld, HasSlot, Syncs, MyUse, UseOK, Written, Named
    <3> QED BY <1>5, <2>4, <3>1, <3>2, <3>4, <3>6, <3>7, IQuiet
  <2>8. CASE ~ilock[s] /\ TakeSlot(t, s)
    BY <1>1, <1>2, <1>8, <2>2, <2>8, TakeSlotStep
  <2> QED BY <2>5, <2>6, <2>7, <2>8
<1> QED BY <1>6, <1>7, <1>8

----------------------------------------------------------------------------
(* Steps that change what is known of one inode. *)

OnlySlot(s) ==
  /\ ino' = ino /\ irefcnt' = irefcnt /\ ifreeq' = ifreeq /\ dirlock' = dirlock
  /\ istate' \in [Slot -> {"IINVAL", "ICLEAN", "IDIRTY"}] /\ slot' \in [Slot -> Fields]
  /\ dinode' \in [Ino -> Fields] /\ newest' \in [Ino -> Fields]
  /\ imap' \in SUBSET Ino /\ links' \in [Ino -> Int]
  /\ iexcused' \in SUBSET Ino /\ iexcused \subseteq iexcused'
  /\ \A r \in Slot \ {s} : istate'[r] = istate[r] /\ slot'[r] = slot[r]
  /\ \A i \in Ino \ {ino[s]} : /\ dinode'[i] = dinode[i] /\ newest'[i] = newest[i] /\ links'[i] = links[i]
                               /\ i \in imap' <=> i \in imap
OtherAt(u, s) ==
  s \in icall[u].slot /\ ino[s] \notin iexcused' =>
    /\ ipc[u] \in {"have", "open"} => istate'[s] # "IINVAL"
    /\ ipc[u] = "read" => istate'[s] = "IINVAL"
    /\ ipc[u] = "write" => istate'[s] = "IDIRTY"
    /\ ipc[u] = "trunc" => istate'[s] # "IINVAL" /\ ~(slot'[s].nlink > 0)
OthersAt(t, s) == \A u \in ITask \ {t} : OtherAt(u, s)

LEMMA SlotStep ==
  ASSUME IInv, NEW t \in ITask, NEW l \in IPc \ {"trunc"}, NEW d \in ICallRec, IMoves(t, l, d),
         NEW s \in Slot, ino[s] \in Ino, OnlySlot(s), ilock' \in [Slot -> BOOLEAN],
         ITaskOK(t)', SafeLock(t), SameHeld(t), MyUse(t), OthersAt(t, s), Written(t), NoNewDirt(t),
         ino[s] \notin iexcused' => InodeOK(ino[s])'
  PROVE  IInv'
<1>1. ITypeOK /\ UsesOK /\ OneSlot /\ ValidIno /\ CachedOK
  BY DEF IInv
<1>2. /\ ino' = ino /\ irefcnt' = irefcnt /\ ifreeq' = ifreeq /\ dirlock' = dirlock
      /\ iexcused \subseteq iexcused' /\ iexcused' \in SUBSET Ino
      /\ istate' \in [Slot -> {"IINVAL", "ICLEAN", "IDIRTY"}] /\ slot' \in [Slot -> Fields]
      /\ dinode' \in [Ino -> Fields] /\ newest' \in [Ino -> Fields]
      /\ imap' \in SUBSET Ino /\ links' \in [Ino -> Int]
  BY DEF OnlySlot
<1>3. /\ icall' \in [ITask -> ICallRec] /\ icall'[t] = d
      /\ ipc' \in [ITask -> IPc] /\ ipc'[t] = l
      /\ \A u \in ITask \ {t} : ipc'[u] = ipc[u] /\ icall'[u] = icall[u]
  BY <1>1, IMovesIs
<1>4. IFrame(t)
  BY <1>2, <1>3 DEF IFrame
<1>5. ITypeOK'
  BY <1>1, <1>2, <1>3 DEF ITypeOK
<1>6. SafeIno
  BY <1>2 DEF SafeIno
<1>7. IFollows(t)
  <2>1. \A r \in Slot : irefcnt[r] \in Int
    BY <1>1 DEF ITypeOK
  <2>2. ASSUME NEW r \in Slot PROVE Bit(HasSlot(t, r)') = Bit(HasSlot(t, r)) /\ Bit(HasSlot(t, r)) \in Int
    BY DEF SameHeld, Bit
  <2> QED BY <1>2, <2>1, <2>2 DEF IFollows
<1>8. OtherUse(t)
  <2> SUFFICES ASSUME NEW u \in ITask \ {t}, NEW r \in icall[u].slot, ino[r] \notin iexcused'
               PROVE  UseOK(u, r)'
    BY <1>2 DEF OtherUse
  <2>1. UseOK(u, r) /\ r \in Slot
    BY <1>1, <1>2 DEF UsesOK, ITypeOK, ICallRec
  <2>2. \A v \in ITask \ {u} : ipc'[v] = "trunc" => ipc[v] = "trunc" /\ icall'[v] = icall[v]
    BY <1>3
  <2>3. CASE r = s
    <3>1. OtherAt(u, s)
      BY DEF OthersAt
    <3> QED BY <1>2, <1>3, <2>1, <2>2, <2>3, <3>1 DEF UseOK, OtherAt
  <2>4. CASE r # s
    <3>1. istate'[r] = istate[r] /\ slot'[r] = slot[r]
      BY <2>1, <2>4 DEF OnlySlot
    <3> QED BY <1>2, <1>3, <2>1, <2>2, <3>1 DEF UseOK
  <2> QED BY <2>3, <2>4
<1>9. OneSlot'
  BY <1>1, <1>2 DEF OneSlot
<1>10. ValidIno'
  BY <1>1, <1>2 DEF ValidIno, OnlySlot
<1>11. CachedOK'
  <2> SUFFICES ASSUME NEW i \in Ino, i \notin iexcused' PROVE InodeOK(i)'
    BY DEF CachedOK
  <2>1. CASE i = ino[s]
    BY <1>2, <2>1 DEF InodeOK
  <2>2. CASE i # ino[s]
    <3>1. InodeOK(i)
      BY <1>1, <1>2 DEF CachedOK
    <3>2. /\ dinode'[i] = dinode[i] /\ newest'[i] = newest[i] /\ links'[i] = links[i]
          /\ i \in imap' <=> i \in imap
      BY <2>2 DEF OnlySlot
    <3>3. Findi(i)' = Findi(i)
      BY <1>2 DEF Findi
    <3>4. \A r \in Findi(i) : r \in Slot \ {s}
      BY <1>1, <2>2 DEF Findi, ITypeOK
    <3>5. \A r \in Findi(i) : istate'[r] = istate[r] /\ slot'[r] = slot[r]
      BY <3>4 DEF OnlySlot
    <3> QED BY <3>1, <3>2, <3>3, <3>5 DEF InodeOK
  <2> QED BY <2>1, <2>2
<1> QED BY <1>4, <1>5, <1>6, <1>7, <1>8, <1>9, <1>10, <1>11, IKeeps

\* The slot of an inode number is the only one.
LEMMA FindiIs ==
  ASSUME IInv, NEW s \in Slot, ino[s] \in Ino
  PROVE  Findi(ino[s]) = {s}
<1>1. DOMAIN ino = Slot /\ OneSlot
  BY DEF IInv, ITypeOK
<1> QED BY <1>1 DEF Findi, OneSlot

\* Who holds an inode keeps its release from being under way.
LEMMA NoRelease ==
  ASSUME IInv, NEW t \in ITask, NEW s \in Slot, HasSlot(t, s), ino[s] \notin iexcused, NEW u \in ITask,
         s \in icall[u].slot
  PROVE  ipc[u] # "trunc"
<1>1. ICounts /\ UsesOK
  BY DEF IInv
<1>2. irefcnt[s] # 0
  BY <1>1, HeldSlotInUse
<1>3. UseOK(u, s)
  BY <1>1 DEF UsesOK
<1> QED BY <1>2, <1>3 DEF UseOK

LEMMA IReadStep ==
  ASSUME IInv, NEW t \in ITask, IRead(t)
  PROVE  IInv'
<1>1. ITypeOK /\ ITaskOK(t) /\ ILocksOK /\ UsesOK /\ CachedOK /\ ipc[t] = "read"
  BY DEF IInv, ITasksOK, IRead
<1>2. PICK c \in ICallRec, s \in Slot : c = icall[t] /\ c.slot = {s} /\ My(t) = s
  <2>1. PICK s \in Slot : icall[t].slot = {s}
    BY <1>1 DEF ITaskOK, NoSlotPc
  <2>2. icall[t] \in ICallRec /\ My(t) = s
    BY <1>1, <2>1, MyIs DEF ITypeOK
  <2> QED BY <2>1, <2>2
<1>3. c.op \in Named /\ c.ino \in Ino /\ dirlock[t] # "free" /\ ino[s] = c.ino
  BY <1>1, <1>2 DEF ITaskOK, Searches
<1>4. /\ ino' = ino /\ irefcnt' = irefcnt /\ ifreeq' = ifreeq /\ iexcused' = iexcused /\ icall' = icall
      /\ dinode' = dinode /\ imap' = imap /\ links' = links /\ newest' = newest /\ dirlock' = dirlock
      /\ ilock' = [ilock EXCEPT ![s] = FALSE]
  BY <1>2 DEF IRead, ondisk
<1>5. HasSlot(t, s)
  BY <1>1, <1>2 DEF HasSlot
<1>6. CASE /\ slot' = [slot EXCEPT ![s] = dinode[ino[s]]] /\ istate' = [istate EXCEPT ![s] = "ICLEAN"]
           /\ IGoto(t, "have")
  <2>1. IMoves(t, "have", c) /\ "have" \in IPc \ {"trunc"} /\ "have" \in IPc
    BY <1>2, <1>4, <1>6 DEF IMoves, IPc
  <2>2. icall'[t] = c /\ ipc'[t] = "have"
    BY <1>1, <2>1, IMovesIs
  <2>3. ilock' \in [Slot -> BOOLEAN] /\ SafeLock(t)
    BY <1>1, <1>2, <1>4, <2>2, UnlockStep
  <2>4. PICK f \in Fields : f = dinode[ino[s]]
    BY <1>1, <1>3 DEF ITypeOK
  <2>5. /\ slot' \in [Slot -> Fields] /\ slot'[s] = f
        /\ istate' \in [Slot -> {"IINVAL", "ICLEAN", "IDIRTY"}] /\ istate'[s] = "ICLEAN"
        /\ \A r \in Slot \ {s} : istate'[r] = istate[r] /\ slot'[r] = slot[r]
    BY <1>1, <1>6, <2>4 DEF ITypeOK
  <2>6. OnlySlot(s)
    BY <1>1, <1>4, <2>5 DEF OnlySlot, ITypeOK
  <2>7. ITaskOK(t)'
    BY <1>2, <1>3, <1>4, <2>2 DEF ITaskOK, NoSlotPc, Searches
  <2>8. SameHeld(t) /\ Written(t) /\ MyUse(t)
    BY <1>1, <1>2, <1>3, <2>2, <2>5 DEF SameHeld, HasSlot, Written, Named, MyUse, UseOK
  <2>9. OthersAt(t, s)
    <3> SUFFICES ASSUME NEW u \in ITask \ {t}, s \in icall[u].slot, ino[s] \notin iexcused
                 PROVE  OtherAt(u, s)
      BY <1>4 DEF OthersAt, OtherAt
    <3>1. ipc[u] \notin {"read", "write"}
      BY <1>1, <1>2 DEF ILocksOK
    <3>2. ipc[u] # "trunc"
      BY <1>5, NoRelease
    <3> QED BY <2>5, <3>1, <3>2 DEF OtherAt
  <2>10. NoNewDirt(t)
    BY <1>4, <2>5 DEF NoNewDirt
  <2>11. ASSUME ino[s] \notin iexcused' PROVE InodeOK(ino[s])'
    <3>1. InodeOK(ino[s]) /\ Findi(ino[s]) = {s} /\ Findi(ino[s])' = {s}
      BY <1>1, <1>3, <1>4, <2>11, FindiIs DEF CachedOK, Findi
    <3>2. istate[s] = "IINVAL"
      BY <1>1, <1>2, <1>4, <2>11 DEF UsesOK, UseOK
    <3> QED BY <1>4, <2>4, <2>5, <3>1, <3>2 DEF InodeOK
  <2> QED BY <1>3, <2>1, <2>3, <2>6, <2>7, <2>8, <2>9, <2>10, <2>11, SlotStep
<1>7. CASE IGoto(t, "fail") /\ UNCHANGED <<slot, istate>>
  <2>1. IMoves(t, "fail", c) /\ "fail" \in IPc \ {"trunc"} /\ "fail" \in IPc
    BY <1>2, <1>4, <1>7 DEF IMoves, IPc
  <2>2. icall'[t] = c /\ ipc'[t] = "fail"
    BY <1>1, <2>1, IMovesIs
  <2>3. ilock' \in [Slot -> BOOLEAN] /\ SafeLock(t)
    BY <1>1, <1>2, <1>4, <2>2, UnlockStep
  <2>4. IStill /\ DirFrame(t) /\ ifreeq' \in Seq(Slot)
    BY <1>1, <1>4, <1>7, DirStays DEF IStill, ITypeOK
  <2>5. ITaskOK(t)'
    BY <1>2, <1>3, <2>2 DEF ITaskOK, NoSlotPc, Searches
  <2>6. SameHeld(t) /\ Written(t) /\ MyUse(t)
    BY <1>1, <1>2, <1>3, <2>2 DEF SameHeld, HasSlot, Written, Named, MyUse, UseOK
  <2> QED BY <2>1, <2>3, <2>4, <2>5, <2>6, IQuiet
<1> QED BY <1>2, <1>6, <1>7 DEF IRead

LEMMA IWriteStep ==
  ASSUME IInv, NEW t \in ITask, IWrite(t)
  PROVE  IInv'
<1>1. ITypeOK /\ ITaskOK(t) /\ ILocksOK /\ UsesOK /\ UmountOK /\ CachedOK /\ ipc[t] = "write"
  BY DEF IInv, ITasksOK, IWrite
<1>2. PICK c \in ICallRec, s \in Slot : c = icall[t] /\ c.slot = {s} /\ My(t) = s
  <2>1. PICK s \in Slot : icall[t].slot = {s}
    BY <1>1 DEF ITaskOK, NoSlotPc
  <2>2. icall[t] \in ICallRec /\ My(t) = s
    BY <1>1, <2>1, MyIs DEF ITypeOK
  <2> QED BY <2>1, <2>2
<1>3. /\ ino[s] \in Ino /\ c.op \in Named \cup {"sync", "umount"}
      /\ c.op \in Named => dirlock[t] # "free" /\ c.ino \in Ino
  BY <1>1, <1>2 DEF ITaskOK
<1>4. /\ ino' = ino /\ irefcnt' = irefcnt /\ ifreeq' = ifreeq /\ slot' = slot
      /\ imap' = imap /\ links' = links /\ newest' = newest /\ dirlock' = dirlock
      /\ ilock' = [ilock EXCEPT ![s] = FALSE]
  BY <1>2 DEF IWrite
<1>5. PICK l \in {"lose", "geti"}, d \in ICallRec :
        /\ IMoves(t, l, d) /\ d.op = c.op /\ d.ino = c.ino /\ d.left = c.left
        /\ l = IF c.op \in {"sync", "umount"} THEN "lose" ELSE "geti"
        /\ d.slot = IF c.op \in {"sync", "umount"} THEN {s} ELSE {}
  <2>1. PICK e \in ICallRec : /\ e = [c EXCEPT !.slot = {}] /\ e.slot = {}
                              /\ e.op = c.op /\ e.ino = c.ino /\ e.left = c.left
    BY SlotOfCall
  <2>2. CASE c.op \in {"sync", "umount"}
    <3>1. IMoves(t, "lose", c)
      BY <1>2, <2>2 DEF IWrite, Syncs, IMoves
    <3> QED BY <1>2, <2>2, <3>1
  <2>3. CASE c.op \notin {"sync", "umount"}
    <3>1. IMoves(t, "geti", e)
      BY <1>2, <2>1, <2>3 DEF IWrite, Syncs, IMoves
    <3> QED BY <2>1, <2>3, <3>1
  <2> QED BY <2>2, <2>3
<1>6. l \in IPc \ {"trunc"} /\ l \in IPc
  BY DEF IPc
<1>7. icall'[t] = d /\ ipc'[t] = l
  BY <1>1, <1>5, <1>6, IMovesIs
<1>8. ilock' \in [Slot -> BOOLEAN] /\ SafeLock(t)
  BY <1>1, <1>2, <1>4, <1>7, UnlockStep
<1>9. ITaskOK(t)'
  BY <1>3, <1>4, <1>5, <1>7 DEF ITaskOK, NoSlotPc, Searches, Named
<1>10. SameHeld(t)
  BY <1>1, <1>2, <1>5, <1>7 DEF SameHeld, HasSlot, Syncs
<1>11. MyUse(t)
  BY <1>5, <1>7 DEF MyUse, UseOK
<1>12. CASE CopiedFields(s) /\ istate' = [istate EXCEPT ![s] = "ICLEAN"] /\ UNCHANGED iexcused
  <2>1. PICK f \in Fields : f = slot[s]
    BY <1>1 DEF ITypeOK
  <2>2. /\ dinode' \in [Ino -> Fields] /\ dinode'[ino[s]] = f
        /\ \A i \in Ino \ {ino[s]} : dinode'[i] = dinode[i]
    BY <1>1, <1>3, <1>12, <2>1 DEF CopiedFields, ITypeOK
  <2>3. /\ istate' \in [Slot -> {"IINVAL", "ICLEAN", "IDIRTY"}] /\ istate'[s] = "ICLEAN"
        /\ \A r \in Slot \ {s} : istate'[r] = istate[r]
    BY <1>1, <1>12 DEF ITypeOK
  <2>4. OnlySlot(s)
    BY <1>1, <1>4, <1>12, <2>2, <2>3 DEF OnlySlot, ITypeOK
  <2>5. OthersAt(t, s)
    <3> SUFFICES ASSUME NEW u \in ITask \ {t}, s \in icall[u].slot, ino[s] \notin iexcused
                 PROVE  OtherAt(u, s)
      BY <1>12 DEF OthersAt, OtherAt
    <3>1. ipc[u] \notin {"read", "write"}
      BY <1>1, <1>2 DEF ILocksOK
    <3>2. UseOK(u, s)
      BY <1>1 DEF UsesOK
    <3> QED BY <1>4, <2>3, <3>1, <3>2 DEF OtherAt, UseOK
  <2>6. NoNewDirt(t)
    BY <1>4, <1>12, <2>3 DEF NoNewDirt
  <2>7. Written(t)
    BY <1>1, <1>2, <1>4, <1>5, <1>7, <1>12, <2>3 DEF Written, UmountOK
  <2>8. ASSUME ino[s] \notin iexcused' PROVE InodeOK(ino[s])'
    <3>1. InodeOK(ino[s]) /\ Findi(ino[s]) = {s} /\ Findi(ino[s])' = {s}
      BY <1>1, <1>3, <1>4, <1>12, <2>8, FindiIs DEF CachedOK, Findi
    <3>2. istate[s] = "IDIRTY"
      BY <1>1, <1>2, <1>12, <2>8 DEF UsesOK, UseOK
    <3> QED BY <1>4, <2>1, <2>2, <2>3, <3>1, <3>2 DEF InodeOK
  <2> QED BY <1>3, <1>5, <1>6, <1>8, <1>9, <1>10, <1>11, <2>4, <2>5, <2>6, <2>7, <2>8, SlotStep
<1>13. CASE iexcused' = iexcused \cup {ino[s]} /\ UNCHANGED <<dinode, istate>>
  <2>1. OnlySlot(s)
    BY <1>1, <1>3, <1>4, <1>13 DEF OnlySlot, ITypeOK
  <2>2. OthersAt(t, s) /\ NoNewDirt(t)
    BY <1>4, <1>13 DEF OthersAt, OtherAt, NoNewDirt
  <2>3. Written(t)
    BY <1>1, <1>2, <1>4, <1>5, <1>7, <1>13 DEF Written, UmountOK
  <2>4. ino[s] \in iexcused'
    BY <1>13
  <2> QED BY <1>3, <1>5, <1>6, <1>8, <1>9, <1>10, <1>11, <2>1, <2>2, <2>3, <2>4, SlotStep
<1> QED BY <1>2, <1>12, <1>13 DEF IWrite

\* A task that has the file changes its fields.
LEMMA SetHeldStep ==
  ASSUME IInv, NEW t \in ITask, NEW l \in {"lose", "open"}, NEW c \in ICallRec, NEW s \in Slot,
         NEW f \in Fields, ipc[t] \in {"have", "open"}, c = icall[t], c.slot = {s}, IMoves(t, l, c),
         SetDirty(s, f),
         UNCHANGED <<ino, irefcnt, ilock, ifreeq, dinode, imap, dirlock>>,
         links' \in [Ino -> Int], \A i \in Ino \ {ino[s]} : links'[i] = links[i],
         links[ino[s]] = slot[s].nlink => links'[ino[s]] = f.nlink,
         ~(links[ino[s]] > 0) => ~(links'[ino[s]] > 0)
  PROVE  IInv'
<1>1. ITypeOK /\ ITaskOK(t) /\ UsesOK /\ CachedOK
  BY DEF IInv, ITasksOK
<1>2. c.op \in Named /\ c.ino \in Ino /\ ino[s] = c.ino
  BY <1>1 DEF ITaskOK, Searches
<1>3. /\ ino' = ino /\ irefcnt' = irefcnt /\ ilock' = ilock /\ ifreeq' = ifreeq /\ dinode' = dinode
      /\ imap' = imap /\ dirlock' = dirlock
  OBVIOUS
<1>4. /\ slot' \in [Slot -> Fields] /\ slot'[s] = f
      /\ istate' \in [Slot -> {"IINVAL", "ICLEAN", "IDIRTY"}] /\ istate'[s] = "IDIRTY"
      /\ \A r \in Slot \ {s} : istate'[r] = istate[r] /\ slot'[r] = slot[r]
  BY <1>1 DEF SetDirty, ITypeOK
<1>5. /\ newest' \in [Ino -> Fields] /\ newest'[ino[s]] = f
      /\ \A i \in Ino \ {ino[s]} : newest'[i] = newest[i]
  BY <1>1, <1>2 DEF SetDirty, ITypeOK
<1>6. iexcused' = IF \E u \in ITask : icall[u].op = "umount" THEN iexcused \cup {ino[s]} ELSE iexcused
  BY DEF SetDirty
<1>7. iexcused' \in SUBSET Ino /\ iexcused \subseteq iexcused'
  BY <1>1, <1>2, <1>6 DEF ITypeOK
<1>8. OnlySlot(s)
  BY <1>1, <1>3, <1>4, <1>5, <1>7 DEF OnlySlot, ITypeOK
<1>9. l \in IPc \ {"trunc"} /\ l \in IPc
  BY DEF IPc
<1>10. icall'[t] = c /\ ipc'[t] = l
  BY <1>1, <1>9, IMovesIs
<1>11. ilock' \in [Slot -> BOOLEAN] /\ SafeLock(t)
  BY <1>1, <1>3, <1>10 DEF ITypeOK, SafeLock
<1>12. ITaskOK(t)'
  BY <1>2, <1>3, <1>10 DEF ITaskOK, NoSlotPc, Searches
<1>13. HasSlot(t, s)
  BY DEF HasSlot
<1>14. SameHeld(t) /\ Written(t) /\ MyUse(t)
  BY <1>2, <1>4, <1>10 DEF SameHeld, HasSlot, Written, Named, MyUse, UseOK
<1>15. OthersAt(t, s)
  <2> SUFFICES ASSUME NEW u \in ITask \ {t}, s \in icall[u].slot, ino[s] \notin iexcused
               PROVE  OtherAt(u, s)
    BY <1>7 DEF OthersAt, OtherAt
  <2>1. ipc[u] # "trunc"
    BY <1>13, NoRelease
  <2>2. UseOK(u, s) /\ UseOK(t, s)
    BY <1>1 DEF UsesOK
  <2> QED BY <1>4, <2>1, <2>2 DEF OtherAt, UseOK
<1>16. NoNewDirt(t)
  <2> SUFFICES ASSUME \E u \in ITask \ {t} : icall[u].op = "umount", NEW r \in Slot,
                      istate'[r] = "IDIRTY", ino[r] \notin iexcused'
               PROVE  istate[r] = "IDIRTY" /\ ino[r] \notin iexcused
    BY <1>3 DEF NoNewDirt
  <2>1. r # s
    BY <1>6
  <2> QED BY <1>4, <1>7, <2>1
<1>17. ASSUME ino[s] \notin iexcused' PROVE InodeOK(ino[s])'
  <2>1. InodeOK(ino[s]) /\ Findi(ino[s]) = {s} /\ Findi(ino[s])' = {s}
    BY <1>1, <1>2, <1>3, <1>7, <1>17, FindiIs DEF CachedOK, Findi
  <2>2. istate[s] # "IINVAL"
    BY <1>1, <1>7, <1>17 DEF UsesOK, UseOK
  <2>3. ino[s] \in imap => links[ino[s]] = slot[s].nlink
    BY <2>1, <2>2 DEF InodeOK
  <2> QED BY <1>3, <1>4, <1>5, <2>1, <2>3 DEF InodeOK
<1> QED BY <1>2, <1>8, <1>9, <1>11, <1>12, <1>14, <1>15, <1>16, <1>17, SlotStep

LEMMA MySlot ==
  ASSUME IInv, NEW t \in ITask, ipc[t] \notin NoSlotPc, ipc[t] # "fail"
  PROVE  \E c \in ICallRec, s \in Slot : c = icall[t] /\ c.slot = {s} /\ My(t) = s
<1>1. ITypeOK /\ ITaskOK(t)
  BY DEF IInv, ITasksOK
<1>2. PICK s \in Slot : icall[t].slot = {s}
  BY <1>1 DEF ITaskOK
<1>3. icall[t] \in ICallRec /\ My(t) = s
  BY <1>1, <1>2, MyIs DEF ITypeOK
<1> QED BY <1>2, <1>3

LEMMA UnlinkStep ==
  ASSUME IInv, NEW t \in ITask, Unlink(t)
  PROVE  IInv'
<1>1. ITypeOK /\ ITaskOK(t) /\ ipc[t] = "have" /\ ipc[t] \notin NoSlotPc /\ ipc[t] # "fail"
  BY DEF IInv, ITasksOK, Unlink, NoSlotPc
<1>2. PICK c \in ICallRec, s \in Slot : c = icall[t] /\ c.slot = {s} /\ My(t) = s
  BY <1>1, MySlot
<1>3. c.ino \in Ino /\ ino[s] = c.ino
  BY <1>1, <1>2 DEF ITaskOK, Searches
<1>4. PICK g \in Fields : g = slot[s]
  BY <1>1 DEF ITypeOK
<1> DEFINE f == [g EXCEPT !.nlink = @ - 1]
<1>5. f \in Fields /\ f.nlink = g.nlink - 1 /\ g.nlink \in Int
  BY DEF Fields
<1>6. SetDirty(s, f)
  BY <1>2, <1>4 DEF Unlink
<1> HIDE DEF f
<1>7. UNCHANGED <<ino, irefcnt, ilock, ifreeq, dinode, imap, dirlock>> /\ IMoves(t, "lose", c)
  BY <1>2 DEF Unlink, IMoves
<1>8. PICK n \in Int : n = links[c.ino]
  BY <1>1, <1>3 DEF ITypeOK
<1>9. links' = [links EXCEPT ![c.ino] = n - 1]
  BY <1>2, <1>8 DEF Unlink
<1>10. links' \in [Ino -> Int] /\ links'[c.ino] = n - 1 /\ \A i \in Ino \ {c.ino} : links'[i] = links[i]
  BY <1>1, <1>3, <1>9 DEF ITypeOK
<1>11. links[ino[s]] = slot[s].nlink => links'[ino[s]] = f.nlink
  BY <1>3, <1>4, <1>5, <1>8, <1>10
<1>12. ~(links[ino[s]] > 0) => ~(links'[ino[s]] > 0)
  BY <1>3, <1>8, <1>10
<1> QED BY <1>1, <1>2, <1>3, <1>5, <1>6, <1>7, <1>10, <1>11, <1>12, SetHeldStep

LEMMA WriteFileStep ==
  ASSUME IInv, NEW t \in ITask, WriteFile(t)
  PROVE  IInv'
<1>1. ITypeOK /\ ipc[t] = "open" /\ ipc[t] \notin NoSlotPc /\ ipc[t] # "fail"
  BY DEF IInv, WriteFile, NoSlotPc
<1>2. PICK c \in ICallRec, s \in Slot : c = icall[t] /\ c.slot = {s} /\ My(t) = s
  BY <1>1, MySlot
<1>3. PICK g \in Fields : g = slot[s]
  BY <1>1 DEF ITypeOK
<1> DEFINE f == [g EXCEPT !.full = TRUE]
<1>4. f \in Fields /\ f.nlink = g.nlink
  BY DEF Fields
<1>5. SetDirty(s, f)
  BY <1>2, <1>3 DEF WriteFile
<1> HIDE DEF f
<1>6. UNCHANGED <<ino, irefcnt, ilock, ifreeq, dinode, imap, dirlock>> /\ IMoves(t, "open", c) /\ links' = links
  BY <1>1, <1>2 DEF WriteFile, IMoves
<1>7. links' \in [Ino -> Int]
  BY <1>1, <1>6 DEF ITypeOK
<1> QED BY <1>1, <1>2, <1>3, <1>4, <1>5, <1>6, <1>7, SetHeldStep

LEMMA TruncatedStep ==
  ASSUME IInv, NEW t \in ITask, Truncated(t)
  PROVE  IInv'
<1>1. /\ ITypeOK /\ ITaskOK(t) /\ ICounts /\ UsesOK /\ UmountOK /\ CachedOK /\ ITasksOK
      /\ ipc[t] = "trunc" /\ ipc[t] \notin NoSlotPc /\ ipc[t] # "fail"
  BY DEF IInv, ITasksOK, Truncated, NoSlotPc
<1>2. PICK c \in ICallRec, s \in Slot : c = icall[t] /\ c.slot = {s} /\ My(t) = s
  BY <1>1, MySlot
<1>3. ino[s] \in Ino
  BY <1>1, <1>2 DEF ITaskOK
<1>4. /\ ino' = ino /\ irefcnt' = irefcnt /\ ilock' = ilock /\ ifreeq' = ifreeq /\ dinode' = dinode
      /\ links' = links /\ dirlock' = dirlock
  BY DEF Truncated
<1>5. PICK d \in ICallRec : /\ d = [c EXCEPT !.slot = {}] /\ d.slot = {}
                            /\ d.op = c.op /\ d.ino = c.ino /\ d.left = c.left
  BY SlotOfCall
<1>6. IMoves(t, "done", d) /\ "done" \in IPc \ {"trunc"} /\ "done" \in IPc
  BY <1>2, <1>5 DEF Truncated, IDone, IMoves, IPc
<1>7. icall'[t] = d /\ ipc'[t] = "done"
  BY <1>1, <1>6, IMovesIs
<1>8. PICK g \in Fields : g = slot[s]
  BY <1>1 DEF ITypeOK
<1> DEFINE f == [g EXCEPT !.full = FALSE]
<1>9. f \in Fields
  BY DEF Fields
<1>10. IF irefcnt[s] > 0 \/ g.nlink > 0
         THEN SetDirty(s, f) /\ UNCHANGED imap
         ELSE /\ slot' = [slot EXCEPT ![s] = f] /\ istate' = [istate EXCEPT ![s] = "IINVAL"]
              /\ imap' = imap \ {ino[s]} /\ UNCHANGED newest
              /\ iexcused' = IF ilock[s] THEN iexcused \cup {ino[s]} ELSE iexcused
  BY <1>2, <1>8 DEF Truncated
<1> HIDE DEF f
<1>11. ITaskOK(t)'
  BY <1>5, <1>7 DEF ITaskOK, NoSlotPc, Searches
<1>12. SameHeld(t) /\ MyUse(t)
  BY <1>1, <1>5, <1>7 DEF SameHeld, HasSlot, MyUse
<1>13. ilock' \in [Slot -> BOOLEAN] /\ SafeLock(t)
  BY <1>1, <1>4, <1>7 DEF ITypeOK, SafeLock
<1>14. CASE irefcnt[s] > 0 \/ g.nlink > 0
  <2>1. ino[s] \in iexcused
    <3> SUFFICES ASSUME ino[s] \notin iexcused PROVE FALSE
      OBVIOUS
    <3>1. UseOK(t, s)
      BY <1>1, <1>2 DEF UsesOK
    <3>2. irefcnt[s] = 0 /\ ~(slot[s].nlink > 0)
      BY <1>1, <3>1 DEF UseOK
    <3> QED BY <1>8, <1>14, <3>2
  <2>2. iexcused' = iexcused
    BY <1>10, <1>14, <2>1 DEF SetDirty
  <2>3. /\ slot' \in [Slot -> Fields] /\ istate' \in [Slot -> {"IINVAL", "ICLEAN", "IDIRTY"}]
        /\ \A r \in Slot \ {s} : istate'[r] = istate[r] /\ slot'[r] = slot[r]
    BY <1>1, <1>9, <1>10, <1>14 DEF SetDirty, ITypeOK
  <2>4. newest' \in [Ino -> Fields] /\ \A i \in Ino \ {ino[s]} : newest'[i] = newest[i]
    BY <1>1, <1>3, <1>9, <1>10, <1>14 DEF SetDirty, ITypeOK
  <2>5. OnlySlot(s)
    BY <1>1, <1>4, <1>10, <1>14, <2>2, <2>3, <2>4 DEF OnlySlot, ITypeOK
  <2>6. OthersAt(t, s) /\ NoNewDirt(t)
    BY <1>4, <2>1, <2>2, <2>3 DEF OthersAt, OtherAt, NoNewDirt
  <2>7. Written(t)
    BY <1>1, <1>2, <1>4, <1>5, <1>7, <2>1, <2>2, <2>3 DEF Written, UmountOK
  <2> QED BY <1>3, <1>6, <1>11, <1>12, <1>13, <2>1, <2>2, <2>5, <2>6, <2>7, SlotStep
<1>15. CASE ~(irefcnt[s] > 0 \/ g.nlink > 0)
  <2>1. /\ slot' = [slot EXCEPT ![s] = f] /\ istate' = [istate EXCEPT ![s] = "IINVAL"]
        /\ imap' = imap \ {ino[s]} /\ newest' = newest
        /\ iexcused' = IF ilock[s] THEN iexcused \cup {ino[s]} ELSE iexcused
    BY <1>10, <1>15
  <2>2. iexcused' \in SUBSET Ino /\ iexcused \subseteq iexcused'
    BY <1>1, <1>3, <2>1 DEF ITypeOK
  <2>3. /\ slot' \in [Slot -> Fields] /\ istate' \in [Slot -> {"IINVAL", "ICLEAN", "IDIRTY"}]
        /\ istate'[s] = "IINVAL"
        /\ \A r \in Slot \ {s} : istate'[r] = istate[r] /\ slot'[r] = slot[r]
    BY <1>1, <1>9, <2>1 DEF ITypeOK
  <2>4. OnlySlot(s)
    BY <1>1, <1>4, <2>1, <2>2, <2>3 DEF OnlySlot, ITypeOK
  <2>5. OthersAt(t, s)
    <3> SUFFICES ASSUME NEW u \in ITask \ {t}, s \in icall[u].slot, ino[s] \notin iexcused'
                 PROVE  OtherAt(u, s)
      BY DEF OthersAt, OtherAt
    <3>1. ITaskOK(u) /\ UseOK(t, s)
      BY <1>1, <1>2, <2>2 DEF ITasksOK, UsesOK
    <3>2. ipc[u] \notin {"have", "open"}
      BY <1>1, <1>15, HeldSlotInUse DEF HasSlot
    <3>3. ipc[u] # "write"
      BY <2>1, <3>1 DEF ITaskOK
    <3>4. ipc[u] # "trunc"
      BY <1>1, <3>1 DEF UseOK
    <3> QED BY <2>3, <3>2, <3>3, <3>4 DEF OtherAt
  <2>6. NoNewDirt(t)
    BY <1>4, <2>2, <2>3 DEF NoNewDirt
  <2>7. Written(t)
    BY <1>1, <1>4, <1>5, <1>7, <1>2, <2>2, <2>3 DEF Written, UmountOK
  <2>8. ASSUME ino[s] \notin iexcused' PROVE InodeOK(ino[s])'
    <3>1. InodeOK(ino[s]) /\ Findi(ino[s]) = {s}
      BY <1>1, <1>3, <2>2, <2>8, FindiIs DEF CachedOK
    <3>2. UseOK(t, s)
      BY <1>1, <1>2, <2>2, <2>8 DEF UsesOK
    <3>3. istate[s] # "IINVAL" /\ ~(slot[s].nlink > 0)
      BY <1>1, <3>2 DEF UseOK
    <3>4. ~(links[ino[s]] > 0)
      BY <3>1, <3>3 DEF InodeOK
    <3>5. ino[s] \notin imap'
      BY <2>1
    <3> QED BY <1>4, <3>4, <3>5 DEF InodeOK
  <2> QED BY <1>3, <1>6, <1>11, <1>12, <1>13, <2>4, <2>5, <2>6, <2>7, <2>8, SlotStep
<1> QED BY <1>14, <1>15

LEMMA LoseSlotStep ==
  ASSUME IInv, NEW t \in ITask, LoseSlot(t)
  PROVE  IInv'
<1>1. /\ ITypeOK /\ ITaskOK(t) /\ ICounts /\ UsesOK /\ UmountOK /\ ValidIno
      /\ ipc[t] = "lose" /\ ipc[t] \notin NoSlotPc /\ ipc[t] # "fail"
  BY DEF IInv, ITasksOK, LoseSlot, NoSlotPc
<1>2. PICK c \in ICallRec, s \in Slot : c = icall[t] /\ c.slot = {s} /\ My(t) = s
  BY <1>1, MySlot
<1>3. /\ ino' = ino /\ istate' = istate /\ ilock' = ilock /\ slot' = slot /\ iexcused' = iexcused
      /\ dinode' = dinode /\ imap' = imap /\ links' = links /\ newest' = newest /\ dirlock' = dirlock
  BY DEF LoseSlot, ondisk
<1>4. PICK n \in Int : n = irefcnt[s]
  BY <1>1 DEF ITypeOK
<1>5. HasSlot(t, s)
  BY <1>1, <1>2 DEF HasSlot
<1>6. n > 0
  BY <1>1, <1>4, <1>5, HeldSlotInUse
<1>7. irefcnt' = [irefcnt EXCEPT ![s] = n - 1]
  BY <1>2, <1>4 DEF LoseSlot
<1>8. irefcnt' \in [Slot -> Int] /\ irefcnt'[s] = n - 1 /\ \A r \in Slot \ {s} : irefcnt'[r] = irefcnt[r]
  BY <1>1, <1>7 DEF ITypeOK
<1>9. ifreeq' \in Seq(Slot)
  <2>1. ifreeq \in Seq(Slot) /\ (ifreeq' = ifreeq \/ ifreeq' = Append(ifreeq, s))
    BY <1>1, <1>2 DEF LoseSlot, ITypeOK
  <2> QED BY <2>1
<1>10. PICK d \in ICallRec, l \in {"done", "trunc"} :
         /\ IMoves(t, l, d) /\ d.op = c.op /\ d.ino = c.ino /\ d.left = c.left
         /\ d.slot = IF l = "done" THEN {} ELSE {s}
         /\ l = "trunc" => ~(n > 1) /\ istate[s] # "IINVAL" /\ ~(slot[s].nlink > 0)
  <2>1. PICK e \in ICallRec : /\ e = [c EXCEPT !.slot = {}] /\ e.slot = {}
                              /\ e.op = c.op /\ e.ino = c.ino /\ e.left = c.left
    BY SlotOfCall
  <2>2. CASE n > 1 \/ istate[s] = "IINVAL" \/ slot[s].nlink > 0
    <3>1. IMoves(t, "done", e)
      BY <1>2, <1>4, <2>1, <2>2 DEF LoseSlot, IDone, IMoves
    <3> QED BY <2>1, <3>1
  <2>3. CASE ~(n > 1 \/ istate[s] = "IINVAL" \/ slot[s].nlink > 0)
    <3>1. IMoves(t, "trunc", c)
      BY <1>2, <1>4, <2>3 DEF LoseSlot, IMoves
    <3> QED BY <1>2, <2>3, <3>1
  <2> QED BY <2>2, <2>3
<1>11. l \in IPc
  BY DEF IPc
<1>12. /\ icall' \in [ITask -> ICallRec] /\ icall'[t] = d
       /\ ipc' \in [ITask -> IPc] /\ ipc'[t] = l
       /\ \A u \in ITask \ {t} : ipc'[u] = ipc[u] /\ icall'[u] = icall[u]
  BY <1>1, <1>10, <1>11, IMovesIs
<1>13. IFrame(t)
  BY <1>3, <1>12 DEF IFrame
<1>14. ITypeOK'
  BY <1>1, <1>3, <1>8, <1>9, <1>12 DEF ITypeOK
<1>15. SafeIno /\ SafeLock(t)
  BY <1>3, <1>12 DEF SafeIno, SafeLock
<1>16. ITaskOK(t)'
  BY <1>1, <1>3, <1>10, <1>12 DEF ITaskOK, NoSlotPc, Searches, ValidIno
<1>17. IFollows(t)
  <2> SUFFICES ASSUME NEW r \in Slot
               PROVE  irefcnt'[r] = irefcnt[r] + Bit(HasSlot(t, r)') - Bit(HasSlot(t, r))
    BY DEF IFollows
  <2>1. ~HasSlot(t, r)' /\ (HasSlot(t, r) <=> r = s)
    BY <1>1, <1>2, <1>10, <1>12 DEF HasSlot
  <2>2. Bit(HasSlot(t, r)') = 0 /\ Bit(HasSlot(t, r)) = IF r = s THEN 1 ELSE 0
    BY <2>1 DEF Bit
  <2>3. irefcnt[r] \in Int
    BY <1>1 DEF ITypeOK
  <2> QED BY <1>4, <1>8, <2>2, <2>3
<1>18. MyUse(t)
  <2> SUFFICES ASSUME l = "trunc", ino[s] \notin iexcused PROVE UseOK(t, s)'
    BY <1>3, <1>10, <1>12 DEF MyUse, UseOK
  <2>1. irefcnt'[s] = 0
    BY <1>6, <1>8, <1>10
  <2>2. ASSUME NEW u \in ITask \ {t}, ipc'[u] = "trunc" PROVE s \notin icall'[u].slot
    BY <1>5, <1>12, <2>2, NoRelease
  <2> QED BY <1>3, <1>10, <1>12, <2>1, <2>2 DEF UseOK
<1>19. OtherUse(t)
  <2> SUFFICES ASSUME NEW u \in ITask \ {t}, NEW r \in icall[u].slot, ino[r] \notin iexcused
               PROVE  UseOK(u, r)'
    BY <1>3 DEF OtherUse
  <2>1. UseOK(u, r) /\ r \in Slot
    BY <1>1 DEF UsesOK, ITypeOK, ICallRec
  <2>2. ipc[u] = "trunc" => r # s
    BY <1>5, NoRelease
  <2>3. ipc[u] = "trunc" => irefcnt'[r] = irefcnt[r]
    BY <1>8, <2>1, <2>2
  <2>4. ipc[u] = "trunc" => \A v \in ITask \ {u} : ipc'[v] = "trunc" => r \notin icall'[v].slot
    BY <1>10, <1>12, <2>1, <2>2 DEF UseOK
  <2> QED BY <1>3, <1>12, <2>1, <2>3, <2>4 DEF UseOK
<1>20. Written(t)
  BY <1>1, <1>2, <1>3, <1>10, <1>12 DEF Written, UmountOK
<1>21. NoNewDirt(t)
  BY <1>3 DEF NoNewDirt
<1>22. OneSlot' /\ ValidIno'
  BY <1>3 DEF IInv, OneSlot, ValidIno
<1>23. CachedOK'
  BY <1>3 DEF IInv, CachedOK, InodeOK, Findi
<1> QED BY <1>13, <1>14, <1>15, <1>16, <1>17, <1>18, <1>19, <1>20, <1>21, <1>22, <1>23, IKeeps

LEMMA CreatStep ==
  ASSUME IInv, NEW t \in ITask, Creat(t)
  PROVE  IInv'
<1>1. ITypeOK /\ ITasksOK /\ ITaskOK(t) /\ UsesOK /\ UmountOK /\ CachedOK /\ ipc[t] = "out"
  BY DEF IInv, ITasksOK, Creat
<1>2. UNCHANGED table
  BY DEF Creat
<1>3. /\ ino' = ino /\ istate' = istate /\ irefcnt' = irefcnt /\ slot' = slot /\ ilock' = ilock
      /\ ifreeq' = ifreeq /\ dirlock' = dirlock /\ iexcused' = iexcused /\ ipc' = ipc /\ icall' = icall
  BY <1>2, TableStill DEF Creat
<1>4. PICK i \in Ino \ imap :
        /\ \A s \in Findi(i) : istate[s] = "IINVAL"
        /\ imap' = imap \cup {i}
        /\ dinode' = [dinode EXCEPT ![i] = [nlink |-> 1, full |-> FALSE]]
        /\ newest' = [newest EXCEPT ![i] = [nlink |-> 1, full |-> FALSE]]
        /\ links' = [links EXCEPT ![i] = 1]
  BY DEF Creat
<1>5. PICK f \in Fields : f = [nlink |-> 1, full |-> FALSE] /\ f.nlink = 1
  <2>1. [nlink |-> 1, full |-> FALSE] \in Fields /\ [nlink |-> 1, full |-> FALSE].nlink = 1
    BY DEF Fields
  <2> QED BY <2>1
<1>6. /\ dinode' \in [Ino -> Fields] /\ newest' \in [Ino -> Fields] /\ links' \in [Ino -> Int]
      /\ dinode'[i] = f /\ newest'[i] = f /\ links'[i] = 1
      /\ \A j \in Ino \ {i} : dinode'[j] = dinode[j] /\ newest'[j] = newest[j] /\ links'[j] = links[j]
  BY <1>1, <1>4, <1>5 DEF ITypeOK
<1>7. ITypeOK'
  BY <1>1, <1>3, <1>4, <1>6 DEF ITypeOK
<1>8. IFrame(t) /\ SafeIno
  BY <1>3 DEF IFrame, SafeIno
<1>9. SafeLock(t)
  BY <1>1, <1>3 DEF SafeLock
<1>10. ITaskOK(t)'
  BY <1>1, <1>3 DEF ITaskOK
<1>11. IFollows(t)
  <2>1. \A s \in Slot : irefcnt[s] \in Int
    BY <1>1 DEF ITypeOK
  <2>2. ASSUME NEW s \in Slot PROVE Bit(HasSlot(t, s)') = Bit(HasSlot(t, s)) /\ Bit(HasSlot(t, s)) \in Int
    BY <1>3 DEF HasSlot, Syncs, Bit
  <2> QED BY <1>3, <2>1, <2>2 DEF IFollows
<1>12. MyUse(t) /\ OtherUse(t)
  BY <1>1, <1>3 DEF MyUse, OtherUse, UsesOK, UseOK
<1>13. Written(t) /\ NoNewDirt(t)
  BY <1>1, <1>3 DEF Written, UmountOK, NoNewDirt
<1>14. OneSlot' /\ ValidIno'
  BY <1>3 DEF IInv, OneSlot, ValidIno
<1>15. CachedOK'
  <2> SUFFICES ASSUME NEW j \in Ino, j \notin iexcused PROVE InodeOK(j)'
    BY <1>3 DEF CachedOK
  <2>1. InodeOK(j)
    BY <1>1 DEF CachedOK
  <2>2. Findi(j)' = Findi(j)
    BY <1>3 DEF Findi
  <2>3. CASE j = i
    BY <1>3, <1>4, <1>5, <1>6, <2>2, <2>3 DEF InodeOK
  <2>4. CASE j # i
    <3>1. dinode'[j] = dinode[j] /\ newest'[j] = newest[j] /\ links'[j] = links[j] /\ (j \in imap' <=> j \in imap)
      BY <1>4, <1>6, <2>4
    <3> QED BY <1>3, <2>1, <2>2, <3>1 DEF InodeOK
  <2> QED BY <2>3, <2>4
<1> QED BY <1>7, <1>8, <1>9, <1>10, <1>11, <1>12, <1>13, <1>14, <1>15, IKeeps

LEMMA SyncNextStep ==
  ASSUME IInv, NEW t \in ITask, SyncNext(t)
  PROVE  IInv'
<1>1. ITypeOK /\ ITaskOK(t) /\ UmountOK /\ ipc[t] = "next"
  BY DEF IInv, ITasksOK, SyncNext
<1>2. PICK c \in ICallRec : c = icall[t] /\ c.slot = {} /\ c.op \in {"sync", "umount"}
  BY <1>1 DEF ITypeOK, ITaskOK, NoSlotPc
<1>3. /\ ino' = ino /\ istate' = istate /\ ilock' = ilock /\ slot' = slot /\ ifreeq' = ifreeq
      /\ dinode' = dinode /\ imap' = imap /\ links' = links /\ newest' = newest /\ dirlock' = dirlock
  BY DEF SyncNext, ondisk
<1>4. CASE c.left = {}
  <2>1. IStill /\ ifreeq' \in Seq(Slot) /\ DirFrame(t) /\ iexcused' = iexcused
    BY <1>1, <1>2, <1>3, <1>4, DirStays DEF IStill, SyncNext, ITypeOK
  <2>2. CASE c.op = "umount"
    <3>1. IMoves(t, "umount", c) /\ "umount" \in IPc \ {"trunc", "read", "write"} /\ "umount" \in IPc
      BY <1>2, <1>4, <2>2 DEF SyncNext, IMoves, IPc
    <3>2. icall'[t] = c /\ ipc'[t] = "umount"
      BY <1>1, <3>1, IMovesIs
    <3>3. ITaskOK(t)'
      BY <1>2, <1>4, <2>2, <3>2 DEF ITaskOK, NoSlotPc, Searches
    <3>4. SameHeld(t) /\ MyUse(t)
      BY <1>1, <1>2, <3>2 DEF SameHeld, HasSlot, MyUse
    <3>5. Written(t)
      BY <1>1, <1>2, <1>3, <2>1, <3>2 DEF Written, UmountOK
    <3> QED BY <1>3, <2>1, <3>1, <3>3, <3>4, <3>5, IStays
  <2>3. CASE c.op # "umount"
    <3>1. IMoves(t, "out", NoSlot) /\ "out" \in IPc \ {"trunc", "read", "write"} /\ "out" \in IPc
      BY <1>2, <1>4, <2>3 DEF SyncNext, IMoves, IPc
    <3>2. icall'[t] = NoSlot /\ ipc'[t] = "out"
      BY <1>1, <3>1, IMovesIs, NoSlotTyped
    <3>3. ITaskOK(t)' /\ Written(t)
      BY <3>2, NoSlotTyped DEF ITaskOK, NoSlotPc, Searches, Written
    <3>4. SameHeld(t) /\ MyUse(t)
      BY <1>1, <1>2, <3>2, NoSlotTyped DEF SameHeld, HasSlot, MyUse
    <3> QED BY <1>3, <2>1, <3>1, <3>3, <3>4, IStays, NoSlotTyped
  <2> QED BY <2>2, <2>3
<1>5. CASE c.left # {}
  <2>1. PICK s \in Slot : s = (CHOOSE e \in c.left : TRUE) /\ s \in c.left
    BY <1>5 DEF ICallRec
  <2> DEFINE d == [c EXCEPT !.left = @ \ {s}, !.slot = {s}]
  <2>2. d \in ICallRec /\ d.slot = {s} /\ d.left = c.left \ {s} /\ d.op = c.op /\ d.ino = c.ino
    BY DEF ICallRec
  <2>3. HoldSlots({s}) /\ ICall(t, d) /\ IGoto(t, "lock")
    BY <1>2, <1>5, <2>1 DEF SyncNext
  <2> HIDE DEF d
  <2>4. IMoves(t, "lock", d) /\ "lock" \in IPc
    BY <2>3 DEF IMoves, IPc
  <2>5. icall'[t] = d /\ ipc'[t] = "lock"
    BY <1>1, <2>2, <2>4, IMovesIs
  <2>6. ITaskOK(t)'
    BY <1>2, <2>2, <2>5 DEF ITaskOK, NoSlotPc, Searches
  <2>7. UNCHANGED <<ino, istate, ilock, slot, ifreeq, dinode, imap, links, newest, dirlock>>
    BY <1>3
  <2>8. d.op = "umount" => \A r \in Slot \ d.left : r # s /\ istate[r] = "IDIRTY" => ino[r] \in iexcused
    BY <1>1, <1>2, <2>2 DEF UmountOK
  <2> QED BY <1>2, <2>2, <2>3, <2>4, <2>6, <2>7, <2>8, HoldKeeps
<1> QED BY <1>4, <1>5

LEMMA UmountStep ==
  ASSUME IInv, NEW t \in ITask, Umount(t)
  PROVE  IInv'
<1>1. /\ ITypeOK /\ ITasksOK /\ ITaskOK(t) /\ ICounts /\ UsesOK /\ UmountOK /\ CachedOK
      /\ ipc[t] = "umount"
  BY DEF IInv, ITasksOK, Umount
<1>2. icall[t].slot = {} /\ icall[t].op = "umount" /\ icall[t].left = {}
  BY <1>1 DEF ITaskOK, NoSlotPc
<1>3. /\ ino' = ino /\ irefcnt' = irefcnt /\ ilock' = ilock /\ slot' = slot /\ ifreeq' = ifreeq
      /\ dinode' = dinode /\ imap' = imap /\ links' = links /\ newest' = newest /\ dirlock' = dirlock
  BY DEF Umount, ondisk
<1>4. IMoves(t, "out", NoSlot) /\ "out" \in IPc \ {"trunc", "read", "write"} /\ "out" \in IPc
  BY DEF Umount, IMoves, IPc
<1>5. /\ icall' \in [ITask -> ICallRec] /\ icall'[t] = NoSlot
      /\ ipc' \in [ITask -> IPc] /\ ipc'[t] = "out"
      /\ \A u \in ITask \ {t} : ipc'[u] = ipc[u] /\ icall'[u] = icall[u]
  BY <1>1, <1>4, IMovesIs, NoSlotTyped
<1>6. ITaskOK(t)' /\ Written(t)
  BY <1>5, NoSlotTyped DEF ITaskOK, NoSlotPc, Searches, Written
<1>7. SameHeld(t) /\ MyUse(t)
  BY <1>1, <1>2, <1>5, NoSlotTyped DEF SameHeld, HasSlot, MyUse
<1>8. CASE (\E s \in Slot : irefcnt[s] > 0) \/ (\E u \in ITask : dirlock[u] # "free")
  <2>1. IStill /\ ifreeq' \in Seq(Slot) /\ DirFrame(t)
    BY <1>1, <1>3, <1>8, DirStays DEF IStill, Umount, ITypeOK
  <2> QED BY <1>3, <1>4, <1>6, <1>7, <2>1, IStays, NoSlotTyped
<1>9. CASE ~((\E s \in Slot : irefcnt[s] > 0) \/ (\E u \in ITask : dirlock[u] # "free"))
  <2>1. /\ istate' = [s \in Slot |-> "IINVAL"]
        /\ iexcused' = IF \E u \in ITask : ipc[u] = "trunc" THEN Ino ELSE iexcused
    BY <1>9 DEF Umount
  <2>2. iexcused' \in SUBSET Ino /\ iexcused \subseteq iexcused'
    BY <1>1, <2>1 DEF ITypeOK
  <2>3. IFrame(t) /\ SafeIno /\ SafeLock(t)
    BY <1>3, <1>5 DEF IFrame, SafeIno, SafeLock
  <2>4. ITypeOK'
    BY <1>1, <1>3, <1>5, <2>1, <2>2 DEF ITypeOK
  <2>5. IFollows(t)
    <3>1. \A s \in Slot : irefcnt[s] \in Int
      BY <1>1 DEF ITypeOK
    <3>2. ASSUME NEW s \in Slot PROVE Bit(HasSlot(t, s)') = Bit(HasSlot(t, s)) /\ Bit(HasSlot(t, s)) \in Int
      BY <1>7 DEF SameHeld, Bit
    <3> QED BY <1>3, <3>1, <3>2 DEF IFollows
  <2>6. OtherUse(t)
    <3> SUFFICES ASSUME NEW u \in ITask \ {t}, NEW s \in icall[u].slot, ino[s] \notin iexcused'
                 PROVE  UseOK(u, s)'
      BY <1>3 DEF OtherUse
    <3>1. s \in Slot /\ ITaskOK(u)
      BY <1>1 DEF ITypeOK, ICallRec, ITasksOK
    <3>2. ~HasSlot(u, s)
      BY <1>1, <1>9, <3>1, HeldSlotInUse
    <3>3. ipc[u] \notin {"have", "open"}
      BY <3>2 DEF HasSlot
    <3>4. ipc[u] # "write"
      BY <1>9, <3>1, <3>2 DEF HasSlot, Syncs, ITaskOK
    <3>5. ipc[u] # "trunc"
      BY <2>1, <3>1 DEF ITaskOK
    <3> QED BY <1>5, <2>1, <3>1, <3>3, <3>4, <3>5 DEF UseOK
  <2>7. NoNewDirt(t) /\ ValidIno'
    BY <2>1 DEF NoNewDirt, ValidIno
  <2>8. OneSlot'
    BY <1>3 DEF IInv, OneSlot
  <2>9. CachedOK'
    <3> SUFFICES ASSUME NEW i \in Ino, i \notin iexcused' PROVE InodeOK(i)'
      BY DEF CachedOK
    <3>1. InodeOK(i) /\ i \notin iexcused
      BY <1>1, <2>2 DEF CachedOK
    <3>2. Findi(i)' = Findi(i) /\ \A s \in Findi(i) : s \in Slot /\ ino[s] = i
      BY <1>1, <1>3 DEF Findi, ITypeOK
    <3>3. \A s \in Findi(i) : istate[s] # "IDIRTY"
      BY <1>1, <1>2, <3>1, <3>2 DEF UmountOK
    <3>4. \A s \in Findi(i) : istate'[s] = "IINVAL"
      BY <2>1, <3>2
    <3> QED BY <1>3, <3>1, <3>2, <3>3, <3>4 DEF InodeOK
  <2> QED BY <1>6, <1>7, <2>3, <2>4, <2>5, <2>6, <2>7, <2>8, <2>9, IKeeps
<1> QED BY <1>8, <1>9

----------------------------------------------------------------------------
LEMMA IStarts == IInit => IInv
<1> SUFFICES ASSUME IInit PROVE IInv
  OBVIOUS
<1>1. /\ ino = [s \in Slot |-> NoIno] /\ istate = [s \in Slot |-> "IINVAL"]
      /\ irefcnt = [s \in Slot |-> 0] /\ ilock = [s \in Slot |-> FALSE]
      /\ slot = [s \in Slot |-> [nlink |-> 0, full |-> FALSE]] /\ ifreeq \in Seq(Slot)
      /\ imap = Used /\ newest = dinode
      /\ dirlock = [t \in ITask |-> "free"] /\ iexcused = {}
      /\ ipc = [t \in ITask |-> "out"] /\ icall = [t \in ITask |-> NoSlot]
  BY ListOfAll, IAssumption DEF IInit
<1>2. /\ dinode = [i \in Ino |-> [nlink |-> IF i \in Used THEN 1 ELSE 0, full |-> i \in Used]]
      /\ links = [i \in Ino |-> dinode[i].nlink]
  BY DEF IInit
<1>3. [nlink |-> 0, full |-> FALSE] \in Fields
  BY DEF Fields
<1>4. \A i \in Ino : [nlink |-> IF i \in Used THEN 1 ELSE 0, full |-> i \in Used] \in Fields
  BY DEF Fields
<1>5. dinode \in [Ino -> Fields] /\ \A i \in Ino : dinode[i].nlink = IF i \in Used THEN 1 ELSE 0
  BY <1>2, <1>4
<1>6. links \in [Ino -> Int] /\ \A i \in Ino : links[i] = dinode[i].nlink
  BY <1>2, <1>5
<1>7. ITypeOK
  <2>1. slot \in [Slot -> Fields]
    BY <1>1, <1>3
  <2>2. icall \in [ITask -> ICallRec] /\ ipc \in [ITask -> IPc]
    BY <1>1, NoSlotTyped, "out" \in IPc DEF IPc
  <2>3. imap \in SUBSET Ino
    BY <1>1, IAssumption
  <2> QED BY <1>1, <1>5, <1>6, <2>1, <2>2, <2>3 DEF ITypeOK
<1>8. \A t \in ITask : ipc[t] = "out" /\ icall[t].slot = {} /\ icall[t].op = "none"
  BY <1>1, NoSlotTyped
<1>9. ITasksOK /\ ILocksOK /\ UsesOK /\ UmountOK
  BY <1>8 DEF ITasksOK, ITaskOK, NoSlotPc, Searches, ILocksOK, UsesOK, UmountOK
<1>10. ICounts
  <2>1. \A s \in Slot : SlotHolders(s) = {}
    BY <1>8 DEF SlotHolders, HasSlot
  <2> QED BY <1>1, <2>1, FS_EmptySet DEF ICounts
<1>11. OneSlot /\ ValidIno
  BY <1>1, IAssumption DEF OneSlot, ValidIno
<1>12. CachedOK
  <2>1. \A i \in Ino : Findi(i) = {}
    BY <1>1, IAssumption DEF Findi
  <2> QED BY <1>1, <1>5, <1>6, <2>1 DEF CachedOK, InodeOK
<1> QED BY <1>7, <1>9, <1>10, <1>11, <1>12 DEF IInv

LEMMA IInvKept == IInv /\ [INext]_ivars => IInv'
<1> SUFFICES ASSUME IInv, [INext]_ivars PROVE IInv'
  OBVIOUS
<1>1. ASSUME NEW t \in ITask, IStep(t) PROVE IInv'
  BY <1>1, GetiStep, WaitOtherStep, IHitStep, IReadStep, IWriteStep, LoseSlotStep, TruncatedStep, UnlinkStep,
     OpenedStep, CloseInodeStep, IReturnStep, IFailStep, SyncNextStep, SyncLockStep, UmountStep DEF IStep
<1>2. CASE INext
  BY <1>1, <1>2, WriteFileStep, CreatStep, SynciStep, LookupStep DEF INext
<1>3. CASE UNCHANGED ivars
  <2>1. /\ ino' = ino /\ istate' = istate /\ irefcnt' = irefcnt /\ ilock' = ilock /\ slot' = slot
        /\ ifreeq' = ifreeq /\ dinode' = dinode /\ imap' = imap /\ links' = links /\ dirlock' = dirlock
        /\ newest' = newest /\ iexcused' = iexcused /\ ipc' = ipc /\ icall' = icall
    BY <1>3 DEF ivars, table, ondisk
  <2>2. ITypeOK' /\ OneSlot' /\ ValidIno'
    BY <2>1 DEF IInv, ITypeOK, OneSlot, ValidIno
  <2>3. ITasksOK' /\ ILocksOK'
    BY <2>1 DEF IInv, ITasksOK, ITaskOK, ILocksOK
  <2>4. UsesOK' /\ UmountOK'
    BY <2>1 DEF IInv, UsesOK, UseOK, UmountOK
  <2>5. ICounts' /\ CachedOK'
    BY <2>1 DEF IInv, ICounts, SlotHolders, HasSlot, Syncs, CachedOK, InodeOK, Findi
  <2> QED BY <2>2, <2>3, <2>4, <2>5 DEF IInv
<1> QED BY <1>2, <1>3

\* The inode cache (fs/icache.cc, inode_t::lose, doumount): a name's inode is
\* allocated and has at most one slot, its fields as last set are in the slot
\* or in the inode table, unless one of the excuses of FieldsAreKept holds for
\* it, and whoever looked a number up has that inode's slot after every sleep.
THEOREM InodesKept == ISpec => []InodesAreKept
<1>1. ASSUME IInv PROVE InodesAreKept
  <2>1. ITypeOK /\ ITasksOK /\ OneSlot /\ CachedOK
    BY <1>1 DEF IInv
  <2>2. DOMAIN ino = Slot
    BY <2>1 DEF ITypeOK
  <2>3. ASSUME NEW i \in Ino PROVE Cardinality(Findi(i)) <= 1
    <3>1. Findi(i) = {} \/ \E s : Findi(i) = {s}
      BY <2>1, <2>2 DEF OneSlot, Findi
    <3>2. Cardinality({}) = 0 /\ \A s : Cardinality({s}) = 1
      BY FS_EmptySet, FS_Singleton
    <3>3. Cardinality(Findi(i)) = 0 \/ Cardinality(Findi(i)) = 1
      BY <3>1, <3>2
    <3> QED BY <3>3
  <2>4. NamedIsAllocated
    BY <2>1, <2>3 DEF NamedIsAllocated, CachedOK, InodeOK
  <2>5. FieldsAreKept
    <3> SUFFICES ASSUME NEW i \in imap \ iexcused
                 PROVE  /\ \A s \in Findi(i) : istate[s] # "IINVAL" => slot[s] = newest[i]
                        /\ (\A s \in Findi(i) : istate[s] # "IINVAL" => istate[s] = "ICLEAN") =>
                             dinode[i] = newest[i]
      BY DEF FieldsAreKept
    <3>1. InodeOK(i)
      BY <2>1 DEF CachedOK, ITypeOK
    <3>2. \A s \in Findi(i) : istate[s] = "IDIRTY" => istate[s] # "IINVAL" /\ istate[s] # "ICLEAN"
      OBVIOUS
    <3> QED BY <3>1, <3>2 DEF InodeOK
  <2>6. HeldAsAsked
    <3> SUFFICES ASSUME NEW t \in ITask, ipc[t] \in {"hit", "read", "have", "open"}
                 PROVE  ino[My(t)] = icall[t].ino
      BY DEF HeldAsAsked
    <3>1. ITaskOK(t)
      BY <2>1 DEF ITasksOK
    <3>2. PICK s \in Slot : icall[t].slot = {s} /\ ino[s] = icall[t].ino
      BY <3>1 DEF ITaskOK, NoSlotPc
    <3> QED BY <3>2, MyIs
  <2> QED BY <2>4, <2>5, <2>6 DEF InodesAreKept
<1>2. IInv => InodesAreKept
  BY <1>1
<1> QED BY <1>2, IStarts, IInvKept, PTL DEF ISpec

\* A step that gives a slot to another number is a geti's, and nobody uses
\* the slot.
LEMMA OnlyGetiTakes ==
  ASSUME IInv, [INext]_ivars, NEW s \in Slot, ino'[s] # ino[s]
  PROVE  \A t \in ITask : s \in icall[t].slot => ipc[t] \in {"geti", "trunc", "wait"}
<1>1. ITypeOK /\ ITasksOK /\ ICounts
  BY DEF IInv
<1>2. PICK t \in ITask : Geti(t)
  BY DEF INext, IStep, WaitOther, IHit, IRead, IWrite, LoseSlot, Truncated, Unlink, Opened, CloseInode,
         IReturn, IFail, SyncNext, SyncLock, Umount, WriteFile, Creat, Synci, Lookup, table, ivars
<1>3. Stops(t) # {} /\ ~ilock[ifreeq[Pick(t)]] /\ TakeSlot(t, ifreeq[Pick(t)])
  BY <1>2 DEF Geti, table
<1>4. PICK r \in Slot : r = ifreeq[Pick(t)] /\ irefcnt[r] = 0
  BY <1>1, <1>3, PickIs
<1>5. ino' = [ino EXCEPT ![r] = icall[t].ino] /\ ~ilock[r]
  BY <1>3, <1>4 DEF TakeSlot
<1>6. r = s
  BY <1>1, <1>5 DEF ITypeOK
<1> SUFFICES ASSUME NEW u \in ITask, s \in icall[u].slot PROVE ipc[u] \in {"geti", "trunc", "wait"}
  OBVIOUS
<1>7. ITaskOK(u) /\ ipc[u] \in IPc
  BY <1>1 DEF ITasksOK, ITypeOK
<1>8. ~HasSlot(u, s)
  BY <1>1, <1>4, <1>6, HeldSlotInUse
<1>9. ipc[u] # "write" /\ ipc[u] \notin NoSlotPc
  BY <1>5, <1>6, <1>7 DEF ITaskOK
<1> QED BY <1>7, <1>8, <1>9 DEF HasSlot, IPc, NoSlotPc

\* geti (fs/icache.cc) gives no slot to another inode while a task holds it
\* or waits for its lock to read, write or sync it.
THEOREM HeldInodesStay == ISpec => HeldKeepsIno
<1>1. IInv /\ [INext]_ivars =>
        [\A s \in DOMAIN ino : ino'[s] # ino[s] =>
           \A t \in ITask : s \in icall[t].slot => ipc[t] \in {"geti", "trunc", "wait"}]_ivars
  <2> SUFFICES ASSUME IInv, [INext]_ivars, NEW s \in DOMAIN ino, ino'[s] # ino[s]
               PROVE  \A t \in ITask : s \in icall[t].slot => ipc[t] \in {"geti", "trunc", "wait"}
    OBVIOUS
  <2>1. s \in Slot
    BY DEF IInv, ITypeOK
  <2> QED BY <2>1, OnlyGetiTakes
<1> QED BY <1>1, IStarts, IInvKept, PTL DEF ISpec, HeldKeepsIno
=============================================================================
