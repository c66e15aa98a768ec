------------------------------- MODULE Files -------------------------------
(***************************************************************************)
(* Open files: the descriptor tables of kern/fdes.cc, the open system call *)
(* (fs/open.cc) and the descriptions of regular files (fs/regfd.cc), which *)
(* tasks share after fork and dup.                                         *)
(*                                                                         *)
(* Calls sleep in the file system: open while it finds, makes or truncates *)
(* the inode, a close that lets the last reference to an inode go, a read  *)
(* or a write.  Other tasks run meanwhile.                                 *)
(***************************************************************************)
EXTENDS Integers, FiniteSets, FiniteSetsExt

CONSTANTS
  FTask, Inode, Nil,
  Fd, Fdes,      \* numbers, for descriptors and for descriptions
  Directory,     \* the inodes that are directories
  MaxPos,        \* bound on positions and sizes
  MaxFOps        \* bound on the calls of all tasks

ASSUME FilesAssumption ==
  /\ IsFiniteSet(FTask) /\ IsFiniteSet(Fd) /\ IsFiniteSet(Fdes)
  /\ Nil \notin Fd /\ Nil \notin Fdes /\ Nil \notin Inode /\ MaxPos \in Nat /\ MaxFOps \in Nat

VARIABLES
  fvec,      \* fdvec_t::vec of each task
  closemap,  \* the descriptors that exec closes
  fdes,      \* regfd_t: refcnt (0 when it is deleted), inode, flags, curpos
  iref,      \* what open files and open calls add to the inodes' refcnt
  size,      \* of the inodes
  fpc,       \* "none", "user", or where the task's call sleeps
  fcall,     \* the call: fd, inode, flags, and the position it works at
  nfops

fvars == <<fvec, closemap, fdes, iref, size, fpc, fcall, nfops>>

NoFdes == [refcnt |-> 0, inode |-> Nil, flags |-> {}, curpos |-> 0]
NoCall == [fd |-> Nil, to |-> Nil, inode |-> Nil, flags |-> {}, pos |-> 0]
Open(t) == {d \in Fd : fvec[t][d] # Nil}
Least(S) == {d \in S : \A e \in S : d <= e}
getslot(t) == Least(Fd \ Open(t))

InUser(t) == fpc[t] = "user"
Counts == nfops < MaxFOps /\ nfops' = nfops + 1
Goto(t, p, c) == fpc' = [fpc EXCEPT ![t] = p] /\ fcall' = [fcall EXCEPT ![t] = c]
Back(t) == Goto(t, "user", NoCall)

----------------------------------------------------------------------------
(* open. *)

\* sysopen up to the inode, by namei or mkreg, of which it now has a reference.
SysOpen(t, i, flags) ==
  /\ InUser(t) /\ Counts
  /\ Goto(t, "open", [NoCall EXCEPT !.inode = i, !.flags = flags])
  /\ iref' = [iref EXCEPT ![i] = @ + 1]
  /\ UNCHANGED <<fvec, closemap, fdes, size>>

\* doopen, with openregfd, its truncation and its errors, and the reference of
\* sysopen given back: a new description has its own.
Doopen(t) ==
  LET i == fcall[t].inode
      flags == fcall[t].flags
      trunc == "TRUNC" \in flags /\ ~(i \in Directory /\ "WRITE" \in flags)
  IN
  /\ fpc[t] = "open"
  /\ size' = IF trunc THEN [size EXCEPT ![i] = 0] ELSE size
  /\ \/ /\ ~(i \in Directory /\ "WRITE" \in flags)
        /\ \E d \in getslot(t), f \in Least({f \in Fdes : fdes[f].refcnt = 0}) :
             /\ fvec' = [fvec EXCEPT ![t][d] = f]
             /\ fdes' = [fdes EXCEPT ![f] = [refcnt |-> 1, inode |-> i, flags |-> flags, curpos |-> 0]]
        /\ UNCHANGED iref
     \/ /\ (i \in Directory /\ "WRITE" \in flags) \/ getslot(t) = {}
        /\ iref' = [iref EXCEPT ![i] = @ - 1]
        /\ UNCHANGED <<fvec, fdes>>
  /\ Back(t)
  /\ UNCHANGED <<closemap, nfops>>

----------------------------------------------------------------------------
(* dup, dup2, fcntl, close. *)

Shares(f) == [fdes EXCEPT ![f].refcnt = @ + 1]

\* dup, and FDUPFD from lowest on.
Dup(t, d, lowest) ==
  /\ InUser(t) /\ Counts /\ d \in Open(t)
  /\ \E e \in Least({e \in Fd \ Open(t) : e >= lowest}) :
       fvec' = [fvec EXCEPT ![t][e] = fvec[t][d]]
  /\ fdes' = Shares(fvec[t][d])
  /\ UNCHANGED <<closemap, iref, size, fpc, fcall>>

\* FSETFD.
Setfd(t, d, on) ==
  /\ InUser(t) /\ Counts /\ d \in Open(t)
  /\ closemap' = [closemap EXCEPT ![t] = IF on THEN @ \cup {d} ELSE @ \ {d}]
  /\ UNCHANGED <<fvec, fdes, iref, size, fpc, fcall>>

\* lose(): --refcnt, and the description goes with the last; its inode follows
\* in a step of its own, in which lose() of the inode may have slept.
Lost(f) == IF fdes[f].refcnt = 1 THEN [fdes EXCEPT ![f] = NoFdes] ELSE [fdes EXCEPT ![f].refcnt = @ - 1]
Closed(t, d) == [closemap EXCEPT ![t] = @ \ {d}]

\* close(d) by the call p: what is done with the slot comes after lose().
Lose(t, d, p, to) ==
  /\ fdes' = Lost(fvec[t][d])
  /\ Goto(t, p, [NoCall EXCEPT !.fd = d, !.to = to,
                 !.inode = IF fdes[fvec[t][d]].refcnt = 1 THEN fdes[fvec[t][d]].inode ELSE Nil])

Close(t, d) ==
  /\ InUser(t) /\ Counts /\ d \in Open(t)
  /\ Lose(t, d, "close", Nil)
  /\ UNCHANGED <<fvec, closemap, iref, size>>

Dup2(t, d, e) ==
  /\ InUser(t) /\ Counts /\ d \in Open(t) /\ d # e
  /\ IF e \in Open(t)
       THEN Lose(t, e, "dup2", d) /\ UNCHANGED fvec
       ELSE /\ fdes' = Shares(fvec[t][d])
            /\ fvec' = [fvec EXCEPT ![t][e] = fvec[t][d]]
            /\ UNCHANGED <<fpc, fcall>>
  /\ UNCHANGED <<closemap, iref, size>>

Unref(t) == IF fcall[t].inode = Nil THEN iref ELSE [iref EXCEPT ![fcall[t].inode] = @ - 1]

CloseEnd(t) ==
  /\ fpc[t] = "close"
  /\ iref' = Unref(t)
  /\ fvec' = [fvec EXCEPT ![t][fcall[t].fd] = Nil]
  /\ closemap' = Closed(t, fcall[t].fd)
  /\ Back(t)
  /\ UNCHANGED <<fdes, size, nfops>>

Dup2End(t) ==
  /\ fpc[t] = "dup2"
  /\ iref' = Unref(t)
  /\ fvec' = [fvec EXCEPT ![t][fcall[t].fd] = fvec[t][fcall[t].to]]
  /\ fdes' = Shares(fvec[t][fcall[t].to])
  /\ closemap' = Closed(t, fcall[t].fd)
  /\ Back(t)
  /\ UNCHANGED <<size, nfops>>

----------------------------------------------------------------------------
(* fork, exec, exit. *)

\* fdvec_t::clone holds each description; the copy starts with no closemap.
HoldNone(t) == fdes
HoldAll(t) ==
  [f \in Fdes |-> [fdes[f] EXCEPT !.refcnt = @ + Cardinality({d \in Fd : fvec[t][d] = f})]]

Clone(t, c) ==
  /\ InUser(t) /\ Counts /\ fpc[c] = "none"
  /\ fpc' = [fpc EXCEPT ![c] = "user"]
  /\ fvec' = [fvec EXCEPT ![c] = fvec[t]]
  /\ closemap' = [closemap EXCEPT ![c] = {}]
  /\ fdes' = HoldAll(t)
  /\ UNCHANGED <<iref, size, fcall>>

\* closeonexec and closeall: the tables' slots one by one, lowest first.
Closeonexec(t) ==
  /\ InUser(t) /\ Counts /\ closemap[t] # {}
  /\ Goto(t, "exec", NoCall)
  /\ UNCHANGED <<fvec, closemap, fdes, iref, size>>
Closeall(t) ==
  /\ InUser(t) /\ Counts
  /\ Goto(t, "exit", NoCall)
  /\ UNCHANGED <<fvec, closemap, fdes, iref, size>>

ToClose(t) == IF fpc[t] = "exec" THEN closemap[t] ELSE Open(t)
CloseNext(t) ==
  /\ fpc[t] \in {"exec", "exit"} /\ fcall[t].fd = Nil
  /\ \E d \in Least(ToClose(t)) :
       Lose(t, d, fpc[t], Nil) /\ closemap' = IF fpc[t] = "exec" THEN Closed(t, d) ELSE closemap
  /\ UNCHANGED <<fvec, iref, size, nfops>>
CloseNextEnd(t) ==
  /\ fpc[t] \in {"exec", "exit"} /\ fcall[t].fd # Nil
  /\ iref' = Unref(t)
  /\ fvec' = [fvec EXCEPT ![t][fcall[t].fd] = Nil]
  /\ Goto(t, fpc[t], NoCall)
  /\ UNCHANGED <<closemap, fdes, size, nfops>>
CloseDone(t) ==
  /\ fpc[t] \in {"exec", "exit"} /\ fcall[t].fd = Nil /\ ToClose(t) = {}
  /\ Goto(t, IF fpc[t] = "exec" THEN "user" ELSE "none", NoCall)
  /\ closemap' = IF fpc[t] = "exit" THEN [closemap EXCEPT ![t] = {}] ELSE closemap
  /\ UNCHANGED <<fvec, fdes, iref, size, nfops>>

----------------------------------------------------------------------------
(* read, write, lseek of a regular file. *)

\* The position is read before the inode's lock is waited for.
Start(t, d, how) ==
  LET f == fvec[t][d]
      pos == IF how = "write" /\ "APPEND" \in fdes[f].flags THEN size[fdes[f].inode] ELSE fdes[f].curpos
  IN
  /\ InUser(t) /\ Counts /\ d \in Open(t)
  /\ (IF how = "write" THEN "WRITE" ELSE "READ") \in fdes[f].flags
  /\ fdes' = [fdes EXCEPT ![f].curpos = pos]
  /\ Goto(t, how, [NoCall EXCEPT !.fd = d, !.pos = pos])
  /\ UNCHANGED <<fvec, closemap, iref, size>>

\* One unit is transferred at that position; curpos moves on from where it is.
Finish(t) ==
  LET f == fvec[t][fcall[t].fd]
      i == fdes[f].inode
      n == IF fpc[t] = "write" \/ fcall[t].pos < size[i] THEN 1 ELSE 0
  IN
  /\ fpc[t] \in {"read", "write"}
  /\ fcall[t].pos < MaxPos /\ fdes[f].curpos < MaxPos
  /\ size' = IF fpc[t] = "write" THEN [size EXCEPT ![i] = Max({@, fcall[t].pos + 1})] ELSE size
  /\ fdes' = [fdes EXCEPT ![f].curpos = @ + n]
  /\ Back(t)
  /\ UNCHANGED <<fvec, closemap, iref, nfops>>

Lseek(t, d, pos) ==
  /\ InUser(t) /\ Counts /\ d \in Open(t)
  /\ fdes' = [fdes EXCEPT ![fvec[t][d]].curpos = pos]
  /\ UNCHANGED <<fvec, closemap, iref, size, fpc, fcall>>

----------------------------------------------------------------------------
FInit ==
  /\ fvec = [t \in FTask |-> [d \in Fd |-> Nil]]
  /\ closemap = [t \in FTask |-> {}]
  /\ fdes = [f \in Fdes |-> NoFdes]
  /\ iref = [i \in Inode |-> 0] /\ size = [i \in Inode |-> 0]
  /\ \E t \in FTask : fpc = [u \in FTask |-> IF u = t THEN "user" ELSE "none"]
  /\ fcall = [t \in FTask |-> NoCall]
  /\ nfops = 0

FStep(t) ==
  \/ \E i \in Inode, flags \in {{"READ"}, {"READ", "WRITE", "APPEND"}, {"WRITE", "TRUNC"}} :
       SysOpen(t, i, flags)
  \/ Doopen(t)
  \/ \E d, e \in Fd : Dup(t, d, e) \/ Dup2(t, d, e)
  \/ \E d \in Fd : \/ Close(t, d) \/ Lseek(t, d, 0)
                   \/ \E on \in BOOLEAN : Setfd(t, d, on)
                   \/ \E how \in {"read", "write"} : Start(t, d, how)
  \/ CloseEnd(t) \/ Dup2End(t)
  \/ \E c \in FTask : Clone(t, c)
  \/ Closeonexec(t) \/ Closeall(t) \/ CloseNext(t) \/ CloseNextEnd(t) \/ CloseDone(t)
  \/ Finish(t)
FNext == \E t \in FTask : FStep(t)
FSpec == FInit /\ [][FNext]_fvars

\* The slots that point to a description: the one whose close sleeps does not
\* count any more.
Counted(t, d, f) == fvec[t][d] = f /\ (fcall[t].fd = d => fpc[t] \in {"read", "write"})
Slots(f) == {s \in FTask \X Fd : Counted(s[1], s[2], f)}
Callers(i) == {t \in FTask : fcall[t].inode = i}
Users(i) == {f \in Fdes : fdes[f].refcnt > 0 /\ fdes[f].inode = i}

(***************************************************************************)
(* A description lives as long as a slot points to it and an inode is held *)
(* once for each description and each call under way: after any forks,     *)
(* dups, closes that sleep, failed opens and exits, no slot is left with a *)
(* deleted description and no inode with a reference that is never lost.   *)
(***************************************************************************)
FilesAreCounted ==
  /\ \A f \in Fdes : fdes[f].refcnt = Cardinality(Slots(f))
  /\ \A i \in Inode : iref[i] = Cardinality(Users(i)) + Cardinality(Callers(i))

(***************************************************************************)
(* assert(vec[i]) of closeonexec: only open descriptors are marked to be   *)
(* closed, though slots are closed and taken again in many ways.           *)
(***************************************************************************)
MarkedAreOpen == \A t \in FTask : fpc[t] # "exit" => closemap[t] \subseteq Open(t)

\* Tables, descriptions and inodes agree.
TablesAgree == FilesAreCounted /\ MarkedAreOpen
=============================================================================
