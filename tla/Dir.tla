-------------------------------- MODULE Dir --------------------------------
(***************************************************************************)
(* Directories and path names (fs/dir.cc, fs/namei.cc): tasks walk down    *)
(* paths, take the write lock of the directory they end at and change its  *)
(* entries; rename takes two.                                              *)
(*                                                                         *)
(* The kernel is not preempted, so what is done between two sleeps is one  *)
(* step.  A scan of entries sleeps, but the directory it scans is locked   *)
(* by the scanning task: only what is read of other inodes, which are not  *)
(* locked, is kept apart from the step that acts on it.  The inode cache   *)
(* is as module ICache has it when no release is disturbed: a file is      *)
(* freed when nobody holds it and it has no links.                         *)
(***************************************************************************)
EXTENDS Integers, Sequences, FiniteSets, FiniteSetsExt

CONSTANTS
  DTask, Nobody,
  Root,          \* the root directory's inode number
  NONE,          \* the number of an unused entry (MINIXFREEINO)
  Name,          \* base names
  Long,          \* those longer than MINIXNAMELEN
  First,         \* those whose entries are in the first of a directory's blocks;
                 \* none if directories have one block
  DirPath,       \* the paths to directories that the calls use
  Tree,          \* inodes at first: name |-> [kind, nlink, dotdot, entry]
  LINKMAX,
  Renames,       \* the renames considered besides the plain ones: of a directory
                 \* "moved" to another one, over a file that is "linked" elsewhere
  MaxDirOps      \* bound: system calls made

VARIABLES
  node,     \* the inodes: kind ("free", "reg" or "dir"), nlink, and of a
            \* directory the entry ".." and the others
  wlock,    \* the task that has a directory's rwlock for writing
  cwd,      \* the tasks' current directories
  leaked,   \* references that calls took and did not give back
  dpc, dcall, ndops

dirvars == <<node, wlock, cwd, leaked, dpc, dcall, ndops>>

Node == DOMAIN Tree
NoEntries == [x \in Name |-> NONE]
Freed == [kind |-> "free", nlink |-> 0, dotdot |-> NONE, entry |-> NoEntries]

\* A call: what is left of its paths, the inodes it has come to on them, and
\* those that readi gave it after that.
NoCall == [op |-> "none", paths |-> << >>, at |-> << >>, name |-> NONE, name2 |-> NONE,
           got |-> << >>]
Goto(t, l) == dpc' = [dpc EXCEPT ![t] = l]
With(t, c) == dcall' = [dcall EXCEPT ![t] = c]

Times(s, n) == Cardinality({i \in 1 .. Len(s) : s[i] = n})
\* inode_t::refcnt: the references of calls, current directories and nobody.
Refcnt(call, cwds, lost, n) ==
  MapThenSumSet(LAMBDA t : Times(call[t].at \o call[t].got \o <<cwds[t]>>, n), DTask)
    + Times(lost, n)
Busy(n) == Refcnt(dcall, cwd, leaked, n)

\* inode_t::lose: what nobody holds and no entry names is freed.
Kept(nodes, call, cwds, lost) ==
  [n \in Node |-> IF nodes[n].nlink = 0 /\ Refcnt(call, cwds, lost, n) = 0 THEN Freed ELSE nodes[n]]
\* The call returns: it gives its locks and its references back, but not those
\* in leak.
End(t, nodes, leak) ==
  LET call == [dcall EXCEPT ![t] = NoCall]
  IN  /\ node' = Kept(nodes, call, cwd, leaked \o leak) /\ dcall' = call
      /\ leaked' = leaked \o leak
      /\ wlock' = [n \in Node |-> IF wlock[n] = t THEN Nobody ELSE wlock[n]]
      /\ Goto(t, "out") /\ UNCHANGED <<cwd, ndops>>
Done(t, nodes) == End(t, nodes, << >>)
Fail(t) == Done(t, node)

----------------------------------------------------------------------------
(* namei, and the calls that take no lock. *)

\* A system call; a walk begins at the root or at the current directory.
Enter(t, op, paths, x, y) ==
  /\ dpc[t] = "out" /\ ndops < MaxDirOps
  /\ \E b \in {Root, cwd[t]} :
       With(t, [NoCall EXCEPT !.op = op, !.paths = paths, !.at = <<b>>, !.name = x, !.name2 = y])
  /\ Goto(t, IF op = "getcwd" THEN op ELSE "walk") /\ ndops' = ndops + 1
  /\ UNCHANGED <<node, wlock, cwd, leaked>>

\* lookup: under the directory's read lock; the child is held before the
\* directory is lost.
Lookup(d, x) == IF x = ".." THEN node[d].dotdot ELSE node[d].entry[x]
Walk(t) ==
  LET c == dcall[t]
      k == Len(c.at)
      d == c.at[k]
  IN  /\ dpc[t] = "walk" /\ c.paths[k] # << >> /\ wlock[d] = Nobody
      /\ IF node[d].kind # "dir" \/ Lookup(d, Head(c.paths[k])) = NONE
           THEN Fail(t)
           ELSE LET call == [dcall EXCEPT ![t].at[k] = Lookup(d, Head(c.paths[k])),
                                          ![t].paths[k] = Tail(@)]
                IN  /\ dcall' = call /\ node' = Kept(node, call, cwd, leaked)
                    /\ UNCHANGED <<wlock, cwd, leaked, dpc, ndops>>
\* The walk has come to its end: the second begins, or the call goes on.
Walked(t) ==
  LET c == dcall[t]
      k == Len(c.at)
  IN  /\ dpc[t] = "walk" /\ c.paths[k] = << >>
      /\ IF k < Len(c.paths)
           THEN (\E b \in {Root, cwd[t]} : With(t, [c EXCEPT !.at = Append(@, b)])) /\ UNCHANGED dpc
           ELSE /\ Goto(t, IF c.op \in {"chdir", "stat", "mkdir"} THEN c.op ELSE "lock")
                /\ UNCHANGED dcall
      /\ UNCHANGED <<node, wlock, cwd, leaked, ndops>>

\* stat, lstat, access, chmod, chown, utime: what they do to the inode is not
\* about the tree.
Stat(t) == dpc[t] = "stat" /\ Fail(t)
\* chdir: the new directory takes the place of the old.
Chdir(t) ==
  /\ dpc[t] = "chdir"
  /\ LET n == dcall[t].at[1]
         call == [dcall EXCEPT ![t] = NoCall]
         cwds == [cwd EXCEPT ![t] = n]
     IN  IF node[n].kind # "dir" THEN Fail(t)
         ELSE /\ cwd' = cwds /\ dcall' = call /\ node' = Kept(node, call, cwds, leaked)
              /\ Goto(t, "out") /\ UNCHANGED <<wlock, leaked, ndops>>
\* getcwd follows ".." and looks for the child's number, with no lock; the
\* parent is not given back when the number is not found.
Backward(t) ==
  /\ dpc[t] = "getcwd"
  /\ LET n == dcall[t].at[1]
         p == node[n].dotdot
         call == [dcall EXCEPT ![t].at = <<p>>]
     IN  IF n = Root \/ p = NONE THEN Fail(t)
         ELSE IF \A x \in Name : node[p].entry[x] # n THEN End(t, node, <<p>>)
         ELSE /\ dcall' = call /\ node' = Kept(node, call, cwd, leaked)
              /\ UNCHANGED <<wlock, cwd, leaked, dpc, ndops>>
\* mkdir looks at the link count before it waits for the lock.
MayLink(t) ==
  /\ dpc[t] = "mkdir"
  /\ LET d == dcall[t].at[1]
     IN  IF node[d].kind # "dir" \/ node[d].nlink >= LINKMAX THEN Fail(t)
         ELSE Goto(t, "lock") /\ UNCHANGED <<node, wlock, cwd, leaked, dcall, ndops>>

\* The directories whose lock a call takes, in this order.
Locks(c) ==
  IF c.op = "link" \/ (c.op = "rename" /\ c.at[1] = c.at[2]) THEN <<c.at[2]>> ELSE c.at
Lock(t) ==
  /\ dpc[t] = "lock"
  /\ LET c == dcall[t]
         todo == {i \in DOMAIN Locks(c) : wlock[Locks(c)[i]] # t}
         d == Locks(c)[Min(todo)]
     IN  IF todo = {} THEN Goto(t, IF c.op = "mkdir" THEN "mkdir1" ELSE c.op) /\ UNCHANGED wlock
         ELSE wlock[d] = Nobody /\ wlock' = [wlock EXCEPT ![d] = t] /\ UNCHANGED dpc
  /\ UNCHANGED <<node, cwd, leaked, dcall, ndops>>

----------------------------------------------------------------------------
(* What is done under the lock. *)

Dir1(t) == dcall[t].at[1]
IsDir(n) == node[n].kind = "dir"
\* emptydir, block by block: the scan sleeps between them.
Holds(d, S) == \E x \in S : node[d].entry[x] # NONE
AddEntry(nodes, d, x, n) == [nodes EXCEPT ![d].entry[x] = n]
\* alloci: the first free number.
NewInode(n) == node[n].kind = "free" /\ \A m \in Node : m < n => node[m].kind # "free"

\* mkcommon, for a file (mkreg, mkfifo, mknod) or a directory (mkdir, which
\* tests the parent's link count before it takes the lock).
Make(t) ==
  /\ dpc[t] \in {"creat", "mkdir1"}
  /\ LET d == Dir1(t)
         x == dcall[t].name
         dir == dpc[t] = "mkdir1"
     IN  IF ~IsDir(d) \/ x \in Long \/ node[d].entry[x] # NONE
            \/ (\A n \in Node : node[n].kind # "free")
           THEN Fail(t)
           ELSE \E n \in Node :
                  /\ NewInode(n)
                  /\ LET made == [Freed EXCEPT !.kind = IF dir THEN "dir" ELSE "reg",
                                               !.nlink = IF dir THEN 2 ELSE 1,
                                               !.dotdot = IF dir THEN d ELSE NONE]
                         nodes == [node EXCEPT ![n] = made, ![d].nlink = @ + IF dir THEN 1 ELSE 0]
                     IN  Done(t, AddEntry(nodes, d, x, n))

\* hardlink2.  The old file is not locked; its count goes up after addde.
Link(t) ==
  /\ dpc[t] = "link"
  /\ LET n == dcall[t].at[1]
         d == dcall[t].at[2]
         x == dcall[t].name
     IN  IF ~IsDir(d) \/ IsDir(n) \/ node[n].nlink >= LINKMAX \/ x \in Long
            \/ node[d].entry[x] # NONE
           THEN Fail(t)
           ELSE Done(t, [AddEntry(node, d, x, n) EXCEPT ![n].nlink = @ + 1])

\* unlink2.
Unlink(t) ==
  /\ dpc[t] = "unlink"
  /\ LET d == Dir1(t)
         n == IF IsDir(d) THEN node[d].entry[dcall[t].name] ELSE NONE
     IN  IF n = NONE THEN Fail(t)
         ELSE IF IsDir(n) THEN Fail(t)
         ELSE Done(t, [AddEntry(node, d, dcall[t].name, NONE) EXCEPT ![n].nlink = @ - 1])

\* rmdir2: the child is held, by this call only; then its entries are looked
\* through; then it goes.
RmdirUnchecked(t) ==
  /\ dpc[t] = "rmdir"
  /\ LET n == IF IsDir(Dir1(t)) THEN node[Dir1(t)].entry[dcall[t].name] ELSE NONE
     IN  IF n = NONE THEN Fail(t)
         ELSE IF ~IsDir(n) THEN Fail(t)
         ELSE /\ With(t, [dcall[t] EXCEPT !.got = <<n>>]) /\ Goto(t, "rmdir1")
              /\ UNCHANGED <<node, wlock, cwd, leaked, ndops>>
Rmdir(t) ==
  /\ dpc[t] = "rmdir"
  /\ LET n == IF IsDir(Dir1(t)) THEN node[Dir1(t)].entry[dcall[t].name] ELSE NONE
     IN  IF n = NONE THEN Fail(t)
         ELSE IF ~IsDir(n) \/ Busy(n) > 0 THEN Fail(t)
         ELSE /\ With(t, [dcall[t] EXCEPT !.got = <<n>>]) /\ Goto(t, "rmdir1")
              /\ UNCHANGED <<node, wlock, cwd, leaked, ndops>>
EmptyDir(t) ==
  /\ dpc[t] = "rmdir1"
  /\ IF Holds(dcall[t].got[1], First)
       THEN Fail(t)
       ELSE Goto(t, "rmdir2") /\ UNCHANGED <<node, wlock, cwd, leaked, dcall, ndops>>
RmdirEnd(t) ==
  /\ dpc[t] = "rmdir2"
  /\ IF Holds(dcall[t].got[1], Name \ First)
       THEN Fail(t)
       ELSE Done(t, [AddEntry(node, Dir1(t), dcall[t].name, NONE) EXCEPT
                       ![dcall[t].got[1]].nlink = 0, ![Dir1(t)].nlink = @ - 1])

\* rename2, up to parentchild, which follows ".." from the new directory.
Above(d) ==
  LET up[k \in 0 .. Cardinality(Node)] ==
        IF k = 0 THEN {d} ELSE up[k - 1] \cup ({node[n].dotdot : n \in up[k - 1]} \ {NONE})
  IN  up[Cardinality(Node)] \ {Root}
Rename(t) ==
  /\ dpc[t] = "rename"
  /\ LET c == dcall[t]
         o == IF IsDir(c.at[1]) THEN node[c.at[1]].entry[c.name] ELSE NONE
     IN  IF o = NONE \/ ~IsDir(c.at[2]) \/ (c.at[1] = c.at[2] /\ c.name = c.name2) THEN Fail(t)
         ELSE IF IsDir(o) /\ o \in Above(c.at[2]) THEN Fail(t)
         ELSE /\ With(t, [c EXCEPT !.got = <<o>>]) /\ Goto(t, "rename1")
              /\ UNCHANGED <<node, wlock, cwd, leaked, ndops>>

\* The new name is looked up; a directory it names must be empty.
RenameNew(t) ==
  /\ dpc[t] = "rename1"
  /\ LET c == dcall[t]
         o == c.got[1]
         n == node[c.at[2]].entry[c.name2]
     IN  IF n = NONE
           THEN Goto(t, "rename2") /\ UNCHANGED <<node, wlock, cwd, leaked, dcall, ndops>>
         ELSE IF node[o].kind # node[n].kind \/ (IsDir(n) /\ Holds(n, First))
           THEN End(t, node, <<n>>)
         ELSE /\ With(t, [c EXCEPT !.got = <<o, n>>]) /\ Goto(t, "rename2")
              /\ UNCHANGED <<node, wlock, cwd, leaked, ndops>>

\* The link counts and both entries are changed.  The entry ".." of a moved
\* directory is not.
Kind(c) ==
  {k \in {"moved", "linked"} :
     CASE k = "moved" -> IsDir(c.got[1]) /\ c.at[1] # c.at[2]
       [] k = "linked" -> Len(c.got) = 2 /\ (node[c.got[2]].nlink > IF IsDir(c.got[2]) THEN 2 ELSE 1)}
RenameEnd(t) ==
  /\ dpc[t] = "rename2" /\ Kind(dcall[t]) \subseteq Renames
  /\ LET c == dcall[t]
         o == c.got[1]
         over == Len(c.got) = 2
         dir == IF IsDir(o) THEN 1 ELSE 0
         A == IF over THEN [node EXCEPT ![c.got[2]].nlink = 0]
              ELSE [node EXCEPT ![c.at[2]].nlink = @ + dir]
         B == [A EXCEPT ![c.at[1]].nlink = @ - dir, ![c.at[1]].entry[c.name] = NONE]
     IN  IF over /\ IsDir(o) /\ (Holds(c.got[2], Name \ First) \/ Busy(c.got[2]) > 1)
           THEN End(t, node, <<c.got[2]>>)
         ELSE IF ~over /\ IsDir(o) /\ node[c.at[2]].nlink >= LINKMAX
           THEN Fail(t)
         ELSE IF ~over /\ c.name2 \in Long
           THEN Done(t, [A EXCEPT ![c.at[2]].nlink = @ - 1])
           ELSE Done(t, AddEntry(B, c.at[2], c.name2, o))

----------------------------------------------------------------------------
DirInit ==
  /\ node = Tree /\ wlock = [n \in Node |-> Nobody]
  /\ cwd = [t \in DTask |-> Root] /\ leaked = << >>
  /\ dpc = [t \in DTask |-> "out"] /\ dcall = [t \in DTask |-> NoCall] /\ ndops = 0

DirStep(t) ==
  \/ Walk(t) \/ Walked(t) \/ Stat(t) \/ Chdir(t) \/ Backward(t) \/ MayLink(t) \/ Lock(t)
  \/ Make(t) \/ Link(t) \/ Unlink(t) \/ Rmdir(t) \/ EmptyDir(t) \/ RmdirEnd(t)
  \/ Rename(t) \/ RenameNew(t) \/ RenameEnd(t)

DirNext ==
  \E t \in DTask :
    \/ DirStep(t)
    \/ Enter(t, "getcwd", << >>, NONE, NONE)
    \/ \E p \in DirPath, op \in {"chdir", "stat"} : Enter(t, op, <<p>>, NONE, NONE)
    \/ \E p \in DirPath, x \in Name :
         \/ \E op \in {"creat", "mkdir", "unlink", "rmdir"} : Enter(t, op, <<p>>, x, NONE)
         \/ \E q \in DirPath, y \in Name :
              \/ Enter(t, "link", <<Append(q, y), p>>, x, NONE)
              \/ Enter(t, "rename", <<p, q>>, x, y)

DirSpec == DirInit /\ [][DirNext]_dirvars

----------------------------------------------------------------------------
(* Properties. *)

\* What the entries say of inode n: the links it should have.
Entries(n) == {dx \in Node \X Name : node[dx[1]].entry[dx[2]] = n}
Subdirs(n) == {x \in Name : node[n].entry[x] # NONE /\ IsDir(node[n].entry[x])}
LinksExact(n) ==
  CASE node[n].kind = "reg" -> node[n].nlink = Cardinality(Entries(n))
    [] IsDir(n) -> IF n = Root \/ Entries(n) # {}
                     THEN node[n].nlink = 2 + Cardinality(Subdirs(n)) /\ Cardinality(Entries(n)) <= 1
                     ELSE node[n].nlink = 0 /\ node[n].entry = NoEntries
    [] OTHER -> Entries(n) = {}
Reachable ==
  LET down[k \in 0 .. Cardinality(Node)] ==
        IF k = 0 THEN {Root}
        ELSE down[k - 1] \cup ({node[d].entry[x] : d \in down[k - 1], x \in Name} \ {NONE})
  IN  down[Cardinality(Node)]

\* The tree stays a tree whatever calls overlap: every link count is the
\* number of entries, no entry names a freed inode, a removed directory stays
\* empty, and every directory is below the root under its "..".
TreeIsSound ==
  /\ \A n \in Node : LinksExact(n)
  /\ \A n \in Node \ {Root} : IsDir(n) /\ node[n].nlink > 0 =>
       n \in Reachable /\ node[node[n].dotdot].entry # NoEntries
       /\ \E x \in Name : node[node[n].dotdot].entry[x] = n
=============================================================================
