-------------------------------- MODULE MCFs --------------------------------
(***************************************************************************)
(* The file system for TLC: in each behaviour one of its parts works, the  *)
(* buffer cache, the inode cache or the directories, and the others rest.  *)
(* The inode cache has two slots, or one: then a task finds it locked or   *)
(* held by another one and has to wait or to fail.                         *)
(***************************************************************************)
EXTENDS BufCache, ICache, TLC

CONSTANTS t1, t2, b1, b2, s1, s2, DirRenames, DirFirst

VARIABLES part, node, wlock, cwd, leaked, dpc, dcall, ndops

dirs == <<node, wlock, cwd, leaked, dpc, dcall, ndops>>

MCSym == Permutations({t1, t2})

Names == {"x", "y"}
\* The root has the directories x, with a file, and y, which is empty.
None == [x \in Names |-> 0]
FirstTree ==
  [n \in 1 .. 5 |->
    CASE n = 1 -> [kind |-> "dir", nlink |-> 4, dotdot |-> 1, entry |-> [x |-> 2, y |-> 4]]
      [] n = 2 -> [kind |-> "dir", nlink |-> 2, dotdot |-> 1, entry |-> [None EXCEPT !.y = 3]]
      [] n = 3 -> [kind |-> "reg", nlink |-> 1, dotdot |-> 0, entry |-> None]
      [] n = 4 -> [kind |-> "dir", nlink |-> 2, dotdot |-> 1, entry |-> None]
      [] n = 5 -> [kind |-> "free", nlink |-> 0, dotdot |-> 0, entry |-> None]]

One == INSTANCE ICache WITH Slot <- {s1}, ICANDIDATES <- 1
D == INSTANCE Dir WITH
       DTask <- {t1, t2}, Root <- 1, NONE <- 0, Name <- Names, Long <- {}, First <- DirFirst,
       DirPath <- {<< >>, <<"x">>, <<"y">>}, Tree <- FirstTree, LINKMAX <- 4,
       Renames <- DirRenames, MaxDirOps <- 2

Init ==
  /\ part \in {"buf", "inode", "oneslot", "dir"}
  /\ BufInit /\ D!DirInit
  /\ IF part = "oneslot" THEN One!IInit ELSE IInit
Next ==
  \/ part = "buf" /\ BufNext /\ UNCHANGED <<part, ivars, dirs>>
  \/ part = "inode" /\ INext /\ UNCHANGED <<part, bufvars, dirs>>
  \/ part = "oneslot" /\ One!INext /\ UNCHANGED <<part, bufvars, dirs>>
  \/ part = "dir" /\ D!DirNext /\ UNCHANGED <<part, bufvars, ivars>>

Spec == Init /\ [][Next]_<<part, bufvars, ivars, dirs>>

----------------------------------------------------------------------------
\* The directories are a tree with the right numbers of links, whatever calls
\* overlap.
TreeIsSound == part = "dir" => D!TreeIsSound
=============================================================================
