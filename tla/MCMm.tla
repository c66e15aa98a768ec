-------------------------------- MODULE MCMm --------------------------------
(***************************************************************************)
(* Memory management for TLC: the copy-on-write address spaces, the walks  *)
(* over page tables and the page allocator.  Each abstracts from the other *)
(* two, so one behaviour is a behaviour of one of them (part) and the      *)
(* others rest.                                                            *)
(*                                                                         *)
(* Address spaces: a task, its child and its grandchild share frames; a    *)
(* text page, a page of gap for bss and stack to grow into, a stack page;  *)
(* too few frames for a private copy of everything.  Page tables: two      *)
(* directory entries, tables of two entries, four frames, so that a table  *)
(* may be followed in memory by the next one, by an unrelated frame or by  *)
(* a table of the copy.  Allocator: four pages, quotas of two and one.     *)
(***************************************************************************)
EXTENDS Cow, PageAlloc, Pgtbl, TLC

CONSTANTS a, b, c, f1, f2, p1, p2, p3, p4

MCTask == {a, b, c}
MCUserFrame == {f1, f2}
MCVal == 0..1
MCFresh == [v \in Page |-> IF v = 0 THEN 1 ELSE 0]
MCFrame == {p1, p2, p3, p4}
MCSym == Permutations(MCUserFrame) \cup Permutations({b, c})

VARIABLE part

mcvars == <<part, vars, walkvars, allocvars>>

\* The initial states in which a part rests while another runs.
CowRests == data = [f \in UserFrame |-> 0] /\ seen = 0
PgtblRests == op = "scan" /\ src = [d \in Pde |-> NoTable] /\ from = 0 /\ end = 0
PageAllocRests == freepageq = <<p1, p2, p3, p4>> /\ freeing = p1

MCInit ==
    /\ \/ part = "cow" /\ PgtblRests /\ PageAllocRests
       \/ part = "pgtbl" /\ CowRests /\ PageAllocRests
       \/ part = "pagealloc" /\ CowRests /\ PgtblRests
    /\ Init /\ WalkInit /\ AllocInit

CowStep == part = "cow" /\ Next /\ UNCHANGED <<part, walkvars, allocvars>>
PgtblStep == part = "pgtbl" /\ WalkNext /\ UNCHANGED <<part, vars, allocvars>>
PageAllocStep == part = "pagealloc" /\ AllocNext /\ UNCHANGED <<part, vars, walkvars>>

MCNext == CowStep \/ PgtblStep \/ PageAllocStep

MCSpec == MCInit /\ [][MCNext]_mcvars
=============================================================================
