------------------------------ MODULE Terminal ------------------------------
(***************************************************************************)
(* What a character terminal shows: a page of SIZE cells in lines of       *)
(* COLUMNS, and a cursor that is always on the page.  A page that is full  *)
(* moves up by a line; nothing else moves or changes a cell that the       *)
(* cursor is not at, but for erasing a run of cells.                       *)
(***************************************************************************)
EXTENDS Integers

CONSTANTS COLUMNS, SIZE, Glyph, Blank

VARIABLES
  page,  \* the cell at each place
  at     \* the place of the cursor

termvars == <<page, at>>

Place == 0 .. SIZE - 1
LastLine == SIZE - COLUMNS

Up(p) == [i \in Place |-> IF i < LastLine THEN p[i + COLUMNS] ELSE Blank]
Show(g) ==
  /\ page' = LET p == [page EXCEPT ![at] = g] IN IF at = SIZE - 1 THEN Up(p) ELSE p
  /\ at' = IF at = SIZE - 1 THEN LastLine ELSE at + 1
\* The cursor is on the last line, and goes to the start of the next or below.
Scroll == at >= LastLine /\ page' = Up(page) /\ at' \in {at, LastLine}
Move(i) == at' = i /\ UNCHANGED page
EraseTo(i, j) ==
  /\ page' = [k \in Place |-> IF k \in i .. j THEN Blank ELSE page[k]]
  /\ at' \in {at, i}

TermInit == page = [i \in Place |-> Blank] /\ at = 0
TermNext ==
  \/ \E g \in Glyph : Show(g)
  \/ Scroll
  \/ \E i \in Place : Move(i)
  \/ \E i, j \in Place : EraseTo(i, j)
TermSpec == TermInit /\ [][TermNext]_termvars
=============================================================================
