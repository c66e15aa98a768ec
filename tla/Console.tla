------------------------------ MODULE Console ------------------------------
(***************************************************************************)
(* The console of dev/chr/condev.cc: write2 takes the characters of the    *)
(* output queue one by one through a vt100 state machine.  The screen is a *)
(* window of NROW lines that slides over a larger video memory; when it    *)
(* reaches an end of the memory it is copied to the other one.             *)
(*                                                                         *)
(* Pointers into the video memory are offsets from its start, eorg is      *)
(* always org + NROW * NCOL, and attributes, the bell and the ports are    *)
(* left out.  The queues belong to module Tty.                             *)
(***************************************************************************)
EXTENDS Integers, FiniteSetsExt

CONSTANTS
  NROW, NCOL, NSCREEN,  \* 25, 80, and the 8 screens of the memory
  TAB, NPAR,
  Outq,     \* the characters that programs write
  Told,     \* those that a cell tells from the others
  Ways,     \* "write", and "directx": an interrupt prints while the kernel prints
  MaxPar    \* bound on a parameter

VARIABLES
  con,     \* the video memory m, a cell for each offset; and condev_t: org, cursor,
           \* top, bottom, state, npar, par, aftergetpar, saved
  panicked

convars == <<con, panicked>>

\* The copied window slides by a line, and escbracket reads two parameters.
ASSUME ConAssumption ==
  /\ NROW \in Nat \ {0, 1} /\ NCOL \in Nat \ {0} /\ NSCREEN \in Nat \ {0, 1}
  /\ TAB \in 1 .. NCOL /\ NPAR \in Nat \ {0, 1}

Blank == " "
Control == {"ESC", "BEL", "BS", "HT", "LF", "CR", "DEL"}
Value == [d \in {"0", "1", "2", "7", "8"} |->
            CASE d = "0" -> 0 [] d = "1" -> 1 [] d = "2" -> 2 [] d = "7" -> 7 [] d = "8" -> 8]
Digit == DOMAIN Value
\* All that is told of the character in a cell.
Shown(c) == IF c \in Told THEN c ELSE "other"

Evideo == NROW * NCOL * NSCREEN
Page == NROW * NCOL
Eorg(v) == v.org + Page
Curx(v) == (v.cursor - v.org) % NCOL
Cury(v) == (v.cursor - v.org) \div NCOL
Currow(v) == v.cursor - Curx(v)
Ecurrow(v) == Currow(v) + NCOL
\* firstrow() asks for the column.
Firstrow(v) == Curx(v) = 0
Lastrow(v) == Cury(v) = NROW - 1

erasechar(v, from, to) ==
  [v EXCEPT !.m = [i \in 0 .. Evideo - 1 |-> IF i \in from .. to - 1 THEN Blank ELSE @[i]]]
movechar(v, from, to, n) ==
  [v EXCEPT !.m = [i \in 0 .. Evideo - 1 |-> IF i \in to .. to + n - 1 THEN @[i - to + from] ELSE @[i]]]
insertchar(v, from, to, end) == erasechar(movechar(v, from, to, end - to), from, to)
deletechar(v, from, to, end) ==
  erasechar(movechar(v, to, from, end - to), from + (end - to), end)

gotoxy(v, x, y) ==
  IF x \in 0 .. NCOL - 1 /\ y \in 0 .. NROW - 1
    THEN [v EXCEPT !.cursor = v.org + x + y * NCOL] ELSE v

----------------------------------------------------------------------------
(* Scrolling. *)

Whole(v) == v.top = 0 /\ v.bottom = NROW
\* The window is copied to the start, or the end, of the memory.
Copied(v, org) ==
  [movechar(v, v.org, org, Page) EXCEPT !.cursor = org + (v.cursor - v.org), !.org = org]
Slid(v, by) == [v EXCEPT !.org = @ + by]

scrollupUnerased(v) == Slid(IF Eorg(v) = Evideo THEN Copied(v, 0) ELSE v, NCOL)
scrollup(v) ==
  IF Whole(v)
    THEN LET w == Slid(IF Eorg(v) = Evideo THEN Copied(v, 0) ELSE v, NCOL)
         IN  erasechar(w, Eorg(w) - NCOL, Eorg(w))
    ELSE deletechar(v, v.org + v.top * NCOL, v.org + (v.top + 1) * NCOL, v.org + v.bottom * NCOL)

scrolldown(v) ==
  IF Whole(v)
    THEN LET w == Slid(IF v.org = 0 THEN Copied(v, Evideo - Page) ELSE v, -NCOL)
         IN  erasechar(w, w.org, w.org + NCOL)
    ELSE insertchar(v, v.org + v.top * NCOL, v.org + (v.top + 1) * NCOL, v.org + v.bottom * NCOL)

AfterScroll(v) == IF Lastrow(v) THEN scrollup(v) ELSE v
Advanced(v, by) == [v EXCEPT !.cursor = @ + by]

----------------------------------------------------------------------------
(* The states of the vt100. *)

normal(v, c) ==
  CASE c = "ESC" -> [v EXCEPT !.state = "ESC"]
    [] c \notin Control ->
         LET w == Advanced([v EXCEPT !.m[v.cursor] = Shown(c)], 1)
         IN  IF w.cursor = Eorg(w) THEN scrollup(w) ELSE w
    [] c = "BS" -> IF Curx(v) # 0 THEN Advanced(v, -1) ELSE v
    [] c = "HT" ->
         [v EXCEPT !.cursor = Min({Eorg(v) - TAB, Currow(v) + ((Curx(v) + TAB) \div TAB) * TAB})]
    [] c = "LF" -> Advanced(AfterScroll(v), NCOL)
    [] c = "CR" -> [v EXCEPT !.cursor = Currow(v)]
    [] c = "DEL" ->
         IF Curx(v) # 0 THEN Advanced([v EXCEPT !.m[v.cursor - 1] = Blank], -1) ELSE v
    [] c = "BEL" -> v

beforegetpar(v, next) ==
  [v EXCEPT !.state = "GETPAR", !.aftergetpar = next, !.npar = 0, !.par = [i \in 0 .. NPAR - 1 |-> 0]]

\* ESC Z puts an answer into the raw input queue.
esc(v, c) ==
  LET w == [v EXCEPT !.state = "NORMAL"] IN
  CASE c = "[" -> beforegetpar(v, "ESCBRACKET")
    [] c = "(" -> beforegetpar(v, "ESCBRACE")
    [] c = "#" -> beforegetpar(v, "ESCNUMBER")
    [] c = "E" -> LET u == AfterScroll(w) IN [u EXCEPT !.cursor = Ecurrow(u)]
    [] c = "M" -> Advanced(IF Firstrow(w) THEN scrolldown(w) ELSE w, -NCOL)
    [] c = "D" -> Advanced(AfterScroll(w), NCOL)
    [] c = "7" -> [w EXCEPT !.saved = <<Curx(w), Cury(w)>>]
    [] c = "8" -> gotoxy(w, w.saved[1], w.saved[2])
    [] OTHER -> w

escbracketK(v, p) ==
  CASE p = 0 -> erasechar(v, v.cursor, Ecurrow(v))
    [] p = 1 -> erasechar(v, Currow(v), v.cursor)
    [] p = 2 -> erasechar(v, Currow(v), Ecurrow(v))
    [] OTHER -> v

escbracketJ(v, p) ==
  CASE p = 0 -> erasechar(v, v.cursor, Eorg(v))
    [] p = 1 -> erasechar(v, v.org, v.cursor)
    [] p = 2 -> erasechar(v, v.org, Eorg(v))
    [] OTHER -> v

\* Both of L and M insert; the bounds of min and max are exchanged, so that at
\* least all the lines up to the bottom, or a whole line, are inserted.
Count(p, n) == Max({Min({1, p}), n})
escbracketL(v, p) ==
  insertchar(v, Currow(v), Currow(v) + Count(p, v.bottom - Cury(v)) * NCOL, Eorg(v))
escbracketP(v, p) == deletechar(v, v.cursor, v.cursor + Count(p, NCOL), Ecurrow(v))
escbracketAT(v, p) == insertchar(v, v.cursor, v.cursor + Count(p, NCOL), Ecurrow(v))

Less(p) == IF p = 0 THEN 0 ELSE p - 1
Atleast1(p) == IF p = 0 THEN 1 ELSE p

escbracketr(v) ==
  LET t == Less(v.par[0])
      b == IF v.par[1] = 0 THEN NROW ELSE v.par[1]
  IN  IF t < b /\ b <= NROW THEN [v EXCEPT !.top = t, !.bottom = b] ELSE v

escbracket(v, c) ==
  LET w == [v EXCEPT !.state = "NORMAL"]
      x == Curx(w)
      y == Cury(w)
      p == w.par[0]
  IN
  CASE c = "?" -> beforegetpar(v, "ESCBRACKETQUEST")
    [] c \in {"G", "backquote"} -> gotoxy(w, Less(p), y)
    [] c = "A" -> gotoxy(w, x, y - Atleast1(p))
    [] c \in {"B", "e"} -> gotoxy(w, x, y + Atleast1(p))
    [] c \in {"C", "a"} -> gotoxy(w, x + Atleast1(p), y)
    [] c = "D" -> gotoxy(w, x - Atleast1(p), y)
    [] c = "E" -> gotoxy(w, 0, y + Atleast1(p))
    [] c = "F" -> gotoxy(w, 0, y - Atleast1(p))
    [] c = "d" -> gotoxy(w, x, Less(p))
    [] c \in {"H", "f"} -> gotoxy(w, Less(w.par[1]), Less(p))
    [] c = "J" -> escbracketJ(w, p)
    [] c = "K" -> escbracketK(w, p)
    [] c \in {"L", "M"} -> escbracketL(w, p)
    [] c = "P" -> escbracketP(w, p)
    [] c = "@" -> escbracketAT(w, p)
    [] c = "r" -> escbracketr(w)
    [] c = "s" -> [w EXCEPT !.saved = <<x, y>>]
    [] c = "u" -> gotoxy(w, w.saved[1], w.saved[2])
    [] OTHER -> w

\* escbrace, escnumber and escbracketquest do nothing and stay.
After(v, c) == IF v.state = "ESCBRACKET" THEN escbracket(v, c) ELSE v

\* The character that ends the parameters is put back, and is the next one.  A
\* digit of the parameter after the last goes into aftergetpar, which lies
\* behind par, and makes it no state at all.
getpar(v, c) ==
  CASE c \in Digit /\ v.npar = NPAR -> [v EXCEPT !.aftergetpar = "none"]
    [] c \in Digit /\ v.npar < NPAR -> [v EXCEPT !.par[v.npar] = 10 * @ + Value[c]]
    [] c = ";" /\ v.npar < NPAR -> [v EXCEPT !.npar = @ + 1]
    [] OTHER -> After([v EXCEPT !.state = v.aftergetpar], c)

Handled(v, c) ==
  CASE v.state = "NORMAL" -> normal(v, c)
    [] v.state = "ESC" -> esc(v, c)
    [] v.state = "GETPAR" -> getpar(v, c)
    [] OTHER -> After(v, c)

\* print, entered again while it is at work, goes round the queue and does not
\* scroll.
directx(v, c) == Advanced([v EXCEPT !.m[v.cursor] = Shown(c)], 1)

----------------------------------------------------------------------------
ConInit ==
  /\ con = [m |-> [i \in 0 .. Evideo - 1 |-> Blank], org |-> 0, cursor |-> 0, top |-> 0, bottom |-> NROW, state |-> "NORMAL", npar |-> 0,
            par |-> [i \in 0 .. NPAR - 1 |-> 0], aftergetpar |-> "NORMAL", saved |-> <<0, 0>>]
  /\ panicked = FALSE

OnScreen == con.cursor \in con.org .. Eorg(con) - 1

\* The parameters are set anew before they are read again.
Rested(w) ==
  IF w.state # "NORMAL" THEN w
  ELSE [w EXCEPT !.npar = 0, !.par = [i \in 0 .. NPAR - 1 |-> 0], !.aftergetpar = "NORMAL"]

\* One character of write2, or of directx.
Put(c, way) ==
  LET w == IF way = "write" THEN Handled(con, c) ELSE directx(con, c) IN
  /\ ~panicked
  /\ IF way = "write" /\ ~OnScreen
       THEN panicked' = TRUE /\ UNCHANGED con
       ELSE /\ \A i \in DOMAIN w.par : w.par[i] <= MaxPar
            /\ con' = Rested(w)
            /\ UNCHANGED panicked

ConNext == \E c \in Outq, way \in Ways : Put(c, way)
ConSpec == ConInit /\ [][ConNext]_convars

Term == INSTANCE Terminal WITH
          COLUMNS <- NCOL, SIZE <- Page, Glyph <- Told \cup {"other"},
          page <- [i \in 0 .. Page - 1 |-> con.m[con.org + i]], at <- con.cursor - con.org

(***************************************************************************)
(* Whatever the window over the video memory does (scrollup slides it and, *)
(* at the end of the memory, copies it back), what it shows is a terminal: *)
(* no step changes or moves a cell that the character does not ask for.    *)
(***************************************************************************)
ImplementsTerminal == Term!TermSpec
=============================================================================
