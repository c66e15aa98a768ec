-------------------------------- MODULE Tty --------------------------------
(***************************************************************************)
(* Terminal input, dev/chr/kbd.cc and dev/chr/tty.cc: the keyboard's       *)
(* interrupt handler puts characters into rawq, the software interrupt     *)
(* cook() edits them into cookedq, and tasks read lines or characters.     *)
(*                                                                         *)
(* Tasks in the kernel and cook() do not interrupt each other; the         *)
(* keyboard interrupts both, cook() between one character and the next.    *)
(* Echo and other output go through outq to the console (module Console)   *)
(* within the step that makes them.                                        *)
(***************************************************************************)
EXTENDS Integers, Sequences, SequencesExt, FiniteSetsExt

CONSTANTS
  TTask,
  Reader,         \* the tasks that read
  Fg,             \* the tasks of the foreground group of the terminal's session
  Char,           \* characters
  Key, Keymap,    \* keys: their hook and what they give
  RAWSIZE, COOKSIZE,
  Lens,           \* the lengths that read is called with
  Termios,        \* the settings that ioctl is called with: icanon, vmin, vtime
  SigPosts        \* bound: how many signals others post

VARIABLES
  rawq, cookedq,
  kbd,       \* ctrling, shifting, capslock, numlock
  lnext,
  termios,
  requested, \* softirq->request()
  cooking,   \* cook() runs
  readerq,   \* the sleepers, in order
  pending,   \* the tasks with a signal
  ttypc,     \* "user"; "read": entering read; "wait": in readerq; "woken": from it
  rd,        \* the call: kind (readline or readchar), len, n read so far, timed
             \* (its wait is a timed one), left (of the time, 0 when it is over)
  nposts

ttyvars == <<rawq, cookedq, kbd, lnext, termios, requested, cooking, readerq, pending, ttypc, rd, nposts>>

KeyRec ==
  [hook : {"char"}, ascii : Char, shift : Char, upper : Char, alpha : BOOLEAN, ctrl : Char \cup {"none"}]
    \cup [hook : {"string"}, ascii : Seq(Char)]
    \cup [hook : {"numpad"}, lock : Char, unlock : Seq(Char)]
    \cup [hook : {"ctrl", "shift", "capslock", "numlock"}]
TermiosRec == [icanon : BOOLEAN, isig : BOOLEAN, vmin : Nat, vtime : Nat]

\* One task reads: the signal for a line goes to the first of readerq.
ASSUME TtyAssumption ==
  /\ Reader \subseteq TTask /\ \A t, u \in Reader : t = u
  /\ "nl" \in Char /\ Keymap \in [Key -> KeyRec] /\ Lens \subseteq Nat /\ Termios \subseteq TermiosRec
  /\ RAWSIZE \in Nat /\ COOKSIZE \in Nat

NoCall == [kind |-> "none", len |-> 0, n |-> 0, timed |-> FALSE, left |-> 0]

\* cc[]: what a character is to the line discipline.
Eol(c) == c = "nl"
Eof(c) == c = "eof"
Ends(c) == Eol(c) \/ Eof(c)
Space(c) == c = "space"

\* How much of q is left when what does not satisfy P is taken off its end.
KeptTo(q, P(_)) == Max({0} \cup {i \in 1 .. Len(q) : P(q[i])})

----------------------------------------------------------------------------
(* The keyboard: kbdisr and its hooks. *)

Putc(c) == IF Len(rawq) = RAWSIZE THEN rawq ELSE Append(rawq, c)
charkey(k) ==
  Putc(IF kbd.ctrling /\ Keymap[k].ctrl # "none" THEN Keymap[k].ctrl
       ELSE IF kbd.capslock /\ Keymap[k].alpha THEN Keymap[k].upper
       ELSE IF kbd.shifting THEN Keymap[k].shift ELSE Keymap[k].ascii)
stringkey(s) == IF RAWSIZE - Len(rawq) < Len(s) THEN rawq ELSE rawq \o s
numpadkey(k) == IF kbd.numlock THEN stringkey(<<Keymap[k].lock>>) ELSE stringkey(Keymap[k].unlock)

Kbdisr(k, down) ==
  LET hook == Keymap[k].hook IN
  /\ kbd' = CASE hook = "ctrl" -> [kbd EXCEPT !.ctrling = down]
              [] hook = "shift" -> [kbd EXCEPT !.shifting = down]
              [] hook = "capslock" /\ down -> [kbd EXCEPT !.capslock = ~@]
              [] hook = "numlock" /\ down -> [kbd EXCEPT !.numlock = ~@]
              [] OTHER -> kbd
  /\ rawq' = CASE hook = "char" /\ down -> charkey(k)
               [] hook = "string" /\ down -> stringkey(Keymap[k].ascii)
               [] hook = "numpad" /\ down -> numpadkey(k)
               [] OTHER -> rawq
  /\ requested' = TRUE
  /\ UNCHANGED <<cookedq, lnext, termios, cooking, readerq, pending, ttypc, rd, nposts>>

----------------------------------------------------------------------------
(* cook(), one character after the other. *)

sigchar(c) == ~lnext /\ termios.isig /\ c \in {"intr", "quit"}
editchar(c) == ~lnext /\ termios.icanon /\ c \in {"erase", "werase", "kill"}

\* Each puts back the end of the line before and stops there.
Edited(q, c) ==
  LET Word(d) == Ends(d) \/ Space(d)
      Ink(d) == ~Space(d)
      stripped == SubSeq(q, 1, KeptTo(q, Ink))
  IN
  CASE c = "erase" -> IF q = << >> \/ Ends(Last(q)) THEN q ELSE Front(q)
    [] c = "kill" -> SubSeq(q, 1, KeptTo(q, Ends))
    [] c = "werase" -> SubSeq(stripped, 1, KeptTo(stripped, Word))

\* ICRNL.
Translated(c) == IF c = "cr" THEN "nl" ELSE c
SignalsEof(c) == IF termios.icanon THEN Eof(c) ELSE TRUE
Signals(c) == IF termios.icanon THEN Ends(c) ELSE TRUE

\* The tasks of S that sleep in readerq are woken.
Without(q, S) ==
  LET left == {i \in DOMAIN q : q[i] \notin S}
  IN  [k \in 1 .. Cardinality(left) |-> q[CHOOSE i \in left : Cardinality({j \in left : j <= i}) = k]]
Woken(S) ==
  /\ ttypc' = [t \in TTask |-> IF t \in S \cap ToSet(readerq) THEN "woken" ELSE ttypc[t]]
  /\ readerq' = Without(readerq, S)
\* readerq.signal().
FirstReader == IF readerq = << >> THEN {} ELSE {Head(readerq)}

CookBegins ==
  /\ requested /\ ~cooking
  /\ requested' = FALSE /\ cooking' = TRUE
  /\ UNCHANGED <<rawq, cookedq, kbd, lnext, termios, readerq, pending, ttypc, rd, nposts>>
Cook ==
  LET c == Head(rawq)
      d == Translated(c)
  IN
  /\ cooking /\ rawq # << >> /\ Len(cookedq) < COOKSIZE
  /\ rawq' = Tail(rawq)
  /\ \/ /\ c = "lnext"
        /\ lnext' = TRUE
        /\ UNCHANGED <<cookedq, pending, ttypc, readerq>>
     \/ /\ sigchar(c)
        /\ pending' = pending \cup Fg /\ Woken(Fg)
        /\ UNCHANGED <<cookedq, lnext>>
     \/ /\ editchar(c)
        /\ cookedq' = Edited(cookedq, c)
        /\ UNCHANGED <<lnext, pending, ttypc, readerq>>
     \/ /\ c # "lnext" /\ ~sigchar(c) /\ ~editchar(c)
        /\ cookedq' = Append(cookedq, d) /\ lnext' = FALSE
        /\ Woken(IF Signals(d) THEN FirstReader ELSE {})
        /\ UNCHANGED pending
  /\ UNCHANGED <<kbd, termios, requested, cooking, rd, nposts>>
CookEnds ==
  /\ cooking /\ (rawq = << >> \/ Len(cookedq) = COOKSIZE)
  /\ cooking' = FALSE
  /\ UNCHANGED <<rawq, cookedq, kbd, lnext, termios, requested, readerq, pending, ttypc, rd, nposts>>

----------------------------------------------------------------------------
(* read. *)

Enter(t, len) ==
  /\ ttypc[t] = "user"
  /\ ttypc' = [ttypc EXCEPT ![t] = "read"]
  /\ rd' = [rd EXCEPT ![t] = [kind |-> IF termios.icanon THEN "line" ELSE "char", len |-> len,
                              n |-> 0, timed |-> FALSE, left |-> termios.vtime]]
  /\ UNCHANGED <<rawq, cookedq, kbd, lnext, termios, requested, cooking, readerq, pending, nposts>>

Return(t) ==
  /\ ttypc' = [ttypc EXCEPT ![t] = "user"]
  /\ rd' = [rd EXCEPT ![t] = NoCall]
  /\ UNCHANGED readerq

\* What the loop takes from cookedq before it returns or waits: a line up to
\* its end, or characters.
Taken(t) ==
  LET room == rd[t].len - rd[t].n
      ends == {i \in 1 .. Len(cookedq) : Ends(cookedq[i])}
  IN  Min({room, Len(cookedq)} \cup IF rd[t].kind = "line" THEN ends ELSE {})

\* readline returns at an end of line; readchar when vmin characters are read
\* and no more are there, which it asks before it waits, not after.
Enough(t) ==
  LET n == rd[t].n + Taken(t) IN
  \/ n = rd[t].len
  \/ rd[t].kind = "line" /\ Taken(t) > 0 /\ Ends(cookedq[Taken(t)])
  \/ rd[t].kind = "char" /\ n >= termios.vmin /\ (ttypc[t] = "read" \/ Taken(t) > 0)

\* readchar's wait is a timed one between characters, and for the first if
\* vmin is 0.
Timed(t, n) == rd[t].kind = "char" /\ termios.vtime # 0 /\ ~(termios.vmin # 0 /\ n = 0)

\* The loops of readline and readchar up to a wait or the return.  wait() does
\* not sleep with a signal: the call ends, and what it has read is lost.
Read(t) ==
  LET n == rd[t].n + Taken(t) IN
  /\ \/ ttypc[t] = "read"
     \/ ttypc[t] = "woken" /\ t \notin pending /\ ~(rd[t].timed /\ rd[t].left = 0 /\ cookedq # << >>)
  /\ cookedq' = SubSeq(cookedq, Taken(t) + 1, Len(cookedq))
  /\ IF Enough(t) \/ t \in pending THEN Return(t)
     ELSE /\ ttypc' = [ttypc EXCEPT ![t] = "wait"]
          /\ readerq' = Append(readerq, t)
          /\ rd' = [rd EXCEPT ![t].n = n, ![t].timed = Timed(t, n),
                              ![t].left = IF Taken(t) > 0 /\ termios.vmin # 0 THEN termios.vtime ELSE @]
  /\ UNCHANGED <<rawq, kbd, lnext, termios, requested, cooking, pending, nposts>>

\* After wait(): a signal ends the call, whatever there is to read.  A timed
\* wait that has run out ends it only when a character comes, which is dropped.
ReadEnds(t) ==
  /\ ttypc[t] = "woken"
  /\ \/ t \in pending /\ UNCHANGED cookedq
     \/ t \notin pending /\ rd[t].timed /\ rd[t].left = 0 /\ cookedq # << >> /\ cookedq' = Tail(cookedq)
  /\ Return(t)
  /\ UNCHANGED <<rawq, kbd, lnext, termios, requested, cooking, pending, nposts>>

Expire(t) ==
  /\ ttypc[t] = "wait" /\ rd[t].timed
  /\ Woken({t})
  /\ rd' = [rd EXCEPT ![t].left = 0]
  /\ UNCHANGED <<rawq, cookedq, kbd, lnext, termios, requested, cooking, pending, nposts>>

----------------------------------------------------------------------------
(* Signals, and ioctl. *)

Post(t) ==
  /\ nposts < SigPosts /\ t \notin pending
  /\ nposts' = nposts + 1
  /\ pending' = pending \cup {t}
  /\ Woken({t})
  /\ UNCHANGED <<rawq, cookedq, kbd, lnext, termios, requested, cooking, rd>>

\* checksignal, on the way to user mode.
Handle(t) ==
  /\ ttypc[t] = "user" /\ t \in pending
  /\ pending' = pending \ {t}
  /\ UNCHANGED <<rawq, cookedq, kbd, lnext, termios, requested, cooking, readerq, ttypc, rd, nposts>>

\* TCSETS and TCSETSF, whose flushin wakes all the readers, and TCFLSH.
Ioctl(t, ts, flush) ==
  /\ ttypc[t] = "user"
  /\ flush \/ ts # termios
  /\ termios' = ts
  /\ rawq' = IF flush THEN << >> ELSE rawq
  /\ cookedq' = IF flush THEN << >> ELSE cookedq
  /\ Woken(IF flush THEN TTask ELSE {})
  /\ UNCHANGED <<kbd, lnext, requested, cooking, pending, rd, nposts>>

----------------------------------------------------------------------------
TtyInit ==
  /\ rawq = << >> /\ cookedq = << >>
  /\ kbd = [ctrling |-> FALSE, shifting |-> FALSE, capslock |-> FALSE, numlock |-> FALSE]
  /\ lnext = FALSE
  /\ termios = [icanon |-> TRUE, isig |-> TRUE, vmin |-> 1, vtime |-> 0]
  /\ requested = FALSE /\ cooking = FALSE /\ readerq = << >> /\ pending = {}
  /\ ttypc = [t \in TTask |-> "user"] /\ rd = [t \in TTask |-> NoCall]
  /\ nposts = 0

TtyNext ==
  \/ \E k \in Key, down \in BOOLEAN : Kbdisr(k, down)
  \/ CookBegins \/ Cook \/ CookEnds
  \/ /\ ~cooking
     /\ \/ \E t \in Reader : (\E len \in Lens : Enter(t, len)) \/ Read(t) \/ ReadEnds(t) \/ Expire(t)
        \/ \E t \in TTask : Post(t) \/ Handle(t)
        \/ \E t \in TTask \ Reader, ts \in Termios, flush \in BOOLEAN : Ioctl(t, ts, flush)
TtySpec == TtyInit /\ [][TtyNext]_ttyvars

(***************************************************************************)
(* The one reader of a terminal never sleeps on while a finished line lies *)
(* in cookedq: cook signals readerq for each end of line, flushin wakes    *)
(* it, and a change of mode while it sleeps does no harm.                  *)
(***************************************************************************)
NoSleepWithLine ==
  \A t \in TTask : ttypc[t] = "wait" => \A i \in 1 .. Len(cookedq) : ~Ends(cookedq[i])
=============================================================================
