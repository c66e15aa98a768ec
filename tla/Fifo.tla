-------------------------------- MODULE Fifo --------------------------------
(***************************************************************************)
(* What lib/fifoq promises: a bounded queue of characters that can be      *)
(* taken from and added to at both ends.                                   *)
(***************************************************************************)
EXTENDS Integers, Sequences

CONSTANTS Char, SIZE

VARIABLES
  s,      \* the characters, oldest first
  call    \* the last call, its argument and its result

Min(a, b) == IF a <= b THEN a ELSE b

\* As many of bs as there is room for are added; their number is returned.
Put(bs) ==
  LET n == Min(Len(bs), SIZE - Len(s))
  IN  s' = s \o SubSeq(bs, 1, n) /\ call' = <<"putc", bs, n>>

\* The n oldest, or as many as there are, are returned.
Oldest(n) == SubSeq(s, 1, Min(n, Len(s)))
Get(n) == s' = SubSeq(s, Min(n, Len(s)) + 1, Len(s)) /\ call' = <<"getc", n, Oldest(n)>>
Peek(n) == s' = s /\ call' = <<"peekc", n, Oldest(n)>>
Unget(c) == Len(s) < SIZE /\ s' = <<c>> \o s /\ call' = <<"ungetc", c>>
Unput == s # << >> /\ s' = SubSeq(s, 1, Len(s) - 1) /\ call' = <<"unputc", s[Len(s)]>>
Clear == s' = << >> /\ call' = <<"init">>

Init == s = << >> /\ call = <<"init">>
Next ==
  \/ \E n \in 0 .. SIZE : \E bs \in [1 .. n -> Char] : Put(bs)
  \/ \E n \in 1 .. SIZE : Get(n) \/ Peek(n)
  \/ \E c \in Char : Unget(c)
  \/ Unput \/ Clear

Spec == Init /\ [][Next]_<<s, call>>
=============================================================================
