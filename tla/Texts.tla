--------------------------------- MODULE Texts ---------------------------------
(***************************************************************************)
(* What the scanners of this code do with a text.  A text is a sequence of *)
(* symbols: a character the scanner tells from others, a kind of           *)
(* characters it treats alike, or a word it compares as a whole.           *)
(***************************************************************************)
EXTENDS Integers, Sequences, FiniteSetsExt

Space == " "
At(s, i) == IF i \in DOMAIN s THEN s[i] ELSE "end"
From(s, i) == SubSeq(s, i, Len(s))
StartsAt(s, word, i) ==
  i + Len(word) - 1 <= Len(s) /\ SubSeq(s, i, i + Len(word) - 1) = word

(* std::string::find: where word next stands from i on, 0 for npos.        *)
Find(s, word, i) ==
  LET places == {j \in i..(Len(s) - Len(word) + 1) : StartsAt(s, word, j)}
  IN IF places = {} THEN 0 ELSE Min(places)

(* The first place from i on whose symbol is not among those given, and the*)
(* first whose symbol is: one past the end if there is none.               *)
PastAll(s, i, symbols) ==
  Min({j \in i..Len(s) : s[j] \notin symbols} \cup {Len(s) + 1})
FirstOf(s, i, symbols) ==
  Min({j \in i..Len(s) : s[j] \in symbols} \cup {Len(s) + 1})

TrimLeft(s, symbols) == From(s, PastAll(s, 1, symbols))
Trim(s, symbols) ==
  LET kept == {j \in DOMAIN s : s[j] \notin symbols}
  IN IF kept = {} THEN <<>> ELSE SubSeq(s, Min(kept), Max(kept))

(* A loop over a text that at each place appends something and reads some  *)
(* symbols: one that it copies, or those it replaces.                      *)
Copy(s, i) == [out |-> <<s[i]>>, next |-> i + 1]
Replace(next, out) == [out |-> out, next |-> next]

(* What it builds from 1 to n, given its steps at all places.              *)
Built(steps, n) ==
  LET rest[i \in 1..(n + 1)] ==
        IF i > n THEN <<>>
        ELSE LET step == steps[i] IN step.out \o rest[step.next]
  IN rest[1]
Scan(s, Step(_, _)) == Built([i \in 1..Len(s) |-> Step(s, i)], Len(s))
================================================================================
