------------------------------ MODULE Texts_proofs ------------------------------
(***************************************************************************)
(* What holds of ContextClip and RerankGuard for every text: the loops of  *)
(* context_clip.cc replace what the regular expressions of the daemon do,  *)
(* what they leave is clean and stays as it is when the daemon cleans it   *)
(* again, and the two guards agree.  So, with what Exchanges_proofs shows  *)
(* of the texts and files that are read back, the invariants of MCTexts    *)
(* hold however long its texts grow.                                       *)
(*                                                                         *)
(* A loop is compared with its regular expression place by place: the words*)
(* that match there all end at one place, the one the loop finds, or there *)
(* are none.  What a loop leaves (Built) is then the same, or is compared  *)
(* from the end of the text to its beginning (Downwards).                  *)
(***************************************************************************)
EXTENDS MCTexts, Exchanges_proofs

--------------------------------------------------------------------------------
(* The first of the loops against its regular expression.                  *)

(* The marks the loops know, which have the usual white space and the      *)
(* digits of ASCII in them.                                                *)
AsciiEdit(w) ==
  /\ Len(w) >= 3 /\ w[1] = "[" /\ w[Len(w)] = "]"
  /\ \E e \in 2..(Len(w) - 1) :
       /\ w[e] = "edit"
       /\ AllIn(w, 2, e - 1, SpaceLike) /\ AllIn(w, e + 1, Len(w) - 1, SpaceLike)
AsciiNumber(w) ==
  /\ Len(w) >= 3 /\ w[1] = "[" /\ w[Len(w)] = "]"
  /\ AllIn(w, 2, Len(w) - 1, {"1"})

(* If no mark is odd, the regular expressions know no other.               *)
LEMMA NoOddMark ==
  ASSUME NEW S, NEW s \in Seq(S), NEW i \in 1..Len(s), NEW j \in i..Len(s)
  PROVE  /\ ~ OddEdit(s) => (IsEdit(SubSeq(s, i, j)) <=> AsciiEdit(SubSeq(s, i, j)))
         /\ ~ OddNumber(s) => (IsNumber(SubSeq(s, i, j)) <=> AsciiNumber(SubSeq(s, i, j)))
<1> DEFINE w == SubSeq(s, i, j)
           m == j - i + 1
<1>1. /\ i \in DOMAIN s /\ j \in DOMAIN s /\ Len(s) \in Nat /\ m \in Nat
      /\ i \in Nat /\ j \in Nat
  OBVIOUS
<1>2. w \in Seq(S) /\ Len(w) = m /\ \A k \in 1..m : w[k] = s[i + k - 1] /\ At(w, k) = s[i + k - 1]
  BY PartIs
<1> HIDE DEF w
<1>3. \A k \in 1..m : i + k - 1 \in i..j
  BY <1>1
<1>4. AsciiEdit(w) => IsEdit(w)
  BY DEF AsciiEdit, IsEdit, AllIn, RegexSpace
<1>5. ASSUME ~ OddEdit(s), IsEdit(w)
      PROVE  AsciiEdit(w)
  <2>1. \A k \in i..j : s[k] \notin {"nl", "cr", "nbsp", "dotless"}
    BY <1>1, <1>5 DEF OddEdit, w
  <2>2. \A k \in 1..m : w[k] \notin {"nl", "cr", "nbsp", "dotless"} /\ At(w, k) = w[k]
    BY <1>2, <1>3, <2>1
  <2>3. PICK e \in 2..(Len(w) - 1) :
          /\ w[e] \in {"edit", "dotless"}
          /\ AllIn(w, 2, e - 1, RegexSpace) /\ AllIn(w, e + 1, Len(w) - 1, RegexSpace)
    BY <1>5 DEF IsEdit
  <2>4. Len(w) >= 3 /\ w[1] = "[" /\ w[Len(w)] = "]"
    BY <1>5 DEF IsEdit
  <2>5. e \in 1..m /\ e \in Nat
    BY <1>1, <1>2, <2>3
  <2>6. w[e] = "edit"
    BY <2>2, <2>3, <2>5
  <2>7. AllIn(w, 2, e - 1, SpaceLike)
    <3>1. ASSUME NEW k \in 2..(e - 1)
          PROVE  At(w, k) \in SpaceLike
      <4>1. k \in 1..m
        BY <1>1, <2>5
      <4>2. At(w, k) \in RegexSpace
        BY <2>3 DEF AllIn
      <4> QED BY <2>2, <4>1, <4>2 DEF RegexSpace
    <3> QED BY <3>1 DEF AllIn
  <2>8. AllIn(w, e + 1, Len(w) - 1, SpaceLike)
    <3>1. ASSUME NEW k \in (e + 1)..(Len(w) - 1)
          PROVE  At(w, k) \in SpaceLike
      <4>1. k \in 1..m
        BY <1>1, <1>2, <2>5
      <4>2. At(w, k) \in RegexSpace
        BY <2>3 DEF AllIn
      <4> QED BY <2>2, <4>1, <4>2 DEF RegexSpace
    <3> QED BY <3>1 DEF AllIn
  <2> QED BY <2>3, <2>4, <2>6, <2>7, <2>8 DEF AsciiEdit
<1>6. AsciiNumber(w) => IsNumber(w)
  BY DEF AsciiNumber, IsNumber, AllIn, RegexDigit
<1>7. ASSUME ~ OddNumber(s), IsNumber(w)
      PROVE  AsciiNumber(w)
  <2>1. \A k \in i..j : s[k] # "digit"
    BY <1>1, <1>7 DEF OddNumber, w
  <2>2. Len(w) >= 3 /\ w[1] = "[" /\ w[Len(w)] = "]" /\ AllIn(w, 2, Len(w) - 1, RegexDigit)
    BY <1>7 DEF IsNumber
  <2>3. ASSUME NEW k \in 2..(Len(w) - 1)
        PROVE  At(w, k) = "1"
    <3>1. k \in 1..m
      BY <1>1, <1>2
    <3>2. At(w, k) \in RegexDigit /\ At(w, k) = s[i + k - 1] /\ i + k - 1 \in i..j
      BY <1>2, <1>3, <2>2, <3>1 DEF AllIn
    <3> QED BY <2>1, <3>2 DEF RegexDigit
  <2> QED BY <2>2, <2>3 DEF AsciiNumber, AllIn
<1> QED BY <1>4, <1>5, <1>6, <1>7 DEF w

(* [edit]: the same marks are dropped.                                     *)
LEMMA EditStep ==
  ASSUME NEW S, NEW s \in Seq(S), "end" \notin S, NEW i \in 1..Len(s),
         NEW ends, ends = {j \in i..Len(s) : AsciiEdit(SubSeq(s, i, j))}
  PROVE  (IF ends = {} THEN Copy(s, i) ELSE Replace(Max(ends) + 1, <<>>)) = WikiEdit(s, i)
<1> DEFINE n == Len(s)
           word == PastAll(s, i + 1, SpaceLike)
           close == PastAll(s, word + 1, SpaceLike)
           Found == s[i] = "[" /\ At(s, word) = "edit" /\ At(s, close) = "]"
<1>1. n \in Nat /\ i \in Nat /\ i + 1 \in 1..n+1
  OBVIOUS
<1>2. /\ word \in (i + 1)..(n + 1)
      /\ \A j \in (i + 1)..(word - 1) : j \in 1..n /\ s[j] \in SpaceLike
  BY <1>1, PastAllIs
<1>3. ASSUME Found
      PROVE  /\ word \in (i + 1)..n /\ s[word] = "edit"
             /\ close \in (word + 1)..n /\ s[close] = "]"
             /\ \A j \in (word + 1)..(close - 1) : s[j] \in SpaceLike
  <2> HIDE DEF word
  <2>1. word \in 1..n /\ s[word] = "edit"
    BY <1>1, <1>2, <1>3, AtIs
  <2>2. word + 1 \in 1..n+1
    BY <2>1
  <2>3. /\ close \in (word + 1)..(n + 1)
        /\ \A j \in (word + 1)..(close - 1) : j \in 1..n /\ s[j] \in SpaceLike
    BY <2>2, PastAllIs
  <2> HIDE DEF close
  <2>4. close \in 1..n /\ s[close] = "]"
    BY <1>1, <1>3, <2>1, <2>3, AtIs
  <2> QED BY <1>1, <1>2, <2>1, <2>3, <2>4
<1>4. ASSUME Found
      PROVE  close \in ends
  <2> HIDE DEF word, close
  <2> DEFINE w == SubSeq(s, i, close)
             e == word - i + 1
  <2>1. close \in i..n /\ word \in (i + 1)..(close - 1)
    BY <1>1, <1>3, <1>4
  <2>2. /\ Len(w) = close - i + 1 /\ w \in Seq(S)
        /\ \A k \in 1..close-i+1 : w[k] = s[i + k - 1] /\ At(w, k) = s[i + k - 1]
    BY <2>1, PartIs
  <2> HIDE DEF w
  <2>3. Len(w) >= 3 /\ e \in 2..(Len(w) - 1)
    BY <1>1, <2>1, <2>2
  <2>4. w[1] = "[" /\ w[Len(w)] = "]" /\ w[e] = "edit"
    <3>1. i + 1 - 1 = i /\ i + Len(w) - 1 = close /\ i + e - 1 = word
      BY <1>1, <2>1, <2>2
    <3>2. 1 \in 1..close-i+1 /\ Len(w) \in 1..close-i+1 /\ e \in 1..close-i+1
      BY <1>1, <2>1, <2>2
    <3> HIDE DEF e
    <3> QED BY <1>3, <1>4, <2>2, <3>1, <3>2
  <2>5. AllIn(w, 2, e - 1, SpaceLike)
    <3>1. ASSUME NEW k \in 2..(e - 1)
          PROVE  At(w, k) \in SpaceLike
      <4>1. k \in 1..close-i+1 /\ i + k - 1 \in (i + 1)..(word - 1)
        BY <1>1, <2>1
      <4> QED BY <1>2, <2>2, <4>1
    <3> QED BY <3>1 DEF AllIn
  <2>6. AllIn(w, e + 1, Len(w) - 1, SpaceLike)
    <3>1. ASSUME NEW k \in (e + 1)..(Len(w) - 1)
          PROVE  At(w, k) \in SpaceLike
      <4>1. k \in 1..close-i+1 /\ i + k - 1 \in (word + 1)..(close - 1)
        BY <1>1, <2>1, <2>2
      <4>2. s[i + k - 1] \in SpaceLike
        BY ONLY <1>3, <1>4, <4>1
      <4> QED BY ONLY <2>2, <4>1, <4>2
    <3> QED BY <3>1 DEF AllIn
  <2> HIDE DEF e
  <2>7. AsciiEdit(w)
    BY <2>3, <2>4, <2>5, <2>6 DEF AsciiEdit
  <2> QED BY <2>1, <2>7 DEF w
<1>5. ASSUME NEW j \in ends
      PROVE  Found /\ j = close
  <2> DEFINE w == SubSeq(s, i, j)
  <2>1. j \in i..n /\ AsciiEdit(w)
    OBVIOUS
  <2>2. /\ Len(w) = j - i + 1 /\ w \in Seq(S)
        /\ \A k \in 1..j-i+1 : w[k] = s[i + k - 1] /\ At(w, k) = s[i + k - 1]
    BY <2>1, PartIs
  <2> HIDE DEF w
  <2>3. PICK e \in 2..(Len(w) - 1) :
          /\ w[e] = "edit"
          /\ AllIn(w, 2, e - 1, SpaceLike) /\ AllIn(w, e + 1, Len(w) - 1, SpaceLike)
    BY <2>1 DEF AsciiEdit
  <2>4. Len(w) >= 3 /\ w[1] = "[" /\ w[Len(w)] = "]"
    BY <2>1 DEF AsciiEdit
  <2> DEFINE mid == i + e - 1
  <2>5. mid \in (i + 1)..(j - 1) /\ e \in 1..j-i+1
    BY <1>1, <2>1, <2>2, <2>3
  <2>6. s[mid] = "edit" /\ s[i] = "[" /\ s[j] = "]"
    <3>1. 1 \in 1..j-i+1 /\ j - i + 1 \in 1..j-i+1 /\ i + 1 - 1 = i /\ i + (j - i + 1) - 1 = j
      BY <1>1, <2>1
    <3> QED BY <2>2, <2>3, <2>4, <2>5, <3>1
  <2>7. \A k \in (i + 1)..(mid - 1) : s[k] \in SpaceLike
    <3>1. ASSUME NEW k \in (i + 1)..(mid - 1)
          PROVE  s[k] \in SpaceLike
      <4>1. k - i + 1 \in 2..(e - 1) /\ k - i + 1 \in 1..j-i+1 /\ i + (k - i + 1) - 1 = k
        BY <1>1, <2>1, <2>5
      <4>2. At(w, k - i + 1) \in SpaceLike
        BY <2>3, <4>1 DEF AllIn
      <4>3. At(w, k - i + 1) = s[i + (k - i + 1) - 1]
        BY <2>2, <4>1
      <4> QED BY <4>1, <4>2, <4>3
    <3> QED BY <3>1
  <2>8. \A k \in (mid + 1)..(j - 1) : s[k] \in SpaceLike
    <3>1. ASSUME NEW k \in (mid + 1)..(j - 1)
          PROVE  s[k] \in SpaceLike
      <4>1. k - i + 1 \in (e + 1)..(Len(w) - 1) /\ k - i + 1 \in 1..j-i+1 /\ i + (k - i + 1) - 1 = k
        BY <1>1, <2>1, <2>2, <2>5
      <4>2. At(w, k - i + 1) \in SpaceLike
        BY <2>3, <4>1 DEF AllIn
      <4>3. At(w, k - i + 1) = s[i + (k - i + 1) - 1]
        BY <2>2, <4>1
      <4> QED BY <4>1, <4>2, <4>3
    <3> QED BY <3>1
  <2> HIDE DEF mid
  <2>9. "edit" \notin SpaceLike /\ "]" \notin SpaceLike
    BY DEF SpaceLike, Space
  <2>10. word = mid
    <3>1. mid \in (i + 1)..(n + 1) /\ s[mid] \notin SpaceLike
      BY <1>1, <2>1, <2>5, <2>6, <2>9
    <3> QED BY <1>1, <2>7, <3>1, PastAllAt
  <2> HIDE DEF word
  <2>11. close = j
    <3>1. mid + 1 \in 1..n+1 /\ j \in (mid + 1)..(n + 1) /\ s[j] \notin SpaceLike
      BY <1>1, <2>1, <2>5, <2>6, <2>9
    <3> QED BY <2>8, <2>10, <3>1, PastAllAt
  <2> HIDE DEF close
  <2>12. At(s, word) = "edit" /\ At(s, close) = "]"
    <3>1. mid \in 1..n /\ j \in 1..n
      BY <1>1, <2>1, <2>5
    <3> QED BY <2>6, <2>10, <2>11, <3>1 DEF At
  <2> QED BY <2>6, <2>11, <2>12
<1>6. WikiEdit(s, i) = IF Found THEN Replace(close + 1, <<>>) ELSE Copy(s, i)
  BY DEF WikiEdit
<1> HIDE DEF word, close
<1>7. CASE Found
  <2>1. close \in Nat /\ ends = {close}
    BY <1>3, <1>4, <1>5, <1>7
  <2>2. Max(ends) = close
    BY <2>1, LongestIs
  <2> QED BY <1>6, <1>7, <2>1, <2>2
<1>8. CASE ~ Found
  <2>1. ends = {}
    BY <1>5, <1>8
  <2> QED BY <1>6, <1>8, <2>1
<1> QED BY <1>7, <1>8

(* So both sides drop [edit] alike.                                        *)
LEMMA EditAlike ==
  ASSUME NEW S, NEW s \in Seq(S), "end" \notin S, ~ OddEdit(s)
  PROVE  Scan(s, EditSub) = Scan(s, WikiEdit)
<1>1. \A i \in 1..Len(s) : EditSub(s, i) = WikiEdit(s, i)
  <2> SUFFICES ASSUME NEW i \in 1..Len(s)
               PROVE  EditSub(s, i) = WikiEdit(s, i)
    OBVIOUS
  <2> DEFINE ends == {j \in i..Len(s) : IsEdit(SubSeq(s, i, j))}
  <2>1. EditSub(s, i) = IF ends = {} THEN Copy(s, i) ELSE Replace(Max(ends) + 1, <<>>)
    BY DEF EditSub, Instead
  <2> HIDE DEF ends
  <2>2. ends = {j \in i..Len(s) : AsciiEdit(SubSeq(s, i, j))}
    BY NoOddMark DEF ends
  <2> QED BY <2>1, <2>2, EditStep
<1>2. [i \in 1..Len(s) |-> EditSub(s, i)] = [i \in 1..Len(s) |-> WikiEdit(s, i)]
  BY <1>1
<1> QED BY <1>2 DEF Scan

--------------------------------------------------------------------------------
(* The other loops against theirs, place by place.                         *)

(* The longest word a regular expression matches at a place.               *)
LEMMA LongestEnd ==
  ASSUME NEW ends \in SUBSET Nat, NEW after \in Nat,
         after - 1 \in ends, \A j \in ends : j < after
  PROVE  /\ ends # {} /\ Max(ends) + 1 = after
<1>1. \A j \in ends : j <= after - 1
  OBVIOUS
<1>2. Max(ends) = after - 1
  BY <1>1, LongestIs
<1> QED BY <1>2

(* EqRun and SpaceRun replace what _EQ_RUN and _MULTI_SPACE match.         *)
LEMMA EqRunStep ==
  ASSUME NEW S, NEW s \in Seq(S), NEW i \in 1..Len(s)
  PROVE  EqRunSub(s, i) = EqRun(s, i)
<1> DEFINE n == Len(s)
           after == PastAll(s, i, {"="})
           ends == {j \in i..n : IsEqRun(SubSeq(s, i, j))}
           Found == after - i >= 2
<1>1. /\ after \in i..n+1 /\ n \in Nat /\ i \in Nat
      /\ \A j \in i..after-1 : j \in 1..n /\ s[j] = "="
      /\ after \in 1..n => s[after] # "="
  BY PastAllIs
<1> HIDE DEF after
<1>2. ASSUME NEW j \in i..n
      PROVE  /\ Len(SubSeq(s, i, j)) = j - i + 1
             /\ \A k \in 1..j-i+1 : At(SubSeq(s, i, j), k) = s[i + k - 1]
  BY PartIs
<1>3. ASSUME Found
      PROVE  after - 1 \in ends
  <2>1. after - 1 \in i..n /\ (after - 1) - i + 1 >= 2
    BY <1>1, <1>3
  <2>2. \A k \in 1..((after - 1) - i + 1) : s[i + k - 1] = "="
    <3>1. \A k \in 1..((after - 1) - i + 1) : i + k - 1 \in i..after-1
      BY <1>1
    <3> QED BY <1>1, <3>1
  <2>3. AllIn(SubSeq(s, i, after - 1), 1, (after - 1) - i + 1, {"="})
    BY <1>2, <2>1, <2>2 DEF AllIn
  <2> QED BY <1>2, <2>1, <2>3 DEF IsEqRun
<1>4. ASSUME NEW j \in ends
      PROVE  Found /\ j < after
  <2>1. j \in i..n /\ j - i + 1 >= 2 /\ AllIn(SubSeq(s, i, j), 1, j - i + 1, {"="})
    BY <1>2 DEF IsEqRun
  <2>2. \A k \in i..j : s[k] = "="
    <3>1. ASSUME NEW k \in i..j
          PROVE  s[k] = "="
      <4>1. k - i + 1 \in 1..j-i+1 /\ i + (k - i + 1) - 1 = k
        BY <1>1, <2>1
      <4> QED BY <1>2, <2>1, <4>1 DEF AllIn
    <3> QED BY <3>1
  <2>3. j < after
    BY <1>1, <2>1, <2>2
  <2> QED BY <1>1, <2>1, <2>3
<1>5. EqRunSub(s, i) = Instead(s, i, ends, <<Space>>)
  BY DEF EqRunSub
<1>6. ends \in SUBSET Nat /\ after \in Nat
  BY <1>1
<1> HIDE DEF ends
<1>7. Instead(s, i, ends, <<Space>>)
        = IF Found THEN Replace(after, <<Space>>) ELSE Copy(s, i)
  <2>1. CASE Found
    <3>1. after - 1 \in ends /\ \A j \in ends : j < after
      BY <1>3, <1>4, <2>1
    <3>2. ends # {} /\ Max(ends) + 1 = after
      BY <1>6, <3>1, LongestEnd
    <3> QED BY <2>1, <3>2 DEF Instead
  <2>2. CASE ~ Found
    <3>1. ends = {}
      BY <1>4, <2>2
    <3> QED BY <2>2, <3>1 DEF Instead
  <2> QED BY <2>1, <2>2
<1> QED BY <1>5, <1>6, <1>7 DEF EqRun, after

(* A run of white space becomes one space on both sides.                   *)
LEMMA SpaceRunStep ==
  ASSUME NEW S, NEW s \in Seq(S), NEW i \in 1..Len(s)
  PROVE  SpaceRunSub(s, i) = SpaceRun(s, i)
<1> DEFINE n == Len(s)
           after == PastAll(s, i, SpaceLike)
           ends == {j \in i..n : IsSpaceRun(SubSeq(s, i, j))}
           Found == after > i
<1>1. /\ after \in i..n+1 /\ n \in Nat /\ i \in Nat
      /\ \A j \in i..after-1 : j \in 1..n /\ s[j] \in SpaceLike
      /\ after \in 1..n => s[after] \notin SpaceLike
  BY PastAllIs
<1> HIDE DEF after
<1>2. ASSUME NEW j \in i..n
      PROVE  /\ Len(SubSeq(s, i, j)) = j - i + 1
             /\ \A k \in 1..j-i+1 : At(SubSeq(s, i, j), k) = s[i + k - 1]
  BY PartIs
<1>3. ASSUME Found
      PROVE  after - 1 \in ends
  <2>1. after - 1 \in i..n
    BY <1>1, <1>3
  <2>2. \A k \in 1..((after - 1) - i + 1) : s[i + k - 1] \in SpaceLike
    <3>1. \A k \in 1..((after - 1) - i + 1) : i + k - 1 \in i..after-1
      BY <1>1
    <3> QED BY <1>1, <3>1
  <2>3. AllIn(SubSeq(s, i, after - 1), 1, (after - 1) - i + 1, SpaceLike)
    BY <1>2, <2>1, <2>2 DEF AllIn
  <2> QED BY <1>2, <2>1, <2>3 DEF IsSpaceRun
<1>4. ASSUME NEW j \in ends
      PROVE  Found /\ j < after
  <2>1. j \in i..n /\ AllIn(SubSeq(s, i, j), 1, j - i + 1, SpaceLike)
    BY <1>2 DEF IsSpaceRun
  <2>2. \A k \in i..j : s[k] \in SpaceLike
    <3>1. ASSUME NEW k \in i..j
          PROVE  s[k] \in SpaceLike
      <4>1. k - i + 1 \in 1..j-i+1 /\ i + (k - i + 1) - 1 = k
        BY <1>1, <2>1
      <4> QED BY <1>2, <2>1, <4>1 DEF AllIn
    <3> QED BY <3>1
  <2>3. j < after
    BY <1>1, <2>1, <2>2
  <2> QED BY <1>1, <2>1, <2>3
<1>5. SpaceRunSub(s, i) = Instead(s, i, ends, <<Space>>)
  BY DEF SpaceRunSub
<1>6. ends \in SUBSET Nat /\ after \in Nat
  BY <1>1
<1> HIDE DEF ends
<1>7. Instead(s, i, ends, <<Space>>)
        = IF Found THEN Replace(after, <<Space>>) ELSE Copy(s, i)
  <2>1. CASE Found
    <3>1. after - 1 \in ends /\ \A j \in ends : j < after
      BY <1>3, <1>4, <2>1
    <3>2. ends # {} /\ Max(ends) + 1 = after
      BY <1>6, <3>1, LongestEnd
    <3> QED BY <2>1, <3>2 DEF Instead
  <2>2. CASE ~ Found
    <3>1. ends = {}
      BY <1>4, <2>2
    <3> QED BY <2>2, <3>1 DEF Instead
  <2> QED BY <2>1, <2>2
<1> QED BY <1>5, <1>6, <1>7 DEF SpaceRun, after

(* Where a word that matches _WIKI_HEADING ends: within what the loop      *)
(* takes for a heading, or within the run of "=" that it begins with.      *)
LEMMA HeadingEnds ==
  ASSUME NEW S, NEW s \in Seq(S), NEW i \in 1..Len(s), NEW j \in i..Len(s),
         IsHeading(SubSeq(s, i, j))
  PROVE  LET title == PastAll(s, i, {"="})
             close == FirstOf(s, title, {"=", "nl"})
             after == PastAll(s, close, {"="})
         IN \/ title - i >= 2 /\ after - close >= 2 /\ title < after /\ j < after
            \/ i + 3 <= j /\ j < title
<1> DEFINE n == Len(s)
           title == PastAll(s, i, {"="})
           close == FirstOf(s, title, {"=", "nl"})
           after == PastAll(s, close, {"="})
           Found == title - i >= 2 /\ after - close >= 2
<1>1. /\ title \in i..n+1 /\ n \in Nat /\ i \in Nat
      /\ \A k \in i..title-1 : k \in 1..n /\ s[k] = "="
      /\ title \in 1..n => s[title] # "="
  BY PastAllIs
<1> HIDE DEF title
<1>2. /\ close \in title..n+1
      /\ \A k \in title..close-1 : k \in 1..n /\ s[k] \notin {"=", "nl"}
      /\ close \in 1..n => s[close] \in {"=", "nl"}
  <2>1. title \in 1..n+1
    BY <1>1
  <2> QED BY <2>1, FirstOfIs
<1> HIDE DEF close
<1>3. /\ after \in close..n+1
      /\ \A k \in close..after-1 : k \in 1..n /\ s[k] = "="
      /\ after \in 1..n => s[after] # "="
  <2>1. close \in 1..n+1
    BY <1>1, <1>2
  <2> QED BY <2>1, PastAllIs
<1> HIDE DEF after
<1>4. /\ Len(SubSeq(s, i, j)) = j - i + 1
      /\ \A k \in 1..j-i+1 : /\ At(SubSeq(s, i, j), k) = s[i + k - 1]
                             /\ SubSeq(s, i, j)[k] = s[i + k - 1]
  BY PartIs
<1>5. \/ Found /\ title < after /\ j < after
      \/ i + 3 <= j /\ j < title
  <2> DEFINE w == SubSeq(s, i, j)
             m == j - i + 1
  <2>1. j \in i..n /\ IsHeading(w)
    OBVIOUS
  <2>2. Len(w) = m /\ \A k \in 1..m : At(w, k) = s[i + k - 1] /\ w[k] = s[i + k - 1]
    BY <1>4, <2>1
  <2> HIDE DEF w
  <2>3. PICK a \in 2..m, b \in 1..(m - 1) :
          /\ a < b
          /\ AllIn(w, 1, a, {"="}) /\ AllIn(w, b, m, {"="})
          /\ \A k \in (a + 1)..(b - 1) : w[k] \notin {"=", "nl"}
    BY <2>1, <2>2 DEF IsHeading
  <2>4. \A k \in i..(i + a - 1) : s[k] = "="
    <3>1. ASSUME NEW k \in i..(i + a - 1)
          PROVE  s[k] = "="
      <4>1. k - i + 1 \in 1..a /\ k - i + 1 \in 1..m /\ i + (k - i + 1) - 1 = k
        BY <1>1, <2>1, <2>3
      <4> QED BY <2>2, <2>3, <4>1 DEF AllIn
    <3> QED BY <3>1
  <2>5. \A k \in (i + b - 1)..j : s[k] = "="
    <3>1. ASSUME NEW k \in (i + b - 1)..j
          PROVE  s[k] = "="
      <4>1. k - i + 1 \in b..m /\ k - i + 1 \in 1..m /\ i + (k - i + 1) - 1 = k
        BY <1>1, <2>1, <2>3
      <4> QED BY <2>2, <2>3, <4>1 DEF AllIn
    <3> QED BY <3>1
  <2>6. \A k \in (i + a)..(i + b - 2) : s[k] \notin {"=", "nl"}
    <3>1. ASSUME NEW k \in (i + a)..(i + b - 2)
          PROVE  s[k] \notin {"=", "nl"}
      <4>1. k - i + 1 \in (a + 1)..(b - 1) /\ k - i + 1 \in 1..m /\ i + (k - i + 1) - 1 = k
        BY <1>1, <2>1, <2>3
      <4> QED BY <2>2, <2>3, <4>1
    <3> QED BY <3>1
  <2>7. title >= i + a /\ j >= i + b
    BY <1>1, <2>1, <2>3, <2>4
  <2>8. CASE title = i + a /\ a + 1 < b
    <3>1. close = i + b - 1
      <4>1. ~ (close < i + b - 1)
        <5>1. close < i + b - 1 => close \in (i + a)..(i + b - 2) /\ close \in 1..n
          BY <1>1, <1>2, <2>1, <2>3, <2>8
        <5> QED BY <1>2, <2>6, <5>1
      <4>2. ~ (close > i + b - 1)
        <5>1. close > i + b - 1 => i + b - 1 \in title..close-1
          BY <1>1, <1>2, <2>1, <2>3, <2>8
        <5>2. s[i + b - 1] = "="
          BY <1>1, <2>1, <2>3, <2>5
        <5> QED BY <1>2, <5>1, <5>2
      <4> QED BY <1>1, <1>2, <2>3, <4>1, <4>2
    <3>2. after > j
      <4>1. after <= j => after \in (i + b - 1)..j /\ after \in 1..n
        BY <1>1, <1>2, <1>3, <2>1, <2>3, <3>1
      <4> QED BY <1>1, <1>2, <1>3, <2>1, <2>5, <4>1
    <3>3. after - close >= 2 /\ title - i >= 2 /\ title < after /\ j < after
      BY <1>1, <1>2, <1>3, <2>1, <2>3, <2>7, <2>8, <3>1, <3>2
    <3> QED BY <3>3
  <2>9. CASE title > i + a \/ a + 1 = b
    <3>1. a + 1 = b
      <4>1. a + 1 < b => i + a \in (i + a)..(i + b - 2)
        BY <1>1, <2>3
      <4>2. title > i + a => i + a \in i..title-1
        BY <1>1, <2>3
      <4>3. title > i + a => s[i + a] = "="
        BY <1>1, <4>2
      <4>4. a + 1 < b => s[i + a] # "="
        BY <2>6, <4>1
      <4> QED BY <2>3, <2>9, <4>3, <4>4
    <3>2. \A k \in i..j : s[k] = "="
      <4>1. \A k \in i..j : k \in i..(i + a - 1) \/ k \in (i + b - 1)..j
        BY <1>1, <2>1, <2>3, <3>1
      <4> QED BY <2>4, <2>5, <4>1
    <3>3. title > j
      BY <1>1, <2>1, <3>2
    <3>4. i + 4 - 1 <= j
      BY <1>1, <2>1, <2>3, <3>1
    <3> QED BY <3>3, <3>4
  <2>10. title = i + a \/ title > i + a
    BY <1>1, <2>3, <2>7
  <2>11. a + 1 < b \/ a + 1 = b
    BY <2>3
  <2> QED BY <2>8, <2>9, <2>10, <2>11
<1> QED BY <1>5 DEF title, close, after

(* But for a run of four "=" that heads nothing, StripWikiHeading replaces *)
(* what _WIKI_HEADING matches.                                             *)
LEMMA HeadingStep ==
  ASSUME NEW S, NEW s \in Seq(S), NEW i \in 1..Len(s),
         ~ (StartsAt(s, <<"=", "=", "=", "=">>, i) /\ WikiHeading(s, i).next = i + 1)
  PROVE  HeadingSub(s, i) = WikiHeading(s, i)
<1> DEFINE n == Len(s)
           title == PastAll(s, i, {"="})
           close == FirstOf(s, title, {"=", "nl"})
           after == PastAll(s, close, {"="})
           Found == title - i >= 2 /\ after - close >= 2
           ends == {j \in i..n : IsHeading(SubSeq(s, i, j))}
<1>1. /\ title \in i..n+1 /\ n \in Nat /\ i \in Nat
      /\ \A j \in i..title-1 : j \in 1..n /\ s[j] = "="
      /\ title \in 1..n => s[title] # "="
  BY PastAllIs
<1> HIDE DEF title
<1>2. /\ close \in title..n+1
      /\ \A j \in title..close-1 : j \in 1..n /\ s[j] \notin {"=", "nl"}
      /\ close \in 1..n => s[close] \in {"=", "nl"}
  <2>1. title \in 1..n+1
    BY <1>1
  <2> QED BY <2>1, FirstOfIs
<1> HIDE DEF close
<1>3. /\ after \in close..n+1
      /\ \A j \in close..after-1 : j \in 1..n /\ s[j] = "="
      /\ after \in 1..n => s[after] # "="
  <2>1. close \in 1..n+1
    BY <1>1, <1>2
  <2> QED BY <2>1, PastAllIs
<1> HIDE DEF after
<1>4. WikiHeading(s, i) = IF Found THEN Replace(after, <<Space>>) ELSE Copy(s, i)
  BY DEF WikiHeading, title, close, after
<1>5. ASSUME NEW j \in i..n
      PROVE  /\ Len(SubSeq(s, i, j)) = j - i + 1
             /\ \A k \in 1..j-i+1 : /\ At(SubSeq(s, i, j), k) = s[i + k - 1]
                                    /\ SubSeq(s, i, j)[k] = s[i + k - 1]
  BY PartIs
<1>6. ASSUME Found
      PROVE  after - 1 \in ends
  <2> DEFINE w == SubSeq(s, i, after - 1)
             m == after - i
             a == title - i
             b == close - i + 1
  <2>1. after - 1 \in i..n /\ after - 1 - i + 1 = m
    BY <1>1, <1>2, <1>3, <1>6
  <2>2. Len(w) = m /\ \A k \in 1..m : At(w, k) = s[i + k - 1] /\ w[k] = s[i + k - 1]
    BY <1>5, <2>1
  <2> HIDE DEF w
  <2>3. a \in 2..m /\ b \in 1..(m - 1) /\ a < b
    BY <1>1, <1>2, <1>3, <1>6
  <2>4. AllIn(w, 1, a, {"="})
    <3>1. \A k \in 1..a : k \in 1..m /\ i + k - 1 \in i..title-1
      BY <1>1, <1>2, <1>3, <2>3
    <3> QED BY <1>1, <2>2, <3>1 DEF AllIn
  <2>5. AllIn(w, b, m, {"="})
    <3>1. \A k \in b..m : k \in 1..m /\ i + k - 1 \in close..after-1
      BY <1>1, <1>2, <1>3, <2>3
    <3> QED BY <1>3, <2>2, <3>1 DEF AllIn
  <2>6. \A k \in (a + 1)..(b - 1) : w[k] \notin {"=", "nl"}
    <3>1. \A k \in (a + 1)..(b - 1) : k \in 1..m /\ i + k - 1 \in title..close-1
      BY <1>1, <1>2, <1>3, <2>3
    <3> QED BY <1>2, <2>2, <3>1
  <2> HIDE DEF m, a, b
  <2>7. IsHeading(w)
    BY <2>2, <2>3, <2>4, <2>5, <2>6 DEF IsHeading
  <2> QED BY <2>1, <2>7 DEF w
<1>7. ASSUME NEW j \in ends
      PROVE  Found /\ j < after
  <2>1. j \in i..n /\ IsHeading(SubSeq(s, i, j))
    OBVIOUS
  <2>2. \/ title - i >= 2 /\ after - close >= 2 /\ title < after /\ j < after
        \/ i + 3 <= j /\ j < title
    BY <2>1, HeadingEnds DEF title, close, after
  <2>3. CASE i + 3 <= j /\ j < title
    <3>1. i + 4 - 1 \in i..n
      BY <1>1, <2>1, <2>3
    <3> DEFINE v == SubSeq(s, i, i + 4 - 1)
    <3>2. v \in Seq(S) /\ Len(v) = 4 /\ \A k \in 1..4 : v[k] = s[i + k - 1]
      <4>1. (i + 4 - 1) - i + 1 = 4
        BY <1>1
      <4> HIDE DEF ends
      <4> QED BY <3>1, <4>1, PartIs
    <3>3. \A k \in 1..4 : v[k] = "="
      <4>1. \A k \in 1..4 : i + k - 1 \in i..title-1
        BY <1>1, <2>1, <2>3
      <4> QED BY <1>1, <3>2, <4>1
    <3> HIDE DEF v
    <3>4. v = <<"=", "=", "=", "=">>
      <4>1. v[1] = "=" /\ v[2] = "=" /\ v[3] = "=" /\ v[4] = "="
        BY <3>3
      <4> QED BY <3>2, <4>1
    <3>5. StartsAt(s, <<"=", "=", "=", "=">>, i)
      BY <3>1, <3>4 DEF StartsAt, v
    <3>6. ASSUME ~ Found
          PROVE  WikiHeading(s, i).next = i + 1
      <4>1. WikiHeading(s, i) = Copy(s, i)
        BY <1>4, <3>6
      <4> QED BY <4>1 DEF Copy
    <3>7. Found
      BY <3>5, <3>6
    <3> QED BY <1>1, <1>2, <1>3, <2>3, <3>7
  <2> QED BY <2>2, <2>3
<1>8. HeadingSub(s, i) = Instead(s, i, ends, <<Space>>)
  BY DEF HeadingSub
<1>9. ends \in SUBSET Nat /\ after \in Nat
  BY <1>1, <1>2, <1>3
<1> HIDE DEF ends
<1>10. Instead(s, i, ends, <<Space>>)
        = IF Found THEN Replace(after, <<Space>>) ELSE Copy(s, i)
  <2>1. CASE Found
    <3>1. after - 1 \in ends /\ \A j \in ends : j < after
      BY <1>6, <1>7, <2>1
    <3>2. ends # {} /\ Max(ends) + 1 = after
      BY <1>9, <3>1, LongestEnd
    <3> QED BY <2>1, <3>2 DEF Instead
  <2>2. CASE ~ Found
    <3>1. ends = {}
      BY <1>7, <2>2
    <3> QED BY <2>2, <3>1 DEF Instead
  <2> QED BY <2>1, <2>2
<1> QED BY <1>4, <1>8, <1>9, <1>10

(* Two symbols and three at a place.                                       *)
LEMMA PairIs ==
  ASSUME NEW S, NEW s \in Seq(S), NEW i \in Nat \ {0}, NEW a, NEW b
  PROVE  /\ StandsAt(s, i, <<a, b>>) <=> i + 1 <= Len(s) /\ s[i] = a /\ s[i + 1] = b
         /\ StartsAt(s, <<a, b>>, i) <=> i + 1 <= Len(s) /\ s[i] = a /\ s[i + 1] = b
<1> DEFINE word == <<a, b>>
<1>1. word \in Seq({a, b}) /\ Len(word) = 2 /\ word[1] = a /\ word[2] = b
  OBVIOUS
<1> HIDE DEF word
<1>2. StandsAt(s, i, word) <=> i + 1 <= Len(s) /\ s[i] = a /\ s[i + 1] = b
  <2>1. i - 1 + 1 = i /\ i - 1 + 2 = i + 1
    OBVIOUS
  <2>2. \A k \in 1..2 : k = 1 \/ k = 2
    OBVIOUS
  <2>3. (\A k \in 1..2 : s[i - 1 + k] = word[k]) <=> s[i] = a /\ s[i + 1] = b
    BY <1>1, <2>1, <2>2
  <2>4. i + 2 <= Len(s) + 1 <=> i + 1 <= Len(s)
    OBVIOUS
  <2> QED BY <1>1, <2>3, <2>4 DEF StandsAt
<1>3. StartsAt(s, word, i) <=> StandsAt(s, i, word)
  BY <1>1, StartsIs
<1> QED BY <1>2, <1>3 DEF word

(* Three symbols.                                                          *)
LEMMA TripleIs ==
  ASSUME NEW S, NEW s \in Seq(S), NEW i \in Nat \ {0}, NEW a, NEW b, NEW c
  PROVE  StandsAt(s, i, <<a, b, c>>) <=>
           i + 2 <= Len(s) /\ s[i] = a /\ s[i + 1] = b /\ s[i + 2] = c
<1> DEFINE word == <<a, b, c>>
<1>1. Len(word) = 3 /\ word[1] = a /\ word[2] = b /\ word[3] = c
  OBVIOUS
<1> HIDE DEF word
<1>2. StandsAt(s, i, word) <=> i + 2 <= Len(s) /\ s[i] = a /\ s[i + 1] = b /\ s[i + 2] = c
  <2>1. i - 1 + 1 = i /\ i - 1 + 2 = i + 1 /\ i - 1 + 3 = i + 2
    OBVIOUS
  <2>2. \A k \in 1..3 : k = 1 \/ k = 2 \/ k = 3
    OBVIOUS
  <2>3. (\A k \in 1..3 : s[i - 1 + k] = word[k])
          <=> s[i] = a /\ s[i + 1] = b /\ s[i + 2] = c
    BY <1>1, <2>1, <2>2
  <2>4. i + 3 <= Len(s) + 1 <=> i + 2 <= Len(s)
    OBVIOUS
  <2> QED BY <1>1, <2>3, <2>4 DEF StandsAt
<1> QED BY <1>2 DEF word

(* What is odd about links, place by place.                                *)
LEMMA NoOddLink ==
  ASSUME NEW S, NEW s \in Seq(S), ~ OddLink(s), NEW i \in 1..Len(s)
  PROVE  /\ i + 2 <= Len(s) /\ s[i] = "[" /\ s[i + 1] = "[" => s[i + 2] \notin {"]", "|"}
         /\ i + 1 <= Len(s) /\ s[i] = "|" => s[i + 1] # "]"
<1>1. Find(s, <<"[", "[", "]">>, 1) = 0 /\ Find(s, <<"[", "[", "|">>, 1) = 0
      /\ Find(s, <<"|", "]">>, 1) = 0
  BY DEF OddLink
<1>2. i \in Nat /\ i >= 1 /\ 1 \in Nat \ {0} /\ i \in Nat \ {0}
  OBVIOUS
<1>3. <<"[", "[", "]">> \in Seq({"[", "]", "|"}) /\ <<"[", "[", "|">> \in Seq({"[", "]", "|"})
      /\ <<"|", "]">> \in Seq({"[", "]", "|"})
  OBVIOUS
<1>4. ~ StandsAt(s, i, <<"[", "[", "]">>)
  BY <1>1, <1>2, <1>3, FoundStands
<1>5. ~ StandsAt(s, i, <<"[", "[", "|">>)
  BY <1>1, <1>2, <1>3, FoundStands
<1>6. ~ StandsAt(s, i, <<"|", "]">>)
  BY <1>1, <1>2, <1>3, FoundStands
<1>7. ~ (i + 2 <= Len(s) /\ s[i] = "[" /\ s[i + 1] = "[" /\ s[i + 2] = "]")
  BY <1>2, <1>4, TripleIs
<1>8. ~ (i + 2 <= Len(s) /\ s[i] = "[" /\ s[i + 1] = "[" /\ s[i + 2] = "|")
  BY <1>2, <1>5, TripleIs
<1>9. ~ (i + 1 <= Len(s) /\ s[i] = "|" /\ s[i + 1] = "]")
  BY <1>2, <1>6, PairIs
<1> QED BY <1>7, <1>8, <1>9

(* But for odd links, StripWikiLink replaces what _WIKI_LINK matches, and  *)
(* by the same.                                                            *)
LEMMA LinkStep ==
  ASSUME NEW S, NEW s \in Seq(S), NEW i \in 1..Len(s), ~ OddLink(s)
  PROVE  LinkSub(s, i) = WikiLink(s, i)
<1> DEFINE n == Len(s)
           close == FirstOf(s, i + 2, {"]"})
           pipe == FirstOf(s, i + 2, {"|", "]"})
           label == IF At(s, pipe) = "|" THEN pipe + 1 ELSE i + 2
           ends == {j \in i..n : IsLink(SubSeq(s, i, j))}
           out == LinkGroup(SubSeq(s, i, Max(ends)))
<1>1. n \in Nat /\ i \in Nat \ {0} /\ i <= n
  OBVIOUS
<1>2. LinkSub(s, i) = Instead(s, i, ends, out)
  BY DEF LinkSub
<1>3. WikiLink(s, i) = IF StartsAt(s, <<"[", "[">>, i) /\ StartsAt(s, <<"]", "]">>, close)
                       THEN Replace(close + 2, SubSeq(s, label, close - 1)) ELSE Copy(s, i)
  BY DEF WikiLink
<1>4. ASSUME NEW j \in i..n
      PROVE  /\ SubSeq(s, i, j) \in Seq(S) /\ Len(SubSeq(s, i, j)) = j - i + 1
             /\ \A k \in 1..j-i+1 : SubSeq(s, i, j)[k] = s[i + k - 1]
  BY PartIs
<1>5. ASSUME NEW j \in i..n
      PROVE  j \in ends <=> /\ j - i + 1 >= 5 /\ s[i] = "[" /\ s[i + 1] = "["
                            /\ s[j - 1] = "]" /\ s[j] = "]"
                            /\ \A k \in (i + 2)..(j - 2) : s[k] # "]"
  <2> DEFINE w == SubSeq(s, i, j)
  <2>1. w \in Seq(S) /\ Len(w) = j - i + 1 /\ \A k \in 1..j-i+1 : w[k] = s[i + k - 1]
    BY <1>4
  <2> HIDE DEF w
  <2>2. j \in ends <=> IsLink(w)
    BY DEF w
  <2>3. CASE j - i + 1 < 5
    BY <2>1, <2>2, <2>3 DEF IsLink
  <2>4. CASE j - i + 1 >= 5
    <3>1. Len(w) - 1 \in Nat \ {0} /\ 1 \in Nat \ {0} /\ Len(w) \in Nat
      BY <1>1, <2>1, <2>4
    <3>2. StartsAt(w, <<"[", "[">>, 1) <=> 1 + 1 <= Len(w) /\ w[1] = "[" /\ w[1 + 1] = "["
      BY <2>1, <3>1, PairIs
    <3>3. StartsAt(w, <<"]", "]">>, Len(w) - 1)
            <=> Len(w) - 1 + 1 <= Len(w) /\ w[Len(w) - 1] = "]" /\ w[Len(w) - 1 + 1] = "]"
      BY <2>1, <3>1, PairIs
    <3>4. w[1] = s[i] /\ w[1 + 1] = s[i + 1] /\ w[Len(w) - 1] = s[j - 1]
          /\ w[Len(w) - 1 + 1] = s[j]
      <4>1. 1 \in 1..j-i+1 /\ 1 + 1 \in 1..j-i+1 /\ Len(w) - 1 \in 1..j-i+1
            /\ Len(w) - 1 + 1 \in 1..j-i+1
        BY <1>1, <2>1, <2>4
      <4>2. i + 1 - 1 = i /\ i + (1 + 1) - 1 = i + 1 /\ i + (Len(w) - 1) - 1 = j - 1
            /\ i + (Len(w) - 1 + 1) - 1 = j
        BY <1>1, <2>1, <2>4
      <4> QED BY <2>1, <4>1, <4>2
    <3>5. (\A k \in 3..(Len(w) - 2) : w[k] # "]") <=> \A k \in (i + 2)..(j - 2) : s[k] # "]"
      <4>1. ASSUME \A k \in 3..(Len(w) - 2) : w[k] # "]", NEW k \in (i + 2)..(j - 2)
            PROVE  s[k] # "]"
        <5>1. k - i + 1 \in 3..(Len(w) - 2) /\ k - i + 1 \in 1..j-i+1
              /\ i + (k - i + 1) - 1 = k
          BY <1>1, <2>1, <2>4
        <5> QED BY <2>1, <4>1, <5>1
      <4>2. ASSUME \A k \in (i + 2)..(j - 2) : s[k] # "]", NEW k \in 3..(Len(w) - 2)
            PROVE  w[k] # "]"
        <5>1. i + k - 1 \in (i + 2)..(j - 2) /\ k \in 1..j-i+1
          BY <1>1, <2>1, <2>4
        <5> QED BY <2>1, <4>2, <5>1
      <4> QED BY <4>1, <4>2
    <3>6. StartsAt(w, <<"[", "[">>, 1) <=> s[i] = "[" /\ s[i + 1] = "["
      BY <2>1, <2>4, <3>1, <3>2, <3>4
    <3>7. StartsAt(w, <<"]", "]">>, Len(w) - 1) <=> s[j - 1] = "]" /\ s[j] = "]"
      BY <2>1, <2>4, <3>1, <3>3, <3>4
    <3>8. IsLink(w) <=> /\ StartsAt(w, <<"[", "[">>, 1) /\ StartsAt(w, <<"]", "]">>, Len(w) - 1)
                        /\ \A k \in 3..(Len(w) - 2) : w[k] # "]"
      BY <2>1, <2>4 DEF IsLink
    <3> QED BY <2>2, <2>4, <3>5, <3>6, <3>7, <3>8
  <2> QED BY <1>1, <2>3, <2>4
<1>6. StartsAt(s, <<"[", "[">>, i) <=> i + 1 <= n /\ s[i] = "[" /\ s[i + 1] = "["
  BY <1>1, PairIs
<1>7. CASE ~ StartsAt(s, <<"[", "[">>, i)
  <2>1. ends = {}
    <3>1. ASSUME NEW j \in i..n PROVE j \notin ends
      BY <1>1, <1>5, <1>6, <1>7
    <3> QED BY <3>1
  <2> HIDE DEF ends, label
  <2> QED BY <1>2, <1>3, <1>7, <2>1 DEF Instead
<1>8. CASE StartsAt(s, <<"[", "[">>, i)
  <2>1. i + 1 <= n /\ s[i] = "[" /\ s[i + 1] = "[" /\ i + 2 \in 1..n+1
    BY <1>1, <1>6, <1>8
  <2>2. /\ close \in (i + 2)..(n + 1)
        /\ \A j \in (i + 2)..(close - 1) : j \in 1..n /\ s[j] \notin {"]"}
        /\ close \in 1..n => s[close] \in {"]"}
    BY <2>1, FirstOfIs
  <2>3. /\ pipe \in (i + 2)..(n + 1)
        /\ \A j \in (i + 2)..(pipe - 1) : j \in 1..n /\ s[j] \notin {"|", "]"}
        /\ pipe \in 1..n => s[pipe] \in {"|", "]"}
    BY <2>1, FirstOfIs
  <2>4. At(s, pipe) = "|" <=> pipe <= n /\ s[pipe] = "|"
    BY <1>1, <2>3 DEF At
  <2> HIDE DEF close, pipe, ends
  <2>5. close \in Nat \ {0}
    BY <1>1, <2>2
  <2>6. StartsAt(s, <<"]", "]">>, close) <=> close + 1 <= n /\ s[close + 1] = "]"
    <3>1. StartsAt(s, <<"]", "]">>, close)
            <=> close + 1 <= n /\ s[close] = "]" /\ s[close + 1] = "]"
      BY <2>5, PairIs
    <3> QED BY <1>1, <2>2, <3>1
  <2>7. ASSUME NEW j \in ends
        PROVE  StartsAt(s, <<"]", "]">>, close) /\ j = close + 1
    <3>1. j \in i..n
      BY DEF ends
    <3>2. /\ j - i + 1 >= 5 /\ s[j - 1] = "]" /\ s[j] = "]"
          /\ \A k \in (i + 2)..(j - 2) : s[k] # "]"
      BY <1>5, <3>1
    <3>3. close = j - 1
      <4>1. ~ (close < j - 1)
        <5>1. close < j - 1 => close \in (i + 2)..(j - 2) /\ close \in 1..n
          BY <1>1, <2>2, <3>1
        <5> QED BY <2>2, <3>2, <5>1
      <4>2. ~ (close > j - 1)
        <5>1. close > j - 1 => j - 1 \in (i + 2)..(close - 1)
          BY <1>1, <2>2, <3>1, <3>2
        <5> QED BY <2>2, <3>2, <5>1
      <4> QED BY <1>1, <2>2, <3>1, <4>1, <4>2
    <3> QED BY <1>1, <2>6, <3>1, <3>2, <3>3
  <2>8. CASE ~ StartsAt(s, <<"]", "]">>, close)
    <3>1. ends = {}
      BY <2>7, <2>8
    <3> QED BY <1>2, <1>3, <2>8, <3>1 DEF Instead, ends
  <2>9. CASE StartsAt(s, <<"]", "]">>, close)
    <3> DEFINE j == close + 1
    <3>1. j <= n /\ s[close] = "]" /\ s[j] = "]" /\ close \in 1..n
      BY <1>1, <2>2, <2>6, <2>9
    <3>2. close # i + 2
      BY <1>1, <2>1, <3>1, NoOddLink
    <3>3. j \in i..n /\ j - i + 1 >= 5 /\ j - 1 = close /\ j - 2 = close - 1
      BY <1>1, <2>2, <3>1, <3>2
    <3>4. j \in ends
      <4>1. \A k \in (i + 2)..(j - 2) : s[k] # "]"
        BY <2>2, <3>3
      <4> HIDE DEF j
      <4> QED BY <1>5, <2>1, <3>1, <3>3, <4>1
    <3>5. Max(ends) = j
      <4>1. ends \in SUBSET Nat /\ \A k \in ends : k <= j
        BY <1>1, <2>7 DEF ends
      <4> QED BY <3>4, <4>1, LongestIs
    <3> DEFINE w == SubSeq(s, i, j)
               m == j - i + 1
               bar == FirstOf(w, 3, {"|"})
    <3>6. w \in Seq(S) /\ Len(w) = m /\ \A k \in 1..m : w[k] = s[i + k - 1]
      BY <1>4, <3>3
    <3>7. m \in Nat /\ m >= 5 /\ 3 \in 1..m+1 /\ i + m - 1 = j
      BY <1>1, <3>3
    <3>8. LinkGroup(w) = SubSeq(w, IF bar \in 4..(m - 3) THEN bar + 1 ELSE 3, m - 2)
      BY <3>6 DEF LinkGroup
    <3>9. /\ bar \in 3..m+1
          /\ \A k \in 3..bar-1 : k \in 1..m /\ w[k] \notin {"|"}
          /\ bar \in 1..m => w[bar] \in {"|"}
      <4> HIDE DEF w, m
      <4> QED BY <3>6, <3>7, FirstOfIs
    <3> HIDE DEF w, bar
    <3>10. LinkSub(s, i) = Replace(close + 2, out)
      <4>1. Max(ends) + 1 = close + 2 /\ ends # {}
        BY <2>5, <3>4, <3>5
      <4> HIDE DEF out
      <4> QED BY <1>2, <4>1 DEF Instead
    <3>11. WikiLink(s, i)
             = Replace(close + 2,
                       SubSeq(s, IF At(s, pipe) = "|" THEN pipe + 1 ELSE i + 2, close - 1))
      BY <1>3, <1>8, <2>9
    <3>12. CASE At(s, pipe) = "|"
      <4>1. pipe <= n /\ s[pipe] = "|"
        BY <2>4, <3>12
      <4>2. pipe < close
        BY <1>1, <2>2, <2>3, <3>1, <4>1
      <4>3. pipe > i + 2 /\ pipe + 1 # close
        <5>1. s[i + 2] \notin {"]", "|"}
          BY <1>1, <2>1, <2>2, <3>1, NoOddLink
        <5>2. pipe \in 1..n /\ (s[pipe] = "|" /\ pipe + 1 <= n => s[pipe + 1] # "]")
          BY <1>1, <2>3, <4>1, NoOddLink
        <5> QED BY <1>1, <2>3, <3>1, <4>1, <4>2, <5>1, <5>2
      <4>4. bar = pipe - i + 1
        <5> DEFINE p == pipe - i + 1
        <5>1. p \in 3..m+1 /\ p \in 1..m /\ i + p - 1 = pipe
          BY <1>1, <2>3, <3>3, <4>2
        <5>2. w[p] = "|"
          BY <3>6, <4>1, <5>1
        <5>3. \A k \in 3..p-1 : w[k] # "|"
          <6>1. ASSUME NEW k \in 3..p-1
                PROVE  i + k - 1 \in (i + 2)..(pipe - 1) /\ k \in 1..m
            BY <1>1, <2>3, <2>5, <5>1
          <6> QED BY <2>3, <3>6, <6>1
        <5> HIDE DEF p, m
        <5> QED BY <3>7, <3>9, <5>1, <5>2, <5>3
      <4>5. bar \in 4..(m - 3) /\ bar + 1 \in 1..m /\ m - 2 \in 1..m
            /\ i + (bar + 1) - 1 = pipe + 1 /\ i + (m - 2) - 1 = close - 1
        BY <1>1, <2>3, <2>5, <3>3, <4>2, <4>3, <4>4
      <4>6. SubSeq(w, bar + 1, m - 2) = SubSeq(s, pipe + 1, close - 1)
        <5>1. i \in 1..Len(s) /\ j \in 1..Len(s) /\ s \in Seq(S)
          BY <1>1, <3>3
        <5>2. SubSeq(SubSeq(s, i, j), bar + 1, m - 2)
                = SubSeq(s, i + (bar + 1) - 1, i + (m - 2) - 1)
          <6> HIDE DEF j
          <6> QED BY <4>5, <5>1, SubSeqOfSubSeq DEF m
        <5> QED BY <4>5, <5>2 DEF w
      <4>7. out = SubSeq(s, pipe + 1, close - 1)
        BY <3>5, <3>8, <4>5, <4>6 DEF w
      <4> QED BY <3>12, <3>10, <3>11, <4>7
    <3>13. CASE At(s, pipe) # "|"
      <4>1. pipe = close
        BY <1>1, <2>2, <2>3, <2>4, <3>1, <3>13
      <4>2. bar \notin 4..(m - 3)
        <5>1. ASSUME bar \in 4..(m - 3) PROVE FALSE
          <6>1. w[bar] = "|" /\ w[bar] = s[i + bar - 1]
            BY <3>6, <3>7, <3>9, <5>1
          <6>2. i + bar - 1 \in (i + 2)..(pipe - 1)
            BY <1>1, <2>2, <3>3, <4>1, <5>1
          <6> QED BY <2>3, <6>1, <6>2
        <5> QED BY <5>1
      <4>3. 3 \in 1..m /\ m - 2 \in 1..m /\ i + 3 - 1 = i + 2 /\ i + (m - 2) - 1 = close - 1
        BY <1>1, <3>3
      <4>4. SubSeq(w, 3, m - 2) = SubSeq(s, i + 2, close - 1)
        <5>1. i \in 1..Len(s) /\ j \in 1..Len(s) /\ s \in Seq(S)
          BY <1>1, <3>3
        <5>2. SubSeq(SubSeq(s, i, j), 3, m - 2) = SubSeq(s, i + 3 - 1, i + (m - 2) - 1)
          <6> HIDE DEF j
          <6> QED BY <4>3, <5>1, SubSeqOfSubSeq DEF m
        <5> QED BY <4>3, <5>2 DEF w
      <4>5. out = SubSeq(s, i + 2, close - 1)
        BY <3>5, <3>8, <4>2, <4>4 DEF w
      <4> QED BY <3>13, <3>10, <3>11, <4>5
    <3> QED BY <3>12, <3>13
  <2> QED BY <2>8, <2>9
<1> QED BY <1>7, <1>8

(* What is odd about references, place by place.                           *)
LEMMA NoOddRef ==
  ASSUME NEW S, NEW s \in Seq(S), "end" \notin S, ~ OddRef(s), NEW i \in 1..Len(s),
         i + 2 <= Len(s), s[i] = "<", s[i + 1] = "ref"
  PROVE  s[i + 2] \in SpaceLike \cup {">", "/"} <=> s[i + 2] \notin RegexWord
<1>1. StartsAt(s, <<"<", "ref">>, i)
  <2>1. i \in Nat \ {0} /\ i + 1 <= Len(s)
    OBVIOUS
  <2> QED BY <2>1, PairIs
<1>2. At(s, i + 2) = s[i + 2] /\ s[i + 2] \in S
  BY DEF At
<1>3. ~ (At(s, i + 2) \notin SpaceLike \cup {">", "/", "end"} \cup RegexWord)
  BY <1>1 DEF OddRef
<1>4. \A c \in RegexWord : c \notin SpaceLike \cup {">", "/"}
  BY DEF SpaceLike, Space, RegexWord, RegexDigit
<1> QED BY <1>2, <1>3, <1>4

(* The end of a reference stands in a part of a text where it stands in it.*)
LEMMA TagInPart ==
  ASSUME NEW S, NEW s \in Seq(S), NEW i \in 1..Len(s), NEW j \in i..Len(s),
         NEW W, NEW word \in Seq(W), NEW p \in Nat \ {0}
  PROVE  StandsAt(SubSeq(s, i, j), p, word)
           <=> StandsAt(s, i + p - 1, word) /\ i + p - 1 + Len(word) <= j + 1
<1> DEFINE w == SubSeq(s, i, j)
           m == j - i + 1
<1>1. Len(word) \in Nat /\ Len(s) \in Nat /\ i + p - 1 \in Nat \ {0} /\ m \in Nat
  OBVIOUS
<1>2. Len(w) = m /\ \A k \in 1..m : w[k] = s[i + k - 1]
  BY PartIs
<1> HIDE DEF w
<1>3. p + Len(word) <= m + 1 <=> i + p - 1 + Len(word) <= j + 1
  BY <1>1
<1>4. i + p - 1 + Len(word) <= j + 1 => i + p - 1 + Len(word) <= Len(s) + 1
  BY <1>1
<1>5. ASSUME p + Len(word) <= m + 1, NEW k \in 1..Len(word)
      PROVE  w[p - 1 + k] = s[i + p - 1 - 1 + k]
  <2>1. p - 1 + k \in 1..m /\ i + (p - 1 + k) - 1 = i + p - 1 - 1 + k
    BY <1>1, <1>5
  <2> QED BY <1>2, <2>1
<1> HIDE DEF m
<1>6. StandsAt(w, p, word) <=> /\ p + Len(word) <= m + 1
                               /\ \A k \in 1..Len(word) : w[p - 1 + k] = word[k]
  BY <1>2 DEF StandsAt
<1>7. StandsAt(s, i + p - 1, word)
        <=> /\ i + p - 1 + Len(word) <= Len(s) + 1
            /\ \A k \in 1..Len(word) : s[i + p - 1 - 1 + k] = word[k]
  <2> DEFINE q == i + p - 1
  <2>1. q \in Nat \ {0}
    BY <1>1
  <2> HIDE DEF q
  <2>2. StandsAt(s, q, word)
          <=> q + Len(word) <= Len(s) + 1 /\ \A k \in 1..Len(word) : s[q - 1 + k] = word[k]
    BY <2>1 DEF StandsAt
  <2> QED BY <2>2 DEF q
<1>8. CASE p + Len(word) <= m + 1
  <2>1. (\A k \in 1..Len(word) : w[p - 1 + k] = word[k])
          <=> \A k \in 1..Len(word) : s[i + p - 1 - 1 + k] = word[k]
    BY <1>5, <1>8
  <2> QED BY <1>3, <1>4, <1>6, <1>7, <1>8, <2>1 DEF w
<1>9. CASE ~ (p + Len(word) <= m + 1)
  BY <1>3, <1>6, <1>9 DEF w
<1> QED BY <1>8, <1>9

(* [digits].                                                               *)
LEMMA NumberEnds ==
  ASSUME NEW S, NEW s \in Seq(S), "end" \notin S, NEW i \in 1..Len(s), NEW j \in i..Len(s)
  PROVE  LET w == SubSeq(s, i, j)
             number == PastAll(s, i + 1, {"1"})
         IN  AsciiNumber(w) <=> s[i] = "[" /\ number > i + 1 /\ At(s, number) = "]" /\ j = number
<1> DEFINE n == Len(s)
           w == SubSeq(s, i, j)
           m == j - i + 1
           number == PastAll(s, i + 1, {"1"})
<1>1. n \in Nat /\ i \in Nat \ {0} /\ i + 1 \in 1..n+1 /\ m \in Nat \ {0}
  OBVIOUS
<1>2. /\ number \in (i + 1)..(n + 1)
      /\ \A k \in (i + 1)..(number - 1) : k \in 1..n /\ s[k] \in {"1"}
  BY <1>1, PastAllIs
<1>3. Len(w) = m /\ \A k \in 1..m : w[k] = s[i + k - 1] /\ At(w, k) = s[i + k - 1]
  BY PartIs
<1> HIDE DEF w
<1>4. w[1] = s[i] /\ w[Len(w)] = s[j]
  <2>1. 1 \in 1..m /\ m \in 1..m /\ i + 1 - 1 = i /\ i + m - 1 = j
    BY <1>1
  <2> QED BY <1>3, <2>1
<1>5. AllIn(w, 2, Len(w) - 1, {"1"}) <=> \A k \in (i + 1)..(j - 1) : s[k] = "1"
  <2>1. ASSUME AllIn(w, 2, Len(w) - 1, {"1"}), NEW k \in (i + 1)..(j - 1)
        PROVE  s[k] = "1"
    <3>1. k - i + 1 \in 2..(m - 1) /\ k - i + 1 \in 1..m /\ i + (k - i + 1) - 1 = k
      BY <1>1
    <3> QED BY <1>3, <2>1, <3>1 DEF AllIn
  <2>2. ASSUME \A k \in (i + 1)..(j - 1) : s[k] = "1"
        PROVE  AllIn(w, 2, Len(w) - 1, {"1"})
    <3>1. ASSUME NEW k \in 2..(m - 1)
          PROVE  At(w, k) = "1"
      <4>1. i + k - 1 \in (i + 1)..(j - 1) /\ k \in 1..m
        BY <1>1
      <4> QED BY <1>3, <2>2, <4>1
    <3> HIDE DEF m
    <3> QED BY <1>3, <3>1 DEF AllIn
  <2> QED BY <2>1, <2>2
<1>6. ASSUME m >= 3, s[j] = "]", \A k \in (i + 1)..(j - 1) : s[k] = "1"
      PROVE  number = j /\ number > i + 1 /\ At(s, number) = "]"
  <2>1. j \in (i + 1)..(n + 1) /\ s[j] \notin {"1"} /\ j > i + 1
    BY <1>1, <1>6
  <2>2. number = j
    BY <1>1, <1>6, <2>1, PastAllAt
  <2> HIDE DEF number
  <2> QED BY <1>1, <1>6, <2>1, <2>2 DEF At
<1>7. ASSUME number > i + 1, At(s, number) = "]", j = number
      PROVE  m >= 3 /\ s[j] = "]" /\ \A k \in (i + 1)..(j - 1) : s[k] = "1"
  <2> HIDE DEF number
  <2>1. s[j] = "]"
    BY <1>1, <1>7 DEF At
  <2> QED BY <1>1, <1>2, <1>7, <2>1
<1> HIDE DEF number, m
<1>8. Len(w) >= 3 <=> m >= 3
  BY <1>3
<1>9. AsciiNumber(w) <=> s[i] = "[" /\ number > i + 1 /\ At(s, number) = "]" /\ j = number
  BY <1>4, <1>5, <1>6, <1>7, <1>8 DEF AsciiNumber
<1> QED BY <1>9 DEF w, number

(* <ref ..> .. </ref>.                                                     *)
LEMMA TaggedEnds ==
  ASSUME NEW S, NEW s \in Seq(S), "end" \notin S, ~ OddRef(s),
         NEW i \in 1..Len(s), NEW j \in i..Len(s), StartsAt(s, <<"<", "ref">>, i)
  PROVE  LET w == SubSeq(s, i, j)
             inside == FirstOf(w, 3, {">"})
             open == FirstOf(s, i + 2, {">"})
             close == Find(s, CloseTag, open + 1)
         IN  (/\ StartsAt(w, <<"<", "ref">>, 1) /\ At(w, 3) \notin RegexWord
              /\ Find(w, CloseTag, inside + 1) = Len(w) - 3 /\ Len(w) >= 7)
             <=> (/\ At(s, i + 2) \in SpaceLike \cup {">", "/"}
                  /\ close # 0 /\ j = close + 3)
<1> DEFINE n == Len(s)
           w == SubSeq(s, i, j)
           m == j - i + 1
           inside == FirstOf(w, 3, {">"})
           open == FirstOf(s, i + 2, {">"})
           close == Find(s, CloseTag, open + 1)
           Odd == RegexWord
           Good == SpaceLike \cup {">", "/"}
<1>1. n \in Nat /\ i \in Nat \ {0} /\ m \in Nat \ {0} /\ j \in Nat \ {0}
  OBVIOUS
<1>2. i + 1 <= n /\ s[i] = "<" /\ s[i + 1] = "ref"
  BY <1>1, PairIs
<1>3. /\ open \in (i + 2)..(n + 1)
      /\ \A k \in (i + 2)..(open - 1) : k \in 1..n /\ s[k] \notin {">"}
      /\ open \in 1..n => s[open] \in {">"}
  <2>1. i + 2 \in 1..n+1
    BY <1>1, <1>2
  <2> QED BY <2>1, FirstOfIs
<1> HIDE DEF open
<1>4. CloseTag \in Seq({"<", "/", "ref", ">"}) /\ Len(CloseTag) = 4
  BY DEF CloseTag
<1>5. /\ close = 0 => \A k \in Nat : k >= open + 1 => ~ StandsAt(s, k, CloseTag)
      /\ close # 0 => /\ close \in Nat /\ close >= open + 1 /\ StandsAt(s, close, CloseTag)
                      /\ \A k \in (open + 1)..(close - 1) : ~ StandsAt(s, k, CloseTag)
  <2>1. open + 1 \in Nat \ {0}
    BY <1>1, <1>3
  <2> QED BY <1>4, <2>1, FoundStands
<1> HIDE DEF close
<1>6. w \in Seq(S) /\ Len(w) = m /\ \A k \in 1..m : w[k] = s[i + k - 1] /\ At(w, k) = s[i + k - 1]
  BY PartIs
<1>7. \A p \in Nat \ {0} : StandsAt(w, p, CloseTag)
                             <=> StandsAt(s, i + p - 1, CloseTag) /\ i + p - 1 + 4 <= j + 1
  BY <1>4, TagInPart
<1> HIDE DEF w
<1>8. m >= 7 => /\ StartsAt(w, <<"<", "ref">>, 1) /\ i + 2 <= n
                /\ At(w, 3) = s[i + 2] /\ At(s, i + 2) = s[i + 2]
                /\ (s[i + 2] \in Good <=> s[i + 2] \notin Odd)
  <2> SUFFICES ASSUME m >= 7
               PROVE  /\ StartsAt(w, <<"<", "ref">>, 1) /\ i + 2 <= n
                      /\ At(w, 3) = s[i + 2] /\ At(s, i + 2) = s[i + 2]
                      /\ (s[i + 2] \in Good <=> s[i + 2] \notin Odd)
    OBVIOUS
  <2>1. 1 \in 1..m /\ 1 + 1 \in 1..m /\ 3 \in 1..m /\ i + 2 <= n
        /\ i + 1 - 1 = i /\ i + (1 + 1) - 1 = i + 1 /\ i + 3 - 1 = i + 2
    BY <1>1
  <2>2. w[1] = "<" /\ w[1 + 1] = "ref" /\ At(w, 3) = s[i + 2]
    BY <1>2, <1>6, <2>1
  <2>3. StartsAt(w, <<"<", "ref">>, 1)
    <3>1. 1 \in Nat \ {0} /\ 1 + 1 <= Len(w)
      BY <1>6, <2>1
    <3> QED BY <1>6, <2>2, <3>1, PairIs
  <2>4. s[i + 2] \in Good <=> s[i + 2] \notin Odd
    BY <1>2, <2>1, NoOddRef
  <2>5. At(s, i + 2) = s[i + 2]
    BY <1>1, <2>1 DEF At
  <2> QED BY <2>1, <2>2, <2>3, <2>4, <2>5
<1>9. m >= 7 => /\ inside \in 3..m+1
                /\ \A k \in 3..inside-1 : k \in 1..m /\ w[k] \notin {">"}
                /\ inside \in 1..m => w[inside] \in {">"}
  <2> SUFFICES ASSUME m >= 7
               PROVE  /\ inside \in 3..m+1
                      /\ \A k \in 3..inside-1 : k \in 1..m /\ w[k] \notin {">"}
                      /\ inside \in 1..m => w[inside] \in {">"}
    OBVIOUS
  <2>1. 3 \in 1..Len(w)+1
    BY <1>1, <1>6
  <2> QED BY <1>6, <2>1, FirstOfIs
<1> HIDE DEF inside
<1>10. ASSUME m >= 7, Find(w, CloseTag, inside + 1) = m - 3
       PROVE  close # 0 /\ j = close + 3
  <2>1. /\ m - 3 >= inside + 1 /\ StandsAt(w, m - 3, CloseTag)
        /\ \A k \in (inside + 1)..(m - 3 - 1) : ~ StandsAt(w, k, CloseTag)
    <3>1. inside + 1 \in Nat \ {0} /\ m - 3 # 0
      BY <1>1, <1>9, <1>10
    <3> QED BY <1>4, <1>6, <1>10, <3>1, FoundStands
  <2>2. inside \in 3..m /\ w[inside] = ">"
    BY <1>1, <1>9, <1>10, <2>1
  <2>3. open = i + inside - 1
    <3>1. s[i + inside - 1] = ">" /\ i + inside - 1 \in (i + 2)..n
      <4>1. inside \in 1..m /\ i + inside - 1 \in (i + 2)..n
        BY <1>1, <2>2
      <4> QED BY <1>6, <2>2, <4>1
    <3>2. ~ (open > i + inside - 1)
      BY <1>1, <1>3, <3>1
    <3>3. ~ (open < i + inside - 1)
      <4>1. ASSUME open < i + inside - 1
            PROVE  open - i + 1 \in 3..inside-1 /\ open - i + 1 \in 1..m
                   /\ i + (open - i + 1) - 1 = open /\ open \in 1..n
        BY <1>1, <1>3, <2>2, <3>1, <4>1
      <4> QED BY <1>3, <1>6, <1>9, <1>10, <4>1
    <3> QED BY <1>1, <1>3, <2>2, <3>2, <3>3
  <2>4. StandsAt(s, j - 3, CloseTag) /\ j - 3 >= open + 1 /\ j - 3 \in Nat
    <3>1. m - 3 \in Nat \ {0} /\ i + (m - 3) - 1 = j - 3 /\ j - 3 >= open + 1 /\ j - 3 \in Nat
      BY <1>1, <1>10, <2>1, <2>2, <2>3
    <3> QED BY <1>7, <2>1, <3>1
  <2>5. close # 0
    BY <1>5, <2>4
  <2>6. close \in Nat /\ close >= open + 1 /\ StandsAt(s, close, CloseTag)
        /\ \A k \in (open + 1)..(close - 1) : ~ StandsAt(s, k, CloseTag)
    BY <1>5, <2>5
  <2>7. ~ (close > j - 3)
    BY <1>3, <2>4, <2>6
  <2>8. ~ (close < j - 3)
    <3> SUFFICES ASSUME close < j - 3 PROVE FALSE
      OBVIOUS
    <3> DEFINE k == close - i + 1
    <3>1. k \in (inside + 1)..(m - 3 - 1) /\ k \in Nat \ {0} /\ i + k - 1 = close
          /\ i + k - 1 + 4 <= j + 1
      BY <1>1, <1>3, <2>2, <2>3, <2>6
    <3> HIDE DEF k
    <3>2. StandsAt(w, k, CloseTag)
      BY <1>7, <2>6, <3>1
    <3> QED BY <2>1, <3>1, <3>2
  <2> QED BY <1>1, <2>5, <2>6, <2>7, <2>8
<1>11. ASSUME close # 0, j = close + 3
       PROVE  m >= 7 /\ Find(w, CloseTag, inside + 1) = m - 3
  <2>1. close \in Nat /\ close >= open + 1 /\ StandsAt(s, close, CloseTag)
        /\ \A k \in (open + 1)..(close - 1) : ~ StandsAt(s, k, CloseTag)
    BY <1>5, <1>11
  <2>2. m >= 7
    BY <1>1, <1>3, <1>11, <2>1
  <2>3. open \in 1..n /\ s[open] = ">"
    BY <1>1, <1>3, <1>11, <2>1
  <2>4. inside = open - i + 1
    <3> DEFINE p == open - i + 1
    <3>1. p \in 3..m /\ p \in 1..m /\ i + p - 1 = open
      BY <1>1, <1>3, <1>11, <2>1
    <3>2. w[p] = ">"
      BY <1>6, <2>3, <3>1
    <3>3. ~ (inside > p)
      <4>1. inside > p => p \in 3..inside-1
        BY <1>1, <1>9, <2>2, <3>1
      <4> HIDE DEF p
      <4> QED BY <1>9, <2>2, <3>2, <4>1
    <3>4. ~ (inside < p)
      <4> SUFFICES ASSUME inside < p PROVE FALSE
        OBVIOUS
      <4>1. i + inside - 1 \in (i + 2)..(open - 1) /\ inside \in 1..m
        BY <1>1, <1>3, <1>9, <2>2, <3>1
      <4> QED BY <1>3, <1>6, <1>9, <2>2, <4>1
    <3> QED BY <1>9, <2>2, <3>1, <3>3, <3>4
  <2>5. StandsAt(w, m - 3, CloseTag) /\ inside + 1 <= m - 3
    <3>1. m - 3 \in Nat \ {0} /\ i + (m - 3) - 1 = close /\ close + 4 <= j + 1
          /\ inside + 1 <= m - 3
      BY <1>1, <1>3, <1>11, <2>1, <2>2, <2>4
    <3> QED BY <1>7, <2>1, <3>1
  <2>6. ASSUME NEW k \in (inside + 1)..(m - 3 - 1)
        PROVE  ~ StandsAt(w, k, CloseTag)
    <3>1. k \in Nat \ {0} /\ i + k - 1 \in (open + 1)..(close - 1)
      BY <1>1, <1>3, <1>11, <2>1, <2>4
    <3> QED BY <1>7, <2>1, <3>1
  <2>7. inside + 1 \in Nat \ {0}
    BY <1>1, <1>9, <2>2
  <2>8. Find(w, CloseTag, inside + 1) = m - 3
    <3> HIDE DEF m
    <3> QED BY <1>4, <1>6, <2>5, <2>6, <2>7, FindIs
  <2> QED BY <2>2, <2>8
<1> HIDE DEF m, Good, Odd
<1>12. (/\ StartsAt(w, <<"<", "ref">>, 1) /\ At(w, 3) \notin Odd
        /\ Find(w, CloseTag, inside + 1) = Len(w) - 3 /\ Len(w) >= 7)
       <=> (At(s, i + 2) \in Good /\ close # 0 /\ j = close + 3)
  <2>1. Len(w) = m
    BY <1>6
  <2>2. ASSUME At(w, 3) \notin Odd, Find(w, CloseTag, inside + 1) = Len(w) - 3, Len(w) >= 7
        PROVE  At(s, i + 2) \in Good /\ close # 0 /\ j = close + 3
    <3>1. m >= 7 /\ Find(w, CloseTag, inside + 1) = m - 3
      BY <2>1, <2>2
    <3> QED BY <1>8, <1>10, <2>2, <3>1
  <2>3. ASSUME At(s, i + 2) \in Good, close # 0, j = close + 3
        PROVE  /\ StartsAt(w, <<"<", "ref">>, 1) /\ At(w, 3) \notin Odd
               /\ Find(w, CloseTag, inside + 1) = Len(w) - 3 /\ Len(w) >= 7
    <3>1. m >= 7 /\ Find(w, CloseTag, inside + 1) = m - 3
      BY <1>11, <2>3
    <3> QED BY <1>8, <2>1, <2>3, <3>1
  <2> QED BY <2>2, <2>3
<1> QED BY <1>12 DEF w, inside, open, close, Odd, Good

(* But for odd references, StripWikiRef drops what _WIKI_REF matches.      *)
LEMMA RefStep ==
  ASSUME NEW S, NEW s \in Seq(S), "end" \notin S, NEW i \in 1..Len(s),
         ~ OddNumber(s), ~ OddRef(s)
  PROVE  RefSub(s, i) = WikiRef(s, i)
<1> DEFINE n == Len(s)
           ends == {j \in i..n : IsRef(SubSeq(s, i, j))}
           number == PastAll(s, i + 1, {"1"})
           open == FirstOf(s, i + 2, {">"})
           close == Find(s, CloseTag, open + 1)
           Numbered == s[i] = "[" /\ number > i + 1 /\ At(s, number) = "]"
           Tagged == /\ StartsAt(s, <<"<", "ref">>, i)
                     /\ At(s, i + 2) \in SpaceLike \cup {">", "/"}
                     /\ close # 0
<1>1. n \in Nat /\ i \in Nat \ {0} /\ i + 1 \in 1..n+1
  OBVIOUS
<1>2. RefSub(s, i) = Instead(s, i, ends, <<>>)
  BY DEF RefSub
<1>3. WikiRef(s, i) = CASE Numbered -> Replace(number + 1, <<>>)
                        [] Tagged -> Replace(close + 4, <<>>)
                        [] OTHER -> Copy(s, i)
  BY DEF WikiRef
<1>4. StartsAt(s, <<"<", "ref">>, i) <=> i + 1 <= n /\ s[i] = "<" /\ s[i + 1] = "ref"
  BY <1>1, PairIs
<1>5. ASSUME NEW j \in i..n
      PROVE  j \in ends <=> (Numbered /\ j = number) \/ (Tagged /\ j = close + 3)
  <2> DEFINE w == SubSeq(s, i, j)
             A == IsNumber(w)
             inside == FirstOf(w, 3, {">"})
             B == /\ StartsAt(w, <<"<", "ref">>, 1) /\ At(w, 3) \notin RegexWord
                  /\ Find(w, CloseTag, inside + 1) = Len(w) - 3 /\ Len(w) >= 7
  <2>1. j \in ends <=> A \/ B
    BY DEF IsRef
  <2>2. A <=> Numbered /\ j = number
    <3>1. AsciiNumber(w) <=> Numbered /\ j = number
      BY NumberEnds
    <3>2. A <=> AsciiNumber(w)
      BY NoOddMark
    <3> QED BY <3>1, <3>2
  <2>3. StartsAt(s, <<"<", "ref">>, i) => (B <=> Tagged /\ j = close + 3)
    <3>1. StartsAt(s, <<"<", "ref">>, i) =>
            (B <=> /\ At(s, i + 2) \in SpaceLike \cup {">", "/"}
                   /\ close # 0 /\ j = close + 3)
      BY TaggedEnds
    <3> HIDE DEF B, close
    <3> QED BY <3>1
  <2>4. B => StartsAt(s, <<"<", "ref">>, i)
    <3> SUFFICES ASSUME B PROVE StartsAt(s, <<"<", "ref">>, i)
      OBVIOUS
    <3>1. w \in Seq(S) /\ Len(w) = j - i + 1 /\ \A k \in 1..j-i+1 : w[k] = s[i + k - 1]
      BY PartIs
    <3>2. StartsAt(w, <<"<", "ref">>, 1) /\ Len(w) >= 7
      OBVIOUS
    <3> HIDE DEF w
    <3>3. w[1] = "<" /\ w[1 + 1] = "ref"
      <4>1. 1 \in Nat \ {0}
        OBVIOUS
      <4> QED BY <3>1, <3>2, <4>1, PairIs
    <3>4. 1 \in 1..j-i+1 /\ 1 + 1 \in 1..j-i+1 /\ i + 1 - 1 = i /\ i + (1 + 1) - 1 = i + 1
          /\ i + 1 <= n
      BY <1>1, <3>1, <3>2
    <3> QED BY <1>4, <3>1, <3>3, <3>4
  <2> HIDE DEF A, B, Numbered, Tagged, number, close, ends
  <2>5. Tagged => StartsAt(s, <<"<", "ref">>, i)
    BY DEF Tagged
  <2> QED BY <2>1, <2>2, <2>3, <2>4, <2>5
<1>6. Numbered => number \in i..n
  <2>1. number \in (i + 1)..(n + 1)
    BY <1>1, PastAllIs
  <2>2. number = n + 1 => At(s, number) = "end"
    BY <1>1 DEF At
  <2> HIDE DEF number
  <2> QED BY <1>1, <2>1, <2>2
<1>7. Tagged => close \in Nat /\ close + 3 \in i..n
  <2> SUFFICES ASSUME Tagged PROVE close \in Nat /\ close + 3 \in i..n
    OBVIOUS
  <2>1. i + 2 \in 1..n+1
    BY <1>1, <1>4
  <2>2. open \in (i + 2)..(n + 1)
    BY <2>1, FirstOfIs
  <2>3. CloseTag \in Seq({"<", "/", "ref", ">"}) /\ Len(CloseTag) = 4
    BY DEF CloseTag
  <2>4. open + 1 \in Nat \ {0}
    BY <1>1, <2>2
  <2> HIDE DEF open
  <2>5. close \in Nat /\ close >= open + 1 /\ StandsAt(s, close, CloseTag)
    BY <2>3, <2>4, FoundStands
  <2> HIDE DEF close
  <2>6. close + 4 <= n + 1
    BY <2>3, <2>5 DEF StandsAt
  <2> QED BY <1>1, <2>2, <2>5, <2>6
<1>8. ~ (Numbered /\ Tagged)
  BY <1>4
<1> HIDE DEF ends, number, close, Tagged, Numbered
<1>9. CASE Numbered
  <2>1. ends = {number} /\ number \in Nat
    BY <1>1, <1>5, <1>6, <1>8, <1>9 DEF ends
  <2>2. Max(ends) = number /\ ends # {}
    BY <2>1, LongestIs
  <2> QED BY <1>2, <1>3, <1>8, <1>9, <2>2 DEF Instead
<1>10. CASE Tagged
  <2>1. ends = {close + 3} /\ close + 3 \in Nat
    BY <1>1, <1>5, <1>7, <1>8, <1>10 DEF ends
  <2>2. Max(ends) = close + 3 /\ ends # {}
    BY <2>1, LongestIs
  <2>3. Max(ends) + 1 = close + 4
    BY <1>7, <1>10, <2>2
  <2> QED BY <1>2, <1>3, <1>8, <1>10, <2>2, <2>3 DEF Instead
<1>11. CASE ~ Numbered /\ ~ Tagged
  <2>1. ends = {}
    BY <1>5, <1>11 DEF ends
  <2> QED BY <1>2, <1>3, <1>11, <2>1 DEF Instead
<1> QED BY <1>9, <1>10, <1>11

--------------------------------------------------------------------------------
(* All loops come to an end, and leave texts over the same symbols.        *)

(* The steps of the loops go on to the right and append symbols of the     *)
(* text, or a space.                                                       *)
IsStep(step, i, n, S) == step.out \in Seq(S) /\ step.next \in (i + 1)..(n + 1)

(* Copying a symbol is such a step.                                        *)
LEMMA CopyIs ==
  ASSUME NEW S, NEW s \in Seq(S), NEW i \in 1..Len(s)
  PROVE  IsStep(Copy(s, i), i, Len(s), S)
BY DEF Copy, IsStep

(* Replacing some symbols is one.                                          *)
LEMMA ReplaceIs ==
  ASSUME NEW S, NEW out \in Seq(S), NEW n \in Nat, NEW i \in 1..n, NEW next \in (i + 1)..(n + 1)
  PROVE  IsStep(Replace(next, out), i, n, S)
BY DEF Replace, IsStep

(* All loops of the cleaning take such steps.                              *)
LEMMA StepsAre ==
  ASSUME NEW S, {Space} \subseteq S, NEW s \in Seq(S), NEW i \in 1..Len(s)
  PROVE  /\ IsStep(WikiEdit(s, i), i, Len(s), S)
         /\ IsStep(WikiHeading(s, i), i, Len(s), S)
         /\ IsStep(WikiLink(s, i), i, Len(s), S)
         /\ IsStep(WikiRef(s, i), i, Len(s), S)
         /\ IsStep(EqRun(s, i), i, Len(s), S)
         /\ IsStep(Bullets(s, i), i, Len(s), S)
         /\ IsStep(BulletMark(s, i), i, Len(s), S)
         /\ IsStep(SpaceRun(s, i), i, Len(s), S)
<1> DEFINE n == Len(s)
<1>1. n \in Nat /\ i \in Nat \ {0} /\ i + 1 \in 1..n+1 /\ i \in 1..n+1 /\ i <= n
  OBVIOUS
<1>2. IsStep(Copy(s, i), i, n, S)
  BY CopyIs
<1>3. <<>> \in Seq(S) /\ <<Space>> \in Seq(S)
  OBVIOUS
<1>4. ASSUME NEW next \in (i + 1)..(n + 1)
      PROVE  IsStep(Replace(next, <<>>), i, n, S) /\ IsStep(Replace(next, <<Space>>), i, n, S)
  BY <1>1, <1>3, <1>4, ReplaceIs
<1>5. IsStep(WikiEdit(s, i), i, n, S)
  <2> DEFINE word == PastAll(s, i + 1, SpaceLike)
             close == PastAll(s, word + 1, SpaceLike)
             Found == s[i] = "[" /\ At(s, word) = "edit" /\ At(s, close) = "]"
  <2>1. word \in (i + 1)..(n + 1)
    BY <1>1, PastAllIs
  <2> HIDE DEF word
  <2>2. ASSUME Found PROVE close + 1 \in (i + 1)..(n + 1)
    <3>1. word \in 1..n
      BY <1>1, <2>1, <2>2 DEF At
    <3>2. word + 1 \in 1..n+1
      BY <3>1
    <3>3. close \in (word + 1)..(n + 1)
      BY <3>2, PastAllIs
    <3> HIDE DEF close
    <3>4. close \in 1..n
      BY <1>1, <2>2, <3>1, <3>3 DEF At
    <3> QED BY <1>1, <2>1, <3>3, <3>4
  <2>3. WikiEdit(s, i) = IF Found THEN Replace(close + 1, <<>>) ELSE Copy(s, i)
    BY DEF WikiEdit, word
  <2> HIDE DEF close
  <2>4. CASE Found
    BY <1>4, <2>2, <2>3, <2>4
  <2>5. CASE ~ Found
    BY <1>2, <2>3, <2>5
  <2> QED BY <2>4, <2>5
<1>6. IsStep(WikiHeading(s, i), i, n, S)
  <2> DEFINE title == PastAll(s, i, {"="})
             close == FirstOf(s, title, {"=", "nl"})
             after == PastAll(s, close, {"="})
             Found == title - i >= 2 /\ after - close >= 2
  <2>1. title \in i..n+1
    BY <1>1, PastAllIs
  <2> HIDE DEF title
  <2>2. close \in title..n+1
    <3>1. title \in 1..n+1
      BY <1>1, <2>1
    <3> QED BY <3>1, FirstOfIs
  <2> HIDE DEF close
  <2>3. after \in close..n+1
    <3>1. close \in 1..n+1
      BY <1>1, <2>1, <2>2
    <3> QED BY <3>1, PastAllIs
  <2> HIDE DEF after
  <2>4. WikiHeading(s, i) = IF Found THEN Replace(after, <<Space>>) ELSE Copy(s, i)
    BY DEF WikiHeading, title, close, after
  <2>5. Found => after \in (i + 1)..(n + 1)
    BY <1>1, <2>1, <2>2, <2>3
  <2>6. CASE Found
    BY <1>4, <2>4, <2>5, <2>6
  <2>7. CASE ~ Found
    BY <1>2, <2>4, <2>7
  <2> QED BY <2>6, <2>7
<1>7. IsStep(WikiLink(s, i), i, n, S)
  <2> DEFINE close == FirstOf(s, i + 2, {"]"})
             pipe == FirstOf(s, i + 2, {"|", "]"})
             label == IF At(s, pipe) = "|" THEN pipe + 1 ELSE i + 2
             Found == StartsAt(s, <<"[", "[">>, i) /\ StartsAt(s, <<"]", "]">>, close)
  <2>1. WikiLink(s, i) = IF Found THEN Replace(close + 2, SubSeq(s, label, close - 1))
                         ELSE Copy(s, i)
    BY DEF WikiLink
  <2>2. CASE Found
    <3>1. i + 1 <= n
      BY <1>1, <2>2, PairIs
    <3>2. i + 2 \in 1..n+1
      BY <1>1, <3>1
    <3>3. close \in (i + 2)..(n + 1) /\ pipe \in (i + 2)..(n + 1)
      BY <3>2, FirstOfIs
    <3> HIDE DEF close, pipe
    <3>4. close \in Nat \ {0}
      BY <1>1, <3>3
    <3>5. close + 1 <= n
      BY <2>2, <3>4, PairIs
    <3>6. label \in Nat \ {0} /\ close - 1 \in Int /\ close - 1 <= n
      BY <1>1, <3>3, <3>5
    <3> HIDE DEF label
    <3>7. SubSeq(s, label, close - 1) \in Seq(S)
      BY <3>6, PieceIs
    <3>8. close + 2 \in (i + 1)..(n + 1)
      BY <1>1, <3>3, <3>5
    <3>9. IsStep(Replace(close + 2, SubSeq(s, label, close - 1)), i, n, S)
      BY <1>1, <3>7, <3>8, ReplaceIs
    <3> QED BY <2>1, <2>2, <3>9
  <2>3. CASE ~ Found
    <3> HIDE DEF Found
    <3> QED BY <1>2, <2>1, <2>3
  <2> QED BY <2>2, <2>3
<1>8. IsStep(WikiRef(s, i), i, n, S)
  <2> DEFINE number == PastAll(s, i + 1, {"1"})
             open == FirstOf(s, i + 2, {">"})
             close == Find(s, CloseTag, open + 1)
             Numbered == s[i] = "[" /\ number > i + 1 /\ At(s, number) = "]"
             Tagged == /\ StartsAt(s, <<"<", "ref">>, i)
                       /\ At(s, i + 2) \in SpaceLike \cup {">", "/"}
                       /\ close # 0
  <2>1. WikiRef(s, i) = CASE Numbered -> Replace(number + 1, <<>>)
                          [] Tagged -> Replace(close + 4, <<>>)
                          [] OTHER -> Copy(s, i)
    BY DEF WikiRef
  <2>2. ASSUME Numbered PROVE number + 1 \in (i + 1)..(n + 1)
    <3>1. number \in (i + 1)..(n + 1)
      BY <1>1, PastAllIs
    <3> HIDE DEF number
    <3> QED BY <1>1, <2>2, <3>1 DEF At
  <2>3. StartsAt(s, <<"<", "ref">>, i) <=> i + 1 <= n /\ s[i] = "<" /\ s[i + 1] = "ref"
    BY <1>1, PairIs
  <2>4. ASSUME Tagged PROVE close + 4 \in (i + 1)..(n + 1)
    <3>1. i + 2 \in 1..n+1
      BY <1>1, <2>3, <2>4
    <3>2. open \in (i + 2)..(n + 1)
      BY <3>1, FirstOfIs
    <3>3. CloseTag \in Seq({"<", "/", "ref", ">"}) /\ Len(CloseTag) = 4
      BY DEF CloseTag
    <3>4. open + 1 \in Nat \ {0} /\ close # 0
      BY <1>1, <2>4, <3>2
    <3> HIDE DEF open
    <3>5. close \in Nat /\ close >= open + 1 /\ StandsAt(s, close, CloseTag)
      BY <3>3, <3>4, FoundStands
    <3> HIDE DEF close
    <3>6. close + 4 <= n + 1
      BY <3>3, <3>5 DEF StandsAt
    <3> QED BY <1>1, <3>2, <3>5, <3>6
  <2>5. ~ (Numbered /\ Tagged)
    BY <2>3
  <2> HIDE DEF number, close, Numbered, Tagged
  <2>6. CASE Numbered
    BY <1>4, <2>1, <2>2, <2>5, <2>6
  <2>7. CASE Tagged
    BY <1>4, <2>1, <2>4, <2>5, <2>7
  <2>8. CASE ~ Numbered /\ ~ Tagged
    BY <1>2, <2>1, <2>8
  <2> QED BY <2>6, <2>7, <2>8
<1>9. IsStep(EqRun(s, i), i, n, S)
  <2> DEFINE after == PastAll(s, i, {"="})
  <2>1. after \in i..n+1
    BY <1>1, PastAllIs
  <2>2. EqRun(s, i) = IF after - i >= 2 THEN Replace(after, <<Space>>) ELSE Copy(s, i)
    BY DEF EqRun
  <2> HIDE DEF after
  <2>3. after - i >= 2 => after \in (i + 1)..(n + 1)
    BY <1>1, <2>1
  <2> QED BY <1>2, <1>4, <2>2, <2>3
<1>10. IsStep(SpaceRun(s, i), i, n, S)
  <2> DEFINE after == PastAll(s, i, SpaceLike)
  <2>1. after \in i..n+1
    BY <1>1, PastAllIs
  <2>2. SpaceRun(s, i) = IF after > i THEN Replace(after, <<Space>>) ELSE Copy(s, i)
    BY DEF SpaceRun
  <2> HIDE DEF after
  <2>3. after > i => after \in (i + 1)..(n + 1)
    BY <1>1, <2>1
  <2> QED BY <1>2, <1>4, <2>2, <2>3
<1>11. IsStep(Bullets(s, i), i, n, S)
  <2> DEFINE after == PastAll(s, i, {"*"})
             Found == /\ after > i
                      /\ i = 1 \/ At(s, i - 1) \in SpaceLike
                      /\ At(s, after) \in SpaceLike \cup {"end"}
  <2>1. after \in i..n+1
    BY <1>1, PastAllIs
  <2>2. Bullets(s, i) = IF Found THEN Replace(after, <<Space>>) ELSE Copy(s, i)
    BY DEF Bullets
  <2> HIDE DEF after
  <2>3. Found => after \in (i + 1)..(n + 1)
    BY <1>1, <2>1
  <2> HIDE DEF Found
  <2> QED BY <1>2, <1>4, <2>2, <2>3
<1>12. IsStep(BulletMark(s, i), i, n, S)
  <2> DEFINE first == IF s[i] \in RegexSpace THEN i + 1 ELSE i
             after == PastAll(s, first, {"*"})
             Found == /\ i = 1 \/ s[i] \in RegexSpace
                      /\ after > first
                      /\ At(s, after) \in RegexSpace \cup {"end"}
  <2>1. first \in i..i+1 /\ first \in 1..n+1
    BY <1>1
  <2>2. BulletMark(s, i) = IF Found THEN Replace(after, <<Space>>) ELSE Copy(s, i)
    BY DEF BulletMark
  <2> HIDE DEF first
  <2>3. after \in first..n+1
    BY <2>1, PastAllIs
  <2> HIDE DEF after
  <2>4. Found => after \in (i + 1)..(n + 1)
    BY <1>1, <2>1, <2>3
  <2> HIDE DEF Found
  <2> QED BY <1>2, <1>4, <2>2, <2>4
<1> QED BY <1>5, <1>6, <1>7, <1>8, <1>9, <1>10, <1>11, <1>12

(* So the loops end, and their texts have the symbols of what they read.   *)
LEMMA BuiltIs ==
  ASSUME NEW S, NEW n \in Nat, NEW steps, DOMAIN steps = 1..n,
         \A i \in 1..n : IsStep(steps[i], i, n, S)
  PROVE  AreSteps(steps, n, S) /\ Built(steps, n) \in Seq(S)
<1>1. AreSteps(steps, n, S)
  BY DEF AreSteps, IsStep
<1>2. PICK rest : IsRest(rest, steps, n, S) /\ Built(steps, n) = rest[1]
  BY <1>1, BuiltJoins
<1> QED BY <1>1, <1>2 DEF IsRest

(* So what each loop leaves is a text over the same symbols.               *)
LEMMA ScansAre ==
  ASSUME NEW S, {Space} \subseteq S, NEW s \in Seq(S)
  PROVE  /\ Scan(s, WikiEdit) \in Seq(S)
         /\ Scan(s, WikiHeading) \in Seq(S)
         /\ Scan(s, WikiLink) \in Seq(S)
         /\ Scan(s, WikiRef) \in Seq(S)
         /\ Scan(s, EqRun) \in Seq(S)
         /\ Scan(s, Bullets) \in Seq(S)
         /\ Scan(s, BulletMark) \in Seq(S)
         /\ Scan(s, SpaceRun) \in Seq(S)
<1> DEFINE n == Len(s)
<1>1. n \in Nat
  OBVIOUS
<1>2. \A i \in 1..n : /\ IsStep(WikiEdit(s, i), i, n, S)
                      /\ IsStep(WikiHeading(s, i), i, n, S)
                      /\ IsStep(WikiLink(s, i), i, n, S)
                      /\ IsStep(WikiRef(s, i), i, n, S)
                      /\ IsStep(EqRun(s, i), i, n, S)
                      /\ IsStep(Bullets(s, i), i, n, S)
                      /\ IsStep(BulletMark(s, i), i, n, S)
                      /\ IsStep(SpaceRun(s, i), i, n, S)
  BY StepsAre
<1>3. Scan(s, WikiEdit) \in Seq(S)
  <2> DEFINE steps == [i \in 1..n |-> WikiEdit(s, i)]
  <2>1. DOMAIN steps = 1..n /\ \A i \in 1..n : IsStep(steps[i], i, n, S)
    BY <1>2
  <2>2. Scan(s, WikiEdit) = Built(steps, n)
    BY DEF Scan
  <2> HIDE DEF steps
  <2> QED BY <1>1, <2>1, <2>2, BuiltIs
<1>4. Scan(s, WikiHeading) \in Seq(S)
  <2> DEFINE steps == [i \in 1..n |-> WikiHeading(s, i)]
  <2>1. DOMAIN steps = 1..n /\ \A i \in 1..n : IsStep(steps[i], i, n, S)
    BY <1>2
  <2>2. Scan(s, WikiHeading) = Built(steps, n)
    BY DEF Scan
  <2> HIDE DEF steps
  <2> QED BY <1>1, <2>1, <2>2, BuiltIs
<1>5. Scan(s, WikiLink) \in Seq(S)
  <2> DEFINE steps == [i \in 1..n |-> WikiLink(s, i)]
  <2>1. DOMAIN steps = 1..n /\ \A i \in 1..n : IsStep(steps[i], i, n, S)
    BY <1>2
  <2>2. Scan(s, WikiLink) = Built(steps, n)
    BY DEF Scan
  <2> HIDE DEF steps
  <2> QED BY <1>1, <2>1, <2>2, BuiltIs
<1>6. Scan(s, WikiRef) \in Seq(S)
  <2> DEFINE steps == [i \in 1..n |-> WikiRef(s, i)]
  <2>1. DOMAIN steps = 1..n /\ \A i \in 1..n : IsStep(steps[i], i, n, S)
    BY <1>2
  <2>2. Scan(s, WikiRef) = Built(steps, n)
    BY DEF Scan
  <2> HIDE DEF steps
  <2> QED BY <1>1, <2>1, <2>2, BuiltIs
<1>7. Scan(s, EqRun) \in Seq(S)
  <2> DEFINE steps == [i \in 1..n |-> EqRun(s, i)]
  <2>1. DOMAIN steps = 1..n /\ \A i \in 1..n : IsStep(steps[i], i, n, S)
    BY <1>2
  <2>2. Scan(s, EqRun) = Built(steps, n)
    BY DEF Scan
  <2> HIDE DEF steps
  <2> QED BY <1>1, <2>1, <2>2, BuiltIs
<1>8. Scan(s, Bullets) \in Seq(S)
  <2> DEFINE steps == [i \in 1..n |-> Bullets(s, i)]
  <2>1. DOMAIN steps = 1..n /\ \A i \in 1..n : IsStep(steps[i], i, n, S)
    BY <1>2
  <2>2. Scan(s, Bullets) = Built(steps, n)
    BY DEF Scan
  <2> HIDE DEF steps
  <2> QED BY <1>1, <2>1, <2>2, BuiltIs
<1>9. Scan(s, BulletMark) \in Seq(S)
  <2> DEFINE steps == [i \in 1..n |-> BulletMark(s, i)]
  <2>1. DOMAIN steps = 1..n /\ \A i \in 1..n : IsStep(steps[i], i, n, S)
    BY <1>2
  <2>2. Scan(s, BulletMark) = Built(steps, n)
    BY DEF Scan
  <2> HIDE DEF steps
  <2> QED BY <1>1, <2>1, <2>2, BuiltIs
<1>10. Scan(s, SpaceRun) \in Seq(S)
  <2> DEFINE steps == [i \in 1..n |-> SpaceRun(s, i)]
  <2>1. DOMAIN steps = 1..n /\ \A i \in 1..n : IsStep(steps[i], i, n, S)
    BY <1>2
  <2>2. Scan(s, SpaceRun) = Built(steps, n)
    BY DEF Scan
  <2> HIDE DEF steps
  <2> QED BY <1>1, <2>1, <2>2, BuiltIs
<1> QED BY <1>3, <1>4, <1>5, <1>6, <1>7, <1>8, <1>9, <1>10

--------------------------------------------------------------------------------
(* What a loop makes of a text behind something it does not see.           *)

(* A run at the end of a text ends where it did, behind what comes first.  *)
LEMMA PastAllBehind ==
  ASSUME NEW S, NEW u \in Seq(S), NEW x \in Seq(S), NEW X, NEW i \in 1..Len(x)+1
  PROVE  PastAll(u \o x, Len(u) + i, X) = Len(u) + PastAll(x, i, X)
<1> DEFINE k == Len(u)
           y == u \o x
           p == PastAll(x, i, X)
<1>1. k \in Nat /\ Len(x) \in Nat /\ y \in Seq(S) /\ Len(y) = k + Len(x)
  OBVIOUS
<1>2. \A m \in 1..Len(x) : y[k + m] = x[m]
  OBVIOUS
<1>3. /\ p \in i..Len(x)+1
      /\ \A m \in i..p-1 : m \in 1..Len(x) /\ x[m] \in X
      /\ p \in 1..Len(x) => x[p] \notin X
  BY PastAllIs
<1> HIDE DEF y, p
<1> DEFINE a == k + i
           b == k + p
<1>4. k + i \in 1..Len(y)+1 /\ k + p \in (k + i)..(Len(y) + 1)
  BY <1>1, <1>3
<1>5. ASSUME NEW j \in a..b-1
      PROVE  y[j] \in X
  <2>1. j - k \in i..p-1 /\ j - k \in 1..Len(x) /\ k + (j - k) = j
    BY <1>1, <1>3
  <2> HIDE DEF k
  <2> QED BY <1>2, <1>3, <2>1
<1>6. k + p = Len(y) + 1 \/ y[k + p] \notin X
  <2>1. p = Len(x) + 1 \/ p \in 1..Len(x)
    BY <1>1, <1>3
  <2>2. p = Len(x) + 1 => k + p = Len(y) + 1
    BY <1>1
  <2>3. p \in 1..Len(x) => y[k + p] \notin X
    BY <1>2, <1>3
  <2> QED BY <2>1, <2>2, <2>3
<1>7. PastAll(y, a, X) = b
  <2>1. a \in 1..Len(y)+1 /\ b \in a..Len(y)+1
    BY <1>4
  <2>2. \A j \in a..b-1 : y[j] \in X
    BY <1>5
  <2>3. b = Len(y) + 1 \/ y[b] \notin X
    BY <1>6
  <2> HIDE DEF a, b
  <2> QED BY <1>1, <2>1, <2>2, <2>3, PastAllAt
<1> QED BY <1>7 DEF y, k, p

(* EqRun and SpaceRun do behind any text what they do without it.          *)
LEMMA RunsBehind ==
  ASSUME NEW S, NEW u \in Seq(S), NEW x \in Seq(S), NEW i \in 1..Len(x)
  PROVE  /\ EqRun(u \o x, Len(u) + i).out = EqRun(x, i).out
         /\ EqRun(u \o x, Len(u) + i).next = Len(u) + EqRun(x, i).next
         /\ SpaceRun(u \o x, Len(u) + i).out = SpaceRun(x, i).out
         /\ SpaceRun(u \o x, Len(u) + i).next = Len(u) + SpaceRun(x, i).next
<1> DEFINE k == Len(u)
           y == u \o x
<1>1. k \in Nat /\ i \in 1..Len(x)+1 /\ i \in Nat /\ y[k + i] = x[i]
  OBVIOUS
<1>2. /\ Copy(y, k + i).out = Copy(x, i).out
      /\ Copy(y, k + i).next = k + Copy(x, i).next
  BY <1>1 DEF Copy
<1>3. ASSUME NEW X
      PROVE  PastAll(y, k + i, X) = k + PastAll(x, i, X) /\ PastAll(x, i, X) \in i..Len(x)+1
  BY <1>1, PastAllBehind, PastAllIs
<1>4. ASSUME NEW X, NEW out
      PROVE  /\ Replace(PastAll(y, k + i, X), out).out = Replace(PastAll(x, i, X), out).out
             /\ Replace(PastAll(y, k + i, X), out).next = k + Replace(PastAll(x, i, X), out).next
  BY <1>3 DEF Replace
<1> HIDE DEF k, y
<1>5. EqRun(y, k + i).out = EqRun(x, i).out /\ EqRun(y, k + i).next = k + EqRun(x, i).next
  <2> DEFINE a == PastAll(y, k + i, {"="})
             b == PastAll(x, i, {"="})
  <2>1. a = k + b /\ b \in i..Len(x)+1
    BY <1>3
  <2>2. /\ Replace(a, <<Space>>).out = Replace(b, <<Space>>).out
        /\ Replace(a, <<Space>>).next = k + Replace(b, <<Space>>).next
    BY <1>4
  <2>3. EqRun(y, k + i) = IF a - (k + i) >= 2 THEN Replace(a, <<Space>>) ELSE Copy(y, k + i)
    BY DEF EqRun
  <2>4. EqRun(x, i) = IF b - i >= 2 THEN Replace(b, <<Space>>) ELSE Copy(x, i)
    BY DEF EqRun
  <2> HIDE DEF a, b
  <2>5. a - (k + i) >= 2 <=> b - i >= 2
    BY <1>1, <2>1
  <2> QED BY <1>2, <2>2, <2>3, <2>4, <2>5
<1>6. SpaceRun(y, k + i).out = SpaceRun(x, i).out
      /\ SpaceRun(y, k + i).next = k + SpaceRun(x, i).next
  <2> DEFINE a == PastAll(y, k + i, SpaceLike)
             b == PastAll(x, i, SpaceLike)
  <2>1. a = k + b /\ b \in i..Len(x)+1
    BY <1>3
  <2>2. /\ Replace(a, <<Space>>).out = Replace(b, <<Space>>).out
        /\ Replace(a, <<Space>>).next = k + Replace(b, <<Space>>).next
    BY <1>4
  <2>3. SpaceRun(y, k + i) = IF a > k + i THEN Replace(a, <<Space>>) ELSE Copy(y, k + i)
    BY DEF SpaceRun
  <2>4. SpaceRun(x, i) = IF b > i THEN Replace(b, <<Space>>) ELSE Copy(x, i)
    BY DEF SpaceRun
  <2> HIDE DEF a, b
  <2>5. a > k + i <=> b > i
    BY <1>1, <2>1
  <2> QED BY <1>2, <2>2, <2>3, <2>4, <2>5
<1> QED BY <1>5, <1>6 DEF k, y

(* Behind its first symbols a text is scanned as the rest of it would be.  *)
LEMMA ScannedBehind ==
  ASSUME NEW S, {Space} \subseteq S, NEW u \in Seq(S), NEW x \in Seq(S), u # <<>>
  PROVE  LET y == u \o x
             eq == EqRun(y, 1)
             sp == SpaceRun(y, 1)
         IN  /\ eq.next = Len(u) + 1 => Scan(y, EqRun) = eq.out \o Scan(x, EqRun)
             /\ sp.next = Len(u) + 1 => Scan(y, SpaceRun) = sp.out \o Scan(x, SpaceRun)
<1> DEFINE k == Len(u)
           y == u \o x
           n == Len(x)
<1>1. k \in Nat \ {0} /\ n \in Nat /\ y \in Seq(S) /\ Len(y) = k + n /\ 1 \in 1..k+n
  OBVIOUS
<1>2. \A i \in 1..n : k + i \in 1..k+n
  BY <1>1
<1>3. \A i \in 1..n : /\ EqRun(y, k + i).out = EqRun(x, i).out
                      /\ EqRun(y, k + i).next = k + EqRun(x, i).next
                      /\ SpaceRun(y, k + i).out = SpaceRun(x, i).out
                      /\ SpaceRun(y, k + i).next = k + SpaceRun(x, i).next
  BY RunsBehind
<1> HIDE DEF y, k
<1>4. ASSUME EqRun(y, 1).next = k + 1
      PROVE  Scan(y, EqRun) = EqRun(y, 1).out \o Scan(x, EqRun)
  <2> DEFINE steps == [i \in 1..n |-> EqRun(x, i)]
             more == [i \in 1..k+n |-> EqRun(y, i)]
  <2>1. Scan(x, EqRun) = Built(steps, n) /\ Scan(y, EqRun) = Built(more, k + n)
    BY <1>1 DEF Scan
  <2>2. AreSteps(steps, n, S)
    <3>1. DOMAIN steps = 1..n /\ \A i \in 1..n : IsStep(steps[i], i, n, S)
      BY StepsAre
    <3> HIDE DEF steps
    <3> QED BY <1>1, <3>1, BuiltIs
  <2>3. AreSteps(more, k + n, S)
    <3>1. DOMAIN more = 1..k+n /\ \A i \in 1..k+n : IsStep(more[i], i, k + n, S)
      BY <1>1, StepsAre
    <3>2. k + n \in Nat
      BY <1>1
    <3> HIDE DEF more
    <3> QED BY <3>1, <3>2, BuiltIs
  <2>4. \A i \in 1..n : /\ more[k + i].out = steps[i].out
                        /\ more[k + i].next = k + steps[i].next
    BY <1>2, <1>3
  <2>5. more[1] = EqRun(y, 1)
    BY <1>1
  <2> HIDE DEF steps, more
  <2>6. PICK rest : IsRest(rest, more, k + n, S) /\ Built(more, k + n) = rest[1]
    BY <2>3, BuiltJoins
  <2>7. Built(steps, n) = rest[k + 1]
    <3>1. k \in Nat
      BY <1>1
    <3> HIDE DEF n
    <3> QED BY <2>2, <2>4, <2>6, <3>1, RestOfEnd
  <2>8. rest[1] = more[1].out \o rest[more[1].next]
    BY <1>1, <2>6 DEF IsRest
  <2> QED BY <1>4, <2>1, <2>5, <2>6, <2>7, <2>8
<1>5. ASSUME SpaceRun(y, 1).next = k + 1
      PROVE  Scan(y, SpaceRun) = SpaceRun(y, 1).out \o Scan(x, SpaceRun)
  <2> DEFINE steps == [i \in 1..n |-> SpaceRun(x, i)]
             more == [i \in 1..k+n |-> SpaceRun(y, i)]
  <2>1. Scan(x, SpaceRun) = Built(steps, n) /\ Scan(y, SpaceRun) = Built(more, k + n)
    BY <1>1 DEF Scan
  <2>2. AreSteps(steps, n, S)
    <3>1. DOMAIN steps = 1..n /\ \A i \in 1..n : IsStep(steps[i], i, n, S)
      BY StepsAre
    <3> HIDE DEF steps
    <3> QED BY <1>1, <3>1, BuiltIs
  <2>3. AreSteps(more, k + n, S)
    <3>1. DOMAIN more = 1..k+n /\ \A i \in 1..k+n : IsStep(more[i], i, k + n, S)
      BY <1>1, StepsAre
    <3>2. k + n \in Nat
      BY <1>1
    <3> HIDE DEF more
    <3> QED BY <3>1, <3>2, BuiltIs
  <2>4. \A i \in 1..n : /\ more[k + i].out = steps[i].out
                        /\ more[k + i].next = k + steps[i].next
    BY <1>2, <1>3
  <2>5. more[1] = SpaceRun(y, 1)
    BY <1>1
  <2> HIDE DEF steps, more
  <2>6. PICK rest : IsRest(rest, more, k + n, S) /\ Built(more, k + n) = rest[1]
    BY <2>3, BuiltJoins
  <2>7. Built(steps, n) = rest[k + 1]
    <3>1. k \in Nat
      BY <1>1
    <3> HIDE DEF n
    <3> QED BY <2>2, <2>4, <2>6, <3>1, RestOfEnd
  <2>8. rest[1] = more[1].out \o rest[more[1].next]
    BY <1>1, <2>6 DEF IsRest
  <2> QED BY <1>5, <2>1, <2>5, <2>6, <2>7, <2>8
<1> QED BY <1>4, <1>5 DEF y, k

(* A text begins with a run of k symbols of X, no more.                    *)
LEMMA PastAllRun ==
  ASSUME NEW S, NEW u \in Seq(S), NEW x \in Seq(S), NEW X,
         \A i \in 1..Len(u) : u[i] \in X, x = <<>> \/ x[1] \notin X
  PROVE  PastAll(u \o x, 1, X) = Len(u) + 1
<1> DEFINE k == Len(u)
           y == u \o x
<1>1. k \in Nat /\ y \in Seq(S) /\ Len(y) = k + Len(x) /\ Len(x) \in Nat
  OBVIOUS
<1>2. \A i \in 1..k : y[i] \in X
  OBVIOUS
<1>3. x # <<>> => y[k + 1] = x[1]
  OBVIOUS
<1>4. x = <<>> => Len(x) = 0
  OBVIOUS
<1> HIDE DEF y, k
<1>5. 1 \in 1..Len(y)+1 /\ k + 1 \in 1..Len(y)+1 /\ k + 1 - 1 = k
  BY <1>1
<1>6. k + 1 = Len(y) + 1 \/ y[k + 1] \notin X
  BY <1>1, <1>3, <1>4
<1> DEFINE b == k + 1
<1>7. PastAll(y, 1, X) = b
  <2>1. b \in 1..Len(y)+1
    BY <1>5
  <2>2. \A j \in 1..b-1 : y[j] \in X
    <3>1. b - 1 = k
      BY <1>1
    <3> HIDE DEF b
    <3> QED BY <1>2, <3>1
  <2>3. b = Len(y) + 1 \/ y[b] \notin X
    BY <1>6
  <2> HIDE DEF b
  <2> QED BY <1>1, <1>5, <2>1, <2>2, <2>3, PastAllAt
<1> QED BY <1>7 DEF y, k

(* What a run at the beginning of a text becomes.                          *)
LEMMA RunReplaced ==
  ASSUME NEW S, {Space} \subseteq S, NEW u \in Seq(S), NEW x \in Seq(S), u # <<>>
  PROVE  /\ (\A i \in 1..Len(u) : u[i] = "=") /\ (x = <<>> \/ x[1] # "=")
              => Scan(u \o x, EqRun)
                   = (IF Len(u) >= 2 THEN <<Space>> ELSE u) \o Scan(x, EqRun)
         /\ (\A i \in 1..Len(u) : u[i] \in SpaceLike) /\ (x = <<>> \/ x[1] \notin SpaceLike)
              => Scan(u \o x, SpaceRun) = <<Space>> \o Scan(x, SpaceRun)
<1> DEFINE k == Len(u)
           y == u \o x
<1>1. k \in Nat \ {0} /\ y[1] = u[1] /\ (k = 1 => u = <<u[1]>>)
  OBVIOUS
<1>2. Copy(y, 1).out = <<y[1]>> /\ Copy(y, 1).next = 2
  BY DEF Copy
<1>3. /\ EqRun(y, 1).next = k + 1 => Scan(y, EqRun) = EqRun(y, 1).out \o Scan(x, EqRun)
      /\ SpaceRun(y, 1).next = k + 1 => Scan(y, SpaceRun) = SpaceRun(y, 1).out \o Scan(x, SpaceRun)
  BY ScannedBehind
<1>4. ASSUME \A i \in 1..k : u[i] = "=", x = <<>> \/ x[1] # "="
      PROVE  Scan(y, EqRun) = (IF k >= 2 THEN <<Space>> ELSE u) \o Scan(x, EqRun)
  <2> DEFINE after == PastAll(y, 1, {"="})
  <2>1. after = k + 1
    BY <1>4, PastAllRun
  <2>2. EqRun(y, 1) = IF after - 1 >= 2 THEN Replace(after, <<Space>>) ELSE Copy(y, 1)
    BY DEF EqRun
  <2> HIDE DEF y, after, k
  <2>3. CASE k >= 2
    <3>1. after - 1 >= 2
      BY <1>1, <2>1, <2>3
    <3>2. EqRun(y, 1) = Replace(k + 1, <<Space>>)
      BY <2>1, <2>2, <3>1
    <3>3. EqRun(y, 1).out = <<Space>> /\ EqRun(y, 1).next = k + 1
      BY <3>2 DEF Replace
    <3> QED BY <1>3, <2>3, <3>3
  <2>4. CASE k = 1
    <3>1. ~ (after - 1 >= 2) /\ ~ (k >= 2) /\ k + 1 = 2
      BY <2>1, <2>4
    <3> QED BY <1>1, <1>2, <1>3, <2>2, <2>4, <3>1
  <2> QED BY <1>1, <2>3, <2>4
<1>5. ASSUME \A i \in 1..k : u[i] \in SpaceLike, x = <<>> \/ x[1] \notin SpaceLike
      PROVE  Scan(y, SpaceRun) = <<Space>> \o Scan(x, SpaceRun)
  <2> DEFINE after == PastAll(y, 1, SpaceLike)
  <2>1. after = k + 1
    BY <1>5, PastAllRun
  <2>2. SpaceRun(y, 1) = IF after > 1 THEN Replace(after, <<Space>>) ELSE Copy(y, 1)
    BY DEF SpaceRun
  <2> HIDE DEF y, after, k
  <2>3. after > 1
    BY <1>1, <2>1
  <2>4. SpaceRun(y, 1) = Replace(k + 1, <<Space>>)
    BY <2>1, <2>2, <2>3
  <2>5. SpaceRun(y, 1).out = <<Space>> /\ SpaceRun(y, 1).next = k + 1
    BY <2>4 DEF Replace
  <2> QED BY <1>3, <2>5
<1> QED BY <1>4, <1>5 DEF y, k

(* A symbol that is in no run is copied.                                   *)
LEMMA FirstCopied ==
  ASSUME NEW S, {Space} \subseteq S, NEW c \in S, NEW x \in Seq(S)
  PROVE  /\ c # "=" => Scan(<<c>> \o x, EqRun) = <<c>> \o Scan(x, EqRun)
         /\ c \notin SpaceLike => Scan(<<c>> \o x, SpaceRun) = <<c>> \o Scan(x, SpaceRun)
<1> DEFINE u == <<c>>
           y == u \o x
<1>1. u \in Seq(S) /\ Len(u) = 1 /\ u # <<>> /\ y \in Seq(S) /\ y[1] = c /\ Len(y) \in Nat
      /\ 1 \in 1..Len(y)+1
  OBVIOUS
<1>2. Copy(y, 1).out = <<y[1]>> /\ Copy(y, 1).next = 1 + 1
  BY DEF Copy
<1>3. /\ EqRun(y, 1).next = 1 + 1 => Scan(y, EqRun) = EqRun(y, 1).out \o Scan(x, EqRun)
      /\ SpaceRun(y, 1).next = 1 + 1 => Scan(y, SpaceRun) = SpaceRun(y, 1).out \o Scan(x, SpaceRun)
  <2> HIDE DEF u
  <2> QED BY <1>1, ScannedBehind
<1>4. ASSUME NEW X, c \notin X
      PROVE  PastAll(y, 1, X) = 1
  <2> HIDE DEF y
  <2>1. 1 \in 1..Len(y)+1 /\ (\A j \in 1..0 : y[j] \in X) /\ 1 - 1 = 0
    BY <1>1
  <2> QED BY <1>1, <1>4, <2>1, PastAllAt
<1> HIDE DEF y
<1>5. ASSUME c # "=" PROVE EqRun(y, 1) = Copy(y, 1)
  <2>1. PastAll(y, 1, {"="}) = 1
    BY <1>4, <1>5
  <2> QED BY <2>1 DEF EqRun
<1>6. ASSUME c \notin SpaceLike PROVE SpaceRun(y, 1) = Copy(y, 1)
  <2>1. PastAll(y, 1, SpaceLike) = 1
    BY <1>4, <1>6
  <2> QED BY <2>1 DEF SpaceRun
<1> QED BY <1>1, <1>2, <1>3, <1>5, <1>6 DEF y, u

--------------------------------------------------------------------------------
(* Headings are replaced alike, or by EqRun after all.                     *)

(* A loop over s has rest to append, and copies the symbols from i to t.   *)
IsCopied(rest, steps, s, S, i, t) ==
  /\ s \in Seq(S) /\ IsRest(rest, steps, Len(s), S)
  /\ i \in 1..Len(s)+1 /\ t \in i..Len(s)+1
  /\ \A j \in i..t-1 : steps[j] = Copy(s, j)

(* Symbols that a loop copies stand in front of what it appends behind.    *)
LEMMA RunCopied ==
  ASSUME NEW S, NEW s, NEW steps, NEW rest, NEW i, NEW t,
         IsCopied(rest, steps, s, S, i, t)
  PROVE  IsJoint(rest[i], SubSeq(s, i, t - 1), rest[t])
<1> USE DEF IsCopied, IsJoint
<1> DEFINE n == Len(s)
           H == {j \in 1..n+1 : j \in i..t => rest[j] = SubSeq(s, j, t - 1) \o rest[t]}
<1>1. n \in Nat /\ i \in Nat \ {0} /\ t \in 1..n+1 /\ i \in i..t /\ i \in 1..n+1
  OBVIOUS
<1>2. /\ \A j \in 1..n+1 : rest[j] \in Seq(S)
      /\ rest[n + 1] = <<>>
      /\ \A j \in 1..n : rest[j] = steps[j].out \o rest[steps[j].next]
  BY DEF IsRest
<1>3. ASSUME NEW j \in 1..n+1, j = t
      PROVE  j \in H
  <2>1. SubSeq(s, j, t - 1) = <<>>
    BY <1>1, <1>3, SubSeqEmpty
  <2>2. <<>> \o rest[t] = rest[t]
    BY <1>1, <1>2
  <2> QED BY <1>3, <2>1, <2>2
<1>4. n + 1 \in H
  <2>1. n + 1 \in i..t => n + 1 = t
    BY <1>1
  <2>2. n + 1 \in 1..n+1
    BY <1>1
  <2> QED BY <1>3, <2>1, <2>2
<1>5. ASSUME NEW j \in 1..n, \A m \in (j + 1)..(n + 1) : m \in H
      PROVE  j \in H
  <2>1. j \in 1..n+1 /\ j + 1 \in (j + 1)..(n + 1) /\ j + 1 \in 1..n+1
    BY <1>1
  <2>2. CASE j \notin i..t
    BY <2>1, <2>2
  <2>3. CASE j = t
    BY <1>3, <2>1, <2>3
  <2>4. CASE j \in i..t-1
    <3>1. j + 1 \in i..t
      BY <1>1, <2>4
    <3>2. j + 1 \in H
      BY <1>5, <2>1
    <3>3. rest[j + 1] = SubSeq(s, j + 1, t - 1) \o rest[t]
      BY <3>1, <3>2
    <3>4. rest[j] = <<s[j]>> \o rest[j + 1]
      <4>1. steps[j].out = <<s[j]>> /\ steps[j].next = j + 1
        <5>1. steps[j] = Copy(s, j)
          BY <2>4
        <5> QED BY <5>1 DEF Copy
      <4> QED BY <1>2, <4>1
    <3>5. SubSeq(s, j, t - 1) = <<s[j]>> \o SubSeq(s, j + 1, t - 1)
      <4>1. t - 1 \in j..Len(s)
        BY <1>1, <2>4
      <4> QED BY <4>1, SubSeqRecursiveFirst
    <3>6. <<s[j]>> \in Seq(S) /\ SubSeq(s, j + 1, t - 1) \in Seq(S) /\ rest[t] \in Seq(S)
      <4>1. j + 1 \in Nat \ {0} /\ t - 1 \in Int /\ t - 1 <= Len(s) /\ s[j] \in S
        BY <1>1
      <4> QED BY <1>1, <1>2, <4>1, PieceIs
    <3>7. \A a, b, c \in Seq(S) : (a \o b) \o c = a \o (b \o c)
      <4> HIDE DEF H
      <4> QED BY Regrouped, SMTT(60)
    <3>8. (<<s[j]>> \o SubSeq(s, j + 1, t - 1)) \o rest[t]
            = <<s[j]>> \o (SubSeq(s, j + 1, t - 1) \o rest[t])
      BY <3>6, <3>7
    <3> QED BY <2>1, <3>3, <3>4, <3>5, <3>8
  <2>5. j \in i..t => j = t \/ j \in i..t-1
    BY <1>1
  <2> QED BY <2>2, <2>3, <2>4, <2>5
<1>6. i \in H
  <2> HIDE DEF H
  <2>1. \A j \in 1..n+1 : j \in H
    BY <1>1, <1>4, <1>5, Downwards
  <2> QED BY <1>1, <2>1
<1> QED BY <1>1, <1>6

(* Four of "=" stand where a run of at least four begins.                  *)
LEMMA FourEq ==
  ASSUME NEW S, NEW s \in Seq(S), NEW i \in 1..Len(s)
  PROVE  StartsAt(s, <<"=", "=", "=", "=">>, i) <=> PastAll(s, i, {"="}) - i >= 4
<1> DEFINE n == Len(s)
           word == <<"=", "=", "=", "=">>
           title == PastAll(s, i, {"="})
<1>1. /\ title \in i..n+1 /\ n \in Nat /\ i \in Nat \ {0} /\ i \in 1..n+1
      /\ \A j \in i..title-1 : j \in 1..n /\ s[j] = "="
      /\ title \in 1..n => s[title] # "="
  BY PastAllIs
<1>2. word \in Seq({"="}) /\ Len(word) = 4 /\ \A k \in 1..4 : word[k] = "="
  OBVIOUS
<1> HIDE DEF word, title
<1>3. StartsAt(s, word, i) <=> StandsAt(s, i, word)
  BY <1>1, <1>2, StartsIs
<1>4. StandsAt(s, i, word) <=> i + 4 <= n + 1 /\ \A k \in 1..4 : s[i + k - 1] = "="
  BY <1>1, <1>2 DEF StandsAt
<1>5. ASSUME i + 4 <= n + 1, \A k \in 1..4 : s[i + k - 1] = "="
      PROVE  title - i >= 4
  <2> SUFFICES ASSUME title - i < 4 PROVE FALSE
    BY <1>1
  <2>1. title \in 1..n /\ title - i + 1 \in 1..4 /\ i + (title - i + 1) - 1 = title
    BY <1>1, <1>5
  <2>2. s[title] = "="
    BY <1>5, <2>1
  <2> QED BY <1>1, <2>1, <2>2
<1>6. ASSUME title - i >= 4
      PROVE  i + 4 <= n + 1 /\ \A k \in 1..4 : s[i + k - 1] = "="
  <2>1. i + 4 <= n + 1 /\ \A k \in 1..4 : i + k - 1 \in i..title-1
    BY <1>1, <1>6
  <2> QED BY <1>1, <2>1
<1>7. StandsAt(s, i, word) <=> title - i >= 4
  BY <1>4, <1>5, <1>6
<1> QED BY <1>3, <1>7 DEF word, title

(* The loop and the regular expression differ at a run of "=" that heads   *)
(* nothing: the one copies it, the other takes four of it for a heading.   *)
LEMMA HeadingCases ==
  ASSUME NEW S, NEW s \in Seq(S), NEW i \in 1..Len(s)
  PROVE  LET title == PastAll(s, i, {"="}) IN
         HeadingSub(s, i) = IF title - i >= 4 /\ WikiHeading(s, i) = Copy(s, i)
                            THEN Replace(title, <<Space>>) ELSE WikiHeading(s, i)
<1> DEFINE n == Len(s)
           title == PastAll(s, i, {"="})
           close == FirstOf(s, title, {"=", "nl"})
           after == PastAll(s, close, {"="})
           Found == title - i >= 2 /\ after - close >= 2
           ends == {j \in i..n : IsHeading(SubSeq(s, i, j))}
<1>1. /\ title \in i..n+1 /\ n \in Nat /\ i \in Nat \ {0}
      /\ \A j \in i..title-1 : j \in 1..n /\ s[j] = "="
      /\ title \in 1..n => s[title] # "="
  BY PastAllIs
<1>2. WikiHeading(s, i) = IF Found THEN Replace(after, <<Space>>) ELSE Copy(s, i)
  BY DEF WikiHeading
<1>3. StartsAt(s, <<"=", "=", "=", "=">>, i) <=> title - i >= 4
  BY FourEq
<1>4. title - i >= 4 /\ WikiHeading(s, i).next = i + 1 => ~ Found
  <2> SUFFICES ASSUME Found, title - i >= 4, WikiHeading(s, i).next = i + 1 PROVE FALSE
    OBVIOUS
  <2>1. WikiHeading(s, i).next = after
    BY <1>2 DEF Replace
  <2>2. close \in title..n+1
    <3>1. title \in 1..n+1
      BY <1>1
    <3> HIDE DEF title
    <3> QED BY <3>1, FirstOfIs
  <2> HIDE DEF title, close, after
  <2> QED BY <1>1, <2>1, <2>2
<1>5. Copy(s, i).next = i + 1
  BY DEF Copy
<1>6. CASE ~ (title - i >= 4 /\ WikiHeading(s, i) = Copy(s, i))
  <2>1. ~ (title - i >= 4 /\ WikiHeading(s, i).next = i + 1)
    BY <1>2, <1>4, <1>6
  <2>2. HeadingSub(s, i) = WikiHeading(s, i)
    BY <1>3, <2>1, HeadingStep
  <2> QED BY <1>6, <2>2
<1>7. CASE title - i >= 4 /\ WikiHeading(s, i) = Copy(s, i)
  <2>1. title - i >= 4 /\ ~ Found
    BY <1>4, <1>5, <1>7
  <2>2. ASSUME NEW j \in ends
        PROVE  j < title
    <3>1. j \in i..n /\ IsHeading(SubSeq(s, i, j))
      OBVIOUS
    <3>2. \/ title - i >= 2 /\ after - close >= 2 /\ title < after /\ j < after
          \/ i + 3 <= j /\ j < title
      <4> HIDE DEF ends, Found
      <4> QED BY <3>1, HeadingEnds
    <3> QED BY <2>1, <3>2
  <2> HIDE DEF title, Found
  <2>3. title - 1 \in ends
    <3> DEFINE w == SubSeq(s, i, title - 1)
               m == title - i
    <3>1. title - 1 \in i..n /\ (title - 1) - i + 1 = m
      BY <1>1, <2>1
    <3>2. Len(w) = m /\ \A k \in 1..m : At(w, k) = s[i + k - 1] /\ w[k] = s[i + k - 1]
      BY <3>1, PartIs
    <3>3. \A k \in 1..m : i + k - 1 \in i..title-1
      BY <1>1
    <3> HIDE DEF w
    <3>4. \A k \in 1..m : At(w, k) = "="
      BY <1>1, <3>2, <3>3
    <3>5. m \in Nat /\ m >= 4
      BY <1>1, <2>1
    <3> HIDE DEF m
    <3>6. AllIn(w, 1, 2, {"="}) /\ AllIn(w, 3, m, {"="})
      <4>1. \A k \in 1..2 : k \in 1..m
        BY <3>5
      <4>2. \A k \in 3..m : k \in 1..m
        BY <3>5
      <4> QED BY <3>4, <4>1, <4>2 DEF AllIn
    <3>7. 2 \in 2..m /\ 3 \in 1..(m - 1) /\ 2 < 3 /\ \A k \in (2 + 1)..(3 - 1) : FALSE
      BY <3>5
    <3>8. IsHeading(w)
      BY <3>2, <3>6, <3>7 DEF IsHeading
    <3> QED BY <3>1, <3>8 DEF w
  <2>4. HeadingSub(s, i) = Instead(s, i, ends, <<Space>>)
    BY DEF HeadingSub
  <2>5. ends \in SUBSET Nat /\ title \in Nat
    BY <1>1
  <2> HIDE DEF ends
  <2>6. ends # {} /\ Max(ends) + 1 = title
    BY <2>2, <2>3, <2>5, LongestEnd
  <2>7. HeadingSub(s, i) = Replace(title, <<Space>>)
    BY <2>4, <2>6 DEF Instead
  <2> QED BY <1>7, <2>7 DEF title
<1> QED BY <1>6, <1>7

(* But EqRun replaces what the loop has left.                              *)
LEMMA HeadingsAlike ==
  ASSUME NEW S, {Space} \subseteq S, NEW s \in Seq(S)
  PROVE  Scan(Scan(s, HeadingSub), EqRun) = Scan(Scan(s, WikiHeading), EqRun)
         /\ Scan(s, HeadingSub) \in Seq(S)
<1> DEFINE n == Len(s)
           stepsA == [i \in 1..n |-> WikiHeading(s, i)]
           stepsB == [i \in 1..n |-> HeadingSub(s, i)]
           Title(i) == PastAll(s, i, {"="})
<1>1. n \in Nat /\ 1 \in 1..n+1 /\ <<Space>> \in Seq(S) /\ <<>> \in Seq(S)
  OBVIOUS
<1>2. ASSUME NEW i \in 1..n
      PROVE  /\ Title(i) \in i..n+1
             /\ \A j \in i..Title(i)-1 : j \in 1..n /\ s[j] = "="
             /\ Title(i) \in 1..n => s[Title(i)] # "="
  <2>1. i \in 1..n+1
    OBVIOUS
  <2> QED BY <2>1, PastAllIs
<1>3. ASSUME NEW i \in 1..n
      PROVE  HeadingSub(s, i) = IF Title(i) - i >= 4 /\ WikiHeading(s, i) = Copy(s, i)
                                THEN Replace(Title(i), <<Space>>) ELSE WikiHeading(s, i)
  BY HeadingCases
<1> HIDE DEF Title
<1>4. AreSteps(stepsA, n, S)
  <2>1. DOMAIN stepsA = 1..n /\ \A i \in 1..n : IsStep(stepsA[i], i, n, S)
    BY StepsAre
  <2> HIDE DEF stepsA
  <2> QED BY <1>1, <2>1, BuiltIs
<1>5. AreSteps(stepsB, n, S) /\ Built(stepsB, n) \in Seq(S)
  <2>1. ASSUME NEW i \in 1..n
        PROVE  IsStep(HeadingSub(s, i), i, n, S)
    <3>1. IsStep(WikiHeading(s, i), i, n, S)
      BY StepsAre
    <3>2. Title(i) - i >= 4 => IsStep(Replace(Title(i), <<Space>>), i, n, S)
      <4>1. Title(i) - i >= 4 => Title(i) \in (i + 1)..(n + 1)
        BY <1>1, <1>2
      <4> QED BY <1>1, <4>1, ReplaceIs
    <3> QED BY <1>3, <3>1, <3>2
  <2>2. DOMAIN stepsB = 1..n /\ \A i \in 1..n : IsStep(stepsB[i], i, n, S)
    BY <2>1
  <2> HIDE DEF stepsB
  <2> QED BY <1>1, <2>2, BuiltIs
<1>6. /\ Scan(s, WikiHeading) = Built(stepsA, n) /\ Scan(s, HeadingSub) = Built(stepsB, n)
      /\ \A i \in 1..n : stepsA[i] = WikiHeading(s, i) /\ stepsB[i] = HeadingSub(s, i)
  BY DEF Scan
<1> HIDE DEF stepsA, stepsB
<1>7. PICK A : IsRest(A, stepsA, n, S) /\ Built(stepsA, n) = A[1]
  BY <1>4, BuiltJoins
<1>8. PICK B : IsRest(B, stepsB, n, S) /\ Built(stepsB, n) = B[1]
  BY <1>5, BuiltJoins
<1>9. /\ A[n + 1] = <<>> /\ B[n + 1] = <<>>
      /\ \A i \in 1..n+1 : A[i] \in Seq(S) /\ B[i] \in Seq(S)
      /\ \A i \in 1..n : /\ A[i] = stepsA[i].out \o A[stepsA[i].next]
                         /\ B[i] = stepsB[i].out \o B[stepsB[i].next]
  BY <1>7, <1>8 DEF IsRest
<1>10. ASSUME NEW i \in 1..n, s[i] # "="
       PROVE  /\ stepsA[i] = Copy(s, i) /\ stepsB[i] = Copy(s, i)
              /\ A[i] = <<s[i]>> \o A[i + 1] /\ B[i] = <<s[i]>> \o B[i + 1]
  <2>1. Title(i) = i
    BY <1>1, <1>2, <1>10
  <2>2. WikiHeading(s, i) = Copy(s, i)
    BY <1>1, <2>1 DEF WikiHeading, Title
  <2>3. HeadingSub(s, i) = WikiHeading(s, i)
    BY <1>1, <1>3, <2>1
  <2>4. Copy(s, i).out = <<s[i]>> /\ Copy(s, i).next = i + 1
    BY DEF Copy
  <2> QED BY <1>6, <1>9, <2>2, <2>3, <2>4
<1>11. ASSUME NEW i \in 1..n
       PROVE  \/ WikiHeading(s, i) = Copy(s, i)
              \/ \E after \in (i + 1)..(n + 1) : WikiHeading(s, i) = Replace(after, <<Space>>)
  <2>1. WikiHeading(s, i).next \in (i + 1)..(n + 1)
    BY StepsAre DEF IsStep
  <2>2. WikiHeading(s, i) = Copy(s, i)
          \/ \E after : WikiHeading(s, i) = Replace(after, <<Space>>)
    BY DEF WikiHeading
  <2>3. \A after : Replace(after, <<Space>>).next = after
    BY DEF Replace
  <2> QED BY <2>1, <2>2, <2>3
<1> DEFINE H == {i \in 1..n+1 : Scan(A[i], EqRun) = Scan(B[i], EqRun)}
<1>12. n + 1 \in H
  BY <1>1, <1>9
<1>13. ASSUME NEW i \in 1..n, \A j \in (i + 1)..(n + 1) : j \in H
       PROVE  i \in H
  <2>1. i \in 1..n+1 /\ i + 1 \in 1..n+1 /\ i + 1 \in (i + 1)..(n + 1) /\ s[i] \in S
    BY <1>1
  <2>2. CASE s[i] # "="
    <3>1. A[i] = <<s[i]>> \o A[i + 1] /\ B[i] = <<s[i]>> \o B[i + 1]
      BY <1>10, <2>2
    <3>2. A[i + 1] \in Seq(S) /\ B[i + 1] \in Seq(S) /\ i + 1 \in H
      BY <1>9, <1>13, <2>1
    <3>3. /\ Scan(A[i], EqRun) = <<s[i]>> \o Scan(A[i + 1], EqRun)
          /\ Scan(B[i], EqRun) = <<s[i]>> \o Scan(B[i + 1], EqRun)
      BY <2>1, <2>2, <3>1, <3>2, FirstCopied
    <3> QED BY <2>1, <3>2, <3>3
  <2>3. CASE s[i] = "=" /\ WikiHeading(s, i) # Copy(s, i)
    <3>1. PICK after \in (i + 1)..(n + 1) : WikiHeading(s, i) = Replace(after, <<Space>>)
      BY <1>11, <2>3
    <3>2. stepsA[i] = Replace(after, <<Space>>) /\ stepsB[i] = Replace(after, <<Space>>)
      BY <1>3, <1>6, <2>3, <3>1
    <3>3. Replace(after, <<Space>>).out = <<Space>> /\ Replace(after, <<Space>>).next = after
      BY DEF Replace
    <3>4. A[i] = <<Space>> \o A[after] /\ B[i] = <<Space>> \o B[after]
      BY <1>9, <3>2, <3>3
    <3>5. after \in 1..n+1 /\ after \in H
      BY <1>13, <3>1
    <3>6. A[after] \in Seq(S) /\ B[after] \in Seq(S) /\ Space \in S /\ Space # "="
      BY <1>9, <3>5 DEF Space
    <3>7. /\ Scan(A[i], EqRun) = <<Space>> \o Scan(A[after], EqRun)
          /\ Scan(B[i], EqRun) = <<Space>> \o Scan(B[after], EqRun)
      BY <3>4, <3>6, FirstCopied
    <3> QED BY <2>1, <3>5, <3>7
  <2>4. CASE s[i] = "=" /\ WikiHeading(s, i) = Copy(s, i)
    <3> DEFINE t == Title(i)
               u == SubSeq(s, i, t - 1)
    <3>1. /\ t \in i..n+1
          /\ \A j \in i..t-1 : j \in 1..n /\ s[j] = "="
          /\ t \in 1..n => s[t] # "="
      BY <1>2
    <3>2. t > i
      BY <2>1, <2>4, <3>1
    <3>3. t \in 1..n+1 /\ t \in (i + 1)..(n + 1) /\ t - 1 \in i..n
      BY <1>1, <3>1, <3>2
    <3>4. u \in Seq(S) /\ Len(u) = t - i /\ u # <<>> /\ \A k \in 1..Len(u) : u[k] = "="
      <4>1. u \in Seq(S) /\ Len(u) = (t - 1) - i + 1
            /\ \A k \in 1..(t - 1)-i+1 : u[k] = s[i + k - 1]
        <5> HIDE DEF t
        <5> QED BY <3>3, PartIs
      <4>2. (t - 1) - i + 1 = t - i /\ \A k \in 1..t-i : i + k - 1 \in i..t-1
        BY <1>1, <3>1
      <4> HIDE DEF u, t
      <4>3. Len(u) = t - i /\ \A k \in 1..t-i : u[k] = s[i + k - 1]
        BY <4>1, <4>2
      <4>4. \A k \in 1..Len(u) : u[k] = "="
        BY <3>1, <4>2, <4>3
      <4>5. u # <<>>
        BY <3>1, <3>2, <4>3
      <4> QED BY <4>1, <4>3, <4>4, <4>5
    <3>5. t \in H /\ A[t] \in Seq(S) /\ B[t] \in Seq(S)
      BY <1>9, <1>13, <3>3
    <3>6. (A[t] = <<>> \/ A[t][1] # "=") /\ (B[t] = <<>> \/ B[t][1] # "=")
      <4>1. CASE t = n + 1
        BY <1>9, <4>1
      <4>2. CASE t \in 1..n
        <5>1. A[t] = <<s[t]>> \o A[t + 1] /\ B[t] = <<s[t]>> \o B[t + 1]
          BY <1>10, <3>1, <4>2
        <5>2. t + 1 \in 1..n+1
          BY <4>2
        <5>3. A[t + 1] \in Seq(S) /\ B[t + 1] \in Seq(S) /\ s[t] \in S
          BY <1>9, <4>2, <5>2
        <5>4. A[t][1] = s[t] /\ B[t][1] = s[t]
          BY <5>1, <5>3
        <5> QED BY <3>1, <4>2, <5>4
      <4> QED BY <1>1, <3>3, <4>1, <4>2
    <3>7. \A j \in i..t-1 : stepsA[j] = Copy(s, j)
      <4>1. ASSUME NEW j \in i..t-1
            PROVE  WikiHeading(s, j) = Copy(s, j) /\ j \in 1..n
        <5>1. j \in 1..n /\ j \in 1..n+1 /\ t \in j..n+1 /\ \A m \in j..t-1 : m \in i..t-1
          BY <1>1, <3>1
        <5>2. PastAll(s, j, {"="}) = t
          <6>1. \A m \in j..t-1 : s[m] \in {"="}
            BY <3>1, <5>1
          <6>2. t = Len(s) + 1 \/ s[t] \notin {"="}
            BY <1>1, <3>1, <3>3
          <6> HIDE DEF t
          <6> QED BY <5>1, <6>1, <6>2, PastAllAt
        <5> DEFINE close == FirstOf(s, t, {"=", "nl"})
                   after == PastAll(s, close, {"="})
        <5>3. ~ (t - i >= 2 /\ after - close >= 2)
          <6> SUFFICES ASSUME t - i >= 2 /\ after - close >= 2 PROVE FALSE
            OBVIOUS
          <6>1. WikiHeading(s, i) = Replace(after, <<Space>>)
            BY DEF WikiHeading, Title
          <6>2. Replace(after, <<Space>>).out = <<Space>> /\ Copy(s, i).out = <<s[i]>>
            BY DEF Replace, Copy
          <6>3. <<Space>> # <<s[i]>>
            <7>1. Space # s[i]
              BY <2>4 DEF Space
            <7> QED BY <7>1
          <6> QED BY <2>4, <6>1, <6>2, <6>3
        <5>4. WikiHeading(s, j) = IF t - j >= 2 /\ after - close >= 2
                                  THEN Replace(after, <<Space>>) ELSE Copy(s, j)
          BY <5>2 DEF WikiHeading
        <5> HIDE DEF after, close, t
        <5>5. t - j >= 2 => t - i >= 2
          BY <1>1, <3>1, <5>1
        <5> QED BY <5>1, <5>3, <5>4, <5>5
      <4> QED BY <1>6, <4>1
    <3>8. A[i] = u \o A[t]
      <4>1. IsCopied(A, stepsA, s, S, i, t)
        BY <1>7, <2>1, <3>1, <3>7 DEF IsCopied
      <4>2. IsJoint(A[i], u, A[t])
        <5> HIDE DEF t
        <5> QED BY <4>1, RunCopied
      <4> QED BY <4>2 DEF IsJoint
    <3>9. Scan(A[i], EqRun) = (IF Len(u) >= 2 THEN <<Space>> ELSE u) \o Scan(A[t], EqRun)
      <4> HIDE DEF t, u
      <4> QED BY <3>4, <3>5, <3>6, <3>8, RunReplaced
    <3>10. CASE t - i >= 4
      <4>1. stepsB[i] = Replace(t, <<Space>>)
        BY <1>3, <1>6, <2>4, <3>10
      <4>2. Replace(t, <<Space>>).out = <<Space>> /\ Replace(t, <<Space>>).next = t
        BY DEF Replace
      <4>3. B[i] = <<Space>> \o B[t] /\ Space \in S /\ Space # "="
        BY <1>9, <4>1, <4>2 DEF Space
      <4>4. Scan(B[i], EqRun) = <<Space>> \o Scan(B[t], EqRun)
        BY <3>5, <4>3, FirstCopied
      <4>5. Len(u) >= 2
        <5> HIDE DEF t, u
        <5> QED BY <1>1, <3>1, <3>4, <3>10
      <4> QED BY <2>1, <3>5, <3>9, <4>4, <4>5
    <3>11. CASE ~ (t - i >= 4)
      <4>1. \A j \in i..t-1 : stepsB[j] = Copy(s, j)
        <5>1. ASSUME NEW j \in i..t-1
              PROVE  stepsB[j] = Copy(s, j)
          <6>1. j \in 1..n
            BY <3>1
          <6>2. Title(j) = t
            <7>1. j \in 1..n+1 /\ t \in j..n+1 /\ \A m \in j..t-1 : m \in i..t-1
              BY <1>1, <3>1, <6>1
            <7>2. \A m \in j..t-1 : s[m] \in {"="}
              BY <3>1, <7>1
            <7>3. t = Len(s) + 1 \/ s[t] \notin {"="}
              BY <1>1, <3>1, <3>3
            <7> HIDE DEF t
            <7> QED BY <7>1, <7>2, <7>3, PastAllAt DEF Title
          <6> HIDE DEF t
          <6>3. ~ (Title(j) - j >= 4)
            BY <1>1, <3>1, <3>11, <6>2
          <6> QED BY <1>3, <1>6, <3>7, <6>1, <6>3
        <5> QED BY <5>1
      <4>2. B[i] = u \o B[t]
        <5>1. IsCopied(B, stepsB, s, S, i, t)
          BY <1>8, <2>1, <3>1, <4>1 DEF IsCopied
        <5>2. IsJoint(B[i], u, B[t])
          <6> HIDE DEF t
          <6> QED BY <5>1, RunCopied
        <5> QED BY <5>2 DEF IsJoint
      <4>3. Scan(B[i], EqRun) = (IF Len(u) >= 2 THEN <<Space>> ELSE u) \o Scan(B[t], EqRun)
        <5> HIDE DEF t, u
        <5> QED BY <3>4, <3>5, <3>6, <4>2, RunReplaced
      <4> QED BY <2>1, <3>5, <3>9, <4>3
    <3> QED BY <3>10, <3>11
  <2> QED BY <2>2, <2>3, <2>4
<1>14. 1 \in H
  <2> HIDE DEF H
  <2>1. \A i \in 1..n+1 : i \in H
    BY <1>1, <1>12, <1>13, Downwards
  <2> QED BY <1>1, <2>1
<1> QED BY <1>5, <1>6, <1>7, <1>8, <1>14

--------------------------------------------------------------------------------
(* The marks are gone alike on both sides.                                 *)

(* Where there is no bracket, neither side finds anything to replace.      *)
LEMMA NoBracketStep ==
  ASSUME NEW S, NEW s \in Seq(S), NEW i \in 1..Len(s), s[i] \notin {"[", "<"}
  PROVE  /\ EditSub(s, i) = Copy(s, i) /\ WikiEdit(s, i) = Copy(s, i)
         /\ LinkSub(s, i) = Copy(s, i) /\ WikiLink(s, i) = Copy(s, i)
         /\ RefSub(s, i) = Copy(s, i) /\ WikiRef(s, i) = Copy(s, i)
<1>1. Len(s) \in Nat /\ i \in Nat \ {0} /\ s[i] # "[" /\ s[i] # "<"
  OBVIOUS
<1>2. ASSUME NEW j \in i..Len(s)
      PROVE  LET w == SubSeq(s, i, j) IN ~ IsEdit(w) /\ ~ IsLink(w) /\ ~ IsRef(w)
  <2> DEFINE w == SubSeq(s, i, j)
  <2>1. w \in Seq(S) /\ Len(w) = j - i + 1 /\ \A k \in 1..j-i+1 : w[k] = s[i + k - 1]
    BY PartIs
  <2>2. 1 \in 1..j-i+1 /\ i + 1 - 1 = i
    BY <1>1
  <2>3. w[1] = s[i]
    BY <2>1, <2>2
  <2> HIDE DEF w
  <2>4. ~ IsEdit(w)
    BY <1>1, <2>3 DEF IsEdit
  <2>5. ~ StartsAt(w, <<"[", "[">>, 1) /\ ~ StartsAt(w, <<"<", "ref">>, 1)
    BY <1>1, <2>1, <2>3, PairIs
  <2>6. ~ IsLink(w)
    BY <2>5 DEF IsLink
  <2>7. ~ IsRef(w)
    BY <1>1, <2>3, <2>5 DEF IsRef, IsNumber
  <2> QED BY <2>4, <2>6, <2>7 DEF w
<1>3. /\ {j \in i..Len(s) : IsEdit(SubSeq(s, i, j))} = {}
      /\ {j \in i..Len(s) : IsLink(SubSeq(s, i, j))} = {}
      /\ {j \in i..Len(s) : IsRef(SubSeq(s, i, j))} = {}
  BY <1>2
<1>4. /\ EditSub(s, i) = Copy(s, i) /\ RefSub(s, i) = Copy(s, i)
      /\ LinkSub(s, i) = Copy(s, i)
  <2>1. EditSub(s, i) = Copy(s, i)
    BY <1>3 DEF EditSub, Instead
  <2>2. RefSub(s, i) = Copy(s, i)
    BY <1>3 DEF RefSub, Instead
  <2>3. LinkSub(s, i) = Copy(s, i)
    BY <1>3 DEF LinkSub, Instead
  <2> QED BY <2>1, <2>2, <2>3
<1>5. WikiEdit(s, i) = Copy(s, i)
  BY <1>1 DEF WikiEdit
<1>6. ~ StartsAt(s, <<"[", "[">>, i) /\ ~ StartsAt(s, <<"<", "ref">>, i)
  BY <1>1, PairIs
<1>7. WikiLink(s, i) = Copy(s, i)
  BY <1>6 DEF WikiLink
<1>8. WikiRef(s, i) = Copy(s, i)
  BY <1>1, <1>6 DEF WikiRef
<1> QED BY <1>4, <1>5, <1>7, <1>8

(* So all these loops leave such a text as it is.                          *)
LEMMA NoBracketScan ==
  ASSUME NEW S, NEW s \in Seq(S), "[" \notin S, "<" \notin S
  PROVE  /\ Scan(s, EditSub) = s /\ Scan(s, WikiEdit) = s
         /\ Scan(s, LinkSub) = s /\ Scan(s, WikiLink) = s
         /\ Scan(s, RefSub) = s /\ Scan(s, WikiRef) = s
<1>1. \A i \in 1..Len(s) : s[i] \notin {"[", "<"}
  OBVIOUS
<1>2. ASSUME NEW steps, DOMAIN steps = 1..Len(s), \A i \in 1..Len(s) : steps[i] = Copy(s, i)
      PROVE  Built(steps, Len(s)) = s
  BY <1>2, CopiesBuild
<1>3. Scan(s, EditSub) = s
  <2> DEFINE steps == [i \in 1..Len(s) |-> EditSub(s, i)]
  <2>1. DOMAIN steps = 1..Len(s) /\ \A i \in 1..Len(s) : steps[i] = Copy(s, i)
    BY <1>1, NoBracketStep
  <2>2. Scan(s, EditSub) = Built(steps, Len(s))
    BY DEF Scan
  <2> HIDE DEF steps
  <2> QED BY <1>2, <2>1, <2>2
<1>4. Scan(s, WikiEdit) = s
  <2> DEFINE steps == [i \in 1..Len(s) |-> WikiEdit(s, i)]
  <2>1. DOMAIN steps = 1..Len(s) /\ \A i \in 1..Len(s) : steps[i] = Copy(s, i)
    BY <1>1, NoBracketStep
  <2>2. Scan(s, WikiEdit) = Built(steps, Len(s))
    BY DEF Scan
  <2> HIDE DEF steps
  <2> QED BY <1>2, <2>1, <2>2
<1>5. Scan(s, LinkSub) = s
  <2> DEFINE steps == [i \in 1..Len(s) |-> LinkSub(s, i)]
  <2>1. DOMAIN steps = 1..Len(s) /\ \A i \in 1..Len(s) : steps[i] = Copy(s, i)
    BY <1>1, NoBracketStep
  <2>2. Scan(s, LinkSub) = Built(steps, Len(s))
    BY DEF Scan
  <2> HIDE DEF steps
  <2> QED BY <1>2, <2>1, <2>2
<1>6. Scan(s, WikiLink) = s
  <2> DEFINE steps == [i \in 1..Len(s) |-> WikiLink(s, i)]
  <2>1. DOMAIN steps = 1..Len(s) /\ \A i \in 1..Len(s) : steps[i] = Copy(s, i)
    BY <1>1, NoBracketStep
  <2>2. Scan(s, WikiLink) = Built(steps, Len(s))
    BY DEF Scan
  <2> HIDE DEF steps
  <2> QED BY <1>2, <2>1, <2>2
<1>7. Scan(s, RefSub) = s
  <2> DEFINE steps == [i \in 1..Len(s) |-> RefSub(s, i)]
  <2>1. DOMAIN steps = 1..Len(s) /\ \A i \in 1..Len(s) : steps[i] = Copy(s, i)
    BY <1>1, NoBracketStep
  <2>2. Scan(s, RefSub) = Built(steps, Len(s))
    BY DEF Scan
  <2> HIDE DEF steps
  <2> QED BY <1>2, <2>1, <2>2
<1>8. Scan(s, WikiRef) = s
  <2> DEFINE steps == [i \in 1..Len(s) |-> WikiRef(s, i)]
  <2>1. DOMAIN steps = 1..Len(s) /\ \A i \in 1..Len(s) : steps[i] = Copy(s, i)
    BY <1>1, NoBracketStep
  <2>2. Scan(s, WikiRef) = Built(steps, Len(s))
    BY DEF Scan
  <2> HIDE DEF steps
  <2> QED BY <1>2, <2>1, <2>2
<1> QED BY <1>3, <1>4, <1>5, <1>6, <1>7, <1>8

(* The loops for runs are the same on both sides.                          *)
LEMMA RunsAlike ==
  ASSUME NEW S, NEW s \in Seq(S)
  PROVE  /\ Scan(s, EqRunSub) = Scan(s, EqRun)
         /\ Scan(s, SpaceRunSub) = Scan(s, SpaceRun)
<1>1. \A i \in 1..Len(s) : EqRunSub(s, i) = EqRun(s, i) /\ SpaceRunSub(s, i) = SpaceRun(s, i)
  BY EqRunStep, SpaceRunStep
<1>2. /\ [i \in 1..Len(s) |-> EqRunSub(s, i)] = [i \in 1..Len(s) |-> EqRun(s, i)]
      /\ [i \in 1..Len(s) |-> SpaceRunSub(s, i)] = [i \in 1..Len(s) |-> SpaceRun(s, i)]
  BY <1>1
<1> QED BY <1>2 DEF Scan

(* The texts once the marks are gone, on either side.                      *)
Unmarked(s) ==
  Scan(Scan(Scan(Scan(Scan(s, WikiEdit), WikiHeading), WikiLink), WikiRef), EqRun)
(* The same by the daemon's patterns.                                      *)
DaemonUnmarked(s) ==
  Scan(Scan(Scan(Scan(Scan(s, EditSub), HeadingSub), LinkSub), RefSub), EqRunSub)

(* They are the same unless the text a loop meets is odd.                  *)
LEMMA UnmarkedAlike ==
  ASSUME NEW S, {Space} \subseteq S, "end" \notin S, NEW s \in Seq(S),
         NEW edited, edited = Scan(s, WikiEdit),
         NEW headed, headed = Scan(edited, WikiHeading),
         NEW linked, linked = Scan(headed, WikiLink),
         ~ OddEdit(s), ~ OddHeading(edited), ~ OddLink(headed),
         ~ OddNumber(linked), ~ OddRef(linked)
  PROVE  DaemonUnmarked(s) = Unmarked(s) /\ Unmarked(s) \in Seq(S)
<1>1. edited \in Seq(S)
  BY ScansAre
<1>2. headed \in Seq(S)
  BY <1>1, ScansAre
<1>3. linked \in Seq(S)
  BY <1>2, ScansAre
<1> DEFINE cleared == Scan(linked, WikiRef)
<1>4. cleared \in Seq(S)
  BY <1>3, ScansAre
<1>5. Scan(s, EditSub) = edited
  BY EditAlike
<1>6. Unmarked(s) = Scan(cleared, EqRun)
  BY DEF Unmarked
<1>7. Unmarked(s) \in Seq(S)
  <2> HIDE DEF cleared
  <2> QED BY <1>4, <1>6, ScansAre
<1>8. CASE \A i \in DOMAIN edited :
             ~ (StartsAt(edited, <<"=", "=", "=", "=">>, i) /\ WikiHeading(edited, i).next = i + 1)
  <2>1. Scan(edited, HeadingSub) = headed
    <3>1. DOMAIN edited = 1..Len(edited)
      BY <1>1
    <3>2. \A i \in 1..Len(edited) : HeadingSub(edited, i) = WikiHeading(edited, i)
      BY <1>1, <1>8, <3>1, HeadingStep
    <3>3. [i \in 1..Len(edited) |-> HeadingSub(edited, i)]
            = [i \in 1..Len(edited) |-> WikiHeading(edited, i)]
      BY <3>2
    <3> QED BY <3>3 DEF Scan
  <2>2. Scan(headed, LinkSub) = linked
    <3>1. \A i \in 1..Len(headed) : LinkSub(headed, i) = WikiLink(headed, i)
      BY <1>2, LinkStep
    <3>2. [i \in 1..Len(headed) |-> LinkSub(headed, i)]
            = [i \in 1..Len(headed) |-> WikiLink(headed, i)]
      BY <3>1
    <3> QED BY <3>2 DEF Scan
  <2>3. Scan(linked, RefSub) = cleared
    <3>1. \A i \in 1..Len(linked) : RefSub(linked, i) = WikiRef(linked, i)
      BY <1>3, RefStep
    <3>2. [i \in 1..Len(linked) |-> RefSub(linked, i)]
            = [i \in 1..Len(linked) |-> WikiRef(linked, i)]
      BY <3>1
    <3> QED BY <3>2 DEF Scan
  <2> HIDE DEF cleared
  <2>4. Scan(cleared, EqRunSub) = Scan(cleared, EqRun)
    BY <1>4, RunsAlike
  <2>5. DaemonUnmarked(s) = Scan(Scan(Scan(Scan(edited, HeadingSub), LinkSub), RefSub), EqRunSub)
    BY <1>5 DEF DaemonUnmarked
  <2> QED BY <1>6, <1>7, <2>1, <2>2, <2>3, <2>4, <2>5
<1>9. CASE \A i \in DOMAIN edited : edited[i] \notin {"[", "<"}
  <2> DEFINE T == S \ {"[", "<"}
             bare == Scan(edited, HeadingSub)
  <2>1. edited \in Seq(T)
    BY <1>1, <1>9
  <2>2. {Space} \subseteq T /\ "[" \notin T /\ "<" \notin T
    BY DEF Space
  <2> HIDE DEF T
  <2>3. Scan(bare, EqRun) = Scan(headed, EqRun) /\ bare \in Seq(T)
    BY <2>1, <2>2, HeadingsAlike
  <2>4. headed \in Seq(T)
    BY <2>1, <2>2, ScansAre
  <2>5. linked = headed
    BY <2>2, <2>4, NoBracketScan
  <2>6. cleared = headed
    BY <2>2, <2>4, <2>5, NoBracketScan
  <2> HIDE DEF bare, cleared
  <2>7. Scan(bare, LinkSub) = bare /\ Scan(bare, RefSub) = bare
    BY <2>2, <2>3, NoBracketScan
  <2>8. Scan(bare, EqRunSub) = Scan(bare, EqRun)
    BY <2>3, RunsAlike
  <2>9. DaemonUnmarked(s) = Scan(bare, EqRunSub)
    BY <1>5, <2>7 DEF DaemonUnmarked, bare
  <2> QED BY <1>6, <1>7, <2>3, <2>6, <2>8, <2>9
<1> QED BY <1>8, <1>9 DEF OddHeading

--------------------------------------------------------------------------------
(* White space and bullets.                                                *)

(* A text behind one more white space: that at its beginning is one space. *)
Spaced(z) == IF z # <<>> /\ z[1] = Space THEN z ELSE <<Space>> \o z

(* A second space at the beginning changes nothing.                        *)
LEMMA SpacedTwice ==
  ASSUME NEW S, NEW z \in Seq(S)
  PROVE  Spaced(Spaced(z)) = Spaced(z)
<1>1. CASE z # <<>> /\ z[1] = Space
  BY <1>1 DEF Spaced
<1>2. CASE ~ (z # <<>> /\ z[1] = Space)
  <2> DEFINE y == <<Space>> \o z
  <2>1. Spaced(z) = y
    BY <1>2 DEF Spaced
  <2>2. y # <<>> /\ y[1] = Space
    OBVIOUS
  <2> HIDE DEF y
  <2>3. Spaced(y) = y
    BY <2>2 DEF Spaced
  <2> QED BY <2>1, <2>3
<1> QED BY <1>1, <1>2

(* White space and what comes behind it.                                   *)
LEMMA LeadingRun ==
  ASSUME NEW S, NEW x \in Seq(S)
  PROVE  \E u, v \in Seq(S) : /\ x = u \o v /\ \A i \in 1..Len(u) : u[i] \in SpaceLike
                              /\ v = <<>> \/ v[1] \notin SpaceLike
<1> DEFINE p == PastAll(x, 1, SpaceLike)
           u == SubSeq(x, 1, p - 1)
           v == SubSeq(x, p, Len(x))
<1>1. /\ p \in 1..Len(x)+1 /\ Len(x) \in Nat
      /\ \A j \in 1..p-1 : j \in 1..Len(x) /\ x[j] \in SpaceLike
      /\ p \in 1..Len(x) => x[p] \notin SpaceLike
  <2>1. 1 \in 1..Len(x)+1
    OBVIOUS
  <2> QED BY <2>1, PastAllIs
<1> HIDE DEF p
<1>2. u \in Seq(S) /\ Len(u) = p - 1 /\ \A i \in 1..p-1 : u[i] = x[i]
  BY <1>1
<1>3. v \in Seq(S) /\ Len(v) = Len(x) - p + 1 /\ (p \in 1..Len(x) => v[1] = x[p])
  <2>1. CASE p = Len(x) + 1
    BY <1>1, <2>1
  <2>2. CASE p \in 1..Len(x)
    BY <1>1, <2>2
  <2> QED BY <1>1, <2>1, <2>2
<1>4. x = u \o v
  <2> DEFINE m == p - 1
  <2>1. m \in 0..Len(x) /\ m + 1 = p /\ 1 \in 1..m+1 /\ m \in 0..Len(x)
    BY <1>1
  <2>2. x = SubSeq(x, 1, Len(x))
    BY SubSeqFull
  <2>3. SubSeq(x, 1, m) \o SubSeq(x, m + 1, Len(x)) = SubSeq(x, 1, Len(x))
    <3>1. 1 \in 1..Len(x)+1 /\ m \in 1-1..Len(x) /\ Len(x) \in m..Len(x)
      BY <1>1, <2>1
    <3> HIDE DEF m
    <3> QED BY <3>1, ConcatAdjacentSubSeq, Zenon
  <2> QED BY <2>1, <2>2, <2>3
<1>5. v = <<>> \/ v[1] \notin SpaceLike
  <2>1. CASE p = Len(x) + 1
    <3>1. Len(v) = 0
      BY <1>1, <1>3, <2>1
    <3> HIDE DEF v
    <3> QED BY <1>3, <3>1
  <2>2. CASE p \in 1..Len(x)
    BY <1>1, <1>3, <2>2
  <2> QED BY <1>1, <2>1, <2>2
<1>6. \A i \in 1..Len(u) : u[i] \in SpaceLike
  BY <1>1, <1>2
<1> HIDE DEF u, v
<1> QED BY <1>2, <1>3, <1>4, <1>5, <1>6

(* What SpaceRun makes of a text behind one more symbol.                   *)
LEMMA Collapses ==
  ASSUME NEW S, {Space} \subseteq S, NEW x \in Seq(S), NEW c \in SpaceLike, c \in S
  PROVE  Scan(<<c>> \o x, SpaceRun) = Spaced(Scan(x, SpaceRun))
<1>1. PICK u, v \in Seq(S) :
          /\ x = u \o v /\ \A i \in 1..Len(u) : u[i] \in SpaceLike
          /\ v = <<>> \/ v[1] \notin SpaceLike
  BY LeadingRun
<1> DEFINE y == <<c>> \o u
           z == Scan(v, SpaceRun)
<1>2. z \in Seq(S)
  BY ScansAre
<1>3. y \in Seq(S) /\ y # <<>> /\ \A i \in 1..Len(y) : y[i] \in SpaceLike
  BY <1>1
<1>4. <<c>> \o x = y \o v
  <2>1. <<c>> \in Seq(S)
    OBVIOUS
  <2>2. (<<c>> \o u) \o v = <<c>> \o (u \o v)
    BY <2>1, Regrouped
  <2> QED BY <1>1, <2>2
<1>5. v = <<>> => z = <<>>
  <2>1. ASSUME v = <<>> PROVE z = <<>>
    <3> DEFINE steps == [i \in 1..Len(v) |-> SpaceRun(v, i)]
    <3>1. z = Built(steps, Len(v)) /\ DOMAIN steps = 1..Len(v)
          /\ \A i \in 1..Len(v) : steps[i] = Copy(v, i)
      BY <2>1 DEF Scan
    <3> HIDE DEF steps, z
    <3>2. z = v
      BY <3>1, CopiesBuild
    <3> QED BY <2>1, <3>2
  <2> QED BY <2>1
<1>6. v # <<>> => z # <<>> /\ z[1] # Space
  <2> SUFFICES ASSUME v # <<>> PROVE z # <<>> /\ z[1] # Space
    OBVIOUS
  <2> DEFINE d == Head(v)
             w == Tail(v)
  <2>1. d \in S /\ w \in Seq(S) /\ v = <<d>> \o w /\ d = v[1]
    OBVIOUS
  <2> HIDE DEF d, w
  <2>2. d \notin SpaceLike /\ d # Space
    BY <1>1, <2>1 DEF SpaceLike
  <2> DEFINE r == Scan(w, SpaceRun)
  <2>3. r \in Seq(S)
    BY <2>1, ScansAre
  <2>4. z = <<d>> \o r
    BY <2>1, <2>2, FirstCopied
  <2> HIDE DEF r, z
  <2> QED BY <2>1, <2>2, <2>3, <2>4
<1> HIDE DEF y
<1>7. Scan(<<c>> \o x, SpaceRun) = <<Space>> \o z
  <2>1. Scan(y \o v, SpaceRun) = <<Space>> \o Scan(v, SpaceRun)
    BY <1>1, <1>3, RunReplaced
  <2> QED BY <1>4, <2>1
<1>8. CASE u = <<>>
  <2>1. x = v
    BY <1>1, <1>8
  <2>2. Spaced(z) = <<Space>> \o z
    <3> HIDE DEF z
    <3> QED BY <1>5, <1>6 DEF Spaced
  <2> QED BY <1>7, <2>1, <2>2
<1>9. CASE u # <<>>
  <2>1. Scan(x, SpaceRun) = <<Space>> \o z
    BY <1>1, <1>9, RunReplaced
  <2>2. Spaced(<<Space>> \o z) = <<Space>> \o z
    <3> DEFINE q == <<Space>> \o z
    <3> HIDE DEF z
    <3>1. q # <<>> /\ q[1] = Space
      BY <1>2
    <3> HIDE DEF q
    <3>2. Spaced(q) = q
      BY <3>1 DEF Spaced
    <3> QED BY <3>2 DEF q
  <2> QED BY <1>7, <2>1, <2>2
<1> QED BY <1>8, <1>9

(* Bullets from i on, up to white space or the end.                        *)
BulletAt(s, i) ==
  LET after == PastAll(s, i, {"*"})
  IN after > i /\ At(s, after) \in SpaceLike \cup {"end"}

(* The bullets the loop knows, which have the usual white space around.    *)
AsciiBullet(s, i) ==
  LET first == IF s[i] \in SpaceLike THEN i + 1 ELSE i
      after == PastAll(s, first, {"*"})
  IN IF /\ i = 1 \/ s[i] \in SpaceLike
        /\ after > first
        /\ At(s, after) \in SpaceLike \cup {"end"}
     THEN Replace(after, <<Space>>) ELSE Copy(s, i)

(* If no bullet is odd, the regular expression knows no other.             *)
LEMMA NoOddBullet ==
  ASSUME NEW S, NEW s \in Seq(S), NEW i \in 1..Len(s), ~ OddBullet(s)
  PROVE  BulletMark(s, i) = AsciiBullet(s, i)
<1> DEFINE Other == {"nl", "cr", "nbsp"}
           n == Len(s)
<1>1. n \in Nat /\ i \in Nat \ {0} /\ DOMAIN s = 1..n
  OBVIOUS
<1>2. \A k \in 1..n : s[k] \in Other => At(s, k - 1) # "*" /\ At(s, k + 1) # "*"
  BY <1>1 DEF OddBullet
<1>3. RegexSpace = SpaceLike \cup Other /\ "*" \notin RegexSpace
  BY DEF RegexSpace, SpaceLike, Space
<1>4. SpaceLike \cap Other = {}
  BY DEF SpaceLike, Space
<1> HIDE DEF n, Other
<1>5. CASE s[i] \in Other
  <2> DEFINE p == PastAll(s, i + 1, {"*"})
             q == PastAll(s, i, {"*"})
  <2>1. i + 1 \in 1..n+1 /\ i \in 1..n+1
    BY <1>1 DEF n
  <2>2. /\ p \in (i + 1)..(n + 1) /\ \A j \in (i + 1)..(p - 1) : j \in 1..n /\ s[j] \in {"*"}
    BY <2>1, PastAllIs DEF n
  <2>3. /\ q \in i..(n + 1) /\ \A j \in i..(q - 1) : j \in 1..n /\ s[j] \in {"*"}
    BY <2>1, PastAllIs DEF n
  <2>4. At(s, i + 1) # "*" /\ s[i] # "*"
    BY <1>2, <1>3, <1>5 DEF n
  <2> HIDE DEF p, q
  <2>5. ~ (p > i + 1)
    <3>1. p > i + 1 => i + 1 \in (i + 1)..(p - 1)
      BY <1>1, <2>2
    <3>2. i + 1 \in 1..n => At(s, i + 1) = s[i + 1]
      BY <1>1 DEF At
    <3> QED BY <2>2, <2>4, <3>1, <3>2
  <2>6. ~ (q > i)
    <3>1. q > i => i \in i..(q - 1)
      BY <1>1, <2>3
    <3> QED BY <2>3, <2>4, <3>1
  <2>7. BulletMark(s, i) = Copy(s, i)
    <3>1. s[i] \in RegexSpace
      BY <1>3, <1>5
    <3> QED BY <2>5, <3>1 DEF BulletMark, p
  <2>8. AsciiBullet(s, i) = Copy(s, i)
    <3>1. s[i] \notin SpaceLike
      BY <1>4, <1>5
    <3> QED BY <2>6, <3>1 DEF AsciiBullet, q
  <2> QED BY <2>7, <2>8
<1>6. CASE s[i] \notin Other
  <2> DEFINE first == IF s[i] \in SpaceLike THEN i + 1 ELSE i
             after == PastAll(s, first, {"*"})
  <2>1. s[i] \in RegexSpace <=> s[i] \in SpaceLike
    BY <1>3, <1>6
  <2>2. first \in 1..n+1 /\ first \in Nat
    BY <1>1 DEF n
  <2>3. BulletMark(s, i) = IF /\ i = 1 \/ s[i] \in SpaceLike
                              /\ after > first
                              /\ At(s, after) \in RegexSpace \cup {"end"}
                           THEN Replace(after, <<Space>>) ELSE Copy(s, i)
    BY <2>1 DEF BulletMark
  <2>4. AsciiBullet(s, i) = IF /\ i = 1 \/ s[i] \in SpaceLike
                               /\ after > first
                               /\ At(s, after) \in SpaceLike \cup {"end"}
                            THEN Replace(after, <<Space>>) ELSE Copy(s, i)
    BY DEF AsciiBullet
  <2> HIDE DEF first
  <2>5. /\ after \in first..(n + 1)
        /\ \A j \in first..(after - 1) : j \in 1..n /\ s[j] \in {"*"}
    BY <2>2, PastAllIs DEF n
  <2> HIDE DEF after
  <2>6. after > first => At(s, after) \notin Other
    <3> SUFFICES ASSUME after > first, At(s, after) \in Other PROVE FALSE
      OBVIOUS
    <3>1. after - 1 \in first..(after - 1)
      BY <2>2, <2>5
    <3>2. s[after - 1] = "*" /\ after - 1 \in 1..n
      BY <2>5, <3>1
    <3>3. At(s, after - 1) = "*"
      BY <1>1, <3>2 DEF At
    <3>4. after \in 1..n /\ At(s, after) = s[after]
      BY <1>1 DEF At, Other
    <3> QED BY <1>2, <3>3, <3>4
  <2> QED BY <1>3, <2>3, <2>4, <2>6
<1> QED BY <1>5, <1>6

(* What both sides replace at a place, said with BulletAt.                 *)
LEMMA BulletsAre ==
  ASSUME NEW S, NEW s \in Seq(S), NEW i \in 1..Len(s), ~ OddBullet(s)
  PROVE  /\ Bullets(s, i) =
              IF (i = 1 \/ s[i - 1] \in SpaceLike) /\ BulletAt(s, i)
              THEN Replace(PastAll(s, i, {"*"}), <<Space>>) ELSE Copy(s, i)
         /\ s[i] \in SpaceLike => BulletMark(s, i) =
              IF BulletAt(s, i + 1)
              THEN Replace(PastAll(s, i + 1, {"*"}), <<Space>>) ELSE Copy(s, i)
         /\ s[i] \notin SpaceLike => BulletMark(s, i) =
              IF i = 1 /\ BulletAt(s, i)
              THEN Replace(PastAll(s, i, {"*"}), <<Space>>) ELSE Copy(s, i)
         /\ BulletAt(s, i) => s[i] = "*" /\ PastAll(s, i, {"*"}) \in (i + 1)..(Len(s) + 1)
         /\ BulletAt(s, i + 1) => i + 1 \in 1..Len(s)
<1>1. i = 1 \/ i - 1 \in 1..Len(s)
  OBVIOUS
<1>2. i = 1 \/ At(s, i - 1) \in SpaceLike <=> i = 1 \/ s[i - 1] \in SpaceLike
  BY <1>1 DEF At
<1>3. Bullets(s, i) =
        IF (i = 1 \/ s[i - 1] \in SpaceLike) /\ BulletAt(s, i)
        THEN Replace(PastAll(s, i, {"*"}), <<Space>>) ELSE Copy(s, i)
  BY <1>2 DEF Bullets, BulletAt
<1>4. s[i] \in SpaceLike => BulletMark(s, i) =
        IF BulletAt(s, i + 1)
        THEN Replace(PastAll(s, i + 1, {"*"}), <<Space>>) ELSE Copy(s, i)
  BY NoOddBullet DEF AsciiBullet, BulletAt
<1>5. s[i] \notin SpaceLike => BulletMark(s, i) =
        IF i = 1 /\ BulletAt(s, i)
        THEN Replace(PastAll(s, i, {"*"}), <<Space>>) ELSE Copy(s, i)
  BY NoOddBullet DEF AsciiBullet, BulletAt
<1>6. BulletAt(s, i) => s[i] = "*" /\ PastAll(s, i, {"*"}) \in (i + 1)..(Len(s) + 1)
  <2> DEFINE p == PastAll(s, i, {"*"})
  <2>1. i \in 1..Len(s)+1
    OBVIOUS
  <2>2. /\ p \in i..Len(s)+1
        /\ \A j \in i..p-1 : j \in 1..Len(s) /\ s[j] \in {"*"}
    BY <2>1, PastAllIs
  <2>3. BulletAt(s, i) => p > i
    BY DEF BulletAt
  <2> HIDE DEF p
  <2> QED BY <2>2, <2>3 DEF p
<1>7. BulletAt(s, i + 1) => i + 1 \in 1..Len(s)
  <2> DEFINE k == i + 1
             p == PastAll(s, k, {"*"})
  <2>1. k \in 1..Len(s)+1
    OBVIOUS
  <2> HIDE DEF k
  <2>2. p \in k..Len(s)+1
    BY <2>1, PastAllIs
  <2>3. BulletAt(s, k) => p > k
    BY DEF BulletAt
  <2>4. BulletAt(s, k) => k \in 1..Len(s)
    <3> HIDE DEF p
    <3> QED BY <2>1, <2>2, <2>3
  <2> QED BY <2>4 DEF k
<1> QED BY <1>3, <1>4, <1>5, <1>6, <1>7

(* The regular expression takes the space before bullets along, the loop   *)
(* leaves it: once spaces are collapsed that is the same.                  *)
LEMMA BulletsAlike ==
  ASSUME NEW S, {Space} \subseteq S, NEW s \in Seq(S), ~ OddBullet(s)
  PROVE  Scan(Scan(s, BulletMark), SpaceRun) = Scan(Scan(s, Bullets), SpaceRun)
<1> DEFINE n == Len(s)
           stepsA == [i \in 1..n |-> Bullets(s, i)]
           stepsB == [i \in 1..n |-> BulletMark(s, i)]
           After(i) == PastAll(s, i, {"*"})
           Marked(i) == i \in 2..n /\ s[i - 1] \in SpaceLike /\ BulletAt(s, i)
<1>1. n \in Nat /\ 1 \in 1..n+1 /\ Space \in S /\ Space \in SpaceLike
  BY DEF SpaceLike
<1>2. AreSteps(stepsA, n, S) /\ AreSteps(stepsB, n, S)
  <2>1. /\ DOMAIN stepsA = 1..n /\ \A i \in 1..n : IsStep(stepsA[i], i, n, S)
        /\ DOMAIN stepsB = 1..n /\ \A i \in 1..n : IsStep(stepsB[i], i, n, S)
    BY StepsAre
  <2> HIDE DEF stepsA, stepsB
  <2> QED BY <1>1, <2>1, BuiltIs
<1>3. /\ Scan(s, Bullets) = Built(stepsA, n) /\ Scan(s, BulletMark) = Built(stepsB, n)
      /\ \A i \in 1..n : stepsA[i] = Bullets(s, i) /\ stepsB[i] = BulletMark(s, i)
  BY DEF Scan
<1> HIDE DEF stepsA, stepsB
<1>4. PICK A : IsRest(A, stepsA, n, S) /\ Built(stepsA, n) = A[1]
  BY <1>2, BuiltJoins
<1>5. PICK B : IsRest(B, stepsB, n, S) /\ Built(stepsB, n) = B[1]
  BY <1>2, BuiltJoins
<1>6. /\ A[n + 1] = <<>> /\ B[n + 1] = <<>>
      /\ \A i \in 1..n+1 : A[i] \in Seq(S) /\ B[i] \in Seq(S)
      /\ \A i \in 1..n : /\ A[i] = stepsA[i].out \o A[stepsA[i].next]
                         /\ B[i] = stepsB[i].out \o B[stepsB[i].next]
  BY <1>4, <1>5 DEF IsRest
<1>7. ASSUME NEW i \in 1..n
      PROVE  /\ Bullets(s, i) = Copy(s, i) => A[i] = <<s[i]>> \o A[i + 1]
             /\ BulletMark(s, i) = Copy(s, i) => B[i] = <<s[i]>> \o B[i + 1]
             /\ \A p : Bullets(s, i) = Replace(p, <<Space>>) => A[i] = <<Space>> \o A[p]
             /\ \A p : BulletMark(s, i) = Replace(p, <<Space>>) => B[i] = <<Space>> \o B[p]
  <2>1. Copy(s, i).out = <<s[i]>> /\ Copy(s, i).next = i + 1
    BY DEF Copy
  <2>2. \A p : Replace(p, <<Space>>).out = <<Space>> /\ Replace(p, <<Space>>).next = p
    BY DEF Replace
  <2>3. /\ A[i] = Bullets(s, i).out \o A[Bullets(s, i).next]
        /\ B[i] = BulletMark(s, i).out \o B[BulletMark(s, i).next]
    BY <1>3, <1>6
  <2>4. Bullets(s, i) = Copy(s, i) => A[i] = <<s[i]>> \o A[i + 1]
    BY <2>1, <2>3
  <2>5. BulletMark(s, i) = Copy(s, i) => B[i] = <<s[i]>> \o B[i + 1]
    BY <2>1, <2>3
  <2>6. ASSUME NEW p, Bullets(s, i) = Replace(p, <<Space>>) PROVE A[i] = <<Space>> \o A[p]
    BY <2>2, <2>3, <2>6
  <2>7. ASSUME NEW p, BulletMark(s, i) = Replace(p, <<Space>>) PROVE B[i] = <<Space>> \o B[p]
    BY <2>2, <2>3, <2>7
  <2> QED BY <2>4, <2>5, <2>6, <2>7
<1>8. ASSUME NEW i \in 1..n
      PROVE  /\ Bullets(s, i) = IF (i = 1 \/ s[i - 1] \in SpaceLike) /\ BulletAt(s, i)
                                THEN Replace(After(i), <<Space>>) ELSE Copy(s, i)
             /\ s[i] \in SpaceLike => BulletMark(s, i) =
                  IF BulletAt(s, i + 1) THEN Replace(After(i + 1), <<Space>>) ELSE Copy(s, i)
             /\ s[i] \notin SpaceLike => BulletMark(s, i) =
                  IF i = 1 /\ BulletAt(s, i) THEN Replace(After(i), <<Space>>) ELSE Copy(s, i)
             /\ BulletAt(s, i) => s[i] = "*" /\ After(i) \in (i + 1)..(n + 1)
             /\ BulletAt(s, i + 1) => i + 1 \in 1..n
  BY BulletsAre
<1>9. ASSUME NEW i \in 1..n, BulletAt(s, i)
      PROVE  After(i) \in (i + 1)..(n + 1) /\ ~ Marked(After(i))
  <2>1. i \in 1..n+1
    BY <1>1
  <2>2. After(i) \in (i + 1)..(n + 1) /\ (After(i) \in 1..n => s[After(i)] # "*")
    BY <1>8, <1>9, <2>1, PastAllIs
  <2> HIDE DEF After
  <2>3. Marked(After(i)) => FALSE
    <3>1. Marked(After(i)) => After(i) \in 1..n /\ BulletAt(s, After(i))
      BY <1>1
    <3> HIDE DEF Marked
    <3> QED BY <1>8, <2>2, <3>1
  <2> QED BY <2>2, <2>3
<1> HIDE DEF After
<1>10. "*" \notin SpaceLike
  BY DEF SpaceLike, Space
<1> DEFINE H == {i \in 1..n+1 : Marked(i) \/ Scan(A[i], SpaceRun) = Scan(B[i], SpaceRun)}
<1>11. n + 1 \in H
  BY <1>1, <1>6
<1>12. ASSUME NEW i \in 1..n, \A j \in (i + 1)..(n + 1) : j \in H
       PROVE  i \in H
  <2> SUFFICES ASSUME ~ Marked(i)
               PROVE  Scan(A[i], SpaceRun) = Scan(B[i], SpaceRun)
    BY <1>1
  <2>1. i + 1 \in 1..n+1 /\ i + 1 \in (i + 1)..(n + 1) /\ i \in Nat /\ s[i] \in S
    BY <1>1
  <2>2. ASSUME NEW j \in (i + 1)..(n + 1), ~ Marked(j)
        PROVE  /\ j \in 1..n+1 /\ A[j] \in Seq(S) /\ B[j] \in Seq(S)
               /\ Scan(A[j], SpaceRun) = Scan(B[j], SpaceRun)
    <3>1. j \in 1..n+1
      BY <1>1
    <3>2. j \in H
      BY <1>12
    <3> QED BY <1>6, <2>2, <3>1, <3>2
  <2>3. ASSUME NEW c \in SpaceLike, c \in S, NEW x \in Seq(S)
        PROVE  Scan(<<c>> \o x, SpaceRun) = Spaced(Scan(x, SpaceRun))
    BY <2>3, Collapses
  <2>4. CASE s[i] \in SpaceLike /\ BulletAt(s, i + 1)
    <3> DEFINE k == i + 1
               p == After(k)
    <3>1. k \in 1..n /\ s[k - 1] \in SpaceLike
      BY <1>8, <2>1, <2>4
    <3>2. Bullets(s, i) = Copy(s, i)
      BY <1>8, <1>10, <2>4
    <3>3. Bullets(s, k) = Replace(p, <<Space>>) /\ BulletMark(s, i) = Replace(p, <<Space>>)
      <4> HIDE DEF p
      <4>1. BulletAt(s, k)
        BY <2>4
      <4>2. BulletMark(s, i) = Replace(p, <<Space>>)
        BY <1>8, <2>4 DEF p
      <4> HIDE DEF k
      <4> QED BY <1>8, <3>1, <4>1, <4>2 DEF p
    <3>4. p \in (k + 1)..(n + 1) /\ ~ Marked(p)
      BY <1>9, <2>4, <3>1
    <3>5. A[i] = <<s[i]>> \o A[k] /\ A[k] = <<Space>> \o A[p] /\ B[i] = <<Space>> \o B[p]
      <4> HIDE DEF p
      <4> QED BY <1>7, <3>1, <3>2, <3>3
    <3>6. /\ p \in 1..n+1 /\ A[p] \in Seq(S) /\ B[p] \in Seq(S)
          /\ Scan(A[p], SpaceRun) = Scan(B[p], SpaceRun)
      <4>1. p \in (i + 1)..(n + 1)
        BY <2>1, <3>4
      <4> HIDE DEF p, Marked
      <4> QED BY <2>2, <3>4, <4>1
    <3> DEFINE z == Scan(A[p], SpaceRun)
    <3>7. z \in Seq(S)
      BY <3>6, ScansAre
    <3>8. A[k] \in Seq(S)
      BY <1>6, <2>1
    <3>9. Scan(A[k], SpaceRun) = Spaced(z) /\ Scan(B[i], SpaceRun) = Spaced(z)
      <4>1. Scan(<<Space>> \o A[p], SpaceRun) = Spaced(Scan(A[p], SpaceRun))
        BY <1>1, <2>3, <3>6
      <4>2. Scan(<<Space>> \o B[p], SpaceRun) = Spaced(Scan(B[p], SpaceRun))
        BY <1>1, <2>3, <3>6
      <4> QED BY <3>5, <3>6, <4>1, <4>2
    <3>10. Scan(A[i], SpaceRun) = Spaced(Scan(A[k], SpaceRun))
      <4> HIDE DEF k
      <4>1. Scan(<<s[i]>> \o A[k], SpaceRun) = Spaced(Scan(A[k], SpaceRun))
        BY <2>1, <2>4, <2>3, <3>8
      <4> QED BY <3>5, <4>1
    <3>11. Spaced(Spaced(z)) = Spaced(z)
      <4> HIDE DEF z
      <4> QED BY <3>7, SpacedTwice
    <3> QED BY <3>9, <3>10, <3>11
  <2>5. CASE s[i] \in SpaceLike /\ ~ BulletAt(s, i + 1)
    <3>1. Bullets(s, i) = Copy(s, i) /\ BulletMark(s, i) = Copy(s, i)
      BY <1>8, <1>10, <2>5
    <3>2. A[i] = <<s[i]>> \o A[i + 1] /\ B[i] = <<s[i]>> \o B[i + 1]
      BY <1>7, <3>1
    <3>3. ~ Marked(i + 1)
      BY <2>5
    <3>4. /\ A[i + 1] \in Seq(S) /\ B[i + 1] \in Seq(S)
          /\ Scan(A[i + 1], SpaceRun) = Scan(B[i + 1], SpaceRun)
      BY <2>1, <2>2, <3>3
    <3>5. /\ Scan(<<s[i]>> \o A[i + 1], SpaceRun) = Spaced(Scan(A[i + 1], SpaceRun))
          /\ Scan(<<s[i]>> \o B[i + 1], SpaceRun) = Spaced(Scan(B[i + 1], SpaceRun))
      BY <2>1, <2>5, <2>3, <3>4
    <3> QED BY <3>2, <3>4, <3>5
  <2>6. CASE s[i] \notin SpaceLike /\ i = 1 /\ BulletAt(s, i)
    <3> DEFINE p == After(i)
    <3>1. Bullets(s, i) = Replace(p, <<Space>>) /\ BulletMark(s, i) = Replace(p, <<Space>>)
      BY <1>8, <2>6
    <3>2. p \in (i + 1)..(n + 1) /\ ~ Marked(p)
      BY <1>9, <2>6
    <3> HIDE DEF p, Marked
    <3>3. A[i] = <<Space>> \o A[p] /\ B[i] = <<Space>> \o B[p]
      BY <1>7, <3>1
    <3>4. /\ A[p] \in Seq(S) /\ B[p] \in Seq(S)
          /\ Scan(A[p], SpaceRun) = Scan(B[p], SpaceRun)
      BY <2>2, <3>2
    <3>5. /\ Scan(<<Space>> \o A[p], SpaceRun) = Spaced(Scan(A[p], SpaceRun))
          /\ Scan(<<Space>> \o B[p], SpaceRun) = Spaced(Scan(B[p], SpaceRun))
      BY <1>1, <2>3, <3>4
    <3> QED BY <3>3, <3>4, <3>5
  <2>7. CASE s[i] \notin SpaceLike /\ ~ (i = 1 /\ BulletAt(s, i))
    <3>1. Bullets(s, i) = Copy(s, i) /\ BulletMark(s, i) = Copy(s, i)
      <4>1. ~ ((i = 1 \/ s[i - 1] \in SpaceLike) /\ BulletAt(s, i))
        BY <1>1, <2>7
      <4> QED BY <1>8, <2>7, <4>1
    <3>2. A[i] = <<s[i]>> \o A[i + 1] /\ B[i] = <<s[i]>> \o B[i + 1]
      BY <1>7, <3>1
    <3>3. ~ Marked(i + 1)
      <4>1. (i + 1) - 1 = i
        BY <2>1
      <4> QED BY <2>7, <4>1
    <3>4. /\ A[i + 1] \in Seq(S) /\ B[i + 1] \in Seq(S)
          /\ Scan(A[i + 1], SpaceRun) = Scan(B[i + 1], SpaceRun)
      BY <2>1, <2>2, <3>3
    <3>5. /\ Scan(<<s[i]>> \o A[i + 1], SpaceRun) = <<s[i]>> \o Scan(A[i + 1], SpaceRun)
          /\ Scan(<<s[i]>> \o B[i + 1], SpaceRun) = <<s[i]>> \o Scan(B[i + 1], SpaceRun)
      BY <2>1, <2>7, <3>4, FirstCopied
    <3> QED BY <3>2, <3>4, <3>5
  <2> QED BY <2>4, <2>5, <2>6, <2>7
<1>13. 1 \in H
  <2> HIDE DEF H
  <2>1. \A i \in 1..n+1 : i \in H
    BY <1>1, <1>11, <1>12, Downwards
  <2> QED BY <1>1, <2>1
<1>14. ~ Marked(1)
  BY <1>1
<1> QED BY <1>3, <1>4, <1>5, <1>13, <1>14

--------------------------------------------------------------------------------
(* What is not left: two of "=" and two spaces side by side.               *)

(* No two of c stand side by side.                                         *)
NoPair(z, c) == \A k \in 1..(Len(z) - 1) : ~ (z[k] = c /\ z[k + 1] = c)

(* A loop that appends one symbol at each step puts no two of c side by    *)
(* side if where it goes on behind one it appends another.                 *)
LEMMA NoPairBuilt ==
  ASSUME NEW S, NEW n, NEW steps, AreSteps(steps, n, S), NEW put, NEW c,
         \A i \in 1..n : put[i] \in S /\ steps[i].out = <<put[i]>>,
         \A i \in 1..n : put[i] = c /\ steps[i].next \in 1..n => put[steps[i].next] # c
  PROVE  NoPair(Built(steps, n), c)
<1>1. n \in Nat /\ \A i \in 1..n : steps[i].next \in (i + 1)..(n + 1)
  BY DEF AreSteps
<1>2. PICK rest : IsRest(rest, steps, n, S) /\ Built(steps, n) = rest[1]
  BY BuiltJoins
<1>3. /\ rest[n + 1] = <<>> /\ \A i \in 1..n+1 : rest[i] \in Seq(S)
      /\ \A i \in 1..n : rest[i] = <<put[i]>> \o rest[steps[i].next]
  BY <1>2 DEF IsRest
<1> DEFINE Begins(i) == i \in 1..n => rest[i] # <<>> /\ rest[i][1] = put[i]
           H == {i \in 1..n+1 : NoPair(rest[i], c) /\ Begins(i)}
<1>4. n + 1 \in H
  <2>1. n + 1 \in 1..n+1 /\ n + 1 \notin 1..n
    BY <1>1
  <2>2. NoPair(<<>>, c)
    BY DEF NoPair
  <2> QED BY <1>3, <2>1, <2>2
<1>5. ASSUME NEW i \in 1..n, \A j \in (i + 1)..(n + 1) : j \in H
      PROVE  i \in H
  <2> DEFINE k == steps[i].next
             x == rest[k]
             y == rest[i]
  <2>1. k \in (i + 1)..(n + 1) /\ k \in 1..n+1 /\ i \in 1..n+1
    BY <1>1
  <2>2. NoPair(x, c) /\ Begins(k)
    BY <1>5, <2>1
  <2>3. x \in Seq(S) /\ put[i] \in S /\ y = <<put[i]>> \o x
    BY <1>3, <2>1
  <2>4. k \in 1..n \/ x = <<>>
    <3>1. k \in 1..n \/ k = n + 1
      <4> HIDE DEF k
      <4> QED BY <1>1, <2>1
    <3> HIDE DEF k
    <3> QED BY <1>3, <3>1
  <2>5. put[i] = c => (x = <<>> \/ x[1] # c)
    BY <2>2, <2>4
  <2> HIDE DEF x, k, Begins
  <2>6. y # <<>> /\ y[1] = put[i] /\ Len(y) = Len(x) + 1 /\ Len(x) \in Nat
        /\ \A m \in 1..Len(x) : y[m + 1] = x[m]
    BY <2>3
  <2> HIDE DEF y
  <2>7. ASSUME NEW m \in 1..(Len(y) - 1), y[m] = c, y[m + 1] = c
        PROVE  FALSE
    <3>1. m \in 1..Len(x) /\ y[m + 1] = x[m]
      BY <2>6
    <3>2. CASE m = 1
      <4>1. x # <<>> /\ x[1] = c /\ put[i] = c
        BY <2>6, <2>7, <3>1, <3>2
      <4> QED BY <2>5, <4>1
    <3>3. CASE m # 1
      <4>1. m - 1 \in 1..(Len(x) - 1) /\ (m - 1) + 1 = m /\ m - 1 \in 1..Len(x)
        BY <2>6, <3>1, <3>3
      <4>2. x[m - 1] = c /\ x[m] = c
        BY <2>6, <2>7, <3>1, <4>1
      <4> QED BY <2>2, <4>1, <4>2 DEF NoPair
    <3> QED BY <3>2, <3>3
  <2>8. NoPair(y, c)
    BY <2>7 DEF NoPair
  <2>9. Begins(i)
    BY <2>6 DEF Begins, y
  <2> QED BY <2>1, <2>8, <2>9 DEF y
<1>6. 1 \in H
  <2> HIDE DEF H
  <2>1. \A i \in 1..n+1 : i \in H
    BY <1>1, <1>4, <1>5, Downwards
  <2> QED BY <1>1, <2>1
<1> QED BY <1>2, <1>6

(* A step that copies or puts a space.                                     *)
PutsOne(step, s, i) == step = Copy(s, i) \/ \E after : step = Replace(after, <<Space>>)

(* What such a step appends.                                               *)
LEMMA PutIs ==
  ASSUME NEW S, {Space} \subseteq S, NEW s \in Seq(S), NEW i \in 1..Len(s), NEW step,
         PutsOne(step, s, i)
  PROVE  /\ step.out = <<step.out[1]>> /\ step.out[1] \in S
         /\ step = Copy(s, i) => step.out[1] = s[i] /\ step.next = i + 1
         /\ step # Copy(s, i) => step.out[1] = Space
<1>1. Copy(s, i).out = <<s[i]>> /\ Copy(s, i).next = i + 1 /\ s[i] \in S
  BY DEF Copy
<1>2. \A after : Replace(after, <<Space>>).out = <<Space>>
  BY DEF Replace
<1>3. CASE step = Copy(s, i)
  BY <1>1, <1>3
<1>4. CASE step # Copy(s, i)
  BY <1>2, <1>4 DEF PutsOne
<1> QED BY <1>3, <1>4

(* EqRun leaves no two of "=" side by side, and the loops behind it make   *)
(* none; SpaceRun leaves no two spaces.                                    *)
LEMMA EqRunLeavesNone ==
  ASSUME NEW S, {Space} \subseteq S, NEW s \in Seq(S)
  PROVE  NoPair(Scan(s, EqRun), "=")
<1> DEFINE n == Len(s)
           steps == [i \in 1..n |-> EqRun(s, i)]
           put == [i \in 1..n |-> steps[i].out[1]]
<1>1. n \in Nat /\ Space # "=" /\ Scan(s, EqRun) = Built(steps, n)
  <2>1. Space # "="
    BY DEF Space
  <2> QED BY <2>1 DEF Scan
<1>2. AreSteps(steps, n, S)
  <2>1. DOMAIN steps = 1..n /\ \A i \in 1..n : IsStep(steps[i], i, n, S)
    BY StepsAre
  <2> HIDE DEF steps
  <2> QED BY <1>1, <2>1, BuiltIs
<1>3. ASSUME NEW i \in 1..n
      PROVE  /\ PutsOne(EqRun(s, i), s, i) /\ steps[i] = EqRun(s, i)
             /\ EqRun(s, i) = Copy(s, i) /\ s[i] = "=" /\ i + 1 \in 1..n => s[i + 1] # "="
  <2> DEFINE after == PastAll(s, i, {"="})
  <2>1. PutsOne(EqRun(s, i), s, i)
    BY DEF EqRun, PutsOne
  <2>2. /\ after \in i..n+1
        /\ \A j \in i..after-1 : j \in 1..n /\ s[j] \in {"="}
        /\ after \in 1..n => s[after] \notin {"="}
    <3>1. i \in 1..n+1
      OBVIOUS
    <3> QED BY <3>1, PastAllIs
  <2>3. ASSUME EqRun(s, i) = Copy(s, i), s[i] = "=", i + 1 \in 1..n PROVE s[i + 1] # "="
    <3>1. ~ (after - i >= 2)
      <4> SUFFICES ASSUME after - i >= 2 PROVE FALSE
        OBVIOUS
      <4>1. EqRun(s, i) = Replace(after, <<Space>>)
        BY DEF EqRun
      <4>2. Replace(after, <<Space>>).out = <<Space>> /\ Copy(s, i).out = <<s[i]>>
        BY DEF Replace, Copy
      <4>3. <<Space>> # <<s[i]>>
        BY <1>1, <2>3
      <4> QED BY <2>3, <4>1, <4>2, <4>3
    <3> HIDE DEF after
    <3>2. after = i + 1
      <4>1. after # i
        BY <2>2, <2>3
      <4> QED BY <2>2, <3>1, <4>1
    <3> QED BY <2>2, <2>3, <3>2
  <2> QED BY <2>1, <2>3
<1>4. \A i \in 1..n : put[i] \in S /\ steps[i].out = <<put[i]>>
  <2> TAKE i \in 1..n
  <2>1. EqRun(s, i).out = <<EqRun(s, i).out[1]>> /\ EqRun(s, i).out[1] \in S
    BY <1>3, PutIs
  <2> QED BY <2>1
<1>5. ASSUME NEW i \in 1..n, put[i] = "=", steps[i].next \in 1..n
      PROVE  put[steps[i].next] # "="
  <2>1. EqRun(s, i) = Copy(s, i) /\ s[i] = "=" /\ EqRun(s, i).next = i + 1
    <3>1. put[i] = EqRun(s, i).out[1]
      OBVIOUS
    <3> HIDE DEF put, steps
    <3> QED BY <1>1, <1>3, <1>5, <3>1, PutIs
  <2>2. steps[i].next = i + 1 /\ i + 1 \in 1..n /\ s[i + 1] # "="
    BY <1>3, <1>5, <2>1
  <2> DEFINE k == i + 1
  <2>3. put[k] = EqRun(s, k).out[1] /\ k \in 1..n /\ s[k] # "="
    BY <2>2
  <2> HIDE DEF put, steps, k
  <2>4. put[k] # "="
    BY <1>1, <1>3, <2>3, PutIs
  <2> QED BY <2>2, <2>4 DEF k
<1> HIDE DEF steps, put
<1> QED BY <1>1, <1>2, <1>4, <1>5, NoPairBuilt

(* Bullets makes no two of "=" that were not there.                        *)
LEMMA BulletsMakeNone ==
  ASSUME NEW S, {Space} \subseteq S, NEW s \in Seq(S), NoPair(s, "=")
  PROVE  NoPair(Scan(s, Bullets), "=")
<1> DEFINE n == Len(s)
           steps == [i \in 1..n |-> Bullets(s, i)]
           put == [i \in 1..n |-> steps[i].out[1]]
<1>1. n \in Nat /\ Space # "=" /\ Scan(s, Bullets) = Built(steps, n)
  <2>1. Space # "="
    BY DEF Space
  <2> QED BY <2>1 DEF Scan
<1>2. AreSteps(steps, n, S)
  <2>1. DOMAIN steps = 1..n /\ \A i \in 1..n : IsStep(steps[i], i, n, S)
    BY StepsAre
  <2> HIDE DEF steps
  <2> QED BY <1>1, <2>1, BuiltIs
<1>3. ASSUME NEW i \in 1..n
      PROVE  /\ PutsOne(Bullets(s, i), s, i) /\ steps[i] = Bullets(s, i)
             /\ s[i] = "=" /\ i + 1 \in 1..n => s[i + 1] # "="
  <2>1. PutsOne(Bullets(s, i), s, i)
    BY DEF Bullets, PutsOne
  <2>2. i + 1 \in 1..n => i \in 1..(Len(s) - 1)
    BY <1>1
  <2> QED BY <2>1, <2>2 DEF NoPair
<1>4. \A i \in 1..n : put[i] \in S /\ steps[i].out = <<put[i]>>
  <2> TAKE i \in 1..n
  <2>1. Bullets(s, i).out = <<Bullets(s, i).out[1]>> /\ Bullets(s, i).out[1] \in S
    BY <1>3, PutIs
  <2> QED BY <2>1
<1>5. ASSUME NEW i \in 1..n, put[i] = "=", steps[i].next \in 1..n
      PROVE  put[steps[i].next] # "="
  <2>1. s[i] = "=" /\ Bullets(s, i).next = i + 1
    <3>1. put[i] = Bullets(s, i).out[1]
      OBVIOUS
    <3> HIDE DEF put, steps
    <3> QED BY <1>1, <1>3, <1>5, <3>1, PutIs
  <2>2. steps[i].next = i + 1 /\ i + 1 \in 1..n /\ s[i + 1] # "="
    BY <1>3, <1>5, <2>1
  <2> DEFINE k == i + 1
  <2>3. put[k] = Bullets(s, k).out[1] /\ k \in 1..n /\ s[k] # "="
    BY <2>2
  <2> HIDE DEF put, steps, k
  <2>4. put[k] # "="
    BY <1>1, <1>3, <2>3, PutIs
  <2> QED BY <2>2, <2>4 DEF k
<1> HIDE DEF steps, put
<1> QED BY <1>1, <1>2, <1>4, <1>5, NoPairBuilt

(* SpaceRun leaves no two spaces, no tab and no ideographic space, and     *)
(* makes no two of "=".                                                    *)
LEMMA SpaceRunIs ==
  ASSUME NEW S, {Space} \subseteq S, NEW s \in Seq(S)
  PROVE  LET z == Scan(s, SpaceRun) IN
         /\ z \in Seq(S \ {"tab", "wide"}) /\ NoPair(z, Space)
         /\ NoPair(s, "=") => NoPair(z, "=")
<1> DEFINE n == Len(s)
           V == S \ {"tab", "wide"}
           steps == [i \in 1..n |-> SpaceRun(s, i)]
           put == [i \in 1..n |-> steps[i].out[1]]
           After(i) == PastAll(s, i, SpaceLike)
<1>1. /\ n \in Nat /\ Space # "=" /\ Scan(s, SpaceRun) = Built(steps, n)
      /\ Space \in V /\ SpaceLike = {Space, "tab", "wide"}
  <2>1. Space # "=" /\ Space # "tab" /\ Space # "wide"
    BY DEF Space
  <2> QED BY <2>1 DEF Scan, SpaceLike
<1>2. ASSUME NEW i \in 1..n
      PROVE  /\ s[i] \in SpaceLike => SpaceRun(s, i) = Replace(After(i), <<Space>>)
             /\ s[i] \notin SpaceLike => SpaceRun(s, i) = Copy(s, i)
             /\ s[i] \in SpaceLike => After(i) \in (i + 1)..(n + 1)
             /\ After(i) \in 1..n => s[After(i)] \notin SpaceLike
  <2>1. /\ After(i) \in i..n+1
        /\ \A j \in i..After(i)-1 : j \in 1..n /\ s[j] \in SpaceLike
        /\ After(i) \in 1..n => s[After(i)] \notin SpaceLike
    <3>1. i \in 1..n+1
      OBVIOUS
    <3> QED BY <3>1, PastAllIs
  <2>2. SpaceRun(s, i) = IF After(i) > i THEN Replace(After(i), <<Space>>) ELSE Copy(s, i)
    BY DEF SpaceRun
  <2> HIDE DEF After
  <2>3. s[i] \in SpaceLike <=> After(i) > i
    <3>1. s[i] \in SpaceLike => After(i) # i
      BY <2>1
    <3>2. After(i) > i => i \in i..After(i)-1
      BY <2>1
    <3> QED BY <2>1, <3>1, <3>2
  <2> QED BY <1>1, <2>1, <2>2, <2>3
<1> HIDE DEF After
<1>3. ASSUME NEW i \in 1..n
      PROVE  /\ IsStep(steps[i], i, n, V) /\ steps[i].out = <<put[i]>> /\ put[i] \in V
             /\ s[i] \in SpaceLike => put[i] = Space /\ steps[i].next = After(i)
             /\ s[i] \notin SpaceLike => put[i] = s[i] /\ steps[i].next = i + 1
  <2>1. steps[i] = SpaceRun(s, i) /\ put[i] = SpaceRun(s, i).out[1]
    OBVIOUS
  <2> HIDE DEF steps, put
  <2>2. CASE s[i] \in SpaceLike
    <3>1. SpaceRun(s, i).out = <<Space>> /\ SpaceRun(s, i).next = After(i)
      BY <1>2, <2>2 DEF Replace
    <3>2. put[i] = Space
      BY <2>1, <3>1
    <3> QED BY <1>1, <1>2, <2>1, <2>2, <3>1, <3>2 DEF IsStep
  <2>3. CASE s[i] \notin SpaceLike
    <3>1. SpaceRun(s, i).out = <<s[i]>> /\ SpaceRun(s, i).next = i + 1
      BY <1>2, <2>3 DEF Copy
    <3>2. put[i] = s[i] /\ s[i] \in V /\ i + 1 \in (i + 1)..(n + 1)
      BY <1>1, <2>1, <2>3, <3>1
    <3> QED BY <2>1, <2>3, <3>1, <3>2 DEF IsStep
  <2> QED BY <2>2, <2>3
<1>4. AreSteps(steps, n, V) /\ Built(steps, n) \in Seq(V)
  <2>1. DOMAIN steps = 1..n
    OBVIOUS
  <2> HIDE DEF steps, V
  <2> QED BY <1>1, <1>3, <2>1, BuiltIs
<1> HIDE DEF steps, put, V
<1>5. \A i \in 1..n : put[i] \in V /\ steps[i].out = <<put[i]>>
  BY <1>3
<1>6. NoPair(Built(steps, n), Space)
  <2>1. ASSUME NEW i \in 1..n, put[i] = Space, steps[i].next \in 1..n
        PROVE  put[steps[i].next] # Space
    <3>1. s[i] \in SpaceLike
      BY <1>1, <1>3, <2>1
    <3>2. s[steps[i].next] \notin SpaceLike
      BY <1>2, <1>3, <2>1, <3>1
    <3> QED BY <1>1, <1>3, <2>1, <3>2
  <2>2. \A i \in 1..n : put[i] = Space /\ steps[i].next \in 1..n => put[steps[i].next] # Space
    BY <2>1
  <2> QED BY <1>5, <1>4, <2>2, NoPairBuilt
<1>7. ASSUME NoPair(s, "=") PROVE NoPair(Built(steps, n), "=")
  <2>1. ASSUME NEW i \in 1..n, put[i] = "=", steps[i].next \in 1..n
        PROVE  put[steps[i].next] # "="
    <3>1. s[i] = "=" /\ steps[i].next = i + 1
      BY <1>1, <1>3, <2>1
    <3>2. i \in 1..(Len(s) - 1)
      BY <1>1, <2>1, <3>1
    <3>3. s[i + 1] # "="
      BY <1>7, <3>1, <3>2 DEF NoPair
    <3> DEFINE k == i + 1
    <3>4. k \in 1..n /\ s[k] # "="
      BY <2>1, <3>1, <3>3
    <3> HIDE DEF k
    <3>5. put[k] # "="
      BY <1>1, <1>3, <3>4
    <3> QED BY <3>1, <3>5 DEF k
  <2> QED BY <1>5, <1>4, <2>1, NoPairBuilt
<1> QED BY <1>1, <1>4, <1>6, <1>7 DEF V

--------------------------------------------------------------------------------
(* The ends that are trimmed, and the port of the cleaning.                *)

(* What is left of a text from one place to another.                       *)
LEMMA PieceKeeps ==
  ASSUME NEW S, NEW z \in Seq(S), NEW a \in 1..Len(z)+1, NEW b \in (a - 1)..Len(z), NEW c
  PROVE  LET t == SubSeq(z, a, b) IN
         /\ t \in Seq(S) /\ Len(t) = b - a + 1 /\ \A k \in 1..b-a+1 : t[k] = z[a + k - 1]
         /\ NoPair(z, c) => NoPair(t, c)
<1> DEFINE t == SubSeq(z, a, b)
<1>1. a \in Nat /\ b \in Nat /\ Len(z) \in Nat /\ b - a + 1 \in Nat
  OBVIOUS
<1>2. t \in Seq(S) /\ Len(t) = b - a + 1 /\ \A k \in 1..b-a+1 : t[k] = z[a + k - 1]
  <2>1. CASE a <= b
    OBVIOUS
  <2>2. CASE b = a - 1
    <3>1. t = <<>>
      BY <1>1, <2>2, SubSeqEmpty
    <3> HIDE DEF t
    <3>2. Len(t) = 0 /\ t \in Seq(S) /\ b - a + 1 = 0
      BY <1>1, <2>2, <3>1
    <3> QED BY <3>2
  <2> QED BY <1>1, <2>1, <2>2
<1> HIDE DEF t
<1>3. ASSUME NoPair(z, c) PROVE NoPair(t, c)
  <2> SUFFICES ASSUME NEW k \in 1..(Len(t) - 1) PROVE ~ (t[k] = c /\ t[k + 1] = c)
    BY DEF NoPair
  <2> DEFINE m == a + k - 1
  <2>1. k \in 1..b-a+1 /\ k + 1 \in 1..b-a+1 /\ m \in 1..(Len(z) - 1) /\ a + (k + 1) - 1 = m + 1
    BY <1>1, <1>2
  <2>2. t[k] = z[m] /\ t[k + 1] = z[m + 1]
    <3> HIDE DEF m
    <3>1. t[k + 1] = z[a + (k + 1) - 1]
      BY <1>2, <2>1
    <3>2. t[k] = z[m]
      BY <1>2, <2>1 DEF m
    <3> QED BY <2>1, <3>1, <3>2
  <2> HIDE DEF m
  <2> QED BY <1>3, <2>1, <2>2 DEF NoPair
<1> QED BY <1>2, <1>3 DEF t

(* What Trim leaves: its first and its last symbol are to be kept, and no  *)
(* pair is new.                                                            *)
LEMMA TrimIs ==
  ASSUME NEW S, NEW z \in Seq(S), NEW X
  PROVE  /\ Trim(z, X) \in Seq(S)
         /\ Trim(z, X) # <<>> =>
              LET t == Trim(z, X) IN t[1] \notin X /\ t[Len(t)] \notin X
         /\ \A c : NoPair(z, c) => NoPair(Trim(z, X), c)
<1> DEFINE kept == {j \in DOMAIN z : z[j] \notin X}
           t == Trim(z, X)
           n == Len(z)
<1>1. t = IF kept = {} THEN <<>> ELSE SubSeq(z, Min(kept), Max(kept))
  BY DEF Trim
<1>2. n \in Nat /\ kept \in SUBSET (0..n) /\ kept \in SUBSET Nat
      /\ \A j \in kept : j \in 1..n /\ z[j] \notin X
  OBVIOUS
<1> HIDE DEF t, kept
<1>3. CASE kept = {}
  <2>1. t = <<>> /\ <<>> \in Seq(S) /\ \A c : NoPair(<<>>, c)
    BY <1>1, <1>3 DEF NoPair
  <2> QED BY <2>1 DEF t
<1>4. CASE kept # {}
  <2> DEFINE a == Min(kept)
             b == Max(kept)
  <2>1. a \in kept /\ b \in kept /\ a <= b
    BY <1>2, <1>4, LeastIs, GreatestIs
  <2> HIDE DEF a, b
  <2>2. a \in 1..n+1 /\ b \in (a - 1)..n /\ a \in Nat /\ b \in Nat
    BY <1>2, <2>1
  <2>3. t = SubSeq(z, a, b)
    BY <1>1, <1>4 DEF a, b
  <2>4. t \in Seq(S) /\ Len(t) = b - a + 1 /\ \A k \in 1..b-a+1 : t[k] = z[a + k - 1]
    BY <2>2, <2>3, PieceKeeps
  <2>5. \A c : NoPair(z, c) => NoPair(t, c)
    BY <2>2, <2>3, PieceKeeps
  <2>6. t[1] \notin X /\ t[Len(t)] \notin X
    <3>1. 1 \in 1..b-a+1 /\ a + 1 - 1 = a /\ b - a + 1 \in 1..b-a+1 /\ a + (b - a + 1) - 1 = b
      BY <2>1, <2>2
    <3>2. t[1] = z[a] /\ t[Len(t)] = z[b]
      BY <2>4, <3>1
    <3> QED BY <1>2, <2>1, <3>2
  <2> QED BY <2>4, <2>5, <2>6 DEF t
<1> QED BY <1>3, <1>4

(* What LastSentence leaves is the end of a text.                          *)
LEMMA LastSentenceIs ==
  ASSUME NEW S, NEW s \in Seq(S)
  PROVE  \E p \in 1..Len(s)+1 :
           /\ LastSentence(s) = SubSeq(s, p, Len(s))
           /\ \A j \in p..Len(s) : s[j] \notin SentEnd
<1> DEFINE n == Len(s)
           ends == {i \in DOMAIN s : s[i] \in SentEnd} \cup {0}
           e == Max(ends)
           X == {Space, "wide"}
           y == From(s, e + 1)
<1>1. n \in Nat /\ ends \in SUBSET (0..n) /\ ends # {}
      /\ \A j \in ends : j \in 1..n \/ j = 0
  OBVIOUS
<1>2. e \in 0..n /\ \A j \in ends : j <= e
  <2> HIDE DEF ends
  <2> QED BY <1>1, GreatestIs
<1>3. \A j \in 1..n : j > e => s[j] \notin SentEnd
  <2> TAKE j \in 1..n
  <2>1. s[j] \in SentEnd => j \in ends
    OBVIOUS
  <2> HIDE DEF e, ends
  <2> QED BY <1>1, <1>2, <2>1
<1>4. LastSentence(s) = TrimLeft(y, X)
  BY DEF LastSentence
<1> HIDE DEF e
<1> DEFINE a == e + 1
           m == n - e
<1>5. a \in 1..n+1 /\ n \in (a - 1)..n /\ n - a + 1 = m /\ m \in Nat
  BY <1>1, <1>2
<1>6. y \in Seq(S) /\ Len(y) = m
  <2> HIDE DEF a, m
  <2>1. SubSeq(s, a, n) \in Seq(S) /\ Len(SubSeq(s, a, n)) = n - a + 1
    BY <1>5, PieceKeeps
  <2> QED BY <1>5, <2>1 DEF From, a
<1> DEFINE q == PastAll(y, 1, X)
<1>7. q \in 1..m+1
  <2> HIDE DEF y, m
  <2>1. 1 \in 1..Len(y)+1
    BY <1>5, <1>6
  <2>2. q \in 1..Len(y)+1
    BY <1>6, <2>1, PastAllIs
  <2> QED BY <1>6, <2>2
<1> DEFINE p == e + q
<1>8. p \in 1..n+1 /\ p > e
  <2> HIDE DEF q
  <2> QED BY <1>1, <1>2, <1>7
<1>9. LastSentence(s) = SubSeq(s, p, n)
  <2>1. TrimLeft(y, X) = SubSeq(y, q, m)
    BY <1>6 DEF TrimLeft, From
  <2>2. y = SubSeq(s, a, n)
    BY DEF From
  <2> HIDE DEF y, q
  <2> DEFINE t == SubSeq(y, q, m)
             u == SubSeq(s, p, n)
  <2>3. q \in 1..Len(y)+1 /\ m \in (q - 1)..Len(y) /\ m - q + 1 = n - p + 1
        /\ p \in 1..n+1 /\ n \in (p - 1)..n
    BY <1>1, <1>2, <1>6, <1>7, <1>8
  <2>4. t \in Seq(S) /\ Len(t) = m - q + 1 /\ \A k \in 1..m-q+1 : t[k] = y[q + k - 1]
    <3> HIDE DEF m
    <3> QED BY <1>6, <2>3, PieceKeeps
  <2>5. u \in Seq(S) /\ Len(u) = n - p + 1 /\ \A k \in 1..n-p+1 : u[k] = s[p + k - 1]
    <3> HIDE DEF p
    <3> QED BY <2>3, PieceKeeps
  <2>6. \A k \in 1..n-a+1 : y[k] = s[a + k - 1]
    <3> HIDE DEF a
    <3> QED BY <1>5, <2>2, PieceKeeps
  <2> HIDE DEF t, u
  <2>7. \A k \in 1..Len(t) : t[k] = u[k]
    <3> TAKE k \in 1..Len(t)
    <3>1. /\ k \in 1..m-q+1 /\ k \in 1..n-p+1 /\ q + k - 1 \in 1..n-a+1
          /\ a + (q + k - 1) - 1 = p + k - 1
      BY <1>1, <1>2, <1>7, <1>8, <2>3, <2>4
    <3> DEFINE r == q + k - 1
    <3>2. t[k] = y[r] /\ u[k] = s[p + k - 1] /\ r \in 1..n-a+1 /\ a + r - 1 = p + k - 1
      BY <2>4, <2>5, <3>1
    <3> HIDE DEF r, a, p
    <3>3. y[r] = s[a + r - 1]
      BY <2>6, <3>2
    <3> QED BY <3>2, <3>3
  <2>8. Len(t) = Len(u)
    BY <2>3, <2>4, <2>5
  <2>9. t = u
    BY <2>4, <2>5, <2>7, <2>8, SeqEqual
  <2> QED BY <1>4, <2>1, <2>9 DEF t, u
<1>10. \A j \in p..n : s[j] \notin SentEnd
  <2> HIDE DEF q
  <2> TAKE j \in p..n
  <2>1. j \in 1..n /\ j > e
    BY <1>1, <1>2, <1>8
  <2> QED BY <1>3, <2>1
<1> HIDE DEF p
<1> QED BY <1>8, <1>9, <1>10

(* Flattened text has no line ends and no tabs.                            *)
LEMMA FlattenedIs ==
  ASSUME NEW S, {Space} \subseteq S, NEW s \in Seq(S)
  PROVE  /\ Flattened(s) \in Seq(S \ {"cr", "nl", "tab"}) /\ Flattened(s) \in Seq(S)
         /\ Len(Flattened(s)) = Len(s)
         /\ \A i \in 1..Len(s) : Flattened(s)[i] = IF s[i] \in {"cr", "nl", "tab"} THEN Space
                                                   ELSE s[i]
<1> DEFINE V == S \ {"cr", "nl", "tab"}
           n == Len(s)
           f == Flattened(s)
<1>1. Space \in V
  <2>1. Space # "cr" /\ Space # "nl" /\ Space # "tab"
    BY DEF Space
  <2> QED BY <2>1
<1>2. n \in Nat /\ DOMAIN s = 1..n
  OBVIOUS
<1>3. DOMAIN f = 1..n /\ \A i \in 1..n : f[i] = IF s[i] \in {"cr", "nl", "tab"} THEN Space ELSE s[i]
  BY <1>2 DEF Flattened
<1>4. \A i \in 1..n : f[i] \in V
  <2> HIDE DEF f
  <2>1. \A i \in 1..n : s[i] \in S
    OBVIOUS
  <2> QED BY <1>1, <1>3, <2>1
<1>5. f = [i \in 1..n |-> f[i]]
  BY <1>2 DEF Flattened
<1>6. f \in [1..n -> V]
  <2> HIDE DEF f, V
  <2> QED BY <1>4, <1>5
<1>7. f \in Seq(S) /\ f \in Seq(V) /\ Len(f) = n
  <2>1. f \in [1..n -> S]
    <3>1. V \subseteq S
      OBVIOUS
    <3> HIDE DEF f, V
    <3> QED BY <1>6, <3>1
  <2> HIDE DEF f, V, n
  <2> QED BY <1>2, <1>6, <2>1
<1> QED BY <1>3, <1>7

(* The daemon also trims the ideographic space, which is then gone.        *)
LEMMA TrimAlike ==
  ASSUME NEW S, NEW z \in Seq(S), "wide" \notin S
  PROVE  Trim(z, {Space, "wide"}) = Trim(z, {Space})
<1>1. {j \in DOMAIN z : z[j] \notin {Space, "wide"}} = {j \in DOMAIN z : z[j] \notin {Space}}
  OBVIOUS
<1> QED BY <1>1 DEF Trim

(* The client's cleaned text before the last sentence is taken.            *)
LEMMA WithoutMarkupIs ==
  ASSUME NEW S, {Space} \subseteq S, NEW s \in Seq(S)
  PROVE  LET z == WithoutMarkup(s) IN
         /\ z = Trim(Scan(Scan(Unmarked(s), Bullets), SpaceRun), {Space})
         /\ z \in Seq(S \ {"tab", "wide"}) /\ NoPair(z, Space) /\ NoPair(z, "=")
         /\ z # <<>> => z[Len(z)] # Space
<1> DEFINE V == S \ {"tab", "wide"}
           z == WithoutMarkup(s)
           a == Scan(Scan(Scan(Scan(s, WikiEdit), WikiHeading), WikiLink), WikiRef)
           b == Scan(a, EqRun)
           c == Scan(b, Bullets)
           d == Scan(c, SpaceRun)
<1>1. a \in Seq(S)
  <2>1. Scan(s, WikiEdit) \in Seq(S)
    BY ScansAre
  <2>2. Scan(Scan(s, WikiEdit), WikiHeading) \in Seq(S)
    BY <2>1, ScansAre
  <2>3. Scan(Scan(Scan(s, WikiEdit), WikiHeading), WikiLink) \in Seq(S)
    BY <2>2, ScansAre
  <2> QED BY <2>3, ScansAre
<1>2. b = Unmarked(s) /\ z = Trim(d, {Space})
  BY DEF Unmarked, WithoutMarkup, CollapsedSpaces
<1> HIDE DEF a
<1>3. b \in Seq(S) /\ NoPair(b, "=")
  BY <1>1, ScansAre, EqRunLeavesNone
<1> HIDE DEF b
<1>4. c \in Seq(S) /\ NoPair(c, "=")
  BY <1>3, ScansAre, BulletsMakeNone
<1> HIDE DEF c
<1>5. d \in Seq(V) /\ NoPair(d, Space) /\ NoPair(d, "=")
  BY <1>4, SpaceRunIs
<1> HIDE DEF d, V
<1> DEFINE X == {Space}
<1>6. z = Trim(d, X)
  BY <1>2
<1>7. \A x : x \notin X => x # Space
  OBVIOUS
<1> HIDE DEF X, z
<1>8. z \in Seq(V) /\ NoPair(z, Space) /\ NoPair(z, "=")
  BY <1>5, <1>6, TrimIs
<1>9. z # <<>> => z[Len(z)] # Space
  BY <1>5, <1>6, <1>7, TrimIs
<1> QED BY <1>2, <1>8, <1>9 DEF z, d, c, V

(* For every text and every limit context_clip.cc does as the regular      *)
(* expressions of rerank_daemon.py do, unless the loops meet what is odd: a*)
(* mark with an i of Turkish, other digits or other white space in it, a   *)
(* bullet next to such white space, a link without a label or a target, a  *)
(* reference or a run of "=" only one of the two takes for one.            *)
THEOREM TextsCleanedAlike ==
  ASSUME NEW S, {Space} \subseteq S, "end" \notin S, NEW s \in Seq(S), NEW max \in Nat \ {0}
  PROVE  CleansAlikeFor(s, max)
<1> DEFINE f == Flattened(s)
           edited == Scan(f, WikiEdit)
           headed == Scan(edited, WikiHeading)
           linked == Scan(headed, WikiLink)
<1> SUFFICES ASSUME ~ OddEdit(f), ~ OddHeading(edited), ~ OddLink(headed),
                    ~ OddNumber(linked), ~ OddRef(linked), ~ OddBullet(Unmarked(f))
             PROVE  CleanContext(s, max) = DaemonCleanContext(s, max)
  BY DEF CleansAlikeFor, Unmarked
<1>1. f \in Seq(S)
  BY FlattenedIs
<1> HIDE DEF f
<1>2. DaemonUnmarked(f) = Unmarked(f) /\ Unmarked(f) \in Seq(S)
  BY <1>1, UnmarkedAlike
<1> DEFINE u == Unmarked(f)
           marked == Scan(u, BulletMark)
           spaced == Scan(Scan(u, Bullets), SpaceRun)
<1>3. spaced = Scan(marked, SpaceRunSub)
  <2> HIDE DEF u
  <2>1. marked \in Seq(S)
    BY <1>2, ScansAre DEF u
  <2>2. Scan(marked, SpaceRun) = spaced
    BY <1>2, BulletsAlike DEF u
  <2> HIDE DEF marked
  <2> QED BY <2>1, <2>2, RunsAlike
<1> DEFINE V == S \ {"tab", "wide"}
<1>4. spaced \in Seq(V) /\ "wide" \notin V
  <2> HIDE DEF u
  <2>1. Scan(u, Bullets) \in Seq(S)
    BY <1>2, ScansAre DEF u
  <2> QED BY <2>1, SpaceRunIs
<1> DEFINE value == Trim(spaced, {Space})
<1>5. WithoutMarkup(f) = value
  BY <1>1, WithoutMarkupIs
<1>6. Trim(Scan(marked, SpaceRunSub), {Space, "wide"}) = value
  <2> HIDE DEF spaced, V, marked
  <2> QED BY <1>3, <1>4, TrimAlike
<1> DEFINE sentence == LastSentence(value)
<1>7. CleanContext(s, max) = Clipped(sentence, max)
  <2> HIDE DEF value
  <2> QED BY <1>5 DEF CleanContext, f
<1>8. DaemonCleanContext(s, max) = IF Len(sentence) <= max THEN sentence
                                   ELSE From(sentence, Len(sentence) - max + 1)
  <2>1. Scan(Scan(Scan(Scan(Scan(Flattened(s), EditSub), HeadingSub), LinkSub), RefSub),
             EqRunSub) = u
    BY <1>2 DEF DaemonUnmarked, f
  <2>2. Trim(Scan(Scan(u, BulletMark), SpaceRunSub), {Space, "wide"}) = value
    BY <1>6
  <2> HIDE DEF u, value
  <2> QED BY <2>1, <2>2 DEF DaemonCleanContext
<1>9. Len(sentence) \in Nat
  <2>1. value \in Seq(S \ {"tab", "wide"})
    BY <1>1, <1>5, WithoutMarkupIs
  <2> HIDE DEF value
  <2>2. PICK p \in 1..Len(value)+1 : sentence = SubSeq(value, p, Len(value))
    BY <2>1, LastSentenceIs
  <2>3. p \in Nat \ {0} /\ Len(value) \in Int /\ Len(value) <= Len(value)
    BY <2>1
  <2>4. sentence \in Seq(S \ {"tab", "wide"})
    BY <2>1, <2>2, <2>3, PieceIs
  <2> HIDE DEF sentence
  <2> QED BY <2>4
<1> HIDE DEF sentence
<1> QED BY <1>7, <1>8, <1>9 DEF Clipped

--------------------------------------------------------------------------------
(* What is sent, and what the daemon makes of it.                          *)

(* The end of a text.                                                      *)
LEMMA EndKeeps ==
  ASSUME NEW S, NEW z \in Seq(S), NEW a \in 1..Len(z)+1, NEW t, t = SubSeq(z, a, Len(z))
  PROVE  /\ t \in Seq(S) /\ Len(t) = Len(z) - a + 1
         /\ \A k \in 1..Len(t) : a + k - 1 \in a..Len(z) /\ t[k] = z[a + k - 1]
         /\ \A c : NoPair(z, c) => NoPair(t, c)
         /\ t # <<>> => z # <<>> /\ t[Len(t)] = z[Len(z)]
<1> DEFINE n == Len(z)
<1>1. n \in Nat /\ a \in Nat /\ n \in (a - 1)..n
  OBVIOUS
<1>2. t \in Seq(S) /\ Len(t) = n - a + 1 /\ \A k \in 1..n-a+1 : t[k] = z[a + k - 1]
  BY <1>1, PieceKeeps
<1>3. \A c : NoPair(z, c) => NoPair(t, c)
  BY <1>1, PieceKeeps
<1> HIDE DEF n
<1>4. \A k \in 1..Len(t) : a + k - 1 \in a..n /\ t[k] = z[a + k - 1]
  BY <1>1, <1>2
<1>5. ASSUME t # <<>>
      PROVE  z # <<>> /\ t[Len(t)] = z[n]
  <2>1. Len(t) \in 1..Len(t)
    BY <1>2, <1>5
  <2>2. a + Len(t) - 1 = n /\ n >= 1
    BY <1>1, <1>2, <2>1
  <2>3. t[Len(t)] = z[a + Len(t) - 1]
    BY <1>4, <2>1
  <2> QED BY <2>2, <2>3 DEF n
<1> QED BY <1>2, <1>3, <1>4, <1>5 DEF n

(* Clipped leaves the end of a text, no longer than it may be.             *)
LEMMA ClippedIs ==
  ASSUME NEW S, NEW x \in Seq(S), NEW max \in Nat \ {0}
  PROVE  \E a \in 1..Len(x)+1 : Clipped(x, max) = SubSeq(x, a, Len(x))
                                /\ Len(x) - a + 1 <= max
<1>1. CASE Len(x) > max
  <2> DEFINE a == Len(x) - max + 1
  <2>1. a \in 1..Len(x)+1 /\ Len(x) - a + 1 <= max
    BY <1>1
  <2>2. Clipped(x, max) = SubSeq(x, a, Len(x))
    BY <1>1 DEF Clipped, From
  <2> HIDE DEF a
  <2> QED BY <2>1, <2>2
<1>2. CASE ~ (Len(x) > max)
  <2>1. Clipped(x, max) = x
    BY <1>2 DEF Clipped
  <2>2. x = SubSeq(x, 1, Len(x))
    BY SubSeqFull
  <2>3. 1 \in 1..Len(x)+1 /\ Len(x) - 1 + 1 <= max
    BY <1>2
  <2> QED BY <2>1, <2>2, <2>3
<1> QED BY <1>1, <1>2

(* What CleanContext leaves of any text.                                   *)
LEMMA ContextIs ==
  ASSUME NEW S, {Space} \subseteq S, NEW s \in Seq(S), NEW max \in Nat \ {0},
         NEW context, context = CleanContext(s, max)
  PROVE  /\ context \in Seq(S \ ({"cr", "nl", "tab", "wide"} \cup SentEnd))
         /\ Len(context) <= max /\ NoPair(context, "=") /\ NoPair(context, Space)
         /\ context # <<>> => context[Len(context)] # Space
<1> DEFINE f == Flattened(s)
           V == S \ {"cr", "nl", "tab"}
           z == WithoutMarkup(f)
           x == LastSentence(z)
           W == V \ {"tab", "wide"}
<1>1. f \in Seq(V) /\ {Space} \subseteq V
  <2>1. Space # "cr" /\ Space # "nl" /\ Space # "tab"
    BY DEF Space
  <2>2. {Space} \subseteq V
    BY <2>1
  <2> HIDE DEF f, V
  <2> QED BY <2>2, FlattenedIs DEF f, V
<1>2. context = Clipped(x, max)
  BY DEF CleanContext
<1> HIDE DEF f
<1>3. z \in Seq(W) /\ NoPair(z, Space) /\ NoPair(z, "=") /\ (z # <<>> => z[Len(z)] # Space)
  <2> HIDE DEF V
  <2> QED BY <1>1, WithoutMarkupIs
<1> HIDE DEF z
<1>4. PICK p \in 1..Len(z)+1 : /\ x = SubSeq(z, p, Len(z))
                               /\ \A j \in p..Len(z) : z[j] \notin SentEnd
  <2> HIDE DEF W
  <2> QED BY <1>3, LastSentenceIs
<1> HIDE DEF x
<1>5. /\ x \in Seq(W) /\ Len(x) = Len(z) - p + 1
      /\ \A k \in 1..Len(x) : p + k - 1 \in p..Len(z) /\ x[k] = z[p + k - 1]
      /\ \A c : NoPair(z, c) => NoPair(x, c)
      /\ x # <<>> => z # <<>> /\ x[Len(x)] = z[Len(z)]
  <2>1. z \in Seq(W) /\ p \in 1..Len(z)+1 /\ x = SubSeq(z, p, Len(z))
    BY <1>3, <1>4
  <2> HIDE DEF W
  <2>2. x \in Seq(W) /\ Len(x) = Len(z) - p + 1
    BY <2>1, EndKeeps
  <2>3. \A k \in 1..Len(x) : p + k - 1 \in p..Len(z) /\ x[k] = z[p + k - 1]
    BY <2>1, EndKeeps
  <2>4. \A c : NoPair(z, c) => NoPair(x, c)
    BY <2>1, EndKeeps
  <2>5. x # <<>> => z # <<>> /\ x[Len(x)] = z[Len(z)]
    BY <2>1, EndKeeps
  <2> QED BY <2>2, <2>3, <2>4, <2>5
<1>6. \A k \in 1..Len(x) : x[k] \notin SentEnd
  BY <1>4, <1>5
<1>7. PICK a \in 1..Len(x)+1 : context = SubSeq(x, a, Len(x)) /\ Len(x) - a + 1 <= max
  <2> HIDE DEF W
  <2> QED BY <1>2, <1>5, ClippedIs
<1>8. /\ context \in Seq(W) /\ Len(context) = Len(x) - a + 1
      /\ \A k \in 1..Len(context) : a + k - 1 \in a..Len(x) /\ context[k] = x[a + k - 1]
      /\ \A c : NoPair(x, c) => NoPair(context, c)
      /\ context # <<>> => x # <<>> /\ context[Len(context)] = x[Len(x)]
  <2>1. x \in Seq(W) /\ a \in 1..Len(x)+1 /\ context = SubSeq(x, a, Len(x))
    BY <1>5, <1>7
  <2> HIDE DEF W
  <2>2. context \in Seq(W) /\ Len(context) = Len(x) - a + 1
    BY <2>1, EndKeeps
  <2>3. \A k \in 1..Len(context) : a + k - 1 \in a..Len(x) /\ context[k] = x[a + k - 1]
    BY <2>1, EndKeeps
  <2>4. \A c : NoPair(x, c) => NoPair(context, c)
    BY <2>1, EndKeeps
  <2>5. context # <<>> => x # <<>> /\ context[Len(context)] = x[Len(x)]
    BY <2>1, EndKeeps
  <2> QED BY <2>2, <2>3, <2>4, <2>5
<1>9. Len(context) <= max /\ NoPair(context, "=") /\ NoPair(context, Space)
      /\ (context # <<>> => context[Len(context)] # Space)
  BY <1>3, <1>5, <1>7, <1>8
<1>10. \A k \in 1..Len(context) : context[k] \in W \ SentEnd
  <2> TAKE k \in 1..Len(context)
  <2>1. context[k] \in W
    BY <1>8
  <2>2. a + k - 1 \in 1..Len(x) /\ context[k] = x[a + k - 1]
    <3>1. a + k - 1 \in a..Len(x)
      BY <1>8
    <3>2. a \in Nat \ {0} /\ Len(x) \in Nat
      BY <1>5
    <3> QED BY <1>8, <3>1, <3>2
  <2>3. context[k] \notin SentEnd
    BY <1>6, <2>2
  <2> QED BY <2>1, <2>3
<1> DEFINE U == S \ ({"cr", "nl", "tab", "wide"} \cup SentEnd)
<1>11. W \ SentEnd \subseteq U
  OBVIOUS
<1>12. context \in Seq(U)
  <2>1. \A k \in 1..Len(context) : context[k] \in U
    BY <1>10, <1>11
  <2> HIDE DEF U, W
  <2>2. context \in Seq(W)
    BY <1>8
  <2> QED BY <2>1, <2>2, TextOver
<1> QED BY <1>9, <1>12

(* Without markup no heading, run of "=" or bullet is found.               *)
LEMMA NoMarkStep ==
  ASSUME NEW S, NEW s \in Seq(S), Markup \cap S = {}, NEW i \in 1..Len(s)
  PROVE  /\ HeadingSub(s, i) = Copy(s, i) /\ EqRunSub(s, i) = Copy(s, i)
         /\ BulletMark(s, i) = Copy(s, i)
<1>1. /\ s[i] \in S /\ "=" \notin S /\ "*" \notin S /\ i \in 1..Len(s)+1 /\ i \in Nat
      /\ \A j \in 1..Len(s) : s[j] \in S
  BY DEF Markup
<1>2. PastAll(s, i, {"="}) = i
  <2>1. PastAll(s, i, {"="}) \in i..Len(s)+1
        /\ \A j \in i..PastAll(s, i, {"="})-1 : j \in 1..Len(s) /\ s[j] \in {"="}
    BY <1>1, PastAllIs
  <2> DEFINE p == PastAll(s, i, {"="})
  <2>2. p \in i..Len(s)+1 /\ \A j \in i..p-1 : s[j] \in {"="}
    BY <2>1
  <2> HIDE DEF p
  <2>3. p > i => i \in i..p-1
    BY <1>1, <2>2
  <2>4. p = i
    BY <1>1, <2>2, <2>3
  <2> QED BY <2>4 DEF p
<1>3. WikiHeading(s, i) = Copy(s, i) /\ EqRun(s, i) = Copy(s, i)
  BY <1>1, <1>2 DEF WikiHeading, EqRun
<1>4. HeadingSub(s, i) = Copy(s, i)
  BY <1>1, <1>2, <1>3, HeadingCases
<1>5. EqRunSub(s, i) = Copy(s, i)
  BY <1>3, EqRunStep
<1>6. ~ OddBullet(s)
  <2>1. \A k : At(s, k) # "*"
    BY <1>1 DEF At
  <2> QED BY <2>1 DEF OddBullet
<1>7. \A j \in 1..Len(s) : ~ BulletAt(s, j)
  BY <1>6, <1>1, BulletsAre
<1>8. ~ BulletAt(s, i + 1)
  <2>1. BulletAt(s, i + 1) => i + 1 \in 1..Len(s)
    BY <1>6, BulletsAre
  <2> QED BY <1>7, <2>1
<1>9. BulletMark(s, i) = Copy(s, i)
  BY <1>6, <1>7, <1>8, BulletsAre
<1> QED BY <1>4, <1>5, <1>9

(* The daemon finds nothing to replace in a text without markup.           *)
LEMMA NoMarkScan ==
  ASSUME NEW S, NEW s \in Seq(S), Markup \cap S = {}
  PROVE  DaemonUnmarked(s) = s /\ Scan(s, BulletMark) = s
<1>1. "[" \notin S /\ "<" \notin S
  BY DEF Markup
<1>2. Scan(s, EditSub) = s /\ Scan(s, LinkSub) = s /\ Scan(s, RefSub) = s
  BY <1>1, NoBracketScan
<1>3. ASSUME NEW steps, DOMAIN steps = 1..Len(s), \A i \in 1..Len(s) : steps[i] = Copy(s, i)
      PROVE  Built(steps, Len(s)) = s
  BY <1>3, CopiesBuild
<1>4. Scan(s, HeadingSub) = s
  <2> DEFINE steps == [i \in 1..Len(s) |-> HeadingSub(s, i)]
  <2>1. DOMAIN steps = 1..Len(s) /\ \A i \in 1..Len(s) : steps[i] = Copy(s, i)
    BY NoMarkStep
  <2>2. Scan(s, HeadingSub) = Built(steps, Len(s))
    BY DEF Scan
  <2> HIDE DEF steps
  <2> QED BY <1>3, <2>1, <2>2
<1>5. Scan(s, EqRunSub) = s
  <2> DEFINE steps == [i \in 1..Len(s) |-> EqRunSub(s, i)]
  <2>1. DOMAIN steps = 1..Len(s) /\ \A i \in 1..Len(s) : steps[i] = Copy(s, i)
    BY NoMarkStep
  <2>2. Scan(s, EqRunSub) = Built(steps, Len(s))
    BY DEF Scan
  <2> HIDE DEF steps
  <2> QED BY <1>3, <2>1, <2>2
<1>6. Scan(s, BulletMark) = s
  <2> DEFINE steps == [i \in 1..Len(s) |-> BulletMark(s, i)]
  <2>1. DOMAIN steps = 1..Len(s) /\ \A i \in 1..Len(s) : steps[i] = Copy(s, i)
    BY NoMarkStep
  <2>2. Scan(s, BulletMark) = Built(steps, Len(s))
    BY DEF Scan
  <2> HIDE DEF steps
  <2> QED BY <1>3, <2>1, <2>2
<1> QED BY <1>2, <1>4, <1>5, <1>6 DEF DaemonUnmarked

(* Single spaces stay as they are.                                         *)
LEMMA SingleSpaces ==
  ASSUME NEW S, "tab" \notin S, "wide" \notin S, NEW s \in Seq(S), NoPair(s, Space)
  PROVE  Scan(s, SpaceRunSub) = s
<1>1. ASSUME NEW i \in 1..Len(s)
      PROVE  SpaceRun(s, i) = Copy(s, i)
  <2> DEFINE p == PastAll(s, i, SpaceLike)
  <2>1. /\ p \in i..Len(s)+1
        /\ \A j \in i..p-1 : j \in 1..Len(s) /\ s[j] \in SpaceLike
    <3>1. i \in 1..Len(s)+1
      OBVIOUS
    <3> QED BY <3>1, PastAllIs
  <2>2. \A j \in 1..Len(s) : s[j] \in SpaceLike => s[j] = Space
    BY DEF SpaceLike
  <2>3. SpaceRun(s, i) = IF p > i THEN Replace(p, <<Space>>) ELSE Copy(s, i)
    BY DEF SpaceRun
  <2> HIDE DEF p
  <2>4. CASE p > i
    <3>1. i \in i..p-1 /\ s[i] = Space
      <4>1. i \in i..p-1
        BY <2>1, <2>4
      <4> QED BY <2>1, <2>2, <4>1
    <3>2. p = i + 1
      <4> SUFFICES ASSUME p # i + 1 PROVE FALSE
        OBVIOUS
      <4>1. i + 1 \in i..p-1 /\ i \in 1..(Len(s) - 1)
        BY <2>1, <2>4
      <4>2. s[i + 1] = Space
        BY <2>1, <2>2, <4>1
      <4> QED BY <3>1, <4>1, <4>2 DEF NoPair
    <3> QED BY <2>3, <2>4, <3>1, <3>2 DEF Replace, Copy
  <2>5. CASE ~ (p > i)
    BY <2>3, <2>5
  <2> QED BY <2>4, <2>5
<1> DEFINE steps == [i \in 1..Len(s) |-> SpaceRun(s, i)]
<1>2. DOMAIN steps = 1..Len(s) /\ \A i \in 1..Len(s) : steps[i] = Copy(s, i)
  BY <1>1
<1>3. Scan(s, SpaceRun) = Built(steps, Len(s))
  BY DEF Scan
<1> HIDE DEF steps
<1>4. Scan(s, SpaceRun) = s
  BY <1>2, <1>3, CopiesBuild
<1> QED BY <1>4, RunsAlike

(* Trimmed on both sides or on the left alone, and with no sentence's end  *)
(* in it.                                                                  *)
LEMMA TrimmedIs ==
  ASSUME NEW S, "wide" \notin S, SentEnd \cap S = {}, NEW s \in Seq(S), NoPair(s, Space),
         s # <<>> => s[Len(s)] # Space
  PROVE  LET t == TrimLeft(s, {Space}) IN
         /\ Trim(s, {Space, "wide"}) = t /\ LastSentence(t) = t
         /\ t \in Seq(S) /\ Len(t) \in Nat /\ Len(t) <= Len(s)
<1> DEFINE X == {Space}
           n == Len(s)
           p == PastAll(s, 1, X)
           t == TrimLeft(s, X)
           kept == {j \in DOMAIN s : s[j] \notin {Space, "wide"}}
<1>1. /\ n \in Nat /\ p \in 1..n+1
      /\ \A j \in 1..p-1 : j \in 1..n /\ s[j] = Space
      /\ p \in 1..n => s[p] # Space
  <2>1. 1 \in 1..n+1
    OBVIOUS
  <2> QED BY <2>1, PastAllIs
<1>2. t = SubSeq(s, p, n)
  BY DEF TrimLeft, From
<1>3. kept = {j \in 1..n : s[j] # Space} /\ kept \in SUBSET Nat
  OBVIOUS
<1> HIDE DEF p, t
<1>4. /\ t \in Seq(S) /\ Len(t) = n - p + 1
      /\ \A k \in 1..Len(t) : p + k - 1 \in p..n /\ t[k] = s[p + k - 1]
  BY <1>1, <1>2, EndKeeps
<1>5. Trim(s, {Space, "wide"}) = t
  <2>1. Trim(s, {Space, "wide"}) = IF kept = {} THEN <<>> ELSE SubSeq(s, Min(kept), Max(kept))
    BY DEF Trim
  <2> HIDE DEF kept
  <2>2. CASE n = 0
    <3>1. kept = {}
      BY <1>3, <2>2
    <3>2. p = 1
      BY <1>1, <2>2
    <3>3. Len(t) = 0
      BY <1>4, <2>2, <3>2
    <3>4. t = <<>>
      BY <1>4, <3>3
    <3> QED BY <2>1, <3>1, <3>4
  <2>3. CASE n # 0
    <3>1. n \in 1..n /\ s[n] # Space
      BY <1>1, <2>3
    <3>2. n \in kept /\ \A j \in kept : j <= n
      BY <1>3, <3>1
    <3>3. Max(kept) = n
      BY <1>3, <3>2, LongestIs
    <3>4. p \in 1..n
      <4>1. p # n + 1
        <5>1. p = n + 1 => n \in 1..p-1
          BY <1>1, <3>1
        <5> QED BY <1>1, <3>1, <5>1
      <4> QED BY <1>1, <4>1
    <3>5. p \in kept
      BY <1>1, <1>3, <3>4
    <3>6. \A j \in kept : p <= j
      <4> TAKE j \in kept
      <4>1. j \in 1..n /\ s[j] # Space
        BY <1>3
      <4>2. j < p => j \in 1..p-1
        BY <1>1, <4>1
      <4> QED BY <1>1, <4>1, <4>2
    <3> DEFINE m == Min(kept)
    <3>7. m \in kept /\ \A j \in kept : m <= j
      BY <1>3, <3>5, LeastIs
    <3>8. m = p
      <4>1. m \in Nat /\ m <= p /\ p <= m
        BY <1>3, <3>5, <3>6, <3>7
      <4> HIDE DEF m
      <4> QED BY <3>4, <4>1
    <3> QED BY <1>2, <2>1, <3>3, <3>5, <3>8
  <2> QED BY <2>2, <2>3
<1>6. t # <<>> => t[1] \notin {Space, "wide"}
  <2> SUFFICES ASSUME t # <<>> PROVE t[1] \notin {Space, "wide"}
    OBVIOUS
  <2>1. 1 \in 1..Len(t) /\ p + 1 - 1 = p
    BY <1>1, <1>4
  <2>2. t[1] = s[p] /\ p \in 1..n /\ t[1] \in S
    <3>1. p + 1 - 1 \in p..n /\ t[1] = s[p + 1 - 1]
      BY <1>4, <2>1
    <3> QED BY <1>1, <1>4, <2>1, <3>1
  <2> QED BY <1>1, <2>2
<1>7. LastSentence(t) = t
  <2> DEFINE ends == {i \in DOMAIN t : t[i] \in SentEnd} \cup {0}
             Y == {Space, "wide"}
  <2>1. ends = {0}
    <3>1. \A i \in DOMAIN t : t[i] \in S
      BY <1>4
    <3> QED BY <3>1
  <2>2. Max(ends) + 1 = 1
    <3>1. 0 \in ends /\ \A j \in ends : j <= 0
      BY <2>1
    <3>2. ends \in SUBSET Nat
      BY <2>1
    <3> HIDE DEF ends
    <3>3. Max(ends) = 0
      BY <3>1, <3>2, LongestIs
    <3> QED BY <3>3
  <2>3. LastSentence(t) = TrimLeft(From(t, 1), Y)
    BY <2>2 DEF LastSentence
  <2>4. From(t, 1) = t
    BY <1>4, RestOfText
  <2>5. PastAll(t, 1, Y) = 1
    <3>1. 1 \in 1..Len(t)+1 /\ (\A j \in 1..1-1 : t[j] \in Y)
      BY <1>4
    <3>2. 1 = Len(t) + 1 \/ t[1] \notin Y
      <4>1. t = <<>> => Len(t) = 0
        OBVIOUS
      <4> QED BY <1>6, <4>1
    <3> HIDE DEF Y
    <3> QED BY <1>4, <3>1, <3>2, PastAllAt
  <2> QED BY <2>3, <2>4, <2>5 DEF TrimLeft
<1>8. Len(t) \in Nat /\ Len(t) <= n
  BY <1>1, <1>4
<1> QED BY <1>4, <1>5, <1>7, <1>8 DEF t

(* The daemon cleans a cleaned text again: it takes a space from its front *)
(* and, if there is no markup in it, no more.                              *)
LEMMA CleanedAgain ==
  ASSUME NEW S, NEW s \in Seq(S),
         S \cap (Markup \cup {"cr", "nl", "tab", "wide"} \cup SentEnd) = {},
         NoPair(s, Space), s # <<>> => s[Len(s)] # Space, NEW max \in Nat, Len(s) <= max
  PROVE  DaemonCleanContext(s, max) = TrimLeft(s, {Space})
<1>1. /\ Markup \cap S = {} /\ SentEnd \cap S = {}
      /\ "cr" \notin S /\ "nl" \notin S /\ "tab" \notin S /\ "wide" \notin S
  OBVIOUS
<1>2. Flattened(s) = s
  <2>1. \A i \in DOMAIN s : s[i] \in S
    OBVIOUS
  <2>2. \A i \in DOMAIN s : s[i] \notin {"cr", "nl", "tab"}
    BY <1>1, <2>1
  <2>3. s = [i \in DOMAIN s |-> s[i]]
    OBVIOUS
  <2>4. Flattened(s) = [i \in DOMAIN s |-> s[i]]
    BY <2>2 DEF Flattened
  <2> QED BY <2>3, <2>4
<1>3. DaemonUnmarked(s) = s /\ Scan(s, BulletMark) = s
  BY <1>1, NoMarkScan
<1>4. Scan(s, SpaceRunSub) = s
  BY <1>1, SingleSpaces
<1> DEFINE t == TrimLeft(s, {Space})
<1>5. Trim(s, {Space, "wide"}) = t /\ LastSentence(t) = t /\ Len(t) \in Nat /\ Len(t) <= Len(s)
  BY <1>1, TrimmedIs
<1>6. Scan(Scan(Scan(Scan(Scan(Flattened(s), EditSub), HeadingSub), LinkSub), RefSub), EqRunSub) = s
  BY <1>2, <1>3 DEF DaemonUnmarked
<1>7. Trim(Scan(Scan(s, BulletMark), SpaceRunSub), {Space, "wide"}) = t
  BY <1>3, <1>4, <1>5
<1> HIDE DEF t
<1>8. DaemonCleanContext(s, max) =
        IF Len(t) <= max THEN t ELSE From(t, Len(t) - max + 1)
  BY <1>5, <1>6, <1>7 DEF DaemonCleanContext
<1>9. Len(t) <= max
  <2>1. Len(s) \in Nat
    OBVIOUS
  <2> QED BY <1>5, <2>1
<1> QED BY <1>8, <1>9 DEF t

(* What CleanContext sends is clean, and stays so, for every text and every*)
(* limit.                                                                  *)
THEOREM TextsCleanedWell ==
  ASSUME NEW S, {Space} \subseteq S, "end" \notin S, NEW s \in Seq(S), NEW max \in Nat \ {0}
  PROVE  CleansWellFor(s, max)
<1> DEFINE Gone == {"cr", "nl", "tab", "wide"} \cup SentEnd
           W == S \ Gone
           context == CleanContext(s, max)
<1>1. /\ context \in Seq(W) /\ Len(context) <= max
      /\ NoPair(context, "=") /\ NoPair(context, Space)
      /\ context # <<>> => context[Len(context)] # Space
  <2> HIDE DEF context
  <2> QED BY ContextIs DEF context
<1> HIDE DEF context
<1>2. /\ Len(context) \in Nat /\ DOMAIN context = 1..Len(context)
      /\ \A i \in 1..Len(context) : context[i] \in W
  <2> HIDE DEF W
  <2> QED BY <1>1
<1>3. \A i \in DOMAIN context : context[i] \notin SentEnd \cup {"nl", "tab", "wide"}
  BY <1>2
<1>4. Find(context, <<"=", "=">>, 1) = 0
  <2>1. ASSUME NEW j \in 1..(Len(context) - 2 + 1)
        PROVE  ~ StartsAt(context, <<"=", "=">>, j)
    <3>1. j \in Nat \ {0} /\ j \in 1..(Len(context) - 1)
      BY <1>2
    <3> HIDE DEF W
    <3> QED BY <1>1, <3>1, PairIs DEF NoPair
  <2>2. Len(<<"=", "=">>) = 2
    OBVIOUS
  <2>3. {j \in 1..(Len(context) - 2 + 1) : StartsAt(context, <<"=", "=">>, j)} = {}
    BY <2>1
  <2> QED BY <2>2, <2>3 DEF Find
<1>5. ~ SpareSpace(context)
  <2> SUFFICES ASSUME NEW i \in 1..Len(context), context[i] = Space,
                      At(context, i + 1) \in {Space, "end"}
               PROVE  FALSE
    BY <1>2 DEF SpareSpace
  <2>1. CASE i = Len(context)
    <3>1. context # <<>>
      BY <1>2
    <3> QED BY <1>1, <2>1, <3>1
  <2>2. CASE i # Len(context)
    <3>1. i + 1 \in 1..Len(context) /\ i \in 1..(Len(context) - 1)
      <4>1. Len(context) \in Nat
        BY <1>2
      <4> QED BY <2>2, <4>1
    <3>2. At(context, i + 1) = context[i + 1] /\ context[i + 1] \in W
      BY <1>2, <3>1 DEF At
    <3>3. context[i + 1] = Space
      BY <3>2
    <3> QED BY <1>1, <3>1, <3>3 DEF NoPair
  <2> QED BY <2>1, <2>2
<1>6. ASSUME Plain(context), Len(context) <= DaemonMaxChars
      PROVE  DaemonCleanContext(context, DaemonMaxChars) = TrimLeft(context, {Space})
  <2> DEFINE P == W \ Markup
  <2>1. \A i \in 1..Len(context) : context[i] \in P
    BY <1>2, <1>6 DEF Plain
  <2>2. P \cap (Markup \cup {"cr", "nl", "tab", "wide"} \cup SentEnd) = {}
    OBVIOUS
  <2> HIDE DEF P, W
  <2>3. context \in Seq(P)
    BY <1>1, <2>1
  <2>4. DaemonMaxChars \in Nat
    BY DEF DaemonMaxChars
  <2> QED BY <1>1, <1>6, <2>2, <2>3, <2>4, CleanedAgain
<1> QED BY <1>1, <1>3, <1>4, <1>5, <1>6 DEF CleansWellFor, context

--------------------------------------------------------------------------------
(* The guard.                                                              *)

(* The length of two texts put together.                                   *)
LEMMA LengthJoined ==
  ASSUME NEW S, NEW a \in Seq(S), NEW b \in Seq(S)
  PROVE  Len(a \o b) = Len(a) + Len(b)
OBVIOUS

(* A loop that appends one symbol for each it reads keeps the length.      *)
LEMMA SameLength ==
  ASSUME NEW S, NEW n \in Nat, NEW steps, DOMAIN steps = 1..n,
         \A i \in 1..n : /\ steps[i].out \in Seq(S) /\ Len(steps[i].out) = 1
                         /\ steps[i].next = i + 1
  PROVE  Built(steps, n) \in Seq(S) /\ Len(Built(steps, n)) = n
<1>1. \A i \in 1..n : IsStep(steps[i], i, n, S)
  BY DEF IsStep
<1>2. AreSteps(steps, n, S) /\ Built(steps, n) \in Seq(S)
  BY <1>1, BuiltIs
<1>3. PICK rest : IsRest(rest, steps, n, S) /\ Built(steps, n) = rest[1]
  BY <1>2, BuiltJoins
<1>4. /\ rest[n + 1] = <<>> /\ \A i \in 1..n+1 : rest[i] \in Seq(S)
      /\ \A i \in 1..n : rest[i] = steps[i].out \o rest[steps[i].next]
  BY <1>3 DEF IsRest
<1> DEFINE H == {i \in 1..n+1 : Len(rest[i]) = n + 1 - i}
<1>5. n + 1 \in H
  BY <1>4
<1>6. ASSUME NEW i \in 1..n, \A j \in (i + 1)..(n + 1) : j \in H
      PROVE  i \in H
  <2>1. i + 1 \in (i + 1)..(n + 1) /\ i + 1 \in 1..n+1 /\ i \in 1..n+1
    OBVIOUS
  <2>2. Len(rest[i + 1]) = n + 1 - (i + 1) /\ rest[i + 1] \in Seq(S)
    BY <1>4, <1>6, <2>1
  <2>3. rest[i] = steps[i].out \o rest[i + 1]
    BY <1>4
  <2> DEFINE a == steps[i].out
             b == rest[i + 1]
  <2>4. a \in Seq(S) /\ Len(a) = 1 /\ b \in Seq(S) /\ Len(b) = n + 1 - (i + 1)
    BY <2>2
  <2> HIDE DEF a, b
  <2>5. Len(a \o b) = Len(a) + Len(b)
    BY <2>4, LengthJoined
  <2>6. Len(a \o b) = n + 1 - i
    BY <2>4, <2>5
  <2> QED BY <2>1, <2>3, <2>6 DEF a, b
<1>7. 1 \in H
  <2> HIDE DEF H
  <2>1. \A i \in 1..n+1 : i \in H
    BY <1>5, <1>6, Downwards
  <2> QED BY <2>1
<1> QED BY <1>2, <1>3, <1>7

(* Without a sound mark in it a reading stays as long as it is.            *)
LEMMA ReadingLength ==
  ASSUME NEW S, NEW raw \in Seq(S), SoundMarks \cap S = {},
         NEW reading, reading = NormalizeReading(raw)
  PROVE  /\ Len(reading) = Len(raw)
         /\ Len(DaemonNormalizeReading(reading)) = Len(reading)
<1> DEFINE n == Len(raw)
           V == S \cup {Space, "hiragana", "katakana"}
<1>1. n \in Nat /\ DOMAIN raw = 1..n /\ \A i \in 1..n : raw[i] \in S
  OBVIOUS
<1>2. SoundMarks \cap V = {} /\ "end" \notin SoundMarks /\ "hw_mark" \in SoundMarks
  <2>1. Space \notin SoundMarks /\ "hiragana" \notin SoundMarks /\ "katakana" \notin SoundMarks
    BY DEF Space, SoundMarks
  <2>2. "end" \notin SoundMarks /\ "hw_mark" \in SoundMarks
    BY DEF SoundMarks
  <2> QED BY <2>1, <2>2
<1> DEFINE At1(i) == IF raw[i] = "wide" THEN Space ELSE Hiragana(raw[i])
<1>3. reading = [i \in 1..n |-> At1(i)]
  BY <1>1 DEF NormalizeReading
<1>4. \A i \in 1..n : At1(i) \in V
  BY <1>1 DEF Hiragana
<1> HIDE DEF At1, V
<1>5. reading \in Seq(V) /\ Len(reading) = n
  <2>1. reading \in [1..n -> V]
    BY <1>3, <1>4
  <2> HIDE DEF n
  <2> QED BY <1>1, <2>1
<1> DEFINE steps == [i \in 1..n |-> NfkcStep(reading, i)]
           nfkc == Scan(reading, NfkcStep)
           W == V \cup {"katakana"}
<1>6. ASSUME NEW i \in 1..n
      PROVE  /\ steps[i].out \in Seq(W) /\ Len(steps[i].out) = 1 /\ steps[i].next = i + 1
  <2>1. reading[i] \in V /\ i + 1 \in Int /\ Space \in V
    BY <1>1, <1>5 DEF V
  <2>2. At(reading, i + 1) \notin SoundMarks
    <3>1. CASE i + 1 \in 1..n
      BY <1>2, <1>5, <3>1, AtIs
    <3>2. CASE i + 1 \notin 1..n
      BY <1>2, <1>5, <2>1, <3>2, AtIs
    <3> QED BY <3>1, <3>2
  <2>3. steps[i] = NfkcStep(reading, i)
    OBVIOUS
  <2>4. \/ NfkcStep(reading, i) = Replace(i + 1, <<"katakana">>)
        \/ NfkcStep(reading, i) = Replace(i + 1, <<Space>>)
        \/ NfkcStep(reading, i) = Copy(reading, i)
    <3>1. CASE reading[i] = "hw_kana"
      BY <2>2, <3>1 DEF NfkcStep
    <3>2. CASE reading[i] \in {"hiragana", "katakana"}
      BY <2>2, <3>2 DEF NfkcStep, Copy, Replace
    <3>3. CASE reading[i] \in {"wide", "nbsp"}
      BY <2>2, <3>3 DEF NfkcStep
    <3>4. CASE reading[i] \notin {"hw_kana", "hiragana", "katakana", "wide", "nbsp"}
      <4>1. reading[i] # "hw_mark"
        BY <1>2, <2>1
      <4> QED BY <2>2, <3>4, <4>1 DEF NfkcStep
    <3> QED BY <3>1, <3>2, <3>3, <3>4
  <2> HIDE DEF steps
  <2>5. ASSUME NEW c \in W
        PROVE  <<c>> \in Seq(W) /\ Len(<<c>>) = 1
    OBVIOUS
  <2>6. "katakana" \in W /\ Space \in W /\ reading[i] \in W
    BY <2>1
  <2> HIDE DEF W
  <2>7. /\ Replace(i + 1, <<"katakana">>).out = <<"katakana">>
        /\ Replace(i + 1, <<"katakana">>).next = i + 1
        /\ Replace(i + 1, <<Space>>).out = <<Space>> /\ Replace(i + 1, <<Space>>).next = i + 1
        /\ Copy(reading, i).out = <<reading[i]>> /\ Copy(reading, i).next = i + 1
    BY DEF Replace, Copy
  <2> QED BY <2>3, <2>4, <2>5, <2>6, <2>7
<1>7. nfkc = Built(steps, n) /\ DOMAIN steps = 1..n
  BY <1>5 DEF Scan
<1>8. nfkc \in Seq(W) /\ Len(nfkc) = n
  <2> HIDE DEF steps, W, nfkc, n
  <2> QED BY <1>1, <1>6, <1>7, SameLength
<1> HIDE DEF nfkc, steps, W
<1>9. Len(DaemonNormalizeReading(reading)) = n
  <2> DEFINE h == [i \in DOMAIN nfkc |-> Hiragana(nfkc[i])]
             Kinds == {Hiragana(nfkc[i]) : i \in 1..n}
  <2>1. DaemonNormalizeReading(reading) = h
    BY DEF DaemonNormalizeReading, nfkc
  <2>2. h \in [1..n -> Kinds]
    BY <1>8
  <2> HIDE DEF h, Kinds, n
  <2>3. h \in Seq(Kinds) /\ Len(h) = n
    BY <1>1, <2>2
  <2> QED BY <2>1, <2>3
<1> QED BY <1>5, <1>9

(* The same surfaces are junk to both sides, but for those with white space*)
(* that only the daemon counts: for every surface.                         *)
THEOREM SurfacesJunkAlike ==
  ASSUME NEW s
  PROVE  JunkAlikeFor(s)
<1>1. ASSUME ~ Some(s, {"nl", "cr", "nbsp"})
      PROVE  All(s, Kana \cup SpaceLike)
               <=> All(s, Kana \cup SpaceLike \cup {"nl", "cr", "nbsp"})
  BY <1>1 DEF All, Some
<1> QED BY <1>1 DEF JunkAlikeFor, IsJunkSurface, DaemonIsJunkSurface

(* A text without a symbol of some kinds.                                  *)
LEMMA SomeIsNone ==
  ASSUME NEW S, NEW s \in Seq(S), NEW kinds, ~ Some(s, kinds)
  PROVE  s \in Seq(S \ kinds)
<1> DEFINE T == S \ kinds
<1>1. \A i \in 1..Len(s) : s[i] \in T
  BY DEF Some
<1> HIDE DEF T
<1>2. s \in Seq(T)
  BY <1>1
<1> QED BY <1>2 DEF T

(* A number that is not two at most.                                       *)
LEMMA MoreThanTwo ==
  ASSUME NEW l \in Int, ~ (l <= 2)
  PROVE  l > 2
OBVIOUS

(* What the client's guard has let through.                                *)
LEMMA SkipsNone ==
  ASSUME NEW reading, NEW context, Len(reading) \in Int,
         RerankSkipReason(reading, context, TRUE, TRUE, TRUE) = ""
  PROVE  Len(reading) > 2 /\ ~ ContextEmptyOrSymbol(context)
<1>1. Len(reading) <= 2
        => RerankSkipReason(reading, context, TRUE, TRUE, TRUE) = "reading_too_short"
  BY DEF RerankSkipReason
<1>2. Len(reading) > 2 /\ ContextEmptyOrSymbol(context)
        => RerankSkipReason(reading, context, TRUE, TRUE, TRUE) = "context_empty_or_symbol"
  BY DEF RerankSkipReason
<1>3. "reading_too_short" # "" /\ "context_empty_or_symbol" # ""
  OBVIOUS
<1>4. ~ (Len(reading) <= 2)
  BY <1>1, <1>3
<1>5. Len(reading) > 2
  BY <1>4, MoreThanTwo
<1> QED BY <1>2, <1>3, <1>5

(* The same, without what is kept of pairs.                                *)
LEMMA EndIs ==
  ASSUME NEW S, NEW z \in Seq(S), NEW a \in 1..Len(z)+1, NEW t, t = SubSeq(z, a, Len(z))
  PROVE  /\ t \in Seq(S) /\ Len(t) = Len(z) - a + 1
         /\ \A k \in 1..Len(t) : t[k] = z[a + k - 1]
<1>1. \A i \in a..Len(z) : z[i] \in S
  OBVIOUS
<1>2. a \in Int /\ Len(z) \in Int /\ Len(z) + 1 >= a
  OBVIOUS
<1>3. /\ t \in Seq(S) /\ Len(t) = IF a <= Len(z) THEN Len(z) - a + 1 ELSE 0
      /\ \A k \in 1..Len(z)-a+1 : t[k] = z[a + k - 1]
  BY <1>1, <1>2, SubSeqProperties
<1>4. Len(t) = Len(z) - a + 1
  BY <1>2, <1>3
<1> QED BY <1>3, <1>4

(* Linguistic content is not trimmed away.                                 *)
LEMMA ContentStays ==
  ASSUME NEW P, "times" \notin P, NEW context \in Seq(P), ~ ContextEmptyOrSymbol(context)
  PROVE  DaemonHasLinguisticContent(TrimLeft(context, {Space}))
<1> DEFINE p == PastAll(context, 1, {Space})
           t == SubSeq(context, p, Len(context))
<1>1. /\ p \in 1..Len(context)+1 /\ Len(context) \in Nat
      /\ \A j \in 1..p-1 : context[j] = Space
  <2>1. 1 \in 1..Len(context)+1 /\ Len(context) \in Nat
    OBVIOUS
  <2>2. p \in 1..Len(context)+1 /\ \A j \in 1..p-1 : context[j] \in {Space}
    BY <2>1, PastAllIs
  <2> QED BY <2>1, <2>2
<1>2. PICK j \in 1..Len(context) : context[j] \in Linguistic
  <2>1. Some(context, Linguistic \cup {"times"})
    BY DEF ContextEmptyOrSymbol, HasLinguisticContent
  <2>2. DOMAIN context = 1..Len(context) /\ \A i \in 1..Len(context) : context[i] # "times"
    OBVIOUS
  <2> QED BY <2>1, <2>2 DEF Some
<1> HIDE DEF p
<1>3. j >= p
  <2>1. context[j] # Space
    <3>1. Space \notin Linguistic
      BY DEF Linguistic, Kana, Space
    <3> QED BY <1>2, <3>1
  <2>2. j < p => j \in 1..p-1
    BY <1>1
  <2> QED BY <1>1, <2>1, <2>2
<1> DEFINE k == j - p + 1
<1>4. t \in Seq(P) /\ Len(t) = Len(context) - p + 1
      /\ \A m \in 1..Len(t) : t[m] = context[p + m - 1]
  <2>1. t = SubSeq(context, p, Len(context))
    OBVIOUS
  <2>2. p \in 1..Len(context)+1
    BY <1>1
  <2> HIDE DEF t, k
  <2> QED BY ONLY <2>1, <2>2, EndIs, context \in Seq(P)
<1> HIDE DEF t
<1>5. k \in 1..Len(t) /\ p + k - 1 = j
  BY <1>1, <1>3, <1>4
<1> HIDE DEF k
<1>6. t[k] \in Linguistic /\ k \in DOMAIN t
  <2>1. t[k] = context[j] /\ k \in DOMAIN t
    BY <1>4, <1>5
  <2> QED BY <1>2, <2>1
<1>7. TrimLeft(context, {Space}) = t
  BY DEF TrimLeft, From, t, p
<1> QED BY <1>6, <1>7 DEF DaemonHasLinguisticContent, Some

(* What the client's guard lets through the daemon does not skip, for every*)
(* reading and every context without markup, which the daemon leaves as it *)
(* is but for a space in front.                                            *)
THEOREM GuardLetsThrough ==
  ASSUME NEW S, {Space} \subseteq S, "end" \notin S, Markup \cap S = {},
         NEW s \in Seq(S), NEW R, NEW raw \in Seq(R), NEW max \in 1..50
  PROVE  GuardsAlikeFor(raw, s, max)
<1> DEFINE reading == NormalizeReading(raw)
           context == CleanContext(s, max)
           again == DaemonCleanContext(context, DaemonMaxChars)
           second == DaemonNormalizeReading(reading)
           Lets == /\ RerankSkipReason(reading, context, TRUE, TRUE, TRUE) = ""
                   /\ ~ Some(raw, SoundMarks) /\ ~ Some(s, {"times"})
<1> DEFINE T == S \ {"times"}
           Q == R \ SoundMarks
           P == T \ ({"cr", "nl", "tab", "wide"} \cup SentEnd)
<1>1. Space \in T /\ SoundMarks \cap Q = {}
  <2>1. Space # "times"
    BY DEF Space
  <2> QED BY <2>1
<1>2. P \cap (Markup \cup {"cr", "nl", "tab", "wide"} \cup SentEnd) = {} /\ "times" \notin P
  OBVIOUS
<1>3. max \in Nat \ {0} /\ max <= 50
  OBVIOUS
<1>4. ASSUME Lets
      PROVE  DaemonSkipReason(second, again) = ""
  <2>1. s \in Seq(T)
    BY <1>4, SomeIsNone
  <2>2. raw \in Seq(Q)
    BY <1>4, SomeIsNone
  <2>3. RerankSkipReason(reading, context, TRUE, TRUE, TRUE) = ""
    BY <1>4
  <2> HIDE DEF T, Q, P, Lets
  <2>4. Len(reading) = Len(raw) /\ Len(second) = Len(reading) /\ Len(raw) \in Nat
    <3>1. Len(raw) \in Nat
      OBVIOUS
    <3> QED BY <1>1, <2>2, <3>1, ReadingLength
  <2> HIDE DEF reading, second
  <2>5. /\ context \in Seq(T \ ({"cr", "nl", "tab", "wide"} \cup SentEnd))
        /\ Len(context) <= max /\ NoPair(context, Space)
        /\ context # <<>> => context[Len(context)] # Space
    <3>1. {Space} \subseteq T
      BY <1>1
    <3> HIDE DEF context
    <3>2. context = CleanContext(s, max)
      BY DEF context
    <3> QED BY <1>3, <2>1, <3>1, <3>2, ContextIs
  <2>6. context \in Seq(P)
    BY <2>5 DEF P
  <2> HIDE DEF context, again
  <2>7. Len(reading) > 2 /\ ~ ContextEmptyOrSymbol(context)
    <3>1. Len(reading) \in Int
      BY <2>4
    <3> QED BY <2>3, <3>1, SkipsNone
  <2>8. again = TrimLeft(context, {Space})
    <3>1. Len(context) \in Nat
      BY <2>6
    <3>2. Len(context) <= DaemonMaxChars /\ DaemonMaxChars \in Nat
      BY <1>3, <2>5, <3>1 DEF DaemonMaxChars
    <3> QED BY <1>2, <2>5, <2>6, <3>2, CleanedAgain DEF again
  <2>9. DaemonHasLinguisticContent(again)
    BY <1>2, <2>6, <2>7, <2>8, ContentStays
  <2>10. ~ (Len(second) <= 2)
    BY <2>4, <2>7
  <2> QED BY <2>9, <2>10 DEF DaemonSkipReason
<1> QED BY <1>4 DEF GuardsAlikeFor

--------------------------------------------------------------------------------
(* What comes back of the answer of a server.                              *)

(* The last symbol of a text.                                              *)
EndsWell(g) == g # <<>> => g[Len(g)] \notin JsonSpace

(* The lines of a text have no newline.                                    *)
LEMMA LinesAre ==
  ASSUME NEW V, NEW x \in Seq(V)
  PROVE  LinesOf(x) \in Seq(Seq(V \ {"nl"}))
<1> DEFINE n == Len(x)
           L == Seq(V \ {"nl"})
           steps == [i \in 1..n |-> LineStep(x, i)]
<1>1. LinesOf(x) = Built(steps, n)
  BY DEF LinesOf, Scan
<1>2. n \in Nat /\ DOMAIN steps = 1..n /\ \A i \in 1..n : steps[i] = LineStep(x, i)
  OBVIOUS
<1>3. ASSUME NEW i \in 1..n
      PROVE  IsStep(LineStep(x, i), i, n, L)
  <2> DEFINE end == FirstOf(x, i, {"nl"})
             line == SubSeq(x, i, end - 1)
             next == IF end > n THEN end ELSE end + 1
  <2>1. i \in 1..Len(x)+1
    BY <1>2
  <2>2. end \in i..n+1 /\ \A j \in i..end-1 : j \in 1..n /\ x[j] \notin {"nl"}
        /\ (end \in 1..n => x[end] \in {"nl"})
    BY <2>1, FirstOfIs
  <2>3. LineStep(x, i) = Replace(next, <<line>>)
    BY DEF LineStep
  <2> HIDE DEF end
  <2>4. line \in L
    <3>1. \A j \in i..end-1 : x[j] \in V \ {"nl"}
      BY <2>2
    <3>2. i \in Int /\ end - 1 \in Int
      BY <1>2, <2>2
    <3> DEFINE W == V \ {"nl"}
    <3> QED BY <3>1, <3>2, SubSeqProperties
  <2>5. next \in (i + 1)..(n + 1)
    <3>1. CASE end > n
      BY <1>2, <2>2, <3>1
    <3>2. CASE ~ (end > n)
      BY <1>2, <2>2, <3>2
    <3> QED BY <3>1, <3>2
  <2> HIDE DEF L, line, next, n
  <2>6. <<line>> \in Seq(L)
    BY <2>4
  <2> QED BY <1>2, <2>3, <2>5, <2>6, ReplaceIs
<1> HIDE DEF n, L, steps
<1>4. Built(steps, n) \in Seq(L)
  BY <1>2, <1>3, BuiltIs
<1> QED BY <1>1, <1>4 DEF L

(* A line without the number in front still ends as it did.                *)
LEMMA UnnumberedIs ==
  ASSUME NEW W, NEW line \in Seq(W), EndsWell(line)
  PROVE  Unnumbered(line) \in Seq(W) /\ EndsWell(Unnumbered(line))
<1> DEFINE value == From(line, 3)
           Blank == {Space, "tab"}
           p == PastAll(value, 1, Blank)
<1>1. CASE ~ (Len(line) > 2 /\ line[1] = "1" /\ line[2] = ".")
  BY <1>1 DEF Unnumbered
<1>2. CASE Len(line) > 2 /\ line[1] = "1" /\ line[2] = "."
  <2>1. value = SubSeq(line, 3, Len(line)) /\ 3 \in 1..Len(line)+1
    BY <1>2 DEF From
  <2> HIDE DEF value
  <2>2. value \in Seq(W)
    BY <2>1, EndKeeps
  <2>3. value # <<>> => line # <<>> /\ value[Len(value)] = line[Len(line)]
    BY <2>1, EndKeeps
  <2>4. EndsWell(value)
    BY <2>3 DEF EndsWell
  <2> DEFINE t == TrimLeft(value, Blank)
  <2>5. 1 \in 1..Len(value)+1
    BY <2>2
  <2>6. p \in 1..Len(value)+1
    BY <2>2, <2>5, PastAllIs
  <2>7. t = SubSeq(value, p, Len(value))
    BY DEF TrimLeft, From
  <2> HIDE DEF t, p
  <2>8. t \in Seq(W)
    BY <2>2, <2>6, <2>7, EndKeeps
  <2>9. t # <<>> => value # <<>> /\ t[Len(t)] = value[Len(value)]
    BY <2>2, <2>6, <2>7, EndKeeps
  <2>10. EndsWell(t)
    BY <2>4, <2>9 DEF EndsWell
  <2>11. Unnumbered(line) = value \/ Unnumbered(line) = t
    BY <1>2 DEF Unnumbered, value, t
  <2> QED BY <2>2, <2>4, <2>8, <2>10, <2>11
<1> QED BY <1>1, <1>2

(* The candidates that are taken from a text: three at most, each a line   *)
(* that is not empty, not too long and has no white space at its end.      *)
LEMMA CandidatesAre ==
  ASSUME NEW V, NEW x \in Seq(V), NEW limit \in Nat
  PROVE  LET got == CandidatesOf(x, limit)
         IN  /\ Len(got) <= 3
             /\ \A i \in DOMAIN got :
                  /\ got[i] # <<>> /\ Len(got[i]) <= limit
                  /\ got[i][Len(got[i])] \notin JsonSpace
                  /\ "nl" \notin Range(got[i])
<1> DEFINE W == V \ {"nl"}
           lines == LinesOf(x)
           values == [i \in DOMAIN lines |-> Unnumbered(Trim(lines[i], JsonSpace))]
           FitStep(v, i) ==
             IF Len(v[i]) \in 1..limit THEN Copy(v, i) ELSE Replace(i + 1, <<>>)
           fit == Scan(values, FitStep)
           got == SubSeq(fit, 1, Min({3, Len(fit)}))
           F == {g \in Seq(W) : Len(g) \in 1..limit /\ EndsWell(g)}
           n == Len(values)
           steps == [i \in 1..n |-> FitStep(values, i)]
<1>1. CandidatesOf(x, limit) = got
  BY DEF CandidatesOf
<1>2. lines \in Seq(Seq(W))
  BY LinesAre
<1>3. n \in Nat /\ DOMAIN values = 1..n
      /\ \A i \in 1..n : values[i] \in Seq(W) /\ EndsWell(values[i])
  <2> DEFINE C == Seq(W)
  <2>1. lines \in Seq(C)
    BY <1>2
  <2> HIDE DEF lines, C
  <2>2. DOMAIN lines = 1..Len(lines) /\ Len(lines) \in Nat
        /\ \A i \in 1..Len(lines) : lines[i] \in C
    BY <2>1
  <2>3. \A z \in C : Unnumbered(Trim(z, JsonSpace)) \in Seq(W)
                     /\ EndsWell(Unnumbered(Trim(z, JsonSpace)))
    <3>1. ASSUME NEW z \in C
          PROVE  /\ Unnumbered(Trim(z, JsonSpace)) \in Seq(W)
                 /\ EndsWell(Unnumbered(Trim(z, JsonSpace)))
      <4> DEFINE t == Trim(z, JsonSpace)
      <4>1. z \in Seq(W)
        BY <3>1 DEF C
      <4> HIDE DEF W
      <4>2. t \in Seq(W)
        BY ONLY <4>1, TrimIs
      <4>3. t # <<>> => t[1] \notin JsonSpace /\ t[Len(t)] \notin JsonSpace
        BY ONLY <4>1, TrimIs
      <4> HIDE DEF t
      <4>4. EndsWell(t)
        BY ONLY <4>3 DEF EndsWell
      <4>5. Unnumbered(t) \in Seq(W) /\ EndsWell(Unnumbered(t))
        BY ONLY <4>2, <4>4, UnnumberedIs
      <4> QED BY <4>5 DEF t
    <3> QED BY <3>1
  <2>4. DOMAIN values = 1..Len(lines) /\ Len(values) = Len(lines)
    <3>1. DOMAIN values = 1..Len(lines)
      BY <2>2
    <3>2. \A i \in 1..Len(lines) : values[i] \in Seq(W)
      BY <2>2, <2>3
    <3>3. values \in Seq(Seq(W))
      <4>1. values \in [1..Len(lines) -> Seq(W)]
        <5> DEFINE G == Seq(W)
        <5>1. \A i \in DOMAIN lines : Unnumbered(Trim(lines[i], JsonSpace)) \in G
          BY <2>2, <2>3
        <5> HIDE DEF G
        <5>2. values \in [DOMAIN lines -> G]
          BY <5>1
        <5> QED BY <2>2, <5>2 DEF G
      <4> HIDE DEF values
      <4> QED BY <2>2, <4>1
    <3> HIDE DEF values
    <3> QED BY <2>2, <3>1, <3>3
  <2>5. ASSUME NEW i \in 1..Len(lines)
        PROVE  values[i] \in Seq(W) /\ EndsWell(values[i])
    <3>1. values[i] = Unnumbered(Trim(lines[i], JsonSpace)) /\ lines[i] \in C
      BY <2>2
    <3> HIDE DEF values
    <3> QED BY <2>3, <3>1
  <2> HIDE DEF values
  <2> QED BY <2>2, <2>4, <2>5
<1> HIDE DEF values, lines
<1>4. ASSUME NEW i \in 1..n
      PROVE  IsStep(FitStep(values, i), i, n, F)
  <2>1. i + 1 \in (i + 1)..(n + 1)
    BY <1>3
  <2>2. CASE Len(values[i]) \in 1..limit
    <3>1. FitStep(values, i) = Replace(i + 1, <<values[i]>>)
      BY <2>2 DEF Copy, Replace
    <3>2. values[i] \in F
      BY <1>3, <2>2
    <3> HIDE DEF F, FitStep, n
    <3>3. <<values[i]>> \in Seq(F)
      BY <3>2
    <3> QED BY ONLY <1>3, <2>1, <3>1, <3>3, ReplaceIs, i \in 1..n
  <2>3. CASE ~ (Len(values[i]) \in 1..limit)
    <3>1. FitStep(values, i) = Replace(i + 1, <<>>)
      BY <2>3
    <3>2. <<>> \in Seq(F)
      OBVIOUS
    <3> HIDE DEF F, FitStep, n
    <3> QED BY ONLY <1>3, <2>1, <3>1, <3>2, ReplaceIs, i \in 1..n
  <2> QED BY <2>2, <2>3
<1>5. fit = Built(steps, n) /\ DOMAIN steps = 1..n /\ \A i \in 1..n : steps[i] = FitStep(values, i)
  BY DEF Scan
<1> HIDE DEF F, FitStep, n, steps, fit
<1>6. fit \in Seq(F)
  BY ONLY <1>3, <1>4, <1>5, BuiltIs
<1> DEFINE m == Min({3, Len(fit)})
<1>7. m \in 0..3 /\ m <= Len(fit) /\ Len(fit) \in Nat
  <2>1. Len(fit) \in Nat
    BY <1>6
  <2>2. {3, Len(fit)} \in SUBSET Nat /\ {3, Len(fit)} # {}
    BY <2>1
  <2>3. m \in {3, Len(fit)} /\ \A l \in {3, Len(fit)} : m <= l
    BY <2>2, LeastIs
  <2> HIDE DEF m
  <2> QED BY <2>1, <2>3
<1> HIDE DEF m
<1>8. got = SubSeq(fit, 1, m)
  BY DEF m
<1> HIDE DEF got
<1>9. got \in Seq(F) /\ Len(got) <= 3
  <2>1. \A i \in 1..m : fit[i] \in F
    BY <1>6, <1>7
  <2>2. 1 \in Int /\ m \in Int
    BY <1>7
  <2>3. SubSeq(fit, 1, m) \in Seq(F)
    BY <1>6, <2>1, <2>2, SubSeqProperties
  <2>4. Len(SubSeq(fit, 1, m)) = IF 1 <= m THEN m - 1 + 1 ELSE 0
    BY <1>6, <2>1, <2>2, SubSeqProperties
  <2> QED BY <1>7, <1>8, <2>3, <2>4
<1>10. ASSUME NEW i \in DOMAIN got
       PROVE  /\ got[i] # <<>> /\ Len(got[i]) <= limit
              /\ got[i][Len(got[i])] \notin JsonSpace
              /\ "nl" \notin Range(got[i])
  <2> DEFINE g == got[i]
  <2>1. g \in F
    BY <1>9
  <2> HIDE DEF g
  <2>2. g \in Seq(W) /\ Len(g) \in 1..limit /\ EndsWell(g)
    BY <2>1 DEF F
  <2>3. g # <<>> /\ Len(g) <= limit
    <3>1. Len(g) # 0 /\ Len(g) <= limit
      BY <2>2
    <3> QED BY <3>1
  <2>4. "nl" \notin Range(g)
    <3>1. \A k \in DOMAIN g : g[k] # "nl"
      BY <2>2
    <3> QED BY <3>1 DEF Range
  <2>5. g[Len(g)] \notin JsonSpace
    BY <2>2, <2>3 DEF EndsWell
  <2> QED BY <2>3, <2>4, <2>5 DEF g
<1> QED BY <1>1, <1>9, <1>10

(* A prompt and an answer come back, for every text and every limit of a   *)
(* line.                                                                   *)
THEOREM BackendTextsComeBack ==
  ASSUME NEW S, NEW content \in Seq(S), NEW limit \in Nat
  PROVE  AnswerComesBack(content, limit)
<1> DEFINE taken == ContentOf(AnswerBody(content))
           got == ParseResponse(AnswerBody(content), limit)
<1>1. got = CandidatesOf(taken, limit)
  BY DEF ParseResponse
<1>2. DOMAIN content = 1..Len(content) /\ Len(content) \in Nat
  OBVIOUS
<1>3. "ctl" \notin Range(content) => \A i \in 1..Len(content) : content[i] # "ctl"
  BY <1>2 DEF Range
<1>4. At(content, Len(content)) # "bslash" =>
        (content # <<>> => content[Len(content)] # "bslash")
  BY <1>2 DEF At
<1>5. taken \in Seq(AnswerSymbols(S) \cup Unescaped)
  BY ContentIs
<1>6. (\A i \in 1..Len(content) : content[i] # "ctl")
      /\ (content # <<>> => content[Len(content)] # "bslash") => taken = content
  BY ContentIs
<1>7. (\A i \in 1..Len(content) : content[i] # "ctl") =>
        ExtractJsonString(RequestBody(content), "prompt") = content
  BY PromptsComeBack
<1> HIDE DEF taken, got
<1>8. /\ Len(CandidatesOf(taken, limit)) <= 3
      /\ \A i \in DOMAIN CandidatesOf(taken, limit) :
           /\ CandidatesOf(taken, limit)[i] # <<>>
           /\ Len(CandidatesOf(taken, limit)[i]) <= limit
           /\ CandidatesOf(taken, limit)[i][Len(CandidatesOf(taken, limit)[i])] \notin JsonSpace
           /\ "nl" \notin Range(CandidatesOf(taken, limit)[i])
  BY ONLY <1>5, CandidatesAre, limit \in Nat
<1>9. /\ Len(got) <= 3
      /\ \A i \in DOMAIN got :
           /\ got[i] # <<>> /\ Len(got[i]) <= limit
           /\ got[i][Len(got[i])] \notin JsonSpace
           /\ "nl" \notin Range(got[i])
  BY ONLY <1>1, <1>8
<1>10. "ctl" \notin Range(content) =>
         /\ ExtractJsonString(RequestBody(content), "prompt") = content
         /\ At(content, Len(content)) # "bslash" => got = CandidatesOf(content, limit)
  BY ONLY <1>1, <1>3, <1>4, <1>6, <1>7
<1> QED BY ONLY <1>9, <1>10 DEF AnswerComesBack, got

--------------------------------------------------------------------------------
(* The texts of MCTexts, which grow without a bound here but Size.         *)

Letters ==
  {"[", "]", "|", "=", "*", "<", ">", "/", "edit", "dotless", "ref", "a", "1", "digit", "stop",
   "nl", "wide", "nbsp", Space}
GuardKinds ==
  Linguistic \cup HalfWidth \cup {"times", "alpha", "1", "digit", "stop", Space, "wide", "nbsp"}
ReadingKinds == {"hiragana", "katakana", "hw_kana", "hw_mark", "voicing", "wide"}
Written == {"surface", "answer", "address"}
WrittenSymbols ==
  {"a", "n", "quote", "bslash", "nl", "ctl", "]", "colon", "final_top1", "1", ".", Space,
   "http://", "https://", "h", ":", "0", "/"}

TextsInv ==
  /\ subject \in Contexts => text \in Seq(Letters)
  /\ subject = "kinds" => text \in Seq(GuardKinds)
  /\ subject = "reading" => text \in Seq(ReadingKinds)
  /\ subject \in Written => text \in Seq(WrittenSymbols)

(* No symbol is the mark for what is not there, and those the guard is     *)
(* checked on are no markup.                                               *)
LEMMA SymbolsAre ==
  /\ {Space} \subseteq Letters /\ "end" \notin Letters
  /\ {Space} \subseteq GuardKinds /\ "end" \notin GuardKinds /\ Markup \cap GuardKinds = {}
<1>1. Space # "end" /\ \A c \in Markup : c # Space
  BY DEF Markup, Space
<1>2. {Space} \subseteq Letters /\ "end" \notin Letters
  BY <1>1 DEF Letters
<1>3. \A c \in Markup \cup {"end"} : c \notin Linguistic /\ c \notin HalfWidth
  BY DEF Markup, Linguistic, Kana, HalfWidth
<1>4. \A c \in Markup \cup {"end"} : c \notin {"times", "alpha", "1", "digit", "stop", "wide", "nbsp"}
  BY DEF Markup
<1> QED BY <1>1, <1>2, <1>3, <1>4 DEF GuardKinds

(* The pieces are texts over these symbols.                                *)
LEMMA PiecesAre ==
  /\ \A sub \in Contexts : \A piece \in Pieces[sub] : piece \in Seq(Letters)
  /\ \A piece \in Pieces["kinds"] : piece \in Seq(GuardKinds)
  /\ \A piece \in Pieces["reading"] : piece \in Seq(ReadingKinds)
  /\ \A sub \in Written : \A piece \in Pieces[sub] : piece \in Seq(WrittenSymbols)
<1>1. ASSUME NEW S, NEW T \in SUBSET S
      PROVE  \A piece \in Single(T) : piece \in Seq(S)
  <2>1. \A c \in T : c \in S
    OBVIOUS
  <2>2. ASSUME NEW c \in S PROVE <<c>> \in Seq(S)
    OBVIOUS
  <2>3. \A piece \in Single(T) : \E c \in T : piece = <<c>>
    BY DEF Single
  <2> QED BY <2>1, <2>2, <2>3
<1>2. /\ Pieces["edit"] = Single({"[", "edit", "dotless", Space, "nbsp", "]"})
      /\ Pieces["heading"] = Single({"=", "a", Space})
      /\ Pieces["link"] = Single({"[", "]", "|", "a", "edit"})
      /\ Pieces["ref"] = {<<"<", "ref">>, CloseTag} \cup Single({">", Space, "a"})
      /\ Pieces["number"] = Single({"[", "1", "digit", "]", "edit"})
      /\ Pieces["bullet"] = Single({"*", Space, "a", "wide", "nbsp"})
      /\ Pieces["sentence"] = Single({"stop", Space, "a", "nl", "="})
      /\ Pieces["kinds"] = Single(GuardKinds)
      /\ Pieces["reading"] = Single(ReadingKinds)
  BY DEF Pieces, GuardKinds, ReadingKinds
<1>3. /\ {"[", "edit", "dotless", Space, "nbsp", "]"} \in SUBSET Letters
      /\ {"=", "a", Space} \in SUBSET Letters
      /\ {"[", "]", "|", "a", "edit"} \in SUBSET Letters /\ {">", Space, "a"} \in SUBSET Letters
      /\ {"[", "1", "digit", "]", "edit"} \in SUBSET Letters
      /\ {"*", Space, "a", "wide", "nbsp"} \in SUBSET Letters
      /\ {"stop", Space, "a", "nl", "="} \in SUBSET Letters
  BY DEF Letters
<1>4. <<"<", "ref">> \in Seq(Letters) /\ CloseTag \in Seq(Letters)
  <2>1. /\ "<" \in Letters /\ "ref" \in Letters /\ "/" \in Letters /\ ">" \in Letters
    BY DEF Letters
  <2> QED BY <2>1 DEF CloseTag
<1>5. ASSUME NEW sub \in Contexts, NEW piece \in Pieces[sub]
      PROVE  piece \in Seq(Letters)
  <2>1. CASE sub = "edit"
    BY <1>1, <1>2, <1>3, <1>5, <2>1
  <2>2. CASE sub = "heading"
    BY <1>1, <1>2, <1>3, <1>5, <2>2
  <2>3. CASE sub = "link"
    BY <1>1, <1>2, <1>3, <1>5, <2>3
  <2>4. CASE sub = "ref"
    <3>1. piece = <<"<", "ref">> \/ piece = CloseTag \/ piece \in Single({">", Space, "a"})
      BY <1>2, <1>5, <2>4
    <3> QED BY <1>1, <1>3, <1>4, <3>1
  <2>5. CASE sub = "number"
    BY <1>1, <1>2, <1>3, <1>5, <2>5
  <2>6. CASE sub = "bullet"
    BY <1>1, <1>2, <1>3, <1>5, <2>6
  <2>7. CASE sub = "sentence"
    BY <1>1, <1>2, <1>3, <1>5, <2>7
  <2> QED BY <1>5, <2>1, <2>2, <2>3, <2>4, <2>5, <2>6, <2>7 DEF Contexts
<1>6. \A piece \in Pieces["kinds"] : piece \in Seq(GuardKinds)
  BY <1>1, <1>2
<1>7. \A piece \in Pieces["reading"] : piece \in Seq(ReadingKinds)
  BY <1>1, <1>2
<1>8. ASSUME NEW sub \in Written, NEW piece \in Pieces[sub]
      PROVE  piece \in Seq(WrittenSymbols)
  <2> DEFINE s1 == {"a", "n", "quote", "bslash", "nl", "ctl", "]", "colon", "final_top1"}
             s2 == {"a", "n", "quote", "bslash", "nl", "1", ".", Space}
             s3 == {"http://", "https://", "h", ":", "1", "0", "/"}
  <2>1. /\ Pieces["surface"] = Single(s1) /\ Pieces["answer"] = Single(s2)
        /\ Pieces["address"] = Single(s3)
    BY DEF Pieces
  <2>2. s1 \in SUBSET WrittenSymbols /\ s2 \in SUBSET WrittenSymbols /\ s3 \in SUBSET WrittenSymbols
    BY DEF WrittenSymbols
  <2> HIDE DEF s1, s2, s3
  <2>3. CASE sub = "surface"
    BY <1>1, <1>8, <2>1, <2>2, <2>3
  <2>4. CASE sub = "answer"
    BY <1>1, <1>8, <2>1, <2>2, <2>4
  <2>5. CASE sub = "address"
    BY <1>1, <1>8, <2>1, <2>2, <2>5
  <2> QED BY <1>8, <2>3, <2>4, <2>5 DEF Written
<1> QED BY <1>5, <1>6, <1>7, <1>8

(* A text stays one over its symbols when a piece is added.                *)
LEMMA TextsStep == TextsInv /\ [Next]_vars => TextsInv'
<1> SUFFICES ASSUME TextsInv, [Next]_vars PROVE TextsInv'
  OBVIOUS
<1>1. ASSUME NEW S, NEW s \in Seq(S), NEW piece \in Seq(S)
      PROVE  s \o piece \in Seq(S)
  OBVIOUS
<1>2. CASE Grow
  <2>1. PICK piece \in Pieces[subject] : text' = text \o piece
    BY <1>2 DEF Grow
  <2>2. subject' = subject
    BY <1>2 DEF Grow
  <2>3. subject \in Contexts => text' \in Seq(Letters)
    BY <1>1, <2>1, PiecesAre DEF TextsInv
  <2>4. subject = "kinds" => text' \in Seq(GuardKinds)
    BY <1>1, <2>1, PiecesAre DEF TextsInv
  <2>5. subject = "reading" => text' \in Seq(ReadingKinds)
    BY <1>1, <2>1, PiecesAre DEF TextsInv
  <2>6. subject \in Written => text' \in Seq(WrittenSymbols)
    BY <1>1, <2>1, PiecesAre DEF TextsInv
  <2> QED BY <2>2, <2>3, <2>4, <2>5, <2>6 DEF TextsInv
<1>3. CASE Continue
  <2>1. subject' = subject /\ subject \in FileNames
    BY <1>3 DEF Continue
  <2>2. subject \notin Contexts \cup Written /\ subject # "kinds" /\ subject # "reading"
    BY <2>1 DEF FileNames, Contexts, Written
  <2> QED BY <2>1, <2>2 DEF TextsInv
<1>4. CASE UNCHANGED vars
  BY <1>4 DEF TextsInv, vars
<1> QED BY <1>2, <1>3, <1>4 DEF Next

LEMMA TextsInvariant == Spec => []TextsInv
<1>1. Init => TextsInv
  BY DEF Init, TextsInv
<1> QED BY <1>1, TextsStep, PTL DEF Spec

(* However long the texts grow, the context that is sent is clean.         *)
THEOREM SentContextsAreClean == Spec => []CleanedIsClean
<1>1. TextsInv => CleanedIsClean
  <2> SUFFICES ASSUME TextsInv, subject \in Contexts PROVE CleansWellFor(text, MaxChars)
    BY DEF CleanedIsClean
  <2>1. text \in Seq(Letters) /\ MaxChars \in Nat \ {0}
    BY DEF TextsInv, MaxChars
  <2> QED BY <2>1, SymbolsAre, TextsCleanedWell
<1> QED BY <1>1, TextsInvariant, PTL

(* And the port does what the daemon does.                                 *)
THEOREM PortsDoAlike == Spec => []PortsAgree
<1>1. TextsInv => PortsAgree
  <2> SUFFICES ASSUME TextsInv PROVE PortsAgree
    OBVIOUS
  <2>1. MaxChars \in Nat \ {0} /\ MaxChars \in 1..50
    BY DEF MaxChars
  <2>2. subject \in Contexts => CleansAlikeFor(text, MaxChars)
    <3>1. subject \in Contexts => text \in Seq(Letters)
      BY DEF TextsInv
    <3> QED BY <2>1, <3>1, SymbolsAre, TextsCleanedAlike
  <2>3. subject = "kinds" => JunkAlikeFor(text) /\ GuardsAlikeFor(LongReading, text, MaxChars)
    <3>1. subject = "kinds" => text \in Seq(GuardKinds)
      BY DEF TextsInv
    <3>2. LongReading \in Seq({"hiragana"})
      BY DEF LongReading
    <3> QED BY <2>1, <3>1, <3>2, SymbolsAre, SurfacesJunkAlike, GuardLetsThrough
  <2>4. subject = "reading" => GuardsAlikeFor(text, <<"kanji">>, MaxChars)
    <3>1. subject = "reading" => text \in Seq(ReadingKinds)
      BY DEF TextsInv
    <3>2. <<"kanji">> \in Seq(GuardKinds)
      BY DEF GuardKinds, Linguistic
    <3> QED BY <2>1, <3>1, <3>2, SymbolsAre, GuardLetsThrough
  <2> QED BY <2>2, <2>3, <2>4 DEF PortsAgree
<1> QED BY <1>1, TextsInvariant, PTL

(* And what is written comes back.                                         *)
THEOREM TextsDoComeBack == Spec => []TextsComeBack
<1>1. TextsInv => TextsComeBack
  <2> SUFFICES ASSUME TextsInv PROVE TextsComeBack
    OBVIOUS
  <2>1. subject \in Written => text \in Seq(WrittenSymbols)
    BY DEF TextsInv
  <2>2. subject = "surface" => SurfaceComesBack(text)
    BY <2>1, SurfacesComeBack DEF Written
  <2>3. subject = "answer" => AnswerComesBack(text, MaxLine)
    <3>1. MaxLine \in Nat
      BY DEF MaxLine
    <3> QED BY <2>1, <3>1, BackendTextsComeBack DEF Written
  <2>4. subject = "address" => AddressComesApart(text)
    BY <2>1, AddressesComeApart DEF Written
  <2> QED BY <2>2, <2>3, <2>4 DEF TextsComeBack
<1> QED BY <1>1, TextsInvariant, PTL

(* The user's settings of MCTexts are such settings, too.                  *)
LEMMA ChangedIsWritable == Writable(Changed)
<1>1. Changed = [key \in AI!Keys |-> Changed[key]]
  <2> DEFINE Is(key) == CASE AI!Kind(key) = "bool" -> ~AI!GetDefaultConfig[key]
                         [] AI!Kind(key) = "int" -> <<"8", "3">>
                         [] AI!Kind(key) = "string" -> UserTexts[key]
  <2>1. Changed = [key \in AI!Keys |-> Is(key)]
    BY DEF Changed
  <2> HIDE DEF Is
  <2> QED BY <2>1
<1>2. \A i \in 1..22 : AI!Settings[i][2] = "string" =>
        AI!Settings[i][1] \in
          {"backend_type", "log_level", "ollama_endpoint", "ollama_model", "groq_api_key_env",
           "groq_model", "api_endpoint", "api_model", "api_key_env"}
  BY DEF AI!Settings
<1>3. \A key \in {"backend_type", "log_level", "ollama_endpoint", "ollama_model", "groq_api_key_env",
                  "groq_model", "api_endpoint", "api_model", "api_key_env"} :
        /\ UserTexts[key] # "quote"
        /\ AI!Named(key, UserTexts[key]) = UserTexts[key]
  BY DEF UserTexts, AI!Named
<1>4. \A key \in {"backend_type", "log_level", "ollama_endpoint", "ollama_model", "groq_api_key_env",
                  "groq_model", "api_endpoint", "api_model", "api_key_env"} :
        \A i \in 1..22 : AI!Settings[i][1] # UserTexts[key]
  BY DEF UserTexts, AI!Settings
<1>5. <<"8", "3">> \in Seq(AI!Digits) /\ <<"8", "3">> # <<>>
  BY DEF AI!Digits
<1>6. ASSUME NEW key \in AI!Keys
      PROVE  /\ AI!Kind(key) = "bool" => Changed[key] \in BOOLEAN
             /\ AI!Kind(key) = "string" =>
                  /\ Changed[key] \notin AI!Keys \cup {"quote"}
                  /\ AI!Named(key, Changed[key]) = Changed[key]
             /\ AI!Kind(key) = "int" => Changed[key] \in Seq(AI!Digits) /\ Changed[key] # <<>>
  <2>1. PICK i \in 1..22 : key = AI!Settings[i][1] /\ AI!Kind(key) = AI!Settings[i][2]
    BY KeyIsSetting
  <2>2. AI!Kind(key) = "bool" => Changed[key] = ~AI!GetDefaultConfig[key]
    BY DEF Changed
  <2>3. AI!Kind(key) = "string" => Changed[key] = UserTexts[key]
    BY DEF Changed
  <2>4. AI!Kind(key) = "int" => Changed[key] = <<"8", "3">>
    BY DEF Changed
  <2>5. ASSUME AI!Kind(key) = "string", NEW other \in AI!Keys PROVE UserTexts[key] # other
    <3>1. PICK j \in 1..22 : other = AI!Settings[j][1]
      BY KeyIsSetting
    <3> QED BY <1>2, <1>4, <2>1, <2>5, <3>1
  <2>6. AI!Kind(key) = "string" =>
          UserTexts[key] # "quote" /\ AI!Named(key, UserTexts[key]) = UserTexts[key]
    BY <1>2, <1>3, <2>1
  <2>7. AI!Kind(key) = "bool" => Changed[key] \in BOOLEAN
    BY <2>2
  <2> QED BY <1>5, <2>3, <2>4, <2>5, <2>6, <2>7
<1> QED BY <1>1, <1>6 DEF Writable

(* A text of a file is that file, cut short or whole.                      *)
CutShort(file) == {SubSeq(file, 1, m) : m \in 0..Len(file)}
FilesInv == subject \in FileNames => text \in CutShort(Files[subject])

(* The files are the ones of these lemmas.                                 *)
LEMMA FilesAreSequences ==
  /\ Files["defaults"] = AI!Serialize(AI!GetDefaultConfig) /\ Files["changed"] = AI!Serialize(Changed)
  /\ \E pad \in Seq({Space}) : Files["policy"] = Policy(pad)
  /\ \E pad \in Seq({Space}) : Files["padded_policy"] = Policy(pad)
  /\ \A name \in FileNames : \E S : Files[name] \in Seq(S)
<1>1. /\ Files["defaults"] = AI!Serialize(AI!GetDefaultConfig) /\ Files["changed"] = AI!Serialize(Changed)
      /\ Files["policy"] = Policy(<<>>) /\ Files["padded_policy"] = Policy(Pad(32))
  BY DEF Files
<1>2. <<>> \in Seq({Space}) /\ Pad(32) \in Seq({Space})
  <2>1. \A i \in 1..32 : Space \in {Space}
    OBVIOUS
  <2>2. [i \in 1..32 |-> Space] \in Seq({Space})
    BY <2>1
  <2> QED BY <2>2 DEF Pad
<1>3. \A config : Writable(config) => AI!Serialize(config) \in Seq(FileSymbols(config))
  <2> SUFFICES ASSUME NEW config, Writable(config)
               PROVE  AI!Serialize(config) \in Seq(FileSymbols(config))
    OBVIOUS
  <2>1. PICK x \in Seq(FileSymbols(config) \ {AI!Settings[1][1]}),
             y \in Seq(FileSymbols(config) \ {AI!Settings[1][1]}) :
          /\ AI!Serialize(config) = (x \o AI!Line(config, 1)) \o y
          /\ AI!Line(config, 1) \in Seq(FileSymbols(config))
    <3>1. 1 \in 1..22
      OBVIOUS
    <3> QED BY <3>1, FileIs
  <2>2. x \in Seq(FileSymbols(config)) /\ y \in Seq(FileSymbols(config))
    OBVIOUS
  <2> QED BY <2>1, <2>2
<1>4. \A pad \in Seq({Space}) : Policy(pad) \in Seq(PolicySymbols)
  BY PolicyIs DEF PolicyParts
<1>5. ASSUME NEW name \in FileNames
      PROVE  \E S : Files[name] \in Seq(S)
  <2>1. CASE name = "defaults"
    BY <1>1, <1>3, <2>1, DefaultIsWritable
  <2>2. CASE name = "changed"
    BY <1>1, <1>3, <2>2, ChangedIsWritable
  <2>3. CASE name = "policy"
    BY <1>1, <1>2, <1>4, <2>3
  <2>4. CASE name = "padded_policy"
    BY <1>1, <1>2, <1>4, <2>4
  <2> QED BY <2>1, <2>2, <2>3, <2>4 DEF FileNames
<1> QED BY <1>1, <1>2, <1>5

(* Every text of a file stays a first part of it.                          *)
LEMMA FilesInvariant == Spec => []FilesInv
<1>1. Init => FilesInv
  <2> SUFFICES ASSUME Init, subject \in FileNames PROVE text \in CutShort(Files[subject])
    BY DEF FilesInv
  <2>1. PICK S : Files[subject] \in Seq(S)
    BY FilesAreSequences
  <2>2. 0 \in 0..Len(Files[subject]) /\ SubSeq(Files[subject], 1, 0) = <<>>
    BY <2>1
  <2> QED BY <2>2 DEF Init, CutShort
<1>2. FilesInv /\ [Next]_vars => FilesInv'
  <2> SUFFICES ASSUME FilesInv, [Next]_vars PROVE FilesInv'
    OBVIOUS
  <2>1. CASE Grow
    <3>1. DOMAIN Pieces \cap FileNames = {}
      BY DEF Pieces, FileNames
    <3> QED BY <2>1, <3>1 DEF Grow, FilesInv
  <2>2. CASE Continue
    <3> DEFINE file == Files[subject]
               n == Len(text)
    <3>1. subject \in FileNames /\ n < Len(file) /\ text' = Append(text, file[n + 1]) /\ subject' = subject
      BY <2>2 DEF Continue
    <3>2. PICK S : file \in Seq(S)
      BY <3>1, FilesAreSequences
    <3>3. PICK m \in 0..Len(file) : text = SubSeq(file, 1, m)
      BY <3>1 DEF FilesInv, CutShort
    <3> HIDE DEF file
    <3>4. m = n
      BY <3>2, <3>3
    <3>5. m + 1 \in 0..Len(file) /\ Append(SubSeq(file, 1, m), file[m + 1]) = SubSeq(file, 1, m + 1)
      <4>1. m \in 0..Len(file) /\ m < Len(file)
        BY <3>1, <3>3, <3>4
      <4> QED BY ONLY <3>2, <4>1
    <3>6. text' \in CutShort(file)
      BY <3>1, <3>3, <3>4, <3>5 DEF CutShort
    <3> QED BY <3>1, <3>6 DEF FilesInv, file
  <2>3. CASE UNCHANGED vars
    BY <2>3 DEF FilesInv, vars
  <2> QED BY <2>1, <2>2, <2>3 DEF Next
<1> QED BY <1>1, <1>2, PTL DEF Spec

(* However far a file is written, no setting is read from it that nobody   *)
(* wrote, and the next start finds what this one has saved.                *)
THEOREM SettingsDoComeBack == Spec => []SettingsComeBack
<1>1. FilesInv => SettingsComeBack
  <2> SUFFICES ASSUME FilesInv PROVE SettingsComeBack
    OBVIOUS
  <2>1. ASSUME NEW config, Writable(config), text \in CutShort(AI!Serialize(config))
        PROVE  AI!ReadsBackFor(config, text)
    BY <2>1, SettingsReadBack DEF CutShort
  <2>2. subject \in FileNames => text \in CutShort(Files[subject])
    BY DEF FilesInv
  <2>3. subject = "defaults" => AI!ReadsBackFor(AI!GetDefaultConfig, text)
    BY <2>1, <2>2, FilesAreSequences, DefaultIsWritable DEF FileNames
  <2>4. subject = "changed" => AI!ReadsBackFor(Changed, text)
    BY <2>1, <2>2, FilesAreSequences, ChangedIsWritable DEF FileNames
  <2>5. AI!NextStartFor(AI!Missing)
    <3> DEFINE D == AI!GetDefaultConfig
               T == AI!Serialize(D)
    <3>1. PICK S : T \in Seq(S)
      BY FilesAreSequences DEF FileNames
    <3> HIDE DEF T
    <3>2. SubSeq(T, 1, Len(T)) = T /\ Len(T) \in 0..Len(T)
      BY <3>1
    <3>3. AI!ReadsBackFor(D, T)
      BY <3>2, SettingsReadBack, DefaultIsWritable DEF T
    <3>4. AI!Parse(T) = D
      BY <3>3 DEF AI!ReadsBackFor, T
    <3>5. AI!Load(D, T) = D
      BY <3>4 DEF AI!Load
    <3>6. AI!FileAfterLoad(D, AI!Missing) = T /\ AI!Load(D, AI!Missing) = D
      BY DEF AI!FileAfterLoad, AI!Load, T
    <3> QED BY <3>5, <3>6 DEF AI!NextStartFor
  <2>6. ASSUME NEW pad \in Seq({Space}), text \in CutShort(Policy(pad))
        PROVE  Rerank!PolicyReadFor(PolicyValues, text, Envs)
    BY <2>6, PolicyReads DEF CutShort
  <2>7. subject \in {"policy", "padded_policy"} => Rerank!PolicyReadFor(PolicyValues, text, Envs)
    BY <2>2, <2>6, FilesAreSequences DEF FileNames
  <2> QED BY <2>3, <2>4, <2>5, <2>7 DEF SettingsComeBack
<1> QED BY <1>1, FilesInvariant, PTL
================================================================================
