---------------------------- MODULE Texts_proofs ----------------------------
(***************************************************************************)
(* What the text arithmetic of Texts does, for texts over any units: where *)
(* a change leaves the units of a text, what the difference between two    *)
(* texts is made of, and what becomes of a change that is moved through    *)
(* others; and the facts about sequences that the proofs keep needing.     *)
(***************************************************************************)
EXTENDS Texts, SequenceTheorems, WellFoundedInduction, FiniteSetTheorems, TLAPS

(***************************************************************************)
(* Counting up, and the greatest of some counts.                           *)
(***************************************************************************)
LEMMA Climb ==
    ASSUME NEW n \in Nat, NEW A, 0 \in A, \A i \in 1 .. n : i - 1 \in A => i \in A
    PROVE  \A i \in 0 .. n : i \in A
<1> DEFINE Left == {i \in Nat : i <= n /\ i \notin A}
<1>1. SUFFICES ASSUME Left # {} PROVE FALSE
  OBVIOUS
<1>2. Left \subseteq Nat
  OBVIOUS
<1> HIDE DEF Left
<1>3. PICK least \in Left : \A y \in Left : ~ (<<y, least>> \in OpToRel(<, Nat))
  BY <1>1, <1>2, NatLessThanWellFounded, WFMin
<1>4. least \in Nat /\ least <= n /\ least \notin A
  BY <1>3 DEF Left
<1>5. least # 0
  BY <1>4
<1>6. least \in 1 .. n /\ least - 1 \in Nat /\ least - 1 < least /\ least - 1 <= n
  BY <1>4, <1>5
<1>7. least - 1 \in Left
  BY <1>4, <1>6 DEF Left
<1>8. <<least - 1, least>> \in OpToRel(<, Nat)
  BY <1>4, <1>6 DEF OpToRel
<1>9. QED
  BY <1>3, <1>7, <1>8

LEMMA Greatest ==
    ASSUME NEW n \in Nat, NEW S, S \subseteq 0 .. n, S # {}
    PROVE  Max(S) \in S /\ \A x \in S : x <= Max(S)
<1> DEFINE Gaps == {k \in Nat : n - k \in S}
<1>1. PICK some \in S : TRUE
  OBVIOUS
<1>2. n - some \in Gaps
  BY <1>1
<1>3. Gaps \subseteq Nat /\ Gaps # {}
  BY <1>2
<1>4. \A x \in S : x \in 0 .. n /\ n - x \in Gaps
  OBVIOUS
<1>5. \A k \in Gaps : k \in Nat /\ n - k \in S
  OBVIOUS
<1> HIDE DEF Gaps
<1>6. PICK least \in Gaps : \A y \in Gaps : ~ (<<y, least>> \in OpToRel(<, Nat))
  BY <1>3, NatLessThanWellFounded, WFMin
<1>7. ASSUME NEW x \in S PROVE x <= n - least
  <2>1. x \in 0 .. n /\ n - x \in Gaps /\ n - x \in Nat /\ least \in Nat
    BY <1>4, <1>5, <1>6
  <2>2. ~ (n - x < least)
    BY <1>6, <2>1 DEF OpToRel
  <2>3. QED
    BY <2>1, <2>2
<1>8. n - least \in S
  BY <1>5, <1>6
<1>9. \E x \in S : \A y \in S : x >= y
  <2>1. \A y \in S : n - least >= y
    BY <1>4, <1>5, <1>6, <1>7
  <2>2. QED
    BY <1>8, <2>1
<1>10. Max(S) \in S /\ \A y \in S : Max(S) >= y
  BY <1>9 DEF Max
<1>11. QED
  BY <1>4, <1>10

LEMMA MaxOfTwo ==
    ASSUME NEW a \in Int, NEW b \in Int, a <= b
    PROVE  Max({a, b}) = b
<1>1. \E x \in {a, b} : \A y \in {a, b} : x >= y
  OBVIOUS
<1>2. Max({a, b}) \in {a, b} /\ \A y \in {a, b} : Max({a, b}) >= y
  BY <1>1 DEF Max
<1>3. QED
  BY <1>2

(***************************************************************************)
(* Texts, their parts, and changes of them.                                *)
(***************************************************************************)
Changes(U) == {c \in [start : Nat, end : Nat, text : Seq(U)] : c.start <= c.end}

LEMMA ChangeIs ==
    ASSUME NEW U, NEW c \in Changes(U)
    PROVE  /\ c.start \in Nat /\ c.end \in Nat /\ c.text \in Seq(U) /\ c.start <= c.end
           /\ c = [start |-> c.start, end |-> c.end, text |-> c.text]
BY DEF Changes

LEMMA EditIs ==
    ASSUME NEW U, NEW from \in Nat, NEW to \in Nat, from <= to, NEW text \in Seq(U)
    PROVE  Edit(from, to, text) \in Changes(U)
BY DEF Edit, Changes

LEMMA Part ==
    ASSUME NEW U, NEW text \in Seq(U), NEW from \in Nat \ {0}, NEW to \in Int, to <= Len(text)
    PROVE  SubSeq(text, from, to) \in Seq(U)
<1>1. Len(text) \in Nat /\ \A i \in 1 .. Len(text) : text[i] \in U
  BY LenProperties, ElementOfSeq
<1>2. CASE from <= to
  BY <1>1, <1>2, SubSeqProperties
<1>3. CASE from > to
  BY <1>3, SubSeqProperties, EmptySeq
<1>4. QED
  BY <1>2, <1>3

LEMMA PartIs ==
    ASSUME NEW U, NEW s \in Seq(U), NEW a \in Nat, NEW b \in Nat, a <= b, b <= Len(s)
    PROVE  /\ SubSeq(s, a + 1, b) \in Seq(U)
           /\ Len(SubSeq(s, a + 1, b)) = b - a
           /\ \A i \in 1 .. b - a : SubSeq(s, a + 1, b)[i] = s[a + i]
<1>1. Len(s) \in Nat /\ \A i \in 1 .. Len(s) : s[i] \in U
  BY LenProperties, ElementOfSeq
<1>2. \A i \in a + 1 .. b : s[i] \in U
  BY <1>1
<1>3. /\ SubSeq(s, a + 1, b) \in Seq(U)
      /\ Len(SubSeq(s, a + 1, b)) = IF a + 1 <= b THEN b - (a + 1) + 1 ELSE 0
      /\ \A i \in 1 .. b - (a + 1) + 1 : SubSeq(s, a + 1, b)[i] = s[a + 1 + i - 1]
  BY <1>2, SubSeqProperties
<1>4. \A i \in 1 .. b - a : i \in 1 .. b - (a + 1) + 1 /\ a + 1 + i - 1 = a + i
  OBVIOUS
<1>5. QED
  BY <1>3, <1>4

(* The first and the last part of a text.                                  *)
LEMMA Ends ==
    ASSUME NEW U, NEW s \in Seq(U), NEW a \in Nat, a <= Len(s)
    PROVE  /\ SubSeq(s, 1, a) \in Seq(U) /\ Len(SubSeq(s, 1, a)) = a
           /\ \A i \in 1 .. a : SubSeq(s, 1, a)[i] = s[i]
           /\ SubSeq(s, a + 1, Len(s)) \in Seq(U) /\ Len(SubSeq(s, a + 1, Len(s))) = Len(s) - a
           /\ \A i \in 1 .. Len(s) - a : SubSeq(s, a + 1, Len(s))[i] = s[a + i]
<1>1. Len(s) \in Nat
  BY LenProperties
<1>2. /\ SubSeq(s, 0 + 1, a) \in Seq(U) /\ Len(SubSeq(s, 0 + 1, a)) = a - 0
      /\ \A i \in 1 .. a - 0 : SubSeq(s, 0 + 1, a)[i] = s[0 + i]
  BY PartIs
<1>3. SubSeq(s, 1, a) \in Seq(U) /\ Len(SubSeq(s, 1, a)) = a /\ \A i \in 1 .. a : SubSeq(s, 1, a)[i] = s[i]
  BY <1>2
<1>4. /\ SubSeq(s, a + 1, Len(s)) \in Seq(U) /\ Len(SubSeq(s, a + 1, Len(s))) = Len(s) - a
      /\ \A i \in 1 .. Len(s) - a : SubSeq(s, a + 1, Len(s))[i] = s[a + i]
  BY <1>1, PartIs
<1>5. QED
  BY <1>3, <1>4

(* Parts that agree unit by unit are one.                                  *)
LEMMA SamePart ==
    ASSUME NEW U, NEW s \in Seq(U), NEW t \in Seq(U),
           NEW a \in Nat, NEW c \in Nat, a <= c, c <= Len(s),
           NEW b \in Nat, NEW d \in Nat, b <= d, d <= Len(t), c - a = d - b
    PROVE  SubSeq(s, a + 1, c) = SubSeq(t, b + 1, d)
              <=> \A i \in 1 .. c - a : s[a + i] = t[b + i]
<1> DEFINE x == SubSeq(s, a + 1, c)
           y == SubSeq(t, b + 1, d)
<1>1. x \in Seq(U) /\ Len(x) = c - a /\ \A i \in 1 .. c - a : x[i] = s[a + i]
  BY PartIs
<1>2. y \in Seq(U) /\ Len(y) = d - b /\ \A i \in 1 .. d - b : y[i] = t[b + i]
  BY PartIs
<1> HIDE DEF x, y
<1>3. x = y <=> \A i \in 1 .. c - a : x[i] = y[i]
  BY <1>1, <1>2, SeqEqual
<1>4. QED
  BY <1>1, <1>2, <1>3 DEF x, y

(* Three texts put together.                                               *)
LEMMA Glued ==
    ASSUME NEW U, NEW x \in Seq(U), NEW y \in Seq(U), NEW z \in Seq(U)
    PROVE  /\ x \o y \o z \in Seq(U) /\ Len(x \o y \o z) = Len(x) + Len(y) + Len(z)
           /\ \A i \in 1 .. Len(x) : (x \o y \o z)[i] = x[i]
           /\ \A i \in 1 .. Len(y) : (x \o y \o z)[Len(x) + i] = y[i]
           /\ \A i \in 1 .. Len(z) : (x \o y \o z)[Len(x) + Len(y) + i] = z[i]
<1>1. Len(x) \in Nat /\ Len(y) \in Nat /\ Len(z) \in Nat
  BY LenProperties
<1>2. /\ x \o y \in Seq(U) /\ Len(x \o y) = Len(x) + Len(y)
      /\ \A i \in 1 .. Len(x) + Len(y) :
            (x \o y)[i] = IF i <= Len(x) THEN x[i] ELSE y[i - Len(x)]
  BY ConcatProperties
<1>3. PICK w \in Seq(U) : w = x \o y
  BY <1>2
<1>4. /\ w \o z \in Seq(U) /\ Len(w \o z) = Len(w) + Len(z)
      /\ \A i \in 1 .. Len(w) + Len(z) :
            (w \o z)[i] = IF i <= Len(w) THEN w[i] ELSE z[i - Len(w)]
  BY ConcatProperties
<1>5. Len(w) = Len(x) + Len(y)
  BY <1>2, <1>3
<1>6. ASSUME NEW i \in 1 .. Len(x) PROVE (w \o z)[i] = x[i]
  <2>1. i <= Len(x) /\ i \in 1 .. Len(x) + Len(y) /\ i <= Len(w) /\ i \in 1 .. Len(w) + Len(z)
    BY <1>1, <1>5
  <2>2. QED
    BY <1>2, <1>3, <1>4, <2>1
<1>7. ASSUME NEW i \in 1 .. Len(y) PROVE (w \o z)[Len(x) + i] = y[i]
  <2>1. /\ Len(x) + i \in 1 .. Len(x) + Len(y) /\ Len(x) + i \in 1 .. Len(w) + Len(z)
        /\ ~(Len(x) + i <= Len(x)) /\ Len(x) + i <= Len(w) /\ Len(x) + i - Len(x) = i
    BY <1>1, <1>5
  <2>2. (w \o z)[Len(x) + i] = w[Len(x) + i]
    BY <1>4, <2>1
  <2>3. w[Len(x) + i] = y[i]
    BY <1>2, <1>3, <2>1
  <2>4. QED
    BY <2>2, <2>3
<1>8. ASSUME NEW i \in 1 .. Len(z) PROVE (w \o z)[Len(x) + Len(y) + i] = z[i]
  <2>1. /\ Len(w) + i \in 1 .. Len(w) + Len(z) /\ ~(Len(w) + i <= Len(w)) /\ Len(w) + i - Len(w) = i
    BY <1>1, <1>5
  <2>2. (w \o z)[Len(w) + i] = z[i]
    BY <1>4, <2>1
  <2>3. QED
    BY <1>5, <2>2
<1>9. Len(w \o z) = Len(x) + Len(y) + Len(z)
  BY <1>4, <1>5
<1>10. QED
  BY <1>3, <1>4, <1>6, <1>7, <1>8, <1>9

(* A text cut in three and put together again.                             *)
LEMMA ThreeParts ==
    ASSUME NEW U, NEW s \in Seq(U), NEW x \in Seq(U), NEW y \in Seq(U), NEW z \in Seq(U),
           Len(s) = Len(x) + Len(y) + Len(z),
           \A i \in 1 .. Len(x) : x[i] = s[i],
           \A i \in 1 .. Len(y) : y[i] = s[Len(x) + i],
           \A i \in 1 .. Len(z) : z[i] = s[Len(x) + Len(y) + i]
    PROVE  x \o y \o z = s
<1>1. Len(x) \in Nat /\ Len(y) \in Nat /\ Len(z) \in Nat
  BY LenProperties
<1>2. PICK w \in Seq(U) : /\ w = x \o y \o z /\ Len(w) = Len(s)
                          /\ \A i \in 1 .. Len(x) : w[i] = s[i]
                          /\ \A i \in 1 .. Len(y) : w[Len(x) + i] = s[Len(x) + i]
                          /\ \A i \in 1 .. Len(z) : w[Len(x) + Len(y) + i] = s[Len(x) + Len(y) + i]
  <2> DEFINE w == x \o y \o z
  <2>1. /\ w \in Seq(U) /\ Len(w) = Len(x) + Len(y) + Len(z)
        /\ \A i \in 1 .. Len(x) : w[i] = x[i]
        /\ \A i \in 1 .. Len(y) : w[Len(x) + i] = y[i]
        /\ \A i \in 1 .. Len(z) : w[Len(x) + Len(y) + i] = z[i]
    BY Glued
  <2>2. w = x \o y \o z
    OBVIOUS
  <2> HIDE DEF w
  <2>3. /\ Len(w) = Len(s)
        /\ \A i \in 1 .. Len(x) : w[i] = s[i]
        /\ \A i \in 1 .. Len(y) : w[Len(x) + i] = s[Len(x) + i]
        /\ \A i \in 1 .. Len(z) : w[Len(x) + Len(y) + i] = s[Len(x) + Len(y) + i]
    BY <2>1
  <2>4. QED
    BY <2>1, <2>2, <2>3, Zenon
<1>3. ASSUME NEW i \in 1 .. Len(w) PROVE w[i] = s[i]
  <2>1. CASE i <= Len(x)
    BY <1>1, <1>2, <2>1
  <2>2. CASE i > Len(x) /\ i <= Len(x) + Len(y)
    <3>1. i - Len(x) \in 1 .. Len(y) /\ Len(x) + (i - Len(x)) = i
      BY <1>1, <2>2
    <3>2. QED
      BY <1>2, <3>1
  <2>3. CASE i > Len(x) + Len(y)
    <3>1. i - (Len(x) + Len(y)) \in 1 .. Len(z) /\ Len(x) + Len(y) + (i - (Len(x) + Len(y))) = i
      BY <1>1, <1>2, <2>3
    <3>2. QED
      BY <1>2, <3>1
  <2>4. QED
    BY <1>1, <2>1, <2>2, <2>3
<1>4. QED
  BY <1>2, <1>3, SeqEqual

LEMMA ApplyTyped ==
    ASSUME NEW U, NEW text \in Seq(U), NEW change \in Changes(U)
    PROVE  ApplyChange(text, change) \in Seq(U)
<1> DEFINE end == Max({change.start, change.end})
           head == SubSeq(text, 1, Least(change.start, Len(text)))
           tail == SubSeq(text, end + 1, Len(text))
<1>1. change.start \in Nat /\ change.end \in Nat /\ change.text \in Seq(U)
  BY ChangeIs
<1>2. Len(text) \in Nat
  BY LenProperties
<1>3. end \in Nat
  <2>1. \E x \in {change.start, change.end} : \A y \in {change.start, change.end} : x >= y
    BY <1>1
  <2>2. end \in {change.start, change.end}
    BY <2>1 DEF Max
  <2>3. QED
    BY <1>1, <2>2
<1>4. head \in Seq(U)
  BY <1>1, <1>2, Part DEF Least
<1>5. tail \in Seq(U)
  <2>1. end + 1 \in Nat \ {0} /\ Len(text) \in Int /\ Len(text) <= Len(text)
    BY <1>2, <1>3
  <2> HIDE DEF end
  <2>2. QED
    BY <2>1, Part
<1> HIDE DEF end, head, tail
<1>6. ApplyChange(text, change) = head \o change.text \o tail
  BY DEF ApplyChange, head, tail, end
<1>7. QED
  BY <1>1, <1>4, <1>5, <1>6, ConcatProperties

(* What a change of a range inside the text leaves.                        *)
LEMMA ApplyIs ==
    ASSUME NEW text, Len(text) \in Nat, NEW start \in Nat, NEW end \in Nat, NEW insert,
           start <= end, start <= Len(text)
    PROVE  ApplyChange(text, Edit(start, end, insert))
              = SubSeq(text, 1, start) \o insert \o SubSeq(text, end + 1, Len(text))
<1>1. Max({start, end}) = end
  BY MaxOfTwo
<1>2. Least(start, Len(text)) = start
  BY DEF Least
<1> DEFINE change == Edit(start, end, insert)
<1>3. change.start = start /\ change.end = end /\ change.text = insert
  BY DEF Edit
<1> HIDE DEF change
<1>4. QED
  BY <1>1, <1>2, <1>3 DEF ApplyChange, change

(* A text after a change of a range inside it, unit by unit.               *)
Edited(result, text, start, end, insert) ==
    /\ Len(result) = Len(text) + Len(insert) - (end - start)
    /\ \A i \in 1 .. start : result[i] = text[i]
    /\ \A i \in 1 .. Len(insert) : result[start + i] = insert[i]
    /\ \A i \in 1 .. Len(text) - end : result[start + Len(insert) + i] = text[end + i]

LEMMA ApplyAt ==
    ASSUME NEW U, NEW text \in Seq(U), NEW insert \in Seq(U),
           NEW start \in Nat, NEW end \in Nat, start <= end, end <= Len(text)
    PROVE  /\ ApplyChange(text, Edit(start, end, insert)) \in Seq(U)
           /\ Edited(ApplyChange(text, Edit(start, end, insert)), text, start, end, insert)
<1> DEFINE x == SubSeq(text, 1, start)
           z == SubSeq(text, end + 1, Len(text))
<1>1. Len(text) \in Nat /\ Len(insert) \in Nat /\ start <= Len(text)
  BY LenProperties
<1>2. ApplyChange(text, Edit(start, end, insert)) = x \o insert \o z
  BY <1>1, ApplyIs
<1>3. x \in Seq(U) /\ Len(x) = start /\ \A i \in 1 .. start : x[i] = text[i]
  BY <1>1, Ends
<1>4. /\ z \in Seq(U) /\ Len(z) = Len(text) - end
      /\ \A i \in 1 .. Len(text) - end : z[i] = text[end + i]
  BY <1>1, Ends
<1> HIDE DEF x, z
<1>5. PICK w \in Seq(U) : /\ w = x \o insert \o z
                          /\ Len(w) = Len(x) + Len(insert) + Len(z)
                          /\ \A i \in 1 .. Len(x) : w[i] = x[i]
                          /\ \A i \in 1 .. Len(insert) : w[Len(x) + i] = insert[i]
                          /\ \A i \in 1 .. Len(z) : w[Len(x) + Len(insert) + i] = z[i]
  <2>1. x \in Seq(U) /\ z \in Seq(U)
    BY <1>3, <1>4
  <2> DEFINE w == x \o insert \o z
  <2>2. /\ w \in Seq(U) /\ Len(w) = Len(x) + Len(insert) + Len(z)
        /\ \A i \in 1 .. Len(x) : w[i] = x[i]
        /\ \A i \in 1 .. Len(insert) : w[Len(x) + i] = insert[i]
        /\ \A i \in 1 .. Len(z) : w[Len(x) + Len(insert) + i] = z[i]
    BY <2>1, Glued, SMTT(30)
  <2>3. w = x \o insert \o z
    OBVIOUS
  <2> HIDE DEF w
  <2>4. QED
    BY <2>2, <2>3, Zenon
<1>6. Len(w) = Len(text) + Len(insert) - (end - start)
  BY <1>1, <1>3, <1>4, <1>5
<1>7. Edited(w, text, start, end, insert)
  BY <1>3, <1>4, <1>5, <1>6 DEF Edited
<1>8. QED
  BY <1>2, <1>5, <1>7

(***************************************************************************)
(* The smallest change between two texts.                                  *)
(***************************************************************************)
SameHead(s, t, n) == \A i \in 1 .. n : s[i] = t[i]
SameTail(s, t, n) == \A i \in 0 .. n - 1 : s[Len(s) - i] = t[Len(t) - i]

LEMMA SameHeadIs ==
    ASSUME NEW U, NEW s \in Seq(U), NEW t \in Seq(U), NEW n \in Nat, n <= Len(s), n <= Len(t)
    PROVE  SubSeq(s, 1, n) = SubSeq(t, 1, n) <=> SameHead(s, t, n)
<1>1. SubSeq(s, 0 + 1, n) = SubSeq(t, 0 + 1, n) <=> \A i \in 1 .. n - 0 : s[0 + i] = t[0 + i]
  BY SamePart
<1>2. QED
  BY <1>1 DEF SameHead

LEMMA SameTailIs ==
    ASSUME NEW U, NEW s \in Seq(U), NEW t \in Seq(U), NEW n \in Nat, n <= Len(s), n <= Len(t)
    PROVE  SubSeq(s, Len(s) - n + 1, Len(s)) = SubSeq(t, Len(t) - n + 1, Len(t))
              <=> SameTail(s, t, n)
<1>1. Len(s) \in Nat /\ Len(t) \in Nat
  BY LenProperties
<1>2. Len(s) - n \in Nat /\ Len(t) - n \in Nat
  BY <1>1
<1>3. PICK a \in Nat : a = Len(s) - n
  BY <1>2
<1>4. PICK b \in Nat : b = Len(t) - n
  BY <1>2
<1>5. a = Len(s) - n /\ b = Len(t) - n
  BY <1>3, <1>4
<1> DEFINE x == SubSeq(s, a + 1, Len(s))
           y == SubSeq(t, b + 1, Len(t))
<1>6. x \in Seq(U) /\ Len(x) = n /\ \A i \in 1 .. n : x[i] = s[a + i]
  <2>1. a <= Len(s) /\ Len(s) <= Len(s) /\ Len(s) - a = n
    BY <1>1, <1>5
  <2>2. x \in Seq(U) /\ Len(x) = Len(s) - a /\ \A i \in 1 .. Len(s) - a : x[i] = s[a + i]
    BY <1>1, <2>1, PartIs
  <2>3. QED
    BY <2>1, <2>2
<1>7. y \in Seq(U) /\ Len(y) = n /\ \A i \in 1 .. n : y[i] = t[b + i]
  <2>1. b <= Len(t) /\ Len(t) <= Len(t) /\ Len(t) - b = n
    BY <1>1, <1>5
  <2>2. y \in Seq(U) /\ Len(y) = Len(t) - b /\ \A i \in 1 .. Len(t) - b : y[i] = t[b + i]
    BY <1>1, <2>1, PartIs
  <2>3. QED
    BY <2>1, <2>2
<1>8. x = y <=> \A i \in 1 .. n : s[a + i] = t[b + i]
  <2> HIDE DEF x, y
  <2>1. x = y <=> \A i \in 1 .. n : x[i] = y[i]
    BY <1>6, <1>7, SeqEqual
  <2>2. QED
    BY <1>6, <1>7, <2>1
<1>9. \A i \in 1 .. n : n - i \in 0 .. n - 1 /\ Len(s) - (n - i) = a + i /\ Len(t) - (n - i) = b + i
  BY <1>1, <1>5
<1>10. \A i \in 0 .. n - 1 : n - i \in 1 .. n /\ Len(s) - i = a + (n - i) /\ Len(t) - i = b + (n - i)
  BY <1>1, <1>5
<1>11. (\A i \in 1 .. n : s[a + i] = t[b + i]) <=> SameTail(s, t, n)
  <2>1. ASSUME SameTail(s, t, n), NEW i \in 1 .. n PROVE s[a + i] = t[b + i]
    BY <1>9, <2>1 DEF SameTail
  <2>2. ASSUME \A i \in 1 .. n : s[a + i] = t[b + i], NEW i \in 0 .. n - 1
        PROVE  s[Len(s) - i] = t[Len(t) - i]
    BY <1>10, <2>2
  <2>3. QED
    BY <2>1, <2>2 DEF SameTail
<1>12. QED
  BY <1>5, <1>8, <1>11

LEMMA PrefixIs ==
    ASSUME NEW U, NEW from \in Seq(U), NEW to \in Seq(U)
    PROVE  LET most == Least(Len(from), Len(to))
               prefix == CommonPrefix(from, to)
           IN  /\ prefix \in 0 .. most
               /\ SameHead(from, to, prefix)
               /\ \A n \in 0 .. most : SameHead(from, to, n) => n <= prefix
<1> DEFINE most == Least(Len(from), Len(to))
           Heads == {n \in 0 .. most : SubSeq(from, 1, n) = SubSeq(to, 1, n)}
           prefix == CommonPrefix(from, to)
<1>1. Len(from) \in Nat /\ Len(to) \in Nat /\ most \in Nat /\ most <= Len(from) /\ most <= Len(to)
  BY LenProperties DEF Least
<1>2. prefix = Max(Heads)
  BY DEF CommonPrefix
<1> HIDE DEF most, prefix
<1>3. \A n \in 0 .. most : n \in Heads <=> SameHead(from, to, n)
  BY <1>1, SameHeadIs
<1>4. 0 \in Heads
  BY <1>1, <1>3 DEF SameHead
<1>5. Heads \subseteq 0 .. most
  OBVIOUS
<1> HIDE DEF Heads
<1>6. Max(Heads) \in Heads /\ \A n \in Heads : n <= Max(Heads)
  BY <1>1, <1>4, <1>5, Greatest
<1>7. QED
  BY <1>2, <1>3, <1>5, <1>6 DEF prefix, most

LEMMA SuffixIs ==
    ASSUME NEW U, NEW from \in Seq(U), NEW to \in Seq(U),
           NEW start \in 0 .. Least(Len(from), Len(to))
    PROVE  LET most == Least(Len(from), Len(to)) - start
               suffix == CommonSuffix(from, to, start)
           IN  /\ suffix \in 0 .. most
               /\ SameTail(from, to, suffix)
               /\ \A n \in 0 .. most : SameTail(from, to, n) => n <= suffix
<1> DEFINE most == Least(Len(from), Len(to)) - start
           Tails == {n \in 0 .. most :
                        SubSeq(from, Len(from) - n + 1, Len(from))
                            = SubSeq(to, Len(to) - n + 1, Len(to))}
           suffix == CommonSuffix(from, to, start)
<1>1. Len(from) \in Nat /\ Len(to) \in Nat /\ most \in Nat /\ most <= Len(from) /\ most <= Len(to)
  BY LenProperties DEF Least
<1>2. suffix = Max(Tails)
  BY DEF CommonSuffix
<1> HIDE DEF most, suffix
<1>3. \A n \in 0 .. most : n \in Tails <=> SameTail(from, to, n)
  <2>1. ASSUME NEW n \in 0 .. most PROVE n \in Tails <=> SameTail(from, to, n)
    <3>1. n \in Nat /\ n <= Len(from) /\ n <= Len(to)
      BY <1>1
    <3>2. SubSeq(from, Len(from) - n + 1, Len(from)) = SubSeq(to, Len(to) - n + 1, Len(to))
             <=> SameTail(from, to, n)
      BY <3>1, SameTailIs
    <3>3. QED
      BY <3>2
  <2> HIDE DEF Tails
  <2>2. QED
    BY <2>1
<1>4. 0 \in Tails
  BY <1>1, <1>3 DEF SameTail
<1>5. Tails \subseteq 0 .. most
  OBVIOUS
<1> HIDE DEF Tails
<1>6. Max(Tails) \in Tails /\ \A n \in Tails : n <= Max(Tails)
  BY <1>1, <1>4, <1>5, Greatest
<1>7. QED
  BY <1>2, <1>3, <1>5, <1>6 DEF suffix, most

(* What `diff` finds between two texts that differ.                        *)
Found(from, to, prefix, suffix, start, kept) ==
    /\ prefix \in 0 .. Least(Len(from), Len(to))
    /\ suffix \in 0 .. Least(Len(from), Len(to)) - prefix
    /\ SameHead(from, to, prefix) /\ SameTail(from, to, suffix)
    /\ \A n \in 0 .. Least(Len(from), Len(to)) : SameHead(from, to, n) => n <= prefix
    /\ \A n \in 0 .. Least(Len(from), Len(to)) - prefix : SameTail(from, to, n) => n <= suffix
    /\ start = IF SplitsPair(from, prefix) \/ SplitsPair(to, prefix) THEN prefix - 1 ELSE prefix
    /\ kept = IF SplitsPair(from, Len(from) - suffix) \/ SplitsPair(to, Len(to) - suffix)
              THEN suffix - 1 ELSE suffix
    /\ start \in Nat /\ kept \in Nat
    /\ Diff(from, to) = Edit(start, Len(from) - kept, SubSeq(to, start + 1, Len(to) - kept))

LEMMA DiffFinds ==
    ASSUME NEW U, NEW from \in Seq(U), NEW to \in Seq(U), from # to
    PROVE  \E prefix, suffix, start, kept \in Nat : Found(from, to, prefix, suffix, start, kept)
<1> DEFINE most == Least(Len(from), Len(to))
           prefix == CommonPrefix(from, to)
           suffix == CommonSuffix(from, to, prefix)
           start == IF SplitsPair(from, prefix) \/ SplitsPair(to, prefix)
                    THEN prefix - 1 ELSE prefix
           kept == IF SplitsPair(from, Len(from) - suffix) \/ SplitsPair(to, Len(to) - suffix)
                   THEN suffix - 1 ELSE suffix
<1>1. Len(from) \in Nat /\ Len(to) \in Nat /\ most \in Nat /\ most <= Len(from) /\ most <= Len(to)
  BY LenProperties DEF Least
<1>2. /\ prefix \in 0 .. most /\ SameHead(from, to, prefix)
      /\ \A n \in 0 .. most : SameHead(from, to, n) => n <= prefix
  BY PrefixIs
<1>3. /\ suffix \in 0 .. most - prefix /\ SameTail(from, to, suffix)
      /\ \A n \in 0 .. most - prefix : SameTail(from, to, n) => n <= suffix
  BY <1>2, SuffixIs
<1>4. Diff(from, to) = Edit(start, Len(from) - kept, SubSeq(to, start + 1, Len(to) - kept))
  BY DEF Diff
<1> HIDE DEF most, prefix, suffix
<1>5. prefix \in Nat /\ suffix \in Nat
  BY <1>1, <1>2, <1>3
<1>6. start \in Nat
  BY <1>5 DEF SplitsPair
<1>7. kept \in Nat
  BY <1>1, <1>5 DEF SplitsPair
<1> HIDE DEF start, kept
<1>8. Found(from, to, prefix, suffix, start, kept)
  BY <1>2, <1>3, <1>4, <1>6, <1>7 DEF Found, start, kept, most
<1>9. QED
  BY <1>5, <1>6, <1>7, <1>8

(* The range `diff` names, before and after it is widened.                 *)
LEMMA RangeIs ==
    ASSUME NEW U, NEW from \in Seq(U), NEW to \in Seq(U),
           NEW prefix \in Nat, NEW suffix \in Nat, NEW start \in Nat, NEW kept \in Nat,
           Found(from, to, prefix, suffix, start, kept)
    PROVE  /\ Len(from) \in Nat /\ Len(to) \in Nat
           /\ prefix + suffix <= Len(from) /\ prefix + suffix <= Len(to)
           /\ start <= prefix /\ prefix <= start + 1 /\ kept <= suffix /\ suffix <= kept + 1
           /\ Len(from) - kept \in Nat /\ Len(to) - kept \in Nat
           /\ start <= Len(from) - kept /\ start <= Len(to) - kept
<1>1. Len(from) \in Nat /\ Len(to) \in Nat
  BY LenProperties
<1>2. prefix + suffix <= Len(from) /\ prefix + suffix <= Len(to)
  BY <1>1 DEF Found, Least
<1>3. start <= prefix /\ prefix <= start + 1 /\ kept <= suffix /\ suffix <= kept + 1
  BY DEF Found
<1>4. Len(from) - kept \in Nat /\ start <= Len(from) - kept
  BY <1>1, <1>2, <1>3
<1>5. Len(to) - kept \in Nat /\ start <= Len(to) - kept
  BY <1>1, <1>2, <1>3
<1>6. QED
  BY <1>1, <1>2, <1>3, <1>4, <1>5

LEMMA DiffTyped ==
    ASSUME NEW U, NEW from \in Seq(U), NEW to \in Seq(U)
    PROVE  Diff(from, to) \in Changes(U)
<1>1. CASE from = to
  <2>1. Diff(from, to) = Edit(0, 0, <<>>)
    BY <1>1 DEF Diff
  <2>2. <<>> \in Seq(U)
    OBVIOUS
  <2>3. Edit(0, 0, <<>>) \in Changes(U)
    BY <2>2 DEF Edit, Changes
  <2>4. QED
    BY <2>1, <2>3
<1>2. CASE from # to
  <2>1. PICK prefix, suffix, start, kept \in Nat : Found(from, to, prefix, suffix, start, kept)
    BY <1>2, DiffFinds
  <2>2. /\ Len(from) - kept \in Nat /\ Len(to) - kept \in Nat /\ Len(to) - kept <= Len(to)
        /\ start <= Len(from) - kept
    BY <2>1, RangeIs
  <2>3. SubSeq(to, start + 1, Len(to) - kept) \in Seq(U)
    BY <2>2, Part
  <2>4. Diff(from, to) = Edit(start, Len(from) - kept, SubSeq(to, start + 1, Len(to) - kept))
    BY <2>1 DEF Found
  <2>5. QED
    BY <2>2, <2>3, <2>4, EditIs
<1>3. QED
  BY <1>1, <1>2

(* The change `diff` finds leads from the one text to the other.           *)
LEMMA DiffLeads ==
    ASSUME NEW U, NEW from \in Seq(U), NEW to \in Seq(U)
    PROVE  ApplyChange(from, Diff(from, to)) = to
<1>1. CASE from = to
  <2>1. Diff(from, to) = Edit(0, 0, <<>>)
    BY <1>1 DEF Diff
  <2>2. Len(from) \in Nat
    BY LenProperties
  <2>3. ApplyChange(from, Edit(0, 0, <<>>)) = SubSeq(from, 1, 0) \o <<>> \o SubSeq(from, 0 + 1, Len(from))
    <3>1. 0 \in Nat /\ 0 <= 0 /\ 0 <= Len(from)
      BY <2>2
    <3> DEFINE nothing == <<>>
    <3> HIDE DEF nothing
    <3>2. ApplyChange(from, Edit(0, 0, nothing))
             = SubSeq(from, 1, 0) \o nothing \o SubSeq(from, 0 + 1, Len(from))
      BY <2>2, <3>1, ApplyIs
    <3>3. QED
      BY <3>2 DEF nothing
  <2> DEFINE x == SubSeq(from, 1, 0)
             z == SubSeq(from, 0 + 1, Len(from))
  <2>4. /\ x \in Seq(U) /\ Len(x) = 0
        /\ z \in Seq(U) /\ Len(z) = Len(from) /\ \A i \in 1 .. Len(z) : z[i] = from[i]
    <3>1. 0 \in Nat /\ 0 <= Len(from)
      BY <2>2
    <3>2. /\ x \in Seq(U) /\ Len(x) = 0
          /\ z \in Seq(U) /\ Len(z) = Len(from) - 0
          /\ \A i \in 1 .. Len(from) - 0 : z[i] = from[0 + i]
      BY <3>1, Ends
    <3>3. QED
      BY <2>2, <3>2
  <2>5. <<>> \in Seq(U) /\ Len(<<>>) = 0
    OBVIOUS
  <2> HIDE DEF x, z
  <2>6. PICK y \in Seq(U) : y = <<>>
    BY <2>5
  <2>7. x \o y \o z = from
    BY <2>2, <2>4, <2>5, <2>6, ThreeParts
  <2>8. QED
    BY <1>1, <2>1, <2>3, <2>6, <2>7 DEF x, z
<1>2. CASE from # to
  <2>1. PICK prefix, suffix, start, kept \in Nat : Found(from, to, prefix, suffix, start, kept)
    BY <1>2, DiffFinds
  <2>2. /\ Len(from) \in Nat /\ Len(to) \in Nat
        /\ start <= prefix /\ kept <= suffix /\ prefix + suffix <= Len(from)
        /\ Len(from) - kept \in Nat /\ Len(to) - kept \in Nat
        /\ start <= Len(from) - kept /\ start <= Len(to) - kept
    BY <2>1, RangeIs
  <2>3. PICK end \in Nat : end = Len(from) - kept
    BY <2>2
  <2>4. PICK until \in Nat : until = Len(to) - kept
    BY <2>2
  <2>5. PICK insert \in Seq(U) : /\ insert = SubSeq(to, start + 1, until)
                                 /\ Len(insert) = until - start
                                 /\ \A i \in 1 .. until - start : insert[i] = to[start + i]
    <3>1. start <= until /\ until <= Len(to)
      BY <2>2, <2>4
    <3>2. /\ SubSeq(to, start + 1, until) \in Seq(U)
          /\ Len(SubSeq(to, start + 1, until)) = until - start
          /\ \A i \in 1 .. until - start : SubSeq(to, start + 1, until)[i] = to[start + i]
      BY <3>1, PartIs
    <3>3. QED
      BY <3>2, Zenon
  <2>6. start <= end /\ start <= Len(from) /\ end <= Len(from)
    BY <2>2, <2>3
  <2>7. Diff(from, to) = Edit(start, end, insert)
    BY <2>1, <2>3, <2>4, <2>5 DEF Found
  <2> DEFINE x == SubSeq(from, 1, start)
             z == SubSeq(from, end + 1, Len(from))
  <2>8. ApplyChange(from, Edit(start, end, insert)) = x \o insert \o z
    BY <2>2, <2>6, ApplyIs
  <2>9. x \in Seq(U) /\ Len(x) = start /\ \A i \in 1 .. start : x[i] = from[i]
    BY <2>6, Ends
  <2>10. /\ z \in Seq(U) /\ Len(z) = Len(from) - end
         /\ \A i \in 1 .. Len(from) - end : z[i] = from[end + i]
    BY <2>6, Ends
  <2> HIDE DEF x, z
  <2>11. \A i \in 1 .. Len(x) : x[i] = to[i]
    BY <2>1, <2>2, <2>9 DEF Found, SameHead
  <2>12. \A i \in 1 .. Len(insert) : insert[i] = to[Len(x) + i]
    BY <2>5, <2>9
  <2>13. \A i \in 1 .. Len(z) : z[i] = to[Len(x) + Len(insert) + i]
    <3>1. Len(z) = kept
      BY <2>2, <2>3, <2>10
    <3>2. Len(x) + Len(insert) = until
      BY <2>2, <2>4, <2>5, <2>9
    <3>3. ASSUME NEW i \in 1 .. kept PROVE z[i] = to[until + i]
      <4>1. kept - i \in 0 .. suffix - 1 /\ i \in 1 .. Len(from) - end
        BY <2>2, <2>3
      <4>2. from[Len(from) - (kept - i)] = to[Len(to) - (kept - i)]
        BY <2>1, <4>1 DEF Found, SameTail
      <4>3. Len(from) - (kept - i) = end + i /\ Len(to) - (kept - i) = until + i
        BY <2>2, <2>3, <2>4
      <4>4. z[i] = from[end + i]
        BY <2>10, <4>1
      <4>5. QED
        BY <4>2, <4>3, <4>4
    <3>4. QED
      BY <3>1, <3>2, <3>3
  <2>14. Len(to) = Len(x) + Len(insert) + Len(z)
    BY <2>2, <2>3, <2>4, <2>5, <2>9, <2>10
  <2>15. x \o insert \o z = to
    <3>1. x \in Seq(U) /\ z \in Seq(U)
      BY <2>9, <2>10
    <3>2. QED
      BY <3>1, <2>11, <2>12, <2>13, <2>14, ThreeParts, ZenonT(30)
  <2>16. QED
    BY <2>7, <2>8, <2>15
<1>3. QED
  BY <1>1, <1>2

(* Neither end of the range lies inside a pair, in either text.            *)
LEMMA NothingSplit ==
    ASSUME NEW U, NEW from \in Seq(U), NEW to \in Seq(U),
           NEW prefix \in Nat, NEW suffix \in Nat, NEW start \in Nat, NEW kept \in Nat,
           Found(from, to, prefix, suffix, start, kept)
    PROVE  /\ ~SplitsPair(from, start) /\ ~SplitsPair(to, start)
           /\ ~SplitsPair(from, Len(from) - kept) /\ ~SplitsPair(to, Len(to) - kept)
<1>1. /\ Len(from) \in Nat /\ Len(to) \in Nat
      /\ prefix + suffix <= Len(from) /\ prefix + suffix <= Len(to)
  BY RangeIs
<1>2. SameHead(from, to, prefix) /\ SameTail(from, to, suffix)
  BY DEF Found
<1>3. start = prefix => ~SplitsPair(from, start) /\ ~SplitsPair(to, start)
  <2> SUFFICES ASSUME start = prefix PROVE ~SplitsPair(from, start) /\ ~SplitsPair(to, start)
    OBVIOUS
  <2>1. ~SplitsPair(from, prefix) /\ ~SplitsPair(to, prefix)
    BY DEF Found
  <2>2. QED
    BY <2>1
<1>4. start # prefix => ~SplitsPair(from, start) /\ ~SplitsPair(to, start)
  <2> SUFFICES ASSUME start # prefix PROVE ~SplitsPair(from, start) /\ ~SplitsPair(to, start)
    OBVIOUS
  <2>1. (SplitsPair(from, prefix) \/ SplitsPair(to, prefix)) /\ prefix = start + 1
    BY DEF Found
  <2>2. prefix \in 1 .. prefix
    BY <2>1
  <2>3. from[prefix] = to[prefix]
    BY <1>2, <2>2 DEF SameHead
  <2>4. from[start + 1] \in HighSurrogates /\ to[start + 1] \in HighSurrogates
    BY <2>1, <2>3 DEF SplitsPair
  <2>5. QED
    BY <2>4, SurrogatesAreDisjoint DEF SplitsPair
<1>5. kept = suffix => ~SplitsPair(from, Len(from) - kept) /\ ~SplitsPair(to, Len(to) - kept)
  <2> SUFFICES ASSUME kept = suffix
               PROVE  ~SplitsPair(from, Len(from) - kept) /\ ~SplitsPair(to, Len(to) - kept)
    OBVIOUS
  <2>1. ~SplitsPair(from, Len(from) - suffix) /\ ~SplitsPair(to, Len(to) - suffix)
    BY DEF Found
  <2>2. QED
    BY <2>1
<1>6. kept # suffix => ~SplitsPair(from, Len(from) - kept) /\ ~SplitsPair(to, Len(to) - kept)
  <2> SUFFICES ASSUME kept # suffix
               PROVE  ~SplitsPair(from, Len(from) - kept) /\ ~SplitsPair(to, Len(to) - kept)
    OBVIOUS
  <2>1. /\ SplitsPair(from, Len(from) - suffix) \/ SplitsPair(to, Len(to) - suffix)
        /\ kept = suffix - 1
    BY DEF Found
  <2>2. suffix - 1 \in 0 .. suffix - 1
    BY <2>1
  <2>3. from[Len(from) - (suffix - 1)] = to[Len(to) - (suffix - 1)]
    BY <1>2, <2>2 DEF SameTail
  <2>4. /\ Len(from) - (suffix - 1) = Len(from) - suffix + 1 /\ Len(to) - (suffix - 1) = Len(to) - suffix + 1
        /\ Len(from) - kept = Len(from) - suffix + 1 /\ Len(to) - kept = Len(to) - suffix + 1
    BY <1>1, <2>1
  <2>5. from[Len(from) - kept] \in LowSurrogates /\ to[Len(to) - kept] \in LowSurrogates
    BY <2>1, <2>3, <2>4 DEF SplitsPair
  <2>6. QED
    BY <2>5, SurrogatesAreDisjoint DEF SplitsPair
<1>7. QED
  BY <1>3, <1>4, <1>5, <1>6

(* A whole text cut where nothing is split is whole.                       *)
LEMMA WholePart ==
    ASSUME NEW U, NEW s \in Seq(U), NEW a \in Nat, NEW b \in Nat, a <= b, b <= Len(s),
           ~HasLoneSurrogate(s), ~SplitsPair(s, a), ~SplitsPair(s, b)
    PROVE  ~HasLoneSurrogate(SubSeq(s, a + 1, b))
<1>1. PICK x \in Seq(U) : /\ x = SubSeq(s, a + 1, b) /\ Len(x) = b - a
                          /\ \A i \in 1 .. b - a : x[i] = s[a + i]
  <2>1. /\ SubSeq(s, a + 1, b) \in Seq(U)
        /\ Len(SubSeq(s, a + 1, b)) = b - a
        /\ \A i \in 1 .. b - a : SubSeq(s, a + 1, b)[i] = s[a + i]
    BY PartIs
  <2>2. QED
    BY <2>1, Zenon
<1>2. Len(s) \in Nat /\ DOMAIN s = 1 .. Len(s) /\ DOMAIN x = 1 .. Len(x)
  BY LenProperties
<1>3. ASSUME NEW i \in DOMAIN x
      PROVE  /\ x[i] \in HighSurrogates => SplitsPair(x, i)
             /\ x[i] \in LowSurrogates => SplitsPair(x, i - 1)
  <2>1. i \in 1 .. b - a /\ a + i \in DOMAIN s /\ x[i] = s[a + i]
    BY <1>1, <1>2
  <2>2. ASSUME x[i] \in HighSurrogates PROVE SplitsPair(x, i)
    <3>1. SplitsPair(s, a + i)
      BY <2>1, <2>2 DEF HasLoneSurrogate
    <3>2. a + i # b
      BY <3>1
    <3>3. i + 1 \in 1 .. b - a /\ a + (i + 1) = a + i + 1
      BY <2>1, <3>2
    <3>4. x[i + 1] = s[a + i + 1]
      BY <1>1, <3>3
    <3>5. x[i + 1] \in LowSurrogates
      BY <3>1, <3>4 DEF SplitsPair
    <3>6. 0 < i /\ i < Len(x)
      BY <1>1, <2>1, <3>3
    <3>7. QED
      BY <2>2, <3>5, <3>6 DEF SplitsPair
  <2>3. ASSUME x[i] \in LowSurrogates PROVE SplitsPair(x, i - 1)
    <3>1. SplitsPair(s, a + i - 1)
      BY <2>1, <2>3 DEF HasLoneSurrogate
    <3>2. i - 1 # 0
      BY <2>1, <3>1
    <3>3. i - 1 \in 1 .. b - a /\ a + (i - 1) = a + i - 1 /\ i - 1 + 1 = i
      BY <2>1, <3>2
    <3>4. x[i - 1] = s[a + i - 1]
      BY <1>1, <3>3
    <3>5. x[i - 1] \in HighSurrogates
      BY <3>1, <3>4 DEF SplitsPair
    <3>6. 0 < i - 1 /\ i - 1 < Len(x)
      BY <1>1, <2>1, <3>3
    <3>7. QED
      BY <2>3, <3>3, <3>5, <3>6 DEF SplitsPair
  <2>4. QED
    BY <2>2, <2>3
<1>4. QED
  BY <1>1, <1>3 DEF HasLoneSurrogate

(* A replacement that leads from the one text to the other: what it keeps  *)
(* at the front and at the back is the same in both.                       *)
Leads(from, to, front, back) ==
    /\ front \in Nat /\ back \in Nat
    /\ front + back <= Len(from) /\ front + back <= Len(to)
    /\ SameHead(from, to, front) /\ SameTail(from, to, back)

(* None keeps more than the two parts that `diff` compares.                *)
LEMMA NoneKeepsMore ==
    ASSUME NEW U, NEW from \in Seq(U), NEW to \in Seq(U),
           NEW prefix \in Nat, NEW suffix \in Nat, NEW start \in Nat, NEW kept \in Nat,
           Found(from, to, prefix, suffix, start, kept),
           NEW front, NEW back, Leads(from, to, front, back)
    PROVE  front + back <= prefix + suffix
<1> DEFINE most == Least(Len(from), Len(to))
<1>1. /\ Len(from) \in Nat /\ Len(to) \in Nat
      /\ most \in Nat /\ most <= Len(from) /\ most <= Len(to)
      /\ most = Len(from) \/ most = Len(to)
  BY LenProperties DEF Least
<1>2. /\ prefix \in 0 .. most /\ suffix \in 0 .. most - prefix
      /\ \A n \in 0 .. most : SameHead(from, to, n) => n <= prefix
      /\ \A n \in 0 .. most - prefix : SameTail(from, to, n) => n <= suffix
  BY DEF Found
<1> HIDE DEF most
<1>3. front \in Nat /\ back \in Nat /\ front + back <= most
  BY <1>1 DEF Leads
<1>4. front <= prefix
  BY <1>1, <1>2, <1>3 DEF Leads
<1>5. CASE back <= most - prefix
  <2>1. back \in 0 .. most - prefix
    BY <1>1, <1>2, <1>3, <1>5
  <2>2. back <= suffix
    BY <1>2, <2>1 DEF Leads
  <2>3. QED
    BY <1>3, <1>4, <2>2
<1>6. CASE back > most - prefix
  <2>1. PICK n \in 0 .. most - prefix : n = most - prefix
    BY <1>1, <1>2
  <2>2. \A i \in 0 .. n - 1 : i \in 0 .. back - 1
    BY <1>1, <1>2, <1>3, <1>6, <2>1
  <2>3. SameTail(from, to, n)
    BY <2>2 DEF Leads, SameTail
  <2>4. n <= suffix
    BY <1>2, <2>3
  <2>5. QED
    BY <1>1, <1>2, <1>3, <2>1, <2>4
<1>7. QED
  BY <1>1, <1>2, <1>3, <1>5, <1>6

(* Without the first half of a pair, nothing is widened.                   *)
LEMMA NothingWidened ==
    ASSUME NEW U, NEW from \in Seq(U), NEW to \in Seq(U),
           NEW prefix \in Nat, NEW suffix \in Nat, NEW start \in Nat, NEW kept \in Nat,
           Found(from, to, prefix, suffix, start, kept),
           ~HasLoneSurrogate(from), \A i \in DOMAIN from : from[i] \notin HighSurrogates
    PROVE  start = prefix /\ kept = suffix
<1>1. /\ Len(from) \in Nat /\ Len(to) \in Nat /\ DOMAIN from = 1 .. Len(from)
      /\ prefix + suffix <= Len(from) /\ prefix + suffix <= Len(to)
  BY RangeIs, LenProperties
<1>2. SameHead(from, to, prefix) /\ SameTail(from, to, suffix)
  BY DEF Found
<1>3. ASSUME SplitsPair(from, prefix) \/ SplitsPair(to, prefix) PROVE FALSE
  <2>1. prefix \in 1 .. prefix /\ prefix \in DOMAIN from
    BY <1>1, <1>3 DEF SplitsPair
  <2>2. from[prefix] = to[prefix]
    BY <1>2, <2>1 DEF SameHead
  <2>3. from[prefix] \in HighSurrogates
    BY <1>3, <2>2 DEF SplitsPair
  <2>4. QED
    BY <2>1, <2>3
<1>4. \A at \in Int : ~SplitsPair(from, at)
  <2>1. ASSUME NEW at \in Int, SplitsPair(from, at) PROVE FALSE
    <3>1. from[at] \in HighSurrogates /\ 0 < at /\ at < Len(from)
      BY <2>1 DEF SplitsPair
    <3>2. at \in DOMAIN from
      BY <1>1, <3>1
    <3>3. QED
      BY <3>1, <3>2
  <2>2. QED
    BY <2>1
<1>5. ASSUME SplitsPair(to, Len(to) - suffix) PROVE FALSE
  <2>1. suffix - 1 \in 0 .. suffix - 1 /\ Len(from) - (suffix - 1) \in DOMAIN from
    BY <1>1, <1>5 DEF SplitsPair
  <2>2. from[Len(from) - (suffix - 1)] = to[Len(to) - (suffix - 1)]
    BY <1>2, <2>1 DEF SameTail
  <2>3. Len(to) - (suffix - 1) = Len(to) - suffix + 1
    BY <1>1
  <2>4. from[Len(from) - (suffix - 1)] \in LowSurrogates
    BY <1>5, <2>2, <2>3 DEF SplitsPair
  <2>5. SplitsPair(from, Len(from) - (suffix - 1) - 1)
    BY <2>1, <2>4 DEF HasLoneSurrogate
  <2>6. Len(from) - (suffix - 1) - 1 \in Int
    BY <1>1
  <2>7. QED
    BY <1>4, <2>5, <2>6
<1>6. Len(from) - suffix \in Int
  BY <1>1
<1>7. QED
  BY <1>3, <1>4, <1>5, <1>6 DEF Found

(***************************************************************************)
(* Walks: what a recursive function goes through.                          *)
(***************************************************************************)
(* f is where a walk from a start by n given steps is after each.          *)
Walked(f, start, step, n) == f[0] = start /\ \A i \in 1 .. n : f[i] = step[i][f[i - 1]]

LEMMA WalkExists ==
    ASSUME NEW n \in Nat, NEW S, NEW start, NEW step, start \in S, step \in [1 .. n -> [S -> S]]
    PROVE  \E f \in [0 .. n -> S] : Walked(f, start, step, n)
<1> DEFINE Walks(m) == \E f \in [0 .. m -> S] :
                           f[0] = start /\ \A i \in 1 .. m : f[i] = step[i][f[i - 1]]
           A == {m \in 0 .. n : Walks(m)}
<1>1. Walks(0)
  <2> DEFINE g == [i \in 0 .. 0 |-> start]
  <2>1. g \in [0 .. 0 -> S] /\ g[0] = start /\ \A i \in 1 .. 0 : g[i] = step[i][g[i - 1]]
    OBVIOUS
  <2> HIDE DEF g
  <2>2. QED
    BY <2>1
<1>2. ASSUME NEW i \in 1 .. n, Walks(i - 1) PROVE Walks(i)
  <2>1. PICK f \in [0 .. i - 1 -> S] : f[0] = start /\ \A j \in 1 .. i - 1 : f[j] = step[j][f[j - 1]]
    BY <1>2
  <2> DEFINE g == [j \in 0 .. i |-> IF j = i THEN step[i][f[i - 1]] ELSE f[j]]
  <2>2. i \in Nat /\ i - 1 \in 0 .. i - 1
    OBVIOUS
  <2>3. step[i][f[i - 1]] \in S
    BY <2>2
  <2>4. g \in [0 .. i -> S]
    BY <2>2, <2>3
  <2>5. g[0] = start
    BY <2>1
  <2>6. ASSUME NEW j \in 1 .. i PROVE g[j] = step[j][g[j - 1]]
    <3>1. j - 1 \in 0 .. i /\ j \in 0 .. i /\ j - 1 # i
      BY <2>2
    <3>2. g[j - 1] = f[j - 1]
      BY <3>1
    <3>3. CASE j = i
      BY <3>1, <3>2, <3>3
    <3>4. CASE j # i
      <4>1. j \in 1 .. i - 1
        BY <3>4
      <4>2. f[j] = step[j][f[j - 1]]
        BY <2>1, <4>1
      <4>3. QED
        BY <3>1, <3>2, <3>4, <4>2
    <3>5. QED
      BY <3>3, <3>4
  <2> HIDE DEF g
  <2>7. QED
    BY <2>4, <2>5, <2>6
<1> HIDE DEF Walks
<1>3. 0 \in A /\ \A i \in 1 .. n : i - 1 \in A => i \in A
  BY <1>1, <1>2
<1>4. n \in A
  <2> HIDE DEF A
  <2>1. \A i \in 0 .. n : i \in A
    BY <1>3, Climb
  <2>2. QED
    BY <2>1
<1>5. Walks(n)
  BY <1>4
<1>6. QED
  BY <1>5 DEF Walks, Walked

(* Two walks that start alike and step alike are one.                      *)
StepAlike(f, g, n) == f[0] = g[0] /\ \A i \in 1 .. n : f[i - 1] = g[i - 1] => f[i] = g[i]
Alike(f, g, n) == \A i \in 0 .. n : f[i] = g[i]

LEMMA SameWalk ==
    ASSUME NEW n \in Nat, NEW f, NEW g, StepAlike(f, g, n)
    PROVE  Alike(f, g, n)
<1> DEFINE A == {i \in 0 .. n : f[i] = g[i]}
<1>1. 0 \in A
  BY DEF StepAlike
<1>2. \A i \in 1 .. n : i - 1 \in A => i \in A
  BY DEF StepAlike
<1> HIDE DEF A
<1>3. \A i \in 0 .. n : i \in A
  BY <1>1, <1>2, Climb
<1>4. QED
  BY <1>3 DEF A, Alike

(***************************************************************************)
(* A change moved through others.                                          *)
(***************************************************************************)
(* One step of `rebase`.                                                   *)
Moved(U) == [placed : BOOLEAN, change : Changes(U)]
Grown(local) == Len(local.text) - (local.end - local.start)
Through(moved, local) ==
    CASE ~moved.placed -> moved
      [] moved.placed /\ local.end <= moved.change.start ->
            [moved EXCEPT !.change.start = @ + Grown(local), !.change.end = @ + Grown(local)]
      [] /\ moved.placed
         /\ local.end > moved.change.start
         /\ local.start >= moved.change.end -> moved
      [] OTHER -> [moved EXCEPT !.placed = FALSE]

LEMMA ThroughTyped ==
    ASSUME NEW U, NEW moved \in Moved(U), NEW local \in Changes(U)
    PROVE  Through(moved, local) \in Moved(U)
<1>1. /\ local.start \in Nat /\ local.end \in Nat /\ local.start <= local.end
      /\ Len(local.text) \in Nat
  BY ChangeIs, LenProperties
<1>2. /\ moved.change \in Changes(U) /\ moved.placed \in BOOLEAN
      /\ moved = [placed |-> moved.placed, change |-> moved.change]
  BY DEF Moved
<1>3. /\ moved.change.start \in Nat /\ moved.change.end \in Nat
      /\ moved.change.start <= moved.change.end /\ moved.change.text \in Seq(U)
  BY <1>2, ChangeIs
<1>4. ASSUME local.end <= moved.change.start
      PROVE  [moved EXCEPT !.change.start = @ + Grown(local), !.change.end = @ + Grown(local)]
                \in Moved(U)
  <2> DEFINE start == moved.change.start + Grown(local)
             end == moved.change.end + Grown(local)
  <2>1. start \in Nat /\ end \in Nat /\ start <= end
    <3>1. /\ start = moved.change.start + (Len(local.text) - (local.end - local.start))
          /\ end = moved.change.end + (Len(local.text) - (local.end - local.start))
      BY DEF Grown
    <3> DEFINE from == moved.change.start
               to == moved.change.end
               long == Len(local.text)
               cut == local.end
               at == local.start
    <3>2. /\ from \in Nat /\ to \in Nat /\ long \in Nat /\ cut \in Nat /\ at \in Nat
          /\ from <= to /\ at <= cut /\ cut <= from
      BY <1>1, <1>3, <1>4
    <3>3. start = from + (long - (cut - at)) /\ end = to + (long - (cut - at))
      BY <3>1
    <3> HIDE DEF from, to, long, cut, at, start, end
    <3>4. QED
      BY <3>2, <3>3
  <2>2. [moved EXCEPT !.change.start = @ + Grown(local), !.change.end = @ + Grown(local)]
           = [moved EXCEPT !.change = [moved.change EXCEPT !.start = start, !.end = end]]
    BY <1>2 DEF Moved, Changes
  <2> HIDE DEF start, end
  <2>3. [moved.change EXCEPT !.start = start, !.end = end] \in Changes(U)
    BY <1>2, <1>3, <2>1 DEF Changes
  <2>4. QED
    BY <1>2, <2>2, <2>3 DEF Moved
<1>5. [moved EXCEPT !.placed = FALSE] \in Moved(U)
  BY DEF Moved
<1>6. CASE ~moved.placed
  BY <1>6 DEF Through
<1>7. CASE moved.placed /\ local.end <= moved.change.start
  BY <1>4, <1>7 DEF Through
<1>8. CASE moved.placed /\ ~(local.end <= moved.change.start)
  <2>1. Through(moved, local) \in {moved, [moved EXCEPT !.placed = FALSE]}
    BY <1>1, <1>3, <1>8 DEF Through
  <2>2. QED
    BY <1>5, <2>1
<1>9. QED
  BY <1>6, <1>7, <1>8

(* What `rebase` does to a change that it still places.                    *)
LEMMA ThroughIs ==
    ASSUME NEW U, NEW moved \in Moved(U), NEW local \in Changes(U), Through(moved, local).placed
    PROVE  LET after == Through(moved, local).change
           IN  /\ moved.placed
               /\ after.text = moved.change.text
               /\ \/ /\ local.end <= moved.change.start
                     /\ after.start = moved.change.start + Grown(local)
                     /\ after.end = moved.change.end + Grown(local)
                  \/ /\ local.end > moved.change.start
                     /\ local.start >= moved.change.end
                     /\ after = moved.change
<1>1. /\ moved.change \in Changes(U) /\ moved.placed \in BOOLEAN
      /\ moved = [placed |-> moved.placed, change |-> moved.change]
  BY DEF Moved
<1>2. /\ moved.change.start \in Nat /\ moved.change.end \in Nat
      /\ moved.change = [start |-> moved.change.start, end |-> moved.change.end,
                         text |-> moved.change.text]
      /\ local.start \in Nat /\ local.end \in Nat
  BY <1>1, ChangeIs
<1>3. moved.placed
  BY DEF Through
<1>4. CASE local.end <= moved.change.start
  <2>1. Through(moved, local)
           = [moved EXCEPT !.change.start = @ + Grown(local), !.change.end = @ + Grown(local)]
    BY <1>2, <1>3, <1>4 DEF Through
  <2>2. Through(moved, local).change
           = [start |-> moved.change.start + Grown(local), end |-> moved.change.end + Grown(local),
              text |-> moved.change.text]
    BY <1>1, <1>2, <2>1
  <2>3. QED
    BY <1>3, <1>4, <2>2
<1>5. CASE ~(local.end <= moved.change.start)
  <2>1. local.end > moved.change.start
    BY <1>2, <1>5
  <2>2. local.start >= moved.change.end
    <3>1. SUFFICES ASSUME ~(local.start >= moved.change.end) PROVE FALSE
      OBVIOUS
    <3>2. Through(moved, local) = [moved EXCEPT !.placed = FALSE]
      BY <1>3, <1>5, <2>1, <3>1 DEF Through
    <3>3. QED
      BY <1>1, <3>2
  <2>3. Through(moved, local) = moved
    BY <1>3, <1>5, <2>1, <2>2 DEF Through
  <2>4. QED
    BY <1>3, <2>1, <2>2, <2>3
<1>6. QED
  BY <1>4, <1>5

(* What the recursion of `rebase` goes through, change by change.          *)
Way(U, f, change, withheld) ==
    /\ f \in [0 .. Len(withheld) -> Moved(U)]
    /\ f[0] = [placed |-> TRUE, change |-> change]
    /\ \A i \in 1 .. Len(withheld) : f[i] = Through(f[i - 1], withheld[i])
    /\ Rebase(change, withheld) = f[Len(withheld)]

LEMMA RebaseWay ==
    ASSUME NEW U, NEW change \in Changes(U), NEW withheld \in Seq(Changes(U))
    PROVE  \E f : Way(U, f, change, withheld)
<1> DEFINE n == Len(withheld)
           first == [placed |-> TRUE, change |-> change]
           Is(f) == f = [i \in 0 .. n |-> IF i = 0 THEN first
                                          ELSE Through(f[i - 1], withheld[i])]
           after == CHOOSE f : Is(f)
           step == [i \in 1 .. n |-> [m \in Moved(U) |-> Through(m, withheld[i])]]
<1>1. n \in Nat /\ \A i \in 1 .. n : withheld[i] \in Changes(U)
  BY LenProperties, ElementOfSeq
<1>2. first \in Moved(U)
  BY DEF Moved
<1>3. Rebase(change, withheld) = after[n]
  BY DEF Rebase, Through, Grown
<1>4. step \in [1 .. n -> [Moved(U) -> Moved(U)]]
  BY <1>1, ThroughTyped
<1>5. \A i \in 1 .. n, m \in Moved(U) : step[i][m] = Through(m, withheld[i])
  OBVIOUS
<1> HIDE DEF step, n, first
<1>6. PICK f \in [0 .. n -> Moved(U)] : Walked(f, first, step, n)
  <2> HIDE DEF Is
  <2>1. QED
    BY <1>1, <1>2, <1>4, WalkExists, Zenon
<1>7. f[0] = first /\ \A i \in 1 .. n : f[i] = step[i][f[i - 1]]
  BY <1>6 DEF Walked
<1>8. \A i \in 1 .. n : f[i] = Through(f[i - 1], withheld[i])
  <2>1. ASSUME NEW i \in 1 .. n PROVE f[i] = Through(f[i - 1], withheld[i])
    <3>1. i - 1 \in 0 .. n
      BY <1>1
    <3>2. f[i - 1] \in Moved(U)
      BY <1>6, <3>1
    <3>3. QED
      BY <1>5, <1>7, <3>2
  <2>2. QED
    BY <2>1
<1>9. \E g : Is(g)
  <2>1. \A i \in 0 .. n : f[i] = IF i = 0 THEN first ELSE Through(f[i - 1], withheld[i])
    BY <1>1, <1>7, <1>8
  <2>2. f = [i \in 0 .. n |-> f[i]]
    BY <1>6
  <2>3. Is(f)
    BY <2>1, <2>2
  <2>4. QED
    BY <2>3
<1>10. Is(after)
  <2> HIDE DEF Is
  <2>1. QED
    BY <1>9
<1>11. StepAlike(f, after, n)
  <2> HIDE DEF after
  <2>1. after[0] = first
    BY <1>1, <1>10
  <2>2. ASSUME NEW i \in 1 .. n PROVE after[i] = Through(after[i - 1], withheld[i])
    BY <1>1, <1>10
  <2>3. QED
    BY <1>7, <1>8, <2>1, <2>2 DEF StepAlike
<1> HIDE DEF after
<1>12. Alike(f, after, n)
  BY <1>1, <1>11, SameWalk
<1>13. after[n] = f[n]
  BY <1>1, <1>12 DEF Alike
<1>14. QED
  BY <1>3, <1>6, <1>7, <1>8, <1>13 DEF Way, n, first

LEMMA RebaseTyped ==
    ASSUME NEW U, NEW change \in Changes(U), NEW withheld \in Seq(Changes(U))
    PROVE  Rebase(change, withheld) \in Moved(U)
<1>1. PICK f : Way(U, f, change, withheld)
  BY RebaseWay
<1>2. Len(withheld) \in 0 .. Len(withheld)
  BY LenProperties
<1>3. QED
  BY <1>1, <1>2 DEF Way

(* Through no change at all, and through one more.                         *)
LEMMA RebaseNone ==
    ASSUME NEW U, NEW change \in Changes(U)
    PROVE  Rebase(change, <<>>) = [placed |-> TRUE, change |-> change]
<1>1. <<>> \in Seq(Changes(U)) /\ Len(<<>>) = 0
  OBVIOUS
<1>2. PICK f : Way(U, f, change, <<>>)
  BY <1>1, RebaseWay
<1>3. QED
  BY <1>1, <1>2 DEF Way

LEMMA RebaseOneMore ==
    ASSUME NEW U, NEW change \in Changes(U), NEW withheld \in Seq(Changes(U)),
           NEW local \in Changes(U)
    PROVE  Rebase(change, Append(withheld, local)) = Through(Rebase(change, withheld), local)
<1>1. PICK more \in Seq(Changes(U)) : more = Append(withheld, local)
  BY AppendProperties
<1>2. /\ Len(withheld) \in Nat /\ Len(more) = Len(withheld) + 1
      /\ more[Len(withheld) + 1] = local /\ \A i \in 1 .. Len(withheld) : more[i] = withheld[i]
  BY <1>1, AppendProperties, LenProperties
<1>3. PICK f : Way(U, f, change, withheld)
  BY RebaseWay
<1>4. PICK g : Way(U, g, change, more)
  BY RebaseWay
<1>5. StepAlike(f, g, Len(withheld))
  <2>1. f[0] = g[0]
    BY <1>3, <1>4 DEF Way
  <2>2. ASSUME NEW i \in 1 .. Len(withheld), f[i - 1] = g[i - 1] PROVE f[i] = g[i]
    <3>1. i \in 1 .. Len(more) /\ more[i] = withheld[i]
      BY <1>2
    <3>2. f[i] = Through(f[i - 1], withheld[i]) /\ g[i] = Through(g[i - 1], more[i])
      BY <1>3, <1>4, <3>1 DEF Way
    <3>3. QED
      BY <2>2, <3>1, <3>2
  <2>3. QED
    BY <2>1, <2>2 DEF StepAlike
<1>6. Alike(f, g, Len(withheld))
  BY <1>2, <1>5, SameWalk
<1>7. f[Len(withheld)] = g[Len(withheld)]
  BY <1>2, <1>6 DEF Alike
<1>8. Len(more) \in 1 .. Len(more) /\ Len(more) - 1 = Len(withheld)
  BY <1>2
<1>9. g[Len(more)] = Through(g[Len(more) - 1], more[Len(more)])
  BY <1>4, <1>8 DEF Way
<1>10. Rebase(change, more) = g[Len(more)] /\ Rebase(change, withheld) = f[Len(withheld)]
  BY <1>3, <1>4 DEF Way
<1>11. QED
  BY <1>1, <1>2, <1>7, <1>8, <1>9, <1>10

Stands(change, text, gone, Before, After) ==
    /\ change.end - change.start = Len(gone)
    /\ change.end <= Len(text)
    /\ \A i \in 1 .. Len(gone) : text[change.start + i] = gone[i]
    /\ \A i \in 1 .. change.start : text[i] \in Before
    /\ \A i \in change.end + 1 .. Len(text) : text[i] \in After

(* It still does once `rebase` moved it through a local change.            *)
LEMMA StandsThrough ==
    ASSUME NEW U, NEW text \in Seq(U), NEW moved \in Moved(U), NEW gone \in Seq(U),
           NEW Before, NEW After,
           Stands(moved.change, text, gone, Before, After),
           NEW local \in Changes(U), local.end <= Len(text),
           \A i \in 1 .. Len(local.text) : local.text[i] \in Before /\ local.text[i] \in After,
           Through(moved, local).placed
    PROVE  LET after == Through(moved, local).change
           IN  /\ moved.placed
               /\ after.text = moved.change.text
               /\ Stands(after, ApplyChange(text, local), gone, Before, After)
<1>1. /\ local.start \in Nat /\ local.end \in Nat /\ local.text \in Seq(U)
      /\ local.start <= local.end /\ local = Edit(local.start, local.end, local.text)
  BY ChangeIs DEF Edit
<1>2. PICK insert \in Seq(U) : insert = local.text
  BY <1>1
<1>3. PICK start \in Nat : start = local.start
  BY <1>1
<1>4. PICK end \in Nat : end = local.end
  BY <1>1
<1>5. /\ local.start = start /\ local.end = end /\ local.text = insert
      /\ start <= end /\ end <= Len(text) /\ local = Edit(start, end, insert)
      /\ \A i \in 1 .. Len(insert) : insert[i] \in Before /\ insert[i] \in After
  BY <1>1, <1>2, <1>3, <1>4
<1>6. Grown(local) = Len(insert) - (end - start)
  BY <1>5 DEF Grown
<1>7. /\ moved.change.start \in Nat /\ moved.change.end \in Nat
      /\ moved.change.start <= moved.change.end
  BY ChangeIs DEF Moved
<1>8. PICK from \in Nat : from = moved.change.start
  BY <1>7
<1>9. PICK to \in Nat : to = moved.change.end
  BY <1>7
<1>10. Len(text) \in Nat /\ Len(insert) \in Nat /\ Len(gone) \in Nat
  BY LenProperties
<1>11. Len(insert) - (end - start) \in Int
  BY <1>10
<1>12. PICK grown \in Int : grown = Len(insert) - (end - start)
  BY <1>11
<1> DEFINE after == Through(moved, local).change
           result == ApplyChange(text, local)
<1>13. /\ moved.placed /\ after.text = moved.change.text
      /\ \/ end <= from /\ after.start = from + grown /\ after.end = to + grown
         \/ end > from /\ start >= to /\ after.start = from /\ after.end = to
  BY <1>5, <1>6, <1>8, <1>9, <1>12, ThroughIs
<1>14. /\ Len(result) = Len(text) + Len(insert) - (end - start)
       /\ \A i \in 1 .. start : result[i] = text[i]
       /\ \A i \in 1 .. Len(insert) : result[start + i] = insert[i]
       /\ \A i \in 1 .. Len(text) - end : result[start + Len(insert) + i] = text[end + i]
  <2>1. Edited(result, text, start, end, insert)
    BY <1>5, ApplyAt
  <2> HIDE DEF result
  <2>2. QED
    BY <2>1 DEF Edited
<1> HIDE DEF after, result
<1>15. /\ to - from = Len(gone) /\ to <= Len(text)
       /\ \A i \in 1 .. Len(gone) : text[from + i] = gone[i]
       /\ \A i \in 1 .. from : text[i] \in Before
       /\ \A i \in to + 1 .. Len(text) : text[i] \in After
  BY <1>8, <1>9 DEF Stands
<1>16. from <= to
  BY <1>7, <1>8, <1>9
(* Behind what was typed, the text goes on where the removed range ended.  *)
<1>17. ASSUME NEW i \in Nat, i > start + Len(insert), i <= Len(result)
       PROVE  LET k == i - (start + Len(insert))
              IN  /\ end + k \in end + 1 .. Len(text) /\ end + k = i - grown
                  /\ result[i] = text[end + k]
  <2> DEFINE k == i - (start + Len(insert))
  <2>1. k \in 1 .. Len(text) - end /\ start + Len(insert) + k = i
    BY <1>5, <1>10, <1>14, <1>17
  <2>2. end + k \in end + 1 .. Len(text)
    BY <1>10, <2>1
  <2>3. end + k = i - grown
    BY <1>10, <1>12
  <2> HIDE DEF k
  <2>4. result[i] = text[end + k]
    BY <1>14, <2>1
  <2>5. QED
    BY <2>2, <2>3, <2>4 DEF k
<1>18. ASSUME NEW i \in Nat, i > start, i <= start + Len(insert)
       PROVE  result[i] \in Before /\ result[i] \in After
  <2>1. i - start \in 1 .. Len(insert) /\ start + (i - start) = i
    BY <1>5, <1>10, <1>18
  <2>2. QED
    BY <1>5, <1>14, <2>1
<1>19. Len(result) = Len(text) + grown
  BY <1>5, <1>10, <1>12, <1>14
<1>20. CASE end <= from /\ after.start = from + grown /\ after.end = to + grown
  <2>1. from + grown \in Nat /\ to + grown \in Nat
    BY <1>5, <1>10, <1>12, <1>16, <1>20
  <2>2. ASSUME NEW i \in 1 .. Len(gone) PROVE result[from + grown + i] = gone[i]
    <3>1. /\ from + grown + i \in Nat /\ from + grown + i > start + Len(insert)
          /\ from + grown + i <= Len(result) /\ from + grown + i - grown = from + i
      <4>1. i \in Nat /\ 1 <= i /\ i <= Len(gone)
        BY <1>10
      <4>2. from + i <= to /\ to <= Len(text)
        BY <1>10, <1>15, <4>1
      <4>3. from + grown >= start + Len(insert)
        BY <1>10, <1>12, <1>20
      <4>4. QED
        BY <1>10, <1>12, <1>19, <2>1, <4>1, <4>2, <4>3
    <3>2. PICK j \in Nat : j = from + grown + i
      BY <3>1
    <3>3. result[j] = text[j - grown]
      BY <1>17, <3>1, <3>2
    <3>4. QED
      BY <1>15, <3>1, <3>2, <3>3
  <2>3. ASSUME NEW i \in 1 .. from + grown PROVE result[i] \in Before
    <3>1. i \in Nat /\ i <= Len(result)
      BY <1>10, <1>15, <1>16, <1>19, <2>1
    <3>2. CASE i <= start
      <4>1. i \in 1 .. start /\ i \in 1 .. from
        BY <1>5, <1>20, <3>1, <3>2
      <4>2. QED
        BY <1>14, <1>15, <4>1
    <3>3. CASE i > start /\ i <= start + Len(insert)
      BY <1>18, <3>1, <3>3
    <3>4. CASE i > start + Len(insert)
      <4>1. result[i] = text[i - grown] /\ i - grown \in end + 1 .. Len(text)
        BY <1>17, <3>1, <3>4
      <4>2. i - grown \in 1 .. from
        BY <2>1, <4>1
      <4>3. QED
        BY <1>15, <4>1, <4>2
    <3>5. QED
      BY <1>10, <3>1, <3>2, <3>3, <3>4
  <2>4. ASSUME NEW i \in to + grown + 1 .. Len(result) PROVE result[i] \in After
    <3>1. i \in Nat /\ i <= Len(result) /\ i > start + Len(insert)
      BY <1>5, <1>10, <1>12, <1>16, <1>19, <1>20, <2>1
    <3>2. result[i] = text[i - grown] /\ i - grown \in end + 1 .. Len(text)
      BY <1>17, <3>1
    <3>3. i - grown \in to + 1 .. Len(text)
      BY <1>10, <1>19, <2>1, <3>1, <3>2
    <3>4. QED
      BY <1>15, <3>2, <3>3
  <2>5. to + grown - (from + grown) = Len(gone) /\ to + grown <= Len(result)
    BY <1>10, <1>15, <1>19
  <2>6. Stands(after, result, gone, Before, After)
    BY <1>20, <2>2, <2>3, <2>4, <2>5 DEF Stands
  <2>7. QED
    BY <1>13, <2>6 DEF after, result
<1>21. CASE end > from /\ start >= to /\ after.start = from /\ after.end = to
  <2>1. to <= Len(result) /\ \A i \in 1 .. to : result[i] = text[i]
    BY <1>5, <1>10, <1>14, <1>21
  <2>2. ASSUME NEW i \in 1 .. Len(gone) PROVE result[from + i] = gone[i]
    <3>1. from + i \in 1 .. to
      BY <1>10, <1>15
    <3>2. QED
      BY <1>15, <2>1, <3>1
  <2>3. ASSUME NEW i \in 1 .. from PROVE result[i] \in Before
    <3>1. i \in 1 .. to
      BY <1>16
    <3>2. QED
      BY <1>15, <2>1, <3>1
  <2>4. ASSUME NEW i \in to + 1 .. Len(result) PROVE result[i] \in After
    <3>1. i \in Nat /\ i <= Len(result) /\ i > to
      BY <1>10, <1>19
    <3>2. CASE i <= start
      <4>1. i \in 1 .. start /\ i \in to + 1 .. Len(text)
        BY <1>5, <1>10, <3>1, <3>2
      <4>2. QED
        BY <1>14, <1>15, <4>1
    <3>3. CASE i > start /\ i <= start + Len(insert)
      BY <1>18, <3>1, <3>3
    <3>4. CASE i > start + Len(insert)
      <4>1. result[i] = text[i - grown] /\ i - grown \in end + 1 .. Len(text)
        BY <1>17, <3>1, <3>4
      <4>2. i - grown \in to + 1 .. Len(text)
        BY <1>5, <1>10, <1>21, <4>1
      <4>3. QED
        BY <1>15, <4>1, <4>2
    <3>5. QED
      BY <1>10, <3>1, <3>2, <3>3, <3>4
  <2>5. Stands(after, result, gone, Before, After)
    BY <1>15, <1>21, <2>1, <2>2, <2>3, <2>4 DEF Stands
  <2>6. QED
    BY <1>13, <2>5 DEF after, result
<1>22. QED
  BY <1>13, <1>20, <1>21

(***************************************************************************)
(* What a text holds after a change.                                       *)
(***************************************************************************)

(* A text after a change of a range inside it, unit by unit from the front *)
(* of the result.                                                          *)
Spliced(result, text, start, end, insert) ==
    /\ Len(result) = Len(text) + Len(insert) - (end - start)
    /\ \A k \in 1 .. Len(result) :
          result[k] = IF k <= start THEN text[k]
                      ELSE IF k <= start + Len(insert) THEN insert[k - start]
                      ELSE text[k - Len(insert) + (end - start)]

LEMMA ApplySplices ==
    ASSUME NEW U, NEW text \in Seq(U), NEW insert \in Seq(U),
           NEW start \in Nat, NEW end \in Nat, start <= end, end <= Len(text)
    PROVE  /\ ApplyChange(text, Edit(start, end, insert)) \in Seq(U)
           /\ Spliced(ApplyChange(text, Edit(start, end, insert)), text, start, end, insert)
<1> DEFINE r == ApplyChange(text, Edit(start, end, insert))
<1>1. r \in Seq(U) /\ Edited(r, text, start, end, insert)
  BY ApplyAt
<1> HIDE DEF r
<1>2. PICK result \in Seq(U) : result = r
  BY <1>1
<1>3. /\ Len(text) \in Nat /\ Len(insert) \in Nat /\ Len(result) \in Nat
  BY LenProperties
<1>4. PICK n \in Nat : n = Len(text)
  BY <1>3
<1>5. PICK m \in Nat : m = Len(insert)
  BY <1>3
<1>6. /\ Len(result) = n + m - (end - start)
      /\ \A i \in 1 .. start : result[i] = text[i]
      /\ \A i \in 1 .. m : result[start + i] = insert[i]
      /\ \A i \in 1 .. n - end : result[start + m + i] = text[end + i]
  BY <1>1, <1>2, <1>4, <1>5 DEF Edited
<1>7. ASSUME NEW k \in 1 .. Len(result)
      PROVE  result[k] = IF k <= start THEN text[k]
                         ELSE IF k <= start + m THEN insert[k - start]
                         ELSE text[k - m + (end - start)]
  <2>1. CASE k <= start
    BY <1>6, <2>1
  <2>2. CASE k > start /\ k <= start + m
    <3>1. k - start \in 1 .. m /\ start + (k - start) = k
      BY <2>2
    <3>2. QED
      BY <1>6, <2>2, <3>1
  <2>3. CASE k > start + m
    <3>1. /\ k - (start + m) \in 1 .. n - end
          /\ start + m + (k - (start + m)) = k
          /\ end + (k - (start + m)) = k - m + (end - start)
      <4>1. k \in Nat /\ k <= n + m - (end - start)
        BY <1>3, <1>6
      <4>2. QED
        BY <2>3, <4>1
    <3>2. result[k] = text[end + (k - (start + m))]
      BY <1>6, <3>1
    <3>3. QED
      BY <2>3, <3>1, <3>2
  <2>4. QED
    BY <2>1, <2>2, <2>3
<1>8. Spliced(result, text, start, end, insert)
  BY <1>4, <1>5, <1>6, <1>7 DEF Spliced
<1>9. QED
  BY <1>1, <1>2, <1>8 DEF r

(* The same, of a change given as a whole.                                 *)
LEMMA ChangeSplices ==
    ASSUME NEW U, NEW text \in Seq(U), NEW change \in Changes(U), change.end <= Len(text)
    PROVE  /\ ApplyChange(text, change) \in Seq(U)
           /\ Spliced(ApplyChange(text, change), text, change.start, change.end, change.text)
<1>1. /\ change.start \in Nat /\ change.end \in Nat /\ change.text \in Seq(U)
      /\ change.start <= change.end
      /\ change = Edit(change.start, change.end, change.text)
  BY ChangeIs DEF Edit
<1>2. QED
  BY <1>1, ApplySplices

LEMMA UnitsAre ==
    ASSUME NEW U, NEW text \in Seq(U)
    PROVE  \A x : x \in Units(text) <=> \E i \in 1 .. Len(text) : text[i] = x
BY DEF Units, ToSet

(* What a change removes is given up, or is in what it puts there.         *)
Spares(text, change, gone) ==
    /\ change.end <= Len(text)
    /\ \A i \in change.start + 1 .. change.end : text[i] \in gone \cup Units(change.text)

LEMMA SparedUnits ==
    ASSUME NEW U, NEW text \in Seq(U), NEW change \in Changes(U), NEW gone,
           Spares(text, change, gone)
    PROVE  /\ Units(text) \subseteq Units(ApplyChange(text, change)) \cup gone
           /\ Units(ApplyChange(text, change)) \subseteq Units(text) \cup Units(change.text)
<1>1. /\ change.start \in Nat /\ change.end \in Nat /\ change.text \in Seq(U)
      /\ change.start <= change.end /\ change.end <= Len(text)
  BY ChangeIs DEF Spares
<1>2. PICK start \in Nat : start = change.start
  BY <1>1
<1>3. PICK end \in Nat : end = change.end
  BY <1>1
<1>4. PICK insert \in Seq(U) : insert = change.text
  BY <1>1
<1>5. ApplyChange(text, change) \in Seq(U)
  BY <1>1, ChangeSplices
<1>6. PICK result \in Seq(U) : result = ApplyChange(text, change)
  BY <1>5
<1>7. PICK n \in Nat : n = Len(text)
  BY LenProperties
<1>8. PICK m \in Nat : m = Len(insert)
  BY LenProperties
<1>9. /\ Len(result) = n + m - (end - start)
      /\ \A k \in 1 .. Len(result) :
            result[k] = IF k <= start THEN text[k]
                        ELSE IF k <= start + m THEN insert[k - start]
                        ELSE text[k - m + (end - start)]
      /\ start <= end /\ end <= n
  <2>1. Spliced(ApplyChange(text, change), text, change.start, change.end, change.text)
    BY <1>1, ChangeSplices
  <2>2. Spliced(result, text, start, end, insert)
    BY <1>2, <1>3, <1>4, <1>6, <2>1
  <2>3. QED
    BY <1>1, <1>2, <1>3, <1>7, <1>8, <2>2 DEF Spliced
<1>10. \A i \in start + 1 .. end : text[i] \in gone \cup Units(insert)
  BY <1>2, <1>3, <1>4 DEF Spares
<1>11. /\ \A x : x \in Units(text) <=> \E i \in 1 .. n : text[i] = x
       /\ \A x : x \in Units(insert) <=> \E i \in 1 .. m : insert[i] = x
       /\ \A x : x \in Units(result) <=> \E i \in 1 .. Len(result) : result[i] = x
  BY <1>7, <1>8, UnitsAre
<1>12. ASSUME NEW i \in 1 .. m PROVE insert[i] \in Units(result)
  <2>1. start + i \in 1 .. Len(result) /\ result[start + i] = insert[(start + i) - start]
    BY <1>9
  <2>2. (start + i) - start = i
    OBVIOUS
  <2>3. QED
    BY <1>11, <2>1, <2>2
<1>13. ASSUME NEW i \in 1 .. n PROVE text[i] \in Units(result) \cup gone
  <2>1. CASE i <= start
    <3>1. i \in 1 .. Len(result)
      BY <1>9, <2>1
    <3>2. QED
      BY <1>9, <1>11, <2>1, <3>1
  <2>2. CASE i \in start + 1 .. end
    BY <1>10, <1>11, <1>12, <2>2
  <2>3. CASE i > end
    <3>1. /\ i + m - (end - start) \in 1 .. Len(result)
          /\ i + m - (end - start) > start + m
          /\ (i + m - (end - start)) - m + (end - start) = i
      BY <1>9, <2>3
    <3>2. PICK k \in 1 .. Len(result) : k = i + m - (end - start)
      BY <3>1
    <3>3. result[k] = text[i]
      BY <1>9, <3>1, <3>2
    <3>4. QED
      BY <1>11, <3>3
  <2>4. QED
    BY <2>1, <2>2, <2>3
<1>14. ASSUME NEW k \in 1 .. Len(result) PROVE result[k] \in Units(text) \cup Units(insert)
  <2>1. CASE k <= start
    <3>1. k \in 1 .. n
      BY <1>9, <2>1
    <3>2. QED
      BY <1>9, <1>11, <2>1, <3>1
  <2>2. CASE k > start /\ k <= start + m
    <3>1. k - start \in 1 .. m
      BY <2>2
    <3>2. QED
      BY <1>9, <1>11, <2>2, <3>1
  <2>3. CASE k > start + m
    <3>1. k - m + (end - start) \in 1 .. n
      BY <1>9, <2>3
    <3>2. QED
      BY <1>9, <1>11, <2>3, <3>1
  <2>4. QED
    BY <2>1, <2>2, <2>3
<1>15. QED
  BY <1>4, <1>6, <1>11, <1>13, <1>14

(* Two changes of ranges that do not overlap, in either order.             *)
SideBySide(text, a, b, x, c, d, y, g, first, second) ==
    /\ a <= b /\ b <= c /\ c <= d /\ d <= Len(text) /\ g = Len(x) - (b - a)
    /\ first = ApplyChange(text, Edit(a, b, x))
    /\ second = ApplyChange(text, Edit(c, d, y))

Commuted(text, a, b, x, c, d, y, g, first, second) ==
    /\ c + g \in Nat /\ d + g \in Nat /\ d + g <= Len(first) /\ b <= Len(second)
    /\ \A i \in 1 .. b - a : second[a + i] = text[a + i]
    /\ \A i \in 1 .. d - c : first[c + g + i] = text[c + i]
    /\ ApplyChange(first, Edit(c + g, d + g, y)) = ApplyChange(second, Edit(a, b, x))

LEMMA SplicesCommute ==
    ASSUME NEW U, NEW text \in Seq(U), NEW x \in Seq(U), NEW y \in Seq(U),
           NEW a \in Nat, NEW b \in Nat, NEW c \in Nat, NEW d \in Nat, NEW g \in Int,
           NEW first \in Seq(U), NEW second \in Seq(U),
           SideBySide(text, a, b, x, c, d, y, g, first, second)
    PROVE  Commuted(text, a, b, x, c, d, y, g, first, second)
<1>1. PICK n \in Nat : n = Len(text)
  BY LenProperties
<1>2. PICK m \in Nat : m = Len(x)
  BY LenProperties
<1>3. PICK l \in Nat : l = Len(y)
  BY LenProperties
<1>4. PICK n1 \in Nat : n1 = Len(first)
  BY LenProperties
<1>5. PICK n2 \in Nat : n2 = Len(second)
  BY LenProperties
<1>6. /\ a <= b /\ b <= c /\ c <= d /\ d <= n /\ g = m - (b - a)
      /\ first = ApplyChange(text, Edit(a, b, x))
      /\ second = ApplyChange(text, Edit(c, d, y))
  BY <1>1, <1>2 DEF SideBySide
<1>7. b <= n /\ a <= b
  BY <1>6
<1>8. Spliced(first, text, a, b, x)
  BY <1>1, <1>6, <1>7, ApplySplices
<1>9. n1 = n + m - (b - a)
  BY <1>1, <1>2, <1>4, <1>8 DEF Spliced
<1>10. \A k \in 1 .. n1 :
           first[k] = IF k <= a THEN text[k]
                      ELSE IF k <= a + m THEN x[k - a] ELSE text[k - m + (b - a)]
  BY <1>2, <1>4, <1>8 DEF Spliced
<1>11. Spliced(second, text, c, d, y)
  BY <1>1, <1>6, ApplySplices
<1>12. n2 = n + l - (d - c)
  BY <1>1, <1>3, <1>5, <1>11 DEF Spliced
<1>13. \A k \in 1 .. n2 :
           second[k] = IF k <= c THEN text[k]
                       ELSE IF k <= c + l THEN y[k - c] ELSE text[k - l + (d - c)]
  BY <1>3, <1>5, <1>11 DEF Spliced
<1>14. c + g \in Nat /\ d + g \in Nat /\ c + g <= d + g /\ d + g <= n1 /\ b <= n2
  BY <1>6, <1>9, <1>12
<1>15. PICK s \in Nat : s = c + g
  BY <1>14
<1>16. PICK e \in Nat : e = d + g
  BY <1>14
<1>17. /\ a <= b /\ b <= c /\ c <= d /\ d <= n /\ s = c + (m - (b - a)) /\ e = d + (m - (b - a))
       /\ n1 = n + m - (b - a) /\ n2 = n + l - (d - c) /\ s <= e /\ e <= n1 /\ b <= n2
       /\ a + m <= s
  BY <1>6, <1>9, <1>12, <1>14, <1>15, <1>16
<1>18. ASSUME NEW i \in 1 .. b - a PROVE second[a + i] = text[a + i]
  <2>1. PICK k \in 1 .. n2 : k = a + i
    BY <1>17
  <2>2. k <= c
    BY <1>17, <2>1
  <2>3. second[k] = text[k]
    BY <1>13, <2>2
  <2>4. QED
    BY <2>1, <2>3
<1>19. ASSUME NEW i \in 1 .. d - c PROVE first[s + i] = text[c + i]
  <2>1. PICK k \in 1 .. n1 : k = s + i
    BY <1>17
  <2>2. ~(k <= a) /\ ~(k <= a + m) /\ k - m + (b - a) = c + i
    BY <1>17, <2>1
  <2>3. first[k] = text[k - m + (b - a)]
    BY <1>10, <2>2
  <2>4. QED
    BY <2>1, <2>2, <2>3
<1>20. /\ ApplyChange(first, Edit(s, e, y)) \in Seq(U)
       /\ Spliced(ApplyChange(first, Edit(s, e, y)), first, s, e, y)
  BY <1>4, <1>17, ApplySplices
<1>21. /\ ApplyChange(second, Edit(a, b, x)) \in Seq(U)
       /\ Spliced(ApplyChange(second, Edit(a, b, x)), second, a, b, x)
  BY <1>5, <1>17, ApplySplices
<1>22. PICK both \in Seq(U) : both = ApplyChange(first, Edit(s, e, y))
  BY <1>20
<1>23. PICK alike \in Seq(U) : alike = ApplyChange(second, Edit(a, b, x))
  BY <1>21
<1>24. PICK n3 \in Nat : n3 = Len(both)
  BY LenProperties
<1>25. Spliced(both, first, s, e, y) /\ Spliced(alike, second, a, b, x)
  BY <1>20, <1>21, <1>22, <1>23
<1>26. n3 = n1 + l - (e - s)
  BY <1>3, <1>4, <1>24, <1>25 DEF Spliced
<1>27. \A k \in 1 .. n3 :
           both[k] = IF k <= s THEN first[k]
                     ELSE IF k <= s + l THEN y[k - s] ELSE first[k - l + (e - s)]
  BY <1>3, <1>24, <1>25 DEF Spliced
<1>28. Len(alike) = n2 + m - (b - a)
  BY <1>2, <1>5, <1>25 DEF Spliced
<1>29. Len(alike) = n3
  BY <1>17, <1>26, <1>28
<1>30. \A k \in 1 .. n3 :
           alike[k] = IF k <= a THEN second[k]
                      ELSE IF k <= a + m THEN x[k - a] ELSE second[k - m + (b - a)]
  BY <1>2, <1>25, <1>29 DEF Spliced
<1>31. ASSUME NEW k \in 1 .. n3 PROVE both[k] = alike[k]
  <2>1. CASE k <= a
    <3>1. k <= s /\ k \in 1 .. n1 /\ k \in 1 .. n2 /\ k <= c
      BY <1>17, <2>1
    <3>2. both[k] = first[k] /\ alike[k] = second[k]
      BY <1>27, <1>30, <2>1, <3>1
    <3>3. first[k] = text[k] /\ second[k] = text[k]
      BY <1>10, <1>13, <2>1, <3>1
    <3>4. QED
      BY <3>2, <3>3
  <2>2. CASE ~(k <= a) /\ k <= a + m
    <3>1. k <= s /\ k \in 1 .. n1
      BY <1>17, <2>2
    <3>2. both[k] = first[k] /\ alike[k] = x[k - a]
      BY <1>27, <1>30, <2>2, <3>1
    <3>3. first[k] = x[k - a]
      BY <1>10, <2>2, <3>1
    <3>4. QED
      BY <3>2, <3>3
  <2>3. CASE ~(k <= a) /\ ~(k <= a + m)
    <3>1. alike[k] = second[k - m + (b - a)]
      BY <1>30, <2>3
    <3>2. PICK j \in 1 .. n2 : j = k - m + (b - a)
      BY <1>17, <1>26, <2>3
    <3>3. alike[k] = second[j]
      BY <3>1, <3>2
    <3>4. CASE k <= s
      <4>1. k \in 1 .. n1 /\ j <= c
        BY <1>17, <2>3, <3>2, <3>4
      <4>2. both[k] = first[k] /\ first[k] = text[k - m + (b - a)]
        BY <1>10, <1>27, <2>3, <3>4, <4>1
      <4>3. second[j] = text[j]
        BY <1>13, <4>1
      <4>4. QED
        BY <3>2, <3>3, <4>2, <4>3
    <3>5. CASE ~(k <= s) /\ k <= s + l
      <4>1. ~(j <= c) /\ j <= c + l /\ j - c = k - s
        BY <1>17, <3>2, <3>5
      <4>2. both[k] = y[k - s]
        BY <1>27, <3>5
      <4>3. second[j] = y[j - c]
        BY <1>13, <4>1
      <4>4. QED
        BY <3>3, <4>1, <4>2, <4>3
    <3>6. CASE ~(k <= s) /\ ~(k <= s + l)
      <4>1. ~(j <= c) /\ ~(j <= c + l)
        BY <1>17, <3>2, <3>6
      <4>2. PICK i \in 1 .. n1 : i = k - l + (e - s)
        BY <1>17, <1>26, <3>6
      <4>3. ~(i <= a) /\ ~(i <= a + m) /\ j - l + (d - c) = i - m + (b - a)
        BY <1>17, <3>2, <3>6, <4>2
      <4>4. both[k] = first[k - l + (e - s)]
        BY <1>27, <3>6
      <4>5. first[i] = text[i - m + (b - a)]
        BY <1>10, <4>3
      <4>6. second[j] = text[j - l + (d - c)]
        BY <1>13, <4>1
      <4>7. QED
        BY <3>3, <4>2, <4>3, <4>4, <4>5, <4>6
    <3>7. QED
      BY <3>4, <3>5, <3>6
  <2>4. QED
    BY <2>1, <2>2, <2>3
<1>32. Len(both) = Len(alike) /\ \A k \in 1 .. Len(both) : both[k] = alike[k]
  BY <1>24, <1>29, <1>31
<1>33. both = alike
  BY <1>32, SeqEqual
<1>34. ApplyChange(first, Edit(c + g, d + g, y)) = ApplyChange(second, Edit(a, b, x))
  BY <1>15, <1>16, <1>22, <1>23, <1>33
<1>35. \A i \in 1 .. d - c : first[c + g + i] = text[c + i]
  BY <1>15, <1>19
<1>36. QED
  BY <1>4, <1>5, <1>14, <1>18, <1>34, <1>35 DEF Commuted

(* A local change before or behind a range commutes with the change of the *)
(* range: the same text comes out where the range is changed first and the *)
(* local change, moved the other way, is made in what came out.            *)
Alongside(U, text, local, result, after, moved) ==
    \E other \in Changes(U) :
        /\ other.text = local.text
        /\ other.end - other.start = local.end - local.start
        /\ other.end <= Len(result)
        /\ \A i \in 1 .. local.end - local.start :
              result[other.start + i] = text[local.start + i]
        /\ ApplyChange(after, moved) = ApplyChange(result, other)

LEMMA ThroughCommutes ==
    ASSUME NEW U, NEW text \in Seq(U), NEW moved \in Moved(U), NEW local \in Changes(U),
           moved.change.end <= Len(text), local.end <= Len(text),
           Through(moved, local).placed
    PROVE  LET after == Through(moved, local).change
           IN  /\ after.end <= Len(ApplyChange(text, local))
               /\ Alongside(U, text, local, ApplyChange(text, moved.change),
                            ApplyChange(text, local), after)
<1> DEFINE after == Through(moved, local).change
<1>1. /\ local.start \in Nat /\ local.end \in Nat /\ local.text \in Seq(U)
      /\ local.start <= local.end /\ local = Edit(local.start, local.end, local.text)
  BY ChangeIs DEF Edit
<1>2. /\ moved.change \in Changes(U) /\ after \in Changes(U)
  BY ThroughTyped DEF Moved
<1>3. /\ moved.change.start \in Nat /\ moved.change.end \in Nat
      /\ moved.change.text \in Seq(U) /\ moved.change.start <= moved.change.end
      /\ moved.change = Edit(moved.change.start, moved.change.end, moved.change.text)
      /\ after = Edit(after.start, after.end, after.text)
  BY <1>2, ChangeIs DEF Edit
<1>4. PICK a \in Nat : a = local.start
  BY <1>1
<1>5. PICK b \in Nat : b = local.end
  BY <1>1
<1>6. PICK x \in Seq(U) : x = local.text
  BY <1>1
<1>7. PICK c \in Nat : c = moved.change.start
  BY <1>3
<1>8. PICK d \in Nat : d = moved.change.end
  BY <1>3
<1>9. PICK y \in Seq(U) : y = moved.change.text
  BY <1>3
<1>10. /\ a <= b /\ b <= Len(text) /\ c <= d /\ d <= Len(text)
       /\ local = Edit(a, b, x) /\ moved.change = Edit(c, d, y)
  BY <1>1, <1>3, <1>4, <1>5, <1>6, <1>7, <1>8, <1>9
<1>11. Len(x) \in Nat /\ Len(y) \in Nat /\ Len(text) \in Nat
  BY LenProperties
<1>12. /\ ApplyChange(text, Edit(a, b, x)) \in Seq(U)
       /\ ApplyChange(text, Edit(c, d, y)) \in Seq(U)
  BY <1>10, ApplySplices
<1>13. PICK typed \in Seq(U) : typed = ApplyChange(text, Edit(a, b, x))
  BY <1>12
<1>14. PICK result \in Seq(U) : result = ApplyChange(text, Edit(c, d, y))
  BY <1>12
<1>15. /\ after.text = y
       /\ \/ b <= c /\ after.start = c + Grown(local) /\ after.end = d + Grown(local)
          \/ b > c /\ a >= d /\ after = Edit(c, d, y)
  BY <1>4, <1>5, <1>7, <1>8, <1>9, <1>10, ThroughIs
<1> HIDE DEF after
<1>16. Len(x) - (b - a) \in Int /\ Len(y) - (d - c) \in Int
  BY <1>11
<1>17. CASE b <= c /\ after.start = c + Grown(local) /\ after.end = d + Grown(local)
  <2>1. PICK g \in Int : g = Len(x) - (b - a)
    BY <1>16
  <2>2. Grown(local) = g
    BY <1>4, <1>5, <1>6, <2>1 DEF Grown
  <2>3. after = Edit(c + g, d + g, y)
    BY <1>3, <1>15, <1>17, <2>2
  <2>4. /\ d + g <= Len(typed) /\ b <= Len(result)
        /\ \A i \in 1 .. b - a : result[a + i] = text[a + i]
        /\ ApplyChange(typed, Edit(c + g, d + g, y)) = ApplyChange(result, Edit(a, b, x))
    <3>1. SideBySide(text, a, b, x, c, d, y, g, typed, result)
      BY <1>10, <1>13, <1>14, <1>17, <2>1 DEF SideBySide
    <3>2. Commuted(text, a, b, x, c, d, y, g, typed, result)
      BY <3>1, SplicesCommute
    <3>3. QED
      BY <3>2 DEF Commuted
  <2>5. ApplyChange(typed, after) = ApplyChange(result, local)
    BY <1>10, <2>3, <2>4
  <2>6. Alongside(U, text, local, result, typed, after)
    BY <1>4, <1>5, <2>4, <2>5 DEF Alongside
  <2>7. after.end <= Len(typed)
    BY <1>17, <2>2, <2>4
  <2>8. QED
    BY <1>10, <1>13, <1>14, <2>6, <2>7 DEF after
<1>18. CASE b > c /\ a >= d /\ after = Edit(c, d, y)
  <2>1. PICK g \in Int : g = Len(y) - (d - c)
    BY <1>16
  <2>2. /\ a + g \in Nat /\ b + g \in Nat /\ b + g <= Len(result) /\ d <= Len(typed)
        /\ \A i \in 1 .. b - a : result[a + g + i] = text[a + i]
        /\ ApplyChange(result, Edit(a + g, b + g, x)) = ApplyChange(typed, Edit(c, d, y))
    <3>1. SideBySide(text, c, d, y, a, b, x, g, result, typed)
      BY <1>10, <1>13, <1>14, <1>18, <2>1 DEF SideBySide
    <3>2. Commuted(text, c, d, y, a, b, x, g, result, typed)
      BY <3>1, SplicesCommute
    <3>3. QED
      BY <3>2 DEF Commuted
  <2>3. PICK s \in Nat : s = a + g
    BY <2>2
  <2>4. PICK e \in Nat : e = b + g
    BY <2>2
  <2>5. PICK other \in Changes(U) : other = Edit(s, e, x)
    <3>1. s <= e
      BY <1>10, <2>3, <2>4
    <3>2. QED
      BY <3>1, EditIs
  <2>6. other.start = s /\ other.end = e /\ other.text = x
    BY <2>5 DEF Edit
  <2>7. ApplyChange(typed, after) = ApplyChange(result, other)
    BY <1>18, <2>2, <2>3, <2>4, <2>5
  <2>8. Alongside(U, text, local, result, typed, after)
    <3>1. e - s = b - a
      BY <2>1, <2>3, <2>4
    <3>2. other.end - other.start = local.end - local.start
      BY <1>4, <1>5, <2>6, <3>1
    <3>3. \A i \in 1 .. b - a : result[s + i] = text[a + i]
      BY <2>2, <2>3
    <3>4. \A i \in 1 .. local.end - local.start :
              result[other.start + i] = text[local.start + i]
      BY <1>4, <1>5, <2>6, <3>3
    <3>5. QED
      BY <1>6, <2>2, <2>4, <2>6, <2>7, <3>2, <3>4 DEF Alongside
  <2>9. after.end <= Len(typed)
    BY <1>18, <2>2 DEF Edit
  <2>10. QED
    BY <1>10, <1>13, <1>14, <2>8, <2>9 DEF after
<1>19. QED
  BY <1>15, <1>17, <1>18

LEMMA DiffEnds ==
    ASSUME NEW U, NEW from \in Seq(U), NEW to \in Seq(U)
    PROVE  Diff(from, to).end <= Len(from)
<1>1. CASE from = to
  BY <1>1, LenProperties DEF Diff, Edit
<1>2. CASE from # to
  <2>1. PICK prefix, suffix, start, kept \in Nat : Found(from, to, prefix, suffix, start, kept)
    BY <1>2, DiffFinds
  <2>2. Diff(from, to).end = Len(from) - kept
    BY <2>1 DEF Found, Edit
  <2>3. QED
    BY <2>2, LenProperties
<1>3. QED
  BY <1>1, <1>2

(* A change of the whole text leaves what it puts there.                   *)
LEMMA WholeReplaced ==
    ASSUME NEW U, NEW text \in Seq(U), NEW change \in Changes(U),
           change.end <= Len(text), change.end - change.start = Len(text)
    PROVE  ApplyChange(text, change) = change.text
<1>1. /\ change.start \in Nat /\ change.end \in Nat /\ change.text \in Seq(U)
      /\ change.start <= change.end
  BY ChangeIs
<1>2. PICK n \in Nat : n = Len(text)
  BY LenProperties
<1>3. change.start = 0 /\ change.end = n
  BY <1>1, <1>2
<1>4. PICK m \in Nat : m = Len(change.text)
  BY <1>1, LenProperties
<1>5. /\ ApplyChange(text, change) \in Seq(U)
      /\ Spliced(ApplyChange(text, change), text, change.start, change.end, change.text)
  BY ChangeSplices
<1>6. PICK result \in Seq(U) : result = ApplyChange(text, change)
  BY <1>5
<1>7. PICK insert \in Seq(U) : insert = change.text
  BY <1>1
<1>8. Spliced(result, text, 0, n, insert)
  BY <1>3, <1>5, <1>6, <1>7
<1>9. Len(result) = m
  BY <1>2, <1>4, <1>7, <1>8 DEF Spliced
<1>10. ASSUME NEW k \in 1 .. m PROVE result[k] = insert[k]
  <2>1. result[k] = IF k <= 0 THEN text[k]
                    ELSE IF k <= 0 + Len(insert) THEN insert[k - 0]
                    ELSE text[k - Len(insert) + (n - 0)]
    BY <1>8, <1>9 DEF Spliced
  <2>2. ~(k <= 0) /\ k <= 0 + Len(insert) /\ k - 0 = k
    BY <1>4, <1>7
  <2>3. QED
    BY <2>1, <2>2
<1>11. Len(result) = Len(insert) /\ \A k \in 1 .. Len(result) : result[k] = insert[k]
  BY <1>4, <1>7, <1>9, <1>10
<1>12. QED
  BY <1>6, <1>7, <1>11, SeqEqual

(* The length of a text after a change.                                    *)
LEMMA ChangedLength ==
    ASSUME NEW U, NEW text \in Seq(U), NEW change \in Changes(U), change.end <= Len(text)
    PROVE  Len(ApplyChange(text, change))
               = Len(text) + Len(change.text) - (change.end - change.start)
BY ChangeSplices DEF Spliced

(* What a change puts in is in what comes out.                             *)
LEMMA PutIn ==
    ASSUME NEW U, NEW text \in Seq(U), NEW change \in Changes(U), change.end <= Len(text)
    PROVE  Units(change.text) \subseteq Units(ApplyChange(text, change))
<1> DEFINE result == ApplyChange(text, change)
<1>1. result \in Seq(U) /\ Spliced(result, text, change.start, change.end, change.text)
  BY ChangeSplices
<1>2. /\ change.start \in Nat /\ change.end \in Nat /\ change.text \in Seq(U)
      /\ change.start <= change.end
  BY ChangeIs
<1>3. Len(text) \in Nat /\ Len(change.text) \in Nat /\ Len(result) \in Nat
  BY <1>1, <1>2, LenProperties
<1> HIDE DEF result
<1>4. ASSUME NEW j \in 1 .. Len(change.text) PROVE change.text[j] \in Units(result)
  <2> DEFINE k == change.start + j
  <2>1. /\ k \in 1 .. Len(result) /\ ~(k <= change.start)
        /\ k <= change.start + Len(change.text) /\ k - change.start = j
    <3>1. Len(result) = Len(text) + Len(change.text) - (change.end - change.start)
      BY <1>1 DEF Spliced
    <3>2. change.start + Len(change.text) <= Len(result)
      BY <1>2, <1>3, <3>1
    <3>3. j \in Nat /\ 1 <= j /\ j <= Len(change.text)
      BY <1>3
    <3>4. QED
      BY <1>2, <1>3, <3>2, <3>3
  <2>2. result[k] = change.text[j]
    <3> HIDE DEF k
    <3>1. QED
      BY <1>1, <2>1 DEF Spliced
  <2>3. QED
    BY <1>1, <2>1, <2>2, UnitsAre
<1>5. QED
  BY <1>2, <1>4, UnitsAre DEF result

(***************************************************************************)
(* A sequence that grows at its end or shrinks at its front.               *)
(***************************************************************************)
LEMMA AppendAt ==
    ASSUME NEW T, NEW s \in Seq(T), NEW m \in T, NEW t, t = Append(s, m)
    PROVE  /\ Len(s) \in Nat
           /\ t \in Seq(T)
           /\ Len(t) = Len(s) + 1
           /\ \A i \in 1 .. Len(s) : t[i] = s[i] /\ s[i] \in T
           /\ t[Len(s) + 1] = m
OBVIOUS

LEMMA TailAt ==
    ASSUME NEW T, NEW s \in Seq(T), s # <<>>, NEW t, t = Tail(s)
    PROVE  /\ Len(s) \in Nat \ {0}
           /\ t \in Seq(T)
           /\ Len(t) = Len(s) - 1
           /\ \A i \in 1 .. Len(s) - 1 : t[i] = s[i + 1]
           /\ \A i \in 1 .. Len(s) : s[i] \in T
           /\ Head(s) = s[1] /\ s[1] \in T
OBVIOUS

(* Something of a type is on its way.                                      *)
Said(s, type) == \E k \in 1 .. Len(s) : s[k].type = type

LEMMA SaidMore ==
    ASSUME NEW T, NEW s \in Seq(T), NEW m \in T
    PROVE  \A type : Said(Append(s, m), type) <=> Said(s, type) \/ m.type = type
<1> DEFINE t == Append(s, m)
<1>1. /\ Len(s) \in Nat /\ Len(t) = Len(s) + 1
      /\ \A i \in 1 .. Len(s) : t[i] = s[i]
      /\ t[Len(s) + 1] = m
  BY AppendAt
<1> HIDE DEF t
<1>2. ASSUME NEW type PROVE Said(t, type) <=> Said(s, type) \/ m.type = type
  BY <1>1 DEF Said
<1>3. QED
  BY <1>2 DEF t

LEMMA SaidLess ==
    ASSUME NEW T, NEW s \in Seq(T), s # <<>>
    PROVE  \A type : Said(s, type) <=> Said(Tail(s), type) \/ Head(s).type = type
<1> DEFINE t == Tail(s)
<1>1. /\ Len(s) \in Nat \ {0} /\ Len(t) = Len(s) - 1
      /\ \A i \in 1 .. Len(s) - 1 : t[i] = s[i + 1]
      /\ Head(s) = s[1]
  BY TailAt
<1> HIDE DEF t
<1>2. ASSUME NEW type, Said(s, type), s[1].type # type PROVE Said(t, type)
  <2>1. PICK k \in 1 .. Len(s) : s[k].type = type
    BY <1>2 DEF Said
  <2>2. k # 1 /\ t[k - 1] = s[k] /\ k - 1 \in 1 .. Len(t)
    BY <1>1, <1>2, <2>1
  <2>3. QED
    BY <2>1, <2>2 DEF Said
<1>3. ASSUME NEW type, Said(t, type) PROVE Said(s, type)
  <2>1. PICK k \in 1 .. Len(t) : t[k].type = type
    BY <1>3 DEF Said
  <2>2. t[k] = s[k + 1] /\ k + 1 \in 1 .. Len(s)
    BY <1>1, <2>1
  <2>3. QED
    BY <2>1, <2>2 DEF Said
<1>4. ASSUME NEW type, s[1].type = type PROVE Said(s, type)
  BY <1>1, <1>4 DEF Said
<1>5. QED
  BY <1>1, <1>2, <1>3, <1>4 DEF t

LEMMA SeqWider ==
    ASSUME NEW A, NEW U, A \subseteq U, NEW s \in Seq(A)
    PROVE  s \in Seq(U)
<1>1. Len(s) \in Nat /\ \A i \in 1 .. Len(s) : s[i] \in U
  BY LenProperties, ElementOfSeq
<1>2. s = [i \in 1 .. Len(s) |-> s[i]]
  BY LenProperties
<1>3. QED
  BY <1>1, <1>2, IsASeq

LEMMA UnitsTyped ==
    ASSUME NEW U, NEW text \in Seq(U)
    PROVE  Units(text) \subseteq U
BY LenProperties, ElementOfSeq DEF Units, ToSet

(***************************************************************************)
(* A unit put in, a unit taken out, and a text replaced whole.             *)
(***************************************************************************)
LEMMA InsertIs ==
    ASSUME NEW U, NEW text \in Seq(U), NEW at \in 0 .. Len(text), NEW unit \in U
    PROVE  Edit(at, at, <<unit>>) \in Changes(U)
<1>1. at \in Nat /\ at <= at
  BY LenProperties
<1> DEFINE typed == <<unit>>
<1>2. typed \in Seq(U)
  OBVIOUS
<1> HIDE DEF typed
<1>3. Edit(at, at, typed) \in Changes(U)
  BY <1>1, <1>2, EditIs
<1>4. QED
  BY <1>3 DEF typed

(* A range taken out is a change, and what it held is given up.            *)
LEMMA ErasedSpares ==
    ASSUME NEW U, NEW text \in Seq(U), NEW at \in 0 .. Len(text), NEW end \in at .. Len(text),
           NEW gone, Units(SubSeq(text, at + 1, end)) \subseteq gone
    PROVE  Edit(at, end, <<>>) \in Changes(U) /\ Spares(text, Edit(at, end, <<>>), gone)
<1>1. Len(text) \in Nat /\ at \in Nat /\ end \in Nat /\ at <= end /\ end <= Len(text)
  BY LenProperties
<1>2. PICK taken : taken = SubSeq(text, at + 1, end)
  OBVIOUS
<1>3. taken \in Seq(U) /\ Len(taken) = end - at
      /\ \A i \in 1 .. end - at : taken[i] = text[at + i]
  BY <1>1, <1>2
<1>4. ASSUME NEW i \in at + 1 .. end PROVE text[i] \in gone
  <2>1. i - at \in 1 .. Len(taken) /\ taken[i - at] = text[i]
    BY <1>1, <1>3
  <2>2. text[i] \in Units(taken)
    BY <1>3, <2>1, UnitsAre
  <2>3. QED
    BY <1>2, <2>2
<1>5. <<>> \in Seq(U)
  OBVIOUS
<1>6. Edit(at, end, <<>>) \in Changes(U)
  BY <1>1, <1>5, EditIs
<1>7. Spares(text, Edit(at, end, <<>>), gone)
  BY <1>1, <1>4 DEF Spares, Edit
<1>8. QED
  BY <1>6, <1>7

(* A change that only puts something in, or that replaces the whole text.  *)
LEMMA SparesAll ==
    ASSUME NEW U, NEW text \in Seq(U), NEW gone
    PROVE  /\ \A at \in 0 .. Len(text) : \A new : Spares(text, Edit(at, at, new), gone)
           /\ \A at \in 0 .. Len(text) - 1 : \A new :
                 text[at + 1] \in gone => Spares(text, Edit(at, at + 1, new), gone)
           /\ \A new : Units(text) \ Units(new) \subseteq gone =>
                 Spares(text, Edit(0, Len(text), new), gone)
<1>1. Len(text) \in Nat
  BY LenProperties
<1>2. ASSUME NEW at \in 0 .. Len(text), NEW new PROVE Spares(text, Edit(at, at, new), gone)
  BY <1>1 DEF Spares, Edit
<1>3. ASSUME NEW at \in 0 .. Len(text) - 1, NEW new, text[at + 1] \in gone
      PROVE  Spares(text, Edit(at, at + 1, new), gone)
  <2>1. \A i \in at + 1 .. at + 1 : i = at + 1
    BY <1>1
  <2>2. QED
    BY <1>1, <1>3, <2>1 DEF Spares, Edit
<1>4. ASSUME NEW new, Units(text) \ Units(new) \subseteq gone
      PROVE  Spares(text, Edit(0, Len(text), new), gone)
  <2>1. \A i \in 1 .. Len(text) : text[i] \in Units(text)
    BY UnitsAre
  <2>2. QED
    BY <1>1, <1>4, <2>1 DEF Spares, Edit
<1>5. QED
  BY <1>2, <1>3, <1>4

LEMMA DeleteIs ==
    ASSUME NEW U, NEW text \in Seq(U), NEW at \in 0 .. Len(text) - 1
    PROVE  Edit(at, at + 1, <<>>) \in Changes(U)
<1>1. at \in Nat /\ at + 1 \in Nat /\ at <= at + 1
  BY LenProperties
<1>2. <<>> \in Seq(U)
  OBVIOUS
<1> DEFINE end == at + 1
<1> HIDE DEF end
<1>3. end \in Nat /\ at <= end
  BY <1>1 DEF end
<1>4. Edit(at, end, <<>>) \in Changes(U)
  BY <1>1, <1>2, <1>3, EditIs
<1>5. QED
  BY <1>4 DEF end

LEMMA WholeIs ==
    ASSUME NEW U, NEW text \in Seq(U), NEW new \in Seq(U)
    PROVE  Edit(0, Len(text), new) \in Changes(U)
BY LenProperties, EditIs

LEMMA WholeLeads ==
    ASSUME NEW U, NEW text \in Seq(U), NEW new \in Seq(U)
    PROVE  LET change == Edit(0, Len(text), new)
           IN  /\ change \in Changes(U) /\ change.end <= Len(text)
               /\ ApplyChange(text, change) = new
<1> DEFINE change == Edit(0, Len(text), new)
<1>1. change \in Changes(U)
  BY WholeIs
<1>2. change.start = 0 /\ change.end = Len(text) /\ change.text = new
  BY DEF Edit
<1>3. Len(text) \in Nat
  BY LenProperties
<1> HIDE DEF change
<1>4. change.end <= Len(text) /\ change.end - change.start = Len(text)
  BY <1>2, <1>3
<1>5. ApplyChange(text, change) = new
  BY <1>1, <1>2, <1>4, WholeReplaced
<1>6. QED
  BY <1>1, <1>4, <1>5 DEF change

(* Replacing the whole of one of two texts by the second never leaves the  *)
(* first.                                                                  *)
LEMMA WholeChanges ==
    ASSUME NEW U, NEW text \in Seq(U), NEW before \in Seq(U), NEW after \in Seq(U),
           NEW change \in Changes(U), change.end <= Len(text),
           change.end - change.start = Len(before), change.text = after,
           text \in {before, after}, before # after
    PROVE  ApplyChange(text, change) # before
<1>1. CASE change.end - change.start = Len(text)
  BY <1>1, WholeReplaced
<1>2. CASE change.end - change.start # Len(text)
  <2>1. text = after /\ Len(after) # Len(before)
    BY <1>2
  <2>2. Len(ApplyChange(text, change)) = Len(text) + Len(after) - Len(before)
    BY ChangedLength
  <2>3. Len(before) \in Nat /\ Len(after) \in Nat
    BY LenProperties
  <2>4. Len(ApplyChange(text, change)) # Len(before)
    BY <2>1, <2>2, <2>3
  <2>5. QED
    BY <2>4
<1>3. QED
  BY <1>1, <1>2

(* The local change that an outcome takes instead spares what it spared.   *)
LEMMA AlongsideSpares ==
    ASSUME NEW U, NEW text \in Seq(U), NEW local \in Changes(U), NEW result \in Seq(U),
           NEW after, NEW moved, NEW E, Spares(text, local, E),
           Alongside(U, text, local, result, after, moved)
    PROVE  Units(result) \subseteq Units(ApplyChange(after, moved)) \cup E
<1>1. PICK other \in Changes(U) :
        /\ other.text = local.text
        /\ other.end - other.start = local.end - local.start
        /\ other.end <= Len(result)
        /\ \A i \in 1 .. local.end - local.start :
              result[other.start + i] = text[local.start + i]
        /\ ApplyChange(after, moved) = ApplyChange(result, other)
  BY DEF Alongside
<1>2. /\ local.start \in Nat /\ local.end \in Nat /\ other.start \in Nat /\ other.end \in Nat
  BY ChangeIs
<1>3. ASSUME NEW i \in other.start + 1 .. other.end
      PROVE  result[i] \in E \cup Units(other.text)
  <2>1. PICK k \in Int : k = i - other.start
    BY <1>2
  <2> DEFINE a == other.start
             b == other.end
             x == local.start
             y == local.end
  <2>0. a \in Nat /\ b \in Nat /\ x \in Nat /\ y \in Nat /\ b - a = y - x /\ i \in a + 1 .. b
        /\ k = i - a
    BY <1>1, <1>2, <2>1
  <2> HIDE DEF a, b, x, y
  <2>6. k \in 1 .. y - x /\ a + k = i /\ x + k \in x + 1 .. y
    BY <2>0
  <2>2. /\ k \in 1 .. local.end - local.start /\ other.start + k = i
        /\ local.start + k \in local.start + 1 .. local.end
    BY <2>6 DEF a, b, x, y
  <2>3. result[i] = text[local.start + k]
    BY <1>1, <2>2
  <2>4. text[local.start + k] \in E \cup Units(local.text)
    BY <2>2 DEF Spares
  <2>5. QED
    BY <1>1, <2>3, <2>4
<1>4. Spares(result, other, E)
  BY <1>1, <1>3 DEF Spares
<1>5. Units(result) \subseteq Units(ApplyChange(result, other)) \cup E
  BY <1>4, SparedUnits
<1>6. QED
  BY <1>1, <1>5

(***************************************************************************)
(* No unit twice.                                                          *)
(***************************************************************************)
(* A text that holds no unit twice, and units of K alone.                  *)
Once(text, K) == IsInjective(text) /\ Units(text) \subseteq K

(* A change that puts in a unit at most, and none that was there.          *)
Adds(change, K, L) ==
    /\ Len(change.text) <= 1
    /\ Units(change.text) \cap K = {} /\ K \cup Units(change.text) \subseteq L

LEMMA OnceIs ==
    ASSUME NEW U, NEW text \in Seq(U)
    PROVE  IsInjective(text)
               <=> \A i, j \in 1 .. Len(text) : text[i] = text[j] => i = j
BY DEF IsInjective

LEMMA OnceMore ==
    ASSUME NEW U, NEW text \in Seq(U), NEW change \in Changes(U), change.end <= Len(text),
           NEW K, NEW L, Once(text, K), Adds(change, K, L)
    PROVE  Once(ApplyChange(text, change), L)
<1>1. PICK a \in Nat, b \in Nat, x \in Seq(U) :
          a = change.start /\ b = change.end /\ x = change.text /\ a <= b /\ b <= Len(text)
  BY ChangeIs
<1>2. PICK n \in Nat : n = Len(text)
  BY LenProperties
<1>3. PICK m \in Nat : m = Len(x)
  BY LenProperties
<1>4. PICK r \in Seq(U) : r = ApplyChange(text, change) /\ Spliced(r, text, a, b, x)
  BY <1>1, ChangeSplices
<1>5. PICK l \in Nat : l = Len(r)
  BY LenProperties
<1>6. l = n + m - (b - a) /\ b <= n /\ m <= 1
  BY <1>1, <1>2, <1>3, <1>4, <1>5 DEF Spliced, Adds
<1> DEFINE from(k) == IF k <= a THEN k ELSE k - m + (b - a)
           put(k) == a < k /\ k <= a + m
<1>7. ASSUME NEW k \in 1 .. l, ~put(k)
      PROVE  from(k) \in 1 .. n /\ r[k] = text[from(k)]
  <2>1. CASE k <= a
    <3>1. from(k) = k /\ k \in 1 .. n
      BY <1>1, <1>2, <1>5, <1>7, <2>1
    <3>2. r[k] = text[k]
      BY <1>4, <1>5, <2>1 DEF Spliced
    <3>3. QED
      BY <3>1, <3>2
  <2>2. CASE ~(k <= a)
    <3>1. from(k) = k - m + (b - a) /\ ~(k <= a + m)
      BY <1>7, <2>2
    <3>2. k \in Int /\ 1 <= k /\ k <= l /\ a + m < k
      BY <1>1, <1>3, <1>5, <3>1
    <3>3. k - m + (b - a) \in 1 .. n
      <4>1. a \in Int /\ b \in Int /\ m \in Int /\ n \in Int /\ l \in Int /\ 0 <= b
        BY <1>1, <1>2, <1>3, <1>5
      <4>2. l = n + m - (b - a)
        BY <1>6
      <4>3. k - m + (b - a) \in Int /\ 1 <= k - m + (b - a)
        BY <3>2, <4>1
      <4>4. k - m + (b - a) <= n
        BY <3>2, <4>1, <4>2
      <4>5. QED
        BY <4>1, <4>3, <4>4
    <3>4. r[k] = text[k - m + (b - a)]
      BY <1>3, <1>4, <1>5, <2>2, <3>1 DEF Spliced
    <3>5. QED
      BY <3>1, <3>3, <3>4
  <2>3. QED
    BY <2>1, <2>2
<1>8. ASSUME NEW k \in 1 .. l, put(k)
      PROVE  k = a + 1 /\ r[k] \in Units(change.text)
  <2>1. k = a + 1 /\ k - a \in 1 .. m /\ ~(k <= a)
    BY <1>6, <1>8
  <2>2. r[k] = x[k - a]
    BY <1>3, <1>4, <1>5, <1>8, <2>1 DEF Spliced
  <2>3. x[k - a] \in Units(x)
    BY <1>3, <2>1, UnitsAre
  <2>4. QED
    BY <1>1, <2>1, <2>2, <2>3
<1>9. \A i \in 1 .. n : text[i] \in K
  BY <1>2, UnitsAre DEF Once
<1>10. \A i, j \in 1 .. n : text[i] = text[j] => i = j
  BY <1>2, OnceIs DEF Once
<1>11. Units(change.text) \cap K = {}
  BY DEF Adds
<1>12. ASSUME NEW i \in 1 .. l, NEW j \in 1 .. l, r[i] = r[j] PROVE i = j
  <2>1. CASE put(i) /\ put(j)
    <3>1. i = a + 1 /\ j = a + 1
      BY <1>8, <2>1
    <3>2. QED
      BY <3>1
  <2>2. CASE ~put(i) /\ ~put(j)
    <3>1. from(i) \in 1 .. n /\ from(j) \in 1 .. n /\ text[from(i)] = text[from(j)]
      BY <1>7, <1>12, <2>2
    <3>2. from(i) = from(j)
      BY <1>10, <3>1
    <3>3. CASE (i <= a <=> j <= a)
      BY <3>2, <3>3
    <3>4. CASE i <= a /\ ~(j <= a)
      <4>1. from(i) = i /\ from(j) = j - m + (b - a)
        BY <3>4
      <4>2. i = j - m + (b - a)
        BY <3>2, <4>1
      <4>3. ~(j <= a + m)
        BY <2>2, <3>4
      <4>4. i \in Nat /\ j \in Nat
        BY <1>5
      <4>5. a \in Int /\ b \in Int /\ m \in Int /\ a <= b
        BY <1>1, <1>3
      <4>6. j - m > a /\ b - a >= 0
        BY <4>3, <4>4, <4>5
      <4>7. i > a
        BY <4>2, <4>4, <4>5, <4>6
      <4>8. QED
        BY <3>4, <4>4, <4>5, <4>7
    <3>5. CASE ~(i <= a) /\ j <= a
      <4>1. from(j) = j /\ from(i) = i - m + (b - a)
        BY <3>5
      <4>2. j = i - m + (b - a)
        BY <3>2, <4>1
      <4>3. ~(i <= a + m)
        BY <2>2, <3>5
      <4>4. i \in Nat /\ j \in Nat
        BY <1>5
      <4>5. a \in Int /\ b \in Int /\ m \in Int /\ a <= b
        BY <1>1, <1>3
      <4>6. i - m > a /\ b - a >= 0
        BY <4>3, <4>4, <4>5
      <4>7. j > a
        BY <4>2, <4>4, <4>5, <4>6
      <4>8. QED
        BY <3>5, <4>4, <4>5, <4>7
    <3>6. QED
      BY <3>3, <3>4, <3>5
  <2>3. CASE put(i) /\ ~put(j)
    <3>1. r[i] \in Units(change.text)
      BY <1>8, <2>3
    <3>2. r[j] \in K
      BY <1>7, <1>9, <2>3
    <3>3. QED
      BY <1>11, <1>12, <3>1, <3>2
  <2>4. CASE ~put(i) /\ put(j)
    <3>1. r[j] \in Units(change.text)
      BY <1>8, <2>4
    <3>2. r[i] \in K
      BY <1>7, <1>9, <2>4
    <3>3. QED
      BY <1>11, <1>12, <3>1, <3>2
  <2>5. QED
    BY <2>1, <2>2, <2>3, <2>4
<1>13. IsInjective(r)
  BY <1>5, <1>12, OnceIs
<1>14. Units(r) \subseteq Units(text) \cup Units(change.text)
  <2>1. Spares(text, change, U)
    BY <1>1, <1>2, ElementOfSeq DEF Spares
  <2>2. QED
    BY <1>4, <2>1, SparedUnits
<1>15. QED
  BY <1>4, <1>13, <1>14 DEF Once, Adds

LEMMA JoinedApart ==
    ASSUME NEW U, NEW a \in Seq(U), NEW b \in Seq(U), NEW e \in Seq(U), IsInjective(a \o b \o e)
    PROVE  /\ \A k \in 1 .. Len(b) :
                 /\ \A i \in 1 .. Len(a) : a[i] # b[k]
                 /\ \A i \in 1 .. Len(b) : b[i] = b[k] => i = k
                 /\ \A i \in 1 .. Len(e) : e[i] # b[k]
           /\ \A k \in 1 .. Len(e) :
                 /\ \A i \in 1 .. Len(a) : a[i] # e[k]
                 /\ \A i \in 1 .. Len(e) : e[i] = e[k] => i = k
<1> DEFINE s == a \o b
           t == s \o e
<1>1. PICK l \in Nat, m \in Nat, n \in Nat : l = Len(a) /\ m = Len(b) /\ n = Len(e)
  BY LenProperties
<1>2. s \in Seq(U) /\ Len(s) = l + m
  BY <1>1, ConcatProperties
<1>3. /\ \A i \in 1 .. l : s[i] = a[i]
      /\ \A i \in 1 .. m : s[l + i] = b[i]
  <2>1. \A i \in 1 .. l + m : s[i] = IF i <= l THEN a[i] ELSE b[i - l]
    BY <1>1, ConcatProperties
  <2> HIDE DEF s
  <2>2. ASSUME NEW i \in 1 .. m PROVE s[l + i] = b[i]
    <3>1. l + i \in 1 .. l + m /\ ~(l + i <= l) /\ (l + i) - l = i
      OBVIOUS
    <3>2. QED
      BY <2>1, <3>1
  <2>3. QED
    BY <2>1, <2>2
<1> HIDE DEF s
<1>4. t \in Seq(U) /\ Len(t) = (l + m) + n
  <2>1. t \in Seq(U) /\ Len(t) = Len(s) + Len(e)
    BY <1>2, ConcatProperties
  <2>2. QED
    BY <1>1, <1>2, <2>1
<1>5. /\ \A i \in 1 .. l + m : t[i] = s[i]
      /\ \A i \in 1 .. n : t[(l + m) + i] = e[i]
  <2>1. \A i \in 1 .. (l + m) + n : t[i] = IF i <= l + m THEN s[i] ELSE e[i - (l + m)]
    BY <1>1, <1>2, ConcatProperties, SMTT(30)
  <2> HIDE DEF t
  <2>2. ASSUME NEW i \in 1 .. n PROVE t[(l + m) + i] = e[i]
    <3>1. /\ (l + m) + i \in 1 .. (l + m) + n /\ ~((l + m) + i <= l + m)
          /\ ((l + m) + i) - (l + m) = i
      OBVIOUS
    <3>2. QED
      BY <2>1, <3>1
  <2>3. QED
    BY <2>1, <2>2
<1>6. \A i, j \in 1 .. (l + m) + n : t[i] = t[j] => i = j
  BY <1>4, OnceIs DEF s
<1> HIDE DEF t
<1>7. /\ \A i \in 1 .. l : i \in 1 .. (l + m) + n /\ i <= l /\ t[i] = a[i]
      /\ \A i \in 1 .. m : l + i \in 1 .. (l + m) + n /\ t[l + i] = b[i]
      /\ \A i \in 1 .. n : (l + m) + i \in 1 .. (l + m) + n /\ t[(l + m) + i] = e[i]
  BY <1>3, <1>5
<1>8. /\ \A i \in 1 .. l, k \in 1 .. m : i # l + k
      /\ \A i, k \in 1 .. m : l + i = l + k => i = k
      /\ \A i \in 1 .. n, k \in 1 .. m : (l + m) + i # l + k
      /\ \A i \in 1 .. l, k \in 1 .. n : i # (l + m) + k
      /\ \A i, k \in 1 .. n : (l + m) + i = (l + m) + k => i = k
  OBVIOUS
<1>9. \A k \in 1 .. m :
         /\ \A i \in 1 .. l : a[i] # b[k]
         /\ \A i \in 1 .. m : b[i] = b[k] => i = k
         /\ \A i \in 1 .. n : e[i] # b[k]
  BY <1>6, <1>7, <1>8
<1>10. \A k \in 1 .. n :
          /\ \A i \in 1 .. l : a[i] # e[k]
          /\ \A i \in 1 .. n : e[i] = e[k] => i = k
  BY <1>6, <1>7, <1>8
<1>11. QED
  BY <1>1, <1>9, <1>10

(***************************************************************************)
(* The units on their way through a pipe.                                  *)
(***************************************************************************)
Carries(p, i, x) == p[i].type = "change" /\ x \in Units(p[i].change.text)
(* Those of N that have been read.                                         *)
Arrived(N, p) == {x \in N : \A i \in 1 .. Len(p) : ~Carries(p, i, x)}
(* A change brings one unit of N at most, and no two bring the same.       *)
Lone(N, p) ==
    /\ \A i \in 1 .. Len(p) : p[i].type = "change" =>
          Len(p[i].change.text) <= 1 /\ Units(p[i].change.text) \subseteq N
    /\ \A i, j \in 1 .. Len(p) : \A x \in N : Carries(p, i, x) /\ Carries(p, j, x) => i = j

LEMMA ArrivedMore ==
    ASSUME NEW T, NEW p \in Seq(T), NEW m \in T, m.type # "change", NEW N,
           NEW q, q = Append(p, m)
    PROVE  Arrived(N, q) = Arrived(N, p) /\ (Lone(N, p) => Lone(N, q))
<1>1. /\ Len(p) \in Nat /\ Len(q) = Len(p) + 1 /\ q[Len(p) + 1] = m
      /\ \A i \in 1 .. Len(p) : q[i] = p[i]
  BY AppendAt
<1>2. /\ \A i \in 1 .. Len(q) : i = Len(p) + 1 \/ i \in 1 .. Len(p)
      /\ \A i \in 1 .. Len(p) : i \in 1 .. Len(q)
  BY <1>1
<1>3. \A x : \A i \in 1 .. Len(q) : Carries(q, i, x) <=> i \in 1 .. Len(p) /\ Carries(p, i, x)
  <2>1. ASSUME NEW x, NEW i \in 1 .. Len(q)
        PROVE  Carries(q, i, x) <=> i \in 1 .. Len(p) /\ Carries(p, i, x)
    <3>1. CASE i \in 1 .. Len(p)
      BY <1>1, <3>1 DEF Carries
    <3>2. CASE i = Len(p) + 1
      <4>1. i \notin 1 .. Len(p) /\ q[i] = m
        BY <1>1, <3>2
      <4>2. QED
        BY <4>1 DEF Carries
    <3>3. QED
      BY <1>2, <3>1, <3>2
  <2>2. QED
    BY <2>1
<1>4. Arrived(N, q) = Arrived(N, p)
  BY <1>2, <1>3 DEF Arrived
<1>5. ASSUME Lone(N, p) PROVE Lone(N, q)
  <2>1. \A i \in 1 .. Len(q) : q[i].type = "change" => i \in 1 .. Len(p) /\ q[i] = p[i]
    BY <1>1, <1>2
  <2>2. \A i \in 1 .. Len(q) : q[i].type = "change" =>
           Len(q[i].change.text) <= 1 /\ Units(q[i].change.text) \subseteq N
    BY <1>5, <2>1 DEF Lone
  <2>3. QED
    BY <1>3, <1>5, <2>2 DEF Lone
<1>6. QED
  BY <1>4, <1>5

(* A unit that is new is on its way once it is typed.                      *)
LEMMA ArrivedTyped ==
    ASSUME NEW T, NEW p \in Seq(T), NEW m \in T, m.type = "change",
           NEW N, NEW M, M \subseteq N \cup Units(m.change.text), Adds(m.change, N, M), Lone(N, p)
    PROVE  Arrived(M, Append(p, m)) = Arrived(N, p) /\ Lone(M, Append(p, m))
<1> DEFINE change == m.change
           X == Units(change.text)
           n == Len(p) + 1
           q == Append(p, m)
<1>1. m.type = "change" /\ m.change = change
  OBVIOUS
<1>2. M = N \cup X /\ Adds(change, N, M)
  BY DEF Adds
<1> HIDE DEF change
<1>3. /\ Len(p) \in Nat /\ Len(q) = Len(p) + 1 /\ q[Len(p) + 1] = m
      /\ \A i \in 1 .. Len(p) : q[i] = p[i]
  BY AppendAt
<1> HIDE DEF q
<1>4. /\ \A i \in 1 .. Len(q) : i = n \/ i \in 1 .. Len(p)
      /\ \A i \in 1 .. Len(p) : i \in 1 .. Len(q)
      /\ n \in 1 .. Len(q) /\ n \notin 1 .. Len(p)
  BY <1>3
<1>5. /\ \A x : \A i \in 1 .. Len(p) : Carries(q, i, x) <=> Carries(p, i, x)
      /\ \A x : Carries(q, n, x) <=> x \in X
  BY <1>1, <1>3 DEF Carries
<1> HIDE DEF n
<1>6. /\ M = N \cup X /\ X \cap N = {} /\ Len(change.text) <= 1
  BY <1>2 DEF Adds
<1>7. \A x : \A i \in 1 .. Len(p) : Carries(p, i, x) => x \in N
  BY DEF Lone, Carries
<1> HIDE DEF X
<1>8. ASSUME NEW x PROVE x \in Arrived(M, q) <=> x \in Arrived(N, p)
  <2>1. x \in Arrived(M, q)
          <=> x \in M /\ x \notin X /\ \A i \in 1 .. Len(p) : ~Carries(p, i, x)
    BY <1>4, <1>5 DEF Arrived
  <2>2. QED
    BY <1>6, <2>1 DEF Arrived
<1>9. Arrived(M, q) = Arrived(N, p)
  BY <1>8
<1>10. \A i \in 1 .. Len(q) : q[i].type = "change" =>
          Len(q[i].change.text) <= 1 /\ Units(q[i].change.text) \subseteq M
  <2>1. \A i \in 1 .. Len(p) : q[i].type = "change" =>
           Len(q[i].change.text) <= 1 /\ Units(q[i].change.text) \subseteq N
    BY <1>3 DEF Lone
  <2>2. Len(q[n].change.text) <= 1 /\ Units(q[n].change.text) \subseteq M
    BY <1>1, <1>3, <1>6 DEF n, X
  <2>3. QED
    BY <1>4, <1>6, <2>1, <2>2
<1>11. ASSUME NEW i \in 1 .. Len(q), NEW j \in 1 .. Len(q), NEW x \in M,
              Carries(q, i, x), Carries(q, j, x)
       PROVE  i = j
  <2>1. CASE i \in 1 .. Len(p) /\ j \in 1 .. Len(p)
    BY <1>5, <1>7, <1>11, <2>1 DEF Lone
  <2>2. CASE i = n /\ j = n
    BY <2>2
  <2>3. CASE i = n /\ j \in 1 .. Len(p)
    BY <1>5, <1>6, <1>7, <1>11, <2>3
  <2>4. CASE i \in 1 .. Len(p) /\ j = n
    BY <1>5, <1>6, <1>7, <1>11, <2>4
  <2>5. QED
    BY <1>4, <2>1, <2>2, <2>3, <2>4
<1>12. QED
  BY <1>9, <1>10, <1>11 DEF Lone, q

LEMMA CarriesLess ==
    ASSUME NEW T, NEW p \in Seq(T), p # <<>>, NEW q, q = Tail(p)
    PROVE  /\ 1 \in 1 .. Len(p) /\ Head(p) = p[1] /\ Head(p) \in T
           /\ \A i \in 1 .. Len(q) :
                 /\ i + 1 \in 1 .. Len(p) /\ i + 1 # 1 /\ q[i] = p[i + 1]
                 /\ \A x : Carries(q, i, x) <=> Carries(p, i + 1, x)
           /\ \A i \in 1 .. Len(p) : i = 1 \/ \E k \in 1 .. Len(q) : i = k + 1
           /\ \A i, j \in 1 .. Len(q) : i + 1 = j + 1 => i = j
<1>1. /\ Len(p) \in Nat \ {0} /\ Len(q) = Len(p) - 1
      /\ \A i \in 1 .. Len(p) - 1 : q[i] = p[i + 1]
      /\ Head(p) = p[1] /\ p[1] \in T
  BY TailAt
<1>2. \A i \in 1 .. Len(q) : i + 1 \in 1 .. Len(p) /\ i + 1 # 1 /\ q[i] = p[i + 1]
  BY <1>1
<1>3. ASSUME NEW i \in 1 .. Len(p), i # 1 PROVE \E k \in 1 .. Len(q) : i = k + 1
  <2>1. i - 1 \in 1 .. Len(q) /\ i = (i - 1) + 1
    BY <1>1, <1>3
  <2>2. QED
    BY <2>1
<1>4. \A i, j \in 1 .. Len(q) : i + 1 = j + 1 => i = j
  BY <1>1
<1>5. 1 \in 1 .. Len(p)
  BY <1>1
<1>6. QED
  BY <1>1, <1>2, <1>3, <1>4, <1>5 DEF Carries

LEMMA LoneLess ==
    ASSUME NEW T, NEW p \in Seq(T), p # <<>>, NEW N, Lone(N, p), NEW q, q = Tail(p)
    PROVE  Lone(N, q)
<1>1. \A i \in 1 .. Len(q) : i + 1 \in 1 .. Len(p) /\ q[i] = p[i + 1]
  BY CarriesLess
<1>2. \A i \in 1 .. Len(q) : q[i].type = "change" =>
         Len(q[i].change.text) <= 1 /\ Units(q[i].change.text) \subseteq N
  BY <1>1 DEF Lone
<1>3. ASSUME NEW i \in 1 .. Len(q), NEW j \in 1 .. Len(q), NEW x \in N,
             Carries(q, i, x), Carries(q, j, x)
      PROVE  i = j
  <2>1. Carries(p, i + 1, x) /\ Carries(p, j + 1, x)
    BY <1>3, CarriesLess
  <2>2. i + 1 = j + 1
    BY <1>1, <2>1 DEF Lone
  <2>3. QED
    BY <2>2, CarriesLess
<1>4. QED
  BY <1>2, <1>3 DEF Lone

LEMMA ArrivedLess ==
    ASSUME NEW T, NEW p \in Seq(T), p # <<>>, Head(p).type # "change", NEW N,
           NEW q, q = Tail(p)
    PROVE  Arrived(N, q) = Arrived(N, p) /\ (Lone(N, p) => Lone(N, q))
<1>1. \A x : ~Carries(p, 1, x)
  BY CarriesLess DEF Carries
<1>2. ASSUME NEW x
      PROVE  (\E i \in 1 .. Len(q) : Carries(q, i, x)) <=> (\E i \in 1 .. Len(p) : Carries(p, i, x))
  <2>1. ASSUME NEW i \in 1 .. Len(q), Carries(q, i, x)
        PROVE  \E k \in 1 .. Len(p) : Carries(p, k, x)
    <3>1. i + 1 \in 1 .. Len(p) /\ Carries(p, i + 1, x)
      BY <2>1, CarriesLess
    <3>2. QED
      BY <3>1
  <2>2. ASSUME NEW i \in 1 .. Len(p), Carries(p, i, x)
        PROVE  \E k \in 1 .. Len(q) : Carries(q, k, x)
    <3>1. PICK k \in 1 .. Len(q) : i = k + 1
      BY <1>1, <2>2, CarriesLess
    <3>2. Carries(q, k, x)
      BY <2>2, <3>1, CarriesLess
    <3>3. QED
      BY <3>2
  <2>3. QED
    BY <2>1, <2>2
<1>3. Arrived(N, q) = Arrived(N, p)
  BY <1>2 DEF Arrived
<1>4. QED
  BY <1>3, LoneLess

(* A change that is read brings what it carries and nothing else.          *)
LEMMA ArrivedRead ==
    ASSUME NEW T, NEW p \in Seq(T), p # <<>>, Head(p).type = "change",
           NEW N, Lone(N, p), NEW q, q = Tail(p)
    PROVE  Adds(Head(p).change, Arrived(N, p), Arrived(N, q)) /\ Lone(N, q)
<1> DEFINE X == Units(Head(p).change.text)
<1>1. /\ 1 \in 1 .. Len(p) /\ Head(p) = p[1] /\ \A x : Carries(p, 1, x) <=> x \in X
  BY CarriesLess DEF Carries
<1>2. Len(Head(p).change.text) <= 1 /\ X \subseteq N
  BY <1>1 DEF Lone
<1> HIDE DEF X
<1>3. X \cap Arrived(N, p) = {}
  BY <1>1 DEF Arrived
<1>4. Arrived(N, p) \subseteq Arrived(N, q)
  BY CarriesLess, ZenonT(60) DEF Arrived
<1>5. ASSUME NEW x \in X PROVE x \in Arrived(N, q)
  <2>1. x \in N
    BY <1>2
  <2>2. ASSUME NEW i \in 1 .. Len(q), Carries(q, i, x) PROVE FALSE
    <3>1. i + 1 \in 1 .. Len(p) /\ i + 1 # 1 /\ Carries(p, i + 1, x)
      BY <2>2, CarriesLess
    <3>2. Carries(p, 1, x)
      BY <1>1
    <3>3. QED
      BY <1>1, <2>1, <3>1, <3>2 DEF Lone
  <2>3. QED
    BY <2>1, <2>2 DEF Arrived
<1>6. QED
  BY <1>2, <1>3, <1>4, <1>5, LoneLess DEF Adds, X

(* What the room's side types reaches the companion at once.               *)
LEMMA ArrivedWider ==
    ASSUME NEW p, NEW N, Lone(N, p), NEW X, X \cap N = {}
    PROVE  Arrived(N \cup X, p) = Arrived(N, p) \cup X /\ Lone(N \cup X, p)
<1>1. \A x : \A i \in 1 .. Len(p) : Carries(p, i, x) => x \in N
  BY DEF Lone, Carries
<1>2. ASSUME NEW x PROVE x \in Arrived(N \cup X, p) <=> x \in Arrived(N, p) \cup X
  BY <1>1 DEF Arrived
<1>3. Lone(N \cup X, p)
  BY <1>1 DEF Lone
<1>4. QED
  BY <1>2, <1>3
=============================================================================
