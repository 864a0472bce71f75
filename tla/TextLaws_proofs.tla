--------------------------- MODULE TextLaws_proofs ---------------------------
(***************************************************************************)
(* What TextLaws promises, for every set of texts: the difference between  *)
(* two whole texts, and that difference moved through whatever the person  *)
(* types (Tracked).                                                        *)
(***************************************************************************)
EXTENDS TextLaws, Texts_proofs

(***************************************************************************)
(* The values.                                                             *)
(***************************************************************************)
Written == UNION {scope.units : scope \in Scopes}

(* The two texts the difference is taken of are whole, and stay as chosen. *)
Chosen ==
    /\ from \in Seq(Written) /\ ~HasLoneSurrogate(from)
    /\ to \in Seq(Written) /\ ~HasLoneSurrogate(to)

LEMMA WholeTextsTyped ==
    ASSUME NEW scope \in Scopes, NEW text \in WholeTexts(scope)
    PROVE  text \in Seq(Written) /\ ~HasLoneSurrogate(text)
<1>1. scope.length \in Nat
  BY ScopesAreFinite
<1>2. PICK n \in 0 .. scope.length : text \in [1 .. n -> scope.units]
  BY DEF WholeTexts
<1>3. n \in Nat /\ scope.units \subseteq Written
  BY <1>1 DEF Written
<1>4. text \in [1 .. n -> Written]
  BY <1>2, <1>3
<1>5. text \in Seq(Written)
  BY <1>3, <1>4
<1>6. QED
  BY <1>5 DEF WholeTexts

LEMMA InitChosen == Init => Chosen
BY WholeTextsTyped DEF Init, Chosen

LEMMA NextChosen == Chosen /\ [Next]_vars => Chosen'
<1> SUFFICES ASSUME Chosen, [Next]_vars PROVE Chosen'
  OBVIOUS
<1>1. UNCHANGED <<from, to>>
  BY DEF Next, LocalEdit, vars
<1>2. QED
  BY <1>1 DEF Chosen

(***************************************************************************)
(* The difference.                                                         *)
(***************************************************************************)
LEMMA OfferIs ==
    ASSUME Chosen, from # to
    PROVE  \E prefix, suffix, start, kept \in Nat :
              /\ Found(from, to, prefix, suffix, start, kept)
              /\ offer.start = start /\ offer.end = Len(from) - kept
              /\ offer.text = SubSeq(to, start + 1, Len(to) - kept)
<1>1. from \in Seq(Written) /\ to \in Seq(Written)
  BY DEF Chosen
<1>2. PICK prefix, suffix, start, kept \in Nat : Found(from, to, prefix, suffix, start, kept)
  BY <1>1, DiffFinds
<1>3. offer = Edit(start, Len(from) - kept, SubSeq(to, start + 1, Len(to) - kept))
  BY <1>2 DEF Found, offer
<1>4. /\ offer.start = start /\ offer.end = Len(from) - kept
      /\ offer.text = SubSeq(to, start + 1, Len(to) - kept)
  BY <1>3 DEF Edit
<1>5. QED
  BY <1>2, <1>4

LEMMA NoOffer ==
    ASSUME from = to
    PROVE  offer.start = 0 /\ offer.end = 0 /\ offer.text = <<>>
BY DEF offer, Diff, Edit

LEMMA OfferIsSmallest ==
    ASSUME Chosen
    PROVE  Smallest
<1>1. from \in Seq(Written) /\ to \in Seq(Written)
  BY DEF Chosen
<1>2. Len(from) \in Nat /\ Len(to) \in Nat /\ DOMAIN from = 1 .. Len(from)
  BY <1>1, LenProperties
<1>3. SUFFICES ASSUME NEW front \in 0 .. Len(from), NEW end \in 0 .. Len(from),
                      NEW back, back = Len(from) - end,
                      NEW widened, widened = IF Units(from) \cap HighSurrogates = {} THEN 0 ELSE 2,
                      front <= end, front + back <= Len(to),
                      SubSeq(from, 1, front) = SubSeq(to, 1, front),
                      SubSeq(from, end + 1, Len(from)) = SubSeq(to, Len(to) - back + 1, Len(to))
               PROVE  end - front + widened >= offer.end - offer.start
  BY Zenon DEF Smallest
<1>4. front \in Nat /\ back \in Nat /\ end = Len(from) - back /\ front + back <= Len(from)
  BY <1>2, <1>3
<1>5. widened \in Nat
  BY <1>3
<1>6. CASE from = to
  BY <1>4, <1>2, <1>3, <1>5, <1>6, NoOffer
<1>7. CASE from # to
  <2>1. PICK prefix, suffix, start, kept \in Nat :
              /\ Found(from, to, prefix, suffix, start, kept)
              /\ offer.start = start /\ offer.end = Len(from) - kept
    BY <1>7, OfferIs
  <2>2. Leads(from, to, front, back)
    <3>1. SameHead(from, to, front)
      BY <1>1, <1>2, <1>3, <1>4, SameHeadIs
    <3>2. SubSeq(from, Len(from) - back + 1, Len(from)) = SubSeq(to, Len(to) - back + 1, Len(to))
      BY <1>3, <1>4
    <3>3. back <= Len(from) /\ back <= Len(to)
      BY <1>2, <1>3, <1>4
    <3>4. SameTail(from, to, back)
      BY <1>1, <1>4, <3>2, <3>3, SameTailIs
    <3>5. QED
      BY <1>3, <1>4, <3>1, <3>4 DEF Leads
  <2>3. front + back <= prefix + suffix
    BY <1>1, <2>1, <2>2, NoneKeepsMore
  <2>4. prefix <= start + 1 /\ suffix <= kept + 1
    BY <1>1, <2>1, RangeIs
  <2>5. prefix + suffix <= start + kept + widened
    <3>1. CASE Units(from) \cap HighSurrogates = {}
      <4>1. \A i \in DOMAIN from : from[i] \in Units(from)
        BY DEF Units, ToSet
      <4>2. start = prefix /\ kept = suffix
        BY <1>1, <2>1, <3>1, <4>1, NothingWidened DEF Chosen
      <4>3. QED
        BY <1>5, <4>2
    <3>2. CASE Units(from) \cap HighSurrogates # {}
      BY <1>3, <2>4, <3>2
    <3>3. QED
      BY <3>1, <3>2
  <2>6. QED
    BY <1>2, <1>4, <1>5, <2>1, <2>3, <2>5
<1>8. QED
  BY <1>6, <1>7

LEMMA OfferIsWhole ==
    ASSUME Chosen
    PROVE  ~HasLoneSurrogate(offer.text) /\ KeepsWhole(from, offer.start, offer.end)
<1>1. from \in Seq(Written) /\ to \in Seq(Written)
  BY DEF Chosen
<1>2. CASE from = to
  <2>1. offer.start = 0 /\ offer.end = 0 /\ offer.text = <<>>
    BY <1>2, NoOffer
  <2>2. ~HasLoneSurrogate(<<>>)
    BY DEF HasLoneSurrogate
  <2>3. ~SplitsPair(from, 0)
    BY DEF SplitsPair
  <2>4. QED
    BY <2>1, <2>2, <2>3 DEF KeepsWhole
<1>3. CASE from # to
  <2>1. PICK prefix, suffix, start, kept \in Nat :
              /\ Found(from, to, prefix, suffix, start, kept)
              /\ offer.start = start /\ offer.end = Len(from) - kept
              /\ offer.text = SubSeq(to, start + 1, Len(to) - kept)
    BY <1>3, OfferIs
  <2>2. /\ ~SplitsPair(from, start) /\ ~SplitsPair(to, start)
        /\ ~SplitsPair(from, Len(from) - kept) /\ ~SplitsPair(to, Len(to) - kept)
    BY <1>1, <2>1, NothingSplit
  <2>3. Len(to) \in Nat /\ Len(to) - kept \in Nat /\ start <= Len(to) - kept
    BY <1>1, <2>1, RangeIs
  <2>4. PICK until \in Nat : until = Len(to) - kept
    BY <2>3
  <2>5. start <= until /\ until <= Len(to)
    BY <2>3, <2>4
  <2>6. ~HasLoneSurrogate(SubSeq(to, start + 1, until))
    BY <1>1, <2>2, <2>4, <2>5, WholePart DEF Chosen
  <2>7. QED
    BY <2>1, <2>2, <2>4, <2>6 DEF KeepsWhole
<1>4. QED
  BY <1>2, <1>3

(* From every whole text to every other, of any units and any length, the  *)
(* difference leads there, takes away no more than it must, and inserts    *)
(* and removes whole characters (`diff` of vendor/bridge/editing.ts).      *)
THEOREM DiffLeadsThereWhole == Spec => []DiffIsRight
<1>1. Chosen => DiffIsRight
  <2> SUFFICES ASSUME Chosen PROVE DiffIsRight
    OBVIOUS
  <2>1. ApplyChange(from, offer) = to
    BY DiffLeads DEF Chosen, offer
  <2>2. QED
    BY <2>1, OfferIsSmallest, OfferIsWhole DEF DiffIsRight
<1>2. QED
  BY InitChosen, NextChosen, <1>1, PTL DEF Spec

(***************************************************************************)
(* A text without some units, and a text of distinct ones.                 *)
(***************************************************************************)
Rest(units, unit, others) == IF unit \in units THEN others ELSE Append(others, unit)

(* What the recursion of Without goes through, unit by unit.               *)
Leaving(U, f, text, units) ==
    /\ f \in [0 .. Len(text) -> Seq(U)]
    /\ f[0] = <<>>
    /\ \A i \in 1 .. Len(text) : f[i] = Rest(units, text[i], f[i - 1])
    /\ Without(text, units) = f[Len(text)]

LEMMA WithoutWay ==
    ASSUME NEW U, NEW text \in Seq(U), NEW units
    PROVE  \E f : Leaving(U, f, text, units)
<1> DEFINE n == Len(text)
           nothing == <<>>
           Is(f) == f = [i \in 0 .. n |-> IF i = 0 THEN nothing
                                          ELSE Rest(units, text[i], f[i - 1])]
           others == CHOOSE f : Is(f)
           step == [i \in 1 .. n |-> [s \in Seq(U) |-> Rest(units, text[i], s)]]
<1>1. n \in Nat /\ \A i \in 1 .. n : text[i] \in U
  BY LenProperties, ElementOfSeq
<1>2. <<>> \in Seq(U)
  OBVIOUS
<1>3. Without(text, units) = others[n]
  BY DEF Without, Rest
<1>4. step \in [1 .. n -> [Seq(U) -> Seq(U)]]
  <2>1. \A i \in 1 .. n, s \in Seq(U) : Rest(units, text[i], s) \in Seq(U)
    BY <1>1, AppendProperties DEF Rest
  <2>2. QED
    BY <2>1
<1>5. \A i \in 1 .. n, s \in Seq(U) : step[i][s] = Rest(units, text[i], s)
  OBVIOUS
<1> HIDE DEF step, n, nothing
<1>6. PICK f \in [0 .. n -> Seq(U)] : Walked(f, nothing, step, n)
  <2> HIDE DEF Is
  <2>1. nothing \in Seq(U)
    BY <1>2 DEF nothing
  <2>2. QED
    BY <1>1, <1>4, <2>1, WalkExists, Zenon
<1>7. f[0] = nothing /\ \A i \in 1 .. n : f[i] = step[i][f[i - 1]]
  BY <1>6 DEF Walked
<1>8. ASSUME NEW i \in 1 .. n PROVE f[i] = Rest(units, text[i], f[i - 1])
  <2>1. i - 1 \in 0 .. n
    BY <1>1
  <2>2. f[i - 1] \in Seq(U)
    BY <1>6, <2>1
  <2>3. QED
    BY <1>5, <1>7, <2>2
<1>9. \E g : Is(g)
  <2>1. \A i \in 0 .. n : f[i] = IF i = 0 THEN nothing ELSE Rest(units, text[i], f[i - 1])
    BY <1>1, <1>7, <1>8
  <2>2. f = [i \in 0 .. n |-> f[i]]
    BY <1>6
  <2>3. Is(f)
    BY <2>1, <2>2
  <2>4. QED
    BY <2>3
<1>10. Is(others)
  <2> HIDE DEF Is
  <2>1. QED
    BY <1>9
<1>11. StepAlike(f, others, n)
  <2> HIDE DEF others
  <2>1. others[0] = nothing
    BY <1>1, <1>10
  <2>2. ASSUME NEW i \in 1 .. n PROVE others[i] = Rest(units, text[i], others[i - 1])
    BY <1>1, <1>10
  <2>3. QED
    BY <1>7, <1>8, <2>1, <2>2 DEF StepAlike
<1> HIDE DEF others
<1>12. Alike(f, others, n)
  BY <1>1, <1>11, SameWalk
<1>13. others[n] = f[n]
  BY <1>1, <1>12 DEF Alike
<1>14. QED
  BY <1>3, <1>6, <1>7, <1>8, <1>13 DEF Leaving, n, nothing

(* One unit more at the end of the second of two texts.                    *)
LEMMA GluedAppend ==
    ASSUME NEW U, NEW x \in Seq(U), NEW y \in Seq(U), NEW unit \in U,
           NEW more, more = Append(y, unit)
    PROVE  Append(x \o y, unit) = x \o more
<1>1. Len(x) \in Nat /\ Len(y) \in Nat
  BY LenProperties
<1>2. /\ x \o y \in Seq(U) /\ Len(x \o y) = Len(x) + Len(y)
      /\ \A i \in 1 .. Len(x) + Len(y) :
            (x \o y)[i] = IF i <= Len(x) THEN x[i] ELSE y[i - Len(x)]
  BY ConcatProperties
<1>3. PICK w \in Seq(U) : w = x \o y
  BY <1>2
<1>4. /\ Append(w, unit) \in Seq(U) /\ Len(Append(w, unit)) = Len(w) + 1
      /\ \A i \in 1 .. Len(w) : Append(w, unit)[i] = w[i]
      /\ Append(w, unit)[Len(w) + 1] = unit
  BY AppendProperties
<1>5. PICK z \in Seq(U) : z = more
  BY AppendProperties
<1>6. /\ Len(z) = Len(y) + 1 /\ z[Len(y) + 1] = unit
      /\ \A i \in 1 .. Len(y) : z[i] = y[i]
  BY <1>5, AppendProperties
<1>7. /\ x \o z \in Seq(U) /\ Len(x \o z) = Len(x) + Len(z)
      /\ \A i \in 1 .. Len(x) + Len(z) :
            (x \o z)[i] = IF i <= Len(x) THEN x[i] ELSE z[i - Len(x)]
  BY ConcatProperties
<1>8. Len(w) = Len(x) + Len(y)
  BY <1>2, <1>3
<1>9. ASSUME NEW i \in 1 .. Len(x) + Len(y) + 1 PROVE Append(w, unit)[i] = (x \o z)[i]
  <2>1. i \in 1 .. Len(x) + Len(z)
    BY <1>1, <1>6
  <2>2. CASE i <= Len(x)
    <3>1. i \in 1 .. Len(x) + Len(y) /\ i \in 1 .. Len(w)
      BY <1>1, <1>8, <2>2
    <3>2. Append(w, unit)[i] = x[i]
      BY <1>2, <1>3, <1>4, <2>2, <3>1
    <3>3. QED
      BY <1>7, <2>1, <2>2, <3>2
  <2>3. CASE ~(i <= Len(x)) /\ i <= Len(x) + Len(y)
    <3>1. /\ i \in 1 .. Len(x) + Len(y) /\ i \in 1 .. Len(w) /\ i - Len(x) \in 1 .. Len(y)
          /\ ~(i <= Len(x))
      BY <1>1, <1>8, <2>3
    <3>2. Append(w, unit)[i] = y[i - Len(x)]
      BY <1>2, <1>3, <1>4, <3>1
    <3>3. (x \o z)[i] = z[i - Len(x)]
      BY <1>7, <2>1, <3>1
    <3>4. QED
      BY <1>6, <3>1, <3>2, <3>3
  <2>4. CASE ~(i <= Len(x)) /\ ~(i <= Len(x) + Len(y))
    <3>1. i = Len(w) + 1 /\ ~(i <= Len(x)) /\ i - Len(x) = Len(y) + 1
      BY <1>1, <1>8, <2>4
    <3>2. (x \o z)[i] = z[Len(y) + 1]
      BY <1>7, <2>1, <3>1
    <3>3. QED
      BY <1>4, <1>6, <3>1, <3>2
  <2>5. QED
    BY <2>2, <2>3, <2>4
<1>10. Append(w, unit) = x \o z
  <2>1. Len(Append(w, unit)) = Len(x) + Len(y) + 1 /\ Len(x \o z) = Len(x) + Len(y) + 1
    BY <1>1, <1>4, <1>6, <1>7, <1>8
  <2>2. QED
    BY <1>4, <1>7, <1>9, <2>1, SeqEqual
<1>11. QED
  BY <1>3, <1>5, <1>10

(* A part of a text and the unit behind it.                                *)
LEMMA PartOneMore ==
    ASSUME NEW U, NEW text \in Seq(U), NEW a \in Nat, NEW b \in Nat, a < b, b <= Len(text)
    PROVE  SubSeq(text, a + 1, b) = Append(SubSeq(text, a + 1, b - 1), text[b])
<1>1. PICK last \in Nat : last = b - 1
  <2>1. b - 1 \in Nat
    OBVIOUS
  <2>2. QED
    BY <2>1
<1>2. a <= last /\ last <= Len(text) /\ b = last + 1 /\ b \in 1 .. Len(text)
  BY <1>1, LenProperties
<1> DEFINE x == SubSeq(text, a + 1, b)
           y == SubSeq(text, a + 1, last)
<1>3. x \in Seq(U) /\ Len(x) = b - a /\ \A i \in 1 .. b - a : x[i] = text[a + i]
  BY PartIs
<1>4. y \in Seq(U) /\ Len(y) = last - a /\ \A i \in 1 .. last - a : y[i] = text[a + i]
  BY <1>2, PartIs
<1> HIDE DEF x, y
<1>5. text[b] \in U
  BY <1>2, ElementOfSeq
<1>6. /\ Append(y, text[b]) \in Seq(U) /\ Len(Append(y, text[b])) = Len(y) + 1
      /\ \A i \in 1 .. Len(y) : Append(y, text[b])[i] = y[i]
      /\ Append(y, text[b])[Len(y) + 1] = text[b]
  <2>1. y \in Seq(U)
    BY <1>4
  <2>2. QED
    BY <1>5, <2>1, AppendProperties
<1>7. ASSUME NEW i \in 1 .. b - a PROVE x[i] = Append(y, text[b])[i]
  <2>1. CASE i <= last - a
    <3>1. i \in 1 .. last - a /\ i \in 1 .. Len(y)
      BY <1>4, <2>1
    <3>2. QED
      BY <1>3, <1>4, <1>6, <3>1
  <2>2. CASE i > last - a
    <3>1. i \in Nat /\ i <= b - a
      BY <1>7
    <3>2. i = (last - a) + 1 /\ a + i = b
      BY <1>2, <2>2, <3>1
    <3>3. i = Len(y) + 1
      BY <1>4, <3>2
    <3>4. QED
      BY <1>3, <1>6, <3>2, <3>3
  <2>3. i <= last - a \/ i > last - a
    OBVIOUS
  <2>4. QED
    BY <2>1, <2>2, <2>3
<1>8. Len(Append(y, text[b])) = Len(x)
  BY <1>2, <1>3, <1>4, <1>6
<1>9. x = Append(y, text[b])
  BY <1>3, <1>6, <1>7, <1>8, SeqEqual
<1>10. QED
  BY <1>1, <1>9 DEF x, y

(* When the units to leave out are those of one range, what is left is the *)
(* text before it and the text after it.                                   *)
LEMMA WithoutRange ==
    ASSUME NEW U, NEW text \in Seq(U), NEW units,
           NEW start \in Nat, NEW end \in Nat, start <= end, end <= Len(text),
           \A i \in 1 .. start : text[i] \notin units,
           \A i \in start + 1 .. end : text[i] \in units,
           \A i \in end + 1 .. Len(text) : text[i] \notin units
    PROVE  Without(text, units) = SubSeq(text, 1, start) \o SubSeq(text, end + 1, Len(text))
<1>1. Len(text) \in Nat /\ \A i \in 1 .. Len(text) : text[i] \in U
  BY LenProperties, ElementOfSeq
<1>2. PICK f : Leaving(U, f, text, units)
  BY WithoutWay
<1> DEFINE front == SubSeq(text, 1, start)
           A == {i \in 0 .. Len(text) :
                    /\ i <= start => f[i] = SubSeq(text, 1, i)
                    /\ start <= i /\ i <= end => f[i] = front
                    /\ end <= i => f[i] = front \o SubSeq(text, end + 1, i)}
<1>3. front \in Seq(U)
  BY <1>1, Ends
<1>4. SubSeq(text, 1, 0) = <<>> /\ SubSeq(text, end + 1, end) = <<>> /\ front \o <<>> = front
  BY <1>3, SubSeqEmpty, ConcatEmptySeq
<1> HIDE DEF front
<1>5. 0 \in A
  <2>1. 0 = start => front = <<>>
    BY <1>4 DEF front
  <2>2. QED
    BY <1>1, <1>2, <1>4, <2>1 DEF Leaving
<1>6. ASSUME NEW i \in 1 .. Len(text), i - 1 \in A PROVE i \in A
  <2>1. /\ i - 1 <= start => f[i - 1] = SubSeq(text, 1, i - 1)
        /\ start <= i - 1 /\ i - 1 <= end => f[i - 1] = front
        /\ end <= i - 1 => f[i - 1] = front \o SubSeq(text, end + 1, i - 1)
    BY <1>6
  <2>2. f[i] = IF text[i] \in units THEN f[i - 1] ELSE Append(f[i - 1], text[i])
    BY <1>2 DEF Leaving, Rest
  <2>3. i \in Nat /\ i \in 0 .. Len(text) /\ i <= Len(text) /\ text[i] \in U
    BY <1>1
  <2>4. ASSUME i <= start PROVE f[i] = SubSeq(text, 1, i)
    <3>1. SubSeq(text, 0 + 1, i) = Append(SubSeq(text, 0 + 1, i - 1), text[i])
      BY <2>3, PartOneMore
    <3>2. text[i] \notin units /\ i - 1 <= start
      BY <2>3, <2>4
    <3>3. QED
      BY <2>1, <2>2, <3>1, <3>2
  <2>5. ASSUME start <= i, i <= end PROVE f[i] = front
    <3>1. CASE i = start
      BY <2>4, <3>1 DEF front
    <3>2. CASE i # start
      <4>1. text[i] \in units /\ start <= i - 1 /\ i - 1 <= end
        BY <2>3, <2>5, <3>2
      <4>2. QED
        BY <2>1, <2>2, <4>1
    <3>3. QED
      BY <3>1, <3>2
  <2>6. ASSUME end <= i PROVE f[i] = front \o SubSeq(text, end + 1, i)
    <3>1. CASE i = end
      <4>1. f[i] = front
        BY <2>5, <3>1
      <4>2. QED
        BY <1>4, <3>1, <4>1
    <3>2. CASE i # end
      <4>1. text[i] \notin units /\ end <= i - 1 /\ end < i
        BY <2>3, <2>6, <3>2
      <4>2. SubSeq(text, end + 1, i) = Append(SubSeq(text, end + 1, i - 1), text[i])
        BY <2>3, <4>1, PartOneMore
      <4>3. PICK back \in Seq(U) : back = SubSeq(text, end + 1, i - 1)
        <5>1. end + 1 \in Nat \ {0} /\ i - 1 \in Int /\ i - 1 <= Len(text)
          BY <2>3
        <5>2. SubSeq(text, end + 1, i - 1) \in Seq(U)
          BY <5>1, Part
        <5>3. QED
          BY <5>2
      <4>4. f[i] = Append(front \o back, text[i])
        BY <2>1, <2>2, <4>1, <4>3
      <4>5. Append(front \o back, text[i]) = front \o Append(back, text[i])
        <5>1. PICK unit \in U : unit = text[i]
          BY <2>3
        <5>2. PICK before \in Seq(U) : before = front
          BY <1>3
        <5>3. PICK more : more = Append(back, unit)
          OBVIOUS
        <5>4. Append(before \o back, unit) = before \o more
          BY <5>3, GluedAppend, ZenonT(60)
        <5>5. QED
          BY <5>1, <5>2, <5>3, <5>4
      <4>6. QED
        BY <4>2, <4>3, <4>4, <4>5
    <3>3. QED
      BY <3>1, <3>2
  <2>7. QED
    BY <2>3, <2>4, <2>5, <2>6
<1>7. Len(text) \in A
  <2> HIDE DEF A
  <2>1. \A i \in 0 .. Len(text) : i \in A
    BY <1>1, <1>5, <1>6, Climb
  <2>2. QED
    BY <1>1, <2>1
<1>8. QED
  BY <1>1, <1>2, <1>7 DEF front, Leaving

(* In a text of distinct units no unit stands at two places.               *)
LEMMA DistinctIs ==
    ASSUME NEW U, NEW text \in Seq(U), Distinct(text),
           NEW i \in 1 .. Len(text), NEW j \in 1 .. Len(text), text[i] = text[j]
    PROVE  i = j
<1>1. Len(text) \in Nat /\ DOMAIN text = 1 .. Len(text)
  BY LenProperties
<1>2. text \in Surjection(1 .. Len(text), Units(text))
  BY <1>1 DEF Surjection, Units, ToSet
<1>3. IsFiniteSet(1 .. Len(text)) /\ Cardinality(1 .. Len(text)) = Len(text)
  <2>1. 1 \in Int /\ Len(text) \in Int
    BY <1>1
  <2>2. /\ IsFiniteSet(1 .. Len(text))
        /\ Cardinality(1 .. Len(text)) = IF 1 > Len(text) THEN 0 ELSE Len(text) - 1 + 1
    BY <2>1, FS_Interval
  <2>3. QED
    BY <1>1, <2>2
<1>4. text \in Injection(1 .. Len(text), Units(text))
  BY <1>2, <1>3, FS_SurjSameCardinalityImpliesInj DEF Distinct
<1>5. QED
  BY <1>1, <1>4 DEF Injection, IsInjective

(* The units of a part of a text.                                          *)
LEMMA PartUnits ==
    ASSUME NEW U, NEW text \in Seq(U), NEW a \in Nat, NEW b \in Nat, a <= b, b <= Len(text)
    PROVE  Units(SubSeq(text, a + 1, b)) = {text[i] : i \in a + 1 .. b}
<1>1. PICK x \in Seq(U) : /\ x = SubSeq(text, a + 1, b) /\ Len(x) = b - a
                          /\ \A i \in 1 .. b - a : x[i] = text[a + i]
  <2>1. /\ SubSeq(text, a + 1, b) \in Seq(U)
        /\ Len(SubSeq(text, a + 1, b)) = b - a
        /\ \A i \in 1 .. b - a : SubSeq(text, a + 1, b)[i] = text[a + i]
    BY PartIs
  <2>2. QED
    BY <2>1, Zenon
<1>2. Units(x) = {x[i] : i \in 1 .. b - a}
  BY <1>1, LenProperties DEF Units, ToSet
<1>3. ASSUME NEW i \in 1 .. b - a PROVE x[i] \in {text[j] : j \in a + 1 .. b}
  <2>1. a + i \in a + 1 .. b
    OBVIOUS
  <2>2. QED
    BY <1>1, <2>1
<1>4. ASSUME NEW j \in a + 1 .. b PROVE text[j] \in {x[i] : i \in 1 .. b - a}
  <2>1. j - a \in 1 .. b - a /\ a + (j - a) = j
    OBVIOUS
  <2>2. x[j - a] = text[j]
    BY <1>1, <2>1
  <2>3. QED
    BY <2>1, <2>2
<1>5. QED
  BY <1>1, <1>2, <1>3, <1>4

(***************************************************************************)
(* The change while the person edits: as long as `rebase` places it, what  *)
(* it is to remove stands in its range, with nothing before it but what    *)
(* stood before it and what was typed, and so behind it.                   *)
(***************************************************************************)
Every == Written \cup Fresh

Gone == SubSeq(from, offer.start + 1, offer.end)
Ahead == Units(SubSeq(from, 1, offer.start)) \cup Fresh
Behind == Units(SubSeq(from, offer.end + 1, Len(from))) \cup Fresh

Follows(moved, text) ==
    /\ moved.change.text = offer.text
    /\ Stands(moved.change, text, Gone, Ahead, Behind)

Tracked ==
    /\ Chosen
    /\ buffer \in Seq(Every)
    /\ withheld \in Seq(Changes(Every))
    /\ Rebase(offer, withheld).placed => Follows(Rebase(offer, withheld), buffer)

LEMMA OfferTyped ==
    ASSUME Chosen
    PROVE  /\ offer \in Changes(Every)
           /\ offer.start \in Nat /\ offer.end \in Nat /\ offer.start <= offer.end
           /\ Len(from) \in Nat /\ offer.end <= Len(from)
           /\ from \in Seq(Every) /\ offer.text \in Seq(Every)
<1>1. from \in Seq(Written) /\ to \in Seq(Written)
  BY DEF Chosen
<1>2. Len(from) \in Nat /\ Len(to) \in Nat
  BY <1>1, LenProperties
<1>3. from \in Seq(Every) /\ to \in Seq(Every)
  BY <1>1 DEF Every
<1>4. offer \in Changes(Every)
  BY <1>3, DiffTyped DEF offer
<1>5. /\ offer.start \in Nat /\ offer.end \in Nat /\ offer.start <= offer.end
      /\ offer.text \in Seq(Every)
  BY <1>4, ChangeIs
<1>6. offer.end <= Len(from)
  <2>1. CASE from = to
    BY <1>2, <2>1, NoOffer
  <2>2. CASE from # to
    <3>1. PICK kept \in Nat : offer.end = Len(from) - kept
      BY <2>2, OfferIs
    <3>2. QED
      BY <1>2, <3>1
  <2>3. QED
    BY <2>1, <2>2
<1>7. QED
  BY <1>2, <1>3, <1>4, <1>5, <1>6

(* The units before the range, in it, and behind it.                       *)
LEMMA Parts ==
    ASSUME Chosen
    PROVE  /\ Gone \in Seq(Every) /\ Len(Gone) = offer.end - offer.start
           /\ \A i \in 1 .. offer.end - offer.start : Gone[i] = from[offer.start + i]
           /\ Units(Gone) = {from[i] : i \in offer.start + 1 .. offer.end}
           /\ Units(SubSeq(from, 1, offer.start)) = {from[i] : i \in 1 .. offer.start}
           /\ Units(SubSeq(from, offer.end + 1, Len(from)))
                 = {from[i] : i \in offer.end + 1 .. Len(from)}
<1>1. PICK start \in Nat : start = offer.start
  BY OfferTyped
<1>2. PICK end \in Nat : end = offer.end
  BY OfferTyped
<1>3. start <= end /\ Len(from) \in Nat /\ end <= Len(from) /\ from \in Seq(Every)
  BY <1>1, <1>2, OfferTyped
<1>4. /\ SubSeq(from, start + 1, end) \in Seq(Every)
      /\ Len(SubSeq(from, start + 1, end)) = end - start
      /\ \A i \in 1 .. end - start : SubSeq(from, start + 1, end)[i] = from[start + i]
  BY <1>3, PartIs
<1>5. Units(SubSeq(from, start + 1, end)) = {from[i] : i \in start + 1 .. end}
  BY <1>3, PartUnits
<1>6. Units(SubSeq(from, 1, start)) = {from[i] : i \in 1 .. start}
  <2>1. PICK none \in Nat : none = 0
    OBVIOUS
  <2>2. none <= start /\ start <= Len(from)
    BY <1>3, <2>1
  <2>3. Units(SubSeq(from, none + 1, start)) = {from[i] : i \in none + 1 .. start}
    BY <1>3, <2>2, PartUnits
  <2>4. none + 1 = 1
    BY <2>1
  <2>5. QED
    BY <2>3, <2>4
<1>7. Units(SubSeq(from, end + 1, Len(from))) = {from[i] : i \in end + 1 .. Len(from)}
  <2>1. PICK all \in Nat : all = Len(from)
    BY <1>3
  <2>2. end <= all /\ all <= Len(from)
    BY <1>3, <2>1
  <2>3. Units(SubSeq(from, end + 1, all)) = {from[i] : i \in end + 1 .. all}
    BY <1>3, <2>2, PartUnits
  <2>4. QED
    BY <2>1, <2>3
<1>8. QED
  BY <1>1, <1>2, <1>4, <1>5, <1>6, <1>7 DEF Gone

LEMMA InitTracked == Init => Tracked
<1> SUFFICES ASSUME Init PROVE Tracked
  OBVIOUS
<1>1. Chosen
  BY InitChosen
<1>2. buffer = from /\ withheld = <<>>
  BY DEF Init
<1>3. Rebase(offer, withheld) = [placed |-> TRUE, change |-> offer]
  BY <1>1, <1>2, OfferTyped, RebaseNone
<1>4. Stands(offer, from, Gone, Ahead, Behind)
  <2>1. \A i \in 1 .. Len(Gone) : from[offer.start + i] = Gone[i]
    BY <1>1, Parts
  <2>2. \A i \in 1 .. offer.start : from[i] \in Ahead
    BY <1>1, Parts DEF Ahead
  <2>3. \A i \in offer.end + 1 .. Len(from) : from[i] \in Behind
    BY <1>1, Parts DEF Behind
  <2>4. offer.end - offer.start = Len(Gone) /\ offer.end <= Len(from)
    BY <1>1, Parts, OfferTyped
  <2>5. QED
    BY <2>1, <2>2, <2>3, <2>4 DEF Stands
<1>5. Follows(Rebase(offer, withheld), buffer)
  BY <1>2, <1>3, <1>4 DEF Follows
<1>6. <<>> \in Seq(Changes(Every))
  OBVIOUS
<1>7. QED
  BY <1>1, <1>2, <1>5, <1>6, OfferTyped DEF Tracked

LEMMA NextTracked == Tracked /\ [Next]_vars => Tracked'
<1> SUFFICES ASSUME Tracked, [Next]_vars PROVE Tracked'
  OBVIOUS
<1>1. Chosen' /\ from' = from /\ to' = to
  BY NextChosen DEF Tracked, Next, LocalEdit, vars
<1>2. offer' = offer /\ Gone' = Gone /\ Ahead' = Ahead /\ Behind' = Behind
  BY <1>1 DEF offer, Gone, Ahead, Behind
<1>3. CASE UNCHANGED vars
  BY <1>1, <1>2, <1>3 DEF vars, Tracked, Follows
<1>4. CASE LocalEdit
  <2>1. PICK start \in 0 .. Len(buffer), end \in 0 .. Len(buffer), unit \in Fresh :
              /\ start <= end
              /\ \E text \in {<<>>, <<unit>>} :
                    /\ buffer' = ApplyChange(buffer, Edit(start, end, text))
                    /\ withheld' = Append(withheld, Edit(start, end, text))
    BY <1>4 DEF LocalEdit
  <2>2. PICK text \in {<<>>, <<unit>>} :
              /\ start <= end
              /\ buffer' = ApplyChange(buffer, Edit(start, end, text))
              /\ withheld' = Append(withheld, Edit(start, end, text))
    BY <2>1
  <2>3. /\ buffer \in Seq(Every) /\ withheld \in Seq(Changes(Every)) /\ Chosen
        /\ Rebase(offer, withheld).placed => Follows(Rebase(offer, withheld), buffer)
    BY DEF Tracked
  <2>4. Len(buffer) \in Nat
    BY <2>3, LenProperties
  <2>5. start \in Nat /\ end \in Nat /\ end <= Len(buffer)
    BY <2>2, <2>4
  <2>6. text \in Seq(Every) /\ \A i \in 1 .. Len(text) : text[i] \in Fresh
    <3>1. unit \in Every
      BY DEF Every
    <3>2. <<>> \in Seq(Every) /\ Len(<<>>) = 0
      OBVIOUS
    <3>3. <<unit>> \in Seq(Every) /\ Len(<<unit>>) = 1 /\ <<unit>>[1] = unit
      BY <3>1
    <3>4. CASE text = <<>>
      BY <3>2, <3>4
    <3>5. CASE text = <<unit>>
      BY <3>3, <3>5
    <3>6. QED
      BY <3>4, <3>5
  <2>7. PICK moved \in Moved(Every) : moved = Rebase(offer, withheld)
    BY <2>3, OfferTyped, RebaseTyped
  <2>8. PICK local \in Changes(Every) : local = Edit(start, end, text)
    BY <2>2, <2>5, <2>6, EditIs
  <2>9. local.end = end /\ local.text = text
    BY <2>8 DEF Edit
  <2>10. Rebase(offer, withheld') = Through(moved, local)
    BY <2>2, <2>3, <2>7, <2>8, OfferTyped, RebaseOneMore
  <2>11. buffer' \in Seq(Every) /\ withheld' \in Seq(Changes(Every))
    BY <2>2, <2>3, <2>5, <2>6, <2>8, ApplyAt, AppendProperties
  <2>12. ASSUME Rebase(offer, withheld').placed
         PROVE  Follows(Rebase(offer, withheld'), buffer')
    <3>1. Through(moved, local).placed
      BY <2>10, <2>12
    <3>2. moved.placed
      BY <3>1, ThroughIs
    <3>3. moved.change.text = offer.text /\ Stands(moved.change, buffer, Gone, Ahead, Behind)
      BY <2>3, <2>7, <3>2 DEF Follows
    <3>4. \A i \in 1 .. Len(local.text) : local.text[i] \in Ahead /\ local.text[i] \in Behind
      BY <2>6, <2>9 DEF Ahead, Behind
    <3>5. Gone \in Seq(Every) /\ local.end <= Len(buffer)
      BY <2>3, <2>5, <2>9, Parts
    <3>6. /\ Through(moved, local).change.text = moved.change.text
          /\ Stands(Through(moved, local).change, ApplyChange(buffer, local), Gone, Ahead, Behind)
      BY <2>3, <3>1, <3>3, <3>4, <3>5, StandsThrough
    <3>7. QED
      BY <2>2, <2>8, <2>10, <3>3, <3>6 DEF Follows
  <2>13. QED
    BY <1>1, <1>2, <2>11, <2>12 DEF Tracked, Follows
<1>5. QED
  BY <1>3, <1>4 DEF Next

(* The text before a change, what it inserts, and the text behind it.      *)
Replaces(result, text, start, end, insert) ==
    /\ SubSeq(result, 1, start) = SubSeq(text, 1, start)
    /\ SubSeq(result, start + 1, start + Len(insert)) = insert
    /\ SubSeq(result, start + Len(insert) + 1, Len(result)) = SubSeq(text, end + 1, Len(text))

LEMMA Replaced ==
    ASSUME NEW U, NEW text \in Seq(U), NEW insert \in Seq(U),
           NEW start \in Nat, NEW end \in Nat, start <= end, end <= Len(text)
    PROVE  Replaces(ApplyChange(text, Edit(start, end, insert)), text, start, end, insert)
<1> DEFINE result == ApplyChange(text, Edit(start, end, insert))
<1>1. Edited(result, text, start, end, insert)
  BY ApplyAt
<1>2. result \in Seq(U)
  BY ApplyAt
<1> HIDE DEF result
<1>3. /\ Len(result) = Len(text) + Len(insert) - (end - start)
      /\ \A i \in 1 .. start : result[i] = text[i]
      /\ \A i \in 1 .. Len(insert) : result[start + i] = insert[i]
      /\ \A i \in 1 .. Len(text) - end : result[start + Len(insert) + i] = text[end + i]
  BY <1>1 DEF Edited
<1>4. Len(text) \in Nat /\ Len(insert) \in Nat /\ Len(result) \in Nat
  BY <1>2, LenProperties
<1>5. PICK until \in Nat : until = start + Len(insert)
  BY <1>4
<1>6. until <= Len(result) /\ start <= until /\ start <= Len(text) /\ start <= Len(result)
  BY <1>3, <1>4, <1>5
<1>7. SubSeq(result, 1, start) = SubSeq(text, 1, start)
  <2> DEFINE x == SubSeq(result, 1, start)
             y == SubSeq(text, 1, start)
  <2>1. x \in Seq(U) /\ Len(x) = start /\ \A i \in 1 .. start : x[i] = result[i]
    BY <1>2, <1>6, Ends
  <2>2. y \in Seq(U) /\ Len(y) = start /\ \A i \in 1 .. start : y[i] = text[i]
    BY <1>6, Ends
  <2> HIDE DEF x, y
  <2>3. Len(x) = Len(y) /\ \A i \in 1 .. Len(x) : x[i] = y[i]
    BY <1>3, <2>1, <2>2
  <2>4. x = y
    BY <2>1, <2>2, <2>3, SeqEqual
  <2>5. QED
    BY <2>4 DEF x, y
<1>8. SubSeq(result, start + 1, until) = insert
  <2> DEFINE x == SubSeq(result, start + 1, until)
  <2>1. x \in Seq(U) /\ Len(x) = until - start
        /\ \A i \in 1 .. until - start : x[i] = result[start + i]
    BY <1>2, <1>6, PartIs
  <2> HIDE DEF x
  <2>2. until - start = Len(insert)
    BY <1>4, <1>5
  <2>3. x = insert
    BY <1>3, <2>1, <2>2, SeqEqual
  <2>4. QED
    BY <2>3 DEF x
<1>9. SubSeq(result, until + 1, Len(result)) = SubSeq(text, end + 1, Len(text))
  <2> DEFINE x == SubSeq(result, until + 1, Len(result))
             y == SubSeq(text, end + 1, Len(text))
  <2>1. x \in Seq(U) /\ Len(x) = Len(result) - until
        /\ \A i \in 1 .. Len(result) - until : x[i] = result[until + i]
    BY <1>2, <1>6, Ends
  <2>2. y \in Seq(U) /\ Len(y) = Len(text) - end
        /\ \A i \in 1 .. Len(text) - end : y[i] = text[end + i]
    BY Ends
  <2> HIDE DEF x, y
  <2>3. Len(result) - until = Len(text) - end
    BY <1>3, <1>4, <1>5
  <2>4. \A i \in 1 .. Len(text) - end : result[until + i] = text[end + i]
    BY <1>3, <1>5
  <2>5. Len(x) = Len(y) /\ \A i \in 1 .. Len(x) : x[i] = y[i]
    BY <2>1, <2>2, <2>3, <2>4
  <2>6. x = y
    BY <2>1, <2>2, <2>5, SeqEqual
  <2>7. QED
    BY <2>6 DEF x, y
<1>10. QED
  BY <1>5, <1>7, <1>8, <1>9 DEF Replaces, result

(* In a text of distinct units that nobody types, what was before the      *)
(* range, what was in it, what was behind it and what is typed are apart.  *)
LEMMA Apart ==
    ASSUME Chosen, Distinct(from)
    PROVE  /\ Units(Gone) \cap Ahead = {} /\ Units(Gone) \cap Behind = {}
           /\ Ahead \cap Units(SubSeq(from, offer.end + 1, Len(from))) = {}
           /\ Behind \cap Units(SubSeq(from, 1, offer.start)) = {}
<1>1. PICK start \in Nat : start = offer.start
  BY OfferTyped
<1>2. PICK end \in Nat : end = offer.end
  BY OfferTyped
<1>3. start <= end /\ Len(from) \in Nat /\ end <= Len(from) /\ from \in Seq(Every)
  BY <1>1, <1>2, OfferTyped
<1>4. /\ Units(Gone) = {from[i] : i \in start + 1 .. end}
      /\ Units(SubSeq(from, 1, offer.start)) = {from[i] : i \in 1 .. start}
      /\ Units(SubSeq(from, offer.end + 1, Len(from))) = {from[i] : i \in end + 1 .. Len(from)}
  BY <1>1, <1>2, Parts
<1>5. \A i, j \in 1 .. Len(from) : from[i] = from[j] => i = j
  BY <1>3, DistinctIs
<1>6. \A i \in 1 .. Len(from) : from[i] \notin Fresh
  <2>1. \A i \in 1 .. Len(from) : from[i] \in Written
    BY ElementOfSeq DEF Chosen
  <2>2. Written \cap Fresh = {}
    BY FreshIsFresh DEF Written
  <2>3. QED
    BY <2>1, <2>2
<1>7. Units(Gone) \cap Ahead = {}
  BY <1>3, <1>4, <1>5, <1>6 DEF Ahead
<1>8. Units(Gone) \cap Behind = {}
  BY <1>3, <1>4, <1>5, <1>6 DEF Behind
<1>9. Ahead \cap Units(SubSeq(from, offer.end + 1, Len(from))) = {}
  BY <1>3, <1>4, <1>5, <1>6 DEF Ahead
<1>10. Behind \cap Units(SubSeq(from, 1, offer.start)) = {}
  BY <1>3, <1>4, <1>5, <1>6 DEF Behind
<1>11. QED
  BY <1>7, <1>8, <1>9, <1>10

(* The property, for a change as it stands in the buffer.                  *)
LEMMA KeepsBoth ==
    ASSUME Tracked, Distinct(from), Rebase(offer, withheld).placed
    PROVE  LET moved == Rebase(offer, withheld)
               removed == Units(Gone)
               result == ApplyChange(buffer, moved.change)
               at == moved.change.start
           IN  /\ moved.change.end <= Len(buffer)
               /\ Units(SubSeq(buffer, at + 1, moved.change.end)) = removed
               /\ SubSeq(result, at + 1, at + Len(offer.text)) = offer.text
               /\ SubSeq(result, 1, at) \o SubSeq(result, at + Len(offer.text) + 1, Len(result))
                     = Without(buffer, removed)
               /\ Units(SubSeq(buffer, 1, at))
                     \cap Units(SubSeq(from, offer.end + 1, Len(from))) = {}
               /\ Units(SubSeq(buffer, moved.change.end + 1, Len(buffer)))
                     \cap Units(SubSeq(from, 1, offer.start)) = {}
<1>1. Chosen /\ buffer \in Seq(Every) /\ withheld \in Seq(Changes(Every))
  BY DEF Tracked
<1>2. Rebase(offer, withheld) \in Moved(Every)
  BY <1>1, OfferTyped, RebaseTyped
<1>3. PICK change \in Changes(Every) : change = Rebase(offer, withheld).change
  BY <1>2 DEF Moved
<1>4. change.text = offer.text /\ Stands(change, buffer, Gone, Ahead, Behind)
  BY <1>3 DEF Tracked, Follows
<1>5. PICK start \in Nat : start = change.start
  BY ChangeIs
<1>6. PICK end \in Nat : end = change.end
  BY ChangeIs
<1>7. PICK insert \in Seq(Every) : insert = change.text
  BY ChangeIs
<1>8. change = Edit(start, end, insert) /\ start <= end
  BY <1>5, <1>6, <1>7, ChangeIs DEF Edit
<1>9. /\ end - start = Len(Gone) /\ end <= Len(buffer)
      /\ \A i \in 1 .. Len(Gone) : buffer[start + i] = Gone[i]
      /\ \A i \in 1 .. start : buffer[i] \in Ahead
      /\ \A i \in end + 1 .. Len(buffer) : buffer[i] \in Behind
  BY <1>4, <1>5, <1>6 DEF Stands
<1>10. Len(buffer) \in Nat /\ start <= end /\ end <= Len(buffer)
  BY <1>1, <1>8, <1>9, LenProperties
<1>11. SubSeq(buffer, start + 1, end) = Gone
  <2> DEFINE x == SubSeq(buffer, start + 1, end)
  <2>1. x \in Seq(Every) /\ Len(x) = end - start
        /\ \A i \in 1 .. end - start : x[i] = buffer[start + i]
    BY <1>1, <1>8, <1>9, PartIs
  <2> HIDE DEF x
  <2>2. Gone \in Seq(Every)
    BY <1>1, Parts
  <2>3. x = Gone
    BY <1>9, <2>1, <2>2, SeqEqual
  <2>4. QED
    BY <2>3 DEF x
<1>12. \A i \in start + 1 .. end : buffer[i] \in Units(Gone)
  <2>1. \A i \in 1 .. Len(Gone) : Gone[i] \in Units(Gone)
    <3>1. Gone \in Seq(Every)
      BY <1>1, Parts
    <3>2. DOMAIN Gone = 1 .. Len(Gone)
      BY <3>1, LenProperties
    <3>3. QED
      BY <3>2 DEF Units, ToSet
  <2>2. ASSUME NEW i \in start + 1 .. end PROVE buffer[i] \in Units(Gone)
    <3>1. i - start \in 1 .. Len(Gone) /\ start + (i - start) = i
      BY <1>9, <1>10
    <3>2. QED
      BY <1>9, <2>1, <3>1
  <2>3. QED
    BY <2>2
<1>13. /\ \A i \in 1 .. start : buffer[i] \notin Units(Gone)
       /\ \A i \in end + 1 .. Len(buffer) : buffer[i] \notin Units(Gone)
  BY <1>1, <1>9, Apart
<1>14. Without(buffer, Units(Gone))
          = SubSeq(buffer, 1, start) \o SubSeq(buffer, end + 1, Len(buffer))
  <2>1. PICK removed : removed = Units(Gone)
    OBVIOUS
  <2>2. Without(buffer, removed)
           = SubSeq(buffer, 1, start) \o SubSeq(buffer, end + 1, Len(buffer))
    BY <1>1, <1>8, <1>9, <1>12, <1>13, <2>1, WithoutRange
  <2>3. QED
    BY <2>1, <2>2
<1>15. PICK result : result = ApplyChange(buffer, change)
  OBVIOUS
<1>16. /\ SubSeq(result, 1, start) = SubSeq(buffer, 1, start)
       /\ SubSeq(result, start + 1, start + Len(insert)) = insert
       /\ SubSeq(result, start + Len(insert) + 1, Len(result))
             = SubSeq(buffer, end + 1, Len(buffer))
  <2>1. result = ApplyChange(buffer, Edit(start, end, insert))
    BY <1>8, <1>15
  <2>2. Replaces(result, buffer, start, end, insert)
    BY <1>1, <1>10, <2>1, Replaced
  <2>3. QED
    BY <2>2 DEF Replaces
<1>17. Units(SubSeq(buffer, 1, start)) \subseteq Ahead
  <2>1. PICK none \in Nat : none = 0
    OBVIOUS
  <2>2. none <= start /\ start <= Len(buffer)
    BY <1>8, <1>9, <1>10, <2>1
  <2>3. Units(SubSeq(buffer, none + 1, start)) = {buffer[i] : i \in none + 1 .. start}
    BY <1>1, <2>2, PartUnits, SMTT(30)
  <2>4. none + 1 = 1
    BY <2>1
  <2>5. QED
    BY <1>9, <2>3, <2>4
<1>18. Units(SubSeq(buffer, end + 1, Len(buffer))) \subseteq Behind
  <2>1. PICK all \in Nat : all = Len(buffer)
    BY <1>10
  <2>2. Units(SubSeq(buffer, end + 1, all)) = {buffer[i] : i \in end + 1 .. all}
    <3>1. end <= all /\ all <= Len(buffer)
      BY <1>10, <2>1
    <3>2. QED
      BY <1>1, <3>1, PartUnits, SMTT(30)
  <2>3. QED
    BY <1>9, <2>1, <2>2
<1>19. /\ Units(SubSeq(buffer, 1, start))
             \cap Units(SubSeq(from, offer.end + 1, Len(from))) = {}
       /\ Units(SubSeq(buffer, end + 1, Len(buffer)))
             \cap Units(SubSeq(from, 1, offer.start)) = {}
  BY <1>1, <1>17, <1>18, Apart
<1>20. insert = offer.text
  BY <1>4, <1>7
<1>21. QED
  BY <1>3, <1>5, <1>6, <1>9, <1>11, <1>14, <1>15, <1>16, <1>19, <1>20

LEMMA TrackedKeepsBoth == Tracked => RebaseKeepsBoth
BY KeepsBoth DEF RebaseKeepsBoth, Gone

(* A local edit never spoils the room's change: as long as `rebase` places *)
(* it, it removes the units it was meant for, inserts between the same     *)
(* neighbours, and leaves everything the person typed in its order, for    *)
(* every text, every change and any number of local edits.                 *)
THEOREM RebaseKeepsTheirText == Spec => []RebaseKeepsBoth
<1>1. Spec => []Tracked
  BY InitTracked, NextTracked, PTL DEF Spec
<1>2. QED
  BY <1>1, TrackedKeepsBoth, PTL
=============================================================================
