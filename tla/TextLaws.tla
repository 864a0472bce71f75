------------------------------ MODULE TextLaws ------------------------------
(***************************************************************************)
(* What the text arithmetic promises, over every small text.  The room     *)
(* asks for one change of a text while the person goes on editing it: the  *)
(* change is worked out once, and moved through each local edit in turn.   *)
(***************************************************************************)
EXTENDS Texts, FiniteSets

CONSTANTS Scopes,   \* the units texts are made of, their length, the local edits
          Fresh     \* what the person types

ASSUME ScopesAreFinite ==
    \A scope \in Scopes : scope.length \in Nat /\ scope.edits \in Nat

(* What the person types is in no text, so that it can be told apart.      *)
ASSUME FreshIsFresh == \A scope \in Scopes : scope.units \cap Fresh = {}

VARIABLES from,      \* the text the change was computed on
          to,        \* the text it leads to
          buffer,    \* the text the person has in front of them
          withheld,  \* the local edits made since, in order
          left       \* how many more the person makes

vars == <<from, to, buffer, withheld, left>>

(* `diff` throws on a text that holds half a pair.                         *)
WholeTexts(scope) ==
    {text \in UNION {[1 .. n -> scope.units] : n \in 0 .. scope.length} :
        ~HasLoneSurrogate(text)}

Init ==
    \E scope \in Scopes :
        /\ from \in WholeTexts(scope)
        /\ to \in WholeTexts(scope)
        /\ buffer = from
        /\ withheld = <<>>
        /\ left = scope.edits

(* The person removes a range, and may type a unit that is nowhere in the  *)
(* text in its place.                                                      *)
LocalEdit ==
    /\ left > 0
    /\ left' = left - 1
    /\ \E start, end \in 0 .. Len(buffer), unit \in Fresh :
          /\ start <= end
          /\ unit \notin Units(buffer)
          /\ \E text \in {<<>>, <<unit>>} :
                /\ buffer' = ApplyChange(buffer, Edit(start, end, text))
                /\ withheld' = Append(withheld, Edit(start, end, text))
    /\ UNCHANGED <<from, to>>

Next == LocalEdit

Spec == Init /\ [][Next]_vars

offer == Diff(from, to)

(***************************************************************************)
(* Properties.                                                             *)
(***************************************************************************)

KeepsWhole(text, start, end) == ~SplitsPair(text, start) /\ ~SplitsPair(text, end)

(* No other replacement that leads there takes away fewer units, but for   *)
(* the one at each end that keeps a character whole.                       *)
Smallest ==
    \A start, end \in 0 .. Len(from) :
        LET kept == Len(from) - end
            widened == IF Units(from) \cap HighSurrogates = {} THEN 0 ELSE 2
        IN  /\ start <= end
            /\ start + kept <= Len(to)
            /\ SubSeq(from, 1, start) = SubSeq(to, 1, start)
            /\ SubSeq(from, end + 1, Len(from)) = SubSeq(to, Len(to) - kept + 1, Len(to))
            => end - start + widened >= offer.end - offer.start

(* The difference leads from every text to every other text, takes away no *)
(* more than it must, and between texts of whole characters inserts and    *)
(* removes whole characters: no half of a pair is ever published.          *)
DiffIsRight ==
    /\ ApplyChange(from, offer) = to
    /\ Smallest
    /\ ~HasLoneSurrogate(offer.text) /\ KeepsWhole(from, offer.start, offer.end)

(* A text without the given units, the others in their order.              *)
Without(text, units) ==
    LET others[i \in 0 .. Len(text)] ==
            IF i = 0 THEN <<>>
            ELSE IF text[i] \in units THEN others[i - 1]
            ELSE Append(others[i - 1], text[i])
    IN  others[Len(text)]

(* A text in which no unit stands twice.                                   *)
Distinct(text) == Cardinality(Units(text)) = Len(text)

(* A moved change does to the person's text what the room asked of the     *)
(* first one: it removes the same units, all of them still there, and what *)
(* it inserts stands between the same neighbours; what the person typed    *)
(* is all there, in its order.                                             *)
RebaseKeepsBoth ==
    LET moved == Rebase(offer, withheld)
        removed == Units(SubSeq(from, offer.start + 1, offer.end))
        result == ApplyChange(buffer, moved.change)
        before == Units(SubSeq(from, 1, offer.start))
        after == Units(SubSeq(from, offer.end + 1, Len(from)))
        at == moved.change.start
    IN  Distinct(from) /\ moved.placed =>
          /\ moved.change.end <= Len(buffer)
          /\ Units(SubSeq(buffer, at + 1, moved.change.end)) = removed
          /\ SubSeq(result, at + 1, at + Len(offer.text)) = offer.text
          /\ SubSeq(result, 1, at) \o SubSeq(result, at + Len(offer.text) + 1, Len(result))
                = Without(buffer, removed)
          /\ Units(SubSeq(buffer, 1, at)) \cap after = {}
          /\ Units(SubSeq(buffer, moved.change.end + 1, Len(buffer))) \cap before = {}
=============================================================================
