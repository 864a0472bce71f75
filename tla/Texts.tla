------------------------------- MODULE Texts -------------------------------
(***************************************************************************)
(* The pure text arithmetic of the companion: how a change is applied to a *)
(* text, how the bridge works out the smallest change between two texts,   *)
(* and how the editor host moves a refused range through the local changes *)
(* made after it was computed (vendor/bridge/editing.ts, and `rebase` of   *)
(* companion/editor.ts).                                                   *)
(*                                                                         *)
(* A text is a sequence of UTF-16 code units.  A code unit is an opaque    *)
(* value; the two sets below say which of them are halves of a pair.       *)
(* Offsets count from zero, as they do in the source.                      *)
(***************************************************************************)
EXTENDS Integers, SequencesExt

CONSTANTS HighSurrogates,   \* code units that are the first half of a pair
          LowSurrogates     \* code units that are the second half

ASSUME SurrogatesAreDisjoint == HighSurrogates \cap LowSurrogates = {}

Edit(from, to, text) == [start |-> from, end |-> to, text |-> text]

Least(a, b) == IF a <= b THEN a ELSE b

(* text.slice(0, start) + insertion + text.slice(max(end, start)): a slice *)
(* stops at the end of the text, whatever offset it is asked for.          *)
ApplyChange(text, change) ==
    LET end == Max({change.start, change.end})
    IN  SubSeq(text, 1, Least(change.start, Len(text)))
            \o change.text \o SubSeq(text, end + 1, Len(text))

(* An offset that lies between the two halves of a pair.                   *)
SplitsPair(text, at) ==
    /\ 0 < at /\ at < Len(text)
    /\ text[at] \in HighSurrogates
    /\ text[at + 1] \in LowSurrogates

HasLoneSurrogate(text) ==
    \E i \in DOMAIN text :
        \/ text[i] \in HighSurrogates /\ ~SplitsPair(text, i)
        \/ text[i] \in LowSurrogates /\ ~SplitsPair(text, i - 1)

CommonPrefix(from, to) ==
    Max({n \in 0 .. Least(Len(from), Len(to)) :
            SubSeq(from, 1, n) = SubSeq(to, 1, n)})

(* The common suffix may not reach back into the first `start` units.      *)
CommonSuffix(from, to, start) ==
    Max({n \in 0 .. Least(Len(from), Len(to)) - start :
            SubSeq(from, Len(from) - n + 1, Len(from))
                = SubSeq(to, Len(to) - n + 1, Len(to))})

(* A slip: only the start of the range is widened.                         *)
DiffWidensStart(from, to) ==
    LET prefix == CommonPrefix(from, to)
        suffix == CommonSuffix(from, to, prefix)
        start == IF SplitsPair(from, prefix) \/ SplitsPair(to, prefix)
                 THEN prefix - 1 ELSE prefix
    IN  IF from = to
        THEN Edit(0, 0, <<>>)
        ELSE Edit(start, Len(from) - suffix, SubSeq(to, start + 1, Len(to) - suffix))

(* The smallest replacement that turns `from` into `to`, widened to whole  *)
(* characters.                                                             *)
Diff(from, to) ==
    LET prefix == CommonPrefix(from, to)
        suffix == CommonSuffix(from, to, prefix)
        widenStart == SplitsPair(from, prefix) \/ SplitsPair(to, prefix)
        widenEnd == \/ SplitsPair(from, Len(from) - suffix)
                    \/ SplitsPair(to, Len(to) - suffix)
        start == IF widenStart THEN prefix - 1 ELSE prefix
        kept == IF widenEnd THEN suffix - 1 ELSE suffix
    IN  IF from = to
        THEN Edit(0, 0, <<>>)
        ELSE Edit(start, Len(from) - kept, SubSeq(to, start + 1, Len(to) - kept))

(* A slip: a range a local change straddles is left where it was.          *)
RebaseAnywhere(change, withheld) ==
    LET Through(moved, local) ==
            LET grown == Len(local.text) - (local.end - local.start)
            IN  IF local.end <= moved.start
                THEN [moved EXCEPT !.start = @ + grown, !.end = @ + grown]
                ELSE moved
    IN  [placed |-> TRUE, change |-> FoldLeft(Through, change, withheld)]

(* Moves a change through later local changes, in order.  `placed` is      *)
(* FALSE once a local change straddles the range: no position is left.     *)
Rebase(change, withheld) ==
    LET Through(moved, local) ==
            LET grown == Len(local.text) - (local.end - local.start)
            IN  CASE ~moved.placed -> moved
                  [] moved.placed /\ local.end <= moved.change.start ->
                        [moved EXCEPT !.change.start = @ + grown,
                                      !.change.end = @ + grown]
                  [] /\ moved.placed
                     /\ local.end > moved.change.start
                     /\ local.start >= moved.change.end -> moved
                  [] OTHER -> [moved EXCEPT !.placed = FALSE]
        after[i \in 0 .. Len(withheld)] ==
            IF i = 0 THEN [placed |-> TRUE, change |-> change]
            ELSE Through(after[i - 1], withheld[i])
    IN  after[Len(withheld)]

(* The code units a text holds.                                            *)
Units(text) == ToSet(text)
=============================================================================
