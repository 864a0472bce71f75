----------------------------- MODULE MCTextLaws -----------------------------
(***************************************************************************)
(* Small instances of TextLaws: letters a, b and c, two halves of each     *)
(* kind, and x and y for what the person types.                            *)
(***************************************************************************)
EXTENDS TextLaws

CONSTANTS a, b, c, x, y, highA, highB, lowA, lowB

(* Texts with characters made of two halves, which nobody edits.           *)
Pairs == [units |-> {a, highA, highB, lowA, lowB}, length |-> 5, edits |-> 0]

(* Texts of letters, which the person edits twice.                         *)
Letters == [units |-> {a, b, c}, length |-> 3, edits |-> 2]

BothScopes == {Pairs, Letters}
=============================================================================
