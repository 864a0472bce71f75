----------------------------- MODULE MCDocSync -----------------------------
(***************************************************************************)
(* Small instances of DocSync for TLC.  The units are model values: b1 and *)
(* b2 are in the room at the start, the person types u1 and then u2, a     *)
(* peer types p1 and then p2.  Where a scenario has both sides type b1 and *)
(* b2 as well, what one side types can undo what the other did.  h1 and l1 *)
(* are the two halves of a character, which a peer's editor may tear.      *)
(***************************************************************************)
EXTENDS DocSync

CONSTANTS b1, b2, u1, u2, p1, p2, h1, l1

Nothing == [what \in Budgets |-> 0]

(* Each side types all of its units; `others` bounds everything else.      *)
Scenario(base, user, peer, others) ==
    [base |-> base, user |-> user, peer |-> peer, shareable |-> 9,
     granted |-> TRUE,
     limits |-> [others EXCEPT !.userUnits = Len(user), !.peerUnits = Len(peer)]]

Typing == Scenario(<<b1>>, <<u1, u2>>, <<p1, p2>>, Nothing)
Overlapping == Scenario(<<b1, b2>>, <<u1>>, <<p1>>,
                        [Nothing EXCEPT !.userEdits = 1, !.peerEdits = 1])
Undoing == Scenario(<<b1, b2>>, <<b1, b2>>, <<>>, [Nothing EXCEPT !.peerEdits = 1])
Reloading == Scenario(<<b1>>, <<u1>>, <<p1, p2>>, [Nothing EXCEPT !.reloads = 1])
Locking == Scenario(<<b1>>, <<u1, u2>>, <<p1, p2>>, [Nothing EXCEPT !.locks = 1])
Unlucky == Scenario(<<b1>>, <<u1>>, <<p1>>,
                    [Nothing EXCEPT !.reopens = 1, !.remirrors = 1,
                                    !.failedSaves = 1, !.refusedHolds = 1])
Oversized == [Scenario(<<b1>>, <<u1, u2>>, <<p1, p2>>, Nothing)
                EXCEPT !.shareable = 2]

Ungranted == [Scenario(<<b1>>, <<u1>>, <<p1>>, Nothing) EXCEPT !.granted = FALSE]
Halves == Scenario(<<b1>>, <<u1, u2>>, <<h1, l1>>, [Nothing EXCEPT !.peerEdits = 1])
Torn == Scenario(<<h1, l1>>, <<u1>>, <<p1>>,
                 [Nothing EXCEPT !.userEdits = 1, !.peerEdits = 2])

Reopening == Scenario(<<b1>>, <<u1>>, <<p1>>, [Nothing EXCEPT !.reopens = 1])

Editing == {Typing, Overlapping, Undoing, Reloading, Oversized, Ungranted, Halves}
Disturbed == {Locking, Unlucky, Torn}
ReopeningOnly == {Reopening}
LockingOnly == {Locking}
=============================================================================
