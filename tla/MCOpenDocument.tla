--------------------------- MODULE MCOpenDocument ---------------------------
(* The path is shared up to three times, in up to two sessions; each       *)
(* scenario gives one of the waits everything that can happen around it.   *)
EXTENDS OpenDocument

Never == [what \in Budgets |-> 0]

(* A guest's document waits for its text: it is closed, opened again,      *)
(* typed in, and the session may end and another begin.                    *)
Arriving ==
    [roles |-> {"guest"},
     limits |-> [Never EXCEPT !.sessions = 2, !.opens = 2, !.edits = 2, !.endings = 1]]

(* The same with holds that are refused.                                   *)
Refusing ==
    [roles |-> {"guest"},
     limits |-> [Never EXCEPT !.sessions = 2, !.opens = 3, !.edits = 1,
                              !.refusals = 1]]

(* A host's file is written by the person and by the room, removed and put *)
(* there by others, while the buffer is closed and shared again.           *)
Writing ==
    [roles |-> {"host"},
     limits |-> [Never EXCEPT !.sessions = 1, !.opens = 2, !.saves = 2, !.moves = 3,
                              !.faults = 1]]

(* The room's write meets the end of its session.                          *)
WritingOn ==
    [roles |-> Roles,
     limits |-> [Never EXCEPT !.sessions = 2, !.opens = 2, !.saves = 1, !.moves = 1,
                              !.endings = 1]]

MCScenarios == {Arriving, Refusing, Writing, WritingOn}
=============================================================================
