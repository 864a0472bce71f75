------------------------- MODULE MCSessionLifecycle -------------------------
(***************************************************************************)
(* Small instances of SessionLifecycle for TLC: two folders and two or     *)
(* three companions.  A scenario says what the person and the world do,    *)
(* and how often.                                                          *)
(***************************************************************************)
EXTENDS SessionLifecycle

CONSTANTS rootA, rootB

Nothing == [what \in Budgets |-> 0]

Hosting == [Nothing EXCEPT !.hosts = 3, !.moves = 1, !.timeouts = 1]
Joining == [Nothing EXCEPT !.hosts = 1, !.joins = 2, !.ends = 1, !.failures = 1]
Breaking == [Nothing EXCEPT !.hosts = 1, !.joins = 2, !.crashes = 1, !.kills = 1]

LeavingToHost == [Nothing EXCEPT !.joins = 1, !.hosts = 1]

Sittings == {Hosting, Joining, Breaking}
LeavingToHostOnly == {LeavingToHost}
=============================================================================
