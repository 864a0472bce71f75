--------------------------- MODULE MCGrantPublish ---------------------------
(***************************************************************************)
(* Small instances of GrantPublish for TLC: two folders, each with a       *)
(* .gitignore and one other name.  A scenario says what the environment    *)
(* may do, and how often.                                                  *)
(***************************************************************************)
EXTENDS GrantPublish

CONSTANTS rootA, rootB, fileA, rules

Nothing == [what \in Budgets |-> 0]

Watching == [Nothing EXCEPT !.names = 2, !.sizes = 2]
Ruled == [Nothing EXCEPT !.names = 1, !.sizes = 1, !.replacements = 1, !.rosters = 1]
Failing == [Nothing EXCEPT !.sizes = 2, !.names = 1, !.failedWalks = 1,
                           !.failedGrants = 1, !.failedWatches = 1]
Refusing == [Nothing EXCEPT !.names = 2, !.failedGrants = 1, !.rosters = 1]
Leaving == [Nothing EXCEPT !.names = 2, !.leaves = 1]
Moving == [Nothing EXCEPT !.names = 1, !.sizes = 1, !.leaves = 1]
Rewriting == [Nothing EXCEPT !.rewrites = 1]
Early == [Nothing EXCEPT !.early = 1]

Hosting == {Watching, Ruled, Failing, Refusing, Leaving, Moving, Rewriting, Early}
=============================================================================
