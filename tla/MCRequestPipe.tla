--------------------------- MODULE MCRequestPipe ---------------------------
(***************************************************************************)
(* Lines shorter than the bound, exactly at it, one byte past it and past  *)
(* it by more than one piece, of every kind that matters.                  *)
(***************************************************************************)
EXTENDS RequestPipe

MCLines ==
  {[size |-> 2, kind |-> "request"], [size |-> 3, kind |-> "request"],
   [size |-> 5, kind |-> "request"], [size |-> 1, kind |-> "blank"],
   [size |-> 2, kind |-> "junk"]}
=============================================================================
