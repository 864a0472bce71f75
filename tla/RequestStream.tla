--------------------------- MODULE RequestStream ---------------------------
(***************************************************************************)
(* What the front-end may rely on when it writes lines to the companion:   *)
(* each line is judged once and in order, the ones the companion can       *)
(* answer are answered one at a time in that order, and the companion      *)
(* leaves once the input is closed and nothing is waiting.  Nothing here   *)
(* knows of chunks: the detailed reader is RequestPipe.                    *)
(***************************************************************************)
EXTENDS Naturals, Sequences

CONSTANTS
  Lines,        \* every line that may be written, whole or torn
  Answerable,   \* the lines a handler can answer
  Silent,       \* the lines nobody says anything about (blank ones)
  Overlong      \* the lines past what the companion keeps

VARIABLES
  inbox,     \* lines written and not judged yet
  torn,      \* the last line of `inbox` will never have its newline
  waiting,   \* requests judged and not answered yet
  answered,  \* requests answered, in order
  warned,    \* lines dropped with a warning, in order
  phase      \* "open", "closed" by the front-end, or "left"

vars == <<inbox, torn, waiting, answered, warned, phase>>

Init ==
  /\ inbox = <<>> /\ waiting = <<>> /\ answered = <<>> /\ warned = <<>>
  /\ torn = FALSE
  /\ phase = "open"

\* The front-end writes a line, or dies having written part of one.
Write ==
  /\ phase = "open"
  /\ \E line \in Lines : inbox' = Append(inbox, line)
  /\ torn' \in BOOLEAN
  /\ phase' = IF torn' THEN "closed" ELSE "open"
  /\ UNCHANGED <<waiting, answered, warned>>

Close ==
  /\ phase = "open"
  /\ phase' = "closed"
  /\ UNCHANGED <<inbox, torn, waiting, answered, warned>>

\* A line is judged once: answerable, worth a warning, or neither.
Judge ==
  /\ inbox # <<>>
  /\ torn /\ Len(inbox) = 1 => Head(inbox) \in Overlong
  /\ LET line == Head(inbox)
     IN  /\ waiting' = IF line \in Answerable \ Overlong
                       THEN Append(waiting, line) ELSE waiting
         /\ warned' = IF line \in Overlong \/ line \notin Answerable \cup Silent
                      THEN Append(warned, line) ELSE warned
  /\ inbox' = Tail(inbox)
  /\ UNCHANGED <<torn, answered, phase>>

\* What is left of a line whose newline never came is forgotten.
Forget ==
  /\ torn /\ Len(inbox) = 1
  /\ inbox' = <<>>
  /\ UNCHANGED <<torn, waiting, answered, warned, phase>>

Answer ==
  /\ waiting # <<>>
  /\ waiting' = Tail(waiting)
  /\ answered' = Append(answered, Head(waiting))
  /\ UNCHANGED <<inbox, torn, warned, phase>>

Leave ==
  /\ phase = "closed" /\ inbox = <<>> /\ waiting = <<>>
  /\ phase' = "left"
  /\ UNCHANGED <<inbox, torn, waiting, answered, warned>>

Next == Write \/ Close \/ Judge \/ Forget \/ Answer \/ Leave

Spec == Init /\ [][Next]_vars

\* The companion keeps judging, answering and, at the end, leaving.
Fairness == WF_vars(Judge \/ Forget) /\ WF_vars(Answer) /\ WF_vars(Leave)
=============================================================================
