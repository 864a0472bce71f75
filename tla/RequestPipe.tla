---------------------------- MODULE RequestPipe ----------------------------
(***************************************************************************)
(* The companion's standard input, from the bytes on the pipe to the       *)
(* handlers: LineReader of companion/ipc.ts, and the reader, the request   *)
(* queue and the end of input of companion/main.ts.                        *)
(*                                                                         *)
(* A chunk of the pipe may end anywhere.  `push` treats it as the rest of  *)
(* some lines (`Finish`) and then a piece of the next (`Collect`), so the  *)
(* sequences of those two steps are all the ways of cutting the input up.  *)
(***************************************************************************)
EXTENDS Naturals, Sequences

CONSTANTS
  Lines,          \* the lines the front-end writes
  MaxLineBytes,   \* MAX_IPC_LINE_BYTES
  MaxWritten      \* bound: how many lines a behaviour writes

\* What a line is when it is read whole: something isRequest accepts, white
\* space, or anything else.
Kinds == {"request", "blank", "junk"}

Whole == [size : Nat, kind : Kinds]
Cuts == UNION {{[line EXCEPT !.size = cut] : cut \in 1..line.size} : line \in Lines}

ASSUME LinesAssumption == Lines \subseteq Whole
ASSUME BoundsAssumption == MaxLineBytes \in Nat /\ MaxWritten \in Nat

VARIABLES
  wire,         \* lines not read to their newline yet, the first partly read
  taken,        \* bytes of Head(wire) already read
  torn,         \* the last line of `wire` has no newline and never will
  written,      \* how many lines were written
  input,        \* "open", "closed" by the front-end, or "ended" for the reader
  pending,      \* LineReader.pending, joined
  pendingBytes, \* LineReader.pendingBytes
  dropping,     \* LineReader.dropping
  queue,        \* requests chained on `queue`; the first one may be running
  running,      \* a handler is running
  exited,       \* process.exit was called
  answered,     \* requests whose handler settled, in order
  warned        \* lines dropped with a warning, in order

reader == <<pending, pendingBytes, dropping>>
pipe == <<wire, taken, torn, written, input>>
handling == <<queue, running, exited, answered>>
vars == <<pipe, reader, handling, warned>>

Text(line) == [i \in 1..line.size |-> <<line, i>>]
Piece(from, to) == SubSeq(Text(Head(wire)), from, to)

Init ==
  /\ wire = <<>> /\ taken = 0 /\ torn = FALSE /\ written = 0 /\ input = "open"
  /\ pending = <<>> /\ pendingBytes = 0 /\ dropping = FALSE
  /\ queue = <<>> /\ running = FALSE /\ exited = FALSE
  /\ answered = <<>> /\ warned = <<>>
-----------------------------------------------------------------------------
(* The front-end writes whole lines, and may die in the middle of one.     *)
Write ==
  /\ input = "open" /\ written < MaxWritten
  /\ \E line \in Lines : wire' = Append(wire, line)
  /\ written' = written + 1
  /\ UNCHANGED <<taken, torn, input, reader, handling, warned>>

Dies ==
  /\ input = "open" /\ written < MaxWritten
  /\ \E line \in Lines : \E cut \in 1..line.size :
       wire' = Append(wire, [line EXCEPT !.size = cut])
  /\ torn' = TRUE
  /\ input' = "closed"
  /\ written' = written + 1
  /\ UNCHANGED <<taken, reader, handling, warned>>

Closes ==
  /\ input = "open"
  /\ input' = "closed"
  /\ UNCHANGED <<wire, taken, torn, written, reader, handling, warned>>
-----------------------------------------------------------------------------
\* A slip: a shed line at its bound keeps the pieces it has.
KeepCounted(piece) ==
  IF dropping THEN UNCHANGED <<reader, warned>>
  ELSE /\ pending' = pending \o piece /\ pendingBytes' = pendingBytes + Len(piece)
       /\ dropping' = (pendingBytes + Len(piece) > MaxLineBytes)
       /\ warned' = IF dropping' THEN Append(warned, Head(wire)) ELSE warned

(* A piece of the line being collected: kept, or past the bound shed.      *)
Keep(piece) ==
  IF dropping THEN UNCHANGED <<reader, warned>>
  ELSE IF pendingBytes + Len(piece) > MaxLineBytes
  THEN /\ pending' = <<>> /\ pendingBytes' = 0 /\ dropping' = TRUE
       /\ warned' = Append(warned, Head(wire))
  ELSE /\ pending' = pending \o piece /\ pendingBytes' = pendingBytes + Len(piece)
       /\ UNCHANGED <<dropping, warned>>

Collect ==
  /\ wire # <<>>
  /\ \E to \in taken + 1 .. Head(wire).size :
       /\ Keep(Piece(taken + 1, to))
       /\ taken' = to
  /\ UNCHANGED <<wire, torn, written, input, handling>>

\* A line whose newline has arrived, as JSON.parse and isRequest take it.  A
\* text that is not the whole line, or more than it, is not JSON.
Takes(text, line) ==
  LET kind == IF text = Text(line) THEN line.kind ELSE "junk"
  IN  /\ queue' = IF kind = "request" THEN Append(queue, line) ELSE queue
      /\ warned' = IF kind = "junk" THEN Append(warned, line) ELSE warned

\* A slip: the end of a shed line is taken for a line of its own.
EndsWithTail(line, piece) ==
  /\ dropping' = FALSE /\ pending' = <<>> /\ pendingBytes' = 0
  /\ IF pendingBytes + Len(piece) > MaxLineBytes
     THEN warned' = Append(warned, line) /\ UNCHANGED queue
     ELSE Takes(pending \o piece, line)

\* The last piece of a line.  A shed line ends here, and nothing is said of
\* it again; one that is past the bound only now goes the same way.
Ends(line, piece) ==
  /\ dropping' = FALSE
  /\ IF dropping THEN UNCHANGED <<pending, pendingBytes, queue, warned>>
     ELSE /\ pending' = <<>> /\ pendingBytes' = 0
          /\ IF pendingBytes + Len(piece) > MaxLineBytes
             THEN warned' = Append(warned, line) /\ UNCHANGED queue
             ELSE Takes(pending \o piece, line)

Finish ==
  /\ wire # <<>>
  /\ ~(torn /\ Len(wire) = 1)
  /\ Ends(Head(wire), Piece(taken + 1, Head(wire).size))
  /\ wire' = Tail(wire)
  /\ taken' = 0
  /\ UNCHANGED <<torn, written, input, running, exited, answered>>
-----------------------------------------------------------------------------
(* One handler at a time; a handler that throws is caught and the queue    *)
(* goes on.                                                                *)
\* A slip: only a request that arrives at an idle queue starts a handler.
StartsOnArrival ==
  /\ ~running /\ Len(queue) = 1
  /\ running' = TRUE
  /\ UNCHANGED <<pipe, reader, queue, exited, answered, warned>>

Starts ==
  /\ ~running /\ queue # <<>>
  /\ running' = TRUE
  /\ UNCHANGED <<pipe, reader, queue, exited, answered, warned>>

Settles ==
  /\ running
  /\ running' = FALSE
  /\ queue' = Tail(queue)
  /\ answered' = Append(answered, Head(queue))
  /\ UNCHANGED <<pipe, reader, exited, warned>>

\* The `end` event, after everything that was written has been read.  What is
\* left of a torn line goes with it.
InputEnds ==
  /\ input = "closed"
  /\ wire = <<>> \/ (torn /\ Len(wire) = 1 /\ taken = Head(wire).size)
  /\ input' = "ended"
  /\ wire' = <<>>
  /\ UNCHANGED <<taken, torn, written, reader, handling, warned>>

\* `leave` is chained behind every request, and the exit behind `leave`.
Exits ==
  /\ input = "ended" /\ queue = <<>> /\ ~exited
  /\ exited' = TRUE
  /\ UNCHANGED <<pipe, reader, queue, running, answered, warned>>

Reads == Collect \/ Finish \/ InputEnds
Next == Write \/ Dies \/ Closes \/ Reads \/ Starts \/ Settles \/ Exits

Spec == Init /\ [][Next]_vars

\* Node's event loop delivers what is on the pipe, and a handler settles
\* (SessionLifecycle.RequestsAreTaken); nothing makes the person type.
FairSpec == Spec /\ WF_vars(Reads) /\ WF_vars(Starts) /\ WF_vars(Settles) /\ WF_vars(Exits)
-----------------------------------------------------------------------------
Started == wire # <<>> /\ taken > 0

\* What the reader's fields say of the line it is reading: it is shed only
\* past the bound, and otherwise the kept text is exactly what was read of it,
\* counted, and within the bound.
KeptIsRead ==
  /\ wire = <<>> => taken = 0
  /\ dropping => Started /\ taken > MaxLineBytes /\ pending = <<>> /\ pendingBytes = 0
  /\ ~dropping => /\ pendingBytes = taken
                  /\ taken <= MaxLineBytes
                  /\ pending = IF Started THEN Piece(1, taken) ELSE <<>>

\* Types, and KeptIsRead while there is input (ipc.ts:180-250).
TypeOK ==
  /\ wire \in Seq(Whole) /\ taken \in Nat /\ torn \in BOOLEAN /\ written \in Nat
  /\ wire # <<>> => taken <= Head(wire).size
  /\ input \in {"open", "closed", "ended"}
  /\ dropping \in BOOLEAN /\ running \in BOOLEAN /\ exited \in BOOLEAN
  /\ queue \in Seq(Whole)
  /\ torn => input # "open"
  /\ IF input = "ended" THEN wire = <<>> ELSE KeptIsRead
  /\ running => queue # <<>>
  /\ exited => input = "ended" /\ queue = <<>>

(***************************************************************************)
(* Refinement: a line is judged when it is read to its newline, or before  *)
(* when it is shed, and then what is left of it is not the stream's.       *)
(***************************************************************************)
Unjudged == IF dropping /\ input # "ended" THEN Tail(wire) ELSE wire
Phase == IF exited THEN "left" ELSE IF input = "open" THEN "open" ELSE "closed"

Stream == INSTANCE RequestStream WITH
  Lines <- Lines \cup Cuts,
  Answerable <- {l \in Whole : l.kind = "request"},
  Silent <- {l \in Whole : l.kind = "blank"},
  Overlong <- {l \in Whole : l.size > MaxLineBytes},
  inbox <- Unjudged, waiting <- queue, phase <- Phase

\* However the pipe is cut up, the companion does with the lines written to
\* it what RequestStream says: each is judged once, in order, as a whole, a
\* line past the bound is dropped once, requests are answered one at a time
\* and the process leaves only when all of them were (ipc.ts:206-250,
\* main.ts:99-147).
ReadsAsLines == Stream!Spec

\* And it keeps doing so: nothing written stays unread, no request unanswered,
\* and a closed input ends the process.
KeepsReading == Stream!Fairness
=============================================================================
