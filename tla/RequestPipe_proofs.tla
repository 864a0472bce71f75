------------------------- MODULE RequestPipe_proofs -------------------------
(***************************************************************************)
(* TypeOK of RequestPipe is inductive, and with it every step of the       *)
(* reader and the queue is a step of RequestStream or none, for every set  *)
(* of lines and every bound.                                               *)
(***************************************************************************)
EXTENDS RequestPipe, SequenceTheorems, TLAPS

LEMMA WholeHasSize ==
  ASSUME NEW line \in Whole
  PROVE  line.size \in Nat /\ line.kind \in Kinds
BY DEF Whole

\* A line's text has as many units as the line has bytes.
LEMMA TextLength ==
  ASSUME NEW line \in Whole
  PROVE  /\ Text(line) \in Seq({<<line, i>> : i \in 1..line.size})
         /\ Len(Text(line)) = line.size
BY DEF Text, Whole

\* Two pieces that meet are one piece, and a piece from the first byte to the
\* last is the text.
LEMMA PiecesJoin ==
  ASSUME NEW line \in Whole, NEW k \in Nat, NEW to \in k..line.size
  PROVE  /\ SubSeq(Text(line), 1, k) \o SubSeq(Text(line), k + 1, to) = SubSeq(Text(line), 1, to)
         /\ Len(SubSeq(Text(line), k + 1, to)) = to - k
         /\ SubSeq(Text(line), 1, line.size) = Text(line)
<1> DEFINE S == {<<line, i>> : i \in 1..line.size}
           t == Text(line)
<1>0. line.size \in Nat BY WholeHasSize
<1>1. t \in Seq(S) /\ Len(t) = line.size BY TextLength
<1> HIDE DEF t, S
<1>2. SubSeq(t, 1, k) \o SubSeq(t, k + 1, to) = SubSeq(t, 1, to)
  BY <1>0, <1>1
<1>3. Len(SubSeq(t, k + 1, to)) = to - k
  BY <1>0, <1>1
<1>4. SubSeq(t, 1, line.size) = t
  BY <1>0, <1>1
<1> QED BY <1>2, <1>3, <1>4 DEF t

\* Every line the front-end writes, whole or torn, has a size and a kind.
LEMMA CutsAreLines == Lines \cup Cuts \subseteq Whole
<1>1. ASSUME NEW line \in Lines, NEW cut \in 1..line.size
      PROVE  [line EXCEPT !.size = cut] \in Whole
  <2>1. line \in Whole BY LinesAssumption
  <2> QED BY <2>1 DEF Whole
<1> QED BY <1>1, LinesAssumption DEF Cuts

\* TypeOK in two halves: the shapes, and what holds between the fields.
Shapes ==
  /\ wire \in Seq(Whole) /\ taken \in Nat /\ torn \in BOOLEAN /\ written \in Nat
  /\ wire # <<>> => taken <= Head(wire).size
  /\ input \in {"open", "closed", "ended"}
  /\ dropping \in BOOLEAN /\ running \in BOOLEAN /\ exited \in BOOLEAN
  /\ queue \in Seq(Whole)
Relations ==
  /\ torn => input # "open"
  /\ IF input = "ended" THEN wire = <<>> ELSE KeptIsRead
  /\ running => queue # <<>>
  /\ exited => input = "ended" /\ queue = <<>>

LEMMA TwoHalves == TypeOK <=> Shapes /\ Relations
BY DEF TypeOK, Shapes, Relations

\* The line being read, and what the reader holds of it.
LEMMA Reading ==
  ASSUME TypeOK, wire # <<>>
  PROVE  /\ input # "ended" /\ KeptIsRead
         /\ Head(wire) \in Whole /\ Head(wire).size \in Nat
         /\ taken \in Nat /\ taken <= Head(wire).size
         /\ ~dropping => pendingBytes = taken /\ pending = Piece(1, taken)
<1>1. wire \in Seq(Whole) /\ taken \in Nat /\ taken <= Head(wire).size
  BY DEF TypeOK
<1>2. Head(wire) \in Whole /\ Head(wire).size \in Nat
  BY <1>1, HeadTailProperties, WholeHasSize
<1>3. input # "ended" /\ KeptIsRead
  BY DEF TypeOK
<1>4. Piece(1, 0) = <<>>
  BY <1>2, TextLength DEF Piece
<1>5. ~dropping => pendingBytes = taken /\ pending = Piece(1, taken)
  BY <1>1, <1>3, <1>4 DEF KeptIsRead, Started
<1> QED BY <1>1, <1>2, <1>3, <1>5

\* The pieces Collect and Finish take continue what is kept.
LEMMA NextPiece ==
  ASSUME TypeOK, wire # <<>>, NEW to \in taken..Head(wire).size
  PROVE  /\ Piece(1, taken) \o Piece(taken + 1, to) = Piece(1, to)
         /\ Len(Piece(taken + 1, to)) = to - taken
         /\ Piece(1, Head(wire).size) = Text(Head(wire))
BY Reading, PiecesJoin DEF Piece

LEMMA CollectKeepsType ==
  ASSUME TypeOK, Collect
  PROVE  TypeOK'
<1>1. PICK to \in taken + 1 .. Head(wire).size : Keep(Piece(taken + 1, to)) /\ taken' = to
  BY DEF Collect
<1>2. wire # <<>> /\ UNCHANGED <<wire, torn, written, input, handling>>
  BY DEF Collect
<1>3. to \in Nat /\ to > taken /\ to <= Head(wire).size /\ to \in taken..Head(wire).size
  BY <1>1, <1>2, Reading
<1>4. \/ /\ dropping /\ UNCHANGED reader
      \/ /\ ~dropping /\ to > MaxLineBytes /\ dropping' = TRUE
         /\ pending' = <<>> /\ pendingBytes' = 0
      \/ /\ ~dropping /\ to <= MaxLineBytes /\ dropping' = FALSE
         /\ pending' = Piece(1, to) /\ pendingBytes' = to
  <2>1. CASE dropping
    BY <1>1, <2>1 DEF Keep
  <2>2. CASE ~dropping
    <3>1. /\ pendingBytes + Len(Piece(taken + 1, to)) = to
          /\ pending \o Piece(taken + 1, to) = Piece(1, to)
      BY <1>2, <1>3, <2>2, Reading, NextPiece
    <3>2. CASE to > MaxLineBytes
      BY <1>1, <2>2, <3>1, <3>2 DEF Keep
    <3>3. CASE ~(to > MaxLineBytes)
      <4>1. pending' = Piece(1, to) /\ pendingBytes' = to /\ dropping' = dropping
        BY <1>1, <2>2, <3>1, <3>3 DEF Keep
      <4>2. dropping' = FALSE
        BY <4>1, <2>2 DEF TypeOK
      <4> QED BY <1>3, <2>2, <3>3, <4>1, <4>2, BoundsAssumption
    <3> QED BY <3>2, <3>3
  <2> QED BY <2>1, <2>2
<1>5. Shapes'
  <2>1. dropping' \in BOOLEAN
    BY <1>4 DEF TypeOK, reader
  <2> QED BY <1>1, <1>2, <1>3, <2>1 DEF TypeOK, Shapes, handling
<1>6. KeptIsRead'
  <2>0. taken \in Nat BY <1>2, Reading
  <2>1. Started' /\ taken' = to /\ (wire' = <<>> => taken' = 0)
    BY <1>1, <1>2, <1>3, <2>0 DEF Started
  <2>2. Piece(1, taken)' = Piece(1, to)
    BY <1>1, <1>2 DEF Piece
  <2>3. CASE dropping /\ UNCHANGED reader
    <3>1. taken > MaxLineBytes BY <1>2, <2>3, Reading DEF KeptIsRead
    <3>2. to > MaxLineBytes BY <1>2, <1>3, <3>1, Reading, BoundsAssumption
    <3>3. dropping' /\ pending' = <<>> /\ pendingBytes' = 0
      BY <1>2, <2>3, Reading DEF reader, KeptIsRead
    <3> QED BY <2>1, <3>2, <3>3 DEF KeptIsRead
  <2>4. CASE /\ ~dropping /\ to > MaxLineBytes /\ dropping' = TRUE
             /\ pending' = <<>> /\ pendingBytes' = 0
    BY <2>1, <2>4 DEF KeptIsRead
  <2>5. CASE /\ ~dropping /\ to <= MaxLineBytes /\ dropping' = FALSE
             /\ pending' = Piece(1, to) /\ pendingBytes' = to
    BY <2>1, <2>2, <2>5 DEF KeptIsRead
  <2> QED BY <1>4, <2>3, <2>4, <2>5
<1>7. Relations'
  BY <1>2, <1>6, Reading DEF TypeOK, Relations, handling
<1> QED BY <1>5, <1>7 DEF TypeOK, Shapes, Relations

\* What the last piece of a line that is not being shed is joined to: the
\* whole line's text, and its size.
LEMMA WholeLineJoined ==
  ASSUME TypeOK, wire # <<>>, ~dropping
  PROVE  /\ pendingBytes + Len(Piece(taken + 1, Head(wire).size)) = Head(wire).size
         /\ pending \o Piece(taken + 1, Head(wire).size) = Text(Head(wire))
<1>1. Head(wire).size \in taken..Head(wire).size /\ taken \in Nat /\ Head(wire).size \in Nat
  BY Reading
<1>2. pendingBytes = taken /\ pending = Piece(1, taken)
  BY Reading
<1>3. PICK n \in taken..Head(wire).size : n = Head(wire).size
  BY <1>1
<1>4. /\ Piece(1, taken) \o Piece(taken + 1, n) = Piece(1, n)
      /\ Len(Piece(taken + 1, n)) = n - taken
      /\ Piece(1, n) = Text(Head(wire))
  BY <1>3, NextPiece
<1>5. taken + (n - taken) = n /\ n \in Nat
  BY <1>1, <1>3
<1> QED BY <1>2, <1>3, <1>4, <1>5

\* What Finish does with the line, whatever was kept: it is dropped with a
\* word, dropped in silence, or queued.
LEMMA FinishJudges ==
  ASSUME TypeOK, Finish
  PROVE  LET line == Head(wire)
         IN  \/ /\ dropping /\ UNCHANGED <<queue, warned>>
             \/ /\ ~dropping
                /\ queue' = IF line.size <= MaxLineBytes /\ line.kind = "request"
                            THEN Append(queue, line) ELSE queue
                /\ warned' = IF line.size > MaxLineBytes \/ line.kind = "junk"
                             THEN Append(warned, line) ELSE warned
<1> DEFINE line == Head(wire)
           piece == Piece(taken + 1, line.size)
<1>1. wire # <<>> /\ Ends(line, piece)
  BY DEF Finish
<1>2. line \in Whole /\ line.size \in Nat /\ line.kind \in Kinds
  BY <1>1, Reading, WholeHasSize
<1>3. CASE dropping
  BY <1>1, <1>3 DEF Ends
<1>4. CASE ~dropping
  <2>1. pendingBytes + Len(piece) = line.size /\ pending \o piece = Text(line)
    BY <1>1, <1>4, WholeLineJoined
  <2> HIDE DEF piece
  <2>2. CASE line.size > MaxLineBytes
    BY <1>1, <1>2, <1>4, <2>1, <2>2, BoundsAssumption DEF Ends
  <2>3. CASE ~(line.size > MaxLineBytes)
    <3>1. Takes(pending \o piece, line)
      BY <1>1, <1>4, <2>1, <2>3 DEF Ends
    <3>2. /\ queue' = IF line.kind = "request" THEN Append(queue, line) ELSE queue
          /\ warned' = IF line.kind = "junk" THEN Append(warned, line) ELSE warned
      BY <2>1, <3>1 DEF Takes
    <3>3. line.size <= MaxLineBytes
      BY <1>2, <2>3, BoundsAssumption
    <3> QED BY <1>4, <2>3, <3>2, <3>3
  <2> QED BY <2>2, <2>3
<1> QED BY <1>3, <1>4

LEMMA FinishKeepsType ==
  ASSUME TypeOK, Finish
  PROVE  TypeOK'
<1>1. /\ wire # <<>> /\ wire' = Tail(wire) /\ taken' = 0
      /\ UNCHANGED <<torn, written, input, running, exited, answered>>
  BY DEF Finish
<1>2. dropping' = FALSE /\ pending' = <<>> /\ pendingBytes' = 0
  <2>1. wire # <<>> /\ KeptIsRead /\ Ends(Head(wire), Piece(taken + 1, Head(wire).size))
    BY Reading DEF Finish
  <2>2. CASE ~dropping BY <2>1, <2>2 DEF Ends
  <2>3. CASE dropping BY <2>1, <2>3 DEF Ends, KeptIsRead
  <2> QED BY <2>2, <2>3
<1>3. queue' \in Seq(Whole) /\ (queue # <<>> => queue' # <<>>)
  <2>1. queue \in Seq(Whole) /\ Head(wire) \in Whole
    BY <1>1, Reading DEF TypeOK
  <2>2. queue' = queue \/ queue' = Append(queue, Head(wire))
    BY FinishJudges
  <2> QED BY <2>1, <2>2, AppendProperties
<1>4. wire' \in Seq(Whole) /\ (wire' # <<>> => taken' <= Head(wire').size)
  <2>1. wire \in Seq(Whole) BY DEF TypeOK
  <2>2. wire' \in Seq(Whole) BY <1>1, <2>1, HeadTailProperties
  <2>3. wire' # <<>> => Head(wire').size \in Nat
    BY <2>2, HeadTailProperties, WholeHasSize
  <2> QED BY <1>1, <2>2, <2>3
<1>5. Shapes'
  BY <1>1, <1>2, <1>3, <1>4 DEF TypeOK, Shapes
<1>6. KeptIsRead'
  BY <1>1, <1>2, BoundsAssumption DEF KeptIsRead, Started
<1>7. input # "ended" BY <1>1, Reading
<1>8. Relations'
  BY <1>1, <1>3, <1>6, <1>7 DEF TypeOK, Relations
<1> QED BY <1>5, <1>8 DEF TypeOK, Shapes, Relations

\* Writing puts a line behind what is there and touches nothing read so far.
LEMMA WritingKeepsType ==
  ASSUME TypeOK, input = "open", NEW line \in Whole, wire' = Append(wire, line),
         taken' = taken, UNCHANGED <<reader, handling>>, written' \in Nat,
         torn' \in BOOLEAN, input' \in {"open", "closed"}, torn' => input' # "open"
  PROVE  TypeOK'
<1>0. wire \in Seq(Whole) /\ KeptIsRead
  BY DEF TypeOK
<1>1. wire' \in Seq(Whole) /\ wire' # <<>> /\ Head(wire') \in Whole
  BY <1>0, AppendProperties, HeadTailProperties
<1>2. wire # <<>> => Head(wire') = Head(wire)
  BY <1>0, AppendProperties
<1>3. wire = <<>> => taken = 0
  BY <1>0 DEF KeptIsRead
<1>4. wire # <<>> => Piece(1, taken)' = Piece(1, taken)
  BY <1>2 DEF Piece
<1>5. taken \in Nat /\ taken <= Head(wire').size
  <2>1. taken \in Nat /\ Head(wire').size \in Nat BY <1>1, WholeHasSize DEF TypeOK
  <2>2. wire # <<>> => taken <= Head(wire).size BY DEF TypeOK
  <2> QED BY <1>2, <1>3, <2>1, <2>2
<1>6. Shapes'
  BY <1>1, <1>5 DEF TypeOK, Shapes, reader, handling
<1>7. Started' <=> Started
  BY <1>1, <1>3 DEF Started
<1>8. KeptIsRead'
  BY <1>0, <1>1, <1>4, <1>7 DEF KeptIsRead, Started, reader
<1>9. Relations'
  BY <1>8 DEF TypeOK, Relations, handling
<1> QED BY <1>6, <1>9 DEF TypeOK, Shapes, Relations

\* A step that leaves the pipe and the reader alone.
Handled ==
  /\ queue \in Seq(Whole) /\ running \in BOOLEAN /\ exited \in BOOLEAN
  /\ running => queue # <<>>
  /\ exited => input = "ended" /\ queue = <<>>
ReaderRests == UNCHANGED <<wire, taken, torn, written, reader>>

LEMMA HandlingKeepsType ==
  ASSUME TypeOK, ReaderRests, Handled',
         input' = input \/ (input = "open" /\ input' = "closed")
  PROVE  TypeOK'
<1>1. Shapes' BY DEF TypeOK, Shapes, Handled, ReaderRests, reader
<1>2. KeptIsRead => KeptIsRead'
  BY DEF KeptIsRead, Started, Piece, ReaderRests, reader
<1>3. Relations' BY <1>2 DEF TypeOK, Relations, Handled, ReaderRests
<1> QED BY <1>1, <1>3 DEF TypeOK, Shapes, Relations

LEMMA StepKeepsType ==
  ASSUME TypeOK, [Next]_vars
  PROVE  TypeOK'
<1>0. Handled BY DEF TypeOK, Handled
<1>1. CASE Write
  BY <1>1, WritingKeepsType, CutsAreLines DEF Write, TypeOK, handling
<1>2. CASE Dies
  <2>1. PICK line \in Lines : \E cut \in 1..line.size :
          wire' = Append(wire, [line EXCEPT !.size = cut])
    BY <1>2 DEF Dies
  <2>2. PICK cut \in 1..line.size : wire' = Append(wire, [line EXCEPT !.size = cut])
    BY <2>1
  <2>3. [line EXCEPT !.size = cut] \in Whole BY CutsAreLines DEF Cuts
  <2>4. /\ input = "open" /\ taken' = taken /\ UNCHANGED <<reader, handling>>
        /\ written' \in Nat /\ torn' = TRUE /\ input' = "closed"
    BY <1>2 DEF Dies, TypeOK
  <2> QED BY <2>2, <2>3, <2>4, WritingKeepsType
<1>3. CASE Closes
  <2>1. ReaderRests /\ input = "open" /\ input' = "closed"
    BY <1>3 DEF Closes, ReaderRests
  <2>2. Handled' BY <1>0, <1>3 DEF Closes, Handled, handling
  <2> QED BY <2>1, <2>2, HandlingKeepsType
<1>4. CASE Collect BY <1>4, CollectKeepsType
<1>5. CASE Finish BY <1>5, FinishKeepsType
<1>6. CASE InputEnds
  <2>1. Shapes'
    BY <1>6, EmptySeq DEF InputEnds, TypeOK, Shapes, reader, handling
  <2>2. Relations'
    BY <1>6 DEF InputEnds, TypeOK, Relations, handling
  <2> QED BY <2>1, <2>2 DEF TypeOK, Shapes, Relations
<1>7. CASE Starts
  <2>1. ReaderRests /\ input' = input BY <1>7 DEF Starts, ReaderRests, pipe
  <2>2. Handled' BY <1>0, <1>7 DEF Starts, Handled, pipe
  <2> QED BY <2>1, <2>2, HandlingKeepsType
<1>8. CASE Settles
  <2>1. ReaderRests /\ input' = input BY <1>8 DEF Settles, ReaderRests, pipe
  <2>2. queue' \in Seq(Whole) /\ ~exited
    BY <1>0, <1>8, HeadTailProperties DEF Settles, Handled
  <2>3. Handled' BY <1>0, <1>8, <2>2 DEF Settles, Handled
  <2> QED BY <2>1, <2>3, HandlingKeepsType
<1>9. CASE Exits
  <2>1. ReaderRests /\ input' = input BY <1>9 DEF Exits, ReaderRests, pipe
  <2>2. Handled' BY <1>0, <1>9 DEF Exits, Handled, pipe
  <2> QED BY <2>1, <2>2, HandlingKeepsType
<1>10. CASE UNCHANGED vars
  <2>1. ReaderRests /\ input' = input BY <1>10 DEF vars, ReaderRests, pipe
  <2>2. Handled' BY <1>0, <1>10 DEF vars, Handled, pipe, handling
  <2> QED BY <2>1, <2>2, HandlingKeepsType
<1> QED
  BY <1>1, <1>2, <1>3, <1>4, <1>5, <1>6, <1>7, <1>8, <1>9, <1>10 DEF Next, Reads

\* The reader's invariant: what is kept of a line is what was read of it,
\* counted and within the bound, wherever the pipe is cut (ipc.ts:206-250).
THEOREM TypeCorrect == Spec => []TypeOK
<1>1. Init => TypeOK
  <2> SUFFICES ASSUME Init PROVE TypeOK
    OBVIOUS
  <2>1. <<>> \in Seq(Whole) BY EmptySeq
  <2>2. KeptIsRead BY BoundsAssumption DEF Init, KeptIsRead, Started
  <2> QED BY <2>1, <2>2 DEF Init, TypeOK
<1>2. TypeOK /\ [Next]_vars => TypeOK'
  BY StepKeepsType
<1> QED BY <1>1, <1>2, PTL DEF Spec
-----------------------------------------------------------------------------
\* The stream's variables when a step touches neither the queue's results nor
\* the phase.
LEMMA StreamRests ==
  ASSUME Unjudged' = Unjudged, Phase' = Phase,
         UNCHANGED <<torn, queue, answered, warned>>
  PROVE  UNCHANGED Stream!vars
BY DEF Stream!vars

\* The line being read is judged: what Finish and a shedding Collect do.
LEMMA Judged ==
  ASSUME TypeOK, wire # <<>>, ~dropping, Unjudged' = Tail(wire), Phase' = Phase,
         UNCHANGED <<torn, answered>>,
         torn /\ Len(wire) = 1 => Head(wire).size > MaxLineBytes,
         queue' = IF Head(wire).size <= MaxLineBytes /\ Head(wire).kind = "request"
                  THEN Append(queue, Head(wire)) ELSE queue,
         warned' = IF Head(wire).size > MaxLineBytes \/ Head(wire).kind = "junk"
                   THEN Append(warned, Head(wire)) ELSE warned
  PROVE  Stream!Judge
<1> DEFINE line == Head(wire)
           Requests == {l \in Whole : l.kind = "request"}
           Blanks == {l \in Whole : l.kind = "blank"}
           Long == {l \in Whole : l.size > MaxLineBytes}
<1>1. line \in Whole /\ line.size \in Nat /\ line.kind \in Kinds
  BY Reading, WholeHasSize
<1>2. Unjudged = wire BY DEF Unjudged
<1>3. line \in Long <=> line.size > MaxLineBytes BY <1>1
<1>4. line \in Requests \ Long <=> line.size <= MaxLineBytes /\ line.kind = "request"
  BY <1>1, BoundsAssumption
<1>5. line \notin Requests \cup Blanks <=> line.kind = "junk"
  BY <1>1 DEF Kinds
<1> QED BY <1>2, <1>3, <1>4, <1>5 DEF Stream!Judge

LEMMA CollectIsStream ==
  ASSUME TypeOK, Collect
  PROVE  [Stream!Next]_(Stream!vars)
<1>1. PICK to \in taken + 1 .. Head(wire).size : Keep(Piece(taken + 1, to)) /\ taken' = to
  BY DEF Collect
<1>2. wire # <<>> /\ UNCHANGED <<wire, torn, written, input, handling>>
  BY DEF Collect
<1>3. Phase' = Phase /\ UNCHANGED <<queue, torn, answered>> /\ wire' = wire /\ input' = input
  BY <1>2 DEF Phase, handling
<1>4. input # "ended" BY <1>2, Reading
<1>5. CASE dropping
  <2>1. dropping' = dropping /\ warned' = warned BY <1>1, <1>5 DEF Keep, reader
  <2>2. Unjudged' = Unjudged BY <1>3, <2>1 DEF Unjudged
  <2> QED BY <1>3, <2>1, <2>2, StreamRests
<1>6. CASE ~dropping
  <2>1. to \in Nat /\ to <= Head(wire).size /\ to \in taken..Head(wire).size
    BY <1>1, <1>2, Reading
  <2>2. pendingBytes + Len(Piece(taken + 1, to)) = to
    BY <1>2, <1>6, <2>1, Reading, NextPiece
  <2>3. CASE to > MaxLineBytes
    <3>1. dropping' = TRUE /\ warned' = Append(warned, Head(wire))
      BY <1>1, <1>6, <2>2, <2>3 DEF Keep
    <3>2. Unjudged' = Tail(wire) BY <1>3, <1>4, <3>1 DEF Unjudged
    <3>3. Head(wire).size \in Nat /\ Head(wire).size > MaxLineBytes
          /\ ~(Head(wire).size <= MaxLineBytes)
      BY <1>2, <2>1, <2>3, Reading, BoundsAssumption
    <3>4. Stream!Judge BY <1>2, <1>3, <1>6, <3>1, <3>2, <3>3, Judged
    <3> QED BY <3>4 DEF Stream!Next
  <2>4. CASE ~(to > MaxLineBytes)
    <3>1. dropping' = dropping /\ warned' = warned
      BY <1>1, <1>6, <2>2, <2>4 DEF Keep
    <3>2. Unjudged' = Unjudged BY <1>3, <3>1 DEF Unjudged
    <3> QED BY <1>3, <3>1, <3>2, StreamRests
  <2> QED BY <2>3, <2>4
<1> QED BY <1>5, <1>6

LEMMA FinishIsStream ==
  ASSUME TypeOK, Finish
  PROVE  [Stream!Next]_(Stream!vars)
<1>1. /\ wire # <<>> /\ ~(torn /\ Len(wire) = 1) /\ wire' = Tail(wire)
      /\ UNCHANGED <<torn, input, exited, answered>>
  BY DEF Finish
<1>2. dropping' = FALSE BY DEF Finish, Ends
<1>3. Unjudged' = Tail(wire) /\ Phase' = Phase
  BY <1>1, <1>2 DEF Unjudged, Phase
<1>4. CASE dropping
  <2>1. Unjudged = Tail(wire) BY <1>1, <1>4, Reading DEF Unjudged
  <2>2. UNCHANGED <<queue, warned>> BY <1>4, FinishJudges
  <2> QED BY <1>1, <1>3, <2>1, <2>2, StreamRests
<1>5. CASE ~dropping
  <2>1. Stream!Judge BY <1>1, <1>3, <1>5, FinishJudges, Judged
  <2> QED BY <2>1 DEF Stream!Next
<1> QED BY <1>4, <1>5

LEMMA WritingIsStream ==
  ASSUME TypeOK, input = "open", NEW line \in Lines \cup Cuts, wire' = Append(wire, line),
         dropping' = dropping, torn' \in BOOLEAN, exited' = exited,
         input' = IF torn' THEN "closed" ELSE "open",
         UNCHANGED <<queue, answered, warned>>
  PROVE  Stream!Write
<1>1. wire \in Seq(Whole) /\ line \in Whole /\ (dropping => wire # <<>>)
  BY CutsAreLines DEF TypeOK, KeptIsRead, Started
<1>2. ~exited BY DEF TypeOK
<1>3. Phase = "open" /\ Phase' = IF torn' THEN "closed" ELSE "open"
  BY <1>2 DEF Phase
<1>4. Unjudged' = Append(Unjudged, line)
  <2>1. CASE dropping
    <3>1. Unjudged = Tail(wire) /\ Unjudged' = Tail(Append(wire, line))
      BY <2>1 DEF Unjudged
    <3>2. Tail(Append(wire, line)) = Append(Tail(wire), line)
      BY <1>1, <2>1
    <3> QED BY <3>1, <3>2
  <2>2. CASE ~dropping
    BY <2>2 DEF Unjudged
  <2> QED BY <2>1, <2>2
<1> QED BY <1>3, <1>4 DEF Stream!Write

LEMMA EndIsStream ==
  ASSUME TypeOK, InputEnds
  PROVE  [Stream!Next]_(Stream!vars)
<1>1. /\ input = "closed" /\ input' = "ended" /\ wire' = <<>>
      /\ UNCHANGED <<torn, queue, exited, answered, warned>>
  BY DEF InputEnds, handling
<1>2. Phase' = Phase /\ Unjudged' = <<>>
  BY <1>1 DEF Phase, Unjudged
<1>3. wire \in Seq(Whole) /\ (dropping => wire # <<>>)
  BY <1>1 DEF TypeOK, KeptIsRead, Started
<1>4. CASE Unjudged = <<>>
  BY <1>1, <1>2, <1>4, StreamRests
<1>5. CASE Unjudged # <<>>
  <2>1. torn /\ Len(wire) = 1
    BY <1>3, <1>5 DEF InputEnds, Unjudged
  <2>2. Tail(wire) = <<>>
    <3>1. wire # <<>> BY <2>1, EmptySeq
    <3>2. Tail(wire) \in Seq(Whole) /\ Len(Tail(wire)) = 0
      BY <1>3, <2>1, <3>1, HeadTailProperties
    <3> QED BY <3>2, EmptySeq
  <2>3. Unjudged = wire BY <1>5, <2>2 DEF Unjudged
  <2>4. Stream!Forget BY <1>1, <1>2, <2>1, <2>3 DEF Stream!Forget
  <2> QED BY <2>4 DEF Stream!Next
<1> QED BY <1>4, <1>5

\* Every step of the pipe is a step of the stream, or none of its own.
LEMMA StepIsStream ==
  ASSUME TypeOK, [Next]_vars
  PROVE  [Stream!Next]_(Stream!vars)
<1>1. CASE Write
  <2>1. PICK line \in Lines : wire' = Append(wire, line) BY <1>1 DEF Write
  <2>2. torn = FALSE BY <1>1 DEF Write, TypeOK
  <2>3. /\ input = "open" /\ input' = input /\ torn' = FALSE /\ dropping' = dropping
        /\ UNCHANGED <<queue, exited, answered, warned>>
    BY <1>1, <2>2 DEF Write, reader, handling
  <2>4. Stream!Write BY <2>1, <2>3, WritingIsStream
  <2> QED BY <2>4 DEF Stream!Next
<1>2. CASE Dies
  <2>1. PICK line \in Lines : \E cut \in 1..line.size :
          wire' = Append(wire, [line EXCEPT !.size = cut])
    BY <1>2 DEF Dies
  <2>2. PICK cut \in 1..line.size : wire' = Append(wire, [line EXCEPT !.size = cut])
    BY <2>1
  <2>3. [line EXCEPT !.size = cut] \in Lines \cup Cuts BY DEF Cuts
  <2>4. /\ input = "open" /\ input' = "closed" /\ torn' = TRUE /\ dropping' = dropping
        /\ UNCHANGED <<queue, exited, answered, warned>>
    BY <1>2 DEF Dies, reader, handling
  <2>5. Stream!Write BY <2>2, <2>3, <2>4, WritingIsStream
  <2> QED BY <2>5 DEF Stream!Next
<1>3. CASE Closes
  <2>1. /\ input = "open" /\ input' = "closed"
        /\ UNCHANGED <<wire, dropping, torn, queue, exited, answered, warned>>
    BY <1>3 DEF Closes, reader, handling
  <2>2. Phase = "open" /\ Phase' = "closed" BY <2>1 DEF Phase, TypeOK
  <2>3. Unjudged' = Unjudged BY <2>1 DEF Unjudged
  <2>4. Stream!Close BY <2>1, <2>2, <2>3 DEF Stream!Close
  <2> QED BY <2>4 DEF Stream!Next
<1>4. CASE Collect BY <1>4, CollectIsStream
<1>5. CASE Finish BY <1>5, FinishIsStream
<1>6. CASE InputEnds BY <1>6, EndIsStream
<1>7. CASE Starts
  <2>1. UNCHANGED <<wire, dropping, input, torn, queue, exited, answered, warned>>
    BY <1>7 DEF Starts, pipe, reader
  <2>2. Unjudged' = Unjudged /\ Phase' = Phase BY <2>1 DEF Unjudged, Phase
  <2> QED BY <2>1, <2>2, StreamRests
<1>8. CASE Settles
  <2>1. UNCHANGED <<wire, dropping, input, torn, exited, warned>>
    BY <1>8 DEF Settles, pipe, reader
  <2>2. Unjudged' = Unjudged /\ Phase' = Phase BY <2>1 DEF Unjudged, Phase
  <2>3. queue # <<>> /\ queue' = Tail(queue) /\ answered' = Append(answered, Head(queue))
    BY <1>8 DEF Settles, TypeOK
  <2>4. Stream!Answer BY <2>1, <2>2, <2>3 DEF Stream!Answer
  <2> QED BY <2>4 DEF Stream!Next
<1>9. CASE Exits
  <2>1. /\ input = "ended" /\ queue = <<>> /\ ~exited /\ exited' = TRUE
        /\ UNCHANGED <<wire, dropping, input, torn, queue, answered, warned>>
    BY <1>9 DEF Exits, pipe, reader
  <2>2. wire = <<>> BY <2>1 DEF TypeOK
  <2>3. Unjudged = <<>> /\ Unjudged' = Unjudged BY <2>1, <2>2 DEF Unjudged
  <2>4. Phase = "closed" /\ Phase' = "left" BY <2>1 DEF Phase
  <2>5. Stream!Leave BY <2>1, <2>3, <2>4 DEF Stream!Leave
  <2> QED BY <2>5 DEF Stream!Next
<1>10. CASE UNCHANGED vars
  <2>1. UNCHANGED <<wire, dropping, input, torn, queue, exited, answered, warned>>
    BY <1>10 DEF vars, pipe, reader, handling
  <2>2. Unjudged' = Unjudged /\ Phase' = Phase BY <2>1 DEF Unjudged, Phase
  <2> QED BY <2>1, <2>2, StreamRests
<1> QED
  BY <1>1, <1>2, <1>3, <1>4, <1>5, <1>6, <1>7, <1>8, <1>9, <1>10 DEF Next, Reads

\* The pipe, cut up in any way, does with its lines what RequestStream says:
\* each judged once, whole and in order, answered in that order, and no leaving
\* before the last answer (ipc.ts:206-250, main.ts:99-147).
THEOREM PipeIsStream == Spec => ReadsAsLines
<1>1. Init => Stream!Init
  <2> SUFFICES ASSUME Init PROVE Stream!Init
    OBVIOUS
  <2>1. Unjudged = <<>> /\ Phase = "open" BY DEF Init, Unjudged, Phase
  <2> QED BY <2>1 DEF Init, Stream!Init
<1>2. TypeOK /\ [Next]_vars => [Stream!Next]_(Stream!vars)
  BY StepIsStream
<1> QED BY <1>1, <1>2, TypeCorrect, PTL DEF Spec, ReadsAsLines, Stream!Spec
=============================================================================
