------------------------- MODULE GrantedRead_proofs -------------------------
(***************************************************************************)
(* What holds of a read of the folder for every disk, path and writer: its *)
(* shapes and descriptors; that with pinned steps nothing outside the      *)
(* folder is served or rules on what is; that what a presence read calls   *)
(* missing was not there; and that a rule that stands over the path binds  *)
(* what is served.                                                         *)
(***************************************************************************)
EXTENDS GrantedRead, SequenceTheorems, WellFoundedInduction, TLAPS

Answers == {"none", "text", "present", "refused", "unknown"} \cup Causes
Kinds == {"file", "directory", "other", "none"}

\* TypeOK in parts: the disk and the question, the walk, and the answer.
DiskOK ==
  /\ names \in [Dirs -> [Names -> Objects \cup {Absent}]]
  /\ moves \in Nat /\ platform \in Platforms /\ governing \in BOOLEAN /\ granted \in BOOLEAN
  /\ absentSeen \in BOOLEAN /\ ruleMoved \in BOOLEAN
WalkOK ==
  /\ fd \in Dirs /\ head \in Seq(Names) /\ entries \in [Names -> Kinds]
  /\ sources \in Seq(Files) /\ unread \in BOOLEAN
CallOK ==
  /\ pc \in Calls
  /\ pc \in {"start", "list", "own", "leaf", "open"} => Len(head) <= Len(Segments)
  /\ pc = "step" => Len(head) < Len(Segments)
  /\ handles = IF pinned THEN Held ELSE 0
AnswerOK == answer \in Answers /\ served \in Files \cup {Absent}

LEMMA Parts == TypeOK <=> DiskOK /\ WalkOK /\ CallOK /\ AnswerOK
BY DEF TypeOK, DiskOK, WalkOK, CallOK, AnswerOK, Answers, Kinds

LEMMA PartsNext == DiskOK' /\ WalkOK' /\ CallOK' /\ AnswerOK' => TypeOK'
BY DEF TypeOK, DiskOK, WalkOK, CallOK, AnswerOK, Answers, Kinds

\* The walk is in one directory, and holds its descriptor where it is pinned.
InOne == handles = IF pinned THEN 1 ELSE 0
Resting == UNCHANGED <<disk, ask>>
Ended == pc' = "done" /\ handles' = 0 /\ answer' \in Answers /\ served' \in Files \cup {Absent}

LEMMA EndsEnds ==
  ASSUME InOne, AnswerOK, Resting, NEW cause \in Causes \cup {"unlisted"}, Ends(cause)
  PROVE  Ended
<1>1. pc' = "done" /\ served' \in Files \cup {Absent}
  BY DEF Ends, Answer, AnswerOK
<1>2. answer' \in Answers
  <2>1. presenceOf(cause) \in {"unknown", "missing", "refused"} BY DEF presenceOf
  <2> QED BY <2>1 DEF Ends, Answer, Answers, Causes
<1>3. handles' = 0 BY DEF Ends, Close, InOne
<1> QED BY <1>1, <1>2, <1>3 DEF Ended

\* What one turn of the loop comes to.
Turned(depth) ==
  \/ Ended
  \/ /\ UNCHANGED <<handles, answer, served>>
     /\ \/ pc' \in {"own", "leaf"}
        \/ pc' = "step" /\ depth < Len(Segments)

LEMMA ProceedTurns ==
  ASSUME InOne, AnswerOK, Resting, NEW listing, NEW depth \in 0..Len(Segments),
         Proceed(listing, depth)
  PROVE  Turned(depth)
<1> DEFINE last == depth = Len(Segments)
<1>0. Len(Segments) \in Nat BY DiskAssumption, LenProperties
<1>1. CASE Ends("missing")
  BY <1>1, EndsEnds DEF Turned, Causes
<1>2. CASE Continues(IF last THEN "leaf" ELSE "step")
  <2>1. UNCHANGED <<handles, answer, served>> BY <1>2 DEF Continues
  <2>2. CASE last BY <1>2, <2>1, <2>2 DEF Turned, Continues
  <2>3. CASE ~last
    <3>1. depth < Len(Segments) BY <1>0, <2>3
    <3> QED BY <1>2, <2>1, <2>3, <3>1 DEF Turned, Continues
  <2> QED BY <2>2, <2>3
<1> QED BY <1>1, <1>2 DEF Proceed

LEMMA LoopTurns ==
  ASSUME InOne, AnswerOK, Resting, NEW listing, NEW depth \in 0..Len(Segments),
         Loop(listing, depth)
  PROVE  Turned(depth)
<1>1. CASE Continues("own") BY <1>1 DEF Turned, Continues
<1>2. CASE Proceed(listing, depth) BY <1>2, ProceedTurns
<1> QED BY <1>1, <1>2 DEF Loop

LEMMA TurnKeepsType ==
  ASSUME DiskOK, AnswerOK, InOne, Resting, WalkOK', NEW depth \in 0..Len(Segments),
         Len(head') = depth, Turned(depth)
  PROVE  TypeOK'
<1>1. DiskOK' BY DEF DiskOK, Resting, disk, ask
<1>2. pinned' = pinned BY DEF Resting, ask, pinned
<1>3. AnswerOK' BY DEF AnswerOK, Turned, Ended
<1>4. CASE Ended
  <2>1. CallOK' BY <1>2, <1>4 DEF CallOK, Ended, Calls, Held
  <2> QED BY <1>1, <1>3, <2>1, PartsNext
<1>5. CASE UNCHANGED <<handles, answer, served>> /\ pc' \in {"own", "leaf"}
  <2>1. Len(Segments) \in Nat BY DiskAssumption, LenProperties
  <2>2. Held' = 1 BY <1>5 DEF Held
  <2>3. handles' = IF pinned' THEN Held' ELSE 0 BY <1>2, <1>5, <2>2 DEF InOne
  <2>4. CallOK'
    <3>1. Len(head') <= Len(Segments) BY <2>1
    <3>2. pc' \in Calls /\ pc' # "step" BY <1>5 DEF Calls
    <3> QED BY <2>3, <3>1, <3>2 DEF CallOK
  <2> QED BY <1>1, <1>3, <2>4, PartsNext
<1>6. CASE UNCHANGED <<handles, answer, served>> /\ pc' = "step" /\ depth < Len(Segments)
  <2>2. Held' = 1 BY <1>6 DEF Held
  <2>3. handles' = IF pinned' THEN Held' ELSE 0 BY <1>2, <1>6, <2>2 DEF InOne
  <2>4. CallOK' BY <1>6, <2>3 DEF CallOK, Calls
  <2> QED BY <1>1, <1>3, <2>4, PartsNext
<1> QED BY <1>4, <1>5, <1>6 DEF Turned
-----------------------------------------------------------------------------
\* A listing that is read has a kind for every name.
LEMMA ListingTyped ==
  ASSUME NEW d \in Dirs
  PROVE  Listing(d) \in [Names -> Kinds]
BY DEF Listing, kindOf, Kinds

LEMMA IgnoreTyped ==
  ASSUME NEW o
  PROVE  IgnoreText(o) \in Seq(Files)
<1>1. CASE o \in Files /\ Content[o] # "binary"
  BY <1>1 DEF IgnoreText
<1>2. CASE ~(o \in Files /\ Content[o] # "binary")
  BY <1>2, EmptySeq DEF IgnoreText
<1> QED BY <1>1, <1>2

LEMMA ReadIgnoreTyped ==
  ASSUME WalkOK, NEW name, ReadIgnore(name)
  PROVE  sources' \in Seq(Files) /\ unread' \in BOOLEAN
<1>1. IgnoreText(Opened(At(name))) \in Seq(Files) BY IgnoreTyped
<1>2. sources \in Seq(Files) /\ unread \in BOOLEAN BY DEF WalkOK
<1>3. sources \o IgnoreText(Opened(At(name))) \in Seq(Files) BY <1>1, <1>2, ConcatProperties
<1> QED BY <1>2, <1>3 DEF ReadIgnore

\* What the walk's calls before the answer hold: one directory.
LEMMA InOneAt ==
  ASSUME CallOK, pc \in {"list", "own", "step", "leaf", "open", "git"}
  PROVE  InOne
<1>1. Held = 1 BY DEF Held
<1> QED BY <1>1 DEF CallOK, InOne

\* A step that ends the read, whatever else it leaves alone.
LEMMA EndKeepsType ==
  ASSUME TypeOK, Resting, UNCHANGED <<place, sources>>, unread' \in BOOLEAN, Ended
  PROVE  TypeOK'
<1>1. DiskOK' /\ WalkOK'
  BY Parts DEF DiskOK, WalkOK, Resting, disk, ask, place
<1>2. pinned' = pinned BY DEF Resting, ask, pinned
<1>3. Held' = 0 BY DEF Held, Ended
<1>4. CallOK'
  <2>1. handles' = IF pinned' THEN Held' ELSE 0 BY <1>3 DEF Ended
  <2> QED BY <2>1 DEF CallOK, Calls, Ended
<1>5. AnswerOK' BY DEF AnswerOK, Ended
<1> QED BY <1>1, <1>4, <1>5, PartsNext

\* The root is within the path's depth.
LEMMA RootDepth == 0 \in 0..Len(Segments) /\ 0 <= Len(Segments)
<1>1. Len(Segments) \in Nat BY DiskAssumption, LenProperties
<1> QED BY <1>1

\* The end of the look for the exclude file.
LEMMA ExcludeDoneTyped ==
  ASSUME TypeOK, Resting, ExcludeDone, entries' = entries, sources' \in Seq(Files),
         unread' \in BOOLEAN, pc \in {"git", "info", "list info", "exclude"}
  PROVE  TypeOK'
<1>1. DiskOK' BY Parts DEF DiskOK, Resting, disk, ask
<1>2. pinned' = pinned BY DEF Resting, ask, pinned
<1>3. Len(<<>>) = 0 /\ <<>> \in Seq(Names) /\ Len(Segments) \in Nat
  BY EmptySeq, DiskAssumption, LenProperties
<1>0. 0 \in 0..Len(Segments) /\ 0 <= Len(Segments)
  BY RootDepth
<1>7. head' = <<>> /\ Len(head') = 0
  BY <1>3 DEF ExcludeDone
<1>4. WalkOK'
  BY <1>3, Parts, DiskAssumption DEF WalkOK, ExcludeDone
<1>5. CASE pinned
  <2>1. pc' = "list" /\ handles' = 1 /\ UNCHANGED <<answer, served>> /\ head' = <<>>
    BY <1>5 DEF ExcludeDone
  <2>2. Held' = 1 BY <2>1 DEF Held
  <2>3. handles' = IF pinned' THEN Held' ELSE 0 BY <1>2, <1>5, <2>1, <2>2
  <2>4. Len(head') <= Len(Segments) BY <1>0, <1>7
  <2>5. CallOK' BY <2>1, <2>3, <2>4 DEF CallOK, Calls
  <2>6. AnswerOK' BY <2>1, Parts DEF AnswerOK
  <2> QED BY <1>1, <1>4, <2>5, <2>6, PartsNext
<1>6. CASE ~pinned
  <2>1. Loop(entries, 0) /\ head' = <<>> BY <1>6 DEF ExcludeDone
  <2>2. InOne BY <1>6, Parts DEF CallOK, InOne
  <2>3. Turned(0) BY <1>0, <2>1, <2>2, Parts, LoopTurns
  <2> QED BY <1>0, <1>4, <1>7, <2>2, <2>3, Parts, TurnKeepsType
<1> QED BY <1>5, <1>6

LEMMA Sums == 2 = 1 + 1 /\ 3 = 2 + 1
OBVIOUS

LEMMA AsideTyped ==
  ASSUME TypeOK, Resting, NEW name \in Names, NEW from, NEW at, OpensAside(from, name, at),
         \/ from = "git" /\ at = "info"
         \/ from = "info" /\ at = "list info"
  PROVE  TypeOK'
<1>1. pc = from /\ pinned /\ entries' = entries /\ sources' = sources
  BY DEF OpensAside
<1>2. CASE At(name) \in Dirs /\ LooksAside(name, at)
  <2>1. /\ pc' = at /\ fd' = At(name) /\ head' = Append(head, name)
        /\ handles' = handles + 1 /\ UNCHANGED <<answer, served, unread>>
    BY <1>2 DEF LooksAside
  <2>2. DiskOK' /\ AnswerOK'
    BY <2>1, Parts DEF DiskOK, AnswerOK, Resting, disk, ask
  <2>3. Append(head, name) \in Seq(Names) BY Parts, AppendProperties DEF WalkOK
  <2>4. WalkOK' BY <1>1, <1>2, <2>1, <2>3, Parts DEF WalkOK
  <2>5. pinned' = pinned BY DEF Resting, ask, pinned
  <2>6. handles = Held BY <1>1, Parts DEF CallOK
  <2>7. Held' = Held + 1
    <3>1. CASE from = "git" /\ at = "info"
      <4>1. Held = 1 BY <1>1, <3>1 DEF Held
      <4>2. Held' = 2 BY <2>1, <3>1 DEF Held
      <4> QED BY <4>1, <4>2, Sums, Zenon
    <3>2. CASE from = "info" /\ at = "list info"
      <4>1. Held = 2 BY <1>1, <3>2 DEF Held
      <4>2. Held' = 3 BY <2>1, <3>2 DEF Held
      <4> QED BY <4>1, <4>2, Sums, Zenon
    <3> QED BY <3>1, <3>2
  <2>8. handles' = IF pinned' THEN Held' ELSE 0 BY <1>1, <2>1, <2>5, <2>6, <2>7
  <2>9. CallOK' BY <2>1, <2>8 DEF CallOK, Calls
  <2> QED BY <2>2, <2>4, <2>9, PartsNext
<1>3. CASE ExcludeDone /\ unread' = unread
  <2>1. unread' \in BOOLEAN /\ sources' \in Seq(Files) BY <1>1, <1>3, Parts DEF WalkOK
  <2> QED BY <1>1, <1>3, <2>1, ExcludeDoneTyped
<1> QED BY <1>2, <1>3 DEF OpensAside
-----------------------------------------------------------------------------
\* The walk's place stays while a call is made, and so does what it was typed.
LEMMA PlaceStays ==
  ASSUME TypeOK, UNCHANGED place, sources' = sources, unread' = unread
  PROVE  WalkOK'
BY Parts DEF WalkOK, place

LEMMA DiskStays ==
  ASSUME TypeOK, Resting
  PROVE  DiskOK'
BY Parts DEF DiskOK, Resting, disk, ask

\* A step of the walk that goes on to a call it may make.
LEMMA GoesOn ==
  ASSUME TypeOK, Resting, NEW at, Continues(at), WalkOK',
         handles = IF pinned THEN Held' ELSE 0,
         at \in Calls, at \notin {"start", "step"},
         at \in {"list", "own", "leaf", "open"} => Len(head') <= Len(Segments)
  PROVE  TypeOK'
<1>1. pc' = at /\ UNCHANGED <<handles, answer, served>> BY DEF Continues
<1>2. pinned' = pinned BY DEF Resting, ask, pinned
<1>3. handles' = IF pinned' THEN Held' ELSE 0 BY <1>1, <1>2
<1>4. CallOK' BY <1>1, <1>3 DEF CallOK
<1>5. AnswerOK' BY <1>1, Parts DEF AnswerOK
<1> QED BY <1>4, <1>5, DiskStays, PartsNext

LEMMA StartTyped ==
  ASSUME TypeOK, Start
  PROVE  TypeOK'
<1>1. /\ pc = "start" /\ Resting /\ UNCHANGED <<place, sources, unread>>
  BY DEF Start, Resting
<1>2. unread' \in BOOLEAN /\ WalkOK' /\ DiskOK' /\ pinned' = pinned
  BY <1>1, PlaceStays, DiskStays, Parts DEF WalkOK, Resting, ask, pinned
<1>3. handles = 0 BY <1>1, Parts DEF CallOK, Held
<1>4. CASE UNCHANGED <<handles, served>> /\ \E what \in {"not-granted", "refused", "not-a-file"} : Answer(what)
  <2>1. Ended BY <1>3, <1>4, Parts DEF Ended, Answer, Answers, Causes, AnswerOK
  <2> QED BY <1>1, <1>2, <2>1, EndKeepsType
<1>6. head' = head /\ Len(head) <= Len(Segments)
  BY <1>1, Parts DEF CallOK, place
<1>5. CASE ~pinned /\ Continues("list")
  <2>1. handles = IF pinned THEN Held' ELSE 0 BY <1>3, <1>5
  <2> QED BY <1>1, <1>2, <1>5, <1>6, <2>1, GoesOn DEF Calls
<1>7. CASE /\ pinned /\ handles' = handles + 1
           /\ pc' = IF governing THEN "git" ELSE "list"
           /\ UNCHANGED <<answer, served>>
  <2>1. Held' = 1 BY <1>7 DEF Held
  <2>2. handles' = 1 BY <1>3, <1>7
  <2>3. handles' = IF pinned' THEN Held' ELSE 0 BY <1>2, <1>7, <2>1, <2>2
  <2>4. CallOK' BY <1>6, <1>7, <2>3 DEF CallOK, Calls
  <2>5. AnswerOK' BY <1>7, Parts DEF AnswerOK
  <2> QED BY <1>2, <2>4, <2>5, PartsNext
<1> QED BY <1>4, <1>5, <1>7 DEF Start

LEMMA ListTyped ==
  ASSUME TypeOK, List
  PROVE  TypeOK'
<1>1. /\ pc = "list" /\ Resting /\ UNCHANGED <<fd, head, sources, unread>>
      /\ entries' = Listing(Folder) /\ Folder \in Dirs
  BY DEF List, Resting
<1>2. WalkOK'
  <2>1. entries' \in [Names -> Kinds] BY <1>1, ListingTyped
  <2> QED BY <1>1, <2>1, Parts DEF WalkOK
<1>3. InOne BY <1>1, Parts, InOneAt
<1>4. Len(head) \in 0..Len(Segments)
  <2>1. Len(head) <= Len(Segments) /\ head \in Seq(Names) BY <1>1, Parts DEF CallOK, WalkOK
  <2>2. Len(Segments) \in Nat BY DiskAssumption, LenProperties
  <2> QED BY <2>1, <2>2, LenProperties
<1>5. CASE ~pinned /\ Continues("git")
  <2>1. handles = IF pinned THEN Held' ELSE 0 BY <1>3, <1>5 DEF InOne
  <2> QED BY <1>1, <1>2, <1>5, <2>1, GoesOn DEF Calls
<1>6. CASE Loop(entries', Len(head))
  <2>1. Turned(Len(head)) BY <1>1, <1>3, <1>4, <1>6, Parts, LoopTurns
  <2>2. Len(head') = Len(head) BY <1>1
  <2> QED BY <1>1, <1>2, <1>3, <1>4, <2>1, <2>2, Parts, TurnKeepsType
<1> QED BY <1>5, <1>6 DEF List

LEMMA OwnTyped ==
  ASSUME TypeOK, Own
  PROVE  TypeOK'
<1>1. /\ pc = "own" /\ Resting /\ UNCHANGED place
      /\ ReadIgnore(".gitignore") /\ Proceed(entries, Len(head))
  BY DEF Own, Resting
<1>2. WalkOK' BY <1>1, Parts, ReadIgnoreTyped DEF WalkOK, place
<1>3. InOne BY <1>1, Parts, InOneAt
<1>4. Len(head) \in 0..Len(Segments)
  <2>1. Len(head) <= Len(Segments) /\ head \in Seq(Names) BY <1>1, Parts DEF CallOK, WalkOK
  <2>2. Len(Segments) \in Nat BY DiskAssumption, LenProperties
  <2> QED BY <2>1, <2>2, LenProperties
<1>5. Turned(Len(head)) BY <1>1, <1>3, <1>4, Parts, ProceedTurns
<1>6. Len(head') = Len(head) BY <1>1 DEF place
<1> QED BY <1>1, <1>2, <1>3, <1>4, <1>5, <1>6, Parts, TurnKeepsType

LEMMA StepTyped ==
  ASSUME TypeOK, Step
  PROVE  TypeOK'
<1> DEFINE name == Segments[Len(head) + 1]
           found == At(name)
<1>1. pc = "step" /\ Resting /\ UNCHANGED <<entries, sources, unread>>
  BY DEF Step, Resting
<1>2. InOne BY <1>1, Parts, InOneAt
<1>3. Len(head) < Len(Segments) /\ head \in Seq(Names) /\ Len(head) \in Nat
      /\ Segments \in Seq(Names) /\ Len(Segments) \in Nat
  BY <1>1, Parts, DiskAssumption, LenProperties DEF CallOK, WalkOK
<1>4. CASE /\ found \in Dirs /\ fd' = (IF pinned THEN found ELSE fd)
           /\ head' = Append(head, name) /\ Continues("list")
  <2>1. name \in Names
    <3>1. Len(head) + 1 \in 1..Len(Segments) BY <1>3
    <3> QED BY <1>3, <3>1, ElementOfSeq
  <2>2. Append(head, name) \in Seq(Names) /\ Len(Append(head, name)) = Len(head) + 1
    BY <1>3, <2>1, AppendProperties
  <2>3. WalkOK' BY <1>1, <1>4, <2>2, Parts DEF WalkOK
  <2>4. Len(head') <= Len(Segments) BY <1>3, <1>4, <2>2
  <2>5. Held' = 1 BY <1>4 DEF Held, Continues
  <2>6. handles = IF pinned THEN Held' ELSE 0 BY <1>2, <2>5 DEF InOne
  <2> HIDE DEF name, found
  <2> QED BY <1>1, <1>4, <2>3, <2>4, <2>6, GoesOn DEF Calls
<1>5. CASE /\ Ends(IF found \in Objects THEN "not-a-file" ELSE readRefusal(found))
           /\ UNCHANGED <<fd, head>>
  <2> DEFINE cause == IF found \in Objects THEN "not-a-file" ELSE readRefusal(found)
  <2>1. cause \in Causes \cup {"unlisted"} BY DEF readRefusal, Causes
  <2> HIDE DEF cause
  <2>2. Ended BY <1>1, <1>2, <1>5, <2>1, Parts, EndsEnds DEF cause
  <2>3. unread' \in BOOLEAN BY <1>1, Parts DEF WalkOK
  <2> QED BY <1>1, <1>5, <2>2, <2>3, EndKeepsType DEF place
<1> QED BY <1>4, <1>5 DEF Step

LEMMA ListsGitTyped ==
  ASSUME TypeOK, ListsGit
  PROVE  TypeOK'
<1>1. /\ pc = "git" /\ ~pinned /\ Resting /\ UNCHANGED <<entries, sources, unread>>
      /\ handles = 0
  BY Parts DEF ListsGit, Resting, CallOK
<1>2. sources' \in Seq(Files) /\ unread' \in BOOLEAN BY <1>1, Parts DEF WalkOK
<1>3. CASE Continues("list info") /\ head' = <<".git", "info">> /\ fd' = fd
  <2>1. <<".git", "info">> \in Seq(Names) BY DiskAssumption
  <2>2. WalkOK' BY <1>1, <1>2, <1>3, <2>1, Parts DEF WalkOK
  <2>3. handles = IF pinned THEN Held' ELSE 0 BY <1>1
  <2> QED BY <1>1, <1>3, <2>2, <2>3, GoesOn DEF Calls
<1>4. CASE ExcludeDone
  BY <1>1, <1>2, <1>4, ExcludeDoneTyped
<1> QED BY <1>3, <1>4 DEF ListsGit

LEMMA ListsInfoTyped ==
  ASSUME TypeOK, ListsInfo
  PROVE  TypeOK'
<1>1. pc = "list info" /\ Resting /\ UNCHANGED <<sources, unread>>
  BY DEF ListsInfo, Resting
<1>2. sources' \in Seq(Files) /\ unread' \in BOOLEAN BY <1>1, Parts DEF WalkOK
<1>3. CASE Continues("exclude") /\ UNCHANGED place
  <2>1. WalkOK' BY <1>1, <1>3, PlaceStays
  <2>2. Held = 3 BY <1>1 DEF Held
  <2>3. Held' = 3 BY <1>3 DEF Held, Continues
  <2>4. handles = IF pinned THEN Held' ELSE 0 BY <2>2, <2>3, Parts DEF CallOK
  <2> QED BY <1>1, <1>3, <2>1, <2>4, GoesOn DEF Calls
<1>4. CASE ExcludeDone /\ entries' = entries
  BY <1>1, <1>2, <1>4, ExcludeDoneTyped
<1> QED BY <1>3, <1>4 DEF ListsInfo

LEMMA ExcludeTyped ==
  ASSUME TypeOK, Exclude \/ AsideFails
  PROVE  TypeOK'
<1>1. CASE Exclude
  <2>1. sources' \in Seq(Files) /\ unread' \in BOOLEAN
    BY <1>1, Parts, ReadIgnoreTyped DEF Exclude
  <2> QED BY <1>1, <2>1, ExcludeDoneTyped DEF Exclude, Resting
<1>2. CASE AsideFails
  <2>1. sources' \in Seq(Files) /\ unread' \in BOOLEAN
    BY <1>2, Parts DEF AsideFails, WalkOK
  <2> QED BY <1>2, <2>1, ExcludeDoneTyped DEF AsideFails, Resting
<1> QED BY <1>1, <1>2

\* The calls that can only end the read.
LEMMA EndingTyped ==
  ASSUME TypeOK, ListFails \/ StepFails \/ LeafFails
  PROVE  TypeOK'
<1>1. /\ pc \in {"list", "step", "leaf", "open"} /\ Resting
      /\ UNCHANGED <<place, sources, unread>>
  BY DEF ListFails, StepFails, LeafFails, Resting
<1>2. InOne /\ AnswerOK /\ unread' \in BOOLEAN
  BY <1>1, Parts, InOneAt DEF WalkOK
<1>3. \E cause \in Causes \cup {"unlisted"} : Ends(cause)
  BY DEF ListFails, StepFails, LeafFails, readRefusal, Causes
<1>4. Ended BY <1>1, <1>2, <1>3, EndsEnds
<1> QED BY <1>1, <1>2, <1>4, EndKeepsType

LEMMA LeafTyped ==
  ASSUME TypeOK, LstatLeaf \/ OpenLeaf \/ LeafPresence
  PROVE  TypeOK'
<1>1. /\ pc \in {"leaf", "open"} /\ Resting /\ UNCHANGED <<place, sources, unread>>
  BY DEF LstatLeaf, OpenLeaf, LeafPresence, Resting
<1>2. InOne /\ AnswerOK /\ unread' \in BOOLEAN
  BY <1>1, Parts, InOneAt DEF WalkOK
<1>3. CASE \E cause \in Causes : Ends(cause)
  <2>1. Ended BY <1>1, <1>2, <1>3, EndsEnds
  <2> QED BY <1>1, <1>2, <2>1, EndKeepsType
<1>4. CASE Continues("open")
  <2>1. Len(head') <= Len(Segments)
    <3>1. Len(head) <= Len(Segments) BY <1>1, Parts DEF CallOK
    <3> QED BY <1>1, <3>1 DEF place
  <2>2. Held' = 1 BY <1>4 DEF Held, Continues
  <2>3. handles = IF pinned THEN Held' ELSE 0 BY <1>2, <2>2 DEF InOne
  <2>4. WalkOK' BY <1>1, PlaceStays
  <2> QED BY <1>1, <1>4, <2>1, <2>3, <2>4, GoesOn DEF Calls
<1>5. CASE /\ \E what \in Answers : Answer(what)
           /\ Close /\ served' \in Files \cup {Absent}
  <2>1. handles' = 0 BY <1>2, <1>5 DEF Close, InOne
  <2>2. Ended BY <1>5, <2>1 DEF Ended, Answer
  <2> QED BY <1>1, <1>2, <2>2, EndKeepsType
<1>6. CASE LstatLeaf
  BY <1>3, <1>4, <1>6 DEF LstatLeaf, Causes
<1>7. CASE OpenLeaf
  BY <1>3, <1>5, <1>7 DEF OpenLeaf, Causes, Answers
<1>8. CASE LeafPresence
  BY <1>2, <1>5, <1>8 DEF LeafPresence, Causes, Answers, AnswerOK
<1> QED BY <1>6, <1>7, <1>8

LEMMA MoveTyped ==
  ASSUME TypeOK, Move
  PROVE  TypeOK'
<1>1. PICK d \in Dirs \ Outside, n \in Names : \E o \in Slots[d][n] \cup {Absent} :
        /\ names' = [names EXCEPT ![d][n] = o]
        /\ ruleMoved' = (ruleMoved \/ n \in RuleNames)
  BY DEF Move
<1>2. PICK o \in Slots[d][n] \cup {Absent} :
        /\ names' = [names EXCEPT ![d][n] = o]
        /\ ruleMoved' = (ruleMoved \/ n \in RuleNames)
  BY <1>1
<1>3. o \in Objects \cup {Absent} BY DiskAssumption
<1>4. names' \in [Dirs -> [Names -> Objects \cup {Absent}]]
  BY <1>2, <1>3, Parts DEF DiskOK
<1>5. /\ UNCHANGED <<ask, pc, place, sources, handles, answer, served, unread>>
      /\ moves' = moves + 1 /\ absentSeen' \in BOOLEAN
  BY Parts DEF Move, DiskOK
<1>6. ruleMoved' \in BOOLEAN BY <1>2, Parts DEF DiskOK
<1>7. DiskOK' BY <1>4, <1>5, <1>6, Parts DEF DiskOK, ask
<1>8. WalkOK' BY <1>5, PlaceStays
<1>9. CallOK' BY <1>5, Parts DEF CallOK, place, ask, pinned, Held
<1>10. AnswerOK' BY <1>5, Parts DEF AnswerOK
<1> QED BY <1>7, <1>8, <1>9, <1>10, PartsNext

LEMMA StepKeepsType ==
  ASSUME TypeOK, [Next]_vars
  PROVE  TypeOK'
<1>1. CASE OpensGit \/ OpensInfo
  <2>1. ".git" \in Names /\ "info" \in Names BY DiskAssumption
  <2>2. Resting BY <1>1 DEF OpensGit, OpensInfo, OpensAside, Resting
  <2> QED BY <1>1, <2>1, <2>2, AsideTyped DEF OpensGit, OpensInfo
<1>2. CASE UNCHANGED vars
  <2>1. Resting /\ UNCHANGED <<place, sources, unread, pc, handles, answer, served>>
    BY <1>2 DEF vars, Resting
  <2>2. CallOK' BY <2>1, Parts DEF CallOK, place, Resting, ask, pinned, Held
  <2>3. AnswerOK' BY <2>1, Parts DEF AnswerOK
  <2> QED BY <2>1, <2>2, <2>3, PlaceStays, DiskStays, PartsNext
<1> QED
  BY <1>1, <1>2, StartTyped, ListTyped, OwnTyped, StepTyped, ListsGitTyped, ListsInfoTyped,
     ExcludeTyped, EndingTyped, LeafTyped, MoveTyped DEF Next, Read

\* A read gives back every descriptor it opens, whichever way it ends, and its
\* loop stays within the path (grant.ts:418-420, 596-696).
THEOREM TypeCorrect == Spec => []TypeOK
<1>1. Init => TypeOK
  <2> SUFFICES ASSUME Init PROVE TypeOK
    OBVIOUS
  <2>1. DiskOK BY DiskAssumption DEF Init, DiskOK
  <2>2. WalkOK BY DiskAssumption, EmptySeq DEF Init, WalkOK, Kinds
  <2>3. Held = 0 /\ Len(head) <= Len(Segments)
    BY RootDepth, EmptySeq DEF Init, Held
  <2>4. handles = IF pinned THEN Held ELSE 0 BY <2>3 DEF Init
  <2>5. CallOK BY <2>3, <2>4 DEF Init, CallOK, Calls
  <2>6. AnswerOK BY DEF Init, AnswerOK, Answers
  <2> QED BY <2>1, <2>2, <2>5, <2>6, Parts
<1>2. TypeOK /\ [Next]_vars => TypeOK' BY StepKeepsType
<1> QED BY <1>1, <1>2, PTL DEF Spec
-----------------------------------------------------------------------------
\* The strengthening: nothing of the folder's holds an outside object, and with
\* pinned steps the walk is in a directory of the folder.
FolderHolds == \A d \in Dirs \ Outside, n \in Names : names[d][n] \notin Outside
Inside == FolderHolds /\ (pinned => fd \notin Outside) /\ ServedFromTheFolder

\* A name looked up in a held directory is the folder's.
LEMMA HeldName ==
  ASSUME TypeOK, Inside, pinned, NEW n \in Names
  PROVE  At(n) \notin Outside /\ Opened(At(n)) \notin Outside
<1>1. fd \in Dirs \ Outside BY Parts DEF WalkOK, Inside
<1>2. fd # Absent /\ fd \notin Links BY <1>1, DiskAssumption DEF Objects
<1>3. At(n) = names[fd][n] BY <1>1, <1>2 DEF At, Folder, Enter, Followed
<1>4. Opened(At(n)) = At(n) BY DEF Opened, pinned
<1> QED BY <1>1, <1>3, <1>4 DEF Inside, FolderHolds

\* What is read of ignore files is the folder's.
LEMMA SourcesInside ==
  ASSUME TypeOK, Inside, pinned, NEW name \in Names, ReadIgnore(name)
  PROVE  \A i \in 1..Len(sources') : sources'[i] \notin Outside
<1> DEFINE more == IgnoreText(Opened(At(name)))
<1>1. sources \in Seq(Files) /\ \A i \in 1..Len(sources) : sources[i] \notin Outside
  BY Parts DEF WalkOK, Inside, ServedFromTheFolder
<1>2. more \in Seq(Files) BY IgnoreTyped
<1>3. \A i \in 1..Len(more) : more[i] \notin Outside
  <2>1. Opened(At(name)) \notin Outside BY HeldName
  <2>2. more = <<Opened(At(name))>> \/ more = <<>> BY DEF IgnoreText
  <2> HIDE DEF more
  <2>3. CASE more = <<Opened(At(name))>> BY <2>1, <2>3
  <2>4. CASE more = <<>> BY <2>4
  <2> QED BY <2>2, <2>3, <2>4
<1> HIDE DEF more
<1>4. \A i \in 1..Len(sources \o more) : (sources \o more)[i] \notin Outside
  BY <1>1, <1>2, <1>3, ConcatProperties
<1> QED BY <1>1, <1>4 DEF ReadIgnore, more

LEMMA StepStaysInside ==
  ASSUME TypeOK, Inside, [Next]_vars
  PROVE  Inside'
<1>1. CASE Move
  <2>1. PICK d \in Dirs \ Outside, n \in Names : \E o \in Slots[d][n] \cup {Absent} :
          names' = [names EXCEPT ![d][n] = o]
    BY <1>1 DEF Move
  <2>2. PICK o \in Slots[d][n] \cup {Absent} : names' = [names EXCEPT ![d][n] = o]
    BY <2>1
  <2>3. o \notin Outside BY FolderAssumption, DiskAssumption DEF Objects
  <2>4. FolderHolds' BY <2>2, <2>3, Parts DEF FolderHolds, Inside, DiskOK
  <2> QED BY <1>1, <2>4 DEF Move, Inside, ServedFromTheFolder, ask, place, pinned
<1> SUFFICES ASSUME Read \/ UNCHANGED vars PROVE Inside'
  BY <1>1 DEF Next
<1>2. Resting
  BY DEF Read, Start, ListFails, List, Own, OpensGit, OpensInfo, OpensAside, AsideFails,
    ListsGit, ListsInfo, Exclude, StepFails, Step, LeafFails, LstatLeaf, OpenLeaf,
    LeafPresence, Resting, vars
<1>3. FolderHolds' /\ pinned' = pinned
  BY <1>2 DEF Inside, FolderHolds, Resting, disk, ask, pinned
<1> SUFFICES ASSUME pinned
             PROVE  /\ fd' \notin Outside /\ served' \notin Outside
                    /\ \A i \in 1..Len(sources') : sources'[i] \notin Outside
  BY <1>3 DEF Inside, ServedFromTheFolder
<1>4. /\ fd \notin Outside /\ served \notin Outside
      /\ \A i \in 1..Len(sources) : sources[i] \notin Outside
  BY DEF Inside, ServedFromTheFolder
<1>5. Root \notin Outside /\ {".git", "info", "exclude", ".gitignore"} \subseteq Names
      /\ Leaf \in Names
  BY DiskAssumption
<1>6. fd' \notin Outside
  <2>1. CASE ExcludeDone BY <1>5, <2>1 DEF ExcludeDone
  <2>2. CASE OpensGit \/ OpensInfo
    BY <1>5, <2>1, <2>2, HeldName DEF OpensGit, OpensInfo, OpensAside, LooksAside
  <2>3. CASE Step
    <3>1. Segments[Len(head) + 1] \in Names
      <4>1. pc = "step" BY <2>3 DEF Step
      <4>2. Len(head) < Len(Segments) /\ head \in Seq(Names) /\ Len(head) \in Nat
            /\ Segments \in Seq(Names) /\ Len(Segments) \in Nat
        BY <4>1, Parts, DiskAssumption, LenProperties DEF CallOK, WalkOK
      <4>3. Len(head) + 1 \in 1..Len(Segments) BY <4>2
      <4> QED BY <4>2, <4>3, ElementOfSeq
    <3>2. At(Segments[Len(head) + 1]) \notin Outside BY <3>1, HeldName
    <3>3. fd' = At(Segments[Len(head) + 1]) \/ fd' = fd BY <2>3 DEF Step
    <3> QED BY <1>4, <3>2, <3>3
  <2>4. CASE UNCHANGED fd BY <1>4, <2>4
  <2> QED
    BY <2>1, <2>2, <2>3, <2>4 DEF Read, Start, ListFails, List, Own, AsideFails,
      ListsGit, ListsInfo, Exclude, StepFails, LeafFails, LstatLeaf, OpenLeaf,
      LeafPresence, place, vars
<1>7. served' \notin Outside
  <2>1. CASE UNCHANGED served BY <1>4, <2>1
  <2>2. CASE OpenLeaf
    <3>1. Opened(At(Leaf)) \notin Outside BY <1>5, HeldName
    <3> QED BY <1>4, <2>2, <3>1 DEF OpenLeaf, Ends
  <2> QED
    BY <2>1, <2>2 DEF Read, Start, ListFails, List, Own, OpensGit, OpensInfo, OpensAside,
      LooksAside, AsideFails, ListsGit, ListsInfo, Exclude, StepFails, Step, LeafFails,
      LstatLeaf, LeafPresence, ExcludeDone, Loop, Proceed, Continues, Ends, vars
<1>8. \A i \in 1..Len(sources') : sources'[i] \notin Outside
  <2>1. CASE UNCHANGED sources BY <1>4, <2>1
  <2>2. CASE Own \/ Exclude BY <1>5, <2>2, SourcesInside DEF Own, Exclude
  <2> QED
    BY <2>1, <2>2 DEF Read, Start, ListFails, List, OpensGit, OpensInfo, OpensAside,
      AsideFails, ListsGit, ListsInfo, StepFails, Step, LeafFails, LstatLeaf, OpenLeaf,
      LeafPresence, vars
<1> QED BY <1>6, <1>7, <1>8

\* With pinned steps, whatever a local writer renames or links during a read,
\* nothing outside the folder is served to a peer or rules on what is
\* (grant.ts:349-356, 583-590).
THEOREM NothingFromOutside == Spec => []ServedFromTheFolder
<1>1. Init => Inside
  <2> SUFFICES ASSUME Init PROVE Inside
    OBVIOUS
  <2>1. FolderHolds BY FolderAssumption DEF Init, FolderHolds
  <2>2. fd \notin Outside /\ served \notin Outside
    BY DiskAssumption DEF Init, Objects
  <2>3. \A i \in 1..Len(sources) : sources[i] \notin Outside
    BY EmptySeq DEF Init
  <2> QED BY <2>1, <2>2, <2>3 DEF Inside, ServedFromTheFolder
<1>2. TypeOK /\ Inside /\ [Next]_vars => Inside' BY StepStaysInside
<1>3. Inside => ServedFromTheFolder BY DEF Inside
<1> QED BY <1>1, <1>2, <1>3, TypeCorrect, PTL DEF Spec
-----------------------------------------------------------------------------
(* Induction along the path, and the recursions of the model unfolded.     *)
\* What holds at 0 and is passed on from each number to the next holds up to n.
LEMMA Climb ==
  ASSUME NEW n \in Nat, NEW A, 0 \in A, \A i \in 1..n : i - 1 \in A => i \in A
  PROVE  \A i \in 0..n : i \in A
<1> DEFINE Left == {i \in Nat : i <= n /\ i \notin A}
<1>1. SUFFICES ASSUME Left # {} PROVE FALSE
  OBVIOUS
<1>2. Left \subseteq Nat OBVIOUS
<1> HIDE DEF Left
<1>3. PICK least \in Left : \A y \in Left : ~ (<<y, least>> \in OpToRel(<, Nat))
  BY <1>1, <1>2, NatLessThanWellFounded, WFMin
<1>4. least \in Nat /\ least <= n /\ least \notin A BY <1>3 DEF Left
<1>5. least # 0 BY <1>4
<1>6. least \in 1..n /\ least - 1 \in Nat /\ least - 1 < least /\ least - 1 <= n BY <1>4, <1>5
<1>7. least - 1 \notin A BY <1>4, <1>6
<1>8. least - 1 \in Left BY <1>6, <1>7 DEF Left
<1>9. <<least - 1, least>> \in OpToRel(<, Nat) BY <1>4, <1>6 DEF OpToRel
<1> QED BY <1>3, <1>8, <1>9

\* f is where a walk from a start by n given steps is after each.
Walked(f, start, step, n) == f[0] = start /\ \A i \in 1..n : f[i] = step[i][f[i - 1]]

LEMMA WalkExists ==
  ASSUME NEW n \in Nat, NEW S, NEW start, NEW step, start \in S, step \in [1..n -> [S -> S]]
  PROVE  \E f \in [0..n -> S] : Walked(f, start, step, n)
<1> DEFINE Walks(m) == \E f \in [0..m -> S] :
                         f[0] = start /\ \A i \in 1..m : f[i] = step[i][f[i - 1]]
           A == {m \in 0..n : Walks(m)}
<1>1. Walks(0)
  <2> DEFINE g == [i \in 0..0 |-> start]
  <2>1. g \in [0..0 -> S] /\ g[0] = start /\ \A i \in 1..0 : g[i] = step[i][g[i - 1]] OBVIOUS
  <2> HIDE DEF g
  <2> QED BY <2>1
<1>2. ASSUME NEW i \in 1..n, Walks(i - 1) PROVE Walks(i)
  <2>1. PICK f \in [0..i - 1 -> S] : f[0] = start /\ \A j \in 1..i - 1 : f[j] = step[j][f[j - 1]]
    BY <1>2
  <2> DEFINE g == [j \in 0..i |-> IF j = i THEN step[i][f[i - 1]] ELSE f[j]]
  <2>2. i \in Nat /\ i - 1 \in 0..i - 1 OBVIOUS
  <2>3. step[i][f[i - 1]] \in S BY <2>2
  <2>4. g \in [0..i -> S] BY <2>2, <2>3
  <2>5. g[0] = start BY <2>1
  <2>6. ASSUME NEW j \in 1..i PROVE g[j] = step[j][g[j - 1]]
    <3>1. j - 1 \in 0..i /\ j \in 0..i /\ j - 1 # i BY <2>2
    <3>2. g[j - 1] = f[j - 1] BY <3>1
    <3>3. CASE j = i BY <3>1, <3>2, <3>3
    <3>4. CASE j # i
      <4>1. j \in 1..i - 1 BY <3>4
      <4>2. f[j] = step[j][f[j - 1]] BY <2>1, <4>1
      <4> QED BY <3>1, <3>2, <3>4, <4>2
    <3> QED BY <3>3, <3>4
  <2> HIDE DEF g
  <2> QED BY <2>4, <2>5, <2>6
<1> HIDE DEF Walks
<1>3. 0 \in A /\ \A i \in 1..n : i - 1 \in A => i \in A BY <1>1, <1>2
<1>4. n \in A
  <2> HIDE DEF A
  <2>1. \A i \in 0..n : i \in A BY <1>3, Climb
  <2> QED BY <2>1
<1>5. Walks(n) BY <1>4
<1> QED BY <1>5 DEF Walks, Walked

\* Two walks that start alike and step alike are one.
StepAlike(f, g, n) == f[0] = g[0] /\ \A i \in 1..n : f[i - 1] = g[i - 1] => f[i] = g[i]
Alike(f, g, n) == \A i \in 0..n : f[i] = g[i]

LEMMA SameWalk ==
  ASSUME NEW n \in Nat, NEW f, NEW g, StepAlike(f, g, n)
  PROVE  Alike(f, g, n)
<1> DEFINE A == {i \in 0..n : f[i] = g[i]}
<1>1. 0 \in A BY DEF StepAlike
<1>2. \A i \in 1..n : i - 1 \in A => i \in A BY DEF StepAlike
<1> HIDE DEF A
<1>3. \A i \in 0..n : i \in A BY <1>1, <1>2, Climb
<1> QED BY <1>3 DEF A, Alike
-----------------------------------------------------------------------------
\* What the disk may hold, and where a lookup may end.
DiskTrees == [Dirs -> [Names -> Objects \cup {Absent}]]
Spots == Objects \cup {Absent, NotDir}

\* t is where the lookup of a path is after each of its names.
Trail(t, tree, path) ==
  t[0] = Root /\ \A i \in 1..Len(path) : t[i] = Enter(tree, t[i - 1], path[i])

LEMMA FollowedTyped ==
  ASSUME NEW o \in Objects
  PROVE  Followed(o) \in Dirs \cup Files /\ Followed(Followed(o)) = Followed(o)
BY DiskAssumption DEF Followed, Objects

LEMMA EnterTyped ==
  ASSUME NEW tree \in DiskTrees, NEW o \in Spots, NEW n \in Names
  PROVE  Enter(tree, o, n) \in Spots
BY DEF Enter, Spots, DiskTrees

LEMMA EnterADir ==
  ASSUME NEW tree, NEW d \in Dirs, NEW n
  PROVE  Enter(tree, d, n) = tree[d][n]
BY DiskAssumption DEF Enter, Followed, Objects

LEMMA PathTyped ==
  /\ Path \in Seq(Names) /\ Len(Path) = Len(Segments) + 1 /\ Len(Segments) \in Nat
  /\ \A i \in 1..Len(Segments) : Path[i] = Segments[i]
  /\ Path[Len(Segments) + 1] = Leaf
  /\ \A i \in 1..Len(Segments) : Segments[i] \in Names
<1>1. Segments \in Seq(Names) /\ Leaf \in Names BY DiskAssumption
<1> QED BY <1>1, AppendProperties, LenProperties, ElementOfSeq DEF Path

LEMMA TrailExists ==
  ASSUME NEW tree \in DiskTrees, NEW path \in Seq(Names)
  PROVE  \E t \in [0..Len(path) -> Spots] : Trail(t, tree, path)
<1> DEFINE n == Len(path)
           step == [i \in 1..n |-> [o \in Spots |-> Enter(tree, o, path[i])]]
<1>1. n \in Nat /\ \A i \in 1..n : path[i] \in Names BY LenProperties, ElementOfSeq
<1>2. Root \in Spots BY DiskAssumption DEF Spots, Objects
<1>3. step \in [1..n -> [Spots -> Spots]] BY <1>1, EnterTyped
<1>4. \A i \in 1..n : \A o \in Spots : step[i][o] = Enter(tree, o, path[i]) OBVIOUS
<1> HIDE DEF step, n
<1>5. PICK t \in [0..n -> Spots] : Walked(t, Root, step, n)
  <2>1. n \in Nat BY <1>1
  <2> HIDE DEF Spots
  <2> QED BY <2>1, <1>2, <1>3, WalkExists, Zenon
<1>6. t[0] = Root /\ \A i \in 1..n : t[i] = step[i][t[i - 1]] BY <1>5 DEF Walked
<1>7. ASSUME NEW i \in 1..n PROVE t[i] = Enter(tree, t[i - 1], path[i])
  <2>1. i - 1 \in 0..n BY <1>1
  <2>2. t[i - 1] \in Spots BY <1>5, <2>1
  <2> QED BY <1>4, <1>6, <2>2
<1> QED BY <1>5, <1>6, <1>7 DEF Trail, n

\* A lookup ends where its trail ends.
LEMMA LookupEnds ==
  ASSUME NEW tree \in DiskTrees, NEW path \in Seq(Names), NEW t, Trail(t, tree, path)
  PROVE  Lookup(tree, path) = t[Len(path)]
<1> DEFINE n == Len(path)
           Is(f) == f = [i \in 0..n |-> IF i = 0 THEN Root ELSE Enter(tree, f[i - 1], path[i])]
           at == CHOOSE f : Is(f)
<1>1. n \in Nat BY LenProperties
<1>2. Lookup(tree, path) = at[n] BY DEF Lookup
<1>3. \E f : Is(f)
  <2>1. PICK f \in [0..n -> Spots] : Trail(f, tree, path) BY TrailExists
  <2>2. \A i \in 0..n : f[i] = IF i = 0 THEN Root ELSE Enter(tree, f[i - 1], path[i])
    BY <1>1, <2>1 DEF Trail
  <2>3. Is(f) BY <2>2
  <2> QED BY <2>3
<1>4. Is(at) BY <1>3
<1>5. at[0] = Root /\ \A i \in 1..n : at[i] = Enter(tree, at[i - 1], path[i])
  <2>1. \A i \in 0..n : at[i] = IF i = 0 THEN Root ELSE Enter(tree, at[i - 1], path[i])
    <3> HIDE DEF at
    <3> QED BY <1>4
  <2> HIDE DEF at
  <2> QED BY <1>1, <2>1
<1> HIDE DEF at
<1>6. \A i \in 1..n : at[i - 1] = t[i - 1] => at[i] = t[i] BY <1>5 DEF Trail
<1>7. at[0] = t[0] BY <1>5 DEF Trail
<1>8. \A i \in 0..n : at[i] = t[i]
  <2>1. n \in Nat BY <1>1
  <2> HIDE DEF n
  <2> QED BY <2>1, <1>6, <1>7, SameWalk, SMTT(30) DEF StepAlike, Alike
<1> QED BY <1>1, <1>2, <1>8

\* Past a name that is not there, nothing is.
LEMMA Gone ==
  ASSUME NEW tree \in DiskTrees, NEW path \in Seq(Names), NEW t, Trail(t, tree, path),
         NEW k \in 0..Len(path), t[k] = Absent
  PROVE  t[Len(path)] = Absent
<1> DEFINE n == Len(path)
           A == {i \in 0..n : i >= k => t[i] = Absent}
<1>1. n \in Nat BY LenProperties
<1>2. 0 \in A BY <1>1
<1>3. ASSUME NEW i \in 1..n, i - 1 \in A PROVE i \in A
  <2>1. CASE i < k BY <1>1, <2>1
  <2>2. CASE i = k BY <1>1, <2>2
  <2>3. CASE i > k
    <3>1. t[i - 1] = Absent BY <1>1, <1>3, <2>3
    <3>2. t[i] = Enter(tree, t[i - 1], path[i]) BY DEF Trail
    <3> QED BY <1>1, <3>1, <3>2 DEF Enter
  <2> QED BY <1>1, <2>1, <2>2, <2>3
<1> HIDE DEF A
<1>4. \A i \in 0..n : i \in A BY <1>1, <1>2, <1>3, Climb
<1> QED BY <1>1, <1>4 DEF A
-----------------------------------------------------------------------------
\* The walk down the path's directories, and the rules it meets, as recursions.
DownSteps ==
  /\ Down \in [0..Len(Segments) -> Objects \cup {Absent}] /\ Down[0] = Root
  /\ \A i \in 1..Len(Segments) : Down[i] = Plain(Down[i - 1], Segments[i])
StandingSteps ==
  /\ Standing[0] = IgnoreText(Plain(Plain(Plain(Root, ".git"), "info"), "exclude"))
  /\ \A i \in 1..Len(Segments) + 1 :
       Standing[i] = Standing[i - 1] \o IgnoreText(Plain(Down[i - 1], ".gitignore"))

LEMMA PlainTyped ==
  ASSUME DiskOK, NEW d, NEW n \in Names
  PROVE  Plain(d, n) \in Dirs \cup Files \cup {Absent}
BY DEF Plain, DiskOK, Objects

LEMMA DownIs == DiskOK => DownSteps
<1> DEFINE n == Len(Segments)
           S == Objects \cup {Absent}
           step == [i \in 1..n |-> [o \in S |-> Plain(o, Segments[i])]]
           Is(f) == f = [i \in 0..n |-> IF i = 0 THEN Root ELSE Plain(f[i - 1], Segments[i])]
<1> SUFFICES ASSUME DiskOK PROVE DownSteps
  OBVIOUS
<1>1. n \in Nat /\ Root \in S /\ \A i \in 1..n : Segments[i] \in Names
  BY PathTyped, DiskAssumption DEF Objects
<1>2. step \in [1..n -> [S -> S]]
  <2>1. \A i \in 1..n : \A o \in S : Plain(o, Segments[i]) \in S
    BY <1>1, PlainTyped DEF Objects
  <2> QED BY <2>1
<1>3. \A i \in 1..n : \A o \in S : step[i][o] = Plain(o, Segments[i]) OBVIOUS
<1> HIDE DEF step
<1>4. PICK f \in [0..n -> S] : Walked(f, Root, step, n)
  <2> HIDE DEF n, S
  <2> QED BY <1>1, <1>2, WalkExists, Zenon
<1>5. f[0] = Root /\ \A i \in 1..n : f[i] = step[i][f[i - 1]] BY <1>4 DEF Walked
<1>6. ASSUME NEW i \in 1..n PROVE f[i] = Plain(f[i - 1], Segments[i])
  <2>1. i - 1 \in 0..n BY <1>1
  <2>2. f[i - 1] \in S BY <1>4, <2>1
  <2> QED BY <1>3, <1>5, <2>2
<1>7. Is(f)
  <2>1. \A i \in 0..n : f[i] = IF i = 0 THEN Root ELSE Plain(f[i - 1], Segments[i])
    BY <1>1, <1>5, <1>6
  <2> QED BY <2>1
<1>8. Down = CHOOSE g : Is(g) BY DEF Down
<1>9. Is(Down)
  <2> HIDE DEF Is
  <2> QED BY <1>7, <1>8
<1>10. \A i \in 0..n : Down[i] = IF i = 0 THEN Root ELSE Plain(Down[i - 1], Segments[i])
  BY <1>9, Zenon
<1>11. DOMAIN Down = 0..n /\ Down = [i \in 0..n |-> Down[i]]
  <2>1. Down = [i \in 0..n |-> IF i = 0 THEN Root ELSE Plain(Down[i - 1], Segments[i])]
    BY <1>9
  <2> DEFINE e(i) == IF i = 0 THEN Root ELSE Plain(Down[i - 1], Segments[i])
  <2> HIDE DEF e
  <2>2. Down = [i \in 0..n |-> e(i)] BY <2>1 DEF e
  <2> QED BY <2>2
<1>12. Down[0] = Root /\ \A i \in 1..n : Down[i] = Plain(Down[i - 1], Segments[i])
  BY <1>1, <1>10
<1>13. \A i \in 0..n : f[i] = Down[i]
  <2>1. \A i \in 1..n : f[i - 1] = Down[i - 1] => f[i] = Down[i] BY <1>6, <1>12
  <2>2. f[0] = Down[0] BY <1>5, <1>12
  <2>3. n \in Nat BY <1>1
  <2> HIDE DEF n
  <2> QED BY <2>3, <2>1, <2>2, SameWalk, ZenonT(60) DEF StepAlike, Alike
<1>14. Down \in [0..n -> S] BY <1>4, <1>11, <1>13
<1> QED BY <1>12, <1>14 DEF DownSteps

LEMMA StandingIs == DiskOK => StandingSteps
<1> DEFINE n == Len(Segments) + 1
           first == IgnoreText(Plain(Plain(Plain(Root, ".git"), "info"), "exclude"))
           more(i) == IgnoreText(Plain(Down[i - 1], ".gitignore"))
           step == [i \in 1..n |-> [s \in Seq(Files) |-> s \o more(i)]]
           Is(f) == f = [i \in 0..n |-> IF i = 0 THEN first ELSE f[i - 1] \o more(i)]
<1> SUFFICES ASSUME DiskOK PROVE StandingSteps
  OBVIOUS
<1>1. n \in Nat /\ first \in Seq(Files) /\ \A i \in 1..n : more(i) \in Seq(Files)
  BY PathTyped, IgnoreTyped
<1>2. step \in [1..n -> [Seq(Files) -> Seq(Files)]]
  <2> HIDE DEF more
  <2>1. \A i \in 1..n : \A s \in Seq(Files) : s \o more(i) \in Seq(Files)
    BY <1>1, ConcatProperties
  <2> QED BY <2>1
<1>3. \A i \in 1..n : \A s \in Seq(Files) : step[i][s] = s \o more(i)
  <2> HIDE DEF more
  <2> QED OBVIOUS
<1> HIDE DEF step, first, more
<1>4. PICK f \in [0..n -> Seq(Files)] : Walked(f, first, step, n)
  <2> HIDE DEF n
  <2> QED BY <1>1, <1>2, WalkExists, Zenon
<1>5. f[0] = first /\ \A i \in 1..n : f[i] = step[i][f[i - 1]] BY <1>4 DEF Walked
<1>6. ASSUME NEW i \in 1..n PROVE f[i] = f[i - 1] \o more(i)
  <2>1. i - 1 \in 0..n BY <1>1
  <2>2. f[i - 1] \in Seq(Files) BY <1>4, <2>1
  <2> QED BY <1>3, <1>5, <2>2
<1>7. Is(f)
  <2>1. n \in Nat BY <1>1
  <2> HIDE DEF n
  <2>2. \A i \in 0..n : i = 0 \/ i \in 1..n BY <2>1
  <2>3. \A i \in 0..n : f[i] = IF i = 0 THEN first ELSE f[i - 1] \o more(i)
    <3>1. ASSUME NEW i \in 0..n, i # 0 PROVE f[i] = f[i - 1] \o more(i)
      BY <2>2, <3>1, <1>6
    <3> QED BY <1>5, <3>1, Zenon
  <2> QED BY <2>3
<1>8. Standing = CHOOSE g : Is(g) BY DEF Standing, first, more
<1>9. Is(Standing)
  <2> HIDE DEF Is
  <2> QED BY <1>7, <1>8
<1>10. \A i \in 0..n : Standing[i] = IF i = 0 THEN first ELSE Standing[i - 1] \o more(i)
  BY <1>9, Zenon
<1>11. n \in Nat BY <1>1
<1>12. Standing[0] = first BY <1>10, <1>11
<1>13. \A i \in 1..n : Standing[i] = Standing[i - 1] \o more(i)
  <2> HIDE DEF n
  <2>1. \A i \in 1..n : i \in 0..n /\ i # 0 BY <1>11
  <2> QED BY <1>10, <2>1, Zenon
<1> QED BY <1>12, <1>13 DEF StandingSteps, first, more

LEMMA DownIsNext == DiskOK' => DownSteps'
BY DownIs, PTL

LEMMA StandingIsNext == DiskOK' => StandingSteps'
BY StandingIs, PTL
-----------------------------------------------------------------------------
(* A presence read: what it calls missing was not there.                   *)
\* The way the walk has come: down the path, and with pinned steps through
\* directories that are still each where the walk found it.
OnPath == Len(head) <= Len(Segments) /\ \A i \in 1..Len(head) : head[i] = Segments[i]
Descent(t) ==
  /\ t[0] = Root /\ t[Len(head)] = fd
  /\ \A i \in 1..Len(head) : t[i] = names[t[i - 1]][Segments[i]]
Reached == \E t \in [0..Len(head) -> Dirs] : Descent(t)

Asides == {"git", "info", "list info", "exclude"}

\* The strengthening: the history keeps up with the disk, and a presence read
\* that has seen no absence is on its way down a path that is there.
Kept == ~absentSeen => Lookup(names, Path) \in Objects
Wanders ==
  /\ pc # "done" => OnPath /\ (pinned /\ ~absentSeen => Reached)
  /\ pc = "leaf" => Len(head) = Len(Segments)
Watched ==
  /\ pc \in Asides \cup {"own", "open"} => governing
  /\ Kept /\ MissingMeansAbsent
  /\ ~governing => Wanders

LEMMA TreeTyped == TypeOK => names \in DiskTrees /\ fd \in Dirs /\ head \in Seq(Names) /\ Len(head) \in Nat
BY Parts, LenProperties DEF DiskOK, WalkOK, DiskTrees

LEMMA TreeTypedNext == TypeOK' => names' \in DiskTrees
BY DEF TypeOK, DiskTrees

\* The lookup of the walk's name is on the trail of the path.
LEMMA HeadTrail ==
  ASSUME TypeOK, OnPath, NEW tree \in DiskTrees, NEW t, Trail(t, tree, Path)
  PROVE  Lookup(tree, head) = t[Len(head)]
<1>1. head \in Seq(Names) /\ Len(head) \in Nat /\ Len(head) <= Len(Segments)
  BY TreeTyped DEF OnPath
<1>2. Len(Path) = Len(Segments) + 1 /\ Len(Segments) \in Nat
      /\ \A i \in 1..Len(Segments) : Path[i] = Segments[i]
  BY PathTyped
<1>3. \A i \in 1..Len(head) : i \in 1..Len(Segments) /\ i \in 1..Len(Path) BY <1>1, <1>2
<1>4. \A i \in 1..Len(head) : head[i] = Path[i] BY <1>2, <1>3 DEF OnPath
<1>5. \A i \in 1..Len(head) : t[i] = Enter(tree, t[i - 1], head[i])
  BY <1>3, <1>4 DEF Trail
<1>6. Trail(t, tree, head) BY <1>5 DEF Trail
<1> QED BY <1>1, <1>6, LookupEnds

\* A link that is followed leads where the lookup through it goes on.
LEMMA EnterFollowed ==
  ASSUME NEW tree, NEW o \in Spots, NEW n
  PROVE  Enter(tree, Followed(o), n) = Enter(tree, o, n)
<1>1. CASE o \in Objects
  <2>1. Followed(o) \in Dirs \cup Files /\ Followed(Followed(o)) = Followed(o)
    BY <1>1, FollowedTyped
  <2>2. Followed(o) # Absent /\ o # Absent BY <1>1, <2>1, DiskAssumption DEF Objects
  <2> QED BY <2>1, <2>2 DEF Enter
<1>2. CASE o \notin Objects
  <2>1. Followed(o) = o BY <1>2 DEF Followed, Objects
  <2> QED BY <2>1
<1> QED BY <1>1, <1>2

\* The trail of the path is where the walk is.
LEMMA TrailHere ==
  ASSUME TypeOK, OnPath, pinned => Reached, NEW t \in [0..Len(Path) -> Spots], Trail(t, names, Path),
         NEW n
  PROVE  At(n) = Enter(names, t[Len(head)], n)
<1>1. names \in DiskTrees /\ fd \in Dirs /\ Len(head) \in Nat /\ Len(head) <= Len(Segments)
  BY TreeTyped DEF OnPath
<1>2. Len(Path) = Len(Segments) + 1 /\ Len(Segments) \in Nat
      /\ \A i \in 1..Len(Segments) : Path[i] = Segments[i]
  BY PathTyped
<1>3. CASE pinned
  <2>1. PICK u \in [0..Len(head) -> Dirs] : Descent(u) BY <1>3 DEF Reached
  <2>2. ASSUME NEW i \in 1..Len(head), t[i - 1] = u[i - 1] PROVE t[i] = u[i]
    <3>1. i \in 1..Len(Path) /\ i \in 1..Len(Segments) /\ i - 1 \in 0..Len(head) BY <1>1, <1>2
    <3>2. t[i] = Enter(names, t[i - 1], Segments[i]) BY <1>2, <3>1 DEF Trail
    <3>3. u[i - 1] \in Dirs BY <2>1, <3>1
    <3>4. t[i] = names[u[i - 1]][Segments[i]] BY <2>2, <3>2, <3>3, EnterADir
    <3> QED BY <2>1, <3>4 DEF Descent
  <2>3. t[0] = u[0] BY <2>1 DEF Descent, Trail
  <2>4. t[Len(head)] = u[Len(head)]
    <3>1. \A i \in 0..Len(head) : t[i] = u[i]
      <4>1. StepAlike(t, u, Len(head)) BY <2>2, <2>3 DEF StepAlike
      <4>2. Alike(t, u, Len(head)) BY <1>1, <4>1, SameWalk
      <4> QED BY <4>2 DEF Alike
    <3> QED BY <1>1, <3>1
  <2> QED BY <1>3, <2>1, <2>4 DEF Descent, At, Folder
<1>4. CASE ~pinned
  <2>1. Lookup(names, head) = t[Len(head)] BY <1>1, HeadTrail
  <2>2. t[Len(head)] \in Spots
    <3>1. Len(head) \in 0..Len(Path) BY <1>1, <1>2
    <3> QED BY <3>1
  <2> QED BY <1>4, <2>1, <2>2, EnterFollowed DEF At, Folder
<1> QED BY <1>3, <1>4

\* Where the next name of the walk is not there, the path is not there.
LEMMA AbsentHere ==
  ASSUME TypeOK, Watched, ~governing, pc # "done", At(Path[Len(head) + 1]) = Absent
  PROVE  absentSeen
<1> SUFFICES ASSUME ~absentSeen PROVE FALSE
  OBVIOUS
<1>1. OnPath /\ (pinned => Reached) /\ Lookup(names, Path) \in Objects
  BY DEF Watched, Kept, Wanders
<1>2. names \in DiskTrees /\ Len(head) \in Nat /\ Len(head) <= Len(Segments)
  BY <1>1, TreeTyped DEF OnPath
<1>3. Path \in Seq(Names) /\ Len(Path) = Len(Segments) + 1 /\ Len(Segments) \in Nat BY PathTyped
<1>4. PICK t \in [0..Len(Path) -> Spots] : Trail(t, names, Path)
  BY <1>2, <1>3, TrailExists
<1> DEFINE k == Len(head) + 1
<1>5. k \in 1..Len(Path) /\ k \in 0..Len(Path) /\ k - 1 = Len(head) BY <1>2, <1>3
<1>6. t[k] = Enter(names, t[Len(head)], Path[k])
  <2>1. t[k] = Enter(names, t[k - 1], Path[k])
    <3> HIDE DEF k
    <3> QED BY <1>4, <1>5 DEF Trail
  <2> QED BY <1>5, <2>1
<1>7. At(Path[k]) = Enter(names, t[Len(head)], Path[k]) BY <1>1, <1>4, TrailHere
<1>8. t[k] = Absent BY <1>6, <1>7
<1>9. t[Len(Path)] = Absent
  <2> HIDE DEF k
  <2> QED BY <1>2, <1>3, <1>4, <1>5, <1>8, Gone
<1>10. Lookup(names, Path) = Absent BY <1>2, <1>3, <1>4, <1>9, LookupEnds
<1> QED BY <1>1, <1>10, DiskAssumption
-----------------------------------------------------------------------------
\* A change of the disk that the history does not record leaves the way down.
LEMMA MoveDescends ==
  ASSUME TypeOK, TypeOK', Move, OnPath, Reached, ~absentSeen'
  PROVE  Reached'
<1>1. PICK d \in Dirs \ Outside, n \in Names : \E o \in Slots[d][n] \cup {Absent} :
        /\ names[d][n] \in Dirs => o = Absent
        /\ names' = [names EXCEPT ![d][n] = o]
  BY DEF Move
<1>2. PICK o \in Slots[d][n] \cup {Absent} :
        /\ names[d][n] \in Dirs => o = Absent
        /\ names' = [names EXCEPT ![d][n] = o]
  BY <1>1
<1>3. names' \in DiskTrees /\ names \in DiskTrees /\ Len(head) \in Nat /\ Len(head) <= Len(Segments)
  BY TreeTyped, TreeTypedNext DEF OnPath
<1>4. Path \in Seq(Names) /\ Len(Path) = Len(Segments) + 1 /\ Len(Segments) \in Nat
      /\ \A i \in 1..Len(Segments) : Path[i] = Segments[i] /\ Segments[i] \in Names
  BY PathTyped
<1>5. Lookup(names', Path) \in Objects /\ fd' = fd /\ head' = head BY DEF Move, place
<1>6. PICK u \in [0..Len(Path) -> Spots] : Trail(u, names', Path)
  BY <1>3, <1>4, TrailExists
<1>7. u[Len(Path)] # Absent
  BY <1>3, <1>4, <1>5, <1>6, LookupEnds, DiskAssumption
<1>8. PICK t \in [0..Len(head) -> Dirs] : Descent(t) BY DEF Reached
<1>9. ASSUME NEW i \in 1..Len(head), u[i - 1] = t[i - 1]
      PROVE  u[i] = t[i] /\ t[i] = names'[t[i - 1]][Segments[i]]
  <2>1. i \in 1..Len(Path) /\ i \in 0..Len(Path) /\ i \in 1..Len(Segments)
        /\ i - 1 \in 0..Len(head) /\ i \in 0..Len(head)
    BY <1>3, <1>4
  <2>2. t[i - 1] \in Dirs /\ t[i] \in Dirs /\ Segments[i] \in Names BY <1>4, <1>8, <2>1
  <2>3. u[i] = names'[t[i - 1]][Segments[i]]
    <3>1. u[i] = Enter(names', u[i - 1], Segments[i]) BY <1>4, <1>6, <2>1 DEF Trail
    <3> QED BY <1>9, <2>2, <3>1, EnterADir
  <2>4. t[i] = names[t[i - 1]][Segments[i]] BY <1>8 DEF Descent
  <2>5. CASE t[i - 1] = d /\ Segments[i] = n
    <3>1. o = Absent BY <1>2, <2>2, <2>4, <2>5
    <3>2. u[i] = Absent BY <1>2, <1>3, <2>2, <2>3, <2>5, <3>1 DEF DiskTrees
    <3>3. u[Len(Path)] = Absent BY <1>3, <1>4, <1>6, <2>1, <3>2, Gone
    <3> QED BY <1>7, <3>3
  <2>6. CASE ~(t[i - 1] = d /\ Segments[i] = n)
    <3>1. names'[t[i - 1]][Segments[i]] = names[t[i - 1]][Segments[i]]
      BY <1>2, <1>3, <2>2, <2>6 DEF DiskTrees
    <3> QED BY <2>3, <2>4, <3>1
  <2> QED BY <2>5, <2>6
<1>10. \A i \in 0..Len(head) : u[i] = t[i]
  <2>1. u[0] = t[0] BY <1>6, <1>8 DEF Trail, Descent
  <2>2. StepAlike(u, t, Len(head)) BY <1>9, <2>1 DEF StepAlike
  <2>3. Alike(u, t, Len(head)) BY <1>3, <2>2, SameWalk
  <2> QED BY <2>3 DEF Alike
<1>11. \A i \in 1..Len(head) : t[i] = names'[t[i - 1]][Segments[i]]
  <2>1. ASSUME NEW i \in 1..Len(head) PROVE i - 1 \in 0..Len(head) BY <1>3
  <2> QED BY <1>9, <1>10, <2>1
<1>12. Descent(t)' BY <1>5, <1>8, <1>11 DEF Descent
<1> QED BY <1>5, <1>8, <1>12 DEF Reached

\* A presence read that goes on from where it is, or ends without saying that
\* the path is missing unless it has seen that.
LEMMA GoesOnWatched ==
  ASSUME Watched, Resting, ~governing, pc # "done",
         \/ /\ pc' \in {"list", "step", "leaf"} /\ UNCHANGED <<fd, head, answer>>
            /\ pc' = "leaf" => Len(head) = Len(Segments)
         \/ pc' = "done" /\ (answer' = "missing" => absentSeen)
  PROVE  Watched'
<1>1. UNCHANGED <<names, absentSeen, governing, pinned>> BY DEF Resting, disk, ask, pinned
<1>2. Kept' BY <1>1 DEF Watched, Kept
<1>3. MissingMeansAbsent' BY <1>1 DEF Watched, MissingMeansAbsent
<1>4. Wanders'
  <2>1. CASE pc' = "done" BY <2>1 DEF Wanders
  <2>2. CASE UNCHANGED <<fd, head>>
    <3>1. OnPath /\ (pinned /\ ~absentSeen => Reached) BY DEF Watched, Wanders
    <3>2. OnPath' BY <2>2, <3>1 DEF OnPath
    <3>3. Reached => Reached' BY <1>1, <2>2 DEF Reached, Descent
    <3>4. pc' = "leaf" => Len(head') = Len(Segments) BY <2>2
    <3> QED BY <1>1, <3>1, <3>2, <3>3, <3>4 DEF Wanders
  <2> QED BY <2>1, <2>2
<1>5. pc' \notin Asides \cup {"own", "open"} BY DEF Asides
<1> QED BY <1>1, <1>2, <1>3, <1>4, <1>5 DEF Watched

\* An end of a presence read.
LEMMA EndsWatched ==
  ASSUME Watched, Resting, ~governing, pc # "done", NEW cause, Ends(cause),
         cause = "missing" => absentSeen
  PROVE  Watched'
<1>1. pc' = "done" BY DEF Ends, Answer
<1>2. answer' = "missing" => absentSeen BY DEF Ends, Answer, presenceOf
<1> QED BY <1>1, <1>2, GoesOnWatched

\* The next name on the path.
LEMMA NextName ==
  ASSUME TypeOK, Len(head) <= Len(Segments)
  PROVE  /\ Len(head) + 1 \in 1..Len(Path) /\ Path[Len(head) + 1] \in Names
         /\ Path[Len(head) + 1] = IF Len(head) = Len(Segments) THEN Leaf ELSE Segments[Len(head) + 1]
<1>1. Len(head) \in Nat BY TreeTyped
<1>2. /\ Path \in Seq(Names) /\ Len(Path) = Len(Segments) + 1 /\ Len(Segments) \in Nat
      /\ \A i \in 1..Len(Segments) : Path[i] = Segments[i] /\ Segments[i] \in Names
      /\ Path[Len(Segments) + 1] = Leaf /\ Leaf \in Names
  BY PathTyped, DiskAssumption
<1>3. CASE Len(head) = Len(Segments) BY <1>1, <1>2, <1>3
<1>4. CASE Len(head) # Len(Segments)
  <2>1. Len(head) + 1 \in 1..Len(Segments) BY <1>1, <1>2, <1>4
  <2> QED BY <1>1, <1>2, <1>4, <2>1
<1> QED BY <1>3, <1>4

\* A name that the listing of a directory leaves out is not there.
LEMMA NotListed ==
  ASSUME TypeOK, Folder \in Dirs, NEW n \in Names, ~holdsName(Listing(Folder), n)
  PROVE  At(n) = Absent
<1>1. names[Folder][n] \in Objects \cup {Absent} BY TreeTyped DEF DiskTrees
<1>2. kindOf(names[Folder][n]) = "none" BY DEF holdsName, Listing
<1>3. names[Folder][n] = Absent BY <1>1, <1>2 DEF kindOf, Objects
<1> QED BY <1>3, EnterADir DEF At

LEMMA ListWatched ==
  ASSUME TypeOK, Watched, List, ~governing
  PROVE  Watched'
<1>1. /\ pc = "list" /\ Resting /\ UNCHANGED <<fd, head>> /\ Folder \in Dirs
      /\ entries' = Listing(Folder)
  BY DEF List, Resting
<1> DEFINE last == Len(head) = Len(Segments)
           name == IF last THEN Leaf ELSE Segments[Len(head) + 1]
<1>2. IF holdsName(entries', name) THEN Continues(IF last THEN "leaf" ELSE "step") ELSE Ends("missing")
  BY <1>1 DEF List, Loop, Proceed
<1>3. CASE Continues(IF last THEN "leaf" ELSE "step")
  BY <1>1, <1>3, GoesOnWatched DEF Continues
<1>4. CASE ~holdsName(entries', name) /\ Ends("missing")
  <2>1. Len(head) <= Len(Segments) BY <1>1, Parts DEF CallOK
  <2>2. name = Path[Len(head) + 1] /\ name \in Names BY <2>1, NextName
  <2> HIDE DEF name
  <2>3. At(Path[Len(head) + 1]) = Absent BY <1>1, <1>4, <2>2, NotListed
  <2>4. absentSeen BY <1>1, <2>3, AbsentHere
  <2> QED BY <1>1, <1>4, <2>4, EndsWatched
<1> QED BY <1>2, <1>3, <1>4

LEMMA StepWatched ==
  ASSUME TypeOK, Watched, Step, ~governing
  PROVE  Watched'
<1> DEFINE name == Segments[Len(head) + 1]
           found == At(name)
<1>1. pc = "step" /\ Resting BY DEF Step, Resting
<1>2. Len(head) < Len(Segments) /\ Len(head) \in Nat /\ Len(Segments) \in Nat
  BY <1>1, Parts, TreeTyped, PathTyped DEF CallOK
<1>3. name = Path[Len(head) + 1] /\ name \in Names BY <1>2, NextName
<1>4. OnPath /\ (pinned /\ ~absentSeen => Reached) BY <1>1 DEF Watched, Wanders
<1>5. CASE /\ found \in Dirs /\ fd' = (IF pinned THEN found ELSE fd)
           /\ head' = Append(head, name) /\ Continues("list")
  <2>1. pc' = "list" /\ answer' = answer BY <1>5 DEF Continues
  <2>2. UNCHANGED <<names, absentSeen, governing, pinned>> BY <1>1 DEF Resting, disk, ask, pinned
  <2>3. Len(head') = Len(head) + 1 /\ head'[Len(head) + 1] = name
        /\ \A i \in 1..Len(head) : head'[i] = head[i]
    <3>1. head \in Seq(Names) BY TreeTyped
    <3> HIDE DEF name
    <3> QED BY <1>3, <1>5, <3>1, AppendProperties
  <2>4. \A i \in 1..Len(head) + 1 : i \in 1..Len(head) \/ i = Len(head) + 1 BY <1>2
  <2>5. OnPath'
    <3>1. \A i \in 1..Len(head') : head'[i] = Segments[i] BY <1>4, <2>3, <2>4 DEF OnPath
    <3>2. Len(head') <= Len(Segments) BY <1>2, <2>3
    <3> QED BY <3>1, <3>2 DEF OnPath
  <2>6. ASSUME pinned, Reached PROVE Reached'
    <3>1. PICK t \in [0..Len(head) -> Dirs] : Descent(t) BY <2>6 DEF Reached
    <3> DEFINE m == Len(head)
               u == [i \in 0..m + 1 |-> IF i = m + 1 THEN found ELSE t[i]]
    <3>2. m \in Nat /\ Len(head') = m + 1 BY <1>2, <2>3
    <3>3. fd' = found /\ found = names[fd][name]
      <4>1. fd \in Dirs BY TreeTyped
      <4> QED BY <1>5, <2>6, <4>1, EnterADir DEF At, Folder
    <3>4. u \in [0..m + 1 -> Dirs] /\ u[0] = Root /\ u[m + 1] = fd'
      <4>1. t \in [0..m -> Dirs] /\ t[0] = Root /\ found \in Dirs BY <1>5, <3>1 DEF Descent
      <4>2. \A i \in 0..m + 1 : i = m + 1 \/ i \in 0..m BY <3>2
      <4>3. 0 \in 0..m + 1 /\ m + 1 \in 0..m + 1 /\ 0 # m + 1 BY <3>2
      <4> HIDE DEF found, m
      <4> QED BY <3>3, <4>1, <4>2, <4>3
    <3>5. ASSUME NEW i \in 1..m + 1 PROVE u[i] = names[u[i - 1]][Segments[i]]
      <4>1. i \in 0..m + 1 /\ i - 1 \in 0..m + 1 /\ i - 1 # m + 1 /\ i - 1 \in 0..m BY <3>2
      <4>2. u[i - 1] = t[i - 1] BY <4>1
      <4>3. CASE i = m + 1
        <5>1. u[i] = found BY <4>1, <4>3
        <5>2. t[i - 1] = fd /\ Segments[i] = name BY <3>1, <3>2, <4>3 DEF Descent
        <5> QED BY <3>3, <4>2, <5>1, <5>2
      <4>4. CASE i # m + 1
        <5>1. i \in 1..m BY <3>2, <4>4
        <5>2. u[i] = t[i] BY <4>1, <4>4
        <5>3. t[i] = names[t[i - 1]][Segments[i]] BY <3>1, <5>1 DEF Descent
        <5> QED BY <4>2, <5>2, <5>3
      <4> QED BY <4>3, <4>4
    <3> HIDE DEF u, m
    <3>6. PICK w \in [0..m + 1 -> Dirs] :
            /\ w[0] = Root /\ w[m + 1] = fd'
            /\ \A i \in 1..m + 1 : w[i] = names[w[i - 1]][Segments[i]]
      BY <3>4, <3>5
    <3>7. names' = names BY <2>2
    <3>8. Descent(w)' BY <3>2, <3>6, <3>7 DEF Descent
    <3> QED BY <3>2, <3>6, <3>8 DEF Reached
  <2>7. Wanders' BY <1>4, <2>1, <2>2, <2>5, <2>6 DEF Wanders
  <2>8. Kept' /\ MissingMeansAbsent' /\ pc' \notin Asides \cup {"own", "open"}
    BY <2>1, <2>2 DEF Watched, Kept, MissingMeansAbsent, Asides
  <2> QED BY <2>7, <2>8 DEF Watched
<1>6. CASE Ends(IF found \in Objects THEN "not-a-file" ELSE readRefusal(found))
  <2> DEFINE cause == IF found \in Objects THEN "not-a-file" ELSE readRefusal(found)
  <2>1. cause = "missing" => absentSeen
    <3>1. cause = "missing" => found = Absent BY DEF readRefusal
    <3>2. found = Absent => absentSeen BY <1>1, <1>3, AbsentHere
    <3> QED BY <3>1, <3>2
  <2> HIDE DEF cause
  <2>2. Ends(cause) BY <1>6 DEF cause
  <2> QED BY <1>1, <2>1, <2>2, EndsWatched
<1> QED BY <1>5, <1>6 DEF Step

\* The other calls of a presence read.
LEMMA PresenceWatched ==
  ASSUME TypeOK, Watched, ~governing, Start \/ ListFails \/ StepFails \/ LeafFails \/ LeafPresence
  PROVE  Watched'
<1>1. CASE Start
  <2>1. Resting /\ pc = "start" /\ UNCHANGED place BY <1>1 DEF Start, Resting
  <2>2. \/ pc' = "list" /\ answer' = answer
        \/ pc' = "done" /\ answer' = "refused"
    BY <1>1 DEF Start, Answer, Continues
  <2> QED BY <2>1, <2>2, GoesOnWatched DEF place
<1>2. CASE ListFails
  <2>1. Resting /\ pc = "list" BY <1>2 DEF ListFails, Resting
  <2>2. PICK why \in (IF Folder = Absent THEN {Absent} ELSE {NotDir}) : Ends(readRefusal(why))
    BY <1>2 DEF ListFails
  <2>3. ASSUME readRefusal(why) = "missing" PROVE absentSeen
    <3>1. Folder = Absent BY <2>2, <2>3 DEF readRefusal, Absent, NotDir
    <3>2. At(Path[Len(head) + 1]) = Absent BY <3>1 DEF At, Enter
    <3> QED BY <2>1, <3>2, AbsentHere
  <2> QED BY <2>1, <2>2, <2>3, EndsWatched
<1>3. CASE StepFails
  <2>1. Resting /\ pc = "step" BY <1>3 DEF StepFails, Resting
  <2>2. Ends(IF pinned THEN "not-a-file" ELSE "unlisted")
    BY <1>3 DEF StepFails, readRefusal, Absent, NotDir
  <2> QED BY <2>1, <2>2, EndsWatched
<1>4. CASE LeafFails
  <2>1. Resting /\ pc \in {"leaf", "open"} /\ Ends("unlisted") BY <1>4 DEF LeafFails, Resting
  <2> QED BY <2>1, EndsWatched
<1>5. CASE LeafPresence
  <2>1. Resting /\ pc = "leaf" /\ pc' = "done" BY <1>5 DEF LeafPresence, Resting, Answer
  <2>3. ASSUME answer' = "missing" PROVE absentSeen
    <3>1. At(Leaf) = Absent BY <1>5, <2>3 DEF LeafPresence, Answer
    <3>2. Len(head) = Len(Segments) BY <2>1 DEF Watched, Wanders
    <3>3. Path[Len(head) + 1] = Leaf BY <3>2, PathTyped
    <3> QED BY <2>1, <3>1, <3>3, AbsentHere
  <2> QED BY <2>1, <2>3, GoesOnWatched
<1> QED BY <1>1, <1>2, <1>3, <1>4, <1>5

LEMMA MoveWatched ==
  ASSUME TypeOK, TypeOK', Watched, Move
  PROVE  Watched'
<1>1. /\ UNCHANGED <<ask, pc, place, answer>>
      /\ absentSeen' = (absentSeen \/ Lookup(names', Path) \notin Objects)
  BY DEF Move
<1>2. /\ UNCHANGED <<pc, fd, head, answer>> /\ governing' = governing /\ pinned' = pinned
      /\ pc # "done"
  BY <1>1 DEF ask, place, pinned, Move
<1>3. Kept' BY <1>1 DEF Kept
<1>4. MissingMeansAbsent' BY <1>1, <1>2 DEF Watched, MissingMeansAbsent
<1>5. ASSUME ~governing PROVE Wanders'
  <2>1. OnPath /\ (pinned /\ ~absentSeen => Reached) /\ (pc = "leaf" => Len(head) = Len(Segments))
    BY <1>2, <1>5 DEF Watched, Wanders
  <2>2. OnPath' BY <1>2, <2>1 DEF OnPath
  <2>3. pinned /\ ~absentSeen' => Reached' BY <1>1, <2>1, MoveDescends
  <2> QED BY <1>2, <2>1, <2>2, <2>3 DEF Wanders
<1> QED BY <1>2, <1>3, <1>4, <1>5 DEF Watched

\* A governed read says nothing of presence.
LEMMA GoverningWatched ==
  ASSUME Watched, governing, Resting
  PROVE  Watched'
<1>1. UNCHANGED <<names, absentSeen, governing>> BY DEF Resting, disk, ask
<1> QED BY <1>1 DEF Watched, Kept, MissingMeansAbsent

LEMMA ReadRests == Read \/ UNCHANGED vars => Resting
BY DEF Read, Start, ListFails, List, Own, OpensGit, OpensInfo, OpensAside, AsideFails,
    ListsGit, ListsInfo, Exclude, StepFails, Step, LeafFails, LstatLeaf, OpenLeaf,
    LeafPresence, Resting, vars

LEMMA StepKeepsWatched ==
  ASSUME TypeOK, TypeOK', Watched, [Next]_vars
  PROVE  Watched'
<1>1. CASE Move BY <1>1, MoveWatched
<1>2. CASE governing /\ (Read \/ UNCHANGED vars) BY <1>2, ReadRests, GoverningWatched
<1>3. CASE ~governing /\ UNCHANGED vars
  <2>1. UNCHANGED <<names, absentSeen, pc, fd, head, answer, governing>> /\ pinned' = pinned
    BY <1>3 DEF vars, disk, ask, place, pinned
  <2>2. Kept' /\ MissingMeansAbsent' BY <2>1 DEF Watched, Kept, MissingMeansAbsent
  <2>3. Wanders' BY <1>3, <2>1 DEF Watched, Wanders, OnPath, Reached, Descent
  <2> QED BY <1>3, <2>1, <2>2, <2>3 DEF Watched
<1>4. CASE ~governing /\ Read
  <2>1. pc \notin Asides \cup {"own", "open"} BY <1>4 DEF Watched
  <2>2. Start \/ ListFails \/ List \/ StepFails \/ Step \/ LeafFails \/ LeafPresence
    BY <1>4, <2>1 DEF Read, Own, OpensGit, OpensInfo, OpensAside, AsideFails, ListsGit,
      ListsInfo, Exclude, LstatLeaf, OpenLeaf, Asides
  <2> QED BY <1>4, <2>2, ListWatched, StepWatched, PresenceWatched
<1> QED BY <1>1, <1>2, <1>3, <1>4 DEF Next

LEMMA AlwaysWatched == Spec => []Watched
<1>1. Init => Watched
  <2> SUFFICES ASSUME Init PROVE Watched
    OBVIOUS
  <2>1. Kept BY DEF Init, Kept
  <2>2. MissingMeansAbsent /\ pc \notin Asides \cup {"own", "open"}
    BY DEF Init, MissingMeansAbsent, Asides
  <2>3. head = <<>> /\ Len(head) = 0 /\ fd = Root /\ pc = "start" BY EmptySeq DEF Init
  <2>4. OnPath BY <2>3, PathTyped DEF OnPath
  <2>5. Reached
    <3> DEFINE t == [i \in 0..0 |-> Root]
    <3>1. t \in [0..Len(head) -> Dirs] BY <2>3, DiskAssumption
    <3>2. Descent(t) BY <2>3 DEF Descent
    <3> QED BY <3>1, <3>2 DEF Reached
  <2> QED BY <2>1, <2>2, <2>3, <2>4, <2>5 DEF Watched, Wanders
<1>2. TypeOK /\ TypeOK' /\ Watched /\ [Next]_vars => Watched' BY StepKeepsWatched
<1> QED BY <1>1, <1>2, TypeCorrect, PTL DEF Spec

\* A presence read never takes a fault for a deletion: `missing` is said only
\* of a path that was gone at some moment since the ask, whatever the writer
\* moves meanwhile, and on every platform (grant.ts:448-450, 512-514;
\* session.ts:948-968 withholds a save on it).
THEOREM AbsencesAreReal == Spec => []MissingMeansAbsent
<1>1. Watched => MissingMeansAbsent BY DEF Watched
<1> QED BY <1>1, AlwaysWatched, PTL
-----------------------------------------------------------------------------
(* A governed read: the rules that stand over the path bind it.            *)
\* Whether the rules over the path could all be read, and none was moved.
Quiet == governing /\ ~ruleMoved /\ ~unread

Aside == Plain(Plain(Root, ".git"), "info")
Here == Down[Len(head)]

\* The strengthening, for a read whose rules stand: in the look for the exclude
\* file the walk is where that file is looked for and has read nothing; on the
\* way down it is in the directory that the path leads to, with the rules of
\* those above it; and it opens a leaf by the rules that stand over the path.
InAside ==
  /\ pc \in {"start", "git"} => head = <<>> /\ (pinned => fd = Root)
  /\ pc \in {"start"} \cup Asides => sources = <<>>
  /\ pc = "info" => pinned /\ fd = Plain(Root, ".git")
  /\ pc \in {"list info", "exclude"} =>
       Aside \in Dirs /\ (pinned => fd = Aside) /\ (~pinned => head = <<".git", "info">>)
  /\ pc = "exclude" => names[Aside]["exclude"] \in Files
Heard == ~pinned /\ pc \in Asides => \A n \in RuleNames : entries[n] = kindOf(names[Root][n])
OnTheWay ==
  pc \in {"list", "own", "step", "leaf"} => OnPath /\ Here \in Dirs /\ (pinned => fd = Here)
Gathered ==
  /\ pc = "list" => sources = IF ~pinned /\ head = <<>> THEN <<>> ELSE Standing[Len(head)]
  /\ pc = "own" => sources = Standing[Len(head)] /\ names[Here][".gitignore"] \in Files
  /\ pc \in {"step", "leaf"} => sources = Standing[Len(head) + 1]
  /\ pc = "leaf" => Len(head) = Len(Segments)
Bound == pc = "open" \/ answer = "text" => ~isIgnoredPath(Governing)
Ruled == InAside /\ Heard /\ OnTheWay /\ Gathered /\ Bound

Bindings ==
  /\ answer = "text" => pc = "done" /\ governing
  /\ Quiet => Ruled

\* The names that rules are found by are names, and the rest is not looked at.
LEMMA RuleNamesAre ==
  /\ {".git", "info", "exclude", ".gitignore"} \subseteq RuleNames
  /\ RuleNames \subseteq Names
  /\ \A i \in 1..Len(Segments) : Segments[i] \in RuleNames
<1>1. Segments \in Seq(Names) /\ {".git", "info", "exclude", ".gitignore"} \subseteq Names
  BY DiskAssumption
<1>2. DOMAIN Segments = 1..Len(Segments) BY <1>1
<1>3. Range(Segments) = {Segments[i] : i \in 1..Len(Segments)} BY <1>2 DEF Range
<1> QED BY <1>1, <1>3, PathTyped DEF RuleNames

\* Where no such name changed, the rules that stand are the same.
LEMMA RulesStay ==
  ASSUME DiskOK, DiskOK', \A d \in Dirs : \A n \in RuleNames : names'[d][n] = names[d][n]
  PROVE  /\ \A d : \A n \in RuleNames : Plain(d, n)' = Plain(d, n)
         /\ Aside' = Aside
         /\ \A i \in 0..Len(Segments) : Down'[i] = Down[i]
         /\ \A i \in 0..Len(Segments) + 1 : Standing'[i] = Standing[i]
         /\ Governing' = Governing
<1>1. \A d : \A n \in RuleNames : Plain(d, n)' = Plain(d, n) BY DEF Plain
<1>2. ".git" \in RuleNames /\ "info" \in RuleNames /\ "exclude" \in RuleNames
      /\ ".gitignore" \in RuleNames
  BY RuleNamesAre
<1>3. Plain(Root, ".git")' = Plain(Root, ".git") BY <1>1, <1>2
<1>4. Aside' = Aside
  <2>1. PICK g : g = Plain(Root, ".git") OBVIOUS
  <2>2. Plain(g, "info")' = Plain(g, "info") BY <1>1, <1>2
  <2>3. Aside = Plain(g, "info") BY <2>1 DEF Aside
  <2>4. Aside' = Plain(g, "info")' BY <1>3, <2>1 DEF Aside, Plain
  <2> QED BY <2>2, <2>3, <2>4
<1>5. Len(Segments) \in Nat BY PathTyped
<1>6. DownSteps /\ DownSteps' BY DownIs, DownIsNext
<1>7. \A i \in 0..Len(Segments) : Down'[i] = Down[i]
  <2>1. PICK f : f = Down OBVIOUS
  <2>2. PICK g : g = Down' OBVIOUS
  <2>3. f[0] = g[0] BY <1>6, <2>1, <2>2 DEF DownSteps
  <2>4. ASSUME NEW i \in 1..Len(Segments), f[i - 1] = g[i - 1] PROVE f[i] = g[i]
    <3>1. f[i] = Plain(f[i - 1], Segments[i]) BY <1>6, <2>1 DEF DownSteps
    <3>2. g[i] = Plain(g[i - 1], Segments[i])' BY <1>6, <2>2 DEF DownSteps, Plain
    <3>3. Segments[i] \in RuleNames BY RuleNamesAre
    <3>4. Plain(g[i - 1], Segments[i])' = Plain(g[i - 1], Segments[i]) BY <1>1, <3>3
    <3> QED BY <2>4, <3>1, <3>2, <3>4
  <2>5. StepAlike(f, g, Len(Segments)) BY <2>3, <2>4 DEF StepAlike
  <2>6. Alike(f, g, Len(Segments)) BY <1>5, <2>5, SameWalk
  <2> QED BY <2>1, <2>2, <2>6 DEF Alike
<1>8. StandingSteps /\ StandingSteps' BY StandingIs, StandingIsNext
<1>9. \A i \in 0..Len(Segments) + 1 : Standing'[i] = Standing[i]
  <2>1. PICK f : f = Standing OBVIOUS
  <2>2. PICK g : g = Standing' OBVIOUS
  <2>3. f[0] = g[0]
    <3>1. PICK a : a = Aside OBVIOUS
    <3>2. f[0] = IgnoreText(Plain(a, "exclude")) BY <1>8, <2>1, <3>1 DEF StandingSteps, Aside
    <3>3. a = Aside' BY <1>4, <3>1
    <3>4. g[0] = IgnoreText(Plain(a, "exclude")')
      BY <1>8, <2>2, <3>3 DEF StandingSteps, Aside, Plain, IgnoreText
    <3>5. Plain(a, "exclude")' = Plain(a, "exclude") BY <1>1, <1>2
    <3> QED BY <3>2, <3>4, <3>5
  <2>4. ASSUME NEW i \in 1..Len(Segments) + 1, f[i - 1] = g[i - 1] PROVE f[i] = g[i]
    <3>1. PICK d : d = Down[i - 1] OBVIOUS
    <3>2. i - 1 \in 0..Len(Segments) BY <1>5
    <3>3. d = Down'[i - 1] BY <1>7, <3>1, <3>2
    <3>4. f[i] = f[i - 1] \o IgnoreText(Plain(d, ".gitignore"))
      BY <1>8, <2>1, <3>1 DEF StandingSteps
    <3>5. g[i] = g[i - 1] \o IgnoreText(Plain(d, ".gitignore")')
      BY <1>8, <2>2, <3>3 DEF StandingSteps, Plain, IgnoreText
    <3>6. Plain(d, ".gitignore")' = Plain(d, ".gitignore") BY <1>1, <1>2
    <3> QED BY <2>4, <3>4, <3>5, <3>6
  <2>5. StepAlike(f, g, Len(Segments) + 1) BY <2>3, <2>4 DEF StepAlike
  <2>6. Len(Segments) + 1 \in Nat BY <1>5
  <2>7. Alike(f, g, Len(Segments) + 1) BY <2>5, <2>6, SameWalk
  <2> QED BY <2>1, <2>2, <2>7 DEF Alike
<1>10. Governing' = Governing BY <1>5, <1>9 DEF Governing
<1> QED BY <1>1, <1>4, <1>7, <1>9, <1>10

\* A directory at the end of the way down is reached through directories.
LEMMA DownDirs ==
  ASSUME DiskOK, NEW k \in 0..Len(Segments), Down[k] \in Dirs
  PROVE  \A i \in 0..k : Down[i] \in Dirs
<1> SUFFICES ASSUME NEW j \in 0..k, Down[j] \notin Dirs PROVE FALSE
  OBVIOUS
<1>1. Len(Segments) \in Nat /\ k \in Nat BY PathTyped
<1>2. DownSteps BY DownIs
<1> DEFINE A == {i \in 0..k : i >= j => Down[i] \notin Dirs}
<1>3. 0 \in A BY <1>1
<1>4. ASSUME NEW i \in 1..k, i - 1 \in A PROVE i \in A
  <2>1. CASE i <= j BY <1>1, <2>1
  <2>2. CASE i > j
    <3>1. Down[i - 1] \notin Dirs BY <1>1, <1>4, <2>2
    <3>2. i \in 1..Len(Segments) BY <1>1
    <3>3. Down[i] = Plain(Down[i - 1], Segments[i]) BY <1>2, <3>2 DEF DownSteps
    <3>4. Down[i] = Absent BY <3>1, <3>3 DEF Plain
    <3> QED BY <3>4, DiskAssumption DEF Objects
  <2> QED BY <1>1, <2>1, <2>2
<1>5. k \in A
  <2> HIDE DEF A
  <2>1. \A i \in 0..k : i \in A BY <1>1, <1>3, <1>4, Climb
  <2> QED BY <1>1, <2>1
<1> QED BY <1>1, <1>5

\* What a plain step finds, the kernel's lookup finds.
LEMMA PlainIsThere ==
  ASSUME NEW d \in Dirs, NEW n, Plain(d, n) \in Dirs \cup Files
  PROVE  names[d][n] = Plain(d, n)
BY DiskAssumption DEF Plain, Objects

LEMMA ThereIsPlain ==
  ASSUME NEW d \in Dirs, NEW n, names[d][n] \in Dirs \cup Files
  PROVE  Plain(d, n) = names[d][n]
BY DiskAssumption DEF Plain

LEMMA DirsAreNotFollowed ==
  ASSUME NEW o \in Dirs \cup Files
  PROVE  Followed(o) = o /\ Opened(o) = o /\ o # Absent
BY DiskAssumption DEF Followed, Opened, Objects

\* On the way down, the walk is in the directory that the path leads to.
LEMMA FolderIsHere ==
  ASSUME TypeOK, OnPath, Here \in Dirs, pinned => fd = Here
  PROVE  Folder = Here /\ \A n : At(n) = names[Here][n]
<1>1. names \in DiskTrees /\ head \in Seq(Names) /\ Len(head) \in Nat /\ Len(head) <= Len(Segments)
  BY TreeTyped DEF OnPath
<1>2. DiskOK /\ Len(Segments) \in Nat BY Parts, PathTyped
<1>3. DownSteps BY <1>2, DownIs
<1>4. CASE ~pinned
  <2>1. PICK k \in 0..Len(Segments) : k = Len(head) BY <1>1, <1>2
  <2>2. \A i \in 0..k : Down[i] \in Dirs BY <1>2, <2>1, DownDirs DEF Here
  <2>3. PICK t : t = Down OBVIOUS
  <2>4. ASSUME NEW i \in 1..k PROVE t[i] = Enter(names, t[i - 1], head[i])
    <3>1. i \in 0..k /\ i - 1 \in 0..k /\ i \in 1..Len(Segments) BY <1>2, <2>1
    <3>2. Down[i] \in Dirs /\ Down[i - 1] \in Dirs BY <2>2, <3>1
    <3>3. Down[i] = Plain(Down[i - 1], Segments[i]) BY <1>3, <3>1 DEF DownSteps
    <3>4. names[Down[i - 1]][Segments[i]] = Down[i] BY <3>2, <3>3, PlainIsThere
    <3>5. head[i] = Segments[i] BY <2>1 DEF OnPath
    <3> QED BY <2>3, <3>2, <3>4, <3>5, EnterADir
  <2>5. t[0] = Root BY <1>3, <2>3 DEF DownSteps
  <2>6. Trail(t, names, head) BY <2>1, <2>4, <2>5 DEF Trail
  <2>7. Lookup(names, head) = Here BY <1>1, <2>3, <2>6, LookupEnds DEF Here
  <2> QED BY <1>4, <2>7, DirsAreNotFollowed, EnterADir DEF At, Folder
<1>5. CASE pinned BY <1>5, EnterADir DEF At, Folder
<1> QED BY <1>4, <1>5

\* The exclude file says nothing where its directory is not there.
LEMMA NoAside ==
  ASSUME DiskOK, Aside \notin Dirs
  PROVE  Standing[0] = <<>>
<1>1. StandingSteps BY StandingIs
<1>2. Plain(Aside, "exclude") = Absent BY DEF Plain
<1>3. Absent \notin Files BY DiskAssumption DEF Objects
<1> QED BY <1>1, <1>2, <1>3 DEF StandingSteps, Aside, IgnoreText

\* Nothing is past a repository that is not there.
LEMMA NoGit ==
  ASSUME Plain(Root, ".git") \notin Dirs
  PROVE  Aside \notin Dirs
BY DiskAssumption DEF Aside, Plain, Objects

\* What an ignore file that is a file adds, and one that is not.
LEMMA RuleRead ==
  ASSUME NEW d \in Dirs, NEW n
  PROVE  /\ names[d][n] \in Files => IgnoreText(Opened(names[d][n])) = IgnoreText(Plain(d, n))
         /\ names[d][n] \notin Files => IgnoreText(Plain(d, n)) = <<>>
<1>1. CASE names[d][n] \in Files BY <1>1, ThereIsPlain, DirsAreNotFollowed
<1>2. CASE names[d][n] \notin Files
  <2>1. Plain(d, n) \notin Files BY <1>2, DiskAssumption DEF Plain, Objects
  <2> QED BY <1>2, <2>1 DEF IgnoreText
<1> QED BY <1>1, <1>2

LEMMA Kinded ==
  ASSUME NEW o
  PROVE  (kindOf(o) = "file" <=> o \in Files) /\ (kindOf(o) = "directory" <=> o \in Dirs)
BY DiskAssumption DEF kindOf

LEMMA StandingTyped ==
  ASSUME DiskOK, NEW i \in 1..Len(Segments) + 1, Standing[i - 1] \in Seq(Files),
         Plain(Down[i - 1], ".gitignore") \notin Files
  PROVE  Standing[i] = Standing[i - 1]
<1>1. Standing[i] = Standing[i - 1] \o IgnoreText(Plain(Down[i - 1], ".gitignore"))
  BY StandingIs DEF StandingSteps
<1>2. IgnoreText(Plain(Down[i - 1], ".gitignore")) = <<>> BY DEF IgnoreText
<1> QED BY <1>1, <1>2, ConcatEmptySeq
-----------------------------------------------------------------------------
\* What a call that changes nothing on the disk keeps.
LEMMA RestKeepsRules ==
  ASSUME TypeOK, TypeOK', Resting
  PROVE  /\ names' = names /\ pinned' = pinned /\ governing' = governing /\ ruleMoved' = ruleMoved
         /\ Aside' = Aside /\ Governing' = Governing
         /\ \A i \in 0..Len(Segments) : Down'[i] = Down[i]
         /\ \A i \in 0..Len(Segments) + 1 : Standing'[i] = Standing[i]
<1>1. names' = names /\ pinned' = pinned /\ governing' = governing /\ ruleMoved' = ruleMoved
  BY DEF Resting, disk, ask, pinned
<1>2. DiskOK /\ DiskOK' BY Parts, DiskStays
<1>3. \A d \in Dirs : \A n \in RuleNames : names'[d][n] = names[d][n] BY <1>1
<1>4. /\ Aside' = Aside /\ Governing' = Governing
      /\ \A i \in 0..Len(Segments) : Down'[i] = Down[i]
      /\ \A i \in 0..Len(Segments) + 1 : Standing'[i] = Standing[i]
  BY <1>2, <1>3, RulesStay
<1> QED BY <1>1, <1>4

\* A read that ends without a text binds nothing.
LEMMA EndRuled ==
  ASSUME pc' = "done", answer' # "text"
  PROVE  Ruled'
BY DEF Ruled, InAside, Heard, OnTheWay, Gathered, Bound, Asides

LEMMA EndsRuled ==
  ASSUME NEW cause \in Causes \cup {"unlisted"}, Ends(cause)
  PROVE  pc' = "done" /\ answer' # "text" /\ Ruled'
<1>1. pc' = "done" BY DEF Ends, Answer
<1>2. presenceOf(cause) # "text" BY DEF presenceOf
<1>3. answer' # "text" BY <1>2 DEF Ends, Answer, Causes
<1> QED BY <1>1, <1>3, EndRuled

\* A turn of the loop that has the rules of its directory.
LEMMA ProceedRuled ==
  ASSUME TypeOK, TypeOK', Resting, answer # "text", NEW listing, NEW depth,
         depth = Len(head'), depth <= Len(Segments), OnPath',
         Down[depth] \in Dirs, pinned => fd' = Down[depth],
         sources' = Standing[depth + 1], Proceed(listing, depth)
  PROVE  Ruled' /\ answer' # "text"
<1> DEFINE last == depth = Len(Segments)
<1>1. CASE Ends("missing") BY <1>1, EndsRuled DEF Causes
<1>2. CASE Continues(IF last THEN "leaf" ELSE "step")
  <2>1. pc' = (IF last THEN "leaf" ELSE "step") /\ answer' = answer BY <1>2 DEF Continues
  <2>2. Len(head') \in Nat /\ Len(Segments) \in Nat
    <3>1. head' \in Seq(Names) BY DEF TypeOK
    <3> QED BY <3>1, PathTyped, LenProperties
  <2>3. depth \in 0..Len(Segments) /\ depth + 1 \in 0..Len(Segments) + 1 BY <2>2
  <2>4. Here' = Down[depth] /\ Standing'[Len(head') + 1] = Standing[depth + 1] /\ pinned' = pinned
    BY <2>3, RestKeepsRules DEF Here
  <2>5. OnTheWay' BY <2>4 DEF OnTheWay
  <2>6. Gathered' BY <2>1, <2>4 DEF Gathered
  <2>7. InAside' /\ Heard' /\ Bound' BY <2>1 DEF InAside, Heard, Bound, Asides
  <2> QED BY <2>1, <2>5, <2>6, <2>7 DEF Ruled
<1> QED BY <1>1, <1>2 DEF Proceed

\* A turn of the loop that has the rules above its directory and the listing.
LEMMA LoopRuled ==
  ASSUME TypeOK, TypeOK', Resting, governing, answer # "text", NEW listing, NEW depth,
         depth = Len(head'), depth <= Len(Segments), OnPath',
         Down[depth] \in Dirs, pinned => fd' = Down[depth],
         sources' = Standing[depth],
         listing[".gitignore"] = kindOf(names[Down[depth]][".gitignore"]),
         Loop(listing, depth)
  PROVE  Ruled' /\ answer' # "text"
<1>1. Len(head') \in Nat /\ Len(Segments) \in Nat
  <2>1. head' \in Seq(Names) BY DEF TypeOK
  <2> QED BY <2>1, PathTyped, LenProperties
<1>2. depth \in 0..Len(Segments) /\ depth \in 0..Len(Segments) + 1
      /\ depth + 1 \in 1..Len(Segments) + 1 /\ (depth + 1) - 1 = depth
  BY <1>1
<1>3. CASE holdsKind(listing, ".gitignore", "file")
  <2>1. pc' = "own" /\ answer' = answer BY <1>3 DEF Loop, Continues
  <2>2. Here' = Down[depth] /\ Standing'[Len(head')] = Standing[depth] /\ pinned' = pinned
        /\ names' = names
    BY <1>2, RestKeepsRules DEF Here
  <2>3. names[Down[depth]][".gitignore"] \in Files BY <1>3, Kinded DEF holdsKind
  <2>4. OnTheWay' BY <2>2 DEF OnTheWay
  <2>5. Gathered' BY <2>1, <2>2, <2>3 DEF Gathered
  <2>6. InAside' /\ Heard' /\ Bound' BY <2>1 DEF InAside, Heard, Bound, Asides
  <2> QED BY <2>1, <2>4, <2>5, <2>6 DEF Ruled
<1>4. CASE ~holdsKind(listing, ".gitignore", "file")
  <2>1. Proceed(listing, depth) BY <1>4 DEF Loop
  <2>2. names[Down[depth]][".gitignore"] \notin Files BY <1>4, Kinded DEF holdsKind
  <2>3. Plain(Down[depth], ".gitignore") \notin Files
    BY <2>2, DiskAssumption DEF Plain, Objects
  <2>4. Standing[depth] \in Seq(Files) BY DEF TypeOK
  <2>5. PICK i \in 1..Len(Segments) + 1 : i = depth + 1 BY <1>2
  <2>6. i - 1 = depth BY <1>2, <2>5
  <2>7. DiskOK BY Parts
  <2>8. Standing[i] = Standing[i - 1] BY <2>3, <2>4, <2>6, <2>7, StandingTyped
  <2>9. sources' = Standing[depth + 1] BY <2>5, <2>6, <2>8
  <2> QED BY <2>1, <2>9, ProceedRuled
<1> QED BY <1>3, <1>4

\* The look for the exclude file is over, with what it says.
LEMMA ExcludeDoneRuled ==
  ASSUME TypeOK, TypeOK', Resting, governing, answer # "text", Heard, pc \in Asides,
         ExcludeDone, sources' = Standing[0]
  PROVE  Ruled' /\ answer' # "text"
<1>1. fd' = Root /\ head' = <<>> /\ Len(head') = 0 BY EmptySeq DEF ExcludeDone
<1>2. Len(Segments) \in Nat /\ DownSteps /\ Root \in Dirs
  <2>1. DownSteps BY Parts, DownIs
  <2> QED BY <2>1, PathTyped, DiskAssumption
<1>3. 0 \in 0..Len(Segments) /\ 0 \in 0..Len(Segments) + 1 /\ 0 <= Len(Segments) BY <1>2
<1>4. Down[0] = Root BY <1>2 DEF DownSteps
<1>5. OnPath' BY <1>1, <1>3 DEF OnPath
<1>6. CASE pinned
  <2>1. pc' = "list" /\ answer' = answer BY <1>6 DEF ExcludeDone
  <2>2. Here' = Root /\ Standing'[Len(head')] = Standing[0] /\ pinned' = pinned
    BY <1>1, <1>3, <1>4, RestKeepsRules DEF Here
  <2>3. OnTheWay' BY <1>1, <1>2, <1>5, <2>2 DEF OnTheWay
  <2>4. Gathered' BY <1>6, <2>1, <2>2 DEF Gathered
  <2>5. InAside' /\ Heard' /\ Bound' BY <2>1 DEF InAside, Heard, Bound, Asides
  <2> QED BY <2>1, <2>3, <2>4, <2>5 DEF Ruled
<1>7. CASE ~pinned
  <2>1. Loop(entries, 0) BY <1>7 DEF ExcludeDone
  <2>2. entries[".gitignore"] = kindOf(names[Down[0]][".gitignore"])
    BY <1>4, <1>7, RuleNamesAre DEF Heard
  <2>3. Down[0] \in Dirs BY <1>2, <1>4
  <2> QED BY <1>1, <1>3, <1>5, <1>7, <2>1, <2>2, <2>3, LoopRuled
<1> QED BY <1>6, <1>7

\* The two ways through the exclude file: its text, or nothing.
LEMMA NothingRuled ==
  ASSUME TypeOK, TypeOK', Resting, governing, answer # "text", Heard, pc \in Asides,
         ExcludeDone, sources' = <<>>, IgnoreText(Plain(Aside, "exclude")) = <<>>
  PROVE  Ruled' /\ answer' # "text"
<1>1. StandingSteps BY Parts, StandingIs
<1>2. Standing[0] = <<>> BY <1>1 DEF StandingSteps, Aside
<1> QED BY <1>2, ExcludeDoneRuled

LEMMA NoAsideRuled ==
  ASSUME TypeOK, TypeOK', Resting, governing, answer # "text", Heard, pc \in Asides,
         ExcludeDone, sources' = <<>>, Aside \notin Dirs
  PROVE  Ruled' /\ answer' # "text"
<1>1. DiskOK BY Parts
<1> QED BY <1>1, NoAside, ExcludeDoneRuled

LEMMA OpensGitRuled ==
  ASSUME TypeOK, TypeOK', governing, answer # "text", Ruled, OpensGit
  PROVE  Ruled' /\ answer' # "text"
<1>1. /\ pc = "git" /\ pinned /\ Resting /\ UNCHANGED <<entries, sources>>
  BY DEF OpensGit, OpensAside, Resting
<1>2. fd = Root /\ sources = <<>> /\ Heard /\ pc \in Asides
  BY <1>1 DEF Ruled, InAside, Asides
<1>3. At(".git") = names[Root][".git"] BY <1>1, <1>2, DiskAssumption, EnterADir DEF At, Folder
<1>4. CASE At(".git") \in Dirs /\ LooksAside(".git", "info")
  <2>1. pc' = "info" /\ fd' = At(".git") /\ answer' = answer BY <1>4 DEF LooksAside
  <2>2. At(".git") = Plain(Root, ".git") BY <1>3, <1>4, ThereIsPlain, DiskAssumption
  <2>3. Plain(Root, ".git")' = Plain(Root, ".git") /\ pinned' = pinned
    BY <1>1, RestKeepsRules DEF Plain
  <2>4. InAside' BY <1>1, <1>2, <2>1, <2>2, <2>3 DEF InAside, Asides
  <2>5. Heard' /\ OnTheWay' /\ Gathered' /\ Bound'
    BY <1>1, <2>1, <2>3 DEF Heard, OnTheWay, Gathered, Bound, Asides
  <2> QED BY <2>1, <2>4, <2>5 DEF Ruled
<1>5. CASE At(".git") \notin Dirs /\ ExcludeDone
  <2>1. Plain(Root, ".git") \notin Dirs
    BY <1>3, <1>5, DiskAssumption DEF Plain, Objects
  <2>2. Aside \notin Dirs BY <2>1, NoGit
  <2>3. sources' = <<>> BY <1>1, <1>2
  <2> QED BY <1>1, <1>2, <1>5, <2>2, <2>3, NoAsideRuled
<1> QED BY <1>4, <1>5 DEF OpensGit, OpensAside

LEMMA OpensInfoRuled ==
  ASSUME TypeOK, TypeOK', governing, answer # "text", Ruled, OpensInfo
  PROVE  Ruled' /\ answer' # "text"
<1>1. /\ pc = "info" /\ pinned /\ Resting /\ UNCHANGED <<entries, sources>> /\ fd \in Dirs
  BY TreeTyped DEF OpensInfo, OpensAside, Resting
<1>2. fd = Plain(Root, ".git") /\ sources = <<>> /\ Heard /\ pc \in Asides
  BY <1>1 DEF Ruled, InAside, Asides
<1>3. At("info") = names[fd]["info"] BY <1>1, EnterADir DEF At, Folder
<1>4. CASE At("info") \in Dirs /\ LooksAside("info", "list info")
  <2>1. pc' = "list info" /\ fd' = At("info") /\ answer' = answer BY <1>4 DEF LooksAside
  <2>2. At("info") = Aside BY <1>1, <1>2, <1>3, <1>4, ThereIsPlain DEF Aside
  <2>3. Aside' = Aside /\ pinned' = pinned BY <1>1, RestKeepsRules
  <2>4. InAside' BY <1>1, <1>2, <1>4, <2>1, <2>2, <2>3 DEF InAside, Asides
  <2>5. Heard' /\ OnTheWay' /\ Gathered' /\ Bound'
    BY <1>1, <2>1, <2>3 DEF Heard, OnTheWay, Gathered, Bound, Asides
  <2> QED BY <2>1, <2>4, <2>5 DEF Ruled
<1>5. CASE At("info") \notin Dirs /\ ExcludeDone
  <2>1. Aside \notin Dirs BY <1>2, <1>3, <1>5, DiskAssumption DEF Plain, Objects, Aside
  <2>3. sources' = <<>> BY <1>1, <1>2
  <2> QED BY <1>1, <1>2, <1>5, <2>1, <2>3, NoAsideRuled
<1> QED BY <1>4, <1>5 DEF OpensInfo, OpensAside

\* The names a lookup goes through to the exclude file's directory.
LEMMA LooksUpGit ==
  ASSUME TypeOK
  PROVE  Lookup(names, <<".git">>) = names[Root][".git"]
<1>1. names \in DiskTrees /\ Root \in Dirs /\ <<".git">> \in Seq(Names)
  BY TreeTyped, DiskAssumption
<1>2. PICK t \in [0..Len(<<".git">>) -> Spots] : Trail(t, names, <<".git">>)
  BY <1>1, TrailExists
<1>3. Lookup(names, <<".git">>) = t[1]
  <2>1. Len(<<".git">>) = 1 OBVIOUS
  <2> QED BY <1>1, <1>2, <2>1, LookupEnds
<1>4. t[0] = Root /\ t[1] = Enter(names, t[1 - 1], ".git") BY <1>2 DEF Trail
<1> QED BY <1>1, <1>3, <1>4, EnterADir

LEMMA LooksUpAside ==
  ASSUME TypeOK, Aside \in Dirs
  PROVE  Lookup(names, <<".git", "info">>) = Aside
<1>1. names \in DiskTrees /\ Root \in Dirs /\ <<".git", "info">> \in Seq(Names)
  BY TreeTyped, DiskAssumption
<1>2. PICK t \in [0..Len(<<".git", "info">>) -> Spots] : Trail(t, names, <<".git", "info">>)
  BY <1>1, TrailExists
<1>3. Lookup(names, <<".git", "info">>) = t[2]
  <2>1. Len(<<".git", "info">>) = 2 OBVIOUS
  <2> QED BY <1>1, <1>2, <2>1, LookupEnds
<1>4. /\ t[0] = Root /\ t[1] = Enter(names, t[0], ".git") /\ t[2] = Enter(names, t[1], "info")
  <2>1. \A i \in 1..2 : t[i] = Enter(names, t[i - 1], <<".git", "info">>[i]) BY <1>2 DEF Trail
  <2>2. t[1] = Enter(names, t[1 - 1], <<".git", "info">>[1]) BY <2>1
  <2>3. t[2] = Enter(names, t[2 - 1], <<".git", "info">>[2]) BY <2>1
  <2> QED BY <1>2, <2>2, <2>3 DEF Trail
<1>5. Plain(Root, ".git") \in Dirs BY NoGit
<1>6. t[1] = Plain(Root, ".git") BY <1>1, <1>4, <1>5, PlainIsThere, EnterADir
<1>7. names[Plain(Root, ".git")]["info"] = Aside BY <1>5, PlainIsThere DEF Aside
<1> QED BY <1>3, <1>4, <1>5, <1>6, <1>7, EnterADir

\* Beside the path, the walk is in the exclude file's directory.
LEMMA FolderIsAside ==
  ASSUME TypeOK, Ruled, pc \in {"list info", "exclude"}
  PROVE  Folder = Aside /\ Aside \in Dirs /\ At("exclude") = names[Aside]["exclude"]
<1>1. Aside \in Dirs /\ (pinned => fd = Aside) /\ (~pinned => head = <<".git", "info">>)
  BY DEF Ruled, InAside
<1>2. Folder = Aside
  BY <1>1, LooksUpAside, DirsAreNotFollowed DEF Folder
<1> QED BY <1>1, <1>2, EnterADir, ZenonT(60) DEF At

LEMMA ListsGitRuled ==
  ASSUME TypeOK, TypeOK', governing, answer # "text", Ruled, ListsGit
  PROVE  Ruled' /\ answer' # "text"
<1> DEFINE git == Followed(Lookup(names, <<".git">>))
           held == holdsKind(entries, ".git", "directory") /\ git \in Dirs
<1>1. /\ pc = "git" /\ ~pinned /\ Resting /\ UNCHANGED <<entries, sources>>
  BY DEF ListsGit, Resting
<1>2. sources = <<>> /\ Heard /\ pc \in Asides BY <1>1 DEF Ruled, InAside, Asides
<1>3. Root \in Dirs /\ Lookup(names, <<".git">>) = names[Root][".git"]
  BY LooksUpGit, DiskAssumption
<1>4. holdsKind(entries, ".git", "directory") <=> names[Root][".git"] \in Dirs
  <2>1. entries[".git"] = kindOf(names[Root][".git"]) BY <1>1, <1>2, RuleNamesAre DEF Heard
  <2> QED BY <2>1, Kinded DEF holdsKind
<1>5. names[Root][".git"] \in Dirs => git = names[Root][".git"] /\ git = Plain(Root, ".git")
  BY <1>3, DirsAreNotFollowed, ThereIsPlain
<1>6. ASSUME names[Root][".git"] \notin Dirs PROVE Aside \notin Dirs
  <2>1. Plain(Root, ".git") \notin Dirs BY <1>6, DiskAssumption DEF Plain, Objects
  <2> QED BY <2>1, NoGit
<1>7. CASE held /\ holdsKind(Listing(git), "info", "directory")
  <2>1. /\ pc' = "list info" /\ answer' = answer /\ head' = <<".git", "info">>
    BY <1>7 DEF ListsGit, Continues
  <2>2. names[git]["info"] \in Dirs /\ git \in Dirs
    <3>1. kindOf(names[git]["info"]) = "directory"
      BY <1>7, DiskAssumption DEF holdsKind, Listing
    <3> QED BY <1>7, <3>1, Kinded
  <2>3. Aside = names[git]["info"] BY <1>4, <1>5, <1>7, <2>2, ThereIsPlain DEF Aside
  <2> HIDE DEF git
  <2>4. Aside' = Aside /\ pinned' = pinned /\ names' = names BY <1>1, RestKeepsRules
  <2>5. InAside' BY <1>1, <1>2, <2>1, <2>2, <2>3, <2>4 DEF InAside, Asides
  <2>6. Heard' BY <1>1, <1>2, <2>4 DEF Heard
  <2>7. OnTheWay' /\ Gathered' /\ Bound' BY <2>1 DEF OnTheWay, Gathered, Bound
  <2> QED BY <2>1, <2>5, <2>6, <2>7 DEF Ruled
<1>8. CASE ~(held /\ holdsKind(Listing(git), "info", "directory")) /\ ExcludeDone
  <2>1. Aside \notin Dirs
    <3>1. CASE names[Root][".git"] \in Dirs
      <4>1. git \in Dirs /\ held BY <1>4, <1>5, <3>1
      <4>2. kindOf(names[git]["info"]) # "directory"
        BY <1>8, <4>1, DiskAssumption DEF holdsKind, Listing
      <4>3. names[git]["info"] \notin Dirs BY <4>2, Kinded
      <4>4. Plain(git, "info") \notin Dirs BY <4>3, DiskAssumption DEF Plain, Objects
      <4> QED BY <1>5, <3>1, <4>4 DEF Aside
    <3> QED BY <1>6, <3>1
  <2>2. sources' = <<>> BY <1>1, <1>2
  <2> QED BY <1>1, <1>2, <1>8, <2>1, <2>2, NoAsideRuled
<1> QED BY <1>7, <1>8 DEF ListsGit

LEMMA ListsInfoRuled ==
  ASSUME TypeOK, TypeOK', governing, answer # "text", Ruled, ListsInfo
  PROVE  Ruled' /\ answer' # "text"
<1>1. /\ pc = "list info" /\ Resting /\ UNCHANGED sources
  BY DEF ListsInfo, Resting
<1>2. sources = <<>> /\ Heard /\ pc \in Asides BY <1>1 DEF Ruled, InAside, Asides
<1>3. Folder = Aside /\ Aside \in Dirs BY <1>1, FolderIsAside
<1>4. holdsKind(Listing(Folder), "exclude", "file") <=> names[Aside]["exclude"] \in Files
  <2>1. Listing(Folder)["exclude"] = kindOf(names[Aside]["exclude"])
    BY <1>3, DiskAssumption DEF Listing
  <2> QED BY <2>1, Kinded DEF holdsKind
<1>5. CASE holdsKind(Listing(Folder), "exclude", "file") /\ Continues("exclude") /\ UNCHANGED place
  <2>1. pc' = "exclude" /\ answer' = answer /\ UNCHANGED <<fd, head, entries>>
    BY <1>5 DEF Continues, place
  <2>2. Aside' = Aside /\ pinned' = pinned /\ names' = names BY <1>1, RestKeepsRules
  <2>3. InAside'
    <3>1. (pinned => fd = Aside) /\ (~pinned => head = <<".git", "info">>)
      BY <1>1 DEF Ruled, InAside
    <3> QED BY <1>1, <1>2, <1>3, <1>4, <1>5, <2>1, <2>2, <3>1 DEF InAside, Asides
  <2>4. Heard' BY <1>2, <2>1, <2>2 DEF Heard
  <2>5. OnTheWay' /\ Gathered' /\ Bound' BY <2>1 DEF OnTheWay, Gathered, Bound
  <2> QED BY <2>1, <2>3, <2>4, <2>5 DEF Ruled
<1>6. CASE ~holdsKind(Listing(Folder), "exclude", "file") /\ ExcludeDone
  <2>1. IgnoreText(Plain(Aside, "exclude")) = <<>> BY <1>3, <1>4, <1>6, RuleRead
  <2>2. sources' = <<>> BY <1>1, <1>2
  <2> QED BY <1>1, <1>2, <1>6, <2>1, <2>2, NothingRuled
<1> QED BY <1>3, <1>5, <1>6 DEF ListsInfo

LEMMA ExcludeRuled ==
  ASSUME TypeOK, TypeOK', governing, answer # "text", Ruled, Exclude, ~unread'
  PROVE  Ruled' /\ answer' # "text"
<1>1. /\ pc = "exclude" /\ Resting /\ ExcludeDone
      /\ sources' = sources \o IgnoreText(Opened(At("exclude")))
  BY DEF Exclude, Resting, ReadIgnore
<1>2. sources = <<>> /\ Heard /\ pc \in Asides /\ names[Aside]["exclude"] \in Files
  BY <1>1 DEF Ruled, InAside, Asides
<1>3. Aside \in Dirs /\ At("exclude") = names[Aside]["exclude"] BY <1>1, FolderIsAside
<1>4. IgnoreText(Opened(At("exclude"))) = IgnoreText(Plain(Aside, "exclude"))
  BY <1>2, <1>3, RuleRead
<1>5. IgnoreText(Plain(Aside, "exclude")) \in Seq(Files) BY IgnoreTyped
<1>6. sources' = IgnoreText(Plain(Aside, "exclude")) BY <1>1, <1>2, <1>4, <1>5, ConcatEmptySeq
<1>7. StandingSteps BY Parts, StandingIs
<1>8. sources' = Standing[0] BY <1>6, <1>7 DEF StandingSteps, Aside
<1> QED BY <1>1, <1>2, <1>8, ExcludeDoneRuled

LEMMA StartRuled ==
  ASSUME TypeOK, TypeOK', governing, answer # "text", Ruled, Start
  PROVE  Ruled' /\ answer' # "text"
<1>1. pc = "start" /\ Resting /\ UNCHANGED <<place, sources>> BY DEF Start, Resting
<1>2. head = <<>> /\ Len(head) = 0 /\ sources = <<>> /\ (pinned => fd = Root)
  BY <1>1, EmptySeq DEF Ruled, InAside
<1>3. UNCHANGED <<fd, head>> BY <1>1 DEF place
<1>4. pinned' = pinned BY <1>1, RestKeepsRules
<1>5. CASE pc' = "done" /\ answer' # "text" BY <1>5, EndRuled
<1>6. CASE ~pinned /\ Continues("list")
  <2>1. pc' = "list" /\ answer' = answer BY <1>6 DEF Continues
  <2>2. DownSteps BY Parts, DownIs
  <2>3. Here' = Root
    <3>1. 0 \in 0..Len(Segments) BY PathTyped
    <3>2. Down'[0] = Root BY <1>1, <2>2, <3>1, RestKeepsRules DEF DownSteps
    <3> QED BY <1>2, <1>3, <3>2 DEF Here
  <2>4. OnPath' BY <1>2, <1>3, PathTyped DEF OnPath
  <2>5. OnTheWay' BY <1>4, <1>6, <2>3, <2>4, DiskAssumption DEF OnTheWay
  <2>6. Gathered' BY <1>1, <1>2, <1>3, <1>4, <1>6, <2>1 DEF Gathered
  <2>7. InAside' /\ Heard' /\ Bound' BY <2>1 DEF InAside, Heard, Bound, Asides
  <2> QED BY <2>1, <2>5, <2>6, <2>7 DEF Ruled
<1>7. CASE pinned /\ pc' = "git" /\ answer' = answer
  <2>1. InAside' BY <1>1, <1>2, <1>3, <1>7 DEF InAside, Asides
  <2>2. Heard' /\ OnTheWay' /\ Gathered' /\ Bound'
    BY <1>4, <1>7 DEF Heard, OnTheWay, Gathered, Bound
  <2> QED BY <1>7, <2>1, <2>2 DEF Ruled
<1> QED BY <1>5, <1>6, <1>7 DEF Start, Answer

LEMMA ListRuled ==
  ASSUME TypeOK, TypeOK', governing, answer # "text", Ruled, List
  PROVE  Ruled' /\ answer' # "text"
<1>1. /\ pc = "list" /\ Resting /\ UNCHANGED <<fd, head, sources>> /\ entries' = Listing(Folder)
  BY DEF List, Resting
<1>2. OnPath /\ Here \in Dirs /\ (pinned => fd = Here)
      /\ sources = IF ~pinned /\ head = <<>> THEN <<>> ELSE Standing[Len(head)]
  BY <1>1 DEF Ruled, OnTheWay, Gathered
<1>3. Folder = Here BY <1>2, FolderIsHere
<1>4. CASE ~pinned /\ head = <<>> /\ Continues("git")
  <2>1. pc' = "git" /\ answer' = answer BY <1>4 DEF Continues
  <2>2. pinned' = pinned /\ names' = names BY <1>1, RestKeepsRules
  <2>3. Here = Root
    <3>1. DownSteps BY Parts, DownIs
    <3> QED BY <1>4, <3>1, EmptySeq DEF Here, DownSteps
  <2>4. InAside' BY <1>1, <1>2, <1>4, <2>1, <2>2 DEF InAside, Asides
  <2>5. Heard' BY <1>1, <1>3, <2>2, <2>3, RuleNamesAre DEF Heard, Listing
  <2>6. OnTheWay' /\ Gathered' /\ Bound' BY <2>1 DEF OnTheWay, Gathered, Bound
  <2> QED BY <2>1, <2>4, <2>5, <2>6 DEF Ruled
<1>5. CASE ~(~pinned /\ head = <<>>) /\ Loop(entries', Len(head))
  <2>1. sources' = Standing[Len(head')] BY <1>1, <1>2, <1>5
  <2>2. OnPath' BY <1>1, <1>2 DEF OnPath
  <2>3. entries'[".gitignore"] = kindOf(names[Down[Len(head)]][".gitignore"])
    BY <1>1, <1>3, DiskAssumption DEF Listing, Here
  <2>4. Down[Len(head)] \in Dirs /\ (pinned => fd' = Down[Len(head)]) BY <1>1, <1>2 DEF Here
  <2>5. Len(head) <= Len(Segments) /\ Len(head) = Len(head') BY <1>1, <1>2 DEF OnPath
  <2> QED BY <1>1, <1>5, <2>1, <2>2, <2>3, <2>4, <2>5, LoopRuled
<1> QED BY <1>4, <1>5 DEF List

LEMMA OwnRuled ==
  ASSUME TypeOK, TypeOK', governing, answer # "text", Ruled, Own, ~unread'
  PROVE  Ruled' /\ answer' # "text"
<1>1. /\ pc = "own" /\ Resting /\ UNCHANGED <<fd, head>> /\ Proceed(entries, Len(head))
      /\ sources' = sources \o IgnoreText(Opened(At(".gitignore")))
  BY DEF Own, Resting, ReadIgnore, place
<1>2. OnPath /\ Here \in Dirs /\ (pinned => fd = Here)
      /\ sources = Standing[Len(head)] /\ names[Here][".gitignore"] \in Files
  BY <1>1 DEF Ruled, OnTheWay, Gathered
<1>3. At(".gitignore") = names[Here][".gitignore"] BY <1>2, FolderIsHere
<1>4. IgnoreText(Opened(At(".gitignore"))) = IgnoreText(Plain(Here, ".gitignore"))
  BY <1>2, <1>3, RuleRead
<1>5. Len(head) + 1 \in 1..Len(Segments) + 1 /\ (Len(head) + 1) - 1 = Len(head)
  BY <1>2, TreeTyped, PathTyped DEF OnPath
<1>6. sources' = Standing[Len(head) + 1]
  <2>1. StandingSteps BY Parts, StandingIs
  <2>2. Standing[Len(head) + 1] = Standing[Len(head)] \o IgnoreText(Plain(Here, ".gitignore"))
    <3>1. PICK i \in 1..Len(Segments) + 1 : i = Len(head) + 1 BY <1>5
    <3>2. i - 1 = Len(head) BY <1>5, <3>1
    <3>3. Standing[i] = Standing[i - 1] \o IgnoreText(Plain(Down[i - 1], ".gitignore"))
      BY <2>1 DEF StandingSteps
    <3> QED BY <3>1, <3>2, <3>3 DEF Here
  <2> QED BY <1>1, <1>2, <1>4, <2>2
<1>7. OnPath' BY <1>1, <1>2 DEF OnPath
<1>8. Down[Len(head)] \in Dirs /\ (pinned => fd' = Down[Len(head)]) BY <1>1, <1>2 DEF Here
<1>9. Len(head) <= Len(Segments) /\ Len(head) = Len(head') BY <1>1, <1>2 DEF OnPath
<1> QED BY <1>1, <1>6, <1>7, <1>8, <1>9, ProceedRuled

LEMMA StepRuled ==
  ASSUME TypeOK, TypeOK', governing, answer # "text", Ruled, Step
  PROVE  Ruled' /\ answer' # "text"
<1> DEFINE name == Segments[Len(head) + 1]
           found == At(name)
<1>1. pc = "step" /\ Resting /\ UNCHANGED sources BY DEF Step, Resting
<1>2. OnPath /\ Here \in Dirs /\ (pinned => fd = Here) /\ sources = Standing[Len(head) + 1]
  BY <1>1 DEF Ruled, OnTheWay, Gathered
<1>3. found = names[Here][name] BY <1>2, FolderIsHere
<1>4. CASE /\ found \in Dirs /\ fd' = (IF pinned THEN found ELSE fd)
           /\ head' = Append(head, name) /\ Continues("list")
  <2>1. pc' = "list" /\ answer' = answer BY <1>4 DEF Continues
  <2>2. Len(head) < Len(Segments) /\ Len(head) \in Nat /\ Len(Segments) \in Nat
        /\ head \in Seq(Names)
    BY <1>1, Parts, TreeTyped, PathTyped DEF CallOK
  <2>3. Len(head) + 1 \in 1..Len(Segments) /\ (Len(head) + 1) - 1 = Len(head)
        /\ Len(head) + 1 \in 0..Len(Segments) /\ Len(head) + 1 \in 0..Len(Segments) + 1
    BY <2>2
  <2>4. name \in Names BY <2>3, PathTyped
  <2>5. Len(head') = Len(head) + 1 /\ head' # <<>> /\ head'[Len(head) + 1] = name
        /\ \A i \in 1..Len(head) : head'[i] = head[i]
    <3> HIDE DEF name
    <3>1. Len(head') = Len(head) + 1 /\ head'[Len(head) + 1] = name
          /\ \A i \in 1..Len(head) : head'[i] = head[i]
      BY <1>4, <2>2, <2>4, AppendProperties
    <3> QED BY <2>2, <3>1, EmptySeq
  <2>6. Down[Len(head) + 1] = found
    <3>1. DownSteps BY Parts, DownIs
    <3>2. PICK i \in 1..Len(Segments) : i = Len(head) + 1 BY <2>3
    <3>3. i - 1 = Len(head) BY <2>3, <3>2
    <3>4. Down[i] = Plain(Down[i - 1], Segments[i]) BY <3>1 DEF DownSteps
    <3>5. Down[Len(head) + 1] = Plain(Here, name) BY <3>2, <3>3, <3>4 DEF Here
    <3> QED BY <1>2, <1>3, <1>4, <3>5, ThereIsPlain
  <2>7. Here' = found /\ Standing'[Len(head')] = sources' /\ pinned' = pinned
    BY <1>1, <1>2, <2>3, <2>5, <2>6, RestKeepsRules DEF Here
  <2>8. OnPath'
    <3>1. \A i \in 1..Len(head) + 1 : i \in 1..Len(head) \/ i = Len(head) + 1 BY <2>2
    <3>2. \A i \in 1..Len(head') : head'[i] = Segments[i] BY <1>2, <2>5, <3>1 DEF OnPath
    <3>3. Len(head') <= Len(Segments) BY <2>2, <2>5
    <3> QED BY <3>2, <3>3 DEF OnPath
  <2>9. OnTheWay' BY <1>4, <2>7, <2>8 DEF OnTheWay
  <2>10. Gathered' BY <2>1, <2>5, <2>7 DEF Gathered
  <2>11. InAside' /\ Heard' /\ Bound' BY <2>1 DEF InAside, Heard, Bound, Asides
  <2> QED BY <2>1, <2>9, <2>10, <2>11 DEF Ruled
<1>5. CASE Ends(IF found \in Objects THEN "not-a-file" ELSE readRefusal(found))
  <2> DEFINE cause == IF found \in Objects THEN "not-a-file" ELSE readRefusal(found)
  <2>1. cause \in Causes \cup {"unlisted"} BY DEF readRefusal, Causes
  <2> HIDE DEF cause
  <2>2. Ends(cause) BY <1>5 DEF cause
  <2> QED BY <2>1, <2>2, EndsRuled
<1> QED BY <1>4, <1>5 DEF Step

\* A leaf is opened by the rules that stand over the path.
LEMMA LstatRuled ==
  ASSUME TypeOK, TypeOK', governing, answer # "text", Ruled, LstatLeaf
  PROVE  Ruled' /\ answer' # "text"
<1>1. pc = "leaf" /\ Resting BY DEF LstatLeaf, Resting
<1>2. sources = Governing BY <1>1 DEF Ruled, Gathered, Governing
<1>3. CASE \E cause \in Causes : Ends(cause) BY <1>3, EndsRuled
<1>4. CASE ~isIgnoredPath(sources) /\ Continues("open")
  <2>1. pc' = "open" /\ answer' = answer BY <1>4 DEF Continues
  <2>2. Governing' = Governing BY <1>1, RestKeepsRules
  <2>3. ~isIgnoredPath(Governing') BY <1>2, <1>4, <2>2
  <2>4. Bound' BY <2>3 DEF Bound, isIgnoredPath
  <2>5. InAside' /\ Heard' /\ OnTheWay' /\ Gathered'
    BY <2>1 DEF InAside, Heard, OnTheWay, Gathered, Asides
  <2> QED BY <2>1, <2>4, <2>5 DEF Ruled
<1> QED BY <1>3, <1>4 DEF LstatLeaf, Causes

LEMMA OpenRuled ==
  ASSUME TypeOK, TypeOK', governing, answer # "text", Ruled, OpenLeaf
  PROVE  Ruled' /\ pc' = "done"
<1>1. pc = "open" /\ Resting BY DEF OpenLeaf, Resting
<1>2. CASE \E cause \in Causes : Ends(cause) BY <1>2, EndsRuled
<1>3. CASE Answer("text")
  <2>1. pc' = "done" BY <1>3 DEF Answer
  <2>2. Governing' = Governing BY <1>1, RestKeepsRules
  <2>3. ~isIgnoredPath(Governing') BY <1>1, <2>2 DEF Ruled, Bound
  <2>4. Bound' BY <2>3 DEF Bound, isIgnoredPath
  <2>5. InAside' /\ Heard' /\ OnTheWay' /\ Gathered'
    BY <2>1 DEF InAside, Heard, OnTheWay, Gathered, Asides
  <2> QED BY <2>1, <2>4, <2>5 DEF Ruled
<1> QED BY <1>2, <1>3 DEF OpenLeaf, Causes

\* What a step that is none of the read's keeps, where no rule is moved.
LEMMA WaitingRuled ==
  ASSUME TypeOK, TypeOK', Ruled,
         \A e \in Dirs : \A k \in RuleNames : names'[e][k] = names[e][k],
         UNCHANGED <<pc, fd, head, entries, sources, answer>>, pinned' = pinned
  PROVE  Ruled'
<1>1. \A e \in Dirs : \A k \in RuleNames : names'[e][k] = names[e][k]
  OBVIOUS
<1>2. UNCHANGED <<pc, fd, head, entries, sources, answer>> /\ pinned' = pinned
  OBVIOUS
<1>3. DiskOK /\ DiskOK' BY Parts, PTL
<1>4. /\ Aside' = Aside /\ Governing' = Governing
      /\ \A i \in 0..Len(Segments) : Down'[i] = Down[i]
      /\ \A i \in 0..Len(Segments) + 1 : Standing'[i] = Standing[i]
  BY <1>1, <1>3, RulesStay
<1>5. Root \in Dirs /\ ".gitignore" \in RuleNames /\ "exclude" \in RuleNames
  BY DiskAssumption, RuleNamesAre
<1>6. InAside'
  <2>1. pc = "exclude" => names'[Aside']["exclude"] \in Files
    <3>1. pc = "exclude" => Aside \in Dirs /\ names[Aside]["exclude"] \in Files
      BY DEF Ruled, InAside
    <3> QED BY <1>1, <1>4, <1>5, <3>1
  <2>2. Plain(Root, ".git")' = Plain(Root, ".git") BY <1>1, <1>5, RuleNamesAre DEF Plain
  <2>3. pc = "info" => pinned' /\ fd' = Plain(Root, ".git")'
    BY <1>2, <2>2 DEF Ruled, InAside
  <2>4. pc \in {"list info", "exclude"} =>
          Aside' \in Dirs /\ (pinned' => fd' = Aside') /\ (~pinned' => head' = <<".git", "info">>)
    <3>1. pc \in {"list info", "exclude"} =>
            Aside \in Dirs /\ (pinned => fd = Aside) /\ (~pinned => head = <<".git", "info">>)
      BY DEF Ruled, InAside
    <3>2. fd' = fd /\ head' = head /\ pinned' = pinned /\ Aside' = Aside BY <1>2, <1>4
    <3> QED BY <3>1, <3>2 DEF pinned
  <2>5. /\ pc \in {"start", "git"} => head' = <<>> /\ (pinned' => fd' = Root)
        /\ pc \in {"start"} \cup Asides => sources' = <<>>
    <3>1. /\ pc \in {"start", "git"} => head = <<>> /\ (pinned => fd = Root)
          /\ pc \in {"start"} \cup Asides => sources = <<>>
      BY DEF Ruled, InAside
    <3>2. UNCHANGED <<fd, head, sources>> /\ pinned' = pinned BY <1>2
    <3> QED BY <3>1, <3>2
  <2> QED BY <1>2, <2>1, <2>3, <2>4, <2>5 DEF InAside
<1>7. Heard' BY <1>1, <1>2, <1>5 DEF Ruled, Heard
<1>8. pc \in {"list", "own", "step", "leaf"} =>
         Len(head) \in 0..Len(Segments) /\ Len(head) \in 0..Len(Segments) + 1
         /\ Len(head) + 1 \in 0..Len(Segments) + 1
  BY TreeTyped, PathTyped DEF Ruled, OnTheWay, OnPath
<1>9. pc \in {"list", "own", "step", "leaf"} => Here' = Here BY <1>2, <1>4, <1>8 DEF Here
<1>10. OnTheWay' BY <1>2, <1>9 DEF Ruled, OnTheWay, OnPath
<1>11. Gathered'
  <2>1. pc = "list" => sources' = IF ~pinned' /\ head' = <<>> THEN <<>> ELSE Standing'[Len(head')]
    BY <1>2, <1>4, <1>8 DEF Ruled, Gathered
  <2>2. pc = "own" => sources' = Standing'[Len(head')] /\ names'[Here'][".gitignore"] \in Files
    BY <1>1, <1>2, <1>4, <1>5, <1>8, <1>9 DEF Ruled, Gathered, OnTheWay
  <2>3. pc \in {"step", "leaf"} => sources' = Standing'[Len(head') + 1]
    BY <1>2, <1>4, <1>8 DEF Ruled, Gathered
  <2>4. pc = "leaf" => Len(head') = Len(Segments) BY <1>2 DEF Ruled, Gathered
  <2> QED BY <1>2, <2>1, <2>2, <2>3, <2>4 DEF Gathered
<1>12. Bound'
  <2>1. pc = "open" \/ answer = "text" => ~isIgnoredPath(Governing') BY <1>4 DEF Ruled, Bound
  <2> QED BY <1>2, <2>1 DEF Bound, isIgnoredPath
<1> QED BY <1>6, <1>7, <1>10, <1>11, <1>12 DEF Ruled

LEMMA MoveRuled ==
  ASSUME TypeOK, TypeOK', Ruled, Move, ~ruleMoved'
  PROVE  Ruled'
<1>1. PICK d \in Dirs \ Outside, n \in Names : \E o \in Slots[d][n] \cup {Absent} :
        /\ names' = [names EXCEPT ![d][n] = o]
        /\ ruleMoved' = (ruleMoved \/ n \in RuleNames)
  BY DEF Move
<1>2. n \notin RuleNames BY <1>1
<1>3. \A e \in Dirs : \A k \in RuleNames : names'[e][k] = names[e][k]
  BY <1>1, <1>2, TreeTyped, RuleNamesAre DEF DiskTrees
<1>4. UNCHANGED <<pc, fd, head, entries, sources, answer>> /\ pinned' = pinned
  BY DEF Move, ask, place, pinned
<1> QED BY <1>3, <1>4, WaitingRuled

LEMMA StepKeepsBindings ==
  ASSUME TypeOK, TypeOK', Watched, Bindings, [Next]_vars
  PROVE  Bindings'
<1>1. CASE Move
  <2>1. UNCHANGED <<pc, answer>> /\ governing' = governing /\ unread' = unread BY <1>1 DEF Move, ask
  <2>2. Quiet' => Quiet /\ ~ruleMoved' BY <1>1 DEF Quiet, Move, ask
  <2>3. Quiet' => Ruled' BY <1>1, <2>2, MoveRuled DEF Bindings
  <2> QED BY <2>1, <2>3 DEF Bindings
<1>2. CASE UNCHANGED vars
  <2>1. Resting /\ UNCHANGED <<pc, fd, head, entries, sources, answer, unread>>
    BY <1>2 DEF vars, Resting, place
  <2>2. governing' = governing /\ ruleMoved' = ruleMoved /\ pinned' = pinned /\ names' = names
    BY <2>1, RestKeepsRules
  <2>3. ASSUME Ruled PROVE Ruled'
    <3>1. \A e \in Dirs : \A k \in RuleNames : names'[e][k] = names[e][k] BY <2>2
    <3> QED BY <2>1, <2>2, <2>3, <3>1, WaitingRuled
  <2> QED BY <2>1, <2>2, <2>3 DEF Bindings, Quiet
<1>3. CASE Read
  <2>1. Resting /\ pc # "done" /\ answer # "text"
    BY <1>3, ReadRests DEF Bindings, Read, Start, ListFails, List, Own, OpensGit, OpensInfo,
      OpensAside, AsideFails, ListsGit, ListsInfo, Exclude, StepFails, Step, LeafFails, LstatLeaf,
      OpenLeaf, LeafPresence
  <2>2. governing' = governing /\ ruleMoved' = ruleMoved BY <2>1, RestKeepsRules
  <2>3. CASE ~governing
    <3>1. Start \/ ListFails \/ List \/ StepFails \/ Step \/ LeafFails \/ LeafPresence
      <4>1. pc \notin Asides \cup {"own", "open"} BY <2>3 DEF Watched
      <4> QED BY <1>3, <2>3, <4>1 DEF Read, Own, OpensGit, OpensInfo, OpensAside, AsideFails,
            ListsGit, ListsInfo, Exclude, LstatLeaf, OpenLeaf, Asides
    <3>2. answer' # "text"
      BY <2>1, <2>3, <3>1 DEF Start, ListFails, List, StepFails, Step, LeafFails, LeafPresence,
        Loop, Proceed, Continues, Ends, Answer, presenceOf
    <3> QED BY <2>2, <2>3, <3>2 DEF Bindings, Quiet
  <2>4. CASE governing /\ unread'
    <3>1. answer' = "text" => pc' = "done"
      BY <1>3, <2>1, <2>4 DEF Read, Start, ListFails, List, Own, OpensGit, OpensInfo,
        OpensAside, LooksAside, AsideFails, ListsGit, ListsInfo, Exclude, StepFails, Step, LeafFails,
        LstatLeaf, OpenLeaf, LeafPresence, ExcludeDone, Loop, Proceed, Continues, Ends, Answer
    <3> QED BY <2>2, <2>4, <3>1 DEF Bindings, Quiet
  <2>5. CASE governing /\ ~unread'
    <3>1. ~unread
      BY <1>3, <2>5 DEF Read, Start, ListFails, List, Own, OpensGit, OpensInfo, OpensAside,
        LooksAside, AsideFails, ListsGit, ListsInfo, Exclude, StepFails, Step, LeafFails, LstatLeaf,
        OpenLeaf, LeafPresence, ReadIgnore
    <3>2. answer' = "text" => pc' = "done"
      BY <1>3, <2>1, <2>5 DEF Read, Start, ListFails, List, Own, OpensGit, OpensInfo,
        OpensAside, LooksAside, AsideFails, ListsGit, ListsInfo, Exclude, StepFails, Step, LeafFails,
        LstatLeaf, OpenLeaf, LeafPresence, ExcludeDone, Loop, Proceed, Continues, Ends, Answer
    <3>3. ASSUME Quiet' PROVE Ruled'
      <4>1. Ruled BY <2>2, <2>5, <3>1, <3>3 DEF Bindings, Quiet
      <4>2. CASE ListFails \/ StepFails \/ LeafFails
        <5>1. \E cause \in Causes \cup {"unlisted"} : Ends(cause)
          BY <4>2 DEF ListFails, StepFails, LeafFails, readRefusal, Causes
        <5> QED BY <5>1, EndsRuled
      <4>3. ~AsideFails /\ ~LeafPresence BY <2>5 DEF AsideFails, LeafPresence
      <4> QED
        BY <1>3, <2>1, <2>5, <4>1, <4>2, <4>3, StartRuled, ListRuled, OwnRuled, OpensGitRuled,
          OpensInfoRuled, ListsGitRuled, ListsInfoRuled, ExcludeRuled, StepRuled, LstatRuled,
          OpenRuled DEF Read
    <3> QED BY <2>2, <2>5, <3>2, <3>3 DEF Bindings
  <2> QED BY <2>3, <2>4, <2>5
<1> QED BY <1>1, <1>2, <1>3 DEF Next

\* A rule that stood over a path all through a read, and could be read, binds
\* it: what the rule leaves out is not served, however deep the path, whatever
\* else the writer changes and on every platform (grant.ts:378-385, 777-779).
THEOREM RulesBind == Spec => []StandingRuleBinds
<1>1. Init => Bindings
  <2> SUFFICES ASSUME Init PROVE Bindings
    OBVIOUS
  <2>1. pc = "start" /\ head = <<>> /\ fd = Root /\ sources = <<>> /\ answer = "none" BY DEF Init
  <2> QED BY <2>1 DEF Bindings, Ruled, InAside, Heard, OnTheWay, Gathered, Bound, Asides
<1>2. TypeOK /\ TypeOK' /\ Watched /\ Bindings /\ [Next]_vars => Bindings' BY StepKeepsBindings
<1>3. Bindings => StandingRuleBinds BY DEF Bindings, Quiet, Ruled, Bound, StandingRuleBinds
<1> QED BY <1>1, <1>2, <1>3, TypeCorrect, AlwaysWatched, PTL DEF Spec
=============================================================================
