---------------------------- MODULE GrantedRead ----------------------------
(***************************************************************************)
(* One read of the host's working copy for a path somebody else named:     *)
(* readGrantedFile and readGrantedPresence of companion/grant.ts, one      *)
(* system call per action, while a local writer renames and removes what   *)
(* the path goes through.                                                  *)
(*                                                                         *)
(* A directory read is one action, and a file's bytes do not change: a     *)
(* writer replaces it.  The shared folder itself stays.  Every call may    *)
(* fail with an error that says nothing of the name (EACCES, EMFILE, EIO): *)
(* the actions named ...Fails.                                             *)
(***************************************************************************)
EXTENDS Naturals, Sequences, SequencesExt

CONSTANTS
  Dirs, Files, Links,  \* the objects of the disk
  Root,                \* the shared folder
  Outside,             \* the objects that are not the folder's
  Target,              \* where each link leads
  Content,             \* each file: "text", "binary" or "large"
  Rule,                \* what a file says of the path when it is an ignore file:
                       \* "out", "in", or "ancestor": a directory above it is out
  Names,               \* the names that occur
  Segments, Leaf,      \* the path, as its directories and its last name
  Trees,               \* what the directories hold when the path is asked for
  Slots,               \* what the local writer may put under a name of a directory
  MaxMoves             \* bound: changes the writer makes during the read

Objects == Dirs \cup Files \cup Links
Absent == "absent"
NotDir == "not a directory"
Platforms == {"linux", "other", "windows"}

ASSUME DiskAssumption ==
  /\ Root \in Dirs \ Outside
  /\ Dirs \cap Links = {} /\ Files \cap (Dirs \cup Links) = {} /\ Outside \subseteq Dirs \cup Files
  /\ Absent \notin Objects /\ NotDir \notin Objects
  /\ Target \in [Links -> Dirs \cup Files]
  /\ Trees \subseteq [Dirs -> [Names -> Objects \cup {Absent}]]
  /\ Slots \in [Dirs -> [Names -> SUBSET Objects]]
  /\ Segments \in Seq(Names) /\ Leaf \in Names
  /\ {".git", "info", "exclude", ".gitignore"} \subseteq Names

\* What is outside is reached through links alone, and the writer keeps to that.
ASSUME FolderAssumption ==
  \A d \in Dirs \ Outside, n \in Names :
    /\ \A tree \in Trees : tree[d][n] \notin Outside
    /\ Slots[d][n] \cap Outside = {}

VARIABLES
  names,      \* the disk: what each directory holds under each name
  moves,      \* changes the writer made
  platform,   \* "linux" has PINNED_STEPS, "windows" no O_NOFOLLOW
  governing,  \* readGrantedFile, or FALSE for readGrantedPresence
  granted,    \* isGrantedPath of the path
  pc,         \* the next call
  fd, head,   \* the directory the walk is in: its descriptor, or its name
  entries,    \* the listing the loop decides by
  sources,    \* the ignore files read, lowest precedence first
  handles,    \* descriptors open
  answer, served,
  absentSeen, \* history: the path was not there at some moment since the ask
  ruleMoved,  \* history: a name an ignore file is found by changed since the ask
  unread      \* history: a call that looks for an ignore file failed

disk == <<names, moves, absentSeen, ruleMoved>>
ask == <<platform, governing, granted>>
place == <<fd, head, entries>>
vars == <<disk, ask, pc, place, sources, handles, answer, served, unread>>

pinned == platform = "linux"

\* The kernel's lookup of a name: a link on the way is followed.
Followed(o) == IF o \in Links THEN Target[o] ELSE o
Enter(tree, o, n) ==
  IF o = Absent THEN Absent
  ELSE IF Followed(o) \in Dirs THEN tree[Followed(o)][n] ELSE NotDir
Lookup(tree, path) ==
  LET at[i \in 0..Len(path)] == IF i = 0 THEN Root ELSE Enter(tree, at[i - 1], path[i])
  IN  at[Len(path)]

Path == Append(Segments, Leaf)

\* The directory the walk is in, held or looked up again, and a name in it.
Folder == IF pinned THEN fd ELSE Followed(Lookup(names, head))
At(n) == Enter(names, Folder, n)

kindOf(o) ==
  IF o \in Files THEN "file" ELSE IF o \in Dirs THEN "directory"
  ELSE IF o \in Links THEN "other" ELSE "none"
Listing(d) == [n \in Names |-> kindOf(names[d][n])]
holdsKind(listing, n, kind) == listing[n] = kind
holdsName(listing, n) == listing[n] # "none"

\* What an open for reading finds at a name: O_NOFOLLOW where there is one.
Opened(o) == IF platform = "windows" THEN Followed(o) ELSE o

isIgnoredPath(ignores) ==
  \/ \E i \in 1..Len(ignores) : Rule[ignores[i]] = "ancestor"
  \/ ignores # <<>> /\ Rule[Last(ignores)] = "out"

Init ==
  /\ names \in Trees /\ moves = 0
  /\ platform \in Platforms /\ governing \in BOOLEAN /\ granted \in BOOLEAN
  /\ pc = "start"
  /\ fd = Root /\ head = <<>> /\ entries = [n \in Names |-> "none"]
  /\ sources = <<>> /\ handles = 0
  /\ answer = "none" /\ served = Absent
  /\ absentSeen = (Lookup(names, Path) \notin Objects)
  /\ ruleMoved = FALSE /\ unread = FALSE

\* The names that an ignore file over the path is found by.
RuleNames == {".git", "info", "exclude", ".gitignore"} \cup Range(Segments)

(* The local writer.  A rename replaces a file or a link at once; a        *)
(* directory has to be moved away first, and is in one place only.         *)
Move ==
  /\ pc # "done" /\ moves < MaxMoves
  /\ \E d \in Dirs \ Outside, n \in Names : \E o \in Slots[d][n] \cup {Absent} :
       /\ o # names[d][n]
       /\ names[d][n] \in Dirs => o = Absent
       /\ o \in Dirs => \A e \in Dirs, k \in Names : names[e][k] # o
       /\ names' = [names EXCEPT ![d][n] = o]
       /\ ruleMoved' = (ruleMoved \/ n \in RuleNames)
  /\ moves' = moves + 1
  /\ absentSeen' = (absentSeen \/ Lookup(names', Path) \notin Objects)
  /\ UNCHANGED <<ask, pc, place, sources, handles, answer, served, unread>>
-----------------------------------------------------------------------------
(* Answers.  Every way out of the walk closes the directory it is in.      *)
Close == handles' = IF pinned THEN handles - 1 ELSE handles

Answer(what) == pc' = "done" /\ answer' = what

\* A slip: a listing that fails is taken for a name that is not there.
readRefusalMissing(o) == "missing"
readRefusal(o) == IF o = Absent THEN "missing" ELSE "unlisted"

presenceOf(cause) ==
  CASE cause = "unlisted" -> "unknown" [] cause = "missing" -> "missing" [] OTHER -> "refused"

Ends(cause) ==
  /\ Answer(IF ~governing THEN presenceOf(cause)
            ELSE IF cause = "unlisted" THEN "missing" ELSE cause)
  /\ Close
  /\ UNCHANGED served

Continues(at) == pc' = at /\ UNCHANGED <<handles, answer, served>>
-----------------------------------------------------------------------------
(* The start, and the folder itself.                                       *)
Start ==
  /\ pc = "start"
  /\ IF ~granted
     THEN Answer(IF governing THEN "not-granted" ELSE "refused") /\ UNCHANGED <<handles, served>>
     ELSE IF ~pinned THEN Continues("list")
     ELSE \/ /\ Answer(IF governing THEN "not-a-file" ELSE "refused")  \* the open fails
             /\ UNCHANGED <<handles, served>>
          \/ /\ handles' = handles + 1
             /\ pc' = IF governing THEN "git" ELSE "list"
             /\ UNCHANGED <<answer, served>>
  /\ UNCHANGED <<disk, ask, place, sources, unread>>

\* A slip: a name that is not listed leaves the directory open.
ProceedUnclosed(listing, depth) ==
  LET last == depth = Len(Segments)
      name == IF last THEN Leaf ELSE Segments[depth + 1]
  IN  IF holdsName(listing, name)
      THEN Continues(IF last THEN "leaf" ELSE "step")
      ELSE Answer("missing") /\ UNCHANGED <<handles, served>>

\* One turn of the loop: the directory's own ignore file, then the next name,
\* which has to be listed.
Proceed(listing, depth) ==
  LET last == depth = Len(Segments)
      name == IF last THEN Leaf ELSE Segments[depth + 1]
  IN  IF holdsName(listing, name)
      THEN Continues(IF last THEN "leaf" ELSE "step")
      ELSE Ends("missing")

Loop(listing, depth) ==
  IF governing /\ holdsKind(listing, ".gitignore", "file")
  THEN Continues("own") ELSE Proceed(listing, depth)

ListFails ==
  /\ pc = "list"
  /\ \E why \in (IF Folder = Absent THEN {Absent} ELSE {NotDir}) : Ends(readRefusal(why))
  /\ UNCHANGED <<disk, ask, place, sources, unread>>

\* The walk by name lists its root before it looks for the exclude file.
List ==
  /\ pc = "list"
  /\ Folder \in Dirs
  /\ entries' = Listing(Folder)
  /\ IF ~pinned /\ governing /\ head = <<>> THEN Continues("git") ELSE Loop(entries', Len(head))
  /\ UNCHANGED <<disk, ask, fd, head, sources, unread>>

\* readIgnoreText: a plain file that is text counts, anything else says nothing.
IgnoreText(o) == IF o \in Files /\ Content[o] # "binary" THEN <<o>> ELSE <<>>

\* A slip: a source read deeper is put under the ones above it.
ReadIgnoreFirst(name) ==
  \/ sources' = sources /\ unread' = TRUE
  \/ sources' = IgnoreText(Opened(At(name))) \o sources /\ UNCHANGED unread

ReadIgnore(name) ==
  \/ sources' = sources /\ unread' = TRUE
  \/ sources' = sources \o IgnoreText(Opened(At(name))) /\ UNCHANGED unread

Own ==
  /\ pc = "own"
  /\ ReadIgnore(".gitignore")
  /\ Proceed(entries, Len(head))
  /\ UNCHANGED <<disk, ask, place>>
-----------------------------------------------------------------------------
(* <root>/.git/info/exclude: repositoryExcludeIn, and rootIgnores by name. *)
ExcludeDone ==
  /\ fd' = Root /\ head' = <<>>
  /\ IF pinned
     THEN pc' = "list" /\ handles' = 1 /\ UNCHANGED <<answer, served>>
     ELSE Loop(entries, 0)

LooksAside(name, at) ==
  /\ pc' = at /\ fd' = At(name) /\ head' = Append(head, name)
  /\ handles' = handles + 1
  /\ UNCHANGED <<answer, served, unread>>

OpensAside(from, name, at) ==
  /\ pc = from /\ pinned
  /\ IF At(name) \in Dirs THEN LooksAside(name, at) ELSE ExcludeDone /\ UNCHANGED unread
  /\ UNCHANGED <<disk, ask, entries, sources>>

OpensGit == OpensAside("git", ".git", "info")
OpensInfo == OpensAside("info", "info", "list info")

AsideFails ==
  /\ \/ pc \in {"git", "info"} /\ pinned
     \/ pc = "git" /\ holdsKind(entries, ".git", "directory")
     \/ pc = "list info"
  /\ unread' = TRUE
  /\ ExcludeDone
  /\ UNCHANGED <<disk, ask, entries, sources>>

ListsGit ==
  /\ pc = "git" /\ ~pinned
  /\ LET git == Followed(Lookup(names, <<".git">>))
         held == holdsKind(entries, ".git", "directory") /\ git \in Dirs
     IN  IF held /\ holdsKind(Listing(git), "info", "directory")
         THEN /\ Continues("list info")
              /\ head' = <<".git", "info">>
              /\ UNCHANGED fd
         ELSE ExcludeDone
  /\ UNCHANGED <<disk, ask, entries, sources, unread>>

ListsInfo ==
  /\ pc = "list info"
  /\ IF Folder \in Dirs /\ holdsKind(Listing(Folder), "exclude", "file")
     THEN Continues("exclude") /\ UNCHANGED place
     ELSE ExcludeDone /\ UNCHANGED entries
  /\ UNCHANGED <<disk, ask, sources, unread>>

Exclude ==
  /\ pc = "exclude"
  /\ ReadIgnore("exclude")
  /\ ExcludeDone
  /\ UNCHANGED <<disk, ask, entries>>
-----------------------------------------------------------------------------
(* A step into the next directory: an open inside the descriptor with      *)
(* O_NOFOLLOW, or an lstat of the name.                                    *)
StepFails ==
  /\ pc = "step"
  /\ Ends(IF pinned THEN "not-a-file" ELSE readRefusal(NotDir))
  /\ UNCHANGED <<disk, ask, place, sources, unread>>

\* A slip: the step is opened without O_NOFOLLOW.
StepFollows ==
  /\ pc = "step"
  /\ LET name == Segments[Len(head) + 1]
         found == Followed(At(name))
     IN  IF found \in Dirs
         THEN /\ fd' = IF pinned THEN found ELSE fd
              /\ head' = Append(head, name)
              /\ Continues("list")
         ELSE Ends(IF found \in Objects THEN "not-a-file" ELSE readRefusal(found))
              /\ UNCHANGED <<fd, head>>
  /\ UNCHANGED <<disk, ask, entries, sources, unread>>

Step ==
  /\ pc = "step"
  /\ LET name == Segments[Len(head) + 1]
         found == At(name)
     IN  IF found \in Dirs
         THEN /\ fd' = IF pinned THEN found ELSE fd
              /\ head' = Append(head, name)
              /\ Continues("list")
         ELSE Ends(IF found \in Objects THEN "not-a-file" ELSE readRefusal(found))
              /\ UNCHANGED <<fd, head>>
  /\ UNCHANGED <<disk, ask, entries, sources, unread>>

(* The leaf: readLeaf's lstat, and the open the bytes come through.        *)
LeafFails ==
  /\ pc \in {"leaf", "open"}
  /\ \E cause \in (IF ~governing THEN {"unlisted"}
                   ELSE IF pc = "leaf" THEN {"missing"} ELSE {"not-a-file", "missing"}) :
       Ends(cause)
  /\ UNCHANGED <<disk, ask, place, sources, unread>>

LstatLeaf ==
  /\ pc = "leaf" /\ governing
  /\ LET o == At(Leaf)
     IN  IF o \notin Objects THEN Ends("missing")
         ELSE IF isIgnoredPath(sources) THEN Ends("not-granted")
         ELSE IF o \notin Files THEN Ends("not-a-file")
         ELSE IF Content[o] = "large" THEN Ends("too-large")
         ELSE Continues("open")
  /\ UNCHANGED <<disk, ask, place, sources, unread>>

OpenLeaf ==
  /\ pc = "open"
  /\ LET o == Opened(At(Leaf))
     IN  IF o = Absent THEN Ends("missing")
         ELSE IF o \notin Files THEN Ends("not-a-file")
         ELSE IF Content[o] = "large" THEN Ends("too-large")
         ELSE IF Content[o] = "binary" THEN Ends("binary")
         ELSE Answer("text") /\ served' = o /\ Close
  /\ UNCHANGED <<disk, ask, place, sources, unread>>

LeafPresence ==
  /\ pc = "leaf" /\ ~governing
  /\ LET o == At(Leaf)
     IN  /\ Answer(IF o \in Files THEN "present" ELSE IF o \in Objects THEN "refused"
                   ELSE IF o = Absent THEN "missing" ELSE "unknown")
         /\ Close
         /\ UNCHANGED served
  /\ UNCHANGED <<disk, ask, place, sources, unread>>

Read ==
  \/ Start \/ ListFails \/ List \/ Own
  \/ OpensGit \/ OpensInfo \/ AsideFails \/ ListsGit \/ ListsInfo \/ Exclude
  \/ StepFails \/ Step \/ LeafFails \/ LstatLeaf \/ OpenLeaf \/ LeafPresence
Next == Move \/ Read

Spec == Init /\ [][Next]_vars
-----------------------------------------------------------------------------
Calls == {"start", "list", "git", "info", "list info", "exclude", "own", "step",
          "leaf", "open", "done"}
Causes == {"missing", "not-granted", "not-a-file", "too-large", "binary"}

\* The descriptors a pinned read holds before each call.
Held ==
  CASE pc \in {"start", "done"} -> 0 [] pc = "info" -> 2
    [] pc \in {"list info", "exclude"} -> 3 [] OTHER -> 1

\* The shapes of the variables; the loop is never past the path's last
\* directory; and a read holds the descriptors of the directories it is in and
\* no other, so that every way out gives them back (grant.ts:418-420, 618-646).
TypeOK ==
  /\ names \in [Dirs -> [Names -> Objects \cup {Absent}]]
  /\ moves \in Nat /\ platform \in Platforms /\ governing \in BOOLEAN /\ granted \in BOOLEAN
  /\ pc \in Calls
  /\ fd \in Dirs /\ head \in Seq(Names)
  /\ pc \in {"start", "list", "own", "leaf", "open"} => Len(head) <= Len(Segments)
  /\ pc = "step" => Len(head) < Len(Segments)
  /\ entries \in [Names -> {"file", "directory", "other", "none"}]
  /\ sources \in Seq(Files)
  /\ handles = IF pinned THEN Held ELSE 0
  /\ answer \in {"none", "text", "present", "refused", "unknown"} \cup Causes
  /\ served \in Files \cup {Absent}
  /\ absentSeen \in BOOLEAN /\ ruleMoved \in BOOLEAN /\ unread \in BOOLEAN

\* Where steps are pinned, nothing that is not the folder's is served or rules
\* on what is, whatever the local writer swaps during the read
\* (grant.ts:349-356, 583-590).
ServedFromTheFolder ==
  pinned => /\ served \notin Outside
            /\ \A i \in 1..Len(sources) : sources[i] \notin Outside

\* The ignore files that stand over the path, read off the disk at once: the
\* repository's, then those of the path's directories from the root down.
Plain(d, n) == IF d \in Dirs /\ names[d][n] \notin Links THEN names[d][n] ELSE Absent
Down[i \in 0..Len(Segments)] == IF i = 0 THEN Root ELSE Plain(Down[i - 1], Segments[i])
Standing[i \in 0..Len(Segments) + 1] ==
  IF i = 0 THEN IgnoreText(Plain(Plain(Plain(Root, ".git"), "info"), "exclude"))
  ELSE Standing[i - 1] \o IgnoreText(Plain(Down[i - 1], ".gitignore"))
Governing == Standing[Len(Segments) + 1]

\* A rule that stood over the path all the while, and could be read, binds the
\* read: what it leaves out is not served, on any platform and however the
\* leaf is swapped (grant.ts:378-385, 777-779).
StandingRuleBinds ==
  answer = "text" /\ ~ruleMoved /\ ~unread => ~isIgnoredPath(Governing)

\* A presence read says `missing` only of a path that was not there at some
\* moment since it was asked; a fault is never taken for a deletion
\* (grant.ts:448-450, 512-514; session.ts:948-968 withholds a save on it).
MissingMeansAbsent ==
  answer = "missing" /\ ~governing => absentSeen
=============================================================================
