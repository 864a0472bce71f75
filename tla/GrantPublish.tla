---------------------------- MODULE GrantPublish ----------------------------
(***************************************************************************)
(* How a host keeps the room's listing of the shared folder up to date     *)
(* (companion/session.ts): the folder's watcher, the judgement of each     *)
(* event, the timer that gathers a burst, the readings of the folder, and  *)
(* the publication of what a reading found.                                *)
(*                                                                         *)
(* The folder belongs to other programs.  It changes between any two reads *)
(* of a walk, while an event is judged, and while a listing is published.  *)
(* Readings overlap, finish out of order, and outlive their session.       *)
(***************************************************************************)
EXTENDS Integers, Sequences

CONSTANTS Roots,       \* the folders a person may share
          Files,       \* the names a folder may hold, one level of them
          RulesFile,   \* the folder's own .gitignore, one of the names
          MaxSessions, \* how many sessions this process hosts
          Scenarios    \* how often the environment does each thing: one choice of these

Budgets == {"names", "sizes", "rewrites", "replacements", "early", "leaves",
            "failedWalks", "failedGrants", "failedWatches", "rosters"}

ASSUME RulesAreAFile == RulesFile \in Files
ASSUME SessionsAreCounted == MaxSessions \in Nat
ASSUME ScenariosAreCounts == Scenarios \subseteq [Budgets -> Nat]

NoSession == 0
NoTimer == [none |-> "timer"]
NoListing == [none |-> "listing"]

Kinds == {"absent", "small", "large"}

VARIABLES disk,        \* what each folder holds, by name
          ignored,     \* the names its .gitignore leaves out
          events,      \* what the live watcher has not delivered
          judging,     \* the calls of folderChanged that wait for an lstat
          timer,       \* grantRepublish: the folder to be read again
          readings,    \* grantReadings
          walks,       \* the readings under way
          granted,     \* grantedListing
          publishing,  \* the host's calls in the session's serial queue
          source,      \* the listing source the engine publishes from
          room,        \* the listing the room holds
          session,     \* the last session, its folder, and whether it is live
          watching,    \* grantWatcher is open
          told,        \* history: a failure was said and nothing settled since
          stale,       \* history: the room may end wrong and nobody be told (see below)
          left         \* what the environment may still do

folderVars == <<disk, ignored>>
vars == <<disk, ignored, events, judging, timer, readings, walks, granted,
          publishing, source, room, session, watching, told, stale, left>>

(***************************************************************************)
(* `stale` names every way for the room to end on a wrong listing without  *)
(* a word: a change no reading is owed for (`Owed`); a change or a reading *)
(* compared with a listing on its way out (`WriteEvent`,                   *)
(* `WalkFindsNothingNew`); a reading of another session's folder           *)
(* (`TimerFires`); and a refused listing that a roster's state carries to  *)
(* the room (`RosterPublished`, `GrantFails`).  The next session starts    *)
(* without it.                                                             *)
(***************************************************************************)

Spend(what) ==
    /\ left[what] > 0
    /\ left' = [left EXCEPT ![what] = @ - 1]

(* The session whose engine this process holds, or none.                   *)
engine == IF session.live THEN session.number ELSE NoSession

(***************************************************************************)
(* What the folder's listing is: a plain file, small enough, not ignored.  *)
(***************************************************************************)
Shareable(root, file) == disk[root][file] = "small"

ListingOf(root) == {file \in Files : Shareable(root, file) /\ file \notin ignored[root]}

(* What a listing was read by, beside the names it holds (history).        *)
Listing(paths, walk) ==
    [paths |-> paths, reading |-> walk.reading, session |-> walk.session,
     root |-> walk.root]

Init ==
    /\ disk \in [Roots -> {kinds \in [Files -> Kinds] : kinds[RulesFile] = "small"}]
    /\ ignored = [root \in Roots |-> {}]
    /\ events = {}
    /\ judging = {}
    /\ timer = NoTimer
    /\ readings = 0
    /\ walks = {}
    /\ granted = NoListing
    /\ publishing = <<>>
    /\ \E root \in Roots :
          session = [number |-> NoSession, root |-> root, live |-> FALSE]
    /\ source = [paths |-> {}, reading |-> 0, session |-> NoSession, root |-> session.root]
    /\ room = source
    /\ watching = FALSE
    /\ told = FALSE
    /\ stale = FALSE
    /\ left \in Scenarios

(***************************************************************************)
(* The folder.  A watcher that is open is owed one event for every change, *)
(* and delivers it later; equal events that wait are one.                  *)
(***************************************************************************)
Opening == \E walk \in walks : walk.reading = 0

(* A change counts while the session hosts the folder.  One that falls     *)
(* between the first reading and the watcher is an "early" one.  No        *)
(* reading is owed for that, nor for rules written in place.               *)
Owed(type, file, what) ==
    /\ IF session.live
       THEN /\ Spend(what)
            /\ events' = IF watching THEN events \cup {[type |-> type, path |-> file]}
                                     ELSE events
       ELSE Opening /\ Spend("early") /\ UNCHANGED events
    /\ stale' = (stale \/ ~session.live \/ (type = "change" /\ file = RulesFile))

FolderStays ==
    UNCHANGED <<judging, timer, readings, walks, granted, publishing, source,
                room, session, watching, told>>

(* A file is created, deleted, or renamed into place.                      *)
NameChanges(file, kind) ==
    /\ file # RulesFile
    /\ (disk[session.root][file] = "absent") # (kind = "absent")
    /\ disk' = [disk EXCEPT ![session.root][file] = kind]
    /\ Owed("rename", file, "names")
    /\ UNCHANGED ignored
    /\ FolderStays

(* A file is written and crosses the size bound of a listing.              *)
SizeChanges(file) ==
    /\ file # RulesFile
    /\ disk[session.root][file] # "absent"
    /\ disk' = [disk EXCEPT ![session.root][file] =
                    IF @ = "small" THEN "large" ELSE "small"]
    /\ Owed("change", file, "sizes")
    /\ UNCHANGED ignored
    /\ FolderStays

(* The .gitignore is written in place, or replaced by a new file.          *)
RulesChange(names, type, what) ==
    /\ names # ignored[session.root]
    /\ ignored' = [ignored EXCEPT ![session.root] = names]
    /\ Owed(type, RulesFile, what)
    /\ UNCHANGED disk
    /\ FolderStays

Folder ==
    \/ \E file \in Files, kind \in Kinds : NameChanges(file, kind)
    \/ \E file \in Files : SizeChanges(file)
    \/ \E names \in SUBSET (Files \ {RulesFile}) :
          \/ RulesChange(names, "change", "rewrites")
          \/ RulesChange(names, "rename", "replacements")

(***************************************************************************)
(* The watcher's events (`folderChanged`).                                 *)
(***************************************************************************)

(* A slip: a change during a reading is left to that reading.              *)
ScheduledUnlessReading(root) ==
    IF timer = NoTimer /\ walks = {} THEN [root |-> root] ELSE timer

(* The first event of a burst sets the timer, the others leave it alone.   *)
Scheduled(root) == IF timer = NoTimer THEN [root |-> root] ELSE timer

(* A listing that the room will not hold much longer.                      *)
Changing == publishing # <<>> \/ \E walk \in walks : walk.session = engine

(* A slip: only a name the listing holds can move it.                      *)
NameEventOfListed(event) ==
    /\ event \in events
    /\ events' = events \ {event}
    /\ event.type # "change" \/ granted = NoListing
    /\ timer' = IF granted = NoListing \/ event.path \in granted.paths \/ event.path = RulesFile
                THEN Scheduled(session.root) ELSE timer
    /\ UNCHANGED <<disk, ignored, judging, readings, walks, granted, publishing,
                   source, room, session, watching, told, stale, left>>

(* Anything but a write to a named file may move the listing.              *)
NameEvent(event) ==
    /\ event \in events
    /\ events' = events \ {event}
    /\ event.type # "change" \/ granted = NoListing
    /\ timer' = Scheduled(session.root)
    /\ UNCHANGED <<disk, ignored, judging, readings, walks, granted, publishing,
                   source, room, session, watching, told, stale, left>>

(* A write is compared with what the listing held when the event came.     *)
WriteEvent(event) ==
    /\ event \in events
    /\ events' = events \ {event}
    /\ event.type = "change" /\ granted # NoListing
    /\ judging' = judging \cup {[path |-> event.path, root |-> session.root,
                                 listed |-> granted.paths, seen |-> "asked"]}
    /\ stale' = (stale \/ Changing)
    /\ UNCHANGED <<disk, ignored, timer, readings, walks, granted, publishing,
                   source, room, session, watching, told, left>>

(* The lstat reads the disk.                                               *)
LstatReads(judgement) ==
    /\ judgement \in judging
    /\ judgement.seen = "asked"
    /\ judging' = (judging \ {judgement}) \cup
          {[judgement EXCEPT !.seen =
                IF Shareable(judgement.root, judgement.path) THEN "shareable" ELSE "not"]}
    /\ UNCHANGED <<disk, ignored, events, timer, readings, walks, granted,
                   publishing, source, room, session, watching, told, stale, left>>

(* The continuation of the lstat.  It asks nothing about the session.      *)
JudgementReturns(judgement) ==
    /\ judgement \in judging
    /\ judgement.seen # "asked"
    /\ judging' = judging \ {judgement}
    /\ timer' = IF (judgement.seen = "shareable") # (judgement.path \in judgement.listed)
                THEN Scheduled(judgement.root)
                ELSE timer
    /\ UNCHANGED <<disk, ignored, events, readings, walks, granted, publishing,
                   source, room, session, watching, told, stale, left>>

(***************************************************************************)
(* The readings of the folder (`publishGrant`, `hosting`).                 *)
(***************************************************************************)
Walk(root, reading, number) ==
    [root |-> root, reading |-> reading, session |-> number,
     entered |-> FALSE, unread |-> {}, got |-> {}]

(* A slip: the reading takes the next number without counting it.          *)
TimerFiresUncounted ==
    /\ timer # NoTimer
    /\ timer' = NoTimer
    /\ walks' = IF session.live
                THEN walks \cup {Walk(timer.root, readings + 1, engine)}
                ELSE walks
    /\ stale' = (stale \/ (session.live /\ timer.root # session.root))
    /\ UNCHANGED <<disk, ignored, events, judging, readings, granted, publishing,
                   source, room, session, watching, told, left>>

(* The folder read is the one the timer was set for, which an lstat of the *)
(* session before may have done; the reading is the live session's.        *)
TimerFires ==
    /\ timer # NoTimer
    /\ timer' = NoTimer
    /\ stale' = (stale \/ (session.live /\ timer.root # session.root))
    /\ IF session.live
       THEN /\ readings' = readings + 1
            /\ walks' = walks \cup {Walk(timer.root, readings + 1, engine)}
       ELSE UNCHANGED <<readings, walks>>
    /\ UNCHANGED <<disk, ignored, events, judging, granted, publishing, source,
                   room, session, watching, told, left>>

(* The walk lists the directory and reads its .gitignore.                  *)
WalkEnters(walk) ==
    /\ walk \in walks
    /\ ~walk.entered
    /\ walks' = (walks \ {walk}) \cup
          {[walk EXCEPT !.entered = TRUE,
                        !.unread = {file \in Files : disk[walk.root][file] # "absent"}
                                    \ ignored[walk.root]]}
    /\ UNCHANGED <<disk, ignored, events, judging, timer, readings, granted,
                   publishing, source, room, session, watching, told, stale, left>>

(* The walk asks for one file's size.  It goes in name order, which the    *)
(* properties do not depend on.                                            *)
WalkReads(walk, file) ==
    /\ walk \in walks
    /\ walk.entered
    /\ file \in walk.unread
    /\ walks' = (walks \ {walk}) \cup
          {[walk EXCEPT !.unread = @ \ {file},
                        !.got = IF Shareable(walk.root, file) THEN @ \cup {file} ELSE @]}
    /\ UNCHANGED <<disk, ignored, events, judging, timer, readings, granted,
                   publishing, source, room, session, watching, told, stale, left>>

Finished(walk) == walk \in walks /\ walk.entered /\ walk.unread = {}

(* A reading that is not the last one started, or whose session is over,   *)
(* has nothing to say.                                                     *)
Current(walk) == walk.reading = readings /\ walk.session = engine

WalkSuperseded(walk) ==
    /\ Finished(walk)
    /\ walk.reading # 0
    /\ ~Current(walk)
    /\ walks' = walks \ {walk}
    /\ UNCHANGED <<disk, ignored, events, judging, timer, readings, granted,
                   publishing, source, room, session, watching, told, stale, left>>

(* The listing is what it was: there is nothing to publish.                *)
WalkFindsNothingNew(walk) ==
    /\ Finished(walk)
    /\ walk.reading # 0
    /\ Current(walk)
    /\ granted = [paths |-> walk.got]
    /\ walks' = walks \ {walk}
    /\ told' = FALSE
    /\ stale' = (stale \/ publishing # <<>>)
    /\ UNCHANGED <<disk, ignored, events, judging, timer, readings, granted,
                   publishing, source, room, session, watching, left>>

(* `engine.grant`: the source is replaced at once, the publication waits   *)
(* for its turn in the session's queue.                                    *)
Grant(walk) ==
    /\ walks' = walks \ {walk}
    /\ source' = Listing(walk.got, walk)
    /\ publishing' = Append(publishing, Listing(walk.got, walk))
    /\ told' = FALSE
    /\ UNCHANGED <<disk, ignored, events, judging, timer, readings, granted, room,
                   session, watching, stale, left>>

(* A slip: any reading is as good as the last one.                         *)
WalkGrantsInAnyOrder(walk) ==
    /\ Finished(walk)
    /\ walk.reading # 0
    /\ walk.session = engine
    /\ granted # [paths |-> walk.got]
    /\ Grant(walk)

(* A slip: nobody asks whether the session the reading was for is over.    *)
WalkGrantsAnyRoom(walk) ==
    /\ Finished(walk)
    /\ walk.reading # 0
    /\ walk.reading = readings /\ session.live
    /\ granted # [paths |-> walk.got]
    /\ Grant(walk)

WalkGrants(walk) ==
    /\ Finished(walk)
    /\ walk.reading # 0
    /\ Current(walk)
    /\ granted # [paths |-> walk.got]
    /\ Grant(walk)

(* The first reading throws: the person is told, and the room is minted    *)
(* with an empty listing.                                                  *)
FirstWalkFails(walk) ==
    /\ walk \in walks
    /\ walk.reading = 0
    /\ Spend("failedWalks")
    /\ walks' = (walks \ {walk}) \cup
          {[walk EXCEPT !.entered = TRUE, !.unread = {}, !.got = {}]}
    /\ told' = TRUE
    /\ UNCHANGED <<disk, ignored, events, judging, timer, readings, granted,
                   publishing, source, room, session, watching, stale>>

(* A later one throws: the person is told, if the session is still live.   *)
WalkFails(walk) ==
    /\ walk \in walks
    /\ walk.reading # 0
    /\ Spend("failedWalks")
    /\ walks' = walks \ {walk}
    /\ told' = (told \/ walk.session = engine)
    /\ UNCHANGED <<disk, ignored, events, judging, timer, readings, granted,
                   publishing, source, room, session, watching, stale>>

(***************************************************************************)
(* The publications.  The engine runs one at a time, and each one carries  *)
(* the listing the source holds when its turn comes.                       *)
(***************************************************************************)
Published ==
    /\ publishing # <<>>
    /\ publishing' = Tail(publishing)
    /\ room' = IF Head(publishing).session = engine THEN source ELSE room
    /\ granted' = [paths |-> Head(publishing).paths]
    /\ UNCHANGED <<disk, ignored, events, judging, timer, readings, walks, source,
                   session, watching, told, stale, left>>

(* The publication throws: the listing is not remembered as the room's,    *)
(* which a roster's state may have carried there already.                  *)
GrantFails ==
    /\ publishing # <<>>
    /\ Spend("failedGrants")
    /\ publishing' = Tail(publishing)
    /\ told' = (told \/ Head(publishing).session = engine)
    /\ stale' = (stale \/ granted # [paths |-> room.paths])
    /\ UNCHANGED <<disk, ignored, events, judging, timer, readings, walks, granted,
                   source, room, session, watching>>

(* A peer comes or goes: the state that says so carries the source too,    *)
(* which may be a listing that was refused.                                *)
RosterPublished ==
    /\ session.live
    /\ Spend("rosters")
    /\ room' = source
    /\ stale' = (stale \/ (publishing = <<>> /\ granted # [paths |-> source.paths]))
    /\ UNCHANGED <<disk, ignored, events, judging, timer, readings, walks, granted,
                   publishing, source, session, watching, told>>

(***************************************************************************)
(* The sessions.                                                           *)
(***************************************************************************)

(* `host`: the folder is read before the room is minted.  A publication    *)
(* of the session before waits for nothing but this process, and is over   *)
(* before the server has minted another room.                              *)
Host(root) ==
    /\ ~session.live /\ ~Opening
    /\ session.number < MaxSessions
    /\ publishing = <<>>
    /\ session' = [number |-> session.number + 1, root |-> root, live |-> FALSE]
    /\ walks' = walks \cup {Walk(root, 0, session.number + 1)}
    /\ told' = FALSE
    /\ stale' = FALSE
    /\ UNCHANGED <<disk, ignored, events, judging, timer, readings, granted,
                   publishing, source, room, watching, left>>

(* The room is minted with that listing, and the watcher opened after it.  *)
Minted(walk) ==
    /\ Finished(walk)
    /\ walk.reading = 0
    /\ walks' = walks \ {walk}
    /\ session' = [session EXCEPT !.live = TRUE]
    /\ granted' = [paths |-> walk.got]
    /\ source' = Listing(walk.got, walk)
    /\ room' = Listing(walk.got, walk)
    /\ watching' = TRUE
    /\ UNCHANGED <<disk, ignored, events, judging, timer, readings, publishing,
                   told, stale, left>>

(* `stopWatching`.                                                         *)
StopWatching ==
    /\ timer' = NoTimer
    /\ events' = {}
    /\ watching' = FALSE
    /\ granted' = NoListing

(* `leave`, asked for by the person or by the engine's last event.         *)
Leave ==
    /\ session.live
    /\ Spend("leaves")
    /\ session' = [session EXCEPT !.live = FALSE]
    /\ StopWatching
    /\ UNCHANGED <<disk, ignored, judging, readings, walks, publishing, source,
                   room, told, stale>>

(* The mint is refused, or the server is not there.                        *)
MintFails(walk) ==
    /\ Finished(walk)
    /\ walk.reading = 0
    /\ Spend("leaves")
    /\ walks' = walks \ {walk}
    /\ UNCHANGED <<disk, ignored, events, judging, timer, readings, granted,
                   publishing, source, room, session, watching, told, stale>>

(* The watcher reports an error, and is closed.                            *)
WatchFails ==
    /\ watching
    /\ Spend("failedWatches")
    /\ StopWatching
    /\ told' = TRUE
    /\ UNCHANGED <<disk, ignored, judging, readings, walks, publishing, source,
                   room, session, stale>>

(***************************************************************************)
(* What this process does by itself.                                       *)
(***************************************************************************)
System ==
    \/ \E event \in events : NameEvent(event) \/ WriteEvent(event)
    \/ \E judgement \in judging : LstatReads(judgement) \/ JudgementReturns(judgement)
    \/ TimerFires
    \/ \E walk \in walks :
          \/ WalkEnters(walk)
          \/ \E file \in Files : WalkReads(walk, file)
          \/ WalkSuperseded(walk)
          \/ WalkFindsNothingNew(walk)
          \/ WalkGrants(walk)
          \/ Minted(walk)
    \/ Published

Environment ==
    \/ Folder
    \/ \E walk \in walks : FirstWalkFails(walk) \/ WalkFails(walk) \/ MintFails(walk)
    \/ GrantFails
    \/ RosterPublished
    \/ \E root \in Roots : Host(root)
    \/ Leave
    \/ WatchFails

Next == System \/ Environment

Spec == Init /\ [][Next]_vars

(* The process has something left to do: `System` is enabled exactly then. *)
Ready ==
    \/ events # {}
    \/ judging # {}
    \/ timer # NoTimer
    \/ walks # {}
    \/ publishing # <<>>

(* Weak fairness of `System`, with its enabling condition written out:     *)
(* reads come back, the timer runs out and the engine takes its turn.      *)
Fairness == []<>~Ready \/ []<><<System>>_vars

FairSpec == Spec /\ Fairness

(***************************************************************************)
(* Properties.                                                             *)
(***************************************************************************)
Listings == [paths : SUBSET Files, reading : 0 .. readings, session : Nat,
             root : Roots]

Judgements == [path : Files, root : Roots, listed : SUBSET Files,
               seen : {"asked", "shareable", "not"}]

Walks == [root : Roots, reading : 0 .. readings, session : Nat, entered : BOOLEAN,
          unread : SUBSET Files, got : SUBSET Files]

(* The variables keep their shapes, and no reading is numbered past the    *)
(* last one started.                                                       *)
TypeOK ==
    /\ disk \in [Roots -> [Files -> Kinds]]
    /\ ignored \in [Roots -> SUBSET Files]
    /\ events \subseteq [type : {"change", "rename"}, path : Files]
    /\ judging \subseteq Judgements
    /\ timer \in {NoTimer} \cup [root : Roots]
    /\ readings \in Nat
    /\ walks \subseteq Walks
    /\ granted \in {NoListing} \cup [paths : SUBSET Files]
    /\ publishing \in Seq(Listings)
    /\ source \in Listings
    /\ room \in Listings
    /\ session \in [number : Nat, root : Roots, live : BOOLEAN]
    /\ watching \in BOOLEAN
    /\ told \in BOOLEAN
    /\ stale \in BOOLEAN
    /\ left \in [Budgets -> Nat]

(* A room is never put back on a reading of the folder that was started    *)
(* before the one it holds, in whatever order the readings finish.         *)
NeverAnOlderReading ==
    [][session.live /\ session'.live => room'.reading >= room.reading]_vars

(* What a room lists was read for that very session: a walk that outlives  *)
(* its session says nothing to the next one.  It was read from that        *)
(* session's folder, unless a timer was set by the session before.         *)
ReadForThisSession ==
    session.live =>
        /\ room.session = session.number /\ source.session = session.number
        /\ ~stale => room.root = session.root /\ source.root = session.root

AtRest == session.live /\ watching /\ ~Ready

RoomIsUpToDate == room.paths = ListingOf(session.root)

(* When nothing is left to do and the folder is still watched, the room    *)
(* lists the folder as it is, unless the person was told of a failure or   *)
(* one of the causes that `stale` names came before.                       *)
SettledUnlessStale == AtRest /\ ~told /\ ~stale => RoomIsUpToDate

(* The watcher never stops being heard: in the end the room lists the      *)
(* folder as it is at every moment, but for these: the session is over,    *)
(* the folder is not watched any more (its watcher failed, which was told  *)
(* then), a failure was told, or one of the causes that `stale` names came *)
(* before.  After such a cause the code may stay live, watching and wrong  *)
(* without a word.                                                         *)
ListingSettles ==
    <>[](session.live /\ watching /\ ~told /\ ~stale => RoomIsUpToDate)
=============================================================================
