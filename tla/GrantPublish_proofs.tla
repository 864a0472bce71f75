------------------------- MODULE GrantPublish_proofs -------------------------
(***************************************************************************)
(* Proofs about GrantPublish, for every set of folders and names, every    *)
(* number of sessions and every bound: the variables keep their shapes,    *)
(* what a room lists was read for its own session, a room is never put     *)
(* back on an older reading, and it ends on the folder's listing but for   *)
(* the causes that `stale` names.                                          *)
(***************************************************************************)
EXTENDS GrantPublish, TLAPS

(***************************************************************************)
(* What the steps of the type proof have in common.                        *)
(***************************************************************************)

(* Listings and walks typed before a step are typed after it, as long as   *)
(* the count of readings has not gone back.                                *)
LEMMA ReadingsGrow ==
    ASSUME readings \in Nat, readings' \in Nat, readings <= readings'
    PROVE  /\ Listings \subseteq Listings'
           /\ Walks \subseteq Walks'
           /\ Seq(Listings) \subseteq Seq(Listings')
<1>1. Listings \subseteq Listings'
  BY DEF Listings
<1>2. Walks \subseteq Walks'
  BY DEF Walks
<1>3. Seq(Listings) \subseteq Seq(Listings')
  BY <1>1
<1>4. QED
  BY <1>1, <1>2, <1>3

(* A step that counts no reading leaves listings and walks as typed.       *)
LEMMA SameReadings ==
    ASSUME UNCHANGED readings
    PROVE  Listings' = Listings /\ Walks' = Walks
BY DEF Listings, Walks

(* Spending keeps the budgets counted.                                     *)
LEMMA SpendTyped ==
    ASSUME left \in [Budgets -> Nat], NEW what, Spend(what)
    PROVE  left' \in [Budgets -> Nat]
<1>1. CASE what \in Budgets
  BY <1>1 DEF Spend
<1>2. CASE what \notin Budgets
  BY <1>2 DEF Spend
<1>3. QED
  BY <1>1, <1>2

(* A change of the folder keeps what it owes the watcher in shape.         *)
LEMMA OwedTyped ==
    ASSUME events \subseteq [type : {"change", "rename"}, path : Files],
           left \in [Budgets -> Nat],
           NEW type \in {"change", "rename"}, NEW file \in Files, NEW what,
           Owed(type, file, what)
    PROVE  /\ events' \subseteq [type : {"change", "rename"}, path : Files]
           /\ left' \in [Budgets -> Nat]
           /\ stale' \in BOOLEAN
<1>1. stale' \in BOOLEAN
  BY DEF Owed
<1>2. CASE session.live
  BY <1>1, <1>2, SpendTyped DEF Owed
<1>3. CASE ~session.live
  BY <1>1, <1>3, SpendTyped DEF Owed
<1>4. QED
  BY <1>2, <1>3

(* Setting the timer leaves it set to a folder.                            *)
LEMMA ScheduledTyped ==
    ASSUME timer \in {NoTimer} \cup [root : Roots], NEW root \in Roots
    PROVE  Scheduled(root) \in {NoTimer} \cup [root : Roots]
BY DEF Scheduled

(* What `stopWatching` forgets, it leaves in shape.                        *)
LEMMA StopWatchingTyped ==
    ASSUME StopWatching
    PROVE  /\ timer' \in {NoTimer} \cup [root : Roots]
           /\ events' \subseteq [type : {"change", "rename"}, path : Files]
           /\ watching' \in BOOLEAN
           /\ granted' \in {NoListing} \cup [paths : SUBSET Files]
BY DEF StopWatching

(* A reading starts in shape.                                              *)
LEMMA WalkTyped ==
    ASSUME readings \in Nat, NEW root \in Roots, NEW reading \in 0 .. readings,
           NEW number \in Nat
    PROVE  Walk(root, reading, number) \in Walks
BY DEF Walk, Walks

(* What a finished reading found is a listing.                             *)
LEMMA ListingTyped ==
    ASSUME NEW walk \in Walks
    PROVE  /\ Listing(walk.got, walk) \in Listings
           /\ [paths |-> walk.got] \in [paths : SUBSET Files]
BY DEF Listing, Listings, Walks

(* The queue of publications stays a queue of listings.                    *)
LEMMA QueueTyped ==
    ASSUME publishing \in Seq(Listings), publishing # <<>>
    PROVE  /\ Tail(publishing) \in Seq(Listings)
           /\ Head(publishing) \in Listings
OBVIOUS

(***************************************************************************)
(* The variables keep their shapes, and no reading is numbered past the    *)
(* last one started (GrantPublish!TypeOK).                                 *)
(***************************************************************************)
THEOREM TypeCorrect == Spec => []TypeOK
<1>1. Init => TypeOK
  <2> SUFFICES ASSUME Init PROVE TypeOK
    OBVIOUS
  <2>1. disk \in [Roots -> [Files -> Kinds]]
    BY DEF Init
  <2>2. session \in [number : Nat, root : Roots, live : BOOLEAN]
    BY DEF Init, NoSession
  <2>3. source \in Listings /\ room \in Listings
    BY <2>2 DEF Init, Listings, NoSession
  <2>4. left \in [Budgets -> Nat]
    BY ScenariosAreCounts DEF Init
  <2>5. publishing \in Seq(Listings)
    BY DEF Init
  <2>6. QED
    BY <2>1, <2>2, <2>3, <2>4, <2>5 DEF Init, TypeOK
<1>2. TypeOK /\ [Next]_vars => TypeOK'
  <2> SUFFICES ASSUME TypeOK, [Next]_vars
               PROVE  TypeOK'
    OBVIOUS
  <2>1. ASSUME NEW event \in events, NameEvent(event)
        PROVE  TypeOK'
    BY <2>1, SameReadings, ScheduledTyped DEF TypeOK, NameEvent
  <2>2. ASSUME NEW event \in events, WriteEvent(event)
        PROVE  TypeOK'
    <3>1. event.path \in Files /\ granted.paths \in SUBSET Files
      BY <2>2 DEF TypeOK, WriteEvent
    <3>2. [path |-> event.path, root |-> session.root, listed |-> granted.paths,
           seen |-> "asked"] \in Judgements
      BY <3>1 DEF TypeOK, Judgements
    <3>3. stale' \in BOOLEAN
      BY <2>2 DEF TypeOK, WriteEvent, Changing
    <3>4. QED
      BY <2>2, <3>2, <3>3, SameReadings DEF TypeOK, WriteEvent
  <2>3. ASSUME NEW judgement \in judging, LstatReads(judgement)
        PROVE  TypeOK'
    <3>1. [judgement EXCEPT !.seen =
              IF Shareable(judgement.root, judgement.path) THEN "shareable" ELSE "not"]
            \in Judgements
      BY DEF TypeOK, Judgements
    <3>2. QED
      BY <2>3, <3>1, SameReadings DEF TypeOK, LstatReads
  <2>4. ASSUME NEW judgement \in judging, JudgementReturns(judgement)
        PROVE  TypeOK'
    <3>1. judgement.root \in Roots
      BY DEF TypeOK, Judgements
    <3>2. timer' \in {NoTimer} \cup [root : Roots]
      BY <2>4, <3>1, ScheduledTyped DEF TypeOK, JudgementReturns
    <3>3. QED
      BY <2>4, <3>2, SameReadings DEF TypeOK, JudgementReturns
  <2>5. CASE TimerFires
    <3>1. timer.root \in Roots /\ engine \in Nat
      BY <2>5 DEF TypeOK, TimerFires, engine, NoSession
    <3>2. readings' \in Nat /\ readings <= readings'
      BY <2>5 DEF TypeOK, TimerFires
    <3>3. /\ Listings \subseteq Listings'
          /\ Walks \subseteq Walks'
          /\ Seq(Listings) \subseteq Seq(Listings')
      BY <3>2, ReadingsGrow DEF TypeOK
    <3>4. session.live => Walk(timer.root, readings + 1, engine) \in Walks'
      BY <2>5, <3>1 DEF TypeOK, TimerFires, Walk, Walks
    <3>5. walks' \subseteq Walks'
      BY <2>5, <3>3, <3>4 DEF TypeOK, TimerFires
    <3>6. QED
      BY <2>5, <3>2, <3>3, <3>5 DEF TypeOK, TimerFires
  <2>6. ASSUME NEW walk \in walks, WalkEnters(walk)
        PROVE  TypeOK'
    <3>1. [walk EXCEPT !.entered = TRUE,
                       !.unread = {file \in Files : disk[walk.root][file] # "absent"}
                                   \ ignored[walk.root]] \in Walks
      BY DEF TypeOK, Walks
    <3>2. QED
      BY <2>6, <3>1, SameReadings DEF TypeOK, WalkEnters
  <2>7. ASSUME NEW walk \in walks, NEW file \in Files, WalkReads(walk, file)
        PROVE  TypeOK'
    <3>1. [walk EXCEPT !.unread = @ \ {file},
                       !.got = IF Shareable(walk.root, file) THEN @ \cup {file} ELSE @]
            \in Walks
      BY ZenonT(60) DEF TypeOK, Walks
    <3>2. QED
      BY <2>7, <3>1, SameReadings DEF TypeOK, WalkReads
  <2>8. ASSUME NEW walk \in walks, WalkSuperseded(walk)
        PROVE  TypeOK'
    BY <2>8, SameReadings DEF TypeOK, WalkSuperseded
  <2>9. ASSUME NEW walk \in walks, WalkFindsNothingNew(walk)
        PROVE  TypeOK'
    BY <2>9, SameReadings DEF TypeOK, WalkFindsNothingNew
  <2>10. ASSUME NEW walk \in walks, WalkGrants(walk)
         PROVE  TypeOK'
    <3>1. Listing(walk.got, walk) \in Listings
      BY ListingTyped DEF TypeOK
    <3>2. source' \in Listings /\ publishing' \in Seq(Listings)
      BY <2>10, <3>1 DEF TypeOK, WalkGrants, Grant
    <3>3. stale' \in BOOLEAN /\ told' \in BOOLEAN
      BY <2>10 DEF TypeOK, WalkGrants, Grant
    <3>4. QED
      BY <2>10, <3>2, <3>3, SameReadings DEF TypeOK, WalkGrants, Grant
  <2>11. ASSUME NEW walk \in walks, Minted(walk)
         PROVE  TypeOK'
    <3>1. /\ Listing(walk.got, walk) \in Listings
          /\ [paths |-> walk.got] \in [paths : SUBSET Files]
      BY ListingTyped DEF TypeOK
    <3>2. QED
      BY <2>11, <3>1, SameReadings DEF TypeOK, Minted
  <2>12. CASE Published
    <3>1. Head(publishing).paths \in SUBSET Files /\ Tail(publishing) \in Seq(Listings)
      BY <2>12, QueueTyped DEF TypeOK, Published, Listings
    <3>2. QED
      BY <2>12, <3>1, SameReadings DEF TypeOK, Published
  <2>13. ASSUME NEW file \in Files, NEW kind \in Kinds, NameChanges(file, kind)
         PROVE  TypeOK'
    BY <2>13, OwedTyped, SameReadings DEF TypeOK, NameChanges, FolderStays
  <2>14. ASSUME NEW file \in Files, SizeChanges(file)
         PROVE  TypeOK'
    <3>1. disk' \in [Roots -> [Files -> Kinds]]
      BY <2>14 DEF TypeOK, SizeChanges, Kinds
    <3>2. QED
      BY <2>14, <3>1, OwedTyped, SameReadings DEF TypeOK, SizeChanges, FolderStays
  <2>15. ASSUME NEW names \in SUBSET (Files \ {RulesFile}),
                NEW type \in {"change", "rename"}, NEW what,
                RulesChange(names, type, what)
         PROVE  TypeOK'
    BY <2>15, RulesAreAFile, OwedTyped, SameReadings DEF TypeOK, RulesChange, FolderStays
  <2>16. ASSUME NEW walk \in walks, FirstWalkFails(walk)
         PROVE  TypeOK'
    <3>1. [walk EXCEPT !.entered = TRUE, !.unread = {}, !.got = {}] \in Walks
      BY ZenonT(60) DEF TypeOK, Walks
    <3>2. QED
      BY <2>16, <3>1, SpendTyped, SameReadings DEF TypeOK, FirstWalkFails
  <2>17. ASSUME NEW walk \in walks, WalkFails(walk) \/ MintFails(walk)
         PROVE  TypeOK'
    BY <2>17, SpendTyped, SameReadings DEF TypeOK, WalkFails, MintFails
  <2>18. CASE GrantFails
    BY <2>18, QueueTyped, SpendTyped, SameReadings DEF TypeOK, GrantFails
  <2>19. CASE RosterPublished
    BY <2>19, SpendTyped, SameReadings DEF TypeOK, RosterPublished
  <2>20. ASSUME NEW root \in Roots, Host(root)
         PROVE  TypeOK'
    <3>1. Walk(root, 0, session.number + 1) \in Walks
      BY WalkTyped DEF TypeOK
    <3>2. session' \in [number : Nat, root : Roots, live : BOOLEAN]
      BY <2>20 DEF TypeOK, Host
    <3>3. walks' \subseteq Walks
      BY <2>20, <3>1 DEF TypeOK, Host
    <3>4. QED
      BY <2>20, <3>2, <3>3, SameReadings DEF TypeOK, Host
  <2>21. CASE Leave
    BY <2>21, StopWatchingTyped, SpendTyped, SameReadings DEF TypeOK, Leave
  <2>22. CASE WatchFails
    BY <2>22, StopWatchingTyped, SpendTyped, SameReadings DEF TypeOK, WatchFails
  <2>23. CASE UNCHANGED vars
    BY <2>23, SameReadings DEF TypeOK, vars
  <2>24. QED
    BY <2>1, <2>2, <2>3, <2>4, <2>5, <2>6, <2>7, <2>8, <2>9, <2>10, <2>11, <2>12,
       <2>13, <2>14, <2>15, <2>16, <2>17, <2>18, <2>19, <2>20, <2>21, <2>22, <2>23
    DEF Next, System, Environment, Folder
<1>3. QED
  BY <1>1, <1>2, PTL DEF Spec

(***************************************************************************)
(* What the rooms' properties rest on.  At most one first reading is under *)
(* way, and only while no session is live; the listing the engine would    *)
(* publish next was read for the live session, and is not older than the   *)
(* room's; and a session's readings are of its own folder, until a timer   *)
(* of another fires in it.                                                 *)
(***************************************************************************)
FirstReadingsAreOfTheNext ==
    \A walk \in walks :
        walk.reading = 0 => walk.session = session.number /\ ~session.live

OneFirstReading ==
    \A one, other \in walks : one.reading = 0 /\ other.reading = 0 => one = other

SourceIsAhead == session.live => room.reading <= source.reading

ReadingsAreOfTheFolder ==
    /\ \A walk \in walks : walk.session <= session.number
    /\ ~stale => \A walk \in walks :
          walk.session = session.number => walk.root = session.root

SessionInv ==
    /\ FirstReadingsAreOfTheNext
    /\ OneFirstReading
    /\ ReadForThisSession
    /\ SourceIsAhead
    /\ ReadingsAreOfTheFolder

(* Most steps leave the sessions and the readings alone.                   *)
LEMMA SessionInvStays ==
    ASSUME SessionInv, UNCHANGED <<walks, session, source, room>>, ~stale' => ~stale
    PROVE  SessionInv'
BY DEF SessionInv, FirstReadingsAreOfTheNext, OneFirstReading, ReadForThisSession,
       SourceIsAhead, ReadingsAreOfTheFolder

(* Others only end a reading, or carry it on.                              *)
LEMMA SessionInvOfReading ==
    ASSUME SessionInv, UNCHANGED <<session, source, room>>, ~stale' => ~stale,
           NEW walk \in walks, NEW later, later.reading = walk.reading,
           later.session = walk.session, later.root = walk.root,
           \/ walks' = walks \ {walk}
           \/ walks' = (walks \ {walk}) \cup {later}
    PROVE  SessionInv'
<1>1. FirstReadingsAreOfTheNext'
  BY DEF SessionInv, FirstReadingsAreOfTheNext
<1>2. OneFirstReading'
  BY DEF SessionInv, OneFirstReading
<1>3. ReadForThisSession' /\ SourceIsAhead'
  BY DEF SessionInv, ReadForThisSession, SourceIsAhead
<1>4. ReadingsAreOfTheFolder'
  BY DEF SessionInv, ReadingsAreOfTheFolder
<1>5. QED
  BY <1>1, <1>2, <1>3, <1>4 DEF SessionInv

(* Every step keeps the session invariant.                                 *)
LEMMA SessionInvHolds == TypeOK /\ SessionInv /\ [Next]_vars => SessionInv'
<1> SUFFICES ASSUME TypeOK, SessionInv, [Next]_vars
             PROVE  SessionInv'
  OBVIOUS
<1>1. ASSUME NEW event \in events, NameEvent(event) \/ WriteEvent(event)
      PROVE  SessionInv'
  <2>1. UNCHANGED <<walks, session, source, room>> /\ (~stale' => ~stale)
    BY <1>1 DEF NameEvent, WriteEvent, TypeOK
  <2>2. QED
    BY <2>1, SessionInvStays
<1>2. ASSUME NEW judgement \in judging, LstatReads(judgement) \/ JudgementReturns(judgement)
      PROVE  SessionInv'
  BY <1>2, SessionInvStays DEF LstatReads, JudgementReturns
<1>3. CASE TimerFires
  <2>1. \A walk \in walks' : walk.reading = 0 => walk \in walks
    BY <1>3 DEF TypeOK, TimerFires, Walk
  <2>2. FirstReadingsAreOfTheNext' /\ OneFirstReading'
    BY <1>3, <2>1 DEF SessionInv, FirstReadingsAreOfTheNext, OneFirstReading, TimerFires
  <2>3. ReadForThisSession' /\ SourceIsAhead'
    BY <1>3 DEF SessionInv, ReadForThisSession, SourceIsAhead, TimerFires
  <2>4. ReadingsAreOfTheFolder'
    <3>1. PICK one : one = Walk(timer.root, readings + 1, engine)
      OBVIOUS
    <3>2. one.session = engine /\ one.root = timer.root
      BY <3>1 DEF Walk
    <3>3. walks' = walks \/ (session.live /\ walks' = walks \cup {one})
      BY <1>3, <3>1 DEF TimerFires
    <3>4. session' = session /\ stale' = (stale \/ (session.live /\ timer.root # session.root))
      BY <1>3 DEF TimerFires
    <3>5. session.live => one.session = session.number /\ session.number <= session.number
      BY <3>2 DEF engine, TypeOK
    <3>6. \A walk \in walks' : walk.session <= session'.number
      BY <3>3, <3>4, <3>5 DEF SessionInv, ReadingsAreOfTheFolder
    <3>7. ASSUME ~stale', NEW walk \in walks', walk.session = session'.number
          PROVE  walk.root = session'.root
      <4>1. CASE walk \in walks
        BY <3>4, <3>7, <4>1 DEF SessionInv, ReadingsAreOfTheFolder, TypeOK
      <4>2. CASE walk = one /\ session.live
        BY <3>2, <3>4, <3>7, <4>2
      <4>3. QED
        BY <3>3, <3>7, <4>1, <4>2
    <3>8. QED
      BY <3>6, <3>7 DEF ReadingsAreOfTheFolder
  <2>5. QED
    BY <2>2, <2>3, <2>4 DEF SessionInv
<1>4. ASSUME NEW walk \in walks, WalkEnters(walk)
      PROVE  SessionInv'
  <2> DEFINE later == [walk EXCEPT !.entered = TRUE,
                          !.unread = {file \in Files : disk[walk.root][file] # "absent"}
                                      \ ignored[walk.root]]
  <2>1. later.reading = walk.reading /\ later.session = walk.session /\ later.root = walk.root
    BY DEF TypeOK, Walks
  <2>2. walks' = (walks \ {walk}) \cup {later} /\ UNCHANGED <<session, source, room, stale>>
    BY <1>4 DEF WalkEnters
  <2> HIDE DEF later
  <2>3. QED
    BY <2>1, <2>2, SessionInvOfReading
<1>5. ASSUME NEW walk \in walks, NEW file \in Files, WalkReads(walk, file)
      PROVE  SessionInv'
  <2> DEFINE later == [walk EXCEPT !.unread = @ \ {file},
                          !.got = IF Shareable(walk.root, file) THEN @ \cup {file} ELSE @]
  <2>1. later.reading = walk.reading /\ later.session = walk.session /\ later.root = walk.root
    BY DEF TypeOK, Walks
  <2>2. walks' = (walks \ {walk}) \cup {later} /\ UNCHANGED <<session, source, room, stale>>
    BY <1>5 DEF WalkReads
  <2> HIDE DEF later
  <2>3. QED
    BY <2>1, <2>2, SessionInvOfReading
<1>6. ASSUME NEW walk \in walks,
             WalkSuperseded(walk) \/ WalkFindsNothingNew(walk) \/ WalkFails(walk)
                \/ MintFails(walk)
      PROVE  SessionInv'
  <2>1. /\ UNCHANGED <<session, source, room>> /\ walks' = walks \ {walk}
        /\ ~stale' => ~stale
    BY <1>6 DEF WalkSuperseded, WalkFindsNothingNew, WalkFails, MintFails, TypeOK
  <2>2. QED
    BY <2>1, SessionInvOfReading
<1>7. ASSUME NEW walk \in walks, FirstWalkFails(walk)
      PROVE  SessionInv'
  <2> DEFINE later == [walk EXCEPT !.entered = TRUE, !.unread = {}, !.got = {}]
  <2>1. later.reading = walk.reading /\ later.session = walk.session /\ later.root = walk.root
    BY DEF TypeOK, Walks
  <2>2. walks' = (walks \ {walk}) \cup {later} /\ UNCHANGED <<session, source, room, stale>>
    BY <1>7 DEF FirstWalkFails
  <2> HIDE DEF later
  <2>3. QED
    BY <2>1, <2>2, SessionInvOfReading
<1>8. ASSUME NEW walk \in walks, WalkGrants(walk)
      PROVE  SessionInv'
  (* The reading is the last one started, so no listing is newer.          *)
  <2>1. FirstReadingsAreOfTheNext' /\ OneFirstReading'
    BY <1>8 DEF SessionInv, FirstReadingsAreOfTheNext, OneFirstReading, WalkGrants, Grant
  <2>2. /\ source'.session = walk.session /\ source'.reading = readings
        /\ source'.root = walk.root
        /\ session.live => walk.session = session.number
        /\ UNCHANGED <<session, room>> /\ (~stale' => ~stale)
        /\ walks' = walks \ {walk}
    BY <1>8 DEF WalkGrants, Grant, Current, engine, Listing
  <2>3. room.reading \in 0 .. readings
    BY DEF TypeOK, Listings
  <2>4. ReadForThisSession' /\ SourceIsAhead'
    BY <2>2, <2>3
    DEF SessionInv, ReadForThisSession, SourceIsAhead, ReadingsAreOfTheFolder
  <2>5. ReadingsAreOfTheFolder'
    BY <2>2 DEF SessionInv, ReadingsAreOfTheFolder
  <2>6. QED
    BY <2>1, <2>4, <2>5 DEF SessionInv
<1>9. ASSUME NEW walk \in walks, Minted(walk)
      PROVE  SessionInv'
  (* The walk was the only first reading: none is left of a live session.  *)
  <2>1. \A other \in walks' : other.reading # 0
    BY <1>9 DEF SessionInv, OneFirstReading, Minted
  <2>2. FirstReadingsAreOfTheNext' /\ OneFirstReading'
    BY <2>1 DEF FirstReadingsAreOfTheNext, OneFirstReading
  <2>3. walk.session = session.number /\ session'.number = session.number
    BY <1>9 DEF SessionInv, FirstReadingsAreOfTheNext, Minted, TypeOK
  <2>4. /\ source' = room'
        /\ source'.session = walk.session /\ source'.root = walk.root
        /\ source'.reading \in Nat
        /\ session'.root = session.root /\ stale' = stale /\ walks' = walks \ {walk}
    BY <1>9 DEF Minted, Listing, TypeOK, Walks
  <2>5. ReadForThisSession' /\ SourceIsAhead'
    BY <2>3, <2>4
    DEF SessionInv, ReadingsAreOfTheFolder, ReadForThisSession, SourceIsAhead
  <2>6. ReadingsAreOfTheFolder'
    BY <2>3, <2>4 DEF SessionInv, ReadingsAreOfTheFolder
  <2>7. QED
    BY <2>2, <2>5, <2>6 DEF SessionInv
<1>10. CASE Published \/ RosterPublished
  <2>1. FirstReadingsAreOfTheNext' /\ OneFirstReading'
    BY <1>10
    DEF SessionInv, FirstReadingsAreOfTheNext, OneFirstReading, Published, RosterPublished
  <2>2. source.reading \in Nat
    BY DEF TypeOK, Listings
  <2>3. /\ room' \in {room, source} /\ UNCHANGED <<session, source, walks>>
        /\ ~stale' => ~stale
    BY <1>10 DEF Published, RosterPublished, TypeOK
  <2>4. ReadForThisSession' /\ SourceIsAhead'
    BY <2>2, <2>3 DEF SessionInv, ReadForThisSession, SourceIsAhead
  <2>5. ReadingsAreOfTheFolder'
    BY <2>3 DEF SessionInv, ReadingsAreOfTheFolder
  <2>6. QED
    BY <2>1, <2>4, <2>5 DEF SessionInv
<1>11. ASSUME NEW file \in Files, NEW kind \in Kinds, NameChanges(file, kind)
       PROVE  SessionInv'
  BY <1>11, SessionInvStays DEF NameChanges, Owed, FolderStays
<1>12. ASSUME NEW file \in Files, SizeChanges(file)
       PROVE  SessionInv'
  BY <1>12, SessionInvStays DEF SizeChanges, Owed, FolderStays
<1>13. ASSUME NEW names, NEW type, NEW what, RulesChange(names, type, what)
       PROVE  SessionInv'
  BY <1>13, SessionInvStays DEF RulesChange, Owed, FolderStays
<1>14. CASE GrantFails \/ WatchFails
  <2>1. UNCHANGED <<walks, session, source, room>> /\ (~stale' => ~stale)
    BY <1>14 DEF GrantFails, WatchFails, TypeOK
  <2>2. QED
    BY <2>1, SessionInvStays
<1>15. ASSUME NEW root \in Roots, Host(root)
       PROVE  SessionInv'
  <2> DEFINE first == Walk(root, 0, session.number + 1)
  <2>1. /\ walks' = walks \cup {first}
        /\ session'.number = session.number + 1
        /\ session'.live = FALSE /\ session'.root = root
        /\ \A walk \in walks : walk.reading # 0
    BY <1>15 DEF Host, Opening
  <2>2. first.session = session.number + 1 /\ first.root = root
    BY DEF Walk
  <2> HIDE DEF first
  <2>3. FirstReadingsAreOfTheNext' /\ OneFirstReading'
    BY <2>1, <2>2 DEF FirstReadingsAreOfTheNext, OneFirstReading
  <2>4. ReadForThisSession' /\ SourceIsAhead'
    BY <2>1 DEF ReadForThisSession, SourceIsAhead
  <2>5. session.number \in Nat /\ \A walk \in walks : walk.session \in Nat
    BY DEF TypeOK, Walks
  <2>6. ReadingsAreOfTheFolder'
    BY <2>1, <2>2, <2>5 DEF SessionInv, ReadingsAreOfTheFolder
  <2>7. QED
    BY <2>3, <2>4, <2>6 DEF SessionInv
<1>16. CASE Leave
  <2>1. /\ session'.number = session.number /\ session'.live = FALSE
        /\ session'.root = session.root /\ walks' = walks /\ stale' = stale
    BY <1>16 DEF Leave, TypeOK
  <2>2. QED
    BY <2>1 DEF SessionInv, FirstReadingsAreOfTheNext, OneFirstReading,
                ReadForThisSession, SourceIsAhead, ReadingsAreOfTheFolder
<1>17. CASE UNCHANGED vars
  BY <1>17, SessionInvStays DEF vars
<1>18. QED
  BY <1>1, <1>2, <1>3, <1>4, <1>5, <1>6, <1>7, <1>8, <1>9, <1>10, <1>11, <1>12,
     <1>13, <1>14, <1>15, <1>16, <1>17
  DEF Next, System, Environment, Folder

(* The session invariant holds at the start.                               *)
LEMMA SessionInvInitially == Init => SessionInv
BY DEF Init, SessionInv, FirstReadingsAreOfTheNext, OneFirstReading,
       ReadForThisSession, SourceIsAhead, ReadingsAreOfTheFolder

(***************************************************************************)
(* What a room lists was read for its own session: publishGrant's check of *)
(* the engine keeps a walk that outlives its session from speaking.  It is *)
(* of its own folder too, unless an lstat that outlived the session before *)
(* has set the timer.                                                      *)
(***************************************************************************)
THEOREM RoomsListTheirOwn == Spec => []ReadForThisSession
<1>1. SessionInv => ReadForThisSession
  BY DEF SessionInv
<1>2. QED
  BY <1>1, SessionInvInitially, SessionInvHolds, TypeCorrect, PTL DEF Spec

(***************************************************************************)
(* A room is never put back on a reading started before the one it holds:  *)
(* publishGrant's check of the reading, and the engine's publishing the    *)
(* source in its turn, are enough whatever order the walks finish in.      *)
(***************************************************************************)
THEOREM ReadingsNeverGoBack == Spec => NeverAnOlderReading
<1>1. TypeOK /\ SessionInv /\ [Next]_vars
        => [session.live /\ session'.live => room'.reading >= room.reading]_vars
  <2> SUFFICES ASSUME TypeOK, SessionInv, Next, session.live, session'.live
               PROVE  room'.reading >= room.reading
    BY DEF vars
  <2>1. room.reading \in Nat /\ source.reading \in Nat
    BY DEF TypeOK, Listings
  <2>2. room.reading <= source.reading
    BY DEF SessionInv, SourceIsAhead
  <2>3. CASE room' \in {room, source}
    BY <2>1, <2>2, <2>3
  <2>4. CASE \E walk \in walks : Minted(walk)
    BY <2>4 DEF SessionInv, FirstReadingsAreOfTheNext, Minted
  <2>5. room' \in {room, source} \/ \E walk \in walks : Minted(walk)
    BY DEF Next, System, Environment, Folder, NameEvent, WriteEvent, LstatReads,
           JudgementReturns, TimerFires, WalkEnters, WalkReads, WalkSuperseded,
           WalkFindsNothingNew, WalkGrants, Grant, Published, NameChanges, SizeChanges,
           RulesChange, FolderStays, FirstWalkFails, WalkFails, MintFails, GrantFails,
           RosterPublished, Host, Leave, WatchFails
  <2>6. QED
    BY <2>3, <2>4, <2>5
<1>2. QED
  BY <1>1, SessionInvInitially, SessionInvHolds, TypeCorrect, PTL
  DEF Spec, NeverAnOlderReading

(***************************************************************************)
(* The room ends on the folder's listing.  A name that may have moved is   *)
(* never lost from sight: the folder is to be read again, a write is still *)
(* to be judged, a judgement will find that the listing is wrong, or the   *)
(* last reading will see the name as it is.                                *)
(***************************************************************************)

ReadAgain == timer # NoTimer \/ \E event \in events : event.type = "rename"

WriteOwed(file) == [type |-> "change", path |-> file] \in events

JudgedOtherwise(file) ==
    \E judgement \in judging :
        /\ judgement.path = file /\ judgement.root = session.root
        /\ \/ judgement.seen = "asked"
           \/ judgement.seen = "shareable" <=> Shareable(session.root, file)
        /\ ~(Shareable(session.root, file) <=> file \in judgement.listed)

Noticed(file) ==
    \/ ReadAgain
    \/ file \notin ignored[session.root] /\ (WriteOwed(file) \/ JudgedOtherwise(file))

(* What the reading has seen of a name, or will, is what is there.         *)
Sees(walk, file) ==
    /\ walk.entered /\ file \in walk.unread => file \notin ignored[session.root]
    /\ walk.entered /\ file \notin walk.unread =>
          (file \in walk.got <=> file \in ListingOf(session.root))

(* The listing the room ends on if nothing else is read.                   *)
Ending == IF publishing = <<>> THEN granted.paths ELSE source.paths

ReadingsAreTidy ==
    \A walk \in walks :
        /\ walk.got \cap walk.unread = {}
        /\ ~walk.entered => walk.got = {}
        /\ walk.session # NoSession /\ walk.session <= session.number

(* A room that is being minted has nothing of its session beside it.       *)
MintsAlone ==
    Opening =>
        /\ ~session.live /\ publishing = <<>>
        /\ \A walk \in walks : walk.reading # 0 => walk.session # session.number

(* The folder stays as it is until the room is minted.                     *)
FirstReadingSees ==
    ~session.live /\ ~stale /\ ~told =>
        \A walk \in walks : walk.reading = 0 => \A file \in Files : Sees(walk, file)

Heard == session.live /\ watching /\ ~stale

(* The listings on their way are this session's and the last of them is    *)
(* the source's; when none is, the room has what the host remembers.       *)
QueueEndsInSource ==
    Heard =>
        /\ granted # NoListing
        /\ \A i \in 1 .. Len(publishing) : publishing[i].session = engine
        /\ publishing # <<>> => publishing[Len(publishing)].paths = source.paths
        /\ publishing = <<>> => room.paths = granted.paths

NothingMissed ==
    Heard =>
        /\ \A walk \in walks :
              Current(walk) => \A file \in Files : Noticed(file) \/ Sees(walk, file)
        /\ ~told /\ (\A walk \in walks : ~Current(walk)) =>
              \A file \in Files :
                  Noticed(file) \/ (file \in Ending <=> file \in ListingOf(session.root))

Numbered == session.live => session.number # NoSession

Kept == TypeOK /\ SessionInv /\ Numbered /\ ReadingsAreTidy /\ MintsAlone

(* A reading that counts is one of the session's own folder.               *)
LEMMA ReadsHere ==
    ASSUME Kept, ~stale, NEW walk \in walks, Current(walk) \/ walk.reading = 0
    PROVE  walk.root = session.root
<1>1. walk.session = session.number
  BY DEF Kept, ReadingsAreTidy, SessionInv, FirstReadingsAreOfTheNext, Current, engine
<1>2. QED
  BY <1>1 DEF Kept, SessionInv, ReadingsAreOfTheFolder

(* A reading that goes on keeps its number and its session.                *)
LEMMA ReadingEnters ==
    ASSUME TypeOK, ReadingsAreTidy, NEW walk \in walks, WalkEnters(walk)
    PROVE  \E later :
              /\ walks' = (walks \ {walk}) \cup {later}
              /\ later.reading = walk.reading /\ later.session = walk.session
              /\ later.got \cap later.unread = {} /\ later.entered
              /\ walk.root = session.root => \A file \in Files : Sees(later, file)
<1> DEFINE unread == {file \in Files : disk[walk.root][file] # "absent"} \ ignored[walk.root]
           later == [walk EXCEPT !.entered = TRUE, !.unread = unread]
<1>1. walk \in Walks /\ session.root \in Roots /\ walk.root \in Roots
  BY DEF TypeOK, Walks
<1>3. walk.got = {}
  BY DEF ReadingsAreTidy, WalkEnters
<1>4. walks' = (walks \ {walk}) \cup {later}
  BY DEF WalkEnters
<1>5. /\ later.reading = walk.reading /\ later.session = walk.session
      /\ later.got = {} /\ later.unread = unread /\ later.entered
  BY <1>1, <1>3 DEF Walks
<1>6. ASSUME walk.root = session.root, NEW file \in Files PROVE Sees(later, file)
  <2>1. file \in unread <=> disk[session.root][file] # "absent" /\ file \notin ignored[session.root]
    BY <1>6
  <2>2. file \notin unread => file \notin ListingOf(session.root)
    BY <2>1 DEF ListingOf, Shareable
  <2> HIDE DEF unread, later
  <2>3. QED
    BY <1>5, <2>1, <2>2 DEF Sees
<1> HIDE DEF later
<1>7. QED
  BY <1>4, <1>5, <1>6

LEMMA ReadingReads ==
    ASSUME TypeOK, ReadingsAreTidy, NEW walk \in walks, NEW one \in Files,
           WalkReads(walk, one)
    PROVE  \E later :
              /\ walks' = (walks \ {walk}) \cup {later}
              /\ later.reading = walk.reading /\ later.session = walk.session
              /\ later.got \cap later.unread = {} /\ later.entered
              /\ walk.root = session.root =>
                    \A file \in Files : Sees(walk, file) => Sees(later, file)
<1> DEFINE unread == walk.unread \ {one}
           got == IF Shareable(walk.root, one) THEN walk.got \cup {one} ELSE walk.got
           later == [walk EXCEPT !.unread = @ \ {one},
                                 !.got = IF Shareable(walk.root, one) THEN @ \cup {one} ELSE @]
<1>1. walk \in Walks /\ session.root \in Roots /\ walk.root \in Roots
  BY DEF TypeOK, Walks
<1>3. walk.got \cap walk.unread = {} /\ walk.entered /\ one \in walk.unread
  BY DEF ReadingsAreTidy, WalkReads
<1>4. walks' = (walks \ {walk}) \cup {later}
  BY DEF WalkReads
<1>5. /\ later.reading = walk.reading /\ later.session = walk.session
      /\ later.got = got /\ later.unread = unread /\ later.entered
  BY <1>1, <1>3 DEF Walks
<1>6. got \cap unread = {}
  BY <1>3
<1> HIDE DEF later
<1>7. ASSUME walk.root = session.root, NEW file \in Files, Sees(walk, file)
      PROVE  Sees(later, file)
  <2>1. CASE file = one
    <3>1. file \notin ignored[session.root]
      BY <1>3, <1>7, <2>1 DEF Sees
    <3>2. file \in got <=> file \in ListingOf(session.root)
      BY <1>3, <1>7, <2>1, <3>1 DEF ListingOf
    <3>3. file \notin unread
      BY <2>1
    <3>4. QED
      BY <1>5, <3>2, <3>3 DEF Sees
  <2>2. CASE file # one
    <3>1. (file \in got <=> file \in walk.got) /\ (file \in unread <=> file \in walk.unread)
      BY <2>2
    <3>2. QED
      BY <1>3, <1>5, <1>7, <3>1 DEF Sees
  <2>3. QED
    BY <2>1, <2>2
<1>8. QED
  BY <1>4, <1>5, <1>6, <1>7

LEMMA TimerIsSet ==
    ASSUME NEW root, timer' = Scheduled(root)
    PROVE  timer' # NoTimer
<1>1. [root |-> root] # NoTimer
  BY DEF NoTimer
<1>2. QED
  BY <1>1 DEF Scheduled

(* Who is alive: the host of a number, never of none.                      *)
LEMMA EngineIs ==
    ASSUME Kept, NEW walk \in walks, Current(walk)
    PROVE  session.live /\ ~Opening /\ walk.session = session.number
BY DEF Kept, ReadingsAreTidy, MintsAlone, Current, engine
(* Every step but these leaves the readings, the sessions and the queue.   *)
LEMMA TidyStays ==
    ASSUME ReadingsAreTidy, MintsAlone, UNCHANGED <<walks, session, publishing>>
    PROVE  ReadingsAreTidy' /\ MintsAlone'
BY DEF ReadingsAreTidy, MintsAlone, Opening

LEMMA TidyOfReading ==
    ASSUME ReadingsAreTidy, MintsAlone, UNCHANGED <<session, publishing>>, NEW walk \in walks,
           NEW later, later.reading = walk.reading, later.session = walk.session,
           later.got \cap later.unread = {}, later.entered,
           \/ walks' = walks \ {walk}
           \/ walks' = (walks \ {walk}) \cup {later}
    PROVE  ReadingsAreTidy' /\ MintsAlone'
<1>1. ReadingsAreTidy'
  BY DEF ReadingsAreTidy
<1>2. MintsAlone'
  BY DEF MintsAlone, Opening
<1>3. QED
  BY <1>1, <1>2

LEMMA TidyHolds == Kept /\ [Next]_vars => ReadingsAreTidy' /\ MintsAlone'
<1> SUFFICES ASSUME Kept, [Next]_vars
             PROVE  ReadingsAreTidy' /\ MintsAlone'
  OBVIOUS
<1> USE DEF Kept
<1>1. ASSUME NEW event \in events, NameEvent(event) \/ WriteEvent(event)
      PROVE  ReadingsAreTidy' /\ MintsAlone'
  BY <1>1, TidyStays DEF NameEvent, WriteEvent
<1>2. ASSUME NEW judgement \in judging, LstatReads(judgement) \/ JudgementReturns(judgement)
      PROVE  ReadingsAreTidy' /\ MintsAlone'
  BY <1>2, TidyStays DEF LstatReads, JudgementReturns
<1>3. CASE TimerFires /\ session.live
  <2> DEFINE one == Walk(timer.root, readings + 1, engine)
  <2>1. /\ one.reading = readings + 1 /\ one.session = engine /\ ~one.entered
        /\ one.got = {} /\ one.unread = {}
    BY DEF Walk
  <2>2. walks' = walks \cup {one} /\ session' = session /\ engine = session.number
    BY <1>3 DEF TimerFires, engine
  <2>3. readings + 1 # 0 /\ session.number \in Nat /\ ~Opening
    BY <1>3 DEF TypeOK, MintsAlone
  <2>4. session.number # NoSession
    BY <1>3 DEF Numbered
  <2> HIDE DEF one
  <2>5. ReadingsAreTidy'
    BY <2>1, <2>2, <2>3, <2>4 DEF ReadingsAreTidy
  <2>6. ~Opening'
    BY <2>1, <2>2, <2>3 DEF Opening
  <2>7. QED
    BY <2>5, <2>6 DEF MintsAlone
<1>4. CASE TimerFires /\ ~session.live
  BY <1>4, TidyStays DEF TimerFires
<1>5. ASSUME NEW walk \in walks, WalkEnters(walk)
      PROVE  ReadingsAreTidy' /\ MintsAlone'
  <2>1. UNCHANGED <<session, publishing>>
    BY <1>5 DEF WalkEnters
  <2>2. QED
    BY <1>5, <2>1, ReadingEnters, TidyOfReading
<1>6. ASSUME NEW walk \in walks, NEW file \in Files, WalkReads(walk, file)
      PROVE  ReadingsAreTidy' /\ MintsAlone'
  <2>1. UNCHANGED <<session, publishing>>
    BY <1>6 DEF WalkReads
  <2>2. QED
    BY <1>6, <2>1, ReadingReads, TidyOfReading
<1>7. ASSUME NEW walk \in walks,
             WalkSuperseded(walk) \/ WalkFindsNothingNew(walk) \/ WalkFails(walk)
                \/ MintFails(walk)
      PROVE  ReadingsAreTidy' /\ MintsAlone'
  <2>1. UNCHANGED <<session, publishing>> /\ walks' = walks \ {walk}
    BY <1>7 DEF WalkSuperseded, WalkFindsNothingNew, WalkFails, MintFails
  <2>2. ReadingsAreTidy'
    BY <2>1 DEF ReadingsAreTidy
  <2>3. MintsAlone'
    BY <2>1 DEF MintsAlone, Opening
  <2>4. QED
    BY <2>2, <2>3
<1>8. ASSUME NEW walk \in walks, FirstWalkFails(walk)
      PROVE  ReadingsAreTidy' /\ MintsAlone'
  <2> DEFINE later == [walk EXCEPT !.entered = TRUE, !.unread = {}, !.got = {}]
  <2>1. /\ later.reading = walk.reading /\ later.session = walk.session
        /\ later.got \cap later.unread = {} /\ later.entered
    BY DEF TypeOK, Walks
  <2>2. walks' = (walks \ {walk}) \cup {later} /\ UNCHANGED <<session, publishing>>
    BY <1>8 DEF FirstWalkFails
  <2> HIDE DEF later
  <2>3. QED
    BY <2>1, <2>2, TidyOfReading
<1>9. ASSUME NEW walk \in walks, WalkGrants(walk)
      PROVE  ReadingsAreTidy' /\ MintsAlone'
  <2>1. session' = session /\ walks' = walks \ {walk} /\ Current(walk)
    BY <1>9 DEF WalkGrants, Grant
  <2>2. ~Opening
    BY <2>1, EngineIs
  <2>3. ~Opening'
    BY <2>1, <2>2 DEF Opening
  <2>4. ReadingsAreTidy'
    BY <2>1 DEF ReadingsAreTidy
  <2>5. QED
    BY <2>3, <2>4 DEF MintsAlone
<1>10. ASSUME NEW walk \in walks, Minted(walk)
       PROVE  ReadingsAreTidy' /\ MintsAlone'
  <2>1. \A other \in walks' : other.reading # 0
    BY <1>10 DEF SessionInv, OneFirstReading, Minted
  <2>2. walks' = walks \ {walk} /\ session'.number = session.number
    BY <1>10 DEF Minted, TypeOK
  <2>3. ReadingsAreTidy'
    BY <2>2 DEF ReadingsAreTidy
  <2>4. QED
    BY <2>1, <2>3 DEF MintsAlone, Opening
<1>11. CASE Published \/ GrantFails
  <2>1. session' = session /\ walks' = walks /\ publishing # <<>>
    BY <1>11 DEF Published, GrantFails
  <2>2. ~Opening'
    BY <2>1 DEF MintsAlone, Opening
  <2>3. QED
    BY <2>1, <2>2 DEF ReadingsAreTidy, MintsAlone
<1>12. CASE RosterPublished \/ WatchFails
  BY <1>12, TidyStays DEF RosterPublished, WatchFails
<1>13. ASSUME NEW file \in Files, NEW kind \in Kinds, NameChanges(file, kind)
       PROVE  ReadingsAreTidy' /\ MintsAlone'
  BY <1>13, TidyStays DEF NameChanges, FolderStays
<1>14. ASSUME NEW file \in Files, SizeChanges(file)
       PROVE  ReadingsAreTidy' /\ MintsAlone'
  BY <1>14, TidyStays DEF SizeChanges, FolderStays
<1>15. ASSUME NEW names, NEW type, NEW what, RulesChange(names, type, what)
       PROVE  ReadingsAreTidy' /\ MintsAlone'
  BY <1>15, TidyStays DEF RulesChange, FolderStays
<1>16. ASSUME NEW root \in Roots, Host(root)
       PROVE  ReadingsAreTidy' /\ MintsAlone'
  <2> DEFINE first == Walk(root, 0, session.number + 1)
  <2>1. /\ walks' = walks \cup {first}
        /\ session'.number = session.number + 1 /\ session'.live = FALSE
        /\ publishing' = <<>>
    BY <1>16 DEF Host
  <2>2. /\ first.session = session.number + 1 /\ first.reading = 0 /\ ~first.entered
        /\ first.got = {} /\ first.unread = {}
    BY DEF Walk
  <2>3. session.number \in Nat /\ \A walk \in walks : walk.session \in Nat
    BY DEF TypeOK, Walks
  <2> HIDE DEF first
  <2>4. ReadingsAreTidy'
    BY <2>1, <2>2, <2>3 DEF ReadingsAreTidy, NoSession
  <2>5. MintsAlone'
    BY <2>1, <2>2, <2>3 DEF MintsAlone, ReadingsAreTidy
  <2>6. QED
    BY <2>4, <2>5
<1>17. CASE Leave
  <2>1. /\ walks' = walks /\ session'.number = session.number
        /\ session'.live = FALSE /\ session.live
    BY <1>17 DEF Leave, TypeOK
  <2>2. ~Opening'
    BY <2>1 DEF MintsAlone, Opening
  <2>3. QED
    BY <2>1, <2>2 DEF ReadingsAreTidy, MintsAlone
<1>18. CASE UNCHANGED vars
  BY <1>18, TidyStays DEF vars
<1>19. QED
  BY <1>1, <1>2, <1>3, <1>4, <1>5, <1>6, <1>7, <1>8, <1>9, <1>10, <1>11, <1>12, <1>13,
     <1>14, <1>15, <1>16, <1>17, <1>18
  DEF Next, System, Environment, Folder

LEMMA NumberedHolds == Kept /\ [Next]_vars => Numbered'
<1> SUFFICES ASSUME Kept, [Next]_vars
             PROVE  Numbered'
  OBVIOUS
<1>1. CASE UNCHANGED session
  BY <1>1 DEF Kept, Numbered
<1>2. ASSUME NEW walk \in walks, Minted(walk) PROVE Numbered'
  <2>1. walk.session = session.number /\ session'.number = session.number
    BY <1>2 DEF Kept, SessionInv, FirstReadingsAreOfTheNext, Minted, TypeOK
  <2>2. QED
    BY <2>1 DEF Kept, Numbered, ReadingsAreTidy
<1>3. ASSUME NEW root \in Roots, Host(root) PROVE Numbered'
  BY <1>3 DEF Host, Numbered
<1>4. CASE Leave
  BY <1>4 DEF Leave, Kept, TypeOK, Numbered
<1>5. QED
  BY <1>1, <1>2, <1>3, <1>4
  DEF Next, System, Environment, Folder, NameEvent, WriteEvent, LstatReads,
      JudgementReturns, TimerFires, WalkEnters, WalkReads, WalkSuperseded,
      WalkFindsNothingNew, WalkGrants, Grant, Published, NameChanges, SizeChanges,
      RulesChange, FolderStays, FirstWalkFails, WalkFails, MintFails, GrantFails,
      RosterPublished, WatchFails, vars

(* Nothing of the folder that a reading looks at is another.               *)
LEMMA SeesStays ==
    ASSUME UNCHANGED <<disk, ignored>>, session'.root = session.root
    PROVE  \A walk, file : Sees(walk, file)' <=> Sees(walk, file)
BY DEF Sees, ListingOf, Shareable

LEMMA FirstStays ==
    ASSUME FirstReadingSees, UNCHANGED <<disk, ignored, session>>, ~stale' => ~stale,
           ~told' => ~told,
           \A walk \in walks' : walk.reading = 0 => walk \in walks
    PROVE  FirstReadingSees'
BY SeesStays DEF FirstReadingSees

LEMMA FirstOfReading ==
    ASSUME FirstReadingSees, UNCHANGED <<disk, ignored, session, stale, told>>,
           NEW walk \in walks, NEW later, later.reading = walk.reading,
           walks' = (walks \ {walk}) \cup {later},
           ~stale /\ walk.reading = 0 =>
              \A file \in Files : Sees(walk, file) => Sees(later, file)
    PROVE  FirstReadingSees'
BY SeesStays DEF FirstReadingSees

(* What the room is minted with is what the folder held.                   *)
LEMMA FirstHolds == Kept /\ FirstReadingSees /\ [Next]_vars => FirstReadingSees'
<1> SUFFICES ASSUME Kept, FirstReadingSees, [Next]_vars
             PROVE  FirstReadingSees'
  OBVIOUS
<1>1. ASSUME NEW event \in events, NameEvent(event) PROVE FirstReadingSees'
  BY <1>1, FirstStays DEF NameEvent
<1>2. ASSUME NEW event \in events, WriteEvent(event) PROVE FirstReadingSees'
  BY <1>2, SeesStays DEF WriteEvent, FirstReadingSees
<1>3. ASSUME NEW judgement \in judging, LstatReads(judgement) \/ JudgementReturns(judgement)
      PROVE  FirstReadingSees'
  BY <1>3, FirstStays DEF LstatReads, JudgementReturns
<1>4. CASE TimerFires
  <2>1. session.live \/ walks' = walks
    BY <1>4 DEF TimerFires
  <2>2. QED
    BY <1>4, <2>1, FirstStays DEF TimerFires, FirstReadingSees
<1>5. ASSUME NEW walk \in walks, WalkEnters(walk) PROVE FirstReadingSees'
  <2>1. UNCHANGED <<disk, ignored, session, stale, told>>
    BY <1>5 DEF WalkEnters
  <2>2. QED
    BY <1>5, <2>1, ReadingEnters, ReadsHere, FirstOfReading DEF Kept
<1>6. ASSUME NEW walk \in walks, NEW file \in Files, WalkReads(walk, file)
      PROVE  FirstReadingSees'
  <2>1. UNCHANGED <<disk, ignored, session, stale, told>>
    BY <1>6 DEF WalkReads
  <2>2. QED
    BY <1>6, <2>1, ReadingReads, ReadsHere, FirstOfReading DEF Kept
<1>7. ASSUME NEW walk \in walks, WalkSuperseded(walk) \/ WalkFails(walk) \/ MintFails(walk)
      PROVE  FirstReadingSees'
  <2>1. /\ UNCHANGED <<disk, ignored, session, stale>> /\ walks' \subseteq walks
        /\ ~told' => ~told
    BY <1>7 DEF WalkSuperseded, WalkFails, MintFails, Kept, TypeOK
  <2>2. QED
    BY <2>1, FirstStays
<1>8. ASSUME NEW walk \in walks, WalkFindsNothingNew(walk) \/ WalkGrants(walk)
      PROVE  FirstReadingSees'
  <2>1. Current(walk) /\ session' = session
    BY <1>8 DEF WalkFindsNothingNew, WalkGrants, Grant
  <2>2. QED
    BY <2>1, EngineIs DEF FirstReadingSees
<1>9. ASSUME NEW walk \in walks, FirstWalkFails(walk) PROVE FirstReadingSees'
  BY <1>9 DEF FirstWalkFails, FirstReadingSees
<1>10. ASSUME NEW walk \in walks, Minted(walk) PROVE FirstReadingSees'
  BY <1>10 DEF Minted, FirstReadingSees, Kept, TypeOK
<1>11. CASE Published \/ GrantFails \/ RosterPublished \/ WatchFails
  <2>1. /\ UNCHANGED <<disk, ignored, session, walks>>
        /\ ~stale' => ~stale
        /\ ~told' => ~told
    BY <1>11 DEF Published, GrantFails, RosterPublished, WatchFails, Kept, TypeOK
  <2>2. QED
    BY <2>1, FirstStays
<1>12. ASSUME NEW type, NEW file, NEW what, Owed(type, file, what), FolderStays
       PROVE  FirstReadingSees'
  BY <1>12 DEF Owed, FolderStays, FirstReadingSees
<1>13. ASSUME NEW root \in Roots, Host(root) PROVE FirstReadingSees'
  <2>1. PICK first : first = Walk(root, 0, session.number + 1)
    OBVIOUS
  <2>2. walks' = walks \cup {first} /\ \A walk \in walks : walk.reading # 0
    BY <1>13, <2>1 DEF Host, Opening
  <2>3. ~first.entered
    BY <2>1 DEF Walk
  <2>4. \A file \in Files : Sees(first, file)'
    BY <2>3 DEF Sees
  <2>5. QED
    BY <2>2, <2>4 DEF FirstReadingSees
<1>14. CASE Leave
  <2>1. walks' = walks /\ session.live
    BY <1>14 DEF Leave
  <2>2. QED
    BY <2>1 DEF Kept, MintsAlone, Opening, FirstReadingSees
<1>15. CASE UNCHANGED vars
  BY <1>15, FirstStays DEF vars
<1>16. QED
  BY <1>1, <1>2, <1>3, <1>4, <1>5, <1>6, <1>7, <1>8, <1>9, <1>10, <1>11, <1>12, <1>13,
     <1>14, <1>15
  DEF Next, System, Environment, Folder, NameChanges, SizeChanges, RulesChange

(***************************************************************************)
(* The queue of publications.                                              *)
(***************************************************************************)
LEMMA QueueStays ==
    ASSUME QueueEndsInSource, Heard' => Heard,
           UNCHANGED <<session, granted, publishing, source, room>>
    PROVE  QueueEndsInSource'
BY DEF QueueEndsInSource, engine

(* A publication leaves the queue: the last of it stays what it was.       *)
LEMMA QueueMoves ==
    ASSUME publishing \in Seq(Listings), publishing # <<>>, publishing' = Tail(publishing)
    PROVE  /\ Head(publishing) = publishing[1] /\ 1 \in 1 .. Len(publishing)
           /\ \A i \in 1 .. Len(publishing') :
                 i + 1 \in 1 .. Len(publishing) /\ publishing'[i] = publishing[i + 1]
           /\ publishing' = <<>> => Len(publishing) = 1
           /\ publishing' # <<>> => publishing'[Len(publishing')] = publishing[Len(publishing)]
<1>1. Len(publishing) \in Nat \ {0}
  OBVIOUS
<1>2. /\ Len(publishing') = Len(publishing) - 1
      /\ \A i \in 1 .. Len(publishing) - 1 : publishing'[i] = publishing[i + 1]
  BY <1>1
<1>3. publishing' \in Seq(Listings)
  OBVIOUS
<1>4. ASSUME NEW queue \in Seq(Listings) PROVE queue = <<>> <=> Len(queue) = 0
  OBVIOUS
<1>5. QED
  BY <1>1, <1>2, <1>3, <1>4

LEMMA QueueHolds == Kept /\ QueueEndsInSource /\ [Next]_vars => QueueEndsInSource'
<1> SUFFICES ASSUME Kept, QueueEndsInSource, [Next]_vars
             PROVE  QueueEndsInSource'
  OBVIOUS
<1>1. ASSUME UNCHANGED <<session, granted, publishing, source, room, watching>>,
             ~stale' => ~stale
      PROVE  QueueEndsInSource'
  BY <1>1, QueueStays DEF Heard
<1>2. ASSUME NEW event \in events, NameEvent(event) \/ WriteEvent(event)
      PROVE  QueueEndsInSource'
  BY <1>1, <1>2 DEF NameEvent, WriteEvent
<1>3. ASSUME NEW judgement \in judging, LstatReads(judgement) \/ JudgementReturns(judgement)
      PROVE  QueueEndsInSource'
  BY <1>1, <1>3 DEF LstatReads, JudgementReturns
<1>4. CASE TimerFires
  BY <1>1, <1>4 DEF TimerFires
<1>5. ASSUME NEW walk \in walks,
             \/ WalkEnters(walk) \/ \E file \in Files : WalkReads(walk, file)
             \/ WalkSuperseded(walk) \/ WalkFindsNothingNew(walk)
             \/ WalkFails(walk) \/ MintFails(walk) \/ FirstWalkFails(walk)
      PROVE  QueueEndsInSource'
  BY <1>1, <1>5 DEF WalkEnters, WalkReads, WalkSuperseded, WalkFindsNothingNew, WalkFails,
                    MintFails, FirstWalkFails
<1>6. ASSUME NEW walk \in walks, WalkGrants(walk) PROVE QueueEndsInSource'
  <2> DEFINE listing == Listing(walk.got, walk)
  <2>1. /\ source' = listing /\ publishing' = Append(publishing, listing)
        /\ UNCHANGED <<session, granted, room, watching, stale>>
        /\ walk.session = engine
    BY <1>6 DEF WalkGrants, Grant, Current
  <2>2. listing.session = walk.session /\ publishing \in Seq(Listings) /\ listing \in Listings
    BY <1>6, ListingTyped DEF Listing, Kept, TypeOK
  <2> HIDE DEF listing
  <2>3. SUFFICES ASSUME Heard' PROVE QueueEndsInSource'
    BY DEF QueueEndsInSource
  <2>4. Heard /\ engine' = engine
    BY <2>1, <2>3 DEF Heard, engine
  <2>5. /\ Len(publishing') = Len(publishing) + 1 /\ publishing' # <<>>
        /\ publishing'[Len(publishing')] = listing
        /\ \A i \in 1 .. Len(publishing) : publishing'[i] = publishing[i]
    BY <2>1, <2>2
  <2>6. \A i \in 1 .. Len(publishing') : publishing'[i].session = engine
    BY <2>1, <2>2, <2>4, <2>5 DEF QueueEndsInSource
  <2>7. QED
    BY <2>1, <2>4, <2>5, <2>6 DEF QueueEndsInSource
<1>7. ASSUME NEW walk \in walks, Minted(walk) PROVE QueueEndsInSource'
  <2> DEFINE listing == Listing(walk.got, walk)
             known == [paths |-> walk.got]
  <2>1. granted' = known /\ source' = listing /\ room' = listing /\ publishing' = publishing
    BY <1>7 DEF Minted
  <2>2. listing.paths = walk.got /\ known.paths = walk.got /\ known # NoListing
    BY DEF Listing, NoListing
  <2>3. publishing = <<>>
    BY <1>7 DEF Kept, MintsAlone, Opening, Minted
  <2> HIDE DEF listing, known
  <2>4. QED
    BY <2>1, <2>2, <2>3 DEF QueueEndsInSource
<1>8. CASE Published
  <2> DEFINE known == [paths |-> Head(publishing).paths]
  <2>1. /\ publishing # <<>> /\ publishing' = Tail(publishing) /\ granted' = known
        /\ room' = IF Head(publishing).session = engine THEN source ELSE room
        /\ UNCHANGED <<source, session, watching, stale, left>>
    BY <1>8 DEF Published
  <2>2. known.paths = Head(publishing).paths /\ known # NoListing
    BY DEF NoListing
  <2> HIDE DEF known
  <2>3. SUFFICES ASSUME Heard' PROVE QueueEndsInSource'
    BY DEF QueueEndsInSource
  <2>4. Heard /\ engine' = engine /\ publishing \in Seq(Listings)
    BY <2>1, <2>3 DEF Heard, engine, Kept, TypeOK
  <2>5. \A i \in 1 .. Len(publishing') : publishing'[i].session = engine
    BY <2>1, <2>4, QueueMoves DEF QueueEndsInSource
  <2>6. publishing' # <<>> => publishing'[Len(publishing')].paths = source.paths
    BY <2>1, <2>4, QueueMoves DEF QueueEndsInSource
  <2>7. publishing' = <<>> => room'.paths = granted'.paths
    BY <2>1, <2>2, <2>4, QueueMoves DEF QueueEndsInSource
  <2>8. QED
    BY <2>1, <2>2, <2>4, <2>5, <2>6, <2>7 DEF QueueEndsInSource
<1>9. CASE GrantFails
  <2>1. /\ publishing # <<>> /\ publishing' = Tail(publishing)
        /\ UNCHANGED <<source, session, watching, room, granted>>
        /\ ~stale' => (~stale /\ granted = [paths |-> room.paths])
    BY <1>9 DEF GrantFails
  <2>2. SUFFICES ASSUME Heard' PROVE QueueEndsInSource'
    BY DEF QueueEndsInSource
  <2>3. /\ Heard /\ granted.paths = room.paths /\ engine' = engine
        /\ publishing \in Seq(Listings)
    BY <2>1, <2>2 DEF Heard, engine, Kept, TypeOK
  <2>4. \A i \in 1 .. Len(publishing') : publishing'[i].session = engine
    BY <2>1, <2>3, QueueMoves DEF QueueEndsInSource
  <2>5. publishing' # <<>> => publishing'[Len(publishing')].paths = source.paths
    BY <2>1, <2>3, QueueMoves DEF QueueEndsInSource
  <2>6. QED
    BY <2>1, <2>3, <2>4, <2>5 DEF QueueEndsInSource
<1>10. CASE RosterPublished
  (* What the state carries is what the room has, or what it will have.    *)
  <2>1. /\ room' = source
        /\ UNCHANGED <<source, session, watching, granted, publishing>>
        /\ ~stale' => (~stale /\ (publishing = <<>> => granted = [paths |-> source.paths]))
    BY <1>10 DEF RosterPublished
  <2>2. SUFFICES ASSUME Heard' PROVE QueueEndsInSource'
    BY DEF QueueEndsInSource
  <2>3. Heard /\ (publishing = <<>> => granted.paths = source.paths)
    BY <2>1, <2>2 DEF Heard
  <2>4. QED
    BY <2>1, <2>3 DEF QueueEndsInSource, engine
<1>11. CASE WatchFails \/ Leave
  BY <1>11 DEF WatchFails, Leave, StopWatching, QueueEndsInSource, Heard
<1>12. ASSUME NEW root \in Roots, Host(root) PROVE QueueEndsInSource'
  BY <1>12 DEF Host, QueueEndsInSource, Heard
<1>13. ASSUME NEW type, NEW file, NEW what, Owed(type, file, what), FolderStays
       PROVE  QueueEndsInSource'
  BY <1>1, <1>13 DEF Owed, FolderStays
<1>14. CASE UNCHANGED vars
  BY <1>1, <1>14 DEF vars
<1>15. QED
  BY <1>2, <1>3, <1>4, <1>5, <1>6, <1>7, <1>8, <1>9, <1>10, <1>11, <1>12, <1>13, <1>14
  DEF Next, System, Environment, Folder, NameChanges, SizeChanges, RulesChange

(***************************************************************************)
(* No name is lost from sight.                                             *)
(***************************************************************************)
NoneCurrent == \A walk \in walks : ~Current(walk)

LEMMA NoticedStays ==
    ASSUME UNCHANGED <<disk, ignored>>, session'.root = session.root,
           timer # NoTimer => timer' # NoTimer,
           events \subseteq events', judging \subseteq judging'
    PROVE  \A file : Noticed(file) => Noticed(file)'
BY DEF Noticed, ReadAgain, WriteOwed, JudgedOtherwise, Shareable

LEMMA MissedStays ==
    ASSUME NothingMissed, Heard' => Heard, UNCHANGED <<disk, ignored, session, readings>>,
           Ending' = Ending, \A file \in Files : Noticed(file) => Noticed(file)',
           walks' \subseteq walks, ~told' /\ NoneCurrent' => ~told /\ NoneCurrent
    PROVE  NothingMissed'
<1>1. \A walk : Current(walk)' <=> Current(walk)
  BY DEF Current, engine
<1>2. \A walk, file : Sees(walk, file)' <=> Sees(walk, file)
  BY SeesStays
<1>3. ListingOf(session.root)' = ListingOf(session.root)
  BY DEF ListingOf, Shareable
<1>4. SUFFICES ASSUME Heard' PROVE NothingMissed'
  BY DEF NothingMissed
<1>5. \A walk \in walks' : Current(walk)' => \A file \in Files : Noticed(file)' \/ Sees(walk, file)'
  BY <1>1, <1>2, <1>4 DEF NothingMissed
<1>6. ASSUME ~told', NoneCurrent', NEW file \in Files
      PROVE  Noticed(file)' \/ (file \in Ending' <=> file \in ListingOf(session.root)')
  BY <1>3, <1>4, <1>6 DEF NothingMissed, NoneCurrent
<1>7. QED
  BY <1>5, <1>6 DEF NothingMissed, NoneCurrent

(* A reading goes on.                                                      *)
LEMMA MissedOfReading ==
    ASSUME NothingMissed, NEW walk \in walks, NEW later,
           walks' = (walks \ {walk}) \cup {later},
           later.reading = walk.reading, later.session = walk.session,
           Heard /\ Current(walk) =>
              \A file \in Files : Sees(walk, file) => Sees(later, file),
           UNCHANGED <<disk, ignored, events, judging, timer, readings, granted,
                       publishing, source, room, session, watching, told, stale>>
    PROVE  NothingMissed'
<1>1. \A one : Current(one)' <=> Current(one)
  BY DEF Current, engine
<1>2. \A one, file : Sees(one, file)' <=> Sees(one, file)
  BY SeesStays
<1>3. \A file : Noticed(file) => Noticed(file)'
  BY NoticedStays
<1>4. ListingOf(session.root)' = ListingOf(session.root) /\ Ending' = Ending /\ Heard' = Heard
  BY DEF ListingOf, Shareable, Ending, Heard
<1>5. Current(later) <=> Current(walk)
  BY DEF Current
<1>6. SUFFICES ASSUME Heard' PROVE NothingMissed'
  BY DEF NothingMissed
<1>7. ASSUME NEW one \in walks', Current(one)', NEW file \in Files
      PROVE  Noticed(file)' \/ Sees(one, file)'
  BY <1>1, <1>2, <1>3, <1>4, <1>5, <1>6, <1>7 DEF NothingMissed
<1>8. ASSUME ~told', NoneCurrent', NEW file \in Files
      PROVE  Noticed(file)' \/ (file \in Ending' <=> file \in ListingOf(session.root)')
  <2>1. NoneCurrent
    BY <1>1, <1>5, <1>8 DEF NoneCurrent
  <2>2. QED
    BY <1>3, <1>4, <1>6, <1>8, <2>1 DEF NothingMissed, NoneCurrent
<1>9. QED
  BY <1>7, <1>8 DEF NothingMissed, NoneCurrent

(* The folder is to be read again.                                         *)
LEMMA MissedUntilRead == ASSUME ReadAgain' PROVE NothingMissed'
BY DEF NothingMissed, Noticed

(* The last reading is done: the listing it found is the one that stands.  *)
LEMMA MissedAfterReading ==
    ASSUME NothingMissed, NEW walk \in walks, walks' = walks \ {walk},
           Finished(walk), Current(walk), Ending' = walk.got,
           UNCHANGED <<disk, ignored, events, judging, timer, readings, session, watching>>,
           ~stale' => ~stale
    PROVE  NothingMissed'
<1>1. \A one : Current(one)' <=> Current(one)
  BY DEF Current, engine
<1>2. \A one, file : Sees(one, file)' <=> Sees(one, file)
  BY SeesStays
<1>3. \A file : Noticed(file) => Noticed(file)'
  BY NoticedStays
<1>4. ListingOf(session.root)' = ListingOf(session.root) /\ (Heard' => Heard)
  BY DEF ListingOf, Shareable, Heard
<1>5. SUFFICES ASSUME Heard' PROVE NothingMissed'
  BY DEF NothingMissed
<1>6. ASSUME NEW one \in walks', Current(one)', NEW file \in Files
      PROVE  Noticed(file)' \/ Sees(one, file)'
  BY <1>1, <1>2, <1>3, <1>4, <1>5, <1>6 DEF NothingMissed
<1>7. ASSUME NEW file \in Files
      PROVE  Noticed(file)' \/ (file \in Ending' <=> file \in ListingOf(session.root)')
  <2>1. Noticed(file) \/ Sees(walk, file)
    BY <1>4, <1>5 DEF NothingMissed
  <2>2. Sees(walk, file) => (file \in walk.got <=> file \in ListingOf(session.root))
    BY DEF Finished, Sees
  <2>3. QED
    BY <1>3, <1>4, <2>1, <2>2
<1>8. QED
  BY <1>6, <1>7 DEF NothingMissed

(* A write is judged by what the listing is, if nothing is on its way.     *)
LEMMA WriteEventMisses ==
    ASSUME Kept, NothingMissed, QueueEndsInSource, NEW event \in events, WriteEvent(event)
    PROVE  NothingMissed'
<1>1. SUFFICES ASSUME Heard' PROVE NothingMissed'
  BY DEF NothingMissed
<1>2. PICK judgement : judgement = [path |-> event.path, root |-> session.root,
                                    listed |-> granted.paths, seen |-> "asked"]
  OBVIOUS
<1>3. /\ judging' = judging \cup {judgement} /\ events' = events \ {event}
      /\ event.type = "change"
      /\ UNCHANGED <<disk, ignored, timer, readings, walks, granted, publishing, source,
                     room, session, watching, told>>
      /\ ~stale' => (~stale /\ ~Changing)
  BY <1>2 DEF WriteEvent
<1>4. /\ judgement.path = event.path /\ judgement.root = session.root
      /\ judgement.listed = granted.paths /\ judgement.seen = "asked"
  BY <1>2
<1>5. Heard /\ ~Changing
  BY <1>1, <1>3 DEF Heard
<1>6. publishing = <<>> /\ NoneCurrent
  BY <1>5 DEF Changing, NoneCurrent, Current
<1>7. \A walk : Current(walk)' <=> Current(walk)
  BY <1>3 DEF Current, engine
<1>8. /\ ListingOf(session.root)' = ListingOf(session.root)
      /\ Ending' = granted.paths /\ Ending = granted.paths
  BY <1>3, <1>6 DEF ListingOf, Shareable, Ending
<1>9. ASSUME ~told', NEW file \in Files
      PROVE  Noticed(file)' \/ (file \in Ending' <=> file \in ListingOf(session.root)')
  <2>1. Noticed(file) \/ (file \in granted.paths <=> file \in ListingOf(session.root))
    BY <1>3, <1>5, <1>6, <1>8, <1>9 DEF NothingMissed, NoneCurrent
  <2>2. ReadAgain => ReadAgain'
    BY <1>3 DEF ReadAgain
  <2>3. JudgedOtherwise(file) => JudgedOtherwise(file)'
    BY <1>3 DEF JudgedOtherwise, Shareable
  <2>4. WriteOwed(file) => WriteOwed(file)' \/ file = event.path
    BY <1>3 DEF WriteOwed
  <2>5. CASE file = event.path /\ file \notin ignored[session.root]
    <3>1. (Shareable(session.root, file) <=> file \in granted.paths) \/ JudgedOtherwise(file)'
      BY <1>3, <1>4, <2>5 DEF JudgedOtherwise, Shareable
    <3>2. file \in ListingOf(session.root) <=> Shareable(session.root, file)
      BY <2>5 DEF ListingOf
    <3>3. QED
      BY <1>3, <1>8, <2>5, <3>1, <3>2 DEF Noticed
  <2>6. QED
    BY <1>3, <1>8, <2>1, <2>2, <2>3, <2>4, <2>5 DEF Noticed
<1>10. QED
  BY <1>3, <1>6, <1>7, <1>9 DEF NothingMissed, NoneCurrent

(* A judgement that was asked keeps what it is to find.                    *)
LEMMA JudgingMisses ==
    ASSUME Kept, NothingMissed, NEW judgement \in judging,
           LstatReads(judgement) \/ JudgementReturns(judgement)
    PROVE  NothingMissed'
<1>1. /\ UNCHANGED <<disk, ignored, events, readings, walks, granted, publishing, source,
                     room, session, watching, told, stale>>
      /\ timer # NoTimer => timer' # NoTimer
  BY DEF LstatReads, JudgementReturns, Scheduled
<1>2. judgement \in Judgements
  BY DEF Kept, TypeOK
<1>3. Ending' = Ending /\ Heard' = Heard /\ NoneCurrent' = NoneCurrent
  BY <1>1 DEF Ending, Heard, NoneCurrent, Current, engine
<1>4. ReadAgain => ReadAgain'
  BY <1>1 DEF ReadAgain
<1>5. \A file : WriteOwed(file)' <=> WriteOwed(file)
  BY <1>1 DEF WriteOwed
<1>6. ASSUME NEW file, JudgedOtherwise(file) PROVE JudgedOtherwise(file)' \/ ReadAgain'
  <2>1. PICK one \in judging :
           /\ one.path = file /\ one.root = session.root
           /\ one.seen = "asked" \/ (one.seen = "shareable" <=> Shareable(session.root, file))
           /\ ~(Shareable(session.root, file) <=> file \in one.listed)
    BY <1>6 DEF JudgedOtherwise
  <2>2. CASE one # judgement
    <3>1. one \in judging'
      BY <2>1, <2>2 DEF LstatReads, JudgementReturns
    <3>2. QED
      BY <1>1, <2>1, <3>1 DEF JudgedOtherwise, Shareable
  <2>3. CASE one = judgement /\ LstatReads(judgement)
    <3>1. PICK later : later = [judgement EXCEPT !.seen =
             IF Shareable(judgement.root, judgement.path) THEN "shareable" ELSE "not"]
      OBVIOUS
    <3>2. later \in judging'
      BY <2>3, <3>1 DEF LstatReads
    <3>3. /\ later.path = judgement.path /\ later.listed = judgement.listed
          /\ later.root = judgement.root
          /\ later.seen = IF Shareable(judgement.root, judgement.path) THEN "shareable" ELSE "not"
      BY <1>2, <3>1 DEF Judgements
    <3>4. later.seen = "shareable" <=> Shareable(session.root, file)
      BY <1>2, <2>1, <2>3, <3>3
    <3>5. QED
      BY <1>1, <2>1, <2>3, <3>2, <3>3, <3>4 DEF JudgedOtherwise, Shareable
  <2>4. CASE one = judgement /\ JudgementReturns(judgement)
    <3>1. judgement.seen # "asked"
      BY <2>4 DEF JudgementReturns
    <3>2. (judgement.seen = "shareable") # (judgement.path \in judgement.listed)
      BY <2>1, <2>4, <3>1
    <3>3. timer' = Scheduled(judgement.root)
      BY <2>4, <3>2 DEF JudgementReturns
    <3>4. QED
      BY <3>3, TimerIsSet DEF ReadAgain
  <2>5. QED
    BY <2>2, <2>3, <2>4
<1>7. \A file : Noticed(file) => Noticed(file)'
  BY <1>1, <1>4, <1>5, <1>6 DEF Noticed
<1>8. QED
  BY <1>1, <1>3, <1>7, MissedStays

(* The reading that starts is the last one, and has all before it.         *)
LEMMA TimerMisses ==
    ASSUME Kept, TimerFires
    PROVE  NothingMissed'
<1>1. SUFFICES ASSUME session.live PROVE NothingMissed'
  BY DEF TimerFires, NothingMissed, Heard
<1>2. PICK one : one = Walk(timer.root, readings + 1, engine)
  OBVIOUS
<1>3. one.reading = readings + 1 /\ one.session = engine /\ ~one.entered
  BY <1>2 DEF Walk
<1>4. walks' = walks \cup {one} /\ readings' = readings + 1 /\ session' = session
  BY <1>1, <1>2 DEF TimerFires
<1>5. \A file : Sees(one, file)'
  BY <1>3 DEF Sees
<1>6. Current(one)'
  BY <1>3, <1>4 DEF Current, engine
<1>7. \A walk \in walks : ~Current(walk)'
  <2>1. \A walk \in walks : walk.reading \in 0 .. readings /\ readings \in Nat
    BY DEF Kept, TypeOK, Walks
  <2>2. QED
    BY <1>4, <2>1 DEF Current
<1>8. QED
  BY <1>4, <1>5, <1>6, <1>7 DEF NothingMissed

(* The room is minted with what was read, and what was read is there.      *)
LEMMA MintMisses ==
    ASSUME Kept, FirstReadingSees, NEW walk \in walks, Minted(walk)
    PROVE  NothingMissed'
<1>1. SUFFICES ASSUME Heard' PROVE NothingMissed'
  BY DEF NothingMissed
<1>2. PICK known : known = [paths |-> walk.got]
  OBVIOUS
<1>3. /\ walks' = walks \ {walk} /\ granted' = known /\ known.paths = walk.got
      /\ publishing' = publishing /\ session'.number = session.number /\ session'.live
      /\ session'.root = session.root
      /\ UNCHANGED <<disk, ignored, told, stale, readings>>
  BY <1>2 DEF Minted, Kept, TypeOK
<1>4. publishing = <<>> /\ ~session.live
  BY DEF Kept, MintsAlone, Opening, Minted
<1>5. \A other \in walks' : ~Current(other)'
  <2>1. \A other \in walks' : other.reading # 0 /\ other.session # session.number
    BY <1>3 DEF Kept, SessionInv, OneFirstReading, MintsAlone, Opening, Minted
  <2>2. QED
    BY <1>3, <2>1 DEF Current, engine
<1>6. Ending' = walk.got
  BY <1>3, <1>4 DEF Ending
<1>7. ASSUME ~told', NEW file \in Files
      PROVE  file \in Ending' <=> file \in ListingOf(session.root)'
  <2>1. Sees(walk, file)
    BY <1>1, <1>3, <1>4, <1>7 DEF FirstReadingSees, Heard, Minted
  <2>2. file \in walk.got <=> file \in ListingOf(session.root)
    BY <2>1 DEF Sees, Minted, Finished
  <2>3. ListingOf(session.root)' = ListingOf(session.root)
    BY <1>3 DEF ListingOf, Shareable
  <2>4. QED
    BY <1>6, <2>2, <2>3
<1>8. QED
  BY <1>5, <1>7 DEF NothingMissed

(* A write of one name: the others are as they were.                       *)
LEMMA SizeMisses ==
    ASSUME Kept, NothingMissed, NEW one \in Files, SizeChanges(one)
    PROVE  NothingMissed'
<1>1. SUFFICES ASSUME Heard' PROVE NothingMissed'
  BY DEF NothingMissed
<1>2. /\ UNCHANGED <<ignored, judging, timer, readings, walks, granted, publishing, source,
                     room, session, watching, told>>
      /\ events \subseteq events' /\ [type |-> "change", path |-> one] \in events' /\ Heard
  BY <1>1 DEF SizeChanges, FolderStays, Owed, Heard
<1>3. session.root \in Roots /\ disk \in [Roots -> [Files -> Kinds]]
  BY DEF Kept, TypeOK
<1>4. \A file \in Files : file # one => (Shareable(session.root, file)' <=> Shareable(session.root, file))
  BY <1>2, <1>3 DEF SizeChanges, Shareable
<1>5. ASSUME NEW file \in Files, file # one \/ one \in ignored[session.root]
      PROVE  file \in ListingOf(session.root)' <=> file \in ListingOf(session.root)
  BY <1>2, <1>4, <1>5 DEF ListingOf
<1>6. \A walk : Current(walk)' <=> Current(walk)
  BY <1>2 DEF Current, engine
<1>7. Ending' = Ending
  BY <1>2 DEF Ending
<1>8. ASSUME NEW file \in Files, Noticed(file) PROVE Noticed(file)'
  <2>1. ReadAgain => ReadAgain'
    BY <1>2 DEF ReadAgain
  <2>2. WriteOwed(file) \/ file = one => WriteOwed(file)'
    BY <1>2 DEF WriteOwed
  <2>3. file # one /\ JudgedOtherwise(file) => JudgedOtherwise(file)'
    BY <1>2, <1>4 DEF JudgedOtherwise
  <2>4. QED
    BY <1>2, <1>8, <2>1, <2>2, <2>3 DEF Noticed
<1>9. one \notin ignored[session.root] => Noticed(one)'
  BY <1>2 DEF Noticed, WriteOwed
<1>10. ASSUME NEW walk \in walks, NEW file \in Files, Sees(walk, file)
       PROVE  Noticed(file)' \/ Sees(walk, file)'
  <2>1. CASE file # one \/ one \in ignored[session.root]
    BY <1>2, <1>5, <1>10, <2>1 DEF Sees
  <2>2. QED
    BY <1>9, <2>1
<1>11. ASSUME NEW file \in Files, file \in Ending <=> file \in ListingOf(session.root)
       PROVE  Noticed(file)' \/ (file \in Ending' <=> file \in ListingOf(session.root)')
  BY <1>2, <1>5, <1>7, <1>9, <1>11
<1>12. QED
  BY <1>2, <1>6, <1>8, <1>10, <1>11 DEF NothingMissed

LEMMA MissedHolds ==
    Kept /\ FirstReadingSees /\ QueueEndsInSource /\ NothingMissed
        /\ [Next]_vars => NothingMissed'
<1> SUFFICES ASSUME Kept, FirstReadingSees, QueueEndsInSource, NothingMissed, [Next]_vars
             PROVE  NothingMissed'
  OBVIOUS
<1>1. ASSUME NEW event \in events, NameEvent(event) PROVE NothingMissed'
  BY <1>1, TimerIsSet, MissedUntilRead DEF NameEvent, ReadAgain
<1>2. ASSUME NEW event \in events, WriteEvent(event) PROVE NothingMissed'
  BY <1>2, WriteEventMisses
<1>3. ASSUME NEW judgement \in judging, LstatReads(judgement) \/ JudgementReturns(judgement)
      PROVE  NothingMissed'
  BY <1>3, JudgingMisses
<1>4. CASE TimerFires
  BY <1>4, TimerMisses
<1>5. ASSUME NEW walk \in walks, WalkEnters(walk) PROVE NothingMissed'
  <2>1. UNCHANGED <<disk, ignored, events, judging, timer, readings, granted,
                    publishing, source, room, session, watching, told, stale>>
    BY <1>5 DEF WalkEnters
  <2>2. QED
    BY <1>5, <2>1, ReadingEnters, ReadsHere, MissedOfReading DEF Kept, Heard
<1>6. ASSUME NEW walk \in walks, NEW file \in Files, WalkReads(walk, file)
      PROVE  NothingMissed'
  <2>1. UNCHANGED <<disk, ignored, events, judging, timer, readings, granted,
                    publishing, source, room, session, watching, told, stale>>
    BY <1>6 DEF WalkReads
  <2>2. QED
    BY <1>6, <2>1, ReadingReads, ReadsHere, MissedOfReading DEF Kept, Heard
<1>7. ASSUME NEW walk \in walks, WalkSuperseded(walk) \/ WalkFails(walk) \/ MintFails(walk)
      PROVE  NothingMissed'
  <2>1. /\ UNCHANGED <<disk, ignored, events, judging, timer, readings, granted, publishing,
                       source, room, session, watching, stale>>
        /\ walks' = walks \ {walk}
        /\ ~told' => ~told
    BY <1>7 DEF WalkSuperseded, WalkFails, MintFails, Kept, TypeOK
  <2>2. Current(walk) => WalkFails(walk) \/ MintFails(walk)
    BY <1>7 DEF WalkSuperseded
  <2>3. MintFails(walk) => ~Current(walk)
    BY EngineIs DEF MintFails, Opening
  <2>4. Current(walk) => told'
    BY <1>7, <2>2, <2>3 DEF WalkFails, Current
  <2>5. \A one : Current(one)' <=> Current(one)
    BY <2>1 DEF Current, engine
  <2>6. NoneCurrent' /\ ~told' => NoneCurrent
    BY <2>1, <2>4, <2>5 DEF NoneCurrent
  <2>7. Ending' = Ending /\ Heard' = Heard /\ \A file \in Files : Noticed(file) => Noticed(file)'
    BY <2>1, NoticedStays DEF Ending, Heard
  <2>8. UNCHANGED <<disk, ignored, session, readings>> /\ walks' \subseteq walks
    BY <2>1
  <2>9. ~told' /\ NoneCurrent' => ~told /\ NoneCurrent
    BY <2>1, <2>6
  <2>10. QED
    BY <2>7, <2>8, <2>9, MissedStays
<1>8. ASSUME NEW walk \in walks, WalkFindsNothingNew(walk) PROVE NothingMissed'
  <2>1. /\ UNCHANGED <<disk, ignored, events, judging, timer, readings, granted, session,
                       publishing, watching>>
        /\ Finished(walk) /\ Current(walk) /\ granted = [paths |-> walk.got]
        /\ walks' = walks \ {walk}
        /\ ~stale' => (~stale /\ publishing = <<>>)
    BY <1>8 DEF WalkFindsNothingNew
  <2>2. SUFFICES ASSUME ~stale' PROVE NothingMissed'
    BY DEF NothingMissed, Heard
  <2>3. granted'.paths = walk.got /\ publishing' = <<>>
    BY <2>1, <2>2
  <2>4. Ending' = walk.got
    BY <2>3 DEF Ending
  <2>5. /\ UNCHANGED <<disk, ignored, events, judging, timer, readings, session, watching>>
        /\ ~stale' => ~stale
    BY <2>1
  <2>6. QED
    BY <2>1, <2>4, <2>5, MissedAfterReading
<1>9. ASSUME NEW walk \in walks, WalkGrants(walk) PROVE NothingMissed'
  <2>1. /\ UNCHANGED <<disk, ignored, events, judging, timer, readings, session, watching>>
        /\ Finished(walk) /\ Current(walk)
        /\ walks' = walks \ {walk}
        /\ ~stale' => ~stale
        /\ source' = Listing(walk.got, walk)
        /\ publishing' = Append(publishing, Listing(walk.got, walk))
    BY <1>9 DEF WalkGrants, Grant
  <2>2. source'.paths = walk.got
    BY <2>1 DEF Listing
  <2>3. publishing' # <<>>
    BY <2>1, ListingTyped DEF Kept, TypeOK
  <2>4. Ending' = walk.got
    BY <2>2, <2>3 DEF Ending
  <2>5. ~stale' => ~stale
    BY <2>1
  <2>6. QED
    BY <2>1, <2>4, <2>5, MissedAfterReading
<1>10. ASSUME NEW walk \in walks, FirstWalkFails(walk) PROVE NothingMissed'
  BY <1>10 DEF FirstWalkFails, Kept, MintsAlone, Opening, NothingMissed, Heard
<1>11. ASSUME NEW walk \in walks, Minted(walk) PROVE NothingMissed'
  BY <1>11, MintMisses
<1>12. CASE Published \/ GrantFails \/ RosterPublished
  <2>1. /\ UNCHANGED <<disk, ignored, events, judging, timer, readings, walks, source,
                       session, watching>>
        /\ ~told' => ~told
        /\ ~stale' => ~stale
    BY <1>12 DEF Published, GrantFails, RosterPublished, Kept, TypeOK
  <2>2. /\ Heard' => Heard
        /\ NoneCurrent' <=> NoneCurrent
    <3>1. \A walk : Current(walk)' <=> Current(walk)
      BY <2>1 DEF Current, engine
    <3>2. Heard' => Heard
      BY <2>1 DEF Heard
    <3>3. NoneCurrent' <=> NoneCurrent
      BY <2>1, <3>1 DEF NoneCurrent
    <3>4. QED
      BY <3>2, <3>3
  <2>3. \A file \in Files : Noticed(file) => Noticed(file)'
    BY <2>1, NoticedStays
  <2>4. CASE Published
    <3>1. SUFFICES ASSUME Heard', Heard PROVE NothingMissed'
      BY <2>2 DEF NothingMissed
    <3>2. PICK known : known = [paths |-> Head(publishing).paths]
      OBVIOUS
    <3>3. /\ publishing # <<>> /\ publishing' = Tail(publishing) /\ granted' = known
          /\ source' = source /\ publishing \in Seq(Listings)
      BY <2>4, <3>2 DEF Published, Kept, TypeOK
    <3>4. publishing' = <<>> => known.paths = source.paths
      BY <3>1, <3>2, <3>3, QueueMoves DEF QueueEndsInSource
    <3>5. Ending' = Ending
      BY <3>3, <3>4 DEF Ending
    <3>6. QED
      BY <2>1, <2>2, <2>3, <3>5, MissedStays
  <2>5. CASE RosterPublished
    <3>1. Ending' = Ending
      BY <2>5 DEF RosterPublished, Ending
    <3>2. QED
      BY <2>1, <2>2, <2>3, <3>1, MissedStays
  <2>6. CASE GrantFails
    <3>1. SUFFICES ASSUME Heard', Heard PROVE NothingMissed'
      BY <2>2 DEF NothingMissed
    <3>2. told'
      <4>1. /\ publishing # <<>> /\ publishing' = Tail(publishing)
            /\ told' = (told \/ Head(publishing).session = engine)
            /\ publishing \in Seq(Listings)
        BY <2>6 DEF GrantFails, Kept, TypeOK
      <4>2. QED
        BY <3>1, <4>1, QueueMoves DEF QueueEndsInSource
    <3>3. \A walk \in walks : Current(walk)' <=> Current(walk)
      BY <2>1 DEF Current, engine
    <3>4. \A walk, file : Sees(walk, file)' <=> Sees(walk, file)
      BY <2>1, SeesStays
    <3>5. QED
      BY <2>1, <2>2, <2>3, <3>1, <3>2, <3>3, <3>4 DEF NothingMissed
  <2>7. QED
    BY <1>12, <2>4, <2>5, <2>6
<1>13. CASE WatchFails \/ Leave
  BY <1>13 DEF WatchFails, Leave, StopWatching, NothingMissed, Heard
<1>19. ASSUME NEW root \in Roots, Host(root) PROVE NothingMissed'
  BY <1>19 DEF Host, NothingMissed, Heard
<1>14. ASSUME NEW file \in Files, SizeChanges(file) PROVE NothingMissed'
  BY <1>14, SizeMisses DEF Kept
<1>15. ASSUME NEW file, NEW what, Owed("rename", file, what), FolderStays
       PROVE  NothingMissed'
  <2>1. SUFFICES ASSUME Heard' PROVE NothingMissed'
    BY DEF NothingMissed
  <2>2. [type |-> "rename", path |-> file] \in events'
    BY <1>15, <2>1 DEF Owed, FolderStays, Heard
  <2>3. ReadAgain'
    BY <2>2 DEF ReadAgain
  <2>4. QED
    BY <2>3, MissedUntilRead
<1>16. ASSUME NEW what, Owed("change", RulesFile, what) PROVE NothingMissed'
  BY <1>16 DEF Owed, NothingMissed, Heard
<1>17. CASE UNCHANGED vars
  BY <1>17, NoticedStays, MissedStays DEF vars, Ending, Heard, NoneCurrent, Current, engine
<1>18. QED
  BY <1>1, <1>2, <1>3, <1>4, <1>5, <1>6, <1>7, <1>8, <1>9, <1>10, <1>11, <1>12, <1>13,
     <1>14, <1>15, <1>16, <1>17, <1>19
  DEF Next, System, Environment, Folder, NameChanges, RulesChange

(* The strengthening holds at the start, and every step keeps it.          *)
Settling ==
    /\ SessionInv /\ Numbered /\ ReadingsAreTidy /\ MintsAlone
    /\ FirstReadingSees /\ QueueEndsInSource /\ NothingMissed

LEMMA SettlingFirst == Init => Settling
<1> SUFFICES ASSUME Init PROVE Settling
  OBVIOUS
<1>1. SessionInv
  BY SessionInvInitially
<1>2. ~session.live /\ walks = {}
  BY DEF Init
<1>3. QED
  BY <1>1, <1>2 DEF Settling, Numbered, ReadingsAreTidy, MintsAlone, Opening,
                    FirstReadingSees, QueueEndsInSource, NothingMissed, Heard

LEMMA SettlingKept == TypeOK /\ Settling /\ [Next]_vars => Settling'
<1> SUFFICES ASSUME TypeOK, Settling, [Next]_vars PROVE Settling'
  OBVIOUS
<1>1. Kept
  BY DEF Kept, Settling
<1>2. SessionInv' /\ Numbered' /\ ReadingsAreTidy' /\ MintsAlone'
  BY <1>1, SessionInvHolds, NumberedHolds, TidyHolds DEF Settling
<1>3. FirstReadingSees'
  BY <1>1, FirstHolds DEF Settling
<1>4. QueueEndsInSource' /\ NothingMissed'
  BY <1>1, QueueHolds, MissedHolds DEF Settling
<1>5. QED
  BY <1>2, <1>3, <1>4 DEF Settling

LEMMA SettlingSettles == TypeOK /\ Settling => SettledUnlessStale
<1> SUFFICES ASSUME TypeOK, Settling, AtRest, ~told, ~stale PROVE RoomIsUpToDate
  BY DEF SettledUnlessStale
<1>1. /\ Heard /\ timer = NoTimer /\ events = {} /\ judging = {} /\ walks = {}
      /\ publishing = <<>>
  BY DEF AtRest, Ready, Heard
<1>2. \A file : ~Noticed(file)
  BY <1>1 DEF Noticed, ReadAgain, WriteOwed, JudgedOtherwise
<1>3. \A file \in Files : file \in granted.paths <=> file \in ListingOf(session.root)
  BY <1>1, <1>2 DEF Settling, NothingMissed, Ending
<1>4. room.paths = granted.paths
  BY <1>1 DEF Settling, QueueEndsInSource
<1>5. granted # NoListing
  BY <1>1 DEF Settling, QueueEndsInSource
<1>6. granted.paths \subseteq Files /\ ListingOf(session.root) \subseteq Files
  BY <1>5 DEF TypeOK, ListingOf
<1>7. QED
  BY <1>3, <1>4, <1>6 DEF RoomIsUpToDate

(***************************************************************************)
(* When nothing is left to do and the folder is still watched, the room    *)
(* lists it as it is, unless the person was told of a failure or one of    *)
(* the causes that `stale` names came before: folderChanged, publishGrant  *)
(* and the queue of the engine lose no change by any other way, however    *)
(* many folders, sessions, refusals and changes of the roster there are.   *)
(***************************************************************************)
THEOREM RoomsSettle == Spec => []SettledUnlessStale
<1>1. Init => Settling
  BY SettlingFirst
<1>2. TypeOK /\ Settling /\ [Next]_vars => Settling'
  BY SettlingKept
<1>3. TypeOK /\ Settling => SettledUnlessStale
  BY SettlingSettles
<1>4. QED
  BY <1>1, <1>2, <1>3, TypeCorrect, PTL DEF Spec
=============================================================================
