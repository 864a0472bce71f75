---------------------------- MODULE OpenDocument ----------------------------
(***************************************************************************)
(* One room path over the life of several sessions: a buffer is shared     *)
(* under it, typed in, written, closed and shared again, while the         *)
(* companion keeps the mirror, holds the path in the room, and decides     *)
(* which of the room's changes may be written to the file behind it.       *)
(*                                                                         *)
(* Two waits make it hard.  A guest's document with text of its own is     *)
(* held back until the room's text is here (session.ts `open`), and a      *)
(* host's file is looked at before the room's text is written to it        *)
(* (`saveHostFile`).  Everything can change while either is outstanding.   *)
(*                                                                         *)
(* What the texts say is left to DocSync: here a change is counted.        *)
(***************************************************************************)
EXTENDS Naturals, Sequences, FiniteSets

(* The roles a session may have, and how often the environment may do each *)
(* thing: one of the scenarios holds for the whole behaviour.              *)
CONSTANT Scenarios

Budgets == {"sessions", "opens", "edits", "saves", "moves", "endings", "faults",
            "refusals"}
Roles == {"host", "guest"}

ASSUME ScenariosAreBounded ==
    Scenarios \subseteq [roles : SUBSET Roles, limits : [Budgets -> Nat]]

NoDocument == [of |-> 0]
Askers == {"session", "bridge"}  \* who asked the engine to hold the path

VARIABLES front,        \* the Lua side: its standing and the document it shares
          file,         \* whether a file is behind the path
          toCompanion,  \* the companion's stdin
          companion,    \* the session, its mirror, bridge, engines and stdout
          spent,        \* how much of the limits is used up
          scenario      \* the scenario this behaviour is of; it never changes

vars == <<front, file, toCompanion, companion, spent, scenario>>

Limits == scenario.limits
Sessions == 1 .. Limits.sessions

Spend(what) ==
    /\ spent[what] < Limits[what]
    /\ spent' = [spent EXCEPT ![what] = @ + 1]

Say(c, message) == [c EXCEPT !.sent = Append(@, message)]

(***************************************************************************)
(* The engine of the session that stands.                                  *)
(***************************************************************************)
Has(c) == c.engines[c.session].has

(* `open` holds the path at once; its promise settles later.  `refused`    *)
(* (history): the room refused a hold since this session last gave it up.  *)
EngineOpen(c, asker) ==
    [c EXCEPT !.engines[c.session].holds = TRUE,
              !.opens[c.session][asker] = @ + 1]

EngineClose(c) == [c EXCEPT !.engines[c.session].holds = FALSE,
                            !.engines[c.session].refused = FALSE]

(***************************************************************************)
(* The bridge (vendor/bridge/bridge.ts): "none", "unarrived" or "open".    *)
(***************************************************************************)
(* A slip: whatever the buffer holds, it is put beside the room's text.    *)
DocumentOpenedAtOnce(c) == EngineOpen([c EXCEPT !.bridge = "open"], "bridge")

DocumentOpened(c) ==
    CASE c.role = "guest" /\ ~Has(c) /\ c.document.text ->
            EngineOpen([c EXCEPT !.bridge = "unarrived"], "bridge")
      [] c.role = "guest" /\ (Has(c) \/ ~c.document.text) ->
            EngineOpen([c EXCEPT !.bridge = "open"], "bridge")
      [] c.role = "host" ->  \* `seed`: the room is given the buffer's text
            EngineOpen([c EXCEPT !.bridge = "open",
                                 !.engines[c.session].has = TRUE], "bridge")

(* A slip: the hold is kept.                                               *)
DocumentClosedHeld(c) == [c EXCEPT !.bridge = "none", !.held = FALSE]

DocumentClosed(c) ==
    [(IF c.held THEN EngineClose(c) ELSE c) EXCEPT !.bridge = "none", !.held = FALSE]

(***************************************************************************)
(* The mirror (companion/editor.ts).  `of` is the buffer a document was    *)
(* opened for (history), `text` whether it was opened with any.            *)
(***************************************************************************)
EditorOpened(c, opened, version) ==
    [c EXCEPT !.instances = @ + 1,
              !.document = [of |-> opened.of, text |-> opened.text,
                            version |-> version, instance |-> c.instances + 1,
                            materialized |-> opened.present]]

Materialized(c) ==
    IF c.document = NoDocument THEN c ELSE [c EXCEPT !.document.materialized = TRUE]

(* `save`: the write is asked of the editor.                               *)
EditorSave(c, write) ==
    [Say(c, [type |-> "save", id |-> c.nextId + 1, of |-> c.document.of,
             guarded |-> write.guarded, there |-> write.there])
        EXCEPT !.nextId = @ + 1,
               !.saves = [id \in DOMAIN @ \cup {c.nextId + 1} |->
                            IF id \in DOMAIN @ THEN @[id] ELSE c.document.instance]]

(* A slip: a write that failed counts as one that reached the disk.        *)
SettleSaveAnyway(c, id, ok) ==
    LET answered == [c EXCEPT !.saves = [i \in DOMAIN @ \ {id} |-> @[i]]]
    IN  CASE id \notin DOMAIN c.saves -> c
          [] id \in DOMAIN c.saves -> Materialized(answered)

SettleSave(c, id, ok) ==
    LET answered == [c EXCEPT !.saves = [i \in DOMAIN @ \ {id} |-> @[i]]]
        own == c.document # NoDocument /\ c.document.instance = c.saves[id]
    IN  CASE id \notin DOMAIN c.saves -> c
          [] id \in DOMAIN c.saves -> IF ok /\ own THEN Materialized(answered) ELSE answered

(***************************************************************************)
(* The session (companion/session.ts).  `late` (history) is set once a     *)
(* document was opened behind its session's end.                           *)
(***************************************************************************)
(* A slip: what was typed while the document was held back is dropped.     *)
ArriveAnew(c) ==
    IF c.unarrived = NoDocument THEN c
    ELSE DocumentOpened(EditorOpened([c EXCEPT !.unarrived = NoDocument],
                                     c.unarrived, 0))

Arrive(c) ==
    IF c.unarrived = NoDocument THEN c
    ELSE DocumentOpened(EditorOpened([c EXCEPT !.unarrived = NoDocument],
                                     c.unarrived, c.unarrived.changes))

Open(c, opened) ==
    IF c.session # 0 /\ c.role # "host" /\ ~Has(c) /\ opened.text
    THEN EngineOpen([c EXCEPT !.unarrived = [of |-> opened.of, text |-> TRUE,
                                             present |-> opened.present,
                                             changes |-> 0]], "session")
    ELSE LET mirrored == EditorOpened(c, opened, 0)
         IN  IF c.session = 0
             THEN [mirrored EXCEPT !.late = TRUE]
             ELSE DocumentOpened(mirrored)

Changed(c) ==
    CASE c.document # NoDocument -> [c EXCEPT !.document.version = @ + 1]
      [] c.document = NoDocument /\ c.unarrived # NoDocument ->
            [c EXCEPT !.unarrived.changes = @ + 1]
      [] c.document = NoDocument /\ c.unarrived = NoDocument -> c

Close(c) ==
    IF c.unarrived # NoDocument
    THEN EngineClose([c EXCEPT !.unarrived = NoDocument])
    ELSE [(IF c.session = 0 THEN c ELSE DocumentClosed(c))
            EXCEPT !.document = NoDocument]

(* A slip: the documents kept back are carried into the next session.      *)
LeaveKeepingBack(c) ==
    Say([c EXCEPT !.session = 0, !.bridge = "none", !.held = FALSE,
                  !.document = NoDocument, !.saves = <<>>],
        [type |-> "status", live |-> FALSE])

(* `leave`, with the bridge's `dispose` and the mirror's `reset`.  What    *)
(* the engine and the disk still owe an answer stays outstanding.          *)
Leave(c) ==
    Say([c EXCEPT !.session = 0, !.bridge = "none", !.held = FALSE,
                  !.unarrived = NoDocument, !.document = NoDocument,
                  !.saves = <<>>],
        [type |-> "status", live |-> FALSE])

(* `connect`: refused while a session is live.                             *)
Connect(c, role) ==
    IF c.session # 0 THEN c
    ELSE Say([c EXCEPT !.session = c.started + 1, !.started = @ + 1, !.role = role],
             [type |-> "status", live |-> TRUE])

(* `saveHostFile` up to its await.  `there` (history) is whether a file    *)
(* has been behind the path since, or the disk would not say.              *)
SaveHostFile(c, there) ==
    IF c.role = "host" /\ c.document.materialized
    THEN [c EXCEPT !.reads = Append(@, [session |-> c.session,
                                        instance |-> c.document.instance,
                                        there |-> there, answer |-> "none"])]
    ELSE EditorSave(c, [guarded |-> FALSE, there |-> there])

(* A slip: what the disk said is not asked.                                *)
JudgedUnread(c, read) ==
    IF /\ c.session = read.session
       /\ c.document # NoDocument
       /\ c.document.instance = read.instance
    THEN EditorSave(c, [guarded |-> TRUE, there |-> read.there])
    ELSE c

(* The rest of `saveHostFile`, and the instance check of `save`.           *)
Judged(c, read) ==
    IF /\ c.session = read.session
       /\ read.answer = "not absent"
       /\ c.document # NoDocument
       /\ c.document.instance = read.instance
    THEN EditorSave(c, [guarded |-> TRUE, there |-> read.there])
    ELSE c

(* History: a file is behind the path now.                                 *)
Appears(c) ==
    [c EXCEPT !.reads = [i \in DOMAIN @ |-> [@[i] EXCEPT !.there = TRUE]]]

-----------------------------------------------------------------------------
Init ==
    /\ scenario \in Scenarios
    /\ front = [standing |-> "idle", doc |-> 0, edits |-> 0, kept |-> FALSE]
    /\ file \in BOOLEAN
    /\ toCompanion = <<>>
    /\ companion =
          [session |-> 0, started |-> 0, role |-> "host",
           document |-> NoDocument, unarrived |-> NoDocument,
           instances |-> 0, saves |-> <<>>, nextId |-> 0, late |-> FALSE,
           bridge |-> "none", held |-> FALSE,
           engines |-> [s \in Sessions |-> [has |-> FALSE, holds |-> FALSE,
                                         refused |-> FALSE]],
           opens |-> [s \in Sessions |-> [asker \in Askers |-> 0]],
           reads |-> <<>>, sent |-> <<>>]
    /\ spent = [what \in Budgets |-> 0]

(***************************************************************************)
(* The front-end.                                                          *)
(***************************************************************************)
Send(message) == toCompanion' = Append(toCompanion, message)

NoBuffer == [front EXCEPT !.doc = 0, !.edits = 0, !.kept = FALSE]

(* A host or join, asked for while no session stands or is being opened.   *)
Starts ==
    /\ front.standing = "idle"
    /\ Spend("sessions")
    /\ front' = [front EXCEPT !.standing = "asked"]
    /\ \E role \in scenario.roles : Send([type |-> "start", role |-> role])
    /\ UNCHANGED <<file, companion, scenario>>

(* `:SelvageLeave`: the session is forgotten at once.                      *)
Leaves ==
    /\ front.standing = "live"
    /\ front' = [NoBuffer EXCEPT !.standing = "idle"]
    /\ Send([type |-> "leave"])
    /\ UNCHANGED <<file, companion, spent, scenario>>

(* share.lua `share`: what is behind the name is looked at as it is shared.*)
Shares ==
    /\ front.standing = "live"
    /\ front.doc = 0
    /\ Spend("opens")
    /\ front' = [front EXCEPT !.doc = spent.opens + 1, !.edits = 0, !.kept = file]
    /\ \E text \in BOOLEAN :
          Send([type |-> "open", of |-> spent.opens + 1, text |-> text,
                present |-> file])
    /\ UNCHANGED <<file, companion, scenario>>

(* A wiped buffer, and `let_go`.                                           *)
Closes ==
    /\ front.doc # 0
    /\ front' = NoBuffer
    /\ Send([type |-> "close"])
    /\ UNCHANGED <<file, companion, spent, scenario>>

Types ==
    /\ front.doc # 0
    /\ Spend("edits")
    /\ front' = [front EXCEPT !.edits = @ + 1]
    /\ Send([type |-> "change"])
    /\ UNCHANGED <<file, companion, scenario>>

(* The person's own `:w` on the shared buffer.                             *)
Writes ==
    /\ front.doc # 0
    /\ Spend("moves")
    /\ file' = TRUE
    /\ front' = [front EXCEPT !.kept = TRUE]
    /\ companion' = Appears(companion)
    /\ Send([type |-> "wrote"])
    /\ UNCHANGED scenario

Hears(type) == companion.sent # <<>> /\ Head(companion.sent).type = type
Heard(c) == [c EXCEPT !.sent = Tail(@)]

(* messages.lua `save`: written when the buffer is there and the write     *)
(* works.  The write is the buffer's own only if it was asked for it.      *)
SavesIt ==
    /\ Hears("save")
    /\ front.doc # 0
    /\ file' = TRUE
    /\ front' = [front EXCEPT !.kept = @ \/ Head(companion.sent).of = front.doc]
    /\ companion' = Appears(Heard(companion))
    /\ Send([type |-> "saved", id |-> Head(companion.sent).id, ok |-> TRUE])
    /\ UNCHANGED <<spent, scenario>>

SavesNothing ==
    /\ Hears("save")
    /\ IF front.doc # 0 THEN Spend("faults") ELSE UNCHANGED spent
    /\ companion' = Heard(companion)
    /\ Send([type |-> "saved", id |-> Head(companion.sent).id, ok |-> FALSE])
    /\ UNCHANGED <<front, file, scenario>>

(* `status idle` is the teardown again, and no word on the next session.   *)
HearsStatus ==
    /\ Hears("status")
    /\ front' = IF Head(companion.sent).live
                THEN [front EXCEPT !.standing = "live"]
                ELSE [NoBuffer EXCEPT !.standing = IF @ = "live" THEN "idle" ELSE @]
    /\ companion' = Heard(companion)
    /\ UNCHANGED <<file, toCompanion, spent, scenario>>

(* A refused `open` names the path: the document is let go.                *)
HearsRefusal ==
    /\ Hears("refusal")
    /\ front' = NoBuffer
    /\ IF front.doc # 0 THEN Send([type |-> "close"]) ELSE UNCHANGED toCompanion
    /\ companion' = Heard(companion)
    /\ UNCHANGED <<file, spent, scenario>>

(***************************************************************************)
(* The folder: someone removes the file, or puts one there, unannounced.   *)
(***************************************************************************)
Moves ==
    /\ Spend("moves")
    /\ file' = ~file
    /\ companion' = IF file THEN companion ELSE Appears(companion)
    /\ UNCHANGED <<front, toCompanion, scenario>>

(***************************************************************************)
(* The companion: a request, an engine's answer or event, a timer, the     *)
(* disk's answer.                                                          *)
(***************************************************************************)
Takes ==
    /\ toCompanion # <<>>
    /\ toCompanion' = Tail(toCompanion)
    /\ LET message == Head(toCompanion)
       IN  companion' = CASE message.type = "start" -> Connect(companion, message.role)
                          [] message.type = "leave" -> Leave(companion)
                          [] message.type = "open" -> Open(companion, message)
                          [] message.type = "close" -> Close(companion)
                          [] message.type = "change" -> Changed(companion)
                          [] message.type = "wrote" -> Materialized(companion)
                          [] message.type = "saved" ->
                                SettleSave(companion, message.id, message.ok)
    /\ UNCHANGED <<front, file, spent, scenario>>

(* The engine's last word on a room (`roomGone`, `disconnected`).          *)
RoomEnds ==
    /\ companion.session # 0
    /\ Spend("endings")
    /\ companion' = Leave(companion)
    /\ UNCHANGED <<front, file, toCompanion, scenario>>

(* `documentChanged`: the bridge hears it first, then the session.         *)
TextArrives ==
    /\ companion.session # 0
    /\ ~Has(companion)
    /\ companion' = Arrive([companion EXCEPT !.engines[companion.session].has = TRUE,
                               !.bridge = IF @ = "unarrived" THEN "open" ELSE @])
    /\ UNCHANGED <<front, file, toCompanion, spent, scenario>>

Answered(session, asker) == [companion EXCEPT !.opens[session][asker] = @ - 1]

(* The answer to a hold the session took: nothing asks which session.      *)
SessionHolds ==
    /\ \E session \in Sessions :
          /\ companion.opens[session]["session"] > 0
          /\ companion' = IF companion.engines[session].has
                          THEN Arrive(Answered(session, "session"))
                          ELSE Answered(session, "session")
    /\ UNCHANGED <<front, file, toCompanion, spent, scenario>>

(* The answer to a hold the bridge took.  A hold nobody wants any more is  *)
(* given back; a disposed bridge has no document left.                     *)
BridgeHolds ==
    /\ \E session \in Sessions :
          /\ companion.opens[session]["bridge"] > 0
          /\ LET c == Answered(session, "bridge")
             IN  companion' =
                   CASE session # c.session ->
                           [c EXCEPT !.engines[session].holds = FALSE]
                     [] session = c.session /\ c.bridge = "none" -> EngineClose(c)
                     [] session = c.session /\ c.bridge = "unarrived" ->
                           [c EXCEPT !.held = TRUE,
                                     !.bridge = IF Has(c) THEN "open" ELSE @]
                     [] session = c.session /\ c.bridge = "open" ->
                           [c EXCEPT !.held = TRUE]
    /\ UNCHANGED <<front, file, toCompanion, spent, scenario>>

(* A refused hold.  The session keeps quiet about one that is not its      *)
(* own; a disposed bridge reports it all the same.                         *)
HoldRefused ==
    /\ Spend("refusals")
    /\ \E session \in Sessions, asker \in Askers :
          /\ companion.opens[session][asker] > 0
          /\ LET c == [Answered(session, asker) EXCEPT !.engines[session].refused = TRUE]
                 own == session = c.session
             IN  companion' =
                   CASE asker = "session" /\ ~own -> c
                     [] asker = "session" /\ own ->
                           Say([c EXCEPT !.unarrived = NoDocument], [type |-> "refusal"])
                     [] asker = "bridge" ->
                           Say([c EXCEPT !.bridge = IF own THEN "none" ELSE @],
                               [type |-> "refusal"])
    /\ UNCHANGED <<front, file, toCompanion, scenario>>

(* The deadline of the room's write.                                       *)
SaveFalls ==
    /\ companion.session # 0
    /\ companion.document # NoDocument
    /\ Spend("saves")
    /\ companion' = SaveHostFile(companion, file)
    /\ UNCHANGED <<front, file, toCompanion, scenario>>

(* The disk answers `pathAbsent`; a read that failed is not an absence.    *)
Reads ==
    /\ \E i \in DOMAIN companion.reads :
          /\ companion.reads[i].answer = "none"
          /\ \/ /\ companion' = [companion EXCEPT !.reads[i].answer =
                                    IF file THEN "not absent" ELSE "absent"]
                /\ UNCHANGED spent
             \/ /\ Spend("faults")
                /\ companion' = [companion EXCEPT !.reads[i].answer = "not absent",
                                                  !.reads[i].there = TRUE]
    /\ UNCHANGED <<front, file, toCompanion, scenario>>

Judges ==
    /\ \E i \in DOMAIN companion.reads :
          /\ companion.reads[i].answer # "none"
          /\ companion' = Judged([companion EXCEPT !.reads =
                                    SubSeq(@, 1, i - 1) \o SubSeq(@, i + 1, Len(@))],
                                 companion.reads[i])
    /\ UNCHANGED <<front, file, toCompanion, spent, scenario>>

Next ==
    \/ Starts \/ Leaves \/ Shares \/ Closes \/ Types \/ Writes
    \/ SavesIt \/ SavesNothing \/ HearsStatus \/ HearsRefusal
    \/ Moves
    \/ Takes \/ RoomEnds \/ TextArrives \/ SessionHolds \/ BridgeHolds \/ HoldRefused
    \/ SaveFalls \/ Reads \/ Judges

Spec == Init /\ [][Next]_vars
-----------------------------------------------------------------------------
(***************************************************************************)
(* Types: the records are what the handlers make of them.  At most one of  *)
(* the mirror and the kept-back document stands, unless an `open` was read *)
(* behind its session's end (`late`), and an answer outstanding to a write *)
(* is outstanding for an instance that was opened.                         *)
(***************************************************************************)
TypeOK ==
    /\ front \in [standing : {"idle", "asked", "live"}, doc : 0 .. Limits.opens,
                  edits : 0 .. Limits.edits, kept : BOOLEAN]
    /\ file \in BOOLEAN
    /\ companion.session \in {0, companion.started}
    /\ companion.role \in Roles
    /\ ~companion.late =>
          companion.document = NoDocument \/ companion.unarrived = NoDocument
    /\ companion.unarrived # NoDocument =>
          companion.session # 0 /\ companion.role = "guest"
    /\ companion.bridge \in {"none", "unarrived", "open"}
    /\ companion.bridge # "none" => companion.session # 0
    /\ \A id \in DOMAIN companion.saves :
          id <= companion.nextId /\ companion.saves[id] \in 1 .. companion.instances
    /\ companion.opens \in [Sessions -> [Askers -> Nat]]
    /\ spent \in [Budgets -> Nat]

Waiting(types) ==
    \E i \in DOMAIN toCompanion : toCompanion[i].type \in types
Told(type) == \E i \in DOMAIN companion.sent : companion.sent[i].type = type

(* Both sides know of the same session and of the same buffer in it.       *)
InStep ==
    /\ front.standing = "live"
    /\ companion.session # 0
    /\ front.doc # 0
    /\ ~Told("status") /\ ~Told("refusal")
    /\ ~Waiting({"start", "leave", "open", "close"})

(* Every change the person makes is counted once by the mirror, also one   *)
(* made while the document was held back, and none twice: the number the   *)
(* companion holds and the changes still on the pipe add up to the number  *)
(* the buffer counted, which is what an `applyEdit` is addressed with      *)
(* (session.ts `changed`, `arrive`).                                       *)
KeystrokesAreCounted ==
    InStep =>
        LET onTheWay == Cardinality({i \in DOMAIN toCompanion :
                                        toCompanion[i].type = "change"})
        IN  \/ /\ companion.unarrived # NoDocument
               /\ companion.unarrived.of = front.doc
               /\ companion.unarrived.changes + onTheWay = front.edits
            \/ /\ companion.unarrived = NoDocument
               /\ companion.document # NoDocument
               /\ companion.document.of = front.doc
               /\ companion.document.version + onTheWay = front.edits

(* The same, where no document was opened behind its session's end: such a *)
(* one outlives `reset` and takes the changes of the next in its place.    *)
KeystrokesAreCountedUnlessLate == ~companion.late => KeystrokesAreCounted

(* A guest's buffer that holds text of its own is put beside the room's    *)
(* text only when that text is here, and is not kept back once it is,      *)
(* whichever of the hold's answer, the text, a close and a new session     *)
(* comes first (session.ts `open`, bridge.ts `documentOpened`).            *)
OpenedWithTheText ==
    companion.session # 0 /\ companion.role = "guest" =>
        /\ companion.unarrived # NoDocument => ~Has(companion)
        /\ /\ companion.bridge = "open"
           /\ companion.document # NoDocument
           /\ companion.document.text
           => Has(companion)

AtRest ==
    /\ companion.session # 0
    /\ front.standing = "live"
    /\ toCompanion = <<>> /\ companion.sent = <<>>
    /\ \A asker \in Askers : companion.opens[companion.session][asker] = 0

(* When nothing is outstanding, this connection holds the path in the room *)
(* only if the person has it open: two askers take the hold, and a close   *)
(* may meet it before either answer (session.ts `close`, bridge.ts `hold`  *)
(* and `release`).  But for a hold the room refused since the path was     *)
(* last given up: the engine has taken it by then, and nobody gives it up. *)
HoldsAreOpen ==
    /\ AtRest
    /\ companion.engines[companion.session].holds
    /\ ~companion.engines[companion.session].refused
    => front.doc # 0

(* What a host's mirror says of the folder is so: a path is marked as one  *)
(* that held a file only when a file was there as it was shared or was     *)
(* written from this buffer since, and when no word is on its way it is    *)
(* marked then (editor.ts `opened`, `materialized`, `settleSave`).         *)
MarkIsKnown ==
    /\ companion.session # 0
    /\ companion.role = "host"
    /\ companion.document # NoDocument
    /\ companion.document.of = front.doc
    => /\ companion.document.materialized => front.kept
       /\ front.kept /\ toCompanion = <<>> => companion.document.materialized

(* The room's write puts a file where there is none only if the folder was *)
(* not known to have held one, or if one was there, or the disk would not  *)
(* say, after the write was asked for: a file deleted before that stays    *)
(* deleted (session.ts `saveHostFile`, `pathAbsent`).                      *)
DeletionStands ==
    [][ /\ Hears("save")
        /\ companion.sent # companion'.sent
        /\ ~file /\ file'
        => \/ ~Head(companion.sent).guarded
           \/ Head(companion.sent).there ]_vars
=============================================================================
