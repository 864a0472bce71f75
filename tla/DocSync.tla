------------------------------ MODULE DocSync ------------------------------
(***************************************************************************)
(* One shared document of a guest: the Neovim buffer that shows it, the    *)
(* companion process that mirrors the buffer and bridges it to the room,   *)
(* and the room's replica, which is the companion's own.                   *)
(*                                                                         *)
(* The two processes talk over two FIFO pipes.  The companion runs one     *)
(* handler at a time (a request, an engine event or a timer), so every     *)
(* handler is one operator on the record `companion` and one action; the   *)
(* operators are named after the methods they stand for.  The buffer can   *)
(* change while any message is on its way, which is what the versions, the *)
(* rebasing and the bridge's flights are for.                              *)
(***************************************************************************)
EXTENDS Texts

CONSTANTS Scenarios,         \* what the room holds, and what each side may do to it
          MaxRebasedOffers,  \* MAX_REBASED_OFFERS of companion/editor.ts
          MaxApplyAttempts   \* maxApplyAttempts of vendor/bridge/bridge.ts

NoDocument == [none |-> "document"]
NoFlight == [none |-> "flight"]

(* What the environment may do a bounded number of times: the `limits` of  *)
(* a scenario give the bound of each.                                      *)
Budgets == {"userEdits", "userUnits", "peerEdits", "peerUnits", "reloads",
            "locks", "reopens", "remirrors", "failedSaves", "refusedHolds"}

ASSUME ScenariosAreBounded ==
    \A one \in Scenarios :
        /\ one.limits \in [Budgets -> Nat]
        /\ \A text \in {one.base, one.user, one.peer} : text \in Seq(ToSet(text))
        /\ one.limits.userUnits <= Len(one.user)
        /\ one.limits.peerUnits <= Len(one.peer)
        /\ one.shareable \in Nat
        /\ one.granted \in BOOLEAN
ASSUME BoundsAreCounts ==
    MaxRebasedOffers \in Nat /\ MaxApplyAttempts \in Nat \ {0}

VARIABLES front,        \* the buffer and what the Lua document counts
          toCompanion,  \* the companion's stdin
          companion,    \* the mirror, the bridge, the replica and its stdout
          spent,        \* how much of the scenario's limits is used up
          erased,       \* history: what someone removed on purpose
          scenario      \* the scenario this behaviour is of; it never changes

vars == <<front, toCompanion, companion, spent, erased, scenario>>

BaseText == scenario.base     \* what the room holds when the session starts
UserUnits == scenario.user    \* what the person types, in this order
PeerUnits == scenario.peer    \* what the peers type, in this order
Limits == scenario.limits     \* how often the environment does each thing
MaxShareable == scenario.shareable  \* the longest text this session carries
Granted == scenario.granted   \* whether its path is one the grant carries

(* The budget `what` allows another `n`.                                   *)
Spend(what, n) ==
    /\ spent[what] + n <= Limits[what]
    /\ spent' = [spent EXCEPT ![what] = @ + n]

(***************************************************************************)
(* What the two sides can exchange.  Neovim holds whole characters; the    *)
(* room's text is made by other editors and may hold half of one, of which *)
(* no range can be worked out: nothing goes either way, and nothing is     *)
(* written, until it is whole again.                                       *)
(***************************************************************************)
Malformed(c) == HasLoneSurrogate(c.document.text) \/ HasLoneSurrogate(c.replica)

(* `seedRefusal`: a buffer that no session carries.                        *)
Refused(text) ==
    \/ ~Granted
    \/ HasLoneSurrogate(text)
    \/ Len(text) > MaxShareable

(* Why `publish` leaves the room's text as it is.                          *)
Refuses(c) == Refused(c.document.text) \/ HasLoneSurrogate(c.replica)

(***************************************************************************)
(* Saves (bridge.ts): "none" is no outstanding remote write, "armed" one   *)
(* whose deadline runs, "paused" one whose deadline is held, not forgiven. *)
(***************************************************************************)
PauseSave(c) == IF c.save = "none" THEN c ELSE [c EXCEPT !.save = "paused"]

MoveSave(c) == IF c.save = "none" THEN c ELSE [c EXCEPT !.save = "armed"]

(* A slip: a paused deadline stays paused.                                 *)
ResumeSaveNever(c) == c

ResumeSave(c) ==
    IF /\ c.save = "paused" /\ c.flight = NoFlight
       /\ c.document # NoDocument /\ ~Malformed(c)
    THEN [c EXCEPT !.save = "armed"]
    ELSE c

(***************************************************************************)
(* History: a report that the buffer and the room differ accounts for      *)
(* every unit the mirror holds and the room does not, and goes on doing so *)
(* until the two have agreed again.                                        *)
(***************************************************************************)
Account(c) ==
    IF c.told
    THEN [c EXCEPT !.accounted = @ \cup (Units(c.document.text) \ Units(c.replica))]
    ELSE c

Report(c) == Account([c EXCEPT !.told = TRUE, !.warned = TRUE])

(* The person hears that the buffer does not take the room's text: it      *)
(* refused as often as is tried, or one of the two holds half a character. *)
ReportRefused(c) ==
    Report([c EXCEPT !.refused = @ \cup (Units(c.replica) \ Units(c.document.text))])

(* A change landed, or the two agree: the episode of refusals is over.     *)
Calm(c) == [c EXCEPT !.attempts = 0, !.told = FALSE]

(***************************************************************************)
(* The editor host's offers (editor.ts).  An offer is addressed by an id;  *)
(* `serial` names the bridge's flight its promise settles, `base` is the   *)
(* mirror's text the range was computed from (history).                    *)
(***************************************************************************)
Offer(c, pending) ==
    LET id == c.nextId + 1
    IN  [c EXCEPT !.nextId = id,
                  !.applies = [i \in DOMAIN @ \cup {id} |->
                                 IF i = id THEN pending ELSE @[i]],
                  !.sent = Append(@, [type |-> "applyEdit", id |-> id,
                                      change |-> pending.change,
                                      version |-> pending.version,
                                      base |-> c.document.text])]

(* bridge.ts `issue`, with editor.ts `applyChange` behind it.  The id the  *)
(* first offer gets is as good a name for the flight as any.               *)
Issue(c, change, expected) ==
    Offer([c EXCEPT !.flight = [serial |-> c.nextId + 1, expected |-> expected,
                                replica |-> c.replica,
                                before |-> c.document.text, moved |-> FALSE]],
          [change |-> change, version |-> c.document.version, withheld |-> <<>>,
           offered |-> 0, serial |-> c.nextId + 1])

Reconcile(c) ==
    CASE c.flight # NoFlight ->
            [PauseSave(c) EXCEPT !.pending = TRUE]
      [] c.flight = NoFlight /\ c.document = NoDocument -> c
      [] c.flight = NoFlight /\ c.document # NoDocument /\ Malformed(c) ->
            ReportRefused([PauseSave(c) EXCEPT !.backstop = FALSE])
      [] /\ c.flight = NoFlight
         /\ c.document # NoDocument
         /\ ~Malformed(c)
         /\ c.document.text = c.replica ->
            ResumeSave([Calm(c) EXCEPT !.backstop = FALSE])
      [] OTHER ->
            [Issue(c, Diff(c.document.text, c.replica), c.replica)
                EXCEPT !.save = "armed", !.backstop = TRUE]

(* bridge.ts `publish`: the replica takes the buffer's difference at once; *)
(* a refused buffer is left alone and said so, once while it is open, for  *)
(* whatever is refused of it until it is closed.                           *)
Publish(c) ==
    IF Refuses(c)
    THEN LET own == Units(c.document.text) \ Units(c.replica)
             quiet == [PauseSave(c) EXCEPT
                          !.backstop = FALSE, !.refusedSeed = TRUE,
                          !.unshared = @ \cup own, !.accounted = @ \cup own]
         IN  IF c.refusedSeed THEN quiet ELSE Report(quiet)
    ELSE [c EXCEPT !.replica = ApplyChange(@, Diff(@, c.document.text)),
                   !.unscanned = TRUE]

(***************************************************************************)
(* The bridge's settlement of an apply.                                    *)
(***************************************************************************)
(* A slip: the local edit is reconciled away without a report.             *)
RefuseQuietly(c, moved) ==
    LET tried == [c EXCEPT !.attempts = @ + 1]
    IN  IF tried.attempts >= MaxApplyAttempts
        THEN ReportRefused([tried EXCEPT !.pending = FALSE, !.backstop = FALSE])
        ELSE Reconcile(tried)

Refuse(c, moved) ==
    LET tried == [c EXCEPT !.attempts = @ + 1]
    IN  CASE tried.attempts >= MaxApplyAttempts ->
                ReportRefused([tried EXCEPT !.pending = FALSE, !.backstop = FALSE])
          [] tried.attempts < MaxApplyAttempts /\ moved /\ tried.attempts = 1 ->
                Reconcile(Report(tried))
          [] OTHER -> Reconcile(Account(tried))

(* A slip: whether the person typed is read off the text alone.            *)
PublishWindowByText(c, flight) ==
    IF c.document.text \in {flight.expected, flight.before, c.replica}
    THEN c
    ELSE IF c.replica = flight.replica THEN Publish(c) ELSE Report(c)

(* What a settled apply owes the room when the buffer is not what the      *)
(* apply asked for: the person typed into the window.                      *)
PublishWindow(c, flight) ==
    CASE \/ c.document.text \in {flight.expected, c.replica}
         \/ c.replica = flight.replica /\ c.document.text = flight.before
                /\ ~flight.moved -> c
      [] /\ c.document.text \notin {flight.expected, c.replica}
         /\ c.replica # flight.replica -> Report(c)
      [] OTHER -> IF Refuses(c)
                  THEN [Publish(c) EXCEPT !.pending = FALSE, !.backstop = FALSE]
                  ELSE Publish(c)

(* A slip: what came in while the apply was out is forgotten.              *)
ReconcilePendingNever(c) == [c EXCEPT !.pending = FALSE]

ReconcilePending(c) ==
    IF c.pending THEN Reconcile([c EXCEPT !.pending = FALSE]) ELSE c

Settle(c, applied) ==
    LET landed == [c EXCEPT !.flight = NoFlight]
    IN  CASE ~c.open -> landed
          [] c.open /\ ~applied -> ResumeSave(Refuse(landed, c.flight.moved))
          [] c.open /\ applied ->
                ResumeSave(ReconcilePending(
                    PublishWindow(Calm(landed), c.flight)))

(* The promise of an apply settles: only the flight it was issued for      *)
(* hears it.                                                               *)
Resolve(c, pending, applied) ==
    IF c.flight # NoFlight /\ c.flight.serial = pending.serial
    THEN Settle(c, applied)
    ELSE c

(***************************************************************************)
(* Requests from the front-end.                                            *)
(***************************************************************************)
Take(document, change) ==
    [document EXCEPT !.text = ApplyChange(@, change), !.version = @ + 1]

(* Slips: an applied edit is counted and not mirrored; one offer too many. *)
SettleApplyUnmirrored(c, id, ok) ==
    LET pending == c.applies[id]
        answered == [c EXCEPT !.applies = [i \in DOMAIN @ \ {id} |-> @[i]]]
    IN  IF ok /\ c.document # NoDocument /\ c.document.version = pending.version
        THEN Resolve([answered EXCEPT !.document.version = @ + 1], pending, TRUE)
        ELSE Resolve(answered, pending, FALSE)

SettleApplyOffersOneMore(c, id, ok) ==
    LET pending == c.applies[id]
        answered == [c EXCEPT !.applies = [i \in DOMAIN @ \ {id} |-> @[i]]]
        current == c.document # NoDocument /\ c.document.version = pending.version
        moved == Rebase(pending.change, pending.withheld)
    IN  IF /\ ~ok /\ c.document # NoDocument /\ ~current
           /\ pending.offered <= MaxRebasedOffers
           /\ moved.placed
        THEN Offer(answered, [pending EXCEPT !.change = moved.change,
                                             !.version = c.document.version,
                                             !.withheld = <<>>,
                                             !.offered = @ + 1])
        ELSE IF ok /\ current
             THEN Resolve([answered EXCEPT !.document = Take(@, pending.change)],
                          pending, TRUE)
             ELSE Resolve(answered, pending, FALSE)

(* editor.ts `settleApply`.                                                *)
SettleApply(c, id, ok) ==
    LET pending == c.applies[id]
        answered == [c EXCEPT !.applies = [i \in DOMAIN @ \ {id} |-> @[i]]]
        current == c.document # NoDocument /\ c.document.version = pending.version
        moved == Rebase(pending.change, pending.withheld)
        again == /\ ~ok /\ c.document # NoDocument /\ ~current
                 /\ pending.offered < MaxRebasedOffers
                 /\ moved.placed
    IN  CASE ok /\ current ->
                Resolve([answered EXCEPT !.document = Take(@, pending.change)],
                        pending, TRUE)
          [] again ->
                Offer(answered, [pending EXCEPT !.change = moved.change,
                                                !.version = c.document.version,
                                                !.withheld = <<>>,
                                                !.offered = @ + 1])
          [] OTHER -> Resolve(answered, pending, FALSE)

(* A slip: a keystroke is published while an apply is out.                 *)
DocumentChangedMidFlight(c) ==
    IF ~c.open \/ c.document.text = c.replica THEN c
    ELSE [Publish(MoveSave(c)) EXCEPT !.backstop = TRUE]

(* A slip: the backstop also runs over text the room refused.              *)
DocumentChangedBackstopped(c) ==
    CASE ~c.open -> c
      [] c.open /\ c.document.text = c.replica -> ResumeSave(c)
      [] c.open /\ c.document.text # c.replica /\ c.flight # NoFlight ->
            [PauseSave(c) EXCEPT !.flight.moved = TRUE, !.pending = TRUE]
      [] OTHER -> [Publish(MoveSave(c)) EXCEPT !.backstop = TRUE]

(* bridge.ts `documentChanged`.                                            *)
DocumentChanged(c) ==
    CASE ~c.open -> c
      [] c.open /\ c.document.text = c.replica -> ResumeSave(c)
      [] c.open /\ c.document.text # c.replica /\ c.flight # NoFlight ->
            [PauseSave(c) EXCEPT !.flight.moved = TRUE, !.pending = TRUE]
      [] OTHER -> IF Refuses(c)
                  THEN Publish(MoveSave(c))
                  ELSE [Publish(MoveSave(c)) EXCEPT !.backstop = TRUE]

(* What an offer that is out will have to be moved through.                *)
Withhold(pending, change) == [pending EXCEPT !.withheld = Append(@, change)]

(* editor.ts `changed`, then the bridge.                                   *)
Changed(c, change) ==
    IF c.document = NoDocument THEN c
    ELSE DocumentChanged(
            [c EXCEPT !.document = Take(@, change),
                      !.applies = [id \in DOMAIN @ |-> Withhold(@[id], change)]])

(* editor.ts `opened`, then bridge.ts `documentOpened`: the document is    *)
(* reconciled with the room and a hold on it is asked for.                 *)
Opened(c, text) ==
    [Reconcile([c EXCEPT !.document = [text |-> text, version |-> 0],
                         !.open = TRUE])
        EXCEPT !.opening = @ + 1]

(* What a close and a refused hold both drop from the bridge.              *)
Forget(c) ==
    [Calm(c) EXCEPT !.open = FALSE, !.flight = NoFlight, !.pending = FALSE,
                    !.save = "none", !.backstop = FALSE]

(* A slip: the mirror of a closed document stays.                          *)
ClosedKeepsMirror(c) == [Forget(c) EXCEPT !.refusedSeed = FALSE, !.held = FALSE]

(* bridge.ts `documentClosed`, then editor.ts `closed`.  The offers stay.  *)
Closed(c) ==
    [Forget(c) EXCEPT !.document = NoDocument, !.refusedSeed = FALSE, !.held = FALSE]

(* editor.ts `settleSave`; what a failed write is told to the person, the  *)
(* bridge does nothing else about.                                         *)
SettleSave(c, id) == [c EXCEPT !.saves = @ \ {id}]

(***************************************************************************)
(* The initial state: the guest has opened a document whose text is here,  *)
(* and holds it in the room.                                               *)
(***************************************************************************)
Init ==
    /\ scenario \in Scenarios
    /\ front = [shared |-> TRUE, buffer |-> BaseText, version |-> 0,
                modifiable |-> TRUE, disk |-> BaseText]
    /\ toCompanion = <<>>
    /\ companion =
          [document |-> [text |-> BaseText, version |-> 0],
           applies |-> <<>>, saves |-> {}, nextId |-> 0, sent |-> <<>>,
           open |-> TRUE, flight |-> NoFlight, pending |-> FALSE, attempts |-> 0,
           backstop |-> FALSE, save |-> "none", refusedSeed |-> FALSE,
           opening |-> 0, held |-> TRUE,
           replica |-> BaseText, unscanned |-> FALSE,
           told |-> FALSE, accounted |-> {}, refused |-> {},
           unshared |-> {}, warned |-> FALSE]
    /\ spent = [what \in Budgets |-> 0]
    /\ erased = {}

(***************************************************************************)
(* The person at the buffer (lua/selvage/document.lua, share.lua).         *)
(* Neovim's text is UTF-8 and its positions lie between whole characters,  *)
(* so nothing the person does leaves half of one.                          *)
(***************************************************************************)
Send(message) == toCompanion' = Append(toCompanion, message)

(* One keystroke or one deletion: the buffer and its version move, and the *)
(* range goes to the companion (`on_bytes`).                               *)
LocalChange(change) ==
    /\ front.shared
    /\ front' = [front EXCEPT !.buffer = ApplyChange(@, change), !.version = @ + 1]
    /\ Send([type |-> "change", change |-> change])
    /\ UNCHANGED companion

UserInserts ==
    /\ front.modifiable
    /\ Spend("userUnits", 1)
    /\ \E at \in 0 .. Len(front.buffer) :
          /\ ~SplitsPair(front.buffer, at)
          /\ LocalChange(Edit(at, at, <<UserUnits[spent.userUnits + 1]>>))
    /\ UNCHANGED erased

(* Where the character that starts at `at` ends.                           *)
PastCharacter(text, at) == IF SplitsPair(text, at + 1) THEN at + 2 ELSE at + 1

UserDeletes ==
    /\ front.modifiable
    /\ Spend("userEdits", 1)
    /\ \E at \in 0 .. Len(front.buffer) - 1 :
          LET end == PastCharacter(front.buffer, at)
          IN  /\ ~SplitsPair(front.buffer, at)
              /\ LocalChange(Edit(at, end, <<>>))
              /\ erased' = erased \cup Units(SubSeq(front.buffer, at + 1, end))

(* `:edit!`: the buffer becomes the file, and `resync` publishes the whole *)
(* document as one change.                                                 *)
UserReloads ==
    /\ Spend("reloads", 1)
    /\ LocalChange(Edit(0, Len(front.buffer), front.disk))
    /\ erased' = erased \cup (Units(front.buffer) \ Units(front.disk))

(* `:set nomodifiable`, which refuses the room's edits as well.            *)
UserLocks ==
    /\ front.shared /\ front.modifiable
    /\ Spend("locks", 1)
    /\ front' = [front EXCEPT !.modifiable = FALSE]
    /\ UNCHANGED <<toCompanion, companion, erased>>

UserUnlocks ==
    /\ ~front.modifiable
    /\ front' = [front EXCEPT !.modifiable = TRUE]
    /\ UNCHANGED <<toCompanion, companion, spent, erased>>

(* share.lua `let_go`: a close goes to the companion and the document is   *)
(* forgotten.                                                              *)
LetGo ==
    /\ front' = [front EXCEPT !.shared = FALSE]
    /\ Send([type |-> "close"])

(* `:bwipeout!`: what the buffer held and the disk does not is given up.   *)
UserWipes ==
    /\ front.shared
    /\ Limits["reopens"] > spent.reopens
    /\ LetGo
    /\ erased' = erased \cup Units(front.buffer)
    /\ UNCHANGED <<companion, spent>>

(* The file is opened again: `share` makes a new document, counting from   *)
(* zero.                                                                   *)
UserReopens ==
    /\ ~front.shared
    /\ Spend("reopens", 1)
    /\ front' = [front EXCEPT !.shared = TRUE, !.buffer = front.disk,
                              !.version = 0, !.modifiable = TRUE]
    /\ Send([type |-> "open", text |-> front.disk])
    /\ UNCHANGED <<companion, erased>>

(* `remirror_documents`: a listing names the path, so the document moves   *)
(* to the mirror's file.  A second open, and no close before it.           *)
Remirror ==
    /\ front.shared
    /\ Spend("remirrors", 1)
    /\ front' = [front EXCEPT !.version = 0, !.modifiable = TRUE,
                              !.disk = front.buffer]
    /\ Send([type |-> "open", text |-> front.buffer])
    /\ UNCHANGED <<companion, erased>>

(***************************************************************************)
(* The front-end's answers (messages.lua `on_message`).                    *)
(***************************************************************************)
NextForFront(type) ==
    /\ companion.sent # <<>>
    /\ Head(companion.sent).type = type
    /\ companion' = [companion EXCEPT !.sent = Tail(@)]

(* A slip: the count is not compared.                                      *)
TakesAnyVersion(edit) == front.shared /\ front.modifiable

(* Whether `Document:apply` takes the edit.                                *)
Takes(edit) ==
    front.shared /\ edit.version = front.version /\ front.modifiable

FrontApplies ==
    /\ NextForFront("applyEdit")
    /\ LET edit == Head(companion.sent)
       IN  /\ Takes(edit)
           /\ front' = [front EXCEPT !.buffer = ApplyChange(@, edit.change),
                                     !.version = @ + 1]
           /\ Send([type |-> "applied", id |-> edit.id, ok |-> TRUE])
    /\ UNCHANGED <<spent, erased>>

(* A slip: an edit that is not taken is not answered either.               *)
FrontRefusesSilently ==
    /\ NextForFront("applyEdit")
    /\ ~Takes(Head(companion.sent))
    /\ UNCHANGED <<front, toCompanion, spent, erased>>

FrontRefuses ==
    /\ NextForFront("applyEdit")
    /\ LET edit == Head(companion.sent)
       IN  /\ ~Takes(edit)
           /\ Send([type |-> "applied", id |-> edit.id, ok |-> FALSE])
    /\ UNCHANGED <<front, spent, erased>>

FrontSaves ==
    /\ NextForFront("save")
    /\ front.shared
    /\ front' = [front EXCEPT !.disk = front.buffer]
    /\ Send([type |-> "saved", id |-> Head(companion.sent).id, ok |-> TRUE])
    /\ UNCHANGED <<spent, erased>>

(* The write failed, or the path is one this session no longer holds.      *)
FrontFailsToSave ==
    /\ NextForFront("save")
    /\ IF front.shared THEN Spend("failedSaves", 1) ELSE UNCHANGED spent
    /\ Send([type |-> "saved", id |-> Head(companion.sent).id, ok |-> FALSE])
    /\ UNCHANGED <<front, erased>>

(* A report that the room refused the open: the document is let go of.     *)
FrontHearsRefusal ==
    /\ NextForFront("openRefused")
    /\ IF front.shared
       THEN LetGo /\ erased' = erased \cup Units(front.buffer)
       ELSE UNCHANGED <<front, toCompanion, erased>>
    /\ UNCHANGED spent

FrontStep ==
    FrontApplies \/ FrontRefuses \/ FrontSaves \/ FrontFailsToSave \/ FrontHearsRefusal

(***************************************************************************)
(* The companion: the queued requests (main.ts runs them one at a time).   *)
(***************************************************************************)
NextForCompanion(type) ==
    /\ toCompanion # <<>>
    /\ Head(toCompanion).type = type
    /\ toCompanion' = Tail(toCompanion)
    /\ UNCHANGED <<front, spent, erased>>

CompanionTakesChange ==
    /\ NextForCompanion("change")
    /\ companion' = Changed(companion, Head(toCompanion).change)

CompanionTakesApplied ==
    /\ NextForCompanion("applied")
    /\ companion' = SettleApply(companion, Head(toCompanion).id, Head(toCompanion).ok)

CompanionTakesSaved ==
    /\ NextForCompanion("saved")
    /\ companion' = SettleSave(companion, Head(toCompanion).id)

CompanionTakesOpen ==
    /\ NextForCompanion("open")
    /\ companion' = Opened(companion, Head(toCompanion).text)

CompanionTakesClose ==
    /\ NextForCompanion("close")
    /\ companion' = Closed(companion)

CompanionStep ==
    \/ CompanionTakesChange
    \/ CompanionTakesApplied
    \/ CompanionTakesSaved
    \/ CompanionTakesOpen
    \/ CompanionTakesClose

(***************************************************************************)
(* The companion's timers.                                                 *)
(***************************************************************************)

(* bridge.ts `backstop`: the buffer has been quiet and still differs, so   *)
(* the whole document is replaced.                                         *)
BackstopFires ==
    /\ companion.backstop
    /\ LET c == [companion EXCEPT !.backstop = FALSE]
       IN  companion' =
             CASE c.open /\ c.flight # NoFlight -> [c EXCEPT !.pending = TRUE]
               [] /\ c.open
                  /\ c.flight = NoFlight
                  /\ c.document # NoDocument
                  /\ Malformed(c) -> Reconcile(c)
               [] /\ c.open
                  /\ c.flight = NoFlight
                  /\ c.document # NoDocument
                  /\ ~Malformed(c)
                  /\ c.document.text # c.replica ->
                     [Issue(Report(c),
                            Edit(0, Len(c.document.text), c.replica), c.replica)
                        EXCEPT !.save = "armed"]
               [] OTHER -> c
    /\ UNCHANGED <<front, toCompanion, spent, erased>>

(* The deadline of `scheduleSave`: a document with an apply in flight is   *)
(* written once that has settled, one with half a character once it is     *)
(* whole.                                                                  *)
SaveFires ==
    /\ companion.save = "armed"
    /\ companion' =
         IF \/ companion.document = NoDocument \/ companion.flight # NoFlight
            \/ Malformed(companion)
         THEN [companion EXCEPT !.save = "paused"]
         ELSE [companion EXCEPT !.save = "none",
                                !.nextId = @ + 1,
                                !.saves = @ \cup {companion.nextId + 1},
                                !.sent = Append(@, [type |-> "save",
                                                    id |-> companion.nextId + 1])]
    /\ UNCHANGED <<front, toCompanion, spent, erased>>

(***************************************************************************)
(* The engine.                                                             *)
(***************************************************************************)

(* bridge.ts `onEngineEvent`, a text that changed: the document is brought *)
(* to the replica, text refused earlier and all.                           *)
Announced(c) == Reconcile([c EXCEPT !.unscanned = FALSE, !.unshared = {}])

(* A peer's edit reaches the replica and is announced in the same turn.    *)
(* What the peer's editor is, nobody here decides: its edit may leave half *)
(* of a character in the room's text.                                      *)
PeerEdits(change) ==
    /\ companion' = Announced([companion EXCEPT !.replica = ApplyChange(@, change)])
    /\ UNCHANGED <<front, toCompanion>>

PeerInserts ==
    /\ Spend("peerUnits", 1)
    /\ \E at \in 0 .. Len(companion.replica) :
          PeerEdits(Edit(at, at, <<PeerUnits[spent.peerUnits + 1]>>))
    /\ UNCHANGED erased

PeerDeletes ==
    /\ Spend("peerEdits", 1)
    /\ \E at \in 0 .. Len(companion.replica) - 1 :
          /\ PeerEdits(Edit(at, at + 1, <<>>))
          /\ erased' = erased \cup {companion.replica[at + 1]}

(* `scanTexts` finds this client's own edits at the next content frame,    *)
(* whatever that frame carried.                                            *)
OwnEditsAnnounced ==
    /\ companion.unscanned
    /\ companion' = Announced(companion)
    /\ UNCHANGED <<front, toCompanion, spent, erased>>

(* A slip: a hold nobody wants any more stands.                            *)
HoldGrantedAnyway ==
    /\ companion.opening > 0
    /\ companion' = [companion EXCEPT !.opening = @ - 1, !.held = TRUE]
    /\ UNCHANGED <<front, toCompanion, spent, erased>>

(* The room's answer to a hold (bridge.ts `hold`).                         *)
HoldGranted ==
    /\ companion.opening > 0
    /\ companion' = [companion EXCEPT !.opening = @ - 1, !.held = companion.open]
    /\ UNCHANGED <<front, toCompanion, spent, erased>>

HoldRefused ==
    /\ companion.opening > 0
    /\ Spend("refusedHolds", 1)
    /\ companion' = [Forget(companion) EXCEPT !.opening = @ - 1,
                         !.sent = Append(@, [type |-> "openRefused"])]
    /\ UNCHANGED <<front, toCompanion, erased>>

Person ==
    \/ UserInserts
    \/ UserDeletes
    \/ UserReloads
    \/ UserLocks
    \/ UserUnlocks
    \/ UserWipes
    \/ UserReopens
    \/ Remirror

Room == PeerInserts \/ PeerDeletes \/ HoldRefused

(* What the two processes and the room's answers do by themselves.         *)
System ==
    \/ FrontStep
    \/ CompanionStep
    \/ BackstopFires
    \/ SaveFires
    \/ HoldGranted

Next ==
    /\ Person \/ Room \/ System \/ OwnEditsAnnounced
    /\ UNCHANGED scenario

Spec == Init /\ [][Next]_vars

(* Something is left for the two processes or the room to do: `System` is  *)
(* enabled exactly then.                                                   *)
Ready ==
    \/ toCompanion # <<>>
    \/ companion.sent # <<>>
    \/ companion.backstop
    \/ companion.save = "armed"
    \/ companion.opening > 0

(* Weak fairness of `System`, with its enabling condition written out: the *)
(* processes read their pipes, the timers run out and the room answers.    *)
(* Nobody has to type.                                                     *)
Fairness == []<>~Ready \/ []<><<System>>_vars

FairSpec == Spec /\ Fairness

(***************************************************************************)
(* Properties.                                                             *)
(***************************************************************************)
AllUnits == Units(BaseText) \cup Units(UserUnits) \cup Units(PeerUnits)

Texts == Seq(AllUnits)

TextChanges == [start : Nat, end : Nat, text : Texts]

(* The variables keep their shapes.                                        *)
TypeOK ==
    /\ front \in [shared : BOOLEAN, buffer : Texts, version : Nat,
                  modifiable : BOOLEAN, disk : Texts]
    /\ companion.document \in {NoDocument} \cup [text : Texts, version : Nat]
    /\ companion.flight \in {NoFlight} \cup
          [serial : Nat, expected : Texts, replica : Texts, before : Texts,
           moved : BOOLEAN]
    /\ companion.replica \in Texts
    /\ companion.save \in {"none", "armed", "paused"}
    /\ \A id \in DOMAIN companion.applies :
          companion.applies[id] \in
            [change : TextChanges, version : Nat, withheld : Seq(TextChanges),
             offered : 0 .. MaxRebasedOffers, serial : Nat]
    /\ DOMAIN companion.applies \cup companion.saves \subseteq 1 .. companion.nextId
    /\ spent \in [Budgets -> Nat]

(* The mirror as it will be once the companion has read its pipe.          *)
Heard(document, message) ==
    CASE message.type = "open" -> [text |-> message.text, version |-> 0]
      [] message.type = "close" -> NoDocument
      [] message.type = "change" -> Take(document, message.change)
      [] message.type = "applied" ->
            IF /\ message.ok /\ document # NoDocument
               /\ document.version = companion.applies[message.id].version
            THEN Take(document, companion.applies[message.id].change)
            ELSE document
      [] OTHER -> document

(* The mirror plus what is on its way to it is the buffer, text and count  *)
(* alike: the bridge, which asks for the mirror, is only ever behind the   *)
(* buffer and never beside it.                                             *)
Mirror[i \in 0 .. Len(toCompanion)] ==
    IF i = 0 THEN companion.document ELSE Heard(Mirror[i - 1], toCompanion[i])

MirrorCatchesUp ==
    Mirror[Len(toCompanion)]
        = IF front.shared THEN [text |-> front.buffer, version |-> front.version]
          ELSE NoDocument

(* An edit of the room that the front-end would take now is one computed   *)
(* from the very text the buffer holds: equal counts mean equal texts.     *)
OffersLandWhereComputed ==
    \A i \in DOMAIN companion.sent :
        LET edit == companion.sent[i]
        IN  edit.type = "applyEdit" /\ Takes(edit) => front.buffer = edit.base

OfferedAs(id) == {i \in DOMAIN companion.sent :
                     companion.sent[i].type = "applyEdit" /\ companion.sent[i].id = id}

AnsweredAs(id) == {i \in DOMAIN toCompanion :
                     toCompanion[i].type = "applied" /\ toCompanion[i].id = id}

(* Every apply the editor host waits for is in exactly one place: asked    *)
(* for and unread, or answered and unread; an id is never lost or reused.  *)
(* A flight holds back every other apply of its document, so there is      *)
(* always exactly one outstanding offer whose answer ends it.              *)
EveryOfferIsAnsweredOnce ==
    /\ \A id \in DOMAIN companion.applies :
          Cardinality(OfferedAs(id)) + Cardinality(AnsweredAs(id)) = 1
    /\ companion.flight # NoFlight =>
          Cardinality({id \in DOMAIN companion.applies :
              companion.applies[id].serial = companion.flight.serial}) = 1

Quiet == ~Ready /\ companion.flight = NoFlight

(* A quiet document that both sides hold.                                  *)
Rested == Quiet /\ front.shared /\ companion.open

(* One that nobody gave up on either, that the room can carry, and whose   *)
(* text in the room holds no half of a character.                          *)
AtRest ==
    /\ Rested
    /\ companion.attempts < MaxApplyAttempts
    /\ ~Refused(front.buffer)
    /\ ~HasLoneSurrogate(companion.replica)

Typed == {UserUnits[i] : i \in 1 .. spent.userUnits}

PeerTyped == {PeerUnits[i] : i \in 1 .. spent.peerUnits}

(* Once everything has settled, the buffer holds what the room holds, and  *)
(* what a peer typed is on the disk too, if no write failed.  That is not  *)
(* so of a text the room cannot carry, of a room's text with half a        *)
(* character in it, and after as many refused edits as the bridge tries:   *)
(* then the two may differ for good, but never without the person having   *)
(* been told since they last agreed, or of this open document that the     *)
(* room does not take it.                                                  *)
Converged ==
    /\ Rested => \/ front.buffer = companion.replica
                 \/ companion.told \/ companion.refusedSeed
    /\ AtRest =>
          /\ front.buffer = companion.replica
          /\ spent.failedSaves = 0 =>
                PeerTyped \cap Units(front.buffer) \subseteq Units(front.disk)

(* A keystroke that nobody deleted is in the buffer or in the room, or the *)
(* person has been told that the room's copy was put back over it, or that *)
(* the room does not carry it, which is said once while it is open.        *)
NoSilentLoss ==
    (Typed \ erased) \subseteq
        Units(front.buffer) \cup Units(companion.replica) \cup companion.accounted

(* The room loses no text that nobody deleted: publishing the buffer's     *)
(* difference never removes what a peer wrote.                             *)
PeerTextKept ==
    ((Units(BaseText) \cup PeerTyped) \ erased) \subseteq Units(companion.replica)

(* The same, but for text that was reported not to be shown: the buffer    *)
(* refuses the room's edits, or the room's text holds half a character.    *)
PeerTextKeptUnlessRefused ==
    ((Units(BaseText) \cup PeerTyped) \ erased)
        \subseteq Units(companion.replica) \cup companion.refused

(* Units told apart or not, the room ends with as many as were typed and   *)
(* not deleted, as long as nobody was told otherwise: a merge that lands   *)
(* on the text the buffer held before it is not mistaken for no typing.    *)
KeystrokesCount ==
    /\ AtRest /\ ~companion.warned
    /\ \A what \in Budgets \ {"userUnits", "peerUnits", "peerEdits"} : spent[what] = 0
    => Len(companion.replica) + spent.peerEdits
            = Len(BaseText) + spent.userUnits + spent.peerUnits

ToldApart == IsInjective(BaseText \o UserUnits \o PeerUnits)

(* An edit lands once, in the buffer and in the room.                      *)
NothingTwice == ToldApart => IsInjective(front.buffer) /\ IsInjective(companion.replica)

(* The room never holds one keystroke twice.                               *)
RoomHoldsNothingTwice == ToldApart => IsInjective(companion.replica)

(* A deadline for a write that was paused runs again once the buffer holds *)
(* the room's text: the write is not forgotten.  Only half a character in  *)
(* that text keeps it paused, and then the write is owed until the text is *)
(* whole again.                                                            *)
WriteNotForgotten ==
    /\ Quiet /\ front.shared /\ companion.document # NoDocument
    /\ companion.document.text = companion.replica
    /\ ~HasLoneSurrogate(companion.replica)
    => companion.save # "paused"

(* A hold granted after its document was closed is given back.             *)
HeldIsOpen == Quiet /\ companion.held => companion.open

(* Text the room refused to carry stays in the buffer it was typed in,     *)
(* until the document's text is announced as changed (`Announced`), by any *)
(* peer's edit.                                                            *)
RefusedTextStays ==
    (companion.unshared \ erased) \subseteq Units(front.buffer) \cup Units(companion.replica)

(* Whatever was typed, refused, lost or reopened, the two processes stop   *)
(* exchanging messages: no retry goes on for ever and no apply stays out.  *)
ComesToRest == <>[]Quiet
=============================================================================
