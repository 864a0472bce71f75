# A formal model of the Selvage Neovim client

This directory models the concurrent core of the client in TLA+: how a buffer, the
companion process and the room's replica are kept in step, how a document is opened,
held, written and closed over several sessions, how a host keeps the room's listing of
its folder up to date and reads the files in it, how requests reach the companion, and
how sessions begin and end between the two processes. TLC checks the modules on small instances, and
TLAPS proves theorems of them for every value of the constants.

## The system

A Neovim plugin (`lua/selvage/`) starts one Node process, the companion
(`companion/`), and speaks to it in lines of JSON over its stdin and stdout. The
companion holds the session: the bridge (`vendor/bridge/`), which keeps editor documents
and replica in step, and the engine (`vendor/engine/`), which holds the replica, seals
and opens what crosses the relay, and keeps the connection.

| component | state | operations | hard behaviour | what makes it correct |
|---|---|---|---|---|
| front-end document: `document.lua`, `share.lua`, arms of `messages.lua` | buffer, shadow, version, detached, held `modifiable` | on_bytes, apply, resync, save, share, let_go | the buffer moves under a range that is on its way | a range lands only on the text it was computed from |
| editor host: `companion/editor.ts` | mirrors with versions and instances, offers, saves | opened, changed, settleApply, applyChange, save, closed | a refused range is rebased and offered again | the mirror is the buffer plus what is on the pipe; each offer is answered once |
| bridge: `vendor/bridge/bridge.ts` | open documents, flights, pending, attempts, deadlines, holds, seeds, reads | documentOpened/Changed/Closed, reconcile, settle, backstop, save, engine events | an apply, a keystroke, a remote edit, a timer and a hold race | nothing typed is lost or doubled silently; both sides converge and stop |
| opening and saving: `open`, `changed`, `arrive`, `close`, `saveHostFile` of `session.ts`, `save` of `editor.ts`, holds of `bridge.ts` | documents held back, instances, the mark that a file was there, writes, holds | the room's text, a hold's answer, a close, the disk's answer and a new session race | both sides count the same changes; nothing is put beside a text that is not here; a deleted file stays deleted |
| grant publication: `companion/session.ts` | watcher, burst timer, readings, remembered listing | folderChanged, scheduleGrant, publishGrant, hosting, leave | readings and publications overlap and outlive their session | the room ends on the folder's listing, and only its own folder's |
| session lifecycle: `session.ts`, `main.ts`, `session.lua`, `commands.lua` | engine, bridge, status, root, invite, request queue | host, join, leave, rename, open, close, reset | leave from an event beside the queue; late statuses | what one session says never reaches the next |
| request pipe: `companion/ipc.ts`, `main.ts`, `companion.lua` | a line's pieces, the request queue, the end of input | push, collect, finish, handle, leave and exit | chunks end anywhere; a line past its bound; a handler that throws | each line is judged once, as a whole, in order |
| grant rules: `listing-walk.ts`, `companion/grant.ts`, `vendor/bridge/grant.ts` | one read's descriptors, listing and ignore files; one walk's budget | readGrantedFile, readGrantedPresence, enumerate | the tree changes under the walk | files of the folder only, narrowed by the ignore files; an absence is one |
| granted reads and seeding: `bridge.ts` | requested, read queue, seeded | seedRequested, pumpReads, seed | asked, closed and asked again; four at a time | read once, never after its document is gone |
| peer engine: `peer-engine.ts` | last roster, listing, texts, presence | text/insert/delete, open/close, scanTexts | own edits are announced with somebody else's | every change of a text is announced |
| engine: `relay.ts`, `peer.ts`, `sealed.ts`, `host.ts` | replica, seats, sealed state, outbound frames | handshake, deliver, process, publish, reconnect | reconnect, reordering, budgets | convergence; no content before a committed key |
| guest's mirror: `mirror.lua`, `fetch.lua`, `session.lua` | files, placeholders, fetched marks | materialise, remirror, fetch, drop | a listing moves under open buffers | no document is emptied by its placeholder |
| follow and go-to: `follow.lua` | target, pending landing | follow_frame, retry_go_to | waits for text, caret and window | lands once, ends when the person types |
| presence, bar, prompts, health, wording | drawing | | | not modelled: drawing and wording |
| envelopes, urls, crypto, limits | none | | | not modelled: encodings and primitives |

`PROJECT.json` lists every component with the files it stands for, and every hazard of
this code at the line where it bites.

## Modules

    Texts            the text arithmetic (pure operators)
      Texts_proofs                                               (lemmas)
      TextLaws       what it promises, over all small texts      MCTextLaws
        TextLaws_proofs                                          (theorems)
      DocSync        buffer, companion, bridge and replica       MCDocSync
        DocSync_proofs                                           (theorems)
    OpenDocument     a path over several sessions                MCOpenDocument
      OpenDocument_proofs                                        (theorems)
    GrantPublish     the folder and the room's listing           MCGrantPublish
      GrantPublish_proofs                                        (theorems)
    GrantedRead      one read of the folder, call by call        MCGrantedRead
      GrantedRead_proofs                                         (theorems)
    RequestStream    what the pipe promises (abstract)
      RequestPipe    reader, queue and exit, which implement it  MCRequestPipe
        RequestPipe_proofs                                       (theorems)
    SessionLifecycle the two processes and their sessions        MCSessionLifecycle
      SessionLifecycle_proofs                                    (theorems)

An `MC...` module gives model values and the environment's budgets; a `.cfg` picks one
instance and the properties checked of it. How the modules fit: `SessionLifecycle` opens
and ends the sessions in which `GrantPublish` keeps the listing and `OpenDocument` opens
paths; `DocSync` is one document of `OpenDocument` from the moment its text is here, with
the texts that `OpenDocument` leaves out; `RequestPipe` carries the requests that the
other three take from a queue of whole messages; and `GrantedRead` is the read that
`OpenDocument` takes as one answer of the disk. Operators whose comment starts with "A slip:"
are deliberate mistakes, used only to confirm that a property would notice them.

### Texts and TextLaws

`ApplyChange`, `SplitsPair`, `HasLoneSurrogate` and `Diff` are the functions of
`vendor/bridge/editing.ts`; `Rebase` is `rebase` of `companion/editor.ts`. A text is a
sequence of opaque code units; `HighSurrogates` and `LowSurrogates` say which of them are
halves of a pair, and offsets count from zero as in the source. `TextLaws` gives them
texts: it starts with every pair of whole texts up to a length, then lets the person edit
one of them while the change between the two waits.

The run `text` starts from two scopes. Texts of up to five units of five kinds (one
ordinary, two high and two low halves), 12 100 pairs: `DiffIsRight`, that the diff leads from one text to the
other, takes away as little as any replacement that does (up to the one unit a whole
character may cost at each end), and never starts or ends inside a pair. Texts of up to
three units of three kinds with two local edits of any range: whenever `Rebase` finds a
place, what the room asked for and what the person typed are both in the result. To say
so, units stand for their own occurrences: the property is about texts in which no unit is
twice, and what is typed is none of theirs (`FreshIsFresh`). `rebase` looks at offsets
only, never at units, so nothing it does depends on that.

### DocSync

One document of a guest, from the moment it is open, held and its text is here.

| TLA+ | code |
|---|---|
| `front` | the buffer, `Document.version`, `modifiable`, whether the path is in `state.documents`, the file |
| `toCompanion`, `companion.sent` | the two pipes, whole messages in order |
| `companion.document`, `.applies`, `.saves`, `.nextId` | the mirror and the maps of `NvimEditorHost` |
| `.open`, `.flight`, `.pending`, `.attempts`, `.backstop`, `.save`, `.refusedSeed`, `.held` | the entries of this path in `SessionBridge` |
| `.replica`, `.unscanned` | the engine's text, and edits of its own that no content frame has announced |

The companion is one JavaScript thread: every handler runs to its end, so each is one
operator on the record `companion` (`Reconcile`, `Publish`, `Settle`, `SettleApply`,
`DocumentChanged`, ...) and one action of the next-state relation (a request, a timer, an
engine event). The promise of an apply resolves in the same turn, since its continuation
is a microtask. The front-end is another process: it takes one message at a time, and the
person types between any two. A peer's edit and the event that announces it are one step,
because `relay.process` emits in the turn that applied the content; the guest's own edits
are announced by the next content frame (`OwnEditsAnnounced`, `scanTexts`). Timers may
fire whenever they are armed, which covers every delay.

Three things the room does not carry: a path outside the grant (`Granted`), a buffer past
the size bound, and text with half of a surrogate pair (`HasLoneSurrogate`), which is the
path `bridge.ts` takes at lines 471-480, 828-830, 999-1002, 1029, 1051 and 1201-1206.
`Refused` is `seedRefusal`, `Refuses` adds the replica's half (`publish`), and `Malformed`
is what makes `Reconcile` pause the write, drop the backstop and report, `SaveFires` stay
paused and `ResumeSave` leave it so; `BackstopFires` hands over to `Reconcile`. A half
comes from the room alone: Neovim holds whole characters, so the person's cursor stands
before whole ones (`PastCharacter`), while another editor may insert or delete one half.
A refusal of `publish` is said once while the document is open, whatever is refused of it
(`refusedSeed`); the report of `Reconcile` is said each time.

`told`, `accounted`, `refused`, `unshared`, `warned`, `erased` and the `base` of an offer
are history: no guard reads them. `accounted` collects the units a person was told the
buffer and the room differ in, from the report until the two agree again.

Bounds: a behaviour picks one of the `Scenarios` at the start and keeps it (`scenario`).
A scenario gives the text the room holds, what the person and the peers type, in that
order, the session's size bound, whether the path is granted, and how often the environment may do everything else
(deletions, reloads, locks, reopens, moves to the mirror, failed saves, refused holds);
the program's own steps have no bound. Distinct units make loss and duplication visible
without comparing histories (`ToldApart`); the scenario about repeating units counts them
instead (`KeystrokesCount`). `MaxRebasedOffers` is 1 in `doc_editing` so that the bound is
reached, 3 in `doc_disturbed`; `MaxApplyAttempts` is 3 as in the code.

| run | scenario | what it shows |
|---|---|---|
| `doc_editing` | `Typing`: two keystrokes on each side | equal versions mean equal texts, every offer is answered once and a flight always has its one offer, nothing is doubled, no peer text is lost |
| | `Overlapping`: both type and delete over two units | ranges that straddle an edit cannot be rebased: keystrokes are merged or accounted for, and the two converge (`Converged`) |
| | `Undoing`: what one side types repeats what the other deletes | a merge that lands on the text the apply was issued from is still published |
| | `Reloading`: `:edit!` under remote edits | no silent loss, and what peers wrote reaches the disk (the second half of `Converged`) |
| | `Oversized`: the second keystroke is too long for the room | refused text stays in the buffer until the document is announced as changed |
| | `Ungranted`: a path the room does not share | nothing of the buffer is published, and what differs was told |
| | `Halves`: a peer types the two halves of a character one by one, beside two keystrokes | while the half is there nothing goes either way, and afterwards the two converge again |
| `doc_disturbed` | `Locking`: a buffer that refuses for a while | attempts end, a paused write resumes, the exchange comes to rest |
| | `Unlucky`: wipe, reopen, move to the mirror, refused hold, failed save | the mirror catches up, no hold outlives its document |
| | `Torn`: a peer deletes one half of a character the buffer shows, and types | the write is paused over the half and runs again once the text is whole |

What the half of a character changes in what is claimed: `Converged` asks for the same text
on both sides at rest only if the replica holds no half, the room can carry the buffer and
nobody gave up; in the other states it asks that the person was told since the two last
agreed, or that the room does not take this document. `WriteNotForgotten` leaves out a text
with a half, over which the code keeps the write paused for as long as it is there.
`PeerTextKeptUnlessRefused` takes the report of `Reconcile` for what it says, as it does
`applyRefused`.

Fairness (`doc_disturbed`): weak fairness of `System`, written as "always eventually
idle, or infinitely many system steps" with the enabling condition `Ready` spelled out.
It says that the two processes read their pipes, that armed timers run out and that the
room answers a hold: all three are what an event loop and a connected room do. The person
and the peers owe nothing. Deadlock is not checked (`CHECK_DEADLOCK FALSE`): a document
nobody types in rightly stops, once the budgets are used up.

Two runs show where the code departs from its own comments; each is a finding in
`PROJECT.json`, with the quoted line:

* `doc_reopened`: an apply computed for a closed document is settled on the one opened
  after it, and the peer's text is doubled.
* `doc_refused`: the keystroke after `applyRefused` deletes the peer's text from the room.

The passing runs leave out exactly the combination a finding needs (a lock together with
`PeerTextKept`, for example), so that what they check is the rest of the code. Eight
more combinations are left out for the same reason:

* a move to the mirror (`session.lua:73`) that restarts the version under a range still
  on its way: the range can land on text it was not computed from, so
  `OffersLandWhereComputed` is not asked of `Unlucky`;
* a reopen together with text refused as too long: an offer of the closed document,
  rebased and asked for again, lands on the new one while its deadline is paused over the
  refused text. The buffer is then the room's text and no flight hears of it, so the
  deadline stays paused: `WritesResume` says under which condition it does not;
* a first refusal that is not reported, and then the one that drops a keystroke, while
  the buffer is locked: nobody is told, so `NoSilentLoss` is not asked of `Locking`;
* the same without a lock: the person and a peer delete the same text, so that the first
  attempt is refused with nothing typed (`moved` is false, no report), and the keystroke
  that makes the second one fail is reconciled away, since only the first attempt reports
  (`bridge.ts`, `attempts === 1`);
* a reload of a buffer whose two lines were deleted, one of them by a peer as well: the
  offer that takes it out is moved behind the person's deletion, and meets the reloaded
  line, which is then there twice (`NothingTwice`, 13 states);
* a peer who deletes a unit and puts an equal one back while the person types one more
  equal unit: `settle` reads the window off the text (`bridge.ts:911`) and
  `KeystrokesCount` fails;
* text refused as too long, and then an edit of the same document by anyone: the text is
  brought back to the replica, and `RefusedTextStays` says that nothing else takes it;
* text refused as too long twice while the document is open: the second refusal is not
  reported (`refusedSeeds`), so `NoSilentLoss` fails once something is announced.

### GrantPublish

A host's folder, its watcher and the room's listing.

| TLA+ | code |
|---|---|
| `disk`, `ignored`, `events` | the folder, its `.gitignore`, what `fs.watch` has not delivered (environment) |
| `judging` | calls of `folderChanged` between their `lstat` and its continuation, with the listing they hold |
| `timer` | `grantRepublish`, and the root its closure holds |
| `readings`, `walks` | `grantReadings`, and each walk under way: its number, its session (the `engine` it captured), what it has read |
| `granted` | `grantedListing` |
| `source`, `publishing`, `room` | the engine's listing source, the host's calls in the session's serial queue, what the room holds |
| `session` | which engine the process holds and the root it shares |

Every `await` of the code is a place where the folder, another reading or a leave can
step in: a walk enters (names and rules are read) and then reads one file at a time; an
`lstat` is asked, read and returned in three steps; a publication waits its turn and
carries what the source holds then. A burst's window is arbitrary.

Left out: nested directories, names excluded before any read, the cut of a long listing,
an event without a name (the same branch as a rename). Walks read files in any order; the
code reads them in name order, which no property depends on. Equal events that wait are
one. The walk lists the directory and reads the `.gitignore` in one step. `Host` waits
for the publications of the session before: they need nothing but this process, while a
mint needs a round trip to the server. `enumerate` throws only when a reading function
does; the path is modelled since the code handles it. Changes to `.git/info/exclude`, by
which the listing is ignored too, are not modelled: the folder's own `.gitignore` is the
one source of rules.

`told`, `stale`, and the `reading`, `session` and `root` of a listing are history.
`stale` names every way for a room to end on a wrong listing without a word:

* a change no reading is owed for: a `.gitignore` written in place, which is read again only
  when the file crosses the size bound (`session.ts:867`), and a change between the first
  reading and the opening of the watcher (`session.ts:712`);
* an event judged against, or a reading compared with, a listing the room is about to lose
  (`session.ts:865` and `:1062`): a folder that goes from one state to another and back
  while the first change is being published stays listed as it was in between;
* a timer of another folder: an `lstat` started for one session returns in the next
  (`session.ts:881`), and its timer reads the old folder under the new session's number;
* a refused listing that a roster's state carries: the engine's source is replaced before
  the publication (`peer-engine.ts:314`), so the room may take what the session believes
  was refused, before or after the refusal is heard.

Each is a step of the model that the runs take, and each is needed: when one of the
assignments to `stale` is taken away, TLC finds a room that ends wrong. `SettledUnlessStale`
shows that they are the only ways: a room at rest, live and watched, is right, or the
person was told of a failure and nothing has settled since, or one of these happened in
this session. So it shows nothing of how these four go on, and `PROJECT.json` says so at
the hazards that are about them. `ListingSettles` is the same in time: once the folder
rests, the session is over, or the folder is not watched (which was said as it happened),
or a failure was told, or it is `stale`, or the room comes to the folder's listing and
stays there. `ReadForThisSession` has no exemption for the session a listing was read for,
and one, the timer's, for the folder it was read from.

The run `grant_hosting` picks one of eight scenarios and counts it down (`left`), with two
sessions, each of one of two folders:

| scenario | what happens |
|---|---|
| `Watching` | names and sizes change twice each while readings overlap |
| `Ruled` | the `.gitignore` is replaced, a file changes, a peer arrives |
| `Failing` | a reading, a publication and the watcher fail |
| `Refusing` | a publication is refused and a peer arrives, while names change |
| `Leaving` | a session ends during a reading and another one starts |
| `Moving` | the same with a file that changes its size, whose judgement may return in the next session |
| `Rewriting` | the `.gitignore` is written in place |
| `Early` | a file changes before the watcher is open |

It shows that a room ends on its folder's listing but for the cases above, never goes back
to an older reading, and never lists what was read for another session.

Fairness: as above, of `System`: reads come back, the timer runs out,
the serial queue moves. Bounds: one name beside the `.gitignore`, two changes of
a kind, one failure of a kind, two sessions; the races above are between two of each.
Deadlock is not checked: a folder that stays as it is rightly leaves nothing to do.

### OpenDocument

One room path over the life of several sessions: shared, typed in, written, closed and
shared again. What the texts say is `DocSync`; here a change is counted.

| TLA+ | code |
|---|---|
| `front` | what the Lua side stands in, the buffer shared under the path, how many changes it counted |
| `file`, `companion.reads` | whether a file is behind the path; calls of `pathAbsent` between asking the disk and going on |
| `companion.document`, `.instances`, `.saves` | the path's entry in `NvimEditorHost`, with its instance and its `materialized` |
| `companion.unarrived` | the path's entry in the session's `unarrived`: a guest's document held back until the room's text is here |
| `.bridge`, `.held` | the path's entry in `SessionBridge`, and whether its hold was answered |
| `.engines` | the engine of each session: whether it has the text, whether it holds the path |
| `.opens` | calls of `engine.open` not answered yet, of the session and of the bridge, which both ask |

`Open`, `Changed`, `Arrive`, `Close`, `Leave`, `Connect`, `SaveHostFile`, `SettleSave` are
operators on `companion`, one per method; `Takes` hands each the next request.
`RoomEnds`, `TextArrives`, `SessionHolds`, `BridgeHolds`, `HoldRefused`, `SaveFalls`,
`Reads` and `Judges` are what comes from the engine, the timers and the disk, in any
order between the requests. Answers of a session that is over stay outstanding and come
in the next, as promises do; where the code compares the session or the instance, the
action does, and where it does not (`SessionHolds`) it does not.

Left out: the waits of `connect` (they are `SessionLifecycle`; here it is one step); more
than one host or join outstanding; an `engine.open` that throws at once; the step of
`leave` at which `status idle` is sent (here it is sent with the leave); and the calls a
presence read is made of, which `GrantedRead` has: it is one answer here because what it
answers was so at some moment between question and answer (`MissingMeansAbsent`).

`front.kept`, `.of`, `.there`, `.guarded`, `.late` and `.refused` are history. `late` says
that an `open` was read behind its session's end; `KeystrokesAreCountedUnlessLate` leaves
that case out, as does the clause of `TypeOK` that the mirror and a kept-back document never
both stand, and the run `open_late` is the finding: the stale mirror document outlives
`reset`, and in the next session takes the keystrokes of a document that is held back.

The run `open_document` picks one of four scenarios, with up to two sessions and three
shares of the path:

| scenario | what happens |
|---|---|
| `Arriving` | a guest's document is closed, opened again and typed in before its text is here; the session may end and another begin |
| `Refusing` | the same with a hold that is refused |
| `Writing` | a host's file is written by the person and by the room, deleted and put there by others, and a write or a read fails |
| `WritingOn` | the room's write meets a close, a new share and the end of its session |

It shows that the companion's count and the changes on the pipe add up to what the buffer
counted, that a text of the guest's own is put beside the room's only when that is here,
that a hold outlives no document unless it was refused, that the mark of a file that was there is neither
invented nor forgotten, and that a file deleted before the room's write was asked for
stays deleted. Two shares, two sessions and one fault are what it takes for an answer to
meet the document after the one it was asked for; the third share in `Refusing` lets a
refusal meet two. There is no liveness here: what has to happen in the end is that the
room's text arrives, which is the room's to do. Deadlock is not checked: a document may
stay as it is.

Six behaviours were seen while modelling that no property is about; the model has them:

* a hold that is refused stays with the engine: `engine.open` takes it before the room is
  asked (`peer-engine.ts:249-253`), and what hears of the refusal drops the document without
  giving the hold up, as does the `close` that the front-end then sends. Opening the path
  again and closing it gives it up. `refused` says that a hold of this engine was refused
  since, and `HoldsAreOpen` leaves that out and no other refusal;
* a guest shares an empty buffer, closes it and shares the path again with text of its
  own: the answer to the bridge's first hold finds no document of the bridge's
  (`bridge.ts:776-780`) and gives back the hold that the session has just taken, against
  "such a document is held in the room now" (`session.ts:343`). `HoldsAreOpen` is the
  other direction, and holds;
* a first hold that is refused after the path was closed and opened again removes the
  second opening's entry from `unarrived` (`session.ts:391` asks for the session, not the
  entry);
* a bridge that was disposed reports a refused hold all the same, into the session after;
* the answer to a write of a closed document that the front-end performed on the buffer
  of the next does not mark that buffer's path, though a file is there now
  (`editor.ts:306` asks for the instance), so a later deletion may be undone once;
* the answer to a hold of the last session lets `arrive` run in the next
  (`session.ts:377` asks the engine it was given to): it can find the path's new entry
  before that one's text is here. Only the bridge's own rule (`documentOpened`) keeps the
  buffer from the room then, which is why `OpenedWithTheText` speaks of what the bridge
  has open.

### GrantedRead

`readGrantedFile` and `readGrantedPresence` of `companion/grant.ts`, for one path, one
system call per action, while a local writer renames and removes what the path goes
through.

| TLA+ | code |
|---|---|
| `names`, `Slots`, `Move` | the disk, and what the writer may put under a name (environment) |
| `platform` | `linux` has `PINNED_STEPS` (a step is opened inside the descriptor of the directory before), the others look the path up by name again, `windows` has no `O_NOFOLLOW` |
| `governing` | which of the two functions; only the read of a file looks at ignore files |
| `pc` | the call that comes next; `fd`, `head` and `entries` the directory the loop is in and its listing |
| `sources`, `handles` | the ignore files read so far, and the descriptors that are open |
| `answer`, `served` | what the function returns, and whose bytes |

Every call may fail with an error that says nothing of the name (`ListFails`,
`StepFails`, `AsideFails`, `LeafFails`). The ignore patterns are abstracted to what a file
says of this path (`Rule`): the path is out, in, or a directory above it is out.
`absentSeen`, `ruleMoved` and `unread` are history.

Left out: files that grow or change in place during the read (a writer replaces them), a
shared folder that disappears itself, mount points, and the patterns' language.

The run `granted_read` reads `d/f` on each platform while the writer makes two changes:
the directory, the file and the ignore files can be taken away, swapped for one another
and for links to a directory outside that has a file, a `.gitignore` and an
`info/exclude` of its own. Two changes are what it takes to swap a directory (away, and
the other in its place). It shows that with pinned steps nothing from outside is
served or rules on what is (`ServedFromTheFolder`: the claim of `grant.ts:349-356`), that
a rule which stood over the path all the while binds the read on every platform, however
the leaf is swapped (`StandingRuleBinds`), that `missing` is said only of a path that was
missing at some moment (`MissingMeansAbsent`, on which a host's save is withheld), and
that every way out closes what it opened (in `TypeOK`). What is counted there are the
directories' descriptors; those of the files, an ignore file's and the leaf's, are opened,
read and closed within one call of a helper (`finally`), which is one action here. Deadlock is not checked: a read
ends.

### RequestStream and RequestPipe

`RequestStream` is what the front-end may rely on when it writes lines to the companion:
each is judged once and in order, what a handler can answer is answered one at a time,
what is overlong or no request is dropped with a warning, and the process leaves once the
input is closed and nothing waits. It knows of whole lines alone.

`RequestPipe` is how that is done: `LineReader` (`pending`, `pendingBytes`, `dropping`),
the promise chain `queue` of `main.ts`, and the end of input. A chunk may end anywhere:
`push` takes it as the rest of some lines (`Finish`) and a piece of the next (`Collect`),
so the sequences of these two steps are all the ways of cutting the input up. A text that
is not exactly one line is not JSON (`Takes`), which is how pieces that were mixed up
would show. `Dies` is a front-end that ends in the middle of a line.

The refinement (`ReadsAsLines`, an `INSTANCE` with a mapping): a line counts as judged
when its newline is read or, before that, when it is shed; what is left of a shed line is
no longer the stream's (`Unjudged`). `Phase` maps the reader's "ended" to closed, since
the end of input and the exit behind the requests are two steps here and one there.

The run `request_pipe` writes up to four lines with a bound of two bytes: shorter than
the bound, at it, one past it, and past it in several pieces, of requests, blank lines and
junk. That is enough for a shed line, the line behind it, a torn line and the exit to
meet. `KeepsReading` is `RequestStream`'s fairness: nothing written stays unread, no
request unanswered, and a closed input ends the process.

Fairness (`FairSpec`): weak fairness of reading, of starting a handler, of its end, and of
the exit. Node's event loop delivers what is on the pipe and runs what is chained on a
settled promise; that a handler settles is `RequestsAreTaken` of `SessionLifecycle`. A
handler that throws settles like any other, since `main.ts` catches it; the model does not
tell the two apart, so that the catch is there is read in the code and not checked. The
person owes nothing. Deadlock is not checked: a pipe nobody writes to rests.

### SessionLifecycle

How sessions begin and end: the commands of one front-end, and every companion it starts.

| TLA+ | code |
|---|---|
| `front` | the Lua `state`: `status`, `process`, `root`, the session whose reports are shown, and the command whose name prompt is open |
| `cwd` | the folder the person stands in (environment) |
| `requests`, `words` | stdin and stdout of each companion |
| `companion` | `run` and `stdin` of the process; `engine` (which session it holds); `doing`, the wait its queue is at: `open()` ("opening"), `settleGrant` ("settling"), `closeWithin` ("closing"), with the request or the session it is about |
| `rooms` | every seat taken: by which process, in which role, with which folder, and whether it is held, closed for everyone, left or lost (what the server would know) |

A companion handles one request at a time, so `Connect`, `TakesLeave` and `StdinEnds` need
it `Free`; what waits is split at the wait (`Opened`, `OpenFails`, `SettleEnds`,
`Closes`). `RoomEnds` is an engine event and runs beside the queue, whatever that waits
for. The front-end's commands are split where the code asks for a name: `Asks` (the
guards, the leave of a live session) and `GivesName` (`ensure`, `capture_root`, the
request). `Leaves` forgets the process before it stops it, so the old companion is still
letting go while a new one starts; `FrontHears` drops what a forgotten process says.

Left out: the prompt for an address and the refusals of bad addresses and links (they
change nothing); the question before a live session is left, with whatever happens while
it is open; `rename`, changes of the role and the invite; `open` and `close` inside a
session (they are `DocSync`); a companion that cannot be started.

`hasty` and `outlived` are history. `hasty` says that the last host or join was asked for,
or named, while an answer of the companion was still on its way; a second `:SelvageHost`
before the first one's `connecting` arrives is one way, a guest that leaves to host is the
other, and the finding. `outlived` says that a `connect` went on to report a room that had
ended while it waited for a listing (`session.ts:687`): the front-end then shows that
room's reports although it is idle, and `ProcessesAgree` leaves that case out.

The run `session_sittings` picks one of three scenarios, with two folders and three
companions; each does at most three commands that open a session:

| scenario | what happens |
|---|---|
| `Hosting` | three hosts, one move to the other folder, one closing that times out |
| `Joining` | a host and two joins, a room that ends, a dial that fails |
| `Breaking` | a host and two joins, a crash, a companion killed at the end of its grace |

It shows that no seat is held that its process has forgotten, that a host that leaves
closes its room, that once everything is said the two processes agree (`ProcessesAgree`:
on whether there is a session and in which role, and on whose reports are shown), and
that the folder recorded is the one the room lists
(`RoomSharesItsFolderUnlessHasty`).
Three requests are what it takes for a session, the one that replaces it and one that
races the replacement; three companions are the one in use, the one being let go and one
more.

Fairness: weak fairness of `System`, one condition for both processes: the pipes are
read, the server answers a dial (or the dial fails: `Opened` is enabled whenever
`OpenFails` is), and the waits of the code run out by its own timers (250 ms for the
listing, 1 s for the closing). Crashes, kills, timeouts and endings owe nothing and are
counted. Deadlock is not checked: a person who is in no session may stop there.

`session_leavingtohost` is a finding: the `status idle` of the room a guest has left
arrives after the new folder was recorded, and clears it.

## What is proved

`TextLaws_proofs` proves, for every set of texts and any number of local edits (the
assumptions of `TextLaws`: a scope is units and two counts, what is typed is in no text;
and of `Texts`: no unit is both a high and a low half), both properties of the run `text`.
The lemmas about `ApplyChange`, `Diff` and `Rebase` themselves are in `Texts_proofs`, over
texts of any units, and `DocSync_proofs` uses them too. `Diff` looks for its prefix and its
suffix by a maximum over counts, and `Rebase` and `Without` go through their sequences one
by one; that a property of each step holds at the end is `Climb`, from `WFMin`.

* `DiffLeadsThereWhole`: `Spec => []DiffIsRight`. `Found` says what `Diff` finds: a common
  head and tail that do not overlap, as long as they can be, and the unit each gives back
  where it would split a pair. `DiffLeads` glues the head, what is inserted and the tail
  to the second text; `NoneKeepsMore` and `NothingWidened` compare the range with any
  other that leads there; `NothingSplit` and `WholePart` keep the characters whole, for
  which both texts have to be whole (`diff` refuses the others).
* `RebaseKeepsTheirText`: `Spec => []RebaseKeepsBoth`. The property is about the first
  range and the last buffer; the invariant (`Tracked`) is about every buffer between: as
  long as `Rebase` places the range, the text in it is the text it was to remove, nothing
  stands before it but what stood before it and what was typed, and nothing behind it but
  what stood behind it and what was typed (`Stands`). `StandsThrough` is the step: a local
  edit before the range moves it by what it grew, one behind it leaves it, and one that
  reaches into it makes `Rebase` give up.

`GrantPublish_proofs` proves, for every set of folders and names, every bound and every
number of sessions (the assumptions of `GrantPublish`: the rules file is a name, the
bounds are counts):

* `TypeCorrect`: `Spec => []TypeOK`.
* `RoomsListTheirOwn`: `Spec => []ReadForThisSession`. Not inductive alone: a room takes
  what the source holds when a publication's turn comes, and the source what a finished
  walk found. `SessionInv` adds that a first reading (number 0) belongs to the session
  being minted and that there is only one (`FirstReadingsAreOfTheNext`,
  `OneFirstReading`), and that no live room is ahead of the source (`SourceIsAhead`). The
  one step that matters is `WalkGrants`: `Current` compares the walk's own session with
  the engine, which is the check at `session.ts:1047`.
* `ReadingsNeverGoBack`: `Spec => NeverAnOlderReading`, from `TypeOK` and `SessionInv`: a
  walk that grants is the last one started, the source never goes back, and a publication
  carries the source.
* `RoomsSettle`: `Spec => []SettledUnlessStale`, the longest, without further hypotheses.
  `NothingMissed` keeps a name in sight until it is listed: a name by which the folder
  differs from what the room is going to list (`Ending`: the source, while something is
  queued, or what was granted last) has a timer that runs, a watcher's event waiting or a
  judgement that will come out the other way (`Noticed`), or the reading that will count
  has read it as it now is (`Sees`). Before the watcher, the same is said of the first
  reading (`FirstReadingSees`, `MintsAlone`), and `QueueEndsInSource` that what waits for the
  engine ends in the source. For sessions of several folders `ReadingsAreOfTheFolder` adds
  that, unless it is `stale`, every reading of the session that is live, the source and the
  room are of its folder. The behaviours left out are those that `stale` names, one by one,
  in the section on `GrantPublish`.

`GrantedRead_proofs` proves, for every disk, path, number of changes and writer (the
assumptions of `GrantedRead`: the objects of the disk are what they are called, and what
is outside the folder is reached through links alone):

* `TypeCorrect`: `Spec => []TypeOK`, which says of the descriptors that a read holds
  exactly those of the directories it is in (`Held`), so that every early return has to
  close. One lemma per call, over one lemma per way a turn of the loop can end.
* `NothingFromOutside`: `Spec => []ServedFromTheFolder`. The strengthening says that the
  directory the walk is in is the folder's (`fd \notin Outside`) and so is what is under
  any of its names, which the writer cannot change by `FolderAssumption`; the step that
  matters is `Step`, which takes a name for a directory only if it is one and no link.

* `AbsencesAreReal`: `Spec => []MissingMeansAbsent`. `missing` compares one moment of the
  disk with a walk made of many. `Watched` adds that the history keeps up with the disk
  (while no absence was seen the whole path is there, `Kept`), and that a read which has
  seen none is on its way down a path that is there: by name, what its `head` names lies
  on the path's own trail; pinned, the directory it holds may have been moved away, but
  only at the price of an absence. The fault of a call is never the cause `missing`
  (`readRefusal`), which is what the code's distinction is for.
* `RulesBind`: `Spec => []StandingRuleBinds`. `Bindings` says, of a read that governs,
  missed no ignore file and saw none of their names change: the walk is where it would be
  if it followed no link (`OnTheWay`), it has read exactly the ignore files that stand
  above the next name (`Gathered`: `sources = Standing[...]`), a listing it still decides
  by tells what is there (`Heard`), and past the leaf's check the rules let the path
  through (`Bound`). `ruleMoved` counts a change of any name that an ignore file over the
  path is found by (`RuleNames`) and of no other, so the leaf may be swapped at will.

What `Lookup`, `Down` and `Standing` are is defined by recursion along the path; their
equations and what follows of them step by step are lemmas of `GrantedRead_proofs`, by
induction on the path's length (`WFMin` of the library).

`OpenDocument_proofs` proves, for every set of scenarios, that is for every mix of roles
and any number of sessions, shares, edits, writes, faults and refusals (the assumption of
`OpenDocument`: a scenario is a set of roles and a bound for each budget), all six of the
properties the run `open_document` checks. Its first half has what each action does to
each part of the state, one lemma per action and part; the invariants rest on these.
Every one of them rests on `Base`: the shapes of the variables (`Typed`), that counters
stay under the budgets (`Bounded`), and how the two sides' words about the session follow
one another on the two pipes (`Agreement`): a `start` is answered by one `status`, a
`leave` is behind it, and the companion is in a session when neither is on its way.

* `DeletionsStand`: `Spec => DeletionStands`, with `SeenThere`: a read of the disk that
  found the file, and a guarded write asked for on it, know that a file was there since.
  The step that matters is `Judges`, which writes only on `not absent`.
* `TextIsHere`: `Spec => []OpenedWithTheText`. One lemma per way the bridge opens a
  document; `SessionHolds` may run `Arrive` before the text is here, and then
  `DocumentOpened` is what holds back.
* `TypeCorrect`: `Spec => []TypeOK`, which says of the mirror and the document held back
  that only one stands, unless an `open` was read behind its session's end (`late`; the run
  `open_late` shows both standing then). It takes `Turns`: opens and closes alternate over everything that
  is on the pipe, on the companion's side and in the front-end, and a refused open is let
  go, so that an `open` never meets a document that is not closed.
* `ChangesAreCounted`: `Spec => []KeystrokesAreCountedUnlessLate`, with `Counted`: what
  the companion counted plus the changes on their way since the last `open` is what the
  buffer counted, whether the document is with the mirror, held back, or its `open` is
  itself still on the pipe; `Turns` gives that it is one of the three.
* `HoldsAreReleased`: `Spec => []HoldsAreOpen`, with `Owed`: a hold that was not refused
  since the path was last given up is owed to a document held back, to one with the bridge,
  or to an answer the bridge is still to have, and what the bridge has is held or is still
  to be answered.
* `MarksAreTrue`: `Spec => []MarkIsKnown`, the longest. `Numbers` says that documents are
  numbered in the order they are shared, so that a document of an earlier share is told
  from the present one everywhere it is named; `Marks` that ids of writes are used once
  over the two pipes and the mirror's table (`Ids`), that a write is of the instance it
  was asked for (`Owns`), and that the mark the mirror will have once it has read what is
  on the pipe is the front-end's (`Marked`).

`DocSync_proofs` proves, for every set of scenarios, that is for all texts, all units,
whatever is typed and any number of deletions, reloads, locks, reopens, moves, failed
saves and refusals, and for all three bounds (the assumptions of `DocSync`: a scenario is
texts and a count for each budget, and the bounds are counts). It takes from
`Texts_proofs` that a range applied to a text gives a text, and that `Diff` and `Rebase`
give ranges that do not run backwards; its first half has what each operator of the
companion changes.

* `TypeCorrect`: `Spec => []TypeOK`, and `OffersAreAnswered`:
  `Spec => []EveryOfferIsAnsweredOnce`. `Wired` holds both up: the shapes of the pipes and
  of the companion, and `Linked`, which reads the two pipes against the table of applies:
  every id in the table is asked for once on one pipe or answered once on the other and
  never both, nothing else is asked or answered, no two entries share a serial, and no id
  is above `nextId`. `Covered` adds that a flight has its offer. A rebased offer takes a
  new id with the serial of the old one in the same turn, and that is the step that matters.
* `MirrorFollows`: `Spec => []MirrorCatchesUp`. The property speaks of an empty pipe; the
  invariant (`Follows`) has a trail of mirrors, from the companion's to one equal to the
  buffer, with one step for each message on the way. A message of the front-end adds a
  step at the end, a message read takes the first away, and an answer leaves it alone.
* `OffersLand`: `Spec => [](spent.reopens = 0 /\ spent.remirrors = 0 =>
  OffersLandWhereComputed)`. Along the same trail counts only grow: an offer on its way
  has a count no greater than the buffer's and, where they are equal, its text
  (`Landing`). Both conditions are needed: `reopen` and the move to the mirror start the
  count over while offers are on their way, which is the finding of `doc_reopened`.
* `HoldsStand`: `Spec => []HeldIsOpen`. A document that is held and not open has its
  `openRefused` or its `close` still on the way (`Standing`), which takes the order of the
  opens and closes on the pipe: the front-end shares the document only if nothing after
  the last `close` is missing (`Present`), and lets go only by a `close` (`Away`).
* `WritesResume`: `Spec => [](spent.reopens = 0 \/ (Unsplit /\ ~companion.refusedSeed) =>
  WriteNotForgotten)`, where `Unsplit` says that no unit of the scenario is half of a
  character. `Remembers` says that then only refused text pauses a deadline for long;
  without a reopen, for any units, `Serves` says that every offer that is out belongs to
  the flight (`Belongs`), and that the paused document differs from the replica, a flight
  will look at it, or one of the texts holds a half: when the half goes, the edit that
  takes it is announced and `Reconcile` looks again. TLC finds a behaviour of nineteen
  states without the hypothesis on refused text (the combination listed under `DocSync`).
* `PeerTextStands`, `PeerTextStandsWhole`, `RefusedTextStands` and `BufferConverges`: what
  the bridge is for, under `spent.reopens = 0 /\ spent.remirrors = 0` (each of the two
  breaks what is compared here, as listed under `DocSync`). One invariant, `Tended`, holds
  all four up:
  - `Regime`: the document is opened once, every offer is the flight's, and a close is the
    last thing heard of it. The steps that are left are `Proceeds`.
  - The trail of mirrors (`Follows`) says of every change on the pipe that what it takes
    away was given up by someone (`Fairly`). So a unit the mirror loses between two reads
    is in `erased`, and not lost.
  - `Sound`, at rest: what the room holds and the mirror does not was given up or reported
    (`Square`), so `Publish`, which writes the mirror's text over the replica, removes no
    other unit; and mirror and room agree, or the backstop is armed, or the room cannot
    carry the text, or one of the texts holds half a character, or the attempts are used up
    (`Settled`); in the last three the person was told, or the path is one the room does not
    take.
  - `Sound`, while an offer is out: moved through what was typed since it was asked for,
    the offer lies inside the mirror and leads to a text that holds all the room held then
    (`Reaches`). A change read meanwhile keeps this, since an offer moved through a change
    and the change moved through the offer lead to the same text (`ThroughCommutes`), and
    so does asking again. Without a request to look again the room is what the flight goes
    for; and an offer without a backstop behind it is the backstop's own, which replaces
    everything (`Whole`): a keystroke beside it makes it overlap and not be placed.
  - `Unshared`, `Peers` and `Written`: the refused units are in the buffer until the text is
    announced as changed (`Announced` forgets them, and `Reconcile` may then take them from
    the buffer), the peers' in the room unless they were reported, and what a peer typed is on the disk unless a write of it is still to come.
  `BufferConverges` is then `Settled` with an empty trail, and `Written` with
  `WriteNotForgotten` (`WritesResume`): what it says of the states in which the two differ
  is that they were told of. Its further hypothesis, that the two sides type
  different units, is for the disk: `Written` is about units, and one the person types and
  a peer types too is no sign of a peer's write.
* `NothingLandsTwice`: `Spec => [](spent.reopens = 0 /\ spent.remirrors = 0 /\
  spent.reloads = 0 => NothingTwice)`. `NothingTwice` assumes that all units are told apart
  (`ToldApart`), so a unit that is somewhere twice got there twice. The invariant (`Single`)
  stands on `Tended` and follows each unit that was typed (`Inked`) from where it was typed:
  - a change on the pipe brings one unit at most, and no two changes the same one (`Lone`);
    what no change on the pipe carries has reached the companion (`Arrived`);
  - the replica, the mirror's text, and for every offer that is out the text it leads to,
    moved through what was typed since, hold units that have arrived, each once (`Lean`).
    So a change read meanwhile puts in a unit that is not there yet, in the mirror and in
    what the offer leads to alike (`ThroughCommutes` again), and the offer that is asked
    for again is one that was covered before;
  - an edit the front-end takes has the buffer's count, so that the mirror has it too, and
    its text is the buffer's (`TrailGrows`): the buffer becomes what the offer leads to.

  With a reload TLC finds a line twice (the combination listed under `DocSync`): the disk
  brings back units that were deleted, and no count of keystrokes tells them from new ones.

`RequestPipe_proofs` proves, for every set of lines, every bound and every way of cutting
the input up (the assumptions of `RequestPipe`: lines have a size and a kind):

* `TypeCorrect`: `Spec => []TypeOK`. `KeptIsRead` is what makes it inductive: a line is
  shed only past the bound, and otherwise the kept text is exactly the bytes read of the
  line in front, counted.
* `PipeIsStream`: `Spec => ReadsAsLines`, the refinement. The initial states map to
  initial states, and each step to a step of `RequestStream` or to none: `Finish` to
  `Judge` (or to none behind a shed line), `Collect` to `Judge` where it sheds and to none
  elsewhere, `InputEnds` to `Forget` for a torn line. `KeptIsRead` gives that the text
  judged is the whole line (`WholeLineJoined`).

`SessionLifecycle_proofs` proves, for every set of folders and every number of companions
(the assumptions of `SessionLifecycle`: companions and budgets are counted):

* `TypeCorrect`: `Spec => []TypeOK`, with the invariant that a companion that waits for a
  room to open or to close holds no session (`HoldsOne`).
* `SeatsAreRemembered`: `Spec => []NoRoomIsForgotten`, inductive together with `TypeOK`.
  The step that matters is `Opened`: nothing else opens a session while the queue waits,
  since `refuseWhileLive` was asked by the same request.
* `HostsClose`: `Spec => []HostsCloseTheirRooms`. The end of stdin leaves without closing
  (`leave(false)`), so it must never find a host's session. `LeavesFirst` says why it does
  not: the process in use has its stdin open; one whose stdin is closed has a `leave` as
  its last request, or has taken it and holds nothing since. Its steps rest on
  `LeaveStays` (what is taken before the last request leaves the last one there).

* `TheyAgree`: `Spec => []ProcessesAgree`. The property speaks of the end of all words;
  the invariant (`WillAgree`) says what the front-end will stand in when it has heard the
  words on their way (`Leads`: standing by standing, one word each), for each wait the
  companion may be at (`Agreed`). While a `leave` is on the pipe or a room is closing it
  says nothing (`Moot`): what a front-end that has left still hears of the old room is made
  good by the `status idle` that answers the leave. `Using` adds that a process with its
  stdin open is the one in use, so one that was let go never rests with a session.
* `FoldersAgree`: `Spec => []RoomSharesItsFolderUnlessHasty`, with `FolderKept`: if the
  person asked after the last answer, then either the leave is the only request and
  everything else is over, or one request is on its way at most, the folder recorded is the
  one in it, and no word behind it clears the folder (`Harmless`). That asking found no
  session where the front-end was in none is `WillAgree`.

`AtRest` is about what the two processes can still do (`Ready`), written out for the
prover; TLC agrees that it is `ENABLED System`. Of this module only `RequestsAreTaken`, a
liveness property, has no theorem.

Only model-checked elsewhere:

* the liveness properties (`ComesToRest`, `ListingSettles`, `KeepsReading`), which are out
  of the prover's reach;
* of `DocSync`, `NoSilentLoss` and `KeystrokesCount`. Each is broken by a
  combination listed under `DocSync`, so a theorem needs that boundary as a hypothesis:
  `NoSilentLoss` one on the order of two refusals and a keystroke, which no count of the
  scenario says, and `KeystrokesCount` counts equal units, where `Units` are sets. The
  cases of `PeerTextKept`, `PeerTextKeptUnlessRefused`, `RefusedTextStays`, `Converged` and
  `NothingTwice` with a reopen or a move to the mirror, and those of `NothingTwice` with a
  reload, where the theorems say nothing, are checked on the scenarios of the runs only.

## Not modelled

Each with its reason; `PROJECT.json` repeats them per component.

* The engine (`vendor/engine/`) is vendored from another repository. The modules use its
  contract: a serial queue of publications, holds, content that arrives and is announced,
  a last word. Handshake, reconnect and drain, sealing, rotation and the budgets of
  frames are behind it; so are two hazards in `PROJECT.json` that no property covers.
* The queue of granted reads in the vendored bridge (`seedRequested`, `pumpReads`):
  `GrantedRead` is one of its reads from the first system call to the last, and
  `OpenDocument` seeds only the document the host itself opens.
* Rows and columns: `DocSync` starts from flat offsets, and line endings and the offset
  maps of CRLF buffers in `editing.ts` are arithmetic on one text without a state.
* The mirror's files (`mirror.lua`, `fetch.lua`) beyond `remirror_documents`: work of
  Neovim and the file system in one turn of its loop, which no other part waits for.
* Follow, go-to, presence and carets depend on Neovim's windows and jump rules.
* The listing's bounds and the language of ignore patterns: a function of one tree and
  one text, without an interleaving.
* Rename, later changes of the role and the invite: they change what is shown and what
  may be published, and no wait of the modules depends on them. The rejection of a
  rename (`session.ts:321-330`) is reported without asking whose session it was.
* The room view, the relay list, seats, bar, colours, prompts, health and wording:
  drawing and strings, worked out from one event at a time.
* Envelopes, urls, crypto, limits: encodings and primitives.

## Plan

The order was: what keeps buffers and the room in step first (`Texts`, `DocSync`), then
the host's folder (`GrantPublish`), the two processes (`SessionLifecycle`), the waits
around opening and writing a document (`OpenDocument`), the read of the folder
(`GrantedRead`) and the pipe with its abstract specification (`RequestStream`,
`RequestPipe`). All of these are done.

What would come next, and what it would take:

1. The findings and the behaviours listed under `DocSync` and `OpenDocument`, once the
   code decides about them: with each, an excluded case becomes part of a property.
2. `NoSilentLoss` as a theorem, over `Single`: it needs a name for the order of two
   refusals and a keystroke that loses one unreported, or the code's decision about it.
3. An abstract specification of one document's exchange (the text and count every range
   was computed from as its state) that `DocSync` without reopens implements; `Landing` is
   its link invariant.
4. The bridge's queue of granted reads, over `GrantedRead` as one answer.
