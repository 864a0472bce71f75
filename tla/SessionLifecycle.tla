-------------------------- MODULE SessionLifecycle --------------------------
(***************************************************************************)
(* How sessions begin and end: the commands of the front-end (commands.lua,*)
(* session.lua, messages.lua), the companion's queue of requests (main.ts) *)
(* and its `connect` and `leave` (companion/session.ts).                   *)
(*                                                                         *)
(* The two processes talk over two FIFO pipes.  The front-end forgets a    *)
(* session the moment it asks to leave it, the companion goes on reporting *)
(* until it has read the request, and a room may end at any time beside    *)
(* the queue.  A companion that is stopped is abandoned: the next session  *)
(* starts a process of its own while the old one is still letting go.      *)
(***************************************************************************)
EXTENDS Integers, Sequences

CONSTANTS Roots,         \* the folders a person may stand in
          MaxProcesses,  \* how many companions are started
          Scenarios      \* how often the environment does each thing: one choice of these

Budgets == {"hosts", "joins", "moves", "failures", "ends", "timeouts", "kills", "crashes"}

ASSUME ProcessesAreCounted == MaxProcesses \in Nat
ASSUME ScenariosAreCounts == Scenarios \subseteq [Budgets -> Nat]

Processes == 1 .. MaxProcesses

NoProcess == 0
NoSession == 0
NoRoot == [none |-> "root"]
NoRequest == [none |-> "request"]

VARIABLES front,      \* the Lua module `state`
          cwd,        \* the folder the person stands in
          requests,   \* the stdin of each companion
          words,      \* the stdout of each companion
          companion,  \* what each companion is doing
          rooms,      \* every seat taken so far, and what became of it
          hasty,      \* history: the last request was made before another one's answer
          outlived,   \* history: a `connect` went on after its room had ended
          left        \* what the environment may still do

vars == <<front, cwd, requests, words, companion, rooms, hasty, outlived, left>>

Spend(what) ==
    /\ left[what] > 0
    /\ left' = [left EXCEPT ![what] = @ - 1]

Say(p, said) == words' = [words EXCEPT ![p] = @ \o said]

Status(standing) == [type |-> "status", state |-> standing]

Init ==
    /\ front = [status |-> "idle", process |-> NoProcess, root |-> NoRoot,
                shown |-> NoSession, asking |-> NoRequest]
    /\ cwd \in Roots
    /\ requests = [p \in Processes |-> <<>>]
    /\ words = [p \in Processes |-> <<>>]
    /\ companion = [p \in Processes |->
                       [run |-> "unstarted", stdin |-> TRUE, engine |-> NoSession,
                        doing |-> "nothing", request |-> NoRequest, about |-> NoSession]]
    /\ rooms = <<>>
    /\ hasty = FALSE
    /\ outlived = FALSE
    /\ left \in Scenarios

(***************************************************************************)
(* The front-end.                                                          *)
(***************************************************************************)
InSession == front.status \in {"hosting", "joined"}

(* session.lua `reset`: what the reports of the session left goes with it. *)
Reset(state) ==
    [state EXCEPT !.status = "idle", !.root = NoRoot, !.shown = NoSession]

Silent(p) ==
    requests[p] = <<>> /\ words[p] = <<>> /\ companion[p].doing = "nothing"

(* `host` and `join` (commands.lua).  A session that is live is given up   *)
(* first, once the person has said so; then the name is asked for.         *)
Asks(what) ==
    /\ front.asking = NoRequest
    /\ front.status # "connecting"
    /\ IF InSession
       THEN /\ requests' = [requests EXCEPT ![front.process] = Append(@, [type |-> "leave"])]
            /\ front' = [Reset(front) EXCEPT !.asking = [type |-> what]]
       ELSE /\ front' = [front EXCEPT !.asking = [type |-> what]]
            /\ UNCHANGED requests
    /\ hasty' = (front.process # NoProcess /\ ~Silent(front.process))
    /\ UNCHANGED <<cwd, words, companion, rooms, outlived>>

(* Hosting while hosting is reaching for the invite.                       *)
AsksToHost == front.status # "hosting" /\ Spend("hosts") /\ Asks("host")

AsksToJoin == Spend("joins") /\ Asks("join")

(* The process in use, or a new one (messages.lua `ensure`).               *)
Ensure(p) ==
    IF front.process # NoProcess
    THEN p = front.process /\ UNCHANGED companion
    ELSE /\ companion[p].run = "unstarted"
         /\ \A q \in Processes : companion[q].run = "unstarted" => p <= q
         /\ companion' = [companion EXCEPT ![p].run = "running"]

(* A slip: the folder is recorded when the process is started.             *)
NamedOnce(p) ==
    [front EXCEPT !.process = p, !.asking = NoRequest,
                  !.root = IF front.process = NoProcess THEN cwd ELSE @]

(* share.lua `capture_root`: where the person stands is the folder of the  *)
(* session.                                                                *)
Named(p) == [front EXCEPT !.process = p, !.asking = NoRequest, !.root = cwd]

(* The name is known, and the request is sent.  The folder goes with it;   *)
(* only a host's is looked at.                                             *)
GivesName ==
    /\ front.asking # NoRequest
    /\ \E p \in Processes :
          /\ Ensure(p)
          /\ front' = Named(p)
          /\ requests' = [requests EXCEPT ![p] =
                              Append(@, [type |-> front.asking.type, root |-> cwd])]
          /\ hasty' = (hasty \/ ~Silent(p))
    /\ UNCHANGED <<cwd, words, rooms, outlived, left>>

(* Escape at the name's prompt starts nothing.                             *)
GivesNoName ==
    /\ front.asking # NoRequest
    /\ front' = [front EXCEPT !.asking = NoRequest]
    /\ UNCHANGED <<cwd, requests, words, companion, rooms, hasty, outlived, left>>

(* `leave` (commands.lua): the process is forgotten, told, and its stdin   *)
(* is closed (companion.lua `stop`).                                       *)
Leaves ==
    /\ front.asking = NoRequest
    /\ InSession
    /\ requests' = [requests EXCEPT ![front.process] = Append(@, [type |-> "leave"])]
    /\ companion' = [companion EXCEPT ![front.process].stdin = FALSE]
    /\ front' = [Reset(front) EXCEPT !.process = NoProcess]
    /\ UNCHANGED <<cwd, words, rooms, hasty, outlived, left>>

Moves ==
    /\ Spend("moves")
    /\ cwd' \in Roots \ {cwd}
    /\ UNCHANGED <<front, requests, words, companion, rooms, hasty, outlived>>

(* A slip: `status idle` only says so.                                     *)
OnStatusOnly(standing) == [front EXCEPT !.status = standing]

(* messages.lua `on_status`.                                               *)
OnStatus(standing) ==
    IF standing = "idle" THEN Reset(front) ELSE [front EXCEPT !.status = standing]

(* messages.lua `on_message`.                                              *)
OnMessage(message) ==
    CASE message.type = "status" -> OnStatus(message.state)
      [] message.type = "over" -> Reset(front)
      [] message.type = "report" -> [front EXCEPT !.shown = message.session]
      [] message.type = "refused" -> front

(* A process that was let go is not the one to believe.                    *)
FrontHears(p) ==
    /\ words[p] # <<>>
    /\ words' = [words EXCEPT ![p] = Tail(@)]
    /\ front' = IF front.process = p THEN OnMessage(Head(words[p])) ELSE front
    /\ UNCHANGED <<cwd, requests, companion, rooms, hasty, outlived, left>>

(* `on_exit`, once the process's stdout has been read to its end.          *)
FrontHearsExit(p) ==
    /\ companion[p].run = "exited"
    /\ words[p] = <<>>
    /\ companion' = [companion EXCEPT ![p].run = "gone"]
    /\ requests' = [requests EXCEPT ![p] = <<>>]
    /\ front' = IF front.process = p
                THEN [Reset(front) EXCEPT !.process = NoProcess]
                ELSE front
    /\ UNCHANGED <<cwd, words, rooms, hasty, outlived, left>>

(***************************************************************************)
(* The companion.  Its requests are handled one at a time (main.ts): one   *)
(* that waits for the server holds back those behind it.                   *)
(***************************************************************************)
Running(p) == companion[p].run = "running"

Free(p) == Running(p) /\ companion[p].doing = "nothing"

NextRequest(p, types) ==
    /\ Free(p)
    /\ requests[p] # <<>>
    /\ Head(requests[p]).type \in types
    /\ requests' = [requests EXCEPT ![p] = Tail(@)]

FrontStays == UNCHANGED <<front, cwd, hasty>>

(* A slip: a request is obeyed whatever is live.                           *)
ConnectAnyway(p) ==
    /\ NextRequest(p, {"host", "join"})
    /\ companion' = [companion EXCEPT ![p].doing = "opening",
                                      ![p].request = Head(requests[p])]
    /\ Say(p, <<Status("connecting")>>)
    /\ FrontStays
    /\ UNCHANGED <<rooms, outlived, left>>

(* `connect` as far as its first wait, and `refuseWhileLive`.              *)
Connect(p) ==
    /\ NextRequest(p, {"host", "join"})
    /\ IF companion[p].engine # NoSession
       THEN Say(p, <<[type |-> "refused"]>>) /\ UNCHANGED companion
       ELSE /\ Say(p, <<Status("connecting")>>)
            /\ companion' = [companion EXCEPT ![p].doing = "opening",
                                              ![p].request = Head(requests[p])]
    /\ FrontStays
    /\ UNCHANGED <<rooms, outlived, left>>

(* `open` throws: the walk is done and the server is not there, or says no.*)
OpenFails(p) ==
    /\ Running(p)
    /\ companion[p].doing = "opening"
    /\ Spend("failures")
    /\ Say(p, <<Status("error")>>)
    /\ companion' = [companion EXCEPT ![p].doing = "nothing", ![p].request = NoRequest]
    /\ FrontStays
    /\ UNCHANGED <<requests, rooms, outlived>>

(* The session is open and said.  A guest whose room has nothing open and  *)
(* listed nothing yet waits for a listing (`settleGrant`); anyone else is  *)
(* told of the room in the same turn.                                      *)
Opened(p) ==
    LET request == companion[p].request
        session == Len(rooms) + 1
    IN  /\ Running(p)
        /\ companion[p].doing = "opening"
        /\ rooms' = Append(rooms, [process |-> p, role |-> request.type,
                                   root |-> request.root, seat |-> "held"])
        /\ \E waits \in BOOLEAN :
              /\ waits => request.type = "join"
              /\ companion' = [companion EXCEPT ![p].engine = session,
                                                ![p].doing = IF waits THEN "settling" ELSE "nothing",
                                                ![p].about = IF waits THEN session ELSE NoSession,
                                                ![p].request = NoRequest]
              /\ Say(p, <<Status(IF request.type = "host" THEN "hosting" ELSE "joined")>>
                        \o IF waits THEN <<>> ELSE <<[type |-> "report", session |-> session]>>)
        /\ FrontStays
        /\ UNCHANGED <<requests, outlived, left>>

(* A slip: the listing is waited for as long as it takes.                  *)
SettleEndsLive(p) ==
    /\ Running(p)
    /\ companion[p].doing = "settling"
    /\ companion[p].engine # NoSession
    /\ Say(p, <<[type |-> "report", session |-> companion[p].engine]>>)
    /\ companion' = [companion EXCEPT ![p].doing = "nothing", ![p].about = NoSession]
    /\ FrontStays
    /\ UNCHANGED <<requests, rooms, outlived, left>>

(* The listing is here, or HANDSHAKE_GRANT_MS have passed: `connect` goes  *)
(* on to report the room, whether it is still there or not.                *)
SettleEnds(p) ==
    /\ Running(p)
    /\ companion[p].doing = "settling"
    /\ Say(p, <<[type |-> "report", session |-> companion[p].about]>>)
    /\ companion' = [companion EXCEPT ![p].doing = "nothing", ![p].about = NoSession]
    /\ outlived' = (outlived \/ companion[p].engine = NoSession)
    /\ FrontStays
    /\ UNCHANGED <<requests, rooms, left>>

SeatBecomes(s, seat) == rooms' = IF s = NoSession THEN rooms
                                 ELSE [rooms EXCEPT ![s].seat = seat]

(* A slip: the session is let go once its room is closed, not before.      *)
TakesLeaveLate(p) ==
    /\ NextRequest(p, {"leave"})
    /\ LET s == companion[p].engine
       IN  IF s # NoSession /\ rooms[s].role = "host"
           THEN /\ companion' = [companion EXCEPT ![p].doing = "closing", ![p].about = s]
                /\ UNCHANGED <<rooms, words>>
           ELSE /\ companion' = [companion EXCEPT ![p].engine = NoSession]
                /\ SeatBecomes(s, "left")
                /\ Say(p, <<Status("idle")>>)
    /\ FrontStays
    /\ UNCHANGED <<outlived, left>>

(* `leave(true)`: the session is let go of at once; a host then waits for  *)
(* its room to be closed, a guest disconnects in the same turn.            *)
TakesLeave(p) ==
    /\ NextRequest(p, {"leave"})
    /\ LET s == companion[p].engine
       IN  IF s # NoSession /\ rooms[s].role = "host"
           THEN /\ companion' = [companion EXCEPT ![p].engine = NoSession,
                                                  ![p].doing = "closing",
                                                  ![p].about = s]
                /\ UNCHANGED <<rooms, words>>
           ELSE /\ companion' = [companion EXCEPT ![p].engine = NoSession]
                /\ SeatBecomes(s, "left")
                /\ Say(p, <<Status("idle")>>)
    /\ FrontStays
    /\ UNCHANGED <<outlived, left>>

(* `closeWithin`: the room is closed for everyone, or CLOSING_WAIT_MS have *)
(* passed and the host only disconnects.                                   *)
Closes(p) ==
    /\ Running(p)
    /\ companion[p].doing = "closing"
    /\ \/ SeatBecomes(companion[p].about, "closed") /\ UNCHANGED left
       \/ SeatBecomes(companion[p].about, "lost") /\ Spend("timeouts")
    /\ companion' = [companion EXCEPT ![p].doing = "nothing", ![p].about = NoSession]
    /\ Say(p, <<Status("idle")>>)
    /\ FrontStays
    /\ UNCHANGED <<requests, outlived>>

(* `roomGone` or `disconnected`: the bridge's report goes first, then the  *)
(* listener's `leave`, beside the queue and within the turn.               *)
RoomEnds(p) ==
    /\ Running(p)
    /\ companion[p].engine # NoSession
    /\ Spend("ends")
    /\ SeatBecomes(companion[p].engine, "lost")
    /\ companion' = [companion EXCEPT ![p].engine = NoSession]
    /\ Say(p, <<[type |-> "over"], Status("idle")>>)
    /\ FrontStays
    /\ UNCHANGED <<requests, outlived>>

LetsGo(p, seat) ==
    /\ SeatBecomes(companion[p].engine, seat)
    /\ companion' = [companion EXCEPT ![p].run = "exited", ![p].engine = NoSession,
                                      ![p].doing = "nothing", ![p].request = NoRequest]

(* A slip: the end of stdin does not wait for the requests before it.      *)
StdinEndsAtOnce(p) ==
    /\ Running(p)
    /\ ~companion[p].stdin
    /\ LetsGo(p, "left")
    /\ requests' = [requests EXCEPT ![p] = <<>>]
    /\ FrontStays
    /\ UNCHANGED <<words, outlived, left>>

(* stdin has ended and every request before it is done: `leave(false)`,    *)
(* and the process exits.                                                  *)
StdinEnds(p) ==
    /\ Free(p)
    /\ ~companion[p].stdin
    /\ requests[p] = <<>>
    /\ LetsGo(p, "left")
    /\ Say(p, <<Status("idle")>>)
    /\ FrontStays
    /\ UNCHANGED <<requests, outlived, left>>

(* The process dies, or is killed at the end of STOP_GRACE_MS; whatever it *)
(* held is the server's to notice, and nobody reads what it was asked.     *)
Dies(p) ==
    /\ Running(p)
    /\ \/ Spend("crashes")
       \/ ~companion[p].stdin /\ Spend("kills")
    /\ LET s == companion[p].engine
           t == companion[p].about
       IN  rooms' = [n \in DOMAIN rooms |->
                       IF n \in {s, t} THEN [rooms[n] EXCEPT !.seat = "lost"] ELSE rooms[n]]
    /\ companion' = [companion EXCEPT ![p].run = "exited", ![p].engine = NoSession,
                                      ![p].doing = "nothing", ![p].request = NoRequest,
                                      ![p].about = NoSession]
    /\ requests' = [requests EXCEPT ![p] = <<>>]
    /\ FrontStays
    /\ UNCHANGED <<words, outlived>>

Person == AsksToHost \/ AsksToJoin \/ GivesName \/ GivesNoName \/ Leaves \/ Moves

Front(p) == FrontHears(p) \/ FrontHearsExit(p)

Companion(p) ==
    Connect(p) \/ Opened(p) \/ SettleEnds(p) \/ TakesLeave(p) \/ Closes(p) \/ StdinEnds(p)

Trouble(p) == OpenFails(p) \/ RoomEnds(p) \/ Dies(p)

System == \E p \in Processes : Front(p) \/ Companion(p)

Next == Person \/ System \/ \E p \in Processes : Trouble(p)

Spec == Init /\ [][Next]_vars

(* The two processes read their pipes, the server answers a dial, and the  *)
(* bounded waits run out.  The person owes nothing.                        *)
FairSpec == Spec /\ WF_vars(System)

(***************************************************************************)
(* Properties.                                                             *)
(***************************************************************************)
Connections == [type : {"host", "join"}, root : Roots]

Requests == [type : {"leave"}] \cup Connections

Statuses == {"idle", "connecting", "hosting", "joined", "error"}

Messages ==
    [type : {"status"}, state : Statuses]
    \cup [type : {"refused", "over"}] \cup [type : {"report"}, session : Nat]

Fronts ==
    [status : Statuses, process : Processes \cup {NoProcess},
     root : Roots \cup {NoRoot}, shown : Nat,
     asking : {NoRequest} \cup [type : {"host", "join"}]]

Companions ==
    [run : {"unstarted", "running", "exited", "gone"}, stdin : BOOLEAN,
     engine : Nat, doing : {"nothing", "opening", "settling", "closing"},
     request : {NoRequest} \cup Connections, about : Nat]

Seats ==
    [process : Processes, role : {"host", "join"}, root : Roots,
     seat : {"held", "closed", "left", "lost"}]

(* A companion names no session that was not opened, and holds none while  *)
(* it waits for a room to open or to close.                                *)
HoldsOne(c, opened) ==
    /\ c.engine \in 0 .. opened
    /\ c.about \in 0 .. opened
    /\ c.doing \in {"opening", "closing"} => c.engine = NoSession
    /\ c.doing = "opening" => c.request \in Connections

(* The variables keep their shapes, and a companion that waits for a room  *)
(* to open or to close holds no session meanwhile.                         *)
TypeOK ==
    /\ front \in Fronts
    /\ cwd \in Roots
    /\ requests \in [Processes -> Seq(Requests)]
    /\ words \in [Processes -> Seq(Messages)]
    /\ companion \in [Processes -> Companions]
    /\ rooms \in Seq(Seats)
    /\ hasty \in BOOLEAN
    /\ outlived \in BOOLEAN
    /\ left \in [Budgets -> Nat]
    /\ \A p \in Processes : HoldsOne(companion[p], Len(rooms))

(* A seat that is held is the session of the process that took it, or one  *)
(* that process is closing: nothing it does makes it forget a room.        *)
NoRoomIsForgotten ==
    \A s \in DOMAIN rooms :
        rooms[s].seat = "held" =>
            LET holder == companion[rooms[s].process]
            IN  /\ holder.run = "running"
                /\ \/ holder.engine = s
                   \/ holder.doing = "closing" /\ holder.about = s

(* Something of it is left to do: words or an exit to hear, a request, a   *)
(* wait, or the end of stdin.                                              *)
Busy(p) ==
    \/ words[p] # <<>>
    \/ companion[p].run = "exited"
    \/ Running(p) /\ (companion[p].doing # "nothing" \/ requests[p] # <<>> \/ ~companion[p].stdin)

(* What the two processes can do, written out (ENABLED System).            *)
Ready == \E p \in Processes : Busy(p)

AtRest == front.asking = NoRequest /\ ~Ready

(* The session the process in use holds, as the two know it.               *)
Held == IF front.process = NoProcess THEN NoSession ELSE companion[front.process].engine

(* Once everything is said and done, the front-end is in a session exactly *)
(* when its companion holds one, in the role it was opened with; a         *)
(* companion that was let go holds none; and what the front-end shows of a *)
(* room was reported by that very session, unless a `connect` went on to   *)
(* report a room that had ended.                                           *)
ProcessesAgree ==
    AtRest =>
        /\ IF Held = NoSession THEN front.status \in {"idle", "error"}
           ELSE front.status = (IF rooms[Held].role = "host" THEN "hosting" ELSE "joined")
        /\ \A p \in Processes : companion[p].engine # NoSession => p = front.process
        /\ ~outlived => front.shown = Held

(* A host's buffers are measured against the folder the room lists: the    *)
(* two processes agree on it, if nothing was unanswered when it was asked. *)
RoomSharesItsFolderUnlessHasty ==
    AtRest /\ ~hasty /\ front.status = "hosting" => front.root = rooms[Held].root

(* The same, however fast the person is.                                   *)
RoomSharesItsFolder ==
    AtRest /\ front.status = "hosting" => front.root = rooms[Held].root

(* A host that leaves closes its room: it is never merely disconnected     *)
(* from, which would keep everyone waiting for the host to come back.      *)
HostsCloseTheirRooms ==
    \A s \in DOMAIN rooms : rooms[s].role = "host" => rooms[s].seat # "left"

(* No request is stuck behind another: not behind a room that is opening,  *)
(* closing, or over.                                                       *)
RequestsAreTaken == \A p \in Processes : []<>(requests[p] = <<>>)
=============================================================================
