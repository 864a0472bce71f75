----------------------- MODULE SessionLifecycle_proofs -----------------------
(***************************************************************************)
(* Proofs about SessionLifecycle, for every number of companions, every    *)
(* set of folders and every bound: the variables keep their shapes, no     *)
(* seat is forgotten by the process that took it, a host that leaves       *)
(* closes its room, and once everything is said the two processes agree,   *)
(* on the session and on its folder.                                       *)
(***************************************************************************)
EXTENDS SessionLifecycle, SequenceTheorems, TLAPS

(***************************************************************************)
(* What the steps of the type proof have in common.                        *)
(***************************************************************************)

(* Spending keeps the budgets counted.                                     *)
LEMMA SpendTyped ==
    ASSUME left \in [Budgets -> Nat], NEW what, Spend(what)
    PROVE  left' \in [Budgets -> Nat]
<1>1. CASE what \in Budgets
  BY <1>1 DEF Spend
<1>2. CASE what \notin Budgets
  BY <1>2 DEF Spend
<1>3. QED
  BY <1>1, <1>2

(* A companion's stdout stays a sequence of messages.                      *)
LEMMA SayTyped ==
    ASSUME words \in [Processes -> Seq(Messages)], NEW p \in Processes,
           NEW said \in Seq(Messages), Say(p, said)
    PROVE  words' \in [Processes -> Seq(Messages)]
<1>1. words[p] \o said \in Seq(Messages)
  OBVIOUS
<1>2. QED
  BY <1>1 DEF Say

(* What a companion says is a message.                                     *)
LEMMA MessagesTyped ==
    /\ \A state \in Statuses : <<Status(state)>> \in Seq(Messages)
    /\ <<[type |-> "refused"]>> \in Seq(Messages)
    /\ <<[type |-> "over"], Status("idle")>> \in Seq(Messages)
    /\ \A s \in Nat : <<[type |-> "report", session |-> s]>> \in Seq(Messages)
<1>1. \A state \in Statuses : Status(state) \in Messages
  BY DEF Status, Messages
<1>2. [type |-> "refused"] \in Messages /\ [type |-> "over"] \in Messages
  BY DEF Messages
<1>3. \A s \in Nat : [type |-> "report", session |-> s] \in Messages
  BY DEF Messages
<1>4. "idle" \in Statuses
  BY DEF Statuses
<1>5. QED
  BY <1>1, <1>2, <1>3, <1>4

(* A front-end whose session is over is in shape.                          *)
LEMMA ResetTyped ==
    ASSUME front \in Fronts
    PROVE  Reset(front) \in Fronts
BY DEF Reset, Fronts, Statuses, NoSession

(* Taking a request off a pipe leaves requests on it.                      *)
LEMMA RequestTaken ==
    ASSUME requests \in [Processes -> Seq(Requests)], NEW p \in Processes,
           NEW types, NextRequest(p, types)
    PROVE  /\ requests' \in [Processes -> Seq(Requests)]
           /\ Head(requests[p]) \in Requests
           /\ Head(requests[p]).type \in types
<1>1. requests[p] \in Seq(Requests) /\ requests[p] # <<>>
  BY DEF NextRequest
<1>2. Tail(requests[p]) \in Seq(Requests) /\ Head(requests[p]) \in Requests
  BY <1>1
<1>3. QED
  BY <1>2 DEF NextRequest

(* A seat that changes leaves the others, and their number, as they were.  *)
LEMMA SeatTyped ==
    ASSUME rooms \in Seq(Seats), NEW s \in 0 .. Len(rooms),
           NEW seat \in {"held", "closed", "left", "lost"}, SeatBecomes(s, seat)
    PROVE  /\ rooms' \in Seq(Seats)
           /\ Len(rooms') = Len(rooms)
           /\ Len(rooms) <= Len(rooms')
<1>1. CASE s = NoSession
  BY <1>1 DEF SeatBecomes
<1>2. CASE s # NoSession
  <2>1. s \in DOMAIN rooms
    BY <1>2 DEF NoSession
  <2>2. rooms[s] \in Seats
    BY <2>1
  <2>3. [rooms[s] EXCEPT !.seat = seat] \in Seats
    BY <2>2 DEF Seats
  <2>4. rooms' = [rooms EXCEPT ![s].seat = seat]
    BY <1>2 DEF SeatBecomes
  <2>5. QED
    BY <2>1, <2>3, <2>4
<1>3. QED
  BY <1>1, <1>2

(* A request sent leaves requests on the pipe.                             *)
LEMMA RequestSent ==
    ASSUME requests \in [Processes -> Seq(Requests)], NEW p \in Processes,
           NEW r \in Requests, requests' = [requests EXCEPT ![p] = Append(@, r)]
    PROVE  requests' \in [Processes -> Seq(Requests)]
<1>1. Append(requests[p], r) \in Seq(Requests)
  OBVIOUS
<1>2. QED
  BY <1>1

(* A companion that changes into one in shape, while no session is taken   *)
(* back, leaves them all in shape.                                         *)
LEMMA CompanionTyped ==
    ASSUME companion \in [Processes -> Companions],
           rooms \in Seq(Seats), rooms' \in Seq(Seats), Len(rooms) <= Len(rooms'),
           \A q \in Processes : HoldsOne(companion[q], Len(rooms)),
           NEW p \in Processes, NEW c \in Companions,
           HoldsOne(c, Len(rooms')),
           companion' = [companion EXCEPT ![p] = c]
    PROVE  /\ companion' \in [Processes -> Companions]
           /\ \A q \in Processes : HoldsOne(companion'[q], Len(rooms'))
<1>1. companion' \in [Processes -> Companions]
  OBVIOUS
<1>2. ASSUME NEW q \in Processes
      PROVE  HoldsOne(companion'[q], Len(rooms'))
  <2>1. CASE q = p
    BY <2>1
  <2>2. CASE q # p
    <3>1. companion'[q] = companion[q] /\ HoldsOne(companion[q], Len(rooms))
      BY <2>2
    <3>2. Len(rooms) \in Nat /\ Len(rooms') \in Nat
      OBVIOUS
    <3>3. QED
      BY <3>1, <3>2 DEF HoldsOne
  <2>3. QED
    BY <2>1, <2>2
<1>3. QED
  BY <1>1, <1>2

(* A step of a companion that changes only itself, the seats and its pipes *)
(* leaves everything in shape.                                             *)
LEMMA CompanionStepTyped ==
    ASSUME TypeOK, FrontStays,
           NEW p \in Processes, NEW c \in Companions, HoldsOne(c, Len(rooms')),
           companion' = [companion EXCEPT ![p] = c],
           rooms' \in Seq(Seats), Len(rooms) <= Len(rooms'),
           requests' \in [Processes -> Seq(Requests)],
           words' \in [Processes -> Seq(Messages)],
           outlived' \in BOOLEAN,
           left' \in [Budgets -> Nat]
    PROVE  TypeOK'
<1>1. /\ companion' \in [Processes -> Companions]
      /\ \A q \in Processes : HoldsOne(companion'[q], Len(rooms'))
  BY CompanionTyped DEF TypeOK
<1>2. QED
  BY <1>1 DEF TypeOK, FrontStays

(***************************************************************************)
(* The variables keep their shapes, and a companion that waits for a room  *)
(* to open or to close holds no session (SessionLifecycle!TypeOK).         *)
(***************************************************************************)
THEOREM TypeCorrect == Spec => []TypeOK
<1>1. Init => TypeOK
  <2> SUFFICES ASSUME Init PROVE TypeOK
    OBVIOUS
  <2>1. front \in Fronts
    BY DEF Init, Fronts, Statuses, NoSession
  <2>2. companion \in [Processes -> Companions]
    BY DEF Init, Companions, NoSession
  <2>3. \A p \in Processes : HoldsOne(companion[p], Len(rooms))
    BY DEF Init, HoldsOne, NoSession
  <2>4. left \in [Budgets -> Nat]
    BY ScenariosAreCounts DEF Init
  <2>5. <<>> \in Seq(Requests) /\ <<>> \in Seq(Messages) /\ <<>> \in Seq(Seats)
    OBVIOUS
  <2>6. QED
    BY <2>1, <2>2, <2>3, <2>4, <2>5 DEF Init, TypeOK
<1>2. TypeOK /\ [Next]_vars => TypeOK'
  <2> SUFFICES ASSUME TypeOK, [Next]_vars
               PROVE  TypeOK'
    OBVIOUS
  <2> USE DEF NoSession
  <2>1. ASSUME NEW what \in {"host", "join"}, NEW budget, Spend(budget), Asks(what)
        PROVE  TypeOK'
    <3>1. left' \in [Budgets -> Nat]
      BY <2>1, SpendTyped DEF TypeOK
    <3>2. front' \in Fronts
      <4>1. front \in Fronts /\ Reset(front) \in Fronts
        BY ResetTyped DEF TypeOK
      <4>2. \A f \in Fronts : [f EXCEPT !.asking = [type |-> what]] \in Fronts
        BY DEF Fronts
      <4>3. QED
        BY <2>1, <4>1, <4>2 DEF Asks
    <3>3. requests' \in [Processes -> Seq(Requests)]
      <4>1. CASE InSession /\ front.process \in Processes
        <5>1. [type |-> "leave"] \in Requests
          BY DEF Requests
        <5>2. QED
          BY <2>1, <4>1, <5>1, RequestSent DEF TypeOK, Asks
      <4>2. CASE InSession /\ front.process \notin Processes
        BY <2>1, <4>2 DEF TypeOK, Asks
      <4>3. CASE ~InSession
        BY <2>1, <4>3 DEF TypeOK, Asks
      <4>4. QED
        BY <4>1, <4>2, <4>3
    <3>4. hasty' \in BOOLEAN
      BY <2>1 DEF Asks
    <3>5. QED
      BY <2>1, <3>1, <3>2, <3>3, <3>4 DEF TypeOK, Asks
  <2>2. ASSUME GivesName
        PROVE  TypeOK'
    <3>1. PICK p \in Processes :
             /\ Ensure(p)
             /\ front' = Named(p)
             /\ requests' = [requests EXCEPT ![p] =
                                Append(@, [type |-> front.asking.type, root |-> cwd])]
             /\ hasty' = (hasty \/ ~Silent(p))
      BY <2>2 DEF GivesName
    <3>2. [type |-> front.asking.type, root |-> cwd] \in Requests
      BY <2>2 DEF TypeOK, GivesName, Fronts, Requests, Connections, NoRequest
    <3>3. requests' \in [Processes -> Seq(Requests)]
      BY <3>1, <3>2, RequestSent DEF TypeOK
    <3>4. front' \in Fronts
      BY <3>1 DEF TypeOK, Named, Fronts
    <3>5. /\ companion' \in [Processes -> Companions]
          /\ \A q \in Processes : HoldsOne(companion'[q], Len(rooms'))
      <4>1. CASE front.process # NoProcess
        BY <2>2, <3>1, <4>1 DEF TypeOK, Ensure, GivesName
      <4>2. CASE front.process = NoProcess
        <5> DEFINE c == [companion[p] EXCEPT !.run = "running"]
        <5>1. c \in Companions /\ HoldsOne(c, Len(rooms))
          BY DEF TypeOK, Companions, HoldsOne
        <5>2. companion' = [companion EXCEPT ![p] = c] /\ rooms' = rooms
          BY <2>2, <3>1, <4>2 DEF Ensure, GivesName
        <5> HIDE DEF c
        <5>3. QED
          BY <5>1, <5>2, CompanionTyped DEF TypeOK
      <4>3. QED
        BY <4>1, <4>2
    <3>6. QED
      BY <2>2, <3>1, <3>3, <3>4, <3>5 DEF TypeOK, GivesName
  <2>3. CASE GivesNoName
    BY <2>3 DEF TypeOK, GivesNoName, Fronts
  <2>4. CASE Leaves
    <3>1. front' \in Fronts
      BY <2>4, ResetTyped DEF TypeOK, Leaves, Fronts
    <3>2. CASE front.process \in Processes
      <4> DEFINE p == front.process
      <4> DEFINE c == [companion[p] EXCEPT !.stdin = FALSE]
      <4>1. c \in Companions /\ HoldsOne(c, Len(rooms))
        <5>1. companion[p] \in Companions /\ HoldsOne(companion[p], Len(rooms))
          BY <3>2 DEF TypeOK
        <5>2. QED
          BY <5>1 DEF Companions, HoldsOne
      <4>2. companion' = [companion EXCEPT ![p] = c] /\ rooms' = rooms
        BY <2>4 DEF Leaves
      <4>3. [type |-> "leave"] \in Requests
        BY DEF Requests
      <4>4. requests' \in [Processes -> Seq(Requests)]
        BY <2>4, <3>2, <4>3, RequestSent DEF TypeOK, Leaves
      <4> HIDE DEF c
      <4>5. /\ companion' \in [Processes -> Companions]
            /\ \A q \in Processes : HoldsOne(companion'[q], Len(rooms'))
        BY <3>2, <4>1, <4>2, CompanionTyped DEF TypeOK
      <4>6. QED
        BY <2>4, <3>1, <4>4, <4>5 DEF TypeOK, Leaves
    <3>3. CASE front.process \notin Processes
      <4>1. companion' = companion /\ requests' = requests
        BY <2>4, <3>3 DEF TypeOK, Leaves
      <4>2. QED
        BY <2>4, <3>1, <4>1 DEF TypeOK, Leaves
    <3>4. QED
      BY <3>2, <3>3
  <2>5. CASE Moves
    BY <2>5, SpendTyped DEF TypeOK, Moves
  <2>6. ASSUME NEW p \in Processes, FrontHears(p)
        PROVE  TypeOK'
    <3>1. words[p] \in Seq(Messages) /\ words[p] # <<>>
      BY <2>6 DEF TypeOK, FrontHears
    <3>2. Head(words[p]) \in Messages /\ Tail(words[p]) \in Seq(Messages)
      BY <3>1
    <3>3. \A message \in Messages : OnMessage(message) \in Fronts
      <4> SUFFICES ASSUME NEW message \in Messages
                   PROVE  OnMessage(message) \in Fronts
        OBVIOUS
      <4>1. Reset(front) \in Fronts
        BY ResetTyped DEF TypeOK
      <4>2. CASE message \in [type : {"status"}, state : Statuses]
        BY <4>1, <4>2 DEF OnMessage, OnStatus, TypeOK, Fronts
      <4>3. CASE message \in [type : {"refused", "over"}]
        BY <4>1, <4>3 DEF OnMessage, TypeOK
      <4>4. CASE message \in [type : {"report"}, session : Nat]
        BY <4>4 DEF OnMessage, TypeOK, Fronts
      <4>5. QED
        BY <4>2, <4>3, <4>4 DEF Messages
    <3>4. QED
      BY <2>6, <3>2, <3>3 DEF TypeOK, FrontHears
  <2>7. ASSUME NEW p \in Processes, FrontHearsExit(p)
        PROVE  TypeOK'
    <3> DEFINE c == [companion[p] EXCEPT !.run = "gone"]
    <3>1. c \in Companions /\ HoldsOne(c, Len(rooms))
      BY DEF TypeOK, Companions, HoldsOne
    <3>2. companion' = [companion EXCEPT ![p] = c] /\ rooms' = rooms
      BY <2>7 DEF FrontHearsExit
    <3>3. front' \in Fronts
      BY <2>7, ResetTyped DEF TypeOK, FrontHearsExit, Fronts
    <3>4. requests' \in [Processes -> Seq(Requests)]
      BY <2>7 DEF TypeOK, FrontHearsExit
    <3> HIDE DEF c
    <3>5. /\ companion' \in [Processes -> Companions]
          /\ \A q \in Processes : HoldsOne(companion'[q], Len(rooms'))
      BY <3>1, <3>2, CompanionTyped DEF TypeOK
    <3>6. QED
      BY <2>7, <3>3, <3>4, <3>5 DEF TypeOK, FrontHearsExit
  <2>8. ASSUME NEW p \in Processes, Connect(p)
        PROVE  TypeOK'
    <3> DEFINE c == [companion[p] EXCEPT !.doing = "opening", !.request = Head(requests[p])]
    <3>1. /\ requests' \in [Processes -> Seq(Requests)]
          /\ Head(requests[p]) \in Connections
      <4>1. /\ requests' \in [Processes -> Seq(Requests)]
            /\ Head(requests[p]) \in Requests
            /\ Head(requests[p]).type \in {"host", "join"}
        BY <2>8, RequestTaken DEF TypeOK, Connect
      <4>2. \A r \in Requests : r.type \in {"host", "join"} => r \in Connections
        BY DEF Requests, Connections
      <4>3. QED
        BY <4>1, <4>2
    <3>2. words' \in [Processes -> Seq(Messages)]
      <4>1. "connecting" \in Statuses
        BY DEF Statuses
      <4>2. QED
        BY <2>8, <4>1, MessagesTyped, SayTyped DEF TypeOK, Connect
    <3>3. rooms' = rooms
      BY <2>8 DEF Connect
    <3>4. CASE companion[p].engine # NoSession
      BY <2>8, <3>1, <3>2, <3>3, <3>4 DEF TypeOK, Connect, FrontStays
    <3>5. CASE companion[p].engine = NoSession
      <4>1. c \in Companions /\ HoldsOne(c, Len(rooms'))
        <5>1. companion[p] \in Companions /\ HoldsOne(companion[p], Len(rooms))
          BY DEF TypeOK
        <5>2. QED
          BY <3>1, <3>3, <3>5, <5>1 DEF Companions, HoldsOne
      <4>2. companion' = [companion EXCEPT ![p] = c]
        BY <2>8, <3>5 DEF Connect
      <4>3. /\ rooms' \in Seq(Seats) /\ Len(rooms) <= Len(rooms')
            /\ outlived' \in BOOLEAN /\ left' \in [Budgets -> Nat] /\ FrontStays
        BY <2>8, <3>3 DEF TypeOK, Connect
      <4> HIDE DEF c
      <4>4. QED
        BY <3>1, <3>2, <4>1, <4>2, <4>3, CompanionStepTyped
    <3>6. QED
      BY <3>4, <3>5
  <2>9. ASSUME NEW p \in Processes, Opened(p)
        PROVE  TypeOK'
    <3> DEFINE session == Len(rooms) + 1
    <3> DEFINE seat == [process |-> p, role |-> companion[p].request.type,
                        root |-> companion[p].request.root, seat |-> "held"]
    <3> DEFINE c(waits) == [companion[p] EXCEPT !.engine = session,
                               !.doing = IF waits THEN "settling" ELSE "nothing",
                               !.about = IF waits THEN session ELSE NoSession,
                               !.request = NoRequest]
    <3>1. companion[p] \in Companions /\ companion[p].request \in Connections
      BY <2>9 DEF TypeOK, Opened, HoldsOne
    <3>2. seat \in Seats
      BY <3>1 DEF Seats, Connections
    <3>3. rooms' = Append(rooms, seat) /\ rooms \in Seq(Seats)
      BY <2>9 DEF Opened, TypeOK
    <3>4. /\ rooms' \in Seq(Seats)
          /\ Len(rooms') = Len(rooms) + 1
          /\ Len(rooms) \in Nat
          /\ Len(rooms) <= Len(rooms')
      BY <3>2, <3>3
    <3>5. PICK waits \in BOOLEAN :
             /\ companion' = [companion EXCEPT ![p] = c(waits)]
             /\ Say(p, <<Status(IF companion[p].request.type = "host"
                                THEN "hosting" ELSE "joined")>>
                       \o IF waits THEN <<>>
                          ELSE <<[type |-> "report", session |-> session]>>)
      BY <2>9 DEF Opened
    <3>6. c(waits) \in Companions
      <4>1. session \in Nat
        BY <3>4
      <4> HIDE DEF session
      <4>2. QED
        BY <3>1, <4>1 DEF Companions
    <3>7. HoldsOne(c(waits), Len(rooms'))
      BY <3>1, <3>4 DEF HoldsOne, Companions
    <3>8. words' \in [Processes -> Seq(Messages)]
      <4> DEFINE said == <<Status(IF companion[p].request.type = "host"
                                  THEN "hosting" ELSE "joined")>>
      <4> DEFINE told == IF waits THEN <<>> ELSE <<[type |-> "report", session |-> session]>>
      <4>1. said \in Seq(Messages)
        BY MessagesTyped DEF Statuses
      <4>2. told \in Seq(Messages)
        BY <3>4, MessagesTyped
      <4>3. said \o told \in Seq(Messages)
        BY <4>1, <4>2
      <4>4. Say(p, said \o told)
        BY <3>5
      <4> HIDE DEF said, told
      <4>5. QED
        BY <4>3, <4>4, SayTyped DEF TypeOK
    <3>9. /\ requests' \in [Processes -> Seq(Requests)]
          /\ outlived' \in BOOLEAN /\ left' \in [Budgets -> Nat] /\ FrontStays
      BY <2>9 DEF TypeOK, Opened
    <3> HIDE DEF c
    <3>10. QED
      BY <3>4, <3>5, <3>6, <3>7, <3>8, <3>9, CompanionStepTyped
  <2>10. ASSUME NEW p \in Processes, SettleEnds(p)
         PROVE  TypeOK'
    <3> DEFINE c == [companion[p] EXCEPT !.doing = "nothing", !.about = NoSession]
    <3>1. c \in Companions /\ HoldsOne(c, Len(rooms'))
      <4>1. companion[p] \in Companions /\ HoldsOne(companion[p], Len(rooms))
        BY DEF TypeOK
      <4>2. rooms' = rooms /\ companion[p].doing = "settling"
        BY <2>10 DEF SettleEnds
      <4>3. Len(rooms) \in Nat
        BY DEF TypeOK
      <4>4. c \in Companions
        BY <4>1 DEF Companions
      <4>5. HoldsOne(c, Len(rooms'))
        BY <4>1, <4>2, <4>3 DEF Companions, HoldsOne
      <4>6. QED
        BY <4>4, <4>5
    <3>2. companion[p].about \in Nat
      BY DEF TypeOK, Companions
    <3>3. words' \in [Processes -> Seq(Messages)]
      BY <2>10, <3>2, MessagesTyped, SayTyped DEF TypeOK, SettleEnds
    <3>4. outlived' \in BOOLEAN
      BY <2>10 DEF SettleEnds, TypeOK
    <3>5. companion' = [companion EXCEPT ![p] = c]
      BY <2>10 DEF SettleEnds
    <3>6. /\ rooms' \in Seq(Seats) /\ Len(rooms) <= Len(rooms')
      BY <2>10 DEF TypeOK, SettleEnds
    <3>7. /\ requests' \in [Processes -> Seq(Requests)]
          /\ left' \in [Budgets -> Nat] /\ FrontStays
      BY <2>10 DEF TypeOK, SettleEnds
    <3> HIDE DEF c
    <3>8. QED
      BY <3>1, <3>3, <3>4, <3>5, <3>6, <3>7, CompanionStepTyped
  <2>11. ASSUME NEW p \in Processes, TakesLeave(p)
         PROVE  TypeOK'
    <3> DEFINE s == companion[p].engine
    <3>1. companion[p] \in Companions /\ HoldsOne(companion[p], Len(rooms))
      BY DEF TypeOK
    <3>2. /\ requests' \in [Processes -> Seq(Requests)]
          /\ outlived' \in BOOLEAN /\ left' \in [Budgets -> Nat] /\ FrontStays
      BY <2>11, RequestTaken DEF TypeOK, TakesLeave
    <3>3. CASE s # NoSession /\ rooms[s].role = "host"
      <4> DEFINE c == [companion[p] EXCEPT !.engine = NoSession, !.doing = "closing",
                                           !.about = s]
      <4>1. c \in Companions
        BY <3>1 DEF Companions
      <4>2. HoldsOne(c, Len(rooms'))
        BY <2>11, <3>1, <3>3 DEF TypeOK, TakesLeave, HoldsOne, Companions
      <4>3. companion' = [companion EXCEPT ![p] = c] /\ UNCHANGED <<rooms, words>>
        BY <2>11, <3>3 DEF TakesLeave
      <4>4. rooms' \in Seq(Seats) /\ Len(rooms) <= Len(rooms')
        BY <4>3 DEF TypeOK
      <4>5. words' \in [Processes -> Seq(Messages)]
        BY <4>3 DEF TypeOK
      <4> HIDE DEF c
      <4>6. QED
        BY <3>2, <4>1, <4>2, <4>3, <4>4, <4>5, CompanionStepTyped
    <3>4. CASE ~(s # NoSession /\ rooms[s].role = "host")
      <4> DEFINE c == [companion[p] EXCEPT !.engine = NoSession]
      <4>1. /\ companion' = [companion EXCEPT ![p] = c]
            /\ SeatBecomes(s, "left")
            /\ Say(p, <<Status("idle")>>)
        BY <2>11, <3>4 DEF TakesLeave
      <4>2. /\ rooms' \in Seq(Seats) /\ Len(rooms') = Len(rooms) /\ Len(rooms) <= Len(rooms')
        BY <3>1, <4>1, SeatTyped DEF TypeOK, HoldsOne
      <4>3. c \in Companions
        BY <3>1 DEF Companions
      <4>4. HoldsOne(c, Len(rooms'))
        BY <3>1, <4>2 DEF HoldsOne, Companions
      <4>5. words' \in [Processes -> Seq(Messages)]
        BY <4>1, MessagesTyped, SayTyped DEF TypeOK, Statuses
      <4> HIDE DEF c
      <4>6. QED
        BY <3>2, <4>1, <4>2, <4>3, <4>4, <4>5, CompanionStepTyped
    <3>5. QED
      BY <3>3, <3>4
  <2>12. ASSUME NEW p \in Processes, Closes(p)
         PROVE  TypeOK'
    <3> DEFINE c == [companion[p] EXCEPT !.doing = "nothing", !.about = NoSession]
    <3>1. companion[p] \in Companions /\ HoldsOne(companion[p], Len(rooms))
      BY DEF TypeOK
    <3>2. rooms' \in Seq(Seats) /\ Len(rooms') = Len(rooms) /\ Len(rooms) <= Len(rooms')
      BY <2>12, <3>1, SeatTyped DEF TypeOK, Closes, HoldsOne
    <3>3. left' \in [Budgets -> Nat]
      BY <2>12, SpendTyped DEF TypeOK, Closes
    <3>4. words' \in [Processes -> Seq(Messages)]
      BY <2>12, MessagesTyped, SayTyped DEF TypeOK, Closes, Statuses
    <3>5. c \in Companions
      BY <3>1 DEF Companions
    <3>6. HoldsOne(c, Len(rooms'))
      BY <3>1, <3>2 DEF HoldsOne, Companions
    <3>7. companion' = [companion EXCEPT ![p] = c]
      BY <2>12 DEF Closes
    <3>8. /\ requests' \in [Processes -> Seq(Requests)]
          /\ outlived' \in BOOLEAN /\ FrontStays
      BY <2>12 DEF TypeOK, Closes
    <3> HIDE DEF c
    <3>9. QED
      BY <3>2, <3>3, <3>4, <3>5, <3>6, <3>7, <3>8, CompanionStepTyped
  <2>13. ASSUME NEW p \in Processes, StdinEnds(p)
         PROVE  TypeOK'
    <3> DEFINE c == [companion[p] EXCEPT !.run = "exited", !.engine = NoSession,
                                         !.doing = "nothing", !.request = NoRequest]
    <3>1. companion[p] \in Companions /\ HoldsOne(companion[p], Len(rooms))
      BY DEF TypeOK
    <3>2. rooms' \in Seq(Seats) /\ Len(rooms') = Len(rooms) /\ Len(rooms) <= Len(rooms')
      BY <2>13, <3>1, SeatTyped DEF TypeOK, StdinEnds, LetsGo, HoldsOne
    <3>3. words' \in [Processes -> Seq(Messages)]
      BY <2>13, MessagesTyped, SayTyped DEF TypeOK, StdinEnds, Statuses
    <3>4. c \in Companions
      BY <3>1 DEF Companions
    <3>5. HoldsOne(c, Len(rooms'))
      BY <3>1, <3>2 DEF HoldsOne, Companions
    <3>6. companion' = [companion EXCEPT ![p] = c]
      BY <2>13 DEF StdinEnds, LetsGo
    <3>7. /\ requests' \in [Processes -> Seq(Requests)]
          /\ outlived' \in BOOLEAN /\ left' \in [Budgets -> Nat] /\ FrontStays
      BY <2>13 DEF TypeOK, StdinEnds
    <3> HIDE DEF c
    <3>8. QED
      BY <3>2, <3>3, <3>4, <3>5, <3>6, <3>7, CompanionStepTyped
  <2>14. ASSUME NEW p \in Processes, OpenFails(p)
         PROVE  TypeOK'
    <3> DEFINE c == [companion[p] EXCEPT !.doing = "nothing", !.request = NoRequest]
    <3>1. c \in Companions /\ HoldsOne(c, Len(rooms'))
      BY <2>14 DEF TypeOK, OpenFails, Companions, HoldsOne
    <3>2. left' \in [Budgets -> Nat]
      BY <2>14, SpendTyped DEF TypeOK, OpenFails
    <3>3. words' \in [Processes -> Seq(Messages)]
      BY <2>14, MessagesTyped, SayTyped DEF TypeOK, OpenFails, Statuses
    <3>4. companion' = [companion EXCEPT ![p] = c]
      BY <2>14 DEF OpenFails
    <3>5. rooms' \in Seq(Seats) /\ Len(rooms) <= Len(rooms')
      BY <2>14 DEF TypeOK, OpenFails
    <3>6. /\ requests' \in [Processes -> Seq(Requests)]
          /\ outlived' \in BOOLEAN /\ FrontStays
      BY <2>14 DEF TypeOK, OpenFails
    <3> HIDE DEF c
    <3>7. QED
      BY <3>1, <3>2, <3>3, <3>4, <3>5, <3>6, CompanionStepTyped
  <2>15. ASSUME NEW p \in Processes, RoomEnds(p)
         PROVE  TypeOK'
    <3> DEFINE c == [companion[p] EXCEPT !.engine = NoSession]
    <3>1. companion[p] \in Companions /\ HoldsOne(companion[p], Len(rooms))
      BY DEF TypeOK
    <3>2. rooms' \in Seq(Seats) /\ Len(rooms') = Len(rooms) /\ Len(rooms) <= Len(rooms')
      BY <2>15, <3>1, SeatTyped DEF TypeOK, RoomEnds, HoldsOne
    <3>3. left' \in [Budgets -> Nat]
      BY <2>15, SpendTyped DEF TypeOK, RoomEnds
    <3>4. words' \in [Processes -> Seq(Messages)]
      BY <2>15, MessagesTyped, SayTyped DEF TypeOK, RoomEnds
    <3>5. c \in Companions
      BY <3>1 DEF Companions
    <3>6. HoldsOne(c, Len(rooms'))
      BY <3>1, <3>2 DEF HoldsOne, Companions
    <3>7. companion' = [companion EXCEPT ![p] = c]
      BY <2>15 DEF RoomEnds
    <3>8. /\ requests' \in [Processes -> Seq(Requests)]
          /\ outlived' \in BOOLEAN /\ FrontStays
      BY <2>15 DEF TypeOK, RoomEnds
    <3> HIDE DEF c
    <3>9. QED
      BY <3>2, <3>3, <3>4, <3>5, <3>6, <3>7, <3>8, CompanionStepTyped
  <2>16. ASSUME NEW p \in Processes, Dies(p)
         PROVE  TypeOK'
    <3> DEFINE c == [companion[p] EXCEPT !.run = "exited", !.engine = NoSession,
                                         !.doing = "nothing", !.request = NoRequest,
                                         !.about = NoSession]
    <3> DEFINE lost(n) == IF n \in {companion[p].engine, companion[p].about}
                          THEN [rooms[n] EXCEPT !.seat = "lost"] ELSE rooms[n]
    <3>1. rooms' = [n \in DOMAIN rooms |-> lost(n)]
      BY <2>16 DEF Dies
    <3>2. \A n \in DOMAIN rooms : rooms[n] \in Seats
      BY DEF TypeOK
    <3>3. \A n \in DOMAIN rooms : lost(n) \in Seats
      BY <3>2 DEF Seats
    <3>4. rooms \in Seq(Seats) /\ Len(rooms) \in Nat /\ DOMAIN rooms = 1 .. Len(rooms)
      BY DEF TypeOK
    <3> HIDE DEF lost
    <3>5. /\ rooms' \in Seq(Seats)
          /\ Len(rooms') = Len(rooms) /\ Len(rooms) <= Len(rooms')
      BY <3>1, <3>3, <3>4
    <3>6. left' \in [Budgets -> Nat]
      BY <2>16, SpendTyped DEF TypeOK, Dies
    <3>7. c \in Companions
      BY DEF TypeOK, Companions
    <3>8. HoldsOne(c, Len(rooms'))
      BY <3>4, <3>5, <3>7 DEF HoldsOne, TypeOK, Companions
    <3>9. companion' = [companion EXCEPT ![p] = c]
      BY <2>16 DEF Dies
    <3>10. requests' \in [Processes -> Seq(Requests)]
      BY <2>16 DEF TypeOK, Dies
    <3>11. /\ words' \in [Processes -> Seq(Messages)]
           /\ outlived' \in BOOLEAN /\ FrontStays
      BY <2>16 DEF TypeOK, Dies
    <3> HIDE DEF c
    <3>12. QED
      BY <3>4, <3>5, <3>6, <3>7, <3>8, <3>9, <3>10, <3>11, CompanionStepTyped
  <2>17. CASE UNCHANGED vars
    BY <2>17 DEF TypeOK, vars
  <2>18. QED
    BY <2>1, <2>2, <2>3, <2>4, <2>5, <2>6, <2>7, <2>8, <2>9, <2>10, <2>11, <2>12,
       <2>13, <2>14, <2>15, <2>16, <2>17
       DEF Next, Person, System, AsksToHost, AsksToJoin, Front, Companion, Trouble
<1>3. QED
  BY <1>1, <1>2, PTL DEF Spec

(***************************************************************************)
(* No seat is forgotten.                                                   *)
(***************************************************************************)

(* What NoRoomIsForgotten asks of the process that took the seat s.        *)
Remembers(c, s) ==
    /\ c.run = "running"
    /\ c.engine = s \/ (c.doing = "closing" /\ c.about = s)

(* A step that changes one companion at most, and that leaves every seat   *)
(* it still holds remembered, keeps NoRoomIsForgotten.                     *)
LEMMA SeatsKept ==
    ASSUME TypeOK, NoRoomIsForgotten, NEW p \in Processes,
           \A q \in Processes \ {p} : companion'[q] = companion[q],
           \A s \in DOMAIN rooms' : rooms'[s].process \in Processes,
           \A s \in DOMAIN rooms' :
              rooms'[s].seat = "held" =>
                 IF rooms'[s].process = p THEN Remembers(companion'[p], s)
                 ELSE /\ s \in DOMAIN rooms /\ rooms[s].seat = "held"
                      /\ rooms'[s].process = rooms[s].process
    PROVE  NoRoomIsForgotten'
<1> SUFFICES ASSUME NEW s \in DOMAIN rooms', rooms'[s].seat = "held"
             PROVE  Remembers(companion'[rooms'[s].process], s)
  BY DEF NoRoomIsForgotten, Remembers
<1>1. CASE rooms'[s].process = p
  BY <1>1
<1>2. CASE rooms'[s].process # p
  <2>1. /\ s \in DOMAIN rooms /\ rooms[s].seat = "held"
        /\ rooms'[s].process = rooms[s].process
    BY <1>2
  <2>2. Remembers(companion[rooms[s].process], s)
    BY <2>1 DEF NoRoomIsForgotten, Remembers
  <2>3. companion'[rooms'[s].process] = companion[rooms[s].process]
    BY <1>2, <2>1
  <2>4. QED
    BY <2>1, <2>2, <2>3
<1>3. QED
  BY <1>1, <1>2

(* When a seat is given up, the others keep their takers and what became   *)
(* of them, and it is not held.                                            *)
LEMMA SeatGivenUp ==
    ASSUME rooms \in Seq(Seats), NEW s \in 0 .. Len(rooms),
           NEW seat \in {"closed", "left", "lost"}, SeatBecomes(s, seat)
    PROVE  /\ DOMAIN rooms' = DOMAIN rooms
           /\ \A n \in DOMAIN rooms :
                 /\ rooms'[n].process = rooms[n].process
                 /\ rooms'[n].role = rooms[n].role
                 /\ n # s => rooms'[n] = rooms[n]
                 /\ n = s => rooms'[n].seat = seat
                 /\ rooms[n].process \in Processes
<1>1. \A n \in DOMAIN rooms : rooms[n] \in Seats
  OBVIOUS
<1>2. \A n \in DOMAIN rooms : rooms[n].process \in Processes
  BY <1>1 DEF Seats
<1>3. CASE s = NoSession
  BY <1>2, <1>3 DEF SeatBecomes, NoSession
<1>4. CASE s # NoSession
  <2>1. rooms' = [rooms EXCEPT ![s].seat = seat]
    BY <1>4 DEF SeatBecomes
  <2>2. s \in DOMAIN rooms
    BY <1>4 DEF NoSession
  <2>3. rooms[s] \in Seats /\ [rooms[s] EXCEPT !.seat = seat] = rooms'[s]
    BY <2>1, <2>2
  <2>4. /\ rooms'[s].process = rooms[s].process /\ rooms'[s].role = rooms[s].role
        /\ rooms'[s].seat = seat
    BY <2>3 DEF Seats
  <2>5. QED
    BY <1>2, <2>1, <2>2, <2>4
<1>5. QED
  BY <1>3, <1>4

(* The seats one process holds are its session and the one it closes.      *)
LEMMA OwnSeats ==
    ASSUME TypeOK, NoRoomIsForgotten, NEW s \in DOMAIN rooms, rooms[s].seat = "held"
    PROVE  /\ Remembers(companion[rooms[s].process], s)
           /\ s # NoSession
           /\ rooms[s].process \in Processes
<1>1. rooms[s] \in Seats /\ s # NoSession
  BY DEF TypeOK, NoSession
<1>2. QED
  BY <1>1 DEF NoRoomIsForgotten, Remembers, Seats

(***************************************************************************)
(* A seat that is held is the session of the process that took it, or one  *)
(* that process is closing (SessionLifecycle!NoRoomIsForgotten).           *)
(***************************************************************************)
THEOREM SeatsAreRemembered == Spec => []NoRoomIsForgotten
<1>1. Init => NoRoomIsForgotten
  BY DEF Init, NoRoomIsForgotten
<1>2. TypeOK /\ NoRoomIsForgotten /\ [Next]_vars => NoRoomIsForgotten'
  <2> SUFFICES ASSUME TypeOK, NoRoomIsForgotten, [Next]_vars
               PROVE  NoRoomIsForgotten'
    OBVIOUS
  <2>t. /\ companion \in [Processes -> Companions]
        /\ rooms \in Seq(Seats)
        /\ \A q \in Processes : HoldsOne(companion[q], Len(rooms))
        /\ \A s \in DOMAIN rooms : rooms[s] \in Seats /\ rooms[s].process \in Processes
    <3>1. \A s \in DOMAIN rooms : rooms[s] \in Seats
      BY DEF TypeOK
    <3>2. \A seat \in Seats : seat.process \in Processes
      BY DEF Seats
    <3>3. QED
      BY <3>1, <3>2 DEF TypeOK
  <2>k. ASSUME rooms' = rooms, NEW p \in Processes,
               \A q \in Processes \ {p} : companion'[q] = companion[q],
               \A s \in Nat \ {NoSession} :
                  Remembers(companion[p], s) => Remembers(companion'[p], s)
        PROVE  NoRoomIsForgotten'
    <3>1. \A s \in DOMAIN rooms : s \in Nat \ {NoSession}
      BY <2>t DEF NoSession
    <3>2. QED
      BY <2>k, <2>t, <3>1, OwnSeats, SeatsKept
  <2>1. CASE AsksToHost \/ AsksToJoin \/ GivesNoName \/ Moves
    BY <2>1 DEF NoRoomIsForgotten, AsksToHost, AsksToJoin, Asks, GivesNoName, Moves
  <2>2. CASE GivesName
    <3>1. PICK p \in Processes : Ensure(p)
      BY <2>2 DEF GivesName
    <3>2. rooms' = rooms
      BY <2>2 DEF GivesName
    <3>3. \A q \in Processes \ {p} : companion'[q] = companion[q]
      BY <3>1, <2>t DEF Ensure
    <3>4. \A s \in Nat : Remembers(companion[p], s) => Remembers(companion'[p], s)
      BY <3>1, <2>t DEF Ensure, Remembers
    <3>5. QED
      BY <2>k, <3>2, <3>3, <3>4
  <2>3. CASE Leaves
    <3>1. CASE front.process \in Processes
      <4>1. \A q \in Processes \ {front.process} : companion'[q] = companion[q]
        BY <2>3, <2>t, <3>1 DEF Leaves
      <4>2. \A s \in Nat : Remembers(companion[front.process], s)
                            => Remembers(companion'[front.process], s)
        BY <2>3, <2>t, <3>1 DEF Leaves, Remembers, Companions
      <4>3. QED
        BY <2>3, <2>k, <3>1, <4>1, <4>2 DEF Leaves
    <3>2. CASE front.process \notin Processes
      BY <2>3, <2>t, <3>2 DEF Leaves, NoRoomIsForgotten
    <3>3. QED
      BY <3>1, <3>2
  <2>4. ASSUME NEW p \in Processes, FrontHears(p)
        PROVE  NoRoomIsForgotten'
    BY <2>4 DEF NoRoomIsForgotten, FrontHears
  <2>5. ASSUME NEW p \in Processes, FrontHearsExit(p)
        PROVE  NoRoomIsForgotten'
    <3>1. \A q \in Processes \ {p} : companion'[q] = companion[q]
      BY <2>5, <2>t DEF FrontHearsExit
    <3>2. \A s \in Nat : ~Remembers(companion[p], s)
      BY <2>5 DEF FrontHearsExit, Remembers
    <3>3. QED
      BY <2>5, <2>k, <3>1, <3>2 DEF FrontHearsExit
  <2>6. ASSUME NEW p \in Processes, Connect(p) \/ SettleEnds(p)
        PROVE  NoRoomIsForgotten'
    <3>1. rooms' = rooms /\ \A q \in Processes \ {p} : companion'[q] = companion[q]
      BY <2>6, <2>t DEF Connect, SettleEnds
    <3>2. ASSUME NEW s \in Nat \ {NoSession}, Remembers(companion[p], s)
          PROVE  Remembers(companion'[p], s)
      BY <2>6, <2>t, <3>2
         DEF Remembers, Companions, Connect, SettleEnds, NextRequest, Free
    <3>3. QED
      BY <2>k, <3>1, <3>2
  <2>7. ASSUME NEW p \in Processes, OpenFails(p)
        PROVE  NoRoomIsForgotten'
    <3>1. rooms' = rooms /\ \A q \in Processes \ {p} : companion'[q] = companion[q]
      BY <2>7, <2>t DEF OpenFails
    <3>2. \A s \in Nat \ {NoSession} : ~Remembers(companion[p], s)
      BY <2>7, <2>t DEF OpenFails, Remembers, HoldsOne
    <3>3. QED
      BY <2>k, <3>1, <3>2
  <2>8. ASSUME NEW p \in Processes, Opened(p)
        PROVE  NoRoomIsForgotten'
    <3> DEFINE n == Len(rooms) + 1
    <3> DEFINE seat == [process |-> p, role |-> companion[p].request.type,
                        root |-> companion[p].request.root, seat |-> "held"]
    <3>1. rooms' = Append(rooms, seat)
      BY <2>8 DEF Opened
    <3> HIDE DEF seat
    <3>2. /\ DOMAIN rooms' = DOMAIN rooms \cup {n}
          /\ \A s \in DOMAIN rooms : rooms'[s] = rooms[s]
          /\ rooms'[n] = seat /\ n # NoSession
      BY <2>t, <3>1 DEF NoSession
    <3>3. \A q \in Processes \ {p} : companion'[q] = companion[q]
      BY <2>8, <2>t DEF Opened
    <3>4. \A s \in DOMAIN rooms : s # NoSession => ~Remembers(companion[p], s)
      BY <2>8, <2>t DEF Opened, Remembers, HoldsOne
    <3>5. Remembers(companion'[p], n)
      BY <2>8, <2>t DEF Opened, Remembers, Running, Companions
    <3>6. \A s \in DOMAIN rooms : rooms[s].seat = "held" => rooms[s].process # p
      BY <3>4, OwnSeats
    <3>7. seat.process = p
      BY DEF seat
    <3>8. QED
      BY <2>t, <3>2, <3>3, <3>5, <3>6, <3>7, SeatsKept
  <2>9. ASSUME NEW p \in Processes, NEW s \in 0 .. Len(rooms),
               NEW seat \in {"closed", "left", "lost"}, SeatBecomes(s, seat),
               \A q \in Processes \ {p} : companion'[q] = companion[q],
               \A n \in DOMAIN rooms \ {s} :
                  n # NoSession /\ Remembers(companion[p], n) => Remembers(companion'[p], n)
        PROVE  NoRoomIsForgotten'
    <3>1. /\ DOMAIN rooms' = DOMAIN rooms
          /\ \A n \in DOMAIN rooms :
                /\ rooms'[n].process = rooms[n].process
                /\ n # s => rooms'[n] = rooms[n]
                /\ n = s => rooms'[n].seat = seat
      BY <2>9, <2>t, SeatGivenUp
    <3>2. \A n \in DOMAIN rooms :
             rooms'[n].seat = "held" => n # s /\ rooms[n].seat = "held"
      BY <3>1
    <3>3. QED
      BY <2>9, <2>t, <3>1, <3>2, OwnSeats, SeatsKept
  <2>10. ASSUME NEW p \in Processes, TakesLeave(p)
         PROVE  NoRoomIsForgotten'
    <3> DEFINE s == companion[p].engine
    <3>1. /\ s \in 0 .. Len(rooms)
          /\ companion[p].doing = "nothing"
          /\ \A q \in Processes \ {p} : companion'[q] = companion[q]
          /\ Running(p)
      BY <2>10, <2>t DEF TakesLeave, NextRequest, Free, HoldsOne
    <3>2. \A n : Remembers(companion[p], n) => n = s
      BY <3>1 DEF Remembers
    <3>3. CASE s # NoSession /\ rooms[s].role = "host"
      <4>1. Remembers(companion'[p], s) /\ rooms' = rooms
        BY <2>10, <2>t, <3>1, <3>3 DEF TakesLeave, Remembers, Running, Companions
      <4>2. QED
        BY <2>k, <3>1, <3>2, <4>1
    <3>4. CASE ~(s # NoSession /\ rooms[s].role = "host")
      <4>1. SeatBecomes(s, "left")
        BY <2>10, <3>4 DEF TakesLeave
      <4>2. QED
        BY <2>9, <3>1, <3>2, <4>1
    <3>5. QED
      BY <3>3, <3>4
  <2>11. ASSUME NEW p \in Processes, Closes(p)
         PROVE  NoRoomIsForgotten'
    <3> DEFINE s == companion[p].about
    <3>1. /\ s \in 0 .. Len(rooms)
          /\ companion[p].engine = NoSession
          /\ \A q \in Processes \ {p} : companion'[q] = companion[q]
      BY <2>11, <2>t DEF Closes, HoldsOne
    <3>2. \A n : n # NoSession /\ Remembers(companion[p], n) => n = s
      BY <3>1 DEF Remembers
    <3>3. SeatBecomes(s, "closed") \/ SeatBecomes(s, "lost")
      BY <2>11 DEF Closes
    <3>4. QED
      BY <2>9, <3>1, <3>2, <3>3
  <2>12. ASSUME NEW p \in Processes, StdinEnds(p) \/ RoomEnds(p)
         PROVE  NoRoomIsForgotten'
    <3> DEFINE s == companion[p].engine
    <3>1. /\ s \in 0 .. Len(rooms)
          /\ \A q \in Processes \ {p} : companion'[q] = companion[q]
          /\ companion[p].doing # "closing"
          /\ SeatBecomes(s, "left") \/ SeatBecomes(s, "lost")
      BY <2>12, <2>t DEF StdinEnds, RoomEnds, Free, LetsGo, HoldsOne
    <3>2. \A n : Remembers(companion[p], n) => n = s
      BY <3>1 DEF Remembers
    <3>3. QED
      BY <2>9, <3>1, <3>2
  <2>13. ASSUME NEW p \in Processes, Dies(p)
         PROVE  NoRoomIsForgotten'
    <3> DEFINE lost(n) == IF n \in {companion[p].engine, companion[p].about}
                          THEN [rooms[n] EXCEPT !.seat = "lost"] ELSE rooms[n]
    <3>1. rooms' = [n \in DOMAIN rooms |-> lost(n)]
      BY <2>13 DEF Dies
    <3>2. \A n \in DOMAIN rooms :
             /\ lost(n).process = rooms[n].process
             /\ lost(n).seat = "held" =>
                   /\ rooms[n].seat = "held"
                   /\ n # companion[p].engine /\ n # companion[p].about
      BY <2>t DEF Seats
    <3> HIDE DEF lost
    <3>3. \A q \in Processes \ {p} : companion'[q] = companion[q]
      BY <2>13, <2>t DEF Dies
    <3>4. \A n \in DOMAIN rooms :
             lost(n).seat = "held" => rooms[n].process # p
      BY <3>2, OwnSeats DEF Remembers
    <3>5. QED
      BY <2>t, <3>1, <3>2, <3>3, <3>4, SeatsKept
  <2>14. CASE UNCHANGED vars
    BY <2>14 DEF NoRoomIsForgotten, vars
  <2>15. QED
    BY <2>1, <2>2, <2>3, <2>4, <2>5, <2>6, <2>7, <2>8, <2>10, <2>11, <2>12, <2>13, <2>14
       DEF Next, Person, System, Front, Companion, Trouble
<1>3. QED
  BY <1>1, <1>2, TypeCorrect, PTL DEF Spec

(***************************************************************************)
(* A host that leaves closes its room.                                     *)
(***************************************************************************)

(* The requests of a companion end with a `leave`.                         *)
EndsWithLeave(p) ==
    requests[p] # <<>> /\ requests[p][Len(requests[p])].type = "leave"

(* A process in use is running and its stdin is open; one whose stdin is   *)
(* closed was told to leave before, and holds nothing once that is read.   *)
LeavesFirst(p) ==
    /\ front.process = p => companion[p].stdin /\ companion[p].run # "unstarted"
    /\ companion[p].run = "unstarted" => companion[p].stdin
    /\ companion[p].run = "running" /\ ~companion[p].stdin =>
          \/ EndsWithLeave(p)
          \/ /\ companion[p].engine = NoSession
             /\ companion[p].doing \in {"nothing", "closing"}
             /\ requests[p] = <<>>

AllLeaveFirst == \A p \in Processes : LeavesFirst(p)

(* A step that touches one companion, and that one in order, keeps all so. *)
LEMMA OthersLeaveFirst ==
    ASSUME AllLeaveFirst, NEW p \in Processes,
           \A q \in Processes \ {p} :
              /\ companion'[q] = companion[q]
              /\ requests'[q] = requests[q]
              /\ front'.process = q => front.process = q,
           LeavesFirst(p)'
    PROVE  AllLeaveFirst'
<1> SUFFICES ASSUME NEW q \in Processes
             PROVE  LeavesFirst(q)'
  BY DEF AllLeaveFirst
<1>1. CASE q = p
  BY <1>1
<1>2. CASE q # p
  <2>1. LeavesFirst(q)
    BY DEF AllLeaveFirst
  <2>2. /\ companion'[q] = companion[q] /\ requests'[q] = requests[q]
        /\ front'.process = q => front.process = q
    BY <1>2
  <2>3. QED
    BY <2>1, <2>2 DEF LeavesFirst, EndsWithLeave
<1>3. QED
  BY <1>1, <1>2

(* Requests that end with a `leave` do so when another is taken before it. *)
LEMMA LeaveStays ==
    ASSUME requests \in [Processes -> Seq(Requests)], NEW p \in Processes,
           EndsWithLeave(p), NEW rest, rest = Tail(requests[p])
    PROVE  \/ rest = <<>> /\ Head(requests[p]).type = "leave"
           \/ rest # <<>> /\ rest[Len(rest)].type = "leave"
<1>1. requests[p] \in Seq(Requests) /\ requests[p] # <<>>
  BY DEF EndsWithLeave
<1>2. PICK n \in Nat \ {0} : n = Len(requests[p])
  BY <1>1, EmptySeq
<1>3. /\ rest \in Seq(Requests) /\ Len(rest) = n - 1
      /\ \A i \in 1 .. Len(rest) : rest[i] = requests[p][i + 1]
  BY <1>1, <1>2, HeadTailProperties
<1>4. requests[p][n].type = "leave"
  BY <1>2 DEF EndsWithLeave
<1>5. CASE n = 1
  <2>1. Head(requests[p]) = requests[p][1]
    BY <1>1
  <2>2. rest = <<>>
    BY <1>3, <1>5, EmptySeq
  <2>3. QED
    BY <1>4, <1>5, <2>1, <2>2
<1>6. CASE n > 1
  <2>1. n - 1 \in 1 .. Len(rest) /\ (n - 1) + 1 = n
    BY <1>3, <1>6
  <2>2. rest[n - 1] = requests[p][n]
    BY <1>3, <2>1
  <2>3. rest # <<>>
    <3>1. rest = <<>> => Len(rest) = 0
      BY EmptySeq
    <3>2. n - 1 # 0
      BY <1>6
    <3>3. QED
      BY <1>3, <3>1, <3>2
  <2>4. QED
    BY <1>3, <1>4, <2>2, <2>3
<1>7. QED
  BY <1>5, <1>6

(* Sending a `leave` leaves the requests ending with it.                   *)
LEMMA LeaveSent ==
    ASSUME requests \in [Processes -> Seq(Requests)], NEW p \in Processes,
           requests' = [requests EXCEPT ![p] = Append(@, [type |-> "leave"])]
    PROVE  EndsWithLeave(p)'
<1>1. requests[p] \in Seq(Requests) /\ requests'[p] = Append(requests[p], [type |-> "leave"])
  OBVIOUS
<1>2. /\ Len(requests'[p]) = Len(requests[p]) + 1 /\ requests'[p] # <<>>
      /\ requests'[p][Len(requests'[p])] = [type |-> "leave"]
  BY <1>1
<1>3. QED
  BY <1>2 DEF EndsWithLeave

(* A companion whose stdin is closed was told to leave first.              *)
LEMMA LeaveComesFirst == Spec => []AllLeaveFirst
<1>1. Init => AllLeaveFirst
  BY DEF Init, AllLeaveFirst, LeavesFirst, NoProcess, Processes
<1>2. TypeOK /\ AllLeaveFirst /\ [Next]_vars => AllLeaveFirst'
  <2> SUFFICES ASSUME TypeOK, AllLeaveFirst, [Next]_vars
               PROVE  AllLeaveFirst'
    OBVIOUS
  <2>t. /\ companion \in [Processes -> Companions]
        /\ requests \in [Processes -> Seq(Requests)]
        /\ front \in Fronts
        /\ \A q \in Processes : LeavesFirst(q)
    BY DEF TypeOK, AllLeaveFirst
  <2>z. NoProcess \notin Processes
    BY DEF NoProcess, Processes
  <2>1. ASSUME NEW what \in {"host", "join"}, Asks(what)
        PROVE  AllLeaveFirst'
    <3>1. front'.process = front.process /\ companion' = companion
      BY <2>1, <2>t DEF Asks, Reset, Fronts
    <3>2. CASE InSession /\ front.process \in Processes
      <4>1. requests' = [requests EXCEPT ![front.process] = Append(@, [type |-> "leave"])]
        BY <2>1, <3>2 DEF Asks
      <4>2. LeavesFirst(front.process)'
        BY <2>t, <3>1, <3>2, <4>1 DEF LeavesFirst
      <4>3. QED
        BY <2>t, <3>1, <3>2, <4>1, <4>2, OthersLeaveFirst
    <3>3. CASE ~(InSession /\ front.process \in Processes)
      <4>1. requests' = requests
        BY <2>1, <2>t, <3>3 DEF Asks
      <4>2. QED
        BY <2>t, <3>1, <4>1 DEF AllLeaveFirst, LeavesFirst, EndsWithLeave
    <3>4. QED
      BY <3>2, <3>3
  <2>2. CASE GivesName
    <3>1. PICK p \in Processes :
             /\ Ensure(p)
             /\ front' = Named(p)
             /\ requests' = [requests EXCEPT ![p] =
                                Append(@, [type |-> front.asking.type, root |-> cwd])]
      BY <2>2 DEF GivesName
    <3>2. front'.process = p
      BY <2>t, <3>1 DEF Named, Fronts
    <3>3. \A q \in Processes \ {p} :
             companion'[q] = companion[q] /\ requests'[q] = requests[q]
      BY <2>t, <3>1 DEF Ensure
    <3>4. companion'[p].stdin /\ companion'[p].run # "unstarted"
      <4>1. LeavesFirst(p)
        BY <2>t
      <4>2. CASE front.process # NoProcess
        BY <3>1, <4>1, <4>2 DEF Ensure, LeavesFirst
      <4>3. CASE front.process = NoProcess
        <5>1. companion[p].run = "unstarted" /\ companion[p].stdin
          BY <3>1, <4>1, <4>3 DEF Ensure, LeavesFirst
        <5>2. companion'[p] = [companion[p] EXCEPT !.run = "running"]
          BY <2>t, <3>1, <4>3 DEF Ensure
        <5>3. companion[p] \in Companions
          BY <2>t
        <5>4. QED
          BY <5>1, <5>2, <5>3 DEF Companions
      <4>4. QED
        BY <4>2, <4>3
    <3>5. LeavesFirst(p)'
      BY <3>4 DEF LeavesFirst
    <3>6. QED
      BY <3>2, <3>3, <3>5, OthersLeaveFirst
  <2>3. CASE Leaves
    <3>1. front'.process = NoProcess
      BY <2>3, <2>t DEF Leaves, Reset, Fronts
    <3>2. ASSUME NEW p \in Processes, front.process = p
          PROVE  AllLeaveFirst'
      <4>1. requests' = [requests EXCEPT ![p] = Append(@, [type |-> "leave"])]
        BY <2>3, <3>2 DEF Leaves
      <4>2. EndsWithLeave(p)'
        BY <2>t, <4>1, LeaveSent
      <4>3. companion' = [companion EXCEPT ![p].stdin = FALSE]
        BY <2>3, <3>2 DEF Leaves
      <4>4. companion'[p].run # "unstarted"
        BY <2>t, <3>2, <4>3 DEF LeavesFirst, Companions
      <4>5. LeavesFirst(p)'
        BY <2>z, <3>1, <4>2, <4>4 DEF LeavesFirst
      <4>6. QED
        BY <2>z, <2>t, <3>1, <4>1, <4>3, <4>5, OthersLeaveFirst
    <3>3. CASE front.process \notin Processes
      <4>1. companion' = companion /\ requests' = requests
        BY <2>3, <2>t, <3>3 DEF Leaves
      <4>2. QED
        BY <2>t, <2>z, <3>1, <4>1 DEF AllLeaveFirst, LeavesFirst, EndsWithLeave
    <3>4. QED
      BY <3>2, <3>3
  <2>4. CASE GivesNoName \/ Moves
    <3>1. /\ front'.process = front.process
          /\ UNCHANGED <<companion, requests>>
      BY <2>4, <2>t DEF GivesNoName, Moves, Fronts
    <3>2. QED
      BY <2>t, <3>1 DEF AllLeaveFirst, LeavesFirst, EndsWithLeave
  <2>5. ASSUME NEW p \in Processes, FrontHears(p)
        PROVE  AllLeaveFirst'
    <3>1. front'.process = front.process
      <4>1. words[p] \in Seq(Messages) /\ words[p] # <<>>
        BY <2>5 DEF TypeOK, FrontHears
      <4>2. Head(words[p]) \in Messages
        BY <4>1
      <4>3. \A message \in Messages : OnMessage(message).process = front.process
        BY <2>t DEF Messages, OnMessage, OnStatus, Reset, Fronts
      <4>4. QED
        BY <2>5, <4>2, <4>3 DEF FrontHears
    <3>2. UNCHANGED <<companion, requests>>
      BY <2>5 DEF FrontHears
    <3>3. QED
      BY <2>t, <3>1, <3>2 DEF AllLeaveFirst, LeavesFirst, EndsWithLeave
  <2>6. ASSUME NEW p \in Processes, FrontHearsExit(p)
        PROVE  AllLeaveFirst'
    <3>1. \A q \in Processes \ {p} :
             companion'[q] = companion[q] /\ requests'[q] = requests[q]
      BY <2>6, <2>t DEF FrontHearsExit
    <3>2. front'.process = IF front.process = p THEN NoProcess ELSE front.process
      BY <2>6, <2>t DEF FrontHearsExit, Reset, Fronts
    <3>3. companion'[p].run = "gone"
      BY <2>6, <2>t DEF FrontHearsExit, Companions
    <3>4. LeavesFirst(p)'
      BY <2>z, <3>2, <3>3 DEF LeavesFirst
    <3>5. QED
      BY <2>z, <3>1, <3>2, <3>4, OthersLeaveFirst
  <2>7. ASSUME NEW p \in Processes, FrontStays,
               \A q \in Processes \ {p} :
                  companion'[q] = companion[q] /\ requests'[q] = requests[q],
               companion'[p].stdin = companion[p].stdin,
               companion'[p].run = companion[p].run,
               companion[p].run = "running" /\ ~companion[p].stdin =>
                  \/ EndsWithLeave(p)'
                  \/ /\ companion'[p].engine = NoSession
                     /\ companion'[p].doing \in {"nothing", "closing"}
                     /\ requests'[p] = <<>>
        PROVE  AllLeaveFirst'
    <3>1. LeavesFirst(p)'
      BY <2>7, <2>t DEF LeavesFirst, FrontStays
    <3>2. QED
      BY <2>7, <3>1, OthersLeaveFirst DEF FrontStays
  <2>8. ASSUME NEW p \in Processes, Connect(p)
        PROVE  AllLeaveFirst'
    <3>1. /\ requests'[p] = Tail(requests[p]) /\ requests[p] # <<>>
          /\ Head(requests[p]).type # "leave"
          /\ \A q \in Processes \ {p} :
                companion'[q] = companion[q] /\ requests'[q] = requests[q]
          /\ companion'[p].stdin = companion[p].stdin
          /\ companion'[p].run = companion[p].run
          /\ FrontStays
      BY <2>8, <2>t DEF Connect, NextRequest, Companions
    <3>2. companion[p].run = "running" /\ ~companion[p].stdin => EndsWithLeave(p)
      BY <2>t, <3>1 DEF LeavesFirst
    <3>3. EndsWithLeave(p) => EndsWithLeave(p)'
      BY <2>t, <3>1, LeaveStays DEF EndsWithLeave
    <3>4. QED
      BY <2>7, <3>1, <3>2, <3>3
  <2>9. ASSUME NEW p \in Processes, TakesLeave(p)
        PROVE  AllLeaveFirst'
    <3>1. /\ requests'[p] = Tail(requests[p]) /\ requests[p] # <<>>
          /\ \A q \in Processes \ {p} :
                companion'[q] = companion[q] /\ requests'[q] = requests[q]
          /\ companion'[p].stdin = companion[p].stdin
          /\ companion'[p].run = companion[p].run
          /\ FrontStays
      BY <2>9, <2>t DEF TakesLeave, NextRequest, Companions
    <3>2. /\ companion'[p].engine = NoSession
          /\ companion'[p].doing \in {"nothing", "closing"}
      BY <2>9, <2>t DEF TakesLeave, NextRequest, Free, Companions
    <3>3. companion[p].run = "running" /\ ~companion[p].stdin => EndsWithLeave(p)
      BY <2>t, <3>1 DEF LeavesFirst
    <3>4. EndsWithLeave(p) => EndsWithLeave(p)' \/ requests'[p] = <<>>
      BY <2>t, <3>1, LeaveStays DEF EndsWithLeave
    <3>5. QED
      BY <2>7, <3>1, <3>2, <3>3, <3>4
  <2>10. ASSUME NEW p \in Processes,
                Opened(p) \/ SettleEnds(p) \/ Closes(p) \/ OpenFails(p) \/ RoomEnds(p)
         PROVE  AllLeaveFirst'
    <3>1. /\ requests' = requests
          /\ \A q \in Processes \ {p} : companion'[q] = companion[q]
          /\ companion'[p].stdin = companion[p].stdin
          /\ companion'[p].run = companion[p].run
          /\ FrontStays
      <4>1. CASE Opened(p)
        BY <4>1, <2>t DEF Opened, Companions
      <4>2. CASE SettleEnds(p) \/ Closes(p)
        BY <4>2, <2>t DEF SettleEnds, Closes, Companions
      <4>3. CASE OpenFails(p) \/ RoomEnds(p)
        BY <4>3, <2>t DEF OpenFails, RoomEnds, Companions
      <4>4. QED
        BY <2>10, <4>1, <4>2, <4>3
    <3>2. /\ companion[p].engine = NoSession
          /\ companion[p].doing \in {"nothing", "closing"}
          => /\ companion'[p].engine = NoSession
             /\ companion'[p].doing \in {"nothing", "closing"}
      <4>1. CASE Opened(p)
        BY <4>1, <2>t DEF Opened, Companions
      <4>2. CASE SettleEnds(p) \/ Closes(p)
        BY <4>2, <2>t DEF SettleEnds, Closes, Companions
      <4>3. CASE OpenFails(p) \/ RoomEnds(p)
        BY <4>3, <2>t DEF OpenFails, RoomEnds, Companions
      <4>4. QED
        BY <2>10, <4>1, <4>2, <4>3
    <3>3. QED
      BY <2>7, <2>t, <3>1, <3>2 DEF LeavesFirst, EndsWithLeave
  <2>11. ASSUME NEW p \in Processes, StdinEnds(p) \/ Dies(p)
         PROVE  AllLeaveFirst'
    <3>1. /\ \A q \in Processes \ {p} :
                companion'[q] = companion[q] /\ requests'[q] = requests[q]
          /\ companion'[p].stdin = companion[p].stdin
          /\ companion'[p].run = "exited"
          /\ front' = front
      BY <2>11, <2>t DEF StdinEnds, Dies, LetsGo, FrontStays, Companions
    <3>2. LeavesFirst(p)'
      BY <2>t, <3>1 DEF LeavesFirst
    <3>3. QED
      BY <3>1, <3>2, OthersLeaveFirst
  <2>12. CASE UNCHANGED vars
    BY <2>12 DEF AllLeaveFirst, LeavesFirst, EndsWithLeave, vars
  <2>13. QED
    BY <2>1, <2>2, <2>3, <2>4, <2>5, <2>6, <2>8, <2>9, <2>10, <2>11, <2>12
       DEF Next, Person, System, AsksToHost, AsksToJoin, Front, Companion, Trouble
<1>3. QED
  BY <1>1, <1>2, TypeCorrect, PTL DEF Spec

(***************************************************************************)
(* A host that leaves closes its room, or loses it: it is never merely     *)
(* disconnected from (SessionLifecycle!HostsCloseTheirRooms).              *)
(***************************************************************************)
THEOREM HostsClose == Spec => []HostsCloseTheirRooms
<1>1. Init => HostsCloseTheirRooms
  BY DEF Init, HostsCloseTheirRooms
<1>2. TypeOK /\ AllLeaveFirst /\ HostsCloseTheirRooms /\ [Next]_vars
        => HostsCloseTheirRooms'
  <2> SUFFICES ASSUME TypeOK, AllLeaveFirst, HostsCloseTheirRooms, [Next]_vars
               PROVE  HostsCloseTheirRooms'
    OBVIOUS
  <2>1. CASE UNCHANGED rooms
    BY <2>1 DEF HostsCloseTheirRooms
  <2>2. ASSUME NEW p \in Processes, Opened(p)
        PROVE  HostsCloseTheirRooms'
    <3> DEFINE seat == [process |-> p, role |-> companion[p].request.type,
                        root |-> companion[p].request.root, seat |-> "held"]
    <3>1. rooms' = Append(rooms, seat) /\ seat.seat = "held"
      BY <2>2 DEF Opened
    <3>2. rooms \in Seq(Seats)
      BY DEF TypeOK
    <3> HIDE DEF seat
    <3>3. \A s \in DOMAIN rooms' :
             (s \in DOMAIN rooms /\ rooms'[s] = rooms[s]) \/ rooms'[s] = seat
      BY <3>1, <3>2
    <3>4. QED
      BY <3>1, <3>3 DEF HostsCloseTheirRooms
  <2>3. ASSUME NEW s \in 0 .. Len(rooms), NEW seat \in {"closed", "left", "lost"},
               SeatBecomes(s, seat),
               s # NoSession /\ seat = "left" => rooms[s].role # "host"
        PROVE  HostsCloseTheirRooms'
    <3>1. rooms \in Seq(Seats)
      BY DEF TypeOK
    <3>2. \A n \in DOMAIN rooms : n # NoSession
      BY <3>1 DEF NoSession
    <3>3. /\ DOMAIN rooms' = DOMAIN rooms
          /\ \A n \in DOMAIN rooms :
                /\ rooms'[n].role = rooms[n].role
                /\ n # s => rooms'[n] = rooms[n]
                /\ n = s => rooms'[n].seat = seat
      BY <2>3, <3>1, SeatGivenUp
    <3>4. QED
      BY <2>3, <3>2, <3>3 DEF HostsCloseTheirRooms
  <2>4. \A p \in Processes : /\ companion[p].engine \in 0 .. Len(rooms)
                             /\ companion[p].about \in 0 .. Len(rooms)
    BY DEF TypeOK, HoldsOne
  <2>5. ASSUME NEW p \in Processes, TakesLeave(p)
        PROVE  HostsCloseTheirRooms'
    <3> DEFINE s == companion[p].engine
    <3>1. CASE s # NoSession /\ rooms[s].role = "host"
      BY <2>1, <2>5, <3>1 DEF TakesLeave
    <3>2. CASE ~(s # NoSession /\ rooms[s].role = "host")
      <4>1. SeatBecomes(s, "left")
        BY <2>5, <3>2 DEF TakesLeave
      <4>2. QED
        BY <2>3, <2>4, <3>2, <4>1
    <3>3. QED
      BY <3>1, <3>2
  <2>6. ASSUME NEW p \in Processes, Closes(p) \/ RoomEnds(p)
        PROVE  HostsCloseTheirRooms'
    <3>1. \/ SeatBecomes(companion[p].about, "closed")
          \/ SeatBecomes(companion[p].about, "lost")
          \/ SeatBecomes(companion[p].engine, "lost")
      BY <2>6 DEF Closes, RoomEnds
    <3>2. QED
      BY <2>3, <2>4, <3>1
  <2>7. ASSUME NEW p \in Processes, StdinEnds(p)
        PROVE  HostsCloseTheirRooms'
    <3>1. companion[p].engine = NoSession
      <4>1. LeavesFirst(p)
        BY DEF AllLeaveFirst
      <4>2. QED
        BY <2>7, <4>1 DEF LeavesFirst, EndsWithLeave, StdinEnds, Free, Running
    <3>2. UNCHANGED rooms
      BY <2>7, <3>1 DEF StdinEnds, LetsGo, SeatBecomes
    <3>3. QED
      BY <2>1, <3>2
  <2>8. ASSUME NEW p \in Processes, Dies(p)
        PROVE  HostsCloseTheirRooms'
    <3>1. \A n \in DOMAIN rooms : rooms[n] \in Seats
      BY DEF TypeOK
    <3>2. DOMAIN rooms' = DOMAIN rooms
      BY <2>8 DEF Dies
    <3>3. \A n \in DOMAIN rooms :
             rooms'[n] = rooms[n] \/ rooms'[n] = [rooms[n] EXCEPT !.seat = "lost"]
      BY <2>8 DEF Dies
    <3>4. \A n \in DOMAIN rooms :
             rooms'[n] = rooms[n] \/ rooms'[n].seat = "lost"
      BY <3>1, <3>3 DEF Seats
    <3>5. QED
      BY <3>2, <3>4 DEF HostsCloseTheirRooms
  <2>9. CASE Person \/ UNCHANGED vars
    BY <2>1, <2>9 DEF Person, AsksToHost, AsksToJoin, Asks, GivesName, GivesNoName,
                      Leaves, Moves, vars
  <2>10. ASSUME NEW p \in Processes,
                FrontHears(p) \/ FrontHearsExit(p) \/ Connect(p) \/ SettleEnds(p)
                  \/ OpenFails(p)
         PROVE  HostsCloseTheirRooms'
    BY <2>1, <2>10 DEF FrontHears, FrontHearsExit, Connect, SettleEnds, OpenFails
  <2>11. QED
    BY <2>2, <2>5, <2>6, <2>7, <2>8, <2>9, <2>10
       DEF Next, System, Front, Companion, Trouble
<1>3. QED
  BY <1>1, <1>2, TypeCorrect, LeaveComesFirst, PTL DEF Spec

(***************************************************************************)
(* Once everything is said, the two processes agree.  What the front-end   *)
(* will stand in is told by the words on their way: a session it has left  *)
(* may still be heard of, and a `leave` on its way makes the rest moot.    *)
(***************************************************************************)

(* What the front-end takes from its companion: the status, and the        *)
(* session whose reports are shown.                                        *)
States == [status : Statuses, shown : Nat]

Stands == [status |-> front.status, shown |-> front.shown]

Fresh == [status |-> "idle", shown |-> NoSession]

(* `on_message`, of a front-end that stands anywhere.                      *)
Heard(state, message) ==
    CASE message.type = "status" ->
            IF message.state = "idle" THEN Fresh ELSE [state EXCEPT !.status = message.state]
      [] message.type = "over" -> Fresh
      [] message.type = "report" -> [state EXCEPT !.shown = message.session]
      [] message.type = "refused" -> state

(* Hearing what was said leads from one standing to another.               *)
Leads(from, said, to) ==
    \E trail \in [0 .. Len(said) -> States] :
        /\ trail[0] = from /\ trail[Len(said)] = to
        /\ \A i \in 1 .. Len(said) : trail[i] = Heard(trail[i - 1], said[i])

(* Where nothing is said, the front-end stands where it does.              *)
LEMMA NothingSaid == ASSUME NEW from \in States PROVE Leads(from, <<>>, from)
<1> DEFINE trail == [i \in 0 .. 0 |-> from]
<1>1. Len(<<>>) = 0 /\ 1 .. 0 = {}
  OBVIOUS
<1>2. trail \in [0 .. 0 -> States] /\ trail[0] = from
  OBVIOUS
<1> HIDE DEF trail
<1>3. QED
  BY <1>1, <1>2 DEF Leads

(* A word leads from one standing to another.                              *)
LEMMA HeardTyped ==
    ASSUME NEW state \in States, NEW message \in Messages
    PROVE  Heard(state, message) \in States
<1>1. CASE message \in [type : {"status"}, state : Statuses]
  BY <1>1 DEF Heard, Fresh, States, Statuses, NoSession
<1>2. CASE message \in [type : {"refused", "over"}]
  BY <1>2 DEF Heard, Fresh, States, Statuses, NoSession
<1>3. CASE message \in [type : {"report"}, session : Nat]
  BY <1>3 DEF Heard, States
<1>4. QED
  BY <1>1, <1>2, <1>3 DEF Messages

(* The last word is heard where the ones before it lead.                   *)
LEMMA LastWord ==
    ASSUME NEW from, NEW to, NEW said \in Seq(Messages), NEW message \in Messages,
           Leads(from, said \o <<message>>, to)
    PROVE  \E between \in States :
              Leads(from, said, between) /\ to = Heard(between, message)
<1>1. PICK n \in Nat : n = Len(said)
  OBVIOUS
<1>2. PICK more \in Seq(Messages) : more = said \o <<message>>
  <2>1. said \o <<message>> \in Seq(Messages)
    OBVIOUS
  <2>2. QED
    BY <2>1
<1>3. /\ Len(more) = n + 1 /\ more[n + 1] = message
      /\ \A i \in 1 .. n : more[i] = said[i]
  BY <1>1, <1>2
<1>4. PICK trail \in [0 .. n + 1 -> States] :
         /\ trail[0] = from /\ trail[n + 1] = to
         /\ \A i \in 1 .. n + 1 : trail[i] = Heard(trail[i - 1], more[i])
  BY <1>2, <1>3 DEF Leads
<1> DEFINE short == [i \in 0 .. n |-> trail[i]]
<1>5. /\ short \in [0 .. n -> States]
      /\ short[0] = from /\ short[n] = trail[n]
      /\ \A i \in 1 .. n : short[i] = trail[i] /\ short[i - 1] = trail[i - 1]
  BY <1>4
<1> HIDE DEF short
<1>6. \A i \in 1 .. n : short[i] = Heard(short[i - 1], said[i])
  BY <1>3, <1>4, <1>5
<1>7. Leads(from, said, trail[n])
  BY <1>1, <1>5, <1>6 DEF Leads
<1>8. to = Heard(trail[n], message) /\ trail[n] \in States
  <2>1. n + 1 \in 1 .. n + 1 /\ (n + 1) - 1 = n
    OBVIOUS
  <2>2. QED
    BY <1>3, <1>4, <2>1
<1>9. QED
  BY <1>7, <1>8

(* Hearing the first word leaves the end as it was.                        *)
LEMMA FirstWord ==
    ASSUME NEW from \in States, NEW to, NEW said \in Seq(Messages), said # <<>>,
           Leads(Heard(from, Head(said)), Tail(said), to)
    PROVE  Leads(from, said, to)
<1>1. PICK n \in Nat \ {0} : n = Len(said)
  BY EmptySeq
<1>2. PICK rest \in Seq(Messages) : rest = Tail(said)
  <2>1. Tail(said) \in Seq(Messages)
    OBVIOUS
  <2>2. QED
    BY <2>1
<1>3. /\ Len(rest) = n - 1 /\ Head(said) = said[1]
      /\ \A i \in 1 .. n - 1 : rest[i] = said[i + 1]
  BY <1>1, <1>2, HeadTailProperties
<1>4. PICK trail \in [0 .. n - 1 -> States] :
         /\ trail[0] = Heard(from, said[1]) /\ trail[n - 1] = to
         /\ \A i \in 1 .. n - 1 : trail[i] = Heard(trail[i - 1], rest[i])
  BY <1>2, <1>3 DEF Leads
<1> DEFINE long == [i \in 0 .. n |-> IF i = 0 THEN from ELSE trail[i - 1]]
<1>5. long \in [0 .. n -> States]
  <2>1. \A i \in 0 .. n : i # 0 => i - 1 \in 0 .. n - 1
    OBVIOUS
  <2>2. QED
    BY <1>4, <2>1
<1>6. long[0] = from /\ \A i \in 1 .. n : long[i] = trail[i - 1]
  OBVIOUS
<1> HIDE DEF long
<1>7. \A i \in 1 .. n : long[i] = Heard(long[i - 1], said[i])
  <2> TAKE i \in 1 .. n
  <2>1. CASE i = 1
    BY <1>4, <1>6, <2>1
  <2>2. CASE i # 1
    <3>1. i - 1 \in 1 .. n - 1 /\ i - 1 \in 1 .. n /\ (i - 1) + 1 = i
      BY <2>2
    <3>2. trail[i - 1] = Heard(trail[i - 1 - 1], rest[i - 1]) /\ rest[i - 1] = said[i]
      BY <1>3, <1>4, <3>1
    <3>3. QED
      BY <1>6, <3>1, <3>2
  <2>3. QED
    BY <2>1, <2>2
<1>8. long[n] = to
  BY <1>4, <1>6
<1>9. QED
  BY <1>1, <1>5, <1>6, <1>7, <1>8 DEF Leads

(***************************************************************************)
(* Steps of one companion.                                                 *)
(***************************************************************************)

(* A seat keeps its role and its folder.                                   *)
SeatsStay ==
    \A s \in DOMAIN rooms :
        /\ s \in DOMAIN rooms'
        /\ rooms'[s].role = rooms[s].role /\ rooms'[s].root = rooms[s].root

(* A step of one companion, which runs or has just stopped.                *)
OneMoves(p) ==
    /\ FrontStays
    /\ Running(p) /\ companion'[p].run \in {"running", "exited"}
    /\ companion'[p].stdin = companion[p].stdin
    /\ \A q \in Processes \ {p} :
          /\ companion'[q] = companion[q]
          /\ requests'[q] = requests[q] /\ words'[q] = words[q]
    /\ SeatsStay
    /\ outlived => outlived'

(* A seat that changes stays the same seat.                                *)
LEMMA SeatStays ==
    ASSUME rooms \in Seq(Seats), NEW s, NEW seat, SeatBecomes(s, seat)
    PROVE  SeatsStay
<1>1. CASE s = NoSession
  BY <1>1 DEF SeatBecomes, SeatsStay
<1>2. CASE s # NoSession
  <2>1. rooms' = [rooms EXCEPT ![s].seat = seat]
    BY <1>2 DEF SeatBecomes
  <2>2. \A n \in DOMAIN rooms : rooms[n] \in Seats
    OBVIOUS
  <2>3. DOMAIN rooms' = DOMAIN rooms
    BY <2>1
  <2>4. \A n \in DOMAIN rooms :
           rooms'[n] = rooms[n] \/ rooms'[n] = [rooms[n] EXCEPT !.seat = seat]
    BY <2>1
  <2>5. QED
    BY <2>2, <2>3, <2>4 DEF SeatsStay, Seats
<1>3. QED
  BY <1>1, <1>2

(* What a companion does changes its own state, and the seats it has.      *)
LEMMA CompanionMoves ==
    ASSUME TypeOK, NEW p \in Processes, Companion(p) \/ Trouble(p)
    PROVE  OneMoves(p)
<1>1. /\ companion \in [Processes -> Companions]
      /\ requests \in [Processes -> Seq(Requests)]
      /\ words \in [Processes -> Seq(Messages)]
      /\ rooms \in Seq(Seats)
  BY DEF TypeOK
<1>s. rooms' = rooms => SeatsStay
  BY DEF SeatsStay
<1>2. CASE Connect(p)
  BY <1>1, <1>2, <1>s DEF Connect, NextRequest, Free, Running, Say, OneMoves, Companions
<1>3. CASE Opened(p)
  <2>1. PICK seat : rooms' = Append(rooms, seat)
    BY <1>3 DEF Opened
  <2>2. SeatsStay
    BY <1>1, <2>1 DEF SeatsStay
  <2>3. QED
    BY <1>1, <1>3, <2>2 DEF Opened, Running, Say, OneMoves, Companions
<1>4. CASE SettleEnds(p)
  BY <1>1, <1>4, <1>s DEF SettleEnds, Running, Say, OneMoves, Companions
<1>5. CASE TakesLeave(p)
  <2>1. SeatsStay
    BY <1>1, <1>5, <1>s, SeatStays DEF TakesLeave
  <2>2. QED
    BY <1>1, <1>5, <2>1 DEF TakesLeave, NextRequest, Free, Running, Say, OneMoves, Companions
<1>6. CASE Closes(p)
  <2>1. SeatsStay
    BY <1>1, <1>6, SeatStays DEF Closes
  <2>2. QED
    BY <1>1, <1>6, <2>1 DEF Closes, Running, Say, OneMoves, Companions
<1>7. CASE StdinEnds(p)
  <2>1. SeatsStay
    BY <1>1, <1>7, SeatStays DEF StdinEnds, LetsGo
  <2>2. QED
    BY <1>1, <1>7, <2>1 DEF StdinEnds, LetsGo, Free, Running, Say, OneMoves, Companions
<1>8. CASE OpenFails(p)
  BY <1>1, <1>8, <1>s DEF OpenFails, Running, Say, OneMoves, Companions
<1>9. CASE RoomEnds(p)
  <2>1. SeatsStay
    BY <1>1, <1>9, SeatStays DEF RoomEnds
  <2>2. QED
    BY <1>1, <1>9, <2>1 DEF RoomEnds, Running, Say, OneMoves, Companions
<1>10. CASE Dies(p)
  <2>1. \A n \in DOMAIN rooms : rooms[n] \in Seats
    BY <1>1
  <2>2. /\ DOMAIN rooms' = DOMAIN rooms
        /\ \A n \in DOMAIN rooms :
              rooms'[n] = rooms[n] \/ rooms'[n] = [rooms[n] EXCEPT !.seat = "lost"]
    BY <1>10 DEF Dies
  <2>3. SeatsStay
    BY <2>1, <2>2 DEF SeatsStay, Seats
  <2>4. QED
    BY <1>1, <1>10, <2>3 DEF Dies, Running, OneMoves, Companions
<1>11. QED
  BY <1>2, <1>3, <1>4, <1>5, <1>6, <1>7, <1>8, <1>9, <1>10 DEF Companion, Trouble

(***************************************************************************)
(* Who is in use.                                                          *)
(***************************************************************************)

(* A process not started has nothing to say or do; only one that runs has  *)
(* a session, and only the one in use runs with its stdin open.            *)
Started(q) ==
    /\ companion[q].run = "unstarted" => Silent(q)
    /\ companion[q].engine # NoSession => Running(q)
    /\ Running(q) /\ companion[q].stdin => front.process = q

(* A front-end without a process is in no session, and one with a process  *)
(* has not heard of its exit.                                              *)
InUse ==
    /\ front.process = NoProcess => front.status = "idle" /\ front.shown = NoSession
    /\ \A q \in Processes : front.process = q => companion[q].run \in {"running", "exited"}

Using == InUse /\ \A q \in Processes : Started(q)

LEMMA UsingFirst == Init => Using
  BY DEF Init, Using, InUse, Started, Silent, Running, NoProcess, NoSession, Processes

LEMMA UsingHolds == TypeOK /\ AllLeaveFirst /\ Using /\ [Next]_vars => Using'
<1> SUFFICES ASSUME TypeOK, AllLeaveFirst, Using, [Next]_vars
             PROVE  Using'
  OBVIOUS
<1>t. /\ companion \in [Processes -> Companions]
      /\ requests \in [Processes -> Seq(Requests)]
      /\ words \in [Processes -> Seq(Messages)]
      /\ front \in Fronts
      /\ \A q \in Processes : LeavesFirst(q) /\ Started(q)
      /\ InUse
  BY DEF TypeOK, AllLeaveFirst, Using
<1>z. NoProcess \notin Processes
  BY DEF NoProcess, Processes
<1>1. ASSUME NEW what \in {"host", "join"}, Asks(what)
      PROVE  Using'
  <2>1. /\ front'.process = front.process
        /\ \/ front'.status = "idle" /\ front'.shown = NoSession
           \/ front'.status = front.status /\ front'.shown = front.shown
        /\ companion' = companion /\ words' = words
        /\ \A q \in Processes : front.process # q => requests'[q] = requests[q]
    <3>1. CASE InSession
      BY <1>1, <1>t, <3>1 DEF Asks, Reset, Fronts
    <3>2. CASE ~InSession
      BY <1>1, <1>t, <3>2 DEF Asks, Fronts
    <3>3. QED
      BY <3>1, <3>2
  <2>2. InUse'
    BY <1>t, <2>1 DEF InUse
  <2>3. ASSUME NEW q \in Processes PROVE Started(q)'
    BY <1>t, <2>1 DEF Started, LeavesFirst, Silent, Running
  <2>4. QED
    BY <2>2, <2>3 DEF Using
<1>2. CASE GivesName
  <2>1. PICK p \in Processes :
           /\ Ensure(p)
           /\ front' = Named(p)
           /\ requests' = [requests EXCEPT ![p] =
                              Append(@, [type |-> front.asking.type, root |-> cwd])]
    BY <1>2 DEF GivesName
  <2>2. /\ front'.process = p /\ words' = words
        /\ \A q \in Processes \ {p} :
              companion'[q] = companion[q] /\ requests'[q] = requests[q]
    BY <1>2, <1>t, <2>1 DEF GivesName, Named, Ensure, Fronts
  <2>3. CASE front.process # NoProcess
    <3>1. p = front.process /\ companion' = companion
      BY <2>1, <2>3 DEF Ensure
    <3>2. companion[p].run # "unstarted"
      BY <1>t, <3>1 DEF LeavesFirst
    <3>3. InUse'
      BY <1>t, <1>z, <2>2, <3>1 DEF InUse
    <3>4. ASSUME NEW q \in Processes PROVE Started(q)'
      BY <1>t, <2>2, <3>1, <3>2 DEF Started, Silent, Running
    <3>5. QED
      BY <3>3, <3>4 DEF Using
  <2>4. CASE front.process = NoProcess
    <3>1. companion[p].run = "unstarted" /\ companion'[p] = [companion[p] EXCEPT !.run = "running"]
      BY <1>t, <2>1, <2>4 DEF Ensure
    <3>2. companion[p] \in Companions
      BY <1>t
    <3>3. companion'[p].run = "running"
      BY <3>1, <3>2 DEF Companions
    <3>4. InUse'
      BY <1>z, <2>2, <3>3 DEF InUse
    <3>5. ASSUME NEW q \in Processes PROVE Started(q)'
      <4>1. CASE q = p
        BY <2>2, <3>3, <4>1 DEF Started, Running
      <4>2. CASE q # p
        BY <1>t, <1>z, <2>2, <2>4, <4>2 DEF Started, Silent, Running
      <4>3. QED
        BY <4>1, <4>2
    <3>6. QED
      BY <3>4, <3>5 DEF Using
  <2>5. QED
    BY <2>3, <2>4
<1>3. CASE Leaves
  <2>1. PICK p \in Processes : front.process = p
    BY <1>3, <1>t DEF Leaves, InSession, InUse, Fronts
  <2>2. /\ front'.process = NoProcess
        /\ front'.status = "idle" /\ front'.shown = NoSession
        /\ words' = words
        /\ companion'[p] = [companion[p] EXCEPT !.stdin = FALSE]
        /\ \A q \in Processes \ {p} :
              companion'[q] = companion[q] /\ requests'[q] = requests[q]
    BY <1>3, <1>t, <2>1 DEF Leaves, Reset, Fronts
  <2>3. InUse'
    BY <1>z, <2>2 DEF InUse
  <2>4. ASSUME NEW q \in Processes PROVE Started(q)'
    <3>1. CASE q = p
      <4>1. companion[p] \in Companions /\ companion[p].run # "unstarted" /\ Started(p)
        BY <1>t, <2>1 DEF LeavesFirst
      <4>2. /\ companion'[p].run = companion[p].run /\ ~companion'[p].stdin
            /\ companion'[p].engine = companion[p].engine
        BY <2>2, <4>1 DEF Companions
      <4>3. QED
        BY <3>1, <4>1, <4>2 DEF Started, Running
    <3>2. CASE q # p
      <4>1. front.process # q
        BY <2>1, <3>2
      <4>2. QED
        BY <1>t, <2>2, <3>2, <4>1 DEF Started, Silent, Running
    <3>3. QED
      BY <3>1, <3>2
  <2>5. QED
    BY <2>3, <2>4 DEF Using
<1>4. CASE GivesNoName \/ Moves \/ UNCHANGED vars
  <2>1. /\ front'.process = front.process /\ front'.status = front.status
        /\ front'.shown = front.shown
        /\ UNCHANGED <<companion, words, requests>>
    BY <1>4, <1>t DEF GivesNoName, Moves, vars, Fronts
  <2>2. QED
    BY <1>t, <2>1 DEF Using, InUse, Started, Silent, Running
<1>5. ASSUME NEW p \in Processes, FrontHears(p)
      PROVE  Using'
  <2>1. /\ UNCHANGED <<companion, requests>>
        /\ \A q \in Processes \ {p} : words'[q] = words[q]
        /\ words[p] # <<>> /\ Head(words[p]) \in Messages
    BY <1>5, <1>t DEF FrontHears
  <2>2. /\ front'.process = front.process
        /\ front.process # p => front' = front
    <3>1. \A message \in Messages : OnMessage(message).process = front.process
      BY <1>t DEF Messages, OnMessage, OnStatus, Reset, Fronts
    <3>2. QED
      BY <1>5, <2>1, <3>1 DEF FrontHears
  <2>3. InUse'
    BY <1>t, <1>z, <2>1, <2>2 DEF InUse
  <2>4. ASSUME NEW q \in Processes PROVE Started(q)'
    BY <1>t, <2>1, <2>2 DEF Started, Silent, Running
  <2>5. QED
    BY <2>3, <2>4 DEF Using
<1>6. ASSUME NEW p \in Processes, FrontHearsExit(p)
      PROVE  Using'
  <2>1. /\ words' = words
        /\ \A q \in Processes \ {p} :
              companion'[q] = companion[q] /\ requests'[q] = requests[q]
        /\ companion[p].run = "exited" /\ companion'[p] = [companion[p] EXCEPT !.run = "gone"]
    BY <1>6, <1>t DEF FrontHearsExit
  <2>2. /\ front.process # p => front' = front
        /\ front.process = p =>
              front'.process = NoProcess /\ front'.status = "idle" /\ front'.shown = NoSession
    BY <1>6, <1>t DEF FrontHearsExit, Reset, Fronts
  <2>3. InUse'
    BY <1>t, <1>z, <2>1, <2>2 DEF InUse
  <2>4. ASSUME NEW q \in Processes PROVE Started(q)'
    <3>1. CASE q = p
      <4>1. companion[p] \in Companions /\ Started(p)
        BY <1>t
      <4>2. companion'[p].run = "gone" /\ companion'[p].engine = companion[p].engine
        BY <2>1, <4>1 DEF Companions
      <4>3. QED
        BY <2>1, <3>1, <4>1, <4>2 DEF Started, Running
    <3>2. CASE q # p
      <4>1. front.process = q => front'.process = q
        BY <2>2, <3>2
      <4>2. QED
        BY <1>t, <2>1, <3>2, <4>1 DEF Started, Silent, Running
    <3>3. QED
      BY <3>1, <3>2
  <2>5. QED
    BY <2>3, <2>4 DEF Using
<1>7. ASSUME NEW p \in Processes, Companion(p) \/ Trouble(p)
      PROVE  Using'
  <2>1. OneMoves(p)
    BY <1>7, CompanionMoves
  <2>2. companion'[p].run = "exited" => companion'[p].engine = NoSession
    <3>1. companion[p] \in Companions /\ companion[p].run = "running"
      BY <1>t, <2>1 DEF OneMoves, Running
    <3>2. CASE Connect(p) \/ TakesLeave(p)
      BY <1>t, <3>1, <3>2 DEF Connect, TakesLeave, Companions
    <3>3. CASE Opened(p)
      BY <1>t, <3>1, <3>3 DEF Opened, Companions
    <3>7. CASE SettleEnds(p)
      BY <1>t, <3>1, <3>7 DEF SettleEnds, Companions
    <3>4. CASE Closes(p) \/ OpenFails(p) \/ RoomEnds(p)
      BY <1>t, <3>1, <3>4, ZenonT(60) DEF Closes, OpenFails, RoomEnds, Companions
    <3>5. CASE StdinEnds(p) \/ Dies(p)
      BY <1>t, <3>1, <3>5 DEF StdinEnds, LetsGo, Dies, Companions
    <3>6. QED
      BY <1>7, <3>2, <3>3, <3>4, <3>5, <3>7 DEF Companion, Trouble
  <2>3. InUse'
    BY <1>t, <2>1 DEF InUse, OneMoves, FrontStays
  <2>4. ASSUME NEW q \in Processes PROVE Started(q)'
    <3>1. CASE q = p
      BY <1>t, <2>1, <2>2, <3>1 DEF Started, OneMoves, FrontStays, Running
    <3>2. CASE q # p
      BY <1>t, <2>1, <3>2 DEF Started, OneMoves, FrontStays, Running, Silent
    <3>3. QED
      BY <3>1, <3>2
  <2>5. QED
    BY <2>3, <2>4 DEF Using
<1>8. QED
  BY <1>1, <1>2, <1>3, <1>4, <1>5, <1>6, <1>7
     DEF Next, Person, System, AsksToHost, AsksToJoin, Front, Companion, Trouble

(***************************************************************************)
(* What the front-end will stand in.                                       *)
(***************************************************************************)
ToldToLeave(p) == \E i \in DOMAIN requests[p] : requests[p][i].type = "leave"

InRole(s) == IF rooms[s].role = "host" THEN "hosting" ELSE "joined"

(* A front-end that has heard everything is in the session its companion   *)
(* holds; while that waits for a room, it is on the way to be.             *)
Agreed(c, to) ==
    /\ c.doing = "opening" => outlived \/ to.shown = NoSession
    /\ c.doing = "nothing" => outlived \/ to.shown = c.engine
    /\ c.doing = "nothing" /\ c.engine = NoSession => to.status \in {"idle", "error"}
    /\ c.doing = "settling" /\ c.engine = NoSession => to.status = "idle"
    /\ c.doing = "settling" /\ c.engine # NoSession => c.about = c.engine
    /\ c.engine # NoSession => to.status = InRole(c.engine)

(* What is said to a front-end that has left is made good by the answer.   *)
Moot(p) == ToldToLeave(p) \/ companion[p].doing = "closing"

WillAgree(p) ==
    front.process = p /\ Running(p) /\ ~Moot(p) =>
        \A to \in States : Leads(Stands, words[p], to) => Agreed(companion[p], to)

AllWillAgree == \A p \in Processes : WillAgree(p)

(* A `leave` behind another request stays on the pipe.                     *)
LEMMA LeaveBehind ==
    ASSUME requests \in [Processes -> Seq(Requests)], NEW p \in Processes,
           requests[p] # <<>>, Head(requests[p]).type # "leave",
           requests'[p] = Tail(requests[p]), ToldToLeave(p)
    PROVE  ToldToLeave(p)'
<1>1. PICK n \in Nat \ {0} : n = Len(requests[p])
  BY EmptySeq
<1>2. /\ Len(requests'[p]) = n - 1 /\ Head(requests[p]) = requests[p][1]
      /\ \A i \in 1 .. n - 1 : requests'[p][i] = requests[p][i + 1]
      /\ requests'[p] \in Seq(Requests)
  BY <1>1, HeadTailProperties
<1>3. PICK i \in 1 .. n : requests[p][i].type = "leave"
  BY <1>1 DEF ToldToLeave
<1>4. i # 1
  BY <1>2, <1>3
<1>5. i - 1 \in 1 .. n - 1 /\ (i - 1) + 1 = i
  BY <1>4
<1>6. requests'[p][i - 1].type = "leave" /\ i - 1 \in DOMAIN requests'[p]
  BY <1>2, <1>3, <1>5
<1>7. QED
  BY <1>6 DEF ToldToLeave

(* A request sent leaves the others on the pipe, and is on it.             *)
LEMMA ToldBySending ==
    ASSUME requests \in [Processes -> Seq(Requests)], NEW p \in Processes,
           NEW r \in Requests, requests'[p] = Append(requests[p], r)
    PROVE  /\ ToldToLeave(p) => ToldToLeave(p)'
           /\ r.type = "leave" => ToldToLeave(p)'
<1>1. requests[p] \in Seq(Requests)
  OBVIOUS
<1>2. /\ Len(requests'[p]) = Len(requests[p]) + 1 /\ Len(requests[p]) \in Nat
      /\ requests'[p][Len(requests[p]) + 1] = r
      /\ \A i \in 1 .. Len(requests[p]) : requests'[p][i] = requests[p][i]
      /\ DOMAIN requests'[p] = 1 .. Len(requests[p]) + 1
  BY <1>1
<1>3. QED
  BY <1>1, <1>2 DEF ToldToLeave

(* A companion as it was asks for what it did when the seats have changed  *)
(* hands.                                                                  *)
LEMMA AgreedStays ==
    ASSUME TypeOK, NEW p \in Processes, companion'[p] = companion[p], NEW to,
           SeatsStay, outlived => outlived', Agreed(companion[p], to)
    PROVE  Agreed(companion[p], to)'
<1>1. companion[p].engine \in 0 .. Len(rooms) /\ rooms \in Seq(Seats)
  BY DEF TypeOK, HoldsOne
<1>2. companion[p].engine # NoSession => companion[p].engine \in DOMAIN rooms
  BY <1>1 DEF NoSession
<1>3. companion[p].engine # NoSession
         => InRole(companion[p].engine)' = InRole(companion[p].engine)
  BY <1>2 DEF SeatsStay, InRole
<1>4. QED
  BY <1>3 DEF Agreed

(* One word more, heard where the others lead.                             *)
LEMMA OneWordMore ==
    ASSUME TypeOK, NEW p \in Processes, NEW message \in Messages,
           Say(p, <<message>>), FrontStays, NEW to \in States, Leads(Stands, words[p], to)'
    PROVE  \E between \in States :
              Leads(Stands, words[p], between) /\ to = Heard(between, message)
<1>1. words[p] \in Seq(Messages) /\ words'[p] = words[p] \o <<message>>
  BY DEF TypeOK, Say
<1>2. Stands' = Stands
  BY DEF FrontStays, Stands
<1>3. Leads(Stands, words[p] \o <<message>>, to)
  BY <1>1, <1>2 DEF Leads
<1>4. QED
  BY <1>1, <1>3, LastWord

(* Two words said at once are two words.                                   *)
LEMMA TwoWords ==
    ASSUME NEW first \in Messages, NEW second \in Messages
    PROVE  <<first, second>> = <<first>> \o <<second>>
<1>1. <<first, second>> \in Seq(Messages) /\ <<first>> \o <<second>> \in Seq(Messages)
  OBVIOUS
<1>2. Len(<<first>> \o <<second>>) = 2 /\ Len(<<first, second>>) = 2
  OBVIOUS
<1>3. \A i \in 1 .. 2 : <<first, second>>[i] = (<<first>> \o <<second>>)[i]
  OBVIOUS
<1>4. QED
  BY <1>1, <1>2, <1>3, SeqEqual

(* Two words more.                                                         *)
LEMMA TwoWordsMore ==
    ASSUME TypeOK, NEW p \in Processes, NEW first \in Messages, NEW second \in Messages,
           Say(p, <<first, second>>), FrontStays, NEW to \in States, Leads(Stands, words[p], to)'
    PROVE  \E between \in States :
              Leads(Stands, words[p], between) /\ to = Heard(Heard(between, first), second)
<1>1. words[p] \in Seq(Messages) /\ words'[p] = words[p] \o <<first, second>>
  BY DEF TypeOK, Say
<1>2. PICK more \in Seq(Messages) : more = words[p] \o <<first>>
  <2>1. words[p] \o <<first>> \in Seq(Messages)
    BY <1>1
  <2>2. QED
    BY <2>1
<1>3. words'[p] = more \o <<second>>
  <2>1. <<first, second>> = <<first>> \o <<second>>
    BY TwoWords
  <2>2. words[p] \o (<<first>> \o <<second>>) = (words[p] \o <<first>>) \o <<second>>
    BY <1>1, ConcatAssociative
  <2>3. QED
    BY <1>1, <1>2, <2>1, <2>2
<1>4. Stands' = Stands
  BY DEF FrontStays, Stands
<1>5. Leads(Stands, more \o <<second>>, to)
  BY <1>3, <1>4 DEF Leads
<1>6. PICK later \in States : Leads(Stands, more, later) /\ to = Heard(later, second)
  BY <1>5, LastWord
<1>7. PICK between \in States :
         Leads(Stands, words[p], between) /\ later = Heard(between, first)
  BY <1>1, <1>2, <1>6, LastWord
<1>8. QED
  BY <1>6, <1>7

(* The steps of the companion in use.                                      *)
LEMMA CompanionAgrees ==
    ASSUME TypeOK, NEW p \in Processes, Companion(p) \/ Trouble(p), WillAgree(p)
    PROVE  WillAgree(p)'
<1> SUFFICES ASSUME front'.process = p, Running(p)', ~Moot(p)',
                    NEW to \in States, Leads(Stands, words[p], to)'
             PROVE  Agreed(companion[p], to)'
  BY DEF WillAgree
<1>m. OneMoves(p)
  BY CompanionMoves
<1>t. /\ companion \in [Processes -> Companions]
      /\ requests \in [Processes -> Seq(Requests)]
      /\ words \in [Processes -> Seq(Messages)]
      /\ rooms \in Seq(Seats)
      /\ companion[p] \in Companions
      /\ HoldsOne(companion[p], Len(rooms))
      /\ FrontStays /\ SeatsStay
  BY <1>m DEF TypeOK, OneMoves
<1>w. ~Moot(p) =>
         \A between \in States :
            Leads(Stands, words[p], between) => Agreed(companion[p], between)
  BY <1>m DEF WillAgree, OneMoves, FrontStays
<1>s. /\ \A state \in Statuses : Status(state) \in Messages
      /\ [type |-> "refused"] \in Messages /\ [type |-> "over"] \in Messages
      /\ \A s \in Nat : [type |-> "report", session |-> s] \in Messages
      /\ "idle" \in Statuses /\ "connecting" \in Statuses /\ "error" \in Statuses
      /\ "hosting" \in Statuses /\ "joined" \in Statuses
  BY DEF Status, Messages, Statuses
<1>i. \A between : Heard(between, Status("idle")) = Fresh
  BY DEF Heard, Status
<1>1. CASE Connect(p)
  <2>1. ~Moot(p)
    <3>1. ToldToLeave(p) => ToldToLeave(p)'
      BY <1>1, <1>t, LeaveBehind DEF Connect, NextRequest
    <3>2. companion[p].doing = "nothing"
      BY <1>1 DEF Connect, NextRequest, Free
    <3>3. QED
      BY <3>1, <3>2 DEF Moot
  <2>2. CASE companion[p].engine # NoSession
    <3>1. Say(p, <<[type |-> "refused"]>>) /\ companion' = companion
      BY <1>1, <2>2 DEF Connect
    <3>2. PICK between \in States :
             Leads(Stands, words[p], between) /\ to = Heard(between, [type |-> "refused"])
      BY <1>s, <1>t, <3>1, OneWordMore
    <3>3. to = between
      BY <3>2 DEF Heard
    <3>4. Agreed(companion[p], to)
      BY <1>w, <2>1, <3>2, <3>3
    <3>5. QED
      BY <1>m, <3>1, <3>4, AgreedStays DEF OneMoves
  <2>3. CASE companion[p].engine = NoSession
    <3>1. /\ Say(p, <<Status("connecting")>>)
          /\ companion'[p].doing = "opening" /\ companion'[p].engine = NoSession
          /\ companion[p].doing = "nothing" /\ outlived' = outlived
      BY <1>1, <1>t, <2>3 DEF Connect, NextRequest, Free, Companions
    <3>2. PICK between \in States :
             Leads(Stands, words[p], between) /\ to = Heard(between, Status("connecting"))
      BY <1>s, <1>t, <3>1, OneWordMore
    <3>3. to.shown = between.shown
      BY <3>2 DEF Heard, Status, States
    <3>4. outlived \/ between.shown = NoSession
      BY <1>w, <2>1, <2>3, <3>1, <3>2 DEF Agreed
    <3>5. QED
      BY <3>1, <3>3, <3>4 DEF Agreed
  <2>4. QED
    BY <2>2, <2>3
<1>2. CASE OpenFails(p)
  <2>1. /\ Say(p, <<Status("error")>>)
        /\ companion[p].doing = "opening" /\ companion[p].engine = NoSession
        /\ companion'[p].doing = "nothing" /\ companion'[p].engine = NoSession
        /\ outlived' = outlived /\ requests' = requests
    BY <1>2, <1>t DEF OpenFails, HoldsOne, Companions
  <2>2. ~Moot(p)
    BY <2>1 DEF Moot, ToldToLeave
  <2>3. PICK between \in States :
           Leads(Stands, words[p], between) /\ to = Heard(between, Status("error"))
    BY <1>s, <1>t, <2>1, OneWordMore
  <2>4. to.shown = between.shown /\ to.status = "error"
    BY <2>3 DEF Heard, Status, States
  <2>5. outlived \/ between.shown = NoSession
    BY <1>w, <2>1, <2>2, <2>3 DEF Agreed
  <2>6. QED
    BY <2>1, <2>4, <2>5 DEF Agreed
<1>3. CASE Opened(p)
  <2>1. PICK session \in Nat \ {0} : session = Len(rooms) + 1
    BY <1>t
  <2>2. PICK standing \in {"hosting", "joined"} :
           standing = IF companion[p].request.type = "host" THEN "hosting" ELSE "joined"
    OBVIOUS
  <2> DEFINE report == [type |-> "report", session |-> session]
  <2>3. PICK waits \in BOOLEAN :
           /\ companion' = [companion EXCEPT ![p].engine = session,
                                             ![p].doing = IF waits THEN "settling" ELSE "nothing",
                                             ![p].about = IF waits THEN session ELSE NoSession,
                                             ![p].request = NoRequest]
           /\ Say(p, <<Status(standing)>> \o IF waits THEN <<>> ELSE <<report>>)
    BY <1>3, <2>1, <2>2 DEF Opened
  <2>4. /\ companion'[p].engine = session /\ session # NoSession
        /\ companion'[p].doing = IF waits THEN "settling" ELSE "nothing"
        /\ waits => companion'[p].about = session
    BY <1>t, <2>1, <2>3 DEF Companions, NoSession
  <2>5. InRole(session)' = standing
    <3>1. rooms'[session].role = companion[p].request.type
      BY <1>3, <1>t, <2>1 DEF Opened
    <3>2. QED
      BY <2>2, <3>1 DEF InRole
  <2>6. /\ companion[p].doing = "opening"
        /\ outlived' = outlived /\ requests' = requests
        /\ Status(standing) \in Messages /\ report \in Messages
    BY <1>3, <1>s DEF Opened
  <2>7. ~Moot(p)
    BY <2>6 DEF Moot, ToldToLeave
  <2>8. \A state \in States :
           /\ Heard(state, Status(standing)) = [state EXCEPT !.status = standing]
           /\ Heard(state, report) = [state EXCEPT !.shown = session]
    BY DEF Heard, Status
  <2>9. CASE waits
    <3>1. Say(p, <<Status(standing)>>)
      BY <1>t, <2>3, <2>6, <2>9 DEF Say
    <3>2. PICK between \in States :
             Leads(Stands, words[p], between) /\ to = Heard(between, Status(standing))
      BY <1>t, <2>6, <3>1, OneWordMore
    <3>3. to.status = standing
      BY <2>8, <3>2 DEF States
    <3>4. QED
      BY <2>4, <2>5, <2>9, <3>3 DEF Agreed
  <2>10. CASE ~waits
    <3>1. Say(p, <<Status(standing), report>>)
      <4>1. <<Status(standing)>> \o <<report>> = <<Status(standing), report>>
        BY <2>6, TwoWords
      <4>2. QED
        BY <2>3, <2>10, <4>1
    <3>2. PICK between \in States :
             to = Heard(Heard(between, Status(standing)), report)
      BY <1>t, <2>6, <3>1, TwoWordsMore
    <3>3. [between EXCEPT !.status = standing] \in States
      BY <3>2 DEF States, Statuses
    <3>4. to.status = standing /\ to.shown = session
      <4>1. to = [[between EXCEPT !.status = standing] EXCEPT !.shown = session]
        BY <2>8, <3>2, <3>3
      <4>2. QED
        BY <3>2, <4>1 DEF States
    <3>5. QED
      BY <2>4, <2>5, <2>10, <3>4 DEF Agreed
  <2>11. QED
    BY <2>9, <2>10
<1>4. CASE SettleEnds(p)
  <2> DEFINE report == [type |-> "report", session |-> companion[p].about]
  <2>1. /\ Say(p, <<report>>) /\ report \in Messages
        /\ companion[p].doing = "settling"
        /\ companion'[p].doing = "nothing" /\ companion'[p].engine = companion[p].engine
        /\ outlived' = (outlived \/ companion[p].engine = NoSession)
        /\ requests' = requests /\ rooms' = rooms
    BY <1>4, <1>s, <1>t DEF SettleEnds, Companions
  <2>2. ~Moot(p)
    BY <2>1 DEF Moot, ToldToLeave
  <2>3. PICK between \in States :
           Leads(Stands, words[p], between) /\ to = Heard(between, report)
    BY <1>t, <2>1, OneWordMore
  <2>4. to.status = between.status /\ to.shown = companion[p].about
    BY <2>3 DEF Heard, States
  <2>5. Agreed(companion[p], between)
    BY <1>w, <2>2, <2>3
  <2>6. QED
    BY <2>1, <2>4, <2>5 DEF Agreed, InRole
<1>5. CASE TakesLeave(p)
  <2>1. /\ Say(p, <<Status("idle")>>)
        /\ companion'[p].engine = NoSession /\ companion'[p].doing = "nothing"
    BY <1>5, <1>t DEF TakesLeave, NextRequest, Free, Moot, Companions
  <2>2. to = Fresh
    BY <1>i, <1>s, <1>t, <2>1, OneWordMore
  <2>3. QED
    BY <2>1, <2>2 DEF Agreed, Fresh
<1>6. CASE Closes(p)
  <2>1. /\ Say(p, <<Status("idle")>>)
        /\ companion'[p].engine = NoSession /\ companion'[p].doing = "nothing"
    BY <1>6, <1>t DEF Closes, HoldsOne, Companions
  <2>2. to = Fresh
    BY <1>i, <1>s, <1>t, <2>1, OneWordMore
  <2>3. QED
    BY <2>1, <2>2 DEF Agreed, Fresh
<1>7. CASE RoomEnds(p)
  <2>1. /\ Say(p, <<[type |-> "over"], Status("idle")>>)
        /\ companion'[p].engine = NoSession
        /\ companion'[p].doing \in {"nothing", "settling"}
    BY <1>7, <1>t DEF RoomEnds, HoldsOne, Companions
  <2>2. to = Fresh
    BY <1>i, <1>s, <1>t, <2>1, TwoWordsMore
  <2>3. QED
    BY <2>1, <2>2 DEF Agreed, Fresh
<1>8. CASE StdinEnds(p) \/ Dies(p)
  BY <1>8, <1>t DEF StdinEnds, LetsGo, Dies, Running, Companions
<1>9. QED
  BY <1>1, <1>2, <1>3, <1>4, <1>5, <1>6, <1>7, <1>8 DEF Companion, Trouble

LEMMA AgreeFirst == Init => AllWillAgree
  BY DEF Init, AllWillAgree, WillAgree, NoProcess, Processes

(* A front-end that stands where it did, with the same process and words,  *)
(* will agree as it would.                                                 *)
LEMMA AgreeStays ==
    ASSUME TypeOK, NEW p \in Processes, WillAgree(p),
           front'.process = p =>
              front.process = p /\ Stands' = Stands /\ (ToldToLeave(p) => ToldToLeave(p)'),
           companion'[p] = companion[p], words'[p] = words[p],
           SeatsStay, outlived => outlived'
    PROVE  WillAgree(p)'
<1> SUFFICES ASSUME front'.process = p, Running(p)', ~Moot(p)',
                    NEW to \in States, Leads(Stands, words[p], to)'
             PROVE  Agreed(companion[p], to)'
  BY DEF WillAgree
<1>1. front.process = p /\ Running(p) /\ ~Moot(p)
  BY DEF Moot, Running
<1>2. Leads(Stands, words[p], to)
  BY DEF Leads
<1>3. Agreed(companion[p], to)
  BY <1>1, <1>2 DEF WillAgree
<1>4. QED
  BY <1>3, AgreedStays

LEMMA AgreeHolds ==
    TypeOK /\ AllLeaveFirst /\ Using /\ AllWillAgree /\ [Next]_vars => AllWillAgree'
<1> SUFFICES ASSUME TypeOK, AllLeaveFirst, Using, AllWillAgree, [Next]_vars,
                    NEW p \in Processes
             PROVE  WillAgree(p)'
  BY DEF AllWillAgree
<1>t. /\ companion \in [Processes -> Companions]
      /\ requests \in [Processes -> Seq(Requests)]
      /\ words \in [Processes -> Seq(Messages)]
      /\ rooms \in Seq(Seats)
      /\ front \in Fronts
      /\ companion[p] \in Companions
      /\ WillAgree(p) /\ LeavesFirst(p) /\ Started(p) /\ InUse
  BY DEF TypeOK, AllLeaveFirst, AllWillAgree, Using
<1>s. rooms' = rooms => SeatsStay
  BY DEF SeatsStay
<1>z. p # NoProcess
  BY DEF NoProcess, Processes
<1>1. ASSUME NEW what \in {"host", "join"}, Asks(what)
      PROVE  WillAgree(p)'
  <2>1. /\ front'.process = front.process
        /\ companion' = companion /\ words' = words /\ rooms' = rooms /\ outlived' = outlived
    BY <1>1, <1>t DEF Asks, Reset, Fronts
  <2>2. CASE ~InSession
    <3>1. Stands' = Stands /\ requests' = requests
      BY <1>1, <1>t, <2>2 DEF Asks, Stands, Fronts
    <3>2. QED
      BY <1>s, <1>t, <2>1, <3>1, AgreeStays DEF ToldToLeave
  <2>3. CASE InSession /\ front.process = p
    <3>1. requests'[p] = Append(requests[p], [type |-> "leave"])
      BY <1>1, <1>t, <2>3 DEF Asks
    <3>2. ToldToLeave(p)'
      <4>1. [type |-> "leave"] \in Requests
        BY DEF Requests
      <4>2. QED
        BY <1>t, <3>1, <4>1, ToldBySending
    <3>3. QED
      BY <3>2 DEF WillAgree, Moot
  <2>4. CASE front.process # p
    BY <2>1, <2>4 DEF WillAgree
  <2>5. QED
    BY <2>2, <2>3, <2>4
<1>2. CASE GivesName
  <2>1. PICK q \in Processes :
           /\ Ensure(q)
           /\ front' = Named(q)
           /\ requests' = [requests EXCEPT ![q] =
                              Append(@, [type |-> front.asking.type, root |-> cwd])]
    BY <1>2 DEF GivesName
  <2>2. /\ front'.process = q /\ Stands' = Stands
        /\ words' = words /\ rooms' = rooms /\ outlived' = outlived
    BY <1>2, <1>t, <2>1 DEF GivesName, Named, Stands, Fronts
  <2>3. CASE q # p
    BY <2>2, <2>3 DEF WillAgree
  <2>4. CASE q = p /\ front.process # NoProcess
    <3>1. front.process = p /\ companion' = companion
      BY <2>1, <2>4 DEF Ensure
    <3>2. ToldToLeave(p) => ToldToLeave(p)'
      <4>1. [type |-> front.asking.type, root |-> cwd] \in Requests
        BY <1>2 DEF TypeOK, GivesName, Fronts, Requests, Connections, NoRequest
      <4>2. requests'[p] = Append(requests[p], [type |-> front.asking.type, root |-> cwd])
        BY <1>t, <2>1, <2>4
      <4>3. QED
        BY <1>t, <4>1, <4>2, ToldBySending
    <3>3. QED
      BY <1>s, <1>t, <2>2, <3>1, <3>2, AgreeStays
  <2>5. CASE q = p /\ front.process = NoProcess
    <3>1. companion[p].run = "unstarted" /\ companion'[p] = [companion[p] EXCEPT !.run = "running"]
      BY <1>t, <2>1, <2>5 DEF Ensure
    <3>2. /\ companion'[p].doing = "nothing" /\ companion'[p].engine = NoSession
          /\ words'[p] = <<>>
      BY <1>t, <2>2, <3>1 DEF Started, Silent, Running, Companions
    <3>3. Stands' = Fresh
      BY <1>t, <2>2, <2>5 DEF InUse, Stands, Fresh
    <3>4. ASSUME NEW to \in States, Leads(Stands, words[p], to)'
          PROVE  to = Fresh
      <4>1. Leads(Fresh, <<>>, to)
        BY <3>2, <3>3, <3>4 DEF Leads
      <4>2. QED
        BY <4>1 DEF Leads
    <3>5. ASSUME NEW to \in States, to = Fresh
          PROVE  Agreed(companion[p], to)'
      BY <3>2, <3>5 DEF Agreed, Fresh
    <3>6. QED
      BY <3>4, <3>5 DEF WillAgree
  <2>6. QED
    BY <2>3, <2>4, <2>5
<1>3. CASE Leaves
  <2>1. front'.process = NoProcess
    BY <1>3, <1>t DEF Leaves, Reset, Fronts
  <2>2. QED
    BY <1>z, <2>1 DEF WillAgree
<1>4. CASE GivesNoName \/ Moves \/ UNCHANGED vars
  <2>1. /\ front'.process = front.process /\ Stands' = Stands
        /\ UNCHANGED <<companion, words, requests, rooms, outlived>>
    BY <1>4, <1>t DEF GivesNoName, Moves, vars, Stands, Fronts
  <2>2. QED
    BY <1>s, <1>t, <2>1, AgreeStays DEF ToldToLeave
<1>5. ASSUME NEW q \in Processes, FrontHears(q)
      PROVE  WillAgree(p)'
  <2>1. /\ UNCHANGED <<companion, requests, rooms, outlived>>
        /\ words' = [words EXCEPT ![q] = Tail(@)]
        /\ words[q] # <<>> /\ Head(words[q]) \in Messages
        /\ front' = IF front.process = q THEN OnMessage(Head(words[q])) ELSE front
    BY <1>5, <1>t DEF FrontHears
  <2>2. \A message \in Messages :
           /\ OnMessage(message).process = front.process
           /\ OnMessage(message).status = Heard(Stands, message).status
           /\ OnMessage(message).shown = Heard(Stands, message).shown
    BY <1>t DEF Messages, OnMessage, OnStatus, Reset, Fronts, Heard, Stands, Fresh
  <2>3. front'.process = front.process
    BY <2>1, <2>2
  <2>4. CASE front.process # p
    BY <2>3, <2>4 DEF WillAgree
  <2>5. CASE front.process = p /\ q # p
    <3>1. front' = front /\ words'[p] = words[p]
      BY <1>t, <2>1, <2>5
    <3>2. QED
      BY <1>s, <1>t, <2>1, <3>1, AgreeStays DEF Stands, ToldToLeave
  <2>6. CASE front.process = p /\ q = p
    <3>1. Stands \in States
      BY <1>t DEF Stands, States, Fronts
    <3>2. Stands' = Heard(Stands, Head(words[p]))
      <4>1. Heard(Stands, Head(words[p])) \in States
        BY <2>1, <2>6, <3>1, HeardTyped
      <4>2. Stands' = [status |-> Heard(Stands, Head(words[p])).status,
                       shown |-> Heard(Stands, Head(words[p])).shown]
        BY <2>1, <2>2, <2>6 DEF Stands
      <4>3. QED
        BY <4>1, <4>2 DEF States
    <3>3. words'[p] = Tail(words[p])
      BY <1>t, <2>1, <2>6
    <3>4. ASSUME NEW to \in States, Leads(Stands, words[p], to)'
          PROVE  Leads(Stands, words[p], to)
      <4>1. Leads(Heard(Stands, Head(words[p])), Tail(words[p]), to)
        BY <3>2, <3>3, <3>4 DEF Leads
      <4>2. QED
        BY <1>t, <2>1, <2>6, <3>1, <4>1, FirstWord
    <3>5. QED
      BY <1>t, <2>1, <2>3, <3>4 DEF WillAgree, Running, Moot, ToldToLeave, Agreed, InRole
  <2>7. QED
    BY <2>4, <2>5, <2>6
<1>6. ASSUME NEW q \in Processes, FrontHearsExit(q)
      PROVE  WillAgree(p)'
  <2>1. CASE front.process = q
    <3>1. front'.process = NoProcess
      BY <1>6, <1>t, <2>1 DEF FrontHearsExit, Reset, Fronts
    <3>2. QED
      BY <1>z, <3>1 DEF WillAgree
  <2>2. CASE front.process # q
    <3>1. front' = front
      BY <1>6, <2>2 DEF FrontHearsExit
    <3>2. CASE front.process # p
      BY <3>1, <3>2 DEF WillAgree
    <3>3. CASE front.process = p
      <4>1. /\ companion'[p] = companion[p] /\ requests'[p] = requests[p]
            /\ UNCHANGED <<words, rooms, outlived>>
        BY <1>6, <1>t, <2>2, <3>3 DEF FrontHearsExit
      <4>2. QED
        BY <1>s, <1>t, <3>1, <4>1, AgreeStays DEF Stands, ToldToLeave
    <3>4. QED
      BY <3>2, <3>3
  <2>3. QED
    BY <2>1, <2>2
<1>7. ASSUME NEW q \in Processes, Companion(q) \/ Trouble(q)
      PROVE  WillAgree(p)'
  <2>1. CASE q = p
    BY <1>7, <1>t, <2>1, CompanionAgrees
  <2>2. CASE q # p
    <3>1. OneMoves(q)
      BY <1>7, CompanionMoves
    <3>2. /\ companion'[p] = companion[p] /\ requests'[p] = requests[p] /\ words'[p] = words[p]
          /\ front' = front /\ SeatsStay /\ (outlived => outlived')
      BY <2>2, <3>1 DEF OneMoves, FrontStays
    <3>3. QED
      BY <1>t, <3>2, AgreeStays DEF Stands, ToldToLeave
  <2>3. QED
    BY <2>1, <2>2
<1>8. QED
  BY <1>1, <1>2, <1>3, <1>4, <1>5, <1>6, <1>7
     DEF Next, Person, System, AsksToHost, AsksToJoin, Front, Companion, Trouble

(***************************************************************************)
(* The folder of the session.  A person who waited for the last answer     *)
(* before asking has one request on its way at most, and nothing is said   *)
(* that would clear the folder recorded with it.                           *)
(***************************************************************************)
Resets(message) == message.type = "over" \/ message = Status("idle")

Harmless(said) == \A i \in DOMAIN said : ~Resets(said[i])

(* The folder recorded is the one in the request, or the one of the room.  *)
FolderIs(c, asked) ==
    \/ \E r \in Connections :
          /\ asked = <<r>> /\ r.root = front.root
          /\ c.doing = "nothing" /\ c.engine = NoSession
    \/ asked = <<>> /\ c.doing = "opening" /\ c.request.root = front.root
    \/ asked = <<>> /\ c.engine # NoSession /\ rooms[c.engine].root = front.root

(* The session left is on its way out, there is none, or there is one on   *)
(* its way whose folder is recorded.                                       *)
FolderKept(p) ==
    front.process = p /\ Running(p) /\ ~hasty =>
        \/ requests[p] = <<[type |-> "leave"]>>
        \/ requests[p] = <<>> /\ companion[p].engine = NoSession /\ companion[p].doing # "opening"
        \/ /\ front.asking = NoRequest
           /\ Harmless(words[p])
           /\ FolderIs(companion[p], requests[p])

AllFoldersKept == \A p \in Processes : FolderKept(p)

(* A harmless word leaves the words harmless, and hearing one does.        *)
LEMMA HarmlessStays ==
    ASSUME NEW said \in Seq(Messages), Harmless(said)
    PROVE  /\ \A message \in Messages : ~Resets(message) => Harmless(said \o <<message>>)
           /\ said # <<>> => ~Resets(Head(said)) /\ Harmless(Tail(said))
<1>1. ASSUME NEW message \in Messages, ~Resets(message)
      PROVE  Harmless(said \o <<message>>)
  <2>1. PICK more \in Seq(Messages) : more = said \o <<message>>
    <3>1. said \o <<message>> \in Seq(Messages)
      OBVIOUS
    <3>2. QED
      BY <3>1
  <2>2. \A i \in DOMAIN more : more[i] = message \/ (i \in DOMAIN said /\ more[i] = said[i])
    BY <2>1
  <2>3. Harmless(more)
    BY <1>1, <2>2 DEF Harmless
  <2>4. QED
    BY <2>1, <2>3
<1>2. ASSUME said # <<>>
      PROVE  ~Resets(Head(said)) /\ Harmless(Tail(said))
  <2>1. PICK n \in Nat \ {0} : n = Len(said)
    BY <1>2, EmptySeq
  <2>2. PICK rest \in Seq(Messages) : rest = Tail(said)
    <3>1. Tail(said) \in Seq(Messages)
      BY <1>2
    <3>2. QED
      BY <3>1
  <2>3. /\ Head(said) = said[1] /\ 1 \in DOMAIN said
        /\ \A i \in DOMAIN rest : i + 1 \in DOMAIN said /\ rest[i] = said[i + 1]
    BY <1>2, <2>1, <2>2, HeadTailProperties
  <2>4. Harmless(rest)
    BY <2>3 DEF Harmless
  <2>5. QED
    BY <2>2, <2>3, <2>4 DEF Harmless
<1>3. QED
  BY <1>1, <1>2

(* The steps of the companion in use.                                      *)
LEMMA CompanionKeepsFolder ==
    ASSUME TypeOK, NEW p \in Processes, Companion(p) \/ Trouble(p), FolderKept(p)
    PROVE  FolderKept(p)'
<1> SUFFICES ASSUME front'.process = p, Running(p)', ~hasty'
             PROVE  \/ requests'[p] = <<[type |-> "leave"]>>
                    \/ /\ requests'[p] = <<>> /\ companion'[p].engine = NoSession
                       /\ companion'[p].doing # "opening"
                    \/ /\ front'.asking = NoRequest
                       /\ Harmless(words'[p])
                       /\ FolderIs(companion[p], requests[p])'
  BY DEF FolderKept
<1>m. OneMoves(p)
  BY CompanionMoves
<1>t. /\ companion \in [Processes -> Companions]
      /\ requests \in [Processes -> Seq(Requests)]
      /\ words \in [Processes -> Seq(Messages)]
      /\ rooms \in Seq(Seats)
      /\ companion[p] \in Companions /\ words[p] \in Seq(Messages)
      /\ HoldsOne(companion[p], Len(rooms))
      /\ front' = front /\ hasty' = hasty /\ SeatsStay
  BY <1>m DEF TypeOK, OneMoves, FrontStays
<1>k. \/ requests[p] = <<[type |-> "leave"]>>
      \/ requests[p] = <<>> /\ companion[p].engine = NoSession /\ companion[p].doing # "opening"
      \/ /\ front.asking = NoRequest
         /\ Harmless(words[p])
         /\ FolderIs(companion[p], requests[p])
  BY <1>m, <1>t DEF FolderKept, OneMoves
<1>s. /\ \A state \in Statuses : Status(state) \in Messages
      /\ \A state \in Statuses : state # "idle" => ~Resets(Status(state))
      /\ \A s \in Nat : [type |-> "report", session |-> s] \in Messages
      /\ \A s \in Nat : ~Resets([type |-> "report", session |-> s])
      /\ "connecting" \in Statuses /\ "hosting" \in Statuses /\ "joined" \in Statuses
  <2>1. \A state \in Statuses : Status(state) \in Messages
    BY DEF Status, Messages
  <2>2. \A state \in Statuses : state # "idle" => ~Resets(Status(state))
    BY DEF Status, Resets
  <2>3. \A s \in Nat : [type |-> "report", session |-> s] \in Messages
    BY DEF Messages
  <2>4. ASSUME NEW s \in Nat PROVE ~Resets([type |-> "report", session |-> s])
    <3>1. [type |-> "report", session |-> s].type # Status("idle").type
      BY DEF Status
    <3>2. QED
      BY <3>1 DEF Resets
  <2>5. QED
    BY <2>1, <2>2, <2>3, <2>4 DEF Statuses
<1>1. CASE Connect(p)
  <2>1. /\ requests[p] # <<>> /\ Head(requests[p]).type # "leave"
        /\ requests'[p] = Tail(requests[p]) /\ companion[p].doing = "nothing"
    BY <1>1, <1>t DEF Connect, NextRequest, Free
  <2>2. requests[p] # <<[type |-> "leave"]>>
    BY <2>1
  <2>3. PICK r \in Connections :
           /\ requests[p] = <<r>> /\ r.root = front.root
           /\ companion[p].engine = NoSession
    BY <1>k, <2>1, <2>2 DEF FolderIs
  <2>4. front.asking = NoRequest /\ Harmless(words[p])
    BY <1>k, <2>1, <2>2
  <2>5. /\ requests'[p] = <<>>
        /\ companion'[p].doing = "opening" /\ companion'[p].request = r
        /\ words'[p] = words[p] \o <<Status("connecting")>>
    <3>1. Head(<<r>>) = r /\ Tail(<<r>>) = <<>>
      OBVIOUS
    <3>2. /\ Say(p, <<Status("connecting")>>)
          /\ companion' = [companion EXCEPT ![p].doing = "opening",
                                            ![p].request = Head(requests[p])]
      BY <1>1, <2>3 DEF Connect
    <3>3. companion'[p].doing = "opening" /\ companion'[p].request = r
      BY <1>t, <2>3, <3>1, <3>2 DEF Companions
    <3>4. QED
      BY <1>t, <2>1, <2>3, <3>1, <3>2, <3>3 DEF Say
  <2>6. Harmless(words'[p])
    BY <1>s, <1>t, <2>4, <2>5, HarmlessStays
  <2>7. QED
    BY <1>t, <2>3, <2>4, <2>5, <2>6 DEF FolderIs
<1>2. CASE OpenFails(p)
  <2>1. /\ requests' = requests
        /\ companion[p].doing = "opening" /\ companion[p].engine = NoSession
        /\ companion'[p].doing = "nothing" /\ companion'[p].engine = NoSession
    BY <1>2, <1>t DEF OpenFails, HoldsOne, Companions
  <2>2. QED
    BY <1>k, <2>1 DEF FolderIs
<1>3. CASE Opened(p)
  <2>1. PICK session \in Nat \ {0} : session = Len(rooms) + 1
    BY <1>t
  <2>2. /\ requests' = requests
        /\ companion[p].doing = "opening" /\ companion[p].engine = NoSession
        /\ companion'[p].engine = session /\ session # NoSession
        /\ rooms'[session].root = companion[p].request.root
    <3>1. companion'[p].engine = session
      BY <1>3, <1>t, <2>1 DEF Opened, Companions
    <3>2. rooms'[session].root = companion[p].request.root
      BY <1>3, <1>t, <2>1 DEF Opened
    <3>3. QED
      BY <1>3, <1>t, <3>1, <3>2 DEF Opened, HoldsOne, NoSession
  <2>3. CASE requests[p] = <<[type |-> "leave"]>>
    BY <2>2, <2>3
  <2>4. CASE requests[p] # <<[type |-> "leave"]>>
    <3>1. /\ front.asking = NoRequest /\ Harmless(words[p])
          /\ requests[p] = <<>> /\ companion[p].request.root = front.root
      BY <1>k, <2>2, <2>4 DEF FolderIs
    <3>2. FolderIs(companion[p], requests[p])'
      BY <1>t, <2>2, <3>1 DEF FolderIs
    <3>3. Harmless(words'[p])
      <4>1. PICK standing \in {"hosting", "joined"} :
               standing = IF companion[p].request.type = "host" THEN "hosting" ELSE "joined"
        OBVIOUS
      <4> DEFINE report == [type |-> "report", session |-> session]
      <4>2. PICK waits \in BOOLEAN :
               Say(p, <<Status(standing)>> \o IF waits THEN <<>> ELSE <<report>>)
        BY <1>3, <2>1, <4>1 DEF Opened
      <4>3. /\ Status(standing) \in Messages /\ ~Resets(Status(standing))
            /\ report \in Messages /\ ~Resets(report)
        BY <1>s, <4>1
      <4>4. Harmless(words[p] \o <<Status(standing)>>)
        BY <1>t, <3>1, <4>3, HarmlessStays
      <4>5. CASE waits
        <5>1. words'[p] = words[p] \o <<Status(standing)>>
          BY <1>t, <4>2, <4>3, <4>5 DEF Say
        <5>2. QED
          BY <4>4, <5>1
      <4>6. CASE ~waits
        <5> HIDE DEF report
        <5>1. words'[p] = words[p] \o (<<Status(standing)>> \o <<report>>)
          BY <1>t, <4>2, <4>6 DEF Say
        <5>2. words[p] \o <<Status(standing)>> \in Seq(Messages)
          BY <1>t, <4>3
        <5>3. words'[p] = (words[p] \o <<Status(standing)>>) \o <<report>>
          <6>1. <<Status(standing)>> \in Seq(Messages) /\ <<report>> \in Seq(Messages)
            BY <4>3
          <6>2. QED
            BY <1>t, <5>1, <6>1, ConcatAssociative
        <5>4. QED
          BY <4>3, <4>4, <5>2, <5>3, HarmlessStays
      <4>7. QED
        BY <4>5, <4>6
    <3>4. QED
      BY <1>t, <3>1, <3>2, <3>3
  <2>5. QED
    BY <2>3, <2>4
<1>4. CASE SettleEnds(p)
  <2>1. /\ requests' = requests /\ rooms' = rooms
        /\ companion[p].doing = "settling" /\ companion[p].about \in Nat
        /\ companion'[p].doing = "nothing" /\ companion'[p].engine = companion[p].engine
        /\ words'[p] = words[p] \o <<[type |-> "report", session |-> companion[p].about]>>
    BY <1>4, <1>t DEF SettleEnds, Say, Companions
  <2>2. CASE FolderIs(companion[p], requests[p]) /\ Harmless(words[p])
    <3>1. Harmless(words'[p])
      BY <1>s, <1>t, <2>1, <2>2, HarmlessStays
    <3>2. FolderIs(companion[p], requests[p])'
      BY <1>t, <2>1, <2>2 DEF FolderIs
    <3>3. QED
      BY <1>k, <1>t, <2>1, <2>2, <3>1, <3>2 DEF FolderIs
  <2>3. CASE ~(FolderIs(companion[p], requests[p]) /\ Harmless(words[p]))
    BY <1>k, <2>1, <2>3
  <2>4. QED
    BY <2>2, <2>3
<1>5. CASE TakesLeave(p)
  <2>1. /\ requests[p] # <<>> /\ Head(requests[p]).type = "leave"
        /\ requests'[p] = Tail(requests[p])
        /\ companion'[p].engine = NoSession /\ companion'[p].doing \in {"nothing", "closing"}
    BY <1>5, <1>t DEF TakesLeave, NextRequest, Free, Companions
  <2>2. requests[p] = <<[type |-> "leave"]>>
    <3>1. \A r \in Connections : requests[p] # <<r>>
      BY <2>1 DEF Connections
    <3>2. QED
      BY <1>k, <2>1, <3>1 DEF FolderIs
  <2>3. requests'[p] = <<>>
    BY <2>1, <2>2
  <2>4. QED
    BY <2>1, <2>3
<1>6. CASE Closes(p)
  <2>1. /\ requests' = requests
        /\ companion[p].doing = "closing" /\ companion[p].engine = NoSession
        /\ companion'[p].doing = "nothing" /\ companion'[p].engine = NoSession
    BY <1>6, <1>t DEF Closes, HoldsOne, Companions
  <2>2. QED
    BY <1>k, <2>1 DEF FolderIs
<1>7. CASE RoomEnds(p)
  <2>1. /\ requests' = requests
        /\ companion[p].doing # "opening" /\ companion[p].engine # NoSession
        /\ companion'[p].doing = companion[p].doing /\ companion'[p].engine = NoSession
    BY <1>7, <1>t DEF RoomEnds, HoldsOne, Companions
  <2>2. QED
    BY <1>k, <2>1 DEF FolderIs
<1>8. CASE StdinEnds(p) \/ Dies(p)
  BY <1>8, <1>t DEF StdinEnds, LetsGo, Dies, Running, Companions
<1>9. QED
  BY <1>1, <1>2, <1>3, <1>4, <1>5, <1>6, <1>7, <1>8 DEF Companion, Trouble

LEMMA FolderFirst == Init => AllFoldersKept
  BY DEF Init, AllFoldersKept, FolderKept, NoProcess, Processes

(* A front-end with the same folder recorded, process, words and seats.    *)
LEMMA FolderStays ==
    ASSUME TypeOK, NEW p \in Processes, FolderKept(p),
           front'.process = p =>
              /\ front.process = p /\ front'.root = front.root
              /\ front.asking = NoRequest => front'.asking = NoRequest,
           hasty' = hasty, companion'[p] = companion[p],
           requests'[p] = requests[p], words'[p] = words[p], SeatsStay
    PROVE  FolderKept(p)'
<1>1. companion[p].engine \in 0 .. Len(rooms) /\ rooms \in Seq(Seats)
  BY DEF TypeOK, HoldsOne
<1>2. companion[p].engine # NoSession =>
         rooms'[companion[p].engine].root = rooms[companion[p].engine].root
  BY <1>1 DEF SeatsStay, NoSession
<1>3. front'.process = p /\ FolderIs(companion[p], requests[p])
         => FolderIs(companion[p], requests[p])'
  BY <1>2 DEF FolderIs
<1>4. QED
  BY <1>3 DEF FolderKept, Running

LEMMA FolderHolds ==
    TypeOK /\ Using /\ AllWillAgree /\ AllFoldersKept /\ [Next]_vars => AllFoldersKept'
<1> SUFFICES ASSUME TypeOK, Using, AllWillAgree, AllFoldersKept, [Next]_vars,
                    NEW p \in Processes
             PROVE  FolderKept(p)'
  BY DEF AllFoldersKept
<1>t. /\ companion \in [Processes -> Companions]
      /\ requests \in [Processes -> Seq(Requests)]
      /\ words \in [Processes -> Seq(Messages)]
      /\ rooms \in Seq(Seats)
      /\ front \in Fronts /\ cwd \in Roots
      /\ companion[p] \in Companions
      /\ WillAgree(p) /\ FolderKept(p) /\ Started(p) /\ InUse
  BY DEF TypeOK, AllFoldersKept, AllWillAgree, Using
<1>s. rooms' = rooms => SeatsStay
  BY DEF SeatsStay
<1>z. p # NoProcess
  BY DEF NoProcess, Processes
<1>1. ASSUME NEW what \in {"host", "join"}, Asks(what)
      PROVE  FolderKept(p)'
  <2> SUFFICES ASSUME front'.process = p, Running(p)', ~hasty'
               PROVE  \/ requests'[p] = <<[type |-> "leave"]>>
                      \/ /\ requests'[p] = <<>> /\ companion'[p].engine = NoSession
                         /\ companion'[p].doing # "opening"
    BY DEF FolderKept
  <2>1. front.process = p /\ companion' = companion
    BY <1>1, <1>t DEF Asks, Reset, Fronts
  <2>2. requests[p] = <<>> /\ words[p] = <<>> /\ companion[p].doing = "nothing"
    BY <1>1, <1>z, <2>1 DEF Asks, Silent
  <2>3. CASE InSession
    <3>1. requests'[p] = Append(requests[p], [type |-> "leave"])
      BY <1>1, <1>t, <2>1, <2>3 DEF Asks
    <3>2. QED
      BY <2>2, <3>1
  <2>4. CASE ~InSession
    <3>1. requests' = requests
      BY <1>1, <2>4 DEF Asks
    <3>2. Stands \in States
      BY <1>t DEF Stands, States, Fronts
    <3>3. Agreed(companion[p], Stands)
      <4>1. Leads(Stands, words[p], Stands)
        BY <2>2, <3>2, NothingSaid
      <4>2. Running(p) /\ ~Moot(p)
        BY <2>1, <2>2 DEF Running, Moot, ToldToLeave
      <4>3. QED
        BY <1>t, <2>1, <3>2, <4>1, <4>2 DEF WillAgree
    <3>4. companion[p].engine = NoSession
      BY <2>4, <3>3 DEF Agreed, InRole, Stands, InSession
    <3>5. QED
      BY <2>1, <2>2, <3>1, <3>4
  <2>5. QED
    BY <2>3, <2>4
<1>2. CASE GivesName
  <2>1. PICK q \in Processes :
           /\ Ensure(q)
           /\ front' = Named(q)
           /\ requests' = [requests EXCEPT ![q] =
                              Append(@, [type |-> front.asking.type, root |-> cwd])]
           /\ hasty' = (hasty \/ ~Silent(q))
    BY <1>2 DEF GivesName
  <2>2. /\ front'.process = q /\ front'.root = cwd /\ front'.asking = NoRequest
        /\ words' = words /\ front.asking # NoRequest
    BY <1>2, <1>t, <2>1 DEF GivesName, Named, Fronts
  <2> SUFFICES ASSUME q = p, Running(p)', ~hasty'
               PROVE  FolderKept(p)'
    BY <2>2 DEF FolderKept
  <2>3. requests[p] = <<>> /\ words[p] = <<>> /\ companion[p].doing = "nothing" /\ ~hasty
    BY <2>1 DEF Silent
  <2>4. companion'[p].engine = NoSession /\ companion'[p].doing = "nothing"
    <3>1. CASE front.process # NoProcess
      <4>1. front.process = p /\ companion' = companion
        BY <2>1, <3>1 DEF Ensure
      <4>2. companion[p].engine = NoSession
        BY <1>t, <2>2, <2>3, <4>1 DEF FolderKept, Running
      <4>3. QED
        BY <2>3, <4>1, <4>2
    <3>2. CASE front.process = NoProcess
      <4>1. companion[p].run = "unstarted"
            /\ companion'[p] = [companion[p] EXCEPT !.run = "running"]
        BY <1>t, <2>1, <3>2 DEF Ensure
      <4>2. QED
        BY <1>t, <2>3, <4>1 DEF Started, Running, Companions
    <3>3. QED
      BY <3>1, <3>2
  <2>5. PICK r \in Connections : r = [type |-> front.asking.type, root |-> cwd]
    BY <1>t, <2>2 DEF Fronts, Connections, NoRequest
  <2>6. requests'[p] = <<r>> /\ r.root = cwd
    <3>1. requests'[p] = Append(requests[p], r)
      BY <1>t, <2>1, <2>5
    <3>2. QED
      BY <2>3, <2>5, <3>1
  <2>7. FolderIs(companion[p], requests[p])'
    BY <2>2, <2>4, <2>6 DEF FolderIs
  <2>8. Harmless(words'[p])
    BY <2>2, <2>3 DEF Harmless
  <2>9. QED
    BY <2>2, <2>7, <2>8 DEF FolderKept
<1>3. CASE Leaves
  <2>1. front'.process = NoProcess
    BY <1>3, <1>t DEF Leaves, Reset, Fronts
  <2>2. QED
    BY <1>z, <2>1 DEF FolderKept
<1>4. CASE GivesNoName \/ Moves \/ UNCHANGED vars
  <2>1. /\ front'.process = front.process /\ front'.root = front.root
        /\ front.asking = NoRequest => front'.asking = NoRequest
        /\ UNCHANGED <<companion, words, requests, rooms, hasty>>
    BY <1>4, <1>t DEF GivesNoName, Moves, vars, Fronts
  <2>2. QED
    BY <1>s, <1>t, <2>1, FolderStays
<1>5. ASSUME NEW q \in Processes, FrontHears(q)
      PROVE  FolderKept(p)'
  <2>1. /\ UNCHANGED <<companion, requests, rooms, hasty>>
        /\ words' = [words EXCEPT ![q] = Tail(@)]
        /\ words[q] # <<>> /\ Head(words[q]) \in Messages
        /\ front' = IF front.process = q THEN OnMessage(Head(words[q])) ELSE front
    BY <1>5, <1>t DEF FrontHears
  <2>2. \A message \in Messages :
           /\ OnMessage(message).process = front.process
           /\ OnMessage(message).asking = front.asking
           /\ ~Resets(message) => OnMessage(message).root = front.root
    <3> SUFFICES ASSUME NEW message \in Messages
                 PROVE  /\ OnMessage(message).process = front.process
                        /\ OnMessage(message).asking = front.asking
                        /\ ~Resets(message) => OnMessage(message).root = front.root
      OBVIOUS
    <3>1. CASE message \in [type : {"status"}, state : Statuses]
      <4>1. message.state = "idle" => message = Status("idle")
        BY <3>1 DEF Status
      <4>2. QED
        BY <1>t, <3>1, <4>1 DEF Resets, OnMessage, OnStatus, Reset, Fronts
    <3>2. CASE message \in [type : {"refused", "over"}]
      BY <1>t, <3>2 DEF Resets, OnMessage, Reset, Fronts
    <3>3. CASE message \in [type : {"report"}, session : Nat]
      BY <1>t, <3>3 DEF OnMessage, Fronts
    <3>4. QED
      BY <3>1, <3>2, <3>3 DEF Messages
  <2>3. front'.process = front.process /\ front'.asking = front.asking
    BY <2>1, <2>2
  <2>4. CASE front.process # p
    BY <2>3, <2>4 DEF FolderKept
  <2>5. CASE front.process = p /\ q # p
    <3>1. front' = front /\ words'[p] = words[p]
      BY <1>t, <2>1, <2>5
    <3>2. QED
      BY <1>s, <1>t, <2>1, <3>1, FolderStays
  <2>6. CASE front.process = p /\ q = p
    <3>1. words'[p] = Tail(words[p])
      BY <1>t, <2>1, <2>6
    <3>2. Harmless(words[p]) => Harmless(words'[p]) /\ front'.root = front.root
      <4>1. Harmless(words[p]) => ~Resets(Head(words[p])) /\ Harmless(Tail(words[p]))
        BY <1>t, <2>1, <2>6, HarmlessStays
      <4>2. QED
        BY <2>1, <2>2, <2>6, <3>1, <4>1
    <3>3. FolderIs(companion[p], requests[p]) /\ front'.root = front.root
             => FolderIs(companion[p], requests[p])'
      BY <2>1 DEF FolderIs
    <3>4. QED
      BY <1>t, <2>1, <2>3, <3>2, <3>3 DEF FolderKept, Running
  <2>7. QED
    BY <2>4, <2>5, <2>6
<1>6. ASSUME NEW q \in Processes, FrontHearsExit(q)
      PROVE  FolderKept(p)'
  <2>1. CASE front.process = q
    <3>1. front'.process = NoProcess
      BY <1>6, <1>t, <2>1 DEF FrontHearsExit, Reset, Fronts
    <3>2. QED
      BY <1>z, <3>1 DEF FolderKept
  <2>2. CASE front.process # q
    <3>1. front' = front
      BY <1>6, <2>2 DEF FrontHearsExit
    <3>2. CASE front.process # p
      BY <3>1, <3>2 DEF FolderKept
    <3>3. CASE front.process = p
      <4>1. /\ companion'[p] = companion[p] /\ requests'[p] = requests[p]
            /\ UNCHANGED <<words, rooms, hasty>>
        BY <1>6, <1>t, <2>2, <3>3 DEF FrontHearsExit
      <4>2. QED
        BY <1>s, <1>t, <3>1, <4>1, FolderStays
    <3>4. QED
      BY <3>2, <3>3
  <2>3. QED
    BY <2>1, <2>2
<1>7. ASSUME NEW q \in Processes, Companion(q) \/ Trouble(q)
      PROVE  FolderKept(p)'
  <2>1. CASE q = p
    BY <1>7, <1>t, <2>1, CompanionKeepsFolder
  <2>2. CASE q # p
    <3>1. OneMoves(q)
      BY <1>7, CompanionMoves
    <3>2. /\ companion'[p] = companion[p] /\ requests'[p] = requests[p] /\ words'[p] = words[p]
          /\ front' = front /\ hasty' = hasty /\ SeatsStay
      BY <2>2, <3>1 DEF OneMoves, FrontStays
    <3>3. QED
      BY <1>t, <3>2, FolderStays
  <2>3. QED
    BY <2>1, <2>2
<1>8. QED
  BY <1>1, <1>2, <1>3, <1>4, <1>5, <1>6, <1>7
     DEF Next, Person, System, AsksToHost, AsksToJoin, Front, Companion, Trouble

(***************************************************************************)
(* At rest.                                                                *)
(***************************************************************************)

(* With nothing left to do, every process that runs is the one in use, and *)
(* the front-end has heard what its companion holds.                       *)
LEMMA RestingAgrees ==
    ASSUME TypeOK, Using, AllWillAgree, ~Ready
    PROVE  /\ \A q \in Processes : companion[q].engine # NoSession => q = front.process
           /\ \A q \in Processes :
                 front.process = q =>
                    /\ Running(q) /\ requests[q] = <<>> /\ companion[q].doing = "nothing"
                    /\ Agreed(companion[q], Stands)
<1>1. \A q \in Processes :
         /\ words[q] = <<>> /\ companion[q].run # "exited"
         /\ Running(q) => /\ companion[q].doing = "nothing"
                          /\ requests[q] = <<>> /\ companion[q].stdin
  BY DEF Ready, Busy
<1>2. \A q \in Processes : companion[q].engine # NoSession => q = front.process
  BY <1>1 DEF Using, Started
<1>3. ASSUME NEW q \in Processes, front.process = q
      PROVE  /\ Running(q) /\ requests[q] = <<>> /\ companion[q].doing = "nothing"
             /\ Agreed(companion[q], Stands)
  <2>1. Running(q)
    BY <1>1, <1>3 DEF Using, InUse, Running
  <2>2. requests[q] = <<>> /\ companion[q].doing = "nothing" /\ words[q] = <<>>
    BY <1>1, <2>1
  <2>3. Stands \in States
    BY DEF TypeOK, Stands, States, Fronts
  <2>4. Leads(Stands, words[q], Stands)
    BY <2>2, <2>3, NothingSaid
  <2>5. ~Moot(q)
    BY <2>2 DEF Moot, ToldToLeave
  <2>6. QED
    BY <1>3, <2>1, <2>2, <2>3, <2>4, <2>5 DEF AllWillAgree, WillAgree
<1>4. QED
  BY <1>2, <1>3

(***************************************************************************)
(* Once everything is said and done, the front-end is in a session exactly *)
(* when its companion holds one, in its role, a companion that was let go  *)
(* holds none, and what is shown of a room was reported by that session    *)
(* (SessionLifecycle!ProcessesAgree).                                      *)
(***************************************************************************)
THEOREM TheyAgree == Spec => []ProcessesAgree
<1>1. Init => Using /\ AllWillAgree
  BY UsingFirst, AgreeFirst
<1>2. TypeOK /\ AllLeaveFirst /\ Using /\ AllWillAgree /\ [Next]_vars
         => Using' /\ AllWillAgree'
  BY UsingHolds, AgreeHolds
<1>3. TypeOK /\ Using /\ AllWillAgree => ProcessesAgree
  <2> SUFFICES ASSUME TypeOK, Using, AllWillAgree, ~Ready
               PROVE  /\ IF Held = NoSession THEN front.status \in {"idle", "error"}
                         ELSE front.status = InRole(Held)
                      /\ \A q \in Processes : companion[q].engine # NoSession => q = front.process
                      /\ ~outlived => front.shown = Held
    BY DEF ProcessesAgree, AtRest, InRole
  <2>1. CASE front.process = NoProcess
    BY <2>1, RestingAgrees DEF Held, Using, InUse
  <2>2. CASE front.process # NoProcess
    <3>1. PICK q \in Processes : front.process = q
      BY <2>2 DEF TypeOK, Fronts
    <3>2. companion[q].doing = "nothing" /\ Agreed(companion[q], Stands)
      BY <3>1, RestingAgrees
    <3>3. Held = companion[q].engine
      BY <2>2, <3>1 DEF Held
    <3>4. QED
      BY <3>2, <3>3, RestingAgrees DEF Agreed, Stands
  <2>3. QED
    BY <2>1, <2>2
<1>4. QED
  BY <1>1, <1>2, <1>3, TypeCorrect, LeaveComesFirst, PTL DEF Spec

(***************************************************************************)
(* The folder a host's buffers are measured against is the one its room    *)
(* lists, if the person asked when everything had been answered            *)
(* (SessionLifecycle!RoomSharesItsFolderUnlessHasty).                      *)
(***************************************************************************)
THEOREM FoldersAgree == Spec => []RoomSharesItsFolderUnlessHasty
<1>1. Init => Using /\ AllWillAgree /\ AllFoldersKept
  BY UsingFirst, AgreeFirst, FolderFirst
<1>2. TypeOK /\ AllLeaveFirst /\ Using /\ AllWillAgree /\ AllFoldersKept /\ [Next]_vars
         => Using' /\ AllWillAgree' /\ AllFoldersKept'
  BY UsingHolds, AgreeHolds, FolderHolds
<1>3. TypeOK /\ Using /\ AllWillAgree /\ AllFoldersKept => RoomSharesItsFolderUnlessHasty
  <2> SUFFICES ASSUME TypeOK, Using, AllWillAgree, AllFoldersKept, ~Ready, ~hasty,
                      front.status = "hosting"
               PROVE  front.root = rooms[Held].root
    BY DEF RoomSharesItsFolderUnlessHasty, AtRest
  <2>1. front.process # NoProcess
    BY DEF Using, InUse
  <2>2. PICK q \in Processes : front.process = q
    BY <2>1 DEF TypeOK, Fronts
  <2>3. /\ Running(q) /\ requests[q] = <<>> /\ companion[q].doing = "nothing"
        /\ Agreed(companion[q], Stands)
    BY <2>2, RestingAgrees
  <2>4. companion[q].engine # NoSession
    BY <2>3 DEF Agreed, Stands
  <2>5. rooms[companion[q].engine].root = front.root
    BY <2>2, <2>3, <2>4 DEF AllFoldersKept, FolderKept, FolderIs
  <2>6. QED
    BY <2>1, <2>2, <2>5 DEF Held
<1>4. QED
  BY <1>1, <1>2, <1>3, TypeCorrect, LeaveComesFirst, PTL DEF Spec
=============================================================================
