-------------------------- MODULE DocSync_proofs ---------------------------
(***************************************************************************)
(* What DocSync promises for every scenario: any texts, any units, any     *)
(* number of keystrokes, deletions, reloads, locks, reopens, moves to the  *)
(* mirror, failed writes and refused holds, and any bound on the offers    *)
(* and on the attempts.                                                    *)
(*                                                                         *)
(* First the values of its variables and what its operations do with them. *)
(* Then each invariant, with the strengthening that makes it inductive:    *)
(* the words on the two pipes and the offers they carry (Wired), the trail *)
(* of mirrors that ends at the buffer (Follows), the offers that lag       *)
(* behind it (Landing), who holds the document (Held), what a paused       *)
(* deadline waits for (Resuming), and what an offer that is out will make  *)
(* of the mirror's text and what the room still owes the buffer (Sound,    *)
(* Tended), and where each unit that was typed has got to (Single).        *)
(***************************************************************************)
EXTENDS DocSync, Texts_proofs

(***************************************************************************)
(* The values: the messages on the two pipes, the mirror, the offers, the  *)
(* flight, and what a companion is made of, over any set of units.         *)
(***************************************************************************)
Messages(U) ==
    [type : {"change"}, change : Changes(U)]
    \cup [type : {"open"}, text : Seq(U)]
    \cup [type : {"close"}]
    \cup [type : {"applied", "saved"}, id : Nat, ok : BOOLEAN]
Words(U) ==
    [type : {"applyEdit"}, id : Nat, change : Changes(U), version : Nat, base : Seq(U)]
    \cup [type : {"save"}, id : Nat]
    \cup [type : {"openRefused"}]

Documents(U) == [text : Seq(U), version : Nat]
Flights(U) ==
    [serial : Nat, expected : Seq(U), replica : Seq(U), before : Seq(U), moved : BOOLEAN]
Pendings(U) ==
    [change : Changes(U), version : Nat, withheld : Seq(Changes(U)),
     offered : 0 .. MaxRebasedOffers, serial : Nat]
Outstanding(U) == UNION {[ids -> Pendings(U)] : ids \in SUBSET Nat}

Companions(U) ==
    [document : {NoDocument} \cup Documents(U), applies : Outstanding(U),
     saves : SUBSET Nat, nextId : Nat, sent : Seq(Words(U)),
     open : BOOLEAN, flight : {NoFlight} \cup Flights(U), pending : BOOLEAN,
     attempts : Nat, backstop : BOOLEAN, save : {"none", "armed", "paused"},
     refusedSeed : BOOLEAN, opening : Nat, held : BOOLEAN,
     replica : Seq(U), unscanned : BOOLEAN,
     told : BOOLEAN, accounted : SUBSET U, refused : SUBSET U,
     unshared : SUBSET U, warned : BOOLEAN]

(* The parts of a companion that an operation leaves alone: what it has of *)
(* the document, and what is outstanding with the front-end.               *)
KeepsPath(c, d) ==
    /\ d.document = c.document /\ d.open = c.open /\ d.held = c.held
    /\ d.opening = c.opening /\ d.saves = c.saves
KeepsWire(c, d) ==
    /\ d.applies = c.applies /\ d.sent = c.sent /\ d.nextId = c.nextId
    /\ d.flight = c.flight
Keeps(c, d) == KeepsPath(c, d) /\ KeepsWire(c, d)

(* An offer of a range computed from the mirror as it is, under a new id.  *)
Offered(c, d, serial) ==
    /\ c.document # NoDocument
    /\ d.nextId = c.nextId + 1
    /\ DOMAIN d.applies = DOMAIN c.applies \cup {c.nextId + 1}
    /\ \A i \in DOMAIN c.applies : i # c.nextId + 1 => d.applies[i] = c.applies[i]
    /\ d.applies[c.nextId + 1].version = c.document.version
    /\ d.applies[c.nextId + 1].serial = serial
    /\ d.sent = Append(c.sent, [type |-> "applyEdit", id |-> c.nextId + 1,
                                change |-> d.applies[c.nextId + 1].change,
                                version |-> c.document.version,
                                base |-> c.document.text])

(* The range of an offer leads from the mirror's text to the room's.       *)
Leading(d, id) ==
    /\ d.applies[id].withheld = <<>>
    /\ d.applies[id].change.end <= Len(d.document.text)
    /\ ApplyChange(d.document.text, d.applies[id].change) = d.replica

(* A flight begins, with the offer that is to end it.                      *)
Issued(c, d) ==
    /\ KeepsPath(c, d)
    /\ c.flight = NoFlight /\ d.flight # NoFlight /\ d.flight.serial = c.nextId + 1
    /\ Offered(c, d, c.nextId + 1) /\ Leading(d, c.nextId + 1)

Reconciled(c, d) == Keeps(c, d) \/ Issued(c, d)

(* A paused deadline is left only over a flight, over half a character, or *)
(* over text that the room refused.                                        *)
Unpaused(c) ==
    c.open /\ c.flight = NoFlight /\ c.document # NoDocument /\ ~Malformed(c)
        => c.save # "paused"

LEMMA DocumentIs ==
    \A U : \A d \in {NoDocument} \cup Documents(U) : d # NoDocument <=> d \in Documents(U)
<1>1. \A U : \A d \in Documents(U) : d # NoDocument
  <2>1. ASSUME NEW U, NEW d \in Documents(U) PROVE d # NoDocument
    <3>1. DOMAIN d = {"text", "version"} /\ DOMAIN NoDocument = {"none"}
      BY DEF Documents, NoDocument
    <3>2. QED
      BY <3>1
  <2>2. QED
    BY <2>1
<1>2. QED
  BY <1>1

LEMMA FlightIs ==
    \A U : \A f \in {NoFlight} \cup Flights(U) : f # NoFlight <=> f \in Flights(U)
<1>1. \A U : \A f \in Flights(U) : f # NoFlight
  <2>1. ASSUME NEW U, NEW f \in Flights(U) PROVE f # NoFlight
    <3>1. "serial" \in DOMAIN f /\ DOMAIN NoFlight = {"none"}
      BY DEF Flights, NoFlight
    <3>2. QED
      BY <3>1
  <2>2. QED
    BY <2>1
<1>2. QED
  BY <1>1

LEMMA ReconciledAfter ==
    ASSUME NEW c, NEW d, NEW e, Keeps(c, d), Reconciled(d, e)
    PROVE  Reconciled(c, e)
BY DEF Keeps, KeepsPath, KeepsWire, Reconciled, Issued, Offered

LEMMA ReconciledBefore ==
    ASSUME NEW c, NEW d, NEW e, Reconciled(c, d), Keeps(d, e), e.replica = d.replica
    PROVE  Reconciled(c, e)
BY DEF Keeps, KeepsPath, KeepsWire, Reconciled, Issued, Offered, Leading

LEMMA KeepsAfter ==
    ASSUME NEW c, NEW d, NEW e, Keeps(c, d), Keeps(d, e)
    PROVE  Keeps(c, e)
BY DEF Keeps, KeepsPath, KeepsWire

(***************************************************************************)
(* The deadline of a write, and the reports.                               *)
(***************************************************************************)
LEMMA PauseSaveDoes ==
    ASSUME NEW U, NEW c \in Companions(U), NEW d, d = PauseSave(c)
    PROVE  /\ d \in Companions(U) /\ Keeps(c, d)
           /\ d.replica = c.replica /\ d.pending = c.pending /\ d.refusedSeed = c.refusedSeed
BY DEF Companions, PauseSave, Keeps, KeepsPath, KeepsWire

LEMMA MoveSaveDoes ==
    ASSUME NEW U, NEW c \in Companions(U), NEW d, d = MoveSave(c)
    PROVE  /\ d \in Companions(U) /\ Keeps(c, d) /\ d.save # "paused"
           /\ d.replica = c.replica /\ d.pending = c.pending /\ d.refusedSeed = c.refusedSeed
BY DEF Companions, MoveSave, Keeps, KeepsPath, KeepsWire

LEMMA ResumeSaveDoes ==
    ASSUME NEW U, NEW c \in Companions(U), NEW d, d = ResumeSave(c)
    PROVE  /\ d \in Companions(U) /\ Keeps(c, d) /\ Unpaused(d)
           /\ d.replica = c.replica /\ d.pending = c.pending /\ d.refusedSeed = c.refusedSeed
BY DEF Companions, ResumeSave, Keeps, KeepsPath, KeepsWire, Unpaused

LEMMA CalmDoes ==
    ASSUME NEW U, NEW c \in Companions(U), NEW d, d = Calm(c)
    PROVE  /\ d \in Companions(U) /\ Keeps(c, d) /\ d.save = c.save
           /\ d.replica = c.replica /\ d.pending = c.pending /\ d.refusedSeed = c.refusedSeed
BY DEF Companions, Calm, Keeps, KeepsPath, KeepsWire

LEMMA AccountDoes ==
    ASSUME NEW U, NEW c \in Companions(U), c.document # NoDocument, NEW d, d = Account(c)
    PROVE  /\ d \in Companions(U) /\ Keeps(c, d) /\ d.save = c.save
           /\ d.replica = c.replica /\ d.pending = c.pending /\ d.refusedSeed = c.refusedSeed
<1> DEFINE more == c.accounted \cup (Units(c.document.text) \ Units(c.replica))
<1>1. c.document \in Documents(U)
  BY DocumentIs DEF Companions
<1>2. Units(c.document.text) \subseteq U
  BY <1>1, UnitsTyped DEF Documents
<1>3. more \in SUBSET U
  BY <1>2 DEF Companions
<1>4. d \in {c, [c EXCEPT !.accounted = more]}
  BY DEF Account, Companions
<1> HIDE DEF more
<1>5. QED
  BY <1>3, <1>4 DEF Companions, Keeps, KeepsPath, KeepsWire

LEMMA ReportDoes ==
    ASSUME NEW U, NEW c \in Companions(U), c.document # NoDocument, NEW d, d = Report(c)
    PROVE  /\ d \in Companions(U) /\ Keeps(c, d) /\ d.save = c.save
           /\ d.replica = c.replica /\ d.pending = c.pending /\ d.refusedSeed = c.refusedSeed
<1> DEFINE e == [c EXCEPT !.told = TRUE, !.warned = TRUE]
<1>1. /\ e \in Companions(U) /\ Keeps(c, e) /\ e.save = c.save /\ e.document = c.document
      /\ e.replica = c.replica /\ e.pending = c.pending /\ e.refusedSeed = c.refusedSeed
  BY DEF Companions, Keeps, KeepsPath, KeepsWire
<1>2. d = Account(e)
  BY DEF Report
<1> HIDE DEF e
<1>3. QED
  BY <1>1, <1>2, AccountDoes, KeepsAfter

LEMMA ReportRefusedDoes ==
    ASSUME NEW U, NEW c \in Companions(U), c.document # NoDocument, NEW d, d = ReportRefused(c)
    PROVE  /\ d \in Companions(U) /\ Keeps(c, d) /\ d.save = c.save
           /\ d.replica = c.replica /\ d.pending = c.pending /\ d.refusedSeed = c.refusedSeed
<1> DEFINE more == c.refused \cup (Units(c.replica) \ Units(c.document.text))
           e == [c EXCEPT !.refused = more]
<1>1. Units(c.replica) \subseteq U
  BY UnitsTyped DEF Companions
<1>2. more \in SUBSET U
  BY <1>1 DEF Companions
<1>3. d = Report(e)
  BY DEF ReportRefused, Companions
<1> HIDE DEF more
<1>4. /\ e \in Companions(U) /\ Keeps(c, e) /\ e.save = c.save /\ e.document = c.document
      /\ e.replica = c.replica /\ e.pending = c.pending /\ e.refusedSeed = c.refusedSeed
  BY <1>2 DEF Companions, Keeps, KeepsPath, KeepsWire
<1> HIDE DEF e
<1>5. QED
  BY <1>3, <1>4, ReportDoes, KeepsAfter

(***************************************************************************)
(* Offers and flights.                                                     *)
(***************************************************************************)
LEMMA OfferDoes ==
    ASSUME NEW U, NEW c \in Companions(U), c.document # NoDocument,
           NEW pending \in Pendings(U), pending.version = c.document.version,
           NEW d, d = Offer(c, pending)
    PROVE  /\ d \in Companions(U) /\ KeepsPath(c, d) /\ Offered(c, d, pending.serial)
           /\ d.flight = c.flight /\ d.save = c.save /\ d.replica = c.replica
           /\ d.pending = c.pending /\ d.refusedSeed = c.refusedSeed
           /\ d.applies[c.nextId + 1] = pending
<1> DEFINE id == c.nextId + 1
           more == [i \in DOMAIN c.applies \cup {id} |-> IF i = id THEN pending ELSE c.applies[i]]
           word == [type |-> "applyEdit", id |-> id, change |-> pending.change,
                    version |-> pending.version, base |-> c.document.text]
           said == Append(c.sent, word)
<1>1. d = [c EXCEPT !.nextId = id, !.applies = more, !.sent = said]
  BY DEF Offer, Companions
<1>2. id \in Nat
  BY DEF Companions
<1>3. c.document \in Documents(U)
  BY DocumentIs DEF Companions
<1>4. word \in Words(U)
  BY <1>2, <1>3 DEF Words, Pendings, Documents
<1>5. said \in Seq(Words(U))
  <2>1. c.sent \in Seq(Words(U))
    BY DEF Companions
  <2> HIDE DEF word
  <2>2. QED
    BY <1>4, <2>1
<1>6. /\ more \in Outstanding(U) /\ DOMAIN more = DOMAIN c.applies \cup {id}
      /\ \A i \in DOMAIN c.applies : i # id => more[i] = c.applies[i]
      /\ more[id] = pending
  <2>1. PICK ids \in SUBSET Nat : c.applies \in [ids -> Pendings(U)]
    BY DEF Companions, Outstanding
  <2>2. ids \cup {id} \in SUBSET Nat
    BY <1>2
  <2> HIDE DEF id
  <2>3. more \in [ids \cup {id} -> Pendings(U)]
    BY <2>1
  <2>4. QED
    BY <2>1, <2>2, <2>3 DEF Outstanding
<1>7. pending.change = more[id].change
  BY <1>6
<1> HIDE DEF more, said
<1>8. /\ d \in Companions(U) /\ d.nextId = id /\ d.applies = more /\ d.sent = said
      /\ KeepsPath(c, d)
      /\ d.flight = c.flight /\ d.save = c.save /\ d.replica = c.replica
      /\ d.pending = c.pending /\ d.refusedSeed = c.refusedSeed
  <2>1. d \in Companions(U)
    BY <1>1, <1>2, <1>5, <1>6, ZenonT(60) DEF Companions
  <2>2. d.nextId = id /\ d.applies = more /\ d.sent = said
    BY <1>1 DEF Companions
  <2>3. KeepsPath(c, d)
    BY <1>1 DEF Companions, KeepsPath
  <2>4. /\ d.flight = c.flight /\ d.save = c.save /\ d.replica = c.replica
        /\ d.pending = c.pending /\ d.refusedSeed = c.refusedSeed
    BY <1>1 DEF Companions
  <2>5. QED
    BY <2>1, <2>2, <2>3, <2>4
<1>9. Offered(c, d, pending.serial)
  BY <1>6, <1>7, <1>8 DEF Offered, said
<1>10. QED
  BY <1>6, <1>8, <1>9

LEMMA IssueDoes ==
    ASSUME NEW U, NEW c \in Companions(U), c.document # NoDocument, c.flight = NoFlight,
           NEW change \in Changes(U), NEW expected \in Seq(U),
           change.end <= Len(c.document.text),
           ApplyChange(c.document.text, change) = c.replica,
           NEW d, d = Issue(c, change, expected)
    PROVE  d \in Companions(U) /\ Issued(c, d) /\ d.save = c.save
<1> DEFINE flight == [serial |-> c.nextId + 1, expected |-> expected,
                      replica |-> c.replica, before |-> c.document.text, moved |-> FALSE]
           e == [c EXCEPT !.flight = flight]
           pending == [change |-> change, version |-> c.document.version, withheld |-> <<>>,
                       offered |-> 0, serial |-> c.nextId + 1]
<1>1. c.document \in Documents(U) /\ c.nextId \in Nat /\ c.replica \in Seq(U)
  BY DocumentIs DEF Companions
<1>2. flight \in Flights(U)
  BY <1>1 DEF Flights, Documents
<1>3. pending \in Pendings(U)
  BY <1>1, BoundsAreCounts DEF Pendings, Documents
<1>4. d = Offer(e, pending)
  BY DEF Issue
<1>5. flight # NoFlight /\ flight.serial = c.nextId + 1
  BY <1>2, FlightIs
<1> HIDE DEF flight
<1>6. /\ e \in Companions(U) /\ KeepsPath(c, e) /\ e.flight = flight /\ e.save = c.save
      /\ e.document = c.document /\ e.applies = c.applies /\ e.sent = c.sent
      /\ e.nextId = c.nextId /\ e.replica = c.replica
  BY <1>2 DEF Companions, KeepsPath
<1>7. /\ pending.version = e.document.version /\ pending.serial = c.nextId + 1
      /\ pending.change = change /\ pending.withheld = <<>>
  BY <1>6
<1> HIDE DEF e, pending
<1>8. /\ d \in Companions(U) /\ KeepsPath(e, d) /\ Offered(e, d, c.nextId + 1)
      /\ d.flight = e.flight /\ d.save = e.save /\ d.replica = e.replica
      /\ d.applies[c.nextId + 1] = pending
  BY <1>3, <1>4, <1>6, <1>7, OfferDoes
<1>9. Offered(c, d, c.nextId + 1)
  BY <1>6, <1>8 DEF Offered
<1>10. KeepsPath(c, d)
  BY <1>6, <1>8 DEF KeepsPath
<1>11. Leading(d, c.nextId + 1)
  BY <1>6, <1>7, <1>8, <1>10 DEF Leading, KeepsPath
<1>12. QED
  BY <1>5, <1>6, <1>8, <1>9, <1>10, <1>11 DEF Issued

(* A text with half a character is told of and left, its write on hold.    *)
LEMMA HalfDoes ==
    ASSUME NEW U, NEW c \in Companions(U), c.document # NoDocument, c.flight = NoFlight,
           Malformed(c), NEW d, d = Reconcile(c)
    PROVE  /\ d \in Companions(U) /\ Keeps(c, d) /\ d.replica = c.replica
           /\ d.pending = c.pending /\ d.refusedSeed = c.refusedSeed
<1> DEFINE p == PauseSave(c)
           e == [p EXCEPT !.backstop = FALSE]
<1>1. d = ReportRefused(e)
  BY DEF Reconcile
<1>2. /\ p \in Companions(U) /\ Keeps(c, p) /\ p.replica = c.replica
      /\ p.pending = c.pending /\ p.refusedSeed = c.refusedSeed
  BY PauseSaveDoes
<1> HIDE DEF p
<1>3. /\ e \in Companions(U) /\ Keeps(p, e) /\ e.replica = p.replica
      /\ e.pending = p.pending /\ e.refusedSeed = p.refusedSeed
  BY <1>2 DEF Companions, Keeps, KeepsPath, KeepsWire
<1> HIDE DEF e
<1>4. Keeps(c, e) /\ e.document # NoDocument
  BY <1>2, <1>3, KeepsAfter DEF Keeps, KeepsPath
<1>5. QED
  BY <1>1, <1>2, <1>3, <1>4, ReportRefusedDoes, KeepsAfter

LEMMA ReconcileDoes ==
    ASSUME NEW U, NEW c \in Companions(U), NEW d, d = Reconcile(c)
    PROVE  /\ d \in Companions(U) /\ Reconciled(c, d) /\ Unpaused(d)
           /\ c.flight # NoFlight => Keeps(c, d)
<1>1. CASE c.flight # NoFlight
  <2> DEFINE e == PauseSave(c)
  <2>1. d = [e EXCEPT !.pending = TRUE]
    BY <1>1 DEF Reconcile
  <2>2. e \in Companions(U) /\ Keeps(c, e)
    BY PauseSaveDoes
  <2> HIDE DEF e
  <2>3. d \in Companions(U) /\ Keeps(e, d) /\ d.flight = e.flight
    BY <2>1, <2>2 DEF Companions, Keeps, KeepsPath, KeepsWire
  <2>4. Keeps(c, d)
    BY <2>2, <2>3, KeepsAfter
  <2>5. d.flight # NoFlight
    BY <1>1, <2>4 DEF Keeps, KeepsWire
  <2>6. QED
    BY <2>3, <2>4, <2>5 DEF Reconciled, Unpaused
<1>2. CASE c.flight = NoFlight /\ c.document = NoDocument
  BY <1>2 DEF Reconcile, Reconciled, Keeps, KeepsPath, KeepsWire, Unpaused
<1>3. CASE /\ c.flight = NoFlight /\ c.document # NoDocument /\ ~Malformed(c)
           /\ c.document.text = c.replica
  <2> DEFINE e == Calm(c)
             f == [e EXCEPT !.backstop = FALSE]
  <2>1. d = ResumeSave(f)
    BY <1>3 DEF Reconcile
  <2>2. e \in Companions(U) /\ Keeps(c, e)
    BY CalmDoes
  <2> HIDE DEF e
  <2>3. f \in Companions(U) /\ Keeps(e, f)
    BY <2>2 DEF Companions, Keeps, KeepsPath, KeepsWire
  <2> HIDE DEF f
  <2>4. d \in Companions(U) /\ Keeps(f, d) /\ Unpaused(d)
    BY <2>1, <2>3, ResumeSaveDoes
  <2>5. Keeps(c, d)
    BY <2>2, <2>3, <2>4, KeepsAfter
  <2>6. QED
    BY <1>3, <2>4, <2>5 DEF Reconciled
<1>4. CASE /\ c.flight = NoFlight /\ c.document # NoDocument /\ ~Malformed(c)
           /\ c.document.text # c.replica
  <2> DEFINE change == Diff(c.document.text, c.replica)
             e == Issue(c, change, c.replica)
  <2>1. d = [e EXCEPT !.save = "armed", !.backstop = TRUE]
    BY <1>4 DEF Reconcile
  <2>2. c.document \in Documents(U) /\ c.replica \in Seq(U)
    BY <1>4, DocumentIs DEF Companions
  <2>3. c.document.text \in Seq(U)
    BY <2>2 DEF Documents
  <2>4. /\ change \in Changes(U) /\ change.end <= Len(c.document.text)
        /\ ApplyChange(c.document.text, change) = c.replica
    BY <2>2, <2>3, DiffTyped, DiffEnds, DiffLeads
  <2> HIDE DEF change
  <2>5. e \in Companions(U) /\ Issued(c, e)
    BY <1>4, <2>2, <2>4, IssueDoes
  <2> HIDE DEF e
  <2>6. d \in Companions(U) /\ Keeps(e, d) /\ d.replica = e.replica
    BY <2>1, <2>5, ZenonT(60) DEF Companions, Keeps, KeepsPath, KeepsWire
  <2>7. Reconciled(c, d)
    BY <2>5, <2>6, ReconciledBefore DEF Reconciled
  <2>8. d.flight # NoFlight
    BY <2>5, <2>6 DEF Issued, Keeps, KeepsWire
  <2>9. QED
    BY <1>4, <2>6, <2>7, <2>8 DEF Unpaused
<1>5. CASE c.flight = NoFlight /\ c.document # NoDocument /\ Malformed(c)
  <2>1. d \in Companions(U) /\ Keeps(c, d) /\ d.replica = c.replica
    BY <1>5, HalfDoes
  <2>2. Malformed(d)
    BY <1>5, <2>1 DEF Malformed, Keeps, KeepsPath
  <2>3. QED
    BY <1>5, <2>1, <2>2 DEF Reconciled, Unpaused
<1>6. QED
  BY <1>1, <1>2, <1>3, <1>4, <1>5

(* What publishing leaves of the deadline, if the two texts differ.        *)
PausedOverRefused(c) == c.refusedSeed /\ c.document.text # c.replica

LEMMA PublishDoes ==
    ASSUME NEW U, NEW c \in Companions(U), c.document # NoDocument, NEW d, d = Publish(c)
    PROVE  /\ d \in Companions(U) /\ Keeps(c, d) /\ d.pending = c.pending
           /\ \/ d.save = c.save
              \/ c.document.text # c.replica => PausedOverRefused(d)
<1>1. c.document \in Documents(U) /\ c.replica \in Seq(U)
  BY DocumentIs DEF Companions
<1>2. c.document.text \in Seq(U)
  BY <1>1 DEF Documents
<1>3. CASE Refuses(c)
  <2> DEFINE e == PauseSave(c)
             own == Units(c.document.text) \ Units(c.replica)
             quiet == [e EXCEPT !.backstop = FALSE, !.refusedSeed = TRUE,
                                !.unshared = @ \cup own, !.accounted = @ \cup own]
  <2>1. /\ e \in Companions(U) /\ Keeps(c, e)
        /\ e.replica = c.replica /\ e.pending = c.pending
    BY PauseSaveDoes
  <2>2. own \in SUBSET U
    BY <1>2, UnitsTyped
  <2>3. e.unshared \cup own \in SUBSET U /\ e.accounted \cup own \in SUBSET U
    BY <2>1, <2>2 DEF Companions
  <2>4. d = IF c.refusedSeed THEN quiet ELSE Report(quiet)
    BY <1>3 DEF Publish
  <2> HIDE DEF own, e
  <2>5. /\ quiet \in Companions(U) /\ Keeps(e, quiet) /\ quiet.refusedSeed
        /\ quiet.replica = e.replica /\ quiet.pending = e.pending
    BY <2>1, <2>3 DEF Companions, Keeps, KeepsPath, KeepsWire
  <2> HIDE DEF quiet
  <2>6. Keeps(c, quiet)
    BY <2>1, <2>5, KeepsAfter
  <2>7. quiet.document # NoDocument
    BY <2>6 DEF Keeps, KeepsPath
  <2>8. /\ d \in Companions(U) /\ Keeps(quiet, d) /\ d.refusedSeed
        /\ d.replica = quiet.replica /\ d.pending = quiet.pending
    <3>1. CASE c.refusedSeed
      BY <2>4, <2>5, <3>1 DEF Keeps, KeepsPath, KeepsWire
    <3>2. CASE ~c.refusedSeed
      BY <2>4, <2>5, <2>7, <3>2, ReportDoes
    <3>3. QED
      BY <3>1, <3>2
  <2>9. Keeps(c, d)
    BY <2>6, <2>8, KeepsAfter
  <2>10. QED
    BY <2>1, <2>5, <2>8, <2>9 DEF PausedOverRefused, Keeps, KeepsPath
<1>4. CASE ~Refuses(c)
  <2> DEFINE new == ApplyChange(c.replica, Diff(c.replica, c.document.text))
  <2>1. Diff(c.replica, c.document.text) \in Changes(U)
    BY <1>1, <1>2, DiffTyped
  <2>2. new \in Seq(U)
    BY <1>1, <2>1, ApplyTyped
  <2>3. d = [c EXCEPT !.replica = new, !.unscanned = TRUE]
    BY <1>4 DEF Publish, Companions
  <2> HIDE DEF new
  <2>4. d \in Companions(U)
    BY <2>2, <2>3 DEF Companions
  <2>5. KeepsPath(c, d) /\ KeepsWire(c, d) /\ d.pending = c.pending /\ d.save = c.save
    BY <2>3 DEF Companions, KeepsPath, KeepsWire
  <2>6. QED
    BY <2>4, <2>5 DEF Keeps
<1>5. QED
  BY <1>3, <1>4

LEMMA RefuseDoes ==
    ASSUME NEW U, NEW c \in Companions(U), c.document # NoDocument, NEW moved,
           NEW d, d = Refuse(c, moved)
    PROVE  d \in Companions(U) /\ Reconciled(c, d)
<1> DEFINE tried == [c EXCEPT !.attempts = @ + 1]
<1>1. tried \in Companions(U) /\ Keeps(c, tried)
  <2> DEFINE more == c.attempts + 1
  <2>1. more \in Nat /\ tried = [c EXCEPT !.attempts = more]
    BY DEF Companions
  <2> HIDE DEF more, tried
  <2>2. QED
    BY <2>1 DEF Companions, Keeps, KeepsPath, KeepsWire
<1>2. d = CASE tried.attempts >= MaxApplyAttempts ->
                ReportRefused([tried EXCEPT !.pending = FALSE, !.backstop = FALSE])
            [] tried.attempts < MaxApplyAttempts /\ moved /\ tried.attempts = 1 ->
                Reconcile(Report(tried))
            [] OTHER -> Reconcile(Account(tried))
  BY DEF Refuse
<1> HIDE DEF tried
<1>3. tried.attempts \in Nat /\ MaxApplyAttempts \in Nat /\ tried.document # NoDocument
  BY <1>1, BoundsAreCounts DEF Companions, Keeps, KeepsPath
<1>4. CASE tried.attempts >= MaxApplyAttempts
  <2> DEFINE e == [tried EXCEPT !.pending = FALSE, !.backstop = FALSE]
  <2>1. d = ReportRefused(e)
    BY <1>2, <1>3, <1>4
  <2>2. e \in Companions(U) /\ Keeps(tried, e) /\ e.document # NoDocument
    BY <1>1, <1>3 DEF Companions, Keeps, KeepsPath, KeepsWire
  <2> HIDE DEF e
  <2>3. d \in Companions(U) /\ Keeps(e, d)
    BY <2>1, <2>2, ReportRefusedDoes
  <2>4. QED
    BY <1>1, <2>2, <2>3, KeepsAfter DEF Reconciled
<1>5. CASE tried.attempts < MaxApplyAttempts
  <2>1. PICK e \in {Report(tried), Account(tried)} : d = Reconcile(e)
    BY <1>2, <1>3, <1>5
  <2>2. e \in Companions(U) /\ Keeps(tried, e)
    BY <1>1, <1>3, <2>1, ReportDoes, AccountDoes
  <2>3. d \in Companions(U) /\ Reconciled(e, d)
    BY <2>1, <2>2, ReconcileDoes
  <2>4. QED
    BY <1>1, <2>2, <2>3, KeepsAfter, ReconciledAfter
<1>6. QED
  BY <1>3, <1>4, <1>5

LEMMA PublishWindowDoes ==
    ASSUME NEW U, NEW c \in Companions(U), c.document # NoDocument, NEW flight,
           NEW d, d = PublishWindow(c, flight)
    PROVE  d \in Companions(U) /\ Keeps(c, d)
<1>1. CASE d = c
  BY <1>1 DEF Keeps, KeepsPath, KeepsWire
<1>2. CASE d = Report(c)
  BY <1>2, ReportDoes
<1>3. CASE d = Publish(c)
  BY <1>3, PublishDoes
<1>4. CASE d = [Publish(c) EXCEPT !.pending = FALSE, !.backstop = FALSE]
  <2> DEFINE e == Publish(c)
  <2>1. e \in Companions(U) /\ Keeps(c, e)
    BY PublishDoes
  <2> HIDE DEF e
  <2>2. d = [e EXCEPT !.pending = FALSE, !.backstop = FALSE]
    BY <1>4 DEF e
  <2>3. d \in Companions(U) /\ Keeps(e, d)
    BY <2>1, <2>2, ZenonT(60) DEF Companions, Keeps, KeepsPath, KeepsWire
  <2>4. QED
    BY <2>1, <2>3, KeepsAfter
<1>5. d \in {c, Report(c), Publish(c), [Publish(c) EXCEPT !.pending = FALSE, !.backstop = FALSE]}
  BY DEF PublishWindow
<1>6. QED
  BY <1>1, <1>2, <1>3, <1>4, <1>5

LEMMA ReconcilePendingDoes ==
    ASSUME NEW U, NEW c \in Companions(U), NEW d, d = ReconcilePending(c)
    PROVE  d \in Companions(U) /\ Reconciled(c, d)
<1>1. CASE c.pending
  <2> DEFINE e == [c EXCEPT !.pending = FALSE]
  <2>1. e \in Companions(U) /\ Keeps(c, e)
    BY DEF Companions, Keeps, KeepsPath, KeepsWire
  <2>2. d = Reconcile(e)
    BY <1>1 DEF ReconcilePending
  <2> HIDE DEF e
  <2>3. QED
    BY <2>1, <2>2, ReconcileDoes, ReconciledAfter
<1>2. CASE ~c.pending
  BY <1>2 DEF ReconcilePending, Reconciled, Keeps, KeepsPath, KeepsWire
<1>3. QED
  BY <1>1, <1>2

(* The flight of an apply is over.                                         *)
Landed(c) == [c EXCEPT !.flight = NoFlight]

LEMMA SettleDoes ==
    ASSUME NEW U, NEW c \in Companions(U), c.open => c.document # NoDocument,
           NEW applied \in BOOLEAN, NEW d, d = Settle(c, applied)
    PROVE  d \in Companions(U) /\ Reconciled(Landed(c), d) /\ Unpaused(d)
<1> DEFINE landed == Landed(c)
<1>1. landed \in Companions(U) /\ landed.open = c.open /\ landed.document = c.document
  BY DEF Companions, Landed
<1>2. d = CASE ~c.open -> landed
            [] c.open /\ ~applied -> ResumeSave(Refuse(landed, c.flight.moved))
            [] c.open /\ applied ->
                  ResumeSave(ReconcilePending(PublishWindow(Calm(landed), c.flight)))
  BY DEF Settle, Landed
<1> HIDE DEF landed
<1>3. CASE ~c.open
  BY <1>1, <1>2, <1>3 DEF Reconciled, Keeps, KeepsPath, KeepsWire, Unpaused, landed
<1>4. CASE c.open /\ ~applied
  <2> DEFINE e == Refuse(landed, c.flight.moved)
  <2>1. e \in Companions(U) /\ Reconciled(landed, e)
    BY <1>1, <1>4, RefuseDoes
  <2>2. d = ResumeSave(e)
    BY <1>2, <1>4
  <2> HIDE DEF e
  <2>3. d \in Companions(U) /\ Keeps(e, d) /\ Unpaused(d) /\ d.replica = e.replica
    BY <2>1, <2>2, ResumeSaveDoes
  <2>4. Reconciled(landed, d)
    BY <2>1, <2>3, ReconciledBefore
  <2>5. QED
    BY <2>3, <2>4 DEF landed
<1>5. CASE c.open /\ applied
  <2> DEFINE e == Calm(landed)
             f == PublishWindow(e, c.flight)
             g == ReconcilePending(f)
  <2>1. e \in Companions(U) /\ Keeps(landed, e) /\ e.document # NoDocument
    <3>1. e \in Companions(U) /\ Keeps(landed, e)
      BY <1>1, CalmDoes
    <3>2. QED
      BY <1>1, <1>5, <3>1 DEF Keeps, KeepsPath
  <2>2. d = ResumeSave(g)
    BY <1>2, <1>5
  <2> HIDE DEF e
  <2>3. f \in Companions(U) /\ Keeps(e, f)
    BY <2>1, PublishWindowDoes
  <2> HIDE DEF f
  <2>4. g \in Companions(U) /\ Reconciled(f, g)
    BY <2>3, ReconcilePendingDoes
  <2> HIDE DEF g
  <2>5. d \in Companions(U) /\ Keeps(g, d) /\ Unpaused(d) /\ d.replica = g.replica
    BY <2>2, <2>4, ResumeSaveDoes
  <2>6. Keeps(landed, f)
    BY <2>1, <2>3, KeepsAfter
  <2>7. Reconciled(landed, g)
    BY <2>4, <2>6, ReconciledAfter
  <2>8. Reconciled(landed, d)
    BY <2>5, <2>7, ReconciledBefore
  <2>9. QED
    BY <2>5, <2>8 DEF landed
<1>6. QED
  BY <1>3, <1>4, <1>5

(***************************************************************************)
(* The answer to an offer.                                                 *)
(***************************************************************************)
Resolves(c, serial, d) ==
    IF c.flight # NoFlight /\ c.flight.serial = serial
    THEN Reconciled(Landed(c), d) /\ Unpaused(d)
    ELSE d = c

LEMMA ResolveDoes ==
    ASSUME NEW U, NEW c \in Companions(U), c.open => c.document # NoDocument,
           NEW pending, NEW applied \in BOOLEAN, NEW d, d = Resolve(c, pending, applied)
    PROVE  d \in Companions(U) /\ Resolves(c, pending.serial, d)
BY SettleDoes DEF Resolve, Resolves

Took(c, id, ok) == ok /\ c.document # NoDocument /\ c.document.version = c.applies[id].version

(* The offer is off the list, and where it was taken the mirror has it.    *)
Answered(c, id) == [c EXCEPT !.applies = [i \in DOMAIN @ \ {id} |-> @[i]]]
Read(c, id, ok) ==
    IF Took(c, id, ok)
    THEN [Answered(c, id) EXCEPT !.document = Take(@, c.applies[id].change)]
    ELSE Answered(c, id)

LEMMA TakeTyped ==
    ASSUME NEW U, NEW document \in Documents(U), NEW change \in Changes(U)
    PROVE  Take(document, change) \in Documents(U)
<1> DEFINE text == ApplyChange(document.text, change)
           version == document.version + 1
<1>1. text \in Seq(U)
  BY ApplyTyped DEF Documents
<1>2. version \in Nat
  BY DEF Documents
<1>3. Take(document, change) = [document EXCEPT !.text = text, !.version = version]
  BY DEF Take, Documents
<1> HIDE DEF text, version
<1>4. QED
  BY <1>1, <1>2, <1>3 DEF Documents

LEMMA OutstandingIs ==
    ASSUME NEW U, NEW applies \in Outstanding(U)
    PROVE  /\ DOMAIN applies \subseteq Nat
           /\ \A i \in DOMAIN applies : applies[i] \in Pendings(U)
           /\ applies \in [DOMAIN applies -> Pendings(U)]
BY DEF Outstanding

LEMMA AnsweredDoes ==
    ASSUME NEW U, NEW c \in Companions(U), NEW id, NEW d, d = Answered(c, id)
    PROVE  /\ d \in Companions(U)
           /\ DOMAIN d.applies = DOMAIN c.applies \ {id}
           /\ \A i \in DOMAIN c.applies \ {id} : d.applies[i] = c.applies[i]
           /\ KeepsPath(c, d) /\ d.sent = c.sent /\ d.nextId = c.nextId /\ d.flight = c.flight
           /\ d.save = c.save /\ d.replica = c.replica /\ d.refusedSeed = c.refusedSeed
<1> DEFINE rest == [i \in DOMAIN c.applies \ {id} |-> c.applies[i]]
<1>1. c.applies \in [DOMAIN c.applies -> Pendings(U)] /\ DOMAIN c.applies \subseteq Nat
  BY OutstandingIs DEF Companions
<1>2. /\ rest \in Outstanding(U) /\ DOMAIN rest = DOMAIN c.applies \ {id}
      /\ \A i \in DOMAIN c.applies \ {id} : rest[i] = c.applies[i]
  <2>1. DOMAIN c.applies \ {id} \in SUBSET Nat
    BY <1>1
  <2>2. rest \in [DOMAIN c.applies \ {id} -> Pendings(U)]
    BY <1>1
  <2>3. QED
    BY <2>1, <2>2 DEF Outstanding
<1>3. d = [c EXCEPT !.applies = rest]
  BY DEF Answered, Companions
<1> HIDE DEF rest
<1>4. QED
  BY <1>2, <1>3, ZenonT(60) DEF Companions, KeepsPath

LEMMA ReadDoes ==
    ASSUME NEW U, NEW c \in Companions(U), c.open => c.document # NoDocument,
           NEW id \in DOMAIN c.applies, NEW ok \in BOOLEAN,
           NEW d, d = Read(c, id, ok)
    PROVE  /\ d \in Companions(U)
           /\ DOMAIN d.applies = DOMAIN c.applies \ {id}
           /\ \A i \in DOMAIN c.applies \ {id} : d.applies[i] = c.applies[i]
           /\ d.open = c.open /\ d.held = c.held /\ d.opening = c.opening /\ d.saves = c.saves
           /\ d.sent = c.sent /\ d.nextId = c.nextId /\ d.flight = c.flight
           /\ d.save = c.save /\ d.replica = c.replica /\ d.refusedSeed = c.refusedSeed
           /\ d.document = IF Took(c, id, ok) THEN Take(c.document, c.applies[id].change)
                           ELSE c.document
           /\ d.document = NoDocument <=> c.document = NoDocument
<1> DEFINE a == Answered(c, id)
<1>1. /\ a \in Companions(U)
      /\ DOMAIN a.applies = DOMAIN c.applies \ {id}
      /\ \A i \in DOMAIN c.applies \ {id} : a.applies[i] = c.applies[i]
      /\ KeepsPath(c, a) /\ a.sent = c.sent /\ a.nextId = c.nextId /\ a.flight = c.flight
      /\ a.save = c.save /\ a.replica = c.replica /\ a.refusedSeed = c.refusedSeed
  BY AnsweredDoes
<1>2. d = IF Took(c, id, ok) THEN [a EXCEPT !.document = Take(@, c.applies[id].change)] ELSE a
  BY DEF Read
<1> HIDE DEF a
<1>3. CASE ~Took(c, id, ok)
  BY <1>1, <1>2, <1>3 DEF KeepsPath
<1>4. CASE Took(c, id, ok)
  <2> DEFINE new == Take(c.document, c.applies[id].change)
  <2>1. c.document \in Documents(U) /\ c.applies[id].change \in Changes(U)
    BY <1>4, DocumentIs, OutstandingIs DEF Took, Companions, Pendings
  <2>2. new \in Documents(U)
    BY <2>1, TakeTyped
  <2>3. d = [a EXCEPT !.document = new]
    BY <1>1, <1>2, <1>4 DEF KeepsPath, Companions
  <2> HIDE DEF new
  <2>4. /\ d \in Companions(U) /\ d.document = new /\ d.applies = a.applies
        /\ d.open = a.open /\ d.held = a.held /\ d.opening = a.opening /\ d.saves = a.saves
        /\ d.sent = a.sent /\ d.nextId = a.nextId /\ d.flight = a.flight
        /\ d.save = a.save /\ d.replica = a.replica /\ d.refusedSeed = a.refusedSeed
    BY <1>1, <2>2, <2>3, ZenonT(60) DEF Companions
  <2>5. d.document # NoDocument /\ c.document # NoDocument
    BY <2>1, <2>2, <2>4, DocumentIs
  <2>6. QED
    BY <1>1, <1>4, <2>4, <2>5 DEF KeepsPath, new
<1>5. QED
  BY <1>3, <1>4

(* A refused range is moved to where it belongs now and offered again.     *)
OfferedAgain(c, serial, d) ==
    /\ KeepsPath(c, d) /\ Offered(c, d, serial)
    /\ d.flight = c.flight /\ d.save = c.save /\ d.replica = c.replica
    /\ d.refusedSeed = c.refusedSeed

(* The range that is asked for then.                                       *)
MovedOn(c, id, d) ==
    LET moved == Rebase(c.applies[id].change, c.applies[id].withheld)
        next == d.applies[c.nextId + 1]
    IN  moved.placed /\ next.change = moved.change /\ next.withheld = <<>>

LEMMA SettleApplyDoes ==
    ASSUME NEW U, NEW c \in Companions(U), c.open => c.document # NoDocument,
           NEW id \in DOMAIN c.applies, NEW ok \in BOOLEAN,
           NEW d, d = SettleApply(c, id, ok)
    PROVE  /\ d \in Companions(U)
           /\ \/ Resolves(Read(c, id, ok), c.applies[id].serial, d)
              \/ /\ ~Took(c, id, ok) /\ MovedOn(c, id, d)
                 /\ OfferedAgain(Read(c, id, ok), c.applies[id].serial, d)
<1> DEFINE pending == c.applies[id]
           answered == Answered(c, id)
           current == c.document # NoDocument /\ c.document.version = pending.version
           moved == Rebase(pending.change, pending.withheld)
           again == /\ ~ok /\ c.document # NoDocument /\ ~current
                    /\ pending.offered < MaxRebasedOffers
                    /\ moved.placed
           next == [pending EXCEPT !.change = moved.change, !.version = c.document.version,
                                   !.withheld = <<>>, !.offered = @ + 1]
           e == Read(c, id, ok)
           taken == [answered EXCEPT !.document = Take(@, pending.change)]
<1>1. d = CASE ok /\ current -> Resolve(taken, pending, TRUE)
            [] again -> Offer(answered, next)
            [] OTHER -> Resolve(answered, pending, FALSE)
  BY DEF SettleApply, Answered
<1>2. pending \in Pendings(U)
  BY OutstandingIs DEF Companions
<1>3. /\ e \in Companions(U)
      /\ e.open => e.document # NoDocument
  BY ReadDoes
<1>4. ok /\ current <=> Took(c, id, ok)
  BY DEF Took
<1>5. e = IF Took(c, id, ok) THEN taken ELSE answered
  BY DEF Read
<1>6. moved \in Moved(U)
  BY <1>2, RebaseTyped DEF Pendings
<1> HIDE DEF moved
<1>7. again => next \in Pendings(U) /\ next.version = c.document.version
               /\ next.serial = pending.serial
  <2> HIDE DEF pending
  <2>1. ASSUME again PROVE next \in Pendings(U) /\ next.version = c.document.version
               /\ next.serial = pending.serial
    <3> DEFINE more == pending.offered + 1
    <3>1. c.document \in Documents(U)
      BY <2>1, DocumentIs DEF Companions
    <3>2. c.document.version \in Nat
      BY <3>1 DEF Documents
    <3>3. more \in 0 .. MaxRebasedOffers
      BY <1>2, <2>1, BoundsAreCounts DEF Pendings
    <3>4. moved.change \in Changes(U)
      BY <1>6 DEF Moved
    <3>5. <<>> \in Seq(Changes(U))
      OBVIOUS
    <3>6. next = [pending EXCEPT !.change = moved.change, !.version = c.document.version,
                                 !.withheld = <<>>, !.offered = more]
      BY <1>2 DEF Pendings
    <3> HIDE DEF next, more
    <3>7. QED
      BY <1>2, <3>2, <3>3, <3>4, <3>5, <3>6 DEF Pendings
  <2>2. QED
    BY <2>1
<1>8. again => c.document # NoDocument /\ ~(ok /\ current)
  OBVIOUS
<1>9. again => moved.placed /\ next.change = moved.change /\ next.withheld = <<>>
  BY <1>2 DEF Pendings
<1> HIDE DEF next, again, current
<1>10. CASE ok /\ current
  <2> HIDE DEF e, pending, answered, taken
  <2>1. d = Resolve(e, pending, TRUE)
    BY <1>1, <1>4, <1>5, <1>8, <1>10
  <2>2. d \in Companions(U) /\ Resolves(e, pending.serial, d)
    BY <1>3, <2>1, ResolveDoes, Zenon
  <2>3. QED
    BY <2>2 DEF e, pending
<1>11. CASE again
  <2>1. d = Offer(answered, next) /\ e = answered /\ ~Took(c, id, ok)
    BY <1>1, <1>4, <1>5, <1>8, <1>11
  <2>2. e.document = c.document /\ e.nextId = c.nextId
    BY <2>1, ReadDoes
  <2> HIDE DEF e, pending, answered
  <2>3. /\ d \in Companions(U) /\ KeepsPath(e, d) /\ Offered(e, d, next.serial)
        /\ d.flight = e.flight /\ d.save = e.save /\ d.replica = e.replica
        /\ d.refusedSeed = e.refusedSeed /\ d.applies[e.nextId + 1] = next
    <3> DEFINE version == e.document.version
    <3>1. /\ e \in Companions(U) /\ e.document # NoDocument /\ next \in Pendings(U)
          /\ next.version = e.document.version /\ d = Offer(e, next)
      BY <1>3, <1>7, <1>8, <1>11, <2>1, <2>2
    <3>2. QED
      BY <3>1, OfferDoes
  <2>4. OfferedAgain(e, pending.serial, d)
    BY <1>7, <1>11, <2>3 DEF OfferedAgain
  <2>5. MovedOn(c, id, d)
    BY <1>9, <1>11, <2>2, <2>3 DEF MovedOn, moved, pending
  <2>6. QED
    BY <2>1, <2>3, <2>4, <2>5 DEF e, pending
<1>12. CASE ~(ok /\ current) /\ ~again
  <2>1. d = Resolve(e, pending, FALSE)
    BY <1>1, <1>4, <1>5, <1>12
  <2> HIDE DEF e, pending
  <2>2. d \in Companions(U) /\ Resolves(e, pending.serial, d)
    BY <1>3, <2>1, ResolveDoes, Zenon
  <2>3. QED
    BY <2>2 DEF e, pending
<1>13. QED
  BY <1>10, <1>11, <1>12

(***************************************************************************)
(* A change, an open, a close, an announcement.                            *)
(***************************************************************************)
(* The offers as they were, but for what was typed over them, and the      *)
(* flight as it was, but for the note of that.                             *)
SameOffers(c, d) ==
    /\ DOMAIN d.applies = DOMAIN c.applies
    /\ \A i \in DOMAIN c.applies : /\ d.applies[i].change = c.applies[i].change
                                   /\ d.applies[i].version = c.applies[i].version
                                   /\ d.applies[i].serial = c.applies[i].serial
    /\ d.sent = c.sent /\ d.nextId = c.nextId
SameFlight(c, d) ==
    /\ d.flight = NoFlight <=> c.flight = NoFlight
    /\ c.flight # NoFlight => d.flight.serial = c.flight.serial

LEMMA DocumentChangedDoes ==
    ASSUME NEW U, NEW c \in Companions(U), c.document # NoDocument,
           NEW d, d = DocumentChanged(c)
    PROVE  /\ d \in Companions(U) /\ KeepsPath(c, d) /\ SameFlight(c, d)
           /\ d.applies = c.applies /\ d.sent = c.sent /\ d.nextId = c.nextId
           /\ Unpaused(d) \/ PausedOverRefused(d)
<1>1. CASE ~c.open
  BY <1>1 DEF DocumentChanged, KeepsPath, SameFlight, Unpaused
<1>2. CASE c.open /\ c.document.text = c.replica
  <2>1. d = ResumeSave(c)
    BY <1>2 DEF DocumentChanged
  <2>2. QED
    BY <2>1, ResumeSaveDoes DEF Keeps, KeepsWire, SameFlight
<1>3. CASE c.open /\ c.document.text # c.replica /\ c.flight # NoFlight
  <2> DEFINE e == PauseSave(c)
             flight == [e.flight EXCEPT !.moved = TRUE]
  <2>1. e \in Companions(U) /\ Keeps(c, e)
    BY PauseSaveDoes
  <2> HIDE DEF e
  <2>2. d = [e EXCEPT !.flight.moved = TRUE, !.pending = TRUE]
    BY <1>3 DEF DocumentChanged, e
  <2>3. e.flight = c.flight /\ e.flight \in Flights(U)
    BY <1>3, <2>1, FlightIs DEF Keeps, KeepsWire, Companions
  <2>4. flight \in Flights(U) /\ flight.serial = c.flight.serial
    BY <2>3 DEF Flights
  <2>5. d = [e EXCEPT !.flight = flight, !.pending = TRUE]
    BY <2>1, <2>2 DEF Companions
  <2> HIDE DEF flight
  <2>6. /\ d \in Companions(U) /\ KeepsPath(e, d) /\ d.flight = flight
        /\ d.applies = e.applies /\ d.sent = e.sent /\ d.nextId = e.nextId
    <3>1. d \in Companions(U)
      BY <2>1, <2>4, <2>5, ZenonT(60) DEF Companions
    <3>2. KeepsPath(e, d) /\ d.flight = flight
      BY <2>1, <2>5 DEF Companions, KeepsPath
    <3>3. d.applies = e.applies /\ d.sent = e.sent /\ d.nextId = e.nextId
      BY <2>1, <2>5 DEF Companions
    <3>4. QED
      BY <3>1, <3>2, <3>3
  <2>7. d.flight # NoFlight
    BY <2>4, <2>6, FlightIs
  <2>8. KeepsPath(c, d) /\ d.applies = c.applies /\ d.sent = c.sent /\ d.nextId = c.nextId
    BY <2>1, <2>6 DEF Keeps, KeepsPath, KeepsWire
  <2>9. QED
    BY <1>3, <2>4, <2>6, <2>7, <2>8 DEF SameFlight, Unpaused
<1>4. CASE c.open /\ c.document.text # c.replica /\ c.flight = NoFlight
  <2> DEFINE e == MoveSave(c)
             f == Publish(e)
  <2>1. e \in Companions(U) /\ Keeps(c, e) /\ e.save # "paused" /\ e.replica = c.replica
    BY MoveSaveDoes
  <2>2. e.document = c.document
    BY <2>1 DEF Keeps, KeepsPath
  <2> HIDE DEF e
  <2>3. /\ f \in Companions(U) /\ Keeps(e, f)
        /\ f.save = e.save \/ PausedOverRefused(f)
    BY <1>4, <2>1, <2>2, PublishDoes
  <2> HIDE DEF f
  <2> DEFINE backstop == IF d = f THEN f.backstop ELSE TRUE
  <2>4. backstop \in BOOLEAN /\ d = [f EXCEPT !.backstop = backstop]
    <3>1. d \in {f, [f EXCEPT !.backstop = TRUE]}
      BY <1>4 DEF DocumentChanged, f, e
    <3>2. f = [f EXCEPT !.backstop = @]
      BY <2>3 DEF Companions
    <3>3. QED
      BY <2>3, <3>1, <3>2 DEF Companions
  <2> HIDE DEF backstop
  <2>5. /\ d \in Companions(U) /\ Keeps(f, d) /\ d.save = f.save
        /\ d.refusedSeed = f.refusedSeed /\ d.replica = f.replica
    <3>1. d \in Companions(U)
      BY <2>3, <2>4 DEF Companions
    <3>2. KeepsPath(f, d) /\ KeepsWire(f, d)
      BY <2>3, <2>4 DEF Companions, KeepsPath, KeepsWire
    <3>3. d.save = f.save /\ d.refusedSeed = f.refusedSeed /\ d.replica = f.replica
      BY <2>3, <2>4 DEF Companions
    <3>4. QED
      BY <3>1, <3>2, <3>3 DEF Keeps
  <2>6. Keeps(c, d)
    BY <2>1, <2>3, <2>5, KeepsAfter
  <2>7. Unpaused(d) \/ PausedOverRefused(d)
    BY <2>1, <2>3, <2>5 DEF Unpaused, PausedOverRefused, Keeps, KeepsPath
  <2>8. QED
    BY <2>5, <2>6, <2>7 DEF Keeps, KeepsWire, SameFlight
<1>5. QED
  BY <1>1, <1>2, <1>3, <1>4

(* What was typed is taken by the mirror and withheld from the offers.     *)
Typing(c, change) ==
    [c EXCEPT !.document = Take(@, change),
              !.applies = [id \in DOMAIN @ |-> Withhold(@[id], change)]]

LEMMA WithholdIs ==
    ASSUME NEW U, NEW pending \in Pendings(U), NEW change \in Changes(U)
    PROVE  /\ Withhold(pending, change) \in Pendings(U)
           /\ Withhold(pending, change).change = pending.change
           /\ Withhold(pending, change).version = pending.version
           /\ Withhold(pending, change).serial = pending.serial
           /\ Withhold(pending, change).withheld = Append(pending.withheld, change)
<1> DEFINE longer == Append(pending.withheld, change)
<1>1. longer \in Seq(Changes(U))
  BY DEF Pendings
<1>2. Withhold(pending, change) = [pending EXCEPT !.withheld = longer]
  BY DEF Pendings, Withhold
<1> HIDE DEF longer
<1>3. QED
  BY <1>1, <1>2 DEF Pendings, longer

LEMMA TypingIs ==
    ASSUME NEW U, NEW c \in Companions(U), c.document # NoDocument, NEW change \in Changes(U),
           NEW e, e = Typing(c, change)
    PROVE  /\ e \in Companions(U) /\ Changed(c, change) = DocumentChanged(e)
           /\ e.document = Take(c.document, change) /\ e.document # NoDocument
           /\ DOMAIN e.applies = DOMAIN c.applies
           /\ \A id \in DOMAIN c.applies : e.applies[id] = Withhold(c.applies[id], change)
           /\ e.open = c.open /\ e.held = c.held /\ e.opening = c.opening /\ e.saves = c.saves
           /\ e.sent = c.sent /\ e.nextId = c.nextId /\ e.flight = c.flight
<1> DEFINE new == Take(c.document, change)
           more == [id \in DOMAIN c.applies |-> Withhold(c.applies[id], change)]
<1>1. c.document \in Documents(U)
  BY DocumentIs DEF Companions
<1>2. new \in Documents(U) /\ new # NoDocument
  BY <1>1, TakeTyped, DocumentIs
<1>3. more \in Outstanding(U)
  <2>1. DOMAIN c.applies \in SUBSET Nat /\ \A i \in DOMAIN c.applies : c.applies[i] \in Pendings(U)
    BY OutstandingIs DEF Companions
  <2>2. more \in [DOMAIN c.applies -> Pendings(U)]
    BY <2>1, WithholdIs
  <2>3. QED
    BY <2>1, <2>2 DEF Outstanding
<1>4. e = [c EXCEPT !.document = new, !.applies = more]
  BY DEF Companions, Typing, Withhold
<1>5. Changed(c, change) = DocumentChanged(e)
  BY DEF Changed, Typing
<1>6. DOMAIN more = DOMAIN c.applies
      /\ \A id \in DOMAIN c.applies : more[id] = Withhold(c.applies[id], change)
  OBVIOUS
<1> HIDE DEF new, more
<1>7. e \in Companions(U) /\ e.document = new /\ e.applies = more
  <2>1. e \in Companions(U)
    BY <1>2, <1>3, <1>4 DEF Companions
  <2>2. e.document = new /\ e.applies = more
    BY <1>4 DEF Companions
  <2>3. QED
    BY <2>1, <2>2
<1>8. /\ e.open = c.open /\ e.held = c.held /\ e.opening = c.opening /\ e.saves = c.saves
      /\ e.sent = c.sent /\ e.nextId = c.nextId /\ e.flight = c.flight
  BY <1>4 DEF Companions
<1>9. QED
  BY <1>2, <1>5, <1>6, <1>7, <1>8 DEF new

LEMMA ChangedDoes ==
    ASSUME NEW U, NEW c \in Companions(U), NEW change \in Changes(U),
           NEW d, d = Changed(c, change)
    PROVE  /\ d \in Companions(U) /\ SameOffers(c, d) /\ SameFlight(c, d)
           /\ d.open = c.open /\ d.held = c.held /\ d.opening = c.opening /\ d.saves = c.saves
           /\ d.document = IF c.document = NoDocument THEN NoDocument
                           ELSE Take(c.document, change)
           /\ d.document = NoDocument <=> c.document = NoDocument
           /\ c.document # NoDocument => Unpaused(d) \/ PausedOverRefused(d)
           /\ c.document = NoDocument => d = c
<1>1. CASE c.document = NoDocument
  BY <1>1 DEF Changed, SameOffers, SameFlight
<1>2. CASE c.document # NoDocument
  <2> DEFINE e == Typing(c, change)
  <2>1. /\ e \in Companions(U) /\ d = DocumentChanged(e)
        /\ e.document = Take(c.document, change) /\ e.document # NoDocument
        /\ DOMAIN e.applies = DOMAIN c.applies
        /\ \A id \in DOMAIN c.applies : e.applies[id] = Withhold(c.applies[id], change)
        /\ e.open = c.open /\ e.held = c.held /\ e.opening = c.opening /\ e.saves = c.saves
        /\ e.sent = c.sent /\ e.nextId = c.nextId /\ e.flight = c.flight
    BY <1>2, TypingIs
  <2>2. \A i \in DOMAIN c.applies : /\ e.applies[i].change = c.applies[i].change
                                    /\ e.applies[i].version = c.applies[i].version
                                    /\ e.applies[i].serial = c.applies[i].serial
    <3>1. \A i \in DOMAIN c.applies : c.applies[i] \in Pendings(U)
      BY OutstandingIs DEF Companions
    <3>2. QED
      BY <2>1, <3>1, WithholdIs
  <2> HIDE DEF e
  <2>3. /\ d \in Companions(U) /\ KeepsPath(e, d) /\ SameFlight(e, d)
        /\ d.applies = e.applies /\ d.sent = e.sent /\ d.nextId = e.nextId
        /\ Unpaused(d) \/ PausedOverRefused(d)
    BY <2>1, DocumentChangedDoes
  <2>4. SameOffers(c, d) /\ SameFlight(c, d)
    BY <2>1, <2>2, <2>3 DEF SameOffers, SameFlight
  <2>5. QED
    BY <1>2, <2>1, <2>3, <2>4 DEF KeepsPath
<1>3. QED
  BY <1>1, <1>2

LEMMA ForgetDoes ==
    ASSUME NEW U, NEW c \in Companions(U), NEW d, d = Forget(c)
    PROVE  /\ d \in Companions(U) /\ ~d.open /\ d.flight = NoFlight
           /\ d.applies = c.applies /\ d.sent = c.sent /\ d.nextId = c.nextId
           /\ d.document = c.document /\ d.held = c.held /\ d.opening = c.opening
           /\ d.saves = c.saves
<1> DEFINE e == Calm(c)
<1>1. e \in Companions(U) /\ Keeps(c, e)
  BY CalmDoes
<1>2. d = [e EXCEPT !.open = FALSE, !.flight = NoFlight, !.pending = FALSE,
                    !.save = "none", !.backstop = FALSE]
  BY DEF Forget
<1> HIDE DEF e
<1>3. d \in Companions(U)
  BY <1>1, <1>2, ZenonT(60) DEF Companions
<1>4. /\ ~d.open /\ d.flight = NoFlight
      /\ d.applies = e.applies /\ d.sent = e.sent /\ d.nextId = e.nextId
  BY <1>1, <1>2 DEF Companions
<1>5. /\ d.document = e.document /\ d.held = e.held /\ d.opening = e.opening
      /\ d.saves = e.saves
  BY <1>1, <1>2 DEF Companions
<1>6. QED
  BY <1>1, <1>3, <1>4, <1>5 DEF Keeps, KeepsPath, KeepsWire

LEMMA ClosedDoes ==
    ASSUME NEW U, NEW c \in Companions(U), NEW d, d = Closed(c)
    PROVE  /\ d \in Companions(U) /\ ~d.open /\ ~d.held /\ d.flight = NoFlight
           /\ d.applies = c.applies /\ d.sent = c.sent /\ d.nextId = c.nextId
           /\ d.document = NoDocument /\ d.opening = c.opening /\ d.saves = c.saves
<1> DEFINE e == Forget(c)
<1>1. /\ e \in Companions(U) /\ ~e.open /\ e.flight = NoFlight
      /\ e.applies = c.applies /\ e.sent = c.sent /\ e.nextId = c.nextId
      /\ e.opening = c.opening /\ e.saves = c.saves
  BY ForgetDoes
<1>2. d = [e EXCEPT !.document = NoDocument, !.refusedSeed = FALSE, !.held = FALSE]
  BY DEF Closed
<1> HIDE DEF e
<1>3. d \in Companions(U)
  BY <1>1, <1>2, ZenonT(60) DEF Companions
<1>4. ~d.open /\ ~d.held /\ d.flight = NoFlight /\ d.document = NoDocument
  BY <1>1, <1>2 DEF Companions
<1>5. /\ d.applies = e.applies /\ d.sent = e.sent /\ d.nextId = e.nextId
      /\ d.opening = e.opening /\ d.saves = e.saves
  BY <1>1, <1>2 DEF Companions
<1>6. QED
  BY <1>1, <1>3, <1>4, <1>5

(* The document as an open leaves it, before it is reconciled.             *)
Fresh(text) == [text |-> text, version |-> 0]
Presented(c, text) == [c EXCEPT !.document = Fresh(text), !.open = TRUE]

(* The offers and the flight are what reconciling leaves.                  *)
Rewired(U, c, d) ==
    \E f \in Companions(U) :
        /\ Reconciled(c, f)
        /\ d.applies = f.applies /\ d.sent = f.sent /\ d.nextId = f.nextId
        /\ d.flight = f.flight

LEMMA OpenedDoes ==
    ASSUME NEW U, NEW c \in Companions(U), NEW text \in Seq(U), NEW d, d = Opened(c, text)
    PROVE  /\ d \in Companions(U)
           /\ Presented(c, text) \in Companions(U)
           /\ Unpaused(d) /\ d.open /\ d.document = Fresh(text)
           /\ d.document # NoDocument
           /\ d.opening = c.opening + 1 /\ d.held = c.held /\ d.saves = c.saves
           /\ Rewired(U, Presented(c, text), d)
<1> DEFINE new == Fresh(text)
           e == Presented(c, text)
           f == Reconcile(e)
<1>1. new \in Documents(U) /\ new # NoDocument
  <2>1. new \in Documents(U)
    BY DEF Documents, Fresh
  <2>2. QED
    BY <2>1, DocumentIs
<1> HIDE DEF new
<1>2. e = [c EXCEPT !.document = new, !.open = TRUE]
  BY DEF Presented, new
<1> HIDE DEF e
<1>3. /\ e \in Companions(U) /\ e.document = new /\ e.open
      /\ e.opening = c.opening /\ e.held = c.held /\ e.saves = c.saves
  BY <1>1, <1>2 DEF Companions
<1>4. d = [f EXCEPT !.opening = @ + 1]
  BY DEF Opened, Presented, Fresh, e
<1>5. f \in Companions(U) /\ Reconciled(e, f) /\ Unpaused(f)
  BY <1>3, ReconcileDoes
<1> HIDE DEF f
<1>6. KeepsPath(e, f)
  BY <1>5 DEF Reconciled, Keeps, Issued
<1> DEFINE opening == f.opening + 1
<1>7. opening \in Nat /\ d = [f EXCEPT !.opening = opening]
  BY <1>4, <1>5 DEF Companions
<1>8. opening = c.opening + 1
  BY <1>3, <1>6 DEF KeepsPath
<1> HIDE DEF opening
<1>9. /\ d \in Companions(U) /\ d.opening = opening /\ d.document = f.document
      /\ d.open = f.open /\ d.held = f.held /\ d.saves = f.saves
      /\ d.applies = f.applies /\ d.sent = f.sent /\ d.nextId = f.nextId
      /\ d.flight = f.flight /\ d.save = f.save /\ d.replica = f.replica
  BY <1>5, <1>7, ZenonT(60) DEF Companions
<1>10. Unpaused(d)
  BY <1>5, <1>9 DEF Unpaused, Malformed
<1>11. QED
  BY <1>1, <1>3, <1>5, <1>6, <1>8, <1>9, <1>10 DEF KeepsPath, Rewired, new, e

LEMMA AnnouncedDoes ==
    ASSUME NEW U, NEW c \in Companions(U), NEW d, d = Announced(c)
    PROVE  d \in Companions(U) /\ Reconciled(c, d) /\ Unpaused(d)
<1> DEFINE e == [c EXCEPT !.unscanned = FALSE, !.unshared = {}]
<1>1. e \in Companions(U) /\ Keeps(c, e)
  BY DEF Companions, Keeps, KeepsPath, KeepsWire
<1>2. d = Reconcile(e)
  BY DEF Announced
<1> HIDE DEF e
<1>3. QED
  BY <1>1, <1>2, ReconcileDoes, ReconciledAfter

(***************************************************************************)
(* Every offer is out once: as the front-end is asked, or as it answered.  *)
(***************************************************************************)
AsksFor(s, k, id) == s[k].type = "applyEdit" /\ s[k].id = id
AnswersFor(p, k, id) == p[k].type = "applied" /\ p[k].id = id

Counted(c) ==
    \A id \in DOMAIN c.applies : id # 0 /\ id <= c.nextId /\ c.applies[id].serial <= c.nextId
SerialsDiffer(c) ==
    \A i, j \in DOMAIN c.applies : c.applies[i].serial = c.applies[j].serial => i = j
AskedRight(c) ==
    \A k \in 1 .. Len(c.sent) : c.sent[k].type = "applyEdit" =>
        /\ c.sent[k].id \in DOMAIN c.applies
        /\ c.sent[k].change = c.applies[c.sent[k].id].change
        /\ c.sent[k].version = c.applies[c.sent[k].id].version
AnsweredRight(c, p) ==
    \A k \in 1 .. Len(p) : p[k].type = "applied" => p[k].id \in DOMAIN c.applies
Out(c, p) ==
    \A id \in DOMAIN c.applies :
        \/ \E k \in 1 .. Len(c.sent) : AsksFor(c.sent, k, id)
        \/ \E k \in 1 .. Len(p) : AnswersFor(p, k, id)
AskedOnce(s) ==
    \A k, j \in 1 .. Len(s) : \A id : AsksFor(s, k, id) /\ AsksFor(s, j, id) => k = j
AnsweredOnce(p) ==
    \A k, j \in 1 .. Len(p) : \A id : AnswersFor(p, k, id) /\ AnswersFor(p, j, id) => k = j
NotBoth(s, p) ==
    \A k \in 1 .. Len(s), j \in 1 .. Len(p) : \A id : ~(AsksFor(s, k, id) /\ AnswersFor(p, j, id))

Linked(c, p) ==
    /\ Counted(c) /\ SerialsDiffer(c)
    /\ AskedRight(c) /\ AnsweredRight(c, p) /\ Out(c, p)
    /\ AskedOnce(c.sent) /\ AnsweredOnce(p) /\ NotBoth(c.sent, p)

(* What a flight waits for is out.                                         *)
Covered(c) ==
    c.flight # NoFlight => \E id \in DOMAIN c.applies : c.applies[id].serial = c.flight.serial

LEMMA LinkedSame ==
    ASSUME NEW c, NEW d, NEW p, SameOffers(c, d), Linked(c, p)
    PROVE  Linked(d, p)
BY DEF SameOffers, Linked, Counted, SerialsDiffer, AskedRight, AnsweredRight, Out,
       AskedOnce, AnsweredOnce, NotBoth

LEMMA LinkedPiped ==
    ASSUME NEW U, NEW c \in Companions(U), NEW p \in Seq(Messages(U)), Linked(c, p),
           NEW m \in Messages(U), m.type # "applied"
    PROVE  Linked(c, Append(p, m))
<1> DEFINE q == Append(p, m)
<1>1. /\ Len(p) \in Nat /\ Len(q) = Len(p) + 1
      /\ \A i \in 1 .. Len(p) : q[i] = p[i]
      /\ q[Len(p) + 1] = m
  BY AppendAt
<1> HIDE DEF q
<1>2. \A k \in 1 .. Len(q) : q[k].type = "applied" => k \in 1 .. Len(p) /\ q[k] = p[k]
  BY <1>1
<1>3. \A k \in 1 .. Len(p) : k \in 1 .. Len(q) /\ q[k] = p[k]
  BY <1>1
<1>4. AnsweredRight(c, q)
  BY <1>2 DEF Linked, AnsweredRight
<1>5. Out(c, q)
  BY <1>3 DEF Linked, Out, AnswersFor
<1>6. AnsweredOnce(q)
  BY <1>2 DEF Linked, AnsweredOnce, AnswersFor
<1>7. NotBoth(c.sent, q)
  BY <1>2 DEF Linked, NotBoth, AnswersFor
<1>8. QED
  BY <1>4, <1>5, <1>6, <1>7 DEF Linked, q

LEMMA LinkedHeard ==
    ASSUME NEW U, NEW c \in Companions(U), NEW p \in Seq(Messages(U)), Linked(c, p),
           p # <<>>, Head(p).type # "applied"
    PROVE  Linked(c, Tail(p))
<1> DEFINE q == Tail(p)
<1>1. /\ Len(p) \in Nat \ {0} /\ Len(q) = Len(p) - 1
      /\ \A i \in 1 .. Len(p) - 1 : q[i] = p[i + 1]
      /\ Head(p) = p[1]
  BY TailAt
<1> HIDE DEF q
<1>2. \A k \in 1 .. Len(q) : k + 1 \in 1 .. Len(p) /\ q[k] = p[k + 1]
  BY <1>1
<1>3. \A k \in 1 .. Len(p) : p[k].type = "applied" => k - 1 \in 1 .. Len(q) /\ p[k] = q[k - 1]
  BY <1>1
<1>4. AnsweredRight(c, q)
  BY <1>2 DEF Linked, AnsweredRight
<1>5. Out(c, q)
  BY <1>3 DEF Linked, Out, AnswersFor
<1>6. AnsweredOnce(q)
  <2>1. ASSUME NEW k \in 1 .. Len(q), NEW j \in 1 .. Len(q), NEW id,
               AnswersFor(q, k, id), AnswersFor(q, j, id)
        PROVE  k = j
    <3>1. AnswersFor(p, k + 1, id) /\ AnswersFor(p, j + 1, id)
      BY <1>2, <2>1 DEF AnswersFor
    <3>2. k + 1 = j + 1
      BY <1>2, <3>1 DEF Linked, AnsweredOnce
    <3>3. QED
      BY <3>2
  <2>2. QED
    BY <2>1 DEF AnsweredOnce
<1>7. NotBoth(c.sent, q)
  BY <1>2 DEF Linked, NotBoth, AnswersFor
<1>8. QED
  BY <1>4, <1>5, <1>6, <1>7 DEF Linked, q

(* Something else is said to the front-end, or read by it.                 *)
LEMMA LinkedSaid ==
    ASSUME NEW U, NEW c \in Companions(U), NEW p, Linked(c, p),
           NEW word \in Words(U), word.type # "applyEdit",
           NEW d, d.applies = c.applies, d.sent = Append(c.sent, word),
           d.nextId \in {c.nextId, c.nextId + 1}
    PROVE  Linked(d, p)
<1>1. c.sent \in Seq(Words(U)) /\ c.nextId \in Nat
  BY DEF Companions
<1>2. /\ Len(c.sent) \in Nat /\ Len(d.sent) = Len(c.sent) + 1
      /\ \A i \in 1 .. Len(c.sent) : d.sent[i] = c.sent[i]
      /\ d.sent[Len(c.sent) + 1] = word
  BY <1>1, AppendAt
<1>3. \A k \in 1 .. Len(d.sent) : d.sent[k].type = "applyEdit" =>
          k \in 1 .. Len(c.sent) /\ d.sent[k] = c.sent[k]
  BY <1>2
<1>4. \A k \in 1 .. Len(c.sent) : k \in 1 .. Len(d.sent) /\ d.sent[k] = c.sent[k]
  BY <1>2
<1>5. Counted(d)
  <2>1. \A id \in DOMAIN c.applies : c.applies[id] \in Pendings(U) /\ id \in Nat
    BY OutstandingIs DEF Companions
  <2>2. \A id \in DOMAIN c.applies : c.applies[id].serial \in Nat
    BY <2>1 DEF Pendings
  <2>3. QED
    BY <1>1, <2>1, <2>2 DEF Linked, Counted
<1>6. AskedRight(d)
  BY <1>3 DEF Linked, AskedRight
<1>7. Out(d, p)
  BY <1>4 DEF Linked, Out, AsksFor
<1>8. AskedOnce(d.sent)
  BY <1>3 DEF Linked, AskedOnce, AsksFor
<1>9. NotBoth(d.sent, p)
  BY <1>3 DEF Linked, NotBoth, AsksFor
<1>10. QED
  BY <1>5, <1>6, <1>7, <1>8, <1>9 DEF Linked, SerialsDiffer, AnsweredRight

LEMMA LinkedRead ==
    ASSUME NEW U, NEW c \in Companions(U), NEW p, Linked(c, p),
           c.sent # <<>>, Head(c.sent).type # "applyEdit",
           NEW d, d.applies = c.applies, d.sent = Tail(c.sent), d.nextId = c.nextId
    PROVE  Linked(d, p)
<1>1. c.sent \in Seq(Words(U))
  BY DEF Companions
<1>2. /\ Len(c.sent) \in Nat \ {0} /\ Len(d.sent) = Len(c.sent) - 1
      /\ \A i \in 1 .. Len(c.sent) - 1 : d.sent[i] = c.sent[i + 1]
      /\ Head(c.sent) = c.sent[1]
  BY <1>1, TailAt
<1>3. \A k \in 1 .. Len(d.sent) : k + 1 \in 1 .. Len(c.sent) /\ d.sent[k] = c.sent[k + 1]
  BY <1>2
<1>4. \A k \in 1 .. Len(c.sent) : c.sent[k].type = "applyEdit" =>
          k - 1 \in 1 .. Len(d.sent) /\ c.sent[k] = d.sent[k - 1]
  BY <1>2
<1>6. AskedRight(d)
  BY <1>3 DEF Linked, AskedRight
<1>7. Out(d, p)
  BY <1>4 DEF Linked, Out, AsksFor
<1>8. AskedOnce(d.sent)
  <2>1. ASSUME NEW k \in 1 .. Len(d.sent), NEW j \in 1 .. Len(d.sent), NEW id,
               AsksFor(d.sent, k, id), AsksFor(d.sent, j, id)
        PROVE  k = j
    <3>1. AsksFor(c.sent, k + 1, id) /\ AsksFor(c.sent, j + 1, id)
      BY <1>3, <2>1 DEF AsksFor
    <3>2. k + 1 = j + 1
      BY <1>3, <3>1 DEF Linked, AskedOnce
    <3>3. QED
      BY <3>2
  <2>2. QED
    BY <2>1 DEF AskedOnce
<1>9. NotBoth(d.sent, p)
  BY <1>3 DEF Linked, NotBoth, AsksFor
<1>10. QED
  BY <1>6, <1>7, <1>8, <1>9 DEF Linked, Counted, SerialsDiffer, AnsweredRight

(* The front-end reads the edit it is asked for, and answers.              *)
LEMMA LinkedTaken ==
    ASSUME NEW U, NEW c \in Companions(U), NEW p \in Seq(Messages(U)), Linked(c, p),
           c.sent # <<>>, Head(c.sent).type = "applyEdit",
           NEW d, d.applies = c.applies, d.sent = Tail(c.sent), d.nextId = c.nextId,
           NEW m \in Messages(U), m.type = "applied", m.id = Head(c.sent).id
    PROVE  Linked(d, Append(p, m))
<1> DEFINE q == Append(p, m)
<1>1. c.sent \in Seq(Words(U))
  BY DEF Companions
<1>2. /\ Len(c.sent) \in Nat \ {0} /\ Len(d.sent) = Len(c.sent) - 1
      /\ \A i \in 1 .. Len(c.sent) - 1 : d.sent[i] = c.sent[i + 1]
      /\ Head(c.sent) = c.sent[1]
  BY <1>1, TailAt
<1>3. /\ Len(p) \in Nat /\ Len(q) = Len(p) + 1
      /\ \A i \in 1 .. Len(p) : q[i] = p[i]
      /\ q[Len(p) + 1] = m
  BY AppendAt
<1> HIDE DEF q
<1> DEFINE id == m.id
           last == Len(p) + 1
<1>4. AsksFor(c.sent, 1, id) /\ 1 \in 1 .. Len(c.sent)
  BY <1>2 DEF AsksFor
<1>5. AnswersFor(q, last, id) /\ last \in 1 .. Len(q)
  BY <1>3 DEF AnswersFor
<1>6. \A k \in 1 .. Len(d.sent) : /\ k + 1 \in 1 .. Len(c.sent) /\ d.sent[k] = c.sent[k + 1]
                                  /\ k + 1 # 1
  BY <1>2
<1>7. \A k \in 1 .. Len(c.sent) : k # 1 => k - 1 \in 1 .. Len(d.sent) /\ c.sent[k] = d.sent[k - 1]
  BY <1>2, SMTT(30)
<1>8. \A k \in 1 .. Len(p) : k \in 1 .. Len(q) /\ q[k] = p[k]
  BY <1>3
<1>9. \A k \in 1 .. Len(q) : k = last \/ (k \in 1 .. Len(p) /\ q[k] = p[k])
  <2>1. \A k \in 1 .. Len(q) : k = last \/ k \in 1 .. Len(p)
    BY <1>3
  <2>2. QED
    BY <1>3, <2>1
<1>10. \A other : AnswersFor(q, last, other) => other = id
  BY <1>5 DEF AnswersFor
<1>11. \A other : AsksFor(c.sent, 1, other) => other = id
  BY <1>4 DEF AsksFor
<1>12. id \in DOMAIN c.applies
  BY <1>4 DEF Linked, AskedRight, AsksFor
<1> HIDE DEF id, last
<1>13. AskedRight(d)
  BY <1>6 DEF Linked, AskedRight
<1>14. AnsweredRight(d, q)
  <2>1. ASSUME NEW k \in 1 .. Len(q), q[k].type = "applied" PROVE q[k].id \in DOMAIN c.applies
    <3>1. CASE k = last
      BY <1>5, <1>12, <3>1 DEF AnswersFor
    <3>2. CASE k \in 1 .. Len(p) /\ q[k] = p[k]
      BY <2>1, <3>2 DEF Linked, AnsweredRight
    <3>3. QED
      BY <1>9, <3>1, <3>2
  <2>2. QED
    BY <2>1 DEF AnsweredRight
<1>15. Out(d, q)
  <2>1. ASSUME NEW other \in DOMAIN c.applies
        PROVE  \/ \E k \in 1 .. Len(d.sent) : AsksFor(d.sent, k, other)
               \/ \E k \in 1 .. Len(q) : AnswersFor(q, k, other)
    <3>1. CASE \E k \in 1 .. Len(p) : AnswersFor(p, k, other)
      BY <1>8, <3>1 DEF AnswersFor
    <3>2. ASSUME NEW k \in 1 .. Len(c.sent), AsksFor(c.sent, k, other)
          PROVE  \/ \E i \in 1 .. Len(d.sent) : AsksFor(d.sent, i, other)
                 \/ \E i \in 1 .. Len(q) : AnswersFor(q, i, other)
      <4>1. CASE k = 1
        BY <1>5, <1>11, <3>2, <4>1
      <4>2. CASE k # 1
        BY <1>7, <3>2, <4>2 DEF AsksFor
      <4>3. QED
        BY <4>1, <4>2
    <3>3. QED
      BY <3>1, <3>2 DEF Linked, Out
  <2>2. QED
    BY <2>1 DEF Out
<1>16. AskedOnce(d.sent)
  <2>1. ASSUME NEW k \in 1 .. Len(d.sent), NEW j \in 1 .. Len(d.sent), NEW other,
               AsksFor(d.sent, k, other), AsksFor(d.sent, j, other)
        PROVE  k = j
    <3>1. AsksFor(c.sent, k + 1, other) /\ AsksFor(c.sent, j + 1, other)
      BY <1>6, <2>1 DEF AsksFor
    <3>2. k + 1 = j + 1
      BY <1>6, <3>1 DEF Linked, AskedOnce
    <3>3. QED
      BY <3>2
  <2>2. QED
    BY <2>1 DEF AskedOnce
<1>17. \A k \in 1 .. Len(p) : ~AnswersFor(p, k, id)
  BY <1>4 DEF Linked, NotBoth
<1>18. AnsweredOnce(q)
  <2>1. ASSUME NEW k \in 1 .. Len(q), NEW j \in 1 .. Len(q), NEW other,
               AnswersFor(q, k, other), AnswersFor(q, j, other)
        PROVE  k = j
    <3>1. CASE k \in 1 .. Len(p) /\ j \in 1 .. Len(p)
      <4>1. AnswersFor(p, k, other) /\ AnswersFor(p, j, other)
        BY <1>8, <2>1, <3>1 DEF AnswersFor
      <4>2. QED
        BY <3>1, <4>1 DEF Linked, AnsweredOnce
    <3>2. ASSUME NEW i \in 1 .. Len(p), AnswersFor(q, i, id) PROVE FALSE
      BY <1>8, <1>17, <3>2 DEF AnswersFor
    <3>3. QED
      BY <1>9, <1>10, <2>1, <3>1, <3>2
  <2>2. QED
    BY <2>1 DEF AnsweredOnce
<1>19. NotBoth(d.sent, q)
  <2>1. ASSUME NEW k \in 1 .. Len(d.sent), NEW j \in 1 .. Len(q), NEW other,
               AsksFor(d.sent, k, other), AnswersFor(q, j, other)
        PROVE  FALSE
    <3>1. AsksFor(c.sent, k + 1, other) /\ k + 1 \in 1 .. Len(c.sent) /\ k + 1 # 1
      BY <1>6, <2>1 DEF AsksFor
    <3>2. CASE j = last
      BY <1>4, <1>10, <2>1, <3>1, <3>2 DEF Linked, AskedOnce
    <3>3. CASE j \in 1 .. Len(p) /\ q[j] = p[j]
      <4>1. AnswersFor(p, j, other)
        BY <2>1, <3>3 DEF AnswersFor
      <4>2. QED
        BY <3>1, <3>3, <4>1 DEF Linked, NotBoth
    <3>4. QED
      BY <1>9, <3>2, <3>3
  <2>2. QED
    BY <2>1 DEF NotBoth
<1>20. QED
  BY <1>13, <1>14, <1>15, <1>16, <1>18, <1>19 DEF Linked, Counted, SerialsDiffer, q

(* A new offer, under an id nobody has seen.                               *)
LEMMA LinkedOffer ==
    ASSUME NEW U, NEW c \in Companions(U), NEW p, Linked(c, p),
           NEW d \in Companions(U), NEW serial \in Nat, Offered(c, d, serial),
           serial <= c.nextId + 1, \A id \in DOMAIN c.applies : c.applies[id].serial # serial
    PROVE  Linked(d, p)
<1> DEFINE new == c.nextId + 1
           last == Len(c.sent) + 1
           word == [type |-> "applyEdit", id |-> new, change |-> d.applies[new].change,
                    version |-> c.document.version, base |-> c.document.text]
<1>1. c.sent \in Seq(Words(U)) /\ d.sent \in Seq(Words(U)) /\ c.nextId \in Nat
  BY DEF Companions
<1>2. /\ new \in Nat /\ new # 0 /\ d.nextId = new /\ serial <= new
      /\ DOMAIN d.applies = DOMAIN c.applies \cup {new}
      /\ d.applies[new].version = c.document.version /\ d.applies[new].serial = serial
  BY <1>1 DEF Offered
<1>3. /\ \A id \in DOMAIN c.applies : id \in Nat /\ c.applies[id].serial \in Nat
      /\ \A id \in DOMAIN c.applies : id # new /\ id # 0 /\ id < new /\ c.applies[id].serial < new
  <2>1. \A id \in DOMAIN c.applies : c.applies[id] \in Pendings(U) /\ id \in Nat
    BY OutstandingIs DEF Companions
  <2>2. \A id \in DOMAIN c.applies : c.applies[id].serial \in Nat
    BY <2>1 DEF Pendings
  <2>3. QED
    BY <1>1, <2>1, <2>2 DEF Linked, Counted
<1>4. \A id \in DOMAIN c.applies : d.applies[id] = c.applies[id]
  BY <1>3 DEF Offered
<1>5. /\ Len(c.sent) \in Nat /\ Len(d.sent) = Len(c.sent) + 1
      /\ \A i \in 1 .. Len(c.sent) : d.sent[i] = c.sent[i]
      /\ d.sent[last] = word
  <2>1. d.sent = Append(c.sent, word)
    BY DEF Offered
  <2> HIDE DEF word
  <2>2. QED
    BY <1>1, <2>1
<1>6. AsksFor(d.sent, last, new) /\ last \in 1 .. Len(d.sent)
      /\ d.sent[last].change = d.applies[new].change /\ d.sent[last].version = c.document.version
  BY <1>5 DEF AsksFor
<1> HIDE DEF word
<1>7. \A k \in 1 .. Len(d.sent) : k = last \/ (k \in 1 .. Len(c.sent) /\ d.sent[k] = c.sent[k])
  <2>1. \A k \in 1 .. Len(d.sent) : k = last \/ k \in 1 .. Len(c.sent)
    BY <1>5
  <2>2. QED
    BY <1>5, <2>1
<1>8. \A k \in 1 .. Len(c.sent) : k \in 1 .. Len(d.sent) /\ d.sent[k] = c.sent[k]
  BY <1>5
<1>9. \A id : AsksFor(d.sent, last, id) => id = new
  BY <1>6 DEF AsksFor
<1> HIDE DEF new, last
<1>10. Counted(d)
  BY <1>2, <1>3, <1>4 DEF Counted, Linked
<1>11. SerialsDiffer(d)
  BY <1>2, <1>3, <1>4 DEF SerialsDiffer, Linked
<1>12. AskedRight(d)
  <2>1. ASSUME NEW k \in 1 .. Len(d.sent), d.sent[k].type = "applyEdit"
        PROVE  /\ d.sent[k].id \in DOMAIN d.applies
               /\ d.sent[k].change = d.applies[d.sent[k].id].change
               /\ d.sent[k].version = d.applies[d.sent[k].id].version
    <3>1. CASE k = last
      BY <1>2, <1>6, <3>1 DEF AsksFor
    <3>2. CASE k \in 1 .. Len(c.sent) /\ d.sent[k] = c.sent[k]
      BY <1>2, <1>4, <2>1, <3>2 DEF Linked, AskedRight
    <3>3. QED
      BY <1>7, <3>1, <3>2
  <2>2. QED
    BY <2>1 DEF AskedRight
<1>13. AnsweredRight(d, p)
  BY <1>2 DEF Linked, AnsweredRight
<1>14. Out(d, p)
  <2>1. ASSUME NEW id \in DOMAIN d.applies
        PROVE  \/ \E k \in 1 .. Len(d.sent) : AsksFor(d.sent, k, id)
               \/ \E k \in 1 .. Len(p) : AnswersFor(p, k, id)
    <3>1. CASE id = new
      BY <1>6, <3>1
    <3>2. CASE id \in DOMAIN c.applies
      BY <1>8, <3>2 DEF Linked, Out, AsksFor
    <3>3. QED
      BY <1>2, <3>1, <3>2
  <2>2. QED
    BY <2>1 DEF Out
<1>15. ASSUME NEW k \in 1 .. Len(c.sent), NEW id, AsksFor(d.sent, k, id)
       PROVE  AsksFor(c.sent, k, id) /\ id # new
  <2>1. AsksFor(c.sent, k, id)
    BY <1>8, <1>15 DEF AsksFor
  <2>2. id \in DOMAIN c.applies
    BY <2>1 DEF Linked, AskedRight, AsksFor
  <2>3. QED
    BY <1>3, <2>1, <2>2
<1>16. AskedOnce(d.sent)
  <2>1. ASSUME NEW k \in 1 .. Len(d.sent), NEW j \in 1 .. Len(d.sent), NEW id,
               AsksFor(d.sent, k, id), AsksFor(d.sent, j, id)
        PROVE  k = j
    <3>1. CASE k \in 1 .. Len(c.sent) /\ j \in 1 .. Len(c.sent)
      BY <1>15, <2>1, <3>1 DEF Linked, AskedOnce
    <3>2. QED
      BY <1>7, <1>9, <1>15, <2>1, <3>1
  <2>2. QED
    BY <2>1 DEF AskedOnce
<1>17. NotBoth(d.sent, p)
  <2>1. ASSUME NEW k \in 1 .. Len(d.sent), NEW j \in 1 .. Len(p), NEW id,
               AsksFor(d.sent, k, id), AnswersFor(p, j, id)
        PROVE  FALSE
    <3>1. id \in DOMAIN c.applies
      BY <2>1 DEF Linked, AnsweredRight, AnswersFor
    <3>2. k \in 1 .. Len(c.sent)
      BY <1>3, <1>7, <1>9, <2>1, <3>1
    <3>3. QED
      BY <1>15, <2>1, <3>2 DEF Linked, NotBoth
  <2>2. QED
    BY <2>1 DEF NotBoth
<1>18. QED
  BY <1>10, <1>11, <1>12, <1>13, <1>14, <1>16, <1>17 DEF Linked

(* The companion reads an answer and takes the offer off its list.         *)
LEMMA LinkedAnswered ==
    ASSUME NEW U, NEW c \in Companions(U), NEW p \in Seq(Messages(U)), Linked(c, p),
           p # <<>>, Head(p).type = "applied",
           NEW d, DOMAIN d.applies = DOMAIN c.applies \ {Head(p).id},
           \A i \in DOMAIN c.applies \ {Head(p).id} : d.applies[i] = c.applies[i],
           d.sent = c.sent, d.nextId = c.nextId
    PROVE  Linked(d, Tail(p))
<1> DEFINE q == Tail(p)
           id == Head(p).id
<1>1. /\ Len(p) \in Nat \ {0} /\ Len(q) = Len(p) - 1
      /\ \A i \in 1 .. Len(p) - 1 : q[i] = p[i + 1]
      /\ Head(p) = p[1]
  BY TailAt
<1> HIDE DEF q
<1>2. AnswersFor(p, 1, id) /\ 1 \in 1 .. Len(p) /\ \A other : AnswersFor(p, 1, other) => other = id
  BY <1>1 DEF AnswersFor
<1>3. \A k \in 1 .. Len(q) : k + 1 \in 1 .. Len(p) /\ q[k] = p[k + 1] /\ k + 1 # 1
  BY <1>1
<1>4. \A k \in 1 .. Len(p) : k # 1 => k - 1 \in 1 .. Len(q) /\ p[k] = q[k - 1]
  BY <1>1
<1>5. /\ DOMAIN d.applies = DOMAIN c.applies \ {id}
      /\ \A i \in DOMAIN d.applies : i \in DOMAIN c.applies /\ i # id /\ d.applies[i] = c.applies[i]
  OBVIOUS
<1> HIDE DEF id
<1>6. \A k \in 1 .. Len(c.sent) : ~AsksFor(c.sent, k, id)
  BY <1>2 DEF Linked, NotBoth
<1>7. \A k \in 1 .. Len(q) : ~AnswersFor(q, k, id)
  <2>1. ASSUME NEW k \in 1 .. Len(q), AnswersFor(q, k, id) PROVE FALSE
    <3>1. AnswersFor(p, k + 1, id)
      BY <1>3, <2>1 DEF AnswersFor
    <3>2. QED
      BY <1>2, <1>3, <3>1 DEF Linked, AnsweredOnce
  <2>2. QED
    BY <2>1
<1>8. Counted(d) /\ SerialsDiffer(d)
  BY <1>5 DEF Linked, Counted, SerialsDiffer
<1>9. AskedRight(d)
  BY <1>5, <1>6 DEF Linked, AskedRight, AsksFor
<1>10. AnsweredRight(d, q)
  BY <1>3, <1>5, <1>7 DEF Linked, AnsweredRight, AnswersFor
<1>11. Out(d, q)
  <2>1. ASSUME NEW other \in DOMAIN d.applies
        PROVE  \/ \E k \in 1 .. Len(c.sent) : AsksFor(c.sent, k, other)
               \/ \E k \in 1 .. Len(q) : AnswersFor(q, k, other)
    <3>1. ASSUME NEW k \in 1 .. Len(p), AnswersFor(p, k, other)
          PROVE  \E i \in 1 .. Len(q) : AnswersFor(q, i, other)
      <4>1. k # 1
        BY <1>2, <1>5, <3>1
      <4>2. k - 1 \in 1 .. Len(q) /\ AnswersFor(q, k - 1, other)
        BY <1>4, <3>1, <4>1 DEF AnswersFor
      <4>3. QED
        BY <4>2
    <3>2. QED
      BY <1>5, <3>1 DEF Linked, Out
  <2>2. QED
    BY <2>1 DEF Out
<1>12. AnsweredOnce(q)
  <2>1. ASSUME NEW k \in 1 .. Len(q), NEW j \in 1 .. Len(q), NEW other,
               AnswersFor(q, k, other), AnswersFor(q, j, other)
        PROVE  k = j
    <3>1. AnswersFor(p, k + 1, other) /\ AnswersFor(p, j + 1, other)
      BY <1>3, <2>1 DEF AnswersFor
    <3>2. k + 1 = j + 1
      BY <1>3, <3>1 DEF Linked, AnsweredOnce
    <3>3. QED
      BY <3>2
  <2>2. QED
    BY <2>1 DEF AnsweredOnce
<1>13. NotBoth(c.sent, q)
  BY <1>3 DEF Linked, NotBoth, AnswersFor
<1>14. QED
  BY <1>8, <1>9, <1>10, <1>11, <1>12, <1>13 DEF Linked, q

(* Once the promise of an answered offer has settled.                      *)
LEMMA LinkedReconciled ==
    ASSUME NEW U, NEW c \in Companions(U), NEW d \in Companions(U), NEW p,
           Reconciled(c, d), Linked(c, p)
    PROVE  /\ Linked(d, p)
           /\ Covered(c) => Covered(d)
<1>1. CASE Keeps(c, d)
  BY <1>1 DEF Keeps, KeepsWire, Covered, Linked, Counted, SerialsDiffer, AskedRight,
              AnsweredRight, Out, AskedOnce, AnsweredOnce, NotBoth
<1>2. CASE Issued(c, d)
  <2>1. c.nextId \in Nat /\ c.nextId + 1 \in Nat
    BY DEF Companions
  <2>2. \A id \in DOMAIN c.applies : c.applies[id].serial \in Nat
    BY OutstandingIs DEF Companions, Pendings
  <2>3. \A id \in DOMAIN c.applies : c.applies[id].serial # c.nextId + 1
    BY <2>1, <2>2 DEF Linked, Counted
  <2>4. Linked(d, p)
    BY <1>2, <2>1, <2>3, LinkedOffer DEF Issued
  <2>5. Covered(d)
    BY <1>2, <2>1 DEF Issued, Offered, Covered
  <2>6. QED
    BY <2>4, <2>5
<1>3. QED
  BY <1>1, <1>2 DEF Reconciled

(***************************************************************************)
(* The shapes of the variables, and the steps.                             *)
(***************************************************************************)
Fronts(U) ==
    [shared : BOOLEAN, buffer : Seq(U), version : Nat, modifiable : BOOLEAN, disk : Seq(U)]

Shape ==
    /\ scenario \in Scenarios
    /\ front \in Fronts(AllUnits)
    /\ toCompanion \in Seq(Messages(AllUnits))
    /\ companion \in Companions(AllUnits)
    /\ spent \in [Budgets -> Nat]
    /\ \A what \in Budgets : spent[what] <= Limits[what]
    /\ companion.open => companion.document # NoDocument

LEMMA ScenarioIs ==
    ASSUME scenario \in Scenarios
    PROVE  /\ BaseText \in Seq(AllUnits)
           /\ Limits \in [Budgets -> Nat]
           /\ \A k \in 1 .. Limits["userUnits"] : UserUnits[k] \in AllUnits
           /\ \A k \in 1 .. Limits["peerUnits"] : PeerUnits[k] \in AllUnits
<1>1. /\ BaseText \in Seq(ToSet(BaseText)) /\ UserUnits \in Seq(ToSet(UserUnits))
      /\ PeerUnits \in Seq(ToSet(PeerUnits))
      /\ Limits \in [Budgets -> Nat]
      /\ Limits["userUnits"] <= Len(UserUnits) /\ Limits["peerUnits"] <= Len(PeerUnits)
  BY ScenariosAreBounded DEF BaseText, UserUnits, PeerUnits, Limits
<1>2. Limits["userUnits"] \in Nat /\ Limits["peerUnits"] \in Nat
  BY <1>1 DEF Budgets
<1>3. AllUnits = ToSet(BaseText) \cup ToSet(UserUnits) \cup ToSet(PeerUnits)
  BY DEF AllUnits, Units
<1>4. BaseText \in Seq(AllUnits)
  <2>1. ToSet(BaseText) \subseteq AllUnits
    BY <1>3
  <2>2. Len(BaseText) \in Nat /\ \A i \in 1 .. Len(BaseText) : BaseText[i] \in AllUnits
    BY <1>1, <2>1, LenProperties, ElementOfSeq
  <2>3. DOMAIN BaseText = 1 .. Len(BaseText) /\ BaseText = [i \in 1 .. Len(BaseText) |-> BaseText[i]]
    BY <1>1, LenProperties
  <2> HIDE DEF AllUnits
  <2>4. QED
    BY <2>2, <2>3, IsASeq
<1>5. \A k \in 1 .. Len(UserUnits) : UserUnits[k] \in AllUnits
  BY <1>1, <1>3, ElementOfSeq
<1>6. \A k \in 1 .. Len(PeerUnits) : PeerUnits[k] \in AllUnits
  BY <1>1, <1>3, ElementOfSeq
<1>7. Len(UserUnits) \in Nat /\ Len(PeerUnits) \in Nat
  BY <1>1, LenProperties
<1>8. QED
  BY <1>1, <1>2, <1>4, <1>5, <1>6, <1>7

(* What a step is, as far as the two ends of the pipes go.                 *)
Unread(type) ==
    /\ toCompanion # <<>> /\ Head(toCompanion).type = type
    /\ toCompanion' = Tail(toCompanion) /\ front' = front
SameText == /\ front'.shared = front.shared /\ front'.buffer = front.buffer
            /\ front'.version = front.version

(* Nobody types, or the next of the units that this side types is put in,  *)
(* or nothing is.                                                          *)
Idle ==
    spent'["userUnits"] = spent["userUnits"] /\ spent'["peerUnits"] = spent["peerUnits"]
Inks(change, units, budget) ==
    \/ change.text = <<>> /\ spent'[budget] = spent[budget]
    \/ change.text = <<units[spent[budget] + 1]>> /\ spent'[budget] = spent[budget] + 1

Types ==
    \E change \in Changes(AllUnits) :
        /\ LocalChange(change) /\ Spares(front.buffer, change, erased')
        /\ Units(change.text) \subseteq Units(UserUnits) \cup Units(front.disk)
        /\ spent'["peerUnits"] = spent["peerUnits"]
        /\ Inks(change, UserUnits, "userUnits") \/ spent'["reloads"] > 0
Locks == SameText /\ front'.disk = front.disk /\ UNCHANGED <<toCompanion, companion>>
LetsGo ==
    /\ front.shared /\ LetGo /\ Units(front.buffer) \subseteq erased'
    /\ companion' = companion \/ NextForFront("openRefused")
Ignores == ~front.shared /\ NextForFront("openRefused") /\ UNCHANGED <<front, toCompanion>>
Opens ==
    \E text \in Seq(AllUnits) :
        /\ front'.shared /\ front'.buffer = text /\ front'.version = 0
        /\ toCompanion' = Append(toCompanion, [type |-> "open", text |-> text])
        /\ companion' = companion
        /\ IF front.shared THEN spent'.remirrors > 0 ELSE spent'.reopens > 0
Agrees ==
    /\ NextForFront("applyEdit") /\ Takes(Head(companion.sent))
    /\ front'.shared /\ front'.version = front.version + 1 /\ front'.disk = front.disk
    /\ front'.buffer = ApplyChange(front.buffer, Head(companion.sent).change)
    /\ Send([type |-> "applied", id |-> Head(companion.sent).id, ok |-> TRUE])
Declines ==
    /\ NextForFront("applyEdit") /\ front' = front
    /\ Send([type |-> "applied", id |-> Head(companion.sent).id, ok |-> FALSE])
Writes ==
    /\ NextForFront("save") /\ SameText
    /\ \E ok \in BOOLEAN : Send([type |-> "saved", id |-> Head(companion.sent).id, ok |-> ok])
    /\ \/ front'.disk = front.buffer
       \/ front' = front /\ (front.shared => spent'["failedSaves"] > 0)
HearsChange == Unread("change") /\ companion' = Changed(companion, Head(toCompanion).change)
HearsApplied ==
    /\ Unread("applied")
    /\ companion' = SettleApply(companion, Head(toCompanion).id, Head(toCompanion).ok)
HearsSaved == Unread("saved") /\ companion' = SettleSave(companion, Head(toCompanion).id)
HearsOpen == Unread("open") /\ companion' = Opened(companion, Head(toCompanion).text)
HearsClose == Unread("close") /\ companion' = Closed(companion)
(* The deadline of a write changes as it may, or not at all.               *)
Steady(c, d) ==
    \/ Unpaused(d)
    \/ /\ Keeps(c, d) /\ d.save = c.save /\ d.replica = c.replica
       /\ d.refusedSeed = c.refusedSeed
(* A peer's edit: what it removes is given up, and a unit it types is the  *)
(* next of the peers'.                                                     *)
RoomMoves ==
    \E change \in Changes(AllUnits) :
        /\ PeerEdits(change) /\ Spares(companion.replica, change, erased')
        /\ spent'["userUnits"] = spent["userUnits"]
        /\ Inks(change, PeerUnits, "peerUnits")
Works ==
    /\ UNCHANGED <<front, toCompanion>>
    /\ companion' \in Companions(AllUnits)
    /\ Reconciled(companion, companion') /\ Steady(companion, companion')
    /\ RoomMoves \/ BackstopFires \/ OwnEditsAnnounced
Saves == SaveFires
Holds == HoldGranted
Loses == HoldRefused

Moves ==
    \/ Types \/ Locks \/ LetsGo \/ Ignores \/ Opens \/ Agrees \/ Declines \/ Writes
    \/ HearsChange \/ HearsApplied \/ HearsSaved \/ HearsOpen \/ HearsClose
    \/ Works \/ Saves \/ Holds \/ Loses

SpentIs ==
    /\ spent' \in [Budgets -> Nat]
    /\ \A what \in Budgets : spent'[what] <= Limits[what] /\ spent[what] <= spent'[what]

LEMMA SpendDoes ==
    ASSUME Shape, NEW what \in Budgets, NEW n \in Nat, Spend(what, n)
    PROVE  /\ SpentIs /\ spent'[what] = spent[what] + n /\ spent[what] + n <= Limits[what]
           /\ \A other \in Budgets \ {what} : spent'[other] = spent[other]
<1> DEFINE more == spent[what] + n
<1>1. Limits \in [Budgets -> Nat]
  BY ScenarioIs DEF Shape
<1>2. spent[what] \in Nat
  BY DEF Shape
<1>3. more \in Nat /\ spent[what] <= more /\ more <= Limits[what]
  BY <1>2 DEF Spend
<1>4. spent' = [spent EXCEPT ![what] = more]
  BY DEF Spend
<1> HIDE DEF more
<1>5. spent' \in [Budgets -> Nat] /\ spent'[what] = more
  BY <1>3, <1>4 DEF Shape
<1>6. \A other \in Budgets : spent'[other] <= Limits[other] /\ spent[other] <= spent'[other]
  BY <1>1, <1>3, <1>4 DEF Shape
<1>7. \A other \in Budgets \ {what} : spent'[other] = spent[other]
  BY <1>4 DEF Shape
<1>8. QED
  BY <1>3, <1>5, <1>6, <1>7 DEF SpentIs, more

LEMMA SameSpent ==
    ASSUME Shape, spent' = spent
    PROVE  SpentIs /\ Idle
<1>1. \A what \in Budgets : spent[what] \in Nat
  BY DEF Shape
<1>2. QED
  BY <1>1 DEF Shape, SpentIs, Idle

LEMMA LocalChangeDoes ==
    ASSUME Shape, NEW change \in Changes(AllUnits), LocalChange(change),
           Spares(front.buffer, change, erased'),
           Units(change.text) \subseteq Units(UserUnits) \cup Units(front.disk),
           spent'["peerUnits"] = spent["peerUnits"],
           Inks(change, UserUnits, "userUnits") \/ spent'["reloads"] > 0
    PROVE  front' \in Fronts(AllUnits) /\ Types
<1> DEFINE buffer == ApplyChange(front.buffer, change)
           version == front.version + 1
<1>1. front \in Fronts(AllUnits) /\ front.buffer \in Seq(AllUnits) /\ front.version \in Nat
  BY DEF Shape, Fronts
<1>2. buffer \in Seq(AllUnits)
  BY <1>1, ApplyTyped
<1>3. version \in Nat
  BY <1>1
<1>4. front' = [front EXCEPT !.buffer = buffer, !.version = version]
  BY <1>1 DEF LocalChange, Fronts
<1> HIDE DEF buffer, version
<1>5. front' \in Fronts(AllUnits)
  BY <1>1, <1>2, <1>3, <1>4 DEF Fronts
<1>6. QED
  BY <1>5 DEF Types

(* What the two sides type is theirs.                                      *)
LEMMA TypedIs ==
    ASSUME Shape
    PROVE  /\ \A k \in 1 .. Limits["userUnits"] : UserUnits[k] \in Units(UserUnits)
           /\ \A k \in 1 .. Limits["peerUnits"] : PeerUnits[k] \in Units(PeerUnits)
<1>1. /\ UserUnits \in Seq(ToSet(UserUnits)) /\ PeerUnits \in Seq(ToSet(PeerUnits))
      /\ Limits \in [Budgets -> Nat]
      /\ Limits["userUnits"] <= Len(UserUnits) /\ Limits["peerUnits"] <= Len(PeerUnits)
  BY ScenariosAreBounded DEF Shape, UserUnits, PeerUnits, Limits
<1>2. /\ Limits["userUnits"] \in Nat /\ Limits["peerUnits"] \in Nat
      /\ Len(UserUnits) \in Nat /\ Len(PeerUnits) \in Nat
  BY <1>1, LenProperties DEF Budgets
<1>3. /\ \A k \in 1 .. Len(UserUnits) : UserUnits[k] \in Units(UserUnits)
      /\ \A k \in 1 .. Len(PeerUnits) : PeerUnits[k] \in Units(PeerUnits)
  BY <1>1, ElementOfSeq DEF Units
<1>4. QED
  BY <1>1, <1>2, <1>3

LEMMA PeerEditsDoes ==
    ASSUME Shape, NEW change \in Changes(AllUnits), PeerEdits(change), RoomMoves
    PROVE  Works
<1> DEFINE new == ApplyChange(companion.replica, change)
           e == [companion EXCEPT !.replica = new]
<1>1. companion \in Companions(AllUnits) /\ companion.replica \in Seq(AllUnits)
  BY DEF Shape, Companions
<1>2. new \in Seq(AllUnits)
  BY <1>1, ApplyTyped
<1>3. companion' = Announced(e)
  BY DEF PeerEdits
<1> HIDE DEF new
<1>4. e \in Companions(AllUnits) /\ Keeps(companion, e)
  BY <1>1, <1>2 DEF Companions, Keeps, KeepsPath, KeepsWire
<1> HIDE DEF e
<1>5. companion' \in Companions(AllUnits) /\ Reconciled(e, companion') /\ Unpaused(companion')
  BY <1>3, <1>4, AnnouncedDoes
<1>6. Reconciled(companion, companion')
  BY <1>4, <1>5, ReconciledAfter
<1>7. QED
  BY <1>5, <1>6 DEF Works, Steady, PeerEdits

LEMMA BackstopFiresDoes ==
    ASSUME Shape, BackstopFires
    PROVE  Works
<1> DEFINE c == [companion EXCEPT !.backstop = FALSE]
<1>1. companion \in Companions(AllUnits)
  BY DEF Shape
<1>2. /\ c \in Companions(AllUnits) /\ Keeps(companion, c) /\ c.save = companion.save
      /\ c.replica = companion.replica /\ c.refusedSeed = companion.refusedSeed
  BY <1>1 DEF Companions, Keeps, KeepsPath, KeepsWire
<1>3. companion' = CASE c.open /\ c.flight # NoFlight -> [c EXCEPT !.pending = TRUE]
                     [] /\ c.open
                        /\ c.flight = NoFlight
                        /\ c.document # NoDocument
                        /\ Malformed(c) -> Reconcile(c)
                     [] /\ c.open
                        /\ c.flight = NoFlight
                        /\ c.document # NoDocument
                        /\ ~Malformed(c)
                        /\ c.document.text # c.replica ->
                           [Issue(Report(c),
                                  Edit(0, Len(c.document.text), c.replica), c.replica)
                              EXCEPT !.save = "armed"]
                     [] OTHER -> c
  BY DEF BackstopFires
<1>4. UNCHANGED <<front, toCompanion>>
  BY DEF BackstopFires
<1> HIDE DEF c
<1>5. CASE companion' \in {c, [c EXCEPT !.pending = TRUE]}
  <2>1. /\ companion' \in Companions(AllUnits) /\ Keeps(c, companion')
        /\ companion'.save = c.save /\ companion'.replica = c.replica
        /\ companion'.refusedSeed = c.refusedSeed
    BY <1>2, <1>5, ZenonT(60) DEF Companions, Keeps, KeepsPath, KeepsWire
  <2>2. Keeps(companion, companion')
    BY <1>2, <2>1, KeepsAfter
  <2>3. QED
    BY <1>2, <1>4, <2>1, <2>2 DEF Works, Reconciled, Steady
<1>6. CASE /\ c.flight = NoFlight
           /\ c.document # NoDocument
           /\ companion' = [Issue(Report(c),
                                  Edit(0, Len(c.document.text), c.replica), c.replica)
                              EXCEPT !.save = "armed"]
  <2> DEFINE r == Report(c)
             change == Edit(0, Len(c.document.text), c.replica)
             f == Issue(r, change, c.replica)
  <2>1. c.document \in Documents(AllUnits) /\ c.replica \in Seq(AllUnits)
    BY <1>2, <1>6, DocumentIs DEF Companions
  <2>2. /\ change \in Changes(AllUnits) /\ change.end <= Len(c.document.text)
        /\ ApplyChange(c.document.text, change) = c.replica
    BY <2>1, WholeLeads DEF Documents
  <2> HIDE DEF change
  <2>3. r \in Companions(AllUnits) /\ Keeps(c, r) /\ r.replica = c.replica
    BY <1>2, <1>6, ReportDoes
  <2>4. r.document # NoDocument /\ r.flight = NoFlight /\ r.document = c.document
    BY <1>6, <2>3 DEF Keeps, KeepsPath, KeepsWire
  <2>5. companion' = [f EXCEPT !.save = "armed"]
    BY <1>6 DEF change
  <2> HIDE DEF r
  <2>6. f \in Companions(AllUnits) /\ Issued(r, f)
    BY <2>1, <2>2, <2>3, <2>4, IssueDoes
  <2> HIDE DEF f
  <2>7. companion' \in Companions(AllUnits) /\ Keeps(f, companion')
        /\ companion'.replica = f.replica
    BY <2>5, <2>6 DEF Companions, Keeps, KeepsPath, KeepsWire
  <2>8. Reconciled(r, companion')
    BY <2>6, <2>7, ReconciledBefore DEF Reconciled
  <2>9. Reconciled(companion, companion')
    BY <1>2, <2>3, <2>8, KeepsAfter, ReconciledAfter
  <2>10. companion'.flight # NoFlight
    BY <2>6, <2>7 DEF Issued, Keeps, KeepsWire
  <2>11. QED
    BY <1>4, <2>7, <2>9, <2>10 DEF Works, Steady, Unpaused
<1>7. CASE companion' = Reconcile(c)
  <2>1. companion' \in Companions(AllUnits) /\ Reconciled(c, companion') /\ Unpaused(companion')
    BY <1>2, <1>7, ReconcileDoes
  <2>2. Reconciled(companion, companion')
    BY <1>2, <2>1, ReconciledAfter
  <2>3. QED
    BY <1>4, <2>1, <2>2 DEF Works, Steady
<1>8. QED
  BY <1>3, <1>5, <1>6, <1>7

LEMMA OwnEditsAnnouncedDoes ==
    ASSUME Shape, OwnEditsAnnounced
    PROVE  Works
<1>1. companion \in Companions(AllUnits)
  BY DEF Shape
<1>2. QED
  BY <1>1, AnnouncedDoes DEF OwnEditsAnnounced, Works, Steady

(* Every step is one of these, and takes the front-end and the budgets to  *)
(* values of their kinds.                                                  *)
StepDoes ==
    /\ front' \in Fronts(AllUnits) /\ SpentIs /\ Moves /\ erased \subseteq erased'
    /\ Idle \/ Types \/ RoomMoves

LEMMA PersonDoes ==
    ASSUME Shape, Person
    PROVE  StepDoes
<1>1. /\ front \in Fronts(AllUnits) /\ front.buffer \in Seq(AllUnits)
      /\ front.disk \in Seq(AllUnits) /\ front.version \in Nat
      /\ \A what \in Budgets : spent[what] \in Nat
  BY DEF Shape, Fronts
<1>2. ASSUME UserInserts PROVE StepDoes
  <2>1. /\ SpentIs /\ spent["userUnits"] + 1 <= Limits["userUnits"]
        /\ spent'["userUnits"] = spent["userUnits"] + 1
        /\ spent'["peerUnits"] = spent["peerUnits"] /\ erased' = erased
    BY <1>2, SpendDoes DEF UserInserts, Budgets
  <2>2. spent["userUnits"] \in Nat /\ Limits["userUnits"] \in Nat
    BY <1>1, ScenarioIs DEF Budgets, Shape
  <2> DEFINE unit == UserUnits[spent.userUnits + 1]
  <2>3. unit \in AllUnits /\ unit \in Units(UserUnits)
    BY <2>1, <2>2, ScenarioIs, TypedIs DEF Shape
  <2>4. PICK at \in 0 .. Len(front.buffer) : LocalChange(Edit(at, at, <<unit>>))
    BY <1>2 DEF UserInserts
  <2> HIDE DEF unit
  <2>5. /\ Edit(at, at, <<unit>>) \in Changes(AllUnits)
        /\ Spares(front.buffer, Edit(at, at, <<unit>>), erased')
    BY <1>1, <2>3, InsertIs, SparesAll
  <2>6. Units(Edit(at, at, <<unit>>).text) \subseteq Units(UserUnits)
    BY <2>3 DEF Edit, Units, ToSet
  <2>7. Inks(Edit(at, at, <<unit>>), UserUnits, "userUnits")
    BY <2>1 DEF Inks, Edit, unit
  <2>8. front' \in Fronts(AllUnits) /\ Types
    BY <2>1, <2>4, <2>5, <2>6, <2>7, LocalChangeDoes
  <2>9. QED
    BY <2>1, <2>8 DEF StepDoes, Moves
<1>3. ASSUME UserDeletes PROVE StepDoes
  <2>1. SpentIs /\ Idle
    BY <1>3, SpendDoes DEF UserDeletes, Budgets, Idle
  <2>2. PICK at \in 0 .. Len(front.buffer) - 1 :
            LET end == PastCharacter(front.buffer, at)
            IN  /\ LocalChange(Edit(at, end, <<>>))
                /\ erased' = erased \cup Units(SubSeq(front.buffer, at + 1, end))
    BY <1>3 DEF UserDeletes
  <2> DEFINE end == PastCharacter(front.buffer, at)
  <2>3. end \in at .. Len(front.buffer) /\ at \in 0 .. Len(front.buffer)
    BY <1>1, LenProperties DEF PastCharacter, SplitsPair
  <2>4. /\ LocalChange(Edit(at, end, <<>>))
        /\ erased' = erased \cup Units(SubSeq(front.buffer, at + 1, end))
    BY <2>2
  <2> HIDE DEF end
  <2>5. /\ Edit(at, end, <<>>) \in Changes(AllUnits)
        /\ Spares(front.buffer, Edit(at, end, <<>>), erased')
    BY <1>1, <2>3, <2>4, ErasedSpares
  <2>6. /\ Units(Edit(at, end, <<>>).text) = {}
        /\ Inks(Edit(at, end, <<>>), UserUnits, "userUnits")
    BY <2>1 DEF Edit, Units, ToSet, Inks, Idle
  <2>7. front' \in Fronts(AllUnits) /\ Types
    BY <2>1, <2>5, <2>6, <2>4, LocalChangeDoes DEF Idle
  <2>8. QED
    BY <2>1, <2>7, <2>4 DEF StepDoes, Moves
<1>4. ASSUME UserReloads PROVE StepDoes
  <2>1. SpentIs /\ Idle /\ spent'["reloads"] > 0
    <3>1. SpentIs /\ Idle /\ spent'["reloads"] = spent["reloads"] + 1
      BY <1>4, SpendDoes DEF UserReloads, Budgets, Idle
    <3>2. spent["reloads"] \in Nat
      BY <1>1 DEF Budgets
    <3>3. QED
      BY <3>1, <3>2
  <2> DEFINE change == Edit(0, Len(front.buffer), front.disk)
  <2>2. LocalChange(change) /\ erased' = erased \cup (Units(front.buffer) \ Units(front.disk))
    BY <1>4 DEF UserReloads
  <2>3. change \in Changes(AllUnits) /\ Spares(front.buffer, change, erased')
    BY <1>1, <2>2, WholeIs, SparesAll
  <2>4. change.text = front.disk
    BY DEF Edit
  <2> HIDE DEF change
  <2>5. front' \in Fronts(AllUnits) /\ Types
    BY <2>1, <2>2, <2>3, <2>4, LocalChangeDoes DEF Idle
  <2>6. QED
    BY <2>1, <2>2, <2>5 DEF StepDoes, Moves
<1>5. ASSUME UserLocks PROVE StepDoes
  <2>1. SpentIs /\ Idle /\ erased' = erased
    BY <1>5, SpendDoes DEF UserLocks, Budgets, Idle
  <2>2. front' = [front EXCEPT !.modifiable = FALSE]
    BY <1>5 DEF UserLocks
  <2>3. front' \in Fronts(AllUnits) /\ SameText /\ front'.disk = front.disk
    BY <1>1, <2>2 DEF Fronts, SameText
  <2>4. Locks
    BY <1>5, <2>3 DEF UserLocks, Locks
  <2>5. QED
    BY <2>1, <2>3, <2>4 DEF StepDoes, Moves
<1>6. ASSUME UserUnlocks PROVE StepDoes
  <2>1. SpentIs /\ Idle /\ erased' = erased
    BY <1>6, SameSpent DEF UserUnlocks, Idle
  <2>2. front' = [front EXCEPT !.modifiable = TRUE]
    BY <1>6 DEF UserUnlocks
  <2>3. front' \in Fronts(AllUnits) /\ SameText /\ front'.disk = front.disk
    BY <1>1, <2>2 DEF Fronts, SameText
  <2>4. Locks
    BY <1>6, <2>3 DEF UserUnlocks, Locks
  <2>5. QED
    BY <2>1, <2>3, <2>4 DEF StepDoes, Moves
<1>7. ASSUME UserWipes PROVE StepDoes
  <2>1. /\ SpentIs /\ Idle
        /\ erased' = erased \cup Units(front.buffer)
    BY <1>7, SameSpent DEF UserWipes, Idle
  <2>2. front' \in Fronts(AllUnits)
    BY <1>1, <1>7 DEF UserWipes, LetGo, Fronts
  <2>3. LetsGo
    BY <1>7, <2>1 DEF UserWipes, LetsGo
  <2>4. QED
    BY <2>1, <2>2, <2>3 DEF StepDoes, Moves
<1>8. ASSUME UserReopens PROVE StepDoes
  <2>1. /\ SpentIs /\ spent'["reopens"] = spent["reopens"] + 1
        /\ Idle /\ erased' = erased
    BY <1>8, SpendDoes DEF UserReopens, Budgets, Idle
  <2>2. spent["reopens"] \in Nat
    BY <1>1 DEF Budgets
  <2>3. /\ front' = [front EXCEPT !.shared = TRUE, !.buffer = front.disk,
                                  !.version = 0, !.modifiable = TRUE]
        /\ ~front.shared /\ companion' = companion
        /\ Send([type |-> "open", text |-> front.disk])
    BY <1>8 DEF UserReopens
  <2>4. front' \in Fronts(AllUnits) /\ front'.shared /\ front'.buffer = front.disk
        /\ front'.version = 0
    BY <1>1, <2>3 DEF Fronts
  <2>5. spent'.reopens > 0
    BY <2>1, <2>2
  <2>6. Opens
    BY <1>1, <2>3, <2>4, <2>5 DEF Opens, Send
  <2>7. QED
    BY <2>1, <2>4, <2>6 DEF StepDoes, Moves
<1>9. ASSUME Remirror PROVE StepDoes
  <2>1. /\ SpentIs /\ spent'["remirrors"] = spent["remirrors"] + 1
        /\ Idle /\ erased' = erased
    BY <1>9, SpendDoes DEF Remirror, Budgets, Idle
  <2>2. spent["remirrors"] \in Nat
    BY <1>1 DEF Budgets
  <2>3. /\ front' = [front EXCEPT !.version = 0, !.modifiable = TRUE,
                                  !.disk = front.buffer]
        /\ front.shared /\ companion' = companion
        /\ Send([type |-> "open", text |-> front.buffer])
    BY <1>9 DEF Remirror
  <2>4. front' \in Fronts(AllUnits) /\ front'.shared /\ front'.buffer = front.buffer
        /\ front'.version = 0
    BY <1>1, <2>3 DEF Fronts
  <2>5. spent'.remirrors > 0
    BY <2>1, <2>2
  <2>6. Opens
    BY <1>1, <2>3, <2>4, <2>5 DEF Opens, Send
  <2>7. QED
    BY <2>1, <2>4, <2>6 DEF StepDoes, Moves
<1>10. QED
  BY <1>2, <1>3, <1>4, <1>5, <1>6, <1>7, <1>8, <1>9 DEF Person

LEMMA FrontStepDoes ==
    ASSUME Shape, FrontStep
    PROVE  StepDoes
<1>1. /\ front \in Fronts(AllUnits) /\ front.buffer \in Seq(AllUnits)
      /\ front.disk \in Seq(AllUnits) /\ front.version \in Nat
      /\ companion \in Companions(AllUnits) /\ companion.sent \in Seq(Words(AllUnits))
  BY DEF Shape, Fronts, Companions
<1>2. companion.sent # <<>> => Head(companion.sent) \in Words(AllUnits)
  BY <1>1, TailAt
<1>3. ASSUME FrontApplies PROVE StepDoes
  <2> DEFINE edit == Head(companion.sent)
             buffer == ApplyChange(front.buffer, edit.change)
             version == front.version + 1
  <2>1. NextForFront("applyEdit") /\ Takes(edit) /\ spent' = spent /\ erased' = erased
        /\ front' = [front EXCEPT !.buffer = ApplyChange(@, edit.change), !.version = @ + 1]
        /\ Send([type |-> "applied", id |-> edit.id, ok |-> TRUE])
    BY <1>3 DEF FrontApplies
  <2>2. edit.change \in Changes(AllUnits)
    BY <1>2, <2>1 DEF NextForFront, Words
  <2>3. buffer \in Seq(AllUnits)
    BY <1>1, <2>2, ApplyTyped
  <2>4. version \in Nat
    BY <1>1
  <2>5. front' = [front EXCEPT !.buffer = buffer, !.version = version]
    BY <1>1, <2>1 DEF Fronts
  <2> HIDE DEF buffer, version
  <2>6. front' \in Fronts(AllUnits) /\ front'.shared = front.shared
        /\ front'.buffer = buffer /\ front'.version = version /\ front'.disk = front.disk
    BY <1>1, <2>3, <2>4, <2>5 DEF Fronts
  <2>7. front'.shared
    BY <2>1, <2>6 DEF Takes
  <2>8. Agrees
    BY <2>1, <2>6, <2>7 DEF Agrees, buffer, version
  <2>9. QED
    BY <2>1, <2>6, <2>8, SameSpent DEF StepDoes, Moves
<1>4. ASSUME FrontRefuses PROVE StepDoes
  <2>1. front' = front /\ spent' = spent /\ Declines /\ erased' = erased
    BY <1>4 DEF FrontRefuses, Declines
  <2>2. QED
    BY <1>1, <2>1, SameSpent DEF StepDoes, Moves
<1>5. ASSUME FrontSaves PROVE StepDoes
  <2>1. front' = [front EXCEPT !.disk = front.buffer] /\ spent' = spent /\ erased' = erased
    BY <1>5 DEF FrontSaves
  <2>2. front' \in Fronts(AllUnits) /\ SameText /\ front'.disk = front.buffer
    BY <1>1, <2>1 DEF Fronts, SameText
  <2>3. Writes
    BY <1>5, <2>2 DEF FrontSaves, Writes
  <2>4. QED
    BY <2>1, <2>2, <2>3, SameSpent DEF StepDoes, Moves
<1>6. ASSUME FrontFailsToSave PROVE StepDoes
  <2>1. /\ SpentIs /\ Idle /\ erased' = erased
        /\ front.shared => spent'["failedSaves"] > 0
    <3>1. CASE front.shared
      <4>1. /\ SpentIs /\ spent'["failedSaves"] = spent["failedSaves"] + 1
            /\ Idle /\ erased' = erased
        BY <1>6, <3>1, SpendDoes DEF FrontFailsToSave, Budgets, Idle
      <4>2. spent["failedSaves"] \in Nat
        BY DEF Shape, Budgets
      <4>3. QED
        BY <4>1, <4>2
    <3>2. CASE ~front.shared
      BY <1>6, <3>2, SameSpent DEF FrontFailsToSave
    <3>3. QED
      BY <3>1, <3>2
  <2>2. front' = front /\ SameText
    BY <1>6 DEF FrontFailsToSave, SameText
  <2>3. Writes
    BY <1>6, <2>1, <2>2 DEF FrontFailsToSave, Writes
  <2>4. QED
    BY <1>1, <2>1, <2>2, <2>3 DEF StepDoes, Moves
<1>7. ASSUME FrontHearsRefusal PROVE StepDoes
  <2>1. spent' = spent /\ NextForFront("openRefused")
    BY <1>7 DEF FrontHearsRefusal
  <2>2. CASE front.shared
    <3>1. LetGo /\ erased' = erased \cup Units(front.buffer)
      BY <1>7, <2>2 DEF FrontHearsRefusal
    <3>2. front' \in Fronts(AllUnits)
      BY <1>1, <3>1 DEF LetGo, Fronts
    <3>3. QED
      BY <2>1, <2>2, <3>1, <3>2, SameSpent DEF StepDoes, Moves, LetsGo
  <2>3. CASE ~front.shared
    BY <1>1, <1>7, <2>1, <2>3, SameSpent DEF FrontHearsRefusal, StepDoes, Moves, Ignores
  <2>4. QED
    BY <2>2, <2>3
<1>8. QED
  BY <1>3, <1>4, <1>5, <1>6, <1>7 DEF FrontStep

LEMMA CompanionStepDoes ==
    ASSUME Shape, CompanionStep
    PROVE  StepDoes
<1>1. front \in Fronts(AllUnits)
  BY DEF Shape
<1>2. spent' = spent /\ front' = front /\ erased' = erased
  BY DEF CompanionStep, CompanionTakesChange, CompanionTakesApplied, CompanionTakesSaved,
         CompanionTakesOpen, CompanionTakesClose, NextForCompanion
<1>3. HearsChange \/ HearsApplied \/ HearsSaved \/ HearsOpen \/ HearsClose
  BY DEF CompanionStep, CompanionTakesChange, CompanionTakesApplied, CompanionTakesSaved,
         CompanionTakesOpen, CompanionTakesClose, NextForCompanion,
         HearsChange, HearsApplied, HearsSaved, HearsOpen, HearsClose, Unread
<1>4. QED
  BY <1>1, <1>2, <1>3, SameSpent DEF StepDoes, Moves

LEMMA RoomDoes ==
    ASSUME Shape, Room
    PROVE  StepDoes
<1>1. /\ front \in Fronts(AllUnits) /\ companion.replica \in Seq(AllUnits)
      /\ \A what \in Budgets : spent[what] \in Nat
  BY DEF Shape, Companions
<1>2. ASSUME PeerInserts PROVE StepDoes
  <2>1. /\ SpentIs /\ spent["peerUnits"] + 1 <= Limits["peerUnits"]
        /\ spent'["peerUnits"] = spent["peerUnits"] + 1 /\ erased' = erased
        /\ spent'["userUnits"] = spent["userUnits"]
    BY <1>2, SpendDoes DEF PeerInserts, Budgets
  <2>2. spent["peerUnits"] \in Nat /\ Limits["peerUnits"] \in Nat
    BY <1>1, ScenarioIs DEF Budgets, Shape
  <2> DEFINE unit == PeerUnits[spent.peerUnits + 1]
  <2>3. unit \in AllUnits
    <3>1. spent["peerUnits"] + 1 \in 1 .. Limits["peerUnits"]
      BY <2>1, <2>2
    <3>2. scenario \in Scenarios
      BY DEF Shape
    <3>3. QED
      BY <3>1, <3>2, ScenarioIs
  <2>4. PICK at \in 0 .. Len(companion.replica) : PeerEdits(Edit(at, at, <<unit>>))
    BY <1>2 DEF PeerInserts
  <2> HIDE DEF unit
  <2>5. /\ Edit(at, at, <<unit>>) \in Changes(AllUnits)
        /\ Spares(companion.replica, Edit(at, at, <<unit>>), erased')
    BY <1>1, <2>3, InsertIs, SparesAll
  <2>6. front' = front
    BY <2>4 DEF PeerEdits
  <2>7. Inks(Edit(at, at, <<unit>>), PeerUnits, "peerUnits")
    BY <2>1 DEF Inks, Edit, unit
  <2>8. RoomMoves
    BY <2>1, <2>4, <2>5, <2>7 DEF RoomMoves
  <2>9. QED
    BY <1>1, <2>1, <2>4, <2>5, <2>6, <2>8, PeerEditsDoes DEF StepDoes, Moves
<1>3. ASSUME PeerDeletes PROVE StepDoes
  <2>1. SpentIs /\ Idle
    BY <1>3, SpendDoes DEF PeerDeletes, Budgets, Idle
  <2>2. PICK at \in 0 .. Len(companion.replica) - 1 :
            /\ PeerEdits(Edit(at, at + 1, <<>>))
            /\ erased' = erased \cup {companion.replica[at + 1]}
    BY <1>3 DEF PeerDeletes
  <2>3. /\ Edit(at, at + 1, <<>>) \in Changes(AllUnits)
        /\ Spares(companion.replica, Edit(at, at + 1, <<>>), erased')
    BY <1>1, <2>2, DeleteIs, SparesAll
  <2>4. front' = front
    BY <2>2 DEF PeerEdits
  <2>5. RoomMoves
    <3>1. Inks(Edit(at, at + 1, <<>>), PeerUnits, "peerUnits")
      BY <2>1 DEF Inks, Edit, Idle
    <3>2. QED
      BY <2>1, <2>2, <2>3, <3>1 DEF RoomMoves, Idle
  <2>6. QED
    BY <1>1, <2>1, <2>2, <2>3, <2>4, <2>5, PeerEditsDoes DEF StepDoes, Moves
<1>4. ASSUME HoldRefused PROVE StepDoes
  <2>1. SpentIs /\ Idle
    BY <1>4, SpendDoes DEF HoldRefused, Budgets, Idle
  <2>2. front' = front /\ erased' = erased
    BY <1>4 DEF HoldRefused
  <2>3. QED
    BY <1>1, <1>4, <2>1, <2>2 DEF StepDoes, Moves, Loses
<1>5. QED
  BY <1>2, <1>3, <1>4 DEF Room

LEMMA NextDoes ==
    ASSUME Shape, Next
    PROVE  StepDoes /\ scenario' = scenario
<1>1. front \in Fronts(AllUnits)
  BY DEF Shape
<1>2. ASSUME BackstopFires PROVE StepDoes
  BY <1>1, <1>2, BackstopFiresDoes, SameSpent DEF BackstopFires, StepDoes, Moves
<1>3. ASSUME SaveFires PROVE StepDoes
  BY <1>1, <1>3, SameSpent DEF SaveFires, StepDoes, Moves, Saves
<1>4. ASSUME HoldGranted PROVE StepDoes
  BY <1>1, <1>4, SameSpent DEF HoldGranted, StepDoes, Moves, Holds
<1>5. ASSUME OwnEditsAnnounced PROVE StepDoes
  BY <1>1, <1>5, OwnEditsAnnouncedDoes, SameSpent DEF OwnEditsAnnounced, StepDoes, Moves
<1>6. QED
  BY <1>2, <1>3, <1>4, <1>5, PersonDoes, FrontStepDoes, CompanionStepDoes, RoomDoes
     DEF Next, System

(***************************************************************************)
(* What the companion is after each of them.                               *)
(***************************************************************************)
Wired == Shape /\ Linked(companion, toCompanion) /\ Covered(companion)

(* The parts no word on the pipe changes.                                  *)
Untouched(c, d) ==
    /\ KeepsPath(c, d) /\ d.applies = c.applies /\ d.flight = c.flight
    /\ d.replica = c.replica /\ d.refusedSeed = c.refusedSeed

LEMMA NextForFrontDoes ==
    ASSUME Shape, NEW type, NextForFront(type)
    PROVE  /\ companion.sent \in Seq(Words(AllUnits)) /\ companion.sent # <<>>
           /\ Head(companion.sent) \in Words(AllUnits) /\ Head(companion.sent).type = type
           /\ companion' \in Companions(AllUnits) /\ Untouched(companion, companion')
           /\ companion'.sent = Tail(companion.sent) /\ companion'.nextId = companion.nextId
           /\ companion'.save = companion.save
<1>1. companion \in Companions(AllUnits) /\ companion.sent \in Seq(Words(AllUnits))
  BY DEF Shape, Companions
<1>2. companion.sent # <<>> /\ Head(companion.sent).type = type
  BY DEF NextForFront
<1> DEFINE rest == Tail(companion.sent)
<1>3. companion' = [companion EXCEPT !.sent = rest]
  BY <1>1 DEF NextForFront, Companions
<1>4. rest \in Seq(Words(AllUnits)) /\ Head(companion.sent) \in Words(AllUnits)
  BY <1>1, <1>2, TailAt
<1> HIDE DEF rest
<1>5. companion' \in Companions(AllUnits) /\ Untouched(companion, companion')
      /\ companion'.sent = rest /\ companion'.nextId = companion.nextId
      /\ companion'.save = companion.save
  BY <1>1, <1>3, <1>4 DEF Companions, Untouched, KeepsPath
<1>6. QED
  BY <1>1, <1>2, <1>4, <1>5 DEF rest

LEMMA SaveFiresDoes ==
    ASSUME Shape, SaveFires
    PROVE  /\ companion' \in Companions(AllUnits)
           /\ companion'.document = companion.document /\ companion'.open = companion.open
           /\ companion'.held = companion.held /\ companion'.opening = companion.opening
           /\ companion'.applies = companion.applies /\ companion'.flight = companion.flight
           /\ companion'.replica = companion.replica
           /\ companion'.refusedSeed = companion.refusedSeed
           /\ Unpaused(companion')
           /\ \/ /\ companion'.sent = companion.sent /\ companion'.nextId = companion.nextId
                 /\ companion'.saves = companion.saves
              \/ /\ companion'.sent = Append(companion.sent,
                                             [type |-> "save", id |-> companion.nextId + 1])
                 /\ companion'.nextId = companion.nextId + 1
                 /\ companion'.saves = companion.saves \cup {companion.nextId + 1}
           /\ front' = front /\ toCompanion' = toCompanion
<1>1. companion \in Companions(AllUnits) /\ companion.sent \in Seq(Words(AllUnits))
      /\ companion.nextId \in Nat
  BY DEF Shape, Companions
<1> DEFINE new == companion.nextId + 1
           word == [type |-> "save", id |-> new]
           said == Append(companion.sent, word)
           more == companion.saves \cup {new}
<1>2. new \in Nat
  BY <1>1
<1>3. CASE \/ companion.document = NoDocument \/ companion.flight # NoFlight
           \/ Malformed(companion)
  <2>1. companion' = [companion EXCEPT !.save = "paused"]
    BY <1>3 DEF SaveFires
  <2>2. QED
    BY <1>1, <1>3, <2>1 DEF SaveFires, Companions, Unpaused, Malformed
<1>4. CASE ~(\/ companion.document = NoDocument \/ companion.flight # NoFlight
             \/ Malformed(companion))
  <2>1. word \in Words(AllUnits)
    BY <1>2 DEF Words
  <2>2. companion' = [companion EXCEPT !.save = "none", !.nextId = new, !.saves = more,
                                       !.sent = said]
    BY <1>1, <1>4 DEF SaveFires, Companions
  <2> HIDE DEF word
  <2>3. said \in Seq(Words(AllUnits))
    BY <1>1, <2>1
  <2>4. more \in SUBSET Nat
    BY <1>1, <1>2 DEF Companions
  <2> HIDE DEF new, said, more
  <2>5. /\ companion' \in Companions(AllUnits) /\ companion'.save = "none"
        /\ companion'.document = companion.document /\ companion'.open = companion.open
        /\ companion'.held = companion.held /\ companion'.opening = companion.opening
        /\ companion'.applies = companion.applies /\ companion'.flight = companion.flight
        /\ companion'.replica = companion.replica
        /\ companion'.refusedSeed = companion.refusedSeed
        /\ companion'.sent = said /\ companion'.nextId = new /\ companion'.saves = more
    BY <1>1, <1>2, <2>2, <2>3, <2>4 DEF Companions
  <2>6. Unpaused(companion')
    BY <2>5 DEF Unpaused
  <2>7. front' = front /\ toCompanion' = toCompanion
    BY DEF SaveFires
  <2>8. QED
    BY <2>5, <2>6, <2>7 DEF said, word, new, more
<1>5. QED
  BY <1>3, <1>4

LEMMA HoldGrantedDoes ==
    ASSUME Shape, HoldGranted
    PROVE  /\ companion' \in Companions(AllUnits) /\ KeepsWire(companion, companion')
           /\ companion'.document = companion.document /\ companion'.open = companion.open
           /\ companion'.held = companion.open /\ companion'.save = companion.save
           /\ companion'.saves = companion.saves
           /\ companion'.replica = companion.replica
           /\ companion'.refusedSeed = companion.refusedSeed
           /\ front' = front /\ toCompanion' = toCompanion
<1> DEFINE fewer == companion.opening - 1
<1>1. companion \in Companions(AllUnits)
  BY DEF Shape
<1>2. fewer \in Nat
  BY <1>1 DEF HoldGranted, Companions
<1>3. companion' = [companion EXCEPT !.opening = fewer, !.held = companion.open]
  BY <1>1 DEF HoldGranted, Companions
<1> HIDE DEF fewer
<1>4. QED
  BY <1>1, <1>2, <1>3, ZenonT(60) DEF HoldGranted, Companions, KeepsWire

LEMMA HoldRefusedDoes ==
    ASSUME Shape, HoldRefused
    PROVE  /\ companion' \in Companions(AllUnits)
           /\ companion'.document = companion.document /\ ~companion'.open
           /\ companion'.held = companion.held /\ companion'.saves = companion.saves
           /\ companion'.applies = companion.applies /\ companion'.flight = NoFlight
           /\ companion'.nextId = companion.nextId
           /\ companion'.sent = Append(companion.sent, [type |-> "openRefused"])
           /\ [type |-> "openRefused"] \in Words(AllUnits)
           /\ front' = front /\ toCompanion' = toCompanion
<1> DEFINE f == Forget(companion)
           fewer == f.opening - 1
           word == [type |-> "openRefused"]
           said == Append(f.sent, word)
<1>1. companion \in Companions(AllUnits) /\ companion.opening > 0
  BY DEF Shape, HoldRefused
<1>2. /\ f \in Companions(AllUnits) /\ ~f.open /\ f.flight = NoFlight
      /\ f.applies = companion.applies /\ f.sent = companion.sent
      /\ f.nextId = companion.nextId /\ f.document = companion.document
      /\ f.held = companion.held /\ f.opening = companion.opening
      /\ f.saves = companion.saves
  BY <1>1, ForgetDoes
<1>3. companion' = [f EXCEPT !.opening = @ - 1,
                             !.sent = Append(@, [type |-> "openRefused"])]
  BY DEF HoldRefused
<1> HIDE DEF f
<1>4. fewer \in Nat
  BY <1>1, <1>2 DEF Companions
<1>5. word \in Words(AllUnits)
  BY DEF Words
<1>6. companion' = [f EXCEPT !.opening = fewer, !.sent = said]
  BY <1>2, <1>3 DEF Companions
<1> HIDE DEF fewer, word
<1>7. said \in Seq(Words(AllUnits))
  BY <1>2, <1>5 DEF Companions
<1> HIDE DEF said
<1>8. /\ companion' \in Companions(AllUnits) /\ ~companion'.open
      /\ companion'.flight = NoFlight /\ companion'.applies = f.applies
      /\ companion'.sent = said /\ companion'.nextId = f.nextId
      /\ companion'.document = f.document /\ companion'.held = f.held
      /\ companion'.saves = f.saves
  BY <1>2, <1>4, <1>6, <1>7 DEF Companions
<1>9. front' = front /\ toCompanion' = toCompanion
  BY DEF HoldRefused
<1>10. QED
  BY <1>2, <1>5, <1>8, <1>9 DEF said, word

LEMMA UnreadDoes ==
    ASSUME Shape, NEW type, Unread(type)
    PROVE  /\ Head(toCompanion) \in Messages(AllUnits) /\ Head(toCompanion).type = type
           /\ toCompanion # <<>> /\ toCompanion' = Tail(toCompanion)
           /\ toCompanion' \in Seq(Messages(AllUnits))
           /\ 1 \in 1 .. Len(toCompanion) /\ toCompanion[1] = Head(toCompanion)
<1>1. toCompanion \in Seq(Messages(AllUnits)) /\ toCompanion # <<>>
  BY DEF Shape, Unread
<1>2. QED
  BY <1>1, TailAt DEF Unread

(* The answer that is read, and the offer it is to.                        *)
LEMMA HearsAppliedIs ==
    ASSUME Wired, HearsApplied, NEW c, NEW id, NEW ok,
           c = companion, id = Head(toCompanion).id, ok = Head(toCompanion).ok
    PROVE  /\ c \in Companions(AllUnits) /\ (c.open => c.document # NoDocument)
           /\ id \in DOMAIN c.applies /\ ok \in BOOLEAN
           /\ companion' = SettleApply(c, id, ok)
           /\ Linked(c, toCompanion) /\ Covered(c)
<1>1. /\ Head(toCompanion) \in Messages(AllUnits) /\ Head(toCompanion).type = "applied"
      /\ 1 \in 1 .. Len(toCompanion) /\ toCompanion[1] = Head(toCompanion)
  BY UnreadDoes DEF Wired, HearsApplied
<1>2. ok \in BOOLEAN
  BY <1>1 DEF Messages
<1>3. id \in DOMAIN c.applies
  BY <1>1 DEF Wired, Linked, AnsweredRight
<1>4. QED
  BY <1>2, <1>3 DEF Wired, Shape, HearsApplied

(***************************************************************************)
(* The pipes stay linked.                                                  *)
(***************************************************************************)
Kept ==
    /\ companion' \in Companions(AllUnits)
    /\ toCompanion' \in Seq(Messages(AllUnits))
    /\ companion'.open => companion'.document # NoDocument
    /\ Linked(companion', toCompanion') /\ Covered(companion')

LEMMA SendsIs ==
    ASSUME Shape, NEW m \in Messages(AllUnits), Send(m)
    PROVE  toCompanion' = Append(toCompanion, m) /\ toCompanion' \in Seq(Messages(AllUnits))
<1>1. toCompanion \in Seq(Messages(AllUnits))
  BY DEF Shape
<1>2. QED
  BY <1>1, AppendAt DEF Send

LEMMA MessagesAre ==
    ASSUME NEW U
    PROVE  /\ \A change \in Changes(U) : [type |-> "change", change |-> change] \in Messages(U)
           /\ \A text \in Seq(U) : [type |-> "open", text |-> text] \in Messages(U)
           /\ [type |-> "close"] \in Messages(U)
           /\ \A id \in Nat, ok \in BOOLEAN :
                  /\ [type |-> "applied", id |-> id, ok |-> ok] \in Messages(U)
                  /\ [type |-> "saved", id |-> id, ok |-> ok] \in Messages(U)
BY DEF Messages

LEMMA PipingKeeps ==
    ASSUME Wired, NEW m \in Messages(AllUnits), m.type # "applied", Send(m),
           companion' \in Companions(AllUnits),
           companion'.applies = companion.applies, companion'.nextId = companion.nextId,
           companion'.flight = companion.flight, companion'.open = companion.open,
           companion'.document = companion.document,
           \/ companion'.sent = companion.sent
           \/ /\ companion'.sent = Tail(companion.sent) /\ companion.sent # <<>>
              /\ Head(companion.sent).type # "applyEdit"
    PROVE  Kept
<1>1. toCompanion' = Append(toCompanion, m) /\ toCompanion' \in Seq(Messages(AllUnits))
  BY SendsIs DEF Wired
<1>2. companion \in Companions(AllUnits) /\ toCompanion \in Seq(Messages(AllUnits))
      /\ Linked(companion, toCompanion) /\ Covered(companion)
      /\ (companion.open => companion.document # NoDocument)
  BY DEF Wired, Shape
<1>3. Linked(companion, toCompanion')
  BY <1>1, <1>2, LinkedPiped
<1>4. Linked(companion', toCompanion')
  <2>1. CASE companion'.sent = companion.sent
    BY <1>3, <2>1 DEF Linked, Counted, SerialsDiffer, AskedRight, AnsweredRight, Out, AskedOnce,
                      AnsweredOnce, NotBoth
  <2>2. CASE companion'.sent # companion.sent
    BY <1>2, <1>3, <2>2, LinkedRead
  <2>3. QED
    BY <2>1, <2>2
<1>5. Covered(companion')
  BY <1>2 DEF Covered
<1>6. QED
  BY <1>1, <1>2, <1>4, <1>5 DEF Kept

LEMMA TypesKeeps ==
    ASSUME Wired, Types
    PROVE  Kept
<1>1. PICK change \in Changes(AllUnits) : LocalChange(change)
  BY DEF Types
<1> DEFINE m == [type |-> "change", change |-> change]
<1>2. m \in Messages(AllUnits) /\ m.type # "applied"
  BY MessagesAre
<1>3. Send(m) /\ companion' = companion
  BY <1>1 DEF LocalChange
<1>4. companion \in Companions(AllUnits)
  BY DEF Wired, Shape
<1> HIDE DEF m
<1>5. QED
  BY <1>2, <1>3, <1>4, PipingKeeps

LEMMA LetsGoKeeps ==
    ASSUME Wired, LetsGo
    PROVE  Kept
<1> DEFINE m == [type |-> "close"]
<1>1. m \in Messages(AllUnits) /\ m.type # "applied"
  BY MessagesAre
<1>2. Send(m)
  BY DEF LetsGo, LetGo
<1>3. companion \in Companions(AllUnits)
  BY DEF Wired, Shape
<1> HIDE DEF m
<1>4. CASE companion' = companion
  BY <1>1, <1>2, <1>3, <1>4, PipingKeeps
<1>5. CASE NextForFront("openRefused")
  <2>1. /\ companion.sent # <<>> /\ Head(companion.sent).type = "openRefused"
        /\ companion' \in Companions(AllUnits) /\ Untouched(companion, companion')
        /\ companion'.sent = Tail(companion.sent) /\ companion'.nextId = companion.nextId
    BY <1>5, NextForFrontDoes DEF Wired
  <2>2. QED
    BY <1>1, <1>2, <2>1, PipingKeeps DEF Untouched, KeepsPath
<1>6. QED
  BY <1>4, <1>5 DEF LetsGo

LEMMA IgnoresKeeps ==
    ASSUME Wired, Ignores
    PROVE  Kept
<1>1. /\ companion.sent # <<>> /\ Head(companion.sent).type = "openRefused"
      /\ companion' \in Companions(AllUnits) /\ Untouched(companion, companion')
      /\ companion'.sent = Tail(companion.sent) /\ companion'.nextId = companion.nextId
  BY NextForFrontDoes DEF Wired, Ignores
<1>2. companion \in Companions(AllUnits) /\ Linked(companion, toCompanion)
  BY DEF Wired, Shape
<1>3. Linked(companion', toCompanion)
  BY <1>1, <1>2, LinkedRead DEF Untouched
<1>4. toCompanion' = toCompanion
  BY DEF Ignores
<1>5. QED
  BY <1>1, <1>3, <1>4 DEF Kept, Wired, Shape, Covered, Untouched, KeepsPath

LEMMA OpensKeeps ==
    ASSUME Wired, Opens
    PROVE  Kept
<1>1. PICK text \in Seq(AllUnits) : /\ Send([type |-> "open", text |-> text])
                                    /\ companion' = companion
  BY DEF Opens, Send
<1> DEFINE m == [type |-> "open", text |-> text]
<1>2. m \in Messages(AllUnits) /\ m.type # "applied" /\ Send(m)
  BY <1>1, MessagesAre
<1>3. companion \in Companions(AllUnits)
  BY DEF Wired, Shape
<1> HIDE DEF m
<1>4. QED
  BY <1>1, <1>2, <1>3, PipingKeeps

LEMMA AnswersKeeps ==
    ASSUME Wired, NextForFront("applyEdit"), NEW ok \in BOOLEAN,
           Send([type |-> "applied", id |-> Head(companion.sent).id, ok |-> ok])
    PROVE  Kept
<1> DEFINE m == [type |-> "applied", id |-> Head(companion.sent).id, ok |-> ok]
<1>1. /\ companion.sent # <<>> /\ Head(companion.sent).type = "applyEdit"
      /\ Head(companion.sent) \in Words(AllUnits)
      /\ companion' \in Companions(AllUnits) /\ Untouched(companion, companion')
      /\ companion'.sent = Tail(companion.sent) /\ companion'.nextId = companion.nextId
  BY NextForFrontDoes DEF Wired
<1>2. Head(companion.sent).id \in Nat
  BY <1>1 DEF Words
<1>3. m \in Messages(AllUnits) /\ m.type = "applied" /\ m.id = Head(companion.sent).id
  BY <1>2, MessagesAre
<1>4. companion \in Companions(AllUnits) /\ Linked(companion, toCompanion)
      /\ toCompanion \in Seq(Messages(AllUnits))
  BY DEF Wired, Shape
<1> HIDE DEF m
<1>5. Linked(companion', Append(toCompanion, m))
  BY <1>1, <1>3, <1>4, LinkedTaken DEF Untouched
<1>6. toCompanion' = Append(toCompanion, m) /\ toCompanion' \in Seq(Messages(AllUnits))
  BY <1>3, SendsIs DEF Wired, m
<1>7. Covered(companion')
  BY <1>1 DEF Wired, Covered, Untouched
<1>8. companion'.open => companion'.document # NoDocument
  BY <1>1 DEF Wired, Shape, Untouched, KeepsPath
<1>9. QED
  BY <1>1, <1>5, <1>6, <1>7, <1>8 DEF Kept

LEMMA WritesKeeps ==
    ASSUME Wired, Writes
    PROVE  Kept
<1>1. PICK ok \in BOOLEAN : Send([type |-> "saved", id |-> Head(companion.sent).id, ok |-> ok])
  BY DEF Writes
<1> DEFINE m == [type |-> "saved", id |-> Head(companion.sent).id, ok |-> ok]
<1>2. /\ companion.sent # <<>> /\ Head(companion.sent).type = "save"
      /\ Head(companion.sent) \in Words(AllUnits)
      /\ companion' \in Companions(AllUnits) /\ Untouched(companion, companion')
      /\ companion'.sent = Tail(companion.sent) /\ companion'.nextId = companion.nextId
  BY NextForFrontDoes DEF Wired, Writes
<1>3. Head(companion.sent).id \in Nat
  BY <1>2 DEF Words
<1>4. m \in Messages(AllUnits) /\ m.type # "applied" /\ Send(m)
  BY <1>1, <1>3, MessagesAre
<1> HIDE DEF m
<1>5. QED
  BY <1>2, <1>4, PipingKeeps DEF Untouched, KeepsPath

LEMMA HearingKeeps ==
    ASSUME Wired, NEW type, type # "applied", Unread(type),
           companion' \in Companions(AllUnits), Linked(companion', toCompanion),
           Covered(companion'), companion'.open => companion'.document # NoDocument
    PROVE  Kept
<1>1. /\ Head(toCompanion).type = type /\ toCompanion # <<>>
      /\ toCompanion' = Tail(toCompanion) /\ toCompanion' \in Seq(Messages(AllUnits))
  BY UnreadDoes DEF Wired
<1>2. toCompanion \in Seq(Messages(AllUnits))
  BY DEF Wired, Shape
<1>3. Linked(companion', Tail(toCompanion))
  BY <1>1, <1>2, LinkedHeard
<1>4. QED
  BY <1>1, <1>3 DEF Kept

(* The same offers, the same flight: nothing to link anew.                 *)
SameLinks(c, d) ==
    d.applies = c.applies /\ d.sent = c.sent /\ d.nextId = c.nextId
LEMMA LinkedStill ==
    ASSUME NEW c, NEW d, NEW p, SameLinks(c, d), Linked(c, p)
    PROVE  Linked(d, p)
BY DEF SameLinks, Linked, Counted, SerialsDiffer, AskedRight, AnsweredRight, Out, AskedOnce,
       AnsweredOnce, NotBoth

LEMMA HearsChangeKeeps ==
    ASSUME Wired, HearsChange
    PROVE  Kept
<1> DEFINE change == Head(toCompanion).change
<1>1. change \in Changes(AllUnits)
  BY UnreadDoes DEF Wired, HearsChange, Messages
<1>2. companion \in Companions(AllUnits) /\ companion' = Changed(companion, change)
      /\ Linked(companion, toCompanion) /\ Covered(companion)
      /\ (companion.open => companion.document # NoDocument)
  BY DEF Wired, Shape, HearsChange
<1> HIDE DEF change
<1>3. /\ companion' \in Companions(AllUnits) /\ SameOffers(companion, companion')
      /\ SameFlight(companion, companion') /\ companion'.open = companion.open
      /\ companion'.document = NoDocument <=> companion.document = NoDocument
  BY <1>1, <1>2, ChangedDoes
<1>4. Linked(companion', toCompanion)
  BY <1>2, <1>3, LinkedSame
<1>5. Covered(companion')
  BY <1>2, <1>3 DEF Covered, SameFlight, SameOffers
<1>6. QED
  BY <1>2, <1>3, <1>4, <1>5, HearingKeeps DEF HearsChange

LEMMA HearsSavedKeeps ==
    ASSUME Wired, HearsSaved
    PROVE  Kept
<1> DEFINE rest == companion.saves \ {Head(toCompanion).id}
<1>1. companion \in Companions(AllUnits)
  BY DEF Wired, Shape
<1>2. companion' = [companion EXCEPT !.saves = rest]
  BY <1>1 DEF HearsSaved, SettleSave, Companions
<1>3. rest \in SUBSET Nat
  BY <1>1 DEF Companions
<1> HIDE DEF rest
<1>4. /\ companion' \in Companions(AllUnits) /\ SameLinks(companion, companion')
      /\ companion'.flight = companion.flight /\ companion'.open = companion.open
      /\ companion'.document = companion.document
  BY <1>1, <1>2, <1>3 DEF Companions, SameLinks
<1>5. Linked(companion', toCompanion) /\ Covered(companion')
  BY <1>4, LinkedStill DEF Wired, Covered, SameLinks
<1>6. companion'.open => companion'.document # NoDocument
  BY <1>4 DEF Wired, Shape
<1>7. QED
  BY <1>4, <1>5, <1>6, HearingKeeps DEF HearsSaved

LEMMA HearsCloseKeeps ==
    ASSUME Wired, HearsClose
    PROVE  Kept
<1>1. companion \in Companions(AllUnits) /\ companion' = Closed(companion)
  BY DEF Wired, Shape, HearsClose
<1>2. /\ companion' \in Companions(AllUnits) /\ ~companion'.open
      /\ companion'.flight = NoFlight /\ SameLinks(companion, companion')
  BY <1>1, ClosedDoes DEF SameLinks
<1>3. Linked(companion', toCompanion) /\ Covered(companion')
  BY <1>2, LinkedStill DEF Wired, Covered
<1>4. QED
  BY <1>2, <1>3, HearingKeeps DEF HearsClose

LEMMA HearsOpenKeeps ==
    ASSUME Wired, HearsOpen
    PROVE  Kept
<1> DEFINE text == Head(toCompanion).text
           e == Presented(companion, text)
<1>1. text \in Seq(AllUnits)
  BY UnreadDoes DEF Wired, HearsOpen, Messages
<1>2. companion \in Companions(AllUnits) /\ companion' = Opened(companion, text)
      /\ Linked(companion, toCompanion) /\ Covered(companion)
  BY DEF Wired, Shape, HearsOpen
<1>3. SameLinks(companion, e) /\ e.flight = companion.flight
  BY <1>2 DEF Presented, Companions, SameLinks
<1> HIDE DEF text
<1>4. /\ companion' \in Companions(AllUnits) /\ e \in Companions(AllUnits)
      /\ companion'.document # NoDocument /\ Rewired(AllUnits, e, companion')
  BY <1>1, <1>2, OpenedDoes
<1>5. PICK f \in Companions(AllUnits) :
          /\ Reconciled(e, f)
          /\ companion'.applies = f.applies /\ companion'.sent = f.sent
          /\ companion'.nextId = f.nextId /\ companion'.flight = f.flight
  BY <1>4 DEF Rewired
<1> HIDE DEF e
<1>6. Linked(e, toCompanion) /\ Covered(e)
  BY <1>2, <1>3, LinkedStill DEF Covered, SameLinks
<1>7. Linked(f, toCompanion) /\ Covered(f)
  BY <1>4, <1>5, <1>6, LinkedReconciled
<1>8. Linked(companion', toCompanion) /\ Covered(companion')
  BY <1>5, <1>7, LinkedStill DEF Covered, SameLinks
<1>9. QED
  BY <1>4, <1>8, HearingKeeps DEF HearsOpen

(* What the settling of an answer may do.                                  *)
LEMMA HearsAppliedKeeps ==
    ASSUME Wired, HearsApplied
    PROVE  Kept
<1> DEFINE c == companion
           id == Head(toCompanion).id
           ok == Head(toCompanion).ok
           r == Read(c, id, ok)
           serial == c.applies[id].serial
<1>1. /\ c \in Companions(AllUnits)
      /\ c.open => c.document # NoDocument
      /\ id \in DOMAIN c.applies /\ ok \in BOOLEAN
      /\ companion' = SettleApply(c, id, ok)
      /\ Linked(c, toCompanion) /\ Covered(c)
  BY HearsAppliedIs
<1>2. /\ toCompanion \in Seq(Messages(AllUnits)) /\ toCompanion # <<>>
      /\ Head(toCompanion).type = "applied" /\ toCompanion' = Tail(toCompanion)
      /\ toCompanion' \in Seq(Messages(AllUnits))
  BY UnreadDoes DEF Wired, Shape, HearsApplied
<1>3. /\ r \in Companions(AllUnits)
      /\ DOMAIN r.applies = DOMAIN c.applies \ {id}
      /\ \A i \in DOMAIN c.applies \ {id} : r.applies[i] = c.applies[i]
      /\ r.open = c.open /\ r.sent = c.sent /\ r.nextId = c.nextId /\ r.flight = c.flight
      /\ r.document = NoDocument <=> c.document = NoDocument
  BY <1>1, ReadDoes
<1>4. /\ companion' \in Companions(AllUnits)
      /\ Resolves(r, serial, companion') \/ OfferedAgain(r, serial, companion')
  BY <1>1, SettleApplyDoes
<1>5. Linked(r, toCompanion')
  <2> HIDE DEF r
  <2>1. QED
    BY <1>1, <1>2, <1>3, LinkedAnswered
<1>6. serial \in Nat /\ serial <= c.nextId /\ c.nextId \in Nat
  BY <1>1, OutstandingIs DEF Linked, Counted, Companions, Pendings
<1>7. \A i \in DOMAIN r.applies : /\ i \in DOMAIN c.applies /\ i # id
                                  /\ r.applies[i] = c.applies[i] /\ r.applies[i].serial # serial
  BY <1>1, <1>3 DEF Linked, SerialsDiffer
<1>8. c.flight # NoFlight /\ c.flight.serial # serial => Covered(r)
  BY <1>1, <1>3 DEF Covered
<1>9. c.open => r.document # NoDocument
  BY <1>1, <1>3
<1> HIDE DEF r, serial, c, id, ok
<1>10. CASE Resolves(r, serial, companion') /\ r.flight # NoFlight /\ r.flight.serial = serial
  <2> DEFINE e == Landed(r)
  <2>1. /\ e \in Companions(AllUnits) /\ SameLinks(r, e) /\ e.flight = NoFlight
        /\ e.open = r.open /\ e.document = r.document
    BY <1>3 DEF Landed, Companions, SameLinks
  <2>2. Reconciled(e, companion')
    BY <1>10 DEF Resolves
  <2> HIDE DEF e
  <2>3. Linked(e, toCompanion') /\ Covered(e)
    BY <1>5, <2>1, LinkedStill DEF Covered
  <2>4. Linked(companion', toCompanion') /\ Covered(companion')
    BY <1>4, <2>1, <2>2, <2>3, LinkedReconciled
  <2>5. companion'.open = e.open /\ companion'.document = e.document
    BY <2>2 DEF Reconciled, Keeps, Issued, KeepsPath
  <2>6. QED
    BY <1>2, <1>3, <1>4, <1>9, <2>1, <2>4, <2>5 DEF Kept
<1>11. CASE Resolves(r, serial, companion') /\ ~(r.flight # NoFlight /\ r.flight.serial = serial)
  <2>1. companion' = r
    BY <1>11 DEF Resolves
  <2>2. Covered(r)
    BY <1>3, <1>8, <1>11 DEF Covered
  <2>3. QED
    BY <1>2, <1>3, <1>4, <1>5, <1>9, <2>1, <2>2 DEF Kept
<1>12. CASE OfferedAgain(r, serial, companion')
  <2>1. KeepsPath(r, companion') /\ Offered(r, companion', serial) /\ companion'.flight = r.flight
    BY <1>12 DEF OfferedAgain
  <2>2. serial <= r.nextId + 1
    BY <1>3, <1>6
  <2>3. Linked(companion', toCompanion')
    BY <1>3, <1>4, <1>5, <1>6, <1>7, <2>1, <2>2, LinkedOffer
  <2>4. Covered(companion')
    <3>1. SUFFICES ASSUME companion'.flight # NoFlight
                   PROVE  \E i \in DOMAIN companion'.applies :
                              companion'.applies[i].serial = companion'.flight.serial
      BY DEF Covered
    <3>2. CASE r.flight.serial = serial
      BY <2>1, <3>2 DEF Offered
    <3>3. CASE r.flight.serial # serial
      <4>1. PICK i \in DOMAIN r.applies : r.applies[i].serial = r.flight.serial
        BY <1>3, <1>8, <2>1, <3>1, <3>3 DEF Covered
      <4>2. i # r.nextId + 1
        BY <1>1, <1>3, <1>6, <1>7, <4>1, OutstandingIs DEF Linked, Counted, Companions
      <4>3. i \in DOMAIN companion'.applies /\ companion'.applies[i] = r.applies[i]
        BY <2>1, <4>1, <4>2 DEF Offered
      <4>4. QED
        BY <2>1, <4>1, <4>3
    <3>4. QED
      BY <3>2, <3>3
  <2>5. companion'.open => companion'.document # NoDocument
    BY <1>3, <1>9, <2>1 DEF KeepsPath
  <2>6. QED
    BY <1>2, <1>4, <2>3, <2>4, <2>5 DEF Kept
<1>13. QED
  BY <1>4, <1>10, <1>11, <1>12

LEMMA WorksKeeps ==
    ASSUME Wired, Works
    PROVE  Kept
<1>1. companion \in Companions(AllUnits) /\ Linked(companion, toCompanion) /\ Covered(companion)
  BY DEF Wired, Shape
<1>2. Reconciled(companion, companion') /\ companion' \in Companions(AllUnits)
      /\ toCompanion' = toCompanion
  BY DEF Works
<1>3. Linked(companion', toCompanion) /\ Covered(companion')
  BY <1>1, <1>2, LinkedReconciled
<1>4. companion'.open = companion.open /\ companion'.document = companion.document
  BY <1>2 DEF Reconciled, Keeps, Issued, KeepsPath
<1>5. QED
  BY <1>2, <1>3, <1>4 DEF Kept, Wired, Shape

LEMMA SavesKeeps ==
    ASSUME Wired, Saves
    PROVE  Kept
<1>1. companion \in Companions(AllUnits) /\ Linked(companion, toCompanion) /\ Covered(companion)
  BY DEF Wired, Shape
<1>2. /\ companion' \in Companions(AllUnits)
      /\ companion'.document = companion.document /\ companion'.open = companion.open
      /\ companion'.applies = companion.applies /\ companion'.flight = companion.flight
      /\ \/ companion'.sent = companion.sent /\ companion'.nextId = companion.nextId
         \/ /\ companion'.sent = Append(companion.sent,
                                        [type |-> "save", id |-> companion.nextId + 1])
            /\ companion'.nextId = companion.nextId + 1
      /\ toCompanion' = toCompanion
  BY SaveFiresDoes DEF Wired, Saves
<1>3. Linked(companion', toCompanion)
  <2>1. CASE companion'.sent = companion.sent /\ companion'.nextId = companion.nextId
    BY <1>1, <1>2, <2>1, LinkedStill DEF SameLinks
  <2>2. CASE /\ companion'.sent = Append(companion.sent,
                                         [type |-> "save", id |-> companion.nextId + 1])
             /\ companion'.nextId = companion.nextId + 1
    <3> DEFINE word == [type |-> "save", id |-> companion.nextId + 1]
    <3>1. companion.nextId + 1 \in Nat
      BY <1>1 DEF Companions
    <3>2. word \in Words(AllUnits) /\ word.type # "applyEdit"
      BY <3>1 DEF Words
    <3>3. companion'.sent = Append(companion.sent, word)
      BY <2>2
    <3> HIDE DEF word
    <3>4. QED
      BY <1>1, <1>2, <2>2, <3>2, <3>3, LinkedSaid
  <2>3. QED
    BY <1>2, <2>1, <2>2
<1>4. QED
  BY <1>1, <1>2, <1>3 DEF Kept, Wired, Shape, Covered

LEMMA HoldsKeeps ==
    ASSUME Wired, Holds
    PROVE  Kept
<1>1. /\ companion' \in Companions(AllUnits) /\ KeepsWire(companion, companion')
      /\ companion'.document = companion.document /\ companion'.open = companion.open
      /\ toCompanion' = toCompanion
  BY HoldGrantedDoes DEF Wired, Holds
<1>2. Linked(companion', toCompanion)
  BY <1>1, LinkedStill DEF Wired, SameLinks, KeepsWire
<1>3. QED
  BY <1>1, <1>2 DEF Kept, Wired, Shape, Covered, KeepsWire

LEMMA LosesKeeps ==
    ASSUME Wired, Loses
    PROVE  Kept
<1> DEFINE word == [type |-> "openRefused"]
<1>1. /\ companion' \in Companions(AllUnits) /\ ~companion'.open
      /\ companion'.applies = companion.applies /\ companion'.flight = NoFlight
      /\ companion'.nextId = companion.nextId
      /\ companion'.sent = Append(companion.sent, word) /\ word \in Words(AllUnits)
      /\ toCompanion' = toCompanion
  BY HoldRefusedDoes DEF Wired, Loses
<1>2. word.type # "applyEdit"
  OBVIOUS
<1> HIDE DEF word
<1>3. companion \in Companions(AllUnits) /\ Linked(companion, toCompanion)
  BY DEF Wired, Shape
<1>4. Linked(companion', toCompanion)
  BY <1>1, <1>2, <1>3, LinkedSaid
<1>5. QED
  BY <1>1, <1>4 DEF Kept, Wired, Shape, Covered

LEMMA MovesKeep ==
    ASSUME Wired, Moves
    PROVE  Kept
<1>1. CASE Locks
  BY <1>1 DEF Locks, Kept, Wired, Shape
<1>2. CASE Agrees
  BY <1>2, AnswersKeeps DEF Agrees
<1>3. CASE Declines
  BY <1>3, AnswersKeeps DEF Declines
<1>4. QED
  BY <1>1, <1>2, <1>3, TypesKeeps, LetsGoKeeps, IgnoresKeeps, OpensKeeps, WritesKeeps,
     HearsChangeKeeps, HearsAppliedKeeps, HearsSavedKeeps, HearsOpenKeeps, HearsCloseKeeps,
     WorksKeeps, SavesKeeps, HoldsKeeps, LosesKeeps DEF Moves

LEMMA WiredFirst ==
    ASSUME Init
    PROVE  Wired
<1>1. scenario \in Scenarios
  BY DEF Init
<1>2. BaseText \in Seq(AllUnits) /\ Limits \in [Budgets -> Nat]
  BY <1>1, ScenarioIs
<1>3. front \in Fronts(AllUnits)
  BY <1>2 DEF Init, Fronts
<1>4. toCompanion \in Seq(Messages(AllUnits)) /\ toCompanion = <<>> /\ Len(toCompanion) = 0
  BY DEF Init
<1> DEFINE document == [text |-> BaseText, version |-> 0]
<1>5. document \in Documents(AllUnits) /\ document # NoDocument
  <2>1. document \in Documents(AllUnits)
    BY <1>2 DEF Documents
  <2>2. QED
    BY <2>1, DocumentIs
<1>6. <<>> \in Outstanding(AllUnits) /\ DOMAIN <<>> = {} /\ <<>> \in Seq(Words(AllUnits))
  <2>1. <<>> \in [{} -> Pendings(AllUnits)] /\ DOMAIN <<>> = {}
    OBVIOUS
  <2>2. QED
    BY <2>1 DEF Outstanding
<1>7. /\ companion.document = document /\ companion.applies = <<>> /\ companion.sent = <<>>
      /\ companion.flight = NoFlight
  BY DEF Init
<1>8. companion \in Companions(AllUnits)
  <2> HIDE DEF document
  <2>1. companion =
          [document |-> document,
           applies |-> <<>>, saves |-> {}, nextId |-> 0, sent |-> <<>>,
           open |-> TRUE, flight |-> NoFlight, pending |-> FALSE, attempts |-> 0,
           backstop |-> FALSE, save |-> "none", refusedSeed |-> FALSE,
           opening |-> 0, held |-> TRUE,
           replica |-> BaseText, unscanned |-> FALSE,
           told |-> FALSE, accounted |-> {}, refused |-> {},
           unshared |-> {}, warned |-> FALSE]
    BY DEF Init, document
  <2>2. QED
    BY <1>2, <1>5, <1>6, <2>1 DEF Companions
<1>9. spent \in [Budgets -> Nat] /\ \A what \in Budgets : spent[what] <= Limits[what]
  BY <1>2 DEF Init
<1>10. Linked(companion, toCompanion)
  BY <1>4, <1>6, <1>7 DEF Linked, Counted, SerialsDiffer, AskedRight, AnsweredRight, Out,
     AskedOnce, AnsweredOnce, NotBoth
<1>11. QED
  BY <1>1, <1>3, <1>4, <1>5, <1>7, <1>8, <1>9, <1>10 DEF Wired, Shape, Covered

LEMMA WiredKept ==
    ASSUME Wired, [Next]_vars
    PROVE  Wired'
<1>1. CASE UNCHANGED vars
  <2>1. /\ front' = front /\ toCompanion' = toCompanion /\ companion' = companion
        /\ spent' = spent /\ scenario' = scenario
    BY <1>1 DEF vars
  <2>2. AllUnits' = AllUnits /\ Limits' = Limits
    BY <2>1 DEF AllUnits, BaseText, UserUnits, PeerUnits, Limits
  <2>3. QED
    BY <2>1, <2>2 DEF Wired, Shape
<1>2. CASE Next
  <2>1. StepDoes /\ scenario' = scenario
    BY <1>2, NextDoes DEF Wired
  <2>2. Kept
    BY <2>1, MovesKeep DEF StepDoes
  <2>3. AllUnits' = AllUnits /\ Limits' = Limits
    BY <2>1 DEF AllUnits, BaseText, UserUnits, PeerUnits, Limits
  <2>4. Shape'
    BY <2>1, <2>2, <2>3 DEF StepDoes, SpentIs, Kept, Wired, Shape
  <2>5. QED
    BY <2>2, <2>4 DEF Wired, Kept
<1>3. QED
  BY <1>1, <1>2

(* Every behaviour keeps its pipes linked.                                 *)
LEMMA AlwaysWired == Spec => []Wired
<1>1. Init => Wired
  BY WiredFirst
<1>2. Wired /\ [Next]_vars => Wired'
  BY WiredKept
<1>3. QED
  BY <1>1, <1>2, PTL DEF Spec

(***************************************************************************)
(* What outlives a step: an offer that is still out is the one it was, and *)
(* a new one has a new id.                                                 *)
(***************************************************************************)
OffersStand(c, d) ==
    \A id \in DOMAIN d.applies :
        \/ c.nextId < id
        \/ /\ id \in DOMAIN c.applies
           /\ d.applies[id].change = c.applies[id].change
           /\ d.applies[id].version = c.applies[id].version
Counts(c, d) ==
    /\ c.nextId <= d.nextId
    /\ \A id \in d.saves : id \in c.saves \/ (id = d.nextId /\ c.nextId < d.nextId)
Stays(c, d) == OffersStand(c, d) /\ Counts(c, d)

(* Whatever is newly said is an offer computed from the mirror as it is.   *)
Offers(d, word) ==
    /\ word.type = "applyEdit" /\ d.document # NoDocument
    /\ word.version = d.document.version /\ word.base = d.document.text
Speaks(U, c, d) ==
    \/ d.sent = c.sent
    \/ \E word \in Words(U) : Offers(d, word) /\ d.sent = Append(c.sent, word)

LEMMA CountIs ==
    ASSUME NEW U, NEW c \in Companions(U)
    PROVE  /\ c.nextId \in Nat /\ c.nextId <= c.nextId /\ c.nextId < c.nextId + 1
           /\ c.nextId <= c.nextId + 1
BY DEF Companions

LEMMA OfferedStays ==
    ASSUME NEW U, NEW c \in Companions(U), NEW d \in Companions(U), NEW serial,
           KeepsPath(c, d), Offered(c, d, serial)
    PROVE  Stays(c, d) /\ Speaks(U, c, d)
<1> DEFINE new == c.nextId + 1
           word == [type |-> "applyEdit", id |-> new, change |-> d.applies[new].change,
                    version |-> c.document.version, base |-> c.document.text]
<1>1. c.nextId < new /\ c.nextId <= new /\ new \in Nat
  BY CountIs
<1>2. d.applies[new] \in Pendings(U)
  BY OutstandingIs DEF Offered, Companions
<1>3. c.document \in Documents(U)
  BY DocumentIs DEF Offered, Companions
<1>4. word \in Words(U)
  BY <1>1, <1>2, <1>3 DEF Words, Pendings, Documents
<1>5. d.sent = Append(c.sent, word)
  BY DEF Offered
<1>6. Offers(d, word)
  BY DEF Offered, Offers, KeepsPath
<1> HIDE DEF word
<1>7. Speaks(U, c, d)
  BY <1>4, <1>5, <1>6 DEF Speaks
<1>8. Counts(c, d)
  BY <1>1 DEF Offered, KeepsPath, Counts
<1>9. OffersStand(c, d)
  <2>1. DOMAIN d.applies = DOMAIN c.applies \cup {new}
    BY DEF Offered
  <2>2. \A i \in DOMAIN c.applies : i # new => d.applies[i] = c.applies[i]
    BY DEF Offered
  <2> HIDE DEF new
  <2>3. QED
    BY <1>1, <2>1, <2>2 DEF OffersStand
<1>10. QED
  BY <1>7, <1>8, <1>9 DEF Stays

LEMMA ReconciledStays ==
    ASSUME NEW U, NEW c \in Companions(U), NEW d \in Companions(U), Reconciled(c, d)
    PROVE  Stays(c, d) /\ Speaks(U, c, d) /\ KeepsPath(c, d)
<1>1. CASE Keeps(c, d)
  BY <1>1, CountIs DEF Keeps, KeepsPath, KeepsWire, Stays, OffersStand, Counts, Speaks
<1>2. CASE Issued(c, d)
  BY <1>2, OfferedStays DEF Issued
<1>3. QED
  BY <1>1, <1>2 DEF Reconciled

(* What reading an answer comes to.                                        *)
LEMMA HearsAppliedDoes ==
    ASSUME Wired, HearsApplied, NEW c, NEW id, NEW ok,
           c = companion, id = Head(toCompanion).id, ok = Head(toCompanion).ok
    PROVE  /\ companion' \in Companions(AllUnits)
           /\ companion'.document = IF Took(c, id, ok) THEN Take(c.document, c.applies[id].change)
                                    ELSE c.document
           /\ companion'.open = c.open /\ companion'.held = c.held
           /\ Stays(c, companion') /\ Speaks(AllUnits, c, companion')
<1> DEFINE r == Read(c, id, ok)
           serial == c.applies[id].serial
           d == companion'
<1>1. /\ c \in Companions(AllUnits) /\ (c.open => c.document # NoDocument)
      /\ id \in DOMAIN c.applies /\ ok \in BOOLEAN /\ d = SettleApply(c, id, ok)
  BY HearsAppliedIs
<1>2. /\ r \in Companions(AllUnits)
      /\ DOMAIN r.applies = DOMAIN c.applies \ {id}
      /\ \A i \in DOMAIN c.applies \ {id} : r.applies[i] = c.applies[i]
      /\ r.open = c.open /\ r.held = c.held /\ r.saves = c.saves
      /\ r.sent = c.sent /\ r.nextId = c.nextId
      /\ r.document = IF Took(c, id, ok) THEN Take(c.document, c.applies[id].change)
                      ELSE c.document
  BY <1>1, ReadDoes
<1>3. /\ d \in Companions(AllUnits)
      /\ Resolves(r, serial, d) \/ OfferedAgain(r, serial, d)
  BY <1>1, SettleApplyDoes
<1> HIDE DEF r, serial
<1>4. Stays(r, d) /\ Speaks(AllUnits, r, d) /\ KeepsPath(r, d)
  <2>1. CASE Resolves(r, serial, d) /\ r.flight # NoFlight /\ r.flight.serial = serial
    <3> DEFINE e == Landed(r)
    <3>1. /\ e \in Companions(AllUnits) /\ SameLinks(r, e) /\ KeepsPath(r, e)
      BY <1>2 DEF Landed, Companions, SameLinks, KeepsPath
    <3>2. Reconciled(e, d)
      BY <2>1 DEF Resolves
    <3> HIDE DEF e
    <3>3. Stays(e, d) /\ Speaks(AllUnits, e, d) /\ KeepsPath(e, d)
      BY <1>3, <3>1, <3>2, ReconciledStays
    <3>4. QED
      BY <3>1, <3>3 DEF Stays, OffersStand, Counts, Speaks, SameLinks, KeepsPath
  <2>2. CASE Resolves(r, serial, d) /\ ~(r.flight # NoFlight /\ r.flight.serial = serial)
    <3>1. d = r
      BY <2>2 DEF Resolves
    <3>2. QED
      BY <1>2, <3>1, CountIs DEF Stays, OffersStand, Counts, Speaks, KeepsPath
  <2>3. CASE OfferedAgain(r, serial, d)
    BY <1>2, <1>3, <2>3, OfferedStays DEF OfferedAgain
  <2>4. QED
    BY <1>3, <2>1, <2>2, <2>3
<1>5. Stays(c, d)
  BY <1>2, <1>4 DEF Stays, OffersStand, Counts
<1>6. Speaks(AllUnits, c, d)
  BY <1>2, <1>4 DEF Speaks
<1>7. QED
  BY <1>2, <1>3, <1>4, <1>5, <1>6 DEF KeepsPath

LEMMA HearsOpenDoes ==
    ASSUME Wired, HearsOpen
    PROVE  /\ companion' \in Companions(AllUnits)
           /\ companion'.document = Fresh(Head(toCompanion).text) /\ companion'.open
           /\ companion'.held = companion.held /\ Unpaused(companion')
           /\ Stays(companion, companion') /\ Speaks(AllUnits, companion, companion')
<1> DEFINE text == Head(toCompanion).text
           e == Presented(companion, text)
<1>1. text \in Seq(AllUnits)
  BY UnreadDoes DEF Wired, HearsOpen, Messages
<1>2. companion \in Companions(AllUnits) /\ companion' = Opened(companion, text)
  BY DEF Wired, Shape, HearsOpen
<1>3. SameLinks(companion, e) /\ e.saves = companion.saves
  BY <1>2 DEF Presented, Companions, SameLinks
<1> HIDE DEF text
<1>4. /\ companion' \in Companions(AllUnits) /\ e \in Companions(AllUnits)
      /\ companion'.document = Fresh(text) /\ companion'.open
      /\ companion'.held = companion.held /\ Unpaused(companion')
      /\ companion'.saves = companion.saves
      /\ Rewired(AllUnits, e, companion')
  BY <1>1, <1>2, OpenedDoes
<1>5. PICK f \in Companions(AllUnits) :
          /\ Reconciled(e, f)
          /\ companion'.applies = f.applies /\ companion'.sent = f.sent
          /\ companion'.nextId = f.nextId /\ companion'.flight = f.flight
  BY <1>4 DEF Rewired
<1>6. e.document = Fresh(text)
  BY <1>2 DEF Presented, Companions
<1> HIDE DEF e
<1>7. Stays(e, f) /\ Speaks(AllUnits, e, f) /\ KeepsPath(e, f)
  BY <1>4, <1>5, ReconciledStays
<1>8. Stays(companion, companion')
  BY <1>3, <1>4, <1>5, <1>7 DEF Stays, OffersStand, Counts, SameLinks, KeepsPath
<1>9. f.document = companion'.document
  BY <1>4, <1>6, <1>7 DEF KeepsPath
<1>10. Speaks(AllUnits, companion, companion')
  BY <1>3, <1>5, <1>7, <1>9 DEF Speaks, Offers, SameLinks
<1>11. QED
  BY <1>4, <1>8, <1>10 DEF text

LEMMA HearsChangeDoes ==
    ASSUME Wired, HearsChange, NEW c, c = companion
    PROVE  /\ companion' \in Companions(AllUnits) /\ SameOffers(c, companion')
           /\ SameFlight(c, companion')
           /\ companion'.open = c.open /\ companion'.held = c.held
           /\ companion'.document = IF c.document = NoDocument THEN NoDocument
                                    ELSE Take(c.document, Head(toCompanion).change)
           /\ c.document # NoDocument => Unpaused(companion') \/ PausedOverRefused(companion')
           /\ c.document = NoDocument => companion' = c
           /\ Stays(c, companion')
<1> DEFINE change == Head(toCompanion).change
<1>1. change \in Changes(AllUnits)
  BY UnreadDoes DEF Wired, HearsChange, Messages
<1>2. c \in Companions(AllUnits) /\ companion' = Changed(c, change)
  BY DEF Wired, Shape, HearsChange
<1> HIDE DEF change
<1>3. /\ companion' \in Companions(AllUnits) /\ SameOffers(c, companion')
      /\ SameFlight(c, companion') /\ companion'.open = c.open /\ companion'.held = c.held
      /\ companion'.saves = c.saves
      /\ companion'.document = IF c.document = NoDocument THEN NoDocument
                               ELSE Take(c.document, change)
      /\ c.document # NoDocument => Unpaused(companion') \/ PausedOverRefused(companion')
      /\ c.document = NoDocument => companion' = c
  BY <1>1, <1>2, ChangedDoes
<1>4. Stays(c, companion')
  BY <1>2, <1>3, CountIs DEF SameOffers, Stays, OffersStand, Counts
<1>5. QED
  BY <1>3, <1>4 DEF change

LEMMA HearsSavedDoes ==
    ASSUME Wired, HearsSaved
    PROVE  /\ companion' \in Companions(AllUnits) /\ SameLinks(companion, companion')
           /\ companion'.flight = companion.flight /\ companion'.open = companion.open
           /\ companion'.document = companion.document /\ companion'.held = companion.held
           /\ companion'.save = companion.save /\ companion'.replica = companion.replica
           /\ companion'.refusedSeed = companion.refusedSeed
           /\ companion'.saves \subseteq companion.saves
<1> DEFINE rest == companion.saves \ {Head(toCompanion).id}
<1>1. companion \in Companions(AllUnits)
  BY DEF Wired, Shape
<1>2. companion' = [companion EXCEPT !.saves = rest]
  BY <1>1 DEF HearsSaved, SettleSave, Companions
<1>3. rest \in SUBSET Nat /\ rest \subseteq companion.saves
  BY <1>1 DEF Companions
<1> HIDE DEF rest
<1>4. QED
  BY <1>1, <1>2, <1>3 DEF Companions, SameLinks

LEMMA HearsCloseDoes ==
    ASSUME Wired, HearsClose
    PROVE  /\ companion' \in Companions(AllUnits) /\ ~companion'.open /\ ~companion'.held
           /\ companion'.document = NoDocument /\ SameLinks(companion, companion')
           /\ companion'.saves = companion.saves
<1>1. companion \in Companions(AllUnits) /\ companion' = Closed(companion)
  BY DEF Wired, Shape, HearsClose
<1>2. QED
  BY <1>1, ClosedDoes DEF SameLinks

LEMMA SameStays ==
    ASSUME NEW U, NEW c \in Companions(U), NEW d, d.applies = c.applies, d.nextId = c.nextId,
           d.saves \subseteq c.saves
    PROVE  Stays(c, d)
BY CountIs DEF Stays, OffersStand, Counts

LEMMA MovesStay ==
    ASSUME Wired, Moves
    PROVE  Stays(companion, companion')
<1>1. companion \in Companions(AllUnits)
  BY DEF Wired, Shape
<1>2. ASSUME companion' = companion PROVE Stays(companion, companion')
  BY <1>1, <1>2, SameStays
<1>3. ASSUME NEW type, NextForFront(type) PROVE Stays(companion, companion')
  <2>1. Untouched(companion, companion') /\ companion'.nextId = companion.nextId
    BY <1>3, NextForFrontDoes DEF Wired
  <2>2. QED
    BY <1>1, <2>1, SameStays DEF Untouched, KeepsPath
<1>4. CASE Types \/ Locks \/ Opens \/ LetsGo \/ Ignores \/ Agrees \/ Declines \/ Writes
  BY <1>2, <1>3, <1>4 DEF Types, LocalChange, Locks, Opens, LetsGo, Ignores, Agrees, Declines,
                          Writes
<1>5. CASE HearsSaved
  BY <1>1, <1>5, HearsSavedDoes, SameStays DEF SameLinks
<1>6. CASE HearsClose
  BY <1>1, <1>6, HearsCloseDoes, SameStays DEF SameLinks
<1>7. CASE Works
  BY <1>1, <1>7, ReconciledStays DEF Works
<1>8. CASE Saves
  <2>1. /\ companion'.applies = companion.applies
        /\ \/ /\ companion'.nextId = companion.nextId /\ companion'.saves = companion.saves
           \/ /\ companion'.nextId = companion.nextId + 1
              /\ companion'.saves = companion.saves \cup {companion.nextId + 1}
    BY <1>8, SaveFiresDoes DEF Wired, Saves
  <2>2. QED
    BY <1>1, <2>1, CountIs DEF Stays, OffersStand, Counts
<1>9. CASE Holds
  BY <1>1, <1>9, HoldGrantedDoes, SameStays DEF Wired, Holds, KeepsWire
<1>10. CASE Loses
  BY <1>1, <1>10, HoldRefusedDoes, SameStays DEF Wired, Loses
<1>11. QED
  BY <1>4, <1>5, <1>6, <1>7, <1>8, <1>9, <1>10, HearsAppliedDoes, HearsOpenDoes, HearsChangeDoes
     DEF Moves

(***************************************************************************)
(* The shapes of the variables.                                            *)
(***************************************************************************)
Numbered(c) == \A id \in c.saves : id # 0 /\ id <= c.nextId
Counting == Wired /\ Numbered(companion)

LEMMA NumberedKept ==
    ASSUME Counting, [Next]_vars
    PROVE  Counting'
<1>1. Wired'
  BY WiredKept DEF Counting
<1>2. CASE UNCHANGED vars
  BY <1>1, <1>2 DEF vars, Counting
<1>3. CASE Next
  <2>1. Stays(companion, companion')
    BY <1>3, NextDoes, MovesStay DEF Counting, Wired, StepDoes
  <2>2. companion \in Companions(AllUnits)
    BY DEF Counting, Wired, Shape
  <2>3. companion' \in Companions(AllUnits)
    BY <1>3, NextDoes, MovesKeep DEF Counting, Wired, StepDoes, Kept
  <2>4. companion.nextId \in Nat /\ companion'.nextId \in Nat /\ companion.saves \subseteq Nat
    BY <2>2, <2>3 DEF Companions
  <2>5. Numbered(companion')
    BY <2>1, <2>4 DEF Counting, Stays, Counts, Numbered
  <2>6. QED
    BY <1>1, <2>5 DEF Counting
<1>4. QED
  BY <1>2, <1>3

LEMMA ShapesHold ==
    ASSUME Counting
    PROVE  TypeOK
<1>1. /\ front \in Fronts(AllUnits) /\ companion \in Companions(AllUnits)
      /\ spent \in [Budgets -> Nat] /\ Linked(companion, toCompanion)
  BY DEF Counting, Wired, Shape
<1>2. front \in [shared : BOOLEAN, buffer : Texts, version : Nat,
                 modifiable : BOOLEAN, disk : Texts]
  BY <1>1 DEF Fronts, Texts
<1>3. companion.document \in {NoDocument} \cup [text : Texts, version : Nat]
  BY <1>1 DEF Companions, Documents, Texts
<1>4. companion.flight \in {NoFlight} \cup
          [serial : Nat, expected : Texts, replica : Texts, before : Texts, moved : BOOLEAN]
  BY <1>1 DEF Companions, Flights, Texts
<1>5. companion.replica \in Texts /\ companion.save \in {"none", "armed", "paused"}
  BY <1>1 DEF Companions, Texts
<1>6. Changes(AllUnits) \subseteq TextChanges
  BY DEF Changes, TextChanges, Texts
<1>7. ASSUME NEW id \in DOMAIN companion.applies
      PROVE  companion.applies[id] \in
                [change : TextChanges, version : Nat, withheld : Seq(TextChanges),
                 offered : 0 .. MaxRebasedOffers, serial : Nat]
  <2>1. companion.applies[id] \in Pendings(AllUnits)
    BY <1>1, OutstandingIs DEF Companions
  <2>2. companion.applies[id].withheld \in Seq(TextChanges)
    <3>1. companion.applies[id].withheld \in Seq(Changes(AllUnits))
      BY <2>1 DEF Pendings
    <3> HIDE DEF TextChanges
    <3>2. QED
      BY <1>6, <3>1
  <2> HIDE DEF TextChanges
  <2>3. QED
    BY <1>6, <2>1, <2>2 DEF Pendings
<1>8. DOMAIN companion.applies \cup companion.saves \subseteq 1 .. companion.nextId
  <2>1. /\ DOMAIN companion.applies \subseteq Nat /\ companion.saves \subseteq Nat
        /\ companion.nextId \in Nat
    BY <1>1, OutstandingIs DEF Companions
  <2>2. \A id \in DOMAIN companion.applies : id # 0 /\ id <= companion.nextId
    BY <1>1 DEF Linked, Counted
  <2>3. \A id \in companion.saves : id # 0 /\ id <= companion.nextId
    BY DEF Counting, Numbered
  <2>4. QED
    BY <2>1, <2>2, <2>3
<1>9. QED
  BY <1>1, <1>2, <1>3, <1>4, <1>5, <1>7, <1>8 DEF TypeOK

(* The variables keep their shapes: the mirror, the offers, the flight and *)
(* the counts, for any texts and any bounds.                               *)
THEOREM TypeCorrect == Spec => []TypeOK
<1>1. Init => Counting
  BY WiredFirst DEF Counting, Numbered, Init
<1>2. Counting /\ [Next]_vars => Counting'
  BY NumberedKept
<1>3. Counting => TypeOK
  BY ShapesHold
<1>4. QED
  BY <1>1, <1>2, <1>3, PTL DEF Spec

(***************************************************************************)
(* Every offer is answered once.                                           *)
(***************************************************************************)
LEMMA OneIs ==
    ASSUME NEW S, NEW x \in S, \A y \in S : y = x
    PROVE  Cardinality(S) = 1
<1>1. S = {x}
  OBVIOUS
<1>2. QED
  BY <1>1, FS_Singleton

LEMMA WiredAnswersOnce ==
    ASSUME Wired
    PROVE  EveryOfferIsAnsweredOnce
<1>1. companion \in Companions(AllUnits) /\ toCompanion \in Seq(Messages(AllUnits))
      /\ companion.sent \in Seq(Words(AllUnits))
      /\ Linked(companion, toCompanion) /\ Covered(companion)
  BY DEF Wired, Shape, Companions
<1>2. DOMAIN companion.sent = 1 .. Len(companion.sent) /\ DOMAIN toCompanion = 1 .. Len(toCompanion)
  BY <1>1, LenProperties
<1>3. ASSUME NEW id \in DOMAIN companion.applies
      PROVE  Cardinality(OfferedAs(id)) + Cardinality(AnsweredAs(id)) = 1
  <2> DEFINE A == OfferedAs(id)
             B == AnsweredAs(id)
  <2>1. A = {k \in 1 .. Len(companion.sent) : AsksFor(companion.sent, k, id)}
        /\ B = {k \in 1 .. Len(toCompanion) : AnswersFor(toCompanion, k, id)}
    BY <1>2 DEF OfferedAs, AnsweredAs, AsksFor, AnswersFor
  <2>2. A # {} \/ B # {}
    BY <1>1, <2>1 DEF Linked, Out
  <2>3. A = {} \/ B = {}
    BY <1>1, <2>1 DEF Linked, NotBoth
  <2>4. \A k, j \in A : k = j
    BY <1>1, <2>1 DEF Linked, AskedOnce
  <2>5. \A k, j \in B : k = j
    BY <1>1, <2>1 DEF Linked, AnsweredOnce
  <2> HIDE DEF A, B
  <2>6. CASE A # {}
    <3>1. B = {} /\ Cardinality(B) = 0
      BY <2>3, <2>6, FS_EmptySet
    <3>2. PICK k \in A : TRUE
      BY <2>6
    <3>3. Cardinality(A) = 1
      BY <2>4, <3>2, OneIs
    <3>4. QED
      BY <3>1, <3>3 DEF A, B
  <2>7. CASE B # {}
    <3>1. A = {} /\ Cardinality(A) = 0
      BY <2>3, <2>7, FS_EmptySet
    <3>2. PICK k \in B : TRUE
      BY <2>7
    <3>3. Cardinality(B) = 1
      BY <2>5, <3>2, OneIs
    <3>4. QED
      BY <3>1, <3>3 DEF A, B
  <2>8. QED
    BY <2>2, <2>6, <2>7
<1>4. ASSUME companion.flight # NoFlight
      PROVE  Cardinality({id \in DOMAIN companion.applies :
                 companion.applies[id].serial = companion.flight.serial}) = 1
  <2> DEFINE S == {id \in DOMAIN companion.applies :
                      companion.applies[id].serial = companion.flight.serial}
  <2>1. PICK id \in S : TRUE
    BY <1>1, <1>4 DEF Covered
  <2>2. \A other \in S : other = id
    BY <1>1, <2>1 DEF Linked, SerialsDiffer
  <2> HIDE DEF S
  <2>3. Cardinality(S) = 1
    BY <2>1, <2>2, OneIs
  <2>4. QED
    BY <2>3 DEF S
<1>5. QED
  BY <1>3, <1>4 DEF EveryOfferIsAnsweredOnce

(* Every apply the editor host waits for is in exactly one place, asked    *)
(* for and unread or answered and unread, and the flight of a document has *)
(* exactly one outstanding offer whose answer ends it: no answer is waited *)
(* for in vain and none arrives for an id that is not waited for, whatever *)
(* is typed, refused, closed or opened anew in between.                    *)
THEOREM OffersAreAnswered == Spec => []EveryOfferIsAnsweredOnce
<1>1. Wired => EveryOfferIsAnsweredOnce
  BY WiredAnswersOnce
<1>2. QED
  BY <1>1, AlwaysWired, PTL

(***************************************************************************)
(* The mirror follows the buffer: what the companion has, and what it will *)
(* have after each message on its pipe, to the last.                       *)
(***************************************************************************)
Views(U) == {NoDocument} \cup Documents(U)
Seen(f) ==
    IF f.shared THEN [text |-> f.buffer, version |-> f.version] ELSE NoDocument
Hears(c, document, message) ==
    CASE message.type = "open" -> [text |-> message.text, version |-> 0]
      [] message.type = "close" -> NoDocument
      [] message.type = "change" -> Take(document, message.change)
      [] message.type = "applied" ->
            IF /\ message.ok /\ document # NoDocument
               /\ document.version = c.applies[message.id].version
            THEN Take(document, c.applies[message.id].change)
            ELSE document
      [] OTHER -> document
(* A change is one of the document it is read for, and what it takes away, *)
(* or a close gives up, was given up by someone.                           *)
Fairly(document, message, E) ==
    /\ message.type = "change" =>
          document # NoDocument /\ Spares(document.text, message.change, E)
    /\ message.type = "close" /\ document # NoDocument => Units(document.text) \subseteq E
Steps(c, p, t, E) ==
    \A i \in 1 .. Len(p) : t[i] = Hears(c, t[i - 1], p[i]) /\ Fairly(t[i - 1], p[i], E)
Trail(c, p, f, t, E) == t[0] = c.document /\ Steps(c, p, t, E) /\ t[Len(p)] = Seen(f)
Trailed(U, c, p, f, E) == \E t \in [0 .. Len(p) -> Views(U)] : Trail(c, p, f, t, E)

(* The offers the answers on the pipe are to are what they were.           *)
SameAnswered(c, d, p) ==
    \A i \in 1 .. Len(p) : p[i].type = "applied" =>
        /\ d.applies[p[i].id].change = c.applies[p[i].id].change
        /\ d.applies[p[i].id].version = c.applies[p[i].id].version

LEMMA SeenIs ==
    ASSUME NEW U, NEW f \in Fronts(U)
    PROVE  Seen(f) \in Views(U) /\ (f.shared => Seen(f) \in Documents(U) /\ Seen(f) # NoDocument)
<1> DEFINE document == [text |-> f.buffer, version |-> f.version]
<1>1. document \in Documents(U)
  BY DEF Fronts, Documents
<1>2. Seen(f) = IF f.shared THEN document ELSE NoDocument
  BY DEF Seen
<1> HIDE DEF document
<1>3. QED
  BY <1>1, <1>2, DocumentIs DEF Views

LEMMA FairlyMore ==
    ASSUME NEW document, NEW message, NEW E, NEW F, E \subseteq F, Fairly(document, message, E)
    PROVE  Fairly(document, message, F)
BY DEF Fairly, Spares

LEMMA StepsSame ==
    ASSUME NEW c, NEW d, NEW p, NEW t, SameAnswered(c, d, p), NEW E, NEW F, E \subseteq F,
           Steps(c, p, t, E)
    PROVE  Steps(d, p, t, F)
<1>1. ASSUME NEW i \in 1 .. Len(p)
      PROVE  Hears(d, t[i - 1], p[i]) = Hears(c, t[i - 1], p[i])
  <2>1. CASE p[i].type = "applied"
    BY <2>1 DEF SameAnswered, Hears
  <2>2. CASE p[i].type # "applied"
    BY <2>2 DEF Hears
  <2>3. QED
    BY <2>1, <2>2
<1>2. \A i \in 1 .. Len(p) : Fairly(t[i - 1], p[i], F)
  BY FairlyMore DEF Steps
<1>3. QED
  BY <1>1, <1>2 DEF Steps

LEMMA TrailSame ==
    ASSUME NEW U, NEW c, NEW d, NEW p, NEW f, NEW g, SameAnswered(c, d, p),
           d.document = c.document, Seen(g) = Seen(f), NEW E, NEW F, E \subseteq F,
           Trailed(U, c, p, f, E)
    PROVE  Trailed(U, d, p, g, F)
<1>1. PICK t \in [0 .. Len(p) -> Views(U)] : Trail(c, p, f, t, E)
  BY DEF Trailed
<1>2. Steps(d, p, t, F)
  BY <1>1, StepsSame DEF Trail
<1>3. Trail(d, p, g, t, F)
  BY <1>1, <1>2 DEF Trail
<1>4. QED
  BY <1>3 DEF Trailed

LEMMA TrailMore ==
    ASSUME NEW U, NEW c, NEW p \in Seq(Messages(U)), NEW m \in Messages(U), NEW f, NEW g,
           Seen(g) \in Views(U), Seen(g) = Hears(c, Seen(f), m),
           NEW E, Fairly(Seen(f), m, E), Trailed(U, c, p, f, E)
    PROVE  Trailed(U, c, Append(p, m), g, E)
<1> DEFINE q == Append(p, m)
           n == Len(p)
<1>1. /\ n \in Nat /\ Len(q) = n + 1
      /\ \A i \in 1 .. n : q[i] = p[i]
      /\ q[n + 1] = m
  BY AppendAt
<1> HIDE DEF q
<1>2. PICK t \in [0 .. n -> Views(U)] : Trail(c, p, f, t, E)
  BY DEF Trailed
<1> DEFINE u == [i \in 0 .. n + 1 |-> IF i = n + 1 THEN Seen(g) ELSE t[i]]
<1> HIDE DEF n
<1>3. u \in [0 .. Len(q) -> Views(U)]
  BY <1>1, <1>2
<1>4. u[0] = c.document
  BY <1>1, <1>2 DEF Trail
<1>5. u[Len(q)] = Seen(g)
  BY <1>1
<1>6. t[n] = Seen(f)
  BY <1>2 DEF Trail, n
<1>12. \A i \in 1 .. n : t[i] = Hears(c, t[i - 1], p[i]) /\ Fairly(t[i - 1], p[i], E)
  BY <1>2 DEF Trail, Steps, n
<1>7. \A i \in 0 .. n : u[i] = t[i]
  BY <1>1
<1>8. u[n + 1] = Seen(g) /\ u[n] = t[n]
  BY <1>1
<1> HIDE DEF u
<1>9. ASSUME NEW i \in 1 .. Len(q)
      PROVE  u[i] = Hears(c, u[i - 1], q[i]) /\ Fairly(u[i - 1], q[i], E)
  <2>1. CASE i = n + 1
    <3>1. i - 1 = n
      BY <1>1, <2>1
    <3>2. QED
      BY <1>1, <1>6, <1>8, <2>1, <3>1
  <2>2. CASE i # n + 1
    <3>1. i \in 1 .. n /\ i \in 0 .. n /\ i - 1 \in 0 .. n
      BY <1>1, <2>2
    <3>2. q[i] = p[i]
      BY <1>1, <3>1
    <3>5. u[i] = t[i]
      BY <1>7, <3>1
    <3>6. u[i - 1] = t[i - 1]
      BY <1>7, <3>1
    <3>3. t[i] = Hears(c, t[i - 1], p[i]) /\ Fairly(t[i - 1], p[i], E)
      BY <1>12, <3>1
    <3>4. QED
      BY <3>2, <3>3, <3>5, <3>6
  <2>3. QED
    BY <2>1, <2>2
<1>10. Trail(c, q, g, u, E)
  BY <1>4, <1>5, <1>9 DEF Trail, Steps
<1>11. QED
  BY <1>3, <1>10 DEF Trailed, q

(* A change is only ever read by a companion that has the document.        *)
LEMMA TrailFirst ==
    ASSUME NEW U, NEW c, NEW p \in Seq(Messages(U)), p # <<>>, NEW f, NEW E,
           Trailed(U, c, p, f, E)
    PROVE  Fairly(c.document, Head(p), E)
<1>1. PICK t \in [0 .. Len(p) -> Views(U)] : Trail(c, p, f, t, E)
  BY DEF Trailed
<1>2. 1 \in 1 .. Len(p) /\ Head(p) = p[1]
  BY TailAt
<1>3. Fairly(t[1 - 1], p[1], E)
  BY <1>1, <1>2 DEF Trail, Steps
<1>4. QED
  BY <1>1, <1>2, <1>3 DEF Trail

LEMMA TrailLess ==
    ASSUME NEW U, NEW c, NEW d, NEW p \in Seq(Messages(U)), p # <<>>, NEW f,
           d.document = Hears(c, c.document, Head(p)), SameAnswered(c, d, Tail(p)),
           NEW E, NEW F, E \subseteq F, Trailed(U, c, p, f, E)
    PROVE  Trailed(U, d, Tail(p), f, F)
<1> DEFINE q == Tail(p)
           n == Len(p)
<1>1. /\ n \in Nat \ {0} /\ Len(q) = n - 1
      /\ \A i \in 1 .. n - 1 : q[i] = p[i + 1]
      /\ Head(p) = p[1]
  BY TailAt
<1> HIDE DEF q
<1>2. PICK t \in [0 .. n -> Views(U)] : Trail(c, p, f, t, E)
  BY DEF Trailed
<1> DEFINE u == [i \in 0 .. n - 1 |-> t[i + 1]]
<1> HIDE DEF n
<1>3. u \in [0 .. Len(q) -> Views(U)]
  <2>1. ASSUME NEW i \in 0 .. n - 1 PROVE t[i + 1] \in Views(U)
    <3>1. i + 1 \in 0 .. n
      BY <1>1
    <3>2. QED
      BY <1>2, <3>1
  <2>2. u \in [0 .. n - 1 -> Views(U)]
    BY <2>1
  <2>3. QED
    BY <1>1, <2>2
<1>4. \A i \in 1 .. n : t[i] = Hears(c, t[i - 1], p[i]) /\ Fairly(t[i - 1], p[i], E)
  BY <1>2 DEF Trail, Steps, n
<1>5. u[0] = d.document
  <2>1. t[1] = Hears(c, t[1 - 1], p[1])
    BY <1>1, <1>4
  <2>2. t[0] = c.document
    BY <1>2 DEF Trail
  <2>3. u[0] = t[1]
    BY <1>1
  <2>4. QED
    BY <1>1, <2>1, <2>2, <2>3
<1>6. u[Len(q)] = Seen(f)
  <2>1. t[n] = Seen(f)
    BY <1>2 DEF Trail, n
  <2>2. QED
    BY <1>1, <2>1
<1>7. \A i \in 0 .. n - 1 : u[i] = t[i + 1]
  OBVIOUS
<1> HIDE DEF u
<1>8. ASSUME NEW i \in 1 .. Len(q)
      PROVE  u[i] = Hears(c, u[i - 1], q[i]) /\ Fairly(u[i - 1], q[i], E)
  <2>1. /\ i \in 1 .. n - 1 /\ i \in 0 .. n - 1 /\ i - 1 \in 0 .. n - 1
        /\ i + 1 \in 1 .. n /\ (i - 1) + 1 = i /\ (i + 1) - 1 = i
    BY <1>1
  <2>2. u[i] = t[i + 1] /\ u[i - 1] = t[i] /\ q[i] = p[i + 1]
    BY <1>1, <1>7, <2>1
  <2>3. t[i + 1] = Hears(c, t[i], p[i + 1]) /\ Fairly(t[i], p[i + 1], E)
    BY <1>4, <2>1
  <2>4. QED
    BY <2>2, <2>3
<1>9. Steps(c, q, u, E)
  BY <1>8 DEF Steps
<1>10. Steps(d, q, u, F)
  BY <1>9, StepsSame DEF q
<1>11. Trail(d, q, f, u, F)
  BY <1>5, <1>6, <1>10 DEF Trail
<1>12. QED
  BY <1>3, <1>11 DEF Trailed, q

LEMMA StandingAnswered ==
    ASSUME NEW U, NEW c \in Companions(U), NEW d, NEW p, NEW q, Linked(c, p), Linked(d, q),
           OffersStand(c, d),
           \A i \in 1 .. Len(q) : \E j \in 1 .. Len(p) : q[i] = p[j]
    PROVE  SameAnswered(c, d, q)
<1>1. SUFFICES ASSUME NEW i \in 1 .. Len(q), q[i].type = "applied"
               PROVE  /\ d.applies[q[i].id].change = c.applies[q[i].id].change
                      /\ d.applies[q[i].id].version = c.applies[q[i].id].version
  BY DEF SameAnswered
<1> DEFINE id == q[i].id
<1>2. id \in DOMAIN d.applies
  BY <1>1 DEF Linked, AnsweredRight
<1>3. id \in DOMAIN c.applies
  BY <1>1 DEF Linked, AnsweredRight
<1>4. id \in Nat /\ c.nextId \in Nat /\ id <= c.nextId
  BY <1>3, OutstandingIs DEF Linked, Counted, Companions
<1>5. ~(c.nextId < id)
  BY <1>4
<1>6. QED
  BY <1>2, <1>5 DEF OffersStand

Follows == Trailed(AllUnits, companion, toCompanion, front, erased)
Followed == Wired /\ Follows

(* The companion reads its pipe.                                           *)
LEMMA HearingFollows ==
    ASSUME Followed, NEW type, Unread(type), Stays(companion, companion'), Kept,
           erased \subseteq erased',
           companion'.document = Hears(companion, companion.document, Head(toCompanion))
    PROVE  Trailed(AllUnits, companion', toCompanion', front', erased')
<1>1. /\ toCompanion \in Seq(Messages(AllUnits)) /\ toCompanion # <<>>
      /\ toCompanion' = Tail(toCompanion) /\ front' = front
      /\ companion \in Companions(AllUnits)
  BY DEF Followed, Wired, Shape, Unread
<1>2. Linked(companion, toCompanion) /\ Linked(companion', Tail(toCompanion))
  BY <1>1 DEF Followed, Wired, Kept
<1>3. \A i \in 1 .. Len(Tail(toCompanion)) :
          \E j \in 1 .. Len(toCompanion) : Tail(toCompanion)[i] = toCompanion[j]
  <2>1. /\ Len(toCompanion) \in Nat /\ Len(Tail(toCompanion)) = Len(toCompanion) - 1
        /\ \A i \in 1 .. Len(toCompanion) - 1 : Tail(toCompanion)[i] = toCompanion[i + 1]
    BY <1>1, TailAt
  <2>2. \A i \in 1 .. Len(Tail(toCompanion)) :
            i + 1 \in 1 .. Len(toCompanion) /\ Tail(toCompanion)[i] = toCompanion[i + 1]
    BY <2>1
  <2>3. QED
    BY <2>2
<1>4. SameAnswered(companion, companion', Tail(toCompanion))
  BY <1>1, <1>2, <1>3, StandingAnswered DEF Stays
<1>5. Trailed(AllUnits, companion, toCompanion, front, erased)
  BY DEF Followed, Follows
<1>6. Trailed(AllUnits, companion', Tail(toCompanion), front, erased')
  BY <1>1, <1>4, <1>5, TrailLess
<1>7. QED
  BY <1>1, <1>6

(* The companion works by itself, or the front-end reads what it is sent.  *)
LEMMA WorkingFollows ==
    ASSUME Followed, Stays(companion, companion'), Kept, toCompanion' = toCompanion,
           erased \subseteq erased',
           companion'.document = companion.document, Seen(front') = Seen(front)
    PROVE  Trailed(AllUnits, companion', toCompanion', front', erased')
<1>1. /\ Linked(companion, toCompanion) /\ Linked(companion', toCompanion)
      /\ companion \in Companions(AllUnits)
      /\ Trailed(AllUnits, companion, toCompanion, front, erased)
  BY DEF Followed, Follows, Wired, Shape, Kept
<1>2. SameAnswered(companion, companion', toCompanion)
  BY <1>1, StandingAnswered DEF Stays
<1>3. Trailed(AllUnits, companion', toCompanion, front', erased')
  BY <1>1, <1>2, TrailSame
<1>4. QED
  BY <1>3

(* The front-end says something, and moves as it says.                     *)
LEMMA PipingFollows ==
    ASSUME Followed, NEW m \in Messages(AllUnits), Send(m), front' \in Fronts(AllUnits),
           companion'.document = companion.document,
           companion'.applies = companion.applies,
           Seen(front') = Hears(companion, Seen(front), m),
           erased \subseteq erased', Fairly(Seen(front), m, erased')
    PROVE  Trailed(AllUnits, companion', toCompanion', front', erased')
<1>1. /\ toCompanion \in Seq(Messages(AllUnits))
      /\ Trailed(AllUnits, companion, toCompanion, front, erased)
  BY DEF Followed, Follows, Wired, Shape
<1>2. Seen(front') \in Views(AllUnits)
  BY SeenIs
<1>6. Trailed(AllUnits, companion, toCompanion, front, erased')
  BY <1>1, TrailSame DEF SameAnswered
<1>3. Trailed(AllUnits, companion, Append(toCompanion, m), front', erased')
  BY <1>1, <1>2, <1>6, TrailMore
<1>4. SameAnswered(companion, companion', Append(toCompanion, m))
  BY DEF SameAnswered
<1>5. Trailed(AllUnits, companion', Append(toCompanion, m), front', erased')
  BY <1>3, <1>4, TrailSame
<1>7. QED
  BY <1>5 DEF Send

LEMMA RewrittenIs ==
    ASSUME NEW a, NEW b, NEW x, NEW y
    PROVE  [[text |-> a, version |-> b] EXCEPT !.text = x, !.version = y]
               = [text |-> x, version |-> y]
<1> DEFINE d == [text |-> a, version |-> b]
           e == [d EXCEPT !.text = x, !.version = y]
<1>1. d \in [text : {a}, version : {b}]
  OBVIOUS
<1>2. e \in [text : {a, x}, version : {b, y}] /\ e.text = x /\ e.version = y
  BY <1>1
<1>3. e \in [text : {x}, version : {y}]
  BY <1>2
<1> HIDE DEF e
<1>4. e = [text |-> x, version |-> y]
  BY <1>2, <1>3
<1>5. QED
  BY <1>4 DEF e

LEMMA SeenTakes ==
    ASSUME NEW U, NEW f \in Fronts(U), f.shared, NEW change,
           NEW g \in Fronts(U), g.shared, g.buffer = ApplyChange(f.buffer, change),
           g.version = f.version + 1
    PROVE  Seen(g) = Take(Seen(f), change) /\ Seen(f) # NoDocument /\ Seen(f).version = f.version
<1> DEFINE text == ApplyChange(f.buffer, change)
           version == f.version + 1
           document == [text |-> f.buffer, version |-> f.version]
<1>1. Seen(f) = document /\ Seen(g) = [text |-> text, version |-> version]
  BY DEF Seen
<1>2. document.text = f.buffer /\ document.version = f.version
  OBVIOUS
<1>3. Take(document, change) = [document EXCEPT !.text = text, !.version = version]
  BY <1>2 DEF Take
<1>4. Seen(f) # NoDocument
  BY SeenIs
<1> HIDE DEF text, version
<1>5. [document EXCEPT !.text = text, !.version = version] = [text |-> text, version |-> version]
  BY RewrittenIs
<1> HIDE DEF document
<1>6. QED
  BY <1>1, <1>2, <1>3, <1>4, <1>5

LEMMA TypesFollows ==
    ASSUME Followed, front' \in Fronts(AllUnits), Types, erased \subseteq erased'
    PROVE  Trailed(AllUnits, companion', toCompanion', front', erased')
<1>1. PICK change \in Changes(AllUnits) :
          LocalChange(change) /\ Spares(front.buffer, change, erased')
  BY DEF Types
<1> DEFINE m == [type |-> "change", change |-> change]
<1>2. m \in Messages(AllUnits) /\ m.type = "change" /\ m.change = change
  BY MessagesAre
<1>3. Send(m) /\ companion' = companion /\ front.shared
      /\ front' = [front EXCEPT !.buffer = ApplyChange(@, change), !.version = @ + 1]
  BY <1>1 DEF LocalChange
<1> HIDE DEF m
<1>4. front \in Fronts(AllUnits)
  BY DEF Followed, Wired, Shape
<1>5. /\ front'.shared /\ front'.buffer = ApplyChange(front.buffer, change)
      /\ front'.version = front.version + 1
  BY <1>3, <1>4 DEF Fronts
<1>6. Seen(front') = Take(Seen(front), change) /\ Seen(front) # NoDocument
  BY <1>3, <1>4, <1>5, SeenTakes
<1>7. Hears(companion, Seen(front), m) = Take(Seen(front), change)
  BY <1>2 DEF Hears
<1>8. Seen(front).text = front.buffer
  BY <1>3 DEF Seen
<1>9. Fairly(Seen(front), m, erased')
  BY <1>1, <1>2, <1>6, <1>8 DEF Fairly
<1>10. QED
  BY <1>2, <1>3, <1>6, <1>7, <1>9, PipingFollows

LEMMA LetsGoFollows ==
    ASSUME Followed, front' \in Fronts(AllUnits), LetsGo, erased \subseteq erased'
    PROVE  Trailed(AllUnits, companion', toCompanion', front', erased')
<1> DEFINE m == [type |-> "close"]
<1>1. m \in Messages(AllUnits) /\ m.type = "close"
  BY MessagesAre
<1>2. Send(m) /\ front' = [front EXCEPT !.shared = FALSE]
  BY DEF LetsGo, LetGo
<1> HIDE DEF m
<1>3. front \in Fronts(AllUnits)
  BY DEF Followed, Wired, Shape
<1>4. Seen(front') = NoDocument
  BY <1>2, <1>3 DEF Seen, Fronts
<1>5. Hears(companion, Seen(front), m) = NoDocument
  BY <1>1 DEF Hears
<1>6. companion'.document = companion.document /\ companion'.applies = companion.applies
  <2>1. CASE companion' = companion
    BY <2>1
  <2>2. CASE NextForFront("openRefused")
    BY <2>2, NextForFrontDoes DEF Followed, Wired, Untouched, KeepsPath
  <2>3. QED
    BY <2>1, <2>2 DEF LetsGo
<1>7. Seen(front).text = front.buffer /\ Units(front.buffer) \subseteq erased'
  BY DEF LetsGo, Seen
<1>8. Fairly(Seen(front), m, erased')
  BY <1>1, <1>7 DEF Fairly
<1>9. QED
  BY <1>1, <1>2, <1>4, <1>5, <1>6, <1>8, PipingFollows

LEMMA OpensFollows ==
    ASSUME Followed, front' \in Fronts(AllUnits), Opens, erased \subseteq erased'
    PROVE  Trailed(AllUnits, companion', toCompanion', front', erased')
<1>1. PICK text \in Seq(AllUnits) :
          /\ front'.shared /\ front'.buffer = text /\ front'.version = 0
          /\ toCompanion' = Append(toCompanion, [type |-> "open", text |-> text])
          /\ companion' = companion
  BY DEF Opens
<1> DEFINE m == [type |-> "open", text |-> text]
<1>2. m \in Messages(AllUnits) /\ m.type = "open" /\ m.text = text
  BY MessagesAre
<1>3. Send(m)
  BY <1>1 DEF Send
<1> HIDE DEF m
<1>4. Seen(front') = [text |-> text, version |-> 0]
  BY <1>1 DEF Seen
<1>5. Hears(companion, Seen(front), m) = [text |-> text, version |-> 0]
  BY <1>2 DEF Hears
<1>6. Fairly(Seen(front), m, erased')
  BY <1>2 DEF Fairly
<1>7. QED
  BY <1>1, <1>2, <1>3, <1>4, <1>5, <1>6, PipingFollows

LEMMA AgreesFollows ==
    ASSUME Followed, front' \in Fronts(AllUnits), Agrees, erased \subseteq erased'
    PROVE  Trailed(AllUnits, companion', toCompanion', front', erased')
<1> DEFINE edit == Head(companion.sent)
           m == [type |-> "applied", id |-> edit.id, ok |-> TRUE]
<1>1. /\ companion.sent \in Seq(Words(AllUnits)) /\ companion.sent # <<>>
      /\ edit \in Words(AllUnits) /\ edit.type = "applyEdit"
      /\ Untouched(companion, companion')
  BY NextForFrontDoes DEF Followed, Wired, Agrees
<1>2. edit.id \in Nat
  BY <1>1 DEF Words
<1>3. m \in Messages(AllUnits) /\ m.type = "applied" /\ m.id = edit.id /\ m.ok
  BY <1>2, MessagesAre
<1>4. Send(m) /\ front.shared /\ edit.version = front.version
      /\ front'.shared /\ front'.version = front.version + 1
      /\ front'.buffer = ApplyChange(front.buffer, edit.change)
  BY DEF Agrees, Takes
<1>5. 1 \in 1 .. Len(companion.sent) /\ edit = companion.sent[1]
  BY <1>1, TailAt
<1> HIDE DEF m, edit
<1>6. /\ edit.change = companion.applies[edit.id].change
      /\ edit.version = companion.applies[edit.id].version
  BY <1>1, <1>5 DEF Followed, Wired, Linked, AskedRight
<1>7. front \in Fronts(AllUnits)
  BY DEF Followed, Wired, Shape
<1>8. /\ Seen(front') = Take(Seen(front), edit.change)
      /\ Seen(front) # NoDocument /\ Seen(front).version = front.version
  BY <1>4, <1>7, SeenTakes
<1>9. Hears(companion, Seen(front), m) = Take(Seen(front), edit.change)
  BY <1>3, <1>4, <1>6, <1>8 DEF Hears
<1>10. companion'.document = companion.document /\ companion'.applies = companion.applies
  BY <1>1 DEF Untouched, KeepsPath
<1>11. Fairly(Seen(front), m, erased')
  BY <1>3 DEF Fairly
<1>12. QED
  BY <1>3, <1>4, <1>8, <1>9, <1>10, <1>11, PipingFollows

(* What the front-end says and does not move by.                           *)
LEMMA TellsFollows ==
    ASSUME Followed, NEW type, NextForFront(type), Seen(front') = Seen(front),
           front' \in Fronts(AllUnits), NEW m, Send(m), NEW ok \in BOOLEAN,
           \/ m = [type |-> "saved", id |-> Head(companion.sent).id, ok |-> ok]
           \/ m = [type |-> "applied", id |-> Head(companion.sent).id, ok |-> FALSE],
           type \in {"save", "applyEdit"}, erased \subseteq erased'
    PROVE  Trailed(AllUnits, companion', toCompanion', front', erased')
<1>1. /\ Head(companion.sent) \in Words(AllUnits) /\ Head(companion.sent).type = type
      /\ Untouched(companion, companion')
  BY NextForFrontDoes DEF Followed, Wired
<1>2. Head(companion.sent).id \in Nat
  BY <1>1 DEF Words
<1>3. m \in Messages(AllUnits) /\ (m.type = "saved" \/ (m.type = "applied" /\ ~m.ok))
  <2>1. CASE m = [type |-> "saved", id |-> Head(companion.sent).id, ok |-> ok]
    BY <1>2, <2>1, MessagesAre
  <2>2. CASE m = [type |-> "applied", id |-> Head(companion.sent).id, ok |-> FALSE]
    BY <1>2, <2>2, MessagesAre
  <2>3. QED
    BY <2>1, <2>2
<1>4. Hears(companion, Seen(front), m) = Seen(front)
  BY <1>3 DEF Hears
<1>5. companion'.document = companion.document /\ companion'.applies = companion.applies
  BY <1>1 DEF Untouched, KeepsPath
<1>6. Fairly(Seen(front), m, erased')
  BY <1>3 DEF Fairly
<1>7. QED
  BY <1>3, <1>4, <1>5, <1>6, PipingFollows

LEMMA HearsFollows ==
    ASSUME Followed, Stays(companion, companion'), Kept, erased \subseteq erased',
           HearsChange \/ HearsApplied \/ HearsSaved \/ HearsOpen \/ HearsClose
    PROVE  Trailed(AllUnits, companion', toCompanion', front', erased')
<1> DEFINE m == Head(toCompanion)
           c == companion
<1>1. /\ toCompanion \in Seq(Messages(AllUnits)) /\ Wired
      /\ Trailed(AllUnits, companion, toCompanion, front, erased)
  BY DEF Followed, Follows, Wired, Shape
<1>2. ASSUME HearsChange PROVE companion'.document = Hears(c, c.document, m) /\ Unread("change")
  <2>1. Unread("change") /\ m.type = "change" /\ toCompanion # <<>>
    BY <1>2 DEF HearsChange, Unread
  <2>2. c.document # NoDocument
    BY <1>1, <2>1, TrailFirst DEF Fairly
  <2>3. companion'.document = Take(c.document, m.change)
    BY <1>1, <1>2, <2>2, HearsChangeDoes
  <2>4. QED
    BY <2>1, <2>3 DEF Hears
<1>3. ASSUME HearsApplied PROVE companion'.document = Hears(c, c.document, m) /\ Unread("applied")
  <2>1. Unread("applied") /\ m.type = "applied"
    BY <1>3 DEF HearsApplied, Unread
  <2>2. companion'.document = IF Took(c, m.id, m.ok) THEN Take(c.document, c.applies[m.id].change)
                              ELSE c.document
    BY <1>1, <1>3, HearsAppliedDoes
  <2>3. QED
    BY <2>1, <2>2 DEF Hears, Took
<1>4. ASSUME HearsSaved PROVE companion'.document = Hears(c, c.document, m) /\ Unread("saved")
  <2>1. Unread("saved") /\ m.type = "saved"
    BY <1>4 DEF HearsSaved, Unread
  <2>2. companion'.document = c.document
    BY <1>1, <1>4, HearsSavedDoes
  <2>3. QED
    BY <2>1, <2>2 DEF Hears
<1>5. ASSUME HearsOpen PROVE companion'.document = Hears(c, c.document, m) /\ Unread("open")
  <2>1. Unread("open") /\ m.type = "open"
    BY <1>5 DEF HearsOpen, Unread
  <2>2. companion'.document = Fresh(m.text)
    BY <1>1, <1>5, HearsOpenDoes
  <2>3. QED
    BY <2>1, <2>2 DEF Hears, Fresh
<1>6. ASSUME HearsClose PROVE companion'.document = Hears(c, c.document, m) /\ Unread("close")
  <2>1. Unread("close") /\ m.type = "close"
    BY <1>6 DEF HearsClose, Unread
  <2>2. companion'.document = NoDocument
    BY <1>1, <1>6, HearsCloseDoes
  <2>3. QED
    BY <2>1, <2>2 DEF Hears
<1> HIDE DEF m, c
<1>7. \E type : Unread(type)
  BY <1>2, <1>3, <1>4, <1>5, <1>6
<1>8. companion'.document = Hears(c, c.document, m)
  BY <1>2, <1>3, <1>4, <1>5, <1>6
<1>9. QED
  BY <1>7, <1>8, HearingFollows DEF m, c

LEMMA WorksFollows ==
    ASSUME Followed, Stays(companion, companion'), Kept, erased \subseteq erased',
           Locks \/ Ignores \/ Works \/ Saves \/ Holds \/ Loses
    PROVE  Trailed(AllUnits, companion', toCompanion', front', erased')
<1>1. Shape
  BY DEF Followed, Wired
<1>2. toCompanion' = toCompanion
  BY DEF Locks, Ignores, Works, Saves, SaveFires, Holds, HoldGranted, Loses, HoldRefused
<1>3. SameText \/ front' = front
  BY DEF Locks, Ignores, Works, Saves, SaveFires, Holds, HoldGranted, Loses, HoldRefused
<1>4. Seen(front') = Seen(front)
  BY <1>3 DEF Seen, SameText
<1>5. companion'.document = companion.document
  <2>1. CASE Locks
    BY <2>1 DEF Locks
  <2>2. CASE Ignores
    BY <1>1, <2>2, NextForFrontDoes DEF Ignores, Untouched, KeepsPath
  <2>3. CASE Works
    BY <1>1, <2>3, ReconciledStays DEF Works, Shape, KeepsPath
  <2>4. QED
    BY <1>1, <2>1, <2>2, <2>3, SaveFiresDoes, HoldGrantedDoes, HoldRefusedDoes
       DEF Saves, Holds, Loses
<1>6. QED
  BY <1>2, <1>4, <1>5, WorkingFollows

LEMMA MovesFollow ==
    ASSUME Followed, front' \in Fronts(AllUnits), Moves, erased \subseteq erased'
    PROVE  Trailed(AllUnits, companion', toCompanion', front', erased')
<1>1. Stays(companion, companion') /\ Kept
  BY MovesStay, MovesKeep DEF Followed
<1>2. ASSUME Declines PROVE Trailed(AllUnits, companion', toCompanion', front', erased')
  <2>1. /\ NextForFront("applyEdit") /\ front' = front
        /\ Send([type |-> "applied", id |-> Head(companion.sent).id, ok |-> FALSE])
    BY <1>2 DEF Declines
  <2>2. QED
    BY <2>1, TellsFollows
<1>3. ASSUME Writes PROVE Trailed(AllUnits, companion', toCompanion', front', erased')
  <2>1. PICK ok \in BOOLEAN :
            Send([type |-> "saved", id |-> Head(companion.sent).id, ok |-> ok])
    BY <1>3 DEF Writes
  <2>2. NextForFront("save") /\ Seen(front') = Seen(front)
    BY <1>3 DEF Writes, SameText, Seen
  <2>3. QED
    BY <2>1, <2>2, TellsFollows
<1>4. QED
  BY <1>1, <1>2, <1>3, TypesFollows, LetsGoFollows, OpensFollows, AgreesFollows, HearsFollows,
     WorksFollows DEF Moves

LEMMA FollowedFirst ==
    ASSUME Init
    PROVE  Followed
<1>1. Wired
  BY WiredFirst
<1>2. companion \in Companions(AllUnits) /\ Len(toCompanion) = 0
  BY <1>1 DEF Wired, Shape, Init
<1> DEFINE t == [i \in 0 .. 0 |-> companion.document]
<1>3. t \in [0 .. 0 -> Views(AllUnits)] /\ t[0] = companion.document
  BY <1>2 DEF Views, Companions
<1> HIDE DEF t
<1>4. Seen(front) = companion.document
  BY DEF Init, Seen
<1>5. Trail(companion, toCompanion, front, t, erased)
  BY <1>2, <1>3, <1>4 DEF Trail, Steps
<1>6. Trailed(AllUnits, companion, toCompanion, front, erased)
  BY <1>2, <1>3, <1>5 DEF Trailed
<1>7. QED
  BY <1>1, <1>6 DEF Followed, Follows

LEMMA FollowedKept ==
    ASSUME Followed, [Next]_vars
    PROVE  Followed'
<1>1. Wired'
  BY WiredKept DEF Followed
<1>2. CASE UNCHANGED vars
  <2>1. /\ front' = front /\ toCompanion' = toCompanion /\ companion' = companion
        /\ scenario' = scenario /\ erased' = erased
    BY <1>2 DEF vars
  <2>2. AllUnits' = AllUnits
    BY <2>1 DEF AllUnits, BaseText, UserUnits, PeerUnits
  <2>3. QED
    BY <1>1, <2>1, <2>2 DEF Followed, Follows
<1>3. CASE Next
  <2>1. StepDoes /\ scenario' = scenario
    BY <1>3, NextDoes DEF Followed, Wired
  <2>2. Trailed(AllUnits, companion', toCompanion', front', erased')
    BY <2>1, MovesFollow DEF StepDoes
  <2>3. AllUnits' = AllUnits
    BY <2>1 DEF AllUnits, BaseText, UserUnits, PeerUnits
  <2>4. QED
    BY <1>1, <2>2, <2>3 DEF Followed, Follows
<1>4. QED
  BY <1>2, <1>3

LEMMA AlwaysFollowed == Spec => []Followed
<1>1. Init => Followed
  BY FollowedFirst
<1>2. Followed /\ [Next]_vars => Followed'
  BY FollowedKept
<1>3. QED
  BY <1>1, <1>2, PTL DEF Spec

(* The mirror read through the pipe is the trail.                          *)
LEMMA TrailIsMirror ==
    ASSUME Followed
    PROVE  MirrorCatchesUp
<1> DEFINE n == Len(toCompanion)
           Is(f) == f = [i \in 0 .. n |-> IF i = 0 THEN companion.document
                                          ELSE Heard(f[i - 1], toCompanion[i])]
<1>1. n \in Nat
  BY LenProperties DEF Followed, Wired, Shape
<1>2. PICK t \in [0 .. n -> Views(AllUnits)] : Trail(companion, toCompanion, front, t, erased)
  BY DEF Followed, Follows, Trailed
<1>3. \A document, message : Hears(companion, document, message) = Heard(document, message)
  BY DEF Hears, Heard
<1>4. t[0] = companion.document /\ t[n] = Seen(front)
  BY <1>2 DEF Trail
<1>5. \A i \in 1 .. n : t[i] = Heard(t[i - 1], toCompanion[i])
  BY <1>2, <1>3 DEF Trail, Steps
<1>6. Mirror = CHOOSE f : Is(f)
  BY DEF Mirror
<1> HIDE DEF n
<1>7. Is(t)
  <2>1. \A i \in 0 .. n : t[i] = IF i = 0 THEN companion.document
                                 ELSE Heard(t[i - 1], toCompanion[i])
    BY <1>1, <1>4, <1>5
  <2>2. t = [i \in 0 .. n |-> t[i]]
    BY <1>2
  <2>3. QED
    BY <2>1, <2>2
<1>8. Is(Mirror)
  <2> HIDE DEF Is
  <2>1. QED
    BY <1>6, <1>7
<1>9. StepAlike(t, Mirror, n)
  <2>1. Mirror[0] = companion.document
    BY <1>1, <1>8
  <2>2. ASSUME NEW i \in 1 .. n PROVE Mirror[i] = Heard(Mirror[i - 1], toCompanion[i])
    BY <1>1, <1>8
  <2>3. QED
    BY <1>4, <1>5, <2>1, <2>2 DEF StepAlike
<1>10. Alike(t, Mirror, n)
  BY <1>1, <1>9, SameWalk
<1>11. Mirror[n] = Seen(front)
  BY <1>1, <1>4, <1>10 DEF Alike
<1>12. QED
  BY <1>11 DEF MirrorCatchesUp, Seen, n

(* The companion's mirror of the document, once it has read what is on its *)
(* way, is the buffer, text and count alike: after any typing, applies     *)
(* that were taken or refused, closes, opens and moves to the mirror's     *)
(* file, and whatever the room did meanwhile.                              *)
THEOREM MirrorFollows == Spec => []MirrorCatchesUp
<1>1. Followed => MirrorCatchesUp
  BY TrailIsMirror
<1>2. QED
  BY <1>1, AlwaysFollowed, PTL

(***************************************************************************)
(* Where an offer lands, as long as the document is neither opened again   *)
(* nor moved to the mirror's file: the counts only grow then.              *)
(***************************************************************************)
Undisturbed == spent["reopens"] = 0 /\ spent["remirrors"] = 0
Behind(document, f) ==
    /\ document.version <= f.version
    /\ document.version = f.version => document.text = f.buffer
Lagging(s, f) ==
    \A k \in 1 .. Len(s) : s[k].type = "applyEdit" =>
        /\ s[k].version <= f.version
        /\ s[k].version = f.version => s[k].base = f.buffer
Landing ==
    Undisturbed /\ front.shared =>
        /\ ~Said(toCompanion, "open") /\ ~Said(toCompanion, "close")
        /\ Lagging(companion.sent, front)

LEMMA TakeIs ==
    ASSUME NEW U, NEW document \in Documents(U), NEW change
    PROVE  /\ Take(document, change) # NoDocument
           /\ Take(document, change).version = document.version + 1
<1> DEFINE text == ApplyChange(document.text, change)
           version == document.version + 1
           new == [document EXCEPT !.text = text, !.version = version]
<1>1. Take(document, change) = new
  BY DEF Take, Documents
<1> HIDE DEF text
<1>2. DOMAIN new = {"text", "version"} /\ new.version = version
  BY DEF Documents
<1>3. DOMAIN NoDocument = {"none"}
  BY DEF NoDocument
<1> HIDE DEF new
<1>4. QED
  BY <1>1, <1>2, <1>3

(* Along a trail of changes and answers the counts grow.                   *)
Grows(U, first, document) ==
    /\ document \in Documents(U) /\ first.version <= document.version
    /\ first.version = document.version => document = first

LEMMA GrowsMore ==
    ASSUME NEW U, NEW c, NEW first \in Documents(U), NEW document, Grows(U, first, document),
           NEW message \in Messages(U), message.type \notin {"open", "close"},
           Hears(c, document, message) \in Views(U)
    PROVE  Grows(U, first, Hears(c, document, message))
<1> DEFINE new == Hears(c, document, message)
<1>1. document \in Documents(U) /\ document.version \in Nat /\ first.version \in Nat
  BY DEF Grows, Documents
<1>2. \/ new = document
      \/ \E change : new = Take(document, change)
  <2>1. message.type \in {"change", "applied", "saved"}
    BY DEF Messages
  <2>2. CASE message.type = "change"
    BY <2>2 DEF Hears
  <2>3. CASE message.type = "applied"
    BY <2>3 DEF Hears
  <2>4. CASE message.type = "saved"
    BY <2>4 DEF Hears
  <2>5. QED
    BY <2>1, <2>2, <2>3, <2>4
<1> HIDE DEF new
<1>3. ASSUME NEW change, new = Take(document, change) PROVE Grows(U, first, new)
  <2>1. new # NoDocument /\ new.version = document.version + 1
    BY <1>1, <1>3, TakeIs
  <2>2. new \in Documents(U)
    BY <2>1, DocumentIs DEF Views, new
  <2>3. QED
    BY <1>1, <2>1, <2>2 DEF Grows
<1>4. QED
  BY <1>2, <1>3 DEF new

LEMMA TrailGrows ==
    ASSUME NEW U, NEW c, NEW p \in Seq(Messages(U)), ~Said(p, "open"), ~Said(p, "close"),
           NEW f \in Fronts(U), f.shared, c.document \in Documents(U),
           NEW E, Trailed(U, c, p, f, E)
    PROVE  Behind(c.document, f)
<1> DEFINE n == Len(p)
           first == c.document
<1>1. n \in Nat /\ \A i \in 1 .. n : p[i] \in Messages(U)
  BY LenProperties, ElementOfSeq
<1>2. PICK t \in [0 .. n -> Views(U)] : Trail(c, p, f, t, E)
  BY DEF Trailed
<1>3. t[0] = first /\ t[n] = Seen(f) /\ \A i \in 1 .. n : t[i] = Hears(c, t[i - 1], p[i])
  BY <1>2 DEF Trail, Steps
<1>4. \A i \in 1 .. n : p[i].type \notin {"open", "close"}
  BY DEF Said
<1> DEFINE A == {i \in 0 .. n : Grows(U, first, t[i])}
<1>5. 0 \in A
  BY <1>1, <1>3 DEF Grows, Documents
<1> HIDE DEF n, first
<1>6. ASSUME NEW i \in 1 .. n, i - 1 \in A PROVE i \in A
  <2>1. i \in 0 .. n /\ Grows(U, first, t[i - 1]) /\ t[i] = Hears(c, t[i - 1], p[i])
    BY <1>1, <1>3, <1>6
  <2>2. Hears(c, t[i - 1], p[i]) \in Views(U)
    BY <1>2, <2>1
  <2>3. Grows(U, first, Hears(c, t[i - 1], p[i]))
    BY <1>1, <1>4, <2>1, <2>2, GrowsMore DEF first
  <2>4. QED
    BY <2>1, <2>3
<1> HIDE DEF A
<1>7. \A i \in 0 .. n : i \in A
  BY <1>1, <1>5, <1>6, Climb
<1>8. Grows(U, first, Seen(f))
  BY <1>1, <1>3, <1>7 DEF A
<1>9. Seen(f).text = f.buffer /\ Seen(f).version = f.version
  BY DEF Seen
<1>10. QED
  BY <1>8, <1>9 DEF Grows, Behind, first

LEMMA SpeaksLag ==
    ASSUME NEW U, NEW c \in Companions(U), NEW d, NEW f, Speaks(U, c, d), Lagging(c.sent, f),
           d.document # NoDocument => Behind(d.document, f)
    PROVE  Lagging(d.sent, f)
<1>1. CASE d.sent = c.sent
  BY <1>1
<1>2. ASSUME NEW word \in Words(U), Offers(d, word), d.sent = Append(c.sent, word)
      PROVE  Lagging(d.sent, f)
  <2>1. /\ Len(c.sent) \in Nat /\ Len(d.sent) = Len(c.sent) + 1
        /\ \A i \in 1 .. Len(c.sent) : d.sent[i] = c.sent[i]
        /\ d.sent[Len(c.sent) + 1] = word
    BY <1>2, AppendAt DEF Companions
  <2>2. \A k \in 1 .. Len(d.sent) : d.sent[k] = word \/ (k \in 1 .. Len(c.sent) /\ d.sent[k] = c.sent[k])
    <3>1. \A k \in 1 .. Len(d.sent) : k = Len(c.sent) + 1 \/ k \in 1 .. Len(c.sent)
      BY <2>1
    <3>2. QED
      BY <2>1, <3>1
  <2>3. word.version <= f.version /\ (word.version = f.version => word.base = f.buffer)
    BY <1>2 DEF Offers, Behind
  <2>4. QED
    BY <2>2, <2>3 DEF Lagging
<1>3. QED
  BY <1>1, <1>2 DEF Speaks

(* A word that is no offer, or one word fewer.                             *)
LEMMA SaidLag ==
    ASSUME NEW U, NEW s \in Seq(Words(U)), NEW f, Lagging(s, f)
    PROVE  /\ s # <<>> => Lagging(Tail(s), f)
           /\ \A word \in Words(U) : word.type # "applyEdit" => Lagging(Append(s, word), f)
<1>1. ASSUME s # <<>> PROVE Lagging(Tail(s), f)
  <2> DEFINE t == Tail(s)
  <2>1. /\ Len(s) \in Nat \ {0} /\ Len(t) = Len(s) - 1
        /\ \A i \in 1 .. Len(s) - 1 : t[i] = s[i + 1]
    BY <1>1, TailAt
  <2> HIDE DEF t
  <2>2. \A k \in 1 .. Len(t) : k + 1 \in 1 .. Len(s) /\ t[k] = s[k + 1]
    BY <2>1
  <2>3. QED
    BY <2>2 DEF Lagging, t
<1>2. ASSUME NEW word \in Words(U), word.type # "applyEdit" PROVE Lagging(Append(s, word), f)
  <2> DEFINE t == Append(s, word)
  <2>1. /\ Len(s) \in Nat /\ Len(t) = Len(s) + 1
        /\ \A i \in 1 .. Len(s) : t[i] = s[i]
        /\ t[Len(s) + 1] = word
    BY AppendAt
  <2> HIDE DEF t
  <2>2. \A k \in 1 .. Len(t) : t[k].type = "applyEdit" => k \in 1 .. Len(s) /\ t[k] = s[k]
    BY <1>2, <2>1
  <2>3. QED
    BY <2>2 DEF Lagging, t
<1>3. QED
  BY <1>1, <1>2

(* A buffer that has moved takes nothing computed before.                  *)
LEMMA MovedLag ==
    ASSUME NEW U, NEW s \in Seq(Words(U)), NEW f \in Fronts(U), NEW g, Lagging(s, f),
           g.version = f.version + 1
    PROVE  Lagging(s, g)
<1>1. f.version \in Nat
  BY DEF Fronts
<1>2. ASSUME NEW k \in 1 .. Len(s), s[k].type = "applyEdit"
      PROVE  s[k].version <= g.version /\ s[k].version # g.version
  <2>1. s[k] \in Words(U)
    BY ElementOfSeq
  <2>2. s[k].version \in Nat
    BY <1>2, <2>1 DEF Words
  <2>3. s[k].version <= f.version
    BY <1>2 DEF Lagging
  <2>4. QED
    BY <1>1, <2>2, <2>3
<1>3. QED
  BY <1>2 DEF Lagging

Placed == Followed /\ Landing

LEMMA UndisturbedBefore ==
    ASSUME Shape, SpentIs, Undisturbed'
    PROVE  Undisturbed
<1>1. /\ spent["reopens"] \in Nat /\ spent["remirrors"] \in Nat
      /\ spent["reopens"] <= spent'["reopens"] /\ spent["remirrors"] <= spent'["remirrors"]
  BY DEF Shape, SpentIs, Budgets
<1>2. spent'["reopens"] = 0 /\ spent'["remirrors"] = 0
  BY DEF Undisturbed
<1>3. QED
  BY <1>1, <1>2 DEF Undisturbed

(* No open and no close is on the pipe after a step that sent none.        *)
LEMMA PipeQuiet ==
    ASSUME NEW U, NEW p \in Seq(Messages(U)), ~Said(p, "open"), ~Said(p, "close")
    PROVE  /\ \A m \in Messages(U) : m.type \notin {"open", "close"} =>
                  ~Said(Append(p, m), "open") /\ ~Said(Append(p, m), "close")
           /\ p # <<>> => /\ ~Said(Tail(p), "open") /\ ~Said(Tail(p), "close")
                          /\ Head(p).type \notin {"open", "close"}
BY SaidMore, SaidLess

LEMMA LandsPiping ==
    ASSUME Placed, Undisturbed, front.shared, Types \/ Agrees \/ Declines \/ Writes
    PROVE  /\ ~Said(toCompanion', "open") /\ ~Said(toCompanion', "close")
           /\ Lagging(companion'.sent, front')
<1>1. /\ toCompanion \in Seq(Messages(AllUnits)) /\ front \in Fronts(AllUnits)
      /\ companion.sent \in Seq(Words(AllUnits)) /\ Shape
      /\ ~Said(toCompanion, "open") /\ ~Said(toCompanion, "close")
      /\ Lagging(companion.sent, front)
  BY DEF Placed, Followed, Wired, Shape, Companions, Landing
<1>2. ASSUME NEW type, NextForFront(type)
      PROVE  /\ companion.sent # <<>> /\ companion'.sent = Tail(companion.sent)
             /\ Lagging(companion'.sent, front)
             /\ companion'.sent \in Seq(Words(AllUnits))
             /\ Head(companion.sent) \in Words(AllUnits) /\ Head(companion.sent).type = type
  <2>1. /\ companion.sent # <<>> /\ companion'.sent = Tail(companion.sent)
        /\ Head(companion.sent) \in Words(AllUnits) /\ Head(companion.sent).type = type
    BY <1>1, <1>2, NextForFrontDoes
  <2>2. Lagging(Tail(companion.sent), front)
    BY <1>1, <2>1, SaidLag
  <2>3. Tail(companion.sent) \in Seq(Words(AllUnits))
    BY <1>1, <2>1, TailAt
  <2>4. QED
    BY <2>1, <2>2, <2>3
<1>3. CASE Types
  <2>1. PICK change \in Changes(AllUnits) : LocalChange(change)
    BY <1>3 DEF Types
  <2> DEFINE m == [type |-> "change", change |-> change]
  <2>2. m \in Messages(AllUnits) /\ m.type = "change"
    BY MessagesAre
  <2>3. toCompanion' = Append(toCompanion, m) /\ companion' = companion
        /\ front' = [front EXCEPT !.buffer = ApplyChange(@, change), !.version = @ + 1]
    BY <2>1 DEF LocalChange, Send
  <2> HIDE DEF m
  <2>4. front'.version = front.version + 1
    BY <1>1, <2>3 DEF Fronts
  <2>5. Lagging(companion.sent, front')
    BY <1>1, <2>4, MovedLag
  <2>6. QED
    BY <1>1, <2>2, <2>3, <2>5, PipeQuiet
<1>4. CASE Agrees
  <2> DEFINE m == [type |-> "applied", id |-> Head(companion.sent).id, ok |-> TRUE]
  <2>1. NextForFront("applyEdit") /\ toCompanion' = Append(toCompanion, m)
        /\ front'.version = front.version + 1
    BY <1>4 DEF Agrees, Send
  <2>2. Head(companion.sent).id \in Nat
    BY <1>2, <2>1 DEF Words
  <2>3. m \in Messages(AllUnits) /\ m.type = "applied"
    BY <2>2, MessagesAre
  <2> HIDE DEF m
  <2>4. Lagging(companion'.sent, front')
    BY <1>1, <1>2, <2>1, MovedLag
  <2>5. QED
    BY <1>1, <2>1, <2>3, <2>4, PipeQuiet
<1>5. CASE Declines
  <2> DEFINE m == [type |-> "applied", id |-> Head(companion.sent).id, ok |-> FALSE]
  <2>1. NextForFront("applyEdit") /\ toCompanion' = Append(toCompanion, m) /\ front' = front
    BY <1>5 DEF Declines, Send
  <2>2. Head(companion.sent).id \in Nat
    BY <1>2, <2>1 DEF Words
  <2>3. m \in Messages(AllUnits) /\ m.type = "applied"
    BY <2>2, MessagesAre
  <2> HIDE DEF m
  <2>4. QED
    BY <1>1, <1>2, <2>1, <2>3, PipeQuiet
<1>6. CASE Writes
  <2>1. PICK ok \in BOOLEAN :
            Send([type |-> "saved", id |-> Head(companion.sent).id, ok |-> ok])
    BY <1>6 DEF Writes
  <2> DEFINE m == [type |-> "saved", id |-> Head(companion.sent).id, ok |-> ok]
  <2>2. NextForFront("save") /\ toCompanion' = Append(toCompanion, m) /\ SameText
    BY <1>6, <2>1 DEF Writes, Send
  <2>3. Head(companion.sent).id \in Nat
    BY <1>2, <2>2 DEF Words
  <2>4. m \in Messages(AllUnits) /\ m.type = "saved"
    BY <2>3, MessagesAre
  <2> HIDE DEF m
  <2>5. Lagging(companion'.sent, front')
    BY <1>2, <2>2 DEF SameText, Lagging
  <2>6. QED
    BY <1>1, <2>2, <2>4, <2>5, PipeQuiet
<1>7. QED
  BY <1>3, <1>4, <1>5, <1>6

(* The companion reads its pipe.                                           *)
LEMMA LandsHearing ==
    ASSUME Placed, Undisturbed, front.shared, Kept,
           Trailed(AllUnits, companion', toCompanion', front', erased'),
           HearsChange \/ HearsApplied \/ HearsSaved \/ HearsOpen \/ HearsClose
    PROVE  /\ ~Said(toCompanion', "open") /\ ~Said(toCompanion', "close")
           /\ Lagging(companion'.sent, front')
<1>1. /\ toCompanion \in Seq(Messages(AllUnits)) /\ front \in Fronts(AllUnits)
      /\ companion \in Companions(AllUnits) /\ Wired
      /\ ~Said(toCompanion, "open") /\ ~Said(toCompanion, "close")
      /\ Lagging(companion.sent, front)
  BY DEF Placed, Followed, Wired, Shape, Landing
<1>2. /\ toCompanion # <<>> /\ toCompanion' = Tail(toCompanion) /\ front' = front
      /\ toCompanion' \in Seq(Messages(AllUnits))
  BY <1>1, TailAt DEF HearsChange, HearsApplied, HearsSaved, HearsOpen, HearsClose, Unread
<1>3. /\ ~Said(toCompanion', "open") /\ ~Said(toCompanion', "close")
      /\ Head(toCompanion).type \notin {"open", "close"}
  BY <1>1, <1>2, PipeQuiet
<1>4. HearsChange \/ HearsApplied \/ HearsSaved
  BY <1>3 DEF HearsOpen, HearsClose, Unread
<1>5. Speaks(AllUnits, companion, companion')
  BY <1>1, <1>4, HearsChangeDoes, HearsAppliedDoes, HearsSavedDoes
     DEF SameOffers, SameLinks, Speaks
<1>6. companion'.document # NoDocument => Behind(companion'.document, front')
  <2>1. SUFFICES ASSUME companion'.document # NoDocument
                 PROVE  Behind(companion'.document, front')
    OBVIOUS
  <2>2. companion'.document \in Documents(AllUnits)
    BY <2>1, DocumentIs DEF Kept, Companions
  <2>3. QED
    BY <1>1, <1>2, <1>3, <2>2, TrailGrows
<1>7. Lagging(companion'.sent, front')
  BY <1>1, <1>2, <1>5, <1>6, SpeaksLag
<1>8. QED
  BY <1>3, <1>7

(* The companion works by itself.                                          *)
LEMMA LandsWorking ==
    ASSUME Placed, Undisturbed, front.shared, Kept,
           Trailed(AllUnits, companion', toCompanion', front', erased'),
           Locks \/ Works \/ Saves \/ Holds \/ Loses
    PROVE  /\ ~Said(toCompanion', "open") /\ ~Said(toCompanion', "close")
           /\ Lagging(companion'.sent, front')
<1>1. /\ toCompanion \in Seq(Messages(AllUnits)) /\ front \in Fronts(AllUnits)
      /\ companion \in Companions(AllUnits) /\ Shape
      /\ companion.sent \in Seq(Words(AllUnits)) /\ companion.nextId + 1 \in Nat
      /\ ~Said(toCompanion, "open") /\ ~Said(toCompanion, "close")
      /\ Lagging(companion.sent, front)
  BY DEF Placed, Followed, Wired, Shape, Companions, Landing
<1>2. toCompanion' = toCompanion
  BY DEF Locks, Works, Saves, SaveFires, Holds, HoldGranted, Loses, HoldRefused
<1>3. CASE Locks
  BY <1>1, <1>2, <1>3 DEF Locks, SameText, Lagging
<1>4. CASE Works
  <2>1. companion' \in Companions(AllUnits) /\ Speaks(AllUnits, companion, companion')
        /\ front' = front
    BY <1>1, <1>4, ReconciledStays DEF Works
  <2>2. companion'.document # NoDocument => Behind(companion'.document, front')
    <3>1. SUFFICES ASSUME companion'.document # NoDocument
                   PROVE  Behind(companion'.document, front')
      OBVIOUS
    <3>2. companion'.document \in Documents(AllUnits)
      BY <2>1, <3>1, DocumentIs DEF Companions
    <3>3. QED
      BY <1>1, <1>2, <2>1, <3>2, TrailGrows
  <2>3. Lagging(companion'.sent, front')
    BY <1>1, <2>1, <2>2, SpeaksLag
  <2>4. QED
    BY <1>1, <1>2, <2>3
<1>5. CASE Saves
  <2> DEFINE word == [type |-> "save", id |-> companion.nextId + 1]
  <2>1. front' = front /\ (companion'.sent = companion.sent
                           \/ companion'.sent = Append(companion.sent, word))
    BY <1>1, <1>5, SaveFiresDoes DEF Saves
  <2>2. word \in Words(AllUnits) /\ word.type # "applyEdit"
    BY <1>1 DEF Words
  <2> HIDE DEF word
  <2>3. Lagging(companion'.sent, front')
    BY <1>1, <2>1, <2>2, SaidLag
  <2>4. QED
    BY <1>1, <1>2, <2>3
<1>6. CASE Holds
  <2>1. front' = front /\ companion'.sent = companion.sent
    BY <1>1, <1>6, HoldGrantedDoes DEF Holds, KeepsWire
  <2>2. QED
    BY <1>1, <1>2, <2>1
<1>7. CASE Loses
  <2> DEFINE word == [type |-> "openRefused"]
  <2>1. front' = front /\ companion'.sent = Append(companion.sent, word)
        /\ word \in Words(AllUnits)
    BY <1>1, <1>7, HoldRefusedDoes DEF Loses
  <2>2. word.type # "applyEdit"
    OBVIOUS
  <2> HIDE DEF word
  <2>3. Lagging(companion'.sent, front')
    BY <1>1, <2>1, <2>2, SaidLag
  <2>4. QED
    BY <1>1, <1>2, <2>3
<1>8. QED
  BY <1>3, <1>4, <1>5, <1>6, <1>7

LEMMA LandingKept ==
    ASSUME Placed, [Next]_vars
    PROVE  Placed'
<1>1. Followed'
  BY FollowedKept DEF Placed
<1>2. CASE UNCHANGED vars
  BY <1>1, <1>2 DEF vars, Placed, Landing, Undisturbed
<1>3. CASE Next
  <2>1. StepDoes /\ scenario' = scenario /\ Shape /\ Wired
    BY <1>3, NextDoes DEF Placed, Followed, Wired
  <2>2. SUFFICES ASSUME Undisturbed', front'.shared
                 PROVE  /\ ~Said(toCompanion', "open") /\ ~Said(toCompanion', "close")
                        /\ Lagging(companion'.sent, front')
    BY <1>1 DEF Placed, Landing
  <2>3. Undisturbed
    BY <2>1, <2>2, UndisturbedBefore DEF StepDoes
  <2>4. Kept
    BY <2>1, MovesKeep DEF StepDoes
  <2>5. Trailed(AllUnits, companion', toCompanion', front', erased')
    BY <2>1, MovesFollow DEF StepDoes, Placed
  <2>6. ~Opens
    <3>1. spent'["reopens"] = 0 /\ spent'["remirrors"] = 0
      BY <2>2 DEF Undisturbed
    <3>2. Opens => spent'["reopens"] > 0 \/ spent'["remirrors"] > 0
      BY DEF Opens
    <3>3. QED
      BY <3>1, <3>2
  <2>7. front.shared /\ ~LetsGo /\ ~Ignores
    <3>1. ~LetsGo
      <4>1. front \in Fronts(AllUnits)
        BY <2>1 DEF Shape
      <4>2. QED
        BY <2>2, <4>1 DEF LetsGo, LetGo, Fronts
    <3>2. ~Ignores
      BY <2>2 DEF Ignores
    <3>3. front.shared
      BY <2>1, <2>2, <2>6, <3>1, <3>2
         DEF StepDoes, Moves, Types, LocalChange, Locks, SameText, Agrees, Takes, Declines,
             Writes, HearsChange, HearsApplied, HearsSaved, HearsOpen, HearsClose, Unread,
             Works, Saves, SaveFires, Holds, HoldGranted, Loses, HoldRefused
    <3>4. QED
      BY <3>1, <3>2, <3>3
  <2>8. QED
    BY <2>1, <2>3, <2>4, <2>5, <2>6, <2>7, LandsPiping, LandsHearing, LandsWorking
       DEF StepDoes, Moves
<1>4. QED
  BY <1>2, <1>3

LEMMA PlacedLands ==
    ASSUME Placed, spent.reopens = 0, spent.remirrors = 0
    PROVE  OffersLandWhereComputed
<1>1. SUFFICES ASSUME NEW i \in DOMAIN companion.sent, companion.sent[i].type = "applyEdit",
                      Takes(companion.sent[i])
               PROVE  front.buffer = companion.sent[i].base
  BY DEF OffersLandWhereComputed
<1>2. i \in 1 .. Len(companion.sent)
  BY LenProperties DEF Placed, Followed, Wired, Shape, Companions
<1>3. front.shared /\ companion.sent[i].version = front.version
  BY <1>1 DEF Takes
<1>4. QED
  BY <1>1, <1>2, <1>3 DEF Placed, Landing, Undisturbed, Lagging

(* As long as the document was neither opened again nor moved to the       *)
(* mirror's file, an edit of the room that the front-end would take now is *)
(* one computed from the very text the buffer holds: equal counts mean     *)
(* equal texts, however many keystrokes crossed it and however often it    *)
(* was refused, moved and offered again.                                   *)
THEOREM OffersLand ==
    Spec => [](spent.reopens = 0 /\ spent.remirrors = 0 => OffersLandWhereComputed)
<1>1. Init => Placed
  BY FollowedFirst DEF Placed, Landing, Init, Said, Lagging
<1>2. Placed /\ [Next]_vars => Placed'
  BY LandingKept
<1>3. Placed => (spent.reopens = 0 /\ spent.remirrors = 0 => OffersLandWhereComputed)
  BY PlacedLands
<1>4. QED
  BY <1>1, <1>2, <1>3, PTL DEF Spec

(***************************************************************************)
(* Holds: a hold stands for no document that is not open, but for one      *)
(* whose close, or whose refusal, is still on its way.                     *)
(***************************************************************************)
(* A close is the last that was said of the document, or nothing is left.  *)
Leaves(p) ==
    \E k \in 1 .. Len(p) :
        p[k].type = "close" /\ \A j \in 1 .. Len(p) : k < j => p[j].type # "open"
Away(c, p) == Leaves(p) \/ (~Said(p, "open") /\ ~Said(p, "close") /\ ~c.open /\ ~c.held)
(* An open follows every close.                                            *)
Returns(p) ==
    \A k \in 1 .. Len(p) : p[k].type = "close" =>
        \E j \in 1 .. Len(p) : k < j /\ p[j].type = "open"
Present(c, p) == Returns(p) /\ (c.open \/ Said(c.sent, "openRefused") \/ Said(p, "open"))
Standing(c, p) ==
    c.held /\ ~c.open => Said(c.sent, "openRefused") \/ Said(p, "close")
Holding(c, p, f) ==
    /\ Standing(c, p)
    /\ ~f.shared => Away(c, p)
    /\ f.shared => Present(c, p)

LEMMA LeavesMore ==
    ASSUME NEW U, NEW p \in Seq(Messages(U)), NEW m \in Messages(U)
    PROVE  /\ Leaves(p) /\ m.type # "open" => Leaves(Append(p, m))
           /\ m.type = "close" => Leaves(Append(p, m))
           /\ Returns(p) /\ m.type # "close" => Returns(Append(p, m))
           /\ m.type = "open" => Returns(Append(p, m))
<1> DEFINE q == Append(p, m)
           last == Len(p) + 1
<1>1. /\ Len(p) \in Nat /\ Len(q) = last /\ q[last] = m
      /\ \A i \in 1 .. Len(p) : q[i] = p[i]
  BY AppendAt
<1> HIDE DEF q
<1>2. last \in 1 .. Len(q) /\ \A k \in 1 .. Len(p) : k \in 1 .. Len(q) /\ k < last
  BY <1>1
<1>3. \A k \in 1 .. Len(q) : k = last \/ k \in 1 .. Len(p)
  BY <1>1
<1>4. \A k \in 1 .. Len(q) : ~(last < k)
  BY <1>1
<1> HIDE DEF last
<1>5. ASSUME Leaves(p), m.type # "open" PROVE Leaves(q)
  <2>1. PICK k \in 1 .. Len(p) :
            p[k].type = "close" /\ \A j \in 1 .. Len(p) : k < j => p[j].type # "open"
    BY <1>5 DEF Leaves
  <2>2. q[k].type = "close" /\ \A j \in 1 .. Len(q) : k < j => q[j].type # "open"
    BY <1>1, <1>3, <1>5, <2>1
  <2>3. QED
    BY <1>2, <2>2 DEF Leaves
<1>6. ASSUME m.type = "close" PROVE Leaves(q)
  BY <1>1, <1>2, <1>4, <1>6 DEF Leaves
<1>7. ASSUME Returns(p), m.type # "close" PROVE Returns(q)
  <2>1. ASSUME NEW k \in 1 .. Len(q), q[k].type = "close"
        PROVE  \E j \in 1 .. Len(q) : k < j /\ q[j].type = "open"
    <3>1. k \in 1 .. Len(p) /\ p[k].type = "close"
      BY <1>1, <1>3, <1>7, <2>1
    <3>2. PICK j \in 1 .. Len(p) : k < j /\ p[j].type = "open"
      BY <1>7, <3>1 DEF Returns
    <3>3. j \in 1 .. Len(q) /\ q[j].type = "open"
      BY <1>1, <1>2, <3>2
    <3>4. QED
      BY <3>2, <3>3
  <2>2. QED
    BY <2>1 DEF Returns
<1>8. ASSUME m.type = "open" PROVE Returns(q)
  <2>1. ASSUME NEW k \in 1 .. Len(q), q[k].type = "close"
        PROVE  k < last
    BY <1>1, <1>2, <1>3, <1>8, <2>1
  <2>2. QED
    BY <1>1, <1>2, <1>8, <2>1 DEF Returns
<1>9. QED
  BY <1>5, <1>6, <1>7, <1>8 DEF q

LEMMA LeavesLess ==
    ASSUME NEW U, NEW p \in Seq(Messages(U)), p # <<>>
    PROVE  /\ Leaves(p) => Leaves(Tail(p)) \/ (Head(p).type = "close" /\ ~Said(Tail(p), "open"))
           /\ Returns(p) => Returns(Tail(p))
           /\ Returns(p) /\ Head(p).type = "close" => Said(Tail(p), "open")
<1> DEFINE q == Tail(p)
<1>1. /\ Len(p) \in Nat \ {0} /\ Len(q) = Len(p) - 1
      /\ \A i \in 1 .. Len(p) - 1 : q[i] = p[i + 1]
      /\ Head(p) = p[1]
  BY TailAt
<1> HIDE DEF q
<1>2. \A k \in 1 .. Len(q) : k + 1 \in 1 .. Len(p) /\ q[k] = p[k + 1] /\ 1 < k + 1
  BY <1>1
<1>3. \A k \in 1 .. Len(p) : k # 1 => k - 1 \in 1 .. Len(q) /\ q[k - 1] = p[k]
  BY <1>1
<1>4. ASSUME Leaves(p) PROVE Leaves(q) \/ (Head(p).type = "close" /\ ~Said(q, "open"))
  <2>1. PICK k \in 1 .. Len(p) :
            p[k].type = "close" /\ \A j \in 1 .. Len(p) : k < j => p[j].type # "open"
    BY <1>4 DEF Leaves
  <2>2. CASE k = 1
    <3>1. ASSUME NEW j \in 1 .. Len(q) PROVE q[j].type # "open"
      BY <1>2, <2>1, <2>2
    <3>2. QED
      BY <1>1, <2>1, <2>2, <3>1 DEF Said
  <2>3. CASE k # 1
    <3>1. k - 1 \in 1 .. Len(q) /\ q[k - 1].type = "close"
      BY <1>3, <2>1, <2>3
    <3>2. ASSUME NEW j \in 1 .. Len(q), k - 1 < j PROVE q[j].type # "open"
      <4>1. j + 1 \in 1 .. Len(p) /\ q[j] = p[j + 1] /\ k < j + 1
        BY <1>2, <3>2
      <4>2. QED
        BY <2>1, <4>1
    <3>3. QED
      BY <3>1, <3>2 DEF Leaves
  <2>4. QED
    BY <2>2, <2>3
<1>5. ASSUME Returns(p) PROVE Returns(q)
  <2>1. ASSUME NEW k \in 1 .. Len(q), q[k].type = "close"
        PROVE  \E j \in 1 .. Len(q) : k < j /\ q[j].type = "open"
    <3>1. k + 1 \in 1 .. Len(p) /\ p[k + 1].type = "close"
      BY <1>2, <2>1
    <3>2. PICK j \in 1 .. Len(p) : k + 1 < j /\ p[j].type = "open"
      BY <1>5, <3>1 DEF Returns
    <3>3. j # 1 /\ k < j - 1
      BY <3>2
    <3>4. j - 1 \in 1 .. Len(q) /\ q[j - 1].type = "open"
      BY <1>3, <3>2, <3>3
    <3>5. QED
      BY <3>3, <3>4
  <2>2. QED
    BY <2>1 DEF Returns
<1>6. ASSUME Returns(p), Head(p).type = "close" PROVE Said(q, "open")
  <2>1. 1 \in 1 .. Len(p) /\ p[1].type = "close"
    BY <1>1, <1>6
  <2>2. PICK j \in 1 .. Len(p) : 1 < j /\ p[j].type = "open"
    BY <1>6, <2>1 DEF Returns
  <2>3. j - 1 \in 1 .. Len(q) /\ q[j - 1].type = "open"
    BY <1>3, <2>2
  <2>4. QED
    BY <2>3 DEF Said
<1>7. QED
  BY <1>4, <1>5, <1>6 DEF q

(* The companion is as open and holds as much, and a refusal it had said   *)
(* is still to be read.                                                    *)
Unmoved(c, d) ==
    /\ d.open = c.open
    /\ d.held = c.held \/ d.held = c.open
    /\ Said(c.sent, "openRefused") <=> Said(d.sent, "openRefused")

LEMMA HoldingStill ==
    ASSUME NEW c, NEW d, NEW p, NEW f, NEW g, Unmoved(c, d), g.shared = f.shared,
           Holding(c, p, f)
    PROVE  Holding(d, p, g)
BY DEF Unmoved, Holding, Standing, Away, Present

(* The front-end says something that is neither an open nor a close.       *)
LEMMA HoldingPiped ==
    ASSUME NEW U, NEW c, NEW d, NEW p \in Seq(Messages(U)), NEW m \in Messages(U),
           m.type \notin {"open", "close"}, NEW f, NEW g, Unmoved(c, d),
           g.shared = f.shared, Holding(c, p, f)
    PROVE  Holding(d, Append(p, m), g)
<1> DEFINE q == Append(p, m)
<1>1. /\ Leaves(p) => Leaves(q)
      /\ Returns(p) => Returns(q)
      /\ Said(q, "open") <=> Said(p, "open")
      /\ Said(q, "close") <=> Said(p, "close")
  BY LeavesMore, SaidMore
<1> HIDE DEF q
<1>2. QED
  BY <1>1 DEF Unmoved, Holding, Standing, Away, Present, q

(* The companion reads something that is neither.                          *)
LEMMA HoldingHeard ==
    ASSUME NEW U, NEW c, NEW d, NEW p \in Seq(Messages(U)), p # <<>>,
           Head(p).type \notin {"open", "close"}, NEW f, Unmoved(c, d), Holding(c, p, f)
    PROVE  Holding(d, Tail(p), f)
<1> DEFINE q == Tail(p)
<1>1. /\ Leaves(p) => Leaves(q)
      /\ Returns(p) => Returns(q)
      /\ Said(q, "open") <=> Said(p, "open")
      /\ Said(q, "close") <=> Said(p, "close")
  BY LeavesLess, SaidLess
<1> HIDE DEF q
<1>2. QED
  BY <1>1 DEF Unmoved, Holding, Standing, Away, Present, q

LEMMA HoldingOpened ==
    ASSUME NEW U, NEW c, NEW d, NEW p \in Seq(Messages(U)), p # <<>>,
           Head(p).type = "open", NEW f, d.open, Holding(c, p, f)
    PROVE  Holding(d, Tail(p), f)
<1> DEFINE q == Tail(p)
<1>1. (Leaves(p) => Leaves(q)) /\ (Returns(p) => Returns(q)) /\ Said(p, "open")
  BY LeavesLess, SaidLess
<1> HIDE DEF q
<1>2. QED
  BY <1>1 DEF Holding, Standing, Away, Present, q

LEMMA HoldingClosed ==
    ASSUME NEW U, NEW c, NEW d, NEW p \in Seq(Messages(U)), p # <<>>,
           Head(p).type = "close", NEW f, ~d.open, ~d.held, Holding(c, p, f)
    PROVE  Holding(d, Tail(p), f)
<1> DEFINE q == Tail(p)
<1>1. /\ Leaves(p) => Leaves(q) \/ ~Said(q, "open")
      /\ Returns(p) => Returns(q) /\ Said(q, "open")
      /\ Said(p, "close")
  BY LeavesLess, SaidLess
<1>2. ~Said(q, "open") /\ Said(q, "close") => Leaves(q)
  BY DEF Said, Leaves
<1> HIDE DEF q
<1>3. QED
  BY <1>1, <1>2 DEF Holding, Standing, Away, Present, q

Held == Holding(companion, toCompanion, front)

LEMMA SpeaksRefuses ==
    ASSUME NEW U, NEW c \in Companions(U), NEW d, Speaks(U, c, d)
    PROVE  Said(c.sent, "openRefused") <=> Said(d.sent, "openRefused")
<1>1. c.sent \in Seq(Words(U))
  BY DEF Companions
<1>2. ASSUME NEW word \in Words(U), Offers(d, word), d.sent = Append(c.sent, word)
      PROVE  Said(c.sent, "openRefused") <=> Said(d.sent, "openRefused")
  <2>1. word.type # "openRefused"
    BY <1>2 DEF Offers
  <2>2. Said(Append(c.sent, word), "openRefused")
            <=> Said(c.sent, "openRefused") \/ word.type = "openRefused"
    BY <1>1, SaidMore
  <2>3. QED
    BY <1>2, <2>1, <2>2
<1>3. QED
  BY <1>2 DEF Speaks

LEMMA SpeaksUnmoved ==
    ASSUME NEW U, NEW c \in Companions(U), NEW d, Speaks(U, c, d),
           d.open = c.open, d.held = c.held
    PROVE  Unmoved(c, d)
BY SpeaksRefuses DEF Unmoved

LEMMA ReadsUnmoved ==
    ASSUME Shape, NEW type, type # "openRefused", NextForFront(type)
    PROVE  Unmoved(companion, companion') /\ Head(companion.sent) \in Words(AllUnits)
           /\ Head(companion.sent).type = type
<1>1. /\ companion.sent \in Seq(Words(AllUnits)) /\ companion.sent # <<>>
      /\ Head(companion.sent) \in Words(AllUnits) /\ Head(companion.sent).type = type
      /\ companion'.sent = Tail(companion.sent) /\ Untouched(companion, companion')
  BY NextForFrontDoes
<1>2. Said(companion.sent, "openRefused") <=> Said(companion'.sent, "openRefused")
  BY <1>1, SaidLess
<1>3. QED
  BY <1>1, <1>2 DEF Unmoved, Untouched, KeepsPath

LEMMA HeldPiping ==
    ASSUME Wired, Held, front' \in Fronts(AllUnits), Types \/ Agrees \/ Declines \/ Writes
    PROVE  Held'
<1>1. toCompanion \in Seq(Messages(AllUnits)) /\ front \in Fronts(AllUnits) /\ Shape
  BY DEF Wired, Shape
<1>2. CASE Types
  <2>1. PICK change \in Changes(AllUnits) : LocalChange(change)
    BY <1>2 DEF Types
  <2> DEFINE m == [type |-> "change", change |-> change]
  <2>2. m \in Messages(AllUnits) /\ m.type = "change"
    BY MessagesAre
  <2>3. toCompanion' = Append(toCompanion, m) /\ companion' = companion
        /\ front' = [front EXCEPT !.buffer = ApplyChange(@, change), !.version = @ + 1]
    BY <2>1 DEF LocalChange, Send
  <2> HIDE DEF m
  <2>4. front'.shared = front.shared /\ Unmoved(companion, companion')
    BY <1>1, <2>3 DEF Fronts, Unmoved
  <2>5. QED
    BY <1>1, <2>2, <2>3, <2>4, HoldingPiped DEF Held
<1>3. ASSUME NEW type \in {"applyEdit", "save"}, NextForFront(type)
      PROVE  Unmoved(companion, companion') /\ Head(companion.sent).id \in Nat
  <2>1. Unmoved(companion, companion') /\ Head(companion.sent) \in Words(AllUnits)
        /\ Head(companion.sent).type = type
    BY <1>1, <1>3, ReadsUnmoved
  <2>2. QED
    BY <1>3, <2>1 DEF Words
<1>4. ASSUME NEW m \in Messages(AllUnits), m.type \notin {"open", "close"},
             toCompanion' = Append(toCompanion, m), front'.shared = front.shared,
             Unmoved(companion, companion')
      PROVE  Held'
  BY <1>1, <1>4, HoldingPiped DEF Held
<1>5. CASE Agrees
  <2> DEFINE m == [type |-> "applied", id |-> Head(companion.sent).id, ok |-> TRUE]
  <2>1. /\ NextForFront("applyEdit") /\ toCompanion' = Append(toCompanion, m)
        /\ front.shared /\ front'.shared
    BY <1>5 DEF Agrees, Takes, Send
  <2>2. m \in Messages(AllUnits) /\ m.type \notin {"open", "close"}
    BY <1>3, <2>1, MessagesAre
  <2>3. front'.shared = front.shared
    BY <1>1, <2>1 DEF Fronts
  <2> HIDE DEF m
  <2>4. QED
    BY <1>3, <1>4, <2>1, <2>2, <2>3
<1>6. CASE Declines
  <2> DEFINE m == [type |-> "applied", id |-> Head(companion.sent).id, ok |-> FALSE]
  <2>1. NextForFront("applyEdit") /\ toCompanion' = Append(toCompanion, m) /\ front' = front
    BY <1>6 DEF Declines, Send
  <2>2. m \in Messages(AllUnits) /\ m.type \notin {"open", "close"}
    BY <1>3, <2>1, MessagesAre
  <2> HIDE DEF m
  <2>3. QED
    BY <1>3, <1>4, <2>1, <2>2
<1>7. CASE Writes
  <2>1. PICK ok \in BOOLEAN :
            Send([type |-> "saved", id |-> Head(companion.sent).id, ok |-> ok])
    BY <1>7 DEF Writes
  <2> DEFINE m == [type |-> "saved", id |-> Head(companion.sent).id, ok |-> ok]
  <2>2. NextForFront("save") /\ toCompanion' = Append(toCompanion, m) /\ SameText
    BY <1>7, <2>1 DEF Writes, Send
  <2>3. m \in Messages(AllUnits) /\ m.type \notin {"open", "close"}
    BY <1>3, <2>2, MessagesAre
  <2> HIDE DEF m
  <2>4. QED
    BY <1>3, <1>4, <2>2, <2>3 DEF SameText
<1>8. QED
  BY <1>2, <1>5, <1>6, <1>7

LEMMA HeldLeaving ==
    ASSUME Wired, Held, LetsGo
    PROVE  Held'
<1> DEFINE m == [type |-> "close"]
           q == Append(toCompanion, m)
<1>1. toCompanion \in Seq(Messages(AllUnits)) /\ front \in Fronts(AllUnits)
  BY DEF Wired, Shape
<1>2. m \in Messages(AllUnits) /\ m.type = "close"
  BY MessagesAre
<1>3. toCompanion' = q /\ front' = [front EXCEPT !.shared = FALSE]
  BY DEF LetsGo, LetGo, Send
<1> HIDE DEF m
<1>4. Leaves(q) /\ Said(q, "close")
  BY <1>1, <1>2, LeavesMore, SaidMore
<1>5. ~front'.shared
  BY <1>1, <1>3 DEF Fronts
<1> HIDE DEF q
<1>6. QED
  BY <1>3, <1>4, <1>5 DEF Held, Holding, Standing, Away

LEMMA HeldIgnoring ==
    ASSUME Wired, Held, Ignores
    PROVE  Held'
<1>1. Untouched(companion, companion')
  BY NextForFrontDoes DEF Wired, Ignores
<1>2. front' = front /\ toCompanion' = toCompanion /\ ~front.shared
  BY DEF Ignores
<1>3. Leaves(toCompanion) => Said(toCompanion, "close")
  BY DEF Leaves, Said
<1>4. QED
  BY <1>1, <1>2, <1>3 DEF Held, Holding, Standing, Away, Untouched, KeepsPath

LEMMA HeldOpening ==
    ASSUME Wired, Held, Opens
    PROVE  Held'
<1>1. PICK text \in Seq(AllUnits) :
          /\ front'.shared
          /\ toCompanion' = Append(toCompanion, [type |-> "open", text |-> text])
          /\ companion' = companion
  BY DEF Opens
<1> DEFINE m == [type |-> "open", text |-> text]
           q == Append(toCompanion, m)
<1>2. m \in Messages(AllUnits) /\ m.type = "open"
  BY MessagesAre
<1>3. toCompanion' = q
  BY <1>1
<1> HIDE DEF m
<1>4. /\ Returns(q) /\ Said(q, "open")
      /\ Said(toCompanion, "close") => Said(q, "close")
  BY <1>2, LeavesMore, SaidMore DEF Wired, Shape
<1> HIDE DEF q
<1>5. QED
  BY <1>1, <1>3, <1>4 DEF Held, Holding, Standing, Present

LEMMA HeldHearing ==
    ASSUME Wired, Held, HearsChange \/ HearsApplied \/ HearsSaved \/ HearsOpen \/ HearsClose
    PROVE  Held'
<1>1. toCompanion \in Seq(Messages(AllUnits)) /\ companion \in Companions(AllUnits)
  BY DEF Wired, Shape
<1>2. toCompanion # <<>> /\ toCompanion' = Tail(toCompanion) /\ front' = front
  BY DEF HearsChange, HearsApplied, HearsSaved, HearsOpen, HearsClose, Unread
<1>3. CASE HearsChange \/ HearsApplied \/ HearsSaved
  <2>1. Head(toCompanion).type \notin {"open", "close"}
    BY <1>3 DEF HearsChange, HearsApplied, HearsSaved, Unread
  <2>2. /\ Speaks(AllUnits, companion, companion')
        /\ companion'.open = companion.open /\ companion'.held = companion.held
    BY <1>3, HearsChangeDoes, HearsAppliedDoes, HearsSavedDoes DEF SameOffers, SameLinks, Speaks
  <2>3. Unmoved(companion, companion')
    BY <1>1, <2>2, SpeaksUnmoved
  <2>4. QED
    BY <1>1, <1>2, <2>1, <2>3, HoldingHeard DEF Held
<1>4. CASE HearsOpen
  <2>1. Head(toCompanion).type = "open" /\ companion'.open
    BY <1>4, HearsOpenDoes DEF HearsOpen, Unread
  <2>2. QED
    BY <1>1, <1>2, <2>1, HoldingOpened DEF Held
<1>5. CASE HearsClose
  <2>1. Head(toCompanion).type = "close" /\ ~companion'.open /\ ~companion'.held
    BY <1>5, HearsCloseDoes DEF HearsClose, Unread
  <2>2. QED
    BY <1>1, <1>2, <2>1, HoldingClosed DEF Held
<1>6. QED
  BY <1>3, <1>4, <1>5

LEMMA HeldWorking ==
    ASSUME Wired, Held, Locks \/ Works \/ Saves \/ Holds \/ Loses
    PROVE  Held'
<1>1. /\ companion \in Companions(AllUnits) /\ Shape
      /\ companion.sent \in Seq(Words(AllUnits)) /\ companion.nextId + 1 \in Nat
  BY DEF Wired, Shape, Companions
<1>2. toCompanion' = toCompanion /\ front'.shared = front.shared
  BY DEF Locks, SameText, Works, Saves, SaveFires, Holds, HoldGranted, Loses, HoldRefused
<1>3. CASE Locks
  BY <1>2, <1>3, HoldingStill DEF Locks, Unmoved, Held
<1>4. CASE Works
  <2>1. Unmoved(companion, companion')
    BY <1>1, <1>4, ReconciledStays, SpeaksUnmoved DEF Works, KeepsPath
  <2>2. QED
    BY <1>2, <2>1, HoldingStill DEF Held
<1>5. CASE Saves
  <2> DEFINE word == [type |-> "save", id |-> companion.nextId + 1]
  <2>1. /\ companion'.sent = companion.sent \/ companion'.sent = Append(companion.sent, word)
        /\ companion'.open = companion.open /\ companion'.held = companion.held
    BY <1>1, <1>5, SaveFiresDoes DEF Saves
  <2>2. word \in Words(AllUnits) /\ word.type = "save"
    BY <1>1 DEF Words
  <2> HIDE DEF word
  <2>3. Said(Append(companion.sent, word), "openRefused") <=> Said(companion.sent, "openRefused")
    <3>1. word.type # "openRefused"
      BY <2>2
    <3>2. QED
      BY <1>1, <2>2, <3>1, SaidMore
  <2>4. Unmoved(companion, companion')
    <3>1. CASE companion'.sent = companion.sent
      BY <2>1, <3>1 DEF Unmoved
    <3>2. CASE companion'.sent = Append(companion.sent, word)
      BY <2>1, <2>3, <3>2 DEF Unmoved
    <3>3. QED
      BY <2>1, <3>1, <3>2
  <2>5. QED
    BY <1>2, <2>4, HoldingStill DEF Held
<1>6. CASE Holds
  <2>1. Unmoved(companion, companion')
    BY <1>1, <1>6, HoldGrantedDoes DEF Holds, KeepsWire, Unmoved
  <2>2. QED
    BY <1>2, <2>1, HoldingStill DEF Held
<1>7. CASE Loses
  <2> DEFINE word == [type |-> "openRefused"]
  <2>1. /\ ~companion'.open /\ companion'.held = companion.held
        /\ companion'.sent = Append(companion.sent, word) /\ word \in Words(AllUnits)
    BY <1>1, <1>7, HoldRefusedDoes DEF Loses
  <2>2. word.type = "openRefused"
    OBVIOUS
  <2> HIDE DEF word
  <2>3. Said(companion'.sent, "openRefused")
    BY <1>1, <2>1, <2>2, SaidMore
  <2>4. QED
    BY <1>2, <2>1, <2>3 DEF Held, Holding, Standing, Away, Present
<1>8. QED
  BY <1>3, <1>4, <1>5, <1>6, <1>7

HeldWired == Wired /\ Held

LEMMA HeldFirst ==
    ASSUME Init
    PROVE  HeldWired
<1>1. Wired
  BY WiredFirst
<1>2. companion.open /\ front.shared /\ toCompanion = <<>>
  BY DEF Init
<1>3. Returns(<<>>)
  BY DEF Returns
<1>4. QED
  BY <1>1, <1>2, <1>3 DEF HeldWired, Held, Holding, Standing, Present

LEMMA HeldKept ==
    ASSUME HeldWired, [Next]_vars
    PROVE  HeldWired'
<1>1. Wired'
  BY WiredKept DEF HeldWired
<1>2. CASE UNCHANGED vars
  BY <1>1, <1>2 DEF vars, HeldWired, Held
<1>3. CASE Next
  <2>1. Moves /\ front' \in Fronts(AllUnits)
    BY <1>3, NextDoes DEF StepDoes, HeldWired, Wired
  <2>2. QED
    BY <1>1, <2>1, HeldPiping, HeldLeaving, HeldIgnoring, HeldOpening, HeldHearing, HeldWorking
       DEF Moves, HeldWired
<1>4. QED
  BY <1>2, <1>3

LEMMA AlwaysHeld == Spec => []HeldWired
<1>1. Init => HeldWired
  BY HeldFirst
<1>2. HeldWired /\ [Next]_vars => HeldWired'
  BY HeldKept
<1>3. QED
  BY <1>1, <1>2, PTL DEF Spec

(* A hold the room granted after its document was closed, or while it was  *)
(* being refused, is given back: once nothing is left to do, the companion *)
(* holds the document in the room only where it is open, whatever was      *)
(* closed, opened again and refused in whatever order the answers came.    *)
THEOREM HoldsStand == Spec => []HeldIsOpen
<1>1. HeldWired => HeldIsOpen
  <2>1. SUFFICES ASSUME HeldWired, Quiet, companion.held, ~companion.open PROVE FALSE
    BY DEF HeldIsOpen
  <2>2. toCompanion = <<>> /\ companion.sent = <<>>
    BY <2>1 DEF Quiet, Ready
  <2>3. QED
    BY <2>1, <2>2 DEF HeldWired, Held, Holding, Standing, Said
<1>2. QED
  BY <1>1, AlwaysHeld, PTL

(***************************************************************************)
(* A deadline that was paused.                                             *)
(***************************************************************************)
(* Every offer that is out is the one of the flight.                       *)
Belongs(c) ==
    \A id \in DOMAIN c.applies :
        c.flight # NoFlight /\ c.applies[id].serial = c.flight.serial
(* The document was never closed, and its deadline is paused for a reason. *)
Serves(c, p) ==
    /\ Unpaused(c) \/ PausedOverRefused(c)
    /\ c.open /\ ~Said(p, "close") /\ Belongs(c)
(* The document is let go of, or is about to be.                           *)
Doomed(c, f) == ~f.shared \/ Said(c.sent, "openRefused")
Remembers(c) == Unpaused(c) \/ c.refusedSeed
(* No unit of the scenario is half of a character.                         *)
Unsplit == AllUnits \cap (HighSurrogates \cup LowSurrogates) = {}
Resuming ==
    /\ Unsplit => Remembers(companion)
    /\ spent["reopens"] = 0 =>
          Doomed(companion, front) \/ Serves(companion, toCompanion)

LEMMA UnsplitIs ==
    ASSUME Unsplit, NEW c \in Companions(AllUnits), c.document # NoDocument
    PROVE  ~Malformed(c)
<1>1. \A text \in Seq(AllUnits) : ~HasLoneSurrogate(text)
  BY ElementOfSeq DEF Unsplit, HasLoneSurrogate
<1>2. c.replica \in Seq(AllUnits) /\ c.document.text \in Seq(AllUnits)
  BY DocumentIs DEF Companions, Documents
<1>3. QED
  BY <1>1, <1>2 DEF Malformed

(* What neither touches the deadline nor what it is paused for.            *)
Still(c, d) ==
    /\ d.document = c.document /\ d.open = c.open /\ d.applies = c.applies
    /\ d.flight = c.flight /\ d.replica = c.replica
    /\ d.refusedSeed = c.refusedSeed /\ d.save = c.save
Rests(c, d) ==
    Still(c, d) /\ (Said(c.sent, "openRefused") <=> Said(d.sent, "openRefused"))

LEMMA StillRemembers ==
    ASSUME NEW c, NEW d, Still(c, d)
    PROVE  /\ Remembers(c) => Remembers(d)
           /\ \A p, q : Serves(c, p) /\ (Said(q, "close") => Said(p, "close")) => Serves(d, q)
BY DEF Still, Remembers, Serves, Unpaused, PausedOverRefused, Belongs, Malformed

LEMMA ReadsRest ==
    ASSUME Shape, NEW type, type # "openRefused", NextForFront(type)
    PROVE  Rests(companion, companion') /\ Head(companion.sent).type = type
           /\ Head(companion.sent) \in Words(AllUnits)
<1>1. /\ companion.sent \in Seq(Words(AllUnits)) /\ companion.sent # <<>>
      /\ Head(companion.sent) \in Words(AllUnits) /\ Head(companion.sent).type = type
      /\ companion'.sent = Tail(companion.sent) /\ Untouched(companion, companion')
      /\ companion'.save = companion.save
  BY NextForFrontDoes
<1>2. Said(companion.sent, "openRefused") <=> Said(companion'.sent, "openRefused")
  BY <1>1, SaidLess
<1>3. QED
  BY <1>1, <1>2 DEF Rests, Still, Untouched, KeepsPath

LEMMA PipedClose ==
    ASSUME NEW U, NEW p \in Seq(Messages(U)), NEW m \in Messages(U), m.type # "close"
    PROVE  Said(Append(p, m), "close") => Said(p, "close")
BY SaidMore

LEMMA MovesRest ==
    ASSUME Wired, front' \in Fronts(AllUnits),
           \/ Types \/ Locks \/ Agrees \/ Declines \/ Writes \/ HearsSaved \/ Holds
           \/ Opens /\ front.shared
    PROVE  /\ Rests(companion, companion') /\ front'.shared = front.shared
           /\ Said(toCompanion', "close") => Said(toCompanion, "close")
<1>1. /\ toCompanion \in Seq(Messages(AllUnits)) /\ front \in Fronts(AllUnits) /\ Shape
  BY DEF Wired, Shape
<1>2. ASSUME NEW m \in Messages(AllUnits), m.type # "close",
             toCompanion' = Append(toCompanion, m), front'.shared = front.shared,
             Rests(companion, companion')
      PROVE  /\ Rests(companion, companion') /\ front'.shared = front.shared
             /\ Said(toCompanion', "close") => Said(toCompanion, "close")
  BY <1>1, <1>2, PipedClose
<1>3. companion' = companion => Rests(companion, companion')
  BY DEF Rests, Still
<1>4. ASSUME NEW type \in {"applyEdit", "save"}, NextForFront(type)
      PROVE  Rests(companion, companion') /\ Head(companion.sent).id \in Nat
  <2>1. Rests(companion, companion') /\ Head(companion.sent) \in Words(AllUnits)
        /\ Head(companion.sent).type = type
    BY <1>1, <1>4, ReadsRest
  <2>2. QED
    BY <1>4, <2>1 DEF Words
<1>5. CASE Types
  <2>1. PICK change \in Changes(AllUnits) : LocalChange(change)
    BY <1>5 DEF Types
  <2> DEFINE m == [type |-> "change", change |-> change]
  <2>2. m \in Messages(AllUnits) /\ m.type # "close"
    BY MessagesAre
  <2>3. toCompanion' = Append(toCompanion, m) /\ companion' = companion
        /\ front' = [front EXCEPT !.buffer = ApplyChange(@, change), !.version = @ + 1]
    BY <2>1 DEF LocalChange, Send
  <2> HIDE DEF m
  <2>4. front'.shared = front.shared
    BY <1>1, <2>3 DEF Fronts
  <2>5. QED
    BY <1>2, <1>3, <2>2, <2>3, <2>4
<1>6. CASE Locks
  BY <1>3, <1>6 DEF Locks, SameText
<1>7. CASE Agrees
  <2> DEFINE m == [type |-> "applied", id |-> Head(companion.sent).id, ok |-> TRUE]
  <2>1. /\ NextForFront("applyEdit") /\ toCompanion' = Append(toCompanion, m)
        /\ front.shared /\ front'.shared
    BY <1>7 DEF Agrees, Takes, Send
  <2>2. m \in Messages(AllUnits) /\ m.type # "close"
    BY <1>4, <2>1, MessagesAre
  <2>3. front'.shared = front.shared
    BY <1>1, <2>1 DEF Fronts
  <2> HIDE DEF m
  <2>4. QED
    BY <1>2, <1>4, <2>1, <2>2, <2>3
<1>8. CASE Declines
  <2> DEFINE m == [type |-> "applied", id |-> Head(companion.sent).id, ok |-> FALSE]
  <2>1. NextForFront("applyEdit") /\ toCompanion' = Append(toCompanion, m) /\ front' = front
    BY <1>8 DEF Declines, Send
  <2>2. m \in Messages(AllUnits) /\ m.type # "close"
    BY <1>4, <2>1, MessagesAre
  <2> HIDE DEF m
  <2>3. QED
    BY <1>2, <1>4, <2>1, <2>2
<1>9. CASE Writes
  <2>1. PICK ok \in BOOLEAN :
            Send([type |-> "saved", id |-> Head(companion.sent).id, ok |-> ok])
    BY <1>9 DEF Writes
  <2> DEFINE m == [type |-> "saved", id |-> Head(companion.sent).id, ok |-> ok]
  <2>2. NextForFront("save") /\ toCompanion' = Append(toCompanion, m) /\ SameText
    BY <1>9, <2>1 DEF Writes, Send
  <2>3. m \in Messages(AllUnits) /\ m.type # "close"
    BY <1>4, <2>2, MessagesAre
  <2> HIDE DEF m
  <2>4. QED
    BY <1>2, <1>4, <2>2, <2>3 DEF SameText
<1>10. CASE Opens /\ front.shared
  <2>1. PICK text \in Seq(AllUnits) :
            /\ front'.shared
            /\ toCompanion' = Append(toCompanion, [type |-> "open", text |-> text])
            /\ companion' = companion
    BY <1>10 DEF Opens
  <2> DEFINE m == [type |-> "open", text |-> text]
  <2>2. m \in Messages(AllUnits) /\ m.type # "close"
    BY MessagesAre
  <2>3. toCompanion' = Append(toCompanion, m)
    BY <2>1
  <2> HIDE DEF m
  <2>4. front'.shared = front.shared
    BY <1>1, <1>10, <2>1 DEF Fronts
  <2>5. QED
    BY <1>2, <1>3, <2>1, <2>2, <2>3, <2>4
<1>11. CASE HearsSaved
  <2>1. toCompanion # <<>> /\ toCompanion' = Tail(toCompanion) /\ front' = front
    BY <1>11 DEF HearsSaved, Unread
  <2>2. Rests(companion, companion')
    BY <1>11, HearsSavedDoes DEF Rests, Still, SameLinks
  <2>3. QED
    BY <1>1, <2>1, <2>2, SaidLess
<1>12. CASE Holds
  BY <1>1, <1>12, HoldGrantedDoes DEF Holds, Rests, Still, KeepsWire
<1>13. QED
  BY <1>5, <1>6, <1>7, <1>8, <1>9, <1>10, <1>11, <1>12

LEMMA ReconciledBelongs ==
    ASSUME NEW c, NEW d, Reconciled(c, d), Belongs(c)
    PROVE  Belongs(d)
<1>1. CASE Keeps(c, d)
  BY <1>1 DEF Keeps, KeepsWire, Belongs
<1>2. CASE Issued(c, d)
  <2>1. DOMAIN c.applies = {}
    BY <1>2 DEF Issued, Belongs
  <2>2. /\ DOMAIN d.applies = {c.nextId + 1} /\ d.flight # NoFlight
        /\ d.applies[c.nextId + 1].serial = d.flight.serial
    BY <1>2, <2>1 DEF Issued, Offered
  <2>3. QED
    BY <2>2 DEF Belongs
<1>3. QED
  BY <1>1, <1>2 DEF Reconciled

(* The answer to an offer.                                                 *)
LEMMA AnswerResumes ==
    ASSUME Wired, HearsApplied, NEW c, NEW id, NEW ok,
           c = companion, id = Head(toCompanion).id, ok = Head(toCompanion).ok
    PROVE  /\ Unsplit /\ Remembers(c) => Remembers(companion')
           /\ Belongs(c) => Belongs(companion') /\ Unpaused(companion')
<1> DEFINE r == Read(c, id, ok)
           serial == c.applies[id].serial
           d == companion'
<1>1. /\ c \in Companions(AllUnits) /\ (c.open => c.document # NoDocument)
      /\ id \in DOMAIN c.applies /\ ok \in BOOLEAN /\ d = SettleApply(c, id, ok)
      /\ SerialsDiffer(c)
  BY HearsAppliedIs DEF Linked
<1>2. /\ r \in Companions(AllUnits)
      /\ DOMAIN r.applies = DOMAIN c.applies \ {id}
      /\ \A i \in DOMAIN c.applies \ {id} : r.applies[i] = c.applies[i]
      /\ r.open = c.open /\ r.flight = c.flight /\ r.save = c.save
      /\ r.refusedSeed = c.refusedSeed
      /\ r.document = NoDocument <=> c.document = NoDocument
  BY <1>1, ReadDoes
<1>3. Resolves(r, serial, d) \/ OfferedAgain(r, serial, d)
  BY <1>1, SettleApplyDoes
<1>4. Belongs(c) => /\ DOMAIN r.applies = {} /\ c.flight # NoFlight
                    /\ c.flight.serial = serial
  <2>1. SUFFICES ASSUME Belongs(c)
                 PROVE  /\ DOMAIN r.applies = {} /\ c.flight # NoFlight
                        /\ c.flight.serial = serial
    OBVIOUS
  <2>2. c.flight # NoFlight /\ c.flight.serial = serial
    BY <1>1, <2>1 DEF Belongs
  <2>3. \A i \in DOMAIN c.applies : i = id
    BY <1>1, <2>1 DEF Belongs, SerialsDiffer
  <2>4. QED
    BY <1>2, <2>2, <2>3
<1> HIDE DEF r, serial
<1>5. CASE Resolves(r, serial, d) /\ r.flight # NoFlight /\ r.flight.serial = serial
  <2>1. Reconciled(Landed(r), d) /\ Unpaused(d)
    BY <1>5 DEF Resolves
  <2>2. DOMAIN r.applies = {} => Belongs(Landed(r))
    BY <1>2 DEF Landed, Companions, Belongs
  <2>3. QED
    BY <1>4, <2>1, <2>2, ReconciledBelongs DEF Remembers
<1>6. CASE Resolves(r, serial, d) /\ ~(r.flight # NoFlight /\ r.flight.serial = serial)
  <2>1. d = r
    BY <1>6 DEF Resolves
  <2>2. Unsplit /\ Remembers(c) => Remembers(d)
    BY <1>1, <1>2, <2>1, UnsplitIs DEF Remembers, Unpaused
  <2>3. ~Belongs(c)
    BY <1>2, <1>4, <1>6
  <2>4. QED
    BY <2>2, <2>3
<1>7. CASE OfferedAgain(r, serial, d)
  <2>1. /\ d.open = r.open /\ d.document = r.document /\ d.flight = r.flight
        /\ d.save = r.save /\ d.refusedSeed = r.refusedSeed
        /\ DOMAIN d.applies = DOMAIN r.applies \cup {r.nextId + 1}
        /\ d.applies[r.nextId + 1].serial = serial
    BY <1>7 DEF OfferedAgain, KeepsPath, Offered
  <2>2. Unsplit /\ Remembers(c) => Remembers(d)
    BY <1>1, <1>2, <2>1, UnsplitIs DEF Remembers, Unpaused
  <2>3. Belongs(c) => Belongs(d) /\ Unpaused(d)
    BY <1>2, <1>4, <2>1 DEF Belongs, Unpaused
  <2>4. QED
    BY <2>2, <2>3
<1>8. QED
  BY <1>3, <1>5, <1>6, <1>7

(* What the companion hears of the person.                                 *)
LEMMA OpenResumes ==
    ASSUME Wired, HearsOpen
    PROVE  /\ Remembers(companion')
           /\ Belongs(companion) => Belongs(companion') /\ Unpaused(companion')
<1> DEFINE text == Head(toCompanion).text
           e == Presented(companion, text)
<1>1. text \in Seq(AllUnits)
  BY UnreadDoes DEF Wired, HearsOpen, Messages
<1>2. companion \in Companions(AllUnits) /\ companion' = Opened(companion, text)
  BY DEF Wired, Shape, HearsOpen
<1>3. e.applies = companion.applies /\ e.flight = companion.flight
  BY <1>2 DEF Presented, Companions
<1> HIDE DEF text
<1>4. Unpaused(companion') /\ Rewired(AllUnits, e, companion')
  BY <1>1, <1>2, OpenedDoes
<1>5. PICK f \in Companions(AllUnits) :
          /\ Reconciled(e, f)
          /\ companion'.applies = f.applies /\ companion'.flight = f.flight
  BY <1>4 DEF Rewired
<1>6. Belongs(companion) => Belongs(e)
  BY <1>3 DEF Belongs
<1> HIDE DEF e
<1>7. Belongs(e) => Belongs(f)
  BY <1>5, ReconciledBelongs
<1>8. Belongs(f) => Belongs(companion')
  BY <1>5 DEF Belongs
<1>9. QED
  BY <1>4, <1>6, <1>7, <1>8 DEF Remembers

LEMMA ChangeResumes ==
    ASSUME Wired, HearsChange
    PROVE  /\ Remembers(companion) => Remembers(companion')
           /\ companion.open /\ Belongs(companion) =>
                  Belongs(companion') /\ (Unpaused(companion') \/ PausedOverRefused(companion'))
<1>1. /\ SameOffers(companion, companion') /\ SameFlight(companion, companion')
      /\ companion.document # NoDocument =>
             Unpaused(companion') \/ PausedOverRefused(companion')
      /\ companion.document = NoDocument => companion' = companion
  BY HearsChangeDoes
<1>2. companion.open => companion.document # NoDocument
  BY DEF Wired, Shape
<1>3. Belongs(companion) => Belongs(companion')
  BY <1>1 DEF SameOffers, SameFlight, Belongs
<1>4. QED
  BY <1>1, <1>2, <1>3 DEF Remembers, PausedOverRefused

LEMMA HearingResumes ==
    ASSUME Wired, Resuming, HearsChange \/ HearsApplied \/ HearsOpen \/ HearsClose,
           spent["reopens"] = 0 \/ spent'["reopens"] # 0, Unsplit' => Unsplit
    PROVE  Resuming'
<1>1. /\ toCompanion \in Seq(Messages(AllUnits)) /\ companion \in Companions(AllUnits)
      /\ front' = front /\ toCompanion # <<>> /\ toCompanion' = Tail(toCompanion)
  BY DEF Wired, Shape, HearsChange, HearsApplied, HearsOpen, HearsClose, Unread
<1>2. /\ Head(toCompanion).type = "close" => Said(toCompanion, "close")
      /\ Said(toCompanion', "close") => Said(toCompanion, "close")
  BY <1>1, SaidLess
<1>3. Doomed(companion, front) => Doomed(companion', front')
  <2>1. CASE HearsChange \/ HearsApplied \/ HearsOpen
    <3>1. Speaks(AllUnits, companion, companion')
      BY <2>1, HearsChangeDoes, HearsAppliedDoes, HearsOpenDoes DEF SameOffers, Speaks
    <3>2. QED
      BY <1>1, <3>1, SpeaksRefuses DEF Doomed
  <2>2. CASE HearsClose
    BY <1>1, <2>2, HearsCloseDoes DEF Doomed, SameLinks
  <2>3. QED
    BY <2>1, <2>2
<1>4. CASE HearsChange
  <2>1. companion'.open = companion.open
    BY <1>4, HearsChangeDoes
  <2>2. QED
    BY <1>2, <1>3, <1>4, <2>1, ChangeResumes DEF Resuming, Serves
<1>5. CASE HearsApplied
  <2>1. companion'.open = companion.open
    BY <1>5, HearsAppliedDoes
  <2>2. QED
    BY <1>2, <1>3, <1>5, <2>1, AnswerResumes DEF Resuming, Serves
<1>6. CASE HearsOpen
  <2>1. companion'.open
    BY <1>6, HearsOpenDoes
  <2>2. QED
    BY <1>2, <1>3, <1>6, <2>1, OpenResumes DEF Resuming, Serves
<1>7. CASE HearsClose
  <2>1. ~companion'.open /\ Head(toCompanion).type = "close"
    BY <1>7, HearsCloseDoes DEF HearsClose, Unread
  <2>2. Remembers(companion')
    BY <2>1 DEF Remembers, Unpaused
  <2>3. QED
    BY <1>2, <1>3, <2>1, <2>2 DEF Resuming, Serves
<1>8. QED
  BY <1>4, <1>5, <1>6, <1>7

(* What the companion does by itself, and what lets go of the document.    *)
LEMMA WorkingResumes ==
    ASSUME Wired, Resuming, Works \/ Saves \/ Loses,
           spent["reopens"] = 0 \/ spent'["reopens"] # 0, Unsplit' => Unsplit
    PROVE  Resuming'
<1>1. /\ companion \in Companions(AllUnits) /\ companion.sent \in Seq(Words(AllUnits))
      /\ companion.nextId + 1 \in Nat /\ Shape
  BY DEF Wired, Shape, Companions
<1>2. CASE Works
  <2>1. /\ front' = front /\ toCompanion' = toCompanion
        /\ companion' \in Companions(AllUnits)
        /\ Reconciled(companion, companion') /\ Steady(companion, companion')
    BY <1>2 DEF Works
  <2>2. companion'.open = companion.open /\ companion'.document = companion.document
        /\ Speaks(AllUnits, companion, companion')
    BY <1>1, <2>1, ReconciledStays DEF KeepsPath
  <2>3. Doomed(companion, front) => Doomed(companion', front')
    BY <1>1, <2>1, <2>2, SpeaksRefuses DEF Doomed
  <2>4. \/ Unpaused(companion')
        \/ /\ Unpaused(companion) => Unpaused(companion')
           /\ PausedOverRefused(companion) => PausedOverRefused(companion')
           /\ companion.refusedSeed => companion'.refusedSeed
    BY <2>1, <2>2 DEF Steady, Keeps, KeepsWire, Unpaused, PausedOverRefused, Malformed
  <2>5. Belongs(companion) => Belongs(companion')
    BY <2>1, ReconciledBelongs
  <2>6. QED
    BY <2>1, <2>2, <2>3, <2>4, <2>5 DEF Resuming, Remembers, Serves
<1>3. CASE Saves
  <2> DEFINE word == [type |-> "save", id |-> companion.nextId + 1]
  <2>1. /\ front' = front /\ toCompanion' = toCompanion
        /\ companion'.open = companion.open /\ companion'.applies = companion.applies
        /\ companion'.flight = companion.flight /\ Unpaused(companion')
        /\ companion'.sent = companion.sent \/ companion'.sent = Append(companion.sent, word)
    BY <1>1, <1>3, SaveFiresDoes DEF Saves
  <2>2. word \in Words(AllUnits)
    BY <1>1 DEF Words
  <2> HIDE DEF word
  <2>3. Said(companion.sent, "openRefused") => Said(companion'.sent, "openRefused")
    <3>1. CASE companion'.sent = companion.sent
      BY <3>1
    <3>2. CASE companion'.sent = Append(companion.sent, word)
      BY <1>1, <2>2, <3>2, SaidMore
    <3>3. QED
      BY <2>1, <3>1, <3>2
  <2>4. Doomed(companion, front) => Doomed(companion', front')
    BY <2>1, <2>3 DEF Doomed
  <2>5. Belongs(companion) => Belongs(companion')
    BY <2>1 DEF Belongs
  <2>6. QED
    BY <2>1, <2>4, <2>5 DEF Resuming, Remembers, Serves
<1>4. CASE Loses
  <2> DEFINE word == [type |-> "openRefused"]
  <2>1. /\ ~companion'.open
        /\ companion'.sent = Append(companion.sent, word) /\ word \in Words(AllUnits)
    BY <1>1, <1>4, HoldRefusedDoes DEF Loses
  <2>2. word.type = "openRefused"
    OBVIOUS
  <2> HIDE DEF word
  <2>3. Said(companion'.sent, "openRefused")
    BY <1>1, <2>1, <2>2, SaidMore
  <2>4. Remembers(companion')
    BY <2>1 DEF Remembers, Unpaused
  <2>5. QED
    BY <2>3, <2>4 DEF Resuming, Doomed
<1>5. QED
  BY <1>2, <1>3, <1>4

LEMMA LeavingResumes ==
    ASSUME Wired, Resuming, front' \in Fronts(AllUnits),
           LetsGo \/ Ignores \/ (Opens /\ ~front.shared), Unsplit' => Unsplit
    PROVE  Resuming'
<1>1. front \in Fronts(AllUnits) /\ Shape
  BY DEF Wired, Shape
<1>2. Still(companion, companion')
  <2>1. companion' = companion => Still(companion, companion')
    BY DEF Still
  <2>2. NextForFront("openRefused") => Still(companion, companion')
    BY <1>1, NextForFrontDoes DEF Still, Untouched, KeepsPath
  <2>3. QED
    BY <2>1, <2>2 DEF LetsGo, Ignores, Opens
<1>3. Unsplit' => Remembers(companion')
  BY <1>2, StillRemembers DEF Resuming
<1>4. CASE LetsGo \/ Ignores
  <2>1. ~front'.shared
    BY <1>1, <1>4 DEF LetsGo, LetGo, Ignores, Fronts
  <2>2. QED
    BY <1>3, <2>1 DEF Resuming, Doomed
<1>5. CASE Opens /\ ~front.shared
  <2>1. spent'.reopens > 0
    BY <1>5 DEF Opens
  <2>2. spent'["reopens"] # 0
    BY <2>1
  <2>3. QED
    BY <1>3, <2>2 DEF Resuming
<1>6. QED
  BY <1>4, <1>5

LEMMA MovesResume ==
    ASSUME Wired, Resuming, StepDoes, scenario' = scenario
    PROVE  Resuming'
<1>1. Moves /\ front' \in Fronts(AllUnits) /\ Shape
  BY DEF StepDoes, Wired
<1>2. spent["reopens"] = 0 \/ spent'["reopens"] # 0
  <2>1. /\ spent["reopens"] \in Nat /\ spent'["reopens"] \in Nat
        /\ spent["reopens"] <= spent'["reopens"]
    BY <1>1 DEF StepDoes, SpentIs, Shape, Budgets
  <2>2. QED
    BY <2>1
<1>3. Unsplit' => Unsplit
  BY DEF Unsplit, AllUnits, BaseText, UserUnits, PeerUnits
<1>4. CASE \/ Types \/ Locks \/ Agrees \/ Declines \/ Writes \/ HearsSaved \/ Holds
           \/ Opens /\ front.shared
  <2>1. /\ Rests(companion, companion') /\ front'.shared = front.shared
        /\ Said(toCompanion', "close") => Said(toCompanion, "close")
    BY <1>1, <1>4, MovesRest
  <2>2. Unsplit' => Remembers(companion')
    BY <1>3, <2>1, StillRemembers DEF Resuming, Rests
  <2>3. Serves(companion, toCompanion) => Serves(companion', toCompanion')
    BY <2>1, StillRemembers DEF Rests
  <2>4. Doomed(companion, front) => Doomed(companion', front')
    BY <2>1 DEF Rests, Doomed
  <2>5. QED
    BY <1>2, <2>2, <2>3, <2>4 DEF Resuming
<1>5. QED
  BY <1>1, <1>2, <1>3, <1>4, HearingResumes, WorkingResumes, LeavingResumes DEF Moves

ResumingHeld == HeldWired /\ Resuming

LEMMA ResumingFirst ==
    ASSUME Init
    PROVE  ResumingHeld
<1>1. HeldWired
  BY HeldFirst
<1>2. /\ companion.save = "none" /\ companion.open /\ toCompanion = <<>>
      /\ companion.applies = <<>>
  BY DEF Init
<1>3. Unpaused(companion)
  BY <1>2 DEF Unpaused
<1>4. ~Said(toCompanion, "close") /\ Belongs(companion)
  BY <1>2 DEF Said, Belongs
<1>5. QED
  BY <1>1, <1>2, <1>3, <1>4 DEF ResumingHeld, Resuming, Remembers, Serves

LEMMA ResumingKept ==
    ASSUME ResumingHeld, [Next]_vars
    PROVE  ResumingHeld'
<1>1. HeldWired'
  BY HeldKept DEF ResumingHeld
<1>2. CASE UNCHANGED vars
  BY <1>1, <1>2 DEF vars, ResumingHeld, Resuming, Unsplit, AllUnits, BaseText, UserUnits,
                    PeerUnits
<1>3. CASE Next
  <2>1. StepDoes /\ scenario' = scenario
    BY <1>3, NextDoes DEF ResumingHeld, HeldWired, Wired
  <2>2. QED
    BY <1>1, <2>1, MovesResume DEF ResumingHeld, HeldWired
<1>4. QED
  BY <1>2, <1>3

LEMMA ResumingWrites ==
    ASSUME ResumingHeld, spent.reopens = 0 \/ (Unsplit /\ ~companion.refusedSeed)
    PROVE  WriteNotForgotten
<1>1. SUFFICES ASSUME Quiet, front.shared, companion.document # NoDocument,
                      companion.document.text = companion.replica,
                      ~HasLoneSurrogate(companion.replica)
               PROVE  companion.save # "paused"
  BY DEF WriteNotForgotten
<1>2. companion.flight = NoFlight /\ toCompanion = <<>> /\ companion.sent = <<>>
  BY <1>1 DEF Quiet, Ready
<1>3. ~Said(companion.sent, "openRefused") /\ ~Said(toCompanion, "open")
  BY <1>2 DEF Said
<1>4. companion.open
  BY <1>1, <1>3 DEF ResumingHeld, HeldWired, Held, Holding, Present
<1>5. Unpaused(companion)
  BY <1>1, <1>3 DEF ResumingHeld, Resuming, Remembers, Doomed, Serves, PausedOverRefused
<1>6. QED
  BY <1>1, <1>2, <1>4, <1>5 DEF Unpaused, Malformed

(* A write of the room's text that was put off while the buffer took an    *)
(* edit, while the buffer held what the room cannot carry, or while the    *)
(* room's text held half a character, runs again once the buffer holds the *)
(* room's text, every character of it whole, and nothing is left to do.    *)
(* What is not proved is a document closed and opened again that met a     *)
(* text the room refused or half a character: an answer to an offer of the *)
(* closed document may then bring the buffer to the room's text where no   *)
(* flight hears of it.                                                     *)
THEOREM WritesResume ==
    Spec => []( \/ spent.reopens = 0
                \/ Unsplit /\ ~companion.refusedSeed
                => WriteNotForgotten)
<1>1. Init => ResumingHeld
  BY ResumingFirst
<1>2. ResumingHeld /\ [Next]_vars => ResumingHeld'
  BY ResumingKept
<1>3. ResumingHeld => ( \/ spent.reopens = 0
                        \/ Unsplit /\ ~companion.refusedSeed
                        => WriteNotForgotten)
  BY ResumingWrites
<1>4. QED
  BY <1>1, <1>2, <1>3, PTL DEF Spec

(***************************************************************************)
(* What the companion's operations do to the two texts and to the offers,  *)
(* while one document is open and none of it is opened anew.               *)
(***************************************************************************)

(* The same bridge, but for what has been reported and when a write is due.*)
Matches(c, d) ==
    /\ d.document = c.document /\ d.open = c.open /\ d.applies = c.applies
    /\ d.flight = c.flight /\ d.replica = c.replica /\ d.pending = c.pending
    /\ d.backstop = c.backstop /\ d.attempts = c.attempts
    /\ d.refused = c.refused /\ d.unshared = c.unshared
    /\ d.refusedSeed = c.refusedSeed /\ (c.told => d.told)
    /\ d.save = "none" <=> c.save = "none"

LEMMA MatchesAfter ==
    ASSUME NEW c, NEW d, NEW e, Matches(c, d), Matches(d, e)
    PROVE  Matches(c, e)
BY DEF Matches

LEMMA SavesMatch ==
    ASSUME NEW U, NEW c \in Companions(U), NEW d, d \in {PauseSave(c), MoveSave(c), ResumeSave(c)}
    PROVE  d \in Companions(U) /\ Matches(c, d)
<1>1. d \in Companions(U)
  BY PauseSaveDoes, MoveSaveDoes, ResumeSaveDoes
<1>2. \E save \in {"none", "armed", "paused"} :
         d = [c EXCEPT !.save = save] /\ (save = "none" <=> c.save = "none")
  BY DEF Companions, PauseSave, MoveSave, ResumeSave
<1>3. QED
  BY <1>1, <1>2 DEF Companions, Matches

LEMMA ReportsMatch ==
    ASSUME NEW U, NEW c \in Companions(U), c.document # NoDocument,
           NEW d, d \in {Account(c), Report(c)}
    PROVE  d \in Companions(U) /\ Matches(c, d)
<1>1. d \in Companions(U)
  BY AccountDoes, ReportDoes
<1>2. \A e \in Companions(U) : Matches(e, Account(e))
  BY DEF Companions, Account, Matches
<1>3. CASE d = Account(c)
  BY <1>1, <1>2, <1>3
<1>4. CASE d = Report(c)
  <2> DEFINE e == [c EXCEPT !.told = TRUE, !.warned = TRUE]
  <2>1. e \in Companions(U) /\ Matches(c, e)
    BY DEF Companions, Matches
  <2>2. d = Account(e)
    BY <1>4 DEF Report
  <2> HIDE DEF e
  <2>3. QED
    BY <1>1, <1>2, <2>1, <2>2, MatchesAfter
<1>5. QED
  BY <1>3, <1>4

LEMMA ReportRefusedIs ==
    ASSUME NEW U, NEW c \in Companions(U), c.document # NoDocument, NEW d, d = ReportRefused(c)
    PROVE  /\ d \in Companions(U) /\ d.document = c.document /\ d.open = c.open
           /\ d.flight = c.flight /\ d.replica = c.replica /\ d.unshared = c.unshared
           /\ d.refused = c.refused \cup (Units(c.replica) \ Units(c.document.text))
           /\ d.backstop = c.backstop /\ d.attempts = c.attempts /\ d.told
           /\ d.save = "none" <=> c.save = "none"
<1> DEFINE gone == c.refused \cup (Units(c.replica) \ Units(c.document.text))
           e == [c EXCEPT !.refused = gone, !.told = TRUE, !.warned = TRUE]
<1>1. gone \in SUBSET U
  BY UnitsTyped DEF Companions
<1>2. d = Account(e)
  BY DEF ReportRefused, Report, Companions
<1> HIDE DEF gone
<1>3. /\ e \in Companions(U) /\ e.document = c.document /\ e.open = c.open
      /\ e.flight = c.flight /\ e.replica = c.replica /\ e.unshared = c.unshared
      /\ e.refused = gone /\ e.backstop = c.backstop /\ e.attempts = c.attempts
      /\ e.told /\ e.save = c.save
  BY <1>1 DEF Companions
<1> HIDE DEF e
<1>4. d \in Companions(U) /\ Matches(e, d)
  BY <1>2, <1>3, ReportsMatch
<1>5. QED
  BY <1>3, <1>4 DEF Matches, gone

(* A range is asked for that leads from the mirror's text to the room's.   *)
Launched(c, d, change) ==
    /\ d.document = c.document /\ d.open = c.open /\ d.replica = c.replica
    /\ d.pending = c.pending /\ d.attempts = c.attempts
    /\ d.refused = c.refused /\ d.unshared = c.unshared
    /\ d.flight # NoFlight /\ ~d.flight.moved
    /\ d.flight.expected = c.replica /\ d.flight.replica = c.replica
    /\ d.flight.before = c.document.text
    /\ \A id \in DOMAIN d.applies :
          /\ d.applies[id].change = change /\ d.applies[id].withheld = <<>>
          /\ d.applies[id].version = c.document.version

LEMMA IssueLaunches ==
    ASSUME NEW U, NEW c \in Companions(U), c.document # NoDocument, DOMAIN c.applies = {},
           NEW change \in Changes(U), NEW d, d = Issue(c, change, c.replica)
    PROVE  Launched(c, d, change) /\ d.backstop = c.backstop
<1> DEFINE id == c.nextId + 1
           flight == [serial |-> id, expected |-> c.replica,
                      replica |-> c.replica, before |-> c.document.text, moved |-> FALSE]
           pending == [change |-> change, version |-> c.document.version, withheld |-> <<>>,
                       offered |-> 0, serial |-> id]
           more == [i \in DOMAIN c.applies \cup {id} |-> IF i = id THEN pending ELSE c.applies[i]]
           said == Append(c.sent, [type |-> "applyEdit", id |-> id, change |-> change,
                                   version |-> c.document.version, base |-> c.document.text])
           e == [c EXCEPT !.flight = flight]
<1>1. c.document \in Documents(U) /\ c.nextId \in Nat /\ c.replica \in Seq(U)
  BY DocumentIs DEF Companions
<1>2. flight \in Flights(U)
  BY <1>1 DEF Flights, Documents
<1>3. flight # NoFlight
  BY <1>2, FlightIs
<1>4. /\ e \in Companions(U) /\ e.nextId = c.nextId /\ e.applies = c.applies
      /\ e.sent = c.sent /\ e.document = c.document
  BY <1>2 DEF Companions
<1>5. d = Offer(e, pending)
  BY DEF Issue
<1> HIDE DEF flight
<1>6. d = [e EXCEPT !.nextId = id, !.applies = more, !.sent = said]
  <2>1. e.applies = c.applies /\ e.nextId = c.nextId /\ e.document = c.document
    BY <1>4
  <2>2. e.sent = c.sent /\ DOMAIN e = DOMAIN c
    BY <1>4
  <2> HIDE DEF e
  <2>3. QED
    BY <1>4, <1>5, <2>1, <2>2 DEF Offer, Companions
<1>7. DOMAIN more = {id} /\ more[id] = pending
  OBVIOUS
<1> HIDE DEF more, said, pending
<1>8. /\ d.document = c.document /\ d.open = c.open /\ d.replica = c.replica
      /\ d.pending = c.pending /\ d.attempts = c.attempts /\ d.refused = c.refused
      /\ d.unshared = c.unshared /\ d.flight = flight /\ d.applies = more
      /\ d.backstop = c.backstop
  BY <1>6 DEF Companions
<1>9. QED
  BY <1>3, <1>7, <1>8 DEF Launched, flight, pending

(* What an offer still leads to, once it has been moved through what was   *)
(* typed since: it lies inside the mirror, and with it the mirror holds    *)
(* whatever the room held when it was asked for and nobody gave up.        *)
Reaches(document, flight, pending, E) ==
    /\ pending.version <= document.version
    /\ pending.version = document.version => pending.withheld = <<>>
    /\ LET moved == Rebase(pending.change, pending.withheld)
       IN  moved.placed =>
              /\ moved.change.end <= Len(document.text)
              /\ Units(flight.replica)
                    \subseteq Units(ApplyChange(document.text, moved.change)) \cup E

(* An offer that replaces everything, in one of the two texts it is for.   *)
Whole(document, flight, pending) ==
    LET moved == Rebase(pending.change, pending.withheld)
    IN  moved.placed =>
           /\ moved.change.end - moved.change.start = Len(flight.before)
           /\ moved.change.text = flight.replica
           /\ document.text \in {flight.before, flight.replica}

Flying(c, E) ==
    /\ c.flight.expected = c.flight.replica /\ c.flight.before # c.flight.replica
    /\ c.unshared = {} /\ c.save # "none"
    /\ ~c.pending => c.replica = c.flight.replica /\ ~c.flight.moved
    /\ \A id \in DOMAIN c.applies : Reaches(c.document, c.flight, c.applies[id], E)
    /\ ~c.pending /\ ~c.backstop =>
          \A id \in DOMAIN c.applies : Whole(c.document, c.flight, c.applies[id])

(* What is in the room and not in the mirror was given up or reported.     *)
Square(c, E) == Units(c.replica) \subseteq Units(c.document.text) \cup E \cup c.refused

(* If the two differ, something is to come of it, or nothing can and the   *)
(* person knows.                                                           *)
Settled(c) ==
    \/ c.document.text = c.replica \/ c.backstop
    \/ c.attempts >= MaxApplyAttempts /\ c.told
    \/ Refuses(c) /\ (c.told \/ c.refusedSeed)

Resting(c, E) ==
    /\ Square(c, E) /\ Settled(c)
    /\ c.unshared # {} /\ c.backstop => c.document.text = c.replica

Sound(c, E) ==
    c.open => IF c.flight = NoFlight THEN Resting(c, E) ELSE Flying(c, E)

(* What neither side's text is touched by.                                 *)
SharesSame(c, d) ==
    /\ d.document = c.document /\ d.open = c.open /\ d.replica = c.replica
    /\ c.refused \subseteq d.refused /\ d.unshared = c.unshared
    /\ d.save = "none" => c.save = "none"

LEMMA MatchesSound ==
    ASSUME NEW c, NEW d, NEW E, Matches(c, d)
    PROVE  (Sound(c, E) => Sound(d, E)) /\ SharesSame(c, d)
<1>1. Resting(c, E) => Resting(d, E)
  BY DEF Matches, Resting, Square, Settled, Refuses
<1>2. Flying(c, E) => Flying(d, E)
  BY DEF Matches, Flying
<1>3. QED
  BY <1>1, <1>2 DEF Matches, Sound, SharesSame

LEMMA SharesAfter ==
    ASSUME NEW c, NEW d, NEW e, SharesSame(c, d), SharesSame(d, e)
    PROVE  SharesSame(c, e)
BY DEF SharesSame

(* More is given up as time goes by.                                       *)
LEMMA SoundMore ==
    ASSUME NEW c, NEW E, NEW F, E \subseteq F, Sound(c, E)
    PROVE  Sound(c, F)
<1>1. Resting(c, E) => Resting(c, F)
  BY DEF Resting, Square
<1>2. \A document, flight, pending :
          Reaches(document, flight, pending, E) => Reaches(document, flight, pending, F)
  BY DEF Reaches
<1>3. Flying(c, E) => Flying(c, F)
  BY <1>2 DEF Flying
<1>4. QED
  BY <1>1, <1>3 DEF Sound

LEMMA LaunchedFlies ==
    ASSUME NEW U, NEW c \in Companions(U), c.document # NoDocument, NEW d, NEW E,
           NEW change \in Changes(U), Launched(c, d, change),
           c.document.text # c.replica, c.unshared = {}, d.save # "none",
           change.end <= Len(c.document.text),
           ApplyChange(c.document.text, change) = c.replica,
           \/ d.backstop
           \/ change.end - change.start = Len(c.document.text) /\ change.text = c.replica
    PROVE  Sound(d, E)
<1>1. Rebase(change, <<>>) = [placed |-> TRUE, change |-> change]
  BY RebaseNone
<1>2. c.document \in Documents(U)
  BY DocumentIs DEF Companions
<1>3. c.document.version <= c.document.version
  BY <1>2 DEF Documents
<1>4. \A id \in DOMAIN d.applies : Reaches(d.document, d.flight, d.applies[id], E)
  BY <1>1, <1>3 DEF Launched, Reaches
<1>5. ~d.backstop => \A id \in DOMAIN d.applies : Whole(d.document, d.flight, d.applies[id])
  BY <1>1 DEF Launched, Whole
<1>6. Flying(d, E)
  BY <1>4, <1>5 DEF Launched, Flying
<1>7. QED
  BY <1>6 DEF Launched, Sound

LEMMA HalfSound ==
    ASSUME NEW U, NEW c \in Companions(U), c.document # NoDocument, c.flight = NoFlight,
           Malformed(c), NEW d, d = Reconcile(c), NEW E
    PROVE  d \in Companions(U) /\ Sound(d, E) /\ SharesSame(c, d)
<1> DEFINE p == PauseSave(c)
           e == [p EXCEPT !.backstop = FALSE]
<1>1. d = ReportRefused(e)
  BY DEF Reconcile
<1>2. p \in Companions(U) /\ Matches(c, p)
  BY SavesMatch
<1> HIDE DEF p
<1>3. /\ e \in Companions(U) /\ e.document = c.document /\ e.open = c.open
      /\ e.flight = NoFlight /\ e.replica = c.replica /\ e.unshared = c.unshared
      /\ e.refused = c.refused /\ ~e.backstop /\ (e.save = "none" <=> c.save = "none")
  BY <1>2 DEF Companions, Matches
<1> HIDE DEF e
<1>4. /\ d \in Companions(U) /\ d.document = c.document /\ d.open = c.open
      /\ d.flight = NoFlight /\ d.replica = c.replica /\ d.unshared = c.unshared
      /\ d.refused = c.refused \cup (Units(c.replica) \ Units(c.document.text))
      /\ ~d.backstop /\ d.told /\ (d.save = "none" <=> c.save = "none")
  BY <1>1, <1>3, ReportRefusedIs
<1>5. Refuses(d)
  BY <1>4 DEF Malformed, Refuses, Refused
<1>6. Sound(d, E)
  BY <1>4, <1>5 DEF Sound, Resting, Square, Settled
<1>7. QED
  BY <1>4, <1>6 DEF SharesSame

LEMMA ReconcileSound ==
    ASSUME NEW U, NEW c \in Companions(U), c.document # NoDocument,
           c.flight = NoFlight, Belongs(c), c.unshared = {}, NEW d, d = Reconcile(c), NEW E
    PROVE  d \in Companions(U) /\ Sound(d, E) /\ SharesSame(c, d)
<1>1. d \in Companions(U)
  BY ReconcileDoes
<1>2. c.document \in Documents(U) /\ c.replica \in Seq(U)
  BY DocumentIs DEF Companions
<1>3. c.document.text \in Seq(U)
  BY <1>2 DEF Documents
<1>4. DOMAIN c.applies = {}
  BY DEF Belongs
<1>5. CASE ~Malformed(c) /\ c.document.text = c.replica
  <2> DEFINE e == Calm(c)
             f == [e EXCEPT !.backstop = FALSE]
  <2>1. d = ResumeSave(f)
    BY <1>5 DEF Reconcile
  <2>2. e \in Companions(U)
    BY CalmDoes
  <2>3. /\ e.document = c.document /\ e.open = c.open /\ e.replica = c.replica
        /\ e.refused = c.refused /\ e.unshared = c.unshared /\ e.flight = c.flight
        /\ e.save = c.save
    BY DEF Calm, Companions
  <2> HIDE DEF e
  <2>4. f \in Companions(U)
    BY <2>2 DEF Companions
  <2>5. /\ f.document = c.document /\ f.open = c.open /\ f.replica = c.replica
        /\ f.refused = c.refused /\ f.unshared = c.unshared /\ f.flight = c.flight
        /\ f.save = c.save
    BY <2>2, <2>3 DEF Companions
  <2> HIDE DEF f
  <2>6. Sound(f, E) /\ SharesSame(c, f)
    BY <1>5, <2>5 DEF Sound, Resting, Square, Settled, SharesSame
  <2>7. Matches(f, d)
    BY <2>1, <2>4, SavesMatch
  <2>8. QED
    BY <1>1, <2>6, <2>7, MatchesSound, SharesAfter
<1>6. CASE ~Malformed(c) /\ c.document.text # c.replica
  <2> DEFINE change == Diff(c.document.text, c.replica)
             e == Issue(c, change, c.replica)
  <2>1. change \in Changes(U) /\ change.end <= Len(c.document.text)
        /\ ApplyChange(c.document.text, change) = c.replica
    BY <1>2, <1>3, DiffTyped, DiffEnds, DiffLeads
  <2>2. d = [e EXCEPT !.save = "armed", !.backstop = TRUE]
    BY <1>6 DEF Reconcile
  <2> HIDE DEF change
  <2>3. e \in Companions(U) /\ Launched(c, e, change)
    BY <1>2, <1>4, <2>1, IssueDoes, IssueLaunches
  <2> HIDE DEF e
  <2>4. Launched(c, d, change) /\ d.save # "none" /\ d.backstop
    BY <2>2, <2>3 DEF Companions, Launched
  <2>5. Sound(d, E)
    BY <1>6, <2>1, <2>4, LaunchedFlies
  <2>6. SharesSame(c, d)
    BY <2>4 DEF Launched, SharesSame
  <2>7. QED
    BY <1>1, <2>5, <2>6
<1>7. QED
  BY <1>5, <1>6, HalfSound

(* What a handler may do to the two texts: the room's text only ever       *)
(* becomes the mirror's, nothing the room had is dropped unsaid, and what  *)
(* is refused is the mirror's.                                             *)
Careful(c, d, E) ==
    /\ d.open = c.open
    /\ d.replica = c.replica \/ (d.open /\ d.replica = d.document.text)
    /\ c.refused \subseteq d.refused
    /\ Units(c.replica) \subseteq Units(d.replica) \cup d.refused \cup E
    /\ \/ d.unshared \subseteq c.unshared
       \/ d.open /\ d.unshared \subseteq c.unshared \cup Units(d.document.text)
    /\ d.save = "none" => c.save = "none"

LEMMA SharesCareful ==
    ASSUME NEW c, NEW d, NEW E, SharesSame(c, d)
    PROVE  Careful(c, d, E)
BY DEF SharesSame, Careful

LEMMA CarefulAfter ==
    ASSUME NEW c, NEW d, NEW e, NEW E, Careful(c, d, E), SharesSame(d, e)
    PROVE  Careful(c, e, E)
BY DEF SharesSame, Careful

LEMMA CarefulBefore ==
    ASSUME NEW c, NEW d, NEW e, NEW E, SharesSame(c, d), Careful(d, e, E)
    PROVE  Careful(c, e, E)
BY DEF SharesSame, Careful

LEMMA AnnouncedSound ==
    ASSUME NEW U, NEW c \in Companions(U), NEW E, Sound(c, E),
           c.open => c.document # NoDocument /\ Belongs(c),
           ~c.open => c.document = NoDocument /\ c.flight = NoFlight,
           NEW r \in Seq(U), NEW d, d = Announced([c EXCEPT !.replica = r])
    PROVE  /\ d \in Companions(U) /\ Sound(d, E)
           /\ d.document = c.document /\ d.open = c.open /\ d.replica = r
           /\ c.refused \subseteq d.refused /\ d.unshared = {}
           /\ d.save = "none" => c.save = "none"
<1> DEFINE e == [c EXCEPT !.replica = r]
           f == [e EXCEPT !.unscanned = FALSE, !.unshared = {}]
<1>1. /\ f \in Companions(U) /\ f.document = c.document /\ f.open = c.open
      /\ f.flight = c.flight /\ f.applies = c.applies /\ f.replica = r
      /\ f.refused = c.refused /\ f.unshared = {} /\ f.save = c.save
      /\ f.backstop = c.backstop
  <2>1. e \in Companions(U)
    BY DEF Companions
  <2>2. /\ e.document = c.document /\ e.open = c.open /\ e.flight = c.flight
        /\ e.applies = c.applies /\ e.replica = r /\ e.refused = c.refused
        /\ e.save = c.save /\ e.backstop = c.backstop
    BY DEF Companions
  <2> HIDE DEF e
  <2>3. f \in Companions(U)
    BY <2>1 DEF Companions
  <2>4. QED
    BY <2>1, <2>2, <2>3 DEF Companions
<1>2. d = Reconcile(f)
  BY DEF Announced
<1> HIDE DEF e, f
<1>3. CASE ~c.open
  <2>1. d = f
    BY <1>1, <1>2, <1>3 DEF Reconcile
  <2>2. QED
    BY <1>1, <1>3, <2>1 DEF Sound
<1>4. CASE c.open /\ c.flight = NoFlight
  <2>1. Belongs(f) /\ f.document # NoDocument
    BY <1>1, <1>4 DEF Belongs
  <2>2. d \in Companions(U) /\ Sound(d, E) /\ SharesSame(f, d)
    BY <1>1, <1>2, <1>4, <2>1, ReconcileSound
  <2>3. QED
    BY <1>1, <2>2 DEF SharesSame
<1>5. CASE c.open /\ c.flight # NoFlight
  <2> DEFINE g == PauseSave(f)
  <2>1. d = [g EXCEPT !.pending = TRUE]
    BY <1>1, <1>2, <1>5 DEF Reconcile
  <2>2. g \in Companions(U) /\ Matches(f, g)
    BY <1>1, SavesMatch
  <2> HIDE DEF g
  <2>3. /\ d \in Companions(U) /\ d.pending /\ d.document = g.document /\ d.open = g.open
        /\ d.flight = g.flight /\ d.applies = g.applies /\ d.replica = g.replica
        /\ d.refused = g.refused /\ d.unshared = g.unshared /\ d.save = g.save
    BY <2>1, <2>2 DEF Companions
  <2>4. /\ d \in Companions(U) /\ d.pending /\ d.document = c.document /\ d.open = c.open
        /\ d.flight = c.flight /\ d.applies = c.applies /\ d.replica = r
        /\ d.refused = c.refused /\ d.unshared = {} /\ (d.save = "none" <=> c.save = "none")
    BY <1>1, <2>2, <2>3 DEF Matches
  <2>5. Flying(c, E)
    BY <1>5 DEF Sound
  <2>6. Flying(d, E)
    BY <2>4, <2>5 DEF Flying
  <2>7. QED
    BY <1>5, <2>4, <2>6 DEF Sound
<1>6. QED
  BY <1>3, <1>4, <1>5

LEMMA RefuseSound ==
    ASSUME NEW U, NEW c \in Companions(U), c.document # NoDocument, c.open,
           c.flight = NoFlight, Belongs(c), c.unshared = {}, NEW moved,
           NEW d, d = Refuse(c, moved), NEW E
    PROVE  d \in Companions(U) /\ Sound(d, E) /\ Careful(c, d, E)
<1> DEFINE more == c.attempts + 1
           tried == [c EXCEPT !.attempts = more]
<1>1. more \in Nat
  BY DEF Companions
<1>2. d = CASE tried.attempts >= MaxApplyAttempts ->
                ReportRefused([tried EXCEPT !.pending = FALSE, !.backstop = FALSE])
            [] tried.attempts < MaxApplyAttempts /\ moved /\ tried.attempts = 1 ->
                Reconcile(Report(tried))
            [] OTHER -> Reconcile(Account(tried))
  BY DEF Refuse, Companions
<1> HIDE DEF more
<1>3. /\ tried \in Companions(U) /\ tried.document = c.document /\ tried.open = c.open
      /\ tried.flight = c.flight /\ tried.applies = c.applies /\ tried.replica = c.replica
      /\ tried.refused = c.refused /\ tried.unshared = c.unshared /\ tried.save = c.save
      /\ tried.attempts = more
  BY <1>1 DEF Companions
<1>4. MaxApplyAttempts \in Nat
  BY BoundsAreCounts
<1> HIDE DEF tried
<1>5. CASE tried.attempts >= MaxApplyAttempts
  <2> DEFINE e == [tried EXCEPT !.pending = FALSE, !.backstop = FALSE]
  <2>1. d = ReportRefused(e)
    BY <1>2, <1>3, <1>4, <1>5
  <2>2. /\ e \in Companions(U) /\ e.document = c.document /\ e.open = c.open
        /\ e.flight = c.flight /\ e.replica = c.replica /\ e.backstop = FALSE
        /\ e.refused = c.refused /\ e.unshared = c.unshared /\ e.save = c.save
        /\ e.attempts = more
    BY <1>3, ZenonT(60) DEF Companions
  <2> HIDE DEF e
  <2>3. e \in Companions(U) /\ e.document # NoDocument
    BY <2>2
  <2>4. /\ d \in Companions(U) /\ d.document = e.document /\ d.open = e.open
        /\ d.flight = e.flight /\ d.replica = e.replica /\ d.unshared = e.unshared
        /\ d.refused = e.refused \cup (Units(e.replica) \ Units(e.document.text))
        /\ d.backstop = e.backstop /\ d.attempts = e.attempts /\ d.told
        /\ (d.save = "none" <=> e.save = "none")
    BY <2>1, <2>3, ReportRefusedIs
  <2>5. /\ d \in Companions(U) /\ d.document = c.document /\ d.open = c.open
        /\ d.flight = c.flight /\ d.replica = c.replica /\ d.unshared = c.unshared
        /\ d.refused = c.refused \cup (Units(c.replica) \ Units(c.document.text))
        /\ ~d.backstop /\ d.attempts = more /\ d.told
        /\ (d.save = "none" <=> c.save = "none")
    BY <2>2, <2>4
  <2>6. Square(d, E) /\ Settled(d)
    BY <1>3, <1>5, <2>5 DEF Square, Settled
  <2>7. Sound(d, E)
    BY <2>5, <2>6 DEF Sound, Resting
  <2>8. Careful(c, d, E)
    BY <2>5 DEF Careful
  <2>9. QED
    BY <2>5, <2>7, <2>8
<1>6. CASE tried.attempts < MaxApplyAttempts
  <2>1. PICK e \in {Account(tried), Report(tried)} : d = Reconcile(e)
    <3>1. CASE moved /\ tried.attempts = 1
      <4>1. d = Reconcile(Report(tried))
        BY <1>1, <1>2, <1>3, <1>4, <1>6, <3>1
      <4>2. QED
        BY <4>1
    <3>2. CASE ~(moved /\ tried.attempts = 1)
      <4>1. d = Reconcile(Account(tried))
        BY <1>1, <1>2, <1>3, <1>4, <1>6, <3>2
      <4>2. QED
        BY <4>1
    <3>3. QED
      BY <3>1, <3>2
  <2>2. e \in Companions(U) /\ Matches(tried, e)
    BY <1>3, <2>1, ReportsMatch
  <2>3. e.document # NoDocument /\ e.flight = NoFlight /\ e.unshared = {} /\ Belongs(e)
    BY <1>3, <2>2 DEF Matches, Belongs
  <2>4. d \in Companions(U) /\ Sound(d, E) /\ SharesSame(e, d)
    BY <2>1, <2>2, <2>3, ReconcileSound
  <2>5. SharesSame(c, tried) /\ SharesSame(tried, e)
    BY <1>3, <2>2, MatchesSound DEF SharesSame
  <2>6. QED
    BY <2>4, <2>5, SharesAfter, SharesCareful
<1>7. QED
  BY <1>1, <1>3, <1>4, <1>5, <1>6

(* The backstop of bridge.ts asks for the whole of the room's text.        *)
LEMMA BackstopSound ==
    ASSUME NEW U, NEW c \in Companions(U), NEW E, Sound(c, E), c.backstop,
           c.open => c.document # NoDocument /\ Belongs(c), NEW b, NEW d,
           b = [c EXCEPT !.backstop = FALSE],
           d = CASE b.open /\ b.flight # NoFlight -> [b EXCEPT !.pending = TRUE]
                 [] /\ b.open
                    /\ b.flight = NoFlight
                    /\ b.document # NoDocument
                    /\ Malformed(b) -> Reconcile(b)
                 [] /\ b.open
                    /\ b.flight = NoFlight
                    /\ b.document # NoDocument
                    /\ ~Malformed(b)
                    /\ b.document.text # b.replica ->
                       [Issue(Report(b),
                              Edit(0, Len(b.document.text), b.replica), b.replica)
                          EXCEPT !.save = "armed"]
                 [] OTHER -> b
    PROVE  d \in Companions(U) /\ Sound(d, E) /\ SharesSame(c, d)
<1>1. /\ b \in Companions(U) /\ b.document = c.document /\ b.open = c.open
      /\ b.flight = c.flight /\ b.applies = c.applies /\ b.replica = c.replica
      /\ b.refused = c.refused /\ b.unshared = c.unshared /\ b.save = c.save
      /\ b.pending = c.pending /\ b.backstop = FALSE
  BY DEF Companions
<1>2. SharesSame(c, b)
  BY <1>1 DEF SharesSame
<1>3. CASE ~c.open
  <2>1. d = b
    BY <1>1, <1>3
  <2>2. QED
    BY <1>1, <1>2, <1>3, <2>1 DEF Sound
<1>4. CASE c.open /\ c.flight # NoFlight
  <2>1. d = [b EXCEPT !.pending = TRUE]
    BY <1>1, <1>4
  <2>2. /\ d \in Companions(U) /\ d.document = c.document /\ d.open = c.open
        /\ d.flight = c.flight /\ d.applies = c.applies /\ d.replica = c.replica
        /\ d.refused = c.refused /\ d.unshared = c.unshared /\ d.save = c.save
        /\ d.pending
    <3>1. b \in Companions(U)
      BY <1>1
    <3>2. d \in Companions(U) /\ d.pending
      BY <2>1, <3>1, ZenonT(60) DEF Companions
    <3>3. d.document = b.document /\ d.open = b.open /\ d.flight = b.flight
      BY <2>1, <3>1 DEF Companions
    <3>4. d.applies = b.applies
      BY <2>1, <3>1 DEF Companions
    <3>5. d.replica = b.replica
      BY <2>1, <3>1 DEF Companions
    <3>6. d.refused = b.refused /\ d.unshared = b.unshared /\ d.save = b.save
      BY <2>1, <3>1 DEF Companions
    <3>7. QED
      BY <1>1, <3>2, <3>3, <3>4, <3>5, <3>6
  <2>3. Flying(c, E)
    BY <1>4 DEF Sound
  <2>4. Flying(d, E)
    BY <2>2, <2>3 DEF Flying
  <2>5. QED
    BY <1>4, <2>2, <2>4 DEF Sound, SharesSame
<1>5. CASE c.open /\ c.flight = NoFlight /\ ~Malformed(b) /\ c.document.text = c.replica
  <2>1. d = b
    BY <1>1, <1>5
  <2>2. Resting(b, E)
    BY <1>1, <1>5 DEF Resting, Square, Settled
  <2>3. QED
    BY <1>1, <1>2, <1>5, <2>1, <2>2 DEF Sound
<1>6. CASE c.open /\ c.flight = NoFlight /\ ~Malformed(b) /\ c.document.text # c.replica
  <2> DEFINE e == Report(b)
             change == Edit(0, Len(b.document.text), b.replica)
             g == Issue(e, change, b.replica)
  <2>1. d = [g EXCEPT !.save = "armed"]
    BY <1>1, <1>6
  <2>2. e \in Companions(U) /\ Matches(b, e)
    BY <1>1, <1>6, ReportsMatch
  <2> HIDE DEF e
  <2>3. c.document \in Documents(U) /\ c.replica \in Seq(U)
    BY <1>6, DocumentIs DEF Companions
  <2>4. c.document.text \in Seq(U) /\ Len(c.document.text) \in Nat
    BY <2>3, LenProperties DEF Documents
  <2>5. /\ change \in Changes(U) /\ change.end <= Len(c.document.text)
        /\ change.end - change.start = Len(c.document.text) /\ change.text = c.replica
    <3>1. change \in Changes(U)
      BY <1>1, <2>3, <2>4, WholeIs
    <3>2. QED
      BY <1>1, <2>4, <3>1 DEF Edit
  <2>6. ApplyChange(c.document.text, change) = c.replica
    BY <2>4, <2>5, WholeReplaced
  <2> HIDE DEF change
  <2>7. /\ e.document = c.document /\ e.flight = NoFlight /\ e.applies = c.applies
        /\ e.replica = c.replica /\ e.unshared = c.unshared /\ e.open = c.open
        /\ e.refused = c.refused
    BY <1>1, <1>6, <2>2 DEF Matches
  <2>8. DOMAIN e.applies = {}
    BY <1>6, <2>7 DEF Belongs
  <2>9. g \in Companions(U) /\ Launched(e, g, change)
    BY <1>1, <1>6, <2>2, <2>3, <2>5, <2>6, <2>7, <2>8, IssueDoes, IssueLaunches
  <2> HIDE DEF g
  <2>10. Launched(e, d, change) /\ d.save # "none" /\ d \in Companions(U)
    <3>1. g \in Companions(U)
      BY <2>9
    <3>2. /\ d \in Companions(U) /\ d.document = g.document /\ d.open = g.open
          /\ d.flight = g.flight /\ d.applies = g.applies /\ d.replica = g.replica
          /\ d.refused = g.refused /\ d.unshared = g.unshared /\ d.save = "armed"
          /\ d.pending = g.pending /\ d.attempts = g.attempts
      BY <2>1, <3>1, ZenonT(60) DEF Companions
    <3>3. \A id \in DOMAIN d.applies :
             /\ d.applies[id].change = change /\ d.applies[id].withheld = <<>>
             /\ d.applies[id].version = e.document.version
      BY <2>9, <3>2, SMTT(30) DEF Launched
    <3>5. /\ d.document = e.document /\ d.open = e.open /\ d.replica = e.replica
          /\ d.pending = e.pending /\ d.attempts = e.attempts
          /\ d.refused = e.refused /\ d.unshared = e.unshared
          /\ d.flight # NoFlight /\ ~d.flight.moved
          /\ d.flight.expected = e.replica /\ d.flight.replica = e.replica
          /\ d.flight.before = e.document.text
      BY <2>9, <3>2, ZenonT(60) DEF Launched
    <3>4. d.save # "none"
      BY <3>2
    <3>6. QED
      BY <3>2, <3>3, <3>4, <3>5 DEF Launched
  <2>11. c.unshared = {}
    BY <1>6 DEF Sound, Resting
  <2>12. Sound(d, E)
    BY <1>6, <2>2, <2>5, <2>6, <2>7, <2>10, <2>11, LaunchedFlies
  <2>13. SharesSame(c, d)
    <3>1. /\ d.document = e.document /\ d.open = e.open /\ d.replica = e.replica
          /\ d.refused = e.refused /\ d.unshared = e.unshared /\ d.save # "none"
      BY <2>10 DEF Launched
    <3>2. QED
      BY <2>7, <3>1 DEF SharesSame
  <2>14. QED
    BY <2>10, <2>12, <2>13
<1>7. CASE c.open /\ c.flight = NoFlight /\ Malformed(b)
  <2>1. d = Reconcile(b)
    BY <1>1, <1>7
  <2>2. d \in Companions(U) /\ Sound(d, E) /\ SharesSame(b, d)
    BY <1>1, <1>7, <2>1, HalfSound
  <2>3. QED
    BY <1>2, <2>2, SharesAfter
<1>8. QED
  BY <1>3, <1>4, <1>5, <1>6, <1>7

(* What `publish` does: a text the room cannot carry is remembered as      *)
(* refused, and any other becomes the room's.                              *)
Published(c, d) ==
    /\ d.document = c.document /\ d.open = c.open /\ d.applies = c.applies
    /\ d.flight = c.flight /\ d.pending = c.pending /\ d.refused = c.refused
    /\ d.save = "none" => c.save = "none"
    /\ IF Refuses(c)
       THEN /\ d.replica = c.replica /\ ~d.backstop /\ d.refusedSeed
            /\ d.unshared = c.unshared \cup (Units(c.document.text) \ Units(c.replica))
       ELSE /\ d.replica = c.document.text /\ d.backstop = c.backstop
            /\ d.unshared = c.unshared

LEMMA PublishIs ==
    ASSUME NEW U, NEW c \in Companions(U), c.document # NoDocument, NEW d, d = Publish(c)
    PROVE  d \in Companions(U) /\ Published(c, d)
<1>1. d \in Companions(U)
  BY PublishDoes
<1>2. c.document \in Documents(U) /\ c.replica \in Seq(U)
  BY DocumentIs DEF Companions
<1>3. c.document.text \in Seq(U)
  BY <1>2 DEF Documents
<1>4. CASE Refuses(c)
  <2> DEFINE own == Units(c.document.text) \ Units(c.replica)
             p == PauseSave(c)
             quiet == [p EXCEPT !.backstop = FALSE, !.refusedSeed = TRUE,
                                !.unshared = @ \cup own, !.accounted = @ \cup own]
  <2>1. p \in Companions(U) /\ Matches(c, p)
    BY SavesMatch
  <2>2. own \in SUBSET U
    BY <1>3, UnitsTyped
  <2>3. d = IF c.refusedSeed THEN quiet ELSE Report(quiet)
    BY <1>4 DEF Publish
  <2>4. p.unshared \cup own \in SUBSET U /\ p.accounted \cup own \in SUBSET U
    BY <2>1, <2>2 DEF Companions
  <2> HIDE DEF p, own
  <2>5. /\ quiet \in Companions(U) /\ quiet.document = p.document /\ quiet.open = p.open
        /\ quiet.applies = p.applies /\ quiet.flight = p.flight /\ quiet.pending = p.pending
        /\ quiet.refused = p.refused /\ quiet.save = p.save /\ quiet.replica = p.replica
        /\ ~quiet.backstop /\ quiet.refusedSeed /\ quiet.unshared = p.unshared \cup own
    BY <2>1, <2>4 DEF Companions
  <2> HIDE DEF quiet
  <2>6. Published(c, quiet)
    BY <1>4, <2>1, <2>5 DEF Published, Matches, own
  <2>7. CASE c.refusedSeed
    BY <1>1, <2>3, <2>6, <2>7
  <2>8. CASE ~c.refusedSeed
    <3>1. d = Report(quiet) /\ quiet.document # NoDocument
      BY <2>1, <2>3, <2>5, <2>8 DEF Matches
    <3>2. Matches(quiet, d)
      BY <2>5, <3>1, ReportsMatch
    <3>3. QED
      BY <1>1, <2>6, <3>2 DEF Published, Matches
  <2>9. QED
    BY <2>7, <2>8
<1>5. CASE ~Refuses(c)
  <2>1. ApplyChange(c.replica, Diff(c.replica, c.document.text)) = c.document.text
    BY <1>2, <1>3, DiffLeads
  <2>2. d = [c EXCEPT !.replica = c.document.text, !.unscanned = TRUE]
    BY <1>5, <2>1 DEF Publish, Companions
  <2>3. QED
    BY <1>1, <1>5, <2>2 DEF Published, Companions
<1>6. QED
  BY <1>4, <1>5

(* What the settlement of an apply starts from: the flight is over, and    *)
(* the mirror holds what the room held when it began.                      *)
Arrives(c, flight, E) ==
    /\ c.document # NoDocument /\ c.open /\ c.flight = NoFlight /\ Belongs(c)
    /\ c.unshared = {} /\ flight.expected = flight.replica
    /\ Units(flight.replica) \subseteq Units(c.document.text) \cup E
    /\ ~c.pending => c.replica = flight.replica /\ ~flight.moved
    /\ ~c.pending /\ ~c.backstop => c.document.text # flight.before

LEMMA PendingSound ==
    ASSUME NEW U, NEW c \in Companions(U), c.document # NoDocument, c.flight = NoFlight,
           NEW E, c.pending => Belongs(c) /\ c.unshared = {}, ~c.pending => Sound(c, E),
           NEW d, d = ReconcilePending(c)
    PROVE  d \in Companions(U) /\ Sound(d, E) /\ SharesSame(c, d)
<1>1. CASE ~c.pending
  BY <1>1 DEF ReconcilePending, SharesSame
<1>2. CASE c.pending
  <2> DEFINE e == [c EXCEPT !.pending = FALSE]
  <2>1. d = Reconcile(e)
    BY <1>2 DEF ReconcilePending
  <2>2. /\ e \in Companions(U) /\ e.document = c.document /\ e.open = c.open
        /\ e.flight = c.flight /\ e.applies = c.applies /\ e.replica = c.replica
        /\ e.refused = c.refused /\ e.unshared = c.unshared /\ e.save = c.save
    BY DEF Companions
  <2> HIDE DEF e
  <2>3. Belongs(e) /\ e.unshared = {}
    BY <1>2, <2>2 DEF Belongs
  <2>4. d \in Companions(U) /\ Sound(d, E) /\ SharesSame(e, d)
    BY <2>1, <2>2, <2>3, ReconcileSound
  <2>5. QED
    BY <2>2, <2>4 DEF SharesSame
<1>3. QED
  BY <1>1, <1>2

LEMMA WindowSound ==
    ASSUME NEW U, NEW c \in Companions(U), NEW flight, NEW E, Arrives(c, flight, E),
           NEW f, f = PublishWindow(c, flight)
    PROVE  /\ f \in Companions(U) /\ f.document # NoDocument /\ f.flight = NoFlight
           /\ f.document = c.document
           /\ f.pending => Belongs(f) /\ f.unshared = {}
           /\ ~f.pending => Sound(f, E)
           /\ Careful(c, f, E)
<1>1. f \in Companions(U) /\ c.document # NoDocument /\ c.flight = NoFlight /\ c.open
  BY PublishWindowDoes DEF Arrives
<1>2. CASE \/ c.document.text \in {flight.expected, c.replica}
           \/ c.replica = flight.replica /\ c.document.text = flight.before /\ ~flight.moved
  <2>1. f = c
    BY <1>2 DEF PublishWindow
  <2>2. c.pending => Belongs(c) /\ c.unshared = {}
    BY DEF Arrives
  <2>3. ASSUME ~c.pending PROVE Sound(c, E)
    <3>1. c.replica = flight.replica /\ ~flight.moved
      BY <2>3 DEF Arrives
    <3>2. Square(c, E)
      BY <3>1 DEF Arrives, Square
    <3>3. Settled(c) /\ c.unshared = {}
      BY <1>2, <2>3, <3>1 DEF Arrives, Settled
    <3>4. QED
      BY <1>1, <3>2, <3>3 DEF Sound, Resting
  <2>4. Careful(c, c, E)
    BY DEF Careful
  <2>5. QED
    BY <1>1, <2>1, <2>2, <2>3, <2>4
<1>3. CASE /\ c.document.text \notin {flight.expected, c.replica}
           /\ c.replica # flight.replica
  <2>1. f = Report(c)
    BY <1>3 DEF PublishWindow
  <2>2. Matches(c, f)
    BY <1>1, <2>1, ReportsMatch
  <2>3. f.pending /\ Belongs(f) /\ f.unshared = {}
    BY <1>3, <2>2 DEF Arrives, Matches, Belongs
  <2>4. SharesSame(c, f)
    BY <2>2, MatchesSound
  <2>5. QED
    BY <1>1, <2>2, <2>3, <2>4, SharesCareful DEF Matches
<1>4. CASE /\ c.document.text \notin {flight.expected, c.replica}
           /\ c.replica = flight.replica
           /\ ~(c.document.text = flight.before /\ ~flight.moved)
  <2> DEFINE e == Publish(c)
  <2>1. f = IF Refuses(c)
            THEN [e EXCEPT !.pending = FALSE, !.backstop = FALSE]
            ELSE e
    BY <1>4 DEF PublishWindow
  <2>2. e \in Companions(U) /\ Published(c, e)
    BY <1>1, PublishIs
  <2> HIDE DEF e
  <2>3. Units(c.replica) \subseteq Units(c.document.text) \cup E /\ c.unshared = {} /\ Belongs(c)
    BY <1>4 DEF Arrives
  <2>4. CASE Refuses(c)
    <3>1. /\ f.document = e.document /\ f.open = e.open /\ f.applies = e.applies
          /\ f.flight = e.flight /\ f.replica = e.replica /\ f.refused = e.refused
          /\ f.unshared = e.unshared /\ f.save = e.save
          /\ f.pending = FALSE /\ f.backstop = FALSE /\ f.refusedSeed = e.refusedSeed
      BY <2>1, <2>2, <2>4 DEF Companions
    <3>2. /\ f.document = c.document /\ f.open = c.open /\ f.flight = c.flight
          /\ f.replica = c.replica /\ f.refused = c.refused /\ f.refusedSeed
          /\ f.unshared = Units(c.document.text) \ Units(c.replica)
          /\ f.save = "none" => c.save = "none"
      BY <2>2, <2>3, <2>4, <3>1 DEF Published
    <3>3. Sound(f, E)
      BY <1>1, <2>3, <2>4, <3>1, <3>2 DEF Sound, Resting, Square, Settled, Refuses
    <3>4. Careful(c, f, E)
      BY <1>1, <2>3, <3>2 DEF Careful
    <3>5. QED
      BY <1>1, <3>1, <3>2, <3>3, <3>4
  <2>5. CASE ~Refuses(c)
    <3>1. f = e
      BY <2>1, <2>5
    <3>2. /\ f.document = c.document /\ f.open = c.open /\ f.applies = c.applies
          /\ f.flight = c.flight /\ f.replica = c.document.text /\ f.refused = c.refused
          /\ f.unshared = {} /\ (f.save = "none" => c.save = "none")
      BY <2>2, <2>3, <2>5, <3>1 DEF Published
    <3>3. Sound(f, E)
      BY <1>1, <3>2 DEF Sound, Resting, Square, Settled
    <3>4. Careful(c, f, E)
      BY <1>1, <2>3, <3>2 DEF Careful
    <3>5. QED
      BY <1>1, <2>3, <3>2, <3>3, <3>4 DEF Belongs
  <2>6. QED
    BY <2>4, <2>5
<1>5. QED
  BY <1>2, <1>3, <1>4

LEMMA AppliedSound ==
    ASSUME NEW U, NEW c \in Companions(U), NEW E, c.flight # NoFlight,
           Arrives(Landed(c), c.flight, E), NEW d, d = Settle(c, TRUE)
    PROVE  /\ d \in Companions(U) /\ Sound(d, E) /\ Careful(c, d, E)
           /\ d.document = c.document
<1> DEFINE l == Landed(c)
           e == Calm(l)
           f == PublishWindow(e, c.flight)
           g == ReconcilePending(f)
<1>1. /\ l \in Companions(U) /\ l.document = c.document /\ l.open = c.open
      /\ l.flight = NoFlight /\ l.applies = c.applies /\ l.replica = c.replica
      /\ l.refused = c.refused /\ l.unshared = c.unshared /\ l.save = c.save
      /\ l.pending = c.pending /\ l.backstop = c.backstop
  BY DEF Landed, Companions
<1>2. c.open
  BY <1>1 DEF Arrives
<1>3. d = ResumeSave(g)
  BY <1>2 DEF Settle, Landed
<1> HIDE DEF l
<1>4. /\ e \in Companions(U) /\ e.document = l.document /\ e.open = l.open
      /\ e.flight = l.flight /\ e.applies = l.applies /\ e.replica = l.replica
      /\ e.refused = l.refused /\ e.unshared = l.unshared /\ e.save = l.save
      /\ e.pending = l.pending /\ e.backstop = l.backstop
  BY <1>1, ZenonT(60) DEF Calm, Companions
<1> HIDE DEF e
<1>5. Arrives(e, c.flight, E)
  BY <1>1, <1>4 DEF l, Arrives, Belongs
<1>6. SharesSame(c, e)
  BY <1>1, <1>4 DEF SharesSame
<1>7. /\ f \in Companions(U) /\ f.document # NoDocument /\ f.flight = NoFlight
      /\ f.document = e.document
      /\ f.pending => Belongs(f) /\ f.unshared = {}
      /\ ~f.pending => Sound(f, E)
      /\ Careful(e, f, E)
  BY <1>4, <1>5, WindowSound
<1> HIDE DEF f
<1>8. g \in Companions(U) /\ Sound(g, E) /\ SharesSame(f, g)
  BY <1>7, PendingSound
<1> HIDE DEF g
<1>9. d \in Companions(U) /\ Matches(g, d)
  BY <1>3, <1>8, SavesMatch
<1>10. Sound(d, E) /\ SharesSame(g, d)
  BY <1>8, <1>9, MatchesSound
<1>11. Careful(c, d, E)
  BY <1>6, <1>7, <1>8, <1>10, CarefulBefore, CarefulAfter
<1>12. QED
  BY <1>1, <1>4, <1>7, <1>8, <1>9, <1>10, <1>11 DEF SharesSame

LEMMA RefusedSound ==
    ASSUME NEW U, NEW c \in Companions(U), NEW E, c.document # NoDocument, c.open,
           DOMAIN c.applies = {}, c.unshared = {}, NEW d, d = Settle(c, FALSE)
    PROVE  /\ d \in Companions(U) /\ Sound(d, E) /\ Careful(c, d, E)
           /\ d.document = c.document
<1> DEFINE l == Landed(c)
           g == Refuse(l, c.flight.moved)
<1>1. /\ l \in Companions(U) /\ l.document = c.document /\ l.open = c.open
      /\ l.flight = NoFlight /\ l.applies = c.applies /\ l.replica = c.replica
      /\ l.refused = c.refused /\ l.unshared = c.unshared /\ l.save = c.save
  BY DEF Landed, Companions
<1>2. d = ResumeSave(g)
  BY DEF Settle, Landed
<1> HIDE DEF l
<1>3. SharesSame(c, l) /\ Belongs(l)
  BY <1>1 DEF SharesSame, Belongs
<1>4. g \in Companions(U) /\ Sound(g, E) /\ Careful(l, g, E)
  BY <1>1, <1>3, RefuseSound
<1>5. g.document = l.document
  <2>1. l.document # NoDocument
    BY <1>1
  <2>2. Reconciled(l, g)
    BY <1>1, <2>1, RefuseDoes
  <2>3. QED
    BY <2>2 DEF Reconciled, Keeps, KeepsPath, Issued
<1> HIDE DEF g
<1>6. d \in Companions(U) /\ Matches(g, d)
  BY <1>2, <1>4, SavesMatch
<1>7. Sound(d, E) /\ SharesSame(g, d)
  BY <1>4, <1>6, MatchesSound
<1>8. Careful(c, d, E)
  BY <1>3, <1>4, <1>7, CarefulBefore, CarefulAfter
<1>9. QED
  BY <1>1, <1>5, <1>6, <1>7, <1>8 DEF Matches

(***************************************************************************)
(* What was typed moves the offers along.                                  *)
(***************************************************************************)
LEMMA TakeText ==
    ASSUME NEW U, NEW document \in Documents(U), NEW change \in Changes(U)
    PROVE  /\ Take(document, change).text = ApplyChange(document.text, change)
           /\ Take(document, change).version = document.version + 1
           /\ document.text \in Seq(U) /\ document.version \in Nat
BY DEF Documents, Take

LEMMA ReachesOn ==
    ASSUME NEW U, NEW document \in Documents(U), NEW flight, NEW pending \in Pendings(U),
           NEW change \in Changes(U), NEW E, Spares(document.text, change, E),
           Reaches(document, flight, pending, E)
    PROVE  Reaches(Take(document, change), flight, Withhold(pending, change), E)
<1> DEFINE later == Withhold(pending, change)
           new == Take(document, change)
           moved == Rebase(pending.change, pending.withheld)
           on == Rebase(later.change, later.withheld)
<1>1. /\ later.change = pending.change /\ later.version = pending.version
      /\ later.withheld = Append(pending.withheld, change)
  BY WithholdIs
<1>2. /\ new.text = ApplyChange(document.text, change) /\ new.version = document.version + 1
      /\ document.text \in Seq(U) /\ document.version \in Nat
  BY TakeText
<1>3. /\ pending.change \in Changes(U) /\ pending.withheld \in Seq(Changes(U))
      /\ pending.version \in Nat
  BY DEF Pendings
<1>4. moved \in Moved(U)
  BY <1>3, RebaseTyped
<1>5. on = Through(moved, change)
  BY <1>1, <1>3, RebaseOneMore
<1> HIDE DEF later, new, moved, on
<1>6. later.version <= new.version /\ later.version # new.version
  BY <1>1, <1>2, <1>3 DEF Reaches
<1>7. ASSUME on.placed
      PROVE  /\ on.change.end <= Len(new.text)
             /\ Units(flight.replica) \subseteq Units(ApplyChange(new.text, on.change)) \cup E
  <2>1. moved.placed
    BY <1>4, <1>5, <1>7, ThroughIs
  <2>2. /\ moved.change.end <= Len(document.text)
        /\ Units(flight.replica)
              \subseteq Units(ApplyChange(document.text, moved.change)) \cup E
    BY <2>1 DEF Reaches, moved
  <2>3. moved.change \in Changes(U)
    BY <1>4 DEF Moved
  <2>4. PICK result \in Seq(U) : result = ApplyChange(document.text, moved.change)
    BY <1>2, <2>3, ApplyTyped
  <2>5. change.end <= Len(document.text)
    BY DEF Spares
  <2>6. /\ on.change.end <= Len(new.text)
        /\ Alongside(U, document.text, change, result, new.text, on.change)
    BY <1>2, <1>4, <1>5, <1>7, <2>2, <2>4, <2>5, ThroughCommutes
  <2>7. Units(result) \subseteq Units(ApplyChange(new.text, on.change)) \cup E
    BY <1>2, <2>6, AlongsideSpares
  <2>8. QED
    BY <2>2, <2>4, <2>6, <2>7
<1>8. QED
  BY <1>6, <1>7 DEF Reaches, later, new, on

LEMMA WholeOn ==
    ASSUME NEW U, NEW document \in Documents(U), NEW flight, NEW pending \in Pendings(U),
           NEW change \in Changes(U), Whole(document, flight, pending),
           Take(document, change).text = flight.replica
    PROVE  Whole(Take(document, change), flight, Withhold(pending, change))
<1> DEFINE later == Withhold(pending, change)
           new == Take(document, change)
           moved == Rebase(pending.change, pending.withheld)
           on == Rebase(later.change, later.withheld)
<1>1. /\ later.change = pending.change
      /\ later.withheld = Append(pending.withheld, change)
  BY WithholdIs
<1>2. /\ pending.change \in Changes(U) /\ pending.withheld \in Seq(Changes(U))
  BY DEF Pendings
<1>3. moved \in Moved(U)
  BY <1>2, RebaseTyped
<1>4. on = Through(moved, change)
  BY <1>1, <1>2, RebaseOneMore
<1> HIDE DEF later, moved, on
<1>5. ASSUME on.placed
      PROVE  /\ on.change.end - on.change.start = Len(flight.before)
             /\ on.change.text = flight.replica
  <2>1. /\ moved.placed /\ on.change.text = moved.change.text
        /\ \/ /\ on.change.start = moved.change.start + Grown(change)
              /\ on.change.end = moved.change.end + Grown(change)
           \/ on.change = moved.change
    BY <1>3, <1>4, <1>5, ThroughIs
  <2>2. /\ moved.change.end - moved.change.start = Len(flight.before)
        /\ moved.change.text = flight.replica
    BY <2>1 DEF Whole, moved
  <2>3. moved.change.start \in Nat /\ moved.change.end \in Nat
    BY <1>3, ChangeIs DEF Moved
  <2>4. Grown(change) \in Int
    BY ChangeIs, LenProperties DEF Grown
  <2>5. QED
    BY <2>1, <2>2, <2>3, <2>4
<1>6. QED
  BY <1>5 DEF Whole, later, on

LEMMA ChangedSound ==
    ASSUME NEW U, NEW c \in Companions(U), NEW E, Sound(c, E), c.open,
           c.document # NoDocument, Belongs(c), NEW change \in Changes(U),
           Spares(c.document.text, change, E), NEW d, d = Changed(c, change)
    PROVE  Sound(d, E) /\ Careful(c, d, E)
<1>0. PICK e : e = Typing(c, change)
  OBVIOUS
<1>1. /\ e \in Companions(U) /\ d = DocumentChanged(e)
      /\ e.document = Take(c.document, change) /\ e.document # NoDocument
      /\ DOMAIN e.applies = DOMAIN c.applies
      /\ \A id \in DOMAIN c.applies : e.applies[id] = Withhold(c.applies[id], change)
      /\ e.open = c.open /\ e.flight = c.flight
      /\ e.replica = c.replica /\ e.pending = c.pending
      /\ e.backstop = c.backstop /\ e.refused = c.refused /\ e.unshared = c.unshared
      /\ e.save = c.save
  <2>1. /\ e \in Companions(U) /\ Changed(c, change) = DocumentChanged(e)
        /\ e.document = Take(c.document, change) /\ e.document # NoDocument
        /\ DOMAIN e.applies = DOMAIN c.applies
        /\ \A id \in DOMAIN c.applies : e.applies[id] = Withhold(c.applies[id], change)
        /\ e.open = c.open /\ e.flight = c.flight
    <3>1. /\ e \in Companions(U) /\ Changed(c, change) = DocumentChanged(e)
          /\ e.document = Take(c.document, change) /\ e.document # NoDocument
      BY <1>0, TypingIs
    <3>2. /\ DOMAIN e.applies = DOMAIN c.applies
          /\ \A id \in DOMAIN c.applies : e.applies[id] = Withhold(c.applies[id], change)
      BY <1>0, TypingIs
    <3>3. e.open = c.open /\ e.flight = c.flight
      BY <1>0 DEF Typing, Companions
    <3>4. QED
      BY <3>1, <3>2, <3>3
  <2>2. QED
    BY <1>0, <2>1 DEF Typing, Companions
<1>2. c.document \in Documents(U) /\ \A id \in DOMAIN c.applies : c.applies[id] \in Pendings(U)
  BY DocumentIs, OutstandingIs DEF Companions
<1>3. /\ e.document.text = ApplyChange(c.document.text, change) /\ c.document.text \in Seq(U)
      /\ Units(c.document.text) \subseteq Units(e.document.text) \cup E
  BY <1>1, <1>2, TakeText, SparedUnits
<1>4. CASE c.flight # NoFlight
  <2>1. Flying(c, E)
    BY <1>4 DEF Sound
  <2>2. \A id \in DOMAIN e.applies : Reaches(e.document, e.flight, e.applies[id], E)
    BY <1>1, <1>2, <2>1, ReachesOn DEF Flying
  <2>3. CASE e.document.text = e.replica
    <3>1. d = ResumeSave(e)
      BY <1>1, <2>3 DEF DocumentChanged
    <3>2. Matches(e, d)
      BY <1>1, <3>1, SavesMatch
    <3>3. ASSUME ~e.pending /\ ~e.backstop
          PROVE  \A id \in DOMAIN e.applies : Whole(e.document, e.flight, e.applies[id])
      <4>1. e.document.text = e.flight.replica
        BY <1>1, <2>1, <2>3, <3>3 DEF Flying
      <4>2. \A id \in DOMAIN c.applies : Whole(c.document, c.flight, c.applies[id])
        BY <1>1, <2>1, <3>3 DEF Flying
      <4>3. QED
        BY <1>1, <1>2, <4>1, <4>2, WholeOn
    <3>4. Flying(e, E)
      BY <1>1, <2>1, <2>2, <3>3 DEF Flying
    <3>5. Sound(e, E)
      BY <1>1, <1>4, <3>4 DEF Sound
    <3>6. Careful(c, e, E)
      BY <1>1 DEF Careful
    <3>7. QED
      BY <3>2, <3>5, <3>6, MatchesSound, CarefulAfter
  <2>4. CASE e.document.text # e.replica
    <3> DEFINE p == PauseSave(e)
               flight == [p.flight EXCEPT !.moved = TRUE]
    <3>1. d = [p EXCEPT !.flight.moved = TRUE, !.pending = TRUE]
      BY <1>1, <1>4, <2>4 DEF DocumentChanged
    <3>2. p \in Companions(U) /\ Matches(e, p)
      BY <1>1, SavesMatch
    <3> HIDE DEF p
    <3>3. p.flight \in Flights(U)
      BY <1>1, <1>4, <3>2, FlightIs DEF Companions, Matches
    <3>4. /\ flight \in Flights(U) /\ flight.expected = p.flight.expected
          /\ flight.replica = p.flight.replica /\ flight.before = p.flight.before
      BY <3>3 DEF Flights
    <3>5. flight # NoFlight
      BY <3>4, FlightIs
    <3>6. d = [p EXCEPT !.flight = flight, !.pending = TRUE]
      BY <3>1, <3>2 DEF Companions
    <3> HIDE DEF flight
    <3>7. /\ d.document = p.document /\ d.open = p.open /\ d.applies = p.applies
          /\ d.flight = flight /\ d.pending = TRUE /\ d.replica = p.replica
          /\ d.refused = p.refused /\ d.unshared = p.unshared /\ d.save = p.save
      BY <3>2, <3>6 DEF Companions
    <3>8. /\ d.document = e.document /\ d.open = e.open /\ d.applies = e.applies
          /\ d.replica = e.replica /\ d.refused = e.refused /\ d.unshared = e.unshared
          /\ (d.save = "none" <=> e.save = "none")
          /\ d.flight.expected = e.flight.expected /\ d.flight.replica = e.flight.replica
          /\ d.flight.before = e.flight.before
      BY <3>2, <3>4, <3>7 DEF Matches
    <3>9. \A id \in DOMAIN d.applies : Reaches(d.document, d.flight, d.applies[id], E)
      BY <2>2, <3>8 DEF Reaches
    <3>10. Flying(d, E)
      BY <1>1, <2>1, <3>7, <3>8, <3>9 DEF Flying
    <3>11. Sound(d, E)
      BY <3>5, <3>7, <3>10 DEF Sound
    <3>12. Careful(c, d, E)
      BY <1>1, <3>8 DEF Careful
    <3>13. QED
      BY <3>11, <3>12
  <2>5. QED
    BY <2>3, <2>4
<1>5. CASE c.flight = NoFlight
  <2>1. Resting(c, E)
    BY <1>5 DEF Sound
  <2>2. CASE e.document.text = e.replica
    <3>1. d = ResumeSave(e)
      BY <1>1, <2>2 DEF DocumentChanged
    <3>2. Matches(e, d)
      BY <1>1, <3>1, SavesMatch
    <3>3. Sound(e, E)
      BY <1>1, <1>5, <2>2 DEF Sound, Resting, Square, Settled
    <3>4. Careful(c, e, E)
      BY <1>1 DEF Careful
    <3>5. QED
      BY <3>2, <3>3, <3>4, MatchesSound, CarefulAfter
  <2>3. CASE e.document.text # e.replica
    <3> DEFINE m == MoveSave(e)
               p == Publish(m)
    <3>1. d = IF Refuses(m) THEN p ELSE [p EXCEPT !.backstop = TRUE]
      <4>1. m.document = e.document /\ m.replica = e.replica
        BY <1>1, SavesMatch DEF Matches
      <4>2. Refuses(m) <=> Refuses(e)
        BY <4>1 DEF Refuses
      <4>3. QED
        BY <1>1, <1>5, <2>3, <4>2 DEF DocumentChanged
    <3>2. m \in Companions(U) /\ Matches(e, m)
      BY <1>1, SavesMatch
    <3> HIDE DEF m
    <3>3. m.document # NoDocument
      BY <1>1, <3>2 DEF Matches
    <3>4. p \in Companions(U) /\ Published(m, p)
      BY <3>2, <3>3, PublishIs
    <3> HIDE DEF p
    <3>5. Units(c.replica) \subseteq Units(e.document.text) \cup E \cup c.refused
      BY <1>3, <2>1 DEF Resting, Square
    <3>6. CASE Refuses(m)
      <4>1. d = p
        BY <3>1, <3>6
      <4>2. /\ d.document = e.document /\ d.open = c.open /\ d.flight = NoFlight
            /\ d.replica = c.replica /\ d.refused = c.refused /\ ~d.backstop
            /\ d.refusedSeed
            /\ d.unshared = c.unshared \cup (Units(e.document.text) \ Units(c.replica))
            /\ (d.save = "none" => c.save = "none")
        BY <1>1, <1>5, <3>2, <3>4, <3>6, <4>1, ZenonT(60) DEF Published, Matches
      <4>3. Refuses(d)
        BY <1>1, <3>2, <3>6, <4>2 DEF Matches, Refuses
      <4>4. Sound(d, E)
        BY <3>5, <4>2, <4>3 DEF Sound, Resting, Square, Settled
      <4>5. Careful(c, d, E)
        BY <4>2 DEF Careful
      <4>6. QED
        BY <4>4, <4>5
    <3>7. CASE ~Refuses(m)
      <4>1. d = [p EXCEPT !.backstop = TRUE]
        BY <3>1, <3>7
      <4>2. /\ d.document = p.document /\ d.open = p.open /\ d.flight = p.flight
            /\ d.replica = p.replica /\ d.refused = p.refused /\ d.backstop
            /\ d.unshared = p.unshared /\ d.save = p.save
        BY <3>4, <4>1 DEF Companions
      <4>3. /\ d.document = e.document /\ d.open = c.open /\ d.flight = NoFlight
            /\ d.replica = d.document.text /\ d.refused = c.refused
            /\ d.unshared = c.unshared /\ (d.save = "none" => c.save = "none")
        BY <1>1, <1>5, <3>2, <3>4, <3>7, <4>2 DEF Published, Matches
      <4>4. Sound(d, E)
        BY <4>2, <4>3 DEF Sound, Resting, Square, Settled
      <4>5. Careful(c, d, E)
        BY <3>5, <4>3 DEF Careful
      <4>6. QED
        BY <4>4, <4>5
    <3>8. QED
      BY <3>6, <3>7
  <2>4. QED
    BY <2>2, <2>3
<1>6. QED
  BY <1>4, <1>5

(* The answered apply is off the list, and nothing else has changed.       *)
AnsweredFrom(c, id, a) ==
    /\ a.document = c.document /\ a.open = c.open /\ a.flight = c.flight
    /\ a.replica = c.replica /\ a.pending = c.pending /\ a.backstop = c.backstop
    /\ a.refused = c.refused /\ a.unshared = c.unshared /\ a.save = c.save
    /\ DOMAIN a.applies = DOMAIN c.applies \ {id}

LEMMA AnsweredIs ==
    ASSUME NEW U, NEW c \in Companions(U), NEW id, NEW a, a = Answered(c, id)
    PROVE  a \in Companions(U) /\ AnsweredFrom(c, id, a)
<1> DEFINE less == [i \in DOMAIN c.applies \ {id} |-> c.applies[i]]
<1>1. a \in Companions(U)
  BY AnsweredDoes
<1>2. a = [c EXCEPT !.applies = less]
  BY DEF Answered, Companions
<1>3. DOMAIN less = DOMAIN c.applies \ {id}
  OBVIOUS
<1> HIDE DEF less
<1>4. QED
  BY <1>1, <1>2, <1>3 DEF AnsweredFrom, Companions

LEMMA TakenSound ==
    ASSUME NEW U, NEW c \in Companions(U), NEW E, Flying(c, E), c.open,
           c.document # NoDocument, c.flight # NoFlight,
           NEW id \in DOMAIN c.applies, DOMAIN c.applies = {id}, Took(c, id, TRUE),
           NEW e, e = [Answered(c, id) EXCEPT !.document = Take(@, c.applies[id].change)],
           NEW d, d = Settle(e, TRUE)
    PROVE  Sound(d, E) /\ Careful(c, d, E)
<1> DEFINE pending == c.applies[id]
           change == pending.change
<1>1. PICK a \in Companions(U) : a = Answered(c, id) /\ AnsweredFrom(c, id, a)
  BY AnsweredIs
<1>2. c.document \in Documents(U) /\ pending \in Pendings(U) /\ c.flight \in Flights(U)
  BY DocumentIs, FlightIs, OutstandingIs DEF Companions
<1>3. change \in Changes(U)
  BY <1>2 DEF Pendings
<1>4. /\ Take(c.document, change) \in Documents(U)
      /\ Take(c.document, change) # NoDocument
      /\ Take(c.document, change).text = ApplyChange(c.document.text, change)
      /\ c.document.text \in Seq(U)
  BY <1>2, <1>3, TakeTyped, DocumentIs, TakeText
<1>5. PICK new \in Documents(U) : new = Take(c.document, change)
  BY <1>4
<1>6. e = [a EXCEPT !.document = new]
  BY <1>1, <1>5 DEF AnsweredFrom, Companions
<1>7. /\ e \in Companions(U) /\ e.document = new /\ e.open = a.open /\ e.flight = a.flight
      /\ e.replica = a.replica /\ e.pending = a.pending /\ e.backstop = a.backstop
      /\ e.refused = a.refused /\ e.unshared = a.unshared /\ e.save = a.save
      /\ e.applies = a.applies
  BY <1>1, <1>6, ZenonT(60) DEF Companions
<1>8. /\ pending.withheld = <<>> /\ Reaches(c.document, c.flight, pending, E)
  BY DEF Flying, Reaches, Took
<1>9. Rebase(pending.change, pending.withheld) = [placed |-> TRUE, change |-> change]
  BY <1>3, <1>8, RebaseNone
<1> HIDE DEF pending, change
<1>10. /\ change.end <= Len(c.document.text)
       /\ Units(c.flight.replica) \subseteq Units(ApplyChange(c.document.text, change)) \cup E
  BY <1>8, <1>9 DEF Reaches
<1>11. ASSUME ~c.pending /\ ~c.backstop PROVE new.text # c.flight.before
  <2>1. Whole(c.document, c.flight, pending)
    BY <1>11 DEF Flying, pending
  <2>2. /\ change.end - change.start = Len(c.flight.before)
        /\ change.text = c.flight.replica
        /\ c.document.text \in {c.flight.before, c.flight.replica}
    BY <1>9, <2>1 DEF Whole
  <2>3. c.flight.before \in Seq(U) /\ c.flight.replica \in Seq(U)
    BY <1>2 DEF Flights
  <2>4. c.flight.before # c.flight.replica
    BY DEF Flying
  <2>5. QED
    BY <1>3, <1>4, <1>5, <1>10, <2>2, <2>3, <2>4, WholeChanges
<1> DEFINE l == Landed(e)
<1>12. /\ l.document = new /\ l.open = c.open /\ l.flight = NoFlight
       /\ l.replica = c.replica /\ l.pending = c.pending /\ l.backstop = c.backstop
       /\ l.unshared = c.unshared /\ DOMAIN l.applies = {}
  <2>1. /\ l.document = e.document /\ l.open = e.open /\ l.flight = NoFlight
        /\ l.replica = e.replica /\ l.pending = e.pending /\ l.backstop = e.backstop
        /\ l.unshared = e.unshared /\ l.applies = e.applies
    BY <1>7 DEF Landed, Companions
  <2>2. QED
    BY <1>1, <1>7, <2>1 DEF AnsweredFrom
<1> HIDE DEF l
<1>13. new # NoDocument /\ e.flight = c.flight
  BY <1>1, <1>4, <1>5, <1>7 DEF AnsweredFrom
<1>14. Arrives(l, c.flight, E)
  BY <1>4, <1>5, <1>10, <1>11, <1>12, <1>13 DEF Arrives, Flying, Belongs
<1>15. Sound(d, E) /\ Careful(e, d, E)
  BY <1>7, <1>13, <1>14, AppliedSound DEF l
<1>16. /\ e.open = c.open /\ e.replica = c.replica /\ e.refused = c.refused
       /\ e.unshared = c.unshared /\ e.save = c.save
  BY <1>1, <1>7 DEF AnsweredFrom
<1>17. QED
  BY <1>15, <1>16 DEF Careful

LEMMA AgainSound ==
    ASSUME NEW U, NEW c \in Companions(U), NEW E, Flying(c, E), c.open,
           c.document # NoDocument, c.flight # NoFlight,
           NEW id \in DOMAIN c.applies, DOMAIN c.applies = {id}, NEW moved,
           moved = Rebase(c.applies[id].change, c.applies[id].withheld), moved.placed,
           c.applies[id].offered < MaxRebasedOffers, NEW next,
           next = [c.applies[id] EXCEPT !.change = moved.change, !.version = c.document.version,
                                        !.withheld = <<>>, !.offered = @ + 1],
           NEW d, d = Offer(Answered(c, id), next)
    PROVE  Sound(d, E) /\ Careful(c, d, E)
<1> DEFINE pending == c.applies[id]
<1>1. PICK a \in Companions(U) : a = Answered(c, id) /\ AnsweredFrom(c, id, a)
  BY AnsweredIs
<1>2. c.document \in Documents(U) /\ pending \in Pendings(U)
  BY DocumentIs, OutstandingIs DEF Companions
<1>3. moved \in Moved(U)
  BY <1>2, RebaseTyped DEF Pendings
<1>4. moved.change \in Changes(U) /\ c.document.version \in Nat
  BY <1>2, <1>3 DEF Moved, Documents
<1>5. /\ next.change = moved.change /\ next.version = c.document.version
      /\ next.withheld = <<>>
  BY <1>2 DEF Pendings
<1>6. /\ Reaches(c.document, c.flight, pending, E)
      /\ ~c.pending /\ ~c.backstop => Whole(c.document, c.flight, pending)
  BY DEF Flying
<1>7. Rebase(next.change, next.withheld) = moved
  <2>1. Rebase(next.change, next.withheld) = [placed |-> TRUE, change |-> moved.change]
    BY <1>4, <1>5, RebaseNone
  <2>2. moved = [placed |-> TRUE, change |-> moved.change]
    BY <1>3 DEF Moved
  <2>3. QED
    BY <2>1, <2>2
<1> HIDE DEF pending
<1>8. Reaches(c.document, c.flight, next, E)
  <2>1. Rebase(pending.change, pending.withheld) = moved
    BY DEF pending
  <2>2. /\ moved.change.end <= Len(c.document.text)
        /\ Units(c.flight.replica)
              \subseteq Units(ApplyChange(c.document.text, moved.change)) \cup E
    BY <1>6, <2>1 DEF Reaches
  <2>3. next.version <= c.document.version /\ next.withheld = <<>>
    BY <1>4, <1>5
  <2>4. QED
    BY <1>7, <2>2, <2>3 DEF Reaches
<1>9. ~c.pending /\ ~c.backstop => Whole(c.document, c.flight, next)
  BY <1>6, <1>7 DEF Whole, pending
<1> DEFINE new == a.nextId + 1
           more == [i \in DOMAIN a.applies \cup {new} |-> IF i = new THEN next ELSE a.applies[i]]
           said == Append(a.sent, [type |-> "applyEdit", id |-> new, change |-> next.change,
                                   version |-> next.version, base |-> a.document.text])
<1>10. d = [a EXCEPT !.nextId = new, !.applies = more, !.sent = said]
  BY <1>1 DEF Offer, Companions
<1>11. DOMAIN a.applies = {}
  BY <1>1 DEF AnsweredFrom
<1>12. DOMAIN more = {new} /\ more[new] = next
  BY <1>11
<1> HIDE DEF new, more, said
<1>13. /\ d.document = a.document /\ d.open = a.open /\ d.flight = a.flight
       /\ d.replica = a.replica /\ d.pending = a.pending /\ d.backstop = a.backstop
       /\ d.refused = a.refused /\ d.unshared = a.unshared /\ d.save = a.save
       /\ d.applies = more
  <2>1. d.document = a.document /\ d.open = a.open /\ d.flight = a.flight
        /\ d.applies = more
    BY <1>10 DEF Companions
  <2>2. d.replica = a.replica /\ d.pending = a.pending /\ d.backstop = a.backstop
    BY <1>10 DEF Companions
  <2>3. d.refused = a.refused /\ d.unshared = a.unshared /\ d.save = a.save
    BY <1>10 DEF Companions
  <2>4. QED
    BY <2>1, <2>2, <2>3
<1>14. /\ d.document = c.document /\ d.open = c.open /\ d.flight = c.flight
       /\ d.replica = c.replica /\ d.pending = c.pending /\ d.backstop = c.backstop
       /\ d.refused = c.refused /\ d.unshared = c.unshared /\ d.save = c.save
       /\ d.applies = more
  BY <1>1, <1>13, ZenonT(60) DEF AnsweredFrom
<1>15. Flying(d, E)
  <2>1. ASSUME NEW i \in DOMAIN d.applies
        PROVE  Reaches(d.document, d.flight, d.applies[i], E)
    <3>1. d.applies[i] = next
      BY <1>12, <1>14, <2>1
    <3>2. d.document = c.document /\ d.flight = c.flight
      BY <1>14
    <3>3. QED
      BY <1>8, <3>1, <3>2
  <2>2. ASSUME ~d.pending, ~d.backstop, NEW i \in DOMAIN d.applies
        PROVE  Whole(d.document, d.flight, d.applies[i])
    <3>1. Whole(c.document, c.flight, next)
      BY <1>9, <1>14, <2>2
    <3>2. d.applies[i] = next
      BY <1>12, <1>14, <2>2
    <3>3. d.document = c.document /\ d.flight = c.flight
      BY <1>14
    <3>4. QED
      BY <3>1, <3>2, <3>3
  <2>3. d.flight.expected = d.flight.replica /\ d.flight.before # d.flight.replica
    BY <1>14 DEF Flying
  <2>4. d.unshared = {} /\ d.save # "none"
    BY <1>14 DEF Flying
  <2>5. ~d.pending => d.replica = d.flight.replica /\ ~d.flight.moved
    BY <1>14 DEF Flying
  <2>6. QED
    BY <2>1, <2>2, <2>3, <2>4, <2>5 DEF Flying
<1>16. QED
  BY <1>14, <1>15 DEF Sound, Careful

LEMMA AnswerSound ==
    ASSUME NEW U, NEW c \in Companions(U), NEW E, Sound(c, E),
           c.open => c.document # NoDocument /\ Belongs(c),
           ~c.open => c.document = NoDocument /\ c.flight = NoFlight,
           SerialsDiffer(c), NEW id \in DOMAIN c.applies, NEW ok \in BOOLEAN,
           NEW d, d = SettleApply(c, id, ok)
    PROVE  Sound(d, E) /\ Careful(c, d, E)
<1> DEFINE pending == c.applies[id]
           answered == Answered(c, id)
           current == c.document # NoDocument /\ c.document.version = pending.version
           moved == Rebase(pending.change, pending.withheld)
           again == /\ ~ok /\ c.document # NoDocument /\ ~current
                    /\ pending.offered < MaxRebasedOffers
                    /\ moved.placed
           next == [pending EXCEPT !.change = moved.change, !.version = c.document.version,
                                   !.withheld = <<>>, !.offered = @ + 1]
           taken == [answered EXCEPT !.document = Take(@, pending.change)]
<1>1. d = CASE ok /\ current -> Resolve(taken, pending, TRUE)
            [] again -> Offer(answered, next)
            [] OTHER -> Resolve(answered, pending, FALSE)
  BY DEF SettleApply, Answered
<1>2. PICK a \in Companions(U) : a = answered /\ AnsweredFrom(c, id, a)
  BY AnsweredIs
<1>3. again => ~(ok /\ current)
  OBVIOUS
<1>4. CASE ~c.open
  <2>1. ~current /\ ~again
    BY <1>4
  <2>2. d = Resolve(a, pending, FALSE)
    BY <1>1, <1>2, <2>1
  <2>3. d = a
    BY <1>2, <1>4, <2>2 DEF Resolve, AnsweredFrom
  <2>4. QED
    BY <1>2, <1>4, <2>3 DEF AnsweredFrom, Sound, Careful
<1>5. CASE c.open
  <2>1. c.document # NoDocument /\ c.flight # NoFlight /\ pending.serial = c.flight.serial
    BY <1>5 DEF Belongs
  <2>2. DOMAIN c.applies = {id}
    BY <1>5 DEF Belongs, SerialsDiffer
  <2>3. Flying(c, E)
    BY <1>5, <2>1 DEF Sound
  <2>4. CASE ok /\ current
    <3>1. d = Resolve(taken, pending, TRUE)
      BY <1>1, <2>4
    <3>2. taken.flight = c.flight
      BY <1>2 DEF AnsweredFrom, Companions
    <3>3. Took(c, id, TRUE)
      BY <2>4 DEF Took
    <3> HIDE DEF taken, pending
    <3>4. d = Settle(taken, TRUE)
      BY <2>1, <3>1, <3>2 DEF Resolve
    <3>5. QED
      BY <1>5, <2>1, <2>2, <2>3, <3>3, <3>4, TakenSound DEF taken, pending
  <2>5. CASE again
    <3>1. d = Offer(answered, next)
      BY <1>1, <1>3, <2>5
    <3>2. moved.placed /\ pending.offered < MaxRebasedOffers
      BY <2>5
    <3>3. QED
      BY <1>5, <2>1, <2>2, <2>3, <3>1, <3>2, AgainSound
  <2>6. CASE ~(ok /\ current) /\ ~again
    <3>1. d = Resolve(a, pending, FALSE)
      BY <1>1, <1>2, <2>6
    <3>2. d = Settle(a, FALSE)
      BY <1>2, <2>1, <3>1 DEF Resolve, AnsweredFrom
    <3>3. a.document # NoDocument /\ a.open /\ DOMAIN a.applies = {} /\ a.unshared = {}
      BY <1>2, <1>5, <2>1, <2>2, <2>3 DEF AnsweredFrom, Flying
    <3>4. Sound(d, E) /\ Careful(a, d, E)
      BY <1>2, <3>2, <3>3, RefusedSound
    <3>5. QED
      BY <1>2, <3>4 DEF AnsweredFrom, Careful
  <2>7. QED
    BY <2>4, <2>5, <2>6
<1>6. QED
  BY <1>4, <1>5

(***************************************************************************)
(* One document that is open once: while nothing is opened again or moved  *)
(* to the mirror's file, no hold is asked for, every offer is the one of   *)
(* the flight, and a close is the last that is heard of the document.      *)
(***************************************************************************)
Orderly(c) ==
    /\ c.opening = 0
    /\ c.open => c.document # NoDocument /\ Belongs(c)
    /\ ~c.open => c.document = NoDocument /\ c.flight = NoFlight
Regime ==
    /\ Orderly(companion)
    /\ ~Said(toCompanion, "open") /\ ~Said(companion.sent, "openRefused")
    /\ front.shared <=> companion.open /\ ~Said(toCompanion, "close")
(* The steps that are left then.                                           *)
Proceeds ==
    \/ Types \/ Locks \/ (LetsGo /\ companion' = companion) \/ Agrees \/ Declines \/ Writes
    \/ HearsChange \/ HearsApplied \/ HearsSaved \/ HearsClose \/ Works \/ Saves

LEMMA ReconciledOrderly ==
    ASSUME NEW c, NEW d, Orderly(c), Reconciled(c, d)
    PROVE  Orderly(d)
<1>1. c.open => Belongs(d)
  BY ReconciledBelongs DEF Orderly
<1>2. CASE Keeps(c, d)
  BY <1>1, <1>2 DEF Keeps, KeepsPath, KeepsWire, Orderly
<1>3. CASE Issued(c, d)
  BY <1>1, <1>3 DEF Issued, Offered, KeepsPath, Orderly
<1>4. QED
  BY <1>2, <1>3 DEF Reconciled

LEMMA ChangedOrderly ==
    ASSUME NEW U, NEW c \in Companions(U), Orderly(c), NEW change \in Changes(U),
           NEW d, d = Changed(c, change)
    PROVE  Orderly(d)
<1>1. /\ SameOffers(c, d) /\ SameFlight(c, d)
      /\ d.open = c.open /\ d.opening = c.opening
      /\ d.document = NoDocument <=> c.document = NoDocument
  BY ChangedDoes
<1>2. Belongs(c) => Belongs(d)
  BY <1>1 DEF SameOffers, SameFlight, Belongs
<1>3. QED
  BY <1>1, <1>2 DEF Orderly, SameFlight

LEMMA AnswerOrderly ==
    ASSUME NEW U, NEW c \in Companions(U), Orderly(c), SerialsDiffer(c),
           NEW id \in DOMAIN c.applies, NEW ok \in BOOLEAN, NEW d, d = SettleApply(c, id, ok)
    PROVE  Orderly(d)
<1> DEFINE r == Read(c, id, ok)
           serial == c.applies[id].serial
<1>1. c.open => c.document # NoDocument
  BY DEF Orderly
<1>2. /\ r \in Companions(U)
      /\ DOMAIN r.applies = DOMAIN c.applies \ {id}
      /\ \A i \in DOMAIN c.applies \ {id} : r.applies[i] = c.applies[i]
      /\ r.open = c.open /\ r.opening = c.opening /\ r.flight = c.flight
      /\ r.document = NoDocument <=> c.document = NoDocument
  BY <1>1, ReadDoes
<1>3. Resolves(r, serial, d) \/ OfferedAgain(r, serial, d)
  BY <1>1, SettleApplyDoes
<1> HIDE DEF r
<1>4. CASE c.open
  <2>1. DOMAIN r.applies = {} /\ c.flight # NoFlight /\ c.flight.serial = serial
    BY <1>2, <1>4 DEF Orderly, Belongs, SerialsDiffer
  <2> HIDE DEF serial
  <2>2. CASE Resolves(r, serial, d)
    <3> DEFINE e == Landed(r)
    <3>1. /\ e.open = r.open /\ e.opening = r.opening /\ e.document = r.document
          /\ e.applies = r.applies
      BY <1>2 DEF Landed, Companions
    <3>2. Reconciled(e, d)
      BY <1>2, <2>1, <2>2 DEF Resolves
    <3> HIDE DEF e
    <3>3. Orderly(e)
      BY <1>2, <1>4, <2>1, <3>1 DEF Orderly, Belongs
    <3>4. QED
      BY <3>2, <3>3, ReconciledOrderly
  <2>3. CASE OfferedAgain(r, serial, d)
    <3>1. /\ d.open = r.open /\ d.opening = r.opening /\ d.document = r.document
          /\ d.flight = r.flight
          /\ DOMAIN d.applies = DOMAIN r.applies \cup {r.nextId + 1}
          /\ d.applies[r.nextId + 1].serial = serial
      BY <2>3 DEF OfferedAgain, KeepsPath, Offered
    <3>2. Belongs(d)
      BY <1>2, <2>1, <3>1 DEF Belongs
    <3>3. QED
      BY <1>2, <1>4, <3>1, <3>2 DEF Orderly
  <2>4. QED
    BY <1>3, <2>2, <2>3
<1>5. CASE ~c.open
  <2>1. c.document = NoDocument /\ c.flight = NoFlight
    BY <1>5 DEF Orderly
  <2>2. d = r
    BY <1>2, <1>3, <2>1 DEF Resolves, OfferedAgain, Offered
  <2>3. QED
    BY <1>2, <1>5, <2>1, <2>2 DEF Orderly
<1>6. QED
  BY <1>4, <1>5

(* What a step of either side says to the other.                           *)
LEMMA ProceedsPipes ==
    ASSUME Wired, Moves, Proceeds
    PROVE  /\ Said(toCompanion', "open") => Said(toCompanion, "open")
           /\ Said(companion'.sent, "openRefused") => Said(companion.sent, "openRefused")
<1>1. /\ toCompanion \in Seq(Messages(AllUnits)) /\ companion \in Companions(AllUnits) /\ Shape
      /\ companion.sent \in Seq(Words(AllUnits))
  BY DEF Wired, Shape, Companions
<1>2. ASSUME NEW m \in Messages(AllUnits), m.type # "open", toCompanion' = Append(toCompanion, m)
      PROVE  Said(toCompanion', "open") => Said(toCompanion, "open")
  BY <1>1, <1>2, SaidMore
<1>3. ASSUME NEW type \in {"applyEdit", "save"}, NextForFront(type)
      PROVE  /\ Head(companion.sent).id \in Nat
             /\ Said(companion'.sent, "openRefused") => Said(companion.sent, "openRefused")
  <2>1. Rests(companion, companion') /\ Head(companion.sent) \in Words(AllUnits)
        /\ Head(companion.sent).type = type
    BY <1>1, <1>3, ReadsRest
  <2>2. QED
    BY <1>3, <2>1 DEF Words, Rests
<1>4. ASSUME toCompanion # <<>>, toCompanion' = Tail(toCompanion)
      PROVE  Said(toCompanion', "open") => Said(toCompanion, "open")
  BY <1>1, <1>4, SaidLess
<1>5. ASSUME Speaks(AllUnits, companion, companion')
      PROVE  Said(companion'.sent, "openRefused") => Said(companion.sent, "openRefused")
  <2>1. SUFFICES ASSUME companion'.sent # companion.sent
                 PROVE  Said(companion'.sent, "openRefused")
                            => Said(companion.sent, "openRefused")
    OBVIOUS
  <2>2. PICK word \in Words(AllUnits) :
            word.type = "applyEdit" /\ companion'.sent = Append(companion.sent, word)
    BY <1>5, <2>1 DEF Speaks, Offers
  <2>3. QED
    BY <1>1, <2>2, SaidMore
<1>6. CASE Types
  <2>1. PICK change \in Changes(AllUnits) : LocalChange(change)
    BY <1>6 DEF Types
  <2> DEFINE m == [type |-> "change", change |-> change]
  <2>2. m \in Messages(AllUnits) /\ m.type # "open"
    BY MessagesAre
  <2>3. toCompanion' = Append(toCompanion, m) /\ companion' = companion
    BY <2>1 DEF LocalChange, Send
  <2> HIDE DEF m
  <2>4. QED
    BY <1>2, <2>2, <2>3
<1>7. CASE Locks
  BY <1>7 DEF Locks
<1>8. CASE LetsGo /\ companion' = companion
  <2> DEFINE m == [type |-> "close"]
  <2>1. m \in Messages(AllUnits) /\ m.type # "open"
    BY MessagesAre
  <2>2. toCompanion' = Append(toCompanion, m)
    BY <1>8 DEF LetsGo, LetGo, Send
  <2> HIDE DEF m
  <2>3. QED
    BY <1>2, <1>8, <2>1, <2>2
<1>9. CASE Agrees \/ Declines
  <2>1. PICK ok \in BOOLEAN : /\ NextForFront("applyEdit")
                              /\ Send([type |-> "applied", id |-> Head(companion.sent).id,
                                       ok |-> ok])
    BY <1>9 DEF Agrees, Declines
  <2> DEFINE m == [type |-> "applied", id |-> Head(companion.sent).id, ok |-> ok]
  <2>2. m \in Messages(AllUnits) /\ m.type # "open"
    BY <1>3, <2>1, MessagesAre
  <2>3. toCompanion' = Append(toCompanion, m)
    BY <2>1 DEF Send
  <2> HIDE DEF m
  <2>4. QED
    BY <1>2, <1>3, <2>1, <2>2, <2>3
<1>10. CASE Writes
  <2>1. PICK ok \in BOOLEAN :
            Send([type |-> "saved", id |-> Head(companion.sent).id, ok |-> ok])
    BY <1>10 DEF Writes
  <2> DEFINE m == [type |-> "saved", id |-> Head(companion.sent).id, ok |-> ok]
  <2>2. NextForFront("save") /\ toCompanion' = Append(toCompanion, m)
    BY <1>10, <2>1 DEF Writes, Send
  <2>3. m \in Messages(AllUnits) /\ m.type # "open"
    BY <1>3, <2>2, MessagesAre
  <2> HIDE DEF m
  <2>4. QED
    BY <1>2, <1>3, <2>2, <2>3
<1>11. CASE HearsChange
  <2>1. toCompanion # <<>> /\ toCompanion' = Tail(toCompanion)
    BY <1>11 DEF HearsChange, Unread
  <2>2. companion'.sent = companion.sent
    BY <1>11, HearsChangeDoes DEF SameOffers
  <2>3. QED
    BY <1>4, <2>1, <2>2
<1>12. CASE HearsApplied
  <2>1. toCompanion # <<>> /\ toCompanion' = Tail(toCompanion)
    BY <1>12 DEF HearsApplied, Unread
  <2>2. Speaks(AllUnits, companion, companion')
    BY <1>12, HearsAppliedDoes
  <2>3. QED
    BY <1>4, <1>5, <2>1, <2>2
<1>13. CASE HearsSaved
  <2>1. toCompanion # <<>> /\ toCompanion' = Tail(toCompanion)
    BY <1>13 DEF HearsSaved, Unread
  <2>2. companion'.sent = companion.sent
    BY <1>13, HearsSavedDoes DEF SameLinks
  <2>3. QED
    BY <1>4, <2>1, <2>2
<1>14. CASE HearsClose
  <2>1. toCompanion # <<>> /\ toCompanion' = Tail(toCompanion)
    BY <1>14 DEF HearsClose, Unread
  <2>2. companion'.sent = companion.sent
    BY <1>14, HearsCloseDoes DEF SameLinks
  <2>3. QED
    BY <1>4, <2>1, <2>2
<1>15. CASE Works
  <2>1. toCompanion' = toCompanion /\ Speaks(AllUnits, companion, companion')
    BY <1>1, <1>15, ReconciledStays DEF Works
  <2>2. QED
    BY <1>5, <2>1
<1>16. CASE Saves
  <2> DEFINE word == [type |-> "save", id |-> companion.nextId + 1]
  <2>1. toCompanion' = toCompanion /\ (companion'.sent = companion.sent
                                       \/ companion'.sent = Append(companion.sent, word))
    BY <1>1, <1>16, SaveFiresDoes DEF Saves
  <2>2. word \in Words(AllUnits) /\ word.type # "openRefused"
    BY <1>1, CountIs DEF Words, Companions
  <2> HIDE DEF word
  <2>3. Said(Append(companion.sent, word), "openRefused") => Said(companion.sent, "openRefused")
    BY <1>1, <2>2, SaidMore
  <2>4. QED
    BY <2>1, <2>3
<1>17. QED
  BY <1>6, <1>7, <1>8, <1>9, <1>10, <1>11, <1>12, <1>13, <1>14, <1>15, <1>16 DEF Proceeds

LEMMA RegimeProceeds ==
    ASSUME Wired, Regime, Moves, ~Opens
    PROVE  Proceeds
<1>1. /\ toCompanion \in Seq(Messages(AllUnits)) /\ companion.sent \in Seq(Words(AllUnits))
  BY DEF Wired, Shape, Companions
<1>2. ~NextForFront("openRefused")
  BY <1>1, SaidLess DEF Regime, NextForFront
<1>3. ~HearsOpen
  BY <1>1, SaidLess DEF Regime, HearsOpen, Unread
<1>4. ~Holds /\ ~Loses
  BY DEF Regime, Orderly, Holds, HoldGranted, Loses, HoldRefused
<1>5. ~Ignores /\ (LetsGo => companion' = companion)
  BY <1>2 DEF Ignores, LetsGo
<1>6. QED
  BY <1>3, <1>4, <1>5 DEF Moves, Proceeds

(* Nothing on the pipe behind a close.                                     *)
LEMMA RegimeShared ==
    ASSUME Wired, Regime, Proceeds, front' \in Fronts(AllUnits)
    PROVE  front'.shared <=> companion'.open /\ ~Said(toCompanion', "close")
<1>1. /\ toCompanion \in Seq(Messages(AllUnits)) /\ companion \in Companions(AllUnits) /\ Shape
      /\ companion.sent \in Seq(Words(AllUnits)) /\ front \in Fronts(AllUnits)
      /\ front.shared <=> companion.open /\ ~Said(toCompanion, "close")
  BY DEF Wired, Shape, Companions, Regime
<1>2. ASSUME front'.shared = front.shared, companion'.open = companion.open,
             Said(toCompanion', "close") <=> Said(toCompanion, "close")
      PROVE  front'.shared <=> companion'.open /\ ~Said(toCompanion', "close")
  BY <1>1, <1>2
<1>3. ASSUME NEW m \in Messages(AllUnits), toCompanion' = Append(toCompanion, m)
      PROVE  Said(toCompanion', "close") <=> Said(toCompanion, "close") \/ m.type = "close"
  BY <1>1, <1>3, SaidMore
<1>4. ASSUME toCompanion # <<>>, toCompanion' = Tail(toCompanion), Head(toCompanion).type # "close"
      PROVE  Said(toCompanion', "close") <=> Said(toCompanion, "close")
  BY <1>1, <1>4, SaidLess
<1>5. CASE Types \/ Locks \/ Agrees \/ Declines \/ Writes \/ HearsSaved
  <2>1. /\ front'.shared = front.shared /\ companion'.open = companion.open
        /\ Said(toCompanion', "close") => Said(toCompanion, "close")
    BY <1>5, MovesRest DEF Rests, Still
  <2>2. \/ toCompanion' = toCompanion
        \/ \E m : toCompanion' = Append(toCompanion, m)
        \/ HearsSaved
    BY <1>5 DEF Types, LocalChange, Locks, Agrees, Declines, Writes, Send
  <2>3. Said(toCompanion, "close") => Said(toCompanion', "close")
    <3>1. ASSUME NEW m, toCompanion' = Append(toCompanion, m), Said(toCompanion, "close")
          PROVE  Said(toCompanion', "close")
      <4>1. PICK k \in 1 .. Len(toCompanion) : toCompanion[k].type = "close"
        BY <3>1 DEF Said
      <4>2. /\ Len(toCompanion') = Len(toCompanion) + 1 /\ Len(toCompanion) \in Nat
            /\ toCompanion'[k] = toCompanion[k]
        BY <1>1, <3>1
      <4>3. QED
        BY <4>1, <4>2 DEF Said
    <3>2. HearsSaved => (Said(toCompanion', "close") <=> Said(toCompanion, "close"))
      BY <1>4 DEF HearsSaved, Unread
    <3>3. QED
      BY <2>2, <3>1, <3>2
  <2>4. QED
    BY <1>2, <2>1, <2>3
<1>6. CASE LetsGo /\ companion' = companion
  <2> DEFINE m == [type |-> "close"]
  <2>1. m \in Messages(AllUnits) /\ m.type = "close"
    BY MessagesAre
  <2>2. toCompanion' = Append(toCompanion, m) /\ front' = [front EXCEPT !.shared = FALSE]
    BY <1>6 DEF LetsGo, LetGo, Send
  <2> HIDE DEF m
  <2>3. ~front'.shared
    BY <1>1, <2>2 DEF Fronts
  <2>4. Said(toCompanion', "close")
    BY <1>3, <2>1, <2>2
  <2>5. QED
    BY <2>3, <2>4
<1>7. CASE HearsChange \/ HearsApplied
  <2>1. toCompanion # <<>> /\ toCompanion' = Tail(toCompanion) /\ front' = front
        /\ Head(toCompanion).type # "close"
    BY <1>7 DEF HearsChange, HearsApplied, Unread
  <2>2. companion'.open = companion.open
    BY <1>7, HearsChangeDoes, HearsAppliedDoes
  <2>3. QED
    BY <1>2, <1>4, <2>1, <2>2
<1>8. CASE HearsClose
  <2>1. /\ toCompanion # <<>> /\ front' = front /\ Head(toCompanion).type = "close"
        /\ ~companion'.open
    BY <1>8, HearsCloseDoes DEF HearsClose, Unread
  <2>2. Said(toCompanion, "close")
    BY <1>1, <2>1, SaidLess
  <2>3. QED
    BY <1>1, <2>1, <2>2
<1>9. CASE Works
  <2>1. /\ toCompanion' = toCompanion /\ front' = front
        /\ KeepsPath(companion, companion')
    BY <1>1, <1>9, ReconciledStays DEF Works
  <2>2. QED
    BY <1>2, <2>1 DEF KeepsPath
<1>10. CASE Saves
  <2>1. /\ toCompanion' = toCompanion /\ front' = front /\ companion'.open = companion.open
    BY <1>1, <1>10, SaveFiresDoes DEF Saves
  <2>2. QED
    BY <1>2, <2>1
<1>11. QED
  BY <1>5, <1>6, <1>7, <1>8, <1>9, <1>10 DEF Proceeds

LEMMA RegimeOrderly ==
    ASSUME Wired, Orderly(companion), Proceeds
    PROVE  Orderly(companion')
<1>1. /\ companion \in Companions(AllUnits) /\ Shape /\ SerialsDiffer(companion)
  BY DEF Wired, Shape, Linked
<1>2. ASSUME NEW type, NextForFront(type)
      PROVE  Orderly(companion')
  <2>1. Untouched(companion, companion')
    BY <1>1, <1>2, NextForFrontDoes
  <2>2. QED
    BY <2>1 DEF Untouched, KeepsPath, Orderly, Belongs
<1>3. CASE Types \/ Locks \/ (LetsGo /\ companion' = companion) \/ Agrees \/ Declines \/ Writes
  BY <1>2, <1>3 DEF Types, LocalChange, Locks, Agrees, Declines, Writes
<1>4. CASE HearsChange
  <2>1. Head(toCompanion).change \in Changes(AllUnits)
    BY <1>1, <1>4, UnreadDoes DEF HearsChange, Messages
  <2>2. QED
    BY <1>1, <1>4, <2>1, ChangedOrderly DEF HearsChange
<1>5. CASE HearsApplied
  BY <1>1, <1>5, HearsAppliedIs, AnswerOrderly
<1>6. CASE HearsSaved
  <2>1. companion' = [companion EXCEPT !.saves = @ \ {Head(toCompanion).id}]
    BY <1>6 DEF HearsSaved, SettleSave
  <2>2. /\ companion'.opening = companion.opening /\ companion'.open = companion.open
        /\ companion'.document = companion.document /\ companion'.flight = companion.flight
        /\ companion'.applies = companion.applies
    BY <1>1, <2>1 DEF Companions
  <2>3. QED
    BY <2>2 DEF Orderly, Belongs
<1>7. CASE HearsClose
  <2>1. companion' = Closed(companion)
    BY <1>7 DEF HearsClose
  <2>2. /\ ~companion'.open /\ companion'.flight = NoFlight
        /\ companion'.document = NoDocument /\ companion'.opening = companion.opening
    BY <1>1, <2>1, ClosedDoes
  <2>3. QED
    BY <2>2 DEF Orderly
<1>8. CASE Works
  BY <1>8, ReconciledOrderly DEF Works
<1>9. CASE Saves
  <2>1. /\ companion'.opening = companion.opening /\ companion'.open = companion.open
        /\ companion'.document = companion.document /\ companion'.flight = companion.flight
        /\ companion'.applies = companion.applies
    BY <1>1, <1>9, SaveFiresDoes DEF Saves
  <2>2. QED
    BY <2>1 DEF Orderly, Belongs
<1>10. QED
  BY <1>3, <1>4, <1>5, <1>6, <1>7, <1>8, <1>9 DEF Proceeds

LEMMA RegimeKept ==
    ASSUME Wired, Regime, Moves, ~Opens, front' \in Fronts(AllUnits)
    PROVE  Proceeds /\ Regime'
<1>1. Proceeds
  BY RegimeProceeds
<1>2. QED
  BY <1>1, ProceedsPipes, RegimeShared, RegimeOrderly DEF Regime

(***************************************************************************)
(* Every step leaves the two texts as the bridge means them to be.         *)
(***************************************************************************)
(* What a step may do to them: the room's text is not dropped unsaid, and  *)
(* what is refused is in the mirror.                                       *)
Keeping(c, d, E) ==
    /\ c.refused \subseteq d.refused
    /\ Units(c.replica) \subseteq Units(d.replica) \cup d.refused \cup E
    /\ \/ d.unshared \subseteq c.unshared
       \/ d.open /\ d.unshared \subseteq c.unshared \cup Units(d.document.text)
    /\ d.save = "none" => c.save = "none" \/ ~d.open \/ Said(d.sent, "save")

LEMMA CarefulKeeping ==
    ASSUME NEW c, NEW d, NEW E, Careful(c, d, E)
    PROVE  Keeping(c, d, E)
BY DEF Careful, Keeping

LEMMA ReadingSound ==
    ASSUME Shape, NEW type, NextForFront(type)
    PROVE  Matches(companion, companion')
<1>1. companion \in Companions(AllUnits)
  BY DEF Shape
<1> DEFINE rest == Tail(companion.sent)
<1>2. companion' = [companion EXCEPT !.sent = rest]
  BY <1>1 DEF NextForFront, Companions
<1> HIDE DEF rest
<1>3. QED
  BY <1>1, <1>2 DEF Matches, Companions

LEMMA SavesSound ==
    ASSUME Shape, SaveFires, NEW E, Sound(companion, E)
    PROVE  Sound(companion', E) /\ Keeping(companion, companion', E)
<1>1. /\ companion \in Companions(AllUnits) /\ companion.sent \in Seq(Words(AllUnits))
      /\ companion.save = "armed"
  BY DEF Shape, Companions, SaveFires
<1>2. CASE \/ companion.document = NoDocument \/ companion.flight # NoFlight
           \/ Malformed(companion)
  <2>1. companion' = [companion EXCEPT !.save = "paused"]
    BY <1>2 DEF SaveFires
  <2>2. Matches(companion, companion')
    BY <1>1, <2>1 DEF Matches, Companions
  <2>3. QED
    BY <2>2, MatchesSound, SharesCareful, CarefulKeeping
<1>3. CASE ~(\/ companion.document = NoDocument \/ companion.flight # NoFlight
             \/ Malformed(companion))
  <2> DEFINE new == companion.nextId + 1
             more == companion.saves \cup {companion.nextId + 1}
             word == [type |-> "save", id |-> companion.nextId + 1]
             said == Append(companion.sent, word)
  <2>1. companion' = [companion EXCEPT !.save = "none", !.nextId = new, !.saves = more,
                                       !.sent = said]
    BY <1>1, <1>3 DEF SaveFires, Companions
  <2>2. word \in Words(AllUnits) /\ word.type = "save"
    BY <1>1, CountIs DEF Words
  <2> HIDE DEF word
  <2>3. Said(said, "save")
    BY <1>1, <2>2, SaidMore
  <2> HIDE DEF new, more, said
  <2>4. /\ companion'.document = companion.document /\ companion'.open = companion.open
        /\ companion'.replica = companion.replica /\ companion'.flight = companion.flight
        /\ companion'.backstop = companion.backstop /\ companion'.attempts = companion.attempts
        /\ companion'.refused = companion.refused /\ companion'.unshared = companion.unshared
        /\ companion'.told = companion.told /\ companion'.refusedSeed = companion.refusedSeed
        /\ companion'.sent = said
    BY <1>1, <2>1 DEF Companions
  <2>5. companion.open => Resting(companion, E)
    BY <1>3 DEF Sound
  <2>6. companion.open => Resting(companion', E)
    BY <2>4, <2>5 DEF Resting, Square, Settled, Refuses
  <2>7. Sound(companion', E)
    BY <1>3, <2>4, <2>6 DEF Sound
  <2>8. Keeping(companion, companion', E)
    BY <2>3, <2>4 DEF Keeping
  <2>9. QED
    BY <2>7, <2>8
<1>4. QED
  BY <1>2, <1>3

LEMMA ClosedSound ==
    ASSUME NEW U, NEW c \in Companions(U), NEW E, NEW d, d = Closed(c)
    PROVE  Sound(d, E) /\ Keeping(c, d, E) /\ d.replica = c.replica
<1> DEFINE e == Calm(c)
           f == Forget(c)
<1>1. e = [c EXCEPT !.attempts = 0, !.told = FALSE]
  BY DEF Calm
<1>2. /\ e \in Companions(U) /\ e.replica = c.replica /\ e.refused = c.refused
      /\ e.unshared = c.unshared
  <2>1. e \in Companions(U)
    BY CalmDoes
  <2> HIDE DEF e
  <2>2. QED
    BY <1>1, <2>1 DEF Companions
<1>3. f = [e EXCEPT !.open = FALSE, !.flight = NoFlight, !.pending = FALSE,
                    !.save = "none", !.backstop = FALSE]
  BY DEF Forget
<1> HIDE DEF e
<1>4. /\ f \in Companions(U) /\ f.replica = e.replica /\ f.refused = e.refused
      /\ f.unshared = e.unshared /\ ~f.open
  BY <1>2, <1>3, ZenonT(60) DEF Companions
<1>5. d = [f EXCEPT !.document = NoDocument, !.refusedSeed = FALSE, !.held = FALSE]
  BY DEF Closed
<1> HIDE DEF f
<1>6. d.replica = f.replica /\ d.refused = f.refused /\ d.unshared = f.unshared /\ ~d.open
  BY <1>4, <1>5 DEF Companions
<1>7. QED
  BY <1>2, <1>4, <1>6 DEF Sound, Keeping

(* The room's own text after an announcement.                              *)
LEMMA RoomSound ==
    ASSUME Shape, Orderly(companion), RoomMoves, Sound(companion, erased')
    PROVE  Sound(companion', erased') /\ Keeping(companion, companion', erased')
<1>1. PICK change \in Changes(AllUnits) :
          PeerEdits(change) /\ Spares(companion.replica, change, erased')
  BY DEF RoomMoves
<1>2. companion \in Companions(AllUnits) /\ companion.replica \in Seq(AllUnits)
  BY DEF Shape, Companions
<1> DEFINE r == ApplyChange(companion.replica, change)
<1>3. r \in Seq(AllUnits)
  BY <1>2, ApplyTyped
<1>4. companion' = Announced([companion EXCEPT !.replica = r])
  BY <1>1 DEF PeerEdits
<1>5. Units(companion.replica) \subseteq Units(r) \cup erased'
  BY <1>1, <1>2, SparedUnits
<1> HIDE DEF r
<1>6. /\ Sound(companion', erased') /\ companion'.replica = r
      /\ companion.refused \subseteq companion'.refused /\ companion'.unshared = {}
      /\ companion'.save = "none" => companion.save = "none"
  BY <1>2, <1>3, <1>4, AnnouncedSound DEF Orderly
<1>7. QED
  BY <1>5, <1>6 DEF Keeping

LEMMA OwnSound ==
    ASSUME Shape, Orderly(companion), OwnEditsAnnounced, NEW E, Sound(companion, E)
    PROVE  Sound(companion', E) /\ Keeping(companion, companion', E)
<1>1. companion \in Companions(AllUnits) /\ companion' = Announced(companion)
  BY DEF Shape, OwnEditsAnnounced
<1>2. PICK r \in Seq(AllUnits) : r = companion.replica
  BY <1>1 DEF Companions
<1>3. [companion EXCEPT !.replica = r] = companion
  BY <1>1, <1>2 DEF Companions
<1>4. /\ Sound(companion', E) /\ companion'.replica = r
      /\ companion.refused \subseteq companion'.refused /\ companion'.unshared = {}
      /\ companion'.save = "none" => companion.save = "none"
  BY <1>1, <1>3, AnnouncedSound DEF Orderly
<1>5. QED
  BY <1>2, <1>4 DEF Keeping

LEMMA TimerSound ==
    ASSUME Shape, Orderly(companion), BackstopFires, NEW E, Sound(companion, E)
    PROVE  /\ Sound(companion', E) /\ Keeping(companion, companion', E)
           /\ SharesSame(companion, companion')
<1>1. companion \in Companions(AllUnits) /\ companion.backstop
  BY DEF Shape, BackstopFires
<1>2. companion.open => companion.document # NoDocument /\ Belongs(companion)
  BY DEF Orderly
<1> DEFINE b == [companion EXCEPT !.backstop = FALSE]
<1>3. companion' =
         CASE b.open /\ b.flight # NoFlight -> [b EXCEPT !.pending = TRUE]
           [] /\ b.open
              /\ b.flight = NoFlight
              /\ b.document # NoDocument
              /\ Malformed(b) -> Reconcile(b)
           [] /\ b.open
              /\ b.flight = NoFlight
              /\ b.document # NoDocument
              /\ ~Malformed(b)
              /\ b.document.text # b.replica ->
                 [Issue(Report(b),
                        Edit(0, Len(b.document.text), b.replica), b.replica)
                    EXCEPT !.save = "armed"]
           [] OTHER -> b
  BY DEF BackstopFires
<1>4. Sound(companion', E) /\ SharesSame(companion, companion')
  BY <1>1, <1>2, <1>3, BackstopSound
<1>5. QED
  BY <1>4, SharesCareful, CarefulKeeping

LEMMA SoundStep ==
    ASSUME Wired, Follows, Orderly(companion), Sound(companion, erased), erased \subseteq erased',
           Proceeds
    PROVE  Sound(companion', erased') /\ Keeping(companion, companion', erased')
<1>1. /\ companion \in Companions(AllUnits) /\ Shape /\ SerialsDiffer(companion)
      /\ toCompanion \in Seq(Messages(AllUnits))
      /\ companion.open => companion.document # NoDocument
  BY DEF Wired, Shape, Linked
<1>2. Sound(companion, erased')
  BY SoundMore
<1>3. ASSUME Matches(companion, companion')
      PROVE  Sound(companion', erased') /\ Keeping(companion, companion', erased')
  BY <1>2, <1>3, MatchesSound, SharesCareful, CarefulKeeping
<1>4. companion' = companion => Matches(companion, companion')
  BY DEF Matches
<1>5. CASE Types \/ Locks \/ (LetsGo /\ companion' = companion) \/ Agrees \/ Declines \/ Writes
  BY <1>1, <1>3, <1>4, <1>5, ReadingSound
     DEF Types, LocalChange, Locks, Agrees, Declines, Writes
<1>6. CASE HearsChange
  <2> DEFINE change == Head(toCompanion).change
  <2>1. change \in Changes(AllUnits) /\ Head(toCompanion).type = "change"
        /\ toCompanion # <<>>
    BY <1>1, <1>6, UnreadDoes DEF HearsChange, Messages
  <2>2. Fairly(companion.document, Head(toCompanion), erased)
    BY <1>1, <2>1, TrailFirst DEF Follows
  <2>3. companion.document # NoDocument /\ Spares(companion.document.text, change, erased')
    BY <2>1, <2>2, FairlyMore DEF Fairly
  <2>4. companion.open /\ Belongs(companion) /\ companion' = Changed(companion, change)
    BY <1>6, <2>3 DEF Orderly, HearsChange
  <2> HIDE DEF change
  <2>5. Sound(companion', erased') /\ Careful(companion, companion', erased')
    BY <1>1, <1>2, <2>1, <2>3, <2>4, ChangedSound
  <2>6. QED
    BY <2>5, CarefulKeeping
<1>7. CASE HearsApplied
  <2> DEFINE id == Head(toCompanion).id
             ok == Head(toCompanion).ok
  <2>1. id \in DOMAIN companion.applies /\ ok \in BOOLEAN
        /\ companion' = SettleApply(companion, id, ok)
    BY <1>7, HearsAppliedIs
  <2> HIDE DEF id, ok
  <2>2. Sound(companion', erased') /\ Careful(companion, companion', erased')
    BY <1>1, <1>2, <2>1, AnswerSound DEF Orderly
  <2>3. QED
    BY <2>2, CarefulKeeping
<1>8. CASE HearsSaved
  <2> DEFINE rest == companion.saves \ {Head(toCompanion).id}
  <2>1. companion' = [companion EXCEPT !.saves = rest]
    BY <1>1, <1>8 DEF HearsSaved, SettleSave, Companions
  <2> HIDE DEF rest
  <2>2. Matches(companion, companion')
    BY <1>1, <2>1 DEF Matches, Companions
  <2>3. QED
    BY <1>3, <2>2
<1>9. CASE HearsClose
  BY <1>1, <1>9, ClosedSound DEF HearsClose
<1>10. CASE Works
  BY <1>1, <1>2, <1>10, RoomSound, OwnSound, TimerSound DEF Works
<1>11. CASE Saves
  BY <1>1, <1>2, <1>11, SavesSound DEF Saves
<1>12. QED
  BY <1>5, <1>6, <1>7, <1>8, <1>9, <1>10, <1>11 DEF Proceeds

(* With no answer and no open on the pipe, what the mirror holds stays in  *)
(* the buffer, but for what is given up.                                   *)
Left(document) == IF document = NoDocument THEN {} ELSE Units(document.text)

LEMMA HearsLeft ==
    ASSUME NEW U, NEW c, NEW document \in Views(U), NEW message \in Messages(U),
           message.type \notin {"open", "applied"}, NEW E, Fairly(document, message, E)
    PROVE  Left(document) \subseteq Left(Hears(c, document, message)) \cup E
<1>1. message.type \in {"change", "close", "saved"}
  BY DEF Messages
<1>2. CASE message.type = "change"
  <2>1. /\ document # NoDocument /\ Spares(document.text, message.change, E)
        /\ Hears(c, document, message) = Take(document, message.change)
        /\ message.change \in Changes(U)
    BY <1>2 DEF Fairly, Hears, Messages
  <2>2. document \in Documents(U)
    BY <2>1 DEF Views
  <2>3. /\ Take(document, message.change).text = ApplyChange(document.text, message.change)
        /\ document.text \in Seq(U) /\ Take(document, message.change) # NoDocument
    BY <2>1, <2>2, TakeText, TakeIs
  <2>4. Units(document.text) \subseteq Units(ApplyChange(document.text, message.change)) \cup E
    BY <2>1, <2>3, SparedUnits
  <2>5. QED
    BY <2>1, <2>3, <2>4 DEF Left
<1>3. CASE message.type = "close"
  BY <1>3 DEF Fairly, Left
<1>4. CASE message.type = "saved"
  BY <1>4 DEF Hears
<1>5. QED
  BY <1>1, <1>2, <1>3, <1>4

LEMMA TrailLeft ==
    ASSUME NEW U, NEW c, NEW p \in Seq(Messages(U)), ~Said(p, "open"), ~Said(p, "applied"),
           NEW f, NEW E, Trailed(U, c, p, f, E)
    PROVE  Left(c.document) \subseteq Left(Seen(f)) \cup E
<1> DEFINE n == Len(p)
           first == Left(c.document)
<1>1. n \in Nat /\ \A i \in 1 .. n : p[i] \in Messages(U)
  BY LenProperties, ElementOfSeq
<1>2. PICK t \in [0 .. n -> Views(U)] : Trail(c, p, f, t, E)
  BY DEF Trailed
<1>3. /\ t[0] = c.document /\ t[n] = Seen(f)
      /\ \A i \in 1 .. n : t[i] = Hears(c, t[i - 1], p[i]) /\ Fairly(t[i - 1], p[i], E)
  BY <1>2 DEF Trail, Steps
<1>4. \A i \in 1 .. n : p[i].type \notin {"open", "applied"}
  BY DEF Said
<1> DEFINE A == {i \in 0 .. n : first \subseteq Left(t[i]) \cup E}
<1>5. 0 \in A
  BY <1>1, <1>3
<1> HIDE DEF n, first
<1>6. ASSUME NEW i \in 1 .. n, i - 1 \in A PROVE i \in A
  <2>1. i \in 0 .. n /\ i - 1 \in 0 .. n /\ first \subseteq Left(t[i - 1]) \cup E
        /\ t[i] = Hears(c, t[i - 1], p[i]) /\ Fairly(t[i - 1], p[i], E)
    BY <1>1, <1>3, <1>6
  <2>2. t[i - 1] \in Views(U)
    BY <1>2, <2>1
  <2>3. Left(t[i - 1]) \subseteq Left(t[i]) \cup E
    BY <1>1, <1>4, <2>1, <2>2, HearsLeft
  <2>4. QED
    BY <2>1, <2>3
<1> HIDE DEF A
<1>7. \A i \in 0 .. n : i \in A
  BY <1>1, <1>5, <1>6, Climb
<1>8. n \in A
  BY <1>1, <1>7
<1>9. QED
  BY <1>3, <1>8 DEF A, first

(* Without an offer out, nothing on the pipe answers one.                  *)
LEMMA NothingAnswered ==
    ASSUME NEW c, NEW p, Linked(c, p), Orderly(c), c.open, c.flight = NoFlight
    PROVE  ~Said(p, "applied")
BY DEF Linked, AnsweredRight, Orderly, Belongs, Said

(* An edit of the room that the front-end takes ends a flight.             *)
LEMMA AgreesFlies ==
    ASSUME Wired, Regime, Agrees, NEW E, Sound(companion, E)
    PROVE  companion.open /\ companion.flight # NoFlight /\ Flying(companion, E)
<1>1. /\ companion.sent \in Seq(Words(AllUnits)) /\ companion.sent # <<>>
      /\ Head(companion.sent).type = "applyEdit" /\ front.shared
  BY NextForFrontDoes DEF Wired, Agrees, Takes
<1>2. 1 \in 1 .. Len(companion.sent) /\ companion.sent[1].type = "applyEdit"
  BY <1>1, TailAt
<1>3. companion.sent[1].id \in DOMAIN companion.applies
  BY <1>2 DEF Wired, Linked, AskedRight
<1>4. companion.open /\ Belongs(companion)
  BY <1>1 DEF Regime, Orderly
<1>5. companion.flight # NoFlight
  BY <1>3, <1>4 DEF Belongs
<1>6. QED
  BY <1>4, <1>5 DEF Sound

(***************************************************************************)
(* What the two sides hold of what was typed.                              *)
(***************************************************************************)
(* What was refused stays in the buffer.                                   *)
Unshared == companion.unshared \ erased \subseteq Units(front.buffer)
(* What the peers typed stays in the room, or is reported.                 *)
Peers == (Units(BaseText) \cup PeerTyped) \ erased
             \subseteq Units(companion.replica) \cup companion.refused
(* What the peers typed is on the disk, unless a write of it is to come.   *)
TwoHands == Units(UserUnits) \cap Units(PeerUnits) = {}
Written ==
    /\ TwoHands /\ front.shared /\ spent["failedSaves"] = 0
    /\ companion.save = "none" /\ ~Said(companion.sent, "save")
    => Units(PeerUnits) \cap Units(front.buffer) \subseteq Units(front.disk)

(* The buffer only ever changes by what is typed and by the room's edits.  *)
LEMMA BufferMoves ==
    ASSUME Shape, Proceeds, front' \in Fronts(AllUnits)
    PROVE  /\ front'.shared => front.shared
           /\ Types \/ Agrees \/ front'.buffer = front.buffer
           /\ Writes \/ front'.disk = front.disk
<1>1. front \in Fronts(AllUnits)
  BY DEF Shape
<1>2. CASE Types
  <2>1. PICK change \in Changes(AllUnits) : LocalChange(change)
    BY <1>2 DEF Types
  <2>2. front.shared
        /\ front' = [front EXCEPT !.buffer = ApplyChange(@, change), !.version = @ + 1]
    BY <2>1 DEF LocalChange
  <2>3. QED
    BY <1>1, <1>2, <2>2 DEF Fronts
<1>3. CASE LetsGo
  BY <1>1, <1>3 DEF LetsGo, LetGo, Fronts
<1>4. CASE Locks \/ Writes
  BY <1>4 DEF Locks, Writes, SameText
<1>5. CASE Agrees
  BY <1>5 DEF Agrees, Takes
<1>6. CASE Declines \/ HearsChange \/ HearsApplied \/ HearsSaved \/ HearsClose \/ Works \/ Saves
  BY <1>6 DEF Declines, HearsChange, HearsApplied, HearsSaved, HearsClose, Unread, Works,
              Saves, SaveFires
<1>7. QED
  BY <1>2, <1>3, <1>4, <1>5, <1>6 DEF Proceeds

(* What is typed over is given up.                                         *)
LEMMA TypesSpares ==
    ASSUME Shape, Types
    PROVE  /\ Units(front.buffer) \subseteq Units(front'.buffer) \cup erased'
           /\ Units(front'.buffer)
                 \subseteq Units(front.buffer) \cup Units(UserUnits) \cup Units(front.disk)
<1>1. PICK change \in Changes(AllUnits) :
          /\ LocalChange(change) /\ Spares(front.buffer, change, erased')
          /\ Units(change.text) \subseteq Units(UserUnits) \cup Units(front.disk)
  BY DEF Types
<1>2. front \in Fronts(AllUnits) /\ front.buffer \in Seq(AllUnits)
  BY DEF Shape, Fronts
<1>3. front'.buffer = ApplyChange(front.buffer, change)
  BY <1>1, <1>2 DEF LocalChange, Fronts
<1>4. /\ Units(front.buffer) \subseteq Units(ApplyChange(front.buffer, change)) \cup erased'
      /\ Units(ApplyChange(front.buffer, change))
            \subseteq Units(front.buffer) \cup Units(change.text)
  BY <1>1, <1>2, SparedUnits
<1>5. QED
  BY <1>1, <1>3, <1>4

(* Both ends of a step.                                                    *)
Stepped ==
    /\ Followed /\ Regime /\ Sound(companion, erased) /\ Proceeds /\ erased \subseteq erased'
    /\ front' \in Fronts(AllUnits) /\ Kept /\ Regime'
    /\ Trailed(AllUnits, companion', toCompanion', front', erased')
    /\ Sound(companion', erased') /\ Keeping(companion, companion', erased')

(* What the companion reports as refused is in the buffer.                 *)
LEMMA NewlyUnshared ==
    ASSUME Stepped, companion'.open, companion'.unshared # {}
    PROVE  Units(companion'.document.text) \subseteq Units(front'.buffer) \cup erased'
<1>1. /\ Orderly(companion') /\ ~Said(toCompanion', "open")
      /\ toCompanion' \in Seq(Messages(AllUnits)) /\ Linked(companion', toCompanion')
  BY DEF Stepped, Regime, Kept
<1>2. companion'.flight = NoFlight
  BY DEF Stepped, Sound, Flying
<1>3. ~Said(toCompanion', "applied")
  BY <1>1, <1>2, NothingAnswered
<1>4. Left(companion'.document) \subseteq Left(Seen(front')) \cup erased'
  BY <1>1, <1>3, TrailLeft DEF Stepped
<1>5. companion'.document # NoDocument
  BY <1>1 DEF Orderly
<1>6. Left(Seen(front')) \subseteq Units(front'.buffer)
  BY DEF Left, Seen
<1>7. QED
  BY <1>4, <1>5, <1>6 DEF Left

LEMMA UnsharedKept ==
    ASSUME Stepped, Unshared
    PROVE  companion'.unshared \ erased' \subseteq Units(front'.buffer)
<1>1. Shape /\ Wired /\ Proceeds /\ front' \in Fronts(AllUnits) /\ Regime
  BY DEF Stepped, Followed, Wired
<1>2. companion.unshared \ erased' \subseteq Units(front.buffer)
  BY DEF Stepped, Unshared
<1>3. CASE Agrees
  <2>1. companion.unshared = {}
    BY <1>1, <1>3, AgreesFlies DEF Stepped, Flying
  <2>2. Matches(companion, companion')
    BY <1>1, <1>3, ReadingSound DEF Agrees
  <2>3. QED
    BY <2>1, <2>2 DEF Matches
<1>4. CASE Types
  <2>1. companion' = companion
    BY <1>4 DEF Types, LocalChange
  <2>2. QED
    BY <1>1, <1>2, <1>4, <2>1, TypesSpares
<1>5. CASE front'.buffer = front.buffer
  <2>1. CASE companion'.unshared \subseteq companion.unshared
    BY <1>2, <1>5, <2>1
  <2>2. CASE ~(companion'.unshared \subseteq companion.unshared)
    <3>1. /\ companion'.open /\ companion'.unshared # {}
          /\ companion'.unshared \subseteq companion.unshared \cup Units(companion'.document.text)
      BY <2>2 DEF Stepped, Keeping
    <3>2. QED
      BY <1>2, <1>5, <3>1, NewlyUnshared
  <2>3. QED
    BY <2>1, <2>2
<1>6. QED
  BY <1>1, <1>3, <1>4, <1>5, BufferMoves

LEMMA PeersKept ==
    ASSUME Stepped, Peers, StepDoes, scenario' = scenario
    PROVE  Peers'
<1>1. Shape /\ companion \in Companions(AllUnits) /\ companion.replica \in Seq(AllUnits)
      /\ Orderly(companion)
  BY DEF Stepped, Followed, Wired, Shape, Regime, Companions
<1>2. /\ companion.refused \subseteq companion'.refused /\ erased \subseteq erased'
      /\ Units(companion.replica)
            \subseteq Units(companion'.replica) \cup companion'.refused \cup erased'
  BY DEF Stepped, Keeping
<1>3. BaseText' = BaseText /\ PeerUnits' = PeerUnits
  BY DEF BaseText, PeerUnits
<1>4. (Units(BaseText) \cup PeerTyped) \ erased'
          \subseteq Units(companion'.replica) \cup companion'.refused
  BY <1>2 DEF Peers
<1> DEFINE n == spent["peerUnits"]
<1>5. n \in Nat
  BY <1>1 DEF Shape, Budgets
<1>6. PeerTyped = {PeerUnits[i] : i \in 1 .. n}
  BY DEF PeerTyped
<1>7. PeerTyped' = {PeerUnits[i] : i \in 1 .. spent'["peerUnits"]}
  BY <1>3 DEF PeerTyped
<1>8. CASE spent'["peerUnits"] = n
  BY <1>3, <1>4, <1>6, <1>7, <1>8 DEF Peers
<1>9. CASE spent'["peerUnits"] # n
  <2>1. RoomMoves
    BY <1>9 DEF StepDoes, Idle, Types
  <2>2. PICK change \in Changes(AllUnits) :
            /\ PeerEdits(change) /\ Spares(companion.replica, change, erased')
            /\ spent'["peerUnits"] = n + 1 /\ PeerUnits[n + 1] \in Units(change.text)
    <3>1. PICK change \in Changes(AllUnits) :
              /\ PeerEdits(change) /\ Spares(companion.replica, change, erased')
              /\ spent'["peerUnits"] = n + 1 /\ change.text = <<PeerUnits[n + 1]>>
      BY <1>9, <2>1 DEF RoomMoves, Inks
    <3>2. PeerUnits[n + 1] \in Units(change.text)
      BY <3>1 DEF Units, ToSet
    <3>3. QED
      BY <3>1, <3>2
  <2> DEFINE r == ApplyChange(companion.replica, change)
  <2>3. r \in Seq(AllUnits) /\ Units(change.text) \subseteq Units(r)
    BY <1>1, <2>2, ApplyTyped, PutIn DEF Spares
  <2>4. companion' = Announced([companion EXCEPT !.replica = r])
    BY <2>2 DEF PeerEdits
  <2> HIDE DEF r
  <2>5. companion'.replica = r
    BY <1>1, <2>3, <2>4, AnnouncedSound DEF Stepped, Orderly
  <2>6. PeerUnits[n + 1] \in Units(companion'.replica)
    BY <2>2, <2>3, <2>5
  <2> HIDE DEF n
  <2>7. PeerTyped' \subseteq PeerTyped \cup {PeerUnits[n + 1]}
    BY <1>5, <1>6, <1>7, <2>2
  <2>8. QED
    BY <1>3, <1>4, <2>6, <2>7 DEF Peers
<1>10. QED
  BY <1>8, <1>9

(* A write the front-end was asked for is asked for until it is made.      *)
LEMMA AskedToWrite ==
    ASSUME Wired, Proceeds, ~Writes, Said(companion.sent, "save")
    PROVE  Said(companion'.sent, "save")
<1>1. /\ companion \in Companions(AllUnits) /\ Shape
      /\ companion.sent \in Seq(Words(AllUnits))
  BY DEF Wired, Shape, Companions
<1>2. CASE Types \/ Locks \/ (LetsGo /\ companion' = companion)
  BY <1>2 DEF Types, LocalChange, Locks
<1>3. CASE Agrees \/ Declines
  <2>1. /\ companion.sent # <<>> /\ Head(companion.sent).type = "applyEdit"
        /\ companion'.sent = Tail(companion.sent)
    BY <1>1, <1>3, NextForFrontDoes DEF Agrees, Declines
  <2>2. QED
    BY <1>1, <2>1, SaidLess
<1>4. ASSUME Speaks(AllUnits, companion, companion') PROVE Said(companion'.sent, "save")
  <2>1. CASE companion'.sent = companion.sent
    BY <2>1
  <2>2. CASE companion'.sent # companion.sent
    <3>1. PICK word \in Words(AllUnits) : companion'.sent = Append(companion.sent, word)
      BY <1>4, <2>2 DEF Speaks
    <3>2. QED
      BY <1>1, <3>1, SaidMore
  <2>3. QED
    BY <2>1, <2>2
<1>5. CASE HearsChange \/ HearsSaved \/ HearsClose
  BY <1>5, HearsChangeDoes, HearsSavedDoes, HearsCloseDoes DEF SameOffers, SameLinks
<1>6. CASE HearsApplied \/ Works
  BY <1>1, <1>4, <1>6, HearsAppliedDoes, ReconciledStays DEF Works
<1>7. CASE Saves
  <2> DEFINE word == [type |-> "save", id |-> companion.nextId + 1]
  <2>1. companion'.sent = companion.sent \/ companion'.sent = Append(companion.sent, word)
    BY <1>1, <1>7, SaveFiresDoes DEF Saves
  <2>2. word \in Words(AllUnits)
    BY <1>1, CountIs DEF Words, Companions
  <2> HIDE DEF word
  <2>3. QED
    BY <1>1, <2>1, <2>2, SaidMore, ZenonT(60)
<1>8. QED
  BY <1>2, <1>3, <1>5, <1>6, <1>7 DEF Proceeds

LEMMA WrittenKept ==
    ASSUME Stepped, Written, SpentIs, scenario' = scenario
    PROVE  Written'
<1>1. /\ Shape /\ Wired /\ Proceeds /\ front' \in Fronts(AllUnits) /\ Regime
      /\ front \in Fronts(AllUnits)
  BY DEF Stepped, Followed, Wired, Shape
<1>2. /\ UserUnits' = UserUnits /\ PeerUnits' = PeerUnits
  BY DEF UserUnits, PeerUnits
<1>3. SUFFICES ASSUME TwoHands, front'.shared, spent'["failedSaves"] = 0,
                      companion'.save = "none", ~Said(companion'.sent, "save")
               PROVE  Units(PeerUnits) \cap Units(front'.buffer) \subseteq Units(front'.disk)
  BY <1>2 DEF Written, TwoHands
<1>4. front.shared
  BY <1>1, <1>3, BufferMoves
<1>5. CASE Writes
  <2>1. front'.buffer = front.buffer
    BY <1>5 DEF Writes, SameText
  <2>2. front'.disk = front.buffer
    BY <1>3, <1>4, <1>5 DEF Writes
  <2>3. QED
    BY <2>1, <2>2
<1>6. CASE ~Writes
  <2>1. spent["failedSaves"] = 0
    <3>1. spent["failedSaves"] \in Nat /\ spent["failedSaves"] <= spent'["failedSaves"]
      BY <1>1 DEF Shape, SpentIs, Budgets
    <3>2. QED
      BY <1>3, <3>1
  <2>2. ~Said(companion.sent, "save")
    BY <1>1, <1>3, <1>6, AskedToWrite
  <2>3. companion'.open
    BY <1>3 DEF Stepped, Regime
  <2>4. companion.save = "none"
    BY <1>3, <2>3 DEF Stepped, Keeping
  <2>5. Units(PeerUnits) \cap Units(front.buffer) \subseteq Units(front.disk)
    BY <1>3, <1>4, <2>1, <2>2, <2>4 DEF Written
  <2>6. front'.disk = front.disk
    BY <1>1, <1>6, BufferMoves
  <2>7. ~Agrees
    BY <1>1, <2>4, AgreesFlies DEF Stepped, Flying
  <2>8. CASE Types
    <3>1. Units(front'.buffer)
              \subseteq Units(front.buffer) \cup Units(UserUnits) \cup Units(front.disk)
      BY <1>1, <2>8, TypesSpares
    <3>2. QED
      BY <1>3, <2>5, <2>6, <3>1 DEF TwoHands
  <2>9. CASE ~Types
    BY <1>1, <2>5, <2>6, <2>7, <2>9, BufferMoves
  <2>10. QED
    BY <2>8, <2>9
<1>7. QED
  BY <1>5, <1>6

(***************************************************************************)
(* All of it holds while the document is open once.                        *)
(***************************************************************************)
Tended == Regime /\ Sound(companion, erased) /\ Unshared /\ Peers /\ Written
Tending == Followed /\ (Undisturbed => Tended)

LEMMA TendingFirst ==
    ASSUME Init
    PROVE  Tending
<1>1. Followed
  BY FollowedFirst
<1>2. Regime
  BY DEF Init, Regime, Orderly, Belongs, Said, NoDocument
<1>3. Sound(companion, erased)
  BY DEF Init, Sound, Resting, Square, Settled
<1>4. Unshared /\ Written
  BY DEF Init, Unshared, Written
<1>5. Peers
  <2>1. spent["peerUnits"] = 0
    BY DEF Init, Budgets
  <2>2. PeerTyped = {}
    BY <2>1 DEF PeerTyped
  <2>3. companion.replica = BaseText
    BY DEF Init
  <2>4. QED
    BY <2>2, <2>3 DEF Peers
<1>6. QED
  BY <1>1, <1>2, <1>3, <1>4, <1>5 DEF Tending, Tended

(* What a step is while the document is open once.                         *)
LEMMA TendingSteps ==
    ASSUME Tending, Followed', StepDoes, Undisturbed, Undisturbed'
    PROVE  Stepped
<1>1. Shape /\ Wired /\ Follows /\ Followed /\ Tended
  BY DEF Tending, Followed, Wired
<1>2. ~Opens
  <2>1. spent'["reopens"] = 0 /\ spent'["remirrors"] = 0
    BY DEF Undisturbed
  <2>2. Opens => spent'["reopens"] > 0 \/ spent'["remirrors"] > 0
    BY DEF Opens
  <2>3. QED
    BY <2>1, <2>2
<1>3. Proceeds /\ Regime'
  BY <1>1, <1>2, RegimeKept DEF Tended, StepDoes
<1>4. Sound(companion', erased') /\ Keeping(companion, companion', erased')
  BY <1>1, <1>3, SoundStep DEF Tended, Regime, StepDoes
<1>5. Kept
  BY <1>1, MovesKeep DEF StepDoes
<1>6. Trailed(AllUnits, companion', toCompanion', front', erased')
  BY <1>1, MovesFollow DEF StepDoes
<1>7. QED
  BY <1>1, <1>3, <1>4, <1>5, <1>6 DEF Stepped, Tended, StepDoes

LEMMA TendingKept ==
    ASSUME Tending, [Next]_vars
    PROVE  Tending'
<1>1. Followed' /\ Followed
  BY FollowedKept DEF Tending
<1>2. CASE UNCHANGED vars
  <2>1. /\ front' = front /\ toCompanion' = toCompanion /\ companion' = companion
        /\ scenario' = scenario /\ erased' = erased /\ spent' = spent
    BY <1>2 DEF vars
  <2>2. /\ BaseText' = BaseText /\ UserUnits' = UserUnits /\ PeerUnits' = PeerUnits
    BY <2>1 DEF BaseText, UserUnits, PeerUnits
  <2>3. PeerTyped' = PeerTyped
    BY <2>1, <2>2 DEF PeerTyped
  <2>4. /\ Unshared' = Unshared /\ Peers' = Peers /\ Written' = Written
        /\ Regime' = Regime /\ Undisturbed' = Undisturbed
    BY <2>1, <2>2, <2>3 DEF Unshared, Peers, Written, TwoHands, Regime, Undisturbed
  <2>5. Sound(companion, erased)' <=> Sound(companion, erased)
    BY <2>1 DEF Sound, Resting, Settled, Refuses, Refused, Granted, MaxShareable
  <2>6. QED
    BY <1>1, <2>4, <2>5 DEF Tending, Tended
<1>3. CASE Next
  <2>1. StepDoes /\ scenario' = scenario /\ Shape /\ Wired /\ Follows
    BY <1>1, <1>3, NextDoes DEF Followed, Wired
  <2>2. SUFFICES ASSUME Undisturbed' PROVE Tended'
    BY <1>1 DEF Tending
  <2>3. Undisturbed
    BY <2>1, <2>2, UndisturbedBefore DEF StepDoes
  <2>4. Tended
    BY <2>3 DEF Tending
  <2>5. Stepped
    BY <1>1, <2>1, <2>2, <2>3, TendingSteps
  <2>6. Unshared'
    BY <2>4, <2>5, UnsharedKept DEF Tended, Unshared
  <2>7. Peers'
    BY <2>1, <2>4, <2>5, PeersKept DEF Tended
  <2>8. Written'
    BY <2>1, <2>4, <2>5, WrittenKept DEF Tended, StepDoes
  <2>9. Sound(companion, erased)'
    BY <2>1, <2>5 DEF Stepped, Sound, Resting, Settled, Refuses, Refused, Granted,
                     MaxShareable
  <2>10. QED
    BY <2>5, <2>6, <2>7, <2>8, <2>9 DEF Tended, Stepped
<1>4. QED
  BY <1>2, <1>3

LEMMA AlwaysTending == Spec => []Tending
<1>1. Init => Tending
  BY TendingFirst
<1>2. Tending /\ [Next]_vars => Tending'
  BY TendingKept
<1>3. QED
  BY <1>1, <1>2, PTL DEF Spec

(* As long as the document was neither opened again nor moved to the       *)
(* mirror's file, text the room refused to carry stays in the buffer it    *)
(* was typed in until it is deleted there or the document's text is next   *)
(* announced as changed, which any edit of a peer's does.  No keystroke,   *)
(* answer, refusal, report or timer takes it away before that.             *)
THEOREM RefusedTextStands ==
    Spec => [](spent.reopens = 0 /\ spent.remirrors = 0 => RefusedTextStays)
<1>1. Tending => (spent.reopens = 0 /\ spent.remirrors = 0 => RefusedTextStays)
  BY DEF Tending, Tended, Undisturbed, Unshared, RefusedTextStays
<1>2. QED
  BY <1>1, AlwaysTending, PTL

(* As long as the document was neither opened again nor moved to the       *)
(* mirror's file, the room loses nothing of what it held or of what the    *)
(* peers typed unless someone deleted it or the companion reported that    *)
(* the buffer does not take it: publishing the buffer's difference never   *)
(* removes a peer's text, in whatever order edits, answers, refusals and   *)
(* the backstop's replacements of the whole document come.                 *)
THEOREM PeerTextStands ==
    Spec => [](spent.reopens = 0 /\ spent.remirrors = 0 => PeerTextKeptUnlessRefused)
<1>1. Tending => (spent.reopens = 0 /\ spent.remirrors = 0 => PeerTextKeptUnlessRefused)
  BY DEF Tending, Tended, Undisturbed, Peers, PeerTextKeptUnlessRefused
<1>2. QED
  BY <1>1, AlwaysTending, PTL

(* And nothing at all while no buffer was reported to refuse the room's    *)
(* text.                                                                   *)
THEOREM PeerTextStandsWhole ==
    Spec => [](spent.reopens = 0 /\ spent.remirrors = 0 /\ companion.refused = {}
                  => PeerTextKept)
<1>1. Tending => (spent.reopens = 0 /\ spent.remirrors = 0 /\ companion.refused = {}
                     => PeerTextKept)
  BY DEF Tending, Tended, Undisturbed, Peers, PeerTextKept
<1>2. QED
  BY <1>1, AlwaysTending, PTL

LEMMA TendingConverges ==
    ASSUME Tending, ResumingHeld, spent.reopens = 0, spent.remirrors = 0, TwoHands
    PROVE  Converged
<1>1. /\ Tended /\ Followed /\ Shape
      /\ companion \in Companions(AllUnits)
  BY DEF Tending, Undisturbed, Followed, Wired, Shape
<1>2. SUFFICES ASSUME Rested
               PROVE  /\ \/ front.buffer = companion.replica
                         \/ companion.told \/ companion.refusedSeed
                      /\ AtRest =>
                            /\ front.buffer = companion.replica
                            /\ spent["failedSaves"] = 0 =>
                                  PeerTyped \cap Units(front.buffer) \subseteq Units(front.disk)
  BY DEF Converged, AtRest
<1>3. /\ toCompanion = <<>> /\ companion.sent = <<>> /\ ~companion.backstop
      /\ companion.save # "armed" /\ companion.flight = NoFlight
      /\ front.shared /\ companion.open
  BY <1>2 DEF Rested, Quiet, Ready
<1>4. companion.document = Seen(front)
  <2>1. PICK t \in [0 .. Len(toCompanion) -> Views(AllUnits)] :
            Trail(companion, toCompanion, front, t, erased)
    BY <1>1 DEF Followed, Follows, Trailed
  <2>2. Len(toCompanion) = 0
    BY <1>3
  <2>3. QED
    BY <2>1, <2>2 DEF Trail
<1>5. companion.document.text = front.buffer
  BY <1>3, <1>4 DEF Seen
<1>6. companion.attempts \in Nat /\ companion.save \in {"none", "armed", "paused"}
  BY <1>1 DEF Companions
<1>7. Settled(companion)
  BY <1>1, <1>3 DEF Tended, Sound, Resting
<1>8. \/ front.buffer = companion.replica
      \/ companion.told \/ companion.refusedSeed
  BY <1>3, <1>5, <1>7 DEF Settled
<1>9. companion.document # NoDocument
  BY <1>1, <1>3 DEF Tended, Regime, Orderly
<1>10. WriteNotForgotten
  BY ResumingWrites
<1>11. SUFFICES ASSUME AtRest
                PROVE  /\ front.buffer = companion.replica
                       /\ spent["failedSaves"] = 0 =>
                             PeerTyped \cap Units(front.buffer) \subseteq Units(front.disk)
  BY <1>8
<1>12. /\ companion.attempts < MaxApplyAttempts /\ ~Refused(front.buffer)
       /\ ~HasLoneSurrogate(companion.replica) /\ Quiet
  BY <1>11 DEF AtRest, Rested
<1>13. front.buffer = companion.replica
  BY <1>3, <1>5, <1>6, <1>7, <1>12, BoundsAreCounts DEF Settled, Refuses
<1>14. companion.save = "none"
  BY <1>3, <1>5, <1>6, <1>9, <1>10, <1>12, <1>13 DEF WriteNotForgotten
<1>15. ~Said(companion.sent, "save")
  BY <1>3 DEF Said
<1>16. PeerTyped \subseteq Units(PeerUnits)
  <2>1. \A k \in 1 .. Limits["peerUnits"] : PeerUnits[k] \in Units(PeerUnits)
    BY <1>1, TypedIs
  <2>2. /\ spent["peerUnits"] \in Nat /\ Limits["peerUnits"] \in Nat
        /\ spent["peerUnits"] <= Limits["peerUnits"]
    BY <1>1, ScenarioIs DEF Shape, Budgets
  <2>3. QED
    BY <2>1, <2>2 DEF PeerTyped
<1>17. spent["failedSaves"] = 0 => Units(PeerUnits) \cap Units(front.buffer) \subseteq Units(front.disk)
  BY <1>1, <1>3, <1>14, <1>15 DEF Tended, Written
<1>18. QED
  BY <1>13, <1>16, <1>17

(* As long as the document was neither opened again nor moved to the       *)
(* mirror's file and the two sides type different units: once nothing is   *)
(* left to do, the buffer holds what the room holds or the person has been *)
(* told that it does not.  It does hold it if nobody gave up, the room can *)
(* carry the buffer and its own text holds no half of a character; what a  *)
(* peer typed is then on the disk as well, unless a write failed.          *)
THEOREM BufferConverges ==
    Spec => [](/\ spent.reopens = 0 /\ spent.remirrors = 0
               /\ Units(UserUnits) \cap Units(PeerUnits) = {}
               => Converged)
<1>1. Init => ResumingHeld
  BY ResumingFirst
<1>2. ResumingHeld /\ [Next]_vars => ResumingHeld'
  BY ResumingKept
<1>3. Tending /\ ResumingHeld =>
          (/\ spent.reopens = 0 /\ spent.remirrors = 0
           /\ Units(UserUnits) \cap Units(PeerUnits) = {}
           => Converged)
  BY TendingConverges DEF TwoHands
<1>4. QED
  BY <1>1, <1>2, <1>3, AlwaysTending, PTL DEF Spec

(***************************************************************************)
(* Nothing lands twice.                                                    *)
(***************************************************************************)
(* The text that an offer leads to where it is still placed holds no unit  *)
(* twice, and units of K alone.                                            *)
Fits(text, pending, K) ==
    LET moved == Rebase(pending.change, pending.withheld)
    IN  moved.placed =>
           /\ moved.change.end <= Len(text)
           /\ Once(ApplyChange(text, moved.change), K)

(* Every text the companion has is such a text, and so is every text that  *)
(* an offer of its would lead to.                                          *)
Lean(c, K) ==
    /\ Once(c.replica, K)
    /\ c.document # NoDocument =>
          /\ Once(c.document.text, K)
          /\ \A id \in DOMAIN c.applies : Fits(c.document.text, c.applies[id], K)

(* A read change leaves what an offer leads to without a unit twice.       *)
LEMMA FitsOn ==
    ASSUME NEW U, NEW text \in Seq(U), NEW pending \in Pendings(U),
           NEW change \in Changes(U), change.end <= Len(text),
           NEW K, NEW L, Fits(text, pending, K), Adds(change, K, L)
    PROVE  Fits(ApplyChange(text, change), Withhold(pending, change), L)
<1> DEFINE later == Withhold(pending, change)
           moved == Rebase(pending.change, pending.withheld)
           on == Rebase(later.change, later.withheld)
           new == ApplyChange(text, change)
<1>1. later.change = pending.change /\ later.withheld = Append(pending.withheld, change)
  BY WithholdIs
<1>2. pending.change \in Changes(U) /\ pending.withheld \in Seq(Changes(U))
  BY DEF Pendings
<1>3. moved \in Moved(U)
  BY <1>2, RebaseTyped
<1>4. on = Through(moved, change)
  BY <1>1, <1>2, RebaseOneMore
<1> HIDE DEF later, moved, on, new
<1>5. ASSUME on.placed
      PROVE  on.change.end <= Len(new) /\ Once(ApplyChange(new, on.change), L)
  <2>1. moved.placed
    BY <1>3, <1>4, <1>5, ThroughIs
  <2>2. moved.change.end <= Len(text) /\ Once(ApplyChange(text, moved.change), K)
    BY <2>1 DEF Fits, moved
  <2>3. moved.change \in Changes(U)
    BY <1>3 DEF Moved
  <2>4. PICK result \in Seq(U) : result = ApplyChange(text, moved.change)
    BY <2>3, ApplyTyped
  <2>5. /\ on.change.end <= Len(new)
        /\ Alongside(U, text, change, result, new, on.change)
    BY <1>3, <1>4, <1>5, <2>2, <2>4, ThroughCommutes DEF new
  <2>6. PICK other \in Changes(U) :
            /\ other.text = change.text /\ other.end <= Len(result)
            /\ ApplyChange(new, on.change) = ApplyChange(result, other)
    BY <2>5 DEF Alongside
  <2>7. Once(result, K) /\ Adds(other, K, L)
    BY <2>2, <2>4, <2>6 DEF Adds
  <2>8. Once(ApplyChange(result, other), L)
    BY <2>6, <2>7, OnceMore
  <2>9. QED
    BY <2>5, <2>6, <2>8
<1>6. QED
  BY <1>5 DEF Fits, later, on, new

(***************************************************************************)
(* What the companion's handlers make of it.                               *)
(***************************************************************************)
LEMMA EndsWider ==
    ASSUME NEW text, NEW pending, NEW K, NEW L, K \subseteq L, Fits(text, pending, K)
    PROVE  Fits(text, pending, L)
BY DEF Fits, Once

(* A range that leads to the room's text, not yet moved.                   *)
LEMMA LeadsOn ==
    ASSUME NEW U, NEW c \in Companions(U), NEW id \in DOMAIN c.applies, Leading(c, id),
           NEW K, Once(c.replica, K)
    PROVE  Fits(c.document.text, c.applies[id], K)
<1>1. c.applies[id] \in Pendings(U)
  BY OutstandingIs DEF Companions
<1>2. c.applies[id].change \in Changes(U) /\ c.applies[id].withheld = <<>>
  BY <1>1 DEF Pendings, Leading
<1>3. Rebase(c.applies[id].change, c.applies[id].withheld)
        = [placed |-> TRUE, change |-> c.applies[id].change]
  BY <1>2, RebaseNone
<1>4. QED
  BY <1>3 DEF Fits, Leading

(* A handler that brings the document to the room's text.                  *)
LEMMA LeanKept ==
    ASSUME NEW U, NEW c \in Companions(U), NEW d \in Companions(U), Reconciled(c, d),
           NEW K, NEW L, K \subseteq L, Lean(c, K), Once(d.replica, L)
    PROVE  Lean(d, L)
<1>1. d.document = c.document
  BY DEF Reconciled, Keeps, Issued, KeepsPath
<1>2. SUFFICES ASSUME c.document # NoDocument
               PROVE  /\ Once(c.document.text, L)
                      /\ \A id \in DOMAIN d.applies : Fits(c.document.text, d.applies[id], L)
  BY <1>1 DEF Lean
<1>3. /\ Once(c.document.text, L)
      /\ \A id \in DOMAIN c.applies : Fits(c.document.text, c.applies[id], L)
  BY <1>2, EndsWider DEF Lean, Once
<1>4. CASE Keeps(c, d)
  BY <1>3, <1>4 DEF Keeps, KeepsWire
<1>5. CASE Issued(c, d)
  <2> DEFINE new == c.nextId + 1
  <2>1. /\ DOMAIN d.applies = DOMAIN c.applies \cup {new}
        /\ \A id \in DOMAIN c.applies : id # new => d.applies[id] = c.applies[id]
        /\ Leading(d, new)
    BY <1>5 DEF Issued, Offered
  <2> HIDE DEF new
  <2>2. Fits(c.document.text, d.applies[new], L)
    BY <1>1, <2>1, LeadsOn
  <2>3. QED
    BY <1>3, <2>1, <2>2
<1>6. QED
  BY <1>4, <1>5 DEF Reconciled

LEMMA ChangeLean ==
    ASSUME NEW U, NEW c \in Companions(U), NEW E, Sound(c, E), c.open,
           c.document # NoDocument, Belongs(c), NEW change \in Changes(U),
           Spares(c.document.text, change, E), NEW K, NEW L, Lean(c, K), Adds(change, K, L),
           NEW d, d = Changed(c, change)
    PROVE  Lean(d, L)
<1> DEFINE new == ApplyChange(c.document.text, change)
<1>1. PICK e : e = Typing(c, change)
  OBVIOUS
<1>2. /\ e \in Companions(U) /\ d = DocumentChanged(e)
      /\ e.document = Take(c.document, change) /\ e.document # NoDocument
      /\ DOMAIN e.applies = DOMAIN c.applies
      /\ \A id \in DOMAIN c.applies : e.applies[id] = Withhold(c.applies[id], change)
  BY <1>1, TypingIs
<1>3. d.applies = e.applies /\ d.document = e.document
  BY <1>2, DocumentChangedDoes DEF KeepsPath
<1>4. c.document \in Documents(U) /\ \A id \in DOMAIN c.applies : c.applies[id] \in Pendings(U)
  BY DocumentIs, OutstandingIs DEF Companions
<1>5. d.document.text = new /\ c.document.text \in Seq(U) /\ change.end <= Len(c.document.text)
  BY <1>2, <1>3, <1>4, TakeText DEF Spares
<1> HIDE DEF new
<1>6. Once(new, L)
  BY <1>5, OnceMore DEF Lean, new
<1>7. \A id \in DOMAIN c.applies : Fits(new, Withhold(c.applies[id], change), L)
  BY <1>4, <1>5, FitsOn DEF Lean, new
<1>8. d.replica = c.replica \/ d.replica = d.document.text
  BY ChangedSound DEF Careful
<1>9. Once(d.replica, L)
  BY <1>5, <1>6, <1>8 DEF Lean, Once, Adds
<1>10. QED
  BY <1>2, <1>3, <1>5, <1>6, <1>7, <1>9 DEF Lean

(* What an answered apply leads to, taken into the mirror or not.          *)
LEMMA ReadLean ==
    ASSUME NEW U, NEW c \in Companions(U), NEW E, Sound(c, E), Orderly(c), SerialsDiffer(c),
           NEW id \in DOMAIN c.applies, NEW ok \in BOOLEAN, NEW K, Lean(c, K)
    PROVE  Lean(Read(c, id, ok), K)
<1> DEFINE r == Read(c, id, ok)
           pending == c.applies[id]
<1>1. /\ DOMAIN r.applies = DOMAIN c.applies \ {id}
      /\ \A i \in DOMAIN c.applies \ {id} : r.applies[i] = c.applies[i]
      /\ r.replica = c.replica
      /\ r.document = IF Took(c, id, ok) THEN Take(c.document, pending.change) ELSE c.document
  BY ReadDoes DEF Orderly
<1> HIDE DEF r
<1>2. CASE ~Took(c, id, ok)
  BY <1>1, <1>2 DEF Lean, r
<1>3. CASE Took(c, id, ok)
  <2>1. c.open /\ c.document # NoDocument
    BY <1>3 DEF Took, Orderly
  <2>2. DOMAIN c.applies = {id} /\ Flying(c, E)
    BY <2>1 DEF Orderly, Belongs, SerialsDiffer, Sound
  <2>3. pending \in Pendings(U) /\ c.document \in Documents(U)
    BY <2>1, DocumentIs, OutstandingIs DEF Companions
  <2>4. pending.withheld = <<>> /\ pending.change \in Changes(U)
    BY <1>3, <2>2, <2>3 DEF Flying, Reaches, Took, Pendings
  <2>5. Rebase(pending.change, pending.withheld) = [placed |-> TRUE, change |-> pending.change]
    BY <2>4, RebaseNone
  <2> HIDE DEF pending
  <2>6. Fits(c.document.text, pending, K)
    BY <2>1, <2>2 DEF Lean, pending
  <2>7. Once(ApplyChange(c.document.text, pending.change), K)
    BY <2>5, <2>6 DEF Fits
  <2>8. r.document.text = ApplyChange(c.document.text, pending.change)
    BY <1>1, <1>3, <2>3, <2>4, TakeText
  <2>9. DOMAIN r.applies = {}
    BY <1>1, <2>2
  <2>10. QED
    BY <1>1, <2>7, <2>8, <2>9 DEF Lean, r
<1>4. QED
  BY <1>2, <1>3

LEMMA AnswerLean ==
    ASSUME NEW U, NEW c \in Companions(U), NEW E, Sound(c, E), Orderly(c), SerialsDiffer(c),
           NEW id \in DOMAIN c.applies, NEW ok \in BOOLEAN, NEW K, Lean(c, K),
           NEW d, d = SettleApply(c, id, ok)
    PROVE  Lean(d, K)
<1> DEFINE r == Read(c, id, ok)
           serial == c.applies[id].serial
<1>1. /\ r \in Companions(U) /\ r.replica = c.replica /\ r.nextId = c.nextId
      /\ DOMAIN r.applies = DOMAIN c.applies \ {id}
      /\ ~Took(c, id, ok) => r.document = c.document
  BY ReadDoes DEF Orderly
<1>2. /\ d \in Companions(U)
      /\ \/ Resolves(r, serial, d)
         \/ ~Took(c, id, ok) /\ MovedOn(c, id, d) /\ OfferedAgain(r, serial, d)
  BY SettleApplyDoes DEF Orderly
<1>3. Lean(r, K)
  BY ReadLean
<1> HIDE DEF r, serial
<1>4. d.replica = c.replica \/ (d.document # NoDocument /\ d.replica = d.document.text)
  <2>1. Careful(c, d, E)
    BY AnswerSound DEF Orderly
  <2>2. Orderly(d)
    BY AnswerOrderly
  <2>3. QED
    BY <2>1, <2>2 DEF Careful, Orderly
<1>5. CASE Resolves(r, serial, d)
  <2>1. CASE d = r
    BY <1>3, <2>1
  <2>2. CASE Reconciled(Landed(r), d)
    <3> DEFINE e == Landed(r)
    <3>1. /\ e \in Companions(U) /\ e.document = r.document /\ e.applies = r.applies
          /\ e.replica = r.replica
      BY <1>1 DEF Landed, Companions
    <3>2. Reconciled(e, d)
      BY <2>2
    <3> HIDE DEF e
    <3>3. Lean(e, K)
      BY <1>3, <3>1 DEF Lean
    <3>4. d.document = e.document
      BY <3>2 DEF Reconciled, Keeps, Issued, KeepsPath
    <3>5. Once(d.replica, K)
      BY <1>1, <1>4, <3>1, <3>3, <3>4 DEF Lean
    <3>6. QED
      BY <1>2, <3>1, <3>2, <3>3, <3>5, LeanKept
  <2>3. QED
    BY <1>5, <2>1, <2>2 DEF Resolves
<1>6. CASE ~Took(c, id, ok) /\ MovedOn(c, id, d) /\ OfferedAgain(r, serial, d)
  <2> DEFINE new == c.nextId + 1
             moved == Rebase(c.applies[id].change, c.applies[id].withheld)
             text == c.document.text
  <2>1. /\ d.document = c.document /\ d.replica = c.replica /\ c.document # NoDocument
        /\ DOMAIN d.applies = DOMAIN r.applies \cup {new}
        /\ \A i \in DOMAIN r.applies : i # new => d.applies[i] = r.applies[i]
    BY <1>1, <1>6 DEF OfferedAgain, Offered, KeepsPath
  <2>2. /\ moved.placed /\ d.applies[new].change = moved.change
        /\ d.applies[new].withheld = <<>>
    BY <1>6 DEF MovedOn
  <2> HIDE DEF new, moved, text
  <2>3. d.applies[new] \in Pendings(U)
    BY <1>2, <2>1, OutstandingIs DEF Companions
  <2>4. Rebase(d.applies[new].change, d.applies[new].withheld)
          = [placed |-> TRUE, change |-> moved.change]
    BY <2>2, <2>3, RebaseNone DEF Pendings
  <2>5. moved.change.end <= Len(text) /\ Once(ApplyChange(text, moved.change), K)
    <3>1. Fits(text, c.applies[id], K)
      BY <2>1 DEF Lean, text
    <3>2. QED
      BY <2>2, <3>1 DEF Fits, moved
  <2>6. Fits(text, d.applies[new], K)
    BY <2>4, <2>5 DEF Fits
  <2>7. \A i \in DOMAIN r.applies : Fits(text, r.applies[i], K)
    BY <1>1, <1>3, <1>6, <2>1 DEF Lean, text
  <2>8. \A i \in DOMAIN d.applies : Fits(text, d.applies[i], K)
    BY <2>1, <2>6, <2>7
  <2>9. QED
    BY <2>1, <2>8 DEF Lean, text
<1>7. QED
  BY <1>2, <1>5, <1>6

(***************************************************************************)
(* Every unit that is typed is a new one.                                  *)
(***************************************************************************)
Inked == Units(BaseText) \cup Typed \cup PeerTyped

LEMMA InkedIs ==
    ASSUME Shape, ToldApart
    PROVE  /\ \A k \in 1 .. Limits["userUnits"] :
                 k - 1 >= spent["userUnits"] => UserUnits[k] \notin Inked
           /\ \A k \in 1 .. Limits["peerUnits"] :
                 k - 1 >= spent["peerUnits"] => PeerUnits[k] \notin Inked
<1> DEFINE U == ToSet(BaseText) \cup ToSet(UserUnits) \cup ToSet(PeerUnits)
           m == Len(UserUnits)
           n == Len(PeerUnits)
<1>1. /\ BaseText \in Seq(ToSet(BaseText)) /\ UserUnits \in Seq(ToSet(UserUnits))
      /\ PeerUnits \in Seq(ToSet(PeerUnits)) /\ Limits \in [Budgets -> Nat]
      /\ Limits["userUnits"] <= m /\ Limits["peerUnits"] <= n
  BY ScenariosAreBounded DEF Shape, BaseText, UserUnits, PeerUnits, Limits
<1>2. BaseText \in Seq(U) /\ UserUnits \in Seq(U) /\ PeerUnits \in Seq(U)
  BY <1>1, SeqWider
<1> HIDE DEF U
<1>3. /\ m \in Nat /\ n \in Nat
      /\ Limits["userUnits"] \in Nat /\ Limits["peerUnits"] \in Nat
      /\ spent["userUnits"] \in Nat /\ spent["peerUnits"] \in Nat
      /\ spent["userUnits"] <= Limits["userUnits"] /\ spent["peerUnits"] <= Limits["peerUnits"]
  BY <1>1, LenProperties DEF Shape, Budgets
<1>4. \A x \in Units(BaseText) : \E i \in 1 .. Len(BaseText) : BaseText[i] = x
  BY <1>2, UnitsAre
<1>5. /\ \A k \in 1 .. m :
            /\ \A i \in 1 .. Len(BaseText) : BaseText[i] # UserUnits[k]
            /\ \A i \in 1 .. m : UserUnits[i] = UserUnits[k] => i = k
            /\ \A i \in 1 .. n : PeerUnits[i] # UserUnits[k]
      /\ \A k \in 1 .. n :
            /\ \A i \in 1 .. Len(BaseText) : BaseText[i] # PeerUnits[k]
            /\ \A i \in 1 .. n : PeerUnits[i] = PeerUnits[k] => i = k
  BY <1>2, JoinedApart DEF ToldApart
<1>6. /\ \A x \in Typed : \E i \in 1 .. spent["userUnits"] : x = UserUnits[i]
      /\ \A x \in PeerTyped : \E i \in 1 .. spent["peerUnits"] : x = PeerUnits[i]
  BY DEF Typed, PeerTyped
<1> HIDE DEF m, n
<1>7. ASSUME NEW k \in 1 .. Limits["userUnits"], k - 1 >= spent["userUnits"]
      PROVE  UserUnits[k] \notin Inked
  <2>1. k \in 1 .. m /\ \A i \in 1 .. spent["userUnits"] : i \in 1 .. m /\ i # k
    BY <1>1, <1>3, <1>7
  <2>2. \A i \in 1 .. spent["peerUnits"] : i \in 1 .. n
    BY <1>1, <1>3
  <2>3. UserUnits[k] \notin Units(BaseText)
    BY <1>4, <1>5, <2>1
  <2>4. UserUnits[k] \notin Typed
    BY <1>5, <1>6, <2>1
  <2>5. UserUnits[k] \notin PeerTyped
    BY <1>5, <1>6, <2>1, <2>2
  <2>6. QED
    BY <2>3, <2>4, <2>5 DEF Inked
<1>8. ASSUME NEW k \in 1 .. Limits["peerUnits"], k - 1 >= spent["peerUnits"]
      PROVE  PeerUnits[k] \notin Inked
  <2>1. k \in 1 .. n /\ \A i \in 1 .. spent["peerUnits"] : i \in 1 .. n /\ i # k
    BY <1>1, <1>3, <1>8
  <2>2. \A i \in 1 .. spent["userUnits"] : i \in 1 .. m
    BY <1>1, <1>3
  <2>3. PeerUnits[k] \notin Units(BaseText)
    BY <1>4, <1>5, <2>1
  <2>4. PeerUnits[k] \notin Typed
    BY <1>5, <1>6, <2>1, <2>2
  <2>5. PeerUnits[k] \notin PeerTyped
    BY <1>5, <1>6, <2>1
  <2>6. QED
    BY <2>3, <2>4, <2>5 DEF Inked
<1>9. QED
  BY <1>7, <1>8

(* The next unit either side types has not been typed before.              *)
LEMMA InkedGrows ==
    ASSUME Shape, SpentIs, scenario' = scenario, ToldApart, NEW change,
           \/ Inks(change, UserUnits, "userUnits") /\ spent'["peerUnits"] = spent["peerUnits"]
           \/ Inks(change, PeerUnits, "peerUnits") /\ spent'["userUnits"] = spent["userUnits"]
    PROVE  Inked' = Inked \cup Units(change.text) /\ Adds(change, Inked, Inked')
<1> DEFINE u == spent["userUnits"]
           v == spent["peerUnits"]
<1>1. /\ BaseText' = BaseText /\ UserUnits' = UserUnits /\ PeerUnits' = PeerUnits
      /\ Limits' = Limits
  BY DEF BaseText, UserUnits, PeerUnits, Limits
<1>2. /\ u \in Nat /\ v \in Nat /\ spent'["userUnits"] <= Limits["userUnits"]
      /\ spent'["peerUnits"] <= Limits["peerUnits"]
      /\ Limits["userUnits"] \in Nat /\ Limits["peerUnits"] \in Nat
  BY ScenarioIs DEF Shape, SpentIs, Budgets
<1>3. /\ Typed = {UserUnits[i] : i \in 1 .. u} /\ PeerTyped = {PeerUnits[i] : i \in 1 .. v}
      /\ Typed' = {UserUnits[i] : i \in 1 .. spent'["userUnits"]}
      /\ PeerTyped' = {PeerUnits[i] : i \in 1 .. spent'["peerUnits"]}
  BY <1>1 DEF Typed, PeerTyped
<1>4. Inked' = Units(BaseText) \cup Typed' \cup PeerTyped'
  BY <1>1 DEF Inked
<1>5. ASSUME change.text = <<>>, spent'["userUnits"] = u, spent'["peerUnits"] = v
      PROVE  Inked' = Inked \cup Units(change.text) /\ Adds(change, Inked, Inked')
  <2>1. Units(change.text) = {} /\ Len(change.text) = 0
    BY <1>5 DEF Units, ToSet
  <2>2. Inked' = Inked
    BY <1>3, <1>4, <1>5 DEF Inked
  <2>3. QED
    BY <2>1, <2>2 DEF Adds
<1>6. ASSUME NEW unit, change.text = <<unit>>, unit \notin Inked, Inked' = Inked \cup {unit}
      PROVE  Inked' = Inked \cup Units(change.text) /\ Adds(change, Inked, Inked')
  <2>1. Units(change.text) = {unit} /\ Len(change.text) = 1
    BY <1>6 DEF Units, ToSet
  <2>2. QED
    BY <1>6, <2>1 DEF Adds
<1>7. CASE /\ change.text = <<UserUnits[u + 1]>> /\ spent'["userUnits"] = u + 1
           /\ spent'["peerUnits"] = v
  <2>1. u + 1 \in 1 .. Limits["userUnits"] /\ (u + 1) - 1 >= u
    BY <1>2, <1>7
  <2>2. UserUnits[u + 1] \notin Inked
    BY <2>1, InkedIs
  <2>3. \A i : i \in 1 .. u + 1 <=> i \in 1 .. u \/ i = u + 1
    BY <1>2
  <2>4. Typed' = Typed \cup {UserUnits[u + 1]} /\ PeerTyped' = PeerTyped
    BY <1>3, <1>7, <2>3
  <2>5. Inked' = Inked \cup {UserUnits[u + 1]}
    BY <1>4, <2>4 DEF Inked
  <2>6. QED
    BY <1>6, <1>7, <2>2, <2>5
<1>8. CASE /\ change.text = <<PeerUnits[v + 1]>> /\ spent'["peerUnits"] = v + 1
           /\ spent'["userUnits"] = u
  <2>1. v + 1 \in 1 .. Limits["peerUnits"] /\ (v + 1) - 1 >= v
    BY <1>2, <1>8
  <2>2. PeerUnits[v + 1] \notin Inked
    BY <2>1, InkedIs
  <2>3. \A i : i \in 1 .. v + 1 <=> i \in 1 .. v \/ i = v + 1
    BY <1>2
  <2>4. PeerTyped' = PeerTyped \cup {PeerUnits[v + 1]} /\ Typed' = Typed
    BY <1>3, <1>8, <2>3
  <2>5. Inked' = Inked \cup {PeerUnits[v + 1]}
    BY <1>4, <2>4 DEF Inked
  <2>6. QED
    BY <1>6, <1>8, <2>2, <2>5
<1>9. QED
  BY <1>5, <1>7, <1>8 DEF Inks

(* Every text there is holds what it holds once, and the changes on the    *)
(* pipe bring what the companion has not been told of.                     *)
Single ==
    /\ Lean(companion, Arrived(Inked, toCompanion))
    /\ Once(front.buffer, Inked)
    /\ Lone(Inked, toCompanion)
Unloaded == Undisturbed /\ spent["reloads"] = 0 /\ ToldApart
Singling == Tending /\ (Unloaded => Single)

(* A step that neither types nor reads a change.                           *)
LEMMA PipeStill ==
    ASSUME Wired, Proceeds, ~Types, ~HearsChange, NEW N
    PROVE  /\ Arrived(N, toCompanion') = Arrived(N, toCompanion)
           /\ Lone(N, toCompanion) => Lone(N, toCompanion')
<1>1. toCompanion \in Seq(Messages(AllUnits)) /\ Shape
  BY DEF Wired, Shape
<1>2. ASSUME NEW m \in Messages(AllUnits), m.type # "change", toCompanion' = Append(toCompanion, m)
      PROVE  /\ Arrived(N, toCompanion') = Arrived(N, toCompanion)
             /\ Lone(N, toCompanion) => Lone(N, toCompanion')
  BY <1>1, <1>2, ArrivedMore
<1>3. ASSUME NEW type, NextForFront(type), type \in {"applyEdit", "save"}
      PROVE  Head(companion.sent).id \in Nat
  <2>1. Head(companion.sent) \in Words(AllUnits) /\ Head(companion.sent).type = type
    BY <1>1, <1>3, NextForFrontDoes
  <2>2. QED
    BY <1>3, <2>1 DEF Words
<1>4. CASE Locks
  BY <1>4 DEF Locks
<1>5. CASE LetsGo
  <2> DEFINE m == [type |-> "close"]
  <2>1. m \in Messages(AllUnits) /\ m.type # "change"
    BY MessagesAre
  <2>2. toCompanion' = Append(toCompanion, m)
    BY <1>5 DEF LetsGo, LetGo, Send
  <2> HIDE DEF m
  <2>3. QED
    BY <1>2, <2>1, <2>2
<1>6. CASE Agrees \/ Declines
  <2>1. PICK ok \in BOOLEAN : /\ NextForFront("applyEdit")
                              /\ Send([type |-> "applied", id |-> Head(companion.sent).id,
                                       ok |-> ok])
    BY <1>6 DEF Agrees, Declines
  <2> DEFINE m == [type |-> "applied", id |-> Head(companion.sent).id, ok |-> ok]
  <2>2. m \in Messages(AllUnits) /\ m.type # "change"
    BY <1>3, <2>1, MessagesAre
  <2>3. toCompanion' = Append(toCompanion, m)
    BY <2>1 DEF Send
  <2> HIDE DEF m
  <2>4. QED
    BY <1>2, <2>2, <2>3
<1>7. CASE Writes
  <2>1. PICK ok \in BOOLEAN :
            Send([type |-> "saved", id |-> Head(companion.sent).id, ok |-> ok])
    BY <1>7 DEF Writes
  <2> DEFINE m == [type |-> "saved", id |-> Head(companion.sent).id, ok |-> ok]
  <2>2. NextForFront("save") /\ toCompanion' = Append(toCompanion, m)
    BY <1>7, <2>1 DEF Writes, Send
  <2>3. m \in Messages(AllUnits) /\ m.type # "change"
    BY <1>3, <2>2, MessagesAre
  <2> HIDE DEF m
  <2>4. QED
    BY <1>2, <2>2, <2>3
<1>8. CASE HearsApplied \/ HearsSaved \/ HearsClose
  <2>1. PICK type \in {"applied", "saved", "close"} : Unread(type)
    BY <1>8 DEF HearsApplied, HearsSaved, HearsClose
  <2>2. toCompanion # <<>> /\ toCompanion' = Tail(toCompanion)
        /\ Head(toCompanion).type # "change"
    BY <2>1 DEF Unread
  <2>3. QED
    BY <1>1, <2>2, ArrivedLess
<1>9. CASE Works \/ Saves
  <2>1. toCompanion' = toCompanion
    BY <1>9 DEF Works, Saves, SaveFires
  <2>2. QED
    BY <2>1
<1>10. QED
  BY <1>4, <1>5, <1>6, <1>7, <1>8, <1>9 DEF Proceeds

(* What the front-end takes is what the offer leads to.                    *)
LEMMA AgreesOnce ==
    ASSUME Followed, Regime, Sound(companion, erased), Agrees, Single
    PROVE  Once(front'.buffer, Inked)
<1> DEFINE edit == Head(companion.sent)
           pending == companion.applies[edit.id]
           document == companion.document
<1>1. /\ companion.sent \in Seq(Words(AllUnits)) /\ companion.sent # <<>>
      /\ edit \in Words(AllUnits) /\ edit.type = "applyEdit"
      /\ companion \in Companions(AllUnits) /\ front \in Fronts(AllUnits)
      /\ toCompanion \in Seq(Messages(AllUnits)) /\ Wired
  BY NextForFrontDoes DEF Followed, Wired, Shape, Agrees
<1>2. /\ front.shared /\ edit.version = front.version
      /\ front'.buffer = ApplyChange(front.buffer, edit.change)
  BY DEF Agrees, Takes
<1>3. 1 \in 1 .. Len(companion.sent) /\ edit = companion.sent[1]
  BY <1>1, TailAt
<1>4. /\ edit.id \in DOMAIN companion.applies /\ edit.change = pending.change
      /\ edit.version = pending.version
  BY <1>1, <1>3 DEF Wired, Linked, AskedRight
<1>5. companion.open /\ companion.flight # NoFlight /\ Flying(companion, erased)
  BY <1>1, AgreesFlies
<1>6. document # NoDocument /\ ~Said(toCompanion, "open") /\ ~Said(toCompanion, "close")
  BY <1>2, <1>5 DEF Regime, Orderly
<1>7. document \in Documents(AllUnits) /\ pending \in Pendings(AllUnits)
  BY <1>1, <1>4, <1>6, DocumentIs, OutstandingIs DEF Companions
<1> HIDE DEF edit, pending, document
<1>8. Behind(document, front)
  BY <1>1, <1>2, <1>6, <1>7, TrailGrows DEF Followed, Follows, document
<1>9. /\ pending.version <= document.version
      /\ pending.version = document.version => pending.withheld = <<>>
  BY <1>4, <1>5 DEF Flying, Reaches, pending, document
<1>10. document.version \in Nat /\ pending.version \in Nat
  BY <1>7 DEF Documents, Pendings
<1>11. document.version = front.version /\ pending.withheld = <<>>
  BY <1>2, <1>4, <1>8, <1>9, <1>10 DEF Behind
<1>12. document.text = front.buffer
  BY <1>8, <1>11 DEF Behind
<1>13. Rebase(pending.change, pending.withheld) = [placed |-> TRUE, change |-> pending.change]
  BY <1>7, <1>11, RebaseNone DEF Pendings
<1>14. Fits(document.text, pending, Arrived(Inked, toCompanion))
  BY <1>4, <1>6 DEF Single, Lean, pending, document
<1>15. Once(ApplyChange(document.text, pending.change), Arrived(Inked, toCompanion))
  BY <1>13, <1>14 DEF Fits
<1>16. QED
  BY <1>2, <1>4, <1>12, <1>15 DEF Once, Arrived

(* Nobody types, and what the companion has stays as it was.               *)
LEMMA LeanStill ==
    ASSUME Wired, Orderly(companion), Sound(companion, erased), Proceeds,
           erased \subseteq erased', companion' \in Companions(AllUnits),
           ~HearsChange, ~RoomMoves, NEW K, Lean(companion, K)
    PROVE  Lean(companion', K)
<1>1. /\ companion \in Companions(AllUnits) /\ Shape /\ SerialsDiffer(companion)
      /\ toCompanion \in Seq(Messages(AllUnits)) /\ companion.replica \in Seq(AllUnits)
  BY DEF Wired, Shape, Linked, Companions
<1>2. Sound(companion, erased')
  BY SoundMore
<1>3. ASSUME companion'.document = companion.document, companion'.applies = companion.applies,
             companion'.replica = companion.replica
      PROVE  Lean(companion', K)
  BY <1>3 DEF Lean
<1>4. CASE Types \/ Locks \/ (LetsGo /\ companion' = companion)
  BY <1>3, <1>4 DEF Types, LocalChange, Locks
<1>5. CASE Agrees \/ Declines \/ Writes
  <2>1. Matches(companion, companion')
    BY <1>1, <1>5, ReadingSound DEF Agrees, Declines, Writes
  <2>2. QED
    BY <1>3, <2>1 DEF Matches
<1>6. CASE HearsApplied
  <2> DEFINE id == Head(toCompanion).id
             ok == Head(toCompanion).ok
  <2>1. id \in DOMAIN companion.applies /\ ok \in BOOLEAN
        /\ companion' = SettleApply(companion, id, ok)
    BY <1>6, HearsAppliedIs
  <2> HIDE DEF id, ok
  <2>2. QED
    BY <1>1, <1>2, <2>1, AnswerLean
<1>7. CASE HearsSaved
  <2> DEFINE rest == companion.saves \ {Head(toCompanion).id}
  <2>1. companion' = [companion EXCEPT !.saves = rest]
    BY <1>1, <1>7 DEF HearsSaved, SettleSave, Companions
  <2> HIDE DEF rest
  <2>2. QED
    BY <1>1, <1>3, <2>1 DEF Companions
<1>8. CASE HearsClose
  <2>1. companion'.document = NoDocument
    BY <1>1, <1>8, ClosedDoes DEF HearsClose
  <2>2. companion'.replica = companion.replica
    BY <1>1, <1>8, ClosedSound DEF HearsClose
  <2>3. QED
    BY <2>1, <2>2 DEF Lean
<1>9. CASE Works
  <2>1. companion'.replica = companion.replica
    <3>1. CASE OwnEditsAnnounced
      <4>1. companion' = Announced(companion)
        BY <3>1 DEF OwnEditsAnnounced
      <4>2. [companion EXCEPT !.replica = companion.replica] = companion
        BY <1>1 DEF Companions
      <4>3. QED
        BY <1>1, <1>2, <4>1, <4>2, AnnouncedSound DEF Orderly
    <3>2. CASE BackstopFires
      <4>1. SharesSame(companion, companion')
        BY <1>1, <1>2, <3>2, TimerSound
      <4>2. QED
        BY <4>1 DEF SharesSame
    <3>3. QED
      BY <1>9, <3>1, <3>2 DEF Works
  <2>2. QED
    BY <1>1, <1>9, <2>1, LeanKept DEF Works, Lean
<1>10. CASE Saves
  BY <1>1, <1>3, <1>10, SaveFiresDoes DEF Saves
<1>11. QED
  BY <1>4, <1>5, <1>6, <1>7, <1>8, <1>9, <1>10 DEF Proceeds

(* What is typed is on its way, and once in the buffer.                    *)
LEMMA SingleTyped ==
    ASSUME Stepped, SpentIs, scenario' = scenario, Types, spent'["reloads"] = 0, ToldApart, Single
    PROVE  Single'
<1>1. /\ Shape /\ front \in Fronts(AllUnits) /\ front.buffer \in Seq(AllUnits)
      /\ toCompanion \in Seq(Messages(AllUnits))
  BY DEF Stepped, Followed, Wired, Shape, Fronts
<1>2. PICK change \in Changes(AllUnits) :
          /\ LocalChange(change) /\ Spares(front.buffer, change, erased')
          /\ spent'["peerUnits"] = spent["peerUnits"] /\ Inks(change, UserUnits, "userUnits")
  BY DEF Types
<1>3. Inked' = Inked \cup Units(change.text) /\ Adds(change, Inked, Inked')
  BY <1>1, <1>2, InkedGrows
<1>4. /\ companion' = companion /\ front'.buffer = ApplyChange(front.buffer, change)
      /\ toCompanion' = Append(toCompanion, [type |-> "change", change |-> change])
  BY <1>1, <1>2 DEF LocalChange, Send, Fronts
<1>5. /\ Arrived(Inked', toCompanion') = Arrived(Inked, toCompanion)
      /\ Lone(Inked', toCompanion')
  <2> DEFINE m == [type |-> "change", change |-> change]
  <2>1. m \in Messages(AllUnits) /\ m.type = "change" /\ m.change = change
    BY MessagesAre
  <2>2. toCompanion' = Append(toCompanion, m)
    BY <1>4
  <2> HIDE DEF m
  <2>3. QED
    BY <1>1, <1>3, <2>1, <2>2, ArrivedTyped DEF Single
<1>6. change.end <= Len(front.buffer)
  BY <1>2 DEF Spares
<1>7. Once(front'.buffer, Inked')
  BY <1>1, <1>3, <1>4, <1>6, OnceMore DEF Single
<1>8. QED
  BY <1>4, <1>5, <1>7 DEF Single

(* What is read is in the mirror once.                                     *)
LEMMA SingleRead ==
    ASSUME Stepped, HearsChange, Inked' = Inked, Single
    PROVE  Single'
<1> DEFINE change == Head(toCompanion).change
           K == Arrived(Inked, toCompanion)
           L == Arrived(Inked, toCompanion')
<1>1. /\ Shape /\ Wired /\ companion \in Companions(AllUnits) /\ Orderly(companion)
      /\ toCompanion \in Seq(Messages(AllUnits)) /\ Sound(companion, erased')
  BY SoundMore DEF Stepped, Followed, Wired, Shape, Regime
<1>2. /\ change \in Changes(AllUnits) /\ Head(toCompanion).type = "change"
      /\ toCompanion # <<>> /\ toCompanion' = Tail(toCompanion) /\ front' = front
  BY <1>1, UnreadDoes DEF HearsChange, Messages, Unread
<1>3. Fairly(companion.document, Head(toCompanion), erased)
  BY <1>1, <1>2, TrailFirst DEF Stepped, Followed, Follows
<1>4. companion.document # NoDocument /\ Spares(companion.document.text, change, erased')
  BY <1>2, <1>3, FairlyMore DEF Fairly, Stepped
<1>5. companion.open /\ Belongs(companion) /\ companion' = Changed(companion, change)
  BY <1>1, <1>4 DEF Orderly, HearsChange
<1>6. Adds(change, K, L) /\ Lone(Inked, toCompanion')
  BY <1>1, <1>2, ArrivedRead DEF Single
<1>7. Lean(companion, K)
  BY DEF Single
<1> HIDE DEF change, K, L
<1>8. Lean(companion', L)
  BY <1>1, <1>2, <1>4, <1>5, <1>6, <1>7, ChangeLean
<1>9. QED
  BY <1>2, <1>6, <1>8 DEF Single, L

(* A peer's edit puts a unit into the room once.                           *)
LEMMA SingleRoom ==
    ASSUME Stepped, SpentIs, scenario' = scenario, RoomMoves, Works, ToldApart, Single
    PROVE  Single'
<1> DEFINE K == Arrived(Inked, toCompanion)
           L == Arrived(Inked', toCompanion')
<1>1. /\ Shape /\ companion \in Companions(AllUnits) /\ companion.replica \in Seq(AllUnits)
      /\ Orderly(companion) /\ companion' \in Companions(AllUnits)
      /\ Sound(companion, erased')
  BY SoundMore DEF Stepped, Followed, Wired, Shape, Companions, Regime, Kept
<1>2. PICK change \in Changes(AllUnits) :
          /\ PeerEdits(change) /\ Spares(companion.replica, change, erased')
          /\ spent'["userUnits"] = spent["userUnits"] /\ Inks(change, PeerUnits, "peerUnits")
  BY DEF RoomMoves
<1>3. Inked' = Inked \cup Units(change.text) /\ Adds(change, Inked, Inked')
  BY <1>1, <1>2, InkedGrows
<1>4. toCompanion' = toCompanion /\ front' = front /\ Reconciled(companion, companion')
  BY DEF Works
<1>5. L = K \cup Units(change.text) /\ Lone(Inked', toCompanion')
  BY <1>3, <1>4, ArrivedWider DEF Single, Adds
<1>6. K \subseteq Inked
  BY DEF Arrived
<1> HIDE DEF K, L
<1>7. Adds(change, K, L)
  BY <1>3, <1>5, <1>6 DEF Adds
<1>8. Lean(companion, K) /\ Once(companion.replica, K)
  BY DEF Single, Lean, K
<1> DEFINE r == ApplyChange(companion.replica, change)
<1>9. r \in Seq(AllUnits)
  BY <1>1, ApplyTyped
<1>10. companion' = Announced([companion EXCEPT !.replica = r])
  BY <1>2 DEF PeerEdits
<1>11. Once(r, L)
  BY <1>1, <1>2, <1>7, <1>8, OnceMore DEF Spares
<1> HIDE DEF r
<1>12. companion'.replica = r
  BY <1>1, <1>9, <1>10, AnnouncedSound DEF Orderly
<1>13. Lean(companion', L)
  BY <1>1, <1>4, <1>5, <1>8, <1>11, <1>12, LeanKept
<1>14. Once(front'.buffer, Inked')
  BY <1>3, <1>4 DEF Single, Once
<1>15. QED
  BY <1>5, <1>13, <1>14 DEF Single, L

LEMMA SingleStill ==
    ASSUME Stepped, ~Types, ~HearsChange, ~RoomMoves, Inked' = Inked, Single
    PROVE  Single'
<1>1. /\ Wired /\ Shape /\ Orderly(companion) /\ companion' \in Companions(AllUnits)
      /\ Followed /\ Regime /\ Sound(companion, erased)
  BY DEF Stepped, Followed, Wired, Regime, Kept
<1>2. /\ Arrived(Inked, toCompanion') = Arrived(Inked, toCompanion)
      /\ Lone(Inked, toCompanion')
  BY <1>1, PipeStill DEF Stepped, Single
<1>3. Lean(companion', Arrived(Inked, toCompanion))
  BY <1>1, LeanStill DEF Stepped, Single
<1>4. Once(front'.buffer, Inked)
  <2>1. Agrees \/ front'.buffer = front.buffer
    BY <1>1, BufferMoves DEF Stepped
  <2>2. QED
    BY <1>1, <2>1, AgreesOnce DEF Single
<1>5. QED
  BY <1>2, <1>3, <1>4 DEF Single

LEMMA SingleFirst ==
    ASSUME Init, ToldApart
    PROVE  Single
<1>1. /\ front.buffer = BaseText /\ companion.replica = BaseText /\ companion.applies = <<>>
      /\ companion.document.text = BaseText /\ toCompanion = <<>>
  BY DEF Init
<1>2. BaseText \in Seq(AllUnits) /\ scenario \in Scenarios
  BY ScenarioIs DEF Init
<1>3. Once(BaseText, Units(BaseText))
  <2>1. IsInjective(BaseText)
    <3> DEFINE s == BaseText \o UserUnits
               t == s \o PeerUnits
               U == ToSet(BaseText) \cup ToSet(UserUnits) \cup ToSet(PeerUnits)
    <3>1. /\ BaseText \in Seq(ToSet(BaseText)) /\ UserUnits \in Seq(ToSet(UserUnits))
          /\ PeerUnits \in Seq(ToSet(PeerUnits))
      BY <1>2, ScenariosAreBounded DEF BaseText, UserUnits, PeerUnits
    <3>2. BaseText \in Seq(U) /\ UserUnits \in Seq(U) /\ PeerUnits \in Seq(U)
      BY <3>1, SeqWider
    <3> HIDE DEF U
    <3>3. s \in Seq(U) /\ Len(BaseText) \in Nat /\ Len(s) \in Nat /\ Len(BaseText) <= Len(s)
          /\ \A i \in 1 .. Len(BaseText) : s[i] = BaseText[i]
      BY <3>2, ConcatProperties, LenProperties
    <3>4. t \in Seq(U) /\ Len(t) \in Nat /\ Len(s) <= Len(t)
          /\ \A i \in 1 .. Len(s) : t[i] = s[i]
      <4> HIDE DEF s
      <4>1. QED
        BY <3>2, <3>3, ConcatProperties, LenProperties
    <3>5. \A i, j \in 1 .. Len(t) : t[i] = t[j] => i = j
      BY <3>4, OnceIs DEF ToldApart, s
    <3> HIDE DEF s, t
    <3>6. \A i \in 1 .. Len(BaseText) : i \in 1 .. Len(s) /\ i \in 1 .. Len(t) /\ t[i] = BaseText[i]
      BY <3>3, <3>4
    <3>7. QED
      BY <3>2, <3>5, <3>6, OnceIs
  <2>2. QED
    BY <2>1 DEF Once
<1>4. Units(BaseText) \subseteq Inked
  BY DEF Inked
<1>5. Once(BaseText, Inked)
  BY <1>3, <1>4 DEF Once
<1>6. Arrived(Inked, toCompanion) = Inked /\ Lone(Inked, toCompanion)
  BY <1>1 DEF Arrived, Lone
<1>7. DOMAIN companion.applies = {}
  BY <1>1
<1>8. QED
  BY <1>1, <1>5, <1>6, <1>7 DEF Single, Lean

LEMMA RoomWorks ==
    ASSUME Shape, RoomMoves
    PROVE  Works
BY PeerEditsDoes DEF RoomMoves

LEMMA SinglingFirst ==
    ASSUME Init
    PROVE  Singling
BY TendingFirst, SingleFirst DEF Singling, Unloaded

LEMMA SinglingKept ==
    ASSUME Singling, [Next]_vars
    PROVE  Singling'
<1>1. Tending /\ Tending' /\ Followed /\ Followed'
  BY TendingKept DEF Singling, Tending
<1>2. CASE UNCHANGED vars
  <2>1. /\ front' = front /\ toCompanion' = toCompanion /\ companion' = companion
        /\ scenario' = scenario /\ spent' = spent
    BY <1>2 DEF vars
  <2>2. BaseText' = BaseText /\ UserUnits' = UserUnits /\ PeerUnits' = PeerUnits
    BY <2>1 DEF BaseText, UserUnits, PeerUnits
  <2>3. Inked' = Inked /\ ToldApart' = ToldApart
    BY <2>1, <2>2 DEF Inked, Typed, PeerTyped, ToldApart
  <2>4. Single' <=> Single
    BY <2>1, <2>3 DEF Single
  <2>5. Unloaded' <=> Unloaded
    BY <2>1, <2>3 DEF Unloaded, Undisturbed
  <2>6. QED
    BY <1>1, <2>4, <2>5 DEF Singling
<1>3. CASE Next
  <2>1. StepDoes /\ scenario' = scenario /\ Shape /\ Wired /\ Follows
    BY <1>1, <1>3, NextDoes DEF Followed, Wired
  <2>2. SUFFICES ASSUME Unloaded' PROVE Single'
    BY <1>1 DEF Singling
  <2>3. Undisturbed /\ Undisturbed'
    BY <2>1, <2>2, UndisturbedBefore DEF StepDoes, Unloaded
  <2>4. BaseText' = BaseText /\ UserUnits' = UserUnits /\ PeerUnits' = PeerUnits
    BY <2>1 DEF BaseText, UserUnits, PeerUnits
  <2>5. ToldApart /\ spent'["reloads"] = 0
    BY <2>2, <2>4 DEF Unloaded, ToldApart
  <2>6. spent["reloads"] = 0
    <3>1. spent["reloads"] \in Nat /\ spent["reloads"] <= spent'["reloads"]
      BY <2>1 DEF StepDoes, SpentIs, Shape, Budgets
    <3>2. QED
      BY <2>5, <3>1
  <2>7. Single
    BY <2>3, <2>5, <2>6 DEF Singling, Unloaded
  <2>8. Stepped
    BY <1>1, <2>1, <2>3, TendingSteps
  <2>9. CASE Types
    BY <2>1, <2>5, <2>7, <2>8, <2>9, SingleTyped DEF StepDoes
  <2>10. CASE RoomMoves
    BY <2>1, <2>5, <2>7, <2>8, <2>10, SingleRoom, RoomWorks DEF StepDoes
  <2>11. CASE ~Types /\ ~RoomMoves
    <3>1. Idle
      BY <2>1, <2>11 DEF StepDoes
    <3>2. Inked' = Inked
      BY <2>4, <3>1 DEF Idle, Inked, Typed, PeerTyped
    <3>3. QED
      BY <2>7, <2>8, <2>11, <3>2, SingleRead, SingleStill
  <2>12. QED
    BY <2>9, <2>10, <2>11
<1>4. QED
  BY <1>2, <1>3

(* As long as the document was neither opened again nor moved to the       *)
(* mirror's file nor read from the disk again, and every unit that was     *)
(* there or that either side types is another one, nothing lands twice, in *)
(* the buffer or in the room: no edit is sent and published, refused and   *)
(* asked for again, moved through what was typed since or replaced by the  *)
(* backstop such that it lands a second time.                              *)
THEOREM NothingLandsTwice ==
    Spec => [](spent.reopens = 0 /\ spent.remirrors = 0 /\ spent.reloads = 0 => NothingTwice)
<1>1. Init => Singling
  BY SinglingFirst
<1>2. Singling /\ [Next]_vars => Singling'
  BY SinglingKept
<1>3. Singling => (spent.reopens = 0 /\ spent.remirrors = 0 /\ spent.reloads = 0 => NothingTwice)
  BY DEF Singling, Unloaded, Undisturbed, Single, Lean, Once, NothingTwice
<1>4. QED
  BY <1>1, <1>2, <1>3, PTL DEF Spec
=============================================================================
