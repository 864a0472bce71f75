------------------------- MODULE OpenDocument_proofs ------------------------
(***************************************************************************)
(* OpenDocument's types and its safety properties, for every scenario:     *)
(* every invariant and the action property that the runs check.            *)
(*                                                                         *)
(* First what each operation of the companion and each action changes and  *)
(* keeps, and Base, the part of the invariant that all others rest on: the *)
(* values, and what both sides know of the session.  The session is known  *)
(* by order.  A `leave` is the last thing said in a session and a `start`  *)
(* the last thing said at all, short of answers to writes; a standing      *)
(* session was said to stand, and one that ended was said to have ended,   *)
(* in that order.  Which is why a front-end that takes a session for live  *)
(* and a companion without one always have the word of its end between     *)
(* them.                                                                   *)
(*                                                                         *)
(* Then each property, with an invariant of its own.  Turns says that      *)
(* opens and closes alternate from what the front-end has, over the pipe,  *)
(* to what stands before the companion; the counting of the changes, the   *)
(* release of the holds and the numbering of the documents need it, and    *)
(* the marking of the mirror needs the numbering.                          *)
(***************************************************************************)
EXTENDS OpenDocument, SequenceTheorems, FiniteSetTheorems, FunctionTheorems, TLAPS

(***************************************************************************)
(* The values: the requests and the words on the companion's two pipes,    *)
(* the documents, the reads, and what a companion is made of.              *)
(***************************************************************************)
Messages ==
    [type : {"start"}, role : Roles]
    \cup [type : {"leave", "close", "change", "wrote"}]
    \cup [type : {"open"}, of : Nat \ {0}, text : BOOLEAN, present : BOOLEAN]
    \cup [type : {"saved"}, id : Nat, ok : BOOLEAN]
Words ==
    [type : {"status"}, live : BOOLEAN]
    \cup [type : {"refusal"}]
    \cup [type : {"save"}, id : Nat, of : Nat \ {0}, guarded : BOOLEAN, there : BOOLEAN]

Documents ==
    [of : Nat \ {0}, text : BOOLEAN, version : Nat, instance : Nat \ {0},
     materialized : BOOLEAN]
KeptBack == [of : Nat \ {0}, text : BOOLEAN, present : BOOLEAN, changes : Nat]
ReadsInFlight ==
    [session : Nat, instance : Nat \ {0}, there : BOOLEAN,
     answer : {"none", "absent", "not absent"}]
Assignments == UNION {[ids -> Nat \ {0}] : ids \in SUBSET Nat}

Companions(S) ==
    [session : Nat, started : Nat, role : Roles,
     document : {NoDocument} \cup Documents, unarrived : {NoDocument} \cup KeptBack,
     instances : Nat, saves : Assignments, nextId : Nat, late : BOOLEAN,
     bridge : {"none", "unarrived", "open"}, held : BOOLEAN,
     engines : [S -> [has : BOOLEAN, holds : BOOLEAN, refused : BOOLEAN]],
     opens : [S -> [Askers -> Nat]],
     reads : Seq(ReadsInFlight), sent : Seq(Words)]

(* The parts of a companion that an operation leaves alone.                *)
KeepsSession(c, d) == d.session = c.session /\ d.started = c.started /\ d.role = c.role
KeepsWords(c, d) == d.sent = c.sent /\ d.nextId = c.nextId /\ d.saves = c.saves
KeepsMirror(c, d) ==
    /\ d.document = c.document /\ d.unarrived = c.unarrived
    /\ d.instances = c.instances /\ d.late = c.late
KeepsRoom(c, d) ==
    /\ d.bridge = c.bridge /\ d.held = c.held
    /\ d.engines = c.engines /\ d.opens = c.opens
KeepsReads(c, d) == d.reads = c.reads

LEMMA DocumentIs ==
    \A d \in {NoDocument} \cup Documents : d # NoDocument <=> d \in Documents
BY DEF NoDocument, Documents

LEMMA EngineOpenDoes ==
    ASSUME NEW S, NEW c \in Companions(S), c.session \in S, NEW asker \in Askers,
           NEW d, d = EngineOpen(c, asker)
    PROVE  /\ d \in Companions(S)
           /\ KeepsSession(c, d) /\ KeepsWords(c, d) /\ KeepsMirror(c, d) /\ KeepsReads(c, d)
           /\ d.bridge = c.bridge /\ d.held = c.held
           /\ \A s \in S : d.engines[s].has = c.engines[s].has
           /\ d.engines[c.session].holds
           /\ \A s \in S \ {c.session} : d.engines[s] = c.engines[s]
           /\ d.opens[c.session][asker] > 0
           /\ \A s \in S, a \in Askers : d.opens[s][a] >= c.opens[s][a]
<1> DEFINE engines == [c.engines EXCEPT ![c.session].holds = TRUE]
           opens == [c.opens EXCEPT ![c.session][asker] = @ + 1]
<1>1. d = [c EXCEPT !.engines = engines, !.opens = opens]
  BY DEF EngineOpen, Companions
<1>2. /\ engines \in [S -> [has : BOOLEAN, holds : BOOLEAN, refused : BOOLEAN]]
      /\ \A s \in S : engines[s].has = c.engines[s].has
      /\ engines[c.session].holds
      /\ \A s \in S \ {c.session} : engines[s] = c.engines[s]
  BY ZenonT(60) DEF Companions
<1>3. /\ opens \in [S -> [Askers -> Nat]]
      /\ opens[c.session][asker] > 0
      /\ \A s \in S, a \in Askers : opens[s][a] >= c.opens[s][a]
  BY DEF Companions
<1> HIDE DEF engines, opens
<1>4. QED
  BY <1>1, <1>2, <1>3, ZenonT(60) DEF Companions, KeepsSession, KeepsWords, KeepsMirror, KeepsReads

LEMMA EngineCloseDoes ==
    ASSUME NEW S, NEW c \in Companions(S), c.session \in S,
           NEW d, d = EngineClose(c)
    PROVE  /\ d \in Companions(S)
           /\ KeepsSession(c, d) /\ KeepsWords(c, d) /\ KeepsMirror(c, d) /\ KeepsReads(c, d)
           /\ d.bridge = c.bridge /\ d.held = c.held /\ d.opens = c.opens
           /\ \A s \in S : d.engines[s].has = c.engines[s].has
           /\ ~d.engines[c.session].holds
           /\ \A s \in S \ {c.session} : d.engines[s] = c.engines[s]
<1> DEFINE engine == [c.engines[c.session] EXCEPT !.holds = FALSE, !.refused = FALSE]
           engines == [c.engines EXCEPT ![c.session] = engine]
<1>1. d = [c EXCEPT !.engines = engines]
  BY DEF EngineClose, Companions
<1>2. /\ engines \in [S -> [has : BOOLEAN, holds : BOOLEAN, refused : BOOLEAN]]
      /\ \A s \in S : engines[s].has = c.engines[s].has
      /\ ~engines[c.session].holds
      /\ \A s \in S \ {c.session} : engines[s] = c.engines[s]
  BY DEF Companions
<1> HIDE DEF engines
<1>3. QED
  BY <1>1, <1>2, ZenonT(60) DEF Companions, KeepsSession, KeepsWords, KeepsMirror, KeepsReads

LEMMA EditorOpenedDoes ==
    ASSUME NEW S, NEW c \in Companions(S), NEW version \in Nat,
           NEW opened, opened.of \in Nat \ {0}, opened.text \in BOOLEAN,
           opened.present \in BOOLEAN,
           NEW d, d = EditorOpened(c, opened, version)
    PROVE  /\ d \in Companions(S)
           /\ KeepsSession(c, d) /\ KeepsWords(c, d) /\ KeepsRoom(c, d) /\ KeepsReads(c, d)
           /\ d.unarrived = c.unarrived /\ d.late = c.late
           /\ d.instances = c.instances + 1
           /\ d.document = [of |-> opened.of, text |-> opened.text,
                         version |-> version, instance |-> c.instances + 1,
                         materialized |-> opened.present]
<1> DEFINE made == [of |-> opened.of, text |-> opened.text,
                    version |-> version, instance |-> c.instances + 1,
                    materialized |-> opened.present]
           instances == c.instances + 1
<1>1. made \in Documents /\ instances \in Nat
  BY DEF Companions, Documents
<1>2. d = [c EXCEPT !.instances = instances, !.document = made]
  BY DEF EditorOpened, Companions
<1> HIDE DEF made, instances
<1>3. d \in Companions(S) /\ d.document = made /\ d.instances = instances
  BY <1>1, <1>2 DEF Companions
<1>4. /\ KeepsSession(c, d) /\ KeepsWords(c, d) /\ KeepsRoom(c, d) /\ KeepsReads(c, d)
      /\ d.unarrived = c.unarrived /\ d.late = c.late
  BY <1>2 DEF Companions, KeepsSession, KeepsWords, KeepsRoom, KeepsReads
<1>5. QED
  BY <1>3, <1>4 DEF made, instances

LEMMA MaterializedDoes ==
    ASSUME NEW S, NEW c \in Companions(S), NEW d, d = Materialized(c)
    PROVE  /\ d \in Companions(S)
           /\ KeepsSession(c, d) /\ KeepsWords(c, d) /\ KeepsRoom(c, d) /\ KeepsReads(c, d)
           /\ d.unarrived = c.unarrived /\ d.late = c.late /\ d.instances = c.instances
           /\ c.document = NoDocument => d = c
           /\ c.document # NoDocument =>
                 d.document = [c.document EXCEPT !.materialized = TRUE]
BY DocumentIs DEF Companions, Materialized, Documents, KeepsSession, KeepsWords, KeepsRoom, KeepsReads

(* A write that was asked for.                                             *)
Asked(c, d, guarded, there) ==
    /\ d.sent = Append(c.sent, [type |-> "save", id |-> c.nextId + 1,
                                of |-> c.document.of, guarded |-> guarded,
                                there |-> there])
    /\ d.nextId = c.nextId + 1
    /\ DOMAIN d.saves = DOMAIN c.saves \cup {c.nextId + 1}
    /\ \A id \in DOMAIN c.saves : d.saves[id] = c.saves[id]
    /\ c.nextId + 1 \notin DOMAIN c.saves
          => d.saves[c.nextId + 1] = c.document.instance

LEMMA EditorSaveDoes ==
    ASSUME NEW S, NEW c \in Companions(S), c.document # NoDocument,
           NEW guarded \in BOOLEAN, NEW there \in BOOLEAN,
           NEW d, d = EditorSave(c, [guarded |-> guarded, there |-> there])
    PROVE  /\ d \in Companions(S)
           /\ KeepsSession(c, d) /\ KeepsMirror(c, d) /\ KeepsRoom(c, d) /\ KeepsReads(c, d)
           /\ Asked(c, d, guarded, there)
<1> DEFINE id == c.nextId + 1
           more == [i \in DOMAIN c.saves \cup {id} |->
                        IF i \in DOMAIN c.saves THEN c.saves[i] ELSE c.document.instance]
           word == [type |-> "save", id |-> id, of |-> c.document.of,
                    guarded |-> guarded, there |-> there]
<1>1. c.document \in Documents /\ id \in Nat /\ c.saves \in Assignments
  BY DocumentIs DEF Companions
<1>2. more \in Assignments
  <2>1. PICK ids \in SUBSET Nat : c.saves \in [ids -> Nat \ {0}]
    BY <1>1 DEF Assignments
  <2>2. DOMAIN c.saves \cup {id} \in SUBSET Nat
    BY <1>1, <2>1
  <2>3. more \in [DOMAIN c.saves \cup {id} -> Nat \ {0}]
    BY <1>1, <2>1 DEF Documents
  <2>4. QED
    BY <2>2, <2>3 DEF Assignments
<1>3. word \in Words
  BY <1>1 DEF Words, Documents
<1>4. d = [c EXCEPT !.sent = Append(@, word), !.nextId = id, !.saves = more]
  BY <1>1 DEF EditorSave, Say, Companions
<1>5. Append(c.sent, word) \in Seq(Words)
  BY <1>3 DEF Companions
<1>6. /\ d \in Companions(S)
      /\ d.sent = Append(c.sent, word) /\ d.nextId = id /\ d.saves = more
  <2> HIDE DEF more, word
  <2> QED BY <1>1, <1>2, <1>4, <1>5 DEF Companions
<1>7. /\ KeepsSession(c, d) /\ KeepsMirror(c, d) /\ KeepsRoom(c, d) /\ KeepsReads(c, d)
  <2> HIDE DEF more, word
  <2> QED BY <1>4 DEF Companions, KeepsSession, KeepsMirror, KeepsRoom, KeepsReads
<1>8. QED
  BY <1>6, <1>7 DEF Asked

(* A bridge with the document has asked for the hold, and has put the      *)
(* buffer beside the room's text only with that text here.                 *)
Placed(S, c, d) ==
    /\ d.bridge \in {"unarrived", "open"}
    /\ d.held = c.held
    /\ d.opens[c.session]["bridge"] > 0
    /\ \A s \in S, a \in Askers : d.opens[s][a] >= c.opens[s][a]
    /\ \A s \in S \ {c.session} : d.engines[s] = c.engines[s]
    /\ c.engines[c.session].has => d.engines[c.session].has
    /\ c.role = "guest" => d.engines[c.session].has = c.engines[c.session].has

LEMMA DocumentOpenedDoes ==
    ASSUME NEW S, NEW c \in Companions(S), c.session \in S, c.document # NoDocument,
           NEW d, d = DocumentOpened(c)
    PROVE  /\ d \in Companions(S)
           /\ KeepsSession(c, d) /\ KeepsWords(c, d) /\ KeepsMirror(c, d) /\ KeepsReads(c, d)
           /\ Placed(S, c, d)
           /\ c.role = "guest" /\ d.bridge = "open" /\ c.document.text => Has(c)
<1>1. c.document \in Documents /\ c.document.text \in BOOLEAN /\ Has(c) \in BOOLEAN
  BY DocumentIs DEF Companions, Documents, Has
<1>2. "bridge" \in Askers
  BY DEF Askers
<1>3. CASE c.role = "guest" /\ ~Has(c) /\ c.document.text
  <2> DEFINE e == [c EXCEPT !.bridge = "unarrived"]
  <2>1. d = EngineOpen(e, "bridge")
    BY <1>3 DEF DocumentOpened
  <2>2. e \in Companions(S) /\ e.session = c.session
    BY DEF Companions
  <2>3. /\ KeepsSession(c, e) /\ KeepsWords(c, e) /\ KeepsMirror(c, e) /\ KeepsReads(c, e)
        /\ e.bridge = "unarrived" /\ e.held = c.held /\ e.engines = c.engines
        /\ e.opens = c.opens
    BY DEF Companions, KeepsSession, KeepsWords, KeepsMirror, KeepsReads
  <2> HIDE DEF e
  <2>4. QED
    BY <1>2, <1>3, <2>1, <2>2, <2>3, EngineOpenDoes
       DEF KeepsSession, KeepsWords, KeepsMirror, KeepsReads, Placed, Has
<1>4. CASE c.role = "guest" /\ (Has(c) \/ ~c.document.text)
  <2> DEFINE e == [c EXCEPT !.bridge = "open"]
  <2>1. d = EngineOpen(e, "bridge")
    BY <1>1, <1>4 DEF DocumentOpened
  <2>2. e \in Companions(S) /\ e.session = c.session
    BY DEF Companions
  <2>3. /\ KeepsSession(c, e) /\ KeepsWords(c, e) /\ KeepsMirror(c, e) /\ KeepsReads(c, e)
        /\ e.bridge = "open" /\ e.held = c.held /\ e.engines = c.engines
        /\ e.opens = c.opens
    BY DEF Companions, KeepsSession, KeepsWords, KeepsMirror, KeepsReads
  <2> HIDE DEF e
  <2>4. QED
    BY <1>2, <1>4, <2>1, <2>2, <2>3, EngineOpenDoes
       DEF KeepsSession, KeepsWords, KeepsMirror, KeepsReads, Placed, Has
<1>5. CASE c.role = "host"
  <2> DEFINE engines == [c.engines EXCEPT ![c.session].has = TRUE]
             e == [c EXCEPT !.bridge = "open", !.engines = engines]
  <2>1. d = EngineOpen(e, "bridge")
    BY <1>5 DEF DocumentOpened, Companions
  <2>2. /\ engines \in [S -> [has : BOOLEAN, holds : BOOLEAN, refused : BOOLEAN]]
        /\ engines[c.session].has
        /\ \A s \in S \ {c.session} : engines[s] = c.engines[s]
    BY DEF Companions
  <2> HIDE DEF engines
  <2>3. e \in Companions(S) /\ e.session = c.session
    BY <2>2 DEF Companions
  <2>4. /\ KeepsSession(c, e) /\ KeepsWords(c, e) /\ KeepsMirror(c, e) /\ KeepsReads(c, e)
        /\ e.bridge = "open" /\ e.held = c.held /\ e.engines = engines
        /\ e.opens = c.opens
    BY DEF Companions, KeepsSession, KeepsWords, KeepsMirror, KeepsReads
  <2> HIDE DEF e
  <2>5. QED
    BY <1>2, <1>5, <2>1, <2>2, <2>3, <2>4, EngineOpenDoes
       DEF KeepsSession, KeepsWords, KeepsMirror, KeepsReads, Placed, Has
<1>6. QED
  BY <1>1, <1>3, <1>4, <1>5 DEF Companions, Roles

LEMMA ArriveDoes ==
    ASSUME NEW S, NEW c \in Companions(S), c.session \in S, c.unarrived # NoDocument,
           NEW d, d = Arrive(c)
    PROVE  /\ d \in Companions(S)
           /\ KeepsSession(c, d) /\ KeepsWords(c, d) /\ KeepsReads(c, d)
           /\ d.unarrived = NoDocument /\ d.late = c.late
           /\ d.instances = c.instances + 1
           /\ d.document = [of |-> c.unarrived.of, text |-> c.unarrived.text,
                            version |-> c.unarrived.changes,
                            instance |-> d.instances,
                            materialized |-> c.unarrived.present]
           /\ Placed(S, c, d)
           /\ c.role = "guest" /\ d.bridge = "open" /\ d.document.text => Has(c)
<1> DEFINE e == [c EXCEPT !.unarrived = NoDocument]
           f == EditorOpened(e, c.unarrived, c.unarrived.changes)
<1>1. c.unarrived \in KeptBack
  BY DEF Companions
<1>2. /\ e \in Companions(S)
      /\ KeepsSession(c, e) /\ KeepsWords(c, e) /\ KeepsReads(c, e) /\ KeepsRoom(c, e)
      /\ e.unarrived = NoDocument /\ e.late = c.late /\ e.instances = c.instances
  BY DEF Companions, KeepsSession, KeepsWords, KeepsRoom, KeepsReads
<1>3. d = DocumentOpened(f)
  BY DEF Arrive
<1> HIDE DEF e
<1>4. /\ f \in Companions(S)
      /\ KeepsSession(e, f) /\ KeepsWords(e, f) /\ KeepsRoom(e, f) /\ KeepsReads(e, f)
      /\ f.unarrived = e.unarrived /\ f.late = e.late
      /\ f.instances = e.instances + 1
      /\ f.document = [of |-> c.unarrived.of, text |-> c.unarrived.text,
                       version |-> c.unarrived.changes,
                       instance |-> e.instances + 1,
                       materialized |-> c.unarrived.present]
  BY <1>1, <1>2, EditorOpenedDoes DEF KeptBack
<1> HIDE DEF f
<1>5. f.session \in S /\ f.document # NoDocument
  BY <1>2, <1>4 DEF KeepsSession, NoDocument
<1>6. /\ d \in Companions(S)
      /\ KeepsSession(f, d) /\ KeepsWords(f, d) /\ KeepsMirror(f, d) /\ KeepsReads(f, d)
      /\ Placed(S, f, d)
      /\ f.role = "guest" /\ d.bridge = "open" /\ f.document.text => Has(f)
  BY <1>3, <1>4, <1>5, DocumentOpenedDoes
<1>7. QED
  BY <1>2, <1>4, <1>6
     DEF KeepsSession, KeepsWords, KeepsRoom, KeepsMirror, KeepsReads, Placed, Has

LEMMA DocumentClosedDoes ==
    ASSUME NEW S, NEW c \in Companions(S), c.session \in S,
           NEW d, d = DocumentClosed(c)
    PROVE  /\ d \in Companions(S)
           /\ KeepsSession(c, d) /\ KeepsWords(c, d) /\ KeepsMirror(c, d) /\ KeepsReads(c, d)
           /\ d.bridge = "none" /\ ~d.held /\ d.opens = c.opens
           /\ \A s \in S : d.engines[s].has = c.engines[s].has
           /\ \A s \in S \ {c.session} : d.engines[s] = c.engines[s]
           /\ c.held => ~d.engines[c.session].holds
           /\ ~c.held => d.engines = c.engines
<1> DEFINE e == IF c.held THEN EngineClose(c) ELSE c
<1>1. d = [e EXCEPT !.bridge = "none", !.held = FALSE]
  BY DEF DocumentClosed
<1>2. /\ e \in Companions(S)
      /\ KeepsSession(c, e) /\ KeepsWords(c, e) /\ KeepsMirror(c, e) /\ KeepsReads(c, e)
      /\ e.opens = c.opens
      /\ \A s \in S : e.engines[s].has = c.engines[s].has
      /\ \A s \in S \ {c.session} : e.engines[s] = c.engines[s]
      /\ c.held => ~e.engines[c.session].holds
      /\ ~c.held => e.engines = c.engines
  BY EngineCloseDoes DEF KeepsSession, KeepsWords, KeepsMirror, KeepsReads
<1> HIDE DEF e
<1>3. d \in Companions(S) /\ d.engines = e.engines /\ d.opens = e.opens
  BY <1>1, <1>2 DEF Companions
<1>4. /\ KeepsSession(e, d) /\ KeepsWords(e, d) /\ KeepsMirror(e, d) /\ KeepsReads(e, d)
      /\ d.bridge = "none" /\ ~d.held
  BY <1>1, <1>2 DEF Companions, KeepsSession, KeepsWords, KeepsMirror, KeepsReads
<1>5. QED
  BY <1>2, <1>3, <1>4 DEF KeepsSession, KeepsWords, KeepsMirror, KeepsReads

(* What a mirror has of a document it was given.                           *)
MirrorOf(opened, version, instance) ==
    [of |-> opened.of, text |-> opened.text, version |-> version,
     instance |-> instance, materialized |-> opened.present]

LEMMA OpenDoes ==
    ASSUME NEW S, NEW c \in Companions(S), c.session \in S \cup {0},
           NEW opened, opened.of \in Nat \ {0}, opened.text \in BOOLEAN,
           opened.present \in BOOLEAN,
           NEW d, d = Open(c, opened)
    PROVE  /\ d \in Companions(S)
           /\ KeepsSession(c, d) /\ KeepsWords(c, d) /\ KeepsReads(c, d)
           /\ \/ /\ c.session # 0 /\ c.role # "host" /\ ~Has(c)
                 /\ d.unarrived = [of |-> opened.of, text |-> TRUE,
                                   present |-> opened.present, changes |-> 0]
                 /\ d.document = c.document /\ d.instances = c.instances
                 /\ d.late = c.late /\ d.bridge = c.bridge /\ d.held = c.held
                 /\ \A s \in S : d.engines[s].has = c.engines[s].has
                 /\ \A s \in S \ {c.session} : d.engines[s] = c.engines[s]
                 /\ \A s \in S, a \in Askers : d.opens[s][a] >= c.opens[s][a]
              \/ /\ d.unarrived = c.unarrived
                 /\ d.instances = c.instances + 1
                 /\ d.document = MirrorOf(opened, 0, d.instances)
                 /\ \/ c.session = 0 /\ d.late /\ KeepsRoom(c, d)
                    \/ /\ c.session # 0 /\ d.late = c.late
                       /\ Placed(S, c, d)
                       /\ c.role = "guest" /\ d.bridge = "open" /\ opened.text => Has(c)
<1>1. CASE c.session # 0 /\ c.role # "host" /\ ~Has(c) /\ opened.text
  <2> DEFINE kept == [of |-> opened.of, text |-> TRUE, present |-> opened.present,
                      changes |-> 0]
             e == [c EXCEPT !.unarrived = kept]
  <2>1. d = EngineOpen(e, "session") /\ "session" \in Askers
    BY <1>1 DEF Open, Askers
  <2>2. kept \in KeptBack
    BY DEF KeptBack
  <2> HIDE DEF kept
  <2>3. e \in Companions(S) /\ e.session = c.session /\ c.session \in S
    BY <1>1, <2>2 DEF Companions
  <2>4. /\ KeepsSession(c, e) /\ KeepsWords(c, e) /\ KeepsRoom(c, e) /\ KeepsReads(c, e)
        /\ e.document = c.document /\ e.instances = c.instances /\ e.late = c.late
        /\ e.unarrived = kept
    BY DEF Companions, KeepsSession, KeepsWords, KeepsRoom, KeepsReads
  <2> HIDE DEF e
  <2>5. /\ d \in Companions(S)
        /\ KeepsSession(e, d) /\ KeepsWords(e, d) /\ KeepsMirror(e, d) /\ KeepsReads(e, d)
        /\ d.bridge = e.bridge /\ d.held = e.held
        /\ \A s \in S : d.engines[s].has = e.engines[s].has
        /\ \A s \in S \ {e.session} : d.engines[s] = e.engines[s]
        /\ \A s \in S, a \in Askers : d.opens[s][a] >= e.opens[s][a]
    BY <2>1, <2>3, EngineOpenDoes
  <2>6. QED
    BY <1>1, <2>3, <2>4, <2>5
       DEF kept, KeepsSession, KeepsWords, KeepsMirror, KeepsReads, KeepsRoom
<1>2. CASE ~(c.session # 0 /\ c.role # "host" /\ ~Has(c) /\ opened.text)
  <2> DEFINE f == EditorOpened(c, opened, 0)
  <2>1. d = IF c.session = 0 THEN [f EXCEPT !.late = TRUE] ELSE DocumentOpened(f)
    BY <1>2 DEF Open
  <2>2. /\ f \in Companions(S)
        /\ KeepsSession(c, f) /\ KeepsWords(c, f) /\ KeepsRoom(c, f) /\ KeepsReads(c, f)
        /\ f.unarrived = c.unarrived /\ f.late = c.late
        /\ f.instances = c.instances + 1
        /\ f.document = MirrorOf(opened, 0, c.instances + 1)
    BY EditorOpenedDoes DEF MirrorOf
  <2> HIDE DEF f
  <2>3. CASE c.session = 0
    <3>0. d = [f EXCEPT !.late = TRUE] /\ f \in Companions(S)
      BY <2>1, <2>2, <2>3
    <3>1. d \in Companions(S) /\ d.late
      BY <3>0 DEF Companions
    <3>2. /\ KeepsSession(f, d) /\ KeepsWords(f, d) /\ KeepsRoom(f, d) /\ KeepsReads(f, d)
          /\ d.unarrived = f.unarrived /\ d.instances = f.instances
          /\ d.document = f.document
      BY <3>0 DEF Companions, KeepsSession, KeepsWords, KeepsRoom, KeepsReads
    <3>3. QED
      BY <2>2, <2>3, <3>1, <3>2 DEF KeepsSession, KeepsWords, KeepsRoom, KeepsReads
  <2>4. CASE c.session # 0
    <3>1. f.session \in S /\ f.document # NoDocument
      BY <2>2, <2>4 DEF KeepsSession, NoDocument, MirrorOf
    <3>2. /\ d \in Companions(S)
          /\ KeepsSession(f, d) /\ KeepsWords(f, d) /\ KeepsMirror(f, d) /\ KeepsReads(f, d)
          /\ Placed(S, f, d)
          /\ f.role = "guest" /\ d.bridge = "open" /\ f.document.text => Has(f)
      BY <2>1, <2>2, <2>4, <3>1, DocumentOpenedDoes
    <3>3. f.document.text = opened.text
      BY <2>2 DEF MirrorOf
    <3>4. QED
      BY <2>2, <2>4, <3>2, <3>3
         DEF KeepsSession, KeepsWords, KeepsRoom, KeepsMirror, KeepsReads, Placed, Has
  <2>5. QED
    BY <2>3, <2>4
<1>3. QED
  BY <1>1, <1>2

LEMMA ChangedDoes ==
    ASSUME NEW S, NEW c \in Companions(S), NEW d, d = Changed(c)
    PROVE  /\ d \in Companions(S)
           /\ KeepsSession(c, d) /\ KeepsWords(c, d) /\ KeepsRoom(c, d) /\ KeepsReads(c, d)
           /\ d.instances = c.instances /\ d.late = c.late
           /\ c.document # NoDocument =>
                 /\ d.document = [c.document EXCEPT !.version = @ + 1]
                 /\ d.unarrived = c.unarrived
           /\ c.document = NoDocument =>
                 /\ d.document = NoDocument
                 /\ c.unarrived # NoDocument =>
                       d.unarrived = [c.unarrived EXCEPT !.changes = @ + 1]
                 /\ c.unarrived = NoDocument => d.unarrived = NoDocument
<1>1. CASE c.document # NoDocument
  <2> DEFINE more == [c.document EXCEPT !.version = @ + 1]
  <2>1. d = [c EXCEPT !.document = more]
    BY <1>1 DEF Changed, Companions
  <2>2. more \in Documents
    BY <1>1, SMTT(30) DEF Companions, Documents
  <2> HIDE DEF more
  <2>3. d \in Companions(S) /\ d.document = more
    BY <2>1, <2>2 DEF Companions
  <2>4. /\ KeepsSession(c, d) /\ KeepsWords(c, d) /\ KeepsRoom(c, d) /\ KeepsReads(c, d)
        /\ d.unarrived = c.unarrived /\ d.late = c.late /\ d.instances = c.instances
    BY <2>1 DEF Companions, KeepsSession, KeepsWords, KeepsRoom, KeepsReads
  <2>5. QED
    BY <1>1, <2>3, <2>4 DEF more
<1>2. CASE c.document = NoDocument /\ c.unarrived # NoDocument
  <2> DEFINE more == [c.unarrived EXCEPT !.changes = @ + 1]
  <2>1. d = [c EXCEPT !.unarrived = more]
    BY <1>2 DEF Changed, Companions
  <2>2. more \in KeptBack
    BY <1>2, SMTT(30) DEF Companions, KeptBack
  <2> HIDE DEF more
  <2>3. d \in Companions(S) /\ d.unarrived = more
    BY <2>1, <2>2 DEF Companions
  <2>4. /\ KeepsSession(c, d) /\ KeepsWords(c, d) /\ KeepsRoom(c, d) /\ KeepsReads(c, d)
        /\ d.document = c.document /\ d.late = c.late /\ d.instances = c.instances
    BY <2>1 DEF Companions, KeepsSession, KeepsWords, KeepsRoom, KeepsReads
  <2>5. QED
    BY <1>2, <2>3, <2>4 DEF more
<1>3. CASE c.document = NoDocument /\ c.unarrived = NoDocument
  BY <1>3 DEF Changed, KeepsSession, KeepsWords, KeepsRoom, KeepsReads
<1>4. QED
  BY <1>1, <1>2, <1>3

LEMMA CloseDoes ==
    ASSUME NEW S, NEW c \in Companions(S), c.session \in S \cup {0},
           c.unarrived # NoDocument => c.session # 0,
           NEW d, d = Close(c)
    PROVE  /\ d \in Companions(S)
           /\ KeepsSession(c, d) /\ KeepsWords(c, d) /\ KeepsReads(c, d)
           /\ d.instances = c.instances /\ d.late = c.late /\ d.unarrived = NoDocument
           /\ d.opens = c.opens
           /\ \A s \in S : d.engines[s].has = c.engines[s].has
           /\ \A s \in S \ {c.session} : d.engines[s] = c.engines[s]
           /\ c.unarrived # NoDocument =>
                 /\ d.document = c.document /\ d.bridge = c.bridge /\ d.held = c.held
                 /\ ~d.engines[c.session].holds
           /\ c.unarrived = NoDocument =>
                 /\ d.document = NoDocument
                 /\ c.session = 0 => KeepsRoom(c, d)
                 /\ c.session # 0 =>
                       /\ d.bridge = "none" /\ ~d.held
                       /\ c.held => ~d.engines[c.session].holds
                       /\ ~c.held => d.engines = c.engines
<1>1. CASE c.unarrived # NoDocument
  <2> DEFINE e == [c EXCEPT !.unarrived = NoDocument]
  <2>1. d = EngineClose(e)
    BY <1>1 DEF Close
  <2>2. /\ e \in Companions(S)
        /\ KeepsSession(c, e) /\ KeepsWords(c, e) /\ KeepsRoom(c, e) /\ KeepsReads(c, e)
        /\ e.document = c.document /\ e.instances = c.instances /\ e.late = c.late
        /\ e.unarrived = NoDocument
    BY DEF Companions, KeepsSession, KeepsWords, KeepsRoom, KeepsReads
  <2> HIDE DEF e
  <2>3. e.session \in S /\ c.session \in S
    BY <1>1, <2>2 DEF KeepsSession
  <2>4. QED
    BY <1>1, <2>1, <2>2, <2>3, EngineCloseDoes
       DEF KeepsSession, KeepsWords, KeepsMirror, KeepsReads, KeepsRoom
<1>2. CASE c.unarrived = NoDocument
  <2> DEFINE e == IF c.session = 0 THEN c ELSE DocumentClosed(c)
  <2>1. d = [e EXCEPT !.document = NoDocument]
    BY <1>2 DEF Close
  <2>2. /\ e \in Companions(S)
        /\ KeepsSession(c, e) /\ KeepsWords(c, e) /\ KeepsMirror(c, e) /\ KeepsReads(c, e)
        /\ e.opens = c.opens
        /\ \A s \in S : e.engines[s].has = c.engines[s].has
        /\ \A s \in S \ {c.session} : e.engines[s] = c.engines[s]
        /\ c.session = 0 => KeepsRoom(c, e)
        /\ c.session # 0 =>
              /\ e.bridge = "none" /\ ~e.held
              /\ c.held => ~e.engines[c.session].holds
              /\ ~c.held => e.engines = c.engines
    BY DocumentClosedDoes DEF KeepsSession, KeepsWords, KeepsMirror, KeepsReads, KeepsRoom
  <2> HIDE DEF e
  <2>3. d \in Companions(S) /\ d.document = NoDocument
    BY <2>1, <2>2 DEF Companions
  <2>4. /\ KeepsSession(e, d) /\ KeepsWords(e, d) /\ KeepsRoom(e, d) /\ KeepsReads(e, d)
        /\ d.unarrived = e.unarrived /\ d.late = e.late /\ d.instances = e.instances
    BY <2>1, <2>2 DEF Companions, KeepsSession, KeepsWords, KeepsRoom, KeepsReads
  <2>5. QED
    BY <1>2, <2>2, <2>3, <2>4
       DEF KeepsSession, KeepsWords, KeepsMirror, KeepsReads, KeepsRoom
<1>3. QED
  BY <1>1, <1>2

LEMMA LeaveDoes ==
    ASSUME NEW S, NEW c \in Companions(S), NEW d, d = Leave(c)
    PROVE  /\ d \in Companions(S)
           /\ d.session = 0 /\ d.started = c.started /\ d.role = c.role
           /\ d.bridge = "none" /\ ~d.held
           /\ d.engines = c.engines /\ d.opens = c.opens
           /\ d.document = NoDocument /\ d.unarrived = NoDocument
           /\ d.instances = c.instances /\ d.late = c.late
           /\ d.saves = <<>> /\ d.nextId = c.nextId
           /\ KeepsReads(c, d)
           /\ d.sent = Append(c.sent, [type |-> "status", live |-> FALSE])
<1> DEFINE word == [type |-> "status", live |-> FALSE]
           sent == Append(c.sent, word)
           nothing == <<>>
<1>1. d = [c EXCEPT !.session = 0, !.bridge = "none", !.held = FALSE,
                    !.unarrived = NoDocument, !.document = NoDocument,
                    !.saves = nothing, !.sent = sent]
  BY DEF Leave, Say, Companions
<1>2. sent \in Seq(Words)
  BY DEF Words, Companions
<1>3. nothing \in Assignments
  <2>1. <<>> \in [{} -> Nat \ {0}]
    OBVIOUS
  <2>2. QED
    BY <2>1 DEF Assignments
<1> HIDE DEF sent, nothing
<1> DEFINE apart == [c EXCEPT !.session = 0, !.bridge = "none", !.held = FALSE]
           empty == [apart EXCEPT !.unarrived = NoDocument, !.document = NoDocument]
<1>4. apart \in Companions(S)
  BY DEF Companions
<1> HIDE DEF apart
<1>5. empty \in Companions(S)
  BY <1>4 DEF Companions
<1> HIDE DEF empty
<1>6. d = [empty EXCEPT !.saves = nothing, !.sent = sent]
  BY <1>1 DEF empty, apart, Companions
<1>7. d \in Companions(S)
  BY <1>2, <1>3, <1>5, <1>6 DEF Companions
<1>8. QED
  BY <1>1, <1>7 DEF sent, nothing, Companions, KeepsReads

LEMMA ConnectDoes ==
    ASSUME NEW S, NEW c \in Companions(S), c.session = 0, NEW role \in Roles,
           NEW d, d = Connect(c, role)
    PROVE  /\ d \in Companions(S)
           /\ d.session = c.started + 1 /\ d.started = c.started + 1 /\ d.role = role
           /\ KeepsMirror(c, d) /\ KeepsRoom(c, d) /\ KeepsReads(c, d)
           /\ d.saves = c.saves /\ d.nextId = c.nextId
           /\ d.sent = Append(c.sent, [type |-> "status", live |-> TRUE])
<1> DEFINE word == [type |-> "status", live |-> TRUE]
           sent == Append(c.sent, word)
           number == c.started + 1
<1>1. d = [c EXCEPT !.session = number, !.started = number, !.role = role,
                    !.sent = sent]
  BY DEF Connect, Say, Companions
<1>2. sent \in Seq(Words) /\ number \in Nat
  BY DEF Words, Companions
<1> HIDE DEF sent, number
<1>3. d \in Companions(S)
  BY <1>1, <1>2 DEF Companions
<1>4. QED
  BY <1>1, <1>3 DEF number, sent, Companions, KeepsMirror, KeepsRoom, KeepsReads

LEMMA SettleSaveDoes ==
    ASSUME NEW S, NEW c \in Companions(S), NEW id \in Nat, NEW ok \in BOOLEAN,
           NEW d, d = SettleSave(c, id, ok)
    PROVE  /\ d \in Companions(S)
           /\ KeepsSession(c, d) /\ KeepsRoom(c, d) /\ KeepsReads(c, d)
           /\ d.sent = c.sent /\ d.nextId = c.nextId
           /\ d.unarrived = c.unarrived /\ d.late = c.late /\ d.instances = c.instances
           /\ DOMAIN d.saves = DOMAIN c.saves \ {id}
           /\ \A i \in DOMAIN c.saves \ {id} : d.saves[i] = c.saves[i]
           /\ \/ /\ ok /\ c.document # NoDocument /\ id \in DOMAIN c.saves
                 /\ c.saves[id] = c.document.instance
                 /\ d.document = [c.document EXCEPT !.materialized = TRUE]
              \/ /\ ~(/\ ok /\ c.document # NoDocument /\ id \in DOMAIN c.saves
                      /\ c.saves[id] = c.document.instance)
                 /\ d.document = c.document
<1> DEFINE left == [i \in DOMAIN c.saves \ {id} |-> c.saves[i]]
           e == [c EXCEPT !.saves = left]
           own == c.document # NoDocument /\ c.document.instance = c.saves[id]
<1>1. CASE id \notin DOMAIN c.saves
  BY <1>1 DEF SettleSave, KeepsSession, KeepsRoom, KeepsReads
<1>2. CASE id \in DOMAIN c.saves
  <2>1. left \in Assignments
    <3>1. PICK ids \in SUBSET Nat : c.saves \in [ids -> Nat \ {0}]
      BY DEF Companions, Assignments
    <3>2. left \in [ids \ {id} -> Nat \ {0}] /\ ids \ {id} \in SUBSET Nat
      BY <3>1
    <3>3. QED
      BY <3>2 DEF Assignments
  <2>2. d = IF ok /\ own THEN Materialized(e) ELSE e
    BY <1>2 DEF SettleSave, Companions
  <2>3. DOMAIN left = DOMAIN c.saves \ {id} /\ \A i \in DOMAIN c.saves \ {id} : left[i] = c.saves[i]
    OBVIOUS
  <2> HIDE DEF left
  <2>4. e \in Companions(S)
    BY <2>1 DEF Companions
  <2>5. /\ KeepsSession(c, e) /\ KeepsMirror(c, e) /\ KeepsRoom(c, e) /\ KeepsReads(c, e)
        /\ e.sent = c.sent /\ e.nextId = c.nextId /\ e.saves = left
    BY DEF Companions, KeepsSession, KeepsMirror, KeepsRoom, KeepsReads
  <2> HIDE DEF e
  <2>6. CASE ok /\ own
    <3>1. /\ d \in Companions(S)
          /\ KeepsSession(e, d) /\ KeepsWords(e, d) /\ KeepsRoom(e, d) /\ KeepsReads(e, d)
          /\ d.unarrived = e.unarrived /\ d.late = e.late /\ d.instances = e.instances
          /\ e.document # NoDocument =>
                 d.document = [e.document EXCEPT !.materialized = TRUE]
      BY <2>2, <2>4, <2>6, MaterializedDoes
    <3>2. QED
      BY <1>2, <2>3, <2>5, <2>6, <3>1, ZenonT(60)
         DEF KeepsSession, KeepsWords, KeepsMirror, KeepsRoom, KeepsReads
  <2>7. CASE ~(ok /\ own)
    BY <1>2, <2>2, <2>3, <2>4, <2>5, <2>7
       DEF KeepsSession, KeepsWords, KeepsMirror, KeepsRoom, KeepsReads
  <2>8. QED
    BY <2>6, <2>7
<1>3. QED
  BY <1>1, <1>2

LEMMA SaveHostFileDoes ==
    ASSUME NEW S, NEW c \in Companions(S), c.document # NoDocument,
           NEW there \in BOOLEAN, NEW d, d = SaveHostFile(c, there)
    PROVE  /\ d \in Companions(S)
           /\ KeepsSession(c, d) /\ KeepsMirror(c, d) /\ KeepsRoom(c, d)
           /\ \/ /\ KeepsWords(c, d)
                 /\ d.reads = Append(c.reads, [session |-> c.session,
                                               instance |-> c.document.instance,
                                               there |-> there, answer |-> "none"])
              \/ KeepsReads(c, d) /\ Asked(c, d, FALSE, there)
<1>1. CASE c.role = "host" /\ c.document.materialized
  <2> DEFINE read == [session |-> c.session, instance |-> c.document.instance,
                      there |-> there, answer |-> "none"]
             reads == Append(c.reads, read)
  <2>1. d = [c EXCEPT !.reads = reads]
    BY <1>1 DEF SaveHostFile, Companions
  <2>2. read \in ReadsInFlight
    BY DocumentIs DEF Companions, Documents, ReadsInFlight
  <2>3. reads \in Seq(ReadsInFlight)
    BY <2>2 DEF Companions
  <2> HIDE DEF reads
  <2>4. d \in Companions(S) /\ d.reads = reads
    BY <2>1, <2>3 DEF Companions
  <2>5. /\ KeepsSession(c, d) /\ KeepsMirror(c, d) /\ KeepsRoom(c, d) /\ KeepsWords(c, d)
    BY <2>1 DEF Companions, KeepsSession, KeepsMirror, KeepsRoom, KeepsWords
  <2>6. QED
    BY <2>4, <2>5 DEF reads
<1>2. CASE ~(c.role = "host" /\ c.document.materialized)
  <2>1. d = EditorSave(c, [guarded |-> FALSE, there |-> there])
    BY <1>2 DEF SaveHostFile
  <2>2. QED
    BY <2>1, EditorSaveDoes
<1>3. QED
  BY <1>1, <1>2

LEMMA JudgedDoes ==
    ASSUME NEW S, NEW c \in Companions(S), NEW read \in ReadsInFlight,
           NEW d, d = Judged(c, read)
    PROVE  /\ d \in Companions(S)
           /\ KeepsSession(c, d) /\ KeepsMirror(c, d) /\ KeepsRoom(c, d) /\ KeepsReads(c, d)
           /\ \/ d = c
              \/ /\ c.document # NoDocument
                 /\ read.answer = "not absent"
                 /\ Asked(c, d, TRUE, read.there)
<1>1. CASE /\ c.session = read.session
           /\ read.answer = "not absent"
           /\ c.document # NoDocument
           /\ c.document.instance = read.instance
  <2>1. d = EditorSave(c, [guarded |-> TRUE, there |-> read.there])
    BY <1>1 DEF Judged
  <2>2. read.there \in BOOLEAN
    BY DEF ReadsInFlight
  <2>3. QED
    BY <1>1, <2>1, <2>2, EditorSaveDoes
<1>2. CASE ~(/\ c.session = read.session
             /\ read.answer = "not absent"
             /\ c.document # NoDocument
             /\ c.document.instance = read.instance)
  BY <1>2 DEF Judged, KeepsSession, KeepsMirror, KeepsRoom, KeepsReads
<1>3. QED
  BY <1>1, <1>2

LEMMA AppearsDoes ==
    ASSUME NEW S, NEW c \in Companions(S), NEW d, d = Appears(c)
    PROVE  /\ d \in Companions(S)
           /\ KeepsSession(c, d) /\ KeepsMirror(c, d) /\ KeepsRoom(c, d) /\ KeepsWords(c, d)
           /\ DOMAIN d.reads = DOMAIN c.reads
           /\ \A i \in DOMAIN c.reads :
                d.reads[i] = [c.reads[i] EXCEPT !.there = TRUE]
<1> DEFINE reads == [i \in DOMAIN c.reads |-> [c.reads[i] EXCEPT !.there = TRUE]]
<1>1. d = [c EXCEPT !.reads = reads]
  BY DEF Appears, Companions
<1>2. c.reads \in Seq(ReadsInFlight)
  BY DEF Companions
<1>3. \A i \in DOMAIN c.reads : c.reads[i] \in ReadsInFlight
  BY <1>2
<1>4. \A r \in ReadsInFlight : [r EXCEPT !.there = TRUE] \in ReadsInFlight
  BY DEF ReadsInFlight
<1>5. reads \in [1 .. Len(c.reads) -> ReadsInFlight] /\ Len(c.reads) \in Nat
  BY <1>2, <1>3, <1>4
<1>6. /\ DOMAIN reads = DOMAIN c.reads
      /\ \A i \in DOMAIN c.reads : reads[i] = [c.reads[i] EXCEPT !.there = TRUE]
  OBVIOUS
<1> HIDE DEF reads
<1>7. reads \in Seq(ReadsInFlight)
  <2> HIDE DEF ReadsInFlight
  <2>1. QED
    BY <1>5, SeqDef
<1>8. d \in Companions(S) /\ d.reads = reads
  BY <1>1, <1>7 DEF Companions
<1>9. /\ KeepsSession(c, d) /\ KeepsMirror(c, d) /\ KeepsRoom(c, d) /\ KeepsWords(c, d)
  BY <1>1 DEF Companions, KeepsSession, KeepsMirror, KeepsRoom, KeepsWords
<1>10. QED
  BY <1>6, <1>8, <1>9

(***************************************************************************)
(* What is on a pipe, as a message is put on it or taken off.              *)
(***************************************************************************)
LEMMA AppendAt ==
    ASSUME NEW T, NEW s \in Seq(T), NEW m \in T, NEW t, t = Append(s, m)
    PROVE  /\ Len(s) \in Nat
           /\ t \in Seq(T)
           /\ Len(t) = Len(s) + 1
           /\ DOMAIN s = 1 .. Len(s) /\ DOMAIN t = 1 .. Len(s) + 1
           /\ \A i \in 1 .. Len(s) : t[i] = s[i] /\ s[i] \in T
           /\ t[Len(s) + 1] = m
OBVIOUS

LEMMA TailAt ==
    ASSUME NEW T, NEW s \in Seq(T), s # <<>>, NEW t, t = Tail(s)
    PROVE  /\ Len(s) \in Nat \ {0}
           /\ t \in Seq(T)
           /\ Len(t) = Len(s) - 1
           /\ DOMAIN s = 1 .. Len(s) /\ DOMAIN t = 1 .. Len(s) - 1
           /\ \A i \in 1 .. Len(s) - 1 : t[i] = s[i + 1]
           /\ \A i \in 1 .. Len(s) : s[i] \in T
           /\ Head(s) = s[1]
OBVIOUS

Sent(p, types) == \E i \in 1 .. Len(p) : p[i].type \in types
SaysLive(q) == \E i \in 1 .. Len(q) : q[i].type = "status" /\ q[i].live
SaysIdle(q) == \E i \in 1 .. Len(q) : q[i].type = "status" /\ ~q[i].live

(* A leave is the last that is said in a session, a start the last of all. *)
Ordered(p) ==
    \A i, j \in 1 .. Len(p) : i < j =>
        /\ p[i].type = "leave" => p[j].type \in {"start", "saved"}
        /\ p[i].type = "start" => p[j].type = "saved"

(* One session at most is announced, to a front-end that asked for it and  *)
(* has said nothing since, and if it has ended the word is behind it.      *)
Announced(standing, p, session, q) ==
    \A i \in 1 .. Len(q) : q[i].type = "status" /\ q[i].live =>
        /\ standing = "asked"
        /\ \A j \in 1 .. Len(p) : p[j].type = "saved"
        /\ \A j \in 1 .. Len(q) : q[j].type = "status" /\ q[j].live => i = j
        /\ session = 0 <=>
              \E j \in 1 .. Len(q) : j > i /\ q[j].type = "status" /\ ~q[j].live

(* What the front-end takes the session for, and what the companion has,   *)
(* differ by what is between them: a start, a leave or a word.             *)
Agreed(standing, p, session, started, q, sessions) ==
    /\ session \in {0, started}
    /\ started <= sessions
    /\ Ordered(p)
    /\ Announced(standing, p, session, q)
    /\ Sent(p, {"start"}) =>
          /\ standing = "asked"
          /\ session = 0 \/ Sent(p, {"leave"})
          /\ started < sessions
          /\ ~SaysLive(q)
    /\ standing = "idle" =>
          /\ ~SaysLive(q)
          /\ session # 0 => Sent(p, {"leave"})
    /\ standing = "asked" /\ session # 0 => Sent(p, {"leave"}) \/ SaysLive(q)
    /\ standing = "live" =>
          /\ ~Sent(p, {"leave"})
          /\ session = 0 <=> SaysIdle(q)

LEMMA SentAppended ==
    ASSUME NEW p \in Seq(Messages), NEW m \in Messages
    PROVE  \A types : Sent(Append(p, m), types) <=> Sent(p, types) \/ m.type \in types
BY AppendAt DEF Sent

LEMMA SentTaken ==
    ASSUME NEW p \in Seq(Messages), p # <<>>
    PROVE  \A types : Sent(p, types) <=> Sent(Tail(p), types) \/ Head(p).type \in types
<1> DEFINE t == Tail(p)
<1>1. /\ Len(p) \in Nat \ {0} /\ Len(t) = Len(p) - 1
      /\ \A i \in 1 .. Len(p) - 1 : t[i] = p[i + 1]
      /\ Head(p) = p[1]
  BY TailAt
<1> HIDE DEF t
<1>2. ASSUME NEW types, Sent(p, types), p[1].type \notin types
      PROVE  Sent(t, types)
  <2>1. PICK i \in 1 .. Len(p) : p[i].type \in types
    BY <1>2 DEF Sent
  <2>2. i # 1 /\ t[i - 1] = p[i] /\ i - 1 \in 1 .. Len(t)
    BY <1>1, <1>2, <2>1
  <2>3. QED
    BY <2>1, <2>2 DEF Sent
<1>3. QED
  BY <1>1, <1>2 DEF Sent, t

LEMMA OrderedTaken ==
    ASSUME NEW p \in Seq(Messages), p # <<>>, Ordered(p)
    PROVE  Ordered(Tail(p))
<1> DEFINE t == Tail(p)
<1>1. /\ Len(p) \in Nat \ {0} /\ Len(t) = Len(p) - 1
      /\ \A i \in 1 .. Len(p) - 1 : t[i] = p[i + 1]
  BY TailAt
<1> HIDE DEF t
<1>2. SUFFICES ASSUME NEW i \in 1 .. Len(t), NEW j \in 1 .. Len(t), i < j
      PROVE  /\ t[i].type = "leave" => t[j].type \in {"start", "saved"}
             /\ t[i].type = "start" => t[j].type = "saved"
  BY DEF Ordered, t
<1>3. /\ i + 1 \in 1 .. Len(p) /\ j + 1 \in 1 .. Len(p) /\ i + 1 < j + 1
      /\ t[i] = p[i + 1] /\ t[j] = p[j + 1]
  BY <1>1, <1>2
<1>4. QED
  BY <1>3 DEF Ordered

LEMMA AnnouncedTaken ==
    ASSUME NEW standing, NEW p \in Seq(Messages), NEW session, NEW q, p # <<>>,
           Announced(standing, p, session, q)
    PROVE  Announced(standing, Tail(p), session, q)
<1> DEFINE t == Tail(p)
<1>1. /\ Len(p) \in Nat \ {0} /\ Len(t) = Len(p) - 1
      /\ \A i \in 1 .. Len(p) - 1 : t[i] = p[i + 1]
  BY TailAt
<1> HIDE DEF t
<1>2. \A i \in 1 .. Len(t) : i + 1 \in 1 .. Len(p) /\ t[i] = p[i + 1]
  BY <1>1
<1>3. (\A j \in 1 .. Len(p) : p[j].type = "saved") => \A j \in 1 .. Len(t) : t[j].type = "saved"
  BY <1>2
<1>4. QED
  BY <1>3, Zenon DEF Announced, t

LEMMA SaysAppended ==
    ASSUME NEW q \in Seq(Words), NEW w \in Words
    PROVE  /\ SaysLive(Append(q, w)) <=> SaysLive(q) \/ (w.type = "status" /\ w.live)
           /\ SaysIdle(Append(q, w)) <=> SaysIdle(q) \/ (w.type = "status" /\ ~w.live)
BY AppendAt DEF SaysLive, SaysIdle

LEMMA SaysTaken ==
    ASSUME NEW q \in Seq(Words), q # <<>>
    PROVE  /\ SaysLive(q) <=> SaysLive(Tail(q)) \/ (Head(q).type = "status" /\ Head(q).live)
           /\ SaysIdle(q) <=> SaysIdle(Tail(q)) \/ (Head(q).type = "status" /\ ~Head(q).live)
<1> DEFINE u == Tail(q)
<1>1. /\ Len(q) \in Nat \ {0} /\ Len(u) = Len(q) - 1
      /\ \A i \in 1 .. Len(q) - 1 : u[i] = q[i + 1]
      /\ Head(q) = q[1]
  BY TailAt
<1> HIDE DEF u
<1>2. \A i \in 1 .. Len(u) : i + 1 \in 1 .. Len(q) /\ u[i] = q[i + 1]
  BY <1>1
<1>3. \A i \in 1 .. Len(q) : i = 1 \/ (i - 1 \in 1 .. Len(u) /\ u[i - 1] = q[i])
  BY <1>1
<1>4. 1 \in 1 .. Len(q)
  BY <1>1
<1>5. QED
  BY <1>1, <1>2, <1>3, <1>4, ZenonT(30) DEF SaysLive, SaysIdle, u

(* A word that is not on the standing does not change what was announced;  *)
(* the end of a session is heard after its beginning.                      *)
LEMMA AnnouncedSaid ==
    ASSUME NEW standing, NEW p, NEW session \in Nat, NEW q \in Seq(Words), NEW w \in Words,
           NEW session1,
           Announced(standing, p, session, q),
           \/ w.type # "status" /\ session1 = session
           \/ w.type = "status" /\ ~w.live /\ session1 = 0
    PROVE  Announced(standing, p, session1, Append(q, w))
<1> DEFINE u == Append(q, w)
<1>1. /\ Len(q) \in Nat /\ Len(u) = Len(q) + 1
      /\ \A i \in 1 .. Len(q) : u[i] = q[i]
      /\ u[Len(q) + 1] = w
  BY AppendAt
<1> HIDE DEF u
<1>2. SUFFICES ASSUME NEW i \in 1 .. Len(u), u[i].type = "status" /\ u[i].live
      PROVE  /\ standing = "asked"
             /\ \A j \in 1 .. Len(p) : p[j].type = "saved"
             /\ \A j \in 1 .. Len(u) : u[j].type = "status" /\ u[j].live => i = j
             /\ session1 = 0 <=>
                   \E j \in 1 .. Len(u) : j > i /\ u[j].type = "status" /\ ~u[j].live
  BY DEF Announced, u
<1>3. i \in 1 .. Len(q) /\ q[i] = u[i]
  BY <1>1, <1>2
<1>4. /\ standing = "asked"
      /\ \A j \in 1 .. Len(p) : p[j].type = "saved"
      /\ \A j \in 1 .. Len(q) : q[j].type = "status" /\ q[j].live => i = j
      /\ session = 0 <=>
            \E j \in 1 .. Len(q) : j > i /\ q[j].type = "status" /\ ~q[j].live
  BY <1>2, <1>3 DEF Announced
<1>5. \A j \in 1 .. Len(u) : u[j].type = "status" /\ u[j].live => i = j
  BY <1>1, <1>4
<1>6. CASE w.type # "status" /\ session1 = session
  <2>1. (\E j \in 1 .. Len(q) : j > i /\ q[j].type = "status" /\ ~q[j].live)
        <=> (\E j \in 1 .. Len(u) : j > i /\ u[j].type = "status" /\ ~u[j].live)
    BY <1>1, <1>3, <1>6
  <2>2. QED
    BY <1>4, <1>5, <1>6, <2>1
<1>7. CASE w.type = "status" /\ ~w.live /\ session1 = 0
  <2>1. Len(u) > i /\ u[Len(u)].type = "status" /\ ~u[Len(u)].live /\ Len(u) \in 1 .. Len(u)
    BY <1>1, <1>3, <1>7
  <2>2. QED
    BY <1>4, <1>5, <1>7, <2>1
<1>8. QED
  BY <1>6, <1>7

LEMMA AnnouncedHeard ==
    ASSUME NEW standing, NEW p, NEW session \in Nat, NEW q \in Seq(Words), q # <<>>,
           Announced(standing, p, session, q)
    PROVE  Announced(standing, p, session, Tail(q))
<1> DEFINE u == Tail(q)
<1>1. /\ Len(q) \in Nat \ {0} /\ Len(u) = Len(q) - 1
      /\ \A i \in 1 .. Len(q) - 1 : u[i] = q[i + 1]
  BY TailAt
<1> HIDE DEF u
<1>2. SUFFICES ASSUME NEW i \in 1 .. Len(u), u[i].type = "status" /\ u[i].live
      PROVE  /\ standing = "asked"
             /\ \A j \in 1 .. Len(p) : p[j].type = "saved"
             /\ \A j \in 1 .. Len(u) : u[j].type = "status" /\ u[j].live => i = j
             /\ session = 0 <=>
                   \E j \in 1 .. Len(u) : j > i /\ u[j].type = "status" /\ ~u[j].live
  BY DEF Announced, u
<1>3. i + 1 \in 1 .. Len(q) /\ q[i + 1] = u[i]
  BY <1>1
<1>4. /\ standing = "asked"
      /\ \A j \in 1 .. Len(p) : p[j].type = "saved"
      /\ \A j \in 1 .. Len(q) : q[j].type = "status" /\ q[j].live => i + 1 = j
      /\ session = 0 <=>
            \E j \in 1 .. Len(q) : j > i + 1 /\ q[j].type = "status" /\ ~q[j].live
  BY <1>2, <1>3 DEF Announced
<1>5. \A j \in 1 .. Len(u) : j + 1 \in 1 .. Len(q) /\ q[j + 1] = u[j]
  BY <1>1
<1>6. \A j \in 1 .. Len(u) : u[j].type = "status" /\ u[j].live => i = j
  BY <1>4, <1>5
<1>7. ASSUME NEW j \in 1 .. Len(q), j > i + 1 /\ q[j].type = "status" /\ ~q[j].live
      PROVE  \E k \in 1 .. Len(u) : k > i /\ u[k].type = "status" /\ ~u[k].live
  <2>1. j - 1 \in 1 .. Len(u) /\ j - 1 > i /\ u[j - 1] = q[j]
    BY <1>1, <1>7
  <2>2. QED
    BY <1>7, <2>1
<1>8. ASSUME NEW k \in 1 .. Len(u), k > i /\ u[k].type = "status" /\ ~u[k].live
      PROVE  \E j \in 1 .. Len(q) : j > i + 1 /\ q[j].type = "status" /\ ~q[j].live
  <2>1. k + 1 > i + 1
    BY <1>8
  <2>2. QED
    BY <1>5, <1>8, <2>1
<1>9. QED
  BY <1>4, <1>6, <1>7, <1>8

LEMMA AgreedSend ==
    ASSUME NEW standing, NEW p \in Seq(Messages), NEW session \in Nat, NEW started \in Nat,
           NEW q \in Seq(Words), NEW sessions \in Nat,
           Agreed(standing, p, session, started, q, sessions),
           NEW m \in Messages, m.type \notin {"start", "leave"},
           standing = "live" \/ m.type = "saved"
    PROVE  Agreed(standing, Append(p, m), session, started, q, sessions)
<1> DEFINE t == Append(p, m)
<1>1. /\ Len(p) \in Nat /\ Len(t) = Len(p) + 1
      /\ \A i \in 1 .. Len(p) : t[i] = p[i]
      /\ t[Len(p) + 1] = m
  BY AppendAt
<1>2. \A types : Sent(t, types) <=> Sent(p, types) \/ m.type \in types
  BY SentAppended
<1> HIDE DEF t
<1>3. standing = "live" => \A i \in 1 .. Len(p) : p[i].type \notin {"start", "leave"}
  BY DEF Agreed, Sent
<1>4. Ordered(t)
  <2>1. ASSUME NEW i \in 1 .. Len(t), NEW j \in 1 .. Len(t), i < j
        PROVE  /\ t[i].type = "leave" => t[j].type \in {"start", "saved"}
               /\ t[i].type = "start" => t[j].type = "saved"
    <3>1. i \in 1 .. Len(p) /\ t[i] = p[i]
      BY <1>1, <2>1
    <3>2. CASE j \in 1 .. Len(p)
      <4>1. t[j] = p[j] /\ Ordered(p)
        BY <1>1, <3>2 DEF Agreed
      <4>2. QED
        BY <2>1, <3>1, <3>2, <4>1 DEF Ordered
    <3>3. CASE j = Len(p) + 1
      BY <1>1, <1>3, <3>1, <3>3
    <3>4. QED
      BY <1>1, <3>2, <3>3
  <2>2. QED
    BY <2>1 DEF Ordered
<1>5. Announced(standing, p, session, q)
  BY DEF Agreed
<1>6. Announced(standing, t, session, q)
  <2>1. ASSUME NEW i \in 1 .. Len(q), q[i].type = "status" /\ q[i].live
        PROVE  /\ standing = "asked"
               /\ \A j \in 1 .. Len(t) : t[j].type = "saved"
               /\ \A j \in 1 .. Len(q) : q[j].type = "status" /\ q[j].live => i = j
               /\ session = 0 <=>
                     \E j \in 1 .. Len(q) : j > i /\ q[j].type = "status" /\ ~q[j].live
    <3>1. /\ standing = "asked"
          /\ \A j \in 1 .. Len(p) : p[j].type = "saved"
          /\ \A j \in 1 .. Len(q) : q[j].type = "status" /\ q[j].live => i = j
          /\ session = 0 <=>
                \E j \in 1 .. Len(q) : j > i /\ q[j].type = "status" /\ ~q[j].live
      BY <1>5, <2>1 DEF Announced
    <3>2. m.type = "saved"
      BY <3>1
    <3>3. \A j \in 1 .. Len(t) : t[j].type = "saved"
      <4>1. ASSUME NEW j \in 1 .. Len(t) PROVE j \in 1 .. Len(p) \/ j = Len(p) + 1
        BY <1>1
      <4>2. QED
        BY <1>1, <3>1, <3>2, <4>1
    <3>4. QED
      BY <3>1, <3>3
  <2>2. QED
    BY <2>1 DEF Announced
<1>7. QED
  BY <1>2, <1>4, <1>6 DEF Agreed, t

LEMMA AgreedStart ==
    ASSUME NEW standing, NEW p \in Seq(Messages), NEW session \in Nat, NEW started \in Nat,
           NEW q \in Seq(Words), NEW sessions \in Nat,
           Agreed(standing, p, session, started, q, sessions),
           standing = "idle", NEW m \in Messages, m.type = "start"
    PROVE  Agreed("asked", Append(p, m), session, started, q, sessions + 1)
<1> DEFINE t == Append(p, m)
<1>1. /\ Len(p) \in Nat /\ Len(t) = Len(p) + 1
      /\ \A i \in 1 .. Len(p) : t[i] = p[i]
      /\ t[Len(p) + 1] = m
  BY AppendAt
<1>2. \A types : Sent(t, types) <=> Sent(p, types) \/ m.type \in types
  BY SentAppended
<1> HIDE DEF t
<1>3. \A i \in 1 .. Len(p) : p[i].type # "start"
  BY DEF Agreed, Sent
<1>4. \A i \in 1 .. Len(q) : ~(q[i].type = "status" /\ q[i].live)
  BY DEF Agreed, SaysLive
<1>5. Ordered(t)
  <2>1. ASSUME NEW i \in 1 .. Len(t), NEW j \in 1 .. Len(t), i < j
        PROVE  /\ t[i].type = "leave" => t[j].type \in {"start", "saved"}
               /\ t[i].type = "start" => t[j].type = "saved"
    <3>1. i \in 1 .. Len(p) /\ t[i] = p[i]
      BY <1>1, <2>1
    <3>2. CASE j \in 1 .. Len(p)
      <4>1. t[j] = p[j]
        BY <1>1, <3>2
      <4>2. Ordered(p)
        BY DEF Agreed
      <4>3. QED
        BY <2>1, <3>1, <3>2, <4>1, <4>2 DEF Ordered
    <3>3. CASE j = Len(p) + 1
      <4>1. t[j].type = "start" /\ t[i].type # "start"
        BY <1>1, <1>3, <3>1, <3>3
      <4>2. QED
        BY <4>1
    <3>4. QED
      BY <1>1, <3>2, <3>3
  <2>2. QED
    BY <2>1 DEF Ordered
<1>6. Announced("asked", t, session, q)
  BY <1>4 DEF Announced
<1>7. QED
  BY <1>2, <1>4, <1>5, <1>6 DEF Agreed, SaysLive, t

LEMMA AgreedLeave ==
    ASSUME NEW standing, NEW p \in Seq(Messages), NEW session \in Nat, NEW started \in Nat,
           NEW q \in Seq(Words), NEW sessions \in Nat,
           Agreed(standing, p, session, started, q, sessions),
           standing = "live", NEW m \in Messages, m.type = "leave"
    PROVE  Agreed("idle", Append(p, m), session, started, q, sessions)
<1> DEFINE t == Append(p, m)
<1>1. /\ Len(p) \in Nat /\ Len(t) = Len(p) + 1
      /\ \A i \in 1 .. Len(p) : t[i] = p[i]
      /\ t[Len(p) + 1] = m
  BY AppendAt
<1>2. \A types : Sent(t, types) <=> Sent(p, types) \/ m.type \in types
  BY SentAppended
<1> HIDE DEF t
<1>3. \A i \in 1 .. Len(p) : p[i].type \notin {"start", "leave"}
  BY DEF Agreed, Sent
<1>4. \A i \in 1 .. Len(q) : ~(q[i].type = "status" /\ q[i].live)
  BY DEF Agreed, Announced
<1>5. Ordered(t)
  BY <1>1, <1>3 DEF Ordered
<1>6. Announced("idle", t, session, q)
  BY <1>4 DEF Announced
<1>7. QED
  BY <1>2, <1>4, <1>5, <1>6 DEF Agreed, SaysLive, t

LEMMA AgreedTake ==
    ASSUME NEW standing, NEW p \in Seq(Messages), NEW session \in Nat, NEW started \in Nat,
           NEW q \in Seq(Words), NEW sessions \in Nat,
           Agreed(standing, p, session, started, q, sessions),
           p # <<>>, Head(p).type \notin {"start", "leave"}
    PROVE  Agreed(standing, Tail(p), session, started, q, sessions)
<1> DEFINE t == Tail(p)
<1>1. /\ Len(p) \in Nat \ {0} /\ Len(t) = Len(p) - 1
      /\ \A i \in 1 .. Len(p) - 1 : t[i] = p[i + 1]
      /\ Head(p) = p[1]
  BY TailAt
<1>2. \A types : Sent(p, types) <=> Sent(t, types) \/ p[1].type \in types
  BY <1>1, SentTaken
<1>3. Ordered(t)
  BY OrderedTaken DEF Agreed
<1> HIDE DEF t
<1>4. Announced(standing, p, session, q)
  BY DEF Agreed
<1>5. Announced(standing, t, session, q)
  BY <1>4, AnnouncedTaken DEF t
<1>6. QED
  BY <1>1, <1>2, <1>3, <1>5 DEF Agreed, t

LEMMA AgreedStartWaited ==
    ASSUME NEW standing, NEW p \in Seq(Messages), NEW session \in Nat, NEW started \in Nat,
           NEW q \in Seq(Words), NEW sessions \in Nat,
           Agreed(standing, p, session, started, q, sessions),
           p # <<>>, Head(p).type = "start"
    PROVE  session = 0
<1>1. /\ Len(p) \in Nat \ {0} /\ Head(p) = p[1]
  BY TailAt
<1>2. ASSUME NEW i \in 1 .. Len(p)
      PROVE  p[i].type # "leave"
  <2>1. 1 \in 1 .. Len(p) /\ (i = 1 \/ 1 < i) /\ p[1].type = "start"
    BY <1>1
  <2>2. QED
    BY <2>1 DEF Agreed, Ordered
<1>3. ~Sent(p, {"leave"})
  BY <1>2 DEF Sent
<1>4. Sent(p, {"start"})
  BY <1>1 DEF Sent
<1>5. QED
  BY <1>3, <1>4 DEF Agreed

LEMMA AgreedTakeStart ==
    ASSUME NEW standing, NEW p \in Seq(Messages), NEW session \in Nat, NEW started \in Nat,
           NEW q \in Seq(Words), NEW sessions \in Nat,
           Agreed(standing, p, session, started, q, sessions),
           p # <<>>, Head(p).type = "start",
           NEW w \in Words, w = [type |-> "status", live |-> TRUE],
           NEW next \in Nat, started < next, next <= started + 1
    PROVE  Agreed(standing, Tail(p), next, next, Append(q, w), sessions)
<1> DEFINE t == Tail(p)
<1>1. /\ Len(p) \in Nat \ {0} /\ Len(t) = Len(p) - 1
      /\ \A i \in 1 .. Len(p) - 1 : t[i] = p[i + 1]
      /\ Head(p) = p[1]
  BY TailAt
<1>2. \A types : Sent(p, types) <=> Sent(t, types) \/ p[1].type \in types
  BY <1>1, SentTaken
<1>3. Ordered(t)
  BY OrderedTaken DEF Agreed
<1> HIDE DEF t
<1> DEFINE u == Append(q, w)
<1>4. /\ Len(q) \in Nat /\ Len(u) = Len(q) + 1
      /\ \A i \in 1 .. Len(q) : u[i] = q[i]
      /\ u[Len(q) + 1] = w
  BY AppendAt
<1>5. /\ SaysLive(u) <=> SaysLive(q) \/ (w.type = "status" /\ w.live)
      /\ SaysIdle(u) <=> SaysIdle(q) \/ (w.type = "status" /\ ~w.live)
  BY SaysAppended
<1> HIDE DEF u
<1>6. ASSUME NEW i \in 1 .. Len(t)
      PROVE  t[i].type = "saved"
  <2>1. /\ 1 \in 1 .. Len(p) /\ i + 1 \in 1 .. Len(p) /\ 1 < i + 1
        /\ t[i] = p[i + 1] /\ p[1].type = "start"
    BY <1>1
  <2>2. QED
    BY <2>1 DEF Agreed, Ordered
<1>7. ~Sent(t, {"start"}) /\ ~Sent(t, {"leave"}) /\ ~Sent(p, {"leave"})
  BY <1>1, <1>2, <1>6 DEF Sent
<1>8. standing = "asked" /\ session = 0 /\ started < sessions /\ ~SaysLive(q)
  BY <1>1, <1>2, <1>7 DEF Agreed
<1>9. Announced(standing, t, started + 1, u)
  <2>1. \A i \in 1 .. Len(u) : u[i].type = "status" /\ u[i].live => i = Len(u)
    BY <1>4, <1>8 DEF SaysLive
  <2>2. QED
    BY <1>4, <1>6, <1>8, <2>1 DEF Announced
<1>10. SaysLive(u)
  BY <1>5
<1>11. QED
  BY <1>3, <1>7, <1>8, <1>9, <1>10 DEF Agreed, t, u

LEMMA AgreedTakeLeave ==
    ASSUME NEW standing, NEW p \in Seq(Messages), NEW session \in Nat, NEW started \in Nat,
           NEW q \in Seq(Words), NEW sessions \in Nat,
           Agreed(standing, p, session, started, q, sessions),
           p # <<>>, Head(p).type = "leave",
           NEW w \in Words, w = [type |-> "status", live |-> FALSE]
    PROVE  Agreed(standing, Tail(p), 0, started, Append(q, w), sessions)
<1> DEFINE t == Tail(p)
<1>1. /\ Len(p) \in Nat \ {0} /\ Len(t) = Len(p) - 1
      /\ \A i \in 1 .. Len(p) - 1 : t[i] = p[i + 1]
      /\ Head(p) = p[1]
  BY TailAt
<1>2. \A types : Sent(p, types) <=> Sent(t, types) \/ p[1].type \in types
  BY <1>1, SentTaken
<1>3. Ordered(t)
  BY OrderedTaken DEF Agreed
<1> HIDE DEF t
<1> DEFINE u == Append(q, w)
<1>4. /\ Len(q) \in Nat /\ Len(u) = Len(q) + 1
      /\ \A i \in 1 .. Len(q) : u[i] = q[i]
      /\ u[Len(q) + 1] = w
  BY AppendAt
<1>5. /\ SaysLive(u) <=> SaysLive(q) \/ (w.type = "status" /\ w.live)
      /\ SaysIdle(u) <=> SaysIdle(q) \/ (w.type = "status" /\ ~w.live)
  BY SaysAppended
<1> HIDE DEF u
<1>6. \A i \in 1 .. Len(q) : ~(q[i].type = "status" /\ q[i].live)
  BY <1>1 DEF Agreed, Announced
<1>7. \A i \in 1 .. Len(u) : ~(u[i].type = "status" /\ u[i].live)
  BY <1>4, <1>6
<1>8. Announced(standing, t, 0, u) /\ ~SaysLive(u)
  BY <1>7 DEF Announced, SaysLive
<1>9. standing # "live"
  BY <1>1, <1>2 DEF Agreed
<1>10. QED
  BY <1>2, <1>3, <1>8, <1>9 DEF Agreed, t, u

LEMMA AgreedEnd ==
    ASSUME NEW standing, NEW p \in Seq(Messages), NEW session \in Nat, NEW started \in Nat,
           NEW q \in Seq(Words), NEW sessions \in Nat,
           Agreed(standing, p, session, started, q, sessions),
           session # 0, NEW w \in Words, w = [type |-> "status", live |-> FALSE]
    PROVE  Agreed(standing, p, 0, started, Append(q, w), sessions)
<1> DEFINE u == Append(q, w)
<1>1. /\ Len(q) \in Nat /\ Len(u) = Len(q) + 1
      /\ \A i \in 1 .. Len(q) : u[i] = q[i]
      /\ u[Len(q) + 1] = w
  BY AppendAt
<1>2. /\ SaysLive(u) <=> SaysLive(q) \/ (w.type = "status" /\ w.live)
      /\ SaysIdle(u) <=> SaysIdle(q) \/ (w.type = "status" /\ ~w.live)
  BY SaysAppended
<1> HIDE DEF u
<1>3. Announced(standing, p, session, q)
  BY DEF Agreed
<1>4. Announced(standing, p, 0, u)
  BY <1>3, AnnouncedSaid DEF u
<1>5. QED
  BY <1>2, <1>4 DEF Agreed, u

LEMMA AgreedSay ==
    ASSUME NEW standing, NEW p \in Seq(Messages), NEW session \in Nat, NEW started \in Nat,
           NEW q \in Seq(Words), NEW sessions \in Nat,
           Agreed(standing, p, session, started, q, sessions),
           NEW w \in Words, w.type # "status"
    PROVE  Agreed(standing, p, session, started, Append(q, w), sessions)
<1> DEFINE u == Append(q, w)
<1>1. /\ Len(q) \in Nat /\ Len(u) = Len(q) + 1
      /\ \A i \in 1 .. Len(q) : u[i] = q[i]
      /\ u[Len(q) + 1] = w
  BY AppendAt
<1>2. /\ SaysLive(u) <=> SaysLive(q) \/ (w.type = "status" /\ w.live)
      /\ SaysIdle(u) <=> SaysIdle(q) \/ (w.type = "status" /\ ~w.live)
  BY SaysAppended
<1> HIDE DEF u
<1>3. Announced(standing, p, session, q)
  BY DEF Agreed
<1>4. Announced(standing, p, session, u)
  BY <1>3, AnnouncedSaid DEF u
<1>5. QED
  BY <1>2, <1>4 DEF Agreed, u

LEMMA AgreedHear ==
    ASSUME NEW standing, NEW p \in Seq(Messages), NEW session \in Nat, NEW started \in Nat,
           NEW q \in Seq(Words), NEW sessions \in Nat,
           Agreed(standing, p, session, started, q, sessions),
           q # <<>>, Head(q).type # "status"
    PROVE  Agreed(standing, p, session, started, Tail(q), sessions)
<1> DEFINE u == Tail(q)
<1>1. /\ Len(q) \in Nat \ {0} /\ Len(u) = Len(q) - 1
      /\ \A i \in 1 .. Len(q) - 1 : u[i] = q[i + 1]
      /\ Head(q) = q[1]
  BY TailAt
<1>2. /\ SaysLive(q) <=> SaysLive(u) \/ (q[1].type = "status" /\ q[1].live)
      /\ SaysIdle(q) <=> SaysIdle(u) \/ (q[1].type = "status" /\ ~q[1].live)
  BY <1>1, SaysTaken
<1> HIDE DEF u
<1>3. Announced(standing, p, session, q)
  BY DEF Agreed
<1>4. Announced(standing, p, session, u)
  BY <1>3, AnnouncedHeard DEF u
<1>5. QED
  BY <1>1, <1>2, <1>4 DEF Agreed, u

LEMMA AgreedHearStatus ==
    ASSUME NEW standing, NEW p \in Seq(Messages), NEW session \in Nat, NEW started \in Nat,
           NEW q \in Seq(Words), NEW sessions \in Nat,
           Agreed(standing, p, session, started, q, sessions),
           q # <<>>, Head(q).type = "status", NEW standing1,
           standing \in {"idle", "asked", "live"},
           standing1 = IF Head(q).live THEN "live"
                       ELSE IF standing = "live" THEN "idle" ELSE standing
    PROVE  Agreed(standing1, p, session, started, Tail(q), sessions)
<1> DEFINE u == Tail(q)
<1>1. /\ Len(q) \in Nat \ {0} /\ Len(u) = Len(q) - 1
      /\ \A i \in 1 .. Len(q) - 1 : u[i] = q[i + 1]
      /\ Head(q) = q[1]
  BY TailAt
<1>2. /\ SaysLive(q) <=> SaysLive(u) \/ (q[1].type = "status" /\ q[1].live)
      /\ SaysIdle(q) <=> SaysIdle(u) \/ (q[1].type = "status" /\ ~q[1].live)
  BY <1>1, SaysTaken
<1> HIDE DEF u
<1>3. Announced(standing, p, session, q)
  BY DEF Agreed
<1>4. Announced(standing, p, session, u)
  BY <1>3, AnnouncedHeard DEF u
<1>5. CASE q[1].live
  <2>1. q[1].type = "status" /\ 1 \in 1 .. Len(q)
    BY <1>1
  <2>2. /\ standing = "asked"
        /\ \A j \in 1 .. Len(p) : p[j].type = "saved"
        /\ \A j \in 1 .. Len(q) : q[j].type = "status" /\ q[j].live => 1 = j
        /\ session = 0 <=>
              \E j \in 1 .. Len(q) : j > 1 /\ q[j].type = "status" /\ ~q[j].live
    BY <1>3, <1>5, <2>1 DEF Announced
  <2>3. ~Sent(p, {"start"}) /\ ~Sent(p, {"leave"})
    BY <2>2 DEF Sent
  <2>4. \A j \in 1 .. Len(u) : ~(u[j].type = "status" /\ u[j].live)
    <3>1. \A j \in 1 .. Len(u) : j + 1 \in 1 .. Len(q) /\ j + 1 # 1 /\ q[j + 1] = u[j]
      BY <1>1
    <3>2. QED
      BY <2>2, <3>1
  <2>5. \A i \in 1 .. Len(q) : q[i] \in Words
    OBVIOUS
  <2>6. \A j \in 1 .. Len(q) : q[j].type = "status" => q[j].live \in BOOLEAN
    BY <2>5 DEF Words
  <2>7. \A j \in 1 .. Len(q) : j > 1 => j - 1 \in 1 .. Len(u) /\ u[j - 1] = q[j]
    BY <1>1
  <2>8. \A j \in 1 .. Len(u) : j + 1 \in 1 .. Len(q) /\ j + 1 > 1 /\ q[j + 1] = u[j]
    BY <1>1
  <2>9. session = 0 <=> SaysIdle(u)
    <3>1. ASSUME NEW j \in 1 .. Len(q), j > 1 /\ q[j].type = "status" /\ ~q[j].live
          PROVE  SaysIdle(u)
      BY <2>7, <3>1 DEF SaysIdle
    <3>2. ASSUME NEW j \in 1 .. Len(u), u[j].type = "status" /\ ~u[j].live
          PROVE  \E k \in 1 .. Len(q) : k > 1 /\ q[k].type = "status" /\ ~q[k].live
      BY <2>8, <3>2
    <3>3. QED
      BY <2>2, <3>1, <3>2 DEF SaysIdle
  <2>10. Announced("live", p, session, u)
    BY <2>4 DEF Announced
  <2>11. standing1 = "live"
    BY <1>1, <1>5
  <2>12. QED
    BY <2>3, <2>9, <2>10, <2>11 DEF Agreed, u
<1>6. CASE ~q[1].live
  <2>1. 1 \in 1 .. Len(q) /\ q[1].type = "status" /\ q[1] \in Words
    BY <1>1
  <2>2. q[1].live = FALSE
    BY <1>6, <2>1 DEF Words
  <2>3. CASE standing = "live"
    <3>1. session = 0
      BY <1>2, <2>1, <2>2, <2>3 DEF Agreed
    <3>2. ~SaysLive(q)
      BY <1>3, <2>3 DEF Announced, SaysLive
    <3>3. Announced("idle", p, session, u)
      BY <1>2, <3>2 DEF Announced, SaysLive
    <3>4. standing1 = "idle"
      BY <1>1, <1>6, <2>3
    <3>5. QED
      BY <1>2, <2>3, <3>1, <3>2, <3>3, <3>4 DEF Agreed, u
  <2>4. CASE standing # "live"
    <3>1. standing1 = standing
      BY <1>1, <1>6, <2>4
    <3>2. QED
      BY <1>2, <1>4, <2>2, <2>4, <3>1 DEF Agreed, u
  <2>5. QED
    BY <2>3, <2>4
<1>7. QED
  BY <1>5, <1>6

(***************************************************************************)
(* The shapes, and what both sides know of the session.                    *)
(***************************************************************************)
Fronts == [standing : {"idle", "asked", "live"}, doc : Nat, edits : Nat, kept : BOOLEAN]

Typed ==
    /\ scenario \in Scenarios
    /\ front \in Fronts
    /\ file \in BOOLEAN
    /\ toCompanion \in Seq(Messages)
    /\ companion \in Companions(Sessions)
    /\ spent \in [Budgets -> Nat]

(* Nothing beyond the limits, a buffer only in a session that stands for   *)
(* the front-end, and what a session keeps only while there is one.        *)
Bounded ==
    /\ \A what \in Budgets : spent[what] <= Limits[what]
    /\ front.doc <= spent.opens
    /\ front.edits <= spent.edits
    /\ front.doc # 0 => front.standing = "live"
    /\ companion.unarrived # NoDocument => companion.session # 0 /\ companion.role = "guest"
    /\ companion.bridge # "none" => companion.session # 0
    /\ \A id \in DOMAIN companion.saves :
          id <= companion.nextId /\ companion.saves[id] <= companion.instances
    /\ companion.document # NoDocument => companion.document.instance <= companion.instances

Agreement ==
    Agreed(front.standing, toCompanion, companion.session, companion.started,
           companion.sent, spent.sessions)

Base == Typed /\ Bounded /\ Agreement

LEMMA LimitsTyped ==
    ASSUME Typed
    PROVE  Limits \in [Budgets -> Nat] /\ scenario.roles \subseteq Roles
<1>1. scenario \in [roles : SUBSET Roles, limits : [Budgets -> Nat]]
  BY ScenariosAreBounded DEF Typed
<1>2. QED
  BY <1>1 DEF Limits

LEMMA SpendDoes ==
    ASSUME Typed, Bounded, NEW what \in Budgets, Spend(what), UNCHANGED scenario
    PROVE  /\ spent' \in [Budgets -> Nat]
           /\ \A b \in Budgets : spent'[b] <= Limits'[b]
           /\ \A b \in Budgets : spent'[b] = IF b = what THEN spent[b] + 1 ELSE spent[b]
<1>1. Limits \in [Budgets -> Nat] /\ Limits' = Limits
  BY LimitsTyped DEF Limits
<1>2. spent \in [Budgets -> Nat] /\ \A b \in Budgets : spent[b] <= Limits[b]
  BY DEF Typed, Bounded
<1>3. QED
  BY <1>1, <1>2 DEF Spend

LEMMA SessionsStay ==
    ASSUME UNCHANGED scenario
    PROVE  Limits' = Limits /\ Sessions' = Sessions
BY DEF Limits, Sessions

(* A session that stands is one of those counted.                          *)
LEMMA SessionCounted ==
    ASSUME Base
    PROVE  companion.session \in Sessions \cup {0}
<1>1. Limits.sessions \in Nat /\ "sessions" \in Budgets
  BY LimitsTyped DEF Base, Budgets
<1>2. spent.sessions \in Nat /\ spent.sessions <= Limits.sessions
  BY <1>1 DEF Base, Typed, Bounded, Budgets
<1>3. /\ companion.session \in {0, companion.started}
      /\ companion.started <= spent.sessions
      /\ companion.started \in Nat
  BY DEF Base, Agreement, Agreed, Typed, Companions
<1>4. QED
  BY <1>1, <1>2, <1>3 DEF Sessions

LEMMA HasTyped ==
    ASSUME Base, companion.session # 0
    PROVE  /\ companion.session \in Sessions
           /\ Has(companion) \in BOOLEAN
BY SessionCounted DEF Base, Typed, Companions, Has

(* What is said on either pipe is a message.                               *)
LEMMA SaidTyped ==
    /\ [type |-> "leave"] \in Messages /\ [type |-> "close"] \in Messages
    /\ [type |-> "change"] \in Messages /\ [type |-> "wrote"] \in Messages
    /\ \A role \in Roles : [type |-> "start", role |-> role] \in Messages
    /\ \A n \in Nat \ {0}, text, present \in BOOLEAN :
          [type |-> "open", of |-> n, text |-> text, present |-> present] \in Messages
    /\ \A id \in Nat, ok \in BOOLEAN : [type |-> "saved", id |-> id, ok |-> ok] \in Messages
    /\ [type |-> "refusal"] \in Words
    /\ \A live \in BOOLEAN : [type |-> "status", live |-> live] \in Words
BY DEF Messages, Words

(* What the front-end sends while the session stands changes nothing of    *)
(* what both sides know of it.                                             *)
LEMMA BaseSend ==
    ASSUME Base, UNCHANGED <<scenario, companion>>,
           front.standing = "live" /\ front'.standing = "live",
           front' \in Fronts, file' \in BOOLEAN,
           NEW m \in Messages, m.type \notin {"start", "leave"},
           toCompanion' = Append(toCompanion, m),
           spent' \in [Budgets -> Nat], spent'.sessions = spent.sessions,
           \A what \in Budgets : spent'[what] <= Limits'[what],
           front'.doc <= spent'.opens, front'.edits <= spent'.edits
    PROVE  Base'
<1>1. toCompanion \in Seq(Messages) /\ toCompanion' \in Seq(Messages)
  BY AppendAt DEF Base, Typed
<1>2. Typed'
  BY <1>1, SessionsStay DEF Base, Typed
<1>3. Bounded'
  BY SessionsStay DEF Base, Bounded
<1>4. /\ companion.session \in Nat /\ companion.started \in Nat
      /\ companion.sent \in Seq(Words) /\ spent.sessions \in Nat
  BY DEF Base, Typed, Companions, Budgets
<1>5. Agreement'
  BY <1>1, <1>4, AgreedSend DEF Base, Agreement
<1>6. QED
  BY <1>2, <1>3, <1>5 DEF Base

LEMMA BaseStarts == ASSUME Base, Starts PROVE Base'
<1>1. PICK role \in scenario.roles : Send([type |-> "start", role |-> role])
  BY DEF Starts
<1> DEFINE m == [type |-> "start", role |-> role]
<1>2. m \in Messages /\ m.type = "start"
  BY <1>1, LimitsTyped, SaidTyped DEF Base
<1>3. toCompanion' = Append(toCompanion, m)
  BY <1>1 DEF Send
<1> HIDE DEF m
<1>4. /\ spent' \in [Budgets -> Nat]
      /\ \A b \in Budgets : spent'[b] <= Limits'[b]
      /\ \A b \in Budgets : spent'[b] = IF b = "sessions" THEN spent[b] + 1 ELSE spent[b]
  BY SpendDoes DEF Starts, Base, Budgets
<1>5. /\ front \in Fronts /\ front.standing = "idle"
      /\ front' = [front EXCEPT !.standing = "asked"]
  BY DEF Starts, Base, Typed
<1>6. /\ front' \in Fronts /\ front'.standing = "asked" /\ front'.doc = front.doc
      /\ front'.edits = front.edits /\ front.doc = 0
  BY <1>5 DEF Fronts, Base, Bounded
<1>7. toCompanion \in Seq(Messages) /\ toCompanion' \in Seq(Messages)
  BY <1>2, <1>3, AppendAt DEF Base, Typed
<1>8. UNCHANGED <<scenario, companion, file>>
  BY DEF Starts
<1>9. Typed'
  BY <1>4, <1>6, <1>7, <1>8, SessionsStay DEF Base, Typed
<1>10. /\ spent'.opens = spent.opens /\ spent'.edits = spent.edits
       /\ spent'.sessions = spent.sessions + 1
  BY <1>4 DEF Budgets
<1>11. Bounded'
  BY <1>4, <1>6, <1>8, <1>10, SessionsStay DEF Base, Bounded
<1>12. /\ companion.session \in Nat /\ companion.started \in Nat
       /\ companion.sent \in Seq(Words) /\ spent.sessions \in Nat
  BY DEF Base, Typed, Companions, Budgets
<1>13. Agreement'
  BY <1>2, <1>3, <1>5, <1>6, <1>7, <1>8, <1>10, <1>12, AgreedStart DEF Base, Agreement
<1>14. QED
  BY <1>9, <1>11, <1>13 DEF Base

LEMMA BaseLeaves == ASSUME Base, Leaves PROVE Base'
<1> DEFINE m == [type |-> "leave"]
<1>1. m \in Messages /\ m.type = "leave"
  BY SaidTyped
<1>2. toCompanion' = Append(toCompanion, m)
  BY DEF Leaves, Send
<1> HIDE DEF m
<1>3. /\ front \in Fronts /\ front.standing = "live"
      /\ front' = [NoBuffer EXCEPT !.standing = "idle"]
  BY DEF Leaves, Base, Typed
<1>4. /\ front' \in Fronts /\ front'.standing = "idle" /\ front'.doc = 0
      /\ front'.edits = 0
  BY <1>3 DEF Fronts, NoBuffer
<1>5. toCompanion \in Seq(Messages) /\ toCompanion' \in Seq(Messages)
  BY <1>1, <1>2, AppendAt DEF Base, Typed
<1>6. UNCHANGED <<scenario, companion, file, spent>>
  BY DEF Leaves
<1>7. Typed'
  BY <1>4, <1>5, <1>6, SessionsStay DEF Base, Typed
<1>8. /\ companion.session \in Nat /\ companion.started \in Nat
      /\ companion.sent \in Seq(Words) /\ spent \in [Budgets -> Nat]
      /\ spent.sessions \in Nat /\ spent.opens \in Nat /\ spent.edits \in Nat
  BY DEF Base, Typed, Companions, Budgets
<1>9. Bounded'
  BY <1>4, <1>6, <1>8, SessionsStay DEF Base, Bounded
<1>10. Agreement'
  BY <1>1, <1>2, <1>3, <1>4, <1>5, <1>6, <1>8, AgreedLeave DEF Base, Agreement
<1>11. QED
  BY <1>7, <1>9, <1>10 DEF Base

(* What every step of the companion starts from.                           *)
LEMMA BaseFacts ==
    ASSUME Base
    PROVE  /\ front \in Fronts /\ front.standing \in {"idle", "asked", "live"}
           /\ front.doc \in Nat /\ front.edits \in Nat /\ front.kept \in BOOLEAN
           /\ file \in BOOLEAN
           /\ toCompanion \in Seq(Messages)
           /\ companion \in Companions(Sessions)
           /\ companion.session \in Sessions \cup {0}
           /\ companion.session \in Nat /\ companion.started \in Nat
           /\ companion.role \in Roles
           /\ companion.sent \in Seq(Words)
           /\ companion.reads \in Seq(ReadsInFlight)
           /\ companion.nextId \in Nat /\ companion.instances \in Nat
           /\ companion.document \in {NoDocument} \cup Documents
           /\ companion.unarrived \in {NoDocument} \cup KeptBack
           /\ spent \in [Budgets -> Nat]
           /\ spent.sessions \in Nat
           /\ Agreed(front.standing, toCompanion, companion.session, companion.started,
                     companion.sent, spent.sessions)
           /\ front.doc # 0 => front.standing = "live"
           /\ companion.unarrived # NoDocument =>
                 companion.session # 0 /\ companion.role = "guest"
           /\ companion.bridge # "none" => companion.session # 0
           /\ \A id \in DOMAIN companion.saves :
                 id <= companion.nextId /\ companion.saves[id] <= companion.instances
           /\ companion.saves \in Assignments
           /\ companion.document # NoDocument =>
                 companion.document.instance <= companion.instances
<1>1. companion.session \in Sessions \cup {0}
  BY SessionCounted
<1>2. QED
  BY <1>1 DEF Base, Typed, Bounded, Agreement, Companions, Fronts, Budgets

(* Taking a word off the companion's stdout.                               *)
LEMMA HeardDoes ==
    ASSUME NEW S, NEW c \in Companions(S), c.sent # <<>>, NEW d, d = Heard(c)
    PROVE  /\ d \in Companions(S)
           /\ KeepsSession(c, d) /\ KeepsMirror(c, d) /\ KeepsRoom(c, d) /\ KeepsReads(c, d)
           /\ d.sent = Tail(c.sent) /\ d.nextId = c.nextId /\ d.saves = c.saves
           /\ Head(c.sent) \in Words
<1> DEFINE left == Tail(c.sent)
<1>1. c.sent \in Seq(Words)
  BY DEF Companions
<1>2. left \in Seq(Words) /\ Head(c.sent) \in Words
  BY <1>1
<1>3. d = [c EXCEPT !.sent = left]
  BY DEF Heard, Companions
<1> HIDE DEF left
<1>4. d \in Companions(S)
  BY <1>2, <1>3 DEF Companions
<1>5. /\ KeepsSession(c, d) /\ KeepsMirror(c, d) /\ KeepsRoom(c, d) /\ KeepsReads(c, d)
      /\ d.sent = left /\ d.nextId = c.nextId /\ d.saves = c.saves
  BY <1>3 DEF Companions, KeepsSession, KeepsMirror, KeepsRoom, KeepsReads
<1>6. QED
  BY <1>2, <1>4, <1>5 DEF left

LEMMA BaseShares == ASSUME Base, Shares PROVE Base'
<1>1. PICK text \in BOOLEAN :
         Send([type |-> "open", of |-> spent.opens + 1, text |-> text, present |-> file])
  BY DEF Shares
<1> DEFINE m == [type |-> "open", of |-> spent.opens + 1, text |-> text, present |-> file]
<1>2. spent \in [Budgets -> Nat] /\ spent.opens \in Nat /\ file \in BOOLEAN /\ spent.edits \in Nat
  BY DEF Base, Typed, Budgets
<1>3. m \in Messages /\ m.type = "open"
  BY <1>2, SaidTyped
<1>4. toCompanion' = Append(toCompanion, m)
  BY <1>1 DEF Send
<1> HIDE DEF m
<1>5. UNCHANGED <<scenario, companion, file>> /\ Spend("opens") /\ front.standing = "live"
      /\ front' = [front EXCEPT !.doc = spent.opens + 1, !.edits = 0, !.kept = file]
  BY DEF Shares
<1>6. /\ spent' \in [Budgets -> Nat]
      /\ \A b \in Budgets : spent'[b] <= Limits'[b]
      /\ spent'.opens = spent.opens + 1 /\ spent'.edits = spent.edits
      /\ spent'.sessions = spent.sessions
  BY <1>5, SpendDoes DEF Base, Budgets
<1>7. front' \in Fronts /\ front'.standing = "live" /\ front'.doc = spent.opens + 1
      /\ front'.edits = 0
  <2> DEFINE number == spent.opens + 1
  <2>1. number \in Nat
    BY <1>2
  <2>2. front' = [front EXCEPT !.doc = number, !.edits = 0, !.kept = file]
    BY <1>5
  <2> HIDE DEF number
  <2>3. front \in Fronts /\ file \in BOOLEAN /\ front.standing = "live"
    BY <1>5, BaseFacts
  <2>4. front' \in Fronts /\ front'.standing = "live" /\ front'.doc = number /\ front'.edits = 0
    BY <2>1, <2>2, <2>3 DEF Fronts
  <2>5. QED
    BY <2>4 DEF number
<1>8. m.type \notin {"start", "leave"} /\ file' \in BOOLEAN
      /\ front'.doc <= spent'.opens /\ front'.edits <= spent'.edits
  BY <1>2, <1>3, <1>5, <1>6, <1>7
<1>9. QED
  BY <1>3, <1>4, <1>5, <1>6, <1>7, <1>8, BaseSend

LEMMA BaseCloses == ASSUME Base, Closes PROVE Base'
<1> DEFINE m == [type |-> "close"]
<1>1. m \in Messages /\ m.type \notin {"start", "leave"}
  BY SaidTyped
<1>2. toCompanion' = Append(toCompanion, m)
  BY DEF Closes, Send
<1> HIDE DEF m
<1>3. /\ UNCHANGED <<scenario, companion, file, spent>> /\ front.standing = "live"
      /\ front' = [front EXCEPT !.doc = 0, !.edits = 0, !.kept = FALSE]
  BY DEF Closes, NoBuffer, Base, Bounded
<1>4. /\ front' \in Fronts /\ front'.standing = "live" /\ front'.doc = 0 /\ front'.edits = 0
  BY <1>3 DEF Base, Typed, Fronts
<1>5. /\ spent' \in [Budgets -> Nat] /\ spent'.opens \in Nat /\ spent'.edits \in Nat
      /\ file' \in BOOLEAN /\ spent'.sessions = spent.sessions
      /\ \A b \in Budgets : spent'[b] <= Limits'[b]
  BY <1>3, SessionsStay DEF Base, Typed, Bounded, Budgets
<1>6. front'.doc <= spent'.opens /\ front'.edits <= spent'.edits
  BY <1>4, <1>5
<1>7. QED
  BY <1>1, <1>2, <1>3, <1>4, <1>5, <1>6, BaseSend

LEMMA BaseTypes == ASSUME Base, Types PROVE Base'
<1> DEFINE m == [type |-> "change"]
<1>1. m \in Messages /\ m.type \notin {"start", "leave"}
  BY SaidTyped
<1>2. toCompanion' = Append(toCompanion, m)
  BY DEF Types, Send
<1> HIDE DEF m
<1>3. /\ UNCHANGED <<scenario, companion, file>> /\ front.standing = "live"
      /\ front' = [front EXCEPT !.edits = @ + 1] /\ Spend("edits")
  BY DEF Types, Base, Bounded
<1>4. /\ spent' \in [Budgets -> Nat]
      /\ \A b \in Budgets : spent'[b] <= Limits'[b]
      /\ spent'.opens = spent.opens /\ spent'.edits = spent.edits + 1
      /\ spent'.sessions = spent.sessions
  BY <1>3, SpendDoes DEF Base, Budgets
<1>5. /\ front' \in Fronts /\ front'.standing = "live" /\ front'.doc = front.doc
      /\ front'.edits = front.edits + 1
  BY <1>3 DEF Base, Typed, Fronts
<1>6. /\ file' \in BOOLEAN /\ spent.edits \in Nat /\ front.edits \in Nat
      /\ front.doc <= spent.opens /\ front.edits <= spent.edits
  BY <1>3 DEF Base, Typed, Bounded, Fronts, Budgets
<1>7. front'.doc <= spent'.opens /\ front'.edits <= spent'.edits
  BY <1>4, <1>5, <1>6
<1>8. QED
  BY <1>1, <1>2, <1>3, <1>4, <1>5, <1>6, <1>7, BaseSend

(* A step of the companion that says nothing of the session, and what the  *)
(* front-end does meanwhile without the session beginning or ending.       *)
LEMMA BaseMoves ==
    ASSUME Base, UNCHANGED scenario,
           front' \in Fronts, file' \in BOOLEAN,
           front'.doc # 0 => front'.standing = "live",
           front'.doc \in {0, front.doc}, front'.edits \in {0, front.edits},
           toCompanion' \in Seq(Messages),
           companion' \in Companions(Sessions),
           \/ spent' = spent
           \/ \E what \in Budgets \ {"sessions"} : Spend(what),
           companion'.bridge # "none" => companion'.session # 0,
           companion'.unarrived # NoDocument =>
               companion'.session # 0 /\ companion'.role = "guest",
           \A id \in DOMAIN companion'.saves :
               id <= companion'.nextId /\ companion'.saves[id] <= companion'.instances,
           companion'.document # NoDocument =>
               companion'.document.instance <= companion'.instances,
           Agreed(front'.standing, toCompanion', companion'.session, companion'.started,
                  companion'.sent, spent.sessions)
    PROVE  Base'
<1>1. /\ spent' \in [Budgets -> Nat]
      /\ \A b \in Budgets : spent'[b] <= Limits'[b]
      /\ \A b \in Budgets : spent'[b] >= spent[b]
      /\ spent'["sessions"] = spent["sessions"]
  <2>1. CASE spent' = spent
    BY <2>1, SessionsStay DEF Base, Typed, Bounded
  <2>2. ASSUME NEW what \in Budgets \ {"sessions"}, Spend(what)
        PROVE  /\ spent' \in [Budgets -> Nat]
               /\ \A b \in Budgets : spent'[b] <= Limits'[b]
               /\ \A b \in Budgets : spent'[b] >= spent[b]
               /\ spent'["sessions"] = spent["sessions"]
    <3>1. spent \in [Budgets -> Nat] /\ "sessions" \in Budgets
      BY DEF Base, Typed, Budgets
    <3>2. QED
      BY <2>2, <3>1, SpendDoes, SMTT(60) DEF Base
  <2>3. QED
    BY <2>1, <2>2
<1>2. Typed'
  BY <1>1, SessionsStay DEF Base, Typed
<1>3. spent'.opens >= spent.opens /\ spent'.edits >= spent.edits
      /\ spent.opens \in Nat /\ spent.edits \in Nat /\ spent'.opens \in Nat /\ spent'.edits \in Nat
      /\ front.doc \in Nat /\ front.edits \in Nat
      /\ front.doc <= spent.opens /\ front.edits <= spent.edits
  BY <1>1 DEF Base, Typed, Bounded, Budgets, Fronts
<1>4. front'.doc <= spent'.opens /\ front'.edits <= spent'.edits
  BY <1>3
<1>5. Bounded'
  BY <1>1, <1>4 DEF Base, Bounded
<1>6. Agreement'
  BY <1>1 DEF Agreement
<1>7. QED
  BY <1>2, <1>5, <1>6 DEF Base

LEMMA BaseWrites == ASSUME Base, Writes PROVE Base'
<1> DEFINE m == [type |-> "wrote"]
<1>1. m \in Messages /\ m.type \notin {"start", "leave"}
  BY SaidTyped
<1>2. toCompanion' = Append(toCompanion, m)
  BY DEF Writes, Send
<1> HIDE DEF m
<1>3. /\ UNCHANGED scenario /\ front.doc # 0 /\ Spend("moves") /\ file' = TRUE
      /\ front' = [front EXCEPT !.kept = TRUE]
      /\ companion' = Appears(companion)
  BY DEF Writes
<1>4. front' \in Fronts /\ front'.standing = front.standing /\ front'.doc = front.doc
      /\ front'.edits = front.edits /\ front.standing = "live"
  BY <1>3, BaseFacts DEF Fronts
<1>5. /\ companion' \in Companions(Sessions)
      /\ KeepsSession(companion, companion') /\ KeepsMirror(companion, companion')
      /\ KeepsRoom(companion, companion') /\ KeepsWords(companion, companion')
  BY <1>3, BaseFacts, AppearsDoes
<1>6. Agreed(front.standing, toCompanion', companion.session, companion.started,
             companion.sent, spent.sessions)
  BY <1>1, <1>2, <1>4, BaseFacts, AgreedSend
<1>7. toCompanion' \in Seq(Messages) /\ "moves" \in Budgets \ {"sessions"}
  BY <1>1, <1>2, BaseFacts, AppendAt DEF Budgets
<1>8. QED
  BY <1>3, <1>4, <1>5, <1>6, <1>7, BaseFacts, BaseMoves
     DEF KeepsSession, KeepsMirror, KeepsRoom, KeepsWords

LEMMA BaseMovesFile == ASSUME Base, Moves PROVE Base'
<1>1. /\ UNCHANGED <<front, toCompanion, scenario>> /\ Spend("moves") /\ file' \in BOOLEAN
      /\ companion' = IF file THEN companion ELSE Appears(companion)
  BY BaseFacts DEF Moves
<1>2. /\ companion' \in Companions(Sessions)
      /\ KeepsSession(companion, companion') /\ KeepsMirror(companion, companion')
      /\ KeepsRoom(companion, companion') /\ KeepsWords(companion, companion')
  BY <1>1, BaseFacts, AppearsDoes DEF KeepsSession, KeepsMirror, KeepsRoom, KeepsWords
<1>3. "moves" \in Budgets \ {"sessions"}
  BY DEF Budgets
<1>4. QED
  BY <1>1, <1>2, <1>3, BaseFacts, BaseMoves
     DEF KeepsSession, KeepsMirror, KeepsRoom, KeepsWords

LEMMA BaseSavesIt == ASSUME Base, SavesIt PROVE Base'
<1> DEFINE m == [type |-> "saved", id |-> Head(companion.sent).id, ok |-> TRUE]
           c == Heard(companion)
<1>1. /\ companion.sent # <<>> /\ Head(companion.sent).type = "save"
      /\ UNCHANGED <<spent, scenario>> /\ file' = TRUE
      /\ front' = [front EXCEPT !.kept = @ \/ Head(companion.sent).of = front.doc]
      /\ companion' = Appears(c)
      /\ toCompanion' = Append(toCompanion, m)
  BY DEF SavesIt, Hears, Send
<1>2. /\ c \in Companions(Sessions)
      /\ KeepsSession(companion, c) /\ KeepsMirror(companion, c)
      /\ KeepsRoom(companion, c) /\ KeepsReads(companion, c)
      /\ c.sent = Tail(companion.sent) /\ c.nextId = companion.nextId
      /\ c.saves = companion.saves
      /\ Head(companion.sent) \in Words
  BY <1>1, BaseFacts, HeardDoes
<1> HIDE DEF c
<1>3. /\ companion' \in Companions(Sessions)
      /\ KeepsSession(c, companion') /\ KeepsMirror(c, companion')
      /\ KeepsRoom(c, companion') /\ KeepsWords(c, companion')
  BY <1>1, <1>2, AppearsDoes
<1>4. Head(companion.sent).id \in Nat
  BY <1>1, <1>2 DEF Words
<1>5. m \in Messages /\ m.type = "saved"
  BY <1>4, SaidTyped
<1> HIDE DEF m
<1>6. toCompanion' \in Seq(Messages)
  BY <1>1, <1>5, BaseFacts, AppendAt
<1>7. front' \in Fronts /\ front'.standing = front.standing /\ front'.doc = front.doc
      /\ front'.edits = front.edits
  BY <1>1, BaseFacts DEF Fronts
<1>8. Agreed(front.standing, toCompanion', companion.session, companion.started,
             companion.sent, spent.sessions)
  BY <1>1, <1>5, BaseFacts, AgreedSend
<1>9. Agreed(front.standing, toCompanion', companion.session, companion.started,
             Tail(companion.sent), spent.sessions)
  BY <1>1, <1>6, <1>8, BaseFacts, AgreedHear
<1>10. QED
  BY <1>1, <1>2, <1>3, <1>6, <1>7, <1>9, BaseFacts, BaseMoves
     DEF KeepsSession, KeepsMirror, KeepsRoom, KeepsWords

LEMMA BaseSavesNothing == ASSUME Base, SavesNothing PROVE Base'
<1> DEFINE m == [type |-> "saved", id |-> Head(companion.sent).id, ok |-> FALSE]
<1>1. /\ companion.sent # <<>> /\ Head(companion.sent).type = "save"
      /\ UNCHANGED <<front, file, scenario>>
      /\ companion' = Heard(companion)
      /\ toCompanion' = Append(toCompanion, m)
      /\ spent' = spent \/ Spend("faults")
  BY DEF SavesNothing, Hears, Send
<1>2. /\ companion' \in Companions(Sessions)
      /\ KeepsSession(companion, companion') /\ KeepsMirror(companion, companion')
      /\ KeepsRoom(companion, companion') /\ KeepsReads(companion, companion')
      /\ companion'.sent = Tail(companion.sent) /\ companion'.nextId = companion.nextId
      /\ companion'.saves = companion.saves
      /\ Head(companion.sent) \in Words
  BY <1>1, BaseFacts, HeardDoes
<1>3. Head(companion.sent).id \in Nat
  BY <1>1, <1>2 DEF Words
<1>4. m \in Messages /\ m.type = "saved" /\ "faults" \in Budgets \ {"sessions"}
  BY <1>3, SaidTyped DEF Budgets
<1> HIDE DEF m
<1>5. toCompanion' \in Seq(Messages)
  BY <1>1, <1>4, BaseFacts, AppendAt
<1>6. Agreed(front.standing, toCompanion', companion.session, companion.started,
             companion.sent, spent.sessions)
  BY <1>1, <1>4, BaseFacts, AgreedSend
<1>7. Agreed(front.standing, toCompanion', companion.session, companion.started,
             Tail(companion.sent), spent.sessions)
  BY <1>1, <1>5, <1>6, BaseFacts, AgreedHear
<1>8. QED
  BY <1>1, <1>2, <1>4, <1>5, <1>7, BaseFacts, BaseMoves
     DEF KeepsSession, KeepsMirror, KeepsRoom

LEMMA BaseHearsRefusal == ASSUME Base, HearsRefusal PROVE Base'
<1>1. /\ companion.sent # <<>> /\ Head(companion.sent).type = "refusal"
      /\ UNCHANGED <<file, spent, scenario>>
      /\ companion' = Heard(companion)
      /\ front' = [front EXCEPT !.doc = 0, !.edits = 0, !.kept = FALSE]
      /\ \/ front.doc # 0 /\ toCompanion' = Append(toCompanion, [type |-> "close"])
         \/ toCompanion' = toCompanion
  BY DEF HearsRefusal, Hears, Send, NoBuffer
<1>2. /\ companion' \in Companions(Sessions)
      /\ KeepsSession(companion, companion') /\ KeepsMirror(companion, companion')
      /\ KeepsRoom(companion, companion') /\ KeepsReads(companion, companion')
      /\ companion'.sent = Tail(companion.sent) /\ companion'.nextId = companion.nextId
      /\ companion'.saves = companion.saves
  BY <1>1, BaseFacts, HeardDoes
<1>3. front' \in Fronts /\ front'.standing = front.standing /\ front'.doc = 0 /\ front'.edits = 0
  BY <1>1, BaseFacts DEF Fronts
<1>4. /\ toCompanion' \in Seq(Messages)
      /\ Agreed(front.standing, toCompanion', companion.session, companion.started,
                companion.sent, spent.sessions)
  <2> DEFINE m == [type |-> "close"]
  <2>1. m \in Messages /\ m.type \notin {"start", "leave"}
    BY SaidTyped
  <2> HIDE DEF m
  <2>2. CASE front.doc # 0 /\ toCompanion' = Append(toCompanion, m)
    BY <2>1, <2>2, BaseFacts, AgreedSend, AppendAt
  <2>3. CASE toCompanion' = toCompanion
    BY <2>3, BaseFacts
  <2>4. QED
    BY <1>1, <2>2, <2>3 DEF m
<1>5. Agreed(front.standing, toCompanion', companion.session, companion.started,
             Tail(companion.sent), spent.sessions)
  BY <1>1, <1>4, BaseFacts, AgreedHear
<1>6. QED
  BY <1>1, <1>2, <1>3, <1>4, <1>5, BaseFacts, BaseMoves
     DEF KeepsSession, KeepsMirror, KeepsRoom

LEMMA BaseHearsStatus == ASSUME Base, HearsStatus PROVE Base'
<1> DEFINE standing1 == IF Head(companion.sent).live THEN "live"
                        ELSE IF front.standing = "live" THEN "idle" ELSE front.standing
<1>1. /\ companion.sent # <<>> /\ Head(companion.sent).type = "status"
      /\ UNCHANGED <<file, toCompanion, spent, scenario>>
      /\ companion' = Heard(companion)
      /\ front' = IF Head(companion.sent).live
                  THEN [front EXCEPT !.standing = "live"]
                  ELSE [NoBuffer EXCEPT !.standing = IF @ = "live" THEN "idle" ELSE @]
  BY DEF HearsStatus, Hears
<1>2. /\ companion' \in Companions(Sessions)
      /\ KeepsSession(companion, companion') /\ KeepsMirror(companion, companion')
      /\ KeepsRoom(companion, companion') /\ KeepsReads(companion, companion')
      /\ companion'.sent = Tail(companion.sent) /\ companion'.nextId = companion.nextId
      /\ companion'.saves = companion.saves
  BY <1>1, BaseFacts, HeardDoes
<1>3. /\ front' \in Fronts /\ front'.standing = standing1
      /\ front'.doc \in {0, front.doc} /\ front'.edits \in {0, front.edits}
      /\ front'.doc # 0 => front'.standing = "live"
  <2>1. CASE Head(companion.sent).live
    BY <1>1, <2>1, BaseFacts DEF Fronts
  <2>2. CASE ~Head(companion.sent).live
    <3>1. NoBuffer \in Fronts /\ NoBuffer.standing = front.standing
          /\ NoBuffer.doc = 0 /\ NoBuffer.edits = 0
      BY BaseFacts DEF NoBuffer, Fronts
    <3>2. front' = [NoBuffer EXCEPT !.standing = standing1]
      BY <1>1, <2>2, <3>1 DEF Fronts
    <3>3. standing1 \in {"idle", "asked", "live"}
      BY BaseFacts
    <3> HIDE DEF standing1
    <3>4. QED
      BY <3>1, <3>2, <3>3 DEF Fronts
  <2>3. QED
    BY <2>1, <2>2
<1>4. Agreed(standing1, toCompanion, companion.session, companion.started,
             Tail(companion.sent), spent.sessions)
  BY <1>1, BaseFacts, AgreedHearStatus, SMTT(30)
<1> HIDE DEF standing1
<1>5. QED
  BY <1>1, <1>2, <1>3, <1>4, BaseFacts, BaseMoves
     DEF KeepsSession, KeepsMirror, KeepsRoom

(* The companion takes the message in front.                               *)
LEMMA TakesDoes ==
    ASSUME Base, Takes, NEW m, m = Head(toCompanion)
    PROVE  /\ toCompanion # <<>> /\ toCompanion' = Tail(toCompanion)
           /\ UNCHANGED <<front, file, spent, scenario>>
           /\ m \in Messages
           /\ \/ /\ m.type = "start" /\ m.role \in Roles
                 /\ companion' = Connect(companion, m.role)
              \/ m.type = "leave" /\ companion' = Leave(companion)
              \/ /\ m.type = "open"
                 /\ m.of \in Nat \ {0} /\ m.text \in BOOLEAN /\ m.present \in BOOLEAN
                 /\ companion' = Open(companion, m)
              \/ m.type = "close" /\ companion' = Close(companion)
              \/ m.type = "change" /\ companion' = Changed(companion)
              \/ m.type = "wrote" /\ companion' = Materialized(companion)
              \/ /\ m.type = "saved" /\ m.id \in Nat /\ m.ok \in BOOLEAN
                 /\ companion' = SettleSave(companion, m.id, m.ok)
<1>1. toCompanion # <<>> /\ toCompanion' = Tail(toCompanion)
      /\ UNCHANGED <<front, file, spent, scenario>>
  BY DEF Takes
<1>2. m \in Messages
  BY <1>1, BaseFacts
<1>3. \/ m.type = "start" /\ m.role \in Roles
      \/ m.type = "leave"
      \/ m.type = "open" /\ m.of \in Nat \ {0} /\ m.text \in BOOLEAN /\ m.present \in BOOLEAN
      \/ m.type = "close"
      \/ m.type = "change"
      \/ m.type = "wrote"
      \/ m.type = "saved" /\ m.id \in Nat /\ m.ok \in BOOLEAN
  BY <1>2 DEF Messages
<1>4. companion' = CASE m.type = "start" -> Connect(companion, m.role)
                     [] m.type = "leave" -> Leave(companion)
                     [] m.type = "open" -> Open(companion, m)
                     [] m.type = "close" -> Close(companion)
                     [] m.type = "change" -> Changed(companion)
                     [] m.type = "wrote" -> Materialized(companion)
                     [] m.type = "saved" -> SettleSave(companion, m.id, m.ok)
  BY DEF Takes
<1>5. QED
  BY <1>1, <1>2, <1>3, <1>4

LEMMA BaseTakes == ASSUME Base, Takes PROVE Base'
<1> DEFINE m == Head(toCompanion)
<1>1. /\ toCompanion # <<>> /\ toCompanion' = Tail(toCompanion)
      /\ UNCHANGED <<front, file, spent, scenario>>
      /\ m \in Messages
  BY TakesDoes
<1>2. toCompanion' \in Seq(Messages)
  BY <1>1, BaseFacts, TailAt
<1>13. /\ companion.session \in Nat /\ companion.started \in Nat /\ spent.sessions \in Nat
       /\ toCompanion \in Seq(Messages) /\ companion.sent \in Seq(Words)
       /\ Agreed(front.standing, toCompanion, companion.session, companion.started,
                 companion.sent, spent.sessions)
  BY BaseFacts
<1>12. /\ companion \in Companions(Sessions) /\ companion.session \in Sessions \cup {0}
       /\ companion.unarrived # NoDocument => companion.session # 0
  BY BaseFacts
<1>3. m.type \notin {"start", "leave"} =>
        Agreed(front.standing, toCompanion', companion.session, companion.started,
               companion.sent, spent.sessions)
  BY <1>1, BaseFacts, AgreedTake
<1> HIDE DEF m
<1>14. m = Head(toCompanion)
  BY DEF m
<1>4. CASE m.type = "start" /\ m.role \in Roles /\ companion' = Connect(companion, m.role)
  <2> DEFINE w == [type |-> "status", live |-> TRUE]
             next == companion.started + 1
  <2>1. w \in Words /\ w = [type |-> "status", live |-> TRUE]
    BY SaidTyped
  <2>5. next \in Nat /\ companion.started < next /\ next <= companion.started + 1
    BY <1>13
  <2>7. next = companion.started + 1
    OBVIOUS
  <2> HIDE DEF w, next
  <2>6. toCompanion # <<>> /\ Head(toCompanion).type = "start"
    BY <1>1, <1>4, <1>14
  <2>8. companion.session = 0
    BY <1>13, <2>6, AgreedStartWaited
  <2>2. Agreed(front.standing, Tail(toCompanion), next, next,
               Append(companion.sent, w), spent.sessions)
    BY <1>13, <2>1, <2>5, <2>6, AgreedTakeStart
  <2>3. /\ companion' \in Companions(Sessions)
        /\ companion'.session = next /\ companion'.started = next
        /\ KeepsMirror(companion, companion') /\ KeepsRoom(companion, companion')
        /\ companion'.saves = companion.saves /\ companion'.nextId = companion.nextId
        /\ companion'.sent = Append(companion.sent, w)
    BY <1>4, <1>12, <2>1, <2>7, <2>8, ConnectDoes
  <2> HIDE DEF w
  <2>4. QED
    BY <1>1, <1>2, <2>2, <2>3, <2>8, BaseFacts, BaseMoves DEF KeepsMirror, KeepsRoom
<1>5. CASE m.type = "leave" /\ companion' = Leave(companion)
  <2> DEFINE w == [type |-> "status", live |-> FALSE]
  <2>1. w \in Words /\ w = [type |-> "status", live |-> FALSE]
    BY SaidTyped
  <2>2. Agreed(front.standing, Tail(toCompanion), 0, companion.started,
               Append(companion.sent, w), spent.sessions)
    BY <1>1, <1>5, <1>13, <2>1, <1>14, AgreedTakeLeave
  <2>3. /\ companion' \in Companions(Sessions)
        /\ companion'.session = 0 /\ companion'.started = companion.started
        /\ companion'.bridge = "none"
        /\ companion'.document = NoDocument /\ companion'.unarrived = NoDocument
        /\ companion'.saves = <<>>
        /\ companion'.sent = Append(companion.sent, w)
    BY <1>5, <1>12, LeaveDoes
  <2> HIDE DEF w
  <2>4. DOMAIN companion'.saves = {}
    BY <2>3
  <2>5. QED
    BY <1>1, <1>2, <2>2, <2>3, <2>4, BaseFacts, BaseMoves
<1>6. CASE m.type = "open" /\ m.of \in Nat \ {0} /\ m.text \in BOOLEAN
           /\ m.present \in BOOLEAN /\ companion' = Open(companion, m)
  <2>1. /\ companion' \in Companions(Sessions)
        /\ KeepsSession(companion, companion') /\ KeepsWords(companion, companion')
        /\ \/ /\ companion.session # 0 /\ companion.role # "host" /\ ~Has(companion)
              /\ companion'.unarrived = [of |-> m.of, text |-> TRUE,
                                         present |-> m.present, changes |-> 0]
              /\ companion'.document = companion.document
              /\ companion'.instances = companion.instances
              /\ companion'.late = companion.late
              /\ companion'.bridge = companion.bridge /\ companion'.held = companion.held
           \/ /\ companion'.unarrived = companion.unarrived
              /\ companion'.instances = companion.instances + 1
              /\ companion'.document = MirrorOf(m, 0, companion'.instances)
              /\ \/ companion.session = 0 /\ companion'.late /\ KeepsRoom(companion, companion')
                 \/ companion.session # 0 /\ companion'.late = companion.late
    BY <1>6, <1>12, OpenDoes
  <2>2. companion'.document # NoDocument =>
            companion'.document.instance <= companion'.instances
    BY <2>1, BaseFacts DEF MirrorOf
  <2>3. \A id \in DOMAIN companion'.saves :
            id <= companion'.nextId /\ companion'.saves[id] <= companion'.instances
    <3>1. \A id \in DOMAIN companion.saves : companion.saves[id] \in Nat
      <4>1. companion.saves \in Assignments
        BY BaseFacts
      <4>2. QED
        BY <4>1 DEF Assignments
    <3>2. QED
      BY <2>1, <3>1, BaseFacts DEF KeepsWords
  <2>4. companion.role # "host" => companion.role = "guest"
    BY BaseFacts DEF Roles
  <2>5. QED
    BY <1>1, <1>2, <1>3, <1>6, <2>1, <2>2, <2>3, <2>4, BaseFacts, BaseMoves
       DEF KeepsSession, KeepsWords, KeepsRoom
<1>7. CASE m.type = "close" /\ companion' = Close(companion)
  <2>1. /\ companion' \in Companions(Sessions)
        /\ KeepsSession(companion, companion') /\ KeepsWords(companion, companion')
        /\ companion'.instances = companion.instances /\ companion'.unarrived = NoDocument
        /\ companion'.document \in {companion.document, NoDocument}
        /\ companion'.bridge \in {companion.bridge, "none"}
    BY <1>7, <1>12, CloseDoes DEF KeepsRoom
  <2>2. QED
    BY <1>1, <1>2, <1>3, <1>7, <2>1, BaseFacts, BaseMoves
       DEF KeepsSession, KeepsWords
<1>8. CASE m.type = "change" /\ companion' = Changed(companion)
  <2>1. /\ companion' \in Companions(Sessions)
        /\ KeepsSession(companion, companion') /\ KeepsWords(companion, companion')
        /\ KeepsRoom(companion, companion')
        /\ companion'.instances = companion.instances
        /\ companion.document # NoDocument =>
              /\ companion'.document = [companion.document EXCEPT !.version = @ + 1]
              /\ companion'.unarrived = companion.unarrived
        /\ companion.document = NoDocument =>
              /\ companion'.document = NoDocument
              /\ companion.unarrived # NoDocument =>
                    companion'.unarrived = [companion.unarrived EXCEPT !.changes = @ + 1]
              /\ companion.unarrived = NoDocument => companion'.unarrived = NoDocument
    BY <1>8, <1>12, ChangedDoes
  <2>2. companion'.document # NoDocument =>
           companion'.document.instance <= companion'.instances
    BY <2>1, BaseFacts DEF Documents
  <2>3. companion'.unarrived # NoDocument => companion.unarrived # NoDocument
    BY <2>1
  <2>4. QED
    BY <1>1, <1>2, <1>3, <1>8, <2>1, <2>2, <2>3, BaseFacts, BaseMoves
       DEF KeepsSession, KeepsWords, KeepsRoom
<1>9. CASE m.type = "wrote" /\ companion' = Materialized(companion)
  <2>1. /\ companion' \in Companions(Sessions)
        /\ KeepsSession(companion, companion') /\ KeepsWords(companion, companion')
        /\ KeepsRoom(companion, companion')
        /\ companion'.unarrived = companion.unarrived
        /\ companion'.instances = companion.instances
        /\ companion.document = NoDocument => companion' = companion
        /\ companion.document # NoDocument =>
              companion'.document = [companion.document EXCEPT !.materialized = TRUE]
    BY <1>9, <1>12, MaterializedDoes
  <2>2. companion'.document # NoDocument =>
           companion'.document.instance <= companion'.instances
    BY <2>1, BaseFacts DEF Documents
  <2>3. QED
    BY <1>1, <1>2, <1>3, <1>9, <2>1, <2>2, BaseFacts, BaseMoves
       DEF KeepsSession, KeepsWords, KeepsRoom
<1>10. CASE m.type = "saved" /\ m.id \in Nat /\ m.ok \in BOOLEAN
            /\ companion' = SettleSave(companion, m.id, m.ok)
  <2>1. /\ companion' \in Companions(Sessions)
        /\ KeepsSession(companion, companion') /\ KeepsRoom(companion, companion')
        /\ companion'.sent = companion.sent /\ companion'.nextId = companion.nextId
        /\ companion'.unarrived = companion.unarrived
        /\ companion'.instances = companion.instances
        /\ DOMAIN companion'.saves = DOMAIN companion.saves \ {m.id}
        /\ \A i \in DOMAIN companion.saves \ {m.id} : companion'.saves[i] = companion.saves[i]
        /\ \/ /\ companion.document # NoDocument
              /\ companion'.document = [companion.document EXCEPT !.materialized = TRUE]
           \/ companion'.document = companion.document
    BY <1>10, <1>12, SettleSaveDoes
  <2>2. companion'.document # NoDocument =>
           companion'.document.instance <= companion'.instances
    BY <2>1, BaseFacts DEF Documents
  <2>3. QED
    BY <1>1, <1>2, <1>3, <1>10, <2>1, <2>2, BaseFacts, BaseMoves
       DEF KeepsSession, KeepsRoom
<1>11. QED
  BY <1>4, <1>5, <1>6, <1>7, <1>8, <1>9, <1>10, <1>14, TakesDoes

(* A document kept back that arrives takes its changes with it.            *)
Arrived(c, d) ==
    /\ c.unarrived # NoDocument
    /\ d.unarrived = NoDocument /\ d.late = c.late
    /\ d.instances = c.instances + 1
    /\ d.document = [of |-> c.unarrived.of, text |-> c.unarrived.text,
                     version |-> c.unarrived.changes, instance |-> d.instances,
                     materialized |-> c.unarrived.present]
    /\ d.bridge \in {"unarrived", "open"}

LEMMA RoomEndsDoes ==
    ASSUME Base, RoomEnds
    PROVE  /\ UNCHANGED <<front, file, toCompanion, scenario>> /\ Spend("endings")
           /\ companion.session # 0 /\ companion' = Leave(companion)
BY DEF RoomEnds

LEMMA BaseRoomEnds == ASSUME Base, RoomEnds PROVE Base'
<1> DEFINE w == [type |-> "status", live |-> FALSE]
<1>1. /\ UNCHANGED <<front, file, toCompanion, scenario>> /\ Spend("endings")
      /\ companion.session # 0 /\ companion' = Leave(companion)
  BY RoomEndsDoes
<1>2. w \in Words /\ w = [type |-> "status", live |-> FALSE]
      /\ "endings" \in Budgets \ {"sessions"}
  BY SaidTyped DEF Budgets
<1>3. companion \in Companions(Sessions)
  BY BaseFacts
<1>4. /\ companion' \in Companions(Sessions)
      /\ companion'.session = 0 /\ companion'.started = companion.started
      /\ companion'.bridge = "none"
      /\ companion'.document = NoDocument /\ companion'.unarrived = NoDocument
      /\ companion'.saves = <<>>
      /\ companion'.sent = Append(companion.sent, w)
  BY <1>1, <1>3, LeaveDoes
<1> HIDE DEF w
<1>5. Agreed(front.standing, toCompanion, 0, companion.started,
             Append(companion.sent, w), spent.sessions)
  BY <1>1, <1>2, BaseFacts, AgreedEnd
<1>6. DOMAIN companion'.saves = {}
  BY <1>4
<1>7. QED
  BY <1>1, <1>2, <1>4, <1>5, <1>6, BaseFacts, BaseMoves

LEMMA TextArrivesDoes ==
    ASSUME Base, TextArrives
    PROVE  /\ UNCHANGED <<front, file, toCompanion, spent, scenario>>
           /\ companion.session \in Sessions /\ companion.session # 0
           /\ companion' \in Companions(Sessions)
           /\ KeepsSession(companion, companion') /\ KeepsWords(companion, companion')
           /\ KeepsReads(companion, companion')
           /\ companion'.held = companion.held
           /\ companion'.engines[companion.session].has
           /\ \A s \in Sessions, a \in Askers : companion'.opens[s][a] >= companion.opens[s][a]
           /\ \A s \in Sessions \ {companion.session} :
                 companion'.engines[s] = companion.engines[s]
           /\ \/ /\ Arrived(companion, companion')
                 /\ companion'.opens[companion.session]["bridge"] > 0
              \/ /\ companion.unarrived = NoDocument
                 /\ KeepsMirror(companion, companion')
                 /\ companion'.opens = companion.opens
                 /\ companion'.bridge = IF companion.bridge = "unarrived" THEN "open"
                                                                      ELSE companion.bridge
                 /\ companion'.engines[companion.session].holds
                        = companion.engines[companion.session].holds
                 /\ companion'.engines[companion.session].refused
                        = companion.engines[companion.session].refused
<1> DEFINE engines == [companion.engines EXCEPT ![companion.session].has = TRUE]
           bridge == IF companion.bridge = "unarrived" THEN "open" ELSE companion.bridge
           e == [companion EXCEPT !.engines = engines, !.bridge = bridge]
<1>1. /\ UNCHANGED <<front, file, toCompanion, spent, scenario>>
      /\ companion \in Companions(Sessions)
      /\ companion.session \in Sessions /\ companion.session # 0
  BY SessionCounted DEF TextArrives, Base, Typed
<1>2. companion' = Arrive(e)
  BY <1>1 DEF TextArrives, Companions
<1>3. /\ engines \in [Sessions -> [has : BOOLEAN, holds : BOOLEAN, refused : BOOLEAN]]
      /\ engines[companion.session].has
      /\ engines[companion.session].holds = companion.engines[companion.session].holds
      /\ engines[companion.session].refused = companion.engines[companion.session].refused
      /\ \A s \in Sessions \ {companion.session} : engines[s] = companion.engines[s]
  BY <1>1 DEF Companions
<1>4. bridge \in {"none", "unarrived", "open"}
  BY <1>1 DEF Companions
<1> HIDE DEF engines, bridge
<1>5. /\ e \in Companions(Sessions)
      /\ KeepsSession(companion, e) /\ KeepsWords(companion, e)
      /\ KeepsReads(companion, e) /\ KeepsMirror(companion, e)
      /\ e.held = companion.held /\ e.opens = companion.opens
      /\ e.engines = engines /\ e.bridge = bridge
  BY <1>1, <1>3, <1>4
     DEF Companions, KeepsSession, KeepsWords, KeepsReads, KeepsMirror
<1> HIDE DEF e
<1>6. CASE companion.unarrived = NoDocument
  <2>1. companion' = e
    BY <1>2, <1>5, <1>6 DEF Arrive, KeepsMirror
  <2>2. \A s \in Sessions, a \in Askers : companion.opens[s][a] \in Nat
    BY <1>1 DEF Companions
  <2>3. QED
    BY <1>1, <1>3, <1>5, <1>6, <2>1, <2>2 DEF bridge
<1>7. CASE companion.unarrived # NoDocument
  <2>1. e.session \in Sessions /\ e.unarrived # NoDocument
    BY <1>1, <1>5, <1>7 DEF KeepsSession, KeepsMirror
  <2>2. /\ companion' \in Companions(Sessions)
        /\ KeepsSession(e, companion') /\ KeepsWords(e, companion') /\ KeepsReads(e, companion')
        /\ companion'.unarrived = NoDocument /\ companion'.late = e.late
        /\ companion'.instances = e.instances + 1
        /\ companion'.document =
              [of |-> e.unarrived.of, text |-> e.unarrived.text,
               version |-> e.unarrived.changes, instance |-> companion'.instances,
               materialized |-> e.unarrived.present]
        /\ Placed(Sessions, e, companion')
    BY <1>2, <1>5, <2>1, ArriveDoes
  <2>3. Arrived(companion, companion')
    BY <1>5, <1>7, <2>2 DEF Arrived, KeepsMirror, Placed
  <2>4. QED
    BY <1>1, <1>3, <1>5, <2>2, <2>3
       DEF KeepsSession, KeepsWords, KeepsReads, Placed
<1>8. QED
  BY <1>6, <1>7

LEMMA AnsweredDoes ==
    ASSUME companion \in Companions(Sessions), NEW s \in Sessions, NEW a \in Askers,
           companion.opens[s][a] > 0, NEW d, d = Answered(s, a)
    PROVE  /\ d \in Companions(Sessions)
           /\ KeepsSession(companion, d) /\ KeepsWords(companion, d)
           /\ KeepsReads(companion, d) /\ KeepsMirror(companion, d)
           /\ d.bridge = companion.bridge /\ d.held = companion.held
           /\ d.engines = companion.engines
           /\ \A t \in Sessions, b \in Askers :
                 d.opens[t][b] = IF t = s /\ b = a THEN companion.opens[t][b] - 1
                                                   ELSE companion.opens[t][b]
<1> DEFINE opens == [companion.opens EXCEPT ![s][a] = @ - 1]
<1>1. d = [companion EXCEPT !.opens = opens]
  BY DEF Answered, Companions
<1>2. /\ opens \in [Sessions -> [Askers -> Nat]]
      /\ \A t \in Sessions, b \in Askers :
            opens[t][b] = IF t = s /\ b = a THEN companion.opens[t][b] - 1
                                            ELSE companion.opens[t][b]
  BY DEF Companions
<1> HIDE DEF opens
<1>3. d \in Companions(Sessions) /\ d.opens = opens
  BY <1>1, <1>2 DEF Companions
<1>4. /\ KeepsSession(companion, d) /\ KeepsWords(companion, d)
      /\ KeepsReads(companion, d) /\ KeepsMirror(companion, d)
      /\ d.bridge = companion.bridge /\ d.held = companion.held
      /\ d.engines = companion.engines
  BY <1>1 DEF Companions, KeepsSession, KeepsWords, KeepsReads, KeepsMirror
<1>5. QED
  BY <1>2, <1>3, <1>4

LEMMA SessionHoldsDoes ==
    ASSUME Base, SessionHolds
    PROVE  /\ UNCHANGED <<front, file, toCompanion, spent, scenario>>
           /\ companion' \in Companions(Sessions)
           /\ KeepsSession(companion, companion') /\ KeepsWords(companion, companion')
           /\ KeepsReads(companion, companion')
           /\ companion'.held = companion.held
           /\ \A s \in Sessions :
                 /\ companion'.opens[s]["bridge"] >= companion.opens[s]["bridge"]
                 /\ s # companion.session => companion'.engines[s] = companion.engines[s]
                 /\ companion.engines[s].has => companion'.engines[s].has
           /\ \/ /\ Arrived(companion, companion')
                 /\ companion'.opens[companion.session]["bridge"] > 0
                 /\ companion.role = "guest" /\ companion'.bridge = "open"
                        /\ companion'.document.text
                     => companion'.engines[companion.session].has
              \/ /\ KeepsMirror(companion, companion')
                 /\ companion'.bridge = companion.bridge
                 /\ companion'.engines = companion.engines
<1>1. PICK s \in Sessions :
         /\ companion.opens[s]["session"] > 0
         /\ companion' = IF companion.engines[s].has
                         THEN Arrive(Answered(s, "session")) ELSE Answered(s, "session")
  BY DEF SessionHolds
<1>2. /\ UNCHANGED <<front, file, toCompanion, spent, scenario>>
      /\ companion \in Companions(Sessions)
      /\ "session" \in Askers /\ "bridge" \in Askers /\ "bridge" # "session"
  BY DEF SessionHolds, Base, Typed, Askers
<1> DEFINE e == Answered(s, "session")
<1>3. /\ e \in Companions(Sessions)
      /\ KeepsSession(companion, e) /\ KeepsWords(companion, e)
      /\ KeepsReads(companion, e) /\ KeepsMirror(companion, e)
      /\ e.bridge = companion.bridge /\ e.held = companion.held
      /\ e.engines = companion.engines
      /\ \A t \in Sessions, b \in Askers :
            e.opens[t][b] = IF t = s /\ b = "session" THEN companion.opens[t][b] - 1
                                                      ELSE companion.opens[t][b]
  BY <1>1, <1>2, AnsweredDoes
<1>4. companion' = IF companion.engines[s].has THEN Arrive(e) ELSE e
  BY <1>1
<1> HIDE DEF e
<1>5. \A t \in Sessions : e.opens[t]["bridge"] = companion.opens[t]["bridge"]
                          /\ companion.opens[t]["bridge"] \in Nat
  BY <1>2, <1>3 DEF Companions
<1>6. CASE companion' = e
  BY <1>2, <1>3, <1>5, <1>6
<1>7. CASE companion' = Arrive(e) /\ companion.unarrived # NoDocument
  <2>1. /\ e.session \in Sessions /\ e.unarrived # NoDocument
        /\ companion.session \in Sessions /\ e.session = companion.session
    BY <1>3, <1>7, BaseFacts DEF KeepsSession, KeepsMirror
  <2>2. /\ companion' \in Companions(Sessions)
        /\ KeepsSession(e, companion') /\ KeepsWords(e, companion') /\ KeepsReads(e, companion')
        /\ companion'.unarrived = NoDocument /\ companion'.late = e.late
        /\ companion'.instances = e.instances + 1
        /\ companion'.document =
              [of |-> e.unarrived.of, text |-> e.unarrived.text,
               version |-> e.unarrived.changes, instance |-> companion'.instances,
               materialized |-> e.unarrived.present]
        /\ Placed(Sessions, e, companion')
        /\ e.role = "guest" /\ companion'.bridge = "open" /\ companion'.document.text => Has(e)
    BY <1>3, <1>7, <2>1, ArriveDoes
  <2>3. Arrived(companion, companion')
    BY <1>3, <1>7, <2>2 DEF Arrived, KeepsMirror, Placed
  <2>4. /\ companion.role = "guest" /\ companion'.bridge = "open" /\ companion'.document.text
              => companion'.engines[companion.session].has
        /\ companion'.opens[companion.session]["bridge"] > 0
        /\ companion'.held = companion.held
    BY <1>3, <2>1, <2>2 DEF Placed, Has, KeepsSession
  <2>5. \A t \in Sessions :
           /\ companion'.opens[t]["bridge"] >= companion.opens[t]["bridge"]
           /\ t # companion.session => companion'.engines[t] = companion.engines[t]
           /\ companion.engines[t].has => companion'.engines[t].has
    BY <1>2, <1>3, <1>5, <2>1, <2>2 DEF Placed
  <2>6. QED
    BY <1>2, <1>3, <2>2, <2>3, <2>4, <2>5 DEF KeepsSession, KeepsWords, KeepsReads
<1>8. CASE companion' = Arrive(e) /\ companion.unarrived = NoDocument
  <2>1. companion' = e
    BY <1>3, <1>8 DEF Arrive, KeepsMirror
  <2>2. QED
    BY <1>6, <2>1
<1>9. QED
  BY <1>4, <1>6, <1>7, <1>8

(* The answer to a hold the bridge of session `s` took.                    *)
HoldAnswered(s, c, d) ==
    /\ c.opens[s]["bridge"] > 0
    /\ \A t \in Sessions, b \in Askers :
          d.opens[t][b] = IF t = s /\ b = "bridge" THEN c.opens[t][b] - 1
                                                  ELSE c.opens[t][b]
    /\ \A t \in Sessions : d.engines[t].has = c.engines[t].has
    /\ \A t \in Sessions \ {s} : d.engines[t] = c.engines[t]
    /\ \/ /\ s # c.session
          /\ d.bridge = c.bridge /\ d.held = c.held /\ ~d.engines[s].holds
       \/ /\ s = c.session /\ c.bridge = "none"
          /\ d.bridge = c.bridge /\ d.held = c.held /\ ~d.engines[s].holds
       \/ /\ s = c.session /\ c.bridge # "none" /\ d.bridge # "none"
          /\ d.held /\ d.engines = c.engines
          /\ d.bridge # c.bridge => Has(c)

LEMMA BridgeHoldsDoes ==
    ASSUME Base, BridgeHolds
    PROVE  /\ UNCHANGED <<front, file, toCompanion, spent, scenario>>
           /\ companion' \in Companions(Sessions)
           /\ KeepsSession(companion, companion') /\ KeepsWords(companion, companion')
           /\ KeepsReads(companion, companion') /\ KeepsMirror(companion, companion')
           /\ \E s \in Sessions : HoldAnswered(s, companion, companion')
<1>1. PICK s \in Sessions :
         /\ companion.opens[s]["bridge"] > 0
         /\ LET c == Answered(s, "bridge")
            IN  companion' =
                  CASE s # c.session -> [c EXCEPT !.engines[s].holds = FALSE]
                    [] s = c.session /\ c.bridge = "none" -> EngineClose(c)
                    [] s = c.session /\ c.bridge = "unarrived" ->
                          [c EXCEPT !.held = TRUE,
                                    !.bridge = IF Has(c) THEN "open" ELSE @]
                    [] s = c.session /\ c.bridge = "open" -> [c EXCEPT !.held = TRUE]
  BY DEF BridgeHolds
<1>2. /\ UNCHANGED <<front, file, toCompanion, spent, scenario>>
      /\ companion \in Companions(Sessions)
      /\ "bridge" \in Askers
  BY DEF BridgeHolds, Base, Typed, Askers
<1> DEFINE e == Answered(s, "bridge")
<1>3. /\ e \in Companions(Sessions)
      /\ KeepsSession(companion, e) /\ KeepsWords(companion, e)
      /\ KeepsReads(companion, e) /\ KeepsMirror(companion, e)
      /\ e.bridge = companion.bridge /\ e.held = companion.held
      /\ e.engines = companion.engines
      /\ \A t \in Sessions, b \in Askers :
            e.opens[t][b] = IF t = s /\ b = "bridge" THEN companion.opens[t][b] - 1
                                                     ELSE companion.opens[t][b]
  BY <1>1, <1>2, AnsweredDoes
<1>4. companion' = CASE s # e.session -> [e EXCEPT !.engines[s].holds = FALSE]
                     [] s = e.session /\ e.bridge = "none" -> EngineClose(e)
                     [] s = e.session /\ e.bridge = "unarrived" ->
                           [e EXCEPT !.held = TRUE,
                                     !.bridge = IF Has(e) THEN "open" ELSE @]
                     [] s = e.session /\ e.bridge = "open" -> [e EXCEPT !.held = TRUE]
  BY <1>1
<1> HIDE DEF e
<1>5. e.session = companion.session
  BY <1>3 DEF KeepsSession
<1>10. s \in Sessions /\ e.engines \in [Sessions -> [has : BOOLEAN, holds : BOOLEAN, refused : BOOLEAN]]
       /\ e.bridge \in {"none", "unarrived", "open"}
  BY <1>1, <1>3 DEF Companions
<1>11. /\ companion' \in Companions(Sessions)
       /\ KeepsSession(companion, companion') /\ KeepsWords(companion, companion')
       /\ KeepsReads(companion, companion') /\ KeepsMirror(companion, companion')
       /\ HoldAnswered(s, companion, companion')
  <2>6. CASE s # e.session
    <3> DEFINE engines == [e.engines EXCEPT ![s].holds = FALSE]
    <3>1. companion' = [e EXCEPT !.engines = engines]
      BY <1>3, <1>4, <2>6 DEF Companions
    <3>2. /\ engines \in [Sessions -> [has : BOOLEAN, holds : BOOLEAN, refused : BOOLEAN]]
          /\ \A t \in Sessions : engines[t].has = e.engines[t].has
          /\ \A t \in Sessions \ {s} : engines[t] = e.engines[t]
          /\ ~engines[s].holds
      BY <1>10
    <3> HIDE DEF engines
    <3>3. companion' \in Companions(Sessions) /\ companion'.engines = engines
      BY <1>3, <3>1, <3>2 DEF Companions
    <3>4. /\ KeepsSession(e, companion') /\ KeepsWords(e, companion')
          /\ KeepsReads(e, companion') /\ KeepsMirror(e, companion')
          /\ companion'.bridge = e.bridge /\ companion'.held = e.held
          /\ companion'.opens = e.opens
      BY <1>3, <3>1 DEF Companions, KeepsSession, KeepsWords, KeepsReads, KeepsMirror
    <3>5. HoldAnswered(s, companion, companion')
      BY <1>1, <1>3, <1>5, <2>6, <3>2, <3>3, <3>4, ZenonT(60) DEF HoldAnswered
    <3>6. QED
      BY <1>3, <3>3, <3>4, <3>5 DEF KeepsSession, KeepsWords, KeepsReads, KeepsMirror
  <2>7. CASE s = e.session /\ e.bridge = "none"
    <3>1. companion' = EngineClose(e)
      BY <1>4, <2>7
    <3>2. /\ companion' \in Companions(Sessions)
          /\ KeepsSession(e, companion') /\ KeepsWords(e, companion')
          /\ KeepsMirror(e, companion') /\ KeepsReads(e, companion')
          /\ companion'.bridge = e.bridge /\ companion'.held = e.held
          /\ companion'.opens = e.opens
          /\ \A t \in Sessions : companion'.engines[t].has = e.engines[t].has
          /\ ~companion'.engines[e.session].holds
          /\ \A t \in Sessions \ {e.session} : companion'.engines[t] = e.engines[t]
      BY <1>3, <1>10, <2>7, <3>1, EngineCloseDoes
    <3>3. HoldAnswered(s, companion, companion')
      BY <1>1, <1>3, <1>5, <2>7, <3>2, ZenonT(60) DEF HoldAnswered
    <3>4. QED
      BY <1>3, <3>2, <3>3 DEF KeepsSession, KeepsWords, KeepsReads, KeepsMirror
  <2>8. CASE s = e.session /\ e.bridge # "none"
    <3> DEFINE bridge == IF e.bridge = "unarrived" /\ Has(e) THEN "open" ELSE e.bridge
    <3>1. companion' = [e EXCEPT !.held = TRUE, !.bridge = bridge]
      <4>1. CASE e.bridge = "unarrived"
        BY <1>3, <1>4, <2>8, <4>1 DEF Companions
      <4>2. CASE e.bridge = "open"
        <5>1. bridge = e.bridge
          BY <4>2
        <5>2. companion' = [e EXCEPT !.held = TRUE]
          BY <1>4, <2>8, <4>2
        <5> HIDE DEF bridge
        <5>3. QED
          BY <1>3, <5>1, <5>2 DEF Companions
      <4>3. QED
        BY <1>10, <2>8, <4>1, <4>2
    <3>2. /\ bridge \in {"unarrived", "open"}
          /\ bridge # e.bridge => Has(e)
      BY <1>10, <2>8
    <3> HIDE DEF bridge
    <3>3. companion' \in Companions(Sessions) /\ companion'.bridge = bridge /\ companion'.held
      BY <1>3, <3>1, <3>2 DEF Companions
    <3>4. /\ KeepsSession(e, companion') /\ KeepsWords(e, companion')
          /\ KeepsReads(e, companion') /\ KeepsMirror(e, companion')
          /\ companion'.engines = e.engines /\ companion'.opens = e.opens
      BY <1>3, <3>1 DEF Companions, KeepsSession, KeepsWords, KeepsReads, KeepsMirror
    <3>7. Has(e) <=> Has(companion)
      BY <1>3, <1>5 DEF Has
    <3>5. HoldAnswered(s, companion, companion')
      <4>1. /\ companion'.bridge # "none"
            /\ companion'.bridge # companion.bridge => Has(companion)
            /\ companion.bridge # "none" /\ s = companion.session
        BY <1>3, <1>5, <2>8, <3>2, <3>3, <3>7
      <4>2. companion'.engines = companion.engines /\ companion'.opens = e.opens
        BY <1>3, <3>4
      <4>3. \A t \in Sessions, b \in Askers :
               companion'.opens[t][b] = IF t = s /\ b = "bridge"
                                        THEN companion.opens[t][b] - 1
                                        ELSE companion.opens[t][b]
        BY <1>3, <4>2
      <4>4. companion'.held /\ companion.opens[s]["bridge"] > 0
        BY <1>1, <3>3
      <4>5. QED
        BY <4>1, <4>2, <4>3, <4>4 DEF HoldAnswered
    <3>6. QED
      BY <1>3, <3>3, <3>4, <3>5 DEF KeepsSession, KeepsWords, KeepsReads, KeepsMirror
  <2>9. QED
    BY <2>6, <2>7, <2>8
<1>12. QED
  BY <1>1, <1>2, <1>11

LEMMA HoldRefusedDoes ==
    ASSUME Base, HoldRefused
    PROVE  /\ UNCHANGED <<front, file, toCompanion, scenario>> /\ Spend("refusals")
           /\ companion' \in Companions(Sessions)
           /\ KeepsSession(companion, companion') /\ KeepsReads(companion, companion')
           /\ companion'.nextId = companion.nextId /\ companion'.saves = companion.saves
           /\ companion'.document = companion.document
           /\ companion'.instances = companion.instances
           /\ companion'.late = companion.late
           /\ companion'.held = companion.held
           /\ \A t \in Sessions : /\ companion'.engines[t].has = companion.engines[t].has
                                 /\ companion'.engines[t].holds = companion.engines[t].holds
           /\ companion.session \in Sessions =>
                 \/ companion'.bridge = "none"
                 \/ /\ companion'.bridge = companion.bridge
                    /\ companion'.opens[companion.session]["bridge"]
                           = companion.opens[companion.session]["bridge"]
           /\ companion.session \in Sessions =>
                 \/ companion'.engines[companion.session].refused
                 \/ /\ companion'.bridge = companion.bridge
                    /\ companion'.unarrived = companion.unarrived
                    /\ companion'.engines[companion.session]
                           = companion.engines[companion.session]
                    /\ companion'.opens[companion.session]["bridge"]
                           = companion.opens[companion.session]["bridge"]
           /\ companion'.bridge \in {"none", companion.bridge}
           /\ \/ companion'.sent = companion.sent /\ companion'.unarrived = companion.unarrived
                 /\ companion'.bridge = companion.bridge
              \/ companion'.sent = Append(companion.sent, [type |-> "refusal"])
                 /\ companion'.unarrived \in {NoDocument, companion.unarrived}
<1>1. PICK s \in Sessions, a \in Askers :
         /\ companion.opens[s][a] > 0
         /\ LET c == [Answered(s, a) EXCEPT !.engines[s].refused = TRUE]
                own == s = c.session
            IN  companion' =
                   CASE a = "session" /\ ~own -> c
                     [] a = "session" /\ own ->
                           Say([c EXCEPT !.unarrived = NoDocument], [type |-> "refusal"])
                     [] a = "bridge" ->
                           Say([c EXCEPT !.bridge = IF own THEN "none" ELSE @],
                               [type |-> "refusal"])
  BY DEF HoldRefused
<1>2. /\ UNCHANGED <<front, file, toCompanion, scenario>> /\ Spend("refusals")
      /\ companion \in Companions(Sessions)
  BY DEF HoldRefused, Base, Typed
<1> DEFINE f == Answered(s, a)
           engines == [f.engines EXCEPT ![s].refused = TRUE]
           e == [f EXCEPT !.engines = engines]
<1>a. /\ f \in Companions(Sessions)
      /\ KeepsSession(companion, f) /\ KeepsWords(companion, f)
      /\ KeepsReads(companion, f) /\ KeepsMirror(companion, f)
      /\ f.bridge = companion.bridge /\ f.held = companion.held
      /\ f.engines = companion.engines
      /\ \A t \in Sessions, b \in Askers :
            f.opens[t][b] = IF t = s /\ b = a THEN companion.opens[t][b] - 1
                                              ELSE companion.opens[t][b]
  BY <1>1, <1>2, AnsweredDoes
<1>b. companion' = CASE a = "session" /\ s # e.session -> e
                     [] a = "session" /\ s = e.session ->
                           Say([e EXCEPT !.unarrived = NoDocument], [type |-> "refusal"])
                     [] a = "bridge" ->
                           Say([e EXCEPT !.bridge = IF s = e.session THEN "none" ELSE @],
                               [type |-> "refusal"])
  <2>1. e = [Answered(s, a) EXCEPT !.engines[s].refused = TRUE]
    BY <1>a DEF Companions
  <2>2. QED
    BY <1>1, <2>1
<1> HIDE DEF f
<1>c. /\ engines \in [Sessions -> [has : BOOLEAN, holds : BOOLEAN, refused : BOOLEAN]]
      /\ \A t \in Sessions : /\ engines[t].has = companion.engines[t].has
                            /\ engines[t].holds = companion.engines[t].holds
      /\ engines[s].refused
      /\ \A t \in Sessions \ {s} : engines[t] = companion.engines[t]
  <2> DEFINE engine == [companion.engines[s] EXCEPT !.refused = TRUE]
  <2>1. /\ companion.engines
              \in [Sessions -> [has : BOOLEAN, holds : BOOLEAN, refused : BOOLEAN]]
        /\ engines = [companion.engines EXCEPT ![s] = engine]
    BY <1>2, <1>a DEF Companions
  <2>2. /\ engine \in [has : BOOLEAN, holds : BOOLEAN, refused : BOOLEAN]
        /\ engine.has = companion.engines[s].has /\ engine.holds = companion.engines[s].holds
        /\ engine.refused
    <3> DEFINE known == companion.engines[s]
    <3>1. known \in [has : BOOLEAN, holds : BOOLEAN, refused : BOOLEAN]
      BY <2>1
    <3> HIDE DEF known
    <3>2. [known EXCEPT !.refused = TRUE] \in [has : BOOLEAN, holds : BOOLEAN, refused : BOOLEAN]
      BY <3>1
    <3>3. QED
      BY <3>1, <3>2 DEF known
  <2> HIDE DEF engine, engines
  <2>3. QED
    BY <2>1, <2>2
<1> HIDE DEF engines
<1>3. /\ e \in Companions(Sessions)
      /\ KeepsSession(companion, e) /\ KeepsWords(companion, e)
      /\ KeepsReads(companion, e) /\ KeepsMirror(companion, e)
      /\ e.bridge = companion.bridge /\ e.held = companion.held
      /\ \A t \in Sessions : /\ e.engines[t].has = companion.engines[t].has
                            /\ e.engines[t].holds = companion.engines[t].holds
      /\ e.engines[s].refused
      /\ \A t \in Sessions \ {s} : e.engines[t] = companion.engines[t]
      /\ \A t \in Sessions, b \in Askers : t # s \/ b # a
            => e.opens[t][b] = companion.opens[t][b]
  <2>1. /\ e \in Companions(Sessions) /\ e.engines = engines /\ e.opens = f.opens
        /\ KeepsSession(f, e) /\ KeepsWords(f, e) /\ KeepsReads(f, e) /\ KeepsMirror(f, e)
        /\ e.bridge = f.bridge /\ e.held = f.held
    BY <1>a, <1>c
       DEF Companions, KeepsSession, KeepsWords, KeepsReads, KeepsMirror
  <2> HIDE DEF e
  <2>2. \A t \in Sessions, b \in Askers : t # s \/ b # a
            => e.opens[t][b] = companion.opens[t][b]
    BY <1>a, <2>1
  <2>3. QED
    BY <1>a, <1>c, <2>1, <2>2 DEF KeepsSession, KeepsWords, KeepsReads, KeepsMirror
<1>4. companion' = CASE a = "session" /\ s # e.session -> e
                     [] a = "session" /\ s = e.session ->
                           Say([e EXCEPT !.unarrived = NoDocument], [type |-> "refusal"])
                     [] a = "bridge" ->
                           Say([e EXCEPT !.bridge = IF s = e.session THEN "none" ELSE @],
                               [type |-> "refusal"])
  BY <1>b
<1> HIDE DEF e
<1> DEFINE sent == Append(e.sent, [type |-> "refusal"])
<1>5. sent \in Seq(Words)
  BY <1>3, SaidTyped DEF Companions
<1>6. CASE a = "session" /\ s # e.session
  <2>1. companion' = e /\ e.session = companion.session /\ "bridge" # a
    BY <1>3, <1>4, <1>6 DEF KeepsSession
  <2>2. QED
    BY <1>2, <1>3, <1>6, <2>1 DEF KeepsWords, KeepsMirror, Askers
<1>7. CASE a = "session" /\ s = e.session
  <2>1. companion' = [e EXCEPT !.unarrived = NoDocument, !.sent = sent]
    BY <1>3, <1>4, <1>7 DEF Say, Companions
  <2> HIDE DEF sent
  <2>2. companion' \in Companions(Sessions)
    BY <1>3, <1>5, <2>1 DEF Companions
  <2>3. /\ KeepsSession(e, companion') /\ KeepsReads(e, companion') /\ KeepsRoom(e, companion')
        /\ companion'.nextId = e.nextId /\ companion'.saves = e.saves
        /\ companion'.document = e.document /\ companion'.instances = e.instances
        /\ companion'.late = e.late /\ companion'.unarrived = NoDocument
        /\ companion'.sent = sent
    BY <1>3, <2>1 DEF Companions, KeepsSession, KeepsReads, KeepsRoom
  <2>4. companion.session = s /\ companion'.engines[companion.session].refused
    BY <1>3, <1>7, <2>3 DEF KeepsSession, KeepsRoom
  <2>5. companion'.bridge = companion.bridge /\ companion'.held = companion.held
        /\ companion'.opens[companion.session]["bridge"]
              = companion.opens[companion.session]["bridge"]
    BY <1>3, <1>7, <2>3, <2>4 DEF KeepsRoom, Askers
  <2>6. QED
    BY <1>2, <1>3, <2>2, <2>3, <2>4, <2>5
       DEF sent, KeepsSession, KeepsWords, KeepsReads, KeepsMirror, KeepsRoom
<1>8. CASE a = "bridge"
  <2> DEFINE bridge == IF s = e.session THEN "none" ELSE e.bridge
  <2>1. companion' = [e EXCEPT !.bridge = bridge, !.sent = sent]
    BY <1>3, <1>4, <1>8 DEF Say, Companions
  <2>2. bridge \in {"none", "unarrived", "open"} /\ bridge \in {"none", companion.bridge}
    BY <1>3 DEF Companions
  <2> HIDE DEF sent, bridge
  <2>3. companion' \in Companions(Sessions)
    BY <1>3, <1>5, <2>1, <2>2 DEF Companions
  <2>4. /\ KeepsSession(e, companion') /\ KeepsReads(e, companion') /\ KeepsMirror(e, companion')
        /\ companion'.nextId = e.nextId /\ companion'.saves = e.saves
        /\ companion'.engines = e.engines /\ companion'.bridge = bridge
        /\ companion'.held = e.held /\ companion'.opens = e.opens
        /\ companion'.sent = sent
    BY <1>3, <2>1 DEF Companions, KeepsSession, KeepsReads, KeepsMirror
  <2>5. e.session = companion.session
    BY <1>3 DEF KeepsSession
  <2>6. CASE s = companion.session
    <3>1. companion'.bridge = "none" /\ companion'.engines[companion.session].refused
      BY <1>3, <2>4, <2>5, <2>6 DEF bridge
    <3>2. QED
      BY <1>2, <1>3, <2>2, <2>3, <2>4, <3>1
         DEF sent, KeepsSession, KeepsWords, KeepsReads, KeepsMirror
  <2>7. CASE s # companion.session
    <3>1. companion'.bridge = companion.bridge
      BY <1>3, <2>4, <2>5, <2>7 DEF bridge
    <3>2. companion.session \in Sessions =>
             /\ companion'.engines[companion.session] = companion.engines[companion.session]
             /\ companion'.opens[companion.session]["bridge"]
                   = companion.opens[companion.session]["bridge"]
      BY <1>3, <2>4, <2>7 DEF Askers
    <3>3. QED
      BY <1>2, <1>3, <2>2, <2>3, <2>4, <3>1, <3>2
         DEF sent, KeepsSession, KeepsWords, KeepsReads, KeepsMirror
  <2>8. QED
    BY <2>6, <2>7
<1>9. QED
  BY <1>6, <1>7, <1>8 DEF Askers

LEMMA SaveFallsDoes ==
    ASSUME Base, SaveFalls
    PROVE  /\ UNCHANGED <<front, file, toCompanion, scenario>> /\ Spend("saves")
           /\ companion.session # 0 /\ companion.document # NoDocument
           /\ companion' \in Companions(Sessions)
           /\ KeepsSession(companion, companion') /\ KeepsMirror(companion, companion')
           /\ KeepsRoom(companion, companion')
           /\ \/ /\ KeepsWords(companion, companion')
                 /\ companion'.reads =
                       Append(companion.reads, [session |-> companion.session,
                                                instance |-> companion.document.instance,
                                                there |-> file, answer |-> "none"])
              \/ /\ KeepsReads(companion, companion')
                 /\ Asked(companion, companion', FALSE, file)
<1>1. companion \in Companions(Sessions) /\ file \in BOOLEAN
  BY BaseFacts
<1>2. /\ UNCHANGED <<front, file, toCompanion, scenario>> /\ Spend("saves")
      /\ companion.session # 0 /\ companion.document # NoDocument
      /\ companion' = SaveHostFile(companion, file)
  BY DEF SaveFalls
<1>3. QED
  BY <1>1, <1>2, SaveHostFileDoes

LEMMA ReadsDoes ==
    ASSUME Base, Reads
    PROVE  /\ UNCHANGED <<front, file, toCompanion, scenario>>
           /\ spent' = spent \/ Spend("faults")
           /\ companion' \in Companions(Sessions)
           /\ KeepsSession(companion, companion') /\ KeepsMirror(companion, companion')
           /\ KeepsRoom(companion, companion') /\ KeepsWords(companion, companion')
           /\ DOMAIN companion'.reads = DOMAIN companion.reads
           /\ \A j \in DOMAIN companion.reads :
                 LET r == companion.reads[j]
                     s == companion'.reads[j]
                 IN  /\ s.session = r.session /\ s.instance = r.instance
                     /\ r.there => s.there
                     /\ \/ s.answer = r.answer
                        \/ s.answer = "absent"
                        \/ s.answer = "not absent" /\ (file \/ s.there)
<1>1. PICK i \in DOMAIN companion.reads :
         \/ /\ companion' = [companion EXCEPT !.reads[i].answer =
                                IF file THEN "not absent" ELSE "absent"]
            /\ spent' = spent
         \/ /\ Spend("faults")
            /\ companion' = [companion EXCEPT !.reads[i].answer = "not absent",
                                              !.reads[i].there = TRUE]
  BY DEF Reads
<1>2. /\ UNCHANGED <<front, file, toCompanion, scenario>>
      /\ companion \in Companions(Sessions) /\ file \in BOOLEAN
  BY DEF Reads, Base, Typed
<1>3. companion.reads \in Seq(ReadsInFlight) /\ companion.reads[i] \in ReadsInFlight
  BY <1>2 DEF Companions
<1>4. PICK r \in ReadsInFlight :
         /\ companion' = [companion EXCEPT !.reads = [companion.reads EXCEPT ![i] = r]]
         /\ r.session = companion.reads[i].session
         /\ r.instance = companion.reads[i].instance
         /\ companion.reads[i].there => r.there
         /\ \/ r.answer = "absent"
            \/ r.answer = "not absent" /\ (file \/ r.there)
  <2>1. CASE companion' = [companion EXCEPT !.reads[i].answer =
                                IF file THEN "not absent" ELSE "absent"]
    <3> DEFINE r == [companion.reads[i] EXCEPT !.answer =
                         IF file THEN "not absent" ELSE "absent"]
    <3>1. companion' = [companion EXCEPT !.reads = [companion.reads EXCEPT ![i] = r]]
      BY <1>2, <2>1 DEF Companions
    <3>2. /\ r \in ReadsInFlight
          /\ r.session = companion.reads[i].session
          /\ r.instance = companion.reads[i].instance
          /\ companion.reads[i].there => r.there
          /\ \/ r.answer = "absent"
             \/ r.answer = "not absent" /\ (file \/ r.there)
      BY <1>2, <1>3 DEF ReadsInFlight
    <3> HIDE DEF r
    <3>3. QED
      BY <3>1, <3>2
  <2>2. CASE companion' = [companion EXCEPT !.reads[i].answer = "not absent",
                                            !.reads[i].there = TRUE]
    <3> DEFINE r == [companion.reads[i] EXCEPT !.answer = "not absent", !.there = TRUE]
    <3>1. companion' = [companion EXCEPT !.reads = [companion.reads EXCEPT ![i] = r]]
      BY <1>2, <1>3, <2>2 DEF Companions, ReadsInFlight
    <3>2. /\ r \in ReadsInFlight
          /\ r.session = companion.reads[i].session
          /\ r.instance = companion.reads[i].instance
          /\ companion.reads[i].there => r.there
          /\ \/ r.answer = "absent"
             \/ r.answer = "not absent" /\ (file \/ r.there)
      BY <1>3 DEF ReadsInFlight
    <3> HIDE DEF r
    <3>3. QED
      BY <3>1, <3>2
  <2>3. QED
    BY <1>1, <2>1, <2>2
<1> DEFINE reads == [companion.reads EXCEPT ![i] = r]
<1>5. reads \in Seq(ReadsInFlight) /\ DOMAIN reads = DOMAIN companion.reads
      /\ \A j \in DOMAIN companion.reads : reads[j] = IF j = i THEN r ELSE companion.reads[j]
  <2>1. i \in 1 .. Len(companion.reads) /\ r \in ReadsInFlight
    <3>1. i \in DOMAIN companion.reads
      BY <1>1
    <3>2. DOMAIN companion.reads = 1 .. Len(companion.reads)
      BY <1>3
    <3>3. QED
      BY <1>4, <3>1, <3>2
  <2>2. QED
    BY <1>3, <2>1, ExceptSeq
<1> HIDE DEF reads
<1>6. companion' = [companion EXCEPT !.reads = reads]
  BY <1>4 DEF reads
<1>7. companion' \in Companions(Sessions) /\ companion'.reads = reads
  BY <1>2, <1>5, <1>6 DEF Companions
<1>8. /\ KeepsSession(companion, companion') /\ KeepsMirror(companion, companion')
      /\ KeepsRoom(companion, companion') /\ KeepsWords(companion, companion')
  BY <1>2, <1>6 DEF Companions, KeepsSession, KeepsMirror, KeepsRoom, KeepsWords
<1>9. QED
  BY <1>1, <1>2, <1>4, <1>5, <1>7, <1>8, ZenonT(30)

(* One read out of those in flight.                                        *)
Without(r, i) == SubSeq(r, 1, i - 1) \o SubSeq(r, i + 1, Len(r))

LEMMA ReadTaken ==
    ASSUME NEW r \in Seq(ReadsInFlight), NEW i \in DOMAIN r
    PROVE  /\ Without(r, i) \in Seq(ReadsInFlight)
           /\ \A j \in DOMAIN Without(r, i) : \E k \in DOMAIN r : Without(r, i)[j] = r[k]
<1> DEFINE left == Without(r, i)
           a == SubSeq(r, 1, i - 1)
           b == SubSeq(r, i + 1, Len(r))
<1>1. Len(r) \in Nat /\ DOMAIN r = 1 .. Len(r) /\ i \in 1 .. Len(r)
  BY LenProperties
<1>2. /\ a \in Seq(ReadsInFlight) /\ Len(a) = i - 1
      /\ \A j \in 1 .. i - 1 : a[j] = r[j]
  BY <1>1, SubSeqProperties
<1>3. /\ b \in Seq(ReadsInFlight) /\ Len(b) = Len(r) - i
      /\ \A j \in 1 .. Len(r) - i : b[j] = r[i + j]
  BY <1>1, SubSeqProperties
<1>4. left = a \o b
  BY DEF Without
<1> HIDE DEF a, b, left
<1>8. a \in Seq(ReadsInFlight) /\ b \in Seq(ReadsInFlight) /\ left = a \o b
  BY <1>2, <1>3, <1>4
<1>5. /\ left \in Seq(ReadsInFlight) /\ Len(left) = Len(a) + Len(b)
      /\ \A j \in 1 .. Len(a) + Len(b) : left[j] = IF j <= Len(a) THEN a[j] ELSE b[j - Len(a)]
  BY <1>8, ConcatProperties
<1>6. ASSUME NEW j \in DOMAIN left PROVE \E k \in DOMAIN r : left[j] = r[k]
  <2>1. Len(left) = Len(r) - 1 /\ j \in 1 .. Len(left)
    BY <1>1, <1>2, <1>3, <1>5, <1>6
  <2>2. CASE j <= i - 1
    <3>1. j \in 1 .. i - 1 /\ j \in DOMAIN r
      BY <1>1, <2>1, <2>2
    <3>2. left[j] = r[j]
      BY <1>1, <1>2, <1>3, <1>5, <2>1, <2>2, <3>1
    <3>3. QED
      BY <3>1, <3>2
  <2>3. CASE ~(j <= i - 1)
    <3>1. j - (i - 1) \in 1 .. Len(r) - i /\ j + 1 \in DOMAIN r
      <4>1. /\ Len(r) \in Nat /\ i \in Nat /\ 1 <= i /\ i <= Len(r)
            /\ j \in Nat /\ j <= Len(r) - 1 /\ i - 1 < j
        BY <1>1, <2>1, <2>3
      <4>2. j - (i - 1) \in 1 .. Len(r) - i /\ j + 1 \in 1 .. Len(r)
        BY <4>1
      <4>3. QED
        BY <1>1, <4>2
    <3>2. left[j] = b[j - (i - 1)]
      BY <1>1, <1>2, <1>3, <1>5, <2>1, <2>3
    <3>3. i + (j - (i - 1)) = j + 1
      BY <1>1, <2>1
    <3>4. QED
      BY <1>3, <3>1, <3>2, <3>3
  <2>4. QED
    BY <2>2, <2>3
<1>7. QED
  BY <1>5, <1>6 DEF left

LEMMA JudgesDoes ==
    ASSUME Base, Judges
    PROVE  /\ UNCHANGED <<front, file, toCompanion, spent, scenario>>
           /\ companion' \in Companions(Sessions)
           /\ KeepsSession(companion, companion') /\ KeepsMirror(companion, companion')
           /\ KeepsRoom(companion, companion')
           /\ \A j \in DOMAIN companion'.reads :
                 \E k \in DOMAIN companion.reads : companion'.reads[j] = companion.reads[k]
           /\ \/ KeepsWords(companion, companion')
              \/ /\ companion.document # NoDocument
                 /\ \E k \in DOMAIN companion.reads :
                       /\ companion.reads[k].answer = "not absent"
                       /\ Asked(companion, companion', TRUE, companion.reads[k].there)
<1>1. PICK i \in DOMAIN companion.reads :
         companion' = Judged([companion EXCEPT !.reads =
                                SubSeq(@, 1, i - 1) \o SubSeq(@, i + 1, Len(@))],
                             companion.reads[i])
  BY DEF Judges
<1>2. /\ UNCHANGED <<front, file, toCompanion, spent, scenario>>
      /\ companion \in Companions(Sessions)
      /\ companion.reads \in Seq(ReadsInFlight)
  BY BaseFacts DEF Judges
<1> DEFINE left == Without(companion.reads, i)
           e == [companion EXCEPT !.reads = left]
<1>3. companion' = Judged(e, companion.reads[i])
  BY <1>1, <1>2 DEF Companions, Without
<1>4. i \in DOMAIN companion.reads
  BY <1>1
<1>5. /\ left \in Seq(ReadsInFlight)
      /\ \A j \in DOMAIN left : \E k \in DOMAIN companion.reads : left[j] = companion.reads[k]
  BY <1>2, <1>4, ReadTaken
<1>6. companion.reads[i] \in ReadsInFlight
  BY <1>2, <1>4
<1> HIDE DEF left
<1>7. e \in Companions(Sessions)
  BY <1>2, <1>5 DEF Companions
<1>8. /\ KeepsSession(companion, e) /\ KeepsMirror(companion, e) /\ KeepsRoom(companion, e)
      /\ KeepsWords(companion, e) /\ e.reads = left
  BY <1>2 DEF Companions, KeepsSession, KeepsMirror, KeepsRoom, KeepsWords
<1> HIDE DEF e
<1> DEFINE r == companion.reads[i]
<1>12. r \in ReadsInFlight /\ companion' = Judged(e, r)
  BY <1>3, <1>6
<1> HIDE DEF r
<1>13. /\ companion' \in Companions(Sessions)
       /\ KeepsSession(e, companion') /\ KeepsMirror(e, companion')
       /\ KeepsRoom(e, companion') /\ KeepsReads(e, companion')
       /\ \/ companion' = e
          \/ /\ e.document # NoDocument
             /\ r.answer = "not absent"
             /\ Asked(e, companion', TRUE, r.there)
  BY <1>7, <1>12, JudgedDoes
<1>9. /\ companion' \in Companions(Sessions)
      /\ KeepsSession(e, companion') /\ KeepsMirror(e, companion')
      /\ KeepsRoom(e, companion') /\ KeepsReads(e, companion')
      /\ \/ companion' = e
         \/ /\ e.document # NoDocument
            /\ companion.reads[i].answer = "not absent"
            /\ Asked(e, companion', TRUE, companion.reads[i].there)
  BY <1>13 DEF r
<1>10. \/ KeepsWords(companion, companion')
       \/ /\ companion.document # NoDocument
          /\ \E k \in DOMAIN companion.reads :
                /\ companion.reads[k].answer = "not absent"
                /\ Asked(companion, companion', TRUE, companion.reads[k].there)
  <2>1. CASE companion' = e
    BY <1>8, <2>1
  <2>2. CASE companion' # e
    <3>1. Asked(companion, companion', TRUE, companion.reads[i].there)
      BY <1>8, <1>9, <2>2 DEF Asked, KeepsWords, KeepsMirror
    <3>2. QED
      BY <1>4, <1>8, <1>9, <2>2, <3>1 DEF KeepsMirror
  <2>3. QED
    BY <2>1, <2>2
<1>11. QED
  BY <1>2, <1>5, <1>8, <1>9, <1>10, ZenonT(60)
     DEF KeepsSession, KeepsMirror, KeepsRoom, KeepsReads

(* What a step of the companion leaves of the clauses of Bounded when a    *)
(* write is asked for.                                                     *)
LEMMA AskedBounded ==
    ASSUME Base, companion.document # NoDocument, NEW d, NEW guarded, NEW there,
           Asked(companion, d, guarded, there), d.instances = companion.instances,
           d \in Companions(Sessions), guarded \in BOOLEAN, there \in BOOLEAN
    PROVE  /\ \A id \in DOMAIN d.saves : id <= d.nextId /\ d.saves[id] <= d.instances
           /\ companion.nextId + 1 \notin DOMAIN companion.saves
           /\ d.saves[companion.nextId + 1] = companion.document.instance
           /\ Agreed(front.standing, toCompanion, companion.session, companion.started,
                     d.sent, spent.sessions)
<1>1. /\ companion.nextId \in Nat /\ companion.saves \in Assignments
      /\ companion.document \in Documents
      /\ companion.document.instance <= companion.instances
      /\ \A id \in DOMAIN companion.saves :
            id <= companion.nextId /\ companion.saves[id] <= companion.instances
  BY BaseFacts, DocumentIs
<1>2. DOMAIN companion.saves \subseteq Nat
  BY <1>1 DEF Assignments
<1>3. /\ companion.nextId + 1 \notin DOMAIN companion.saves
      /\ d.saves[companion.nextId + 1] = companion.document.instance
  BY <1>1, <1>2 DEF Asked
<1>4. \A id \in DOMAIN d.saves : id <= d.nextId /\ d.saves[id] <= d.instances
  BY <1>1, <1>2, <1>3 DEF Asked
<1> DEFINE w == [type |-> "save", id |-> companion.nextId + 1,
                 of |-> companion.document.of, guarded |-> guarded, there |-> there]
<1>5. w \in Words /\ w.type # "status"
  <2>1. companion.document.of \in Nat \ {0} /\ companion.nextId + 1 \in Nat
    BY <1>1 DEF Documents
  <2>2. QED
    BY <2>1 DEF Words
<1>6. d.sent = Append(companion.sent, w)
  BY DEF Asked
<1> HIDE DEF w
<1>7. Agreed(front.standing, toCompanion, companion.session, companion.started,
             Append(companion.sent, w), spent.sessions)
  BY <1>5, BaseFacts, AgreedSay
<1>8. QED
  BY <1>3, <1>4, <1>6, <1>7

LEMMA BaseTextArrives == ASSUME Base, TextArrives PROVE Base'
<1>1. /\ UNCHANGED <<front, file, toCompanion, spent, scenario>>
      /\ companion.session # 0
      /\ companion' \in Companions(Sessions)
      /\ KeepsSession(companion, companion') /\ KeepsWords(companion, companion')
      /\ \/ Arrived(companion, companion')
         \/ KeepsMirror(companion, companion')
  BY TextArrivesDoes
<1>2. \A id \in DOMAIN companion.saves : companion.saves[id] \in Nat
  <2>1. companion.saves \in Assignments
    BY BaseFacts
  <2>2. QED
    BY <2>1 DEF Assignments
<1>3. companion.instances <= companion'.instances
      /\ (companion'.document # NoDocument
            => companion'.document.instance <= companion'.instances)
  <2>1. /\ companion.instances \in Nat
        /\ companion.document # NoDocument =>
              companion.document.instance <= companion.instances
    BY BaseFacts
  <2>2. CASE Arrived(companion, companion')
    <3>1. /\ companion'.instances = companion.instances + 1
          /\ companion'.document.instance = companion'.instances
      BY <2>2 DEF Arrived
    <3>2. QED
      BY <2>1, <3>1
  <2>3. CASE KeepsMirror(companion, companion')
    BY <2>1, <2>3 DEF KeepsMirror
  <2>4. QED
    BY <1>1, <2>2, <2>3
<1>4. \A id \in DOMAIN companion'.saves :
         id <= companion'.nextId /\ companion'.saves[id] <= companion'.instances
  BY <1>1, <1>2, <1>3, BaseFacts DEF KeepsWords, Companions
<1>5. companion'.unarrived # NoDocument => companion.unarrived # NoDocument
  BY <1>1 DEF Arrived, KeepsMirror
<1>6. QED
  BY <1>1, <1>3, <1>4, <1>5, BaseFacts, BaseMoves DEF KeepsSession, KeepsWords

LEMMA BaseSessionHolds == ASSUME Base, SessionHolds PROVE Base'
<1>1. /\ UNCHANGED <<front, file, toCompanion, spent, scenario>>
      /\ companion' \in Companions(Sessions)
      /\ KeepsSession(companion, companion') /\ KeepsWords(companion, companion')
      /\ \/ Arrived(companion, companion')
         \/ KeepsMirror(companion, companion') /\ companion'.bridge = companion.bridge
  BY SessionHoldsDoes
<1>2. \A id \in DOMAIN companion.saves : companion.saves[id] \in Nat
  <2>1. companion.saves \in Assignments
    BY BaseFacts
  <2>2. QED
    BY <2>1 DEF Assignments
<1>3. companion.instances <= companion'.instances
      /\ (companion'.document # NoDocument
            => companion'.document.instance <= companion'.instances)
  <2>1. /\ companion.instances \in Nat
        /\ companion.document # NoDocument =>
              companion.document.instance <= companion.instances
    BY BaseFacts
  <2>2. CASE Arrived(companion, companion')
    <3>1. /\ companion'.instances = companion.instances + 1
          /\ companion'.document.instance = companion'.instances
      BY <2>2 DEF Arrived
    <3>2. QED
      BY <2>1, <3>1
  <2>3. CASE KeepsMirror(companion, companion')
    BY <2>1, <2>3 DEF KeepsMirror
  <2>4. QED
    BY <1>1, <2>2, <2>3
<1>4. \A id \in DOMAIN companion'.saves :
         id <= companion'.nextId /\ companion'.saves[id] <= companion'.instances
  BY <1>1, <1>2, <1>3, BaseFacts DEF KeepsWords, Companions
<1>5. /\ companion'.unarrived # NoDocument => companion.unarrived # NoDocument
      /\ companion'.bridge # "none" => companion.session # 0
  BY <1>1, BaseFacts DEF Arrived, KeepsMirror
<1>6. QED
  BY <1>1, <1>3, <1>4, <1>5, BaseFacts, BaseMoves DEF KeepsSession, KeepsWords

LEMMA BaseBridgeHolds == ASSUME Base, BridgeHolds PROVE Base'
<1>1. /\ UNCHANGED <<front, file, toCompanion, spent, scenario>>
      /\ companion' \in Companions(Sessions)
      /\ KeepsSession(companion, companion') /\ KeepsWords(companion, companion')
      /\ KeepsMirror(companion, companion')
      /\ \E s \in Sessions : HoldAnswered(s, companion, companion')
  BY BridgeHoldsDoes
<1>2. companion'.bridge # "none" => companion.bridge # "none"
  BY <1>1 DEF HoldAnswered
<1>3. QED
  BY <1>1, <1>2, BaseFacts, BaseMoves DEF KeepsSession, KeepsWords, KeepsMirror

LEMMA BaseHoldRefused == ASSUME Base, HoldRefused PROVE Base'
<1> DEFINE w == [type |-> "refusal"]
<1>1. /\ UNCHANGED <<front, file, toCompanion, scenario>> /\ Spend("refusals")
      /\ companion' \in Companions(Sessions)
      /\ KeepsSession(companion, companion')
      /\ companion'.nextId = companion.nextId /\ companion'.saves = companion.saves
      /\ companion'.document = companion.document
      /\ companion'.instances = companion.instances
      /\ companion'.bridge \in {"none", companion.bridge}
      /\ \/ companion'.sent = companion.sent /\ companion'.unarrived = companion.unarrived
         \/ companion'.sent = Append(companion.sent, w)
            /\ companion'.unarrived \in {NoDocument, companion.unarrived}
  BY HoldRefusedDoes
<1>2. w \in Words /\ w.type # "status" /\ "refusals" \in Budgets \ {"sessions"}
  BY SaidTyped DEF Budgets
<1> HIDE DEF w
<1>3. Agreed(front.standing, toCompanion, companion.session, companion.started,
             Append(companion.sent, w), spent.sessions)
  BY <1>2, BaseFacts, AgreedSay
<1>4. Agreed(front.standing, toCompanion, companion.session, companion.started,
             companion'.sent, spent.sessions)
  BY <1>1, <1>3, BaseFacts
<1>5. QED
  BY <1>1, <1>2, <1>4, BaseFacts, BaseMoves DEF KeepsSession

LEMMA BaseSaveFalls == ASSUME Base, SaveFalls PROVE Base'
<1>1. /\ UNCHANGED <<front, file, toCompanion, scenario>> /\ Spend("saves")
      /\ companion.session # 0 /\ companion.document # NoDocument
      /\ companion' \in Companions(Sessions)
      /\ KeepsSession(companion, companion') /\ KeepsMirror(companion, companion')
      /\ KeepsRoom(companion, companion')
      /\ \/ KeepsWords(companion, companion')
         \/ Asked(companion, companion', FALSE, file)
  BY SaveFallsDoes
<1>2. "saves" \in Budgets \ {"sessions"} /\ file \in BOOLEAN
  BY BaseFacts DEF Budgets
<1>3. /\ \A id \in DOMAIN companion'.saves :
            id <= companion'.nextId /\ companion'.saves[id] <= companion'.instances
      /\ Agreed(front.standing, toCompanion, companion.session, companion.started,
                companion'.sent, spent.sessions)
  <2>1. CASE KeepsWords(companion, companion')
    BY <1>1, <2>1, BaseFacts DEF KeepsWords, KeepsMirror
  <2>2. CASE Asked(companion, companion', FALSE, file)
    BY <1>1, <1>2, <2>2, AskedBounded DEF KeepsMirror
  <2>3. QED
    BY <1>1, <2>1, <2>2
<1>4. QED
  BY <1>1, <1>2, <1>3, BaseFacts, BaseMoves DEF KeepsSession, KeepsMirror, KeepsRoom

LEMMA BaseReads == ASSUME Base, Reads PROVE Base'
<1>1. /\ UNCHANGED <<front, file, toCompanion, scenario>>
      /\ spent' = spent \/ Spend("faults")
      /\ companion' \in Companions(Sessions)
      /\ KeepsSession(companion, companion') /\ KeepsMirror(companion, companion')
      /\ KeepsRoom(companion, companion') /\ KeepsWords(companion, companion')
  BY ReadsDoes
<1>2. "faults" \in Budgets \ {"sessions"}
  BY DEF Budgets
<1>3. QED
  BY <1>1, <1>2, BaseFacts, BaseMoves DEF KeepsSession, KeepsMirror, KeepsRoom, KeepsWords

LEMMA BaseJudges == ASSUME Base, Judges PROVE Base'
<1>1. /\ UNCHANGED <<front, file, toCompanion, spent, scenario>>
      /\ companion' \in Companions(Sessions)
      /\ KeepsSession(companion, companion') /\ KeepsMirror(companion, companion')
      /\ KeepsRoom(companion, companion')
      /\ \/ KeepsWords(companion, companion')
         \/ /\ companion.document # NoDocument
            /\ \E k \in DOMAIN companion.reads :
                  Asked(companion, companion', TRUE, companion.reads[k].there)
  BY JudgesDoes
<1>2. /\ \A id \in DOMAIN companion'.saves :
            id <= companion'.nextId /\ companion'.saves[id] <= companion'.instances
      /\ Agreed(front.standing, toCompanion, companion.session, companion.started,
                companion'.sent, spent.sessions)
  <2>1. CASE KeepsWords(companion, companion')
    BY <1>1, <2>1, BaseFacts DEF KeepsWords, KeepsMirror
  <2>2. CASE ~KeepsWords(companion, companion')
    <3>1. PICK k \in DOMAIN companion.reads :
             Asked(companion, companion', TRUE, companion.reads[k].there)
      BY <1>1, <2>2
    <3>2. companion.reads[k].there \in BOOLEAN
      <4>1. companion.reads \in Seq(ReadsInFlight) /\ k \in DOMAIN companion.reads
        BY <3>1, BaseFacts
      <4>2. companion.reads[k] \in ReadsInFlight
        BY <4>1
      <4>3. QED
        BY <4>2 DEF ReadsInFlight
    <3>3. QED
      BY <1>1, <2>2, <3>1, <3>2, AskedBounded DEF KeepsMirror
  <2>3. QED
    BY <2>1, <2>2
<1>3. QED
  BY <1>1, <1>2, BaseFacts, BaseMoves DEF KeepsSession, KeepsMirror, KeepsRoom

LEMMA BaseInit == Init => Base
<1> SUFFICES ASSUME Init PROVE Base
  OBVIOUS
<1>1. /\ scenario \in Scenarios /\ file \in BOOLEAN
      /\ front = [standing |-> "idle", doc |-> 0, edits |-> 0, kept |-> FALSE]
      /\ toCompanion = <<>> /\ spent = [what \in Budgets |-> 0]
  BY DEF Init
<1>2. companion =
          [session |-> 0, started |-> 0, role |-> "host",
           document |-> NoDocument, unarrived |-> NoDocument,
           instances |-> 0, saves |-> <<>>, nextId |-> 0, late |-> FALSE,
           bridge |-> "none", held |-> FALSE,
           engines |-> [s \in Sessions |-> [has |-> FALSE, holds |-> FALSE,
                                         refused |-> FALSE]],
           opens |-> [s \in Sessions |-> [asker \in Askers |-> 0]],
           reads |-> <<>>, sent |-> <<>>]
  BY DEF Init
<1> DEFINE engines == [s \in Sessions |-> [has |-> FALSE, holds |-> FALSE,
                                         refused |-> FALSE]]
           opens == [s \in Sessions |-> [asker \in Askers |-> 0]]
           none == <<>>
<1>3. /\ engines \in [Sessions -> [has : BOOLEAN, holds : BOOLEAN, refused : BOOLEAN]]
      /\ opens \in [Sessions -> [Askers -> Nat]]
      /\ none \in Seq(ReadsInFlight) /\ none \in Seq(Words) /\ none \in Seq(Messages)
      /\ DOMAIN none = {}
  OBVIOUS
<1>4. none \in Assignments
  <2>1. none \in [{} -> Nat \ {0}] /\ {} \in SUBSET Nat
    OBVIOUS
  <2>2. QED
    BY <2>1 DEF Assignments
<1>5. companion = [session |-> 0, started |-> 0, role |-> "host",
           document |-> NoDocument, unarrived |-> NoDocument,
           instances |-> 0, saves |-> none, nextId |-> 0, late |-> FALSE,
           bridge |-> "none", held |-> FALSE, engines |-> engines, opens |-> opens,
           reads |-> none, sent |-> none]
  BY <1>2
<1>6. toCompanion = none /\ none = <<>>
  BY <1>1
<1> HIDE DEF engines, opens, none
<1>7. companion \in Companions(Sessions)
  BY <1>3, <1>4, <1>5 DEF Companions, Roles
<1>8. front \in Fronts /\ spent \in [Budgets -> Nat] /\ toCompanion \in Seq(Messages)
  BY <1>1, <1>3, <1>6 DEF Fronts
<1>9. Typed
  BY <1>1, <1>7, <1>8 DEF Typed
<1>10. Bounded
  <2>1. Limits \in [Budgets -> Nat] /\ \A what \in Budgets : spent[what] = 0
    BY <1>1, <1>9, LimitsTyped
  <2>2. \A what \in Budgets : spent[what] <= Limits[what]
    BY <2>1
  <2>3. QED
    BY <1>1, <1>3, <1>5, <2>2 DEF Bounded, Budgets
<1>11. Agreement
  <2>1. Len(toCompanion) = 0 /\ Len(companion.sent) = 0
    BY <1>5, <1>6
  <2>2. /\ front.standing = "idle" /\ companion.session = 0 /\ companion.started = 0
        /\ spent.sessions = 0
    BY <1>1, <1>5 DEF Budgets
  <2>3. QED
    BY <2>1, <2>2 DEF Agreement, Agreed, Ordered, Announced, Sent, SaysLive, SaysIdle
<1>12. QED
  BY <1>9, <1>10, <1>11 DEF Base

LEMMA BaseStep == ASSUME Base, [Next]_vars PROVE Base'
<1>1. CASE UNCHANGED vars
  BY <1>1, SessionsStay DEF vars, Base, Typed, Bounded, Agreement, Limits, Sessions
<1>2. CASE Next
  BY <1>2, BaseStarts, BaseLeaves, BaseShares, BaseCloses, BaseTypes, BaseWrites,
     BaseSavesIt, BaseSavesNothing, BaseHearsStatus, BaseHearsRefusal, BaseMovesFile,
     BaseTakes, BaseRoomEnds, BaseTextArrives, BaseSessionHolds, BaseBridgeHolds,
     BaseHoldRefused, BaseSaveFalls, BaseReads, BaseJudges DEF Next
<1>3. QED
  BY <1>1, <1>2

LEMMA BaseHolds == Spec => []Base
BY BaseInit, BaseStep, PTL DEF Spec

(***************************************************************************)
(* What every action does to the parts the invariants speak of.            *)
(***************************************************************************)
LEMMA StartsDoes ==
    ASSUME Base, Starts
    PROVE  /\ UNCHANGED <<file, companion, scenario>> /\ Spend("sessions")
           /\ front.standing = "idle" /\ front.doc = 0
           /\ front'.standing = "asked" /\ front'.doc = 0
           /\ \E m \in Messages : m.type = "start" /\ toCompanion' = Append(toCompanion, m)
<1>1. PICK role \in scenario.roles : Send([type |-> "start", role |-> role])
  BY DEF Starts
<1>2. /\ front.standing = "idle" /\ front' = [front EXCEPT !.standing = "asked"]
      /\ UNCHANGED <<file, companion, scenario>> /\ Spend("sessions")
  BY DEF Starts
<1>3. front.doc = 0 /\ front'.standing = "asked" /\ front'.doc = 0
  BY <1>2, BaseFacts DEF Fronts
<1> DEFINE m == [type |-> "start", role |-> role]
<1>4. m \in Messages /\ m.type = "start" /\ toCompanion' = Append(toCompanion, m)
  BY <1>1, LimitsTyped, SaidTyped DEF Base, Send
<1> HIDE DEF m
<1>5. QED
  BY <1>2, <1>3, <1>4

LEMMA LeavesDoes ==
    ASSUME Base, Leaves
    PROVE  /\ UNCHANGED <<file, companion, spent, scenario>>
           /\ front.standing = "live" /\ front'.standing = "idle" /\ front'.doc = 0
           /\ \E m \in Messages : m.type = "leave" /\ toCompanion' = Append(toCompanion, m)
<1>1. /\ front.standing = "live" /\ front' = [NoBuffer EXCEPT !.standing = "idle"]
      /\ UNCHANGED <<file, companion, spent, scenario>>
      /\ toCompanion' = Append(toCompanion, [type |-> "leave"])
  BY DEF Leaves, Send
<1>2. front'.standing = "idle" /\ front'.doc = 0
  BY <1>1, BaseFacts DEF Fronts, NoBuffer
<1>3. QED
  BY <1>1, <1>2, SaidTyped

LEMMA SharesDoes ==
    ASSUME Base, Shares
    PROVE  /\ UNCHANGED <<file, companion, scenario>> /\ Spend("opens")
           /\ front.standing = "live" /\ front.doc = 0
           /\ front'.standing = "live" /\ front'.doc = spent.opens + 1
           /\ front'.edits = 0 /\ front'.kept = file
           /\ spent'.opens = spent.opens + 1
           /\ \E m \in Messages :
                 /\ m.type = "open" /\ m.of = spent.opens + 1 /\ m.present = file
                 /\ toCompanion' = Append(toCompanion, m)
<1>1. PICK text \in BOOLEAN :
         Send([type |-> "open", of |-> spent.opens + 1, text |-> text, present |-> file])
  BY DEF Shares
<1>2. /\ UNCHANGED <<file, companion, scenario>> /\ Spend("opens")
      /\ front.standing = "live" /\ front.doc = 0
      /\ front' = [front EXCEPT !.doc = spent.opens + 1, !.edits = 0, !.kept = file]
  BY DEF Shares
<1> DEFINE number == spent.opens + 1
           m == [type |-> "open", of |-> number, text |-> text, present |-> file]
<1>3. spent \in [Budgets -> Nat] /\ number \in Nat \ {0}
  BY DEF Base, Typed, Budgets
<1>4. spent'.opens = number
  BY <1>2, SpendDoes DEF Base, Budgets
<1>5. front' = [front EXCEPT !.doc = number, !.edits = 0, !.kept = file]
      /\ toCompanion' = Append(toCompanion, m)
  BY <1>1, <1>2 DEF Send
<1> HIDE DEF number
<1>6. /\ front'.standing = "live" /\ front'.doc = number
      /\ front'.edits = 0 /\ front'.kept = file
  BY <1>2, <1>5, BaseFacts DEF Fronts
<1>7. m \in Messages /\ m.type = "open" /\ m.of = number /\ m.present = file
  BY <1>3, BaseFacts, SaidTyped
<1> HIDE DEF m
<1>8. QED
  BY <1>2, <1>4, <1>5, <1>6, <1>7 DEF number

LEMMA ClosesDoes ==
    ASSUME Base, Closes
    PROVE  /\ UNCHANGED <<file, companion, spent, scenario>>
           /\ front.doc # 0 /\ front.standing = "live"
           /\ front'.standing = "live" /\ front'.doc = 0
           /\ \E m \in Messages : m.type = "close" /\ toCompanion' = Append(toCompanion, m)
<1>1. /\ front.doc # 0 /\ front' = [front EXCEPT !.doc = 0, !.edits = 0, !.kept = FALSE]
      /\ UNCHANGED <<file, companion, spent, scenario>>
      /\ toCompanion' = Append(toCompanion, [type |-> "close"])
  BY DEF Closes, NoBuffer, Send
<1>2. front.standing = "live" /\ front'.standing = "live" /\ front'.doc = 0
  BY <1>1, BaseFacts DEF Fronts
<1>3. QED
  BY <1>1, <1>2, SaidTyped

LEMMA TypesDoes ==
    ASSUME Base, Types
    PROVE  /\ UNCHANGED <<file, companion, scenario>> /\ Spend("edits")
           /\ front.doc # 0
           /\ front'.standing = front.standing /\ front'.doc = front.doc
           /\ front'.edits = front.edits + 1 /\ front'.kept = front.kept
           /\ spent'.opens = spent.opens
           /\ \E m \in Messages : m.type = "change" /\ toCompanion' = Append(toCompanion, m)
<1>1. /\ front.doc # 0 /\ front' = [front EXCEPT !.edits = @ + 1]
      /\ UNCHANGED <<file, companion, scenario>> /\ Spend("edits")
      /\ toCompanion' = Append(toCompanion, [type |-> "change"])
  BY DEF Types, Send
<1>2. spent'.opens = spent.opens
  BY <1>1, SpendDoes DEF Base, Budgets
<1>3. front'.standing = front.standing /\ front'.doc = front.doc
      /\ front'.edits = front.edits + 1 /\ front'.kept = front.kept
  BY <1>1, BaseFacts DEF Fronts
<1>4. QED
  BY <1>1, <1>2, <1>3, SaidTyped

(* A file that is behind the path now, as the reads in flight know it.     *)
Appeared(c, d) ==
    /\ DOMAIN d.reads = DOMAIN c.reads
    /\ \A i \in DOMAIN c.reads : d.reads[i] = [c.reads[i] EXCEPT !.there = TRUE]

(* Nothing but the pipe, the words and the reads.                          *)
KeepsAll(c, d) == KeepsSession(c, d) /\ KeepsMirror(c, d) /\ KeepsRoom(c, d)

(* The first word is off the companion's stdout.                           *)
Hearing(c, d) ==
    /\ c.sent # <<>> /\ Head(c.sent) \in Words
    /\ d.sent = Tail(c.sent) /\ d.nextId = c.nextId /\ d.saves = c.saves

LEMMA AppearedNow ==
    ASSUME Base, companion' = Appears(companion)
    PROVE  /\ KeepsAll(companion, companion') /\ KeepsWords(companion, companion')
           /\ Appeared(companion, companion')
<1>1. companion \in Companions(Sessions)
  BY BaseFacts
<1>2. QED
  BY <1>1, AppearsDoes DEF KeepsAll, Appeared

LEMMA WritesDoes ==
    ASSUME Base, Writes
    PROVE  /\ UNCHANGED scenario /\ Spend("moves")
           /\ front.doc # 0 /\ file' = TRUE /\ spent'.opens = spent.opens
           /\ front'.standing = front.standing /\ front'.doc = front.doc
           /\ front'.edits = front.edits /\ front'.kept
           /\ KeepsAll(companion, companion') /\ KeepsWords(companion, companion')
           /\ Appeared(companion, companion')
           /\ \E m \in Messages : m.type = "wrote" /\ toCompanion' = Append(toCompanion, m)
<1>1. /\ UNCHANGED scenario /\ front.doc # 0 /\ Spend("moves") /\ file' = TRUE
      /\ front' = [front EXCEPT !.kept = TRUE]
      /\ companion' = Appears(companion)
      /\ toCompanion' = Append(toCompanion, [type |-> "wrote"])
  BY DEF Writes, Send
<1>2. /\ front'.standing = front.standing /\ front'.doc = front.doc
      /\ front'.edits = front.edits /\ front'.kept
  BY <1>1, BaseFacts DEF Fronts
<1>3. /\ KeepsAll(companion, companion') /\ KeepsWords(companion, companion')
      /\ Appeared(companion, companion')
  BY <1>1, AppearedNow
<1>4. spent'.opens = spent.opens
  BY <1>1, SpendDoes DEF Base, Budgets
<1>5. QED
  BY <1>1, <1>2, <1>3, <1>4, SaidTyped

LEMMA MovesDoes ==
    ASSUME Base, Moves
    PROVE  /\ UNCHANGED <<front, toCompanion, scenario>> /\ Spend("moves")
           /\ spent'.opens = spent.opens /\ file' = ~file
           /\ KeepsAll(companion, companion') /\ KeepsWords(companion, companion')
           /\ file => companion' = companion
           /\ ~file => Appeared(companion, companion')
<1>1. /\ UNCHANGED <<front, toCompanion, scenario>> /\ Spend("moves") /\ file' = ~file
      /\ companion' = IF file THEN companion ELSE Appears(companion)
  BY DEF Moves
<1>2. /\ KeepsAll(companion, companion') /\ KeepsWords(companion, companion')
      /\ ~file => Appeared(companion, companion')
  <2>1. CASE file
    BY <1>1, <2>1 DEF KeepsAll, KeepsSession, KeepsMirror, KeepsRoom, KeepsWords
  <2>2. CASE ~file
    BY <1>1, <2>2, AppearedNow
  <2>3. QED
    BY <2>1, <2>2
<1>3. spent'.opens = spent.opens
  BY <1>1, SpendDoes DEF Base, Budgets
<1>4. QED
  BY <1>1, <1>2, <1>3

LEMMA SavesItDoes ==
    ASSUME Base, SavesIt
    PROVE  /\ UNCHANGED <<spent, scenario>> /\ file' = TRUE
           /\ Hearing(companion, companion') /\ Head(companion.sent).type = "save"
           /\ front.doc # 0
           /\ front'.standing = front.standing /\ front'.doc = front.doc
           /\ front'.edits = front.edits
           /\ front'.kept = (front.kept \/ Head(companion.sent).of = front.doc)
           /\ KeepsAll(companion, companion') /\ Appeared(companion, companion')
           /\ \E m \in Messages :
                 /\ m.type = "saved" /\ m.id = Head(companion.sent).id /\ m.ok
                 /\ toCompanion' = Append(toCompanion, m)
<1> DEFINE m == [type |-> "saved", id |-> Head(companion.sent).id, ok |-> TRUE]
           c == Heard(companion)
<1>1. /\ companion.sent # <<>> /\ Head(companion.sent).type = "save"
      /\ front.doc # 0
      /\ UNCHANGED <<spent, scenario>> /\ file' = TRUE
      /\ front' = [front EXCEPT !.kept = @ \/ Head(companion.sent).of = front.doc]
      /\ companion' = Appears(c)
      /\ toCompanion' = Append(toCompanion, m)
  BY DEF SavesIt, Hears, Send
<1>2. /\ c \in Companions(Sessions)
      /\ KeepsSession(companion, c) /\ KeepsMirror(companion, c)
      /\ KeepsRoom(companion, c) /\ KeepsReads(companion, c)
      /\ c.sent = Tail(companion.sent) /\ c.nextId = companion.nextId
      /\ c.saves = companion.saves
      /\ Head(companion.sent) \in Words
  BY <1>1, BaseFacts, HeardDoes
<1> HIDE DEF c
<1>3. /\ KeepsSession(c, companion') /\ KeepsMirror(c, companion')
      /\ KeepsRoom(c, companion') /\ KeepsWords(c, companion')
      /\ Appeared(c, companion')
  BY <1>1, <1>2, AppearsDoes DEF Appeared
<1>4. Hearing(companion, companion')
  BY <1>1, <1>2, <1>3 DEF Hearing, KeepsWords
<1>5. KeepsAll(companion, companion') /\ Appeared(companion, companion')
  BY <1>2, <1>3
     DEF KeepsAll, Appeared, KeepsSession, KeepsMirror, KeepsRoom, KeepsReads
<1>6. m \in Messages /\ m.type = "saved" /\ m.id = Head(companion.sent).id /\ m.ok
  BY <1>1, <1>2, SaidTyped DEF Words
<1> HIDE DEF m
<1>7. /\ front'.standing = front.standing /\ front'.doc = front.doc
      /\ front'.edits = front.edits
      /\ front'.kept = (front.kept \/ Head(companion.sent).of = front.doc)
  BY <1>1, BaseFacts DEF Fronts
<1>8. QED
  BY <1>1, <1>4, <1>5, <1>6, <1>7

LEMMA SavesNothingDoes ==
    ASSUME Base, SavesNothing
    PROVE  /\ UNCHANGED <<front, file, scenario>> /\ spent'.opens = spent.opens
           /\ Hearing(companion, companion') /\ Head(companion.sent).type = "save"
           /\ KeepsAll(companion, companion') /\ KeepsReads(companion, companion')
           /\ \E m \in Messages :
                 /\ m.type = "saved" /\ m.id = Head(companion.sent).id /\ ~m.ok
                 /\ toCompanion' = Append(toCompanion, m)
<1> DEFINE m == [type |-> "saved", id |-> Head(companion.sent).id, ok |-> FALSE]
<1>1. /\ companion.sent # <<>> /\ Head(companion.sent).type = "save"
      /\ UNCHANGED <<front, file, scenario>>
      /\ companion' = Heard(companion)
      /\ toCompanion' = Append(toCompanion, m)
      /\ spent' = spent \/ Spend("faults")
  BY DEF SavesNothing, Hears, Send
<1>2. /\ KeepsSession(companion, companion') /\ KeepsMirror(companion, companion')
      /\ KeepsRoom(companion, companion') /\ KeepsReads(companion, companion')
      /\ companion'.sent = Tail(companion.sent) /\ companion'.nextId = companion.nextId
      /\ companion'.saves = companion.saves
      /\ Head(companion.sent) \in Words
  BY <1>1, BaseFacts, HeardDoes
<1>3. m \in Messages /\ m.type = "saved" /\ m.id = Head(companion.sent).id /\ ~m.ok
  BY <1>1, <1>2, SaidTyped DEF Words
<1> HIDE DEF m
<1>4. spent'.opens = spent.opens
  BY <1>1, SpendDoes DEF Base, Budgets
<1>5. QED
  BY <1>1, <1>2, <1>3, <1>4 DEF Hearing, KeepsAll

LEMMA HearsStatusDoes ==
    ASSUME Base, HearsStatus
    PROVE  /\ UNCHANGED <<file, toCompanion, spent, scenario>>
           /\ Hearing(companion, companion') /\ Head(companion.sent).type = "status"
           /\ KeepsAll(companion, companion') /\ KeepsReads(companion, companion')
           /\ \/ /\ Head(companion.sent).live
                 /\ front'.standing = "live" /\ front'.doc = front.doc
                 /\ front'.edits = front.edits /\ front'.kept = front.kept
              \/ /\ ~Head(companion.sent).live
                 /\ front'.standing # "live" /\ front'.doc = 0
                 /\ front.standing # "live" => front'.standing = front.standing
<1>1. /\ companion.sent # <<>> /\ Head(companion.sent).type = "status"
      /\ UNCHANGED <<file, toCompanion, spent, scenario>>
      /\ companion' = Heard(companion)
      /\ front' = IF Head(companion.sent).live
                  THEN [front EXCEPT !.standing = "live"]
                  ELSE [NoBuffer EXCEPT !.standing = IF @ = "live" THEN "idle" ELSE @]
  BY DEF HearsStatus, Hears
<1>2. /\ KeepsSession(companion, companion') /\ KeepsMirror(companion, companion')
      /\ KeepsRoom(companion, companion') /\ KeepsReads(companion, companion')
      /\ companion'.sent = Tail(companion.sent) /\ companion'.nextId = companion.nextId
      /\ companion'.saves = companion.saves
      /\ Head(companion.sent) \in Words
  BY <1>1, BaseFacts, HeardDoes
<1>3. \/ /\ Head(companion.sent).live
         /\ front'.standing = "live" /\ front'.doc = front.doc
         /\ front'.edits = front.edits /\ front'.kept = front.kept
      \/ /\ ~Head(companion.sent).live
         /\ front'.standing # "live" /\ front'.doc = 0
         /\ front.standing # "live" => front'.standing = front.standing
  <2>1. CASE Head(companion.sent).live
    BY <1>1, <2>1, BaseFacts DEF Fronts
  <2>2. CASE ~Head(companion.sent).live
    <3> DEFINE standing1 == IF front.standing = "live" THEN "idle" ELSE front.standing
    <3>1. NoBuffer \in Fronts /\ NoBuffer.standing = front.standing /\ NoBuffer.doc = 0
      BY BaseFacts DEF NoBuffer, Fronts
    <3>2. front' = [NoBuffer EXCEPT !.standing = standing1]
      BY <1>1, <2>2, <3>1 DEF Fronts
    <3>3. standing1 # "live" /\ (front.standing # "live" => standing1 = front.standing)
      OBVIOUS
    <3> HIDE DEF standing1
    <3>4. front'.standing = standing1 /\ front'.doc = 0
      BY <3>1, <3>2 DEF Fronts
    <3>5. QED
      BY <2>2, <3>3, <3>4
  <2>3. QED
    BY <2>1, <2>2
<1>4. QED
  BY <1>1, <1>2, <1>3 DEF Hearing, KeepsAll

LEMMA HearsRefusalDoes ==
    ASSUME Base, HearsRefusal
    PROVE  /\ UNCHANGED <<file, spent, scenario>>
           /\ Hearing(companion, companion') /\ Head(companion.sent).type = "refusal"
           /\ KeepsAll(companion, companion') /\ KeepsReads(companion, companion')
           /\ front'.standing = front.standing /\ front'.doc = 0
           /\ \/ /\ front.doc # 0
                 /\ \E m \in Messages : m.type = "close"
                                        /\ toCompanion' = Append(toCompanion, m)
              \/ front.doc = 0 /\ toCompanion' = toCompanion
<1>1. /\ companion.sent # <<>> /\ Head(companion.sent).type = "refusal"
      /\ UNCHANGED <<file, spent, scenario>>
      /\ companion' = Heard(companion)
      /\ front' = [front EXCEPT !.doc = 0, !.edits = 0, !.kept = FALSE]
      /\ \/ front.doc # 0 /\ toCompanion' = Append(toCompanion, [type |-> "close"])
         \/ front.doc = 0 /\ toCompanion' = toCompanion
  BY DEF HearsRefusal, Hears, Send, NoBuffer
<1>2. /\ KeepsSession(companion, companion') /\ KeepsMirror(companion, companion')
      /\ KeepsRoom(companion, companion') /\ KeepsReads(companion, companion')
      /\ companion'.sent = Tail(companion.sent) /\ companion'.nextId = companion.nextId
      /\ companion'.saves = companion.saves
      /\ Head(companion.sent) \in Words
  BY <1>1, BaseFacts, HeardDoes
<1>3. front'.standing = front.standing /\ front'.doc = 0
  BY <1>1, BaseFacts DEF Fronts
<1>4. QED
  BY <1>1, <1>2, <1>3, SaidTyped DEF Hearing, KeepsAll

LEMMA TakesStartDoes ==
    ASSUME Base, Takes, NEW m, m = Head(toCompanion), m.type = "start"
    PROVE  /\ UNCHANGED <<front, file, spent, scenario>>
           /\ toCompanion # <<>> /\ toCompanion' = Tail(toCompanion)
           /\ companion.session = 0 /\ front.standing = "asked"
           /\ companion'.session = companion'.started
           /\ companion'.started = companion.started + 1
           /\ KeepsMirror(companion, companion') /\ KeepsRoom(companion, companion')
           /\ KeepsReads(companion, companion')
           /\ companion'.saves = companion.saves /\ companion'.nextId = companion.nextId
           /\ companion'.sent = Append(companion.sent, [type |-> "status", live |-> TRUE])
<1>1. /\ toCompanion # <<>> /\ toCompanion' = Tail(toCompanion)
      /\ UNCHANGED <<front, file, spent, scenario>>
      /\ m.role \in Roles /\ companion' = Connect(companion, m.role)
  BY TakesDoes
<1>2. companion.session = 0
  <2>1. /\ companion.session \in Nat /\ companion.started \in Nat /\ spent.sessions \in Nat
        /\ toCompanion \in Seq(Messages) /\ companion.sent \in Seq(Words)
        /\ Agreed(front.standing, toCompanion, companion.session, companion.started,
                  companion.sent, spent.sessions)
    BY BaseFacts
  <2>2. toCompanion # <<>> /\ Head(toCompanion).type = "start"
    BY <1>1
  <2>3. QED
    BY <2>1, <2>2, AgreedStartWaited
<1>3. front.standing = "asked"
  <2>1. toCompanion \in Seq(Messages) /\ toCompanion # <<>> /\ Head(toCompanion).type = "start"
    BY <1>1, BaseFacts
  <2>2. Sent(toCompanion, {"start"})
    <3>1. 1 \in 1 .. Len(toCompanion) /\ toCompanion[1].type = "start"
      BY <2>1
    <3>2. QED
      BY <3>1 DEF Sent
  <2>3. QED
    BY <2>2, BaseFacts DEF Agreed
<1>4. /\ companion'.session = companion.started + 1
      /\ companion'.started = companion.started + 1
      /\ KeepsMirror(companion, companion') /\ KeepsRoom(companion, companion')
      /\ KeepsReads(companion, companion')
      /\ companion'.saves = companion.saves /\ companion'.nextId = companion.nextId
      /\ companion'.sent = Append(companion.sent, [type |-> "status", live |-> TRUE])
  BY <1>1, <1>2, BaseFacts, ConnectDoes, SMTT(30)
<1>5. QED
  BY <1>1, <1>2, <1>3, <1>4

LEMMA TakesLeaveDoes ==
    ASSUME Base, Takes, NEW m, m = Head(toCompanion), m.type = "leave"
    PROVE  /\ UNCHANGED <<front, file, spent, scenario>>
           /\ toCompanion # <<>> /\ toCompanion' = Tail(toCompanion)
           /\ companion' = Leave(companion)
           /\ front.standing # "live"
<1>1. /\ toCompanion # <<>> /\ toCompanion' = Tail(toCompanion)
      /\ UNCHANGED <<front, file, spent, scenario>>
      /\ companion' = Leave(companion)
  BY TakesDoes
<1>2. toCompanion \in Seq(Messages) /\ toCompanion # <<>> /\ Head(toCompanion).type = "leave"
  BY <1>1, BaseFacts
<1>3. Sent(toCompanion, {"leave"})
  <2>1. 1 \in 1 .. Len(toCompanion) /\ toCompanion[1].type = "leave"
    BY <1>2
  <2>2. QED
    BY <2>1 DEF Sent
<1>4. QED
  BY <1>1, <1>3, BaseFacts DEF Agreed

LEMMA TakesOpenDoes ==
    ASSUME Base, Takes, NEW m, m = Head(toCompanion), m.type = "open"
    PROVE  /\ UNCHANGED <<front, file, spent, scenario>>
           /\ toCompanion # <<>> /\ toCompanion' = Tail(toCompanion)
           /\ m.of \in Nat \ {0} /\ m.text \in BOOLEAN /\ m.present \in BOOLEAN
           /\ KeepsSession(companion, companion') /\ KeepsWords(companion, companion')
           /\ KeepsReads(companion, companion')
           /\ \/ /\ companion.session # 0 /\ companion.role # "host" /\ ~Has(companion)
                 /\ companion'.unarrived = [of |-> m.of, text |-> TRUE,
                                            present |-> m.present, changes |-> 0]
                 /\ companion'.document = companion.document
                 /\ companion'.instances = companion.instances
                 /\ companion'.late = companion.late
                 /\ companion'.bridge = companion.bridge /\ companion'.held = companion.held
                 /\ \A s \in Sessions : companion'.engines[s].has = companion.engines[s].has
                 /\ \A s \in Sessions \ {companion.session} :
                       companion'.engines[s] = companion.engines[s]
                 /\ \A s \in Sessions, a \in Askers :
                       companion'.opens[s][a] >= companion.opens[s][a]
              \/ /\ companion'.unarrived = companion.unarrived
                 /\ companion'.instances = companion.instances + 1
                 /\ companion'.document = MirrorOf(m, 0, companion'.instances)
                 /\ \/ /\ companion.session = 0 /\ companion'.late
                       /\ KeepsRoom(companion, companion')
                    \/ /\ companion.session # 0 /\ companion'.late = companion.late
                       /\ Placed(Sessions, companion, companion')
                       /\ companion.role = "guest" /\ companion'.bridge = "open" /\ m.text
                            => Has(companion)
<1>1. /\ toCompanion # <<>> /\ toCompanion' = Tail(toCompanion)
      /\ UNCHANGED <<front, file, spent, scenario>>
      /\ m.of \in Nat \ {0} /\ m.text \in BOOLEAN /\ m.present \in BOOLEAN
      /\ companion' = Open(companion, m)
  BY TakesDoes
<1>2. companion \in Companions(Sessions) /\ companion.session \in Sessions \cup {0}
  BY BaseFacts
<1>3. QED
  BY <1>1, <1>2, OpenDoes

LEMMA TakesCloseDoes ==
    ASSUME Base, Takes, NEW m, m = Head(toCompanion), m.type = "close"
    PROVE  /\ UNCHANGED <<front, file, spent, scenario>>
           /\ toCompanion # <<>> /\ toCompanion' = Tail(toCompanion)
           /\ KeepsSession(companion, companion') /\ KeepsWords(companion, companion')
           /\ KeepsReads(companion, companion')
           /\ companion'.instances = companion.instances /\ companion'.late = companion.late
           /\ companion'.unarrived = NoDocument /\ companion'.opens = companion.opens
           /\ \A s \in Sessions : companion'.engines[s].has = companion.engines[s].has
           /\ \A s \in Sessions \ {companion.session} :
                 companion'.engines[s] = companion.engines[s]
           /\ companion.unarrived # NoDocument =>
                 /\ companion'.document = companion.document
                 /\ companion'.bridge = companion.bridge /\ companion'.held = companion.held
                 /\ ~companion'.engines[companion.session].holds
           /\ companion.unarrived = NoDocument =>
                 /\ companion'.document = NoDocument
                 /\ companion.session = 0 => KeepsRoom(companion, companion')
                 /\ companion.session # 0 =>
                       /\ companion'.bridge = "none" /\ ~companion'.held
                       /\ companion.held => ~companion'.engines[companion.session].holds
                       /\ ~companion.held => companion'.engines = companion.engines
<1>1. /\ toCompanion # <<>> /\ toCompanion' = Tail(toCompanion)
      /\ UNCHANGED <<front, file, spent, scenario>>
      /\ companion' = Close(companion)
  BY TakesDoes
<1>2. /\ companion \in Companions(Sessions) /\ companion.session \in Sessions \cup {0}
      /\ companion.unarrived # NoDocument => companion.session # 0
  BY BaseFacts
<1>3. /\ KeepsSession(companion, companion') /\ KeepsWords(companion, companion')
      /\ KeepsReads(companion, companion')
      /\ companion'.instances = companion.instances /\ companion'.late = companion.late
      /\ companion'.unarrived = NoDocument /\ companion'.opens = companion.opens
      /\ \A s \in Sessions : companion'.engines[s].has = companion.engines[s].has
      /\ \A s \in Sessions \ {companion.session} :
            companion'.engines[s] = companion.engines[s]
      /\ companion.unarrived # NoDocument =>
            /\ companion'.document = companion.document
            /\ companion'.bridge = companion.bridge /\ companion'.held = companion.held
            /\ ~companion'.engines[companion.session].holds
      /\ companion.unarrived = NoDocument =>
            /\ companion'.document = NoDocument
            /\ companion.session = 0 => KeepsRoom(companion, companion')
            /\ companion.session # 0 =>
                  /\ companion'.bridge = "none" /\ ~companion'.held
                  /\ companion.held => ~companion'.engines[companion.session].holds
                  /\ ~companion.held => companion'.engines = companion.engines
  BY <1>1, <1>2, CloseDoes
<1>4. QED
  BY <1>1, <1>3

LEMMA TakesChangeDoes ==
    ASSUME Base, Takes, NEW m, m = Head(toCompanion), m.type = "change"
    PROVE  /\ UNCHANGED <<front, file, spent, scenario>>
           /\ toCompanion # <<>> /\ toCompanion' = Tail(toCompanion)
           /\ KeepsSession(companion, companion') /\ KeepsWords(companion, companion')
           /\ KeepsRoom(companion, companion') /\ KeepsReads(companion, companion')
           /\ companion'.instances = companion.instances /\ companion'.late = companion.late
           /\ companion.document # NoDocument =>
                 /\ companion'.document = [companion.document EXCEPT !.version = @ + 1]
                 /\ companion'.unarrived = companion.unarrived
           /\ companion.document = NoDocument =>
                 /\ companion'.document = NoDocument
                 /\ companion.unarrived # NoDocument =>
                       companion'.unarrived = [companion.unarrived EXCEPT !.changes = @ + 1]
                 /\ companion.unarrived = NoDocument => companion'.unarrived = NoDocument
<1>1. /\ toCompanion # <<>> /\ toCompanion' = Tail(toCompanion)
      /\ UNCHANGED <<front, file, spent, scenario>>
      /\ companion' = Changed(companion)
  BY TakesDoes
<1>2. companion \in Companions(Sessions)
  BY BaseFacts
<1>3. QED
  BY <1>1, <1>2, ChangedDoes, SMTT(30)

LEMMA TakesWroteDoes ==
    ASSUME Base, Takes, NEW m, m = Head(toCompanion), m.type = "wrote"
    PROVE  /\ UNCHANGED <<front, file, spent, scenario>>
           /\ toCompanion # <<>> /\ toCompanion' = Tail(toCompanion)
           /\ KeepsSession(companion, companion') /\ KeepsWords(companion, companion')
           /\ KeepsRoom(companion, companion') /\ KeepsReads(companion, companion')
           /\ companion'.unarrived = companion.unarrived
           /\ companion'.instances = companion.instances /\ companion'.late = companion.late
           /\ companion.document = NoDocument => companion'.document = NoDocument
           /\ companion.document # NoDocument =>
                 companion'.document = [companion.document EXCEPT !.materialized = TRUE]
<1>1. /\ toCompanion # <<>> /\ toCompanion' = Tail(toCompanion)
      /\ UNCHANGED <<front, file, spent, scenario>>
      /\ companion' = Materialized(companion)
  BY TakesDoes
<1>2. companion \in Companions(Sessions)
  BY BaseFacts
<1>3. QED
  BY <1>1, <1>2, MaterializedDoes, SMTT(30)

LEMMA TakesSavedDoes ==
    ASSUME Base, Takes, NEW m, m = Head(toCompanion), m.type = "saved"
    PROVE  /\ UNCHANGED <<front, file, spent, scenario>>
           /\ toCompanion # <<>> /\ toCompanion' = Tail(toCompanion)
           /\ m.id \in Nat /\ m.ok \in BOOLEAN
           /\ KeepsSession(companion, companion') /\ KeepsRoom(companion, companion')
           /\ KeepsReads(companion, companion')
           /\ companion'.sent = companion.sent /\ companion'.nextId = companion.nextId
           /\ companion'.unarrived = companion.unarrived /\ companion'.late = companion.late
           /\ companion'.instances = companion.instances
           /\ DOMAIN companion'.saves = DOMAIN companion.saves \ {m.id}
           /\ \A i \in DOMAIN companion.saves \ {m.id} :
                 companion'.saves[i] = companion.saves[i]
           /\ \/ /\ m.ok /\ companion.document # NoDocument /\ m.id \in DOMAIN companion.saves
                 /\ companion.saves[m.id] = companion.document.instance
                 /\ companion'.document = [companion.document EXCEPT !.materialized = TRUE]
              \/ /\ ~(/\ m.ok /\ companion.document # NoDocument
                      /\ m.id \in DOMAIN companion.saves
                      /\ companion.saves[m.id] = companion.document.instance)
                 /\ companion'.document = companion.document
<1>1. /\ toCompanion # <<>> /\ toCompanion' = Tail(toCompanion)
      /\ UNCHANGED <<front, file, spent, scenario>>
      /\ m.id \in Nat /\ m.ok \in BOOLEAN
      /\ companion' = SettleSave(companion, m.id, m.ok)
  BY TakesDoes
<1>2. companion \in Companions(Sessions)
  BY BaseFacts
<1>3. QED
  BY <1>1, <1>2, SettleSaveDoes

LEMMA TakesCases ==
    ASSUME Base, Takes
    PROVE  Head(toCompanion).type \in {"start", "leave", "open", "close", "change",
                                       "wrote", "saved"}
BY TakesDoes

(* The session has ended, on either side's word.                           *)
Left(c, d) ==
    /\ d.session = 0 /\ d.started = c.started /\ d.role = c.role
    /\ d.bridge = "none" /\ ~d.held
    /\ d.engines = c.engines /\ d.opens = c.opens
    /\ d.document = NoDocument /\ d.unarrived = NoDocument
    /\ d.instances = c.instances /\ d.late = c.late
    /\ DOMAIN d.saves = {} /\ d.nextId = c.nextId
    /\ KeepsReads(c, d)
    /\ d.sent = Append(c.sent, [type |-> "status", live |-> FALSE])

LEMMA LeftDoes ==
    ASSUME Base, companion' = Leave(companion)
    PROVE  Left(companion, companion')
<1>1. companion \in Companions(Sessions)
  BY BaseFacts
<1>2. companion'.saves = <<>> => DOMAIN companion'.saves = {}
  OBVIOUS
<1>3. QED
  BY <1>1, <1>2, LeaveDoes DEF Left

(***************************************************************************)
(* A file deleted before the write was asked for stays deleted: what the   *)
(* disk said is kept with the write it let through.                        *)
(***************************************************************************)
GuardedThere(q) ==
    \A i \in 1 .. Len(q) : q[i].type = "save" /\ q[i].guarded => q[i].there

SeenThere ==
    /\ \A i \in DOMAIN companion.reads :
          /\ file => companion.reads[i].there
          /\ companion.reads[i].answer = "not absent" => companion.reads[i].there
    /\ GuardedThere(companion.sent)

(* What is said or heard, as far as the writes are concerned.              *)
Speaks(c, d) ==
    \/ d.sent = c.sent
    \/ c.sent # <<>> /\ d.sent = Tail(c.sent)
    \/ \E w \in Words : /\ d.sent = Append(c.sent, w)
                        /\ w.type = "save" /\ w.guarded => w.there

LEMMA GuardedSpeaks ==
    ASSUME NEW c, NEW d, c.sent \in Seq(Words), GuardedThere(c.sent), Speaks(c, d)
    PROVE  GuardedThere(d.sent)
<1>1. CASE d.sent = c.sent
  BY <1>1
<1>2. CASE c.sent # <<>> /\ d.sent = Tail(c.sent)
  <2> DEFINE q == c.sent
             u == d.sent
  <2>1. q \in Seq(Words) /\ q # <<>> /\ u = Tail(q) /\ GuardedThere(q)
    BY <1>2
  <2> HIDE DEF q, u
  <2>2. /\ Len(q) \in Nat \ {0} /\ Len(u) = Len(q) - 1
        /\ \A i \in 1 .. Len(q) - 1 : u[i] = q[i + 1]
    BY <2>1, TailAt
  <2>3. \A i \in 1 .. Len(u) : i + 1 \in 1 .. Len(q) /\ u[i] = q[i + 1]
    BY <2>2
  <2>4. GuardedThere(u)
    BY <2>1, <2>3 DEF GuardedThere
  <2>5. QED
    BY <2>4 DEF u
<1>3. ASSUME NEW w \in Words, d.sent = Append(c.sent, w),
             w.type = "save" /\ w.guarded => w.there
      PROVE  GuardedThere(d.sent)
  <2> DEFINE q == c.sent
             u == d.sent
  <2>1. q \in Seq(Words) /\ u = Append(q, w) /\ GuardedThere(q)
    BY <1>3
  <2> HIDE DEF q, u
  <2>2. /\ Len(q) \in Nat /\ Len(u) = Len(q) + 1
        /\ \A i \in 1 .. Len(q) : u[i] = q[i]
        /\ u[Len(q) + 1] = w
    BY <2>1, AppendAt
  <2>3. \A i \in 1 .. Len(u) : i \in 1 .. Len(q) \/ i = Len(q) + 1
    BY <2>2
  <2>4. GuardedThere(u)
    BY <1>3, <2>1, <2>2, <2>3 DEF GuardedThere
  <2>5. QED
    BY <2>4 DEF u
<1>4. QED
  BY <1>1, <1>2, <1>3 DEF Speaks

(* The reads as they were, and no file more.                               *)
LEMMA SeenStays ==
    ASSUME Base, SeenThere, KeepsReads(companion, companion'), file' => file,
           Speaks(companion, companion')
    PROVE  SeenThere'
<1>1. companion.sent \in Seq(Words) /\ GuardedThere(companion.sent)
  BY BaseFacts DEF SeenThere
<1>2. GuardedThere(companion'.sent)
  BY <1>1, GuardedSpeaks
<1>3. QED
  BY <1>2 DEF SeenThere, KeepsReads

(* A file more, which every read in flight knows of.                       *)
LEMMA SeenAppears ==
    ASSUME Base, SeenThere, Appeared(companion, companion'),
           Speaks(companion, companion')
    PROVE  SeenThere'
<1>1. companion.sent \in Seq(Words) /\ GuardedThere(companion.sent)
  BY BaseFacts DEF SeenThere
<1>2. GuardedThere(companion'.sent)
  BY <1>1, GuardedSpeaks
<1>3. \A i \in DOMAIN companion.reads : companion.reads[i] \in ReadsInFlight
  <2>1. companion.reads \in Seq(ReadsInFlight)
    BY BaseFacts
  <2>2. QED
    BY <2>1
<1>6. \A r \in ReadsInFlight : [r EXCEPT !.there = TRUE].there
  BY DEF ReadsInFlight
<1>4. ASSUME NEW i \in DOMAIN companion'.reads PROVE companion'.reads[i].there
  BY <1>3, <1>4, <1>6 DEF Appeared
<1>5. QED
  BY <1>2, <1>4 DEF SeenThere

LEMMA SeenTakes == ASSUME Base, SeenThere, Takes PROVE SeenThere'
<1> DEFINE m == Head(toCompanion)
<1>1. CASE m.type = "start"
  <2>1. /\ file' = file /\ KeepsReads(companion, companion')
        /\ companion'.sent = Append(companion.sent, [type |-> "status", live |-> TRUE])
    BY <1>1, TakesStartDoes
  <2>2. QED
    BY <2>1, SaidTyped, SeenStays DEF Speaks
<1>2. CASE m.type = "leave"
  <2>1. file' = file /\ Left(companion, companion')
    BY <1>2, TakesLeaveDoes, LeftDoes
  <2>2. QED
    BY <2>1, SaidTyped, SeenStays DEF Speaks, Left
<1>3. CASE m.type = "open"
  <2>1. /\ file' = file /\ KeepsReads(companion, companion')
        /\ companion'.sent = companion.sent
    BY <1>3, TakesOpenDoes DEF KeepsWords
  <2>2. QED
    BY <2>1, SeenStays DEF Speaks
<1>4. CASE m.type = "close"
  <2>1. /\ file' = file /\ KeepsReads(companion, companion')
        /\ companion'.sent = companion.sent
    BY <1>4, TakesCloseDoes DEF KeepsWords
  <2>2. QED
    BY <2>1, SeenStays DEF Speaks
<1>5. CASE m.type = "change"
  <2>1. /\ file' = file /\ KeepsReads(companion, companion')
        /\ companion'.sent = companion.sent
    BY <1>5, TakesChangeDoes DEF KeepsWords
  <2>2. QED
    BY <2>1, SeenStays DEF Speaks
<1>6. CASE m.type = "wrote"
  <2>1. /\ file' = file /\ KeepsReads(companion, companion')
        /\ companion'.sent = companion.sent
    BY <1>6, TakesWroteDoes DEF KeepsWords
  <2>2. QED
    BY <2>1, SeenStays DEF Speaks
<1>7. CASE m.type = "saved"
  <2>1. /\ file' = file /\ KeepsReads(companion, companion')
        /\ companion'.sent = companion.sent
    BY <1>7, TakesSavedDoes
  <2>2. QED
    BY <2>1, SeenStays DEF Speaks
<1>8. QED
  BY <1>1, <1>2, <1>3, <1>4, <1>5, <1>6, <1>7, TakesCases

LEMMA SeenReads == ASSUME Base, SeenThere, Reads PROVE SeenThere'
<1>1. /\ file' = file /\ companion'.sent = companion.sent
      /\ DOMAIN companion'.reads = DOMAIN companion.reads
      /\ \A j \in DOMAIN companion.reads :
            LET r == companion.reads[j]
                s == companion'.reads[j]
            IN  /\ r.there => s.there
                /\ \/ s.answer = r.answer
                   \/ s.answer = "absent"
                   \/ s.answer = "not absent" /\ (file \/ s.there)
  BY ReadsDoes DEF KeepsWords
<1>2. GuardedThere(companion'.sent)
  BY <1>1 DEF SeenThere
<1>3. ASSUME NEW j \in DOMAIN companion'.reads
      PROVE  /\ file' => companion'.reads[j].there
             /\ companion'.reads[j].answer = "not absent" => companion'.reads[j].there
  BY <1>1, <1>3 DEF SeenThere
<1>4. QED
  BY <1>2, <1>3 DEF SeenThere

LEMMA SeenAsked ==
    ASSUME Base, companion.document # NoDocument, NEW d, NEW guarded \in BOOLEAN,
           NEW there \in BOOLEAN, Asked(companion, d, guarded, there), guarded => there
    PROVE  Speaks(companion, d)
<1> DEFINE w == [type |-> "save", id |-> companion.nextId + 1,
                 of |-> companion.document.of, guarded |-> guarded, there |-> there]
<1>1. companion.document \in Documents /\ companion.nextId \in Nat
  BY BaseFacts, DocumentIs
<1>2. w \in Words /\ (w.type = "save" /\ w.guarded => w.there)
  BY <1>1 DEF Words, Documents
<1>3. d.sent = Append(companion.sent, w)
  BY DEF Asked
<1> HIDE DEF w
<1>4. QED
  BY <1>2, <1>3 DEF Speaks

LEMMA SeenSaveFalls == ASSUME Base, SeenThere, SaveFalls PROVE SeenThere'
<1>1. /\ file' = file /\ companion.document # NoDocument
      /\ \/ /\ KeepsWords(companion, companion')
            /\ companion'.reads =
                  Append(companion.reads, [session |-> companion.session,
                                           instance |-> companion.document.instance,
                                           there |-> file, answer |-> "none"])
         \/ /\ KeepsReads(companion, companion')
            /\ Asked(companion, companion', FALSE, file)
  BY SaveFallsDoes
<1>2. CASE KeepsReads(companion, companion') /\ Asked(companion, companion', FALSE, file)
  <2>1. file \in BOOLEAN
    BY BaseFacts
  <2>2. Speaks(companion, companion')
    BY <1>1, <1>2, <2>1, SeenAsked
  <2>3. QED
    BY <1>1, <1>2, <2>2, SeenStays
<1>3. CASE /\ KeepsWords(companion, companion')
           /\ companion'.reads =
                 Append(companion.reads, [session |-> companion.session,
                                          instance |-> companion.document.instance,
                                          there |-> file, answer |-> "none"])
  <2> DEFINE r == [session |-> companion.session, instance |-> companion.document.instance,
                   there |-> file, answer |-> "none"]
             reads == companion.reads
  <2>1. /\ companion.document \in Documents /\ companion.session \in Nat /\ file \in BOOLEAN
        /\ reads \in Seq(ReadsInFlight)
    BY <1>1, BaseFacts, DocumentIs
  <2>2. r \in ReadsInFlight /\ (file => r.there) /\ r.answer = "none"
    BY <2>1 DEF ReadsInFlight, Documents
  <2>3. companion'.reads = Append(reads, r)
    BY <1>3
  <2> HIDE DEF r, reads
  <2>4. /\ Len(reads) \in Nat /\ DOMAIN reads = 1 .. Len(reads)
        /\ DOMAIN companion'.reads = 1 .. Len(reads) + 1
        /\ \A i \in 1 .. Len(reads) : companion'.reads[i] = reads[i]
        /\ companion'.reads[Len(reads) + 1] = r
    BY <2>1, <2>2, <2>3, AppendAt
  <2>5. ASSUME NEW i \in DOMAIN companion'.reads
        PROVE  /\ file' => companion'.reads[i].there
               /\ companion'.reads[i].answer = "not absent" => companion'.reads[i].there
    <3>1. CASE i \in 1 .. Len(reads)
      BY <1>1, <2>4, <3>1 DEF SeenThere, reads
    <3>2. CASE i = Len(reads) + 1
      BY <1>1, <2>2, <2>4, <3>2
    <3>3. i \in 1 .. Len(reads) + 1 /\ Len(reads) \in Nat
      BY <2>4, <2>5
    <3>4. i \in 1 .. Len(reads) \/ i = Len(reads) + 1
      BY <3>3
    <3>5. QED
      BY <3>1, <3>2, <3>4
  <2>6. GuardedThere(companion'.sent)
    BY <1>3 DEF KeepsWords, SeenThere
  <2>7. QED
    BY <2>5, <2>6 DEF SeenThere
<1>4. QED
  BY <1>1, <1>2, <1>3

LEMMA SeenJudges == ASSUME Base, SeenThere, Judges PROVE SeenThere'
<1>1. /\ file' = file
      /\ \A j \in DOMAIN companion'.reads :
            \E k \in DOMAIN companion.reads : companion'.reads[j] = companion.reads[k]
      /\ \/ KeepsWords(companion, companion')
         \/ /\ companion.document # NoDocument
            /\ \E k \in DOMAIN companion.reads :
                  /\ companion.reads[k].answer = "not absent"
                  /\ Asked(companion, companion', TRUE, companion.reads[k].there)
  BY JudgesDoes
<1>2. Speaks(companion, companion')
  <2>1. CASE KeepsWords(companion, companion')
    BY <2>1 DEF KeepsWords, Speaks
  <2>2. CASE ~KeepsWords(companion, companion')
    <3>1. PICK k \in DOMAIN companion.reads :
             /\ companion.reads[k].answer = "not absent"
             /\ Asked(companion, companion', TRUE, companion.reads[k].there)
      BY <1>1, <2>2
    <3>2. companion.reads[k].there /\ companion.reads[k].there \in BOOLEAN
      <4>1. companion.reads \in Seq(ReadsInFlight) /\ k \in DOMAIN companion.reads
        BY <3>1, BaseFacts
      <4>2. companion.reads[k] \in ReadsInFlight
        BY <4>1
      <4>3. QED
        BY <3>1, <4>1, <4>2 DEF ReadsInFlight, SeenThere
    <3>3. QED
      BY <1>1, <2>2, <3>1, <3>2, SeenAsked
  <2>3. QED
    BY <2>1, <2>2
<1>3. companion.sent \in Seq(Words) /\ GuardedThere(companion.sent)
  BY BaseFacts DEF SeenThere
<1>4. GuardedThere(companion'.sent)
  BY <1>2, <1>3, GuardedSpeaks
<1>5. QED
  BY <1>1, <1>4 DEF SeenThere

LEMMA SeenStep == ASSUME Base, SeenThere, [Next]_vars PROVE SeenThere'
<1>1. CASE UNCHANGED vars
  BY <1>1 DEF vars, SeenThere
<1>2. CASE Starts \/ Leaves \/ Shares \/ Closes \/ Types
  <2>1. file' = file /\ companion' = companion
    BY <1>2, StartsDoes, LeavesDoes, SharesDoes, ClosesDoes, TypesDoes
  <2>2. QED
    BY <2>1 DEF SeenThere
<1>3. CASE Writes
  <2>1. Appeared(companion, companion') /\ Speaks(companion, companion')
    BY <1>3, WritesDoes DEF KeepsWords, Speaks
  <2>2. QED
    BY <2>1, SeenAppears
<1>4. CASE SavesIt
  <2>1. Appeared(companion, companion') /\ Speaks(companion, companion')
    BY <1>4, SavesItDoes DEF Hearing, Speaks
  <2>2. QED
    BY <2>1, SeenAppears
<1>5. CASE SavesNothing \/ HearsStatus \/ HearsRefusal
  <2>1. /\ file' = file /\ KeepsReads(companion, companion')
        /\ Hearing(companion, companion')
    BY <1>5, SavesNothingDoes, HearsStatusDoes, HearsRefusalDoes
  <2>2. Speaks(companion, companion')
    BY <2>1 DEF Hearing, Speaks
  <2>3. QED
    BY <2>1, <2>2, SeenStays
<1>6. CASE Moves
  <2>1. CASE file
    <3>1. companion' = companion /\ ~file'
      BY <1>6, <2>1, MovesDoes
    <3>2. QED
      BY <3>1 DEF SeenThere
  <2>2. CASE ~file
    <3>1. Appeared(companion, companion') /\ Speaks(companion, companion')
      BY <1>6, <2>2, MovesDoes DEF KeepsWords, Speaks
    <3>2. QED
      BY <3>1, SeenAppears
  <2>3. QED
    BY <2>1, <2>2
<1>7. CASE RoomEnds
  <2>1. file' = file /\ Left(companion, companion')
    BY <1>7, RoomEndsDoes, LeftDoes
  <2>2. QED
    BY <2>1, SaidTyped, SeenStays DEF Speaks, Left
<1>8. CASE TextArrives \/ SessionHolds \/ BridgeHolds
  <2>1. /\ file' = file /\ KeepsReads(companion, companion')
        /\ KeepsWords(companion, companion')
    BY <1>8, TextArrivesDoes, SessionHoldsDoes, BridgeHoldsDoes
  <2>2. QED
    BY <2>1, SeenStays DEF Speaks, KeepsWords
<1>9. CASE HoldRefused
  <2>1. /\ file' = file /\ KeepsReads(companion, companion')
        /\ companion'.sent \in {companion.sent, Append(companion.sent, [type |-> "refusal"])}
    BY <1>9, HoldRefusedDoes
  <2>2. QED
    BY <2>1, SaidTyped, SeenStays DEF Speaks
<1>10. QED
  BY <1>1, <1>2, <1>3, <1>4, <1>5, <1>6, <1>7, <1>8, <1>9,
     SeenTakes, SeenSaveFalls, SeenReads, SeenJudges DEF Next

LEMMA SeenInit == Init => SeenThere
<1> SUFFICES ASSUME Init PROVE SeenThere
  OBVIOUS
<1>1. companion.reads = <<>> /\ companion.sent = <<>>
  BY DEF Init
<1>2. DOMAIN companion.reads = {} /\ Len(companion.sent) = 0
  BY <1>1
<1>3. QED
  BY <1>2 DEF SeenThere, GuardedThere

LEMMA SeenHolds == Spec => []SeenThere
<1>1. Base /\ SeenThere /\ [Next]_vars => SeenThere'
  BY SeenStep
<1>2. QED
  BY <1>1, SeenInit, BaseHolds, PTL DEF Spec

(* The room's write creates a file only where none was known, or where one *)
(* was seen since it was asked for (session.ts `saveHostFile`).            *)
THEOREM DeletionsStand == Spec => DeletionStands
<1> DEFINE Stands == /\ Hears("save")
                     /\ companion.sent # companion'.sent
                     /\ ~file /\ file'
                     => \/ ~Head(companion.sent).guarded
                        \/ Head(companion.sent).there
<1>1. Base /\ SeenThere => Stands
  <2> SUFFICES ASSUME Base, SeenThere, Hears("save")
               PROVE  Head(companion.sent).guarded => Head(companion.sent).there
    OBVIOUS
  <2>1. companion.sent \in Seq(Words) /\ companion.sent # <<>>
        /\ Head(companion.sent).type = "save"
    BY BaseFacts DEF Hears
  <2>2. 1 \in 1 .. Len(companion.sent) /\ Head(companion.sent) = companion.sent[1]
    BY <2>1
  <2>3. QED
    BY <2>1, <2>2 DEF SeenThere, GuardedThere
<1>2. Base /\ SeenThere => [Stands]_vars
  BY <1>1
<1>3. QED
  BY <1>2, BaseHolds, SeenHolds, PTL DEF DeletionStands

(***************************************************************************)
(* A guest's buffer with text of its own meets the room's text only when   *)
(* that text is here.                                                      *)
(***************************************************************************)
Beside(c) == c.bridge = "open" /\ c.document # NoDocument /\ c.document.text

(* The session, its role and its text as they were; nothing is newly kept  *)
(* back, and nothing newly put beside a text that is not here.             *)
LEMMA HereStays ==
    ASSUME OpenedWithTheText,
           companion'.session # 0 => KeepsSession(companion, companion'),
           companion'.session # 0 /\ companion'.role = "guest" =>
              /\ companion'.unarrived # NoDocument =>
                    /\ companion.unarrived # NoDocument
                    /\ Has(companion') => Has(companion)
              /\ Beside(companion') =>
                    \/ Has(companion')
                    \/ Beside(companion) /\ (Has(companion) => Has(companion'))
    PROVE  OpenedWithTheText'
BY DEF OpenedWithTheText, KeepsSession, Has, Beside

(* A step that leaves the mirror and the bridge alone.                     *)
LEMMA HereKept ==
    ASSUME OpenedWithTheText, KeepsSession(companion, companion'),
           companion'.bridge = companion.bridge,
           companion'.unarrived # NoDocument => companion.unarrived # NoDocument,
           Has(companion') <=> Has(companion),
           Beside(companion') => Beside(companion)
    PROVE  OpenedWithTheText'
BY HereStays

LEMMA HereTakes == ASSUME Base, OpenedWithTheText, Takes PROVE OpenedWithTheText'
<1> DEFINE m == Head(toCompanion)
<1>0. companion.session # 0 => companion.session \in Sessions
  BY BaseFacts
<1>1. CASE m.type = "start"
  <2>1. /\ companion.session = 0 /\ KeepsMirror(companion, companion')
        /\ KeepsRoom(companion, companion')
    BY <1>1, TakesStartDoes
  <2>2. companion'.unarrived = NoDocument /\ companion'.bridge = "none"
    BY <2>1, BaseFacts DEF KeepsMirror, KeepsRoom, Companions
  <2>3. QED
    BY <2>2 DEF OpenedWithTheText
<1>2. CASE m.type = "leave"
  <2>1. companion'.session = 0
    BY <1>2, TakesLeaveDoes, LeftDoes DEF Left
  <2>2. QED
    BY <2>1 DEF OpenedWithTheText
<1>3. CASE m.type = "open"
  <2>1. /\ m.text \in BOOLEAN
        /\ KeepsSession(companion, companion')
        /\ \/ /\ companion.session # 0 /\ ~Has(companion)
              /\ companion'.document = companion.document
              /\ companion'.bridge = companion.bridge
              /\ \A s \in Sessions : companion'.engines[s].has = companion.engines[s].has
           \/ /\ companion'.unarrived = companion.unarrived
              /\ companion'.document = MirrorOf(m, 0, companion'.instances)
              /\ \/ companion.session = 0
                 \/ /\ companion.session # 0
                    /\ Placed(Sessions, companion, companion')
                    /\ companion.role = "guest" /\ companion'.bridge = "open" /\ m.text
                            => Has(companion)
    BY <1>3, TakesOpenDoes
  <2>2. CASE companion.session = 0
    BY <2>1, <2>2 DEF KeepsSession, OpenedWithTheText
  <2>3. CASE /\ companion.session # 0 /\ ~Has(companion)
             /\ companion'.document = companion.document
             /\ companion'.bridge = companion.bridge
             /\ \A s \in Sessions : companion'.engines[s].has = companion.engines[s].has
    BY <1>0, <2>1, <2>3 DEF KeepsSession, OpenedWithTheText, Has
  <2>4. CASE /\ companion.session # 0
             /\ companion'.unarrived = companion.unarrived
             /\ companion'.document = MirrorOf(m, 0, companion'.instances)
             /\ Placed(Sessions, companion, companion')
             /\ companion.role = "guest" /\ companion'.bridge = "open" /\ m.text
                     => Has(companion)
    <3>1. companion'.document # NoDocument => companion'.document.text = m.text
      BY <2>4 DEF MirrorOf
    <3>2. companion.role = "guest" => (Has(companion') <=> Has(companion))
      BY <2>1, <2>4 DEF KeepsSession, Placed, Has
    <3>3. QED
      BY <2>1, <2>4, <3>1, <3>2 DEF KeepsSession, OpenedWithTheText
  <2>5. QED
    BY <2>1, <2>2, <2>3, <2>4
<1>4. CASE m.type = "close"
  <2>1. /\ KeepsSession(companion, companion')
        /\ companion'.unarrived = NoDocument
        /\ \A s \in Sessions : companion'.engines[s].has = companion.engines[s].has
        /\ companion'.document \in {companion.document, NoDocument}
        /\ companion'.document = companion.document => companion'.bridge = companion.bridge
              \/ companion'.document = NoDocument
    BY <1>4, TakesCloseDoes
  <2>2. QED
    BY <1>0, <2>1 DEF KeepsSession, OpenedWithTheText, Has
<1>5. CASE m.type = "change"
  <2>1. /\ KeepsSession(companion, companion') /\ KeepsRoom(companion, companion')
        /\ companion.document # NoDocument =>
              /\ companion'.document = [companion.document EXCEPT !.version = @ + 1]
              /\ companion'.unarrived = companion.unarrived
        /\ companion.document = NoDocument =>
              /\ companion'.document = NoDocument
              /\ companion.unarrived = NoDocument => companion'.unarrived = NoDocument
    BY <1>5, TakesChangeDoes
  <2>2. companion'.document # NoDocument =>
           companion.document # NoDocument /\ companion'.document.text = companion.document.text
    BY <2>1, BaseFacts, DocumentIs DEF Documents
  <2>3. QED
    BY <2>1, <2>2, HereKept DEF KeepsRoom, KeepsSession, Has, Beside
<1>6. CASE m.type = "wrote" \/ m.type = "saved"
  <2>1. /\ KeepsSession(companion, companion') /\ KeepsRoom(companion, companion')
        /\ companion'.unarrived = companion.unarrived
        /\ \/ companion'.document = companion.document
           \/ /\ companion.document # NoDocument
              /\ companion'.document = [companion.document EXCEPT !.materialized = TRUE]
    BY <1>6, TakesWroteDoes, TakesSavedDoes
  <2>2. companion'.document # NoDocument =>
           companion.document # NoDocument /\ companion'.document.text = companion.document.text
    BY <2>1, BaseFacts, DocumentIs DEF Documents
  <2>3. QED
    BY <2>1, <2>2, HereKept DEF KeepsRoom, KeepsSession, Has, Beside
<1>8. QED
  BY <1>1, <1>2, <1>3, <1>4, <1>5, <1>6, TakesCases

LEMMA HereStep == ASSUME Base, OpenedWithTheText, [Next]_vars PROVE OpenedWithTheText'
<1>0. companion.session # 0 => companion.session \in Sessions
  BY BaseFacts
<1>1. CASE UNCHANGED companion
  BY <1>1 DEF OpenedWithTheText, Has
<1>2. CASE KeepsAll(companion, companion')
  BY <1>2 DEF OpenedWithTheText, Has, KeepsAll, KeepsSession, KeepsMirror, KeepsRoom
<1>3. CASE RoomEnds
  <2>1. companion'.session = 0
    BY <1>3, RoomEndsDoes, LeftDoes DEF Left
  <2>2. QED
    BY <2>1 DEF OpenedWithTheText
<1>4. CASE TextArrives
  <2>1. /\ companion.session # 0 /\ KeepsSession(companion, companion')
        /\ companion'.engines[companion.session].has
        /\ companion'.unarrived = NoDocument
    BY <1>4, TextArrivesDoes DEF Arrived, KeepsMirror
  <2>2. QED
    BY <2>1 DEF OpenedWithTheText, KeepsSession, Has
<1>5. CASE SessionHolds
  <2>1. /\ KeepsSession(companion, companion')
        /\ \/ /\ companion'.unarrived = NoDocument
              /\ companion.role = "guest" /\ companion'.bridge = "open"
                        /\ companion'.document.text
                     => companion'.engines[companion.session].has
           \/ /\ KeepsMirror(companion, companion')
              /\ companion'.bridge = companion.bridge
              /\ companion'.engines = companion.engines
    BY <1>5, SessionHoldsDoes DEF Arrived
  <2>2. QED
    BY <2>1 DEF OpenedWithTheText, KeepsSession, KeepsMirror, Has
<1>6. CASE BridgeHolds
  <2>1. /\ KeepsSession(companion, companion') /\ KeepsMirror(companion, companion')
        /\ \A t \in Sessions : companion'.engines[t].has = companion.engines[t].has
        /\ companion'.bridge = "open" => companion.bridge = "open" \/ Has(companion)
    BY <1>6, BridgeHoldsDoes DEF HoldAnswered
  <2>2. QED
    BY <1>0, <2>1 DEF OpenedWithTheText, KeepsSession, KeepsMirror, Has
<1>7. CASE HoldRefused
  <2>1. /\ KeepsSession(companion, companion')
        /\ companion'.document = companion.document
        /\ \A t \in Sessions : companion'.engines[t].has = companion.engines[t].has
        /\ companion'.bridge \in {"none", companion.bridge}
        /\ companion'.unarrived \in {NoDocument, companion.unarrived}
    BY <1>7, HoldRefusedDoes
  <2>2. QED
    BY <1>0, <2>1 DEF OpenedWithTheText, KeepsSession, Has
<1>8. UNCHANGED vars \/ Starts \/ Leaves \/ Shares \/ Closes \/ Types => UNCHANGED companion
  BY StartsDoes, LeavesDoes, SharesDoes, ClosesDoes, TypesDoes DEF vars
<1>9. Writes \/ Moves \/ SavesIt \/ SavesNothing \/ HearsStatus \/ HearsRefusal
         => KeepsAll(companion, companion')
  BY WritesDoes, MovesDoes, SavesItDoes, SavesNothingDoes, HearsStatusDoes, HearsRefusalDoes
<1>10. SaveFalls \/ Reads \/ Judges => KeepsAll(companion, companion')
  BY SaveFallsDoes, ReadsDoes, JudgesDoes DEF KeepsAll
<1>11. QED
  BY <1>1, <1>2, <1>3, <1>4, <1>5, <1>6, <1>7, <1>8, <1>9, <1>10, HereTakes DEF Next

LEMMA HereInit == Init => OpenedWithTheText
BY DEF Init, OpenedWithTheText

(* A guest's document with text of its own waits for the room's text, and  *)
(* waits no longer than that (session.ts `open`, bridge.ts                 *)
(* `documentOpened`).                                                      *)
THEOREM TextIsHere == Spec => []OpenedWithTheText
<1>1. Base /\ OpenedWithTheText /\ [Next]_vars => OpenedWithTheText'
  BY HereStep
<1>2. QED
  BY <1>1, HereInit, BaseHolds, PTL DEF Spec

(***************************************************************************)
(* The opens, closes and changes on the pipe.                              *)
(***************************************************************************)
(* No document is opened over one that stands: a close is in between.      *)
InTurn(p, stands) ==
    \A j \in 1 .. Len(p) : p[j].type = "open" =>
        /\ stands => \E k \in 1 .. Len(p) : k < j /\ p[k].type = "close"
        /\ \A i \in 1 .. Len(p) : i < j /\ p[i].type = "open" =>
              \E k \in 1 .. Len(p) : i < k /\ k < j /\ p[k].type = "close"

(* What stands, and all that is to be opened, is to be closed.             *)
Ended(p, stands) ==
    /\ stands => \E k \in 1 .. Len(p) : p[k].type = "close"
    /\ \A i \in 1 .. Len(p) : p[i].type = "open" =>
          \E k \in 1 .. Len(p) : i < k /\ p[k].type = "close"

(* A close is followed by an open.                                         *)
Reopened(p) ==
    \A k \in 1 .. Len(p) : p[k].type = "close" =>
        \E i \in 1 .. Len(p) : k < i /\ p[i].type = "open"

Since(p, i) == {k \in 1 .. Len(p) : i < k /\ p[k].type = "change"}

(* The last open is of document `of`, and the changes after it are all     *)
(* that were made in it.                                                   *)
Newest(p, of, edits) ==
    \A i \in 1 .. Len(p) :
        p[i].type = "open" /\ (\A j \in 1 .. Len(p) : i < j => p[j].type # "open")
        => p[i].of = of /\ edits = Cardinality(Since(p, i))

LEMMA TailShifts ==
    ASSUME NEW p \in Seq(Messages), p # <<>>, NEW t, t = Tail(p)
    PROVE  /\ Len(p) \in Nat \ {0} /\ Len(t) = Len(p) - 1
           /\ \A i \in 1 .. Len(t) : i + 1 \in 1 .. Len(p) /\ p[i + 1] = t[i]
           /\ \A i \in 1 .. Len(p) : i # 1 => i - 1 \in 1 .. Len(t) /\ t[i - 1] = p[i]
           /\ 1 \in 1 .. Len(p) /\ Head(p) = p[1]
<1>1. /\ Len(p) \in Nat \ {0} /\ Len(t) = Len(p) - 1
      /\ \A i \in 1 .. Len(p) - 1 : t[i] = p[i + 1]
      /\ Head(p) = p[1]
  BY TailAt
<1>2. QED
  BY <1>1

LEMMA InTurnAppend ==
    ASSUME NEW p \in Seq(Messages), NEW m \in Messages, NEW stands \in BOOLEAN,
           InTurn(p, stands), m.type = "open" => Ended(p, stands)
    PROVE  InTurn(Append(p, m), stands)
<1> DEFINE u == Append(p, m)
<1>1. /\ Len(p) \in Nat /\ Len(u) = Len(p) + 1
      /\ \A i \in 1 .. Len(p) : u[i] = p[i]
      /\ u[Len(p) + 1] = m
  BY AppendAt
<1> HIDE DEF u
<1>2. SUFFICES ASSUME NEW j \in 1 .. Len(u), u[j].type = "open"
      PROVE  /\ stands => \E k \in 1 .. Len(u) : k < j /\ u[k].type = "close"
             /\ \A i \in 1 .. Len(u) : i < j /\ u[i].type = "open" =>
                   \E k \in 1 .. Len(u) : i < k /\ k < j /\ u[k].type = "close"
  BY DEF InTurn, u
<1>3. 1 .. Len(p) \subseteq 1 .. Len(u) /\ Len(p) + 1 \in 1 .. Len(u)
  BY <1>1
<1>4. CASE j \in 1 .. Len(p)
  <2>1. \A i \in 1 .. Len(u) : i < j => i \in 1 .. Len(p)
    BY <1>1, <1>4
  <2>2. p[j].type = "open"
    BY <1>1, <1>2, <1>4
  <2>3. stands => \E k \in 1 .. Len(u) : k < j /\ u[k].type = "close"
    BY <1>1, <1>3, <1>4, <2>2 DEF InTurn
  <2>4. ASSUME NEW i \in 1 .. Len(u), i < j, u[i].type = "open"
        PROVE  \E k \in 1 .. Len(u) : i < k /\ k < j /\ u[k].type = "close"
    <3>1. i \in 1 .. Len(p) /\ p[i].type = "open"
      BY <1>1, <2>1, <2>4
    <3>2. PICK k \in 1 .. Len(p) : i < k /\ k < j /\ p[k].type = "close"
      BY <1>4, <2>2, <2>4, <3>1 DEF InTurn
    <3>3. k \in 1 .. Len(u) /\ u[k].type = "close"
      BY <1>1, <1>3, <3>2
    <3>4. QED
      BY <3>2, <3>3
  <2>5. QED
    BY <2>3, <2>4
<1>5. CASE j = Len(p) + 1
  <2>1. Ended(p, stands)
    BY <1>1, <1>2, <1>5
  <2>2. \A k \in 1 .. Len(p) : k < j /\ k \in 1 .. Len(u) /\ u[k] = p[k]
    BY <1>1, <1>3, <1>5
  <2>3. \A i \in 1 .. Len(u) : i < j => i \in 1 .. Len(p)
    BY <1>1, <1>5
  <2>4. stands => \E k \in 1 .. Len(u) : k < j /\ u[k].type = "close"
    BY <2>1, <2>2 DEF Ended
  <2>5. ASSUME NEW i \in 1 .. Len(u), i < j, u[i].type = "open"
        PROVE  \E k \in 1 .. Len(u) : i < k /\ k < j /\ u[k].type = "close"
    <3>1. i \in 1 .. Len(p) /\ p[i].type = "open"
      BY <2>2, <2>3, <2>5
    <3>2. PICK k \in 1 .. Len(p) : i < k /\ p[k].type = "close"
      BY <2>1, <3>1 DEF Ended
    <3>3. QED
      BY <2>2, <3>2
  <2>6. QED
    BY <2>4, <2>5
<1>6. QED
  BY <1>1, <1>2, <1>4, <1>5

LEMMA EndedAppend ==
    ASSUME NEW p \in Seq(Messages), NEW m \in Messages, NEW stands \in BOOLEAN,
           m.type = "close" \/ (Ended(p, stands) /\ m.type # "open")
    PROVE  Ended(Append(p, m), stands)
<1> DEFINE u == Append(p, m)
<1>1. /\ Len(p) \in Nat /\ Len(u) = Len(p) + 1
      /\ \A i \in 1 .. Len(p) : u[i] = p[i]
      /\ u[Len(p) + 1] = m
  BY AppendAt
<1> HIDE DEF u
<1>2. /\ 1 .. Len(p) \subseteq 1 .. Len(u) /\ Len(p) + 1 \in 1 .. Len(u)
      /\ \A i \in 1 .. Len(u) : (i \in 1 .. Len(p) /\ i < Len(p) + 1) \/ i = Len(p) + 1
  BY <1>1
<1>3. CASE m.type = "close"
  BY <1>1, <1>2, <1>3 DEF Ended, u
<1>4. CASE Ended(p, stands) /\ m.type # "open"
  BY <1>1, <1>2, <1>4 DEF Ended, u
<1>5. QED
  BY <1>3, <1>4

LEMMA ReopenedAppend ==
    ASSUME NEW p \in Seq(Messages), NEW m \in Messages,
           m.type = "open" \/ (Reopened(p) /\ m.type # "close")
    PROVE  Reopened(Append(p, m))
<1> DEFINE u == Append(p, m)
<1>1. /\ Len(p) \in Nat /\ Len(u) = Len(p) + 1
      /\ \A i \in 1 .. Len(p) : u[i] = p[i]
      /\ u[Len(p) + 1] = m
  BY AppendAt
<1> HIDE DEF u
<1>2. /\ 1 .. Len(p) \subseteq 1 .. Len(u) /\ Len(p) + 1 \in 1 .. Len(u)
      /\ \A i \in 1 .. Len(u) : (i \in 1 .. Len(p) /\ i < Len(p) + 1) \/ i = Len(p) + 1
  BY <1>1
<1>3. CASE m.type = "open"
  BY <1>1, <1>2, <1>3 DEF Reopened, u
<1>4. CASE Reopened(p) /\ m.type # "close"
  BY <1>1, <1>2, <1>4 DEF Reopened, u
<1>5. QED
  BY <1>3, <1>4

(* The message in front is taken: a document that stands once it is, and   *)
(* did not before, is the one this message opened.                         *)
LEMMA InTurnTaken ==
    ASSUME NEW p \in Seq(Messages), p # <<>>, NEW stands \in BOOLEAN, InTurn(p, stands),
           NEW after \in BOOLEAN,
           after => Head(p).type = "open" \/ (stands /\ Head(p).type # "close")
    PROVE  InTurn(Tail(p), after)
<1> DEFINE t == Tail(p)
<1>1. /\ Len(p) \in Nat \ {0} /\ Len(t) = Len(p) - 1
      /\ \A i \in 1 .. Len(t) : i + 1 \in 1 .. Len(p) /\ p[i + 1] = t[i]
      /\ \A i \in 1 .. Len(p) : i # 1 => i - 1 \in 1 .. Len(t) /\ t[i - 1] = p[i]
      /\ 1 \in 1 .. Len(p) /\ Head(p) = p[1]
  BY TailShifts
<1> HIDE DEF t
<1>2. SUFFICES ASSUME NEW j \in 1 .. Len(t), t[j].type = "open"
      PROVE  /\ after => \E k \in 1 .. Len(t) : k < j /\ t[k].type = "close"
             /\ \A i \in 1 .. Len(t) : i < j /\ t[i].type = "open" =>
                   \E k \in 1 .. Len(t) : i < k /\ k < j /\ t[k].type = "close"
  BY DEF InTurn, t
<1>3. j + 1 \in 1 .. Len(p) /\ p[j + 1].type = "open"
  BY <1>1, <1>2
<1>4. ASSUME NEW k \in 1 .. Len(p), k # 1, k < j + 1, p[k].type = "close"
      PROVE  k - 1 \in 1 .. Len(t) /\ k - 1 < j /\ t[k - 1].type = "close"
  BY <1>1, <1>4
<1>5. ASSUME after PROVE \E k \in 1 .. Len(t) : k < j /\ t[k].type = "close"
  <2>1. CASE p[1].type = "open"
    <3>1. 1 < j + 1
      BY <1>1
    <3>2. PICK k \in 1 .. Len(p) : 1 < k /\ k < j + 1 /\ p[k].type = "close"
      BY <1>1, <1>3, <2>1, <3>1 DEF InTurn
    <3>3. k # 1
      BY <3>2
    <3>4. QED
      BY <1>4, <3>2, <3>3
  <2>2. CASE stands /\ p[1].type # "close"
    <3>1. PICK k \in 1 .. Len(p) : k < j + 1 /\ p[k].type = "close"
      BY <1>3, <2>2 DEF InTurn
    <3>2. QED
      BY <1>4, <2>2, <3>1
  <2>3. QED
    BY <1>1, <1>5, <2>1, <2>2
<1>6. ASSUME NEW i \in 1 .. Len(t), i < j, t[i].type = "open"
      PROVE  \E k \in 1 .. Len(t) : i < k /\ k < j /\ t[k].type = "close"
  <2>1. i + 1 \in 1 .. Len(p) /\ p[i + 1].type = "open" /\ i + 1 < j + 1
    BY <1>1, <1>6
  <2>2. PICK k \in 1 .. Len(p) : i + 1 < k /\ k < j + 1 /\ p[k].type = "close"
    BY <1>3, <2>1 DEF InTurn
  <2>3. k # 1 /\ i < k - 1
    BY <2>1, <2>2
  <2>4. QED
    BY <1>4, <2>2, <2>3
<1>7. QED
  BY <1>5, <1>6

LEMMA EndedTaken ==
    ASSUME NEW p \in Seq(Messages), p # <<>>, NEW stands \in BOOLEAN, Ended(p, stands),
           NEW after \in BOOLEAN,
           after => Head(p).type = "open" \/ (stands /\ Head(p).type # "close")
    PROVE  Ended(Tail(p), after)
<1> DEFINE t == Tail(p)
<1>1. /\ Len(p) \in Nat \ {0} /\ Len(t) = Len(p) - 1
      /\ \A i \in 1 .. Len(t) : i + 1 \in 1 .. Len(p) /\ p[i + 1] = t[i]
      /\ \A i \in 1 .. Len(p) : i # 1 => i - 1 \in 1 .. Len(t) /\ t[i - 1] = p[i]
      /\ 1 \in 1 .. Len(p) /\ Head(p) = p[1]
  BY TailShifts
<1> HIDE DEF t
<1>2. ASSUME after PROVE \E k \in 1 .. Len(t) : t[k].type = "close"
  <2>1. CASE p[1].type = "open"
    <3>1. PICK k \in 1 .. Len(p) : 1 < k /\ p[k].type = "close"
      BY <1>1, <2>1 DEF Ended
    <3>2. k # 1
      BY <3>1
    <3>3. QED
      BY <1>1, <3>1, <3>2
  <2>2. CASE stands /\ p[1].type # "close"
    <3>1. PICK k \in 1 .. Len(p) : p[k].type = "close"
      BY <2>2 DEF Ended
    <3>2. QED
      BY <1>1, <2>2, <3>1
  <2>3. QED
    BY <1>1, <1>2, <2>1, <2>2
<1>3. ASSUME NEW i \in 1 .. Len(t), t[i].type = "open"
      PROVE  \E k \in 1 .. Len(t) : i < k /\ t[k].type = "close"
  <2>1. i + 1 \in 1 .. Len(p) /\ p[i + 1].type = "open"
    BY <1>1, <1>3
  <2>2. PICK k \in 1 .. Len(p) : i + 1 < k /\ p[k].type = "close"
    BY <2>1 DEF Ended
  <2>3. k # 1 /\ i < k - 1
    BY <2>1, <2>2
  <2>4. QED
    BY <1>1, <2>2, <2>3
<1>4. QED
  BY <1>2, <1>3 DEF Ended, t

LEMMA ReopenedTaken ==
    ASSUME NEW p \in Seq(Messages), p # <<>>, Reopened(p)
    PROVE  Reopened(Tail(p))
<1> DEFINE t == Tail(p)
<1>1. /\ Len(p) \in Nat \ {0} /\ Len(t) = Len(p) - 1
      /\ \A i \in 1 .. Len(t) : i + 1 \in 1 .. Len(p) /\ p[i + 1] = t[i]
      /\ \A i \in 1 .. Len(p) : i # 1 => i - 1 \in 1 .. Len(t) /\ t[i - 1] = p[i]
      /\ 1 \in 1 .. Len(p) /\ Head(p) = p[1]
  BY TailShifts
<1> HIDE DEF t
<1>2. ASSUME NEW k \in 1 .. Len(t), t[k].type = "close"
      PROVE  \E i \in 1 .. Len(t) : k < i /\ t[i].type = "open"
  <2>1. k + 1 \in 1 .. Len(p) /\ p[k + 1].type = "close"
    BY <1>1, <1>2
  <2>2. PICK i \in 1 .. Len(p) : k + 1 < i /\ p[i].type = "open"
    BY <2>1 DEF Reopened
  <2>3. i # 1 /\ k < i - 1
    BY <2>1, <2>2
  <2>4. QED
    BY <1>1, <2>2, <2>3
<1>3. QED
  BY <1>2 DEF Reopened, t

LEMMA SinceCounted ==
    ASSUME NEW p \in Seq(Messages), NEW i
    PROVE  /\ IsFiniteSet(Since(p, i)) /\ Cardinality(Since(p, i)) \in Nat
           /\ Since(p, i) \subseteq 1 .. Len(p)
<1>1. Len(p) \in Nat /\ IsFiniteSet(1 .. Len(p))
  BY FS_Interval
<1>2. Since(p, i) \in SUBSET (1 .. Len(p))
  BY DEF Since
<1>3. IsFiniteSet(Since(p, i))
  BY <1>1, <1>2, FS_Subset
<1>4. QED
  BY <1>2, <1>3, FS_CardinalityType

LEMMA SinceAppend ==
    ASSUME NEW p \in Seq(Messages), NEW m \in Messages, NEW i \in 0 .. Len(p)
    PROVE  Cardinality(Since(Append(p, m), i))
              = Cardinality(Since(p, i)) + (IF m.type = "change" THEN 1 ELSE 0)
<1> DEFINE u == Append(p, m)
           n == Len(p) + 1
<1>1. /\ Len(p) \in Nat /\ Len(u) = n /\ n \in Nat
      /\ \A k \in 1 .. Len(p) : u[k] = p[k]
      /\ u[n] = m
  BY AppendAt
<1>2. /\ \A k \in 1 .. Len(p) : k \in 1 .. n /\ k # n
      /\ n \in 1 .. n /\ i < n
      /\ \A k \in 1 .. n : k \in 1 .. Len(p) \/ k = n
  BY <1>1
<1>3. IsFiniteSet(Since(p, i)) /\ n \notin Since(p, i) /\ Cardinality(Since(p, i)) \in Nat
  BY <1>2, SinceCounted
<1> HIDE DEF u, n
<1>4. CASE m.type = "change"
  <2>1. Since(u, i) = Since(p, i) \cup {n}
    BY <1>1, <1>2, <1>4 DEF Since
  <2>2. QED
    BY <1>3, <1>4, <2>1, FS_AddElement DEF u
<1>5. CASE m.type # "change"
  <2>1. Since(u, i) = Since(p, i)
    BY <1>1, <1>2, <1>5 DEF Since
  <2>2. QED
    BY <1>3, <1>5, <2>1 DEF u
<1>6. QED
  BY <1>4, <1>5

LEMMA SinceTaken ==
    ASSUME NEW p \in Seq(Messages), p # <<>>, NEW i \in Nat
    PROVE  Cardinality(Since(Tail(p), i)) = Cardinality(Since(p, i + 1))
<1> DEFINE t == Tail(p)
           A == Since(t, i)
           B == Since(p, i + 1)
           f == [k \in A |-> k + 1]
<1>1. /\ Len(p) \in Nat \ {0} /\ Len(t) = Len(p) - 1
      /\ \A k \in 1 .. Len(t) : k + 1 \in 1 .. Len(p) /\ p[k + 1] = t[k]
      /\ \A k \in 1 .. Len(p) : k # 1 => k - 1 \in 1 .. Len(t) /\ t[k - 1] = p[k]
  BY TailShifts
<1>2. t \in Seq(Messages)
  BY TailAt
<1>3. IsFiniteSet(A) /\ A \subseteq 1 .. Len(t) /\ B \subseteq 1 .. Len(p)
  BY <1>2, SinceCounted
<1> HIDE DEF t
<1>4. ASSUME NEW k \in A PROVE k + 1 \in B
  BY <1>1, <1>4 DEF Since
<1>5. ASSUME NEW k \in B PROVE k - 1 \in A
  <2>1. k \in 1 .. Len(p) /\ i + 1 < k /\ p[k].type = "change"
    BY <1>5 DEF Since
  <2>2. k # 1 /\ i < k - 1
    BY <2>1
  <2>3. k - 1 \in 1 .. Len(t) /\ t[k - 1] = p[k]
    BY <1>1, <2>1, <2>2
  <2>4. QED
    BY <2>1, <2>2, <2>3 DEF Since
<1>6. f \in Bijection(A, B)
  <2>1. \A k \in A : k \in Nat
    BY <1>1, <1>3
  <2>2. f \in [A -> B]
    BY <1>4
  <2>3. \A k \in A, l \in A : f[k] = f[l] => k = l
    BY <2>1
  <2>4. \A k \in B : \E l \in A : f[l] = k
    <3>1. SUFFICES ASSUME NEW k \in B PROVE \E l \in A : f[l] = k
      OBVIOUS
    <3>2. k - 1 \in A /\ k \in Nat
      BY <1>1, <1>3, <1>5
    <3>3. f[k - 1] = k
      BY <3>2
    <3>4. QED
      BY <3>2, <3>3
  <2> HIDE DEF f, A, B
  <2>5. QED
    BY <2>2, <2>3, <2>4, Fun_IsBij
<1>7. ExistsBijection(A, B)
  BY <1>6 DEF ExistsBijection
<1>8. QED
  BY <1>3, <1>7, FS_Bijection DEF t

(* What the message in front takes off the count.                          *)
LEMMA SinceFront ==
    ASSUME NEW p \in Seq(Messages), p # <<>>
    PROVE  Cardinality(Since(p, 0))
              = Cardinality(Since(Tail(p), 0)) + (IF Head(p).type = "change" THEN 1 ELSE 0)
<1>1. Len(p) \in Nat \ {0} /\ 1 \in 1 .. Len(p) /\ Head(p) = p[1]
  BY TailShifts
<1>2. Cardinality(Since(Tail(p), 0)) = Cardinality(Since(p, 1))
  <2>1. Cardinality(Since(Tail(p), 0)) = Cardinality(Since(p, 0 + 1))
    BY SinceTaken
  <2>2. QED
    BY <2>1
<1>3. /\ IsFiniteSet(Since(p, 1)) /\ Cardinality(Since(p, 1)) \in Nat
      /\ 1 \notin Since(p, 1)
  BY SinceCounted DEF Since
<1>4. CASE Head(p).type = "change"
  <2>1. Since(p, 0) = Since(p, 1) \cup {1}
    BY <1>1, <1>4 DEF Since
  <2>2. QED
    BY <1>2, <1>3, <1>4, <2>1, FS_AddElement
<1>5. CASE Head(p).type # "change"
  <2>1. Since(p, 0) = Since(p, 1)
    BY <1>1, <1>5 DEF Since
  <2>2. QED
    BY <1>2, <1>3, <1>5, <2>1
<1>6. QED
  BY <1>4, <1>5

LEMMA NewestAppend ==
    ASSUME NEW p \in Seq(Messages), NEW m \in Messages, NEW of, NEW edits \in Nat,
           Newest(p, of, edits), m.type # "open"
    PROVE  Newest(Append(p, m), of, edits + (IF m.type = "change" THEN 1 ELSE 0))
<1> DEFINE u == Append(p, m)
           more == edits + (IF m.type = "change" THEN 1 ELSE 0)
<1>1. /\ Len(p) \in Nat /\ Len(u) = Len(p) + 1
      /\ \A i \in 1 .. Len(p) : u[i] = p[i]
      /\ u[Len(p) + 1] = m
  BY AppendAt
<1>2. \A i \in 1 .. Len(p) : i \in 1 .. Len(u)
  BY <1>1
<1> SUFFICES ASSUME NEW i \in 1 .. Len(u), u[i].type = "open",
                    \A j \in 1 .. Len(u) : i < j => u[j].type # "open"
             PROVE  u[i].of = of /\ more = Cardinality(Since(u, i))
  BY DEF Newest
<1>3. i \in 1 .. Len(p)
  BY <1>1
<1> HIDE DEF u, more
<1>4. p[i].type = "open" /\ \A j \in 1 .. Len(p) : i < j => p[j].type # "open"
  BY <1>1, <1>2, <1>3
<1>5. p[i].of = of /\ edits = Cardinality(Since(p, i))
  BY <1>3, <1>4 DEF Newest
<1>6. i \in 0 .. Len(p)
  BY <1>1, <1>3
<1>7. Cardinality(Since(u, i))
          = Cardinality(Since(p, i)) + (IF m.type = "change" THEN 1 ELSE 0)
  BY <1>6, SinceAppend DEF u
<1>8. QED
  BY <1>1, <1>3, <1>5, <1>7 DEF more

LEMMA NewestOpen ==
    ASSUME NEW p \in Seq(Messages), NEW m \in Messages, m.type = "open"
    PROVE  Newest(Append(p, m), m.of, 0)
<1> DEFINE u == Append(p, m)
           n == Len(p) + 1
<1>1. /\ Len(p) \in Nat /\ Len(u) = n /\ n \in Nat /\ u[n] = m /\ n \in 1 .. Len(u)
      /\ u \in Seq(Messages)
  BY AppendAt
<1> SUFFICES ASSUME NEW i \in 1 .. Len(u), u[i].type = "open",
                    \A j \in 1 .. Len(u) : i < j => u[j].type # "open"
             PROVE  u[i].of = m.of /\ 0 = Cardinality(Since(u, i))
  BY DEF Newest
<1> HIDE DEF u, n
<1>2. i = n
  BY <1>1
<1>3. Since(u, i) = {}
  BY <1>1, <1>2 DEF Since
<1>4. QED
  BY <1>1, <1>2, <1>3, FS_EmptySet

LEMMA NewestTaken ==
    ASSUME NEW p \in Seq(Messages), p # <<>>, NEW of, NEW edits, Newest(p, of, edits)
    PROVE  Newest(Tail(p), of, edits)
<1> DEFINE t == Tail(p)
<1>1. /\ Len(p) \in Nat \ {0} /\ Len(t) = Len(p) - 1
      /\ \A i \in 1 .. Len(t) : i + 1 \in 1 .. Len(p) /\ p[i + 1] = t[i]
      /\ \A i \in 1 .. Len(p) : i # 1 => i - 1 \in 1 .. Len(t) /\ t[i - 1] = p[i]
  BY TailShifts
<1> SUFFICES ASSUME NEW i \in 1 .. Len(t), t[i].type = "open",
                    \A j \in 1 .. Len(t) : i < j => t[j].type # "open"
             PROVE  t[i].of = of /\ edits = Cardinality(Since(t, i))
  BY DEF Newest
<1> HIDE DEF t
<1>2. i + 1 \in 1 .. Len(p) /\ p[i + 1] = t[i] /\ i \in Nat
  BY <1>1
<1>3. ASSUME NEW j \in 1 .. Len(p), i + 1 < j PROVE p[j].type # "open"
  <2>1. j # 1 /\ i < j - 1
    BY <1>2, <1>3
  <2>2. QED
    BY <1>1, <1>3, <2>1
<1>4. p[i + 1].of = of /\ edits = Cardinality(Since(p, i + 1))
  BY <1>2, <1>3 DEF Newest
<1>5. QED
  BY <1>2, <1>4, SinceTaken DEF t

(***************************************************************************)
(* The opens and closes alternate, on both sides of the pipe.              *)
(***************************************************************************)
(* A document is before the companion, by what it has of it.               *)
Stands(c) ==
    \/ c.unarrived # NoDocument
    \/ c.bridge # "none"
    \/ ~c.late /\ c.document # NoDocument

(* What is kept back is not placed, and only a late document outlives its  *)
(* session or stands beside one that is kept back.                         *)
Apart(c) ==
    /\ c.session = 0 /\ c.document # NoDocument => c.late
    /\ c.unarrived # NoDocument =>
          c.bridge = "none" /\ (c.document # NoDocument => c.late)

Turns ==
    /\ InTurn(toCompanion, Stands(companion))
    /\ front.standing = "live" /\ front.doc = 0 => Ended(toCompanion, Stands(companion))
    /\ SaysLive(companion.sent) => ~Stands(companion)
    /\ front.doc # 0 => Reopened(toCompanion) /\ Newest(toCompanion, front.doc, front.edits)
    /\ Apart(companion)

LEMMA KeepsStands ==
    ASSUME NEW c, NEW d, KeepsAll(c, d)
    PROVE  (Stands(d) <=> Stands(c)) /\ (Apart(c) => Apart(d))
BY DEF KeepsAll, KeepsSession, KeepsMirror, KeepsRoom, Stands, Apart

LEMMA StandsTyped == \A c : Stands(c) \in BOOLEAN
BY DEF Stands

LEMMA TurnsLess ==
    ASSUME NEW p, NEW before \in BOOLEAN, NEW after \in BOOLEAN, after => before
    PROVE  /\ InTurn(p, before) => InTurn(p, after)
           /\ Ended(p, before) => Ended(p, after)
BY DEF InTurn, Ended

(* The front-end says something other than an open.                        *)
LEMMA TurnsAppended ==
    ASSUME Base, Turns, NEW m \in Messages, m.type # "open",
           toCompanion' = Append(toCompanion, m),
           KeepsAll(companion, companion'),
           SaysLive(companion'.sent) => SaysLive(companion.sent),
           front'.standing = "live" /\ front'.doc = 0 =>
              m.type = "close" \/ (front.standing = "live" /\ front.doc = 0),
           front'.doc # 0 =>
              /\ m.type # "close" /\ front'.doc = front.doc
              /\ front'.edits = front.edits + (IF m.type = "change" THEN 1 ELSE 0)
    PROVE  Turns'
<1> DEFINE p == toCompanion
           stands == Stands(companion)
<1>1. /\ p \in Seq(Messages) /\ stands \in BOOLEAN /\ front.edits \in Nat
      /\ toCompanion' = Append(p, m)
  BY BaseFacts, StandsTyped
<1>2. (Stands(companion') <=> Stands(companion)) /\ (Apart(companion) => Apart(companion'))
  BY KeepsStands
<1>3. Stands(companion') = stands /\ Apart(companion')
  BY <1>2, StandsTyped DEF Turns
<1>4. InTurn(p, stands) /\ (front.standing = "live" /\ front.doc = 0 => Ended(p, stands))
      /\ (front.doc # 0 => Reopened(p) /\ Newest(p, front.doc, front.edits))
      /\ (SaysLive(companion.sent) => ~stands)
  BY DEF Turns
<1> HIDE DEF p, stands
<1>5. InTurn(Append(p, m), stands)
  BY <1>1, <1>4, InTurnAppend
<1>6. front'.standing = "live" /\ front'.doc = 0 => Ended(Append(p, m), stands)
  BY <1>1, <1>4, EndedAppend
<1>7. ASSUME front'.doc # 0
      PROVE  Reopened(Append(p, m)) /\ Newest(Append(p, m), front'.doc, front'.edits)
  <2>1. front.doc # 0
    BY <1>7
  <2>2. Reopened(Append(p, m))
    BY <1>1, <1>4, <1>7, <2>1, ReopenedAppend
  <2>3. Newest(Append(p, m), front.doc, front.edits + (IF m.type = "change" THEN 1 ELSE 0))
    BY <1>1, <1>4, <2>1, NewestAppend
  <2>4. QED
    BY <1>7, <2>2, <2>3
<1>8. QED
  BY <1>1, <1>3, <1>4, <1>5, <1>6, <1>7 DEF Turns

(* Nothing is said or taken, and no document newly stands.                 *)
LEMMA TurnsQuiet ==
    ASSUME Base, Turns, toCompanion' = toCompanion,
           Stands(companion') => Stands(companion), Apart(companion'),
           SaysLive(companion'.sent) => SaysLive(companion.sent),
           front'.standing = "live" /\ front'.doc = 0 => Ended(toCompanion, Stands(companion)),
           front'.doc # 0 => front'.doc = front.doc /\ front'.edits = front.edits
    PROVE  Turns'
<1> DEFINE p == toCompanion
           before == Stands(companion)
           after == Stands(companion')
<1>1. before \in BOOLEAN /\ after \in BOOLEAN /\ (after => before)
  BY StandsTyped
<1>2. InTurn(p, before) /\ (front'.standing = "live" /\ front'.doc = 0 => Ended(p, before))
  BY DEF Turns
<1> HIDE DEF p, before, after
<1>3. InTurn(p, after) /\ (front'.standing = "live" /\ front'.doc = 0 => Ended(p, after))
  BY <1>1, <1>2, TurnsLess
<1>4. QED
  BY <1>3 DEF Turns, p, after

(* The companion takes the message in front.                               *)
LEMMA TurnsTaken ==
    ASSUME Base, Turns, toCompanion # <<>>, toCompanion' = Tail(toCompanion), front' = front,
           Stands(companion') =>
              \/ Head(toCompanion).type = "open"
              \/ Stands(companion) /\ Head(toCompanion).type # "close",
           Apart(companion'),
           SaysLive(companion'.sent) => ~Stands(companion')
    PROVE  Turns'
<1> DEFINE p == toCompanion
           before == Stands(companion)
           after == Stands(companion')
<1>1. /\ p \in Seq(Messages) /\ p # <<>> /\ toCompanion' = Tail(p)
      /\ before \in BOOLEAN /\ after \in BOOLEAN
      /\ after => Head(p).type = "open" \/ (before /\ Head(p).type # "close")
  BY BaseFacts, StandsTyped
<1>2. InTurn(p, before) /\ (front.standing = "live" /\ front.doc = 0 => Ended(p, before))
      /\ (front.doc # 0 => Reopened(p) /\ Newest(p, front.doc, front.edits))
  BY DEF Turns
<1> HIDE DEF p, before, after
<1>3. InTurn(Tail(p), after)
  BY <1>1, <1>2, InTurnTaken
<1>4. front.standing = "live" /\ front.doc = 0 => Ended(Tail(p), after)
  BY <1>1, <1>2, EndedTaken
<1>5. front.doc # 0 => Reopened(Tail(p)) /\ Newest(Tail(p), front.doc, front.edits)
  BY <1>1, <1>2, ReopenedTaken, NewestTaken
<1>6. QED
  BY <1>1, <1>3, <1>4, <1>5 DEF Turns, after

(* No document stands when one is taken off the pipe.                      *)
LEMMA OpenedOverNone ==
    ASSUME Base, Turns, toCompanion # <<>>, Head(toCompanion).type = "open"
    PROVE  ~Stands(companion) /\ ~SaysLive(companion.sent)
<1>1. /\ toCompanion \in Seq(Messages) /\ Len(toCompanion) \in Nat
      /\ 1 \in 1 .. Len(toCompanion) /\ Head(toCompanion) = toCompanion[1]
  <2>1. toCompanion \in Seq(Messages)
    BY BaseFacts
  <2>2. QED
    BY <2>1, TailShifts
<1>2. ~Stands(companion)
  <2>1. \A k \in 1 .. Len(toCompanion) : ~(k < 1)
    BY <1>1
  <2>2. InTurn(toCompanion, Stands(companion))
    BY DEF Turns
  <2>3. QED
    BY <1>1, <2>1, <2>2 DEF InTurn
<1>3. ~SaysLive(companion.sent)
  <2>1. Announced(front.standing, toCompanion, companion.session, companion.sent)
    BY BaseFacts DEF Agreed
  <2>2. QED
    BY <1>1, <2>1 DEF Announced, SaysLive
<1>4. QED
  BY <1>2, <1>3

LEMMA TurnsTakes == ASSUME Base, Turns, Takes PROVE Turns'
<1> DEFINE m == Head(toCompanion)
<1>0. /\ Apart(companion) /\ (SaysLive(companion.sent) => ~Stands(companion))
      /\ companion.session \in Nat /\ companion.started \in Nat
      /\ companion.sent \in Seq(Words)
      /\ companion.document \in {NoDocument} \cup Documents
      /\ companion.unarrived # NoDocument => companion.session # 0
      /\ companion.bridge # "none" => companion.session # 0
      /\ toCompanion # <<>> /\ toCompanion' = Tail(toCompanion) /\ front' = front
  BY BaseFacts, TakesDoes DEF Turns
<1>1. CASE m.type = "start"
  <2>1. /\ companion.session = 0 /\ companion'.session = companion.started + 1
        /\ KeepsMirror(companion, companion') /\ KeepsRoom(companion, companion')
    BY <1>1, TakesStartDoes
  <2>2. ~Stands(companion)
    BY <1>0, <2>1 DEF Stands, Apart
  <2>3. ~Stands(companion') /\ Apart(companion')
    BY <1>0, <2>1, <2>2 DEF Stands, Apart, KeepsMirror, KeepsRoom
  <2>4. QED
    BY <1>0, <2>3, TurnsTaken
<1>2. CASE m.type = "leave"
  <2>1. Left(companion, companion')
    BY <1>2, TakesLeaveDoes, LeftDoes
  <2>2. ~Stands(companion') /\ Apart(companion')
    BY <2>1 DEF Left, Stands, Apart
  <2>3. QED
    BY <1>0, <2>2, TurnsTaken
<1>3. CASE m.type = "open"
  <2>1. ~Stands(companion) /\ ~SaysLive(companion.sent)
    BY <1>0, <1>3, OpenedOverNone
  <2>2. /\ companion.unarrived = NoDocument /\ companion.bridge = "none"
        /\ companion.document # NoDocument => companion.late
    BY <2>1, <1>0, BaseFacts DEF Stands, Companions
  <2>3. companion'.sent = companion.sent
    BY <1>3, TakesOpenDoes DEF KeepsWords
  <2>4. /\ companion'.session = companion.session
        /\ \/ /\ companion.session # 0 /\ companion'.document = companion.document
              /\ companion'.late = companion.late
              /\ companion'.bridge = companion.bridge
           \/ /\ companion'.unarrived = companion.unarrived
              /\ companion.session # 0 \/ companion'.late
    BY <1>3, TakesOpenDoes DEF KeepsSession
  <2>5. Apart(companion')
    BY <2>2, <2>4 DEF Apart
  <2>6. QED
    BY <1>0, <1>3, <2>1, <2>3, <2>5, TurnsTaken
<1>4. CASE m.type = "close"
  <2>1. /\ KeepsSession(companion, companion') /\ KeepsWords(companion, companion')
        /\ companion'.unarrived = NoDocument /\ companion'.late = companion.late
        /\ companion.unarrived # NoDocument =>
              companion'.document = companion.document /\ companion'.bridge = companion.bridge
        /\ companion.unarrived = NoDocument =>
              /\ companion'.document = NoDocument
              /\ companion.session = 0 => companion'.bridge = companion.bridge
              /\ companion.session # 0 => companion'.bridge = "none"
    BY <1>4, TakesCloseDoes DEF KeepsRoom
  <2>2. ~Stands(companion')
    BY <1>0, <2>1 DEF Stands, Apart
  <2>3. Apart(companion')
    BY <1>0, <2>1 DEF Apart, KeepsSession
  <2>4. QED
    BY <1>0, <2>2, <2>3, TurnsTaken
<1>5. CASE m.type \in {"change", "wrote", "saved"}
  <2>1. /\ KeepsSession(companion, companion') /\ KeepsRoom(companion, companion')
        /\ companion'.late = companion.late /\ companion'.sent = companion.sent
        /\ companion'.unarrived # NoDocument => companion.unarrived # NoDocument
        /\ companion'.document # NoDocument => companion.document # NoDocument
    BY <1>5, TakesChangeDoes, TakesWroteDoes, TakesSavedDoes DEF KeepsWords
  <2>2. Stands(companion') => Stands(companion)
    BY <2>1 DEF Stands, KeepsRoom
  <2>3. Apart(companion')
    BY <1>0, <2>1 DEF Apart, KeepsSession, KeepsRoom
  <2>4. QED
    BY <1>0, <1>5, <2>1, <2>2, <2>3, TurnsTaken
<1>6. QED
  BY <1>1, <1>2, <1>3, <1>4, <1>5, TakesCases

LEMMA HearingSays ==
    ASSUME Base, Hearing(companion, companion')
    PROVE  SaysLive(companion'.sent) => SaysLive(companion.sent)
<1>1. companion.sent \in Seq(Words) /\ companion.sent # <<>>
      /\ companion'.sent = Tail(companion.sent)
  BY BaseFacts DEF Hearing
<1>2. QED
  BY <1>1, SaysTaken

(* A word that does not say that a session stands.                         *)
LEMMA SayingSays ==
    ASSUME Base, NEW w \in Words, ~(w.type = "status" /\ w.live),
           companion'.sent = Append(companion.sent, w)
    PROVE  SaysLive(companion'.sent) => SaysLive(companion.sent)
BY BaseFacts, SaysAppended

LEMMA TurnsFront ==
    ASSUME Base, Turns,
           Starts \/ Leaves \/ Shares \/ Closes \/ Types \/ Writes
    PROVE  Turns'
<1>0. KeepsAll(companion, companion) /\ front.edits \in Nat
  BY BaseFacts DEF KeepsAll, KeepsSession, KeepsMirror, KeepsRoom
<1>1. CASE Starts
  <2>1. PICK m \in Messages : m.type = "start" /\ toCompanion' = Append(toCompanion, m)
    BY <1>1, StartsDoes
  <2>2. companion' = companion /\ front'.standing = "asked" /\ front'.doc = 0
    BY <1>1, StartsDoes
  <2>3. QED
    BY <1>0, <2>1, <2>2, TurnsAppended
<1>2. CASE Leaves
  <2>1. PICK m \in Messages : m.type = "leave" /\ toCompanion' = Append(toCompanion, m)
    BY <1>2, LeavesDoes
  <2>2. companion' = companion /\ front'.standing = "idle" /\ front'.doc = 0
    BY <1>2, LeavesDoes
  <2>3. QED
    BY <1>0, <2>1, <2>2, TurnsAppended
<1>3. CASE Shares
  <2>1. PICK m \in Messages : /\ m.type = "open" /\ m.of = spent.opens + 1
                              /\ toCompanion' = Append(toCompanion, m)
    BY <1>3, SharesDoes
  <2>2. /\ companion' = companion /\ front.standing = "live" /\ front.doc = 0
        /\ front'.doc = m.of /\ front'.edits = 0 /\ front'.doc # 0
    <3>1. spent.opens \in Nat
      BY BaseFacts DEF Budgets
    <3>2. QED
      BY <1>3, <2>1, <3>1, SharesDoes
  <2> DEFINE p == toCompanion
             stands == Stands(companion)
  <2>3. /\ p \in Seq(Messages) /\ stands \in BOOLEAN
        /\ InTurn(p, stands) /\ Ended(p, stands)
    BY <2>2, BaseFacts, StandsTyped DEF Turns
  <2> HIDE DEF p, stands
  <2>4. InTurn(Append(p, m), stands) /\ Reopened(Append(p, m)) /\ Newest(Append(p, m), m.of, 0)
    BY <2>1, <2>3, InTurnAppend, ReopenedAppend, NewestOpen
  <2>5. QED
    BY <2>1, <2>2, <2>4 DEF Turns, p, stands
<1>4. CASE Closes
  <2>1. PICK m \in Messages : m.type = "close" /\ toCompanion' = Append(toCompanion, m)
    BY <1>4, ClosesDoes
  <2>2. companion' = companion /\ front'.doc = 0
    BY <1>4, ClosesDoes
  <2>3. QED
    BY <1>0, <2>1, <2>2, TurnsAppended
<1>5. CASE Types
  <2>1. PICK m \in Messages : m.type = "change" /\ toCompanion' = Append(toCompanion, m)
    BY <1>5, TypesDoes
  <2>2. /\ companion' = companion /\ front.doc # 0 /\ front'.doc = front.doc
        /\ front'.edits = front.edits + 1
    BY <1>5, TypesDoes
  <2>3. QED
    BY <1>0, <2>1, <2>2, TurnsAppended
<1>6. CASE Writes
  <2>1. PICK m \in Messages : m.type = "wrote" /\ toCompanion' = Append(toCompanion, m)
    BY <1>6, WritesDoes
  <2>2. /\ KeepsAll(companion, companion') /\ companion'.sent = companion.sent
        /\ front.doc # 0 /\ front'.doc = front.doc /\ front'.edits = front.edits
    BY <1>6, WritesDoes DEF KeepsWords
  <2>3. QED
    BY <1>0, <2>1, <2>2, TurnsAppended
<1>7. QED
  BY <1>1, <1>2, <1>3, <1>4, <1>5, <1>6

LEMMA TurnsHears ==
    ASSUME Base, Turns, SavesIt \/ SavesNothing \/ HearsStatus \/ HearsRefusal
    PROVE  Turns'
<1>0. /\ KeepsAll(companion, companion')
      /\ SaysLive(companion'.sent) => SaysLive(companion.sent)
      /\ front.edits \in Nat
      /\ Apart(companion') /\ (Stands(companion') <=> Stands(companion))
  BY SavesItDoes, SavesNothingDoes, HearsStatusDoes, HearsRefusalDoes, HearingSays,
     BaseFacts, KeepsStands DEF Turns
<1>1. CASE SavesIt
  <2>1. PICK m \in Messages : m.type = "saved" /\ toCompanion' = Append(toCompanion, m)
    BY <1>1, SavesItDoes
  <2>2. front.doc # 0 /\ front'.doc = front.doc /\ front'.edits = front.edits
    BY <1>1, SavesItDoes
  <2>3. QED
    BY <1>0, <2>1, <2>2, TurnsAppended
<1>2. CASE SavesNothing
  <2>1. PICK m \in Messages : m.type = "saved" /\ toCompanion' = Append(toCompanion, m)
    BY <1>2, SavesNothingDoes
  <2>2. front' = front
    BY <1>2, SavesNothingDoes
  <2>3. QED
    BY <1>0, <2>1, <2>2, TurnsAppended
<1>3. CASE HearsRefusal
  <2>1. front'.standing = front.standing /\ front'.doc = 0
    BY <1>3, HearsRefusalDoes
  <2>2. CASE front.doc # 0
    <3>1. PICK m \in Messages : m.type = "close" /\ toCompanion' = Append(toCompanion, m)
      BY <1>3, <2>2, HearsRefusalDoes
    <3>2. QED
      BY <1>0, <2>1, <3>1, TurnsAppended
  <2>3. CASE front.doc = 0
    <3>1. toCompanion' = toCompanion
      BY <1>3, <2>3, HearsRefusalDoes
    <3>2. front'.standing = "live" => Ended(toCompanion, Stands(companion))
      BY <2>1, <2>3 DEF Turns
    <3>3. QED
      BY <1>0, <2>1, <3>1, <3>2, TurnsQuiet
  <2>4. QED
    BY <2>2, <2>3
<1>4. CASE HearsStatus
  <2>1. toCompanion' = toCompanion
    BY <1>4, HearsStatusDoes
  <2>2. CASE ~Head(companion.sent).live
    <3>1. front'.standing # "live" /\ front'.doc = 0
      BY <1>4, <2>2, HearsStatusDoes
    <3>2. QED
      BY <1>0, <2>1, <3>1, TurnsQuiet
  <2>3. CASE Head(companion.sent).live
    <3>1. /\ front'.doc = front.doc /\ companion.sent # <<>>
          /\ Head(companion.sent).type = "status"
      BY <1>4, <2>3, HearsStatusDoes DEF Hearing
    <3>2. companion.sent \in Seq(Words)
      BY BaseFacts
    <3>3. 1 \in 1 .. Len(companion.sent) /\ Head(companion.sent) = companion.sent[1]
      BY <3>1, <3>2, TailAt
    <3>4. SaysLive(companion.sent)
      BY <2>3, <3>1, <3>3 DEF SaysLive
    <3>5. front.standing = "asked" /\ \A j \in 1 .. Len(toCompanion) : toCompanion[j].type = "saved"
      <4>1. Announced(front.standing, toCompanion, companion.session, companion.sent)
        BY BaseFacts DEF Agreed
      <4>2. QED
        BY <2>3, <3>1, <3>3, <4>1 DEF Announced
    <3>6. front'.doc = 0
      BY <3>1, <3>5, BaseFacts
    <3>7. ~Stands(companion)
      BY <3>4 DEF Turns
    <3>8. Ended(toCompanion, Stands(companion))
      BY <3>5, <3>7 DEF Ended
    <3>9. QED
      BY <1>0, <2>1, <3>6, <3>8, TurnsQuiet
  <2>4. QED
    BY <2>2, <2>3
<1>5. QED
  BY <1>1, <1>2, <1>3, <1>4

LEMMA TurnsCompanion ==
    ASSUME Base, Turns,
           RoomEnds \/ TextArrives \/ SessionHolds \/ BridgeHolds \/ HoldRefused
    PROVE  Turns'
<1>0. /\ Apart(companion) /\ companion \in Companions(Sessions)
      /\ front.standing = "live" /\ front.doc = 0 => Ended(toCompanion, Stands(companion))
  BY BaseFacts DEF Turns
<1>1. CASE RoomEnds
  <2>1. /\ Left(companion, companion') /\ toCompanion' = toCompanion /\ front' = front
    BY <1>1, RoomEndsDoes, LeftDoes
  <2>2. ~Stands(companion') /\ Apart(companion')
    BY <2>1 DEF Left, Stands, Apart
  <2>3. SaysLive(companion'.sent) => SaysLive(companion.sent)
    BY <2>1, SaidTyped, SayingSays DEF Left
  <2>4. QED
    BY <1>0, <2>1, <2>2, <2>3, TurnsQuiet
<1>2. CASE TextArrives \/ SessionHolds
  <2>1. /\ toCompanion' = toCompanion /\ front' = front
        /\ KeepsSession(companion, companion') /\ companion'.sent = companion.sent
        /\ \/ Arrived(companion, companion')
           \/ /\ KeepsMirror(companion, companion')
              /\ companion'.bridge # "none" => companion.bridge # "none"
              /\ companion'.unarrived # NoDocument => companion'.bridge = companion.bridge
    BY <1>2, TextArrivesDoes, SessionHoldsDoes DEF KeepsWords, KeepsMirror
  <2>2. CASE Arrived(companion, companion')
    <3>1. Stands(companion) /\ companion'.unarrived = NoDocument
      BY <2>2 DEF Arrived, Stands
    <3>2. companion.session # 0
      BY <2>2, BaseFacts DEF Arrived
    <3>3. Apart(companion')
      BY <2>1, <3>1, <3>2 DEF Apart, KeepsSession
    <3>4. QED
      BY <1>0, <2>1, <3>1, <3>3, TurnsQuiet
  <2>3. CASE ~Arrived(companion, companion')
    <3>1. Stands(companion') => Stands(companion)
      BY <2>1, <2>3 DEF Stands, KeepsMirror
    <3>2. Apart(companion')
      BY <1>0, <2>1, <2>3 DEF Apart, KeepsMirror, KeepsSession
    <3>3. QED
      BY <1>0, <2>1, <3>1, <3>2, TurnsQuiet
  <2>4. QED
    BY <2>2, <2>3
<1>3. CASE BridgeHolds
  <2>1. /\ toCompanion' = toCompanion /\ front' = front
        /\ KeepsSession(companion, companion') /\ KeepsMirror(companion, companion')
        /\ companion'.sent = companion.sent
        /\ companion'.bridge # companion.bridge => companion.bridge # "none"
    BY <1>3, BridgeHoldsDoes DEF HoldAnswered, KeepsWords
  <2>2. Stands(companion') => Stands(companion)
    BY <2>1 DEF Stands, KeepsMirror
  <2>3. Apart(companion')
    BY <1>0, <2>1 DEF Apart, KeepsMirror, KeepsSession
  <2>4. QED
    BY <1>0, <2>1, <2>2, <2>3, TurnsQuiet
<1>4. CASE HoldRefused
  <2>1. /\ toCompanion' = toCompanion /\ front' = front
        /\ KeepsSession(companion, companion')
        /\ companion'.document = companion.document /\ companion'.late = companion.late
        /\ companion'.bridge \in {"none", companion.bridge}
        /\ companion'.unarrived \in {NoDocument, companion.unarrived}
        /\ companion'.sent \in {companion.sent, Append(companion.sent, [type |-> "refusal"])}
    BY <1>4, HoldRefusedDoes
  <2>2. Stands(companion') => Stands(companion)
    BY <2>1 DEF Stands
  <2>3. Apart(companion')
    BY <1>0, <2>1 DEF Apart, KeepsSession
  <2>4. SaysLive(companion'.sent) => SaysLive(companion.sent)
    BY <2>1, SaidTyped, SayingSays
  <2>5. QED
    BY <1>0, <2>1, <2>2, <2>3, <2>4, TurnsQuiet
<1>5. QED
  BY <1>1, <1>2, <1>3, <1>4

(* The writes and the reads leave the mirror, and every word said, alone.  *)
LEMMA AsksDoes ==
    ASSUME Base, SaveFalls \/ Reads \/ Judges
    PROVE  /\ toCompanion' = toCompanion /\ front' = front
           /\ KeepsAll(companion, companion')
           /\ \/ companion'.sent = companion.sent
              \/ /\ companion.document # NoDocument
                 /\ \E guarded, there \in BOOLEAN : Asked(companion, companion', guarded, there)
<1>1. CASE SaveFalls
  <2>1. file \in BOOLEAN
    BY BaseFacts
  <2>2. QED
    BY <1>1, <2>1, SaveFallsDoes DEF KeepsWords, KeepsAll
<1>2. CASE Reads
  BY <1>2, ReadsDoes DEF KeepsWords, KeepsAll
<1>3. CASE Judges
  <2>1. /\ toCompanion' = toCompanion /\ front' = front
        /\ KeepsAll(companion, companion')
    BY <1>3, JudgesDoes DEF KeepsAll
  <2>2. CASE companion'.sent = companion.sent
    BY <2>1, <2>2
  <2>3. CASE companion'.sent # companion.sent
    <3>1. companion.document # NoDocument
      BY <1>3, <2>3, JudgesDoes DEF KeepsWords
    <3>2. PICK k \in DOMAIN companion.reads :
             Asked(companion, companion', TRUE, companion.reads[k].there)
      BY <1>3, <2>3, JudgesDoes DEF KeepsWords
    <3>3. companion.reads[k].there \in BOOLEAN
      <4>1. companion.reads \in Seq(ReadsInFlight) /\ k \in DOMAIN companion.reads
        BY <3>2, BaseFacts
      <4>2. companion.reads[k] \in ReadsInFlight
        BY <4>1
      <4>3. QED
        BY <4>2 DEF ReadsInFlight
    <3>4. QED
      BY <2>1, <3>1, <3>2, <3>3
  <2>4. QED
    BY <2>2, <2>3
<1>4. QED
  BY <1>1, <1>2, <1>3

(* A write that is asked for, or nothing new, is said.                     *)
LEMMA AskedSays ==
    ASSUME Base, NEW guarded \in BOOLEAN, NEW there \in BOOLEAN,
           companion.document # NoDocument,
           Asked(companion, companion', guarded, there)
    PROVE  SaysLive(companion'.sent) => SaysLive(companion.sent)
<1> DEFINE w == [type |-> "save", id |-> companion.nextId + 1,
                 of |-> companion.document.of, guarded |-> guarded, there |-> there]
<1>1. companion.document \in Documents /\ companion.nextId \in Nat
  BY BaseFacts, DocumentIs
<1>2. w \in Words /\ w.type = "save"
  BY <1>1 DEF Words, Documents
<1>3. companion'.sent = Append(companion.sent, w)
  BY DEF Asked
<1> HIDE DEF w
<1>4. QED
  BY <1>2, <1>3, SayingSays

LEMMA AsksSays ==
    ASSUME Base, SaveFalls \/ Reads \/ Judges
    PROVE  SaysLive(companion'.sent) => SaysLive(companion.sent)
<1>1. CASE companion'.sent = companion.sent
  BY <1>1
<1>2. CASE companion'.sent # companion.sent
  <2>1. companion.document # NoDocument
    BY <1>2, AsksDoes
  <2>2. PICK guarded, there \in BOOLEAN : Asked(companion, companion', guarded, there)
    BY <1>2, AsksDoes
  <2>3. QED
    BY <2>1, <2>2, AskedSays
<1>3. QED
  BY <1>1, <1>2

LEMMA TurnsStep == ASSUME Base, Turns, [Next]_vars PROVE Turns'
<1>1. CASE UNCHANGED vars
  BY <1>1 DEF vars, Turns
<1>2. CASE Moves
  <2>1. /\ toCompanion' = toCompanion /\ front' = front
        /\ KeepsAll(companion, companion') /\ companion'.sent = companion.sent
    BY <1>2, MovesDoes DEF KeepsWords
  <2>2. QED
    BY <2>1, KeepsStands, TurnsQuiet DEF Turns
<1>3. CASE SaveFalls \/ Reads \/ Judges
  <2>1. /\ toCompanion' = toCompanion /\ front' = front
        /\ KeepsAll(companion, companion')
    BY <1>3, AsksDoes
  <2>2. QED
    BY <1>3, <2>1, AsksSays, KeepsStands, TurnsQuiet DEF Turns
<1>4. QED
  BY <1>1, <1>2, <1>3, TurnsFront, TurnsHears, TurnsTakes, TurnsCompanion DEF Next

LEMMA TurnsInit == ASSUME Init, Base PROVE Turns
<1>1. /\ front.standing = "idle" /\ front.doc = 0 /\ toCompanion = <<>>
      /\ companion.unarrived = NoDocument /\ companion.bridge = "none"
      /\ companion.document = NoDocument /\ companion.session = 0
  BY DEF Init
<1>2. Len(toCompanion) = 0
  BY <1>1
<1>3. ~Stands(companion) /\ Apart(companion)
  BY <1>1 DEF Stands, Apart
<1>4. QED
  BY <1>1, <1>2, <1>3 DEF Turns, InTurn

LEMMA TurnsHold == Spec => []Turns
<1>1. Init => Base /\ Turns
  BY BaseInit, TurnsInit
<1>2. Base /\ Turns /\ [Next]_vars => Turns'
  BY TurnsStep
<1>3. QED
  BY <1>1, <1>2, BaseHolds, PTL DEF Spec

(***************************************************************************)
(* Every change is counted once.                                           *)
(***************************************************************************)
Refused(q) == \E i \in 1 .. Len(q) : q[i].type = "refusal"

(* The document before the companion is the one numbered `of`, and it has  *)
(* counted all of its `edits` but `waiting` of them.                       *)
Counts(c, of, edits, waiting) ==
    \/ /\ c.unarrived # NoDocument
       /\ c.unarrived.of = of
       /\ c.unarrived.changes + waiting = edits
    \/ /\ c.unarrived = NoDocument
       /\ c.document # NoDocument
       /\ c.document.of = of
       /\ c.document.version + waiting = edits

OnTheWay(p) == Cardinality(Since(p, 0))

Counted ==
    /\ front.doc # 0
    /\ companion.session # 0
    /\ ~companion.late
    /\ ~Refused(companion.sent)
    /\ ~Sent(toCompanion, {"open"})
    => Counts(companion, front.doc, front.edits, OnTheWay(toCompanion))

LEMMA OnTheWayTyped == \A p \in Seq(Messages) : OnTheWay(p) \in Nat
BY SinceCounted DEF OnTheWay

LEMMA OnTheWayAppended ==
    ASSUME NEW p \in Seq(Messages), NEW m \in Messages
    PROVE  OnTheWay(Append(p, m)) = OnTheWay(p) + (IF m.type = "change" THEN 1 ELSE 0)
<1>1. Len(p) \in Nat
  OBVIOUS
<1>2. 0 \in 0 .. Len(p)
  BY <1>1
<1>3. QED
  BY <1>2, SinceAppend DEF OnTheWay

LEMMA OnTheWayTaken ==
    ASSUME NEW p \in Seq(Messages), p # <<>>
    PROVE  OnTheWay(p) = OnTheWay(Tail(p)) + (IF Head(p).type = "change" THEN 1 ELSE 0)
BY SinceFront DEF OnTheWay

LEMMA RefusedHeard ==
    ASSUME Base, Hearing(companion, companion'), Head(companion.sent).type # "refusal"
    PROVE  Refused(companion.sent) => Refused(companion'.sent)
<1> DEFINE q == companion.sent
           u == companion'.sent
<1>1. q \in Seq(Words) /\ q # <<>> /\ u = Tail(q) /\ Head(q).type # "refusal"
  BY BaseFacts DEF Hearing
<1> HIDE DEF q, u
<1>2. /\ Len(q) \in Nat \ {0} /\ Len(u) = Len(q) - 1
      /\ \A i \in 1 .. Len(q) - 1 : u[i] = q[i + 1]
      /\ Head(q) = q[1]
  BY <1>1, TailAt
<1>3. ASSUME Refused(q) PROVE Refused(u)
  <2>1. PICK i \in 1 .. Len(q) : q[i].type = "refusal"
    BY <1>3 DEF Refused
  <2>2. i # 1
    BY <1>1, <1>2, <2>1
  <2>3. i - 1 \in 1 .. Len(u) /\ u[i - 1] = q[i]
    BY <1>2, <2>1, <2>2
  <2>4. QED
    BY <2>1, <2>3 DEF Refused
<1>4. QED
  BY <1>3 DEF q, u

LEMMA RefusedSaid ==
    ASSUME Base, NEW w \in Words, companion'.sent = Append(companion.sent, w)
    PROVE  /\ Refused(companion.sent) => Refused(companion'.sent)
           /\ w.type = "refusal" => Refused(companion'.sent)
<1> DEFINE q == companion.sent
           u == companion'.sent
<1>1. q \in Seq(Words) /\ u = Append(q, w)
  BY BaseFacts
<1> HIDE DEF q, u
<1>2. /\ Len(q) \in Nat /\ Len(u) = Len(q) + 1
      /\ \A i \in 1 .. Len(q) : u[i] = q[i]
      /\ u[Len(q) + 1] = w
  BY <1>1, AppendAt
<1>3. \A i \in 1 .. Len(q) : i \in 1 .. Len(u)
  BY <1>2
<1>4. Len(q) + 1 \in 1 .. Len(u)
  BY <1>2
<1>5. (Refused(q) => Refused(u)) /\ (w.type = "refusal" => Refused(u))
  BY <1>2, <1>3, <1>4 DEF Refused
<1>6. QED
  BY <1>5 DEF q, u

(* The front-end says something other than an open.                        *)
LEMMA CountedAppended ==
    ASSUME Base, Counted, NEW m \in Messages, toCompanion' = Append(toCompanion, m),
           KeepsAll(companion, companion'),
           Refused(companion.sent) => Refused(companion'.sent),
           front'.doc # 0 =>
              /\ front'.doc = front.doc
              /\ front'.edits = front.edits + (IF m.type = "change" THEN 1 ELSE 0)
    PROVE  Counted'
<1>1. SUFFICES ASSUME front'.doc # 0, companion'.session # 0, ~companion'.late,
                      ~Refused(companion'.sent), ~Sent(toCompanion', {"open"})
      PROVE  Counts(companion', front'.doc, front'.edits, OnTheWay(toCompanion'))
  BY DEF Counted
<1>2. /\ toCompanion \in Seq(Messages) /\ front.edits \in Nat
      /\ companion.document \in {NoDocument} \cup Documents
      /\ companion.unarrived \in {NoDocument} \cup KeptBack
  BY BaseFacts
<1>3. ~Sent(toCompanion, {"open"})
  BY <1>1, <1>2, SentAppended
<1>4. Counts(companion, front.doc, front.edits, OnTheWay(toCompanion))
  BY <1>1, <1>3 DEF Counted, KeepsAll, KeepsSession, KeepsMirror
<1>5. OnTheWay(toCompanion') = OnTheWay(toCompanion) + (IF m.type = "change" THEN 1 ELSE 0)
  BY <1>2, OnTheWayAppended
<1>6. OnTheWay(toCompanion) \in Nat
  BY <1>2, OnTheWayTyped
<1>7. /\ companion.unarrived # NoDocument => companion.unarrived.changes \in Nat
      /\ companion.document # NoDocument => companion.document.version \in Nat
  BY <1>2 DEF KeptBack, Documents
<1>8. companion'.unarrived = companion.unarrived /\ companion'.document = companion.document
  BY DEF KeepsAll, KeepsMirror
<1>9. QED
  BY <1>1, <1>4, <1>5, <1>6, <1>7, <1>8, SMTT(30) DEF Counts

LEMMA CountedFront ==
    ASSUME Base, Counted,
           Starts \/ Leaves \/ Shares \/ Closes \/ Types \/ Writes
    PROVE  Counted'
<1>0. KeepsAll(companion, companion) /\ front.edits \in Nat
  BY BaseFacts DEF KeepsAll, KeepsSession, KeepsMirror, KeepsRoom
<1>1. CASE Starts \/ Leaves \/ Closes
  <2>1. front'.doc = 0
    BY <1>1, StartsDoes, LeavesDoes, ClosesDoes
  <2>2. QED
    BY <2>1 DEF Counted
<1>2. CASE Shares
  <2>1. PICK m \in Messages : m.type = "open" /\ toCompanion' = Append(toCompanion, m)
    BY <1>2, SharesDoes
  <2>2. toCompanion \in Seq(Messages)
    BY BaseFacts
  <2>3. Sent(toCompanion', {"open"})
    BY <2>1, <2>2, SentAppended
  <2>4. QED
    BY <2>3 DEF Counted
<1>3. CASE Types
  <2>1. PICK m \in Messages : m.type = "change" /\ toCompanion' = Append(toCompanion, m)
    BY <1>3, TypesDoes
  <2>2. companion' = companion /\ front'.doc = front.doc /\ front'.edits = front.edits + 1
    BY <1>3, TypesDoes
  <2>3. QED
    BY <1>0, <2>1, <2>2, CountedAppended
<1>4. CASE Writes
  <2>1. PICK m \in Messages : m.type = "wrote" /\ toCompanion' = Append(toCompanion, m)
    BY <1>4, WritesDoes
  <2>2. /\ KeepsAll(companion, companion') /\ companion'.sent = companion.sent
        /\ front'.doc = front.doc /\ front'.edits = front.edits
    BY <1>4, WritesDoes DEF KeepsWords
  <2>3. QED
    BY <1>0, <2>1, <2>2, CountedAppended
<1>5. QED
  BY <1>1, <1>2, <1>3, <1>4

LEMMA CountedHears ==
    ASSUME Base, Counted, SavesIt \/ SavesNothing \/ HearsStatus \/ HearsRefusal
    PROVE  Counted'
<1>0. front.edits \in Nat
  BY BaseFacts
<1>1. CASE SavesIt
  <2>1. PICK m \in Messages : m.type = "saved" /\ toCompanion' = Append(toCompanion, m)
    BY <1>1, SavesItDoes
  <2>2. /\ front'.doc = front.doc /\ front'.edits = front.edits
        /\ KeepsAll(companion, companion')
        /\ Refused(companion.sent) => Refused(companion'.sent)
    BY <1>1, SavesItDoes, RefusedHeard
  <2>3. QED
    BY <1>0, <2>1, <2>2, CountedAppended
<1>2. CASE SavesNothing
  <2>1. PICK m \in Messages : m.type = "saved" /\ toCompanion' = Append(toCompanion, m)
    BY <1>2, SavesNothingDoes
  <2>2. /\ front' = front /\ KeepsAll(companion, companion')
        /\ Refused(companion.sent) => Refused(companion'.sent)
    BY <1>2, SavesNothingDoes, RefusedHeard
  <2>3. QED
    BY <1>0, <2>1, <2>2, CountedAppended
<1>3. CASE HearsRefusal
  BY <1>3, HearsRefusalDoes DEF Counted
<1>4. CASE HearsStatus
  <2>1. CASE ~Head(companion.sent).live
    BY <1>4, <2>1, HearsStatusDoes DEF Counted
  <2>2. CASE Head(companion.sent).live
    <3>1. /\ front'.doc = front.doc /\ companion.sent # <<>>
          /\ Head(companion.sent).type = "status"
      BY <1>4, <2>2, HearsStatusDoes DEF Hearing
    <3>2. companion.sent \in Seq(Words)
      BY BaseFacts
    <3>3. 1 \in 1 .. Len(companion.sent) /\ Head(companion.sent) = companion.sent[1]
      BY <3>1, <3>2, TailAt
    <3>4. front.standing = "asked"
      <4>1. Announced(front.standing, toCompanion, companion.session, companion.sent)
        BY BaseFacts DEF Agreed
      <4>2. QED
        BY <2>2, <3>1, <3>3, <4>1 DEF Announced
    <3>5. front'.doc = 0
      BY <3>1, <3>4, BaseFacts
    <3>6. QED
      BY <3>5 DEF Counted
  <2>3. QED
    BY <2>1, <2>2
<1>5. QED
  BY <1>1, <1>2, <1>3, <1>4

(* The companion takes something other than an open or a close.            *)
LEMMA CountedTaken ==
    ASSUME Base, Counted, toCompanion # <<>>, toCompanion' = Tail(toCompanion), front' = front,
           Head(toCompanion).type # "open",
           companion'.session = companion.session, companion'.late = companion.late,
           companion'.sent = companion.sent,
           ~companion.late =>
              \A n \in Nat :
                 Counts(companion, front.doc, front.edits,
                        n + (IF Head(toCompanion).type = "change" THEN 1 ELSE 0))
                    => Counts(companion', front.doc, front.edits, n)
    PROVE  Counted'
<1>1. SUFFICES ASSUME front.doc # 0, companion.session # 0, ~companion.late,
                      ~Refused(companion.sent), ~Sent(toCompanion', {"open"})
      PROVE  Counts(companion', front.doc, front.edits, OnTheWay(toCompanion'))
  BY DEF Counted
<1>2. toCompanion \in Seq(Messages) /\ toCompanion' \in Seq(Messages)
  <2>1. toCompanion \in Seq(Messages)
    BY BaseFacts
  <2>2. QED
    BY <2>1, TailAt
<1>3. ~Sent(toCompanion, {"open"})
  BY <1>1, <1>2, SentTaken
<1>4. Counts(companion, front.doc, front.edits, OnTheWay(toCompanion))
  BY <1>1, <1>3 DEF Counted
<1>5. /\ OnTheWay(toCompanion') \in Nat
      /\ OnTheWay(toCompanion) = OnTheWay(toCompanion')
                                   + (IF Head(toCompanion).type = "change" THEN 1 ELSE 0)
  BY <1>2, OnTheWayTaken, OnTheWayTyped
<1>6. QED
  BY <1>1, <1>4, <1>5

LEMMA CountedTakes == ASSUME Base, Turns, Counted, Takes PROVE Counted'
<1> DEFINE m == Head(toCompanion)
<1>0. /\ toCompanion # <<>> /\ toCompanion' = Tail(toCompanion) /\ front' = front
      /\ toCompanion \in Seq(Messages)
      /\ companion.document \in {NoDocument} \cup Documents
      /\ companion.unarrived \in {NoDocument} \cup KeptBack
      /\ front.edits \in Nat
  BY BaseFacts, TakesDoes
<1>1. CASE m.type = "start"
  <2>1. front.standing = "asked"
    BY <1>1, TakesStartDoes
  <2>2. front.doc = 0
    BY <2>1, BaseFacts
  <2>3. QED
    BY <1>0, <2>2 DEF Counted
<1>2. CASE m.type = "leave"
  <2>1. companion'.session = 0
    BY <1>2, TakesLeaveDoes, LeftDoes DEF Left
  <2>2. QED
    BY <2>1 DEF Counted
<1>3. CASE m.type = "open"
  <2>1. SUFFICES ASSUME front.doc # 0, companion'.session # 0,
                        ~Sent(toCompanion', {"open"})
        PROVE  Counts(companion', front.doc, front.edits, OnTheWay(toCompanion'))
    BY <1>0 DEF Counted
  <2>2. companion.unarrived = NoDocument /\ companion'.session = companion.session
    BY <1>0, <1>3, OpenedOverNone, TakesOpenDoes DEF Stands, KeepsSession
  <2>3. /\ Len(toCompanion) \in Nat \ {0} /\ Len(toCompanion') = Len(toCompanion) - 1
        /\ \A i \in 1 .. Len(toCompanion) :
              i # 1 => i - 1 \in 1 .. Len(toCompanion') /\ toCompanion'[i - 1] = toCompanion[i]
        /\ 1 \in 1 .. Len(toCompanion) /\ m = toCompanion[1]
    BY <1>0, TailShifts
  <2>4. \A j \in 1 .. Len(toCompanion) : 1 < j => toCompanion[j].type # "open"
    BY <2>1, <2>3 DEF Sent
  <2>5. m.of = front.doc /\ front.edits = Cardinality(Since(toCompanion, 1))
    <3>1. Newest(toCompanion, front.doc, front.edits)
      BY <2>1 DEF Turns
    <3>2. QED
      BY <1>3, <2>3, <2>4, <3>1 DEF Newest
  <2>6. front.edits = OnTheWay(toCompanion')
    <3>1. Cardinality(Since(toCompanion', 0)) = Cardinality(Since(toCompanion, 0 + 1))
      BY <1>0, SinceTaken
    <3>2. QED
      BY <2>5, <3>1 DEF OnTheWay
  <2>7. CASE companion'.unarrived = [of |-> m.of, text |-> TRUE,
                                     present |-> m.present, changes |-> 0]
    <3>1. m.of \in Nat \ {0} /\ m.present \in BOOLEAN
      BY <1>3, TakesOpenDoes
    <3>2. companion'.unarrived # NoDocument
      BY <2>7, <3>1 DEF NoDocument
    <3>3. companion'.unarrived.of = front.doc /\ companion'.unarrived.changes = 0
      BY <2>5, <2>7
    <3>4. QED
      BY <1>0, <2>6, <3>2, <3>3 DEF Counts
  <2>8. CASE companion'.unarrived = NoDocument
             /\ companion'.document = MirrorOf(m, 0, companion'.instances)
    <3>1. m.of \in Nat \ {0}
      BY <1>3, TakesOpenDoes
    <3>2. /\ companion'.document.of = front.doc /\ companion'.document.version = 0
          /\ companion'.document # NoDocument
      BY <2>5, <2>8, <3>1 DEF MirrorOf, NoDocument
    <3>3. QED
      BY <1>0, <2>6, <2>8, <3>2 DEF Counts
  <2>9. QED
    BY <1>3, <2>2, <2>7, <2>8, TakesOpenDoes
<1>4. CASE m.type = "close"
  <2>1. SUFFICES ASSUME front.doc # 0, ~Sent(toCompanion', {"open"}) PROVE FALSE
    BY <1>0 DEF Counted
  <2>2. Reopened(toCompanion)
    BY <2>1 DEF Turns
  <2>3. Len(toCompanion) \in Nat \ {0} /\ 1 \in 1 .. Len(toCompanion) /\ m = toCompanion[1]
    BY <1>0, TailShifts
  <2>4. Sent(toCompanion, {"open"})
    BY <1>4, <2>2, <2>3 DEF Reopened, Sent
  <2>5. QED
    BY <1>0, <1>4, <2>1, <2>4, SentTaken
<1>5. CASE m.type = "change"
  <2>1. /\ KeepsSession(companion, companion') /\ KeepsWords(companion, companion')
        /\ companion'.late = companion.late
        /\ companion.document # NoDocument =>
              /\ companion'.document = [companion.document EXCEPT !.version = @ + 1]
              /\ companion'.unarrived = companion.unarrived
        /\ companion.document = NoDocument =>
              /\ companion'.document = NoDocument
              /\ companion.unarrived # NoDocument =>
                    companion'.unarrived = [companion.unarrived EXCEPT !.changes = @ + 1]
              /\ companion.unarrived = NoDocument => companion'.unarrived = NoDocument
    BY <1>5, TakesChangeDoes
  <2>2. ~companion.late /\ companion.unarrived # NoDocument => companion.document = NoDocument
    BY DEF Turns, Apart
  <2>3. /\ \A d \in Documents : /\ [d EXCEPT !.version = @ + 1].of = d.of
                                /\ [d EXCEPT !.version = @ + 1].version = d.version + 1
                                /\ [d EXCEPT !.version = @ + 1] # NoDocument
                                /\ d.version \in Nat
        /\ \A d \in KeptBack : /\ [d EXCEPT !.changes = @ + 1].of = d.of
                               /\ [d EXCEPT !.changes = @ + 1].changes = d.changes + 1
                               /\ [d EXCEPT !.changes = @ + 1] # NoDocument
                               /\ d.changes \in Nat
    BY DEF Documents, KeptBack, NoDocument
  <2>4. ASSUME ~companion.late, NEW n \in Nat,
               Counts(companion, front.doc, front.edits, n + 1)
        PROVE  Counts(companion', front.doc, front.edits, n)
    <3>1. CASE companion.unarrived # NoDocument
      <4>1. companion'.unarrived = [companion.unarrived EXCEPT !.changes = @ + 1]
            /\ companion.unarrived \in KeptBack
        BY <1>0, <2>1, <2>2, <2>4, <3>1
      <4>2. /\ companion'.unarrived.of = companion.unarrived.of
            /\ companion'.unarrived.changes = companion.unarrived.changes + 1
            /\ companion'.unarrived # NoDocument /\ companion.unarrived.changes \in Nat
        BY <2>3, <4>1
      <4>3. /\ companion.unarrived.of = front.doc
            /\ companion.unarrived.changes + (n + 1) = front.edits
        BY <2>4, <3>1 DEF Counts
      <4>4. companion'.unarrived.changes + n = front.edits
        BY <2>4, <4>2, <4>3
      <4>5. QED
        BY <4>2, <4>3, <4>4 DEF Counts
    <3>2. CASE companion.unarrived = NoDocument
      <4>1. companion.document # NoDocument /\ companion.document \in Documents
        BY <1>0, <2>4, <3>2 DEF Counts
      <4>2. /\ companion'.document = [companion.document EXCEPT !.version = @ + 1]
            /\ companion'.unarrived = NoDocument
        BY <2>1, <3>2, <4>1
      <4>3. /\ companion'.document.of = companion.document.of
            /\ companion'.document.version = companion.document.version + 1
            /\ companion'.document # NoDocument /\ companion.document.version \in Nat
        BY <2>3, <4>1, <4>2
      <4>4. /\ companion.document.of = front.doc
            /\ companion.document.version + (n + 1) = front.edits
        BY <2>4, <3>2 DEF Counts
      <4>5. companion'.document.version + n = front.edits
        BY <2>4, <4>3, <4>4
      <4>6. companion'.document # NoDocument
        BY <2>3, <4>1, <4>2
      <4>7. QED
        BY <4>2, <4>3, <4>4, <4>5, <4>6 DEF Counts
    <3>3. QED
      BY <3>1, <3>2
  <2>5. QED
    BY <1>0, <1>5, <2>1, <2>4, CountedTaken DEF KeepsSession, KeepsWords
<1>6. CASE m.type \in {"wrote", "saved"}
  <2>1. /\ KeepsSession(companion, companion') /\ companion'.sent = companion.sent
        /\ companion'.late = companion.late /\ companion'.unarrived = companion.unarrived
        /\ \/ companion'.document = companion.document
           \/ /\ companion.document # NoDocument
              /\ companion'.document = [companion.document EXCEPT !.materialized = TRUE]
    BY <1>6, TakesWroteDoes, TakesSavedDoes DEF KeepsWords
  <2>2. \A d \in Documents : /\ [d EXCEPT !.materialized = TRUE].of = d.of
                             /\ [d EXCEPT !.materialized = TRUE].version = d.version
                             /\ [d EXCEPT !.materialized = TRUE] # NoDocument
    BY DEF Documents, NoDocument
  <2>3. companion.document # NoDocument =>
           /\ companion'.document # NoDocument
           /\ companion'.document.of = companion.document.of
           /\ companion'.document.version = companion.document.version
    BY <1>0, <2>1, <2>2
  <2>4. ASSUME NEW n \in Nat, Counts(companion, front.doc, front.edits, n)
        PROVE  Counts(companion', front.doc, front.edits, n)
    BY <2>1, <2>3, <2>4 DEF Counts
  <2>5. \A n \in Nat : n + (IF m.type = "change" THEN 1 ELSE 0) = n
    BY <1>6
  <2>6. QED
    BY <1>0, <1>6, <2>1, <2>4, <2>5, CountedTaken DEF KeepsSession
<1>7. QED
  BY <1>1, <1>2, <1>3, <1>4, <1>5, <1>6, TakesCases

(* Neither the front-end nor the pipe, and what was counted is kept.       *)
LEMMA CountedQuiet ==
    ASSUME Counted, front' = front, toCompanion' = toCompanion,
           KeepsSession(companion, companion'), companion'.late = companion.late,
           \/ Refused(companion'.sent)
           \/ /\ Refused(companion.sent) => Refused(companion'.sent)
              /\ \A n : Counts(companion, front.doc, front.edits, n)
                           => Counts(companion', front.doc, front.edits, n)
    PROVE  Counted'
BY DEF Counted, KeepsSession

LEMMA CountedCompanion ==
    ASSUME Base, Counted,
           RoomEnds \/ TextArrives \/ SessionHolds \/ BridgeHolds \/ HoldRefused
    PROVE  Counted'
<1>1. CASE RoomEnds
  <2>1. companion'.session = 0
    BY <1>1, RoomEndsDoes, LeftDoes DEF Left
  <2>2. QED
    BY <2>1 DEF Counted
<1>2. CASE TextArrives \/ SessionHolds
  <2>1. /\ toCompanion' = toCompanion /\ front' = front
        /\ KeepsSession(companion, companion') /\ companion'.sent = companion.sent
        /\ companion'.late = companion.late
        /\ Arrived(companion, companion') \/ KeepsMirror(companion, companion')
    BY <1>2, TextArrivesDoes, SessionHoldsDoes DEF KeepsWords, KeepsMirror, Arrived
  <2>2. CASE Arrived(companion, companion')
    <3>1. companion.unarrived \in KeptBack
      BY <2>2, BaseFacts DEF Arrived
    <3>2. /\ companion.unarrived # NoDocument /\ companion'.unarrived = NoDocument
          /\ companion'.document.of = companion.unarrived.of
          /\ companion'.document.version = companion.unarrived.changes
          /\ companion'.document # NoDocument
      BY <2>2, <3>1 DEF Arrived, KeptBack, NoDocument
    <3>3. \A n : Counts(companion, front.doc, front.edits, n)
                    => Counts(companion', front.doc, front.edits, n)
      BY <3>2 DEF Counts
    <3>4. QED
      BY <2>1, <3>3, CountedQuiet
  <2>3. CASE KeepsMirror(companion, companion')
    <3>1. \A n : Counts(companion, front.doc, front.edits, n)
                    => Counts(companion', front.doc, front.edits, n)
      BY <2>3 DEF Counts, KeepsMirror
    <3>2. QED
      BY <2>1, <3>1, CountedQuiet
  <2>4. QED
    BY <2>1, <2>2, <2>3
<1>3. CASE BridgeHolds
  <2>1. /\ toCompanion' = toCompanion /\ front' = front
        /\ KeepsSession(companion, companion') /\ KeepsMirror(companion, companion')
        /\ companion'.sent = companion.sent
    BY <1>3, BridgeHoldsDoes DEF KeepsWords
  <2>2. \A n : Counts(companion, front.doc, front.edits, n)
                  => Counts(companion', front.doc, front.edits, n)
    BY <2>1 DEF Counts, KeepsMirror
  <2>3. QED
    BY <2>1, <2>2, CountedQuiet DEF KeepsMirror
<1>4. CASE HoldRefused
  <2>1. /\ toCompanion' = toCompanion /\ front' = front
        /\ KeepsSession(companion, companion') /\ companion'.late = companion.late
        /\ companion'.document = companion.document
        /\ \/ companion'.sent = companion.sent /\ companion'.unarrived = companion.unarrived
           \/ companion'.sent = Append(companion.sent, [type |-> "refusal"])
    BY <1>4, HoldRefusedDoes
  <2>2. CASE companion'.sent = Append(companion.sent, [type |-> "refusal"])
    <3>1. Refused(companion'.sent)
      BY <2>2, SaidTyped, RefusedSaid
    <3>2. QED
      BY <2>1, <3>1, CountedQuiet
  <2>3. CASE companion'.sent = companion.sent /\ companion'.unarrived = companion.unarrived
    <3>1. \A n : Counts(companion, front.doc, front.edits, n)
                    => Counts(companion', front.doc, front.edits, n)
      BY <2>1, <2>3 DEF Counts
    <3>2. QED
      BY <2>1, <2>3, <3>1, CountedQuiet
  <2>4. QED
    BY <2>1, <2>2, <2>3
<1>5. QED
  BY <1>1, <1>2, <1>3, <1>4

LEMMA AskedRefuses ==
    ASSUME Base, NEW guarded \in BOOLEAN, NEW there \in BOOLEAN,
           companion.document # NoDocument,
           Asked(companion, companion', guarded, there)
    PROVE  Refused(companion.sent) => Refused(companion'.sent)
<1> DEFINE w == [type |-> "save", id |-> companion.nextId + 1,
                 of |-> companion.document.of, guarded |-> guarded, there |-> there]
<1>1. companion.document \in Documents /\ companion.nextId \in Nat
  BY BaseFacts, DocumentIs
<1>2. w \in Words
  BY <1>1 DEF Words, Documents
<1>3. companion'.sent = Append(companion.sent, w)
  BY DEF Asked
<1> HIDE DEF w
<1>4. QED
  BY <1>2, <1>3, RefusedSaid

LEMMA CountedAsks == ASSUME Base, Counted, SaveFalls \/ Reads \/ Judges PROVE Counted'
<1>1. /\ toCompanion' = toCompanion /\ front' = front
      /\ KeepsAll(companion, companion')
  BY AsksDoes
<1>2. Refused(companion.sent) => Refused(companion'.sent)
  <2>1. CASE companion'.sent = companion.sent
    BY <2>1
  <2>2. CASE companion'.sent # companion.sent
    <3>1. companion.document # NoDocument
      BY <2>2, AsksDoes
    <3>2. PICK guarded, there \in BOOLEAN : Asked(companion, companion', guarded, there)
      BY <2>2, AsksDoes
    <3>3. QED
      BY <3>1, <3>2, AskedRefuses
  <2>3. QED
    BY <2>1, <2>2
<1>3. \A n : Counts(companion, front.doc, front.edits, n)
                => Counts(companion', front.doc, front.edits, n)
  BY <1>1 DEF Counts, KeepsAll, KeepsMirror
<1>4. QED
  BY <1>1, <1>2, <1>3, CountedQuiet DEF KeepsAll, KeepsMirror

LEMMA CountedStep == ASSUME Base, Turns, Counted, [Next]_vars PROVE Counted'
<1>1. CASE UNCHANGED vars
  BY <1>1 DEF vars, Counted
<1>2. CASE Moves
  <2>1. /\ toCompanion' = toCompanion /\ front' = front
        /\ KeepsAll(companion, companion') /\ companion'.sent = companion.sent
    BY <1>2, MovesDoes DEF KeepsWords
  <2>2. \A n : Counts(companion, front.doc, front.edits, n)
                  => Counts(companion', front.doc, front.edits, n)
    BY <2>1 DEF Counts, KeepsAll, KeepsMirror
  <2>3. QED
    BY <2>1, <2>2, CountedQuiet DEF KeepsAll, KeepsMirror
<1>3. QED
  BY <1>1, <1>2, CountedFront, CountedHears, CountedTakes, CountedCompanion, CountedAsks
     DEF Next

LEMMA CountedInit == Init => Counted
BY DEF Init, Counted

LEMMA CountedHolds == Spec => []Counted
BY CountedInit, CountedStep, BaseHolds, TurnsHold, PTL DEF Spec

(* Every change the person makes is counted once, also one made while the  *)
(* document was kept back, and none twice (session.ts `changed`,           *)
(* `arrive`), except where a document was opened behind its session's end. *)
THEOREM ChangesAreCounted == Spec => []KeystrokesAreCountedUnlessLate
<1>1. ASSUME Base, Counted PROVE KeystrokesAreCountedUnlessLate
  <2>1. SUFFICES ASSUME ~companion.late, InStep
        PROVE  \/ /\ companion.unarrived # NoDocument
                  /\ companion.unarrived.of = front.doc
                  /\ companion.unarrived.changes
                       + Cardinality({i \in DOMAIN toCompanion : toCompanion[i].type = "change"})
                       = front.edits
               \/ /\ companion.unarrived = NoDocument
                  /\ companion.document # NoDocument
                  /\ companion.document.of = front.doc
                  /\ companion.document.version
                       + Cardinality({i \in DOMAIN toCompanion : toCompanion[i].type = "change"})
                       = front.edits
    BY DEF KeystrokesAreCountedUnlessLate, KeystrokesAreCounted
  <2>2. toCompanion \in Seq(Messages) /\ companion.sent \in Seq(Words)
    BY <1>1, BaseFacts
  <2>3. DOMAIN toCompanion = 1 .. Len(toCompanion) /\ DOMAIN companion.sent = 1 .. Len(companion.sent)
        /\ \A i \in 1 .. Len(toCompanion) : 0 < i
    BY <2>2
  <2>4. {i \in DOMAIN toCompanion : toCompanion[i].type = "change"} = Since(toCompanion, 0)
    BY <2>3 DEF Since
  <2>5. ~Refused(companion.sent) /\ ~Sent(toCompanion, {"open"})
    BY <2>1, <2>3 DEF InStep, Told, Waiting, Refused, Sent
  <2>6. Counts(companion, front.doc, front.edits, OnTheWay(toCompanion))
    BY <1>1, <2>1, <2>5 DEF Counted, InStep
  <2>7. QED
    BY <2>4, <2>6 DEF Counts, OnTheWay
<1>2. Base /\ Counted => KeystrokesAreCountedUnlessLate
  BY <1>1
<1>3. QED
  BY <1>2, BaseHolds, CountedHolds, PTL

(* The types, of which one clause needs that the opens and closes are in   *)
(* turn: of the mirror and the document kept back only one stands, unless  *)
(* an `open` was read behind its session's end.                            *)
THEOREM TypeCorrect == Spec => []TypeOK
<1>1. ASSUME Base, Turns PROVE TypeOK
  <2>1. /\ scenario \in Scenarios /\ front \in Fronts /\ companion \in Companions(Sessions)
        /\ spent \in [Budgets -> Nat] /\ file \in BOOLEAN
    BY <1>1 DEF Base, Typed
  <2>2. Limits \in [Budgets -> Nat]
    BY <1>1, LimitsTyped DEF Base
  <2>3. /\ spent.opens <= Limits.opens /\ spent.edits <= Limits.edits
        /\ front.doc <= spent.opens /\ front.edits <= spent.edits
        /\ spent.opens \in Nat /\ spent.edits \in Nat
        /\ Limits.opens \in Nat /\ Limits.edits \in Nat
    BY <1>1, <2>1, <2>2 DEF Base, Bounded, Budgets
  <2>4. front.doc \in 0 .. Limits.opens /\ front.edits \in 0 .. Limits.edits
    BY <2>1, <2>3 DEF Fronts
  <2>5. front \in [standing : {"idle", "asked", "live"}, doc : 0 .. Limits.opens,
                   edits : 0 .. Limits.edits, kept : BOOLEAN]
    BY <2>1, <2>4 DEF Fronts
  <2>6. companion.session \in {0, companion.started}
    BY <1>1, BaseFacts DEF Agreed
  <2>7. \A id \in DOMAIN companion.saves :
           id <= companion.nextId /\ companion.saves[id] \in 1 .. companion.instances
    <3>1. /\ companion.saves \in Assignments /\ companion.instances \in Nat
          /\ \A id \in DOMAIN companion.saves :
                id <= companion.nextId /\ companion.saves[id] <= companion.instances
      BY <1>1, BaseFacts
    <3>2. \A id \in DOMAIN companion.saves : companion.saves[id] \in Nat \ {0}
      BY <3>1 DEF Assignments
    <3>3. QED
      BY <3>1, <3>2
  <2>8. /\ companion.role \in Roles /\ companion.bridge \in {"none", "unarrived", "open"}
        /\ companion.opens \in [Sessions -> [Askers -> Nat]]
    BY <2>1 DEF Companions
  <2>9. /\ companion.unarrived # NoDocument => companion.session # 0 /\ companion.role = "guest"
        /\ companion.bridge # "none" => companion.session # 0
    BY <1>1, BaseFacts
  <2>10. ~companion.late =>
            companion.document = NoDocument \/ companion.unarrived = NoDocument
    BY <1>1 DEF Turns, Apart
  <2>11. QED
    BY <2>1, <2>5, <2>6, <2>7, <2>8, <2>9, <2>10 DEF TypeOK
<1>2. Base /\ Turns => TypeOK
  BY <1>1
<1>3. QED
  BY <1>2, BaseHolds, TurnsHold, PTL

(***************************************************************************)
(* A hold that stands is owed to a document, or to an answer that is still *)
(* out and gives it back.                                                  *)
(***************************************************************************)
Owed ==
    /\ companion.session # 0 =>
          /\ /\ companion.engines[companion.session].holds
             /\ ~companion.engines[companion.session].refused
             => \/ companion.unarrived # NoDocument
                \/ companion.bridge # "none"
                \/ companion.opens[companion.session]["bridge"] > 0
          /\ companion.bridge # "none" =>
                companion.held \/ companion.opens[companion.session]["bridge"] > 0
    /\ \A s \in Sessions : s > companion.started => ~companion.engines[s].holds

LEMMA SpentGrows ==
    ASSUME Base, [Next]_vars
    PROVE  /\ UNCHANGED scenario
           /\ \A b \in Budgets : spent[b] \in Nat /\ spent'[b] \in Nat /\ spent[b] <= spent'[b]
<1>1. UNCHANGED scenario /\ (spent' = spent \/ \E what \in Budgets : Spend(what))
  <2>1. CASE UNCHANGED vars
    BY <2>1 DEF vars
  <2>2. CASE Starts \/ Leaves \/ Shares \/ Closes \/ Types \/ Writes \/ Moves
    BY <2>2 DEF Starts, Leaves, Shares, Closes, Types, Writes, Moves, Budgets
  <2>3. CASE SavesIt \/ SavesNothing \/ HearsStatus \/ HearsRefusal
    BY <2>3 DEF SavesIt, SavesNothing, HearsStatus, HearsRefusal, Budgets
  <2>4. CASE Takes \/ RoomEnds \/ TextArrives \/ SessionHolds \/ BridgeHolds \/ HoldRefused
    BY <2>4 DEF Takes, RoomEnds, TextArrives, SessionHolds, BridgeHolds, HoldRefused, Budgets
  <2>5. CASE SaveFalls \/ Reads \/ Judges
    BY <2>5 DEF SaveFalls, Reads, Judges, Budgets
  <2>6. QED
    BY <2>1, <2>2, <2>3, <2>4, <2>5 DEF Next
<1>2. spent \in [Budgets -> Nat]
  BY BaseFacts
<1>3. ASSUME NEW what \in Budgets, Spend(what), NEW b \in Budgets
      PROVE  spent'[b] = IF b = what THEN spent[b] + 1 ELSE spent[b]
  BY <1>2, <1>3 DEF Spend
<1>4. \A b \in Budgets : spent[b] \in Nat /\ spent'[b] \in Nat /\ spent[b] <= spent'[b]
  BY <1>1, <1>2, <1>3
<1>5. QED
  BY <1>1, <1>4

LEMMA OwedKept ==
    ASSUME Owed, KeepsAll(companion, companion'), UNCHANGED scenario
    PROVE  Owed'
BY SessionsStay DEF Owed, KeepsAll, KeepsSession, KeepsMirror, KeepsRoom

LEMMA OwedTakes ==
    ASSUME Base, Turns, Owed, Takes, UNCHANGED scenario
    PROVE  Owed'
<1> DEFINE m == Head(toCompanion)
<1>0. /\ Sessions' = Sessions /\ companion.session \in Sessions \cup {0}
      /\ companion.session \in {0, companion.started} /\ companion.started \in Nat
      /\ Sessions \subseteq Nat
  BY SessionsStay, BaseFacts DEF Agreed, Sessions
<1>1. CASE m.type = "start"
  <2>1. /\ companion.session = 0 /\ companion'.session = companion'.started
        /\ companion'.started = companion.started + 1
        /\ companion'.bridge = companion.bridge /\ companion'.engines = companion.engines
    BY <1>1, TakesStartDoes DEF KeepsRoom
  <2>2. companion.bridge = "none"
    BY <2>1, BaseFacts
  <2>3. companion'.session \in Sessions /\ companion'.session > companion.started
    <3>1. toCompanion \in Seq(Messages) /\ toCompanion # <<>>
      BY <1>1, BaseFacts, TakesStartDoes
    <3>2. Sent(toCompanion, {"start"})
      BY <1>1, <3>1, SentTaken
    <3>3. companion.started < spent.sessions
      BY <3>2, BaseFacts DEF Agreed
    <3>4. /\ spent.sessions <= Limits.sessions /\ spent.sessions \in Nat
          /\ Limits.sessions \in Nat
      BY LimitsTyped, BaseFacts DEF Base, Bounded, Budgets
    <3>5. QED
      BY <1>0, <2>1, <3>3, <3>4 DEF Sessions
  <2>4. \A s \in Sessions : s > companion.started + 1 => s > companion.started
    BY <1>0
  <2>5. QED
    BY <1>0, <2>1, <2>2, <2>3, <2>4 DEF Owed
<1>2. CASE m.type = "leave"
  <2>1. Left(companion, companion')
    BY <1>2, TakesLeaveDoes, LeftDoes
  <2>2. QED
    BY <1>0, <2>1 DEF Owed, Left
<1>3. CASE m.type = "open"
  <2>1. KeepsSession(companion, companion')
    BY <1>3, TakesOpenDoes
  <2>2. CASE companion.session = 0
    <3>1. KeepsRoom(companion, companion')
      BY <1>3, <2>2, TakesOpenDoes
    <3>2. QED
      BY <1>0, <2>1, <2>2, <3>1 DEF Owed, KeepsSession, KeepsRoom
  <2>3. CASE companion.session # 0
    <3>1. \/ /\ companion'.unarrived = [of |-> m.of, text |-> TRUE,
                                        present |-> m.present, changes |-> 0]
             /\ companion'.bridge = companion.bridge /\ companion'.held = companion.held
             /\ \A s \in Sessions \ {companion.session} :
                   companion'.engines[s] = companion.engines[s]
             /\ \A s \in Sessions, a \in Askers :
                   companion'.opens[s][a] >= companion.opens[s][a]
          \/ Placed(Sessions, companion, companion')
      BY <1>3, <2>3, TakesOpenDoes
    <3>2. \A s \in Sessions \ {companion.session} :
             companion'.engines[s] = companion.engines[s]
      BY <3>1 DEF Placed
    <3>3. \A s \in Sessions : s > companion.started => ~companion'.engines[s].holds
      BY <1>0, <2>3, <3>2 DEF Owed
    <3>4. CASE Placed(Sessions, companion, companion')
      BY <1>0, <2>1, <3>3, <3>4 DEF Placed, Owed, KeepsSession
    <3>5. CASE ~Placed(Sessions, companion, companion')
      <4>1. companion'.unarrived # NoDocument
        BY <3>1, <3>5 DEF NoDocument
      <4>2. "bridge" \in Askers /\ companion.session \in Sessions
        BY <1>0, <2>3 DEF Askers
      <4>3. companion.opens \in [Sessions -> [Askers -> Nat]]
            /\ companion'.opens \in [Sessions -> [Askers -> Nat]]
        <5>1. /\ companion' = Open(companion, m) /\ companion \in Companions(Sessions)
              /\ m.of \in Nat \ {0} /\ m.text \in BOOLEAN /\ m.present \in BOOLEAN
          BY <1>3, TakesDoes, BaseFacts
        <5>2. companion' \in Companions(Sessions)
          BY <1>0, <5>1, OpenDoes
        <5>3. QED
          BY <5>1, <5>2 DEF Companions
      <4>4. /\ companion.opens[companion.session]["bridge"] \in Nat
            /\ companion'.opens[companion.session]["bridge"] \in Nat
        BY <4>2, <4>3
      <4>5. companion'.opens[companion.session]["bridge"]
               >= companion.opens[companion.session]["bridge"]
        BY <3>1, <3>5, <4>2
      <4>6. companion.opens[companion.session]["bridge"] > 0
               => companion'.opens[companion.session]["bridge"] > 0
        BY <4>4, <4>5
      <4>7. companion'.bridge = companion.bridge /\ companion'.held = companion.held
        BY <3>1, <3>5
      <4>8. QED
        BY <1>0, <2>1, <2>3, <3>3, <4>1, <4>6, <4>7 DEF Owed, KeepsSession
    <3>6. QED
      BY <3>4, <3>5
  <2>4. QED
    BY <2>2, <2>3
<1>4. CASE m.type = "close"
  <2>1. /\ KeepsSession(companion, companion')
        /\ companion'.opens = companion.opens
        /\ \A s \in Sessions \ {companion.session} :
              companion'.engines[s] = companion.engines[s]
        /\ companion.unarrived # NoDocument =>
              /\ companion'.bridge = companion.bridge /\ companion'.held = companion.held
              /\ ~companion'.engines[companion.session].holds
        /\ companion.unarrived = NoDocument =>
              /\ companion.session # 0 =>
                    /\ companion'.bridge = "none" /\ ~companion'.held
                    /\ companion.held => ~companion'.engines[companion.session].holds
                    /\ ~companion.held => companion'.engines = companion.engines
    BY <1>4, TakesCloseDoes
  <2>2. companion.unarrived # NoDocument => companion.session # 0
    BY BaseFacts
  <2>3. \A s \in Sessions : s > companion.started => ~companion'.engines[s].holds
    BY <1>0, <2>1 DEF Owed
  <2>4. QED
    BY <1>0, <2>1, <2>2, <2>3 DEF Owed, KeepsSession
<1>5. CASE m.type \in {"change", "wrote", "saved"}
  <2>1. /\ KeepsSession(companion, companion') /\ KeepsRoom(companion, companion')
        /\ \/ companion'.unarrived = companion.unarrived
           \/ companion'.unarrived = [companion.unarrived EXCEPT !.changes = @ + 1]
    BY <1>5, TakesChangeDoes, TakesWroteDoes, TakesSavedDoes
  <2>2. companion.unarrived # NoDocument => companion'.unarrived # NoDocument
    <3>1. companion.unarrived \in {NoDocument} \cup KeptBack
      BY BaseFacts
    <3>2. \A u \in KeptBack : [u EXCEPT !.changes = @ + 1] # NoDocument
      BY DEF KeptBack, NoDocument
    <3>3. QED
      BY <2>1, <3>1, <3>2
  <2>3. QED
    BY <1>0, <2>1, <2>2 DEF Owed, KeepsSession, KeepsRoom
<1>6. QED
  BY <1>1, <1>2, <1>3, <1>4, <1>5, TakesCases

LEMMA OwedAnswers ==
    ASSUME Base, Owed, UNCHANGED scenario,
           RoomEnds \/ TextArrives \/ SessionHolds \/ BridgeHolds
    PROVE  Owed'
<1>0. /\ Sessions' = Sessions /\ companion.session \in Sessions \cup {0}
      /\ companion.session \in {0, companion.started} /\ companion.started \in Nat
      /\ Sessions \subseteq Nat
  BY SessionsStay, BaseFacts DEF Agreed, Sessions
<1>1. CASE RoomEnds
  <2>1. Left(companion, companion')
    BY <1>1, RoomEndsDoes, LeftDoes
  <2>2. QED
    BY <1>0, <2>1 DEF Owed, Left
<1>2. CASE TextArrives
  <2>1. /\ companion.session \in Sessions /\ companion.session # 0
        /\ KeepsSession(companion, companion') /\ companion'.held = companion.held
        /\ \A s \in Sessions \ {companion.session} :
              companion'.engines[s] = companion.engines[s]
        /\ \/ companion'.opens[companion.session]["bridge"] > 0
           \/ /\ companion'.unarrived = companion.unarrived
              /\ companion'.opens = companion.opens
              /\ companion'.bridge # "none" <=> companion.bridge # "none"
              /\ companion'.engines[companion.session].holds
                     = companion.engines[companion.session].holds
              /\ companion'.engines[companion.session].refused
                     = companion.engines[companion.session].refused
    BY <1>2, TextArrivesDoes DEF KeepsMirror
  <2>2. \A s \in Sessions : s > companion.started => ~companion'.engines[s].holds
    BY <1>0, <2>1 DEF Owed
  <2>3. QED
    BY <1>0, <2>1, <2>2 DEF Owed, KeepsSession
<1>3. CASE SessionHolds
  <2>1. /\ KeepsSession(companion, companion') /\ companion'.held = companion.held
        /\ \A s \in Sessions :
              /\ companion'.opens[s]["bridge"] >= companion.opens[s]["bridge"]
              /\ s # companion.session => companion'.engines[s] = companion.engines[s]
        /\ \/ Arrived(companion, companion')
              /\ companion'.opens[companion.session]["bridge"] > 0
           \/ /\ companion'.unarrived = companion.unarrived
              /\ companion'.bridge = companion.bridge
              /\ companion'.engines = companion.engines
        /\ companion' \in Companions(Sessions)
    BY <1>3, SessionHoldsDoes DEF KeepsMirror
  <2>2. Arrived(companion, companion') => companion.session # 0
    BY BaseFacts DEF Arrived
  <2>3. \A s \in Sessions : s > companion.started => ~companion'.engines[s].holds
    BY <1>0, <2>1, <2>2 DEF Owed
  <2>4. \A s \in Sessions : companion.opens[s]["bridge"] > 0
                                => companion'.opens[s]["bridge"] > 0
    <3>1. \A s \in Sessions : /\ companion.opens[s]["bridge"] \in Nat
                              /\ companion'.opens[s]["bridge"] \in Nat
      BY <2>1, BaseFacts DEF Companions, Askers
    <3>2. QED
      BY <2>1, <3>1
  <2>5. QED
    BY <1>0, <2>1, <2>3, <2>4 DEF Owed, KeepsSession
<1>4. CASE BridgeHolds
  <2>1. /\ KeepsSession(companion, companion') /\ KeepsMirror(companion, companion')
        /\ \E s \in Sessions : HoldAnswered(s, companion, companion')
    BY <1>4, BridgeHoldsDoes
  <2>2. PICK s \in Sessions : HoldAnswered(s, companion, companion')
    BY <2>1
  <2>3. \A t \in Sessions : t > companion.started => ~companion'.engines[t].holds
    BY <2>2 DEF Owed, HoldAnswered
  <2>4. CASE s # companion.session
    <3>1. "bridge" \in Askers
      BY DEF Askers
    <3>2. companion.session # 0 =>
             /\ companion'.engines[companion.session] = companion.engines[companion.session]
             /\ companion'.opens[companion.session]["bridge"]
                   = companion.opens[companion.session]["bridge"]
      BY <1>0, <2>2, <2>4, <3>1 DEF HoldAnswered
    <3>3. companion'.bridge = companion.bridge /\ companion'.held = companion.held
      BY <2>2, <2>4 DEF HoldAnswered
    <3>4. QED
      BY <1>0, <2>1, <2>3, <3>2, <3>3 DEF Owed, KeepsSession, KeepsMirror
  <2>5. CASE s = companion.session
    BY <1>0, <2>1, <2>2, <2>3, <2>5 DEF Owed, HoldAnswered, KeepsSession
  <2>6. QED
    BY <2>4, <2>5
<1>5. QED
  BY <1>1, <1>2, <1>3, <1>4

LEMMA OwedStep == ASSUME Base, Turns, Owed, [Next]_vars PROVE Owed'
<1>1. UNCHANGED scenario
  BY SpentGrows
<1>2. CASE UNCHANGED companion
  <2>1. KeepsAll(companion, companion')
    BY <1>2 DEF KeepsAll, KeepsSession, KeepsMirror, KeepsRoom
  <2>2. QED
    BY <1>1, <2>1, OwedKept
<1>3. UNCHANGED vars \/ Starts \/ Leaves \/ Shares \/ Closes \/ Types => UNCHANGED companion
  BY StartsDoes, LeavesDoes, SharesDoes, ClosesDoes, TypesDoes DEF vars
<1>4. Writes \/ Moves \/ SavesIt \/ SavesNothing \/ HearsStatus \/ HearsRefusal
         => KeepsAll(companion, companion')
  BY WritesDoes, MovesDoes, SavesItDoes, SavesNothingDoes, HearsStatusDoes, HearsRefusalDoes
<1>5. SaveFalls \/ Reads \/ Judges => KeepsAll(companion, companion')
  BY AsksDoes
<1>6. CASE HoldRefused
  <2>1. /\ Sessions' = Sessions /\ KeepsSession(companion, companion')
        /\ companion'.held = companion.held
        /\ \A t \in Sessions : companion'.engines[t].holds = companion.engines[t].holds
    BY <1>1, <1>6, HoldRefusedDoes, SessionsStay
  <2>2. companion.session # 0 =>
           /\ \/ companion'.bridge = "none"
              \/ /\ companion'.bridge = companion.bridge
                 /\ companion'.opens[companion.session]["bridge"]
                        = companion.opens[companion.session]["bridge"]
           /\ \/ companion'.engines[companion.session].refused
              \/ /\ companion'.bridge = companion.bridge
                 /\ companion'.unarrived = companion.unarrived
                 /\ companion'.engines[companion.session]
                        = companion.engines[companion.session]
                 /\ companion'.opens[companion.session]["bridge"]
                        = companion.opens[companion.session]["bridge"]
    BY <1>6, HoldRefusedDoes, BaseFacts
  <2>3. QED
    BY <2>1, <2>2 DEF Owed, KeepsSession
<1>7. QED
  BY <1>1, <1>2, <1>3, <1>4, <1>5, <1>6, OwedKept, OwedTakes, OwedAnswers DEF Next

LEMMA OwedInit == ASSUME Init, Base PROVE Owed
<1>1. companion.session = 0 /\ companion.engines = [s \in Sessions |-> [has |-> FALSE, holds |-> FALSE,
                                         refused |-> FALSE]]
  BY DEF Init
<1>2. QED
  BY <1>1 DEF Owed

LEMMA OwedHolds == Spec => []Owed
<1>1. Init => Base /\ Owed
  BY BaseInit, OwedInit
<1>2. Base /\ Turns /\ Owed /\ [Next]_vars => Owed'
  BY OwedStep
<1>3. QED
  BY <1>1, <1>2, BaseHolds, TurnsHold, PTL DEF Spec

(* When nothing is outstanding, the connection holds the path only if the  *)
(* person has it open: what is closed is given back, by the close or by    *)
(* the answer that comes after it (session.ts `close`, bridge.ts `hold`    *)
(* and `release`), whatever holds were refused before the path was last    *)
(* given up.  A hold the room refused since is left out.                   *)
THEOREM HoldsAreReleased == Spec => []HoldsAreOpen
<1>1. ASSUME Base, Turns, Owed PROVE HoldsAreOpen
  <2>1. SUFFICES ASSUME AtRest, companion.engines[companion.session].holds,
                        ~companion.engines[companion.session].refused, front.doc = 0
        PROVE  FALSE
    BY DEF HoldsAreOpen
  <2>2. Len(toCompanion) = 0
    BY <2>1 DEF AtRest
  <2>3. Ended(toCompanion, Stands(companion))
    BY <1>1, <2>1 DEF Turns, AtRest
  <2>4. ~Stands(companion)
    BY <2>2, <2>3 DEF Ended
  <2>5. companion.opens[companion.session]["bridge"] = 0
    BY <2>1 DEF AtRest, Askers
  <2>6. QED
    BY <1>1, <2>1, <2>4, <2>5 DEF Owed, Stands, AtRest
<1>2. Base /\ Turns /\ Owed => HoldsAreOpen
  BY <1>1
<1>3. QED
  BY <1>2, BaseHolds, TurnsHold, OwedHolds, PTL

(***************************************************************************)
(* The documents are numbered as they are shared, and met in that order.   *)
(***************************************************************************)
(* What a step does to the pipe, short of an open.                         *)
Piped(p, r) ==
    \/ r = p
    \/ p # <<>> /\ r = Tail(p)
    \/ \E m \in Messages : m.type # "open" /\ r = Append(p, m)

LEMMA StepPipe ==
    ASSUME Base, [Next]_vars, ~Shares
    PROVE  Piped(toCompanion, toCompanion')
<1>1. CASE UNCHANGED vars
  BY <1>1 DEF vars, Piped
<1>2. CASE Starts \/ Leaves \/ Closes \/ Types \/ Writes
  BY <1>2, StartsDoes, LeavesDoes, ClosesDoes, TypesDoes, WritesDoes DEF Piped
<1>3. CASE SavesIt \/ SavesNothing
  BY <1>3, SavesItDoes, SavesNothingDoes DEF Piped
<1>4. CASE HearsStatus \/ HearsRefusal \/ Moves
  BY <1>4, HearsStatusDoes, HearsRefusalDoes, MovesDoes DEF Piped
<1>5. CASE Takes
  BY <1>5, TakesDoes DEF Piped
<1>6. CASE RoomEnds \/ TextArrives \/ SessionHolds \/ BridgeHolds \/ HoldRefused
  BY <1>6, RoomEndsDoes, TextArrivesDoes, SessionHoldsDoes, BridgeHoldsDoes, HoldRefusedDoes
     DEF Piped
<1>7. CASE SaveFalls \/ Reads \/ Judges
  BY <1>7, AsksDoes DEF Piped
<1>8. QED
  BY <1>1, <1>2, <1>3, <1>4, <1>5, <1>6, <1>7 DEF Next

(* What a step does to the companion's stdout.                             *)
Spoken(c, d) ==
    \/ d.sent = c.sent /\ d.nextId = c.nextId
    \/ c.sent # <<>> /\ d.sent = Tail(c.sent) /\ d.nextId = c.nextId
    \/ /\ d.nextId = c.nextId
       /\ \E w \in Words : w.type # "save" /\ d.sent = Append(c.sent, w)
    \/ /\ c.document # NoDocument /\ KeepsMirror(c, d)
       /\ \E guarded, there \in BOOLEAN : Asked(c, d, guarded, there)

LEMMA StepWords ==
    ASSUME Base, [Next]_vars
    PROVE  Spoken(companion, companion')
<1>1. CASE UNCHANGED vars \/ Starts \/ Leaves \/ Shares \/ Closes \/ Types
  BY <1>1, StartsDoes, LeavesDoes, SharesDoes, ClosesDoes, TypesDoes DEF vars, Spoken
<1>2. CASE Writes \/ Moves
  BY <1>2, WritesDoes, MovesDoes DEF Spoken, KeepsWords
<1>3. CASE SavesIt \/ SavesNothing \/ HearsStatus \/ HearsRefusal
  BY <1>3, SavesItDoes, SavesNothingDoes, HearsStatusDoes, HearsRefusalDoes
     DEF Spoken, Hearing
<1>4. CASE Takes
  <2> DEFINE m == Head(toCompanion)
  <2>1. CASE m.type = "start"
    BY <1>4, <2>1, TakesStartDoes, SaidTyped DEF Spoken
  <2>2. CASE m.type = "leave"
    BY <1>4, <2>2, TakesLeaveDoes, LeftDoes, SaidTyped DEF Spoken, Left
  <2>3. CASE m.type \in {"open", "close", "change", "wrote", "saved"}
    BY <1>4, <2>3, TakesOpenDoes, TakesCloseDoes, TakesChangeDoes, TakesWroteDoes,
       TakesSavedDoes DEF Spoken, KeepsWords
  <2>4. QED
    BY <1>4, <2>1, <2>2, <2>3, TakesCases
<1>5. CASE RoomEnds
  BY <1>5, RoomEndsDoes, LeftDoes, SaidTyped DEF Spoken, Left
<1>6. CASE TextArrives \/ SessionHolds \/ BridgeHolds
  BY <1>6, TextArrivesDoes, SessionHoldsDoes, BridgeHoldsDoes DEF Spoken, KeepsWords
<1>7. CASE HoldRefused
  BY <1>7, HoldRefusedDoes, SaidTyped DEF Spoken
<1>8. CASE SaveFalls
  <2>1. file \in BOOLEAN
    BY BaseFacts
  <2>2. QED
    BY <1>8, <2>1, SaveFallsDoes DEF Spoken, KeepsWords
<1>9. CASE Reads
  BY <1>9, ReadsDoes DEF Spoken, KeepsWords
<1>10. CASE Judges
  <2>1. CASE KeepsWords(companion, companion')
    BY <2>1 DEF Spoken, KeepsWords
  <2>2. CASE ~KeepsWords(companion, companion')
    <3>1. companion.document # NoDocument /\ KeepsMirror(companion, companion')
      BY <1>10, <2>2, JudgesDoes
    <3>2. PICK k \in DOMAIN companion.reads :
             Asked(companion, companion', TRUE, companion.reads[k].there)
      BY <1>10, <2>2, JudgesDoes
    <3>3. companion.reads[k].there \in BOOLEAN
      <4>1. companion.reads \in Seq(ReadsInFlight) /\ k \in DOMAIN companion.reads
        BY <3>2, BaseFacts
      <4>2. companion.reads[k] \in ReadsInFlight
        BY <4>1
      <4>3. QED
        BY <4>2 DEF ReadsInFlight
    <3>4. QED
      BY <3>1, <3>2, <3>3 DEF Spoken
  <2>3. QED
    BY <2>1, <2>2
<1>11. QED
  BY <1>1, <1>2, <1>3, <1>4, <1>5, <1>6, <1>7, <1>8, <1>9, <1>10 DEF Next

(* What a step does to the mirror: the documents stay or go, the one kept  *)
(* back arrives, or one is taken off the pipe, to be kept back or placed.  *)
Stays(c, d) ==
    /\ \/ d.document = NoDocument
       \/ /\ c.document # NoDocument
          /\ d.document.of = c.document.of
          /\ d.document.instance = c.document.instance
    /\ \/ d.unarrived = NoDocument
       \/ c.unarrived # NoDocument /\ d.unarrived.of = c.unarrived.of
    /\ d.instances = c.instances

OpensNow(p, r, c, d) ==
    /\ p # <<>> /\ r = Tail(p) /\ Head(p).type = "open" /\ Head(p).of \in Nat \ {0}
    /\ c.unarrived = NoDocument
    /\ \/ /\ d.unarrived # NoDocument /\ d.unarrived.of = Head(p).of
          /\ d.document = c.document /\ d.instances = c.instances
       \/ /\ d.unarrived = NoDocument
          /\ d.instances = c.instances + 1
          /\ d.document = MirrorOf(Head(p), 0, d.instances)

LEMMA KeepsStays == \A c, d : KeepsMirror(c, d) => Stays(c, d)
BY DEF KeepsMirror, Stays

LEMMA TakesMirror ==
    ASSUME Base, Turns, Takes
    PROVE  \/ Stays(companion, companion')
           \/ /\ OpensNow(toCompanion, toCompanion', companion, companion')
              /\ KeepsWords(companion, companion')
<1> DEFINE m == Head(toCompanion)
<1>0. /\ companion.document \in {NoDocument} \cup Documents
      /\ companion.unarrived \in {NoDocument} \cup KeptBack
      /\ toCompanion # <<>> /\ toCompanion' = Tail(toCompanion)
  BY BaseFacts, TakesDoes
<1>1. CASE m.type = "start"
  BY <1>1, TakesStartDoes, KeepsStays
<1>2. CASE m.type = "leave"
  BY <1>2, TakesLeaveDoes, LeftDoes DEF Left, Stays
<1>3. CASE m.type = "open"
  <2>1. companion.unarrived = NoDocument
    BY <1>0, <1>3, OpenedOverNone DEF Stands
  <2>2. /\ m.of \in Nat \ {0} /\ m.present \in BOOLEAN
        /\ \/ /\ companion'.unarrived = [of |-> m.of, text |-> TRUE,
                                         present |-> m.present, changes |-> 0]
              /\ companion'.document = companion.document
              /\ companion'.instances = companion.instances
           \/ /\ companion'.unarrived = companion.unarrived
              /\ companion'.instances = companion.instances + 1
              /\ companion'.document = MirrorOf(m, 0, companion'.instances)
    BY <1>3, TakesOpenDoes
  <2>3. [of |-> m.of, text |-> TRUE, present |-> m.present, changes |-> 0] # NoDocument
    BY DEF NoDocument
  <2>4. OpensNow(toCompanion, toCompanion', companion, companion')
    BY <1>0, <1>3, <2>1, <2>2, <2>3 DEF OpensNow
  <2>5. QED
    BY <1>3, <2>4, TakesOpenDoes
<1>4. CASE m.type = "close"
  BY <1>4, TakesCloseDoes DEF Stays
<1>5. CASE m.type = "change"
  <2>1. /\ companion'.instances = companion.instances
        /\ companion.document # NoDocument =>
              /\ companion'.document = [companion.document EXCEPT !.version = @ + 1]
              /\ companion'.unarrived = companion.unarrived
        /\ companion.document = NoDocument =>
              /\ companion'.document = NoDocument
              /\ companion.unarrived # NoDocument =>
                    companion'.unarrived = [companion.unarrived EXCEPT !.changes = @ + 1]
              /\ companion.unarrived = NoDocument => companion'.unarrived = NoDocument
    BY <1>5, TakesChangeDoes
  <2>2. /\ \A d \in Documents : /\ [d EXCEPT !.version = @ + 1].of = d.of
                                /\ [d EXCEPT !.version = @ + 1].instance = d.instance
        /\ \A d \in KeptBack : [d EXCEPT !.changes = @ + 1].of = d.of
    BY DEF Documents, KeptBack
  <2>3. QED
    BY <1>0, <2>1, <2>2 DEF Stays
<1>6. CASE m.type \in {"wrote", "saved"}
  <2>1. /\ companion'.instances = companion.instances
        /\ companion'.unarrived = companion.unarrived
        /\ \/ companion'.document = companion.document
           \/ /\ companion.document # NoDocument
              /\ companion'.document = [companion.document EXCEPT !.materialized = TRUE]
    BY <1>6, TakesWroteDoes, TakesSavedDoes
  <2>2. \A d \in Documents : /\ [d EXCEPT !.materialized = TRUE].of = d.of
                             /\ [d EXCEPT !.materialized = TRUE].instance = d.instance
    BY DEF Documents
  <2>3. QED
    BY <1>0, <2>1, <2>2 DEF Stays
<1>7. QED
  BY <1>1, <1>2, <1>3, <1>4, <1>5, <1>6, TakesCases

LEMMA StepMirror ==
    ASSUME Base, Turns, [Next]_vars
    PROVE  \/ Stays(companion, companion')
           \/ Arrived(companion, companion') /\ KeepsWords(companion, companion')
           \/ /\ OpensNow(toCompanion, toCompanion', companion, companion')
              /\ KeepsWords(companion, companion')
<1>1. CASE UNCHANGED vars \/ Starts \/ Leaves \/ Shares \/ Closes \/ Types
  BY <1>1, StartsDoes, LeavesDoes, SharesDoes, ClosesDoes, TypesDoes DEF vars, Stays
<1>2. CASE Writes \/ Moves \/ SavesIt \/ SavesNothing \/ HearsStatus \/ HearsRefusal
  BY <1>2, WritesDoes, MovesDoes, SavesItDoes, SavesNothingDoes, HearsStatusDoes,
     HearsRefusalDoes, KeepsStays DEF KeepsAll
<1>3. CASE RoomEnds
  BY <1>3, RoomEndsDoes, LeftDoes DEF Left, Stays
<1>4. CASE TextArrives \/ SessionHolds \/ BridgeHolds
  BY <1>4, TextArrivesDoes, SessionHoldsDoes, BridgeHoldsDoes, KeepsStays
<1>5. CASE HoldRefused
  BY <1>5, HoldRefusedDoes DEF Stays
<1>6. CASE SaveFalls \/ Reads \/ Judges
  BY <1>6, AsksDoes, KeepsStays DEF KeepsAll
<1>7. QED
  BY <1>1, <1>2, <1>3, <1>4, <1>5, <1>6, TakesMirror DEF Next

(***************************************************************************)
(* The numbers.                                                            *)
(***************************************************************************)
Above(p, n) == \A i \in 1 .. Len(p) : p[i].type = "open" => n < p[i].of
Upto(p, n) == \A i \in 1 .. Len(p) : p[i].type = "open" => p[i].of <= n
Rising(p) ==
    \A i, j \in 1 .. Len(p) :
        i < j /\ p[i].type = "open" /\ p[j].type = "open" => p[i].of < p[j].of

(* The mirror's document, and those the writes on their way are of.        *)
Known(c) ==
    {n \in Nat \ {0} : \/ n = c.document.of
                       \/ \E i \in 1 .. Len(c.sent) :
                             c.sent[i].type = "save" /\ c.sent[i].of = n}

Numbers ==
    /\ Upto(toCompanion, spent.opens) /\ Rising(toCompanion)
    /\ \A n \in Known(companion) :
          /\ n <= spent.opens /\ Above(toCompanion, n)
          /\ companion.unarrived # NoDocument => n < companion.unarrived.of
    /\ companion.unarrived # NoDocument =>
          /\ companion.unarrived.of <= spent.opens
          /\ Above(toCompanion, companion.unarrived.of)

LEMMA NumbersPiped ==
    ASSUME NEW p \in Seq(Messages), NEW r, Piped(p, r)
    PROVE  /\ \A n : Above(p, n) => Above(r, n)
           /\ \A n : Upto(p, n) => Upto(r, n)
           /\ Rising(p) => Rising(r)
<1>1. CASE r = p
  BY <1>1
<1>2. CASE p # <<>> /\ r = Tail(p)
  <2>1. \A i \in 1 .. Len(r) : i + 1 \in 1 .. Len(p) /\ p[i + 1] = r[i] /\ i \in Nat
    <3>1. /\ Len(p) \in Nat \ {0} /\ Len(r) = Len(p) - 1
          /\ \A i \in 1 .. Len(r) : i + 1 \in 1 .. Len(p) /\ p[i + 1] = r[i]
      BY <1>2, TailShifts
    <3>2. QED
      BY <3>1
  <2>2. /\ \A n : Above(p, n) => Above(r, n)
        /\ \A n : Upto(p, n) => Upto(r, n)
    BY <2>1 DEF Above, Upto
  <2>3. ASSUME Rising(p), NEW i \in 1 .. Len(r), NEW j \in 1 .. Len(r), i < j,
               r[i].type = "open", r[j].type = "open"
        PROVE  r[i].of < r[j].of
    <3>1. i + 1 < j + 1
      BY <2>1, <2>3
    <3>2. QED
      BY <2>1, <2>3, <3>1 DEF Rising
  <2>4. QED
    BY <2>2, <2>3 DEF Rising
<1>3. ASSUME NEW m \in Messages, m.type # "open", r = Append(p, m)
      PROVE  /\ \A n : Above(p, n) => Above(r, n)
             /\ \A n : Upto(p, n) => Upto(r, n)
             /\ Rising(p) => Rising(r)
  <2>1. /\ Len(p) \in Nat /\ Len(r) = Len(p) + 1
        /\ \A i \in 1 .. Len(p) : r[i] = p[i]
        /\ r[Len(p) + 1] = m
    BY <1>3, AppendAt
  <2>2. \A i \in 1 .. Len(r) : r[i].type = "open" => i \in 1 .. Len(p) /\ r[i] = p[i]
    <3>1. \A i \in 1 .. Len(r) : i \in 1 .. Len(p) \/ i = Len(p) + 1
      BY <2>1
    <3>2. QED
      BY <1>3, <2>1, <3>1
  <2>3. QED
    BY <2>2 DEF Above, Upto, Rising
<1>4. QED
  BY <1>1, <1>2, <1>3 DEF Piped

(* The document opened next is before all that are opened after it.        *)
LEMMA NumbersTaken ==
    ASSUME NEW p \in Seq(Messages), p # <<>>, Head(p).type = "open", Rising(p)
    PROVE  /\ Above(Tail(p), Head(p).of)
           /\ \A n : Above(p, n) => n < Head(p).of
           /\ \A n : Upto(p, n) => Head(p).of <= n
<1> DEFINE t == Tail(p)
<1>1. /\ Len(p) \in Nat \ {0} /\ Len(t) = Len(p) - 1
      /\ \A i \in 1 .. Len(t) : i + 1 \in 1 .. Len(p) /\ p[i + 1] = t[i]
      /\ 1 \in 1 .. Len(p) /\ Head(p) = p[1]
  BY TailShifts
<1> HIDE DEF t
<1>2. \A i \in 1 .. Len(t) : 1 < i + 1
  BY <1>1
<1>3. Above(t, Head(p).of)
  BY <1>1, <1>2 DEF Above, Rising
<1>4. QED
  BY <1>1, <1>3 DEF Above, Upto, t

LEMMA KnownSpoken ==
    ASSUME Base, Spoken(companion, companion')
    PROVE  \A n \in Known(companion') : n \in Known(companion) \/ n = companion'.document.of
<1> DEFINE q == companion.sent
           u == companion'.sent
<1>1. SUFFICES ASSUME NEW n \in Nat \ {0}, NEW i \in 1 .. Len(u),
                      u[i].type = "save", u[i].of = n
      PROVE  n \in Known(companion)
  BY DEF Known
<1>2. q \in Seq(Words)
  BY BaseFacts
<1>3. CASE u = q
  BY <1>1, <1>3 DEF Known
<1>4. CASE q # <<>> /\ u = Tail(q)
  <2>1. i + 1 \in 1 .. Len(q) /\ u[i] = q[i + 1]
    <3>1. /\ Len(q) \in Nat \ {0} /\ Len(u) = Len(q) - 1
          /\ \A k \in 1 .. Len(q) - 1 : u[k] = q[k + 1]
      BY <1>2, <1>4, TailAt
    <3>2. QED
      BY <3>1
  <2>2. QED
    BY <1>1, <2>1 DEF Known
<1>5. ASSUME NEW w \in Words, u = Append(q, w),
             w.type = "save" => w.of = companion.document.of
      PROVE  n \in Known(companion)
  <2>1. /\ Len(q) \in Nat /\ Len(u) = Len(q) + 1
        /\ \A k \in 1 .. Len(q) : u[k] = q[k]
        /\ u[Len(q) + 1] = w
    BY <1>2, <1>5, AppendAt
  <2>2. i \in 1 .. Len(q) \/ i = Len(q) + 1
    BY <2>1
  <2>3. CASE i \in 1 .. Len(q)
    BY <1>1, <2>1, <2>3 DEF Known
  <2>4. CASE i = Len(q) + 1
    BY <1>1, <1>5, <2>1, <2>4 DEF Known
  <2>5. QED
    BY <2>2, <2>3, <2>4
<1>6. ASSUME companion.document # NoDocument, NEW guarded \in BOOLEAN, NEW there \in BOOLEAN,
             Asked(companion, companion', guarded, there)
      PROVE  n \in Known(companion)
  <2> DEFINE w == [type |-> "save", id |-> companion.nextId + 1,
                   of |-> companion.document.of, guarded |-> guarded, there |-> there]
  <2>1. companion.document \in Documents /\ companion.nextId \in Nat
    BY <1>6, BaseFacts, DocumentIs
  <2>2. w \in Words /\ w.of = companion.document.of
    BY <2>1 DEF Words, Documents
  <2>3. u = Append(q, w)
    BY <1>6 DEF Asked
  <2> HIDE DEF w
  <2>4. QED
    BY <1>5, <2>2, <2>3
<1>7. QED
  BY <1>3, <1>4, <1>5, <1>6 DEF Spoken

LEMMA KnownDocument ==
    ASSUME Base, companion.document # NoDocument
    PROVE  companion.document.of \in Known(companion)
<1>1. companion.document \in Documents
  BY BaseFacts, DocumentIs
<1>2. QED
  BY <1>1 DEF Documents, Known

LEMMA NumbersStep == ASSUME Base, Turns, Numbers, [Next]_vars PROVE Numbers'
<1>0. /\ toCompanion \in Seq(Messages) /\ companion' \in Companions(Sessions')
      /\ spent.opens \in Nat /\ spent'.opens \in Nat /\ spent.opens <= spent'.opens
      /\ companion.unarrived \in {NoDocument} \cup KeptBack
  <2>1. Base'
    BY BaseStep
  <2>2. companion' \in Companions(Sessions')
    BY <2>1 DEF Base, Typed
  <2>3. "opens" \in Budgets
    BY DEF Budgets
  <2>4. spent.opens \in Nat /\ spent'.opens \in Nat /\ spent.opens <= spent'.opens
    BY <2>3, SpentGrows
  <2>5. QED
    BY <2>2, <2>4, BaseFacts
<1>1. \A n \in Known(companion') : n \in Known(companion) \/ n = companion'.document.of
  BY StepWords, KnownSpoken
<1>2. CASE Shares
  <2>1. PICK m \in Messages : /\ m.type = "open" /\ m.of = spent.opens + 1
                              /\ toCompanion' = Append(toCompanion, m)
    BY <1>2, SharesDoes
  <2>2. companion' = companion /\ spent'.opens = spent.opens + 1
    BY <1>2, SharesDoes
  <2> DEFINE p == toCompanion
             r == toCompanion'
  <2>3. /\ Len(p) \in Nat /\ Len(r) = Len(p) + 1
        /\ \A i \in 1 .. Len(p) : r[i] = p[i] /\ p[i] \in Messages
        /\ r[Len(p) + 1] = m
    BY <1>0, <2>1, AppendAt
  <2>4. \A i \in 1 .. Len(r) : (i \in 1 .. Len(p) /\ i < Len(p) + 1) \/ i = Len(p) + 1
    BY <2>3
  <2>5. \A k \in Messages : k.type = "open" => k.of \in Nat \ {0}
    BY DEF Messages
  <2>6. Upto(p, spent.opens) /\ Rising(p)
    BY DEF Numbers
  <2>7. \A i \in 1 .. Len(p) : p[i].type = "open" => p[i].of <= spent.opens /\ p[i].of \in Nat
    BY <2>3, <2>5, <2>6 DEF Upto
  <2>8. Upto(r, spent'.opens)
    BY <1>0, <2>1, <2>2, <2>3, <2>4, <2>7 DEF Upto
  <2>9. ASSUME NEW i \in 1 .. Len(r), NEW j \in 1 .. Len(r), i < j,
               r[i].type = "open", r[j].type = "open"
        PROVE  r[i].of < r[j].of
    <3>1. i \in 1 .. Len(p)
      BY <2>3, <2>9
    <3>2. CASE j \in 1 .. Len(p)
      BY <2>3, <2>6, <2>9, <3>1, <3>2 DEF Rising
    <3>3. CASE j = Len(p) + 1
      BY <1>0, <2>1, <2>3, <2>7, <2>9, <3>1, <3>3
    <3>4. QED
      BY <2>4, <3>2, <3>3
  <2>10. Rising(r)
    BY <2>9 DEF Rising
  <2>11. ASSUME NEW n \in Nat, n <= spent.opens, Above(p, n) PROVE Above(r, n)
    BY <1>0, <2>1, <2>3, <2>4, <2>11 DEF Above
  <2>12. \A n \in Known(companion) : n \in Nat
    BY DEF Known
  <2>13. companion.unarrived # NoDocument => companion.unarrived.of \in Nat
    BY <1>0 DEF KeptBack
  <2> HIDE DEF p, r
  <2>14. /\ \A n \in Known(companion) :
               /\ n <= spent.opens + 1 /\ Above(r, n)
               /\ companion.unarrived # NoDocument => n < companion.unarrived.of
         /\ companion.unarrived # NoDocument =>
               companion.unarrived.of <= spent.opens + 1 /\ Above(r, companion.unarrived.of)
    BY <1>0, <2>11, <2>12, <2>13 DEF Numbers, p
  <2>15. QED
    BY <2>2, <2>8, <2>10, <2>14 DEF Numbers, r
<1>3. CASE ~Shares
  <2>1. /\ \A n : Above(toCompanion, n) => Above(toCompanion', n)
        /\ \A n : Upto(toCompanion, n) => Upto(toCompanion', n)
        /\ Rising(toCompanion')
    BY <1>0, <1>3, StepPipe, NumbersPiped DEF Numbers
  <2>2. Upto(toCompanion', spent'.opens)
    <3>1. Upto(toCompanion', spent.opens)
      BY <2>1 DEF Numbers
    <3>2. toCompanion' \in Seq(Messages)
      <4>1. Base'
        BY BaseStep
      <4>2. QED
        BY <4>1 DEF Base, Typed
    <3>3. \A i \in 1 .. Len(toCompanion') : toCompanion'[i] \in Messages
      BY <3>2
    <3>4. \A k \in Messages : k.type = "open" => k.of \in Nat
      BY DEF Messages
    <3>5. QED
      BY <1>0, <3>1, <3>3, <3>4 DEF Upto
  <2>3. \A n \in Known(companion) : n \in Nat /\ n <= spent'.opens /\ Above(toCompanion', n)
    <3>1. \A n \in Known(companion) : n \in Nat /\ n <= spent.opens /\ Above(toCompanion, n)
      BY DEF Numbers, Known
    <3>2. QED
      BY <1>0, <2>1, <3>1
  <2>4. companion.unarrived # NoDocument =>
           /\ companion.unarrived.of \in Nat /\ companion.unarrived.of <= spent'.opens
           /\ Above(toCompanion', companion.unarrived.of)
    <3>1. companion.unarrived # NoDocument =>
             /\ companion.unarrived.of \in Nat /\ companion.unarrived.of <= spent.opens
             /\ Above(toCompanion, companion.unarrived.of)
      BY <1>0 DEF Numbers, KeptBack
    <3>2. QED
      BY <1>0, <2>1, <3>1
  <2>5. CASE Stays(companion, companion')
    <3>1. \A n \in Known(companion') : n \in Known(companion)
      <4>1. companion'.document = NoDocument => companion'.document.of = 0
        BY DEF NoDocument
      <4>2. companion'.document # NoDocument => companion'.document.of \in Known(companion)
        BY <2>5, KnownDocument DEF Stays
      <4>3. 0 \notin Known(companion')
        BY DEF Known
      <4>4. QED
        BY <1>1, <4>1, <4>2, <4>3
    <3>2. QED
      BY <2>1, <2>2, <2>3, <2>4, <2>5, <3>1 DEF Numbers, Stays
  <2>6. CASE Arrived(companion, companion')
    <3>1. /\ companion.unarrived # NoDocument /\ companion'.unarrived = NoDocument
          /\ companion'.document.of = companion.unarrived.of
      BY <2>6 DEF Arrived
    <3>2. \A n \in Known(companion') : n \in Known(companion) \/ n = companion.unarrived.of
      BY <1>1, <3>1
    <3>3. QED
      BY <2>1, <2>2, <2>3, <2>4, <3>1, <3>2 DEF Numbers
  <2>7. CASE OpensNow(toCompanion, toCompanion', companion, companion')
    <3> DEFINE of == Head(toCompanion).of
    <3>1. /\ toCompanion # <<>> /\ Head(toCompanion).type = "open" /\ of \in Nat \ {0}
          /\ toCompanion' = Tail(toCompanion)
      BY <2>7 DEF OpensNow
    <3>2. Rising(toCompanion) /\ Upto(toCompanion, spent.opens)
      BY DEF Numbers
    <3>3. /\ Above(toCompanion', of) /\ of <= spent.opens
          /\ \A n : Above(toCompanion, n) => n < of
      BY <1>0, <3>1, <3>2, NumbersTaken
    <3>4. of <= spent'.opens
      BY <1>0, <3>1, <3>3
    <3>5. \A n \in Known(companion) : n < of
      BY <3>3 DEF Numbers
    <3>6. CASE companion'.unarrived # NoDocument
      <4>1. companion'.unarrived.of = of /\ companion'.document = companion.document
        BY <2>7, <3>6 DEF OpensNow
      <4>2. \A n \in Known(companion') : n \in Known(companion)
        <5>1. \A n \in Known(companion') : n \in Nat \ {0}
          BY DEF Known
        <5>2. \A n \in Nat \ {0} : n = companion.document.of => n \in Known(companion)
          BY DEF Known
        <5>3. QED
          BY <1>1, <4>1, <5>1, <5>2
      <4>3. QED
        BY <2>1, <2>2, <2>3, <3>3, <3>4, <3>5, <4>1, <4>2 DEF Numbers
    <3>7. CASE companion'.unarrived = NoDocument
      <4>1. companion'.document.of = of
        BY <2>7, <3>7 DEF OpensNow, MirrorOf
      <4>2. \A n \in Known(companion') : n \in Known(companion) \/ n = of
        BY <1>1, <4>1
      <4>3. QED
        BY <2>1, <2>2, <2>3, <3>3, <3>4, <3>7, <4>2 DEF Numbers
    <3>8. QED
      BY <3>6, <3>7
  <2>8. QED
    BY <2>5, <2>6, <2>7, StepMirror
<1>4. QED
  BY <1>2, <1>3

LEMMA NumbersInit == ASSUME Init, Base PROVE Numbers
<1>1. /\ toCompanion = <<>> /\ companion.sent = <<>>
      /\ companion.document = NoDocument /\ companion.unarrived = NoDocument
  BY DEF Init
<1>2. Len(toCompanion) = 0 /\ Len(companion.sent) = 0 /\ NoDocument.of = 0
  BY <1>1 DEF NoDocument
<1>3. Known(companion) = {}
  BY <1>1, <1>2 DEF Known
<1>4. QED
  BY <1>1, <1>2, <1>3 DEF Numbers, Upto, Rising

LEMMA NumbersHold == Spec => []Numbers
<1>1. Init => Base /\ Numbers
  BY BaseInit, NumbersInit
<1>2. Base /\ Turns /\ Numbers /\ [Next]_vars => Numbers'
  BY NumbersStep
<1>3. QED
  BY <1>1, <1>2, BaseHolds, TurnsHold, PTL DEF Spec

(***************************************************************************)
(* What a host's mirror says of the folder.                                *)
(***************************************************************************)
(* All of one kind in `r` are in `p`, in their places or a place further.  *)
Within(r, p, type) ==
    \E s \in {0, 1} : \A i \in 1 .. Len(r) :
        r[i].type = type => i + s \in 1 .. Len(p) /\ r[i] = p[i + s]

(* The writes asked for have a number each, and are answered by it.        *)
Ids(p, q, n) ==
    /\ \A i \in 1 .. Len(q) : q[i].type = "save" => q[i].id <= n
    /\ \A i \in 1 .. Len(p) : p[i].type = "saved" => p[i].id <= n
    /\ \A i, j \in 1 .. Len(q) :
          i # j /\ q[i].type = "save" /\ q[j].type = "save" => q[i].id # q[j].id
    /\ \A i, j \in 1 .. Len(p) :
          i # j /\ p[i].type = "saved" /\ p[j].type = "saved" => p[i].id # p[j].id
    /\ \A i \in 1 .. Len(q), j \in 1 .. Len(p) :
          q[i].type = "save" /\ p[j].type = "saved" => q[i].id # p[j].id

(* A write whose answer is for the document the mirror has.                *)
Own(c, id) == id \in DOMAIN c.saves /\ c.saves[id] = c.document.instance

Owns(c) ==
    c.document # NoDocument =>
        \A i \in 1 .. Len(c.sent) : c.sent[i].type = "save" =>
            (c.sent[i].of = c.document.of <=> Own(c, c.sent[i].id))

(* The answer to a write is taken, given, or the write asked for.          *)
AnswerTaken(p, r, c, d) ==
    /\ p # <<>> /\ r = Tail(p) /\ Head(p).type = "saved"
    /\ d.sent = c.sent /\ d.nextId = c.nextId
    /\ DOMAIN d.saves = DOMAIN c.saves \ {Head(p).id}
    /\ \A i \in DOMAIN c.saves \ {Head(p).id} : d.saves[i] = c.saves[i]

AnswerGiven(p, r, c, d) ==
    /\ c.sent # <<>> /\ Head(c.sent).type = "save" /\ d.sent = Tail(c.sent)
    /\ d.nextId = c.nextId /\ d.saves = c.saves
    /\ KeepsMirror(c, d)
    /\ \E m \in Messages : m.type = "saved" /\ m.id = Head(c.sent).id /\ r = Append(p, m)

AskedFor(p, r, c, d) ==
    /\ r = p /\ c.document # NoDocument /\ KeepsMirror(c, d)
    /\ \E guarded, there \in BOOLEAN : Asked(c, d, guarded, there)

Unasked(p, r, c, d) ==
    /\ Within(r, p, "saved") /\ Within(d.sent, c.sent, "save") /\ d.nextId = c.nextId
    /\ d.saves = c.saves \/ d.document = NoDocument

LEMMA WithinSame == \A p, type : Within(p, p, type)
<1>1. ASSUME NEW p, NEW type PROVE Within(p, p, type)
  <2>1. \A i \in 1 .. Len(p) : i + 0 = i
    OBVIOUS
  <2>2. QED
    BY <2>1 DEF Within
<1>2. QED
  BY <1>1

LEMMA WithinTail ==
    ASSUME NEW T, NEW p \in Seq(T), p # <<>>, NEW type
    PROVE  Within(Tail(p), p, type)
<1> DEFINE r == Tail(p)
<1>1. /\ Len(p) \in Nat \ {0} /\ Len(r) = Len(p) - 1
      /\ \A k \in 1 .. Len(p) - 1 : r[k] = p[k + 1]
  BY TailAt
<1>2. \A i \in 1 .. Len(r) : i + 1 \in 1 .. Len(p) /\ r[i] = p[i + 1]
  BY <1>1
<1>3. QED
  BY <1>2 DEF Within

LEMMA WithinAppend ==
    ASSUME NEW T, NEW p \in Seq(T), NEW m \in T, NEW type, m.type # type
    PROVE  Within(Append(p, m), p, type)
<1> DEFINE r == Append(p, m)
<1>1. /\ Len(p) \in Nat /\ Len(r) = Len(p) + 1
      /\ \A k \in 1 .. Len(p) : r[k] = p[k]
      /\ r[Len(p) + 1] = m
  BY AppendAt
<1>2. \A i \in 1 .. Len(r) : r[i].type = type => i + 0 \in 1 .. Len(p) /\ r[i] = p[i + 0]
  BY <1>1
<1>3. QED
  BY <1>2 DEF Within

LEMMA IdsWithin ==
    ASSUME NEW p, NEW q, NEW n, NEW r, NEW u, Ids(p, q, n),
           Within(r, p, "saved"), Within(u, q, "save")
    PROVE  Ids(r, u, n)
<1>1. PICK s \in {0, 1} : \A i \in 1 .. Len(r) :
         r[i].type = "saved" => i + s \in 1 .. Len(p) /\ r[i] = p[i + s]
  BY DEF Within
<1>2. PICK t \in {0, 1} : \A i \in 1 .. Len(u) :
         u[i].type = "save" => i + t \in 1 .. Len(q) /\ u[i] = q[i + t]
  BY DEF Within
<1>3. /\ \A i \in 1 .. Len(u) : u[i].type = "save" => u[i].id <= n
      /\ \A i \in 1 .. Len(r) : r[i].type = "saved" => r[i].id <= n
  BY <1>1, <1>2 DEF Ids
<1>4. \A i, j \in 1 .. Len(u) :
          i # j /\ u[i].type = "save" /\ u[j].type = "save" => u[i].id # u[j].id
  <2>1. ASSUME NEW i \in 1 .. Len(u), NEW j \in 1 .. Len(u), i # j,
               u[i].type = "save", u[j].type = "save"
        PROVE  u[i].id # u[j].id
    <3>1. i + t # j + t
      BY <2>1
    <3>2. /\ i + t \in 1 .. Len(q) /\ u[i] = q[i + t]
          /\ j + t \in 1 .. Len(q) /\ u[j] = q[j + t]
      BY <1>2, <2>1
    <3>3. QED
      BY <2>1, <3>1, <3>2 DEF Ids
  <2>2. QED
    BY <2>1
<1>5. \A i, j \in 1 .. Len(r) :
          i # j /\ r[i].type = "saved" /\ r[j].type = "saved" => r[i].id # r[j].id
  <2>1. ASSUME NEW i \in 1 .. Len(r), NEW j \in 1 .. Len(r), i # j,
               r[i].type = "saved", r[j].type = "saved"
        PROVE  r[i].id # r[j].id
    <3>1. i + s # j + s
      BY <2>1
    <3>2. /\ i + s \in 1 .. Len(p) /\ r[i] = p[i + s]
          /\ j + s \in 1 .. Len(p) /\ r[j] = p[j + s]
      BY <1>1, <2>1
    <3>3. QED
      BY <2>1, <3>1, <3>2 DEF Ids
  <2>2. QED
    BY <2>1
<1>6. \A i \in 1 .. Len(u), j \in 1 .. Len(r) :
          u[i].type = "save" /\ r[j].type = "saved" => u[i].id # r[j].id
  <2>1. ASSUME NEW i \in 1 .. Len(u), NEW j \in 1 .. Len(r),
               u[i].type = "save", r[j].type = "saved"
        PROVE  u[i].id # r[j].id
    <3>1. i + t \in 1 .. Len(q) /\ u[i] = q[i + t]
      BY <1>2, <2>1
    <3>2. j + s \in 1 .. Len(p) /\ r[j] = p[j + s]
      BY <1>1, <2>1
    <3>3. \A k \in 1 .. Len(q), l \in 1 .. Len(p) :
             q[k].type = "save" /\ p[l].type = "saved" => q[k].id # p[l].id
      BY DEF Ids
    <3>4. QED
      BY <2>1, <3>1, <3>2, <3>3
  <2>2. QED
    BY <2>1
<1>7. QED
  BY <1>3, <1>4, <1>5, <1>6 DEF Ids

LEMMA IdsGiven ==
    ASSUME NEW p \in Seq(Messages), NEW q \in Seq(Words), NEW n, Ids(p, q, n),
           q # <<>>, Head(q).type = "save",
           NEW m \in Messages, m.type = "saved", m.id = Head(q).id
    PROVE  Ids(Append(p, m), Tail(q), n)
<1> DEFINE r == Append(p, m)
           u == Tail(q)
<1>1. /\ Len(q) \in Nat \ {0} /\ Head(q) = q[1]
      /\ \A i \in 1 .. Len(u) : i + 1 \in 1 .. Len(q) /\ u[i] = q[i + 1] /\ i + 1 # 1
      /\ \A i, j \in 1 .. Len(u) : i # j => i + 1 # j + 1
      /\ 1 \in 1 .. Len(q)
  <2>1. /\ Len(q) \in Nat \ {0} /\ Len(u) = Len(q) - 1 /\ Head(q) = q[1]
        /\ \A i \in 1 .. Len(q) - 1 : u[i] = q[i + 1]
    BY TailAt
  <2>2. QED
    BY <2>1
<1>2. /\ Len(p) \in Nat /\ Len(r) = Len(p) + 1
      /\ \A i \in 1 .. Len(p) : r[i] = p[i]
      /\ r[Len(p) + 1] = m
  BY AppendAt
<1>3. \A i \in 1 .. Len(r) : (i \in 1 .. Len(p) /\ r[i] = p[i]) \/ (i = Len(p) + 1 /\ r[i] = m)
  BY <1>2
<1> HIDE DEF r, u
<1>4. /\ \A i \in 1 .. Len(u) : u[i].type = "save" => u[i].id <= n /\ u[i].id # m.id
      /\ \A i, j \in 1 .. Len(u) :
            i # j /\ u[i].type = "save" /\ u[j].type = "save" => u[i].id # u[j].id
      /\ m.id <= n
  <2>1. /\ \A i \in 1 .. Len(q) : q[i].type = "save" => q[i].id <= n
        /\ \A i, j \in 1 .. Len(q) :
              i # j /\ q[i].type = "save" /\ q[j].type = "save" => q[i].id # q[j].id
    BY DEF Ids
  <2>2. \A i \in 1 .. Len(u) : u[i].type = "save" => u[i].id <= n /\ u[i].id # m.id
    BY <1>1, <2>1
  <2>3. ASSUME NEW i \in 1 .. Len(u), NEW j \in 1 .. Len(u), i # j,
               u[i].type = "save", u[j].type = "save"
        PROVE  u[i].id # u[j].id
    <3>1. /\ i + 1 \in 1 .. Len(q) /\ u[i] = q[i + 1]
          /\ j + 1 \in 1 .. Len(q) /\ u[j] = q[j + 1]
          /\ i + 1 # j + 1
      BY <1>1, <2>3
    <3>2. QED
      BY <2>1, <2>3, <3>1
  <2>4. m.id <= n
    BY <1>1, <2>1
  <2>5. QED
    BY <2>2, <2>3, <2>4
<1>5. \A j \in 1 .. Len(p) : p[j].type = "saved" => p[j].id <= n /\ p[j].id # m.id
  BY <1>1 DEF Ids
<1>6. \A i, j \in 1 .. Len(r) :
          i # j /\ r[i].type = "saved" /\ r[j].type = "saved" => r[i].id # r[j].id
  BY <1>3, <1>5 DEF Ids
<1>7. \A i \in 1 .. Len(u), j \in 1 .. Len(r) :
          u[i].type = "save" /\ r[j].type = "saved" => u[i].id # r[j].id
  <2>1. ASSUME NEW i \in 1 .. Len(u), NEW j \in 1 .. Len(r),
               u[i].type = "save", r[j].type = "saved"
        PROVE  u[i].id # r[j].id
    <3>1. i + 1 \in 1 .. Len(q) /\ u[i] = q[i + 1] /\ u[i].id # m.id
      BY <1>1, <1>4, <2>1
    <3>2. CASE j \in 1 .. Len(p) /\ r[j] = p[j]
      <4>1. \A k \in 1 .. Len(q), l \in 1 .. Len(p) :
                q[k].type = "save" /\ p[l].type = "saved" => q[k].id # p[l].id
        BY DEF Ids
      <4>2. QED
        BY <2>1, <3>1, <3>2, <4>1
    <3>3. CASE r[j] = m
      BY <3>1, <3>3
    <3>4. QED
      BY <1>3, <2>1, <3>2, <3>3
  <2>2. QED
    BY <2>1
<1>8. \A j \in 1 .. Len(r) : r[j].type = "saved" => r[j].id <= n
  BY <1>3, <1>4, <1>5
<1>9. Ids(r, u, n)
  BY <1>4, <1>6, <1>7, <1>8 DEF Ids
<1>10. QED
  BY <1>9 DEF r, u

LEMMA IdsAsked ==
    ASSUME NEW p \in Seq(Messages), NEW q \in Seq(Words), NEW n \in Nat, Ids(p, q, n),
           NEW w \in Words, w.type = "save", w.id = n + 1
    PROVE  Ids(p, Append(q, w), n + 1)
<1> DEFINE u == Append(q, w)
<1>1. /\ Len(q) \in Nat /\ Len(u) = Len(q) + 1
      /\ \A i \in 1 .. Len(q) : u[i] = q[i] /\ q[i] \in Words
      /\ u[Len(q) + 1] = w
  BY AppendAt
<1>2. \A i \in 1 .. Len(u) : (i \in 1 .. Len(q) /\ u[i] = q[i]) \/ (i = Len(q) + 1 /\ u[i] = w)
  BY <1>1
<1> HIDE DEF u
<1>3. /\ \A i \in 1 .. Len(q) : q[i].type = "save" => q[i].id \in Nat /\ q[i].id <= n
      /\ \A i \in 1 .. Len(p) : p[i].type = "saved" => p[i].id \in Nat /\ p[i].id <= n
  <2>1. \A k \in Words : k.type = "save" => k.id \in Nat
    BY DEF Words
  <2>2. \A k \in Messages : k.type = "saved" => k.id \in Nat
    BY DEF Messages
  <2>3. \A i \in 1 .. Len(p) : p[i] \in Messages
    OBVIOUS
  <2>4. QED
    BY <1>1, <2>1, <2>2, <2>3 DEF Ids
<1>4. \A k \in Nat : k <= n => k <= n + 1 /\ k # n + 1
  OBVIOUS
<1>5. /\ \A i \in 1 .. Len(q) : q[i].type = "save" => q[i].id <= n + 1 /\ q[i].id # n + 1
      /\ \A i \in 1 .. Len(p) : p[i].type = "saved" => p[i].id <= n + 1 /\ p[i].id # n + 1
  BY <1>3, <1>4
<1>6. n + 1 <= n + 1
  OBVIOUS
<1>7. /\ \A i \in 1 .. Len(u) : u[i].type = "save" => u[i].id <= n + 1
      /\ \A i \in 1 .. Len(u), j \in 1 .. Len(p) :
            u[i].type = "save" /\ p[j].type = "saved" => u[i].id # p[j].id
  BY <1>2, <1>5, <1>6, ZenonT(60) DEF Ids
<1>8. \A i, j \in 1 .. Len(u) :
          i # j /\ u[i].type = "save" /\ u[j].type = "save" => u[i].id # u[j].id
  BY <1>2, <1>5, SMTT(30) DEF Ids
<1>9. Ids(p, u, n + 1)
  BY <1>5, <1>7, <1>8 DEF Ids
<1>10. QED
  BY <1>9 DEF u

LEMMA WithinKept ==
    ASSUME NEW p, NEW r, NEW c, NEW d, r = p, KeepsWords(c, d)
    PROVE  Unasked(p, r, c, d)
BY WithinSame DEF Unasked, KeepsWords

LEMMA WithinHeard ==
    ASSUME Base, Hearing(companion, companion'), Head(companion.sent).type # "save"
    PROVE  /\ Within(companion'.sent, companion.sent, "save")
           /\ companion'.nextId = companion.nextId /\ companion'.saves = companion.saves
<1>1. companion.sent \in Seq(Words)
  BY BaseFacts
<1>2. QED
  BY <1>1, WithinTail DEF Hearing

LEMMA WithinSaid ==
    ASSUME Base, NEW w \in Words, w.type # "save",
           companion'.sent = Append(companion.sent, w)
    PROVE  Within(companion'.sent, companion.sent, "save")
<1>1. companion.sent \in Seq(Words)
  BY BaseFacts
<1>2. QED
  BY <1>1, WithinAppend

LEMMA WithinPiped ==
    ASSUME Base, NEW m \in Messages, m.type # "saved",
           toCompanion' = Append(toCompanion, m)
    PROVE  Within(toCompanion', toCompanion, "saved")
<1>1. toCompanion \in Seq(Messages)
  BY BaseFacts
<1>2. QED
  BY <1>1, WithinAppend

LEMMA TakesExchanges ==
    ASSUME Base, Takes
    PROVE  \/ Unasked(toCompanion, toCompanion', companion, companion')
           \/ AnswerTaken(toCompanion, toCompanion', companion, companion')
<1> DEFINE m == Head(toCompanion)
<1>1. toCompanion \in Seq(Messages) /\ toCompanion # <<>> /\ toCompanion' = Tail(toCompanion)
  BY BaseFacts, TakesDoes
<1>2. Within(toCompanion', toCompanion, "saved")
  BY <1>1, WithinTail
<1>3. Within(companion.sent, companion.sent, "save")
  BY WithinSame
<1>4. CASE m.type = "start"
  <2>1. /\ companion'.saves = companion.saves /\ companion'.nextId = companion.nextId
        /\ companion'.sent = Append(companion.sent, [type |-> "status", live |-> TRUE])
    BY <1>4, TakesStartDoes
  <2>2. Within(companion'.sent, companion.sent, "save")
    BY <2>1, SaidTyped, WithinSaid
  <2>3. QED
    BY <1>2, <2>1, <2>2 DEF Unasked
<1>5. CASE m.type = "leave"
  <2>1. Left(companion, companion')
    BY <1>5, TakesLeaveDoes, LeftDoes
  <2>2. /\ companion'.document = NoDocument /\ companion'.nextId = companion.nextId
        /\ companion'.sent = Append(companion.sent, [type |-> "status", live |-> FALSE])
    BY <2>1 DEF Left
  <2>3. Within(companion'.sent, companion.sent, "save")
    BY <2>2, SaidTyped, WithinSaid
  <2>4. QED
    BY <1>2, <2>2, <2>3 DEF Unasked
<1>6. CASE m.type \in {"open", "close", "change", "wrote"}
  <2>1. KeepsWords(companion, companion')
    BY <1>6, TakesOpenDoes, TakesCloseDoes, TakesChangeDoes, TakesWroteDoes
  <2>2. QED
    BY <1>2, <1>3, <2>1 DEF Unasked, KeepsWords
<1>7. CASE m.type = "saved"
  BY <1>1, <1>7, TakesSavedDoes DEF AnswerTaken
<1>8. QED
  BY <1>4, <1>5, <1>6, <1>7, TakesCases

LEMMA Exchanges ==
    ASSUME Base, [Next]_vars
    PROVE  \/ Unasked(toCompanion, toCompanion', companion, companion')
           \/ AnswerTaken(toCompanion, toCompanion', companion, companion')
           \/ AnswerGiven(toCompanion, toCompanion', companion, companion')
           \/ AskedFor(toCompanion, toCompanion', companion, companion')
<1>0. /\ Within(companion.sent, companion.sent, "save")
      /\ Within(toCompanion, toCompanion, "saved")
  BY WithinSame
<1>1. CASE UNCHANGED vars
  BY <1>0, <1>1 DEF vars, Unasked
<1>2. CASE Starts \/ Leaves \/ Shares \/ Closes \/ Types \/ Writes
  <2>1. /\ KeepsWords(companion, companion')
        /\ \E m \in Messages : m.type # "saved" /\ toCompanion' = Append(toCompanion, m)
    BY <1>2, StartsDoes, LeavesDoes, SharesDoes, ClosesDoes, TypesDoes, WritesDoes
       DEF KeepsWords
  <2>2. QED
    BY <1>0, <2>1, WithinPiped DEF Unasked, KeepsWords
<1>3. CASE Moves
  BY <1>3, MovesDoes, WithinKept
<1>4. CASE SavesIt \/ SavesNothing
  BY <1>4, SavesItDoes, SavesNothingDoes DEF AnswerGiven, Hearing, KeepsAll
<1>5. CASE HearsStatus
  BY <1>0, <1>5, HearsStatusDoes, WithinHeard DEF Unasked
<1>6. CASE HearsRefusal
  <2>1. /\ Hearing(companion, companion') /\ Head(companion.sent).type = "refusal"
        /\ \/ \E m \in Messages : m.type = "close" /\ toCompanion' = Append(toCompanion, m)
           \/ toCompanion' = toCompanion
    BY <1>6, HearsRefusalDoes
  <2>2. Within(toCompanion', toCompanion, "saved")
    BY <1>0, <2>1, WithinPiped
  <2>3. QED
    BY <2>1, <2>2, WithinHeard DEF Unasked
<1>7. CASE Takes
  BY <1>7, TakesExchanges
<1>8. CASE RoomEnds
  <2>1. Left(companion, companion') /\ toCompanion' = toCompanion
    BY <1>8, RoomEndsDoes, LeftDoes
  <2>2. /\ companion'.document = NoDocument /\ companion'.nextId = companion.nextId
        /\ companion'.sent = Append(companion.sent, [type |-> "status", live |-> FALSE])
    BY <2>1 DEF Left
  <2>3. Within(companion'.sent, companion.sent, "save")
    BY <2>2, SaidTyped, WithinSaid
  <2>4. QED
    BY <1>0, <2>1, <2>2, <2>3 DEF Unasked
<1>9. CASE TextArrives \/ SessionHolds \/ BridgeHolds
  <2>1. KeepsWords(companion, companion') /\ toCompanion' = toCompanion
    BY <1>9, TextArrivesDoes, SessionHoldsDoes, BridgeHoldsDoes
  <2>2. QED
    BY <2>1, WithinKept
<1>10. CASE HoldRefused
  <2>1. /\ toCompanion' = toCompanion
        /\ companion'.nextId = companion.nextId /\ companion'.saves = companion.saves
        /\ \/ companion'.sent = companion.sent
           \/ companion'.sent = Append(companion.sent, [type |-> "refusal"])
    BY <1>10, HoldRefusedDoes
  <2>2. Within(companion'.sent, companion.sent, "save")
    BY <1>0, <2>1, SaidTyped, WithinSaid
  <2>3. QED
    BY <1>0, <2>1, <2>2 DEF Unasked
<1>11. CASE SaveFalls
  <2>1. /\ toCompanion' = toCompanion /\ companion.document # NoDocument /\ file \in BOOLEAN
        /\ KeepsMirror(companion, companion')
        /\ \/ KeepsWords(companion, companion')
           \/ Asked(companion, companion', FALSE, file)
    BY <1>11, SaveFallsDoes, BaseFacts
  <2>2. QED
    BY <2>1, WithinKept DEF AskedFor
<1>12. CASE Reads
  BY <1>12, ReadsDoes, WithinKept
<1>13. CASE Judges
  <2>1. /\ toCompanion' = toCompanion /\ KeepsMirror(companion, companion')
        /\ \/ KeepsWords(companion, companion')
           \/ /\ companion.document # NoDocument
              /\ \E k \in DOMAIN companion.reads :
                    Asked(companion, companion', TRUE, companion.reads[k].there)
    BY <1>13, JudgesDoes
  <2>2. \A k \in DOMAIN companion.reads : companion.reads[k].there \in BOOLEAN
    <3>1. companion.reads \in Seq(ReadsInFlight)
      BY BaseFacts
    <3>2. \A k \in DOMAIN companion.reads : companion.reads[k] \in ReadsInFlight
      BY <3>1
    <3>3. QED
      BY <3>2 DEF ReadsInFlight
  <2>3. QED
    BY <2>1, <2>2, WithinKept DEF AskedFor
<1>14. QED
  BY <1>1, <1>2, <1>3, <1>4, <1>5, <1>6, <1>7, <1>8, <1>9, <1>10, <1>11, <1>12, <1>13 DEF Next

LEMMA IdsStep ==
    ASSUME Base, Ids(toCompanion, companion.sent, companion.nextId), [Next]_vars
    PROVE  Ids(toCompanion', companion'.sent, companion'.nextId)
<1>0. /\ toCompanion \in Seq(Messages) /\ companion.sent \in Seq(Words)
      /\ companion.nextId \in Nat
  BY BaseFacts
<1>1. CASE Unasked(toCompanion, toCompanion', companion, companion')
  BY <1>1, IdsWithin DEF Unasked
<1>2. CASE AnswerTaken(toCompanion, toCompanion', companion, companion')
  <2>1. /\ Within(toCompanion', toCompanion, "saved")
        /\ Within(companion.sent, companion.sent, "save")
    BY <1>0, <1>2, WithinTail, WithinSame DEF AnswerTaken
  <2>2. QED
    BY <1>2, <2>1, IdsWithin DEF AnswerTaken
<1>3. CASE AnswerGiven(toCompanion, toCompanion', companion, companion')
  BY <1>0, <1>3, IdsGiven DEF AnswerGiven
<1>4. CASE AskedFor(toCompanion, toCompanion', companion, companion')
  <2>1. PICK guarded, there \in BOOLEAN : Asked(companion, companion', guarded, there)
    BY <1>4 DEF AskedFor
  <2>2. toCompanion' = toCompanion /\ companion.document \in Documents
    BY <1>4, BaseFacts, DocumentIs DEF AskedFor
  <2> DEFINE w == [type |-> "save", id |-> companion.nextId + 1,
                   of |-> companion.document.of, guarded |-> guarded, there |-> there]
  <2>3. w \in Words /\ w.type = "save" /\ w.id = companion.nextId + 1
    BY <1>0, <2>2 DEF Words, Documents
  <2>4. companion'.sent = Append(companion.sent, w) /\ companion'.nextId = companion.nextId + 1
    BY <2>1 DEF Asked
  <2> HIDE DEF w
  <2>5. QED
    BY <1>0, <2>2, <2>3, <2>4, IdsAsked
<1>5. QED
  BY <1>1, <1>2, <1>3, <1>4, Exchanges

LEMMA WriteTyped ==
    ASSUME Base, NEW i \in 1 .. Len(companion.sent), companion.sent[i].type = "save"
    PROVE  /\ companion.sent[i].of \in Nat \ {0} /\ companion.sent[i].id \in Nat
           /\ companion.sent[i].of \in Known(companion)
<1>1. companion.sent \in Seq(Words)
  BY BaseFacts
<1>2. companion.sent[i] \in Words
  BY <1>1
<1>3. companion.sent[i].of \in Nat \ {0} /\ companion.sent[i].id \in Nat
  BY <1>2 DEF Words
<1>4. QED
  BY <1>3 DEF Known

(* An instance newly opened has asked for nothing yet.                     *)
LEMMA NothingOwned ==
    ASSUME Base, companion'.instances = companion.instances + 1,
           companion'.document.instance = companion'.instances,
           companion'.saves = companion.saves
    PROVE  \A id : ~Own(companion', id)
<1>1. companion.saves \in Assignments /\ companion.instances \in Nat
      /\ \A id \in DOMAIN companion.saves : companion.saves[id] <= companion.instances
  BY BaseFacts
<1>2. \A id \in DOMAIN companion.saves : companion.saves[id] \in Nat
  BY <1>1 DEF Assignments
<1>3. \A id \in DOMAIN companion.saves : companion.saves[id] # companion.instances + 1
  BY <1>1, <1>2
<1>4. QED
  BY <1>3 DEF Own

(* What a new document has is no answer's.                                 *)
LEMMA OwnsOpened ==
    ASSUME Base, companion'.instances = companion.instances + 1,
           companion'.document.instance = companion'.instances,
           companion'.saves = companion.saves, companion'.sent = companion.sent,
           \A n \in Known(companion) : n < companion'.document.of,
           companion'.document.of \in Nat
    PROVE  Owns(companion')
<1>1. \A id : ~Own(companion', id)
  BY NothingOwned
<1>2. \A i \in 1 .. Len(companion.sent) : companion.sent[i].type = "save" =>
         companion.sent[i].of # companion'.document.of
  <2>1. \A n \in Nat : n < companion'.document.of => n # companion'.document.of
    OBVIOUS
  <2>2. QED
    BY <2>1, WriteTyped
<1>3. QED
  BY <1>1, <1>2 DEF Owns

LEMMA OwnsStep ==
    ASSUME Base, Turns, Numbers, Owns(companion),
           Ids(toCompanion, companion.sent, companion.nextId), [Next]_vars
    PROVE  Owns(companion')
<1>0. /\ toCompanion \in Seq(Messages) /\ companion.sent \in Seq(Words)
      /\ companion.nextId \in Nat
      /\ companion.document \in {NoDocument} \cup Documents
      /\ companion.unarrived \in {NoDocument} \cup KeptBack
      /\ companion.saves \in Assignments
  BY BaseFacts
<1>1. CASE companion'.document = NoDocument
  BY <1>1 DEF Owns
<1>2. CASE Arrived(companion, companion') /\ KeepsWords(companion, companion')
  <2>1. /\ companion.unarrived # NoDocument
        /\ companion'.instances = companion.instances + 1
        /\ companion'.document.instance = companion'.instances
        /\ companion'.document.of = companion.unarrived.of
        /\ companion'.saves = companion.saves /\ companion'.sent = companion.sent
    BY <1>2 DEF Arrived, KeepsWords
  <2>2. \A n \in Known(companion) : n < companion'.document.of
    BY <2>1 DEF Numbers
  <2>3. companion'.document.of \in Nat
    BY <1>0, <2>1 DEF KeptBack
  <2>4. QED
    BY <2>1, <2>2, <2>3, OwnsOpened
<1>3. CASE /\ OpensNow(toCompanion, toCompanion', companion, companion')
           /\ KeepsWords(companion, companion')
  <2>1. companion'.saves = companion.saves /\ companion'.sent = companion.sent
    BY <1>3 DEF KeepsWords
  <2>2. CASE companion'.document = companion.document
    BY <2>1, <2>2 DEF Owns, Own
  <2>3. CASE companion'.document # companion.document
    <3>1. /\ toCompanion # <<>> /\ Head(toCompanion).type = "open"
          /\ Head(toCompanion).of \in Nat \ {0}
          /\ companion'.instances = companion.instances + 1
          /\ companion'.document.instance = companion'.instances
          /\ companion'.document.of = Head(toCompanion).of
      BY <1>3, <2>3 DEF OpensNow, MirrorOf
    <3>2. \A n \in Known(companion) : n < companion'.document.of
      BY <1>0, <3>1, NumbersTaken DEF Numbers
    <3>3. QED
      BY <2>1, <3>1, <3>2, OwnsOpened
  <2>4. QED
    BY <2>2, <2>3
<1>4. ASSUME companion'.document # NoDocument, Stays(companion, companion')
      PROVE  Owns(companion')
  <2>0. /\ companion.document # NoDocument
        /\ companion'.document.of = companion.document.of
        /\ companion'.document.instance = companion.document.instance
    BY <1>4 DEF Stays
  <2>1. \A i \in 1 .. Len(companion.sent) : companion.sent[i].type = "save" =>
            (companion.sent[i].of = companion.document.of <=> Own(companion, companion.sent[i].id))
    BY <2>0 DEF Owns
  <2>2. CASE Unasked(toCompanion, toCompanion', companion, companion')
    <3>1. companion'.saves = companion.saves
      BY <1>4, <2>2 DEF Unasked
    <3>2. PICK s \in {0, 1} : \A i \in 1 .. Len(companion'.sent) :
             companion'.sent[i].type = "save" =>
                i + s \in 1 .. Len(companion.sent) /\ companion'.sent[i] = companion.sent[i + s]
      BY <2>2 DEF Unasked, Within
    <3>3. QED
      BY <2>0, <2>1, <3>1, <3>2 DEF Owns, Own
  <2>3. CASE AnswerTaken(toCompanion, toCompanion', companion, companion')
    <3>1. /\ Head(toCompanion) = toCompanion[1] /\ 1 \in 1 .. Len(toCompanion)
          /\ Head(toCompanion).type = "saved"
          /\ companion'.sent = companion.sent
      BY <1>0, <2>3, TailShifts DEF AnswerTaken
    <3>2. \A i \in 1 .. Len(companion.sent) : companion.sent[i].type = "save" =>
             companion.sent[i].id # Head(toCompanion).id
      BY <3>1 DEF Ids
    <3>3. \A id : id # Head(toCompanion).id => (Own(companion', id) <=> Own(companion, id))
      BY <2>0, <2>3 DEF AnswerTaken, Own
    <3>4. QED
      BY <2>0, <2>1, <3>1, <3>2, <3>3 DEF Owns
  <2>4. CASE AnswerGiven(toCompanion, toCompanion', companion, companion')
    <3>1. /\ Within(companion'.sent, companion.sent, "save")
          /\ companion'.saves = companion.saves
      BY <1>0, <2>4, WithinTail DEF AnswerGiven
    <3>2. PICK s \in {0, 1} : \A i \in 1 .. Len(companion'.sent) :
             companion'.sent[i].type = "save" =>
                i + s \in 1 .. Len(companion.sent) /\ companion'.sent[i] = companion.sent[i + s]
      BY <3>1 DEF Within
    <3>3. QED
      BY <2>0, <2>1, <3>1, <3>2 DEF Owns, Own
  <2>5. CASE AskedFor(toCompanion, toCompanion', companion, companion')
    <3>1. PICK guarded, there \in BOOLEAN : Asked(companion, companion', guarded, there)
      BY <2>5 DEF AskedFor
    <3>2. companion'.instances = companion.instances /\ companion' \in Companions(Sessions)
      <4>1. Base' /\ KeepsMirror(companion, companion')
        BY <2>5, BaseStep DEF AskedFor
      <4>2. UNCHANGED scenario
        BY SpentGrows
      <4>3. companion' \in Companions(Sessions)
        BY <4>1, <4>2, SessionsStay DEF Base, Typed
      <4>4. QED
        BY <4>1, <4>3 DEF KeepsMirror
    <3>3. /\ companion.nextId + 1 \notin DOMAIN companion.saves
          /\ companion'.saves[companion.nextId + 1] = companion.document.instance
      BY <2>0, <3>1, <3>2, AskedBounded
    <3> DEFINE w == [type |-> "save", id |-> companion.nextId + 1,
                     of |-> companion.document.of, guarded |-> guarded, there |-> there]
    <3>4. w \in Words /\ w.id = companion.nextId + 1 /\ w.of = companion.document.of
      <4>1. companion.document \in Documents
        BY <2>0, BaseFacts, DocumentIs
      <4>2. QED
        BY <1>0, <4>1 DEF Words, Documents
    <3>5. /\ companion'.sent = Append(companion.sent, w)
          /\ DOMAIN companion'.saves = DOMAIN companion.saves \cup {companion.nextId + 1}
          /\ \A id \in DOMAIN companion.saves : companion'.saves[id] = companion.saves[id]
      BY <3>1 DEF Asked
    <3> HIDE DEF w
    <3>6. /\ Len(companion.sent) \in Nat /\ Len(companion'.sent) = Len(companion.sent) + 1
          /\ \A i \in 1 .. Len(companion.sent) : companion'.sent[i] = companion.sent[i]
          /\ companion'.sent[Len(companion.sent) + 1] = w
      BY <1>0, <3>4, <3>5, AppendAt
    <3>7. Own(companion', w.id)
      BY <2>0, <3>3, <3>4, <3>5 DEF Own
    <3>8. \A id : id # companion.nextId + 1 => (Own(companion', id) <=> Own(companion, id))
      BY <2>0, <3>5 DEF Own
    <3>9. \A i \in 1 .. Len(companion.sent) : companion.sent[i].type = "save" =>
             companion.sent[i].id # companion.nextId + 1
      <4>1. \A i \in 1 .. Len(companion.sent) : companion.sent[i].type = "save" =>
               companion.sent[i].id \in Nat /\ companion.sent[i].id <= companion.nextId
        BY WriteTyped DEF Ids
      <4>2. \A k \in Nat : k <= companion.nextId => k # companion.nextId + 1
        BY <1>0
      <4>3. QED
        BY <4>1, <4>2
    <3>10. \A i \in 1 .. Len(companion'.sent) :
              \/ i \in 1 .. Len(companion.sent) /\ companion'.sent[i] = companion.sent[i]
              \/ companion'.sent[i] = w
      BY <3>6
    <3>11. QED
      BY <2>0, <2>1, <3>4, <3>7, <3>8, <3>9, <3>10 DEF Owns
  <2>6. QED
    BY <2>2, <2>3, <2>4, <2>5, Exchanges
<1>5. QED
  BY <1>1, <1>2, <1>3, <1>4, StepMirror

(* An open on its way tells the mirror what the front-end knew then, and   *)
(* what it learnt since is behind it.                                      *)
Presented(p, of, kept) ==
    \A i \in 1 .. Len(p) : p[i].type = "open" /\ p[i].of = of =>
        (kept <=> \/ p[i].present
                  \/ \E k \in 1 .. Len(p) : i < k /\ p[k].type = "wrote")

LEMMA PresentedTail ==
    ASSUME NEW p \in Seq(Messages), p # <<>>, NEW of, NEW kept, Presented(p, of, kept)
    PROVE  Presented(Tail(p), of, kept)
<1> DEFINE r == Tail(p)
<1>1. /\ \A i \in 1 .. Len(r) : i + 1 \in 1 .. Len(p) /\ p[i + 1] = r[i]
      /\ \A i \in 1 .. Len(p) : i # 1 => i - 1 \in 1 .. Len(r) /\ r[i - 1] = p[i]
  BY TailShifts
<1> HIDE DEF r
<1>2. ASSUME NEW i \in 1 .. Len(r), r[i].type = "open", r[i].of = of
      PROVE  kept <=> r[i].present \/ \E k \in 1 .. Len(r) : i < k /\ r[k].type = "wrote"
  <2>1. i + 1 \in 1 .. Len(p) /\ p[i + 1] = r[i]
    BY <1>1
  <2>2. kept <=> \/ r[i].present
                 \/ \E k \in 1 .. Len(p) : i + 1 < k /\ p[k].type = "wrote"
    BY <1>2, <2>1 DEF Presented
  <2>3. ASSUME NEW k \in 1 .. Len(p), i + 1 < k, p[k].type = "wrote"
        PROVE  \E l \in 1 .. Len(r) : i < l /\ r[l].type = "wrote"
    <3>1. k # 1 /\ i < k - 1
      BY <2>3
    <3>2. k - 1 \in 1 .. Len(r) /\ r[k - 1] = p[k]
      BY <1>1, <3>1
    <3>3. QED
      BY <2>3, <3>1, <3>2
  <2>4. ASSUME NEW k \in 1 .. Len(r), i < k, r[k].type = "wrote"
        PROVE  \E l \in 1 .. Len(p) : i + 1 < l /\ p[l].type = "wrote"
    <3>1. k + 1 \in 1 .. Len(p) /\ p[k + 1] = r[k] /\ i + 1 < k + 1
      BY <1>1, <2>4
    <3>2. QED
      BY <2>4, <3>1
  <2>5. QED
    BY <2>2, <2>3, <2>4
<1>3. Presented(r, of, kept)
  BY <1>2 DEF Presented
<1>4. QED
  BY <1>3 DEF r

LEMMA PresentedAppend ==
    ASSUME NEW p \in Seq(Messages), NEW m \in Messages, NEW of, NEW before, NEW after,
           m.type # "open", m.type = "wrote" => after,
           Presented(p, of, before), m.type # "wrote" => (after <=> before)
    PROVE  Presented(Append(p, m), of, after)
<1> DEFINE r == Append(p, m)
<1>1. /\ Len(p) \in Nat /\ Len(r) = Len(p) + 1
      /\ \A i \in 1 .. Len(p) : r[i] = p[i]
      /\ r[Len(p) + 1] = m
  BY AppendAt
<1> HIDE DEF r
<1>2. ASSUME NEW i \in 1 .. Len(r), r[i].type = "open", r[i].of = of
      PROVE  after <=> r[i].present \/ \E k \in 1 .. Len(r) : i < k /\ r[k].type = "wrote"
  <2>1. i \in 1 .. Len(p) /\ r[i] = p[i]
    BY <1>1, <1>2
  <2>2. CASE m.type = "wrote"
    <3>1. Len(p) + 1 \in 1 .. Len(r) /\ i < Len(p) + 1
      BY <1>1, <2>1
    <3>2. QED
      BY <1>1, <2>2, <3>1
  <2>3. CASE m.type # "wrote"
    <3>1. before <=> r[i].present \/ \E k \in 1 .. Len(p) : i < k /\ p[k].type = "wrote"
      BY <1>2, <2>1 DEF Presented
    <3>2. \A k \in 1 .. Len(r) : r[k].type = "wrote" => k \in 1 .. Len(p)
      BY <1>1, <2>3
    <3>3. \A k \in 1 .. Len(p) : k \in 1 .. Len(r)
      BY <1>1
    <3>4. QED
      BY <1>1, <2>3, <3>1, <3>2, <3>3
  <2>4. QED
    BY <2>2, <2>3
<1>3. Presented(r, of, after)
  BY <1>2 DEF Presented
<1>4. QED
  BY <1>3 DEF r

(* No open on its way is of a document that a write on its way is of.      *)
LEMMA PresentedOther ==
    ASSUME Base, Numbers, NEW n \in Known(companion)
    PROVE  \A kept : Presented(toCompanion, n, kept)
<1>1. \A i \in 1 .. Len(toCompanion) : toCompanion[i].type = "open" => n < toCompanion[i].of
  BY DEF Numbers, Above
<1>2. n \in Nat /\ \A k : n < k /\ k \in Nat => k # n
  BY DEF Known
<1>3. \A i \in 1 .. Len(toCompanion) : toCompanion[i].type = "open" => toCompanion[i].of \in Nat
  <2>1. toCompanion \in Seq(Messages)
    BY BaseFacts
  <2>2. \A i \in 1 .. Len(toCompanion) : toCompanion[i] \in Messages
    BY <2>1
  <2>3. QED
    BY <2>2 DEF Messages
<1>4. QED
  BY <1>1, <1>2, <1>3 DEF Presented

PresentedNow == front.doc # 0 => Presented(toCompanion, front.doc, front.kept)

LEMMA PresentedStep ==
    ASSUME Base, Numbers, PresentedNow, [Next]_vars
    PROVE  PresentedNow'
<1>0. /\ toCompanion \in Seq(Messages) /\ front.doc \in Nat /\ spent.opens \in Nat
      /\ companion.sent \in Seq(Words)
  BY BaseFacts DEF Budgets
<1>1. CASE UNCHANGED vars
  BY <1>1 DEF vars, PresentedNow
<1>2. CASE front'.doc = 0
  BY <1>2 DEF PresentedNow
<1>3. CASE Starts \/ Leaves \/ Closes
  BY <1>2, <1>3, StartsDoes, LeavesDoes, ClosesDoes
<1>4. CASE Shares
  <2>1. PICK m \in Messages : /\ m.type = "open" /\ m.of = spent.opens + 1 /\ m.present = file
                              /\ toCompanion' = Append(toCompanion, m)
    BY <1>4, SharesDoes
  <2>2. front'.doc = spent.opens + 1 /\ front'.kept = file
    BY <1>4, SharesDoes
  <2> DEFINE p == toCompanion
             r == toCompanion'
  <2>3. /\ Len(p) \in Nat /\ Len(r) = Len(p) + 1
        /\ \A i \in 1 .. Len(p) : r[i] = p[i] /\ p[i] \in Messages
        /\ r[Len(p) + 1] = m
    BY <1>0, <2>1, AppendAt
  <2>4. \A i \in 1 .. Len(p) : p[i].type = "open" => p[i].of # spent.opens + 1
    <3>1. \A i \in 1 .. Len(p) : p[i].type = "open" => p[i].of <= spent.opens
      BY DEF Numbers, Upto
    <3>2. \A i \in 1 .. Len(p) : p[i].type = "open" => p[i].of \in Nat
      BY <2>3 DEF Messages
    <3>3. QED
      BY <1>0, <3>1, <3>2
  <2> HIDE DEF p, r
  <2>5. \A i \in 1 .. Len(r) : r[i].type = "open" /\ r[i].of = spent.opens + 1 =>
           i = Len(p) + 1 /\ r[i].present = file
    BY <2>1, <2>3, <2>4
  <2>6. \A k \in 1 .. Len(r) : ~(Len(p) + 1 < k)
    BY <2>3
  <2>7. Presented(r, spent.opens + 1, file)
    BY <2>5, <2>6 DEF Presented
  <2>8. QED
    BY <2>2, <2>7 DEF PresentedNow, r
<1>5. CASE Types
  BY <1>0, <1>5, TypesDoes, PresentedAppend DEF PresentedNow
<1>6. CASE Writes
  BY <1>0, <1>6, WritesDoes, PresentedAppend DEF PresentedNow
<1>7. CASE SavesIt
  <2>1. PICK m \in Messages : m.type = "saved" /\ toCompanion' = Append(toCompanion, m)
    BY <1>7, SavesItDoes
  <2>2. /\ front'.doc = front.doc /\ front.doc # 0
        /\ front'.kept = (front.kept \/ Head(companion.sent).of = front.doc)
        /\ companion.sent # <<>> /\ Head(companion.sent).type = "save"
    BY <1>7, SavesItDoes DEF Hearing
  <2>3. CASE Head(companion.sent).of = front.doc
    <3>1. 1 \in 1 .. Len(companion.sent) /\ Head(companion.sent) = companion.sent[1]
      BY <1>0, <2>2, TailAt
    <3>2. front.doc \in Known(companion)
      BY <2>2, <2>3, <3>1, WriteTyped
    <3>3. Presented(toCompanion, front.doc, front'.kept)
      BY <3>2, PresentedOther
    <3>4. QED
      BY <1>0, <2>1, <2>2, <3>3, PresentedAppend DEF PresentedNow
  <2>4. CASE Head(companion.sent).of # front.doc
    BY <1>0, <2>1, <2>2, <2>4, PresentedAppend DEF PresentedNow
  <2>5. QED
    BY <2>3, <2>4
<1>8. CASE SavesNothing
  BY <1>0, <1>8, SavesNothingDoes, PresentedAppend DEF PresentedNow
<1>9. CASE HearsStatus
  BY <1>2, <1>9, HearsStatusDoes DEF PresentedNow
<1>10. CASE HearsRefusal
  BY <1>2, <1>10, HearsRefusalDoes
<1>11. CASE Moves
  BY <1>11, MovesDoes DEF PresentedNow
<1>12. CASE Takes
  <2>1. toCompanion # <<>> /\ toCompanion' = Tail(toCompanion) /\ front' = front
    BY <1>12, TakesDoes
  <2>2. QED
    BY <1>0, <2>1, PresentedTail DEF PresentedNow
<1>13. CASE RoomEnds \/ TextArrives \/ SessionHolds \/ BridgeHolds \/ HoldRefused
  BY <1>13, RoomEndsDoes, TextArrivesDoes, SessionHoldsDoes, BridgeHoldsDoes, HoldRefusedDoes
     DEF PresentedNow
<1>14. CASE SaveFalls \/ Reads \/ Judges
  BY <1>14, AsksDoes DEF PresentedNow
<1>15. QED
  BY <1>1, <1>3, <1>4, <1>5, <1>6, <1>7, <1>8, <1>9, <1>10, <1>11, <1>12, <1>13, <1>14 DEF Next

(* The mirror of a host has marked its document, or is told so yet, when   *)
(* the front-end knows of a file, and only then.                           *)
Tells(c, m) ==
    \/ m.type = "wrote"
    \/ m.type = "saved" /\ m.ok /\ Own(c, m.id)

Reached(c, p) == c.document.materialized \/ \E i \in 1 .. Len(p) : Tells(c, p[i])

Hosted(f, c) ==
    /\ c.session # 0 /\ c.role = "host"
    /\ c.document # NoDocument /\ c.document.of = f.doc

Marked == Hosted(front, companion) => (front.kept <=> Reached(companion, toCompanion))

Marks ==
    /\ Ids(toCompanion, companion.sent, companion.nextId)
    /\ Owns(companion)
    /\ PresentedNow
    /\ Marked

LEMMA HostedNot ==
    ASSUME Base, front'.doc = 0, companion' = companion
    PROVE  ~Hosted(front', companion')
<1>1. companion.document \in {NoDocument} \cup Documents
  BY BaseFacts
<1>2. \A d \in Documents : d.of # 0
  BY DEF Documents
<1>3. QED
  BY <1>1, <1>2 DEF Hosted

(* What a message added or taken tells.                                    *)
LEMMA ReachedAppend ==
    ASSUME NEW p \in Seq(Messages), NEW m \in Messages, NEW c
    PROVE  Reached(c, Append(p, m)) <=> Reached(c, p) \/ Tells(c, m)
<1> DEFINE r == Append(p, m)
<1>1. /\ Len(p) \in Nat /\ Len(r) = Len(p) + 1
      /\ \A i \in 1 .. Len(p) : r[i] = p[i]
      /\ r[Len(p) + 1] = m
  BY AppendAt
<1> HIDE DEF r
<1>2. /\ \A i \in 1 .. Len(r) : (i \in 1 .. Len(p) /\ r[i] = p[i]) \/ r[i] = m
      /\ \A i \in 1 .. Len(p) : i \in 1 .. Len(r) /\ r[i] = p[i]
      /\ \E i \in 1 .. Len(r) : r[i] = m
  BY <1>1
<1>3. (\E i \in 1 .. Len(r) : Tells(c, r[i]))
         <=> (\E i \in 1 .. Len(p) : Tells(c, p[i])) \/ Tells(c, m)
  BY <1>2
<1>4. QED
  BY <1>3 DEF Reached, r

LEMMA ReachedTail ==
    ASSUME NEW p \in Seq(Messages), p # <<>>, NEW c
    PROVE  Reached(c, p) <=> Reached(c, Tail(p)) \/ Tells(c, Head(p))
<1> DEFINE r == Tail(p)
<1>1. /\ \A i \in 1 .. Len(r) : i + 1 \in 1 .. Len(p) /\ p[i + 1] = r[i]
      /\ \A i \in 1 .. Len(p) : i # 1 => i - 1 \in 1 .. Len(r) /\ r[i - 1] = p[i]
      /\ 1 \in 1 .. Len(p) /\ Head(p) = p[1]
  BY TailShifts
<1> HIDE DEF r
<1>2. /\ \A i \in 1 .. Len(r) : \E j \in 1 .. Len(p) : p[j] = r[i]
      /\ \A i \in 1 .. Len(p) : p[i] = Head(p) \/ \E j \in 1 .. Len(r) : r[j] = p[i]
      /\ \E i \in 1 .. Len(p) : p[i] = Head(p)
  BY <1>1
<1>3. (\E i \in 1 .. Len(p) : Tells(c, p[i]))
         <=> (\E i \in 1 .. Len(r) : Tells(c, r[i])) \/ Tells(c, Head(p))
  BY <1>2
<1>4. QED
  BY <1>3 DEF Reached, r

(* The document and its answers as they were.                              *)
LEMMA ReachedSame ==
    ASSUME NEW p, NEW c, NEW d,
           d.document.materialized = c.document.materialized,
           \A i \in 1 .. Len(p) : p[i].type = "saved" =>
              (Own(d, p[i].id) <=> Own(c, p[i].id))
    PROVE  Reached(d, p) <=> Reached(c, p)
BY DEF Reached, Tells

LEMMA MarkedAppended ==
    ASSUME Base, Marked, NEW m \in Messages, m.type \notin {"wrote", "saved"},
           toCompanion' = Append(toCompanion, m), companion' = companion,
           front'.doc = 0 \/ (front'.doc = front.doc /\ front'.kept = front.kept)
    PROVE  Marked'
<1>0. toCompanion \in Seq(Messages)
  BY BaseFacts
<1>1. CASE front'.doc = 0
  BY <1>1, HostedNot DEF Marked
<1>2. CASE front'.doc = front.doc /\ front'.kept = front.kept
  <2>1. Reached(companion, toCompanion') <=> Reached(companion, toCompanion)
    BY <1>0, ReachedAppend DEF Tells
  <2>2. QED
    BY <1>2, <2>1 DEF Marked, Hosted
<1>3. QED
  BY <1>1, <1>2

(* Neither the pipe nor what the mirror has, and the front-end as it was.  *)
LEMMA MarkedQuiet ==
    ASSUME Base, Marked, toCompanion' = toCompanion, KeepsSession(companion, companion'),
           companion'.document = companion.document,
           companion'.saves = companion.saves,
           front'.doc = front.doc, front'.kept = front.kept
    PROVE  Marked'
<1>1. /\ companion'.document.materialized = companion.document.materialized
      /\ \A id : Own(companion', id) <=> Own(companion, id)
  BY DEF Own
<1>2. Reached(companion', toCompanion) <=> Reached(companion, toCompanion)
  BY <1>1, ReachedSame
<1>3. Hosted(front', companion') <=> Hosted(front, companion)
  BY DEF Hosted, KeepsSession
<1>4. QED
  BY <1>2, <1>3 DEF Marked

LEMMA MarkedFront ==
    ASSUME Base, Numbers, Marked,
           Starts \/ Leaves \/ Shares \/ Closes \/ Types \/ Writes
    PROVE  Marked'
<1>0. /\ toCompanion \in Seq(Messages) /\ spent.opens \in Nat
      /\ companion.document \in {NoDocument} \cup Documents
  BY BaseFacts DEF Budgets
<1>1. CASE Starts \/ Leaves \/ Closes
  <2>1. companion' = companion /\ front'.doc = 0
    BY <1>1, StartsDoes, LeavesDoes, ClosesDoes
  <2>2. QED
    BY <2>1, HostedNot DEF Marked
<1>2. CASE Shares
  <2>1. companion' = companion /\ front'.doc = spent.opens + 1
    BY <1>2, SharesDoes
  <2>2. companion.document # NoDocument => companion.document.of # spent.opens + 1
    <3>1. companion.document # NoDocument =>
             /\ companion.document.of \in Nat
             /\ companion.document.of <= spent.opens
      BY KnownDocument DEF Numbers, Known
    <3>2. QED
      BY <1>0, <3>1
  <2>3. QED
    BY <2>1, <2>2 DEF Marked, Hosted
<1>3. CASE Types
  BY <1>3, TypesDoes, MarkedAppended
<1>4. CASE Writes
  <2>1. PICK m \in Messages : m.type = "wrote" /\ toCompanion' = Append(toCompanion, m)
    BY <1>4, WritesDoes
  <2>2. Reached(companion', toCompanion') /\ front'.kept
    BY <1>0, <1>4, <2>1, WritesDoes, ReachedAppend DEF Tells
  <2>3. QED
    BY <2>2 DEF Marked
<1>5. QED
  BY <1>1, <1>2, <1>3, <1>4

LEMMA MarkedHears ==
    ASSUME Base, Owns(companion), Marked,
           SavesIt \/ SavesNothing \/ HearsStatus \/ HearsRefusal \/ Moves
    PROVE  Marked'
<1>0. toCompanion \in Seq(Messages) /\ companion.sent \in Seq(Words)
  BY BaseFacts
<1>1. CASE SavesIt \/ SavesNothing
  <2>1. PICK m \in Messages :
           /\ m.type = "saved" /\ m.id = Head(companion.sent).id /\ (m.ok <=> SavesIt)
           /\ toCompanion' = Append(toCompanion, m)
    <3>1. CASE SavesIt
      BY <3>1, SavesItDoes
    <3>2. CASE ~SavesIt
      BY <1>1, <3>2, SavesNothingDoes
    <3>3. QED
      BY <3>1, <3>2
  <2>2. /\ Hearing(companion, companion') /\ Head(companion.sent).type = "save"
        /\ KeepsAll(companion, companion') /\ front'.doc = front.doc
    BY <1>1, SavesItDoes, SavesNothingDoes
  <2>3. front'.kept <=> front.kept \/ (SavesIt /\ Head(companion.sent).of = front.doc)
    <3>1. CASE SavesIt
      BY <3>1, SavesItDoes
    <3>2. CASE ~SavesIt
      BY <1>1, <3>2, SavesNothingDoes
    <3>3. QED
      BY <3>1, <3>2
  <2>4. \A id : Own(companion', id) <=> Own(companion, id)
    BY <2>2 DEF Hearing, KeepsAll, KeepsMirror, Own
  <2>5. /\ Hosted(front', companion') <=> Hosted(front, companion)
        /\ Reached(companion', toCompanion) <=> Reached(companion, toCompanion)
    BY <2>2, <2>4 DEF Hosted, Reached, Tells, KeepsAll, KeepsMirror, KeepsSession
  <2>6. Reached(companion', toCompanion')
           <=> Reached(companion, toCompanion) \/ (SavesIt /\ Own(companion, m.id))
    BY <1>0, <2>1, <2>4, <2>5, ReachedAppend DEF Tells
  <2>7. Hosted(front, companion) =>
           (Head(companion.sent).of = front.doc <=> Own(companion, m.id))
    <3>1. 1 \in 1 .. Len(companion.sent) /\ Head(companion.sent) = companion.sent[1]
      BY <1>0, <2>2, TailAt DEF Hearing
    <3>2. QED
      BY <2>1, <2>2, <3>1 DEF Owns, Hosted
  <2>8. QED
    BY <2>3, <2>5, <2>6, <2>7 DEF Marked
<1>2. CASE HearsStatus \/ HearsRefusal
  <2>1. /\ Hearing(companion, companion') /\ KeepsAll(companion, companion')
        /\ \/ front'.doc = 0
           \/ /\ front'.doc = front.doc /\ front'.kept = front.kept
              /\ toCompanion' = toCompanion
    BY <1>2, HearsStatusDoes, HearsRefusalDoes
  <2>2. CASE front'.doc = 0
    <3>1. companion.document \in {NoDocument} \cup Documents /\ \A d \in Documents : d.of # 0
      BY BaseFacts DEF Documents
    <3>2. QED
      BY <2>1, <2>2, <3>1 DEF Marked, Hosted, KeepsAll, KeepsMirror
  <2>3. CASE front'.doc # 0
    BY <2>1, <2>3, MarkedQuiet DEF KeepsAll, KeepsMirror, Hearing
  <2>4. QED
    BY <2>2, <2>3
<1>3. CASE Moves
  BY <1>3, MovesDoes, MarkedQuiet DEF KeepsAll, KeepsMirror, KeepsWords
<1>4. QED
  BY <1>1, <1>2, <1>3

LEMMA MarkedOpens ==
    ASSUME Base, PresentedNow, Takes, Head(toCompanion).type = "open"
    PROVE  Marked'
<1> DEFINE m == Head(toCompanion)
<1>0. /\ toCompanion \in Seq(Messages) /\ toCompanion # <<>>
      /\ toCompanion' = Tail(toCompanion) /\ front' = front
      /\ companion.unarrived # NoDocument => companion.role = "guest"
  BY BaseFacts, TakesDoes
<1>1. SUFFICES ASSUME Hosted(front', companion')
      PROVE  front'.kept <=> Reached(companion', toCompanion')
  BY DEF Marked
<1>2. companion'.role = companion.role /\ companion'.session = companion.session
  BY TakesOpenDoes DEF KeepsSession
<1>3. /\ companion'.instances = companion.instances + 1
      /\ companion'.document = MirrorOf(m, 0, companion'.instances)
      /\ companion'.saves = companion.saves
  BY <1>1, <1>2, TakesOpenDoes DEF Hosted, KeepsWords
<1>4. /\ companion'.document.instance = companion'.instances
      /\ companion'.document.of = m.of
      /\ companion'.document.materialized = m.present
  BY <1>3 DEF MirrorOf
<1>5. \A id : ~Own(companion', id)
  BY <1>3, <1>4, NothingOwned
<1>6. front.doc = m.of /\ front.doc # 0
  BY <1>0, <1>1, <1>4, TakesOpenDoes DEF Hosted
<1>7. /\ m = toCompanion[1] /\ 1 \in 1 .. Len(toCompanion)
      /\ \A i \in 1 .. Len(toCompanion') :
            i + 1 \in 1 .. Len(toCompanion) /\ toCompanion[i + 1] = toCompanion'[i] /\ 1 < i + 1
      /\ \A i \in 1 .. Len(toCompanion) : 1 < i =>
            i - 1 \in 1 .. Len(toCompanion') /\ toCompanion'[i - 1] = toCompanion[i]
  BY <1>0, TailShifts
<1>8. front.kept <=> \/ m.present
                     \/ \E k \in 1 .. Len(toCompanion) : 1 < k /\ toCompanion[k].type = "wrote"
  BY <1>6, <1>7 DEF PresentedNow, Presented
<1>9. (\E k \in 1 .. Len(toCompanion) : 1 < k /\ toCompanion[k].type = "wrote")
         <=> \E i \in 1 .. Len(toCompanion') : toCompanion'[i].type = "wrote"
  <2>1. ASSUME NEW k \in 1 .. Len(toCompanion), 1 < k, toCompanion[k].type = "wrote"
        PROVE  \E i \in 1 .. Len(toCompanion') : toCompanion'[i].type = "wrote"
    <3>1. k - 1 \in 1 .. Len(toCompanion') /\ toCompanion'[k - 1] = toCompanion[k]
      BY <1>7, <2>1
    <3>2. QED
      BY <2>1, <3>1
  <2>2. ASSUME NEW i \in 1 .. Len(toCompanion'), toCompanion'[i].type = "wrote"
        PROVE  \E k \in 1 .. Len(toCompanion) : 1 < k /\ toCompanion[k].type = "wrote"
    <3>1. i + 1 \in 1 .. Len(toCompanion) /\ toCompanion[i + 1] = toCompanion'[i] /\ 1 < i + 1
      BY <1>7
    <3>2. QED
      BY <2>2, <3>1
  <2>3. QED
    BY <2>1, <2>2
<1>10. Reached(companion', toCompanion')
          <=> m.present \/ \E i \in 1 .. Len(toCompanion') : toCompanion'[i].type = "wrote"
  BY <1>4, <1>5 DEF Reached, Tells
<1>11. QED
  BY <1>0, <1>8, <1>9, <1>10

LEMMA MarkedTakes ==
    ASSUME Base, PresentedNow, Marked,
           Ids(toCompanion, companion.sent, companion.nextId), Takes
    PROVE  Marked'
<1> DEFINE m == Head(toCompanion)
<1>0. /\ toCompanion \in Seq(Messages) /\ toCompanion # <<>>
      /\ toCompanion' = Tail(toCompanion) /\ front' = front
      /\ companion.unarrived # NoDocument => companion.role = "guest"
      /\ companion.document \in {NoDocument} \cup Documents
      /\ front.doc # 0 => front.standing = "live"
      /\ m \in Messages
  BY BaseFacts, TakesDoes
<1>1. Reached(companion, toCompanion) <=> Reached(companion, toCompanion') \/ Tells(companion, m)
  BY <1>0, ReachedTail
<1>2. CASE m.type = "start"
  <2>1. front.doc = 0 /\ companion'.document = companion.document
    BY <1>0, <1>2, TakesStartDoes DEF KeepsMirror
  <2>2. \A d \in Documents : d.of # 0
    BY DEF Documents
  <2>3. QED
    BY <1>0, <2>1, <2>2 DEF Marked, Hosted
<1>3. CASE m.type = "leave"
  BY <1>3, TakesLeaveDoes, LeftDoes DEF Left, Marked, Hosted
<1>4. CASE m.type = "open"
  BY <1>4, MarkedOpens
<1>5. CASE m.type = "close"
  <2>1. /\ KeepsSession(companion, companion')
        /\ companion.unarrived = NoDocument => companion'.document = NoDocument
    BY <1>5, TakesCloseDoes
  <2>2. QED
    BY <1>0, <2>1 DEF Marked, Hosted, KeepsSession
<1>6. CASE m.type = "change"
  <2>1. /\ KeepsSession(companion, companion') /\ companion'.saves = companion.saves
        /\ companion.document # NoDocument =>
              companion'.document = [companion.document EXCEPT !.version = @ + 1]
        /\ companion.document = NoDocument => companion'.document = NoDocument
    BY <1>6, TakesChangeDoes DEF KeepsWords
  <2>2. \A d \in Documents : LET e == [d EXCEPT !.version = @ + 1] IN
           e.of = d.of /\ e.instance = d.instance /\ e.materialized = d.materialized
    BY DEF Documents
  <2>3. ASSUME companion.document # NoDocument
        PROVE  /\ companion'.document.of = companion.document.of
               /\ companion'.document.instance = companion.document.instance
               /\ companion'.document.materialized = companion.document.materialized
    BY <1>0, <2>1, <2>2, <2>3
  <2>4. CASE companion.document = NoDocument
    BY <2>1, <2>4 DEF Marked, Hosted
  <2>5. CASE companion.document # NoDocument
    <3>1. \A id : Own(companion', id) <=> Own(companion, id)
      BY <2>1, <2>3, <2>5 DEF Own
    <3>2. Reached(companion', toCompanion') <=> Reached(companion, toCompanion')
      BY <2>3, <2>5, <3>1, ReachedSame
    <3>3. ~Tells(companion, m)
      BY <1>6 DEF Tells
    <3>4. Hosted(front', companion') => Hosted(front, companion)
      BY <1>0, <2>1, <2>3, <2>5 DEF Hosted, KeepsSession
    <3>5. QED
      BY <1>0, <1>1, <3>2, <3>3, <3>4 DEF Marked
  <2>6. QED
    BY <2>4, <2>5
<1>7. CASE m.type = "wrote"
  <2>1. /\ KeepsSession(companion, companion')
        /\ companion.document = NoDocument => companion'.document = NoDocument
        /\ companion.document # NoDocument =>
              companion'.document = [companion.document EXCEPT !.materialized = TRUE]
    BY <1>7, TakesWroteDoes
  <2>2. \A d \in Documents : [d EXCEPT !.materialized = TRUE].of = d.of
                             /\ [d EXCEPT !.materialized = TRUE].materialized
    BY DEF Documents
  <2>3. CASE companion.document = NoDocument
    BY <2>1, <2>3 DEF Marked, Hosted
  <2>4. CASE companion.document # NoDocument
    <3>1. companion'.document.of = companion.document.of /\ companion'.document.materialized
      BY <1>0, <2>1, <2>2, <2>4
    <3>2. Reached(companion', toCompanion') /\ Tells(companion, m)
      BY <1>7, <3>1 DEF Reached, Tells
    <3>3. Hosted(front', companion') => Hosted(front, companion)
      BY <1>0, <2>1, <2>4, <3>1 DEF Hosted, KeepsSession
    <3>4. QED
      BY <1>0, <1>1, <3>2, <3>3 DEF Marked
  <2>5. QED
    BY <2>3, <2>4
<1>8. CASE m.type = "saved"
  <2>1. /\ KeepsSession(companion, companion')
        /\ DOMAIN companion'.saves = DOMAIN companion.saves \ {m.id}
        /\ \A i \in DOMAIN companion.saves \ {m.id} : companion'.saves[i] = companion.saves[i]
    BY <1>8, TakesSavedDoes
  <2>2. \A i \in 1 .. Len(toCompanion') : toCompanion'[i].type = "saved" =>
           toCompanion'[i].id # m.id
    <3>1. /\ m = toCompanion[1] /\ 1 \in 1 .. Len(toCompanion)
          /\ \A i \in 1 .. Len(toCompanion') :
                /\ i + 1 \in 1 .. Len(toCompanion) /\ i + 1 # 1
                /\ toCompanion[i + 1] = toCompanion'[i]
      BY <1>0, TailShifts
    <3>2. QED
      BY <1>8, <3>1 DEF Ids
  <2>3. CASE /\ m.ok /\ companion.document # NoDocument
             /\ Own(companion, m.id)
             /\ companion'.document = [companion.document EXCEPT !.materialized = TRUE]
    <3>1. \A d \in Documents : [d EXCEPT !.materialized = TRUE].of = d.of
                               /\ [d EXCEPT !.materialized = TRUE].materialized
      BY DEF Documents
    <3>2. companion'.document.of = companion.document.of /\ companion'.document.materialized
      BY <1>0, <2>3, <3>1
    <3>3. Reached(companion', toCompanion') /\ Tells(companion, m)
      BY <1>8, <2>3, <3>2 DEF Reached, Tells
    <3>4. Hosted(front', companion') => Hosted(front, companion)
      BY <1>0, <2>1, <2>3, <3>2 DEF Hosted, KeepsSession
    <3>5. QED
      BY <1>0, <1>1, <3>3, <3>4 DEF Marked
  <2>4. CASE /\ ~(m.ok /\ companion.document # NoDocument /\ Own(companion, m.id))
             /\ companion'.document = companion.document
    <3>1. \A id : id # m.id => (Own(companion', id) <=> Own(companion, id))
      BY <2>1, <2>4 DEF Own
    <3>2. Reached(companion', toCompanion') <=> Reached(companion, toCompanion')
      BY <2>2, <2>4, <3>1, ReachedSame
    <3>3. Hosted(front', companion') <=> Hosted(front, companion)
      BY <1>0, <2>1, <2>4 DEF Hosted, KeepsSession
    <3>4. companion.document # NoDocument => ~Tells(companion, m)
      BY <1>8, <2>4 DEF Tells
    <3>5. QED
      BY <1>0, <1>1, <3>2, <3>3, <3>4 DEF Marked, Hosted
  <2>5. QED
    BY <1>8, <2>3, <2>4, TakesSavedDoes DEF Own
<1>9. QED
  BY <1>2, <1>3, <1>4, <1>5, <1>6, <1>7, <1>8, TakesCases

LEMMA MarkedAsked ==
    ASSUME Base, Marked, Ids(toCompanion, companion.sent, companion.nextId),
           SaveFalls \/ Reads \/ Judges
    PROVE  Marked'
<1>1. /\ toCompanion' = toCompanion /\ front' = front
      /\ KeepsSession(companion, companion') /\ companion'.document = companion.document
  BY AsksDoes DEF KeepsAll, KeepsMirror
<1>2. \A id : id # companion.nextId + 1 => (Own(companion', id) <=> Own(companion, id))
  <2>1. ASSUME KeepsWords(companion, companion')
        PROVE  \A id : id # companion.nextId + 1 => (Own(companion', id) <=> Own(companion, id))
    BY <1>1, <2>1 DEF KeepsWords, Own
  <2>2. ASSUME NEW guarded, NEW there, Asked(companion, companion', guarded, there)
        PROVE  \A id : id # companion.nextId + 1 => (Own(companion', id) <=> Own(companion, id))
    <3>1. /\ DOMAIN companion'.saves = DOMAIN companion.saves \cup {companion.nextId + 1}
          /\ \A id \in DOMAIN companion.saves : companion'.saves[id] = companion.saves[id]
      BY <2>2 DEF Asked
    <3>2. QED
      BY <1>1, <3>1 DEF Own
  <2>3. CASE SaveFalls
    BY <2>1, <2>2, <2>3, SaveFallsDoes
  <2>4. CASE Reads
    BY <2>1, <2>4, ReadsDoes
  <2>5. CASE Judges
    <3>1. \/ KeepsWords(companion, companion')
          \/ \E k \in DOMAIN companion.reads :
                Asked(companion, companion', TRUE, companion.reads[k].there)
      BY <2>5, JudgesDoes
    <3>2. QED
      BY <2>1, <2>2, <3>1
  <2>6. QED
    BY <2>3, <2>4, <2>5
<1>3. \A i \in 1 .. Len(toCompanion) : toCompanion[i].type = "saved" =>
         toCompanion[i].id # companion.nextId + 1
  <2>1. toCompanion \in Seq(Messages) /\ companion.nextId \in Nat
    BY BaseFacts
  <2>2. \A i \in 1 .. Len(toCompanion) : toCompanion[i] \in Messages
    BY <2>1
  <2>3. \A i \in 1 .. Len(toCompanion) : toCompanion[i].type = "saved" =>
           toCompanion[i].id \in Nat /\ toCompanion[i].id <= companion.nextId
    BY <2>2 DEF Ids, Messages
  <2>4. \A k \in Nat : k <= companion.nextId => k # companion.nextId + 1
    BY <2>1
  <2>5. QED
    BY <2>3, <2>4
<1>4. Reached(companion', toCompanion) <=> Reached(companion, toCompanion)
  BY <1>1, <1>2, <1>3, ReachedSame
<1>5. QED
  BY <1>1, <1>4 DEF Marked, Hosted, KeepsSession

LEMMA MarkedAnswered ==
    ASSUME Base, Marked, RoomEnds \/ TextArrives \/ SessionHolds \/ BridgeHolds \/ HoldRefused
    PROVE  Marked'
<1>1. CASE RoomEnds
  BY <1>1, RoomEndsDoes, LeftDoes DEF Left, Marked, Hosted
<1>2. CASE TextArrives \/ SessionHolds
  <2>1. /\ UNCHANGED <<front, toCompanion>>
        /\ KeepsSession(companion, companion') /\ KeepsWords(companion, companion')
        /\ Arrived(companion, companion') \/ KeepsMirror(companion, companion')
    BY <1>2, TextArrivesDoes, SessionHoldsDoes
  <2>2. CASE Arrived(companion, companion')
    BY <2>1, <2>2, BaseFacts DEF Arrived, KeepsSession, Marked, Hosted
  <2>3. CASE KeepsMirror(companion, companion')
    BY <2>1, <2>3, MarkedQuiet DEF KeepsMirror, KeepsWords
  <2>4. QED
    BY <2>1, <2>2, <2>3
<1>3. CASE BridgeHolds
  BY <1>3, BridgeHoldsDoes, MarkedQuiet DEF KeepsMirror, KeepsWords
<1>4. CASE HoldRefused
  BY <1>4, HoldRefusedDoes, MarkedQuiet
<1>5. QED
  BY <1>1, <1>2, <1>3, <1>4

LEMMA MarksStep == ASSUME Base, Turns, Numbers, Marks, [Next]_vars PROVE Marks'
<1>1. Ids(toCompanion, companion.sent, companion.nextId) /\ Owns(companion)
      /\ PresentedNow /\ Marked
  BY DEF Marks
<1>2. CASE UNCHANGED vars
  BY <1>1, <1>2 DEF vars, Marks, PresentedNow, Marked
<1>3. Marked'
  <2>1. CASE Starts \/ Leaves \/ Shares \/ Closes \/ Types \/ Writes
    BY <1>1, <2>1, MarkedFront
  <2>2. CASE SavesIt \/ SavesNothing \/ HearsStatus \/ HearsRefusal \/ Moves
    BY <1>1, <2>2, MarkedHears
  <2>3. CASE Takes
    BY <1>1, <2>3, MarkedTakes
  <2>4. CASE RoomEnds \/ TextArrives \/ SessionHolds \/ BridgeHolds \/ HoldRefused
    BY <1>1, <2>4, MarkedAnswered
  <2>5. CASE SaveFalls \/ Reads \/ Judges
    BY <1>1, <2>5, MarkedAsked
  <2>6. CASE UNCHANGED vars
    BY <1>1, <2>6 DEF vars, Marked
  <2>7. QED
    BY <2>1, <2>2, <2>3, <2>4, <2>5, <2>6 DEF Next
<1>4. Ids(toCompanion', companion'.sent, companion'.nextId) /\ Owns(companion')
      /\ PresentedNow'
  BY <1>1, IdsStep, OwnsStep, PresentedStep
<1>5. QED
  BY <1>3, <1>4 DEF Marks

LEMMA MarksInit == Init => Marks
<1>1. ASSUME Init PROVE Marks
  <2>1. /\ toCompanion = <<>> /\ companion.sent = <<>> /\ front.doc = 0
        /\ companion.document = NoDocument
    BY <1>1 DEF Init
  <2>2. Len(toCompanion) = 0 /\ Len(companion.sent) = 0
    BY <2>1
  <2>3. QED
    BY <2>1, <2>2 DEF Marks, Ids, Owns, PresentedNow, Marked, Hosted
<1>2. QED
  BY <1>1

LEMMA MarksHold == Spec => []Marks
<1>1. Base /\ Turns /\ Numbers /\ Marks /\ [Next]_vars => Marks'
  BY MarksStep
<1>2. QED
  BY <1>1, MarksInit, BaseHolds, TurnsHold, NumbersHold, PTL DEF Spec

(* What a host's mirror says of the folder is so: it has marked the path   *)
(* as one that held a file only when the front-end knows that it did, and  *)
(* it has marked it when no word is on its way (editor.ts `opened`,        *)
(* `materialized`, `settleSave`).                                          *)
THEOREM MarksAreTrue == Spec => []MarkIsKnown
<1>1. Base /\ Marks => MarkIsKnown
  <2>1. ASSUME Base, Marks, Hosted(front, companion)
        PROVE  /\ companion.document.materialized => front.kept
               /\ front.kept /\ toCompanion = <<>> => companion.document.materialized
    <3>1. front.kept <=> Reached(companion, toCompanion)
      BY <2>1 DEF Marks, Marked
    <3>2. toCompanion = <<>> => Len(toCompanion) = 0
      OBVIOUS
    <3>3. QED
      BY <3>1, <3>2 DEF Reached
  <2>2. QED
    BY <2>1 DEF MarkIsKnown, Hosted
<1>2. QED
  BY <1>1, MarksHold, BaseHolds, PTL
=============================================================================
