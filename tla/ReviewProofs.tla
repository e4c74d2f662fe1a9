---------------------------- MODULE ReviewProofs ----------------------------
(* Proofs about the review, for any requests in flight, any columns,       *)
(* records, fields and identifiers.                                        *)
EXTENDS Review, TLAPS

----------------------------------------------------------------------------
(* What the variables hold, whatever overlaps *)

Workflows == [status : WorkflowStatus, applied : [Column -> Target \cup {NoTarget}],
              rejected : SUBSET MappingIssue]
Records == [status : RecordStatus, payload : Payloads]
Anything == Target \cup {NoTarget} \cup Id

Opened == [pc : {"opened"}, issue : Issue, action : Actions, value : Anything, version : Nat]
LoadedMapping == [pc : {"loaded"}, issue : MappingIssue, action : Actions, value : Anything,
                  version : Nat, workflow : Workflows]
Counted == [pc : {"counted"}, issue : MappingIssue, action : Actions, value : Anything,
            version : Nat, workflow : Workflows, status : WorkflowStatus]
LoadedRecord == [pc : {"loaded"}, issue : RecordIssue, action : Actions, value : Anything,
                 version : Nat, record : Records, status : WorkflowStatus]
Transforming == [pc : {"transforming"}, workflow : Workflows, version : Nat]

Sessions == {Idle} \cup Opened \cup LoadedMapping \cup Counted \cup LoadedRecord \cup Transforming

(* A session that decides, from its first read to its commit. *)
Steps == {"opened", "loaded", "counted"}
Deciding(s) == session[s].pc \in Steps

(* What a decision says fits what it is about. *)
Fits(q) ==
  /\ q.value \in Values(q.issue, q.action)
  /\ q.issue \in RecordIssue => q.action # "APPROVE"
  /\ q.version <= version

DecisionsFit == \A s \in Session : Deciding(s) => Fits(session[s])

TInv ==
  /\ data \in Datasets
  /\ workflow \in Workflows
  /\ escalation \in [Issue -> {"NONE", "OPEN", "RESOLVED"}]
  /\ record \in [Record -> Records]
  /\ version \in Nat
  /\ session \in [Session -> Sessions]
  /\ DecisionsFit

----------------------------------------------------------------------------
(* The invariant of independent decisions *)

(* What is in flight together is what `Overlap` allows. *)
Alongside(q, p) ==
  q.pc \in Steps /\ p.pc # "idle" =>
    /\ q.issue \in RecordIssue
    /\ p.pc \in Steps =>
         /\ p.issue \in RecordIssue
         /\ q.issue[1] # p.issue[1]
         /\ ~(CorrectsId(q.issue, q.action) /\ CorrectsId(p.issue, p.action))

Apart == \A s, t \in Session : s # t => Alongside(session[s], session[t])

(* A mapping is decided before there is a record: the first is written     *)
(* after the last decision about a mapping.                                *)
Phases ==
  /\ workflow.status = "NONE" =>
       version = 0 /\ (\A i \in Issue : escalation[i] = "NONE") /\ \A s \in Session : session[s] = Idle
  /\ version = 0 =>
       (\A r \in Record : record[r].status = "NONE") /\ \A i \in RecordIssue : escalation[i] = "NONE"
  /\ version > 0 \/ (\E s \in Session : session[s].pc = "transforming") =>
       workflow.status # "NONE" /\ \A c \in MappingIssue : ~Open(c)
  /\ \A i \in RecordIssue : Open(i) => i \in IssuesOf(data)

(* What a session that decides about a mapping knows is still so. *)
KnowsMapping(q) ==
  /\ Open(q.issue)
  /\ q.pc \in {"loaded", "counted"} => q.workflow = workflow /\ ~TargetTaken(q, workflow.applied)
  /\ q.pc = "counted" => q.status = StatusFor(Remaining(q.issue))

MappingsKnown ==
  \A s \in Session : Deciding(s) /\ session[s].issue \in MappingIssue => KnowsMapping(session[s])

(* And so is what one knows that decides about a record, unless the        *)
(* records have been written anew since.                                   *)
KnowsRecord(q) ==
  /\ Open(q.issue) /\ version > 0
  /\ q.pc = "loaded" => q.record = record[q.issue[1]] /\ q.status = "PAUSED" /\ ~IdTaken(q)

RecordsKnown ==
  \A s \in Session :
    Deciding(s) /\ session[s].issue \in RecordIssue /\ session[s].version = version
    => KnowsRecord(session[s])

(* A transform has the mappings it found when there was no record. *)
KnowsTransform(q) ==
  /\ q.version = 0 /\ q.workflow.status = "COMPLETED"
  /\ q.workflow.applied = workflow.applied /\ q.workflow.rejected = workflow.rejected

TransformsKnow ==
  \A s \in Session : session[s].pc = "transforming" => KnowsTransform(session[s])

(* A record's status says what is still to be decided about it. *)
RecordsAreRight ==
  version > 0 => \A r \in Record :
    /\ record[r].status # "NONE"
    /\ record[r].status = "REJECTED" => \A f \in Field \cup {Conflict} : ~Open(<<r, f>>)
    /\ record[r].status # "REJECTED" => \A f \in record[r].payload.bad : Open(<<r, f>>)
    /\ record[r].status = "VALID" => record[r].payload.bad = {}
    /\ record[r].status = "ESCALATION" => \E f \in Field \cup {Conflict} : Open(<<r, f>>)

(* Two records that are not rejected share an identifier only while the    *)
(* conflict of one is undecided, and what decides it is another            *)
(* identifier.                                                             *)
IdsAreRight ==
  version > 0 => \A q, r \in Record :
    /\ q # r /\ record[q].status # "REJECTED" /\ record[r].status # "REJECTED"
    /\ record[q].payload.id = record[r].payload.id /\ record[q].payload.id # NoId
    => \E x \in {q, r} : Open(<<x, Conflict>>) /\ data.payload[x].id # NoId

IInv ==
  /\ TInv
  /\ Apart
  /\ Phases
  /\ StatusIsTheCount
  /\ MappingsDecided
  /\ MappingsKnown
  /\ RecordsKnown
  /\ TransformsKnow
  /\ RecordsAreRight
  /\ IdsAreRight

----------------------------------------------------------------------------
(* Types *)

LEMMA IssuesApart == MappingIssue \cap RecordIssue = {}
  BY RecordAssumption DEF MappingIssue, RecordIssue

(* The session is the kind of record that where it stands says. *)
LEMMA SessionIs ==
  ASSUME TInv, NEW s \in Session
  PROVE  /\ session[s] = Idle <=> session[s].pc = "idle"
         /\ session[s].pc \in {"idle", "transforming"} \cup Steps
         /\ Deciding(s) => /\ session[s].issue \in Issue /\ session[s].action \in Actions
                           /\ session[s].value \in Anything /\ session[s].version \in Nat
         /\ session[s].pc = "counted" => session[s] \in Counted
         /\ session[s].pc = "transforming" => session[s] \in Transforming
         /\ session[s].pc = "loaded" /\ session[s].issue \in MappingIssue => session[s] \in LoadedMapping
         /\ session[s].pc = "loaded" /\ session[s].issue \in RecordIssue => session[s] \in LoadedRecord
<1>1. session[s] \in Sessions
  BY DEF TInv
<1>2. Idle.pc = "idle"
  BY DEF Idle
<1>3. \A q \in Opened \cup LoadedMapping \cup Counted \cup LoadedRecord \cup Transforming :
        q.pc # "idle" /\ q.pc \in {"transforming"} \cup Steps
  BY DEF Opened, LoadedMapping, Counted, LoadedRecord, Transforming, Steps
<1>4. /\ \A q \in Opened : q.pc = "opened" /\ q.issue \in Issue /\ q.action \in Actions
                           /\ q.value \in Anything /\ q.version \in Nat
      /\ \A q \in LoadedMapping : q.pc = "loaded" /\ q.issue \in MappingIssue /\ q.action \in Actions
                                  /\ q.value \in Anything /\ q.version \in Nat
      /\ \A q \in Counted : q.pc = "counted" /\ q.issue \in MappingIssue /\ q.action \in Actions
                            /\ q.value \in Anything /\ q.version \in Nat
      /\ \A q \in LoadedRecord : q.pc = "loaded" /\ q.issue \in RecordIssue /\ q.action \in Actions
                                 /\ q.value \in Anything /\ q.version \in Nat
      /\ \A q \in Transforming : q.pc = "transforming"
  BY DEF Opened, LoadedMapping, Counted, LoadedRecord, Transforming
<1>5. MappingIssue \subseteq Issue /\ RecordIssue \subseteq Issue
  BY DEF Issue
<1>6. CASE session[s] = Idle
  BY <1>2, <1>6 DEF Deciding, Steps
<1>7. CASE session[s] # Idle
  <2>1. session[s] \in Opened \cup LoadedMapping \cup Counted \cup LoadedRecord \cup Transforming
    BY <1>1, <1>7 DEF Sessions
  <2>. QED BY <1>3, <1>4, <1>5, <1>7, <2>1, IssuesApart DEF Deciding, Steps
<1>. QED BY <1>6, <1>7

LEMMA ValuesAre ==
  ASSUME NEW i \in Issue, NEW a \in Actions PROVE Values(i, a) \subseteq Anything
  BY DEF Values, Anything

LEMMA ValuesStay ==
  ASSUME UNCHANGED data
  PROVE  \A i, a : CorrectsId(i, a)' = CorrectsId(i, a) /\ Values(i, a)' = Values(i, a)
  BY DEF CorrectsId, Values

(* One session moves on. *)
LEMMA Moving ==
  ASSUME TInv, NEW s \in Session, NEW q \in Sessions, session' = [session EXCEPT ![s] = q],
         UNCHANGED data, version' \in Nat, version <= version',
         q.pc \in Steps => Fits(q)
  PROVE  /\ session' \in [Session -> Sessions] /\ session'[s] = q
         /\ \A t \in Session \ {s} : session'[t] = session[t]
         /\ DecisionsFit'
<1>1. /\ session' \in [Session -> Sessions] /\ session'[s] = q
      /\ \A t \in Session \ {s} : session'[t] = session[t]
  BY DEF TInv
<1>2. ASSUME NEW t \in Session, session'[t].pc \in Steps PROVE Fits(session'[t])
  BY <1>1, <1>2 DEF TInv, DecisionsFit, Deciding
<1>3. ASSUME NEW t \in Session, session'[t].pc \in Steps PROVE session'[t].version \in Nat
  <2>1. CASE t = s
    BY <1>1, <1>3, <2>1 DEF Sessions, Opened, LoadedMapping, LoadedRecord, Counted, Transforming, Idle, Steps
  <2>2. CASE t # s
    BY <1>1, <1>3, <2>2, SessionIs DEF Deciding
  <2>. QED BY <2>1, <2>2
<1>4. ASSUME NEW t \in Session, session'[t].pc \in Steps PROVE session'[t].version <= version'
  BY <1>2, <1>3, <1>4 DEF Fits, TInv
<1>5. ASSUME NEW t \in Session, NEW r, r = session'[t], r.pc \in Steps
      PROVE  (r.value \in Values(r.issue, r.action))' /\ (r.issue \in RecordIssue => r.action # "APPROVE")
  BY <1>2, <1>5 DEF Fits, Values, CorrectsId
<1>6. DecisionsFit'
  <2> SUFFICES ASSUME NEW t \in Session, Deciding(t)' PROVE Fits(session[t])'
    BY DEF DecisionsFit
  <2>1. session'[t].pc \in Steps
    BY DEF Deciding
  <2>. QED BY <1>4, <1>5, <2>1 DEF Fits, Values, CorrectsId
<1>. QED BY <1>1, <1>6

LEMMA RefusingKeepsTypes ==
  ASSUME TInv, NEW s \in Session, Refuse(s)
  PROVE  TInv'
<1>1. Idle \in Sessions /\ Idle.pc \notin Steps
  BY DEF Sessions, Idle, Steps
<1>2. session' = [session EXCEPT ![s] = Idle] /\ UNCHANGED data /\ version' \in Nat /\ version <= version'
  BY DEF Refuse, TInv
<1>3. DecisionsFit' /\ session' \in [Session -> Sessions]
  BY <1>1, <1>2, Moving
<1>. QED BY <1>2, <1>3 DEF Refuse, TInv

LEMMA OpeningKeepsTypes ==
  ASSUME TInv, NEW s \in Session, OpenEscalation(s)
  PROVE  TInv'
<1>a. PICK i \in Issue, a \in Actions :
        /\ i \in RecordIssue => a # "APPROVE"
        /\ \E v \in Values(i, a) : session' = [session EXCEPT ![s] =
             [pc |-> "opened", issue |-> i, action |-> a, value |-> v, version |-> version]]
        /\ UNCHANGED <<data, workflow, escalation, record, version>>
  BY DEF OpenEscalation
<1>1. PICK v \in Values(i, a) :
        /\ i \in RecordIssue => a # "APPROVE"
        /\ session' = [session EXCEPT ![s] =
             [pc |-> "opened", issue |-> i, action |-> a, value |-> v, version |-> version]]
        /\ UNCHANGED <<data, workflow, escalation, record, version>>
  BY <1>a
<1> DEFINE q == [pc |-> "opened", issue |-> i, action |-> a, value |-> v, version |-> version]
<1>2. v \in Anything /\ version \in Nat
  BY ValuesAre DEF TInv
<1>3. q \in Sessions
  BY <1>2 DEF Sessions, Opened
<1>4. Fits(q)
  BY <1>1, <1>2 DEF Fits
<1> HIDE DEF q
<1>5. session' = [session EXCEPT ![s] = q] /\ UNCHANGED data /\ version' \in Nat /\ version <= version'
  BY <1>1, <1>2 DEF q
<1>6. DecisionsFit' /\ session' \in [Session -> Sessions]
  BY <1>3, <1>4, <1>5, Moving
<1>. QED BY <1>1, <1>6 DEF TInv

LEMMA LoadingWorkflowKeepsTypes ==
  ASSUME TInv, NEW s \in Session, LoadWorkflow(s)
  PROVE  TInv'
<1> DEFINE old == session[s]
           q == [pc |-> "loaded", issue |-> old.issue, action |-> old.action, value |-> old.value,
                 version |-> old.version, workflow |-> workflow]
<1>1. CASE Refuse(s)
  BY <1>1, RefusingKeepsTypes
<1>2. CASE /\ session' = [session EXCEPT ![s] = q]
           /\ UNCHANGED <<data, workflow, escalation, record, version>>
  <2>1. /\ old.issue \in MappingIssue /\ old.action \in Actions /\ old.value \in Anything
        /\ old.version \in Nat /\ Fits(old)
    BY SessionIs DEF LoadWorkflow, Deciding, Steps, TInv, DecisionsFit
  <2>2. q \in Sessions
    BY <2>1 DEF Sessions, LoadedMapping, TInv
  <2>3. Fits(q)
    BY <2>1 DEF Fits
  <2> HIDE DEF q
  <2>4. UNCHANGED data /\ version' \in Nat /\ version <= version'
    BY <1>2 DEF TInv
  <2>5. DecisionsFit' /\ session' \in [Session -> Sessions]
    BY <1>2, <2>2, <2>3, <2>4, Moving
  <2>. QED BY <1>2, <2>5 DEF TInv
<1>. QED BY <1>1, <1>2 DEF LoadWorkflow

LEMMA CountingKeepsTypes ==
  ASSUME TInv, NEW s \in Session, CountOpen(s)
  PROVE  TInv'
<1> DEFINE old == session[s]
           q == [pc |-> "counted", issue |-> old.issue, action |-> old.action, value |-> old.value,
                 version |-> old.version, workflow |-> old.workflow, status |-> StatusFor(Remaining(old.issue))]
<1>1. session' = [session EXCEPT ![s] = q] /\ UNCHANGED <<data, workflow, escalation, record, version>>
  BY DEF CountOpen
<1>2. old \in LoadedMapping /\ Fits(old)
  BY SessionIs DEF CountOpen, Deciding, Steps, TInv, DecisionsFit
<1>3. StatusFor(Remaining(old.issue)) \in WorkflowStatus
  BY DEF StatusFor, WorkflowStatus
<1>4. q \in Sessions
  BY <1>2, <1>3 DEF Sessions, LoadedMapping, Counted
<1>5. Fits(q)
  BY <1>2 DEF Fits
<1> HIDE DEF q
<1>6. UNCHANGED data /\ version' \in Nat /\ version <= version'
  BY <1>1 DEF TInv
<1>7. DecisionsFit' /\ session' \in [Session -> Sessions]
  BY <1>1, <1>4, <1>5, <1>6, Moving
<1>. QED BY <1>1, <1>7 DEF TInv

LEMMA SelectedIs ==
  ASSUME NEW i \in MappingIssue, NEW a \in Actions, NEW v \in Values(i, a)
  PROVE  Selected(i, a, v) \in Target \cup {NoTarget}
<1>1. a = "CORRECT" => Values(i, a) = Target
  BY DEF Values
<1>2. a # "CORRECT" => Suggested[i] \in Target \cup {NoTarget}
  BY MappingAssumption DEF MappingIssue
<1>. QED BY <1>1, <1>2 DEF Selected

LEMMA CommittingMappingKeepsTypes ==
  ASSUME TInv, NEW s \in Session, CommitMapping(s)
  PROVE  TInv'
<1> DEFINE q == session[s]
<1>1. q \in Counted /\ Fits(q)
  BY SessionIs DEF CommitMapping, Deciding, Steps, TInv, DecisionsFit
<1>2. /\ q.issue \in MappingIssue /\ q.workflow \in Workflows /\ q.status \in WorkflowStatus
      /\ q.issue \in Column /\ q.issue \in Issue
  BY <1>1 DEF Counted, MappingIssue, Issue
<1>3. Selected(q.issue, q.action, q.value) \in Target \cup {NoTarget}
  BY <1>1, SelectedIs DEF Counted, Fits
<1>4. workflow' \in Workflows
  BY <1>2, <1>3 DEF CommitMapping, Workflows, Write, TInv
<1>5. escalation' \in [Issue -> {"NONE", "OPEN", "RESOLVED"}]
  BY <1>2 DEF CommitMapping, TInv
<1>6. Idle \in Sessions /\ Idle.pc \notin Steps
  BY DEF Sessions, Idle, Steps
<1>7. session' = [session EXCEPT ![s] = Idle] /\ UNCHANGED <<data, record, version>>
  BY DEF CommitMapping
<1>8. version' \in Nat /\ version <= version'
  BY <1>7 DEF TInv
<1>9. DecisionsFit' /\ session' \in [Session -> Sessions]
  BY <1>6, <1>7, <1>8, Moving
<1>. QED BY <1>4, <1>5, <1>7, <1>8, <1>9 DEF TInv

LEMMA LoadingRecordKeepsTypes ==
  ASSUME TInv, NEW s \in Session, LoadRecord(s)
  PROVE  TInv'
<1> DEFINE old == session[s]
           q == [pc |-> "loaded", issue |-> old.issue, action |-> old.action, value |-> old.value,
                 version |-> old.version, record |-> record[old.issue[1]], status |-> workflow.status]
<1>1. CASE Refuse(s)
  BY <1>1, RefusingKeepsTypes
<1>2. CASE /\ session' = [session EXCEPT ![s] = q]
           /\ UNCHANGED <<data, workflow, escalation, record, version>>
  <2>1. /\ old.issue \in RecordIssue /\ old.action \in Actions /\ old.value \in Anything
        /\ old.version \in Nat /\ Fits(old)
    BY SessionIs DEF LoadRecord, Deciding, Steps, TInv, DecisionsFit
  <2>2. record[old.issue[1]] \in Records /\ workflow.status \in WorkflowStatus
    BY <2>1 DEF TInv, RecordIssue, Workflows
  <2>3. q \in Sessions
    BY <2>1, <2>2 DEF Sessions, LoadedRecord
  <2>4. Fits(q)
    BY <2>1 DEF Fits
  <2> HIDE DEF q
  <2>5. UNCHANGED data /\ version' \in Nat /\ version <= version'
    BY <1>2 DEF TInv
  <2>6. DecisionsFit' /\ session' \in [Session -> Sessions]
    BY <1>2, <2>3, <2>4, <2>5, Moving
  <2>. QED BY <1>2, <2>6 DEF TInv
<1>. QED BY <1>1, <1>2 DEF LoadRecord

(* A correction leaves a payload that has an identifier exactly when that  *)
(* is not among its errors.                                                *)
LEMMA CorrectedIs ==
  ASSUME NEW q, NEW before \in Payloads, q.issue \in RecordIssue, q.action \in Actions, Fits(q)
  PROVE  /\ Corrected(q, before) \in Payloads
         /\ q.action # "CORRECT" => Corrected(q, before) = before
         /\ Corrected(q, before).bad \subseteq before.bad
         /\ q.action = "CORRECT" /\ q.issue[2] \in Field => q.issue[2] \notin Corrected(q, before).bad
         /\ q.action = "CORRECT" /\ CorrectsId(q.issue, q.action) =>
              Corrected(q, before).id = q.value /\ q.value \in Id
         /\ ~CorrectsId(q.issue, q.action) => Corrected(q, before).id = before.id
<1>1. /\ before.id \in Id \cup {NoId} /\ before.bad \in SUBSET Field
      /\ IdField \in before.bad <=> before.id = NoId
  BY DEF Payloads
<1>2. CASE q.action # "CORRECT"
  BY <1>2 DEF Corrected, CorrectsId
<1>3. CASE q.action = "CORRECT" /\ CorrectsId(q.issue, q.action)
  <2>1. q.value \in Id
    BY <1>3, IssuesApart DEF Fits, Values
  <2>2. Corrected(q, before) = [id |-> q.value, bad |-> before.bad \ {IdField}]
    BY <1>3 DEF Corrected
  <2>3. q.value # NoId
    BY <2>1, RecordAssumption
  <2>4. Corrected(q, before) \in Payloads
    BY <1>1, <2>1, <2>2, <2>3 DEF Payloads
  <2>5. q.issue[2] \in Field => q.issue[2] = IdField
    BY <1>3, RecordAssumption DEF CorrectsId
  <2>. QED BY <1>3, <2>1, <2>2, <2>4, <2>5
<1>4. CASE q.action = "CORRECT" /\ ~CorrectsId(q.issue, q.action)
  <2>1. q.issue[2] # IdField
    BY <1>4 DEF CorrectsId
  <2>2. Corrected(q, before) = [before EXCEPT !.bad = before.bad \ {q.issue[2]}]
    BY <1>4 DEF Corrected
  <2>3. Corrected(q, before) = [id |-> before.id, bad |-> before.bad \ {q.issue[2]}]
    BY <2>2 DEF Payloads
  <2>4. Corrected(q, before) \in Payloads
    BY <1>1, <2>1, <2>3 DEF Payloads
  <2>. QED BY <1>4, <2>3, <2>4
<1>. QED BY <1>2, <1>3, <1>4

LEMMA JudgedIs == \A q, after : Judged(q, after) \in RecordStatus
  BY DEF Judged, RecordStatus

LEMMA CommittingRecordKeepsTypes ==
  ASSUME TInv, NEW s \in Session, CommitRecord(s)
  PROVE  TInv'
<1> DEFINE q == session[s]
           r == q.issue[1]
           after == Corrected(q, q.record.payload)
           open == Remaining(q.issue) \ Closed(q)
<1>1. CASE Refuse(s)
  BY <1>1, RefusingKeepsTypes
<1>2. CASE ~Refuse(s)
  <2>1. q \in LoadedRecord /\ Fits(q)
    BY SessionIs DEF CommitRecord, Deciding, Steps, TInv, DecisionsFit
  <2>2. /\ q.issue \in RecordIssue /\ r \in Record /\ q.record \in Records /\ q.record.payload \in Payloads
        /\ q.action \in Actions /\ record[r] \in Records
    BY <2>1 DEF LoadedRecord, RecordIssue, Records, TInv
  <2>3. after \in Payloads
    BY <2>1, <2>2, CorrectedIs
  <2>4. Judged(q, after) \in RecordStatus
    BY JudgedIs
  <2>5. /\ record' = [record EXCEPT ![r] =
              [status |-> Write(Judged(q, after), q.record.status, record[r].status),
               payload |-> IF q.action = "CORRECT" THEN after ELSE record[r].payload]]
        /\ escalation' = [i \in Issue |-> IF i \in Closed(q) THEN "RESOLVED" ELSE escalation[i]]
        /\ workflow' = [workflow EXCEPT !.status = Write(StatusFor(open), q.status, workflow.status)]
        /\ session' = [session EXCEPT ![s] = Idle]
        /\ UNCHANGED <<data, version>>
    BY <1>2 DEF CommitRecord
  <2> HIDE DEF after, open
  <2>6. record' \in [Record -> Records]
    BY <2>2, <2>3, <2>4, <2>5 DEF TInv, Records, Write
  <2>7. escalation' \in [Issue -> {"NONE", "OPEN", "RESOLVED"}]
    BY <2>5 DEF TInv
  <2>8. workflow' \in Workflows
    BY <2>5 DEF TInv, Workflows, WorkflowStatus, StatusFor, Write
  <2>9. Idle \in Sessions /\ Idle.pc \notin Steps
    BY DEF Sessions, Idle, Steps
  <2>10. version' \in Nat /\ version <= version'
    BY <2>5 DEF TInv
  <2>11. DecisionsFit' /\ session' \in [Session -> Sessions]
    BY <2>5, <2>9, <2>10, Moving
  <2>. QED BY <2>5, <2>6, <2>7, <2>8, <2>10, <2>11 DEF TInv
<1>. QED BY <1>1, <1>2

LEMMA TransformReadingKeepsTypes ==
  ASSUME TInv, NEW s \in Session, TransformRead(s)
  PROVE  TInv'
<1> DEFINE q == [pc |-> "transforming", workflow |-> workflow, version |-> version]
<1>1. session' = [session EXCEPT ![s] = q] /\ UNCHANGED <<data, workflow, escalation, record, version>>
  BY DEF TransformRead
<1>2. q \in Sessions /\ q.pc \notin Steps
  BY DEF Sessions, Transforming, TInv, Steps
<1> HIDE DEF q
<1>3. UNCHANGED data /\ version' \in Nat /\ version <= version'
  BY <1>1 DEF TInv
<1>4. DecisionsFit' /\ session' \in [Session -> Sessions]
  BY <1>1, <1>2, <1>3, Moving
<1>. QED BY <1>1, <1>4 DEF TInv

LEMMA TransformingKeepsTypes ==
  ASSUME TInv, NEW s \in Session, TransformCommit(s)
  PROVE  TInv'
<1>1. session[s] \in Transforming /\ session[s].workflow \in Workflows
  BY SessionIs DEF TransformCommit, Transforming
<1>2. \A r \in Record : data.payload[r] \in Payloads
  BY DEF TInv, Datasets
<1>3. record' \in [Record -> Records]
  BY <1>2 DEF TransformCommit, Records, RecordStatus
<1>4. escalation' \in [Issue -> {"NONE", "OPEN", "RESOLVED"}]
  BY DEF TransformCommit, TInv, Issue
<1>5. workflow' \in Workflows
  BY <1>1 DEF TransformCommit, TInv, Workflows, WorkflowStatus, StatusFor, Write
<1>6. Idle \in Sessions /\ Idle.pc \notin Steps
  BY DEF Sessions, Idle, Steps
<1>7. session' = [session EXCEPT ![s] = Idle] /\ version' \in Nat /\ version <= version' /\ UNCHANGED data
  BY DEF TransformCommit, TInv
<1>8. DecisionsFit' /\ session' \in [Session -> Sessions]
  BY <1>6, <1>7, Moving
<1>. QED BY <1>3, <1>4, <1>5, <1>7, <1>8 DEF TInv

LEMMA StartingKeepsTypes ==
  ASSUME TInv, StartWorkflow
  PROVE  TInv'
<1>1. workflow' \in Workflows
  BY MappingAssumption DEF StartWorkflow, Workflows, WorkflowStatus
<1>2. escalation' \in [Issue -> {"NONE", "OPEN", "RESOLVED"}]
  BY DEF StartWorkflow
<1>3. UNCHANGED <<data, record, version, session>>
  BY DEF StartWorkflow
<1>. QED BY <1>1, <1>2, <1>3 DEF TInv, DecisionsFit, Deciding, Fits, Values, CorrectsId

LEMMA InitTypes == Init => TInv
<1> SUFFICES ASSUME Init PROVE TInv
  OBVIOUS
<1>1. NoPayload \in Payloads
  BY RecordAssumption DEF NoPayload, Payloads
<1>2. record \in [Record -> Records]
  BY <1>1 DEF Init, Records, RecordStatus
<1>3. workflow \in Workflows
  BY DEF Init, Workflows, WorkflowStatus
<1>4. session \in [Session -> Sessions]
  BY DEF Init, Sessions
<1>5. DecisionsFit
  BY DEF Init, DecisionsFit, Deciding, Idle, Steps
<1>. QED BY <1>2, <1>3, <1>4, <1>5 DEF Init, TInv

LEMMA NextTypes == TInv /\ [Next]_vars => TInv'
<1> SUFFICES ASSUME TInv, [Next]_vars PROVE TInv'
  OBVIOUS
<1>1. CASE StartWorkflow
  BY <1>1, StartingKeepsTypes
<1>2. CASE \E s \in Session : Resolve(s)
  BY <1>2, OpeningKeepsTypes, LoadingWorkflowKeepsTypes, CountingKeepsTypes, CommittingMappingKeepsTypes,
     LoadingRecordKeepsTypes, CommittingRecordKeepsTypes DEF Resolve
<1>3. CASE \E s \in Session : Transform(s)
  BY <1>3, TransformReadingKeepsTypes, TransformingKeepsTypes DEF Transform
<1>4. CASE UNCHANGED vars
  BY <1>4 DEF vars, TInv, DecisionsFit, Deciding, Fits, Values, CorrectsId
<1>. QED BY <1>1, <1>2, <1>3, <1>4 DEF Next

LEMMA TypesImplyTypeOK == TInv => TypeOK
<1> SUFFICES ASSUME TInv PROVE TypeOK
  OBVIOUS
<1>1. \A s \in Session : session[s].pc \in {"idle", "opened", "loaded", "counted", "transforming"}
  BY SessionIs DEF Steps
<1>. QED BY <1>1 DEF TInv, TypeOK, Workflows, Records

(* Whatever overlaps, every row and every request in flight is one that    *)
(* the schema and the handlers allow.                                      *)
THEOREM Typing == Spec => []TypeOK
<1>1. Init => TInv
  BY InitTypes
<1>2. TInv /\ [Next]_vars => TInv'
  BY NextTypes
<1>3. TInv => TypeOK
  BY TypesImplyTypeOK
<1>. QED BY <1>1, <1>2, <1>3, PTL DEF Spec

----------------------------------------------------------------------------
(* Independent decisions *)

LEMMA InitIndependent == Init => IInv
<1> SUFFICES ASSUME Init PROVE IInv
  OBVIOUS
<1>1. TInv
  BY InitTypes
<1>2. /\ version = 0 /\ workflow.status = "NONE" /\ workflow.rejected = {}
      /\ \A i \in Issue : escalation[i] = "NONE"
      /\ \A r \in Record : record[r].status = "NONE"
      /\ \A s \in Session : session[s].pc = "idle" /\ session[s] = Idle
      /\ \A c \in Column : workflow.applied[c] = NoTarget
  BY DEF Init, Idle
<1>3. "idle" \notin Steps
  BY DEF Steps
<1>4. Apart
  BY <1>2, <1>3 DEF Apart, Alongside
<1>5. Phases
  BY <1>2 DEF Phases, Open, Issue
<1>6. StatusIsTheCount
  BY <1>2 DEF StatusIsTheCount
<1>7. MappingsDecided
  BY <1>2 DEF MappingsDecided, Writable, MappingIssue, Issue
<1>8. MappingsKnown /\ RecordsKnown /\ TransformsKnow
  BY <1>2, <1>3 DEF MappingsKnown, RecordsKnown, TransformsKnow, Deciding
<1>9. RecordsAreRight /\ IdsAreRight
  BY <1>2 DEF RecordsAreRight, IdsAreRight
<1>. QED BY <1>1, <1>4, <1>5, <1>6, <1>7, <1>8, <1>9 DEF IInv

(* A step that changes one session only, to one that knows what it must. *)
LEMMA Learning ==
  ASSUME IInv, TInv', NEW s \in Session, NEW q \in Sessions,
         session' = [session EXCEPT ![s] = q],
         UNCHANGED <<data, workflow, escalation, record, version>>,
         \A t \in Session \ {s} : Alongside(q, session[t]) /\ Alongside(session[t], q),
         workflow.status = "NONE" => q = Idle,
         q.pc \in Steps /\ q.issue \in MappingIssue => KnowsMapping(q),
         q.pc \in Steps /\ q.issue \in RecordIssue /\ q.version = version => KnowsRecord(q),
         q.pc = "transforming" => /\ KnowsTransform(q)
                                  /\ workflow.status # "NONE" /\ \A c \in MappingIssue : ~Open(c)
  PROVE  IInv'
<1>1. session'[s] = q /\ \A t \in Session \ {s} : session'[t] = session[t]
  BY DEF IInv, TInv
<1>2. Apart'
  <2> SUFFICES ASSUME NEW t \in Session, NEW u \in Session, t # u,
                      NEW p, p = session'[t], NEW r, r = session'[u]
               PROVE  Alongside(p, r)'
    BY DEF Apart, Alongside
  <2>1. Alongside(p, r)
    BY <1>1 DEF IInv, Apart
  <2>. QED BY <2>1 DEF Alongside, CorrectsId
<1>3. Phases'
  <2>1. workflow'.status = "NONE" => \A t \in Session : session'[t] = Idle
    BY <1>1 DEF IInv, Phases
  <2>2. (\E t \in Session : session'[t].pc = "transforming") =>
           workflow.status # "NONE" /\ \A c \in MappingIssue : ~Open(c)
    BY <1>1 DEF IInv, Phases
  <2>. QED BY <2>1, <2>2 DEF IInv, Phases, Open, IssuesOf
<1>4. StatusIsTheCount' /\ MappingsDecided'
  BY DEF IInv, StatusIsTheCount, MappingsDecided, Open
<1>5. MappingsKnown'
  <2> SUFFICES ASSUME NEW t \in Session, NEW p, p = session'[t], p.pc \in Steps, p.issue \in MappingIssue
               PROVE  KnowsMapping(p)'
    BY DEF MappingsKnown, KnowsMapping, Deciding, TargetTaken, Applies, Selected, Remaining, Open
  <2>1. KnowsMapping(p)
    BY <1>1 DEF IInv, MappingsKnown, Deciding
  <2>. QED BY <2>1 DEF KnowsMapping, Remaining, Open
<1>6. RecordsKnown'
  <2> SUFFICES ASSUME NEW t \in Session, NEW p, p = session'[t], p.pc \in Steps, p.issue \in RecordIssue,
                      p.version = version
               PROVE  KnowsRecord(p)'
    BY DEF RecordsKnown, KnowsRecord, Deciding, IdTaken, CorrectsId, Open
  <2>1. KnowsRecord(p)
    BY <1>1 DEF IInv, RecordsKnown, Deciding
  <2>. QED BY <2>1 DEF KnowsRecord, IdTaken, CorrectsId, Open
<1>7. TransformsKnow'
  <2> SUFFICES ASSUME NEW t \in Session, NEW p, p = session'[t], p.pc = "transforming"
               PROVE  KnowsTransform(p)'
    BY DEF TransformsKnow, KnowsTransform
  <2>1. KnowsTransform(p)
    BY <1>1 DEF IInv, TransformsKnow
  <2>. QED BY <2>1 DEF KnowsTransform
<1>8. RecordsAreRight' /\ IdsAreRight'
  BY DEF IInv, RecordsAreRight, IdsAreRight, Open
<1>. QED BY <1>2, <1>3, <1>4, <1>5, <1>6, <1>7, <1>8 DEF IInv

LEMMA IdleAlongside ==
  \A p : Alongside(Idle, p) /\ Alongside(p, Idle)
  BY DEF Alongside, Idle, Steps

LEMMA RefusingIsSafe ==
  ASSUME IInv, NEW s \in Session, Refuse(s)
  PROVE  IInv'
<1>1. TInv'
  BY RefusingKeepsTypes DEF IInv
<1>2. Idle \in Sessions /\ Idle.pc \notin Steps /\ Idle.pc # "transforming"
  BY DEF Sessions, Idle, Steps
<1>3. \A t \in Session \ {s} : Alongside(Idle, session[t]) /\ Alongside(session[t], Idle)
  BY IdleAlongside
<1>4. session' = [session EXCEPT ![s] = Idle] /\ UNCHANGED <<data, workflow, escalation, record, version>>
  BY DEF Refuse
<1>. QED BY <1>1, <1>2, <1>3, <1>4, Learning

(* Where an issue is open the review has begun. *)
LEMMA OpenMeans ==
  ASSUME IInv, NEW i \in Issue, Open(i)
  PROVE  workflow.status = "PAUSED" /\ (i \in RecordIssue => version > 0)
<1>1. workflow.status # "NONE"
  BY DEF IInv, Phases, Open
<1>2. workflow.status = "PAUSED"
  BY <1>1 DEF IInv, StatusIsTheCount
<1>3. i \in RecordIssue => version # 0
  BY DEF IInv, Phases, Open
<1>. QED BY <1>2, <1>3 DEF IInv, TInv

LEMMA OpeningIsSafe ==
  ASSUME IInv, Overlap = "independent", NEW s \in Session, OpenEscalation(s)
  PROVE  IInv'
<1>a. PICK i \in Issue, a \in Actions :
        /\ session[s] = Idle /\ Open(i)
        /\ MayDecide(s, i, a)
        /\ \E v \in Values(i, a) : session' = [session EXCEPT ![s] =
             [pc |-> "opened", issue |-> i, action |-> a, value |-> v, version |-> version]]
        /\ UNCHANGED <<data, workflow, escalation, record, version>>
  BY DEF OpenEscalation, Open
<1>1. PICK v \in Values(i, a) :
        session' = [session EXCEPT ![s] =
             [pc |-> "opened", issue |-> i, action |-> a, value |-> v, version |-> version]]
  BY <1>a
<1> DEFINE q == [pc |-> "opened", issue |-> i, action |-> a, value |-> v, version |-> version]
<1>2. TInv'
  BY OpeningKeepsTypes DEF IInv
<1>3. q \in Sessions
  <2>1. v \in Anything /\ version \in Nat
    BY ValuesAre DEF IInv, TInv
  <2>. QED BY <2>1 DEF Sessions, Opened
<1>4. /\ q.pc = "opened" /\ q.issue = i /\ q.action = a /\ q.version = version
  OBVIOUS
<1>5. workflow.status = "PAUSED" /\ (i \in RecordIssue => version > 0)
  BY <1>a, OpenMeans
<1>6. KnowsMapping(q)
  BY <1>a, <1>4 DEF KnowsMapping
<1>7. i \in RecordIssue => KnowsRecord(q)
  BY <1>a, <1>4, <1>5 DEF KnowsRecord
<1>8. ASSUME NEW t \in Session \ {s} PROVE Alongside(q, session[t]) /\ Alongside(session[t], q)
  <2>1. CASE session[t].pc = "idle"
    BY <2>1 DEF Alongside, Steps
  <2>2. CASE session[t].pc = "transforming"
    <3>1. i \in RecordIssue
      BY <1>a, <2>2 DEF MayDecide
    <3>. QED BY <1>4, <2>2, <3>1 DEF Alongside, Steps
  <2>3. CASE session[t].pc \in Steps
    <3>1. MayOverlap(i, a, session[t].issue, session[t].action)
      BY <1>a, <2>3 DEF MayDecide, Steps
    <3>. QED BY <1>4, <3>1 DEF MayOverlap, Alongside
  <2>. QED BY <2>1, <2>2, <2>3, SessionIs DEF IInv
<1>9. session' = [session EXCEPT ![s] = q] /\ UNCHANGED <<data, workflow, escalation, record, version>>
  BY <1>a, <1>1
<1> HIDE DEF q
<1>. QED BY <1>2, <1>3, <1>4, <1>5, <1>6, <1>7, <1>8, <1>9, Learning

(* A session that only learns more is alongside what it was. *)
LEMMA StillAlongside ==
  ASSUME Apart, NEW s \in Session, NEW q, session[s].pc \in Steps, q.pc \in Steps,
         q.issue = session[s].issue, q.action = session[s].action
  PROVE  \A t \in Session \ {s} : Alongside(q, session[t]) /\ Alongside(session[t], q)
<1>1. "idle" \notin Steps
  BY DEF Steps
<1>. QED BY <1>1 DEF Apart, Alongside

LEMMA LoadingWorkflowIsSafe ==
  ASSUME IInv, NEW s \in Session, LoadWorkflow(s)
  PROVE  IInv'
<1> DEFINE old == session[s]
           q == [pc |-> "loaded", issue |-> old.issue, action |-> old.action, value |-> old.value,
                 version |-> old.version, workflow |-> workflow]
<1>1. CASE Refuse(s)
  BY <1>1, RefusingIsSafe
<1>2. CASE /\ session' = [session EXCEPT ![s] = q] /\ ~TargetTaken(old, workflow.applied)
           /\ UNCHANGED <<data, workflow, escalation, record, version>>
  <2>1. TInv'
    BY LoadingWorkflowKeepsTypes DEF IInv
  <2>2. old.pc = "opened" /\ old.issue \in MappingIssue /\ old.pc \in Steps
    BY DEF LoadWorkflow, Steps
  <2>3. /\ old.action \in Actions /\ old.value \in Anything /\ old.version \in Nat
        /\ old # Idle
    BY <2>2, SessionIs DEF Deciding, Idle, IInv
  <2>4. q \in Sessions
    BY <2>2, <2>3 DEF Sessions, LoadedMapping, IInv, TInv
  <2>5. /\ q.pc = "loaded" /\ q.issue = old.issue /\ q.action = old.action /\ q.value = old.value
        /\ q.workflow = workflow
    OBVIOUS
  <2> HIDE DEF q
  <2>6. Open(old.issue)
    BY <2>2 DEF IInv, MappingsKnown, KnowsMapping, Deciding
  <2>7. ~TargetTaken(q, workflow.applied)
    BY <1>2, <2>5 DEF TargetTaken, Applies
  <2>8. KnowsMapping(q)
    BY <2>5, <2>6, <2>7 DEF KnowsMapping
  <2>9. q.pc \in Steps
    BY <2>5 DEF Steps
  <2>10. \A t \in Session \ {s} : Alongside(q, session[t]) /\ Alongside(session[t], q)
    BY <2>2, <2>5, <2>9, StillAlongside DEF IInv
  <2>11. workflow.status # "NONE"
    BY <2>3 DEF IInv, Phases
  <2>12. q.issue \notin RecordIssue /\ q.pc # "transforming"
    BY <2>2, <2>5, IssuesApart
  <2>. QED BY <1>2, <2>1, <2>4, <2>8, <2>10, <2>11, <2>12, Learning
<1>. QED BY <1>1, <1>2 DEF LoadWorkflow

LEMMA CountingIsSafe ==
  ASSUME IInv, NEW s \in Session, CountOpen(s)
  PROVE  IInv'
<1> DEFINE old == session[s]
           q == [pc |-> "counted", issue |-> old.issue, action |-> old.action, value |-> old.value,
                 version |-> old.version, workflow |-> old.workflow, status |-> StatusFor(Remaining(old.issue))]
<1>1. session' = [session EXCEPT ![s] = q] /\ UNCHANGED <<data, workflow, escalation, record, version>>
  BY DEF CountOpen
<1>2. old \in LoadedMapping /\ old.pc \in Steps
  BY SessionIs DEF CountOpen, Deciding, Steps, IInv
<1>3. TInv'
  BY CountingKeepsTypes DEF IInv
<1>4. StatusFor(Remaining(old.issue)) \in WorkflowStatus
  BY DEF StatusFor, WorkflowStatus
<1>5. q \in Sessions
  BY <1>2, <1>4 DEF Sessions, LoadedMapping, Counted
<1>6. /\ q.pc = "counted" /\ q.issue = old.issue /\ q.action = old.action /\ q.value = old.value
      /\ q.workflow = old.workflow /\ q.status = StatusFor(Remaining(old.issue))
  OBVIOUS
<1> HIDE DEF q
<1>7. old.pc = "loaded" /\ old.issue \in MappingIssue
  BY DEF CountOpen
<1>8. KnowsMapping(old)
  BY <1>2, <1>7 DEF IInv, MappingsKnown, Deciding
<1>9. TargetTaken(q, workflow.applied) <=> TargetTaken(old, workflow.applied)
  BY <1>6 DEF TargetTaken, Applies
<1>10. KnowsMapping(q)
  BY <1>6, <1>7, <1>8, <1>9 DEF KnowsMapping
<1>11. q.pc \in Steps
  BY <1>6 DEF Steps
<1>12. \A t \in Session \ {s} : Alongside(q, session[t]) /\ Alongside(session[t], q)
  BY <1>2, <1>6, <1>11, StillAlongside DEF IInv
<1>13. workflow.status # "NONE"
  BY <1>7 DEF IInv, Phases, Idle
<1>14. q.issue \notin RecordIssue /\ q.pc # "transforming"
  BY <1>6, <1>7, IssuesApart
<1>. QED BY <1>1, <1>3, <1>5, <1>10, <1>12, <1>13, <1>14, Learning

LEMMA LoadingRecordIsSafe ==
  ASSUME IInv, NEW s \in Session, LoadRecord(s)
  PROVE  IInv'
<1> DEFINE old == session[s]
           q == [pc |-> "loaded", issue |-> old.issue, action |-> old.action, value |-> old.value,
                 version |-> old.version, record |-> record[old.issue[1]], status |-> workflow.status]
<1>1. CASE Refuse(s)
  BY <1>1, RefusingIsSafe
<1>2. CASE /\ session' = [session EXCEPT ![s] = q] /\ old.version = version /\ ~IdTaken(old)
           /\ UNCHANGED <<data, workflow, escalation, record, version>>
  <2>1. TInv'
    BY LoadingRecordKeepsTypes DEF IInv
  <2>2. old.pc = "opened" /\ old.issue \in RecordIssue /\ old.pc \in Steps /\ old.issue \in Issue
    BY DEF LoadRecord, Steps, Issue
  <2>3. old.action \in Actions /\ old.value \in Anything /\ old.version \in Nat
    BY <2>2, SessionIs DEF Deciding, IInv
  <2>4. record[old.issue[1]] \in Records /\ workflow.status \in WorkflowStatus
    BY <2>2 DEF IInv, TInv, RecordIssue, Workflows
  <2>5. q \in Sessions
    BY <2>2, <2>3, <2>4 DEF Sessions, LoadedRecord
  <2>6. /\ q.pc = "loaded" /\ q.issue = old.issue /\ q.action = old.action /\ q.value = old.value
        /\ q.record = record[q.issue[1]] /\ q.status = workflow.status
    OBVIOUS
  <2> HIDE DEF q
  <2>7. Open(old.issue) /\ version > 0
    BY <1>2, <2>2 DEF IInv, RecordsKnown, KnowsRecord, Deciding
  <2>8. workflow.status = "PAUSED"
    BY <2>2, <2>7, OpenMeans
  <2>9. ~IdTaken(q)
    BY <1>2, <2>6 DEF IdTaken
  <2>10. KnowsRecord(q)
    BY <2>6, <2>7, <2>8, <2>9 DEF KnowsRecord
  <2>11. q.pc \in Steps
    BY <2>6 DEF Steps
  <2>12. \A t \in Session \ {s} : Alongside(q, session[t]) /\ Alongside(session[t], q)
    BY <2>2, <2>6, <2>11, StillAlongside DEF IInv
  <2>13. q.issue \notin MappingIssue /\ q.pc # "transforming"
    BY <2>2, <2>6, IssuesApart
  <2>. QED BY <1>2, <2>1, <2>5, <2>8, <2>10, <2>12, <2>13, Learning
<1>. QED BY <1>1, <1>2 DEF LoadRecord

LEMMA TransformReadingIsSafe ==
  ASSUME IInv, Overlap = "independent", NEW s \in Session, TransformRead(s)
  PROVE  IInv'
<1> DEFINE q == [pc |-> "transforming", workflow |-> workflow, version |-> version]
<1>1. /\ session' = [session EXCEPT ![s] = q] /\ UNCHANGED <<data, workflow, escalation, record, version>>
      /\ version = 0 /\ workflow.status = "COMPLETED" /\ MayTransform(s)
  BY DEF TransformRead
<1>2. TInv'
  BY TransformReadingKeepsTypes DEF IInv
<1>3. q \in Sessions
  BY DEF Sessions, Transforming, IInv, TInv
<1>4. q.pc = "transforming" /\ q.workflow = workflow /\ q.version = version
  OBVIOUS
<1> HIDE DEF q
<1>5. q.pc \notin Steps
  BY <1>4 DEF Steps
<1>6. \A c \in MappingIssue : ~Open(c)
  BY <1>1 DEF IInv, StatusIsTheCount, Issue
<1>7. KnowsTransform(q)
  BY <1>1, <1>4 DEF KnowsTransform
<1>8. ASSUME NEW t \in Session \ {s} PROVE Alongside(q, session[t]) /\ Alongside(session[t], q)
  <2>1. session[t].pc \in Steps => session[t].issue \in RecordIssue
    BY <1>1 DEF MayTransform, Steps
  <2>. QED BY <1>5, <2>1 DEF Alongside
<1>. QED BY <1>1, <1>2, <1>3, <1>5, <1>6, <1>7, <1>8, Learning

LEMMA StartingIsSafe ==
  ASSUME IInv, StartWorkflow
  PROVE  IInv'
<1>1. TInv'
  BY StartingKeepsTypes DEF IInv
<1>2. /\ version = 0 /\ \A s \in Session : session[s] = Idle
      /\ \A r \in Record : record[r].status = "NONE"
  BY DEF StartWorkflow, IInv, Phases
<1>3. \A s \in Session : session'[s] = Idle /\ session'[s].pc = "idle" /\ session'[s].pc \notin Steps
  BY <1>2 DEF StartWorkflow, Idle, Steps
<1>4. /\ workflow'.status = IF MappingIssue = {} THEN "COMPLETED" ELSE "PAUSED"
      /\ workflow'.rejected = {}
      /\ \A c \in Column : workflow'.applied[c] = IF c \in Automatic THEN Suggested[c] ELSE NoTarget
      /\ \A i \in Issue : escalation'[i] = IF i \in MappingIssue THEN "OPEN" ELSE "NONE"
      /\ UNCHANGED <<data, record, version, session>>
  BY DEF StartWorkflow
<1>5. MappingIssue \subseteq Issue /\ RecordIssue \subseteq Issue /\ MappingIssue \cap RecordIssue = {}
  BY IssuesApart DEF Issue
<1>6. Apart'
  BY <1>3 DEF Apart, Alongside
<1>7. Phases'
  BY <1>2, <1>3, <1>4, <1>5 DEF Phases, Open
<1>8. StatusIsTheCount'
  BY <1>4, <1>5 DEF StatusIsTheCount, Open
<1>9. MappingsDecided'
  <2>1. \A c \in MappingIssue : c \in Column /\ c \notin Automatic
    BY DEF MappingIssue
  <2>2. \A c \in MappingIssue : escalation'[c] # "RESOLVED" /\ workflow'.applied[c] = NoTarget
    BY <1>4, <1>5, <2>1
  <2>3. ASSUME NEW c \in Column, NEW d \in Column, c # d, FileOf[c] = FileOf[d], workflow'.applied[c] # NoTarget
        PROVE  workflow'.applied[c] # workflow'.applied[d]
    BY <1>4, <2>3, MappingAssumption
  <2>. QED BY <1>4, <2>2, <2>3 DEF MappingsDecided, Writable
<1>10. MappingsKnown' /\ RecordsKnown' /\ TransformsKnow'
  BY <1>3 DEF MappingsKnown, RecordsKnown, TransformsKnow, Deciding
<1>11. RecordsAreRight' /\ IdsAreRight'
  BY <1>2, <1>4 DEF RecordsAreRight, IdsAreRight
<1>. QED BY <1>1, <1>6, <1>7, <1>8, <1>9, <1>10, <1>11 DEF IInv

(* The decision about a mapping is alone, so what it has read still holds. *)
LEMMA CommittingMappingIsSafe ==
  ASSUME IInv, NEW s \in Session, CommitMapping(s)
  PROVE  IInv'
<1> DEFINE q == session[s]
           i == q.issue
<1>1. TInv'
  BY CommittingMappingKeepsTypes DEF IInv
<1>2. /\ q.pc = "counted" /\ q \in Counted /\ i \in MappingIssue /\ i \in Column /\ i \in Issue
      /\ i \notin RecordIssue /\ q.pc \in Steps
  <2>1. q.pc = "counted" /\ q \in Counted
    BY SessionIs DEF CommitMapping, IInv
  <2>2. i \in MappingIssue
    BY <2>1 DEF Counted
  <2>. QED BY <2>1, <2>2, IssuesApart DEF MappingIssue, Issue, Steps
<1>3. KnowsMapping(q)
  BY <1>2 DEF IInv, MappingsKnown, Deciding
<1>4. Open(i) /\ q.workflow = workflow /\ ~TargetTaken(q, workflow.applied) /\ q.status = StatusFor(Remaining(i))
  BY <1>2, <1>3 DEF KnowsMapping
<1>5. \A t \in Session : t # s => session[t].pc = "idle"
  BY <1>2 DEF IInv, Apart, Alongside
<1>6. \A t \in Session : session'[t] = Idle /\ session'[t].pc = "idle" /\ session'[t].pc \notin Steps
  BY <1>5, SessionIs DEF IInv, TInv, CommitMapping, Idle, Steps
<1>7. workflow'.status = StatusFor(Remaining(i))
  BY <1>4 DEF CommitMapping, Write
<1>8. /\ \A j \in Issue : escalation'[j] = IF j = i THEN "RESOLVED" ELSE escalation[j]
      /\ UNCHANGED <<data, record, version>>
  BY <1>2 DEF CommitMapping, IInv, TInv
<1>9. \A j \in Issue : Open(j)' <=> j \in Remaining(i)
  BY <1>8 DEF Open, Remaining
<1>10. MappingIssue \subseteq Issue /\ RecordIssue \subseteq Issue /\ MappingIssue \cap RecordIssue = {}
  BY IssuesApart DEF Issue
<1>11. version = 0
  BY <1>2, <1>4 DEF IInv, Phases, TInv
<1>12. Apart'
  BY <1>6 DEF Apart, Alongside
<1>13. Phases'
  <2>1. workflow'.status # "NONE"
    BY <1>7 DEF StatusFor
  <2>2. \A j \in RecordIssue : escalation'[j] = "NONE"
    BY <1>2, <1>8, <1>10, <1>11 DEF IInv, Phases
  <2>. QED BY <1>6, <1>8, <1>11, <2>1, <2>2 DEF IInv, Phases, Open
<1>14. StatusIsTheCount'
  BY <1>7, <1>9 DEF StatusIsTheCount, StatusFor, Remaining
<1>15. MappingsDecided'
  <2>1. CASE Applies(q)
    <3>1. /\ workflow'.applied = [workflow.applied EXCEPT ![i] = Selected(i, q.action, q.value)]
          /\ workflow'.rejected = workflow.rejected /\ Selected(i, q.action, q.value) # NoTarget
      BY <1>4, <2>1 DEF CommitMapping, Applies
    <3>2. \A c \in Column : workflow'.applied[c] = IF c = i THEN Selected(i, q.action, q.value)
                                                   ELSE workflow.applied[c]
      BY <1>2, <3>1 DEF IInv, TInv, Workflows
    <3>3. \A c \in Column \ {i} : FileOf[c] = FileOf[i] => workflow.applied[c] # Selected(i, q.action, q.value)
      BY <1>4, <2>1 DEF TargetTaken
    <3>4. ASSUME NEW c \in Column, NEW d \in Column, c # d, FileOf[c] = FileOf[d], workflow'.applied[c] # NoTarget
          PROVE  workflow'.applied[c] # workflow'.applied[d]
      BY <3>2, <3>3, <3>4 DEF IInv, MappingsDecided, Writable
    <3>5. \A c \in MappingIssue : escalation'[c] = "RESOLVED" <=>
                                 workflow'.applied[c] # NoTarget \/ c \in workflow'.rejected
      <4>1. \A c \in MappingIssue : c \in Column
        BY DEF MappingIssue
      <4>. QED BY <1>8, <1>10, <3>1, <3>2, <4>1 DEF IInv, MappingsDecided
    <3>. QED BY <3>4, <3>5 DEF MappingsDecided, Writable
  <2>2. CASE ~Applies(q)
    <3>1. workflow'.applied = workflow.applied /\ workflow'.rejected = workflow.rejected \cup {i}
      BY <1>4, <2>2 DEF CommitMapping
    <3>. QED BY <1>2, <1>8, <1>10, <3>1 DEF IInv, MappingsDecided, Writable, MappingIssue
  <2>. QED BY <2>1, <2>2
<1>16. MappingsKnown' /\ RecordsKnown' /\ TransformsKnow'
  BY <1>6 DEF MappingsKnown, RecordsKnown, TransformsKnow, Deciding
<1>17. RecordsAreRight' /\ IdsAreRight'
  BY <1>8, <1>11 DEF RecordsAreRight, IdsAreRight
<1>. QED BY <1>1, <1>12, <1>13, <1>14, <1>15, <1>16, <1>17 DEF IInv

(* What a decision about a record that ends in a commit knew, and what it  *)
(* changes: `after` is the payload it leaves.                              *)
Committed(s, q, r, after) ==
  /\ q.issue \in RecordIssue /\ q.issue \in Issue /\ r \in Record /\ q.pc = "loaded" /\ q.pc \in Steps
  /\ q.action \in {"CORRECT", "REJECT"} /\ q.action \in Actions /\ Fits(q)
  /\ Open(q.issue) /\ ~IdTaken(q) /\ version > 0
  /\ record[r].payload \in Payloads /\ record[r].status # "REJECTED" /\ record[r].status # "NONE"
  /\ record'[r] = [status |-> Judged(q, after), payload |-> after]
  /\ \A x \in Record \ {r} : record'[x] = record[x]
  /\ \A i \in Issue : escalation'[i] = IF i \in Closed(q) THEN "RESOLVED" ELSE escalation[i]
  /\ workflow'.applied = workflow.applied /\ workflow'.rejected = workflow.rejected
  /\ workflow'.status = StatusFor(Remaining(q.issue) \ Closed(q))
  /\ session'[s] = Idle /\ \A t \in Session \ {s} : session'[t] = session[t]
  /\ UNCHANGED <<data, version>>

LEMMA CommittingRecordIs ==
  ASSUME IInv, NEW s \in Session, CommitRecord(s), ~Refuse(s),
         NEW q, q = session[s], NEW r, r = q.issue[1],
         NEW after, after = Corrected(q, record[r].payload)
  PROVE  Committed(s, q, r, after)
<1>1. q \in LoadedRecord /\ Fits(q) /\ q.pc = "loaded" /\ q.pc \in Steps
  BY SessionIs DEF CommitRecord, Deciding, Steps, IInv, TInv, DecisionsFit
<1>2. q.issue \in RecordIssue /\ q.action \in Actions
  BY <1>1 DEF LoadedRecord
<1>3. r \in Record /\ q.issue \in Issue
  BY <1>2 DEF RecordIssue, Issue
<1>4. q.action \in {"CORRECT", "REJECT"}
  BY <1>1, <1>2 DEF Fits, Actions
<1>5. /\ q.version = version
      /\ record' = [record EXCEPT ![r] =
              [status |-> Write(Judged(q, Corrected(q, q.record.payload)), q.record.status, record[r].status),
               payload |-> IF q.action = "CORRECT" THEN Corrected(q, q.record.payload) ELSE record[r].payload]]
      /\ escalation' = [i \in Issue |-> IF i \in Closed(q) THEN "RESOLVED" ELSE escalation[i]]
      /\ workflow' = [workflow EXCEPT !.status = Write(StatusFor(Remaining(q.issue) \ Closed(q)),
                                                       q.status, workflow.status)]
      /\ session' = [session EXCEPT ![s] = Idle]
      /\ UNCHANGED <<data, version>>
  BY DEF CommitRecord
<1>6. KnowsRecord(q)
  BY <1>1, <1>2, <1>5 DEF IInv, RecordsKnown, Deciding
<1>7. Open(q.issue) /\ version > 0 /\ q.record = record[r] /\ q.status = "PAUSED" /\ ~IdTaken(q)
  BY <1>1, <1>6 DEF KnowsRecord
<1>8. workflow.status = "PAUSED"
  BY <1>3, <1>7, OpenMeans
<1>9. record[r].payload \in Payloads
  BY <1>3 DEF IInv, TInv, Records
<1>10. record[r].status # "REJECTED" /\ record[r].status # "NONE"
  <2>1. PICK f \in Field \cup {Conflict} : q.issue = <<r, f>>
    BY <1>2 DEF RecordIssue
  <2>. QED BY <1>3, <1>7, <2>1 DEF IInv, RecordsAreRight
<1>11. record'[r] = [status |-> Judged(q, after), payload |-> after]
  <2>1. q.action # "CORRECT" => after = record[r].payload
    BY DEF Corrected
  <2>2. Write(Judged(q, after), record[r].status, record[r].status) = Judged(q, after)
    BY DEF Write
  <2>. QED BY <1>3, <1>5, <1>7, <2>1, <2>2 DEF IInv, TInv
<1>12. \A x \in Record \ {r} : record'[x] = record[x]
  BY <1>5 DEF IInv, TInv
<1>13. /\ workflow'.applied = workflow.applied /\ workflow'.rejected = workflow.rejected
       /\ workflow'.status = StatusFor(Remaining(q.issue) \ Closed(q))
  <2>1. workflow'.status = Write(StatusFor(Remaining(q.issue) \ Closed(q)), "PAUSED", "PAUSED")
    BY <1>5, <1>7, <1>8 DEF IInv, TInv, Workflows
  <2>2. workflow'.status = StatusFor(Remaining(q.issue) \ Closed(q))
    BY <2>1 DEF Write
  <2>. QED BY <1>5, <2>2 DEF IInv, TInv, Workflows
<1>14. session'[s] = Idle /\ \A t \in Session \ {s} : session'[t] = session[t]
  BY <1>5 DEF IInv, TInv
<1>. QED BY <1>1, <1>2, <1>3, <1>4, <1>5, <1>7, <1>9, <1>10, <1>11, <1>12, <1>13, <1>14 DEF Committed

(* A decision closes its own issue, and a rejection the others about the   *)
(* record.                                                                 *)
LEMMA ClosedIs ==
  ASSUME NEW q, q.issue \in RecordIssue
  PROVE  /\ q.issue \in Closed(q) /\ Closed(q) \subseteq RecordIssue
         /\ \A i \in Closed(q) : i[1] = q.issue[1]
         /\ q.action # "REJECT" => Closed(q) = {q.issue}
         /\ q.action = "REJECT" => \A i \in RecordIssue : i[1] = q.issue[1] /\ Open(i) => i \in Closed(q)
  BY DEF Closed, Open

(* Next to a decision about a record there are only decisions about other  *)
(* records, and at most one of them gives an identifier.                   *)
LEMMA OthersAre ==
  ASSUME IInv, NEW s \in Session, NEW q, q = session[s], q.pc \in Steps,
         NEW t \in Session \ {s}, NEW p, p = session[t], p.pc \in Steps
  PROVE  /\ p.issue \in RecordIssue /\ p.issue \notin MappingIssue /\ p.issue[1] # q.issue[1]
         /\ CorrectsId(p.issue, p.action) => ~CorrectsId(q.issue, q.action)
<1>1. Alongside(p, q)
  BY DEF IInv, Apart
<1>2. q.pc # "idle"
  BY DEF Steps
<1>. QED BY <1>1, <1>2, IssuesApart DEF Alongside

(* After it, whoever decides about another record still knows what holds.  *)
LEMMA CommittingRecordKeepsKnowledge ==
  ASSUME IInv, NEW s \in Session, CommitRecord(s), ~Refuse(s),
         NEW q, q = session[s], NEW r, r = q.issue[1],
         NEW after, after = Corrected(q, record[r].payload)
  PROVE  Apart' /\ MappingsKnown' /\ RecordsKnown' /\ TransformsKnow'
<1>1. /\ q.issue \in RecordIssue /\ q.issue \in Issue /\ r \in Record /\ q.pc \in Steps
      /\ q.action \in Actions /\ Fits(q)
      /\ record[r].payload \in Payloads /\ record[r].status # "REJECTED"
      /\ record'[r] = [status |-> Judged(q, after), payload |-> after]
      /\ \A x \in Record \ {r} : record'[x] = record[x]
      /\ \A i \in Issue : escalation'[i] = IF i \in Closed(q) THEN "RESOLVED" ELSE escalation[i]
      /\ workflow'.applied = workflow.applied /\ workflow'.rejected = workflow.rejected
      /\ session'[s] = Idle /\ \A t \in Session \ {s} : session'[t] = session[t]
      /\ UNCHANGED <<data, version>>
  <2>1. Committed(s, q, r, after)
    BY CommittingRecordIs
  <2>. QED BY <2>1 DEF Committed
<1>2. ~CorrectsId(q.issue, q.action) => after.id = record[r].payload.id
  BY <1>1, CorrectedIs
<1>3. record'[r].payload = after
  BY <1>1
<1>4. /\ Idle.pc = "idle" /\ "idle" \notin Steps
  BY DEF Idle, Steps
<1>5. ASSUME NEW t \in Session, session'[t].pc # "idle" PROVE t \in Session \ {s} /\ session'[t] = session[t]
  BY <1>1, <1>4, <1>5
<1>6. ASSUME NEW t \in Session, NEW p, p = session'[t], p.pc \in Steps
      PROVE  /\ p.issue \in RecordIssue /\ p.issue \notin MappingIssue /\ p.issue[1] # r
             /\ CorrectsId(p.issue, p.action) => ~CorrectsId(q.issue, q.action)
  <2>1. t \in Session \ {s} /\ p = session[t]
    BY <1>4, <1>5, <1>6
  <2>. QED BY <1>1, <1>6, <2>1, OthersAre
<1>7. Apart'
  <2> SUFFICES ASSUME NEW t \in Session, NEW u \in Session, t # u,
                      NEW p, p = session'[t], NEW o, o = session'[u]
               PROVE  Alongside(p, o)'
    BY DEF Apart, Alongside
  <2>1. Alongside(p, o)
    <3>1. CASE p.pc \notin Steps \/ o.pc = "idle"
      BY <3>1 DEF Alongside
    <3>2. CASE p.pc \in Steps /\ o.pc # "idle"
      BY <1>4, <1>5, <3>2 DEF IInv, Apart
    <3>. QED BY <3>1, <3>2
  <2>. QED BY <1>1, <2>1 DEF Alongside, CorrectsId
<1>8. MappingsKnown'
  BY <1>6 DEF MappingsKnown, Deciding
<1>9. RecordsKnown'
  <2> SUFFICES ASSUME NEW t \in Session, NEW p, p = session'[t], p.pc \in Steps, p.issue \in RecordIssue,
                      p.version = version
               PROVE  KnowsRecord(p)'
    BY <1>1 DEF RecordsKnown, KnowsRecord, Deciding, IdTaken, CorrectsId, Open
  <2>1. t \in Session \ {s} /\ p = session[t]
    BY <1>4, <1>5
  <2>2. KnowsRecord(p)
    BY <2>1 DEF IInv, RecordsKnown, Deciding
  <2>3. p.issue[1] # r /\ p.issue[1] \in Record /\ p.issue \in Issue
    BY <1>6 DEF RecordIssue, Issue
  <2>4. Open(p.issue)'
    BY <1>1, <2>2, <2>3, ClosedIs DEF KnowsRecord, Open
  <2>5. record'[p.issue[1]] = record[p.issue[1]]
    BY <1>1, <2>3
  <2>6. ASSUME p.pc = "loaded", IdTaken(p)' PROVE FALSE
    <3>1. CorrectsId(p.issue, p.action)
      BY <1>1, <2>6 DEF IdTaken, CorrectsId
    <3>2. PICK x \in Record \ {p.issue[1]} : record'[x].status # "REJECTED" /\ record'[x].payload.id = p.value
      BY <2>6 DEF IdTaken
    <3>3. after.id = record[r].payload.id
      BY <1>2, <1>6, <3>1
    <3>4. record[x].status # "REJECTED" /\ record[x].payload.id = p.value
      BY <1>1, <1>3, <3>2, <3>3
    <3>5. IdTaken(p)
      BY <3>1, <3>4 DEF IdTaken
    <3>. QED BY <2>2, <2>6, <3>5 DEF KnowsRecord
  <2>. QED BY <1>1, <2>2, <2>4, <2>5, <2>6 DEF KnowsRecord
<1>10. TransformsKnow'
  <2> SUFFICES ASSUME NEW t \in Session, NEW p, p = session'[t], p.pc = "transforming"
               PROVE  KnowsTransform(p)'
    BY DEF TransformsKnow, KnowsTransform
  <2>1. KnowsTransform(p)
    BY <1>5 DEF IInv, TransformsKnow
  <2>. QED BY <1>1, <2>1 DEF KnowsTransform
<1>. QED BY <1>7, <1>8, <1>9, <1>10

LEMMA CommittingRecordKeepsRecords ==
  ASSUME IInv, NEW s \in Session, CommitRecord(s), ~Refuse(s),
         NEW q, q = session[s], NEW r, r = q.issue[1],
         NEW after, after = Corrected(q, record[r].payload)
  PROVE  RecordsAreRight' /\ IdsAreRight'
<1>1. /\ q.issue \in RecordIssue /\ q.issue \in Issue /\ r \in Record
      /\ q.action \in {"CORRECT", "REJECT"} /\ q.action \in Actions /\ Fits(q) /\ ~IdTaken(q)
      /\ record[r].payload \in Payloads /\ record[r].status # "REJECTED" /\ version > 0
      /\ record'[r] = [status |-> Judged(q, after), payload |-> after]
      /\ \A x \in Record \ {r} : record'[x] = record[x]
      /\ \A i \in Issue : escalation'[i] = IF i \in Closed(q) THEN "RESOLVED" ELSE escalation[i]
      /\ UNCHANGED <<data, version>>
  <2>1. Committed(s, q, r, after)
    BY CommittingRecordIs
  <2>. QED BY <2>1 DEF Committed
<1>3. /\ after \in Payloads
      /\ q.action # "CORRECT" => after = record[r].payload
      /\ after.bad \subseteq record[r].payload.bad
      /\ q.action = "CORRECT" /\ q.issue[2] \in Field => q.issue[2] \notin after.bad
      /\ q.action = "CORRECT" /\ CorrectsId(q.issue, q.action) => after.id = q.value
      /\ ~CorrectsId(q.issue, q.action) => after.id = record[r].payload.id
  <2>1. PICK before \in Payloads : before = record[r].payload
    BY <1>1
  <2>2. after = Corrected(q, before)
    BY <2>1
  <2>3. /\ after \in Payloads
        /\ q.action # "CORRECT" => after = before
        /\ after.bad \subseteq before.bad
        /\ q.action = "CORRECT" /\ q.issue[2] \in Field => q.issue[2] \notin after.bad
        /\ q.action = "CORRECT" /\ CorrectsId(q.issue, q.action) => after.id = q.value
        /\ ~CorrectsId(q.issue, q.action) => after.id = before.id
    BY <1>1, <2>2, CorrectedIs
  <2>. QED BY <2>1, <2>3
<1>4. record'[r].status = Judged(q, after) /\ record'[r].payload = after
  BY <1>1
<1>5. after.bad \in SUBSET Field
  BY <1>3 DEF Payloads
<1>6. PICK g \in Field \cup {Conflict} : q.issue = <<r, g>>
  BY <1>1 DEF RecordIssue
<1>7. q.issue[2] = g
  BY <1>6
<1>8. \A x \in Record, f \in Field \cup {Conflict} :
        <<x, f>> \in RecordIssue /\ <<x, f>> \in Issue /\ <<x, f>>[1] = x
  BY DEF RecordIssue, Issue
<1>2. /\ q.issue \in Closed(q) /\ Closed(q) \subseteq RecordIssue
      /\ \A i \in Closed(q) : i[1] = r
      /\ q.action # "REJECT" => Closed(q) = {q.issue}
      /\ q.action = "REJECT" => \A i \in RecordIssue : i[1] = r /\ Open(i) => i \in Closed(q)
  BY <1>1, ClosedIs
<1>9. \A x \in Record \ {r}, f \in Field \cup {Conflict} : Open(<<x, f>>)' <=> Open(<<x, f>>)
  <2>1. \A x \in Record \ {r}, f \in Field \cup {Conflict} : <<x, f>> \notin Closed(q)
    BY <1>2, <1>8
  <2>. QED BY <1>1, <1>8, <2>1 DEF Open
<1>10. ASSUME q.action = "REJECT" PROVE record'[r].status = "REJECTED" /\ \A f \in Field \cup {Conflict} : ~Open(<<r, f>>)'
  <2>1. \A f \in Field \cup {Conflict} : Open(<<r, f>>) => <<r, f>> \in Closed(q)
    BY <1>1, <1>2, <1>8, <1>10
  <2>2. \A f \in Field \cup {Conflict} : ~Open(<<r, f>>)'
    BY <1>1, <1>8, <2>1 DEF Open
  <2>. QED BY <1>4, <1>10, <2>2 DEF Judged
<1>11. ASSUME q.action = "CORRECT"
       PROVE  /\ record'[r].status = IF after.bad # {} THEN "ESCALATION" ELSE "VALID"
              /\ \A f \in Field \cup {Conflict} : f # g => (Open(<<r, f>>)' <=> Open(<<r, f>>))
  <2>1. \A f \in Field \cup {Conflict} : f # g => <<r, f>> \notin Closed(q)
    BY <1>2, <1>6, <1>11
  <2>. QED BY <1>1, <1>4, <1>8, <1>11, <2>1 DEF Judged, Errors, Open
<1>12. RecordsAreRight'
  <2> SUFFICES ASSUME NEW x \in Record
               PROVE /\ record'[x].status # "NONE"
                     /\ record'[x].status = "REJECTED" => \A f \in Field \cup {Conflict} : ~Open(<<x, f>>)'
                     /\ record'[x].status # "REJECTED" => \A f \in record'[x].payload.bad : Open(<<x, f>>)'
                     /\ record'[x].status = "VALID" => record'[x].payload.bad = {}
                     /\ record'[x].status = "ESCALATION" => \E f \in Field \cup {Conflict} : Open(<<x, f>>)'
    BY DEF RecordsAreRight, Open
  <2>1. CASE x # r
    <3>1. record'[x] = record[x] /\ record[x].payload.bad \in SUBSET Field
      BY <1>1, <2>1 DEF IInv, TInv, Records, Payloads
    <3>2. /\ record[x].status # "NONE"
          /\ record[x].status = "REJECTED" => \A f \in Field \cup {Conflict} : ~Open(<<x, f>>)
          /\ record[x].status # "REJECTED" => \A f \in record[x].payload.bad : Open(<<x, f>>)
          /\ record[x].status = "VALID" => record[x].payload.bad = {}
          /\ record[x].status = "ESCALATION" => \E f \in Field \cup {Conflict} : Open(<<x, f>>)
      BY <1>1 DEF IInv, RecordsAreRight
    <3>3. \A f \in Field \cup {Conflict} : Open(<<x, f>>)' <=> Open(<<x, f>>)
      BY <1>9, <2>1
    <3>. QED BY <3>1, <3>2, <3>3
  <2>2. CASE x = r /\ q.action = "REJECT"
    BY <1>10, <2>2
  <2>3. CASE x = r /\ q.action = "CORRECT"
    <3>1. \A f \in record[r].payload.bad : Open(<<r, f>>)
      BY <1>1 DEF IInv, RecordsAreRight
    <3>2. g \notin after.bad
      BY <1>3, <1>5, <1>7, <2>3
    <3>3. \A f \in after.bad : Open(<<r, f>>)'
      BY <1>3, <1>5, <1>11, <2>3, <3>1, <3>2
    <3>. QED BY <1>4, <1>5, <1>11, <2>3, <3>3
  <2>. QED BY <1>1, <2>1, <2>2, <2>3
<1>13. IdsAreRight'
  <2> SUFFICES ASSUME NEW x \in Record, NEW y \in Record, x # y,
                      record'[x].status # "REJECTED", record'[y].status # "REJECTED",
                      record'[x].payload.id = record'[y].payload.id, record'[x].payload.id # NoId
               PROVE  \E z \in {x, y} : Open(<<z, Conflict>>)' /\ data.payload[z].id # NoId
    BY <1>1 DEF IdsAreRight, Open
  <2>1. CASE x # r /\ y # r
    <3>1. \E z \in {x, y} : Open(<<z, Conflict>>) /\ data.payload[z].id # NoId
      BY <1>1, <2>1 DEF IInv, IdsAreRight
    <3>. QED BY <1>9, <2>1, <3>1
  <2>2. ASSUME NEW y2 \in Record, r # y2, record'[r].status # "REJECTED", record'[y2].status # "REJECTED",
               record'[r].payload.id = record'[y2].payload.id, record'[r].payload.id # NoId
        PROVE  \E z \in {r, y2} : Open(<<z, Conflict>>)' /\ data.payload[z].id # NoId
    <3>1. record'[y2] = record[y2]
      BY <1>1, <2>2
    <3>2. q.action = "CORRECT"
      BY <1>1, <1>10, <2>2
    <3>3. CASE CorrectsId(q.issue, q.action)
      <4>1. record[y2].payload.id = q.value /\ record[y2].status # "REJECTED"
        BY <1>3, <1>4, <2>2, <3>1, <3>2, <3>3
      <4>2. IdTaken(q)
        BY <2>2, <3>3, <4>1 DEF IdTaken
      <4>. QED BY <1>1, <4>2
    <3>4. CASE ~CorrectsId(q.issue, q.action)
      <4>1. record[r].payload.id = record[y2].payload.id /\ record[r].payload.id # NoId
        BY <1>3, <1>4, <2>2, <3>1, <3>4
      <4>2. PICK z \in {r, y2} : Open(<<z, Conflict>>) /\ data.payload[z].id # NoId
        <5>1. record[r].status # "REJECTED" /\ record[y2].status # "REJECTED" /\ r # y2
          BY <1>1, <2>2, <3>1
        <5>. QED BY <1>1, <4>1, <5>1 DEF IInv, IdsAreRight
      <4>3. CASE z = y2
        BY <1>9, <2>2, <4>2, <4>3
      <4>4. CASE z = r
        <5>1. g # Conflict
          BY <1>7, <3>2, <3>4, <4>2, <4>4 DEF CorrectsId
        <5>. QED BY <1>11, <3>2, <4>2, <4>4, <5>1
      <4>. QED BY <4>2, <4>3, <4>4
    <3>. QED BY <3>3, <3>4
  <2>3. CASE x = r
    BY <2>2, <2>3
  <2>4. CASE y = r
    BY <2>2, <2>4
  <2>. QED BY <2>1, <2>3, <2>4
<1>. QED BY <1>12, <1>13

LEMMA CommittingRecordIsSafe ==
  ASSUME IInv, NEW s \in Session, CommitRecord(s)
  PROVE  IInv'
<1>1. CASE Refuse(s)
  BY <1>1, RefusingIsSafe
<1>2. CASE ~Refuse(s)
  <2>1. PICK q : q = session[s]
    OBVIOUS
  <2>2. PICK r : r = q.issue[1]
    OBVIOUS
  <2>3. PICK after : after = Corrected(q, record[r].payload)
    OBVIOUS
  <2>4. Committed(s, q, r, after)
    BY <1>2, <2>1, <2>2, <2>3, CommittingRecordIs
  <2>5. /\ q.issue \in RecordIssue /\ q.issue \in Issue /\ version > 0
        /\ \A i \in Issue : escalation'[i] = IF i \in Closed(q) THEN "RESOLVED" ELSE escalation[i]
        /\ workflow'.applied = workflow.applied /\ workflow'.rejected = workflow.rejected
        /\ workflow'.status = StatusFor(Remaining(q.issue) \ Closed(q))
        /\ UNCHANGED <<data, version>>
    BY <2>4 DEF Committed
  <2>6. Closed(q) \subseteq RecordIssue /\ q.issue \in Closed(q)
    BY <2>5, ClosedIs
  <2>7. \A i \in Issue : Open(i)' <=> i \in Remaining(q.issue) \ Closed(q)
    BY <2>5, <2>6 DEF Open, Remaining
  <2>8. MappingIssue \subseteq Issue /\ RecordIssue \subseteq Issue /\ MappingIssue \cap RecordIssue = {}
    BY IssuesApart DEF Issue
  <2>9. \A c \in MappingIssue : escalation'[c] = escalation[c]
    BY <2>5, <2>6, <2>8
  <2>10. workflow'.status # "NONE"
    BY <2>5 DEF StatusFor
  <2>11. Phases'
    <3>1. \A c \in MappingIssue : ~Open(c)'
      BY <2>5, <2>9 DEF IInv, Phases, Open
    <3>2. \A i \in RecordIssue : Open(i)' => i \in IssuesOf(data)
      BY <2>7, <2>8 DEF IInv, Phases, Remaining, Open
    <3>. QED BY <2>5, <2>10, <3>1, <3>2, <2>1 DEF Phases, Open, IInv, TInv, IssuesOf
  <2>12. StatusIsTheCount'
    BY <2>5, <2>7 DEF StatusIsTheCount, StatusFor, Remaining
  <2>13. MappingsDecided'
    BY <2>5, <2>9 DEF IInv, MappingsDecided, Writable
  <2>14. Apart' /\ MappingsKnown' /\ RecordsKnown' /\ TransformsKnow'
    BY <1>2, CommittingRecordKeepsKnowledge
  <2>15. RecordsAreRight' /\ IdsAreRight'
    BY <1>2, CommittingRecordKeepsRecords
  <2>16. TInv'
    BY CommittingRecordKeepsTypes DEF IInv
  <2>. QED BY <2>11, <2>12, <2>13, <2>14, <2>15, <2>16 DEF IInv
<1>. QED BY <1>1, <1>2

(* What the transform writes does not depend on what was there, except for *)
(* the status of a workflow nothing about which is to be decided.          *)
LEMMA TransformingIsSafe ==
  ASSUME IInv, NEW s \in Session, TransformCommit(s)
  PROVE  IInv'
<1>1. TInv'
  BY TransformingKeepsTypes DEF IInv
<1>2. /\ session[s].pc = "transforming" /\ KnowsTransform(session[s])
  BY DEF TransformCommit, IInv, TransformsKnow
<1>3. /\ version' = version + 1 /\ version \in Nat /\ version' > 0 /\ UNCHANGED data
      /\ session'[s] = Idle /\ \A t \in Session \ {s} : session'[t] = session[t]
  BY DEF TransformCommit, IInv, TInv
<1>4. MappingIssue \subseteq Issue /\ RecordIssue \subseteq Issue /\ MappingIssue \cap RecordIssue = {}
  BY IssuesApart DEF Issue
<1>5. IssuesOf(data) \subseteq RecordIssue
  BY DEF IssuesOf
<1>6. /\ \A c \in MappingIssue : escalation'[c] = escalation[c]
      /\ \A i \in RecordIssue : escalation'[i] = IF i \in IssuesOf(data) THEN "OPEN" ELSE "NONE"
  BY <1>4 DEF TransformCommit
<1>7. \A c \in MappingIssue : ~Open(c) /\ ~Open(c)'
  BY <1>2, <1>6 DEF IInv, Phases, Open
<1>8. \A i \in RecordIssue : Open(i)' <=> i \in IssuesOf(data)
  BY <1>6 DEF Open
<1>9. workflow'.applied = workflow.applied /\ workflow'.rejected = workflow.rejected
  BY <1>2 DEF TransformCommit, KnowsTransform, IInv, TInv, Workflows
<1>10. workflow'.status = Write(StatusFor(IssuesOf(data)), "COMPLETED", workflow.status)
  BY <1>2 DEF TransformCommit, KnowsTransform, IInv, TInv, Workflows
<1>11. workflow.status # "NONE"
  BY <1>2 DEF IInv, Phases
<1>12. workflow'.status = IF IssuesOf(data) = {} THEN "COMPLETED" ELSE "PAUSED"
  <2>1. CASE IssuesOf(data) # {}
    BY <1>10, <2>1 DEF Write, StatusFor
  <2>2. CASE IssuesOf(data) = {}
    <3>1. \A i \in Issue : ~Open(i)
      BY <1>7, <2>2 DEF IInv, Phases, Issue
    <3>2. workflow.status \in WorkflowStatus
      BY DEF IInv, TInv, Workflows
    <3>3. workflow.status = "COMPLETED"
      BY <1>11, <3>1, <3>2 DEF IInv, StatusIsTheCount, WorkflowStatus
    <3>. QED BY <1>10, <2>2, <3>3 DEF Write, StatusFor
  <2>. QED BY <2>1, <2>2
<1>13. Idle.pc = "idle" /\ "idle" \notin Steps
  BY DEF Idle, Steps
<1>14. ASSUME NEW t \in Session, session'[t].pc # "idle" PROVE t \in Session \ {s} /\ session'[t] = session[t]
  BY <1>3, <1>13, <1>14
<1>15. Apart'
  <2> SUFFICES ASSUME NEW t \in Session, NEW u \in Session, t # u,
                      NEW p, p = session'[t], NEW o, o = session'[u]
               PROVE  Alongside(p, o)'
    BY DEF Apart, Alongside
  <2>1. Alongside(p, o)
    <3>1. CASE p.pc \notin Steps \/ o.pc = "idle"
      BY <3>1 DEF Alongside
    <3>2. CASE p.pc \in Steps /\ o.pc # "idle"
      BY <1>13, <1>14, <3>2 DEF IInv, Apart
    <3>. QED BY <3>1, <3>2
  <2>. QED BY <1>3, <2>1 DEF Alongside, CorrectsId
<1>16. Phases'
  BY <1>3, <1>7, <1>8, <1>12 DEF Phases, Open, IssuesOf
<1>17. StatusIsTheCount'
  <2>1. (\E i \in Issue : Open(i)') <=> IssuesOf(data) # {}
    BY <1>4, <1>5, <1>7, <1>8 DEF Issue
  <2>. QED BY <1>12, <2>1 DEF StatusIsTheCount, Open
<1>18. MappingsDecided'
  BY <1>6, <1>9 DEF IInv, MappingsDecided, Writable
<1>19. ASSUME NEW t \in Session, NEW p, p = session'[t], p.pc \in Steps
       PROVE  p.issue \in RecordIssue /\ p.issue \notin MappingIssue /\ p.version # version'
  <2>1. t \in Session \ {s} /\ p = session[t]
    BY <1>13, <1>14, <1>19
  <2>2. Alongside(p, session[s])
    BY <2>1 DEF IInv, Apart
  <2>3. p.issue \in RecordIssue
    BY <1>2, <1>19, <2>2 DEF Alongside
  <2>4. p.version \in Nat /\ p.version <= version
    BY <1>19, <2>1, SessionIs DEF IInv, TInv, DecisionsFit, Deciding, Fits
  <2>. QED BY <1>3, <1>4, <2>3, <2>4
<1>20. MappingsKnown' /\ RecordsKnown'
  BY <1>19 DEF MappingsKnown, RecordsKnown, Deciding
<1>21. TransformsKnow'
  <2> SUFFICES ASSUME NEW t \in Session, NEW p, p = session'[t], p.pc = "transforming"
               PROVE  KnowsTransform(p)'
    BY DEF TransformsKnow, KnowsTransform
  <2>1. KnowsTransform(p)
    BY <1>14 DEF IInv, TransformsKnow
  <2>. QED BY <1>9, <2>1 DEF KnowsTransform
<1>22. ASSUME NEW r \in Record
       PROVE  /\ record'[r].payload = data.payload[r] /\ data.payload[r].bad \in SUBSET Field
              /\ record'[r].status = IF data.payload[r].bad # {} \/ r \in data.conflict THEN "ESCALATION" ELSE "VALID"
  BY DEF TransformCommit, Errors, IInv, TInv, Datasets, Payloads
<1>23. ASSUME NEW r \in Record, NEW f \in Field \cup {Conflict}
       PROVE  Open(<<r, f>>)' <=> f \in data.payload[r].bad \/ (f = Conflict /\ r \in data.conflict)
  <2>1. <<r, f>> \in RecordIssue
    BY DEF RecordIssue
  <2>2. PICK j \in RecordIssue : j = <<r, f>> /\ j[1] = r /\ j[2] = f
    BY <2>1
  <2>3. j \in IssuesOf(data) <=> (j[2] \in data.payload[j[1]].bad \/ (j[2] = Conflict /\ j[1] \in data.conflict))
    BY DEF IssuesOf
  <2>4. j \in IssuesOf(data) <=> f \in data.payload[r].bad \/ (f = Conflict /\ r \in data.conflict)
    <3>1. j[1] = r /\ j[2] = f
      BY <2>2
    <3>. QED BY <2>3, <3>1
  <2>5. Open(j)' <=> j \in IssuesOf(data)
    BY <1>8
  <2>. QED BY <2>2, <2>4, <2>5
<1>24. RecordsAreRight'
  <2> SUFFICES ASSUME NEW r \in Record
               PROVE /\ record'[r].status # "NONE"
                     /\ record'[r].status = "REJECTED" => \A f \in Field \cup {Conflict} : ~Open(<<r, f>>)'
                     /\ record'[r].status # "REJECTED" => \A f \in record'[r].payload.bad : Open(<<r, f>>)'
                     /\ record'[r].status = "VALID" => record'[r].payload.bad = {}
                     /\ record'[r].status = "ESCALATION" => \E f \in Field \cup {Conflict} : Open(<<r, f>>)'
    BY DEF RecordsAreRight, Open
  <2>1. \A f \in record'[r].payload.bad : f \in Field /\ Open(<<r, f>>)'
    <3>1. record'[r].payload.bad = data.payload[r].bad
      BY <1>22
    <3>2. ASSUME NEW f \in data.payload[r].bad PROVE f \in Field /\ Open(<<r, f>>)'
      <4>1. f \in Field
        BY <1>22
      <4>. QED BY <1>23, <4>1
    <3>. QED BY <3>1, <3>2
  <2>2. record'[r].status = "ESCALATION" =>
          record'[r].payload.bad # {} \/ r \in data.conflict
    BY <1>22
  <2>3. r \in data.conflict => Open(<<r, Conflict>>)'
    BY <1>23
  <2>4. record'[r].status \in {"VALID", "ESCALATION"} /\ (record'[r].status = "VALID" => record'[r].payload.bad = {})
    BY <1>22
  <2>. QED BY <2>1, <2>2, <2>3, <2>4
<1>25. IdsAreRight'
  <2> SUFFICES ASSUME NEW x \in Record, NEW y \in Record, x # y,
                      record'[x].payload.id = record'[y].payload.id, record'[x].payload.id # NoId
               PROVE  \E z \in {x, y} : Open(<<z, Conflict>>)' /\ data.payload[z].id # NoId
    BY <1>3 DEF IdsAreRight, Open
  <2>1. data.payload[x].id = data.payload[y].id /\ data.payload[x].id # NoId
    BY <1>22
  <2>2. PICK first \in Record \ data.conflict :
          \A z \in Record : z \notin data.conflict /\ data.payload[z].id = data.payload[x].id <=> z = first
    BY <2>1 DEF IInv, TInv, Datasets
  <2>3. x \in data.conflict \/ y \in data.conflict
    BY <2>1, <2>2
  <2>. QED BY <1>23, <2>1, <2>3
<1>. QED BY <1>1, <1>15, <1>16, <1>17, <1>18, <1>20, <1>21, <1>24, <1>25 DEF IInv

LEMMA NextIndependent == Overlap = "independent" /\ IInv /\ [Next]_vars => IInv'
<1> SUFFICES ASSUME Overlap = "independent", IInv, [Next]_vars PROVE IInv'
  OBVIOUS
<1>1. CASE StartWorkflow
  BY <1>1, StartingIsSafe
<1>2. CASE \E s \in Session : Resolve(s)
  BY <1>2, OpeningIsSafe, LoadingWorkflowIsSafe, CountingIsSafe, CommittingMappingIsSafe,
     LoadingRecordIsSafe, CommittingRecordIsSafe DEF Resolve
<1>3. CASE \E s \in Session : Transform(s)
  BY <1>3, TransformReadingIsSafe, TransformingIsSafe DEF Transform
<1>4. CASE UNCHANGED vars
  <2>1. TInv'
    BY NextTypes DEF IInv
  <2>2. UNCHANGED <<data, workflow, escalation, record, version, session>>
    BY <1>4 DEF vars
  <2>3. Apart'
    BY <2>2 DEF IInv, Apart, Alongside, CorrectsId
  <2>4. Phases' /\ StatusIsTheCount' /\ MappingsDecided'
    BY <2>2 DEF IInv, Phases, StatusIsTheCount, MappingsDecided, Open, IssuesOf
  <2>5. MappingsKnown'
    BY <2>2 DEF IInv, MappingsKnown, KnowsMapping, Deciding, TargetTaken, Remaining, Open
  <2>6. RecordsKnown'
    BY <2>2 DEF IInv, RecordsKnown, KnowsRecord, Deciding, IdTaken, CorrectsId, Open
  <2>7. TransformsKnow'
    BY <2>2 DEF IInv, TransformsKnow, KnowsTransform
  <2>8. RecordsAreRight' /\ IdsAreRight'
    BY <2>2 DEF IInv, RecordsAreRight, IdsAreRight, Open
  <2>. QED BY <2>1, <2>3, <2>4, <2>5, <2>6, <2>7, <2>8 DEF IInv
<1>. QED BY <1>1, <1>2, <1>3, <1>4 DEF Next

----------------------------------------------------------------------------
(* What follows *)

LEMMA InvGivesEveryRecordDecided == IInv => EveryRecordDecided
<1> SUFFICES ASSUME IInv, workflow.status = "COMPLETED", version > 0, NEW r \in Record
             PROVE  \/ record[r].status = "REJECTED"
                    \/ record[r].status = "VALID" /\ Errors(record[r].payload) = {}
  BY DEF EveryRecordDecided
<1>1. \A f \in Field \cup {Conflict} : ~Open(<<r, f>>)
  <2>1. \A f \in Field \cup {Conflict} : <<r, f>> \in Issue
    BY DEF Issue, RecordIssue
  <2>. QED BY <2>1, OpenMeans
<1>2. record[r].status \in RecordStatus \ {"NONE", "ESCALATION"}
  BY <1>1 DEF IInv, TInv, Records, RecordsAreRight
<1>. QED BY <1>2 DEF IInv, RecordsAreRight, RecordStatus, Errors

LEMMA InvGivesUniqueIds == IInv => UniqueIds
<1> SUFFICES ASSUME IInv, workflow.status = "COMPLETED", version > 0, NEW q \in Record, NEW r \in Record,
                    record[q].status = "VALID", record[r].status = "VALID",
                    record[q].payload.id = record[r].payload.id, q # r
             PROVE  FALSE
  BY DEF UniqueIds
<1>1. record[q].payload.bad = {} /\ record[q].payload \in Payloads
  BY DEF IInv, TInv, Records, RecordsAreRight
<1>2. record[q].payload.id # NoId
  BY <1>1 DEF Payloads
<1>3. PICK x \in {q, r} : Open(<<x, Conflict>>)
  BY <1>2 DEF IInv, IdsAreRight
<1>4. <<x, Conflict>> \in Issue
  BY DEF Issue, RecordIssue
<1>. QED BY <1>3, <1>4, OpenMeans

(* A record without an open issue is changed by no decision and by no      *)
(* transform but one that has read before there was any record.            *)
LEMMA StepKeepsDecisions ==
  ASSUME Overlap = "independent", IInv, [Next]_vars
  PROVE  \/ \A r \in Record : /\ record[r].status # "NONE"
                              /\ \A f \in Field \cup {Conflict} : ~Open(<<r, f>>)
                              => record'[r] = record[r]
         \/ StartedAnew /\ \E s \in Session : LateTransform(s) /\ session'[s] # session[s]
<1>1. CASE UNCHANGED record
  BY <1>1
<1>2. ASSUME NEW s \in Session, CommitRecord(s), ~Refuse(s)
      PROVE  \A r \in Record : /\ record[r].status # "NONE"
                               /\ \A f \in Field \cup {Conflict} : ~Open(<<r, f>>)
                               => record'[r] = record[r]
  <2>1. PICK q : q = session[s]
    OBVIOUS
  <2>2. PICK x : x = q.issue[1]
    OBVIOUS
  <2>3. PICK after : after = Corrected(q, record[x].payload)
    OBVIOUS
  <2>4. Committed(s, q, x, after)
    BY <1>2, <2>1, <2>2, <2>3, CommittingRecordIs
  <2>5. /\ q.issue \in RecordIssue /\ Open(q.issue)
        /\ \A r \in Record \ {x} : record'[r] = record[r]
    BY <2>4 DEF Committed
  <2>6. PICK f \in Field \cup {Conflict} : q.issue = <<x, f>>
    BY <2>2, <2>5 DEF RecordIssue
  <2>. QED BY <2>5, <2>6
<1>3. ASSUME NEW s \in Session, TransformCommit(s), version = 0
      PROVE  \A r \in Record : record[r].status = "NONE"
  BY <1>3 DEF IInv, Phases
<1>4. ASSUME NEW s \in Session, TransformCommit(s), version # 0
      PROVE  StartedAnew /\ LateTransform(s) /\ session'[s] # session[s]
  <2>1. session[s].pc = "transforming" /\ session[s].version = 0 /\ version > 0
    BY <1>4 DEF TransformCommit, IInv, TInv, TransformsKnow, KnowsTransform
  <2>2. session'[s] # session[s]
    BY <1>4, <2>1 DEF TransformCommit, IInv, TInv, Idle
  <2>3. \A r \in Record : record'[r].payload = data.payload[r]
    BY <1>4 DEF TransformCommit
  <2>4. \A i \in RecordIssue : escalation'[i] = "OPEN" <=> i \in IssuesOf(data)
    BY <1>4, IssuesApart DEF TransformCommit, Issue
  <2>5. \A r \in Record, f \in Field \cup {Conflict} : <<r, f>> \in RecordIssue
    BY DEF RecordIssue
  <2>. QED BY <2>1, <2>2, <2>3, <2>4, <2>5 DEF StartedAnew, LateTransform
<1>5. CASE StartWorkflow
  BY <1>1, <1>5 DEF StartWorkflow
<1>6. CASE \E s \in Session : Resolve(s)
  <2>1. PICK s \in Session : Resolve(s)
    BY <1>6
  <2>2. CASE OpenEscalation(s) \/ LoadWorkflow(s) \/ CountOpen(s) \/ CommitMapping(s) \/ LoadRecord(s) \/ Refuse(s)
    BY <1>1, <2>2 DEF OpenEscalation, LoadWorkflow, CountOpen, CommitMapping, LoadRecord, Refuse
  <2>. QED BY <1>2, <2>1, <2>2 DEF Resolve
<1>7. CASE \E s \in Session : Transform(s)
  <2>1. PICK s \in Session : Transform(s)
    BY <1>7
  <2>2. CASE TransformRead(s)
    BY <1>1, <2>2 DEF TransformRead
  <2>. QED BY <1>3, <1>4, <2>1, <2>2 DEF Transform
<1>8. CASE UNCHANGED vars
  BY <1>1, <1>8 DEF vars
<1>. QED BY <1>5, <1>6, <1>7, <1>8 DEF Next

(* With independent decisions every session knows what it acts on, from    *)
(* its first read to its commit.                                           *)
THEOREM Reviewing == Overlap = "independent" => (Spec => []IInv)
<1> SUFFICES ASSUME Overlap = "independent" PROVE Spec => []IInv
  OBVIOUS
<1>1. Init => IInv
  BY InitIndependent
<1>2. IInv /\ [Next]_vars => IInv'
  BY NextIndependent
<1>. QED BY <1>1, <1>2, PTL DEF Spec

(* The status of the workflow says whether a decision is owed, for any     *)
(* number of independent decisions and transforms in flight.               *)
THEOREM StatusCounts == Overlap = "independent" => (Spec => []StatusIsTheCount)
<1>1. IInv => StatusIsTheCount
  BY DEF IInv
<1>. QED BY <1>1, Reviewing, PTL

(* Every decided mapping is in state_json, and no two columns of a file    *)
(* write to the same field.                                                *)
THEOREM MappingsStand == Overlap = "independent" => (Spec => []MappingsDecided)
<1>1. IInv => MappingsDecided
  BY DEF IInv
<1>. QED BY <1>1, Reviewing, PTL

(* When the review is over, what is not rejected is valid.                 *)
THEOREM RecordsDecided == Overlap = "independent" => (Spec => []EveryRecordDecided)
<1>. QED BY InvGivesEveryRecordDecided, Reviewing, PTL

(* When the review is over, what can be pushed has identifiers of its own. *)
THEOREM Identifying == Overlap = "independent" => (Spec => []UniqueIds)
<1>. QED BY InvGivesUniqueIds, Reviewing, PTL

(* A decided record is never touched again, except by a transform that     *)
(* looked before there was any.                                            *)
THEOREM Standing == Overlap = "independent" => (Spec => DecisionsStand)
<1> SUFFICES ASSUME Overlap = "independent" PROVE Spec => DecisionsStand
  OBVIOUS
<1>1. IInv /\ [Next]_vars =>
        [\/ \A r \in Record : /\ record[r].status # "NONE"
                              /\ \A f \in Field \cup {Conflict} : ~Open(<<r, f>>)
                              => record'[r] = record[r]
         \/ StartedAnew /\ \E s \in Session : LateTransform(s) /\ session'[s] # session[s]]_vars
  BY StepKeepsDecisions
<1>2. Spec => []IInv
  BY Reviewing
<1>. QED BY <1>1, <1>2, PTL DEF Spec, DecisionsStand

=============================================================================
