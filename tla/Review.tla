------------------------------- MODULE Review -------------------------------
(***************************************************************************)
(* The human review of one migration: start_workflow and                   *)
(* resolve_escalation of backend/app/agent/service.py, transform of        *)
(* backend/app/api/records.py.  A workflow row, one escalation row per     *)
(* uncertain mapping and per record problem, one row per cleaned record.   *)
(*                                                                         *)
(* Requests run at the same time, each in a session of its own.  A session *)
(* works on the values it loaded, and its commit writes the columns it     *)
(* changed (module Orm).  SELECTs are steps of their own; from the first   *)
(* flush to the commit SQLite's write lock is held, so that part is one    *)
(* step.                                                                   *)
(***************************************************************************)
EXTENDS Integers, FiniteSets, Orm

CONSTANTS
  Session,    \* requests in flight
  Column,     \* source columns with a mapping proposal
  File,       \* source files
  FileOf,     \* the file of a column
  Target,     \* fields of the target schema
  NoTarget,   \* a proposal without a target field
  Suggested,  \* the proposed target of a column
  Automatic,  \* columns whose proposal evaluate_mapping applies by itself
  Record,     \* reconciled records
  Field,      \* fields of a record that validation can reject
  IdField,    \* the identifier among them, employee_id
  Id,         \* identifiers up to letter case
  NoId,       \* a missing or blank identifier
  Conflict,   \* tag of the escalation of a conflicting identity
  Overlap     \* which decisions may be in flight together: see MayOverlap

ASSUME MappingAssumption ==
  /\ FileOf \in [Column -> File]
  /\ NoTarget \notin Target
  /\ Suggested \in [Column -> Target \cup {NoTarget}]
  /\ Automatic \subseteq Column
  \* propose_mappings flags every column of a collision, the policy escalates them
  /\ \A c \in Automatic :
       /\ Suggested[c] # NoTarget
       /\ \A d \in Column \ {c} : FileOf[d] = FileOf[c] => Suggested[d] # Suggested[c]
ASSUME RecordAssumption ==
  /\ IdField \in Field /\ Conflict \notin Field /\ NoId \notin Id
  /\ Column \cap (Record \X (Field \cup {Conflict})) = {} \* the two sorts of escalation

VARIABLES
  data,        \* what the cleaned files hold, fixed in Init
  workflow,    \* workflow_states: status and state_json
  escalation,  \* escalations.status
  record,      \* transformed_records: status, transformed_json
  version,     \* how often transform has written the records
  session      \* the request each session serves

vars == <<data, workflow, escalation, record, version, session>>

MappingIssue == Column \ Automatic
RecordIssue == Record \X (Field \cup {Conflict})
Issue == MappingIssue \cup RecordIssue

(* A payload is its identifier and the fields validation_errors rejects. *)
Payloads == {q \in [id : Id \cup {NoId}, bad : SUBSET Field] :
               IdField \in q.bad <=> q.id = NoId}

(* reconcile_records keeps the first record of an identity, merges the     *)
(* identical ones into it and marks the others as conflicting (module      *)
(* Reconcile); the identity of records without an identifier is an email.  *)
Datasets ==
  {d \in [payload : [Record -> Payloads], conflict : SUBSET Record] :
     /\ \A r \in d.conflict : d.payload[r].id = NoId =>
          \E first \in Record \ d.conflict : d.payload[first].id = NoId
     /\ \A r \in Record : d.payload[r].id # NoId =>
          \E first \in Record \ d.conflict :
            \A s \in Record : s \notin d.conflict /\ d.payload[s].id = d.payload[r].id
                              <=> s = first}

Errors(q) == q.bad

IssuesOf(d) == {i \in RecordIssue : \/ i[2] \in d.payload[i[1]].bad
                                    \/ i[2] = Conflict /\ i[1] \in d.conflict}

WorkflowStatus == {"NONE", "PAUSED", "COMPLETED"}
RecordStatus == {"NONE", "ESCALATION", "VALID", "REJECTED"}
NoPayload == [id |-> NoId, bad |-> {IdField}]
Actions == {"APPROVE", "CORRECT", "REJECT"}

Idle == [pc |-> "idle"]

(* Type invariant. *)
TypeOK ==
  /\ workflow \in [status : WorkflowStatus, applied : [Column -> Target \cup {NoTarget}],
                   rejected : SUBSET MappingIssue]
  /\ escalation \in [Issue -> {"NONE", "OPEN", "RESOLVED"}]
  /\ record \in [Record -> [status : RecordStatus, payload : Payloads]]
  /\ version \in Nat
  /\ \A s \in Session : session[s].pc \in {"idle", "opened", "loaded", "counted", "transforming"}

Init ==
  /\ data \in Datasets
  /\ workflow = [status |-> "NONE", applied |-> [c \in Column |-> NoTarget], rejected |-> {}]
  /\ escalation = [i \in Issue |-> "NONE"]
  /\ record = [r \in Record |-> [status |-> "NONE", payload |-> NoPayload]]
  /\ version = 0
  /\ session = [s \in Session |-> Idle]

----------------------------------------------------------------------------
(* Which requests are in flight together is up to the reviewers; the code  *)
(* accepts any.  "any": no restriction.  "independent": decisions on       *)
(* different records, at most one of which corrects an identifier, and     *)
(* transforms next to each other and to these; nothing else overlaps.      *)
(* A conflict is decided by a new identifier, or by a new email where      *)
(* transform found no identifier.                                          *)
CorrectsId(i, action) ==
  /\ action = "CORRECT"
  /\ \/ i[2] = IdField
     \/ i[2] = Conflict /\ data.payload[i[1]].id # NoId

MayOverlap(i, a, j, b) ==
  \/ Overlap = "any"
  \/ /\ i \in RecordIssue /\ j \in RecordIssue
     /\ i[1] # j[1]
     /\ ~(CorrectsId(i, a) /\ CorrectsId(j, b))

MayDecide(s, i, a) ==
  \A t \in Session \ {s} : session[t].pc # "idle" =>
    IF session[t].pc = "transforming" THEN Overlap = "any" \/ i \in RecordIssue
    ELSE MayOverlap(i, a, session[t].issue, session[t].action)

MayTransform(s) ==
  \A t \in Session \ {s} : session[t].pc \notin {"idle", "transforming"} =>
    Overlap = "any" \/ session[t].issue \in RecordIssue

----------------------------------------------------------------------------
(* start_workflow: apply what the policy applies, escalate the rest.  A    *)
(* second start finds the row, or loses its INSERT to it and rolls back.   *)
StartWorkflow ==
  /\ workflow.status = "NONE"
  /\ workflow' = [status |-> IF MappingIssue = {} THEN "COMPLETED" ELSE "PAUSED",
                  applied |-> [c \in Column |-> IF c \in Automatic THEN Suggested[c] ELSE NoTarget],
                  rejected |-> {}]
  /\ escalation' = [i \in Issue |-> IF i \in MappingIssue THEN "OPEN" ELSE "NONE"]
  /\ UNCHANGED <<data, record, version, session>>

(* resolve: the request reads the escalation row; it must be open and the  *)
(* action allowed (record escalations allow no APPROVE).                   *)
Values(i, action) ==
  IF action # "CORRECT" THEN {NoTarget}
  ELSE IF i \in MappingIssue THEN Target
  ELSE IF CorrectsId(i, action) THEN Id
  ELSE {NoTarget}

OpenEscalation(s) ==
  \E i \in Issue, action \in Actions :
    /\ session[s] = Idle
    /\ escalation[i] = "OPEN"
    /\ i \in RecordIssue => action # "APPROVE"
    /\ MayDecide(s, i, action)
    /\ \E v \in Values(i, action) :
         session' = [session EXCEPT ![s] =
           [pc |-> "opened", issue |-> i, action |-> action, value |-> v, version |-> version]]
    /\ UNCHANGED <<data, workflow, escalation, record, version>>

(* A request that ends without a commit: 409 or 422 after its reads, or an *)
(* UPDATE of a row that transform has deleted since.                       *)
Refuse(s) == /\ session' = [session EXCEPT ![s] = Idle]
             /\ UNCHANGED <<data, workflow, escalation, record, version>>

(* resolve_escalation, a mapping: the session loads the workflow row and   *)
(* refuses a target another column of the file uses.                       *)
Selected(i, action, v) == IF action = "CORRECT" THEN v ELSE Suggested[i]

Applies(q) == q.action # "REJECT" /\ Selected(q.issue, q.action, q.value) # NoTarget

TargetNeverTaken(q, applied) == FALSE \* mutant: no duplicate check

TargetTaken(q, applied) ==
  /\ Applies(q)
  /\ \E c \in Column \ {q.issue} : /\ FileOf[c] = FileOf[q.issue]
                                   /\ applied[c] = Selected(q.issue, q.action, q.value)

LoadWorkflow(s) ==
  /\ session[s].pc = "opened" /\ session[s].issue \in MappingIssue
  /\ IF TargetTaken(session[s], workflow.applied)
     THEN Refuse(s)
     ELSE /\ session' = [session EXCEPT ![s] =
               [pc |-> "loaded", issue |-> @.issue, action |-> @.action, value |-> @.value,
                version |-> @.version, workflow |-> workflow]]
          /\ UNCHANGED <<data, workflow, escalation, record, version>>

RemainingWithOwn(i) == {j \in Issue : escalation[j] = "OPEN"} \* mutant: counts itself

Remaining(i) == {j \in Issue : j # i /\ escalation[j] = "OPEN"}

StatusFor(open) == IF open = {} THEN "COMPLETED" ELSE "PAUSED"

(* resolve_escalation, a mapping: the count of the open escalations, which *)
(* nothing has been flushed before.                                        *)
CountOpen(s) ==
  /\ session[s].pc = "loaded" /\ session[s].issue \in MappingIssue
  /\ session' = [session EXCEPT ![s] =
       [pc |-> "counted", issue |-> @.issue, action |-> @.action, value |-> @.value,
        version |-> @.version, workflow |-> @.workflow,
        status |-> StatusFor(Remaining(@.issue))]]
  /\ UNCHANGED <<data, workflow, escalation, record, version>>

(* resolve_escalation, a mapping: the commit.  state_json is one column,   *)
(* and the resume count makes it differ from the loaded one.               *)
CommitMapping(s) ==
  /\ session[s].pc = "counted"
  /\ LET q == session[s]
         i == q.issue
     IN  /\ workflow' =
              [status |-> Write(q.status, q.workflow.status, workflow.status),
               applied |-> IF Applies(q)
                           THEN [q.workflow.applied EXCEPT ![i] = Selected(i, q.action, q.value)]
                           ELSE q.workflow.applied,
               rejected |-> IF Applies(q) THEN q.workflow.rejected
                            ELSE q.workflow.rejected \cup {i}]
         /\ escalation' = [escalation EXCEPT ![i] = "RESOLVED"]
  /\ session' = [session EXCEPT ![s] = Idle]
  /\ UNCHANGED <<data, record, version>>

IdTakenByValid(q) == \* mutant: records under review do not count
  /\ CorrectsId(q.issue, q.action)
  /\ \E r \in Record \ {q.issue[1]} : record[r].status = "VALID" /\ record[r].payload.id = q.value

(* _resolve_record_escalation: the session loads the record and the        *)
(* workflow row; a corrected identifier must not belong to another record  *)
(* that is not rejected.                                                   *)
IdTaken(q) ==
  /\ CorrectsId(q.issue, q.action)
  /\ \E r \in Record \ {q.issue[1]} : record[r].status # "REJECTED" /\ record[r].payload.id = q.value

LoadRecord(s) ==
  /\ session[s].pc = "opened" /\ session[s].issue \in RecordIssue
  /\ IF session[s].version # version \/ IdTaken(session[s])
     THEN Refuse(s)
     ELSE /\ session' = [session EXCEPT ![s] =
               [pc |-> "loaded", issue |-> @.issue, action |-> @.action, value |-> @.value,
                version |-> @.version, record |-> record[@.issue[1]], status |-> workflow.status]]
          /\ UNCHANGED <<data, workflow, escalation, record, version>>

CorrectedUnchecked(q, before) == \* mutant: the errors are not computed again
  IF q.action = "CORRECT" /\ CorrectsId(q.issue, q.action)
  THEN [id |-> q.value, bad |-> before.bad] ELSE before

(* The payload and the status a decision asks for. *)
Corrected(q, before) ==
  IF q.action # "CORRECT" THEN before
  ELSE IF CorrectsId(q.issue, q.action) THEN [id |-> q.value, bad |-> before.bad \ {IdField}]
  ELSE [before EXCEPT !.bad = @ \ {q.issue[2]}]

Judged(q, after) ==
  IF q.action = "REJECT" THEN "REJECTED" ELSE IF Errors(after) # {} THEN "ESCALATION" ELSE "VALID"

ClosedAlways(q) == \* mutant: a correction closes the other escalations too
  {q.issue} \cup {j \in RecordIssue : j[1] = q.issue[1] /\ escalation[j] = "OPEN"}

(* A rejection closes what else is open about the record. *)
Closed(q) ==
  {q.issue} \cup {j \in RecordIssue : /\ q.action = "REJECT" /\ j[1] = q.issue[1]
                                      /\ escalation[j] = "OPEN"}

(* _resolve_record_escalation, from the flush to the commit.  A correction *)
(* always changes transformed_json, which is written whole.                *)
CommitRecord(s) ==
  /\ session[s].pc = "loaded" /\ session[s].issue \in RecordIssue
  /\ IF session[s].version # version
     THEN Refuse(s)
     ELSE LET q == session[s]
              r == q.issue[1]
              after == Corrected(q, q.record.payload)
              open == Remaining(q.issue) \ Closed(q)
          IN  /\ record' = [record EXCEPT ![r] =
                   [status |-> Write(Judged(q, after), q.record.status, @.status),
                    payload |-> IF q.action = "CORRECT" THEN after ELSE @.payload]]
              /\ escalation' = [i \in Issue |-> IF i \in Closed(q) THEN "RESOLVED" ELSE escalation[i]]
              /\ workflow' = [workflow EXCEPT !.status = Write(StatusFor(open), q.status, @)]
              /\ session' = [session EXCEPT ![s] = Idle]
              /\ UNCHANGED <<data, version>>

(* transform, its reads: the mapping review is over, nothing has been      *)
(* transformed yet, no two columns of a file write to the same field       *)
(* (clean_record).                                                         *)
Writable(applied) ==
  \A c, d \in Column : c # d /\ FileOf[c] = FileOf[d] /\ applied[c] # NoTarget
                       => applied[c] # applied[d]

TransformReadAgain(s) == \* mutant: existing records do not stop it
  /\ session[s] = Idle
  /\ MayTransform(s)
  /\ workflow.status = "COMPLETED"
  /\ version < 2
  /\ Writable(workflow.applied)
  /\ session' = [session EXCEPT ![s] = [pc |-> "transforming", workflow |-> workflow,
                                            version |-> version]]
  /\ UNCHANGED <<data, workflow, escalation, record, version>>

TransformRead(s) ==
  /\ session[s] = Idle
  /\ MayTransform(s)
  /\ workflow.status = "COMPLETED"
  /\ version = 0
  /\ Writable(workflow.applied)
  /\ session' = [session EXCEPT ![s] = [pc |-> "transforming", workflow |-> workflow,
                                            version |-> version]]
  /\ UNCHANGED <<data, workflow, escalation, record, version>>

(* transform, from its DELETE to the commit. *)
TransformCommit(s) ==
  /\ session[s].pc = "transforming"
  /\ record' = [r \in Record |->
       [status |-> IF Errors(data.payload[r]) # {} \/ r \in data.conflict THEN "ESCALATION" ELSE "VALID",
        payload |-> data.payload[r]]]
  /\ escalation' = [i \in Issue |-> IF i \in MappingIssue THEN escalation[i]
                                    ELSE IF i \in IssuesOf(data) THEN "OPEN" ELSE "NONE"]
  /\ workflow' = [workflow EXCEPT
       !.status = Write(StatusFor(IssuesOf(data)), session[s].workflow.status, @),
       !.applied = session[s].workflow.applied,
       !.rejected = session[s].workflow.rejected]
  /\ version' = version + 1
  /\ session' = [session EXCEPT ![s] = Idle]
  /\ UNCHANGED data

Resolve(s) == \/ OpenEscalation(s)
              \/ LoadWorkflow(s) \/ CountOpen(s) \/ CommitMapping(s)
              \/ LoadRecord(s) \/ CommitRecord(s)

Transform(s) == TransformRead(s) \/ TransformCommit(s)

Next == \/ StartWorkflow
        \/ \E s \in Session : Resolve(s) \/ Transform(s)

Spec == Init /\ [][Next]_vars

----------------------------------------------------------------------------
(* Properties *)

Open(i) == escalation[i] = "OPEN"

(* The status of the workflow says whether a decision is owed: pipeline,   *)
(* transform and push read it instead of counting (service.py:211, 282,    *)
(* records.py:209).                                                        *)
StatusIsTheCount ==
  workflow.status # "NONE" => (workflow.status = "PAUSED" <=> \E i \in Issue : Open(i))

(* When the review of the records is over, each is rejected, or it is      *)
(* valid and its payload passes validation: nothing is left behind between *)
(* two decisions about the same record, and nothing invalid can be pushed. *)
EveryRecordDecided ==
  workflow.status = "COMPLETED" /\ version > 0 =>
    \A r \in Record : \/ record[r].status = "REJECTED"
                      \/ record[r].status = "VALID" /\ Errors(record[r].payload) = {}

(* When the review is over, no two records that can be pushed share an     *)
(* identifier, whatever was corrected, rejected or found in conflict.      *)
UniqueIds ==
  workflow.status = "COMPLETED" /\ version > 0 =>
    \A q, r \in Record : /\ record[q].status = "VALID" /\ record[r].status = "VALID"
                         /\ record[q].payload.id = record[r].payload.id
                         => q = r

(* Every resolved mapping is in state_json, as applied or as rejected, and *)
(* no two columns of a file are applied to the same target.                *)
MappingsDecided ==
  /\ \A c \in MappingIssue : escalation[c] = "RESOLVED" <=>
                             \/ workflow.applied[c] # NoTarget
                             \/ c \in workflow.rejected
  /\ Writable(workflow.applied)

(* A record nobody owes a decision about any more is never touched again:  *)
(* rejections and corrections survive later decisions and a repeated       *)
(* transform (docs/REQUIREMENTS_AND_VERIFICATION.md, FR9).  What replaces  *)
(* them is only a transform that looked before there was any record        *)
(* (records.py:124), and it starts the whole review anew.                  *)
LateTransform(s) == session[s].pc = "transforming" /\ session[s].version = 0 /\ version > 0
StartedAnew ==
  \A r \in Record : /\ record'[r].payload = data.payload[r]
                   /\ \A f \in Field \cup {Conflict} :
                        escalation'[<<r, f>>] = "OPEN" <=> <<r, f>> \in IssuesOf(data)
DecisionsStand ==
  [][\/ \A r \in Record : /\ record[r].status # "NONE"
                          /\ \A f \in Field \cup {Conflict} : ~Open(<<r, f>>)
                          => record'[r] = record[r]
     \/ StartedAnew /\ \E s \in Session : LateTransform(s) /\ session'[s] # session[s]]_vars

(* "final review resolution requeues it" (docs, FR6): once every decision  *)
(* is made and answered, the workflow is COMPLETED and can go on.          *)
AllResolvedCompletes ==
  /\ workflow.status # "NONE"
  /\ \A i \in Issue : ~Open(i)
  /\ \A s \in Session : session[s] = Idle
  => workflow.status = "COMPLETED"

(* "Every row is validated before sending" (docs, NFR3): the push sends    *)
(* the VALID rows, so the payload of a VALID row passes validation.        *)
ValidIsValidated ==
  \A r \in Record : record[r].status = "VALID" => Errors(record[r].payload) = {}
=============================================================================
