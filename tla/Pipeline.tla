------------------------------ MODULE Pipeline ------------------------------
(***************************************************************************)
(* The stages of one migration: backend/app/api/pipeline.py, the pass that *)
(* execute of agent/jobs.py makes over them, and the requests that meet    *)
(* it: polls, the run, advance, push-decision and cancel endpoints, the    *)
(* last review decision and the undo of the target.                        *)
(*                                                                         *)
(* Everything is kept in the row of pipeline_runs, of which each session   *)
(* holds a copy (module Orm).  A refresh of the copy and the commit that   *)
(* follows it are two steps.  Consecutive SELECTs are one step when only   *)
(* the later one can matter.                                               *)
(*                                                                         *)
(* The job row and the passes are those of PassQueue, which JobQueue       *)
(* implements.  Other modules' business is coarse here: the review         *)
(* (Review) is the status of the workflow row, a push of the target is one *)
(* step.                                                                   *)
(***************************************************************************)
EXTENDS Integers, Orm

CONSTANTS
  Modes,      \* execution modes a migration may be created in
  Pass,       \* the session of the pool thread that runs the pass
  Request,    \* sessions of requests in flight
  Uploader,   \* the one among them that uploads
  Kinds,      \* the requests this instance meets
  UndoWhen,   \* what the target holds when somebody undoes; the frontend waits for writes
  CrashAt,    \* stages at which a pass may be lost with its process; "request"
  MaxCrashes  \* bound: passes and requests lost in a behaviour

RequestKinds == {"poll", "run", "advance", "push", "decline", "cancel", "resolve",
                 "undo", "guide"}

ASSUME SessionAssumption == Pass \notin Request /\ Uploader \in Request
ASSUME ModeAssumption == Modes \subseteq {"AUTOPILOT", "HUMAN_IN_LOOP"}
Effects == {"NONE", "SENT", "FAILED", "UNDONE"}
ASSUME KindAssumption == Kinds \subseteq RequestKinds /\ UndoWhen \subseteq Effects

VARIABLES
  mode,      \* pipeline_runs.execution_mode
  row,       \* pipeline_runs: status, current_stage, stages_json
  workflow,  \* workflow_states.status, "NONE" while there is no row
  records,   \* transform has written the records
  target,    \* what the target holds of this migration
  jobStatus, \* pipeline_jobs.status
  owed,      \* a request came that no pass has begun after
  missed,    \* history: one came while a pass was handing its row back
  session,   \* what each session is doing, with its copy of the row
  crashes,   \* sessions lost so far
  lost,      \* history: what of lost sessions nobody will do for them
  unaware    \* history: sessions that checked before a cancel and have not since

job == <<jobStatus, owed, missed>>
vars == <<mode, row, workflow, records, target, job, session, crashes, lost, unaware>>

Session == Request \cup {Pass}
Stages == {"analyze", "review", "preview", "push"}
Final == {"CANCELLED", "COMPLETED", "COMPLETED_WITHOUT_PUSH", "ROLLED_BACK", "PARTIAL_FAILURE"}
RowStatus == {"ACTIVE", "PAUSED", "AWAITING_PUSH_DECISION", "FAILED"} \cup Final
StageStatus == {"QUEUED", "WAITING_APPROVAL", "RUNNING", "NEEDS_REVIEW", "READY_TO_PUSH",
                "COMPLETED", "FAILED", "SKIPPED", "ROLLED_BACK"}

(* The detail text of a stage matters only in that a changed text is a     *)
(* changed column: it is named after the code that wrote it.               *)
Writers == {"upload", "agent", "sync", "target", "reviewer"}
Rows == [status : RowStatus, current : Stages,
         stage : [Stages -> [is : StageStatus, by : Writers]]]

(* Between a load or a refresh and the commit that relies on it a session  *)
(* holds a copy of the row; elsewhere its copy will not be looked at again.*)
Idle == [pc |-> "idle"]
HandingBack(ends) == [pc |-> "hand_back", kind |-> "pass", stage |-> "analyze", ends |-> ends]
Served ==
  LET kinds == RequestKinds \cup {"pass", "upload"}
      writers == {"agent", "sync"}
  IN  [pc : {"claimed", "load", "begin_read", "work", "count", "pause_read", "complete_read", "except",
             "enqueue", "undo_read"},
       kind : kinds, stage : Stages, by : writers]
        \cup
      [pc : {"sync", "begin", "pause", "complete", "next", "settle", "fail", "decline",
             "cancel", "undo"},
       kind : kinds, stage : Stages, by : writers, copy : Rows]
        \cup
      {HandingBack(ends) : ends \in {"QUEUED", "WAITING", "FAILED"}}

(* Type invariant. *)
TypeOK ==
  /\ mode \in Modes
  /\ row \in Rows
  /\ workflow \in {"NONE", "PAUSED", "COMPLETED"}
  /\ records \in BOOLEAN
  /\ target \in Effects
  /\ jobStatus \in {"NONE", "QUEUED", "RUNNING", "WAITING", "FAILED"}
  /\ owed \in BOOLEAN /\ missed \in BOOLEAN
  /\ session \in [Session -> {Idle} \cup Served]
  /\ crashes \in Nat
  /\ lost \subseteq {"enqueue", "push", "settle", "undo"}
  /\ unaware \subseteq Session

----------------------------------------------------------------------------
(* The row *)

Entry(is, by) == [is |-> is, by |-> by]

Is(c, s) == c.stage[s].is

PutInStatus(c, s, is, by) == [c EXCEPT !.stage[s] = Entry(is, by), !.status = is] \* mutant: the row too

(* update_stage *)
Put(c, s, is, by) == [c EXCEPT !.stage[s] = Entry(is, by)]

Ready == IF mode = "AUTOPILOT" THEN "QUEUED" ELSE "WAITING_APPROVAL"

(* The row as create_batch commits it, with initial_stages; an Autopilot   *)
(* upload has its enqueue still to do.                                     *)
InitialRow == [status |-> "ACTIVE", current |-> "analyze",
               stage |-> [s \in Stages |->
                           Entry(IF s = "analyze" THEN Ready ELSE "QUEUED", "upload")]]

At(pc, kind, stage) == [pc |-> pc, kind |-> kind, stage |-> stage, by |-> "agent"]

Init ==
  /\ mode \in Modes
  /\ row = InitialRow
  /\ workflow = "NONE"
  /\ records = FALSE
  /\ target = "NONE"
  /\ jobStatus = "NONE" /\ owed = FALSE /\ missed = FALSE
  /\ session = [s \in Session |-> IF s = Uploader /\ mode = "AUTOPILOT"
                                  THEN At("enqueue", "upload", "analyze")
                                  ELSE Idle]
  /\ crashes = 0
  /\ lost = {}
  /\ unaware = {}

----------------------------------------------------------------------------
(* Sessions *)

Goto(s, q) == session' = [session EXCEPT ![s] = q] /\ UNCHANGED job

(* The passes of the queue. *)
PassOf(t) ==
  CASE session[t] = Idle -> "none"
    [] session[t].pc = "claimed" -> "claimed"
    [] session[t].pc = "hand_back" -> session[t].ends
    [] OTHER -> "begun"

Queue == INSTANCE PassQueue WITH
  Thread <- {Pass}, status <- jobStatus, pass <- [t \in {Pass} |-> PassOf(t)]

Without(q, pc) == [pc |-> pc, kind |-> q.kind, stage |-> q.stage, by |-> q.by]
With(q, pc, c) == [pc |-> pc, kind |-> q.kind, stage |-> q.stage, by |-> q.by, copy |-> c]

(* A request answers; a pass ends, and its row is still to be written      *)
(* (execute, finally).                                                     *)
Leave(s, failed) ==
  IF s # Pass THEN Goto(s, Idle)
  ELSE /\ \E ends \in {"QUEUED", IF failed THEN "FAILED" ELSE "WAITING"} :
            session' = [session EXCEPT ![s] = HandingBack(ends)]
       /\ Queue!Finish(s)

Moved(s, pc) == Without(session[s], pc)

Refreshed(s, pc) == With(session[s], pc, row)

(* The commit of a session whose copy of the row has become new. *)
Save(s, new) ==
  LET loaded == session[s].copy
  IN  row' = [status |-> Write(new.status, loaded.status, row.status),
              current |-> Write(new.current, loaded.current, row.current),
              stage |-> Write(new.stage, loaded.stage, row.stage)]

(* decide_push, its checks on the copy; a 409 fails the pass. *)
EnterPush(s, q) ==
  IF \/ q.copy.status \in {"CANCELLED", "COMPLETED_WITHOUT_PUSH", "ROLLED_BACK"}
     \/ q.copy.current # "push"
     \/ Is(q.copy, "push") \notin {"READY_TO_PUSH", "FAILED"}
  THEN Leave(s, TRUE)
  ELSE IF q.kind = "decline" THEN Goto(s, With(q, "decline", q.copy))
  ELSE Goto(s, At("begin_read", q.kind, "push"))

ReturnUndecided(s, q) == \* mutant: the pass retries a push, it does not decide one
  IF /\ s = Pass /\ mode = "AUTOPILOT"
     /\ q.copy.current = "push" /\ q.copy.status = "FAILED"
  THEN EnterPush(s, q)
  ELSE Leave(s, FALSE)

(* advance_pipeline returns; the pass of an Autopilot migration goes on to *)
(* decide_push (execute).                                                  *)
Return(s, q) ==
  IF /\ s = Pass /\ mode = "AUTOPILOT"
     /\ \/ q.copy.status = "AWAITING_PUSH_DECISION"
        \/ q.copy.current = "push" /\ q.copy.status = "FAILED"
  THEN EnterPush(s, q)
  ELSE Leave(s, FALSE)

(* What follows _sync_resolved_review in get_pipeline, advance_pipeline    *)
(* and decide_push.                                                        *)
Enter(s, q) ==
  IF q.kind = "poll" THEN Leave(s, FALSE)
  ELSE IF q.kind \in {"push", "decline"} THEN EnterPush(s, q)
  ELSE IF \/ q.copy.status \in Final
          \/ q.copy.current = "push"
          \/ Is(q.copy, q.copy.current) = "NEEDS_REVIEW"
  THEN Return(s, q)
  ELSE Goto(s, At("begin_read", q.kind, q.copy.current))

Aware(s) == unaware' = unaware \ {s}

----------------------------------------------------------------------------
(* Requests and passes that begin *)

(* Up to its load of the row.  advance and push-decision give up while the *)
(* job is RUNNING, run and cancel look at the status.                      *)
Opens(kind) ==
  /\ kind \in Kinds \ {"resolve", "undo", "guide"}
  /\ kind \in {"advance", "push", "decline"} => jobStatus # "RUNNING"
  /\ kind = "run" => row.status \notin Final
  /\ kind = "cancel" => row.status \notin {"COMPLETED", "COMPLETED_WITHOUT_PUSH"}

Open(s) ==
  \E kind \in RequestKinds :
    /\ s # Pass /\ session[s] = Idle
    /\ Opens(kind)
    /\ LET q == At("enqueue", kind, row.current)
       IN  Goto(s, IF kind = "run" THEN q
                   ELSE With(q, IF kind = "cancel" THEN "cancel" ELSE "sync", row))
    /\ Aware(s)
    /\ UNCHANGED <<mode, row, workflow, records, target, crashes, lost>>

EnqueueAtRest(s) == \* mutant: a request during the pass does not raise the generation
  /\ session[s].pc = "enqueue"
  /\ session' = [session EXCEPT ![s] = Idle]
  /\ IF \/ session[s].kind \in {"resolve", "guide"} /\ jobStatus = "NONE"
        \/ jobStatus = "RUNNING"
     THEN UNCHANGED job ELSE Queue!Ask
  /\ UNCHANGED <<mode, row, workflow, records, target, crashes, lost, unaware>>

(* enqueue; after a review decision only if there is a job row. *)
Enqueue(s) ==
  /\ session[s].pc = "enqueue"
  /\ session' = [session EXCEPT ![s] = Idle]
  /\ IF session[s].kind \in {"resolve", "guide"} /\ jobStatus = "NONE"
     THEN UNCHANGED job ELSE Queue!Ask
  /\ UNCHANGED <<mode, row, workflow, records, target, crashes, lost, unaware>>

(* claim: a queued job, or one whose pass was lost. *)
ClaimPass ==
  /\ session' = [session EXCEPT ![Pass] = At("claimed", "pass", "analyze")]
  /\ Queue!Claim(Pass)
  /\ UNCHANGED <<mode, row, workflow, records, target, crashes, lost, unaware>>

StartPass(s) ==
  /\ session[s].pc = "claimed"
  /\ session' = [session EXCEPT ![s] = Moved(s, "load")]
  /\ Queue!Begin(s)
  /\ UNCHANGED <<mode, row, workflow, records, target, crashes, lost, unaware>>

HandBack(s) ==
  /\ session[s].pc = "hand_back"
  /\ session' = [session EXCEPT ![s] = Idle]
  /\ Queue!HandBack(s)
  /\ UNCHANGED <<mode, row, workflow, records, target, crashes, lost, unaware>>

LoadPass(s) ==
  /\ session[s].pc = "load"
  /\ IF row.status \in Final THEN Leave(s, FALSE) ELSE Goto(s, Refreshed(s, "sync"))
  /\ Aware(s)
  /\ UNCHANGED <<mode, row, workflow, records, target, crashes, lost>>

----------------------------------------------------------------------------
(* The steps of a session *)

(* _sync_resolved_review: a stage of the copy waits for a review that is   *)
(* over.                                                                   *)
Sync(s) ==
  /\ session[s].pc = "sync"
  /\ LET c == session[s].copy
     IN  IF /\ c.status \notin Final /\ workflow = "COMPLETED"
            /\ c.current \in {"review", "preview"} /\ Is(c, c.current) = "NEEDS_REVIEW"
         THEN Goto(s, [Moved(s, "complete_read") EXCEPT !.stage = c.current, !.by = "sync"])
         ELSE Enter(s, session[s])
  /\ UNCHANGED <<mode, row, workflow, records, target, crashes, lost, unaware>>

(* _begin *)
BeginRead(s) ==
  /\ session[s].pc = "begin_read"
  /\ IF row.status # "CANCELLED" THEN Goto(s, Refreshed(s, "begin"))
     ELSE IF session[s].stage = "push" THEN Leave(s, TRUE)
     ELSE Goto(s, Moved(s, "except"))
  /\ Aware(s)
  /\ UNCHANGED <<mode, row, workflow, records, target, crashes, lost>>

Begin(s) ==
  /\ session[s].pc = "begin"
  /\ Save(s, Put([session[s].copy EXCEPT !.status = "ACTIVE"], session[s].stage, "RUNNING", "agent"))
  /\ Goto(s, Moved(s, "work"))
  /\ UNCHANGED <<mode, workflow, records, target, crashes, lost, unaware>>

(* create_mapping_proposals: what it writes is no business of the pipeline *)
Analyze(s) ==
  /\ session[s].pc = "work" /\ session[s].stage = "analyze"
  /\ Goto(s, Moved(s, "complete_read"))
  /\ UNCHANGED <<mode, row, workflow, records, target, crashes, lost, unaware>>

(* start_workflow *)
Review(s) ==
  /\ session[s].pc = "work" /\ session[s].stage = "review"
  /\ workflow' \in IF workflow = "NONE" THEN {"PAUSED", "COMPLETED"} ELSE {workflow}
  /\ Goto(s, Moved(s, IF workflow' = "PAUSED" THEN "pause_read" ELSE "complete_read"))
  /\ UNCHANGED <<mode, row, records, target, crashes, lost, unaware>>

(* transform, and the SELECT of the workflow row after it *)
Transforms == /\ workflow = "COMPLETED" /\ records' = TRUE
              /\ workflow' \in IF records THEN {workflow} ELSE {"PAUSED", "COMPLETED"}

Preview(s) ==
  /\ session[s].pc = "work" /\ session[s].stage = "preview"
  /\ \/ Transforms /\ Goto(s, Moved(s, "count"))
     \/ workflow # "COMPLETED" /\ Goto(s, Moved(s, "except")) /\ UNCHANGED <<workflow, records>>
  /\ UNCHANGED <<mode, row, target, crashes, lost, unaware>>

CountNothing(s) == \* mutant: the pause of transform is not noticed
  /\ session[s].pc = "count"
  /\ Goto(s, Moved(s, "complete_read"))
  /\ UNCHANGED <<mode, row, workflow, records, target, crashes, lost, unaware>>

Count(s) ==
  /\ session[s].pc = "count"
  /\ Goto(s, Moved(s, IF workflow = "PAUSED" THEN "pause_read" ELSE "complete_read"))
  /\ UNCHANGED <<mode, row, workflow, records, target, crashes, lost, unaware>>

(* sync_target_status, on a copy of the row *)
Synced(c, held) ==
  CASE held = "FAILED" -> Put([c EXCEPT !.status = "PARTIAL_FAILURE", !.current = "push"],
                              "push", "FAILED", "target")
    [] held = "UNDONE" -> Put([c EXCEPT !.status = "ROLLED_BACK", !.current = "push"],
                              "push", "ROLLED_BACK", "target")
    [] held = "SENT" -> Put([c EXCEPT !.status = "COMPLETED", !.current = "push"],
                            "push", "COMPLETED", "target")
    [] held = "NONE" -> c

(* push_valid: refused (require_push_ready), or every valid record is held *)
(* by the target; records it holds already are not sent again.             *)
Accepts == /\ row.status \notin {"CANCELLED", "COMPLETED_WITHOUT_PUSH", "ROLLED_BACK"}
           /\ workflow = "COMPLETED"

PushValid ==
  /\ Accepts
  /\ target' \in IF target = "NONE" /\ records THEN {"NONE", "SENT", "FAILED"} ELSE {target}
  /\ row' = Synced(row, target')

(* push_batch: the target refuses, or pushes and its answer may be lost. *)
Push(s) ==
  /\ session[s].pc = "work" /\ session[s].stage = "push"
  /\ \/ PushValid /\ \E pc \in {"complete_read", "except"} : Goto(s, Moved(s, pc))
     \/ ~Accepts /\ Goto(s, Moved(s, "except")) /\ UNCHANGED <<row, target>>
  /\ UNCHANGED <<mode, workflow, records, crashes, lost, unaware>>

(* The work of a stage raises: a model, a file, the target, the database. *)
Raise(s) ==
  /\ session[s].pc = "work"
  /\ Goto(s, Moved(s, "except"))
  /\ UNCHANGED <<mode, row, workflow, records, target, crashes, lost, unaware>>

(* _pause_for_review *)
PauseRead(s) ==
  /\ session[s].pc = "pause_read"
  /\ IF row.status \in {"CANCELLED", "ROLLED_BACK"} THEN Leave(s, FALSE)
     ELSE Goto(s, Refreshed(s, "pause"))
  /\ Aware(s)
  /\ UNCHANGED <<mode, row, workflow, records, target, crashes, lost>>

Pause(s) ==
  /\ session[s].pc = "pause"
  /\ Save(s, Put([session[s].copy EXCEPT !.status = "PAUSED"], session[s].stage, "NEEDS_REVIEW", "agent"))
  /\ Leave(s, FALSE)
  /\ UNCHANGED <<mode, workflow, records, target, crashes, lost, unaware>>

CompleteReadUnchecked(s) == \* mutant: the refreshed status is not looked at
  /\ session[s].pc = "complete_read"
  /\ Goto(s, Refreshed(s, "complete"))
  /\ Aware(s)
  /\ UNCHANGED <<mode, row, workflow, records, target, crashes, lost>>

(* _complete; a 409 in _sync_resolved_review is not handled. *)
CompleteRead(s) ==
  /\ session[s].pc = "complete_read"
  /\ IF row.status # "CANCELLED" THEN Goto(s, Refreshed(s, "complete"))
     ELSE IF session[s].by = "sync" THEN Leave(s, TRUE)
     ELSE Goto(s, Moved(s, "except"))
  /\ Aware(s)
  /\ UNCHANGED <<mode, row, workflow, records, target, crashes, lost>>

Complete(s) ==
  /\ session[s].pc = "complete"
  /\ LET new == Put(session[s].copy, session[s].stage, "COMPLETED", session[s].by)
     IN  /\ Save(s, new)
         /\ Goto(s, With(session[s], "next", new))
  /\ UNCHANGED <<mode, workflow, records, target, crashes, lost, unaware>>

(* What is committed after _complete: _next, the push decision, the end.   *)
Advanced(q) ==
  CASE q.stage = "analyze" -> Put([q.copy EXCEPT !.current = "review"], "review", Ready, q.by)
    [] q.stage = "review" -> Put([q.copy EXCEPT !.current = "preview",
                                                !.status = IF q.by = "sync" THEN "ACTIVE" ELSE @],
                                 "preview", Ready, q.by)
    [] q.stage = "preview" -> Put([q.copy EXCEPT !.current = "push", !.status = "AWAITING_PUSH_DECISION"],
                                  "push", "READY_TO_PUSH", q.by)
    [] q.stage = "push" -> [q.copy EXCEPT !.status = "COMPLETED"]

AdvanceStage(s) ==
  /\ session[s].pc = "next"
  /\ LET q == With(session[s], "settle", Advanced(session[s]))
     IN  /\ Save(s, q.copy)
         /\ CASE q.by = "sync" -> Enter(s, q)
              [] q.by = "agent" /\ q.stage = "push" -> Goto(s, q)
              [] q.by = "agent" /\ q.stage = "preview" -> Return(s, q)
              [] q.by = "agent" /\ q.stage \in {"analyze", "review"} ->
                   IF mode = "HUMAN_IN_LOOP" THEN Leave(s, FALSE)
                   ELSE Goto(s, At("begin_read", q.kind, q.copy.current))
  /\ UNCHANGED <<mode, workflow, records, target, crashes, lost, unaware>>

SettleNothing(s) == \* mutant: the status is not derived from the writes
  /\ session[s].pc = "settle"
  /\ Leave(s, FALSE)
  /\ UNCHANGED <<mode, row, workflow, records, target, crashes, lost, unaware>>

(* decide_push, its sync_target_status *)
Settle(s) ==
  /\ session[s].pc = "settle"
  /\ Save(s, Synced(session[s].copy, target))
  /\ Leave(s, FALSE)
  /\ UNCHANGED <<mode, workflow, records, target, crashes, lost, unaware>>

(* The except blocks of advance_pipeline and decide_push. *)
Except(s) ==
  /\ session[s].pc = "except"
  /\ IF row.status = "CANCELLED" THEN Leave(s, FALSE) ELSE Goto(s, Refreshed(s, "fail"))
  /\ Aware(s)
  /\ UNCHANGED <<mode, row, workflow, records, target, crashes, lost>>

FailQuietly(s) == \* mutant: the stage fails, the status stays
  /\ session[s].pc = "fail"
  /\ LET q == session[s]
     IN  Save(s, Put(q.copy, IF q.stage = "push" THEN "push" ELSE q.copy.current, "FAILED", "agent"))
  /\ Leave(s, TRUE)
  /\ UNCHANGED <<mode, workflow, records, target, crashes, lost, unaware>>

Fail(s) ==
  /\ session[s].pc = "fail"
  /\ LET q == session[s]
     IN  Save(s, Put([q.copy EXCEPT !.status = "FAILED"],
                     IF q.stage = "push" THEN "push" ELSE q.copy.current, "FAILED", "agent"))
  /\ Leave(s, TRUE)
  /\ UNCHANGED <<mode, workflow, records, target, crashes, lost, unaware>>

(* decide_push, DO_NOT_PUSH *)
Decline(s) ==
  /\ session[s].pc = "decline"
  /\ Save(s, Put([session[s].copy EXCEPT !.status = "COMPLETED_WITHOUT_PUSH"], "push", "SKIPPED", "reviewer"))
  /\ Leave(s, FALSE)
  /\ UNCHANGED <<mode, workflow, records, target, crashes, lost, unaware>>

(* cancel_pipeline.  The sessions between a check of the status and the    *)
(* commit that relies on it do not see it.                                 *)
Skipped(c) ==
  [c EXCEPT !.status = "CANCELLED",
            !.stage = [s \in Stages |->
               IF Is(c, s) \in {"QUEUED", "WAITING_APPROVAL", "READY_TO_PUSH", "RUNNING",
                                "NEEDS_REVIEW", "FAILED"}
               THEN Entry("SKIPPED", "reviewer") ELSE c.stage[s]]]

BetweenCheckAndWrite(s) ==
  \/ session[s].pc \in {"begin", "pause", "complete", "next", "settle", "fail", "decline"}
  \/ session[s].pc = "sync" /\ session[s].kind = "decline"

Cancel(s) ==
  /\ session[s].pc = "cancel"
  /\ Save(s, Skipped(session[s].copy))
  /\ unaware' = IF row.status = "CANCELLED" THEN unaware
                ELSE {t \in Session \ {s} : BetweenCheckAndWrite(t)}
  /\ Leave(s, FALSE)
  /\ UNCHANGED <<mode, workflow, records, target, crashes, lost>>

----------------------------------------------------------------------------
(* The other components, as far as they meet the row *)

(* resolve: the last open decision; the enqueue is still to come. *)
Resolve(s) ==
  /\ "resolve" \in Kinds /\ s # Pass /\ session[s] = Idle
  /\ workflow = "PAUSED"
  /\ workflow' = "COMPLETED"
  /\ Goto(s, At("enqueue", "resolve", row.current))
  /\ UNCHANGED <<mode, row, records, target, crashes, lost, unaware>>

(* The guided screens call the endpoints of the stages themselves and the  *)
(* target directly.                                                        *)
Guide(s) ==
  /\ "guide" \in Kinds /\ mode = "HUMAN_IN_LOOP" /\ s # Pass /\ session[s] = Idle
  /\ \/ /\ workflow = "NONE" /\ workflow' \in {"PAUSED", "COMPLETED"}
        /\ IF workflow' = "COMPLETED" THEN Goto(s, At("enqueue", "guide", row.current))
           ELSE UNCHANGED <<session, job>>
        /\ UNCHANGED <<row, records, target>>
     \/ Transforms /\ UNCHANGED <<row, target, session, job>>
     \/ PushValid /\ UNCHANGED <<workflow, records, session, job>>
  /\ UNCHANGED <<mode, crashes, lost, unaware>>

(* rollback: the writes, then the row from a load of its own. *)
Undo(s) ==
  /\ "undo" \in Kinds /\ s # Pass /\ session[s] = Idle
  /\ target \in UndoWhen
  /\ target' = IF target = "SENT" THEN "UNDONE" ELSE target
  /\ Goto(s, At("undo_read", "undo", "push"))
  /\ UNCHANGED <<mode, row, workflow, records, crashes, lost, unaware>>

UndoRead(s) ==
  /\ session[s].pc = "undo_read"
  /\ Goto(s, Refreshed(s, "undo"))
  /\ UNCHANGED <<mode, row, workflow, records, target, crashes, lost, unaware>>

UndoWrite(s) ==
  /\ session[s].pc = "undo"
  /\ Save(s, Put([session[s].copy EXCEPT !.status = "ROLLED_BACK"], "push", "ROLLED_BACK", "reviewer"))
  /\ Leave(s, FALSE)
  /\ UNCHANGED <<mode, workflow, records, target, crashes, lost, unaware>>

(* What is left undone for good when a session is lost: the enqueue after  *)
(* a commit, a push from the commit of _begin on, the status derived from  *)
(* the target's writes after COMPLETED, the status of an undo.             *)
LeftUndone(q) ==
  CASE q.pc = "enqueue" -> {"enqueue"}
    [] q.pc \in {"undo_read", "undo"} -> {"undo"}
    [] q.pc = "settle" -> {"settle"}
    [] /\ q.stage = "push" /\ q.kind \in {"pass", "push"}
       /\ q.pc \in {"work", "complete_read", "complete", "next", "except", "fail"} -> {"push"}
    [] OTHER -> {}

(* A process dies with the pass or the request; the job row stays. *)
Crash(s) ==
  /\ session[s] # Idle
  /\ crashes < MaxCrashes
  /\ (IF s = Pass THEN session[s].stage ELSE "request") \in CrashAt
  /\ crashes' = crashes + 1
  /\ lost' = lost \cup LeftUndone(session[s])
  /\ session' = [session EXCEPT ![s] = Idle]
  /\ IF s = Pass THEN Queue!Lose(s) ELSE UNCHANGED job
  /\ Aware(s)
  /\ UNCHANGED <<mode, row, workflow, records, target>>

----------------------------------------------------------------------------
Step(s) ==
  \/ StartPass(s) \/ HandBack(s) \/ LoadPass(s) \/ Sync(s) \/ Enqueue(s)
  \/ BeginRead(s) \/ Begin(s)
  \/ Analyze(s) \/ Review(s) \/ Preview(s) \/ Count(s) \/ Push(s) \/ Raise(s)
  \/ PauseRead(s) \/ Pause(s)
  \/ CompleteRead(s) \/ Complete(s) \/ AdvanceStage(s) \/ Settle(s)
  \/ Except(s) \/ Fail(s)
  \/ Decline(s) \/ Cancel(s) \/ UndoRead(s) \/ UndoWrite(s)

Next ==
  \/ ClaimPass
  \/ \E s \in Session : \/ Open(s) \/ Resolve(s) \/ Guide(s) \/ Undo(s)
                        \/ Step(s)
                        \/ Crash(s)

Spec == Init /\ [][Next]_vars

(* A session that is served goes on: every model and target call has a     *)
(* timeout.  A queued or lost pass is claimed, as EveryJobSettles of       *)
(* JobQueue says.  Nobody has to make a request.                           *)
FairSpec == /\ Spec
            /\ WF_vars(ClaimPass \/ Step(Pass))
            /\ \A s \in Request : WF_vars(Step(s))

----------------------------------------------------------------------------
(* Properties *)

(* A stop holds: once committed it is overwritten only by a session that   *)
(* had checked the status before and had not committed yet, or by an undo  *)
(* (pipeline.py: the refreshes of _begin, _complete, _pause_for_review and *)
(* of the except blocks).                                                  *)
StopHolds ==
  [][row.status = "CANCELLED" /\ row'.status \notin {"CANCELLED", "ROLLED_BACK"}
       => \E s \in unaware : session'[s] # session[s]]_vars

(* Nothing waits for a push, and nothing is at the target, before mapping  *)
(* and records are reviewed, whichever path moved the row there.           *)
PushComesAfterReview ==
  row.current = "push" \/ target # "NONE" => records /\ workflow = "COMPLETED"

Nobody == /\ \A s \in Session : session[s] = Idle
          /\ jobStatus \notin {"QUEUED", "RUNNING"}

(* When nobody works on an Autopilot migration, its row does not say that  *)
(* somebody does: it waits for a person, failed, or is over.  Only two     *)
(* losses leave it so: that of an upload before its enqueue (batches.py:85)*)
(* and that of a push (pipeline.py:166 and 252 do not take it up again).   *)
RestIsVisible ==
  mode = "AUTOPILOT" /\ Nobody /\ row.status = "ACTIVE" =>
    IF row.current = "push" THEN "push" \in lost ELSE "enqueue" \in lost

(* A decided review is taken up by a pass, without anybody who asks again, *)
(* unless the request that decided it was lost before its enqueue          *)
(* (workflow.py:57) or met the end of a pass (jobs.py:83-88).              *)
DecisionIsTakenUp ==
  mode = "AUTOPILOT" /\ Nobody /\ row.status = "PAUSED" /\ workflow = "COMPLETED"
    => "enqueue" \in lost \/ missed

(* Once nobody is at work a migration is COMPLETED only when the target    *)
(* holds its records, unless a session was lost after COMPLETED and before *)
(* the status derived from the writes (pipeline.py:273), or in an undo.    *)
CompletedTellsTheTarget ==
  Nobody /\ row.status = "COMPLETED" =>
    /\ target = "FAILED" => "settle" \in lost
    /\ target = "UNDONE" => lost \cap {"settle", "undo"} # {}

(* Once everything is decided an Autopilot migration is delivered, or      *)
(* failed and says so (docs, FR6), but for an undo and for what was lost   *)
(* for good.                                                               *)
DecidedIsDelivered ==
  mode = "AUTOPILOT" /\ records /\ workflow = "COMPLETED"
    ~> \/ row.status \in Final \cup {"FAILED"}
       \/ Is(row, "push") = "ROLLED_BACK"
       \/ lost # {} \/ missed
=============================================================================
