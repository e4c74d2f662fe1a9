------------------------------- MODULE Target -------------------------------
(***************************************************************************)
(* The bundled target and the writes to it: backend/app/api/mock_target.py *)
(* and integration/service.py, with the stop of api/pipeline.py.  One row  *)
(* of target_writes per record, unique by its idempotency key              *)
(* batch:file:number, and the row of pipeline_runs, whose status says what *)
(* may still be sent and what has been.                                    *)
(*                                                                         *)
(* The review is over, so the VALID records and their payloads stay as     *)
(* they are (DecisionsStand of Review) and the refusals of a changed       *)
(* payload do not occur.  What decide_push writes to the row around a push *)
(* is the business of Pipeline.                                            *)
(*                                                                         *)
(* The session of a request holds no object between two of its functions,  *)
(* so each of them loads its rows anew; the commit then writes what it     *)
(* changed (module Orm).                                                   *)
(***************************************************************************)
EXTENDS Integers, Orm

CONSTANTS
  Session,       \* requests in flight
  Record,        \* the VALID records of the migration
  Fate,          \* what push_record makes of a record
  Kinds,         \* the requests this instance meets
  RetriesMeet,   \* whether two retries may be in flight together
  MaxCrashes     \* bound: requests lost with their process

FateKinds == {"SUCCESS", "RETRYABLE_FAILURE", "PERMANENT_FAILURE"}

ASSUME FateAssumption == Fate \in [Record -> FateKinds]
ASSUME KindAssumption == Kinds \subseteq {"push", "direct", "retry", "undo", "cancel"}
ASSUME BoundAssumption == RetriesMeet \in BOOLEAN /\ MaxCrashes \in Nat

VARIABLES
  writes,    \* target_writes: status and retry_count, "NONE" while there is no row
  row,       \* pipeline_runs: status, and the status of its push stage
  session,   \* where each session stands, with its copies
  crashes,   \* sessions lost so far
  unaware    \* history: sessions that checked before a stop and have neither
             \* written nor checked since

vars == <<writes, row, session, crashes, unaware>>

MAX_RETRIES == 3
Stopped == {"CANCELLED", "ROLLED_BACK"}
RowStatus == {"AWAITING_PUSH_DECISION", "ACTIVE", "COMPLETED", "PARTIAL_FAILURE"} \cup Stopped
StageStatus == {"READY_TO_PUSH", "RUNNING", "COMPLETED", "FAILED", "SKIPPED", "ROLLED_BACK"}

Rows == [status : RowStatus, push : StageStatus]
Writes == [Record -> [is : {"NONE", "ROLLED_BACK"} \cup FateKinds, tries : 0..MAX_RETRIES]]

Idle == [pc |-> "idle"]
Served ==
  [pc : {"check", "look"}, kind : {"push", "direct", "retry"}, todo : SUBSET Record]
    \cup [pc : {"insert"}, kind : {"push", "direct"}, todo : SUBSET Record, record : Record]
    \cup [pc : {"retry_load", "sync_load", "undo_read"}]
    \cup [pc : {"retry", "undo"}, loaded : Writes]
    \cup [pc : {"sync_read", "undo_row", "cancel"}, copy : Rows]
    \cup [pc : {"sync"}, copy : Rows, new : Rows]

(* Type invariant. *)
TypeOK ==
  /\ writes \in Writes
  /\ row \in Rows
  /\ session \in [Session -> {Idle} \cup Served]
  /\ crashes \in Nat
  /\ unaware \subseteq Session

(* The push is called by decide_push, or by a guided screen or a client    *)
(* while the decision is open.                                             *)
Init ==
  /\ writes = [r \in Record |-> [is |-> "NONE", tries |-> 0]]
  /\ row \in {[status |-> "AWAITING_PUSH_DECISION", push |-> "READY_TO_PUSH"],
              [status |-> "ACTIVE", push |-> "RUNNING"]}
  /\ session = [s \in Session |-> Idle]
  /\ crashes = 0
  /\ unaware = {}

----------------------------------------------------------------------------
(* Sessions *)

Goto(s, q) == session' = [session EXCEPT ![s] = q]

Leave(s) == Goto(s, Idle)

(* The commit of a session that loaded copy and made it new. *)
Save(copy, new) ==
  row' = [status |-> Write(new.status, copy.status, row.status),
          push |-> Write(new.push, copy.push, row.push)]

(* Between its check of the status and the write that relies on it. *)
Checked(s) == session[s].pc \in {"look", "insert", "retry_load", "retry"}

(* After a commit of the row, who does not know of a stop. *)
Stops == unaware' = IF row'.status \in Stopped /\ row.status \notin Stopped
                    THEN unaware \cup {s \in Session : Checked(s)} ELSE unaware

----------------------------------------------------------------------------
(* push_valid, push *)

PushValid(s) ==
  /\ session[s] = Idle /\ "push" \in Kinds
  /\ Goto(s, [pc |-> "check", kind |-> "push", todo |-> Record])
  /\ UNCHANGED <<writes, row, crashes, unaware>>

Push(s) ==
  /\ session[s] = Idle /\ "direct" \in Kinds
  /\ \E r \in Record : Goto(s, [pc |-> "check", kind |-> "direct", todo |-> {r}])
  /\ UNCHANGED <<writes, row, crashes, unaware>>

(* require_push_ready, before each record; a 409 ends the request. *)
Check(s) ==
  /\ session[s].pc = "check"
  /\ IF row.status \in Stopped THEN Leave(s)
     ELSE IF session[s].kind = "retry" THEN Goto(s, [pc |-> "retry_load"])
     ELSE IF session[s].todo = {} THEN Goto(s, [pc |-> "sync_load"])
     ELSE Goto(s, [session[s] EXCEPT !.pc = "look"])
  /\ unaware' = unaware \ {s}
  /\ UNCHANGED <<writes, row, crashes>>

OnwardUnchecked(s, done) == \* mutant: checked once, before the first record
  LET todo == session[s].todo \ done
  IN  IF todo # {} THEN Goto(s, [pc |-> "look", kind |-> session[s].kind, todo |-> todo])
      ELSE IF session[s].kind = "direct" THEN Leave(s)
      ELSE Goto(s, [pc |-> "sync_load"])

(* After a record: the next one, or the end of the request. *)
Onward(s, done) ==
  LET todo == session[s].todo \ done
  IN  IF todo # {} THEN Goto(s, [pc |-> "check", kind |-> session[s].kind, todo |-> todo])
      ELSE IF session[s].kind = "direct" THEN Leave(s)
      ELSE Goto(s, [pc |-> "sync_load"])

(* push_record: a key that exists is answered with what it did before. *)
Look(s) ==
  /\ session[s].pc = "look"
  /\ \E r \in session[s].todo :
       IF writes[r].is # "NONE" THEN Onward(s, {r})
       ELSE Goto(s, [pc |-> "insert", kind |-> session[s].kind, todo |-> session[s].todo,
                     record |-> r])
  /\ UNCHANGED <<writes, row, crashes, unaware>>

(* Its commit; the key is unique, so a second insert fails the request. *)
Insert(s) ==
  /\ session[s].pc = "insert"
  /\ LET r == session[s].record
     IN  IF writes[r].is = "NONE"
         THEN /\ writes' = [writes EXCEPT ![r] = [is |-> Fate[r], tries |-> 0]]
              /\ Onward(s, {r})
         ELSE UNCHANGED writes /\ Leave(s)
  /\ unaware' = unaware \ {s}
  /\ UNCHANGED <<row, crashes>>

----------------------------------------------------------------------------
(* sync_target_status *)

SyncedAsStage(is) == \* mutant: the status of the stage
  IF is \cap {"RETRYABLE_FAILURE", "PERMANENT_FAILURE"} # {}
  THEN [status |-> "FAILED", push |-> "FAILED"]
  ELSE LET end == IF "ROLLED_BACK" \in is THEN "ROLLED_BACK" ELSE "COMPLETED"
       IN  [status |-> end, push |-> end]

(* The row that goes with the statuses of the writes. *)
Synced(is) ==
  IF is \cap {"RETRYABLE_FAILURE", "PERMANENT_FAILURE"} # {}
  THEN [status |-> "PARTIAL_FAILURE", push |-> "FAILED"]
  ELSE LET end == IF "ROLLED_BACK" \in is THEN "ROLLED_BACK" ELSE "COMPLETED"
       IN  [status |-> end, push |-> end]

SyncLoad(s) ==
  /\ session[s].pc = "sync_load"
  /\ Goto(s, [pc |-> "sync_read", copy |-> row])
  /\ UNCHANGED <<writes, row, crashes, unaware>>

SyncRead(s) ==
  /\ session[s].pc = "sync_read"
  /\ LET is == {writes[r].is : r \in Record} \ {"NONE"}
     IN  IF is = {} THEN Leave(s)
         ELSE Goto(s, [pc |-> "sync", copy |-> session[s].copy, new |-> Synced(is)])
  /\ UNCHANGED <<writes, row, crashes, unaware>>

SyncCommit(s) ==
  /\ session[s].pc = "sync"
  /\ Save(session[s].copy, session[s].new)
  /\ Stops
  /\ Leave(s)
  /\ UNCHANGED <<writes, crashes>>

----------------------------------------------------------------------------
(* retry: the check, the load of the rows, their commit, the status. *)

Retries(s) == \/ session[s].pc = "check" /\ session[s].kind = "retry"
              \/ session[s].pc \in {"retry_load", "retry"}

Retry(s) ==
  /\ session[s] = Idle /\ "retry" \in Kinds
  /\ RetriesMeet \/ \A t \in Session : ~Retries(t)
  /\ Goto(s, [pc |-> "check", kind |-> "retry", todo |-> {}])
  /\ UNCHANGED <<writes, row, crashes, unaware>>

RetryLoad(s) ==
  /\ session[s].pc = "retry_load"
  /\ Goto(s, [pc |-> "retry", loaded |-> writes])
  /\ UNCHANGED <<writes, row, crashes, unaware>>

EligibleAll(w) == w.is \in {"RETRYABLE_FAILURE", "PERMANENT_FAILURE"} \* mutant: any failure

Eligible(w) == w.is = "RETRYABLE_FAILURE" /\ w.tries < MAX_RETRIES

RetryCommit(s) ==
  /\ session[s].pc = "retry"
  /\ LET loaded == session[s].loaded
     IN  writes' = [r \in Record |->
           IF Eligible(loaded[r]) THEN [is |-> "SUCCESS", tries |-> loaded[r].tries + 1]
           ELSE writes[r]]
  /\ Goto(s, [pc |-> "sync_load"])
  /\ unaware' = unaware \ {s}
  /\ UNCHANGED <<row, crashes>>

----------------------------------------------------------------------------
(* rollback: the writes, then the row from a load of its own. *)

Undo(s) ==
  /\ session[s] = Idle /\ "undo" \in Kinds
  /\ Goto(s, [pc |-> "undo", loaded |-> writes])
  /\ UNCHANGED <<writes, row, crashes, unaware>>

UndoCommit(s) ==
  /\ session[s].pc = "undo"
  /\ writes' = [r \in Record |-> IF session[s].loaded[r].is = "SUCCESS"
                                 THEN [writes[r] EXCEPT !.is = "ROLLED_BACK"] ELSE writes[r]]
  /\ Goto(s, [pc |-> "undo_read"])
  /\ UNCHANGED <<row, crashes, unaware>>

UndoRead(s) ==
  /\ session[s].pc = "undo_read"
  /\ Goto(s, [pc |-> "undo_row", copy |-> row])
  /\ UNCHANGED <<writes, row, crashes, unaware>>

UndoRow(s) ==
  /\ session[s].pc = "undo_row"
  /\ Save(session[s].copy, [status |-> "ROLLED_BACK", push |-> "ROLLED_BACK"])
  /\ Stops
  /\ Leave(s)
  /\ UNCHANGED <<writes, crashes>>

----------------------------------------------------------------------------
(* cancel_pipeline *)

Cancel(s) ==
  /\ session[s] = Idle /\ "cancel" \in Kinds
  /\ row.status # "COMPLETED"
  /\ Goto(s, [pc |-> "cancel", copy |-> row])
  /\ UNCHANGED <<writes, row, crashes, unaware>>

CancelCommit(s) ==
  /\ session[s].pc = "cancel"
  /\ LET copy == session[s].copy
     IN  Save(copy, [status |-> "CANCELLED",
                     push |-> IF copy.push \in {"READY_TO_PUSH", "RUNNING", "FAILED"}
                              THEN "SKIPPED" ELSE copy.push])
  /\ Stops
  /\ Leave(s)
  /\ UNCHANGED <<writes, crashes>>

(* A process dies with the request; what it committed stays. *)
Crash(s) ==
  /\ session[s] # Idle
  /\ crashes < MaxCrashes
  /\ crashes' = crashes + 1
  /\ Leave(s)
  /\ UNCHANGED <<writes, row, unaware>>

----------------------------------------------------------------------------
Next == \E s \in Session :
  \/ PushValid(s) \/ Push(s) \/ Check(s) \/ Look(s) \/ Insert(s)
  \/ SyncLoad(s) \/ SyncRead(s) \/ SyncCommit(s)
  \/ Retry(s) \/ RetryLoad(s) \/ RetryCommit(s)
  \/ Undo(s) \/ UndoCommit(s) \/ UndoRead(s) \/ UndoRow(s)
  \/ Cancel(s) \/ CancelCommit(s)
  \/ Crash(s)

Spec == Init /\ [][Next]_vars

----------------------------------------------------------------------------
(* Properties *)

(* After a stop or an undo nothing reaches the target any more but what a  *)
(* session had checked before and not written yet: a push in progress adds *)
(* at most the record it is at (mock_target.py:61).                        *)
StopIsSeen ==
  [][row.status \in Stopped /\ (\E r \in Record : writes[r].is # "SUCCESS" /\ writes'[r].is = "SUCCESS")
       => \E s \in unaware : session'[s] # session[s]]_vars

(* The effect of a record at the target, as Delivery has it: pushes,       *)
(* retries and undos may overlap in any way and be lost at any point, but  *)
(* for two retries at the same time.                                       *)
EffectOf(is) ==
  CASE is = "NONE" -> "none"
    [] is = "SUCCESS" -> "held"
    [] is = "RETRYABLE_FAILURE" -> "postponed"
    [] is = "PERMANENT_FAILURE" -> "refused"
    [] is = "ROLLED_BACK" -> "undone"

D == INSTANCE Delivery WITH effect <- [r \in Record |-> EffectOf(writes[r].is)]

EachRecordIsDeliveredOnce == D!Spec

(* "All approved records were sent successfully." (the text that goes with *)
(* the status, mock_target.py:45; "accurate partial failure status", docs, *)
(* FR8): once no request is in flight, COMPLETED means that the target     *)
(* holds every record.                                                     *)
CompletedMeansSent ==
  (\A s \in Session : session[s] = Idle) /\ row.status = "COMPLETED"
    => \A r \in Record : writes[r].is = "SUCCESS"
=============================================================================
