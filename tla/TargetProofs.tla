---------------------------- MODULE TargetProofs ----------------------------
(* Proofs about the target, for every number of requests, records and      *)
(* losses.                                                                 *)
EXTENDS Target, TLAPS

(* What a session holds, by where it stands. *)
LEMMA Shapes ==
  ASSUME TypeOK, NEW s \in Session
  PROVE  /\ session[s].pc \in {"check", "look"} =>
              session[s] \in [pc : {"check", "look"}, kind : {"push", "direct", "retry"},
                              todo : SUBSET Record]
         /\ session[s].pc = "insert" =>
              session[s] \in [pc : {"insert"}, kind : {"push", "direct"}, todo : SUBSET Record,
                              record : Record]
         /\ session[s].pc \in {"retry", "undo"} => session[s].loaded \in Writes
         /\ session[s].pc \in {"sync_read", "undo_row", "cancel", "sync"} => session[s].copy \in Rows
         /\ session[s].pc = "sync" => session[s].new \in Rows
<1>1. session[s] \in {Idle} \cup Served
  BY DEF TypeOK
<1>. QED BY <1>1 DEF Idle, Served

(* A request of push_record is a push or a direct one. *)
PushingIsTyped == \A s \in Session : session[s].pc = "look" => session[s].kind \in {"push", "direct"}

(* A commit writes columns of the row's type. *)
LEMMA SaveKeepsRows ==
  ASSUME row \in Rows, NEW copy, NEW new \in Rows, Save(copy, new)
  PROVE  row' \in Rows
BY DEF Save, Write, Rows

(* The next place of a push is a place. *)
LEMMA OnwardIsServed ==
  ASSUME TypeOK, NEW s \in Session, NEW done,
         session[s].pc \in {"look", "insert"}, session[s].kind \in {"push", "direct"},
         Onward(s, done)
  PROVE  session' \in [Session -> {Idle} \cup Served]
<1>1. session[s].todo \in SUBSET Record
  BY Shapes
<1>. QED BY <1>1 DEF Onward, Goto, Leave, TypeOK, Served, Idle

(* Every variable of the target keeps its type (mock_target.py). *)
THEOREM Typing == Spec => [](TypeOK /\ PushingIsTyped)
<1>1. Init => TypeOK /\ PushingIsTyped
  BY BoundAssumption DEF Init, TypeOK, PushingIsTyped, Rows, RowStatus, Stopped, StageStatus,
     Writes, MAX_RETRIES, Idle
<1>2. TypeOK /\ PushingIsTyped /\ [Next]_vars => (TypeOK /\ PushingIsTyped)'
  <2> SUFFICES ASSUME TypeOK, PushingIsTyped, [Next]_vars PROVE TypeOK' /\ PushingIsTyped'
    OBVIOUS
  <2>1. CASE UNCHANGED vars
    BY <2>1 DEF vars, TypeOK, PushingIsTyped
  <2>2. ASSUME NEW s \in Session, PushValid(s) \/ Push(s) \/ Retry(s)
        PROVE TypeOK' /\ PushingIsTyped'
    BY <2>2 DEF PushValid, Push, Retry, Goto, TypeOK, PushingIsTyped, Served
  <2>3. ASSUME NEW s \in Session, Check(s) PROVE TypeOK' /\ PushingIsTyped'
    BY <2>3, Shapes DEF Check, Goto, Leave, Idle, TypeOK, PushingIsTyped, Served
  <2>4. ASSUME NEW s \in Session, Look(s) PROVE TypeOK' /\ PushingIsTyped'
    <3>1. session[s].kind \in {"push", "direct"} /\ session[s].todo \in SUBSET Record
      BY <2>4, Shapes DEF Look, PushingIsTyped
    <3>2. PICK r \in session[s].todo :
            IF writes[r].is # "NONE" THEN Onward(s, {r})
            ELSE Goto(s, [pc |-> "insert", kind |-> session[s].kind, todo |-> session[s].todo,
                          record |-> r])
      BY <2>4 DEF Look
    <3>3. session' \in [Session -> {Idle} \cup Served]
      <4>1. CASE writes[r].is # "NONE"
        BY <4>1, <3>1, <3>2, <2>4, OnwardIsServed DEF Look
      <4>2. CASE writes[r].is = "NONE"
        BY <4>2, <3>1, <3>2 DEF Goto, TypeOK, Served
      <4>. QED BY <4>1, <4>2
    <3>4. PushingIsTyped'
      BY <3>2 DEF Onward, Goto, Leave, Idle, PushingIsTyped, TypeOK
    <3>. QED BY <3>3, <3>4, <2>4 DEF Look, TypeOK
  <2>5. ASSUME NEW s \in Session, Insert(s) PROVE TypeOK' /\ PushingIsTyped'
    <3>1. session[s].kind \in {"push", "direct"} /\ session[s].record \in Record
      BY <2>5, Shapes DEF Insert
    <3>2. writes' \in Writes
      BY <2>5, <3>1, FateAssumption DEF Insert, TypeOK, Writes, MAX_RETRIES
    <3>3. session' \in [Session -> {Idle} \cup Served]
      <4>1. CASE Onward(s, {session[s].record})
        BY <4>1, <3>1, <2>5, OnwardIsServed DEF Insert
      <4>2. CASE Leave(s)
        BY <4>2 DEF Leave, Goto, TypeOK
      <4>. QED BY <4>1, <4>2, <2>5 DEF Insert
    <3>4. PushingIsTyped'
      BY <2>5 DEF Insert, Onward, Goto, Leave, Idle, PushingIsTyped, TypeOK
    <3>. QED BY <3>2, <3>3, <3>4, <2>5 DEF Insert, TypeOK
  <2>6. ASSUME NEW s \in Session, SyncLoad(s) \/ UndoRead(s) \/ Cancel(s)
        PROVE TypeOK' /\ PushingIsTyped'
    BY <2>6 DEF SyncLoad, UndoRead, Cancel, Goto, TypeOK, PushingIsTyped, Served
  <2>7. ASSUME NEW s \in Session, SyncRead(s) PROVE TypeOK' /\ PushingIsTyped'
    <3>1. \A is : Synced(is) \in Rows
      BY DEF Synced, Rows, RowStatus, Stopped, StageStatus
    <3>2. session[s].copy \in Rows
      BY <2>7, Shapes DEF SyncRead
    <3>. QED BY <2>7, <3>1, <3>2 DEF SyncRead, Goto, Leave, Idle, TypeOK, PushingIsTyped, Served
  <2>8. ASSUME NEW s \in Session, SyncCommit(s) \/ UndoRow(s) \/ CancelCommit(s)
        PROVE TypeOK' /\ PushingIsTyped'
    <3>1. PICK copy \in Rows, new \in Rows : Save(copy, new)
      <4>1. session[s].copy \in Rows /\ (session[s].pc = "sync" => session[s].new \in Rows)
        BY <2>8, Shapes DEF SyncCommit, UndoRow, CancelCommit
      <4>2. CASE SyncCommit(s)
        BY <4>1, <4>2 DEF SyncCommit
      <4>3. CASE UndoRow(s)
        <5>1. [status |-> "ROLLED_BACK", push |-> "ROLLED_BACK"] \in Rows
          BY DEF Rows, RowStatus, Stopped, StageStatus
        <5>. QED BY <4>1, <4>3, <5>1 DEF UndoRow
      <4>4. CASE CancelCommit(s)
        <5> DEFINE new == [status |-> "CANCELLED",
                           push |-> IF session[s].copy.push \in {"READY_TO_PUSH", "RUNNING", "FAILED"}
                                    THEN "SKIPPED" ELSE session[s].copy.push]
        <5>1. new \in Rows
          BY <4>1 DEF Rows, RowStatus, Stopped, StageStatus
        <5>2. Save(session[s].copy, new)
          BY <4>4 DEF CancelCommit
        <5>. QED BY <4>1, <5>1, <5>2
      <4>. QED BY <2>8, <4>2, <4>3, <4>4
    <3>2. row' \in Rows
      BY <3>1, SaveKeepsRows DEF TypeOK
    <3>3. Leave(s) /\ Stops /\ UNCHANGED <<writes, crashes>>
      BY <2>8 DEF SyncCommit, UndoRow, CancelCommit
    <3>. QED BY <3>2, <3>3 DEF Leave, Goto, Stops, Idle, TypeOK, PushingIsTyped
  <2>9. ASSUME NEW s \in Session, RetryLoad(s) \/ Undo(s) PROVE TypeOK' /\ PushingIsTyped'
    BY <2>9 DEF RetryLoad, Undo, Goto, TypeOK, PushingIsTyped, Served
  <2>10. ASSUME NEW s \in Session, RetryCommit(s) PROVE TypeOK' /\ PushingIsTyped'
    <3>1. session[s].loaded \in Writes
      BY <2>10, Shapes DEF RetryCommit
    <3>2. writes' \in Writes
      <4> DEFINE loaded == session[s].loaded
      <4>1. \A r \in Record : Eligible(loaded[r]) => loaded[r].tries + 1 \in 0..MAX_RETRIES
        BY <3>1 DEF Writes, Eligible, MAX_RETRIES
      <4>2. writes' = [r \in Record |->
              IF Eligible(loaded[r]) THEN [is |-> "SUCCESS", tries |-> loaded[r].tries + 1]
              ELSE writes[r]]
        BY <2>10 DEF RetryCommit
      <4> HIDE DEF loaded
      <4>. QED BY <4>1, <4>2 DEF TypeOK, Writes, FateKinds
    <3>. QED BY <2>10, <3>2 DEF RetryCommit, Goto, TypeOK, PushingIsTyped, Served
  <2>11. ASSUME NEW s \in Session, UndoCommit(s) PROVE TypeOK' /\ PushingIsTyped'
    BY <2>11 DEF UndoCommit, Goto, TypeOK, PushingIsTyped, Served, Writes
  <2>12. ASSUME NEW s \in Session, Crash(s) PROVE TypeOK' /\ PushingIsTyped'
    BY <2>12 DEF Crash, Leave, Goto, Idle, TypeOK, PushingIsTyped
  <2>. QED BY <2>1, <2>2, <2>3, <2>4, <2>5, <2>6, <2>7, <2>8, <2>9, <2>10, <2>11, <2>12 DEF Next
<1>. QED BY <1>1, <1>2, PTL DEF Spec

----------------------------------------------------------------------------
(* What makes StopIsSeen inductive: once the row says stopped, whoever is  *)
(* past its check has checked before.                                      *)
StopIsKnown == row.status \in Stopped => \A s \in Session : Checked(s) => s \in unaware

LEMMA StopIsKnownInvariant == Spec => []StopIsKnown
<1>1. Init => StopIsKnown
  BY DEF Init, StopIsKnown, Checked, Idle
<1>2. TypeOK /\ StopIsKnown /\ [Next]_vars => StopIsKnown'
  <2> SUFFICES ASSUME TypeOK, StopIsKnown, [Next]_vars PROVE StopIsKnown'
    OBVIOUS
  <2> USE DEF TypeOK, StopIsKnown, Checked, Goto, Leave, Idle
  <2>1. CASE UNCHANGED vars
    BY <2>1 DEF vars
  <2>2. ASSUME NEW s \in Session, PushValid(s) \/ Push(s) \/ Retry(s) \/ Undo(s) \/ Cancel(s)
        PROVE StopIsKnown'
    BY <2>2 DEF PushValid, Push, Retry, Undo, Cancel
  <2>3. ASSUME NEW s \in Session, Check(s) PROVE StopIsKnown'
    BY <2>3 DEF Check
  <2>4. ASSUME NEW s \in Session, Look(s) PROVE StopIsKnown'
    BY <2>4 DEF Look, Onward
  <2>5. ASSUME NEW s \in Session, Insert(s) PROVE StopIsKnown'
    BY <2>5 DEF Insert, Onward
  <2>6. ASSUME NEW s \in Session,
               SyncLoad(s) \/ SyncRead(s) \/ UndoRead(s) \/ UndoCommit(s)
        PROVE StopIsKnown'
    <3>1. CASE SyncLoad(s)
      BY <3>1 DEF SyncLoad
    <3>2. CASE SyncRead(s)
      BY <3>2 DEF SyncRead
    <3>3. CASE UndoRead(s) \/ UndoCommit(s)
      BY <3>3 DEF UndoRead, UndoCommit
    <3>. QED BY <2>6, <3>1, <3>2, <3>3
  <2>7. ASSUME NEW s \in Session, SyncCommit(s) \/ UndoRow(s) \/ CancelCommit(s)
        PROVE StopIsKnown'
    <3>1. Leave(s) /\ Stops
      BY <2>7 DEF SyncCommit, UndoRow, CancelCommit
    <3>. QED BY <3>1 DEF Stops
  <2>8. ASSUME NEW s \in Session, RetryLoad(s) PROVE StopIsKnown'
    BY <2>8 DEF RetryLoad
  <2>9. ASSUME NEW s \in Session, RetryCommit(s) \/ Crash(s) PROVE StopIsKnown'
    BY <2>9 DEF RetryCommit, Crash
  <2>. QED BY <2>1, <2>2, <2>3, <2>4, <2>5, <2>6, <2>7, <2>8, <2>9 DEF Next
<1>. QED BY <1>1, <1>2, Typing, PTL DEF Spec

(* After a stop or an undo nothing reaches the target but what a session   *)
(* had checked before (mock_target.py:61).                                 *)
THEOREM StopsAreSeen == Spec => StopIsSeen
<1> DEFINE Gain == \E r \in Record : writes[r].is # "SUCCESS" /\ writes'[r].is = "SUCCESS"
           Seen == row.status \in Stopped /\ Gain => \E s \in unaware : session'[s] # session[s]
<1>1. TypeOK /\ StopIsKnown /\ [Next]_vars => [Seen]_vars
  <2> SUFFICES ASSUME TypeOK, StopIsKnown, Next, row.status \in Stopped, Gain
               PROVE \E s \in unaware : session'[s] # session[s]
    BY DEF vars
  <2>1. PICK s \in Session : writes' # writes /\ (Insert(s) \/ RetryCommit(s))
    <3>1. writes' # writes
      OBVIOUS
    <3>2. ASSUME NEW s \in Session, UndoCommit(s) PROVE FALSE
      BY <3>2 DEF UndoCommit, TypeOK, Writes
    <3>. QED BY <3>1, <3>2 DEF Next, PushValid, Push, Check, Look, SyncLoad, SyncRead, SyncCommit,
         Retry, RetryLoad, Undo, UndoRead, UndoRow, Cancel, CancelCommit, Crash
  <2>2. Checked(s)
    BY <2>1 DEF Insert, RetryCommit, Checked
  <2>3. session'[s].pc # session[s].pc
    BY <2>1 DEF Insert, RetryCommit, Onward, Goto, Leave, Idle, TypeOK
  <2>. QED BY <2>2, <2>3 DEF StopIsKnown
<1>2. Spec => []TypeOK /\ []StopIsKnown
  BY Typing, StopIsKnownInvariant, PTL
<1>. QED BY <1>1, <1>2, PTL DEF Spec, StopIsSeen

----------------------------------------------------------------------------
(* Two retries in flight together are left out: each would write what it   *)
(* loaded, and an undo can come between.                                   *)
Apart == ~RetriesMeet

(* What ties the copies of a session to the table it will write: what a    *)
(* retry found failed still is, what an undo found sent is sent or undone. *)
OneRetry == \A s, t \in Session : Retries(s) /\ Retries(t) => s = t

RetryIsFresh ==
  \A s \in Session : session[s].pc = "retry" =>
    \A r \in Record : session[s].loaded[r].is = "RETRYABLE_FAILURE"
                        => writes[r].is = "RETRYABLE_FAILURE"

UndoIsFresh ==
  \A s \in Session : session[s].pc = "undo" =>
    \A r \in Record : session[s].loaded[r].is = "SUCCESS"
                        => writes[r].is \in {"SUCCESS", "ROLLED_BACK"}

Fresh == OneRetry /\ RetryIsFresh /\ UndoIsFresh

LEMMA FreshInvariant == ASSUME Apart PROVE Spec => []Fresh
<1>1. Init => Fresh
  BY DEF Init, Fresh, OneRetry, Retries, RetryIsFresh, UndoIsFresh, Idle
<1>2. TypeOK /\ PushingIsTyped /\ Fresh /\ [Next]_vars => Fresh'
  <2> SUFFICES ASSUME TypeOK, PushingIsTyped, Fresh, [Next]_vars PROVE Fresh'
    OBVIOUS
  <2> USE DEF TypeOK, Fresh, OneRetry, Retries, RetryIsFresh, UndoIsFresh, Goto, Leave, Idle
  <2>1. CASE UNCHANGED vars
    BY <2>1 DEF vars
  <2>2. ASSUME NEW s \in Session, PushValid(s) \/ Push(s) \/ Undo(s) \/ Cancel(s) PROVE Fresh'
    BY <2>2 DEF PushValid, Push, Undo, Cancel
  <2>3. ASSUME NEW s \in Session, Retry(s) PROVE Fresh'
    BY <2>3, Apart DEF Retry, Apart
  <2>4. ASSUME NEW s \in Session, Check(s) \/ RetryLoad(s) PROVE Fresh'
    <3>1. Retries(s)' => Retries(s)
      BY <2>4, Shapes DEF Check, RetryLoad
    <3>2. \A t \in Session : t # s => session'[t] = session[t]
      BY <2>4 DEF Check, RetryLoad
    <3>3. /\ session'[s].pc # "undo" /\ writes' = writes
          /\ session'[s].pc = "retry" => session'[s].loaded = writes
      <4>1. CASE Check(s)
        <5> DEFINE there == [session[s] EXCEPT !.pc = "look"]
        <5>1. there.pc = "look"
          BY <4>1, Shapes DEF Check
        <5>2. session'[s] \in {Idle, [pc |-> "retry_load"], [pc |-> "sync_load"], there}
          BY <4>1 DEF Check
        <5>3. writes' = writes
          BY <4>1 DEF Check
        <5> HIDE DEF there
        <5>. QED BY <5>1, <5>2, <5>3
      <4>2. CASE RetryLoad(s)
        BY <4>2 DEF RetryLoad
      <4>. QED BY <2>4, <4>1, <4>2
    <3>. QED BY <3>1, <3>2, <3>3
  <2>5. ASSUME NEW s \in Session, Look(s) PROVE Fresh'
    <3>1. session[s].kind \in {"push", "direct"}
      BY <2>5 DEF Look, PushingIsTyped
    <3>2. \A t \in Session : t # s => session'[t] = session[t]
      BY <2>5 DEF Look, Onward
    <3>3. ~Retries(s)' /\ session'[s].pc \notin {"retry", "undo"} /\ writes' = writes
      BY <2>5, <3>1 DEF Look, Onward
    <3>. QED BY <3>2, <3>3
  <2>6. ASSUME NEW s \in Session, Insert(s) PROVE Fresh'
    <3>1. \A r \in Record : writes[r].is # "NONE" => writes'[r] = writes[r]
      <4>1. session[s].record \in Record
        BY <2>6, Shapes DEF Insert
      <4>2. CASE writes[session[s].record].is = "NONE"
        BY <2>6, <4>1, <4>2 DEF Insert, Writes
      <4>3. CASE writes[session[s].record].is # "NONE"
        BY <2>6, <4>3 DEF Insert
      <4>. QED BY <4>2, <4>3
    <3>2. \A t \in Session : t # s => session'[t] = session[t]
      BY <2>6 DEF Insert, Onward
    <3>3. ~Retries(s)' /\ session'[s].pc \notin {"retry", "undo"}
      BY <2>6, Shapes DEF Insert, Onward
    <3>. QED BY <3>1, <3>2, <3>3
  <2>7. ASSUME NEW s \in Session,
               SyncLoad(s) \/ SyncRead(s) \/ SyncCommit(s) \/ UndoRead(s) \/ UndoRow(s)
                 \/ CancelCommit(s) \/ Crash(s)
        PROVE Fresh'
    BY <2>7 DEF SyncLoad, SyncRead, SyncCommit, UndoRead, UndoRow, CancelCommit, Crash
  <2>8. ASSUME NEW s \in Session, RetryCommit(s) PROVE Fresh'
    <3>1. \A r \in Record : writes[r].is # "RETRYABLE_FAILURE" => writes'[r] = writes[r]
      BY <2>8 DEF RetryCommit, Eligible
    <3>2. \A t \in Session : t # s => session'[t] = session[t] /\ session[t].pc # "retry"
      BY <2>8 DEF RetryCommit
    <3>3. session'[s].pc = "sync_load"
      BY <2>8 DEF RetryCommit
    <3>. QED BY <3>1, <3>2, <3>3
  <2>9. ASSUME NEW s \in Session, UndoCommit(s) PROVE Fresh'
    <3>1. \A r \in Record : \/ writes'[r] = writes[r]
                            \/ /\ writes[r].is \in {"SUCCESS", "ROLLED_BACK"}
                               /\ writes'[r].is = "ROLLED_BACK"
      BY <2>9 DEF UndoCommit, Writes
    <3>2. \A t \in Session : t # s => session'[t] = session[t]
      BY <2>9 DEF UndoCommit
    <3>3. session'[s].pc = "undo_read"
      BY <2>9 DEF UndoCommit
    <3>. QED BY <3>1, <3>2, <3>3
  <2>. QED BY <2>1, <2>2, <2>3, <2>4, <2>5, <2>6, <2>7, <2>8, <2>9 DEF Next
<1>. QED BY <1>1, <1>2, Typing, PTL DEF Spec

----------------------------------------------------------------------------
(* The refinement: each commit to the table is a step of Delivery.         *)
Effect == [r \in Record |-> EffectOf(writes[r].is)]

(* Records that all move from one status to another make a step of it.     *)
LEMMA Moves ==
  ASSUME NEW R \in SUBSET Record, NEW from, NEW to,
         \A r \in R : EffectOf(writes[r].is) = from /\ EffectOf(writes'[r].is) = to,
         \A r \in Record \ R : EffectOf(writes'[r].is) = EffectOf(writes[r].is)
  PROVE  D!Become(R, from, to)
BY DEF D!Become

(* The target implements Delivery: every record has one effect, in one     *)
(* direction (integration/service.py).                                     *)
THEOREM Implements == ASSUME Apart PROVE Spec => EachRecordIsDeliveredOnce
<1>1. Init => D!Init
  BY DEF Init, D!Init, EffectOf
<1>2. TypeOK /\ Fresh /\ [Next]_vars => [D!Next]_Effect
  <2> SUFFICES ASSUME TypeOK, Fresh, Next, writes' # writes PROVE D!Next
    BY DEF vars, Effect
  <2>1. PICK s \in Session : Insert(s) \/ RetryCommit(s) \/ UndoCommit(s)
    BY DEF Next, PushValid, Push, Check, Look, SyncLoad, SyncRead, SyncCommit,
       Retry, RetryLoad, Undo, UndoRead, UndoRow, Cancel, CancelCommit, Crash
  <2>2. CASE Insert(s)
    <3> DEFINE r == session[s].record
    <3>1. r \in Record /\ writes[r].is = "NONE"
      BY <2>2, Shapes DEF Insert
    <3>2. writes' = [writes EXCEPT ![r] = [is |-> Fate[r], tries |-> 0]]
      BY <2>2, <3>1 DEF Insert
    <3>3. writes'[r].is \in FateKinds /\ \A q \in Record \ {r} : writes'[q] = writes[q]
      BY <3>1, <3>2, FateAssumption DEF TypeOK, Writes
    <3> HIDE DEF r
    <3>4. PICK to \in {"held", "postponed", "refused"} : EffectOf(writes'[r].is) = to
      BY <3>3 DEF FateKinds, EffectOf
    <3>5. EffectOf(writes[r].is) = "none"
      BY <3>1 DEF EffectOf
    <3>6. D!Become({r}, "none", to)
      BY <3>1, <3>3, <3>4, <3>5, Moves
    <3>. QED BY <3>1, <3>6 DEF D!Next, D!Send
  <2>3. CASE RetryCommit(s)
    <3> DEFINE R == {r \in Record : Eligible(session[s].loaded[r])}
    <3>1. \A r \in R : writes[r].is = "RETRYABLE_FAILURE" /\ writes'[r].is = "SUCCESS"
      BY <2>3 DEF RetryCommit, Fresh, RetryIsFresh, Eligible
    <3>2. \A r \in Record \ R : writes'[r] = writes[r]
      BY <2>3 DEF RetryCommit
    <3> HIDE DEF R
    <3>3. R \in SUBSET Record
      BY DEF R
    <3>4. \A r \in R : EffectOf(writes[r].is) = "postponed" /\ EffectOf(writes'[r].is) = "held"
      BY <3>1 DEF EffectOf
    <3>5. D!Become(R, "postponed", "held")
      BY <3>2, <3>3, <3>4, Moves
    <3>. QED BY <3>3, <3>5 DEF D!Next, D!Retry
  <2>4. CASE UndoCommit(s)
    <3> DEFINE R == {r \in Record : session[s].loaded[r].is = "SUCCESS" /\ writes[r].is = "SUCCESS"}
    <3>1. \A r \in R : writes[r].is = "SUCCESS" /\ writes'[r].is = "ROLLED_BACK"
      BY <2>4 DEF UndoCommit, TypeOK, Writes
    <3>2. \A r \in Record \ R : writes'[r].is = writes[r].is
      BY <2>4 DEF UndoCommit, TypeOK, Writes, Fresh, UndoIsFresh
    <3> HIDE DEF R
    <3>3. R \in SUBSET Record
      BY DEF R
    <3>4. \A r \in R : EffectOf(writes[r].is) = "held" /\ EffectOf(writes'[r].is) = "undone"
      BY <3>1 DEF EffectOf
    <3>5. D!Become(R, "held", "undone")
      BY <3>2, <3>3, <3>4, Moves
    <3>. QED BY <3>3, <3>5 DEF D!Next, D!Undo
  <2>. QED BY <2>1, <2>2, <2>3, <2>4
<1>3. Spec => []TypeOK /\ []Fresh
  BY Typing, FreshInvariant, PTL
<1>. QED BY <1>1, <1>2, <1>3, PTL DEF Spec, EachRecordIsDeliveredOnce, D!Spec, Effect
=============================================================================
