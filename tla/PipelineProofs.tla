--------------------------- MODULE PipelineProofs ---------------------------
(* Proofs about the pipeline, for any requests in flight, any of the kinds *)
(* of request, and any number of lost sessions.                            *)
EXTENDS Pipeline, TLAPS

Plain == {"claimed", "load", "begin_read", "work", "count", "pause_read", "complete_read",
          "except", "enqueue", "undo_read"}
Copying == {"sync", "begin", "pause", "complete", "next", "settle", "fail", "decline",
            "cancel", "undo"}
AnyKind == RequestKinds \cup {"pass", "upload"}
AnyBy == {"agent", "sync"}
Jobs == {"NONE", "QUEUED", "RUNNING", "WAITING", "FAILED"}

(* What a session is known to hold where it stands. *)
LEMMA SessionIs ==
  ASSUME TypeOK, NEW s \in Session
  PROVE  /\ session[s] = Idle <=> session[s].pc = "idle"
         /\ session[s].pc \in Plain \cup Copying =>
              session[s].kind \in AnyKind /\ session[s].stage \in Stages /\ session[s].by \in AnyBy
         /\ session[s].pc \in Copying => session[s].copy \in Rows
         /\ session[s].pc \in {"idle", "hand_back"} \cup Plain \cup Copying
         /\ session[s].pc = "hand_back" => session[s].ends \in {"QUEUED", "WAITING", "FAILED"}
  BY DEF TypeOK, Served, Idle, HandingBack, Plain, Copying, AnyKind, AnyBy

LEMMA RecordsAreServed ==
  ASSUME NEW kind \in AnyKind, NEW stage \in Stages, NEW by \in AnyBy
  PROVE  /\ \A pc \in Plain : [pc |-> pc, kind |-> kind, stage |-> stage, by |-> by] \in Served
         /\ \A pc \in Copying : \A c \in Rows :
              [pc |-> pc, kind |-> kind, stage |-> stage, by |-> by, copy |-> c] \in Served
  BY DEF Served, Plain, Copying, AnyKind, AnyBy

PlainSessions == [pc : Plain, kind : AnyKind, stage : Stages, by : AnyBy]

LEMMA Restaging ==
  ASSUME NEW q \in PlainSessions, NEW stage \in Stages
  PROVE  /\ [q EXCEPT !.stage = stage, !.by = "sync"] \in Served
         /\ [q EXCEPT !.stage = stage, !.by = "sync"].pc = q.pc
<1>1. [q EXCEPT !.stage = stage, !.by = "sync"] \in PlainSessions
  BY DEF PlainSessions, AnyBy
<1>2. PlainSessions \subseteq Served
  BY DEF PlainSessions, Served, Plain, AnyKind, AnyBy
<1>3. [q EXCEPT !.stage = stage, !.by = "sync"].pc = q.pc
  BY DEF PlainSessions
<1>. QED BY <1>1, <1>2, <1>3

LEMMA HandingBackIsServed ==
  \A ends \in {"QUEUED", "WAITING", "FAILED"} : HandingBack(ends) \in Served
  BY DEF Served

(* The part of TypeOK that a session's step may disturb without the row.   *)
SessionsOK ==
  /\ session \in [Session -> {Idle} \cup Served]
  /\ jobStatus \in Jobs /\ owed \in BOOLEAN /\ missed \in BOOLEAN

LEMMA Going ==
  ASSUME TypeOK, NEW s \in Session, NEW q \in {Idle} \cup Served, Goto(s, q)
  PROVE  SessionsOK' /\ session'[s] = q
  BY DEF TypeOK, Goto, SessionsOK, Jobs, job

LEMMA Leaving ==
  ASSUME TypeOK, NEW s \in Session, NEW failed \in BOOLEAN, Leave(s, failed)
  PROVE  SessionsOK' /\ (session'[s] = Idle \/ \E ends \in {"QUEUED", "WAITING", "FAILED"} :
                                                   session'[s] = HandingBack(ends))
<1>1. CASE s # Pass
  BY <1>1, Going DEF Leave
<1>2. CASE s = Pass
  <2>1. PICK ends \in {"QUEUED", "WAITING", "FAILED"} :
          session' = [session EXCEPT ![s] = HandingBack(ends)]
    BY <1>2 DEF Leave
  <2>2. UNCHANGED <<jobStatus, owed, missed>>
    BY <1>2 DEF Leave, Queue!Finish
  <2>. QED BY <2>1, <2>2, HandingBackIsServed DEF TypeOK, SessionsOK, Jobs
<1>. QED BY <1>1, <1>2

LEMMA Entering ==
  ASSUME TypeOK, NEW s \in Session,
         NEW kind \in AnyKind, NEW stage \in Stages, NEW by \in AnyBy, NEW c \in Rows, NEW pc \in Copying,
         LET q == [pc |-> pc, kind |-> kind, stage |-> stage, by |-> by, copy |-> c]
         IN  EnterPush(s, q) \/ Return(s, q) \/ Enter(s, q)
  PROVE  SessionsOK'
<1> DEFINE q == [pc |-> pc, kind |-> kind, stage |-> stage, by |-> by, copy |-> c]
<1>1. At("begin_read", kind, "push") \in Served /\ At("begin_read", kind, c.current) \in Served
  BY RecordsAreServed DEF At, Rows, Stages, Plain, AnyBy
<1>2. With(q, "decline", c) \in Served
  BY RecordsAreServed DEF With, Copying
<1>3. ASSUME EnterPush(s, q) PROVE SessionsOK'
  BY <1>3, <1>1, <1>2, Leaving, Going DEF EnterPush
<1>4. ASSUME Return(s, q) PROVE SessionsOK'
  BY <1>3, <1>4, Leaving DEF Return
<1>5. ASSUME Enter(s, q) PROVE SessionsOK'
  BY <1>1, <1>3, <1>4, <1>5, Leaving, Going DEF Enter
<1>. QED BY <1>3, <1>4, <1>5

LEMMA Saving ==
  ASSUME TypeOK, NEW s \in Session, session[s].pc \in Copying, NEW new \in Rows, Save(s, new)
  PROVE  row' \in Rows
  BY SessionIs DEF Save, Write, Rows, TypeOK

LEMMA Putting ==
  ASSUME NEW c \in Rows, NEW s \in Stages, NEW is \in StageStatus, NEW by \in Writers
  PROVE  /\ Put(c, s, is, by) \in Rows
         /\ \A st \in RowStatus : Put([c EXCEPT !.status = st], s, is, by) \in Rows
         /\ \A st \in RowStatus : \A cur \in Stages :
              Put([c EXCEPT !.status = st, !.current = cur], s, is, by) \in Rows
  BY DEF Put, Entry, Rows
LEMMA Moves ==
  ASSUME TypeOK, NEW s \in Session, session[s].pc \in Plain \cup Copying
  PROVE  /\ \A pc \in Plain : Moved(s, pc) \in Served
         /\ \A pc \in Copying : Refreshed(s, pc) \in Served
         /\ \A pc \in Copying : \A c \in Rows : With(session[s], pc, c) \in Served
  BY SessionIs, RecordsAreServed DEF Moved, Without, Refreshed, With, TypeOK

----------------------------------------------------------------------------
(* The part of TypeOK that is neither the row nor a session's. *)
RestOK ==
  /\ mode \in Modes
  /\ workflow \in {"NONE", "PAUSED", "COMPLETED"}
  /\ records \in BOOLEAN
  /\ target \in Effects
  /\ crashes \in Nat
  /\ lost \subseteq {"enqueue", "push", "settle", "undo"}
  /\ unaware \subseteq Session

LEMMA Parts == TypeOK <=> row \in Rows /\ SessionsOK /\ RestOK
  BY DEF TypeOK, SessionsOK, RestOK, Jobs

LEMMA PartsNext == TypeOK' <=> (row \in Rows)' /\ SessionsOK' /\ RestOK'
  BY DEF TypeOK, SessionsOK, RestOK, Jobs

LEMMA SyncedIsARow ==
  ASSUME NEW c \in Rows, NEW held \in Effects PROVE Synced(c, held) \in Rows
<1>1. /\ "push" \in Stages /\ "target" \in Writers
      /\ {"FAILED", "ROLLED_BACK", "COMPLETED"} \subseteq StageStatus
      /\ {"PARTIAL_FAILURE", "ROLLED_BACK", "COMPLETED"} \subseteq RowStatus
  BY DEF Stages, Writers, StageStatus, RowStatus, Final
<1>2. CASE held = "FAILED"
  BY <1>1, <1>2, Putting DEF Synced
<1>3. CASE held = "UNDONE"
  BY <1>1, <1>3, Putting DEF Synced
<1>4. CASE held = "SENT"
  BY <1>1, <1>4, Putting DEF Synced
<1>5. CASE held = "NONE"
  BY <1>5 DEF Synced
<1>. QED BY <1>2, <1>3, <1>4, <1>5 DEF Effects

LEMMA AdvancedIsARow ==
  ASSUME NEW c \in Rows, NEW kind \in AnyKind, NEW stage \in Stages, NEW by \in AnyBy, NEW pc \in Copying
  PROVE  Advanced([pc |-> pc, kind |-> kind, stage |-> stage, by |-> by, copy |-> c]) \in Rows
<1> DEFINE q == [pc |-> pc, kind |-> kind, stage |-> stage, by |-> by, copy |-> c]
<1>1. Ready \in StageStatus /\ by \in Writers /\ "READY_TO_PUSH" \in StageStatus
  BY DEF Ready, StageStatus, Writers, AnyBy
<1>2. [c EXCEPT !.current = "review"] \in Rows /\ [c EXCEPT !.status = "COMPLETED"] \in Rows
  BY DEF Rows, Stages, RowStatus, Final
<1>3. [c EXCEPT !.current = "preview", !.status = IF by = "sync" THEN "ACTIVE" ELSE @] \in Rows
  BY DEF Rows, Stages, RowStatus
<1>4. [c EXCEPT !.current = "push", !.status = "AWAITING_PUSH_DECISION"] \in Rows
  BY DEF Rows, Stages, RowStatus
<1>5. CASE stage = "analyze"
  BY <1>1, <1>2, <1>5, Putting DEF Advanced, Stages
<1>6. CASE stage = "review"
  BY <1>1, <1>3, <1>6, Putting DEF Advanced, Stages
<1>7. CASE stage = "preview"
  BY <1>1, <1>4, <1>7, Putting DEF Advanced, Stages
<1>8. CASE stage = "push"
  BY <1>2, <1>8 DEF Advanced, Stages
<1>. QED BY <1>5, <1>6, <1>7, <1>8 DEF Stages

(* Every variable of the pipeline keeps its type: the row, the copy of it   *)
(* each session writes from, and the queue's flags (pipeline.py).           *)
THEOREM Typing == Spec => []TypeOK
<1>1. Init => TypeOK
  <2> SUFFICES ASSUME Init PROVE TypeOK
    OBVIOUS
  <2>1. InitialRow \in Rows
    BY DEF InitialRow, Rows, Entry, Ready, RowStatus, Stages, StageStatus, Writers
  <2>2. At("enqueue", "upload", "analyze") \in Served
    BY RecordsAreServed DEF At, Plain, AnyKind, AnyBy, Stages
  <2>. QED BY <2>1, <2>2 DEF Init, TypeOK, Effects
<1>2. TypeOK /\ [Next]_vars => TypeOK'
  <2> SUFFICES ASSUME TypeOK, [Next]_vars PROVE TypeOK'
    OBVIOUS
  <2>a. row \in Rows /\ SessionsOK /\ RestOK
    BY Parts
  <2>b. ASSUME NEW s \in Session
        PROVE  /\ session[s].pc \in Plain \cup Copying =>
                    session[s].kind \in AnyKind /\ session[s].stage \in Stages /\ session[s].by \in AnyBy
               /\ session[s].pc \in Copying => session[s].copy \in Rows
    BY SessionIs
  <2>1. CASE UNCHANGED vars
    BY <2>1 DEF vars, job, TypeOK
  <2>2. CASE ClaimPass
    <3>1. At("claimed", "pass", "analyze") \in Served
      BY RecordsAreServed DEF At, Plain, AnyKind, AnyBy, Stages
    <3>2. SessionsOK'
      BY <2>2, <2>a, <3>1 DEF ClaimPass, Queue!Claim, SessionsOK, Jobs
    <3>. QED BY <2>2, <2>a, <3>2, PartsNext DEF ClaimPass, RestOK
  <2>3. ASSUME NEW s \in Session, Open(s) PROVE TypeOK'
    <3>1. PICK kind \in RequestKinds :
            LET q == At("enqueue", kind, row.current)
            IN  Goto(s, IF kind = "run" THEN q
                        ELSE With(q, IF kind = "cancel" THEN "cancel" ELSE "sync", row))
      BY <2>3 DEF Open
    <3>2. At("enqueue", kind, row.current) \in Served
      BY <2>a, RecordsAreServed DEF At, Plain, AnyKind, AnyBy, Rows
    <3>3. \A pc \in {"cancel", "sync"} : With(At("enqueue", kind, row.current), pc, row) \in Served
      BY <2>a, RecordsAreServed DEF At, With, Copying, AnyKind, AnyBy, Rows
    <3>4. SessionsOK'
      BY <3>1, <3>2, <3>3, Going
    <3>. QED BY <2>3, <2>a, <3>4, PartsNext DEF Open, RestOK, Aware
  <2>4. ASSUME NEW s \in Session, Resolve(s) \/ Undo(s) PROVE TypeOK'
    <3>1. At("enqueue", "resolve", row.current) \in Served /\ At("undo_read", "undo", "push") \in Served
      BY <2>a, RecordsAreServed DEF At, Plain, AnyKind, AnyBy, Rows, RequestKinds, Stages
    <3>2. SessionsOK'
      BY <2>4, <3>1, Going DEF Resolve, Undo
    <3>. QED BY <2>4, <2>a, <3>2, PartsNext DEF Resolve, Undo, RestOK, Effects
  <2>5. ASSUME NEW s \in Session, Guide(s) PROVE TypeOK'
    <3>1. At("enqueue", "guide", row.current) \in Served
      BY <2>a, RecordsAreServed DEF At, Plain, AnyKind, AnyBy, Rows, RequestKinds
    <3>2. SessionsOK'
      <4>1. CASE UNCHANGED <<session, job>>
        BY <4>1, <2>a DEF SessionsOK, job
      <4>2. CASE Goto(s, At("enqueue", "guide", row.current))
        BY <4>2, <3>1, Going
      <4>. QED BY <2>5, <4>1, <4>2 DEF Guide
    <3>3. (row \in Rows)' /\ RestOK'
      <4>1. CASE PushValid /\ UNCHANGED <<workflow, records, mode, crashes, lost, unaware>>
        <5>1. target' \in Effects
          BY <4>1, <2>a DEF PushValid, RestOK, Effects
        <5>. QED BY <4>1, <5>1, <2>a, SyncedIsARow DEF PushValid, RestOK
      <4>2. CASE UNCHANGED <<row, target>> /\ ~PushValid
        BY <2>5, <4>2, <2>a DEF Guide, Transforms, RestOK
      <4>. QED BY <2>5, <4>1, <4>2, <2>a DEF Guide, Transforms, RestOK
    <3>. QED BY <3>2, <3>3, PartsNext
  <2>6. ASSUME NEW s \in Session, StartPass(s) PROVE TypeOK'
    <3>1. Moved(s, "load") \in Served
      BY <2>6, Moves DEF StartPass, Plain
    <3>2. SessionsOK'
      BY <2>6, <3>1, <2>a DEF StartPass, Queue!Begin, SessionsOK
    <3>. QED BY <2>6, <3>2, <2>a, PartsNext DEF StartPass, RestOK
  <2>7. ASSUME NEW s \in Session, HandBack(s) PROVE TypeOK'
    <3>1. jobStatus' \in Jobs /\ UNCHANGED <<owed, missed>>
      BY <2>7 DEF HandBack, Queue!HandBack, Queue!HandedBack, Jobs
    <3>. QED BY <2>7, <3>1, <2>a, PartsNext DEF HandBack, RestOK, SessionsOK
  <2>8. ASSUME NEW s \in Session, Enqueue(s) PROVE TypeOK'
    <3>1. jobStatus' \in Jobs /\ owed' \in BOOLEAN /\ missed' \in BOOLEAN
      BY <2>8, <2>a DEF Enqueue, Queue!Ask, Jobs, SessionsOK, job
    <3>. QED BY <2>8, <3>1, <2>a, PartsNext DEF Enqueue, RestOK, SessionsOK
  <2>9. ASSUME NEW s \in Session,
               LoadPass(s) \/ BeginRead(s) \/ PauseRead(s) \/ CompleteRead(s) \/ Except(s)
        PROVE TypeOK'
    <3>1. session[s].pc \in Plain
      BY <2>9 DEF LoadPass, BeginRead, PauseRead, CompleteRead, Except, Plain
    <3>2. SessionsOK'
      BY <2>9, <3>1, Moves, Leaving, Going
      DEF LoadPass, BeginRead, PauseRead, CompleteRead, Except, Plain, Copying
    <3>. QED BY <2>9, <3>2, <2>a, PartsNext
         DEF LoadPass, BeginRead, PauseRead, CompleteRead, Except, RestOK, Aware
  <2>10. ASSUME NEW s \in Session, Sync(s) PROVE TypeOK'
    <3> DEFINE q == session[s]
    <3>1. q.pc = "sync" /\ q.kind \in AnyKind /\ q.stage \in Stages /\ q.by \in AnyBy /\ q.copy \in Rows
      BY <2>10, <2>b DEF Sync, Copying
    <3>2. q = [pc |-> q.pc, kind |-> q.kind, stage |-> q.stage, by |-> q.by, copy |-> q.copy]
      BY <3>1, <2>a DEF SessionsOK, Served, Idle, HandingBack
    <3>3. [Moved(s, "complete_read") EXCEPT !.stage = q.copy.current, !.by = "sync"] \in Served
      <4>1. q.copy.current \in Stages
        BY <3>1 DEF Rows
      <4>2. Moved(s, "complete_read") \in PlainSessions
        BY <3>1 DEF Moved, Without, PlainSessions, Plain
      <4>. QED BY <4>1, <4>2, Restaging
    <3>4. ASSUME Enter(s, q) PROVE SessionsOK'
      <4>1. "sync" \in Copying
        BY DEF Copying
      <4> HIDE DEF q
      <4>. QED BY <3>1, <3>2, <3>4, <4>1, Entering
    <3>5. SessionsOK'
      BY <2>10, <3>3, <3>4, Going DEF Sync
    <3>. QED BY <2>10, <3>5, <2>a, PartsNext DEF Sync, RestOK
  <2>11. ASSUME NEW s \in Session,
                Analyze(s) \/ Review(s) \/ Preview(s) \/ Count(s) \/ Raise(s)
         PROVE TypeOK'
    <3>1. session[s].pc \in Plain
      BY <2>11 DEF Analyze, Review, Preview, Count, Raise, Plain
    <3>2. SessionsOK'
      BY <2>11, <3>1, Moves, Going DEF Analyze, Review, Preview, Count, Raise, Plain
    <3>3. RestOK'
      BY <2>11, <2>a DEF Analyze, Review, Preview, Transforms, Count, Raise, RestOK
    <3>. QED BY <2>11, <3>2, <3>3, <2>a, PartsNext DEF Analyze, Review, Preview, Count, Raise
  <2>12. ASSUME NEW s \in Session, Push(s) PROVE TypeOK'
    <3>1. session[s].pc \in Plain
      BY <2>12 DEF Push, Plain
    <3>2. SessionsOK'
      BY <2>12, <3>1, Moves, Going DEF Push, Plain
    <3>3. target' \in Effects
      BY <2>12, <2>a DEF Push, PushValid, RestOK, Effects
    <3>4. row' \in Rows
      BY <2>12, <3>3, <2>a, SyncedIsARow DEF Push, PushValid
    <3>. QED BY <2>12, <3>2, <3>3, <3>4, <2>a, PartsNext DEF Push, RestOK
  <2>13. ASSUME NEW s \in Session,
                Begin(s) \/ Pause(s) \/ Complete(s) \/ Decline(s) \/ UndoWrite(s)
         PROVE TypeOK'
    <3>1. session[s].pc \in Copying /\ session[s].copy \in Rows
      BY <2>13, <2>b DEF Begin, Pause, Complete, Decline, UndoWrite, Copying
    <3>2. session[s].stage \in Stages /\ session[s].by \in Writers
      BY <3>1, <2>b DEF AnyBy, Writers
    <3>3. PICK new \in Rows : /\ Save(s, new)
                              /\ Complete(s) => session' = [session EXCEPT ![s] = With(session[s], "next", new)]
      <4>a. /\ "push" \in Stages /\ {"agent", "reviewer"} \subseteq Writers
            /\ {"RUNNING", "NEEDS_REVIEW", "SKIPPED", "ROLLED_BACK"} \subseteq StageStatus
            /\ {"ACTIVE", "PAUSED", "COMPLETED_WITHOUT_PUSH", "ROLLED_BACK"} \subseteq RowStatus
        BY DEF Stages, Writers, StageStatus, RowStatus, Final
      <4>1. CASE Complete(s)
        BY <4>1, <3>1, <3>2, Putting DEF Complete, Goto, StageStatus
      <4>2. ~Begin(s) \/ ~Complete(s)
        BY DEF Begin, Complete
      <4>3. CASE Begin(s)
        BY <4>a, <4>2, <4>3, <3>1, <3>2, Putting DEF Begin
      <4>4. CASE Pause(s) /\ ~Complete(s)
        BY <4>a, <4>4, <3>1, <3>2, Putting DEF Pause
      <4>5. CASE Decline(s) /\ ~Complete(s)
        BY <4>a, <4>5, <3>1, Putting DEF Decline
      <4>6. CASE UndoWrite(s) /\ ~Complete(s)
        BY <4>a, <4>6, <3>1, Putting DEF UndoWrite
      <4>. QED BY <2>13, <4>1, <4>3, <4>4, <4>5, <4>6
    <3>4. row' \in Rows
      BY <3>1, <3>3, Saving
    <3>5. SessionsOK'
      <4>1. CASE Complete(s)
        <5>1. With(session[s], "next", new) \in Served
          BY <3>1, Moves DEF Copying
        <5>. QED BY <4>1, <3>3, <5>1, <2>a DEF Complete, Goto, SessionsOK, job
      <4>2. CASE ~Complete(s)
        BY <4>2, <2>13, <3>1, Moves, Leaving, Going DEF Begin, Pause, Decline, UndoWrite, Plain
      <4>. QED BY <4>1, <4>2
    <3>. QED BY <2>13, <3>4, <3>5, <2>a, PartsNext
         DEF Begin, Pause, Complete, Decline, UndoWrite, RestOK
  <2>14. ASSUME NEW s \in Session, AdvanceStage(s) PROVE TypeOK'
    <3> DEFINE new == Advanced(session[s])
               q == With(session[s], "settle", new)
    <3>1. /\ session[s].pc = "next" /\ session[s].copy \in Rows
          /\ session[s].kind \in AnyKind /\ session[s].stage \in Stages /\ session[s].by \in AnyBy
      BY <2>14, <2>b DEF AdvanceStage, Copying
    <3>2. session[s] = [pc |-> session[s].pc, kind |-> session[s].kind, stage |-> session[s].stage,
                        by |-> session[s].by, copy |-> session[s].copy]
      BY <3>1, <2>a DEF SessionsOK, Served, Idle, HandingBack
    <3>3. new \in Rows
      BY <3>1, <3>2, AdvancedIsARow DEF Copying
    <3> HIDE DEF new
    <3>4. q = [pc |-> "settle", kind |-> session[s].kind, stage |-> session[s].stage,
               by |-> session[s].by, copy |-> new]
      BY DEF With
    <3>5. /\ q \in Served
          /\ At("begin_read", q.kind, q.copy.current) \in Served
      <4>1. new.current \in Stages /\ q.kind \in AnyKind /\ q.copy.current = new.current
        BY <3>1, <3>3, <3>4 DEF Rows
      <4>2. q \in Served
        BY <3>1, <3>3, <3>4, RecordsAreServed DEF Copying
      <4> HIDE DEF q
      <4>3. At("begin_read", q.kind, q.copy.current)
              = [pc |-> "begin_read", kind |-> q.kind, stage |-> new.current, by |-> "agent"]
        BY <4>1 DEF At
      <4>. QED BY <4>1, <4>2, <4>3, RecordsAreServed DEF Plain, AnyBy
    <3>6. /\ Save(s, q.copy)
          /\ CASE q.by = "sync" -> Enter(s, q)
               [] q.by = "agent" /\ q.stage = "push" -> Goto(s, q)
               [] q.by = "agent" /\ q.stage = "preview" -> Return(s, q)
               [] q.by = "agent" /\ q.stage \in {"analyze", "review"} ->
                    IF mode = "HUMAN_IN_LOOP" THEN Leave(s, FALSE)
                    ELSE Goto(s, At("begin_read", q.kind, q.copy.current))
      BY <2>14 DEF AdvanceStage, new
    <3>7. row' \in Rows
      BY <3>1, <3>3, <3>4, <3>6, Saving DEF Copying
    <3> HIDE DEF q
    <3>8. ASSUME Enter(s, q) \/ Return(s, q) PROVE SessionsOK'
      <4>1. "settle" \in Copying
        BY DEF Copying
      <4>. QED BY <3>1, <3>3, <3>4, <3>8, <4>1, Entering
    <3>9. q.by \in AnyBy /\ q.stage \in Stages
      BY <3>1, <3>4
    <3>10. \/ Enter(s, q) \/ Return(s, q) \/ Goto(s, q) \/ Leave(s, FALSE)
           \/ Goto(s, At("begin_read", q.kind, q.copy.current))
      BY <3>6, <3>9 DEF AnyBy, Stages
    <3>11. SessionsOK'
      BY <3>5, <3>8, <3>10, Leaving, Going
    <3>. QED BY <2>14, <3>7, <3>11, <2>a, PartsNext DEF AdvanceStage, RestOK
  <2>15. ASSUME NEW s \in Session, Settle(s) PROVE TypeOK'
    <3>1. session[s].pc \in Copying /\ session[s].copy \in Rows
      BY <2>15, <2>b DEF Settle, Copying
    <3>2. row' \in Rows
      BY <2>15, <3>1, <2>a, SyncedIsARow, Saving DEF Settle, RestOK
    <3>3. SessionsOK'
      BY <2>15, Leaving DEF Settle
    <3>. QED BY <2>15, <3>2, <3>3, <2>a, PartsNext DEF Settle, RestOK
  <2>16. ASSUME NEW s \in Session, Fail(s) PROVE TypeOK'
    <3>1. session[s].pc \in Copying /\ session[s].copy \in Rows
      BY <2>16, <2>b DEF Fail, Copying
    <3>2. (IF session[s].stage = "push" THEN "push" ELSE session[s].copy.current) \in Stages
      BY <3>1 DEF Rows, Stages
    <3>3. Put([session[s].copy EXCEPT !.status = "FAILED"],
              IF session[s].stage = "push" THEN "push" ELSE session[s].copy.current,
              "FAILED", "agent") \in Rows
      BY <3>1, <3>2, Putting DEF StageStatus, Writers, RowStatus
    <3>4. row' \in Rows
      BY <2>16, <3>1, <3>3, Saving DEF Fail
    <3>5. SessionsOK'
      BY <2>16, Leaving DEF Fail
    <3>. QED BY <2>16, <3>4, <3>5, <2>a, PartsNext DEF Fail, RestOK
  <2>17. ASSUME NEW s \in Session, Cancel(s) PROVE TypeOK'
    <3>1. session[s].pc \in Copying /\ session[s].copy \in Rows
      BY <2>17, <2>b DEF Cancel, Copying
    <3>2. Skipped(session[s].copy) \in Rows
      BY <3>1 DEF Skipped, Rows, RowStatus, Final, Entry, StageStatus, Writers
    <3>3. row' \in Rows
      BY <2>17, <3>1, <3>2, Saving DEF Cancel
    <3>4. SessionsOK'
      BY <2>17, Leaving DEF Cancel
    <3>. QED BY <2>17, <3>3, <3>4, <2>a, PartsNext DEF Cancel, RestOK
  <2>18. ASSUME NEW s \in Session, UndoRead(s) PROVE TypeOK'
    <3>1. SessionsOK'
      BY <2>18, Moves, Going DEF UndoRead, Plain, Copying
    <3>. QED BY <2>18, <3>1, <2>a, PartsNext DEF UndoRead, RestOK
  <2>19. ASSUME NEW s \in Session, Crash(s) PROVE TypeOK'
    <3>1. UNCHANGED <<jobStatus, owed, missed>>
      BY <2>19 DEF Crash, Queue!Lose, job
    <3>2. SessionsOK'
      BY <2>19, <3>1, <2>a DEF Crash, SessionsOK
    <3>3. LeftUndone(session[s]) \subseteq {"enqueue", "push", "settle", "undo"}
      <4>1. LeftUndone(session[s]) \in {{"enqueue"}, {"undo"}, {"settle"}, {"push"}, {}}
        BY DEF LeftUndone
      <4>. QED BY <4>1
    <3>4. RestOK'
      <4>1. /\ UNCHANGED <<mode, workflow, records, target>>
            /\ crashes' = crashes + 1
            /\ lost' = lost \cup LeftUndone(session[s])
            /\ unaware' = unaware \ {s}
        BY <2>19 DEF Crash, Aware
      <4>2. lost' \subseteq {"enqueue", "push", "settle", "undo"}
        BY <4>1, <3>3, <2>a DEF RestOK
      <4>3. unaware' \subseteq Session /\ crashes' \in Nat
        BY <4>1, <2>a DEF RestOK
      <4>. QED BY <4>1, <4>2, <4>3, <2>a DEF RestOK
    <3>. QED BY <2>19, <3>2, <3>4, <2>a, PartsNext DEF Crash
  <2>. QED
    BY <2>1, <2>2, <2>3, <2>4, <2>5, <2>6, <2>7, <2>8, <2>9, <2>10, <2>11, <2>12, <2>13,
       <2>14, <2>15, <2>16, <2>17, <2>18, <2>19
    DEF Next, Step
<1>. QED BY <1>1, <1>2, PTL DEF Spec
----------------------------------------------------------------------------
(* A stop.  Between its check of the status and its commit a session does  *)
(* not see a stop that came in between; those that are there when it is    *)
(* committed are in `unaware`.  A decline that has loaded a stopped row is *)
(* not, since it will be refused.                                          *)
Known(s) == \/ s \in unaware
            \/ session[s].pc = "sync" /\ session[s].copy.status = "CANCELLED"

StopIsKnown ==
  row.status = "CANCELLED" => \A s \in Session : BetweenCheckAndWrite(s) => Known(s)

Committing == {"begin", "pause", "complete", "next", "settle", "fail", "decline"}

LEMMA Elsewhere ==
  ASSUME TypeOK, NEW s \in Session, NEW q, Goto(s, q)
  PROVE  session'[s] = q /\ \A t \in Session \ {s} : session'[t] = session[t]
  BY DEF TypeOK, Goto

LEMMA LeavingElsewhere ==
  ASSUME TypeOK, NEW s \in Session, NEW failed \in BOOLEAN, Leave(s, failed)
  PROVE  /\ session'[s].pc \in {"idle", "hand_back"}
         /\ \A t \in Session \ {s} : session'[t] = session[t]
<1>1. CASE s # Pass
  BY <1>1, Elsewhere DEF Leave, Idle
<1>2. CASE s = Pass
  BY <1>2 DEF Leave, TypeOK, HandingBack
<1>. QED BY <1>1, <1>2

(* Where Enter leads a session with a copy c: to a decline only if the     *)
(* copy is not stopped.                                                    *)
LEMMA EnteringElsewhere ==
  ASSUME TypeOK, NEW s \in Session, NEW q,
         EnterPush(s, q) \/ Return(s, q) \/ Enter(s, q)
  PROVE  /\ \/ session'[s].pc \in {"idle", "hand_back", "begin_read"}
            \/ /\ session'[s].pc = "decline" /\ session'[s].copy = q.copy
               /\ q.kind = "decline" /\ q.copy.status # "CANCELLED"
         /\ session'[s].pc = "begin_read" => session'[s].by = "agent"
         /\ \A t \in Session \ {s} : session'[t] = session[t]
<1> DEFINE Led == /\ \/ session'[s].pc \in {"idle", "hand_back", "begin_read"}
                     \/ /\ session'[s].pc = "decline" /\ session'[s].copy = q.copy
                        /\ q.kind = "decline" /\ q.copy.status # "CANCELLED"
                  /\ session'[s].pc = "begin_read" => session'[s].by = "agent"
                  /\ \A t \in Session \ {s} : session'[t] = session[t]
<1>1. ASSUME NEW failed \in BOOLEAN, Leave(s, failed) PROVE Led
  BY <1>1, LeavingElsewhere
<1>2. ASSUME NEW stage, Goto(s, At("begin_read", q.kind, stage)) PROVE Led
  BY <1>2, Elsewhere DEF At
<1>3. ASSUME EnterPush(s, q) PROVE Led
  <2>1. CASE /\ q.copy.status # "CANCELLED" /\ q.kind = "decline"
             /\ Goto(s, With(q, "decline", q.copy))
    BY <2>1, Elsewhere DEF With
  <2>. QED BY <1>1, <1>2, <1>3, <2>1 DEF EnterPush
<1>4. ASSUME Return(s, q) PROVE Led
  BY <1>1, <1>3, <1>4 DEF Return
<1>5. ASSUME Enter(s, q) PROVE Led
  BY <1>1, <1>2, <1>3, <1>4, <1>5 DEF Enter
<1>. QED BY <1>3, <1>4, <1>5

(* A commit writes CANCELLED only if its session does. *)
LEMMA SavedStatus ==
  ASSUME NEW s \in Session, NEW new, Save(s, new)
  PROVE  /\ row'.status = IF new.status = session[s].copy.status THEN row.status ELSE new.status
         /\ new.status \in {session[s].copy.status} \cup (RowStatus \ {"CANCELLED"}) =>
              (row'.status = "CANCELLED" => row.status = "CANCELLED")
  BY DEF Save, Write

LEMMA SyncedStatus ==
  ASSUME NEW c \in Rows, NEW held \in Effects
  PROVE  Synced(c, held).status \in {c.status, "PARTIAL_FAILURE", "ROLLED_BACK", "COMPLETED"}
  BY DEF Synced, Effects, Put, Rows

LEMMA PushingStatus ==
  ASSUME TypeOK, PushValid
  PROVE  row.status # "CANCELLED" /\ row'.status # "CANCELLED"
<1>1. row.status # "CANCELLED" /\ row \in Rows /\ target' \in Effects
  BY DEF PushValid, Accepts, TypeOK, Effects
<1>. QED BY <1>1, SyncedStatus DEF PushValid

(* The status each commit leaves. *)
Committed(s) == Begin(s) \/ Pause(s) \/ Complete(s) \/ Settle(s) \/ Fail(s) \/ Decline(s)
                  \/ Cancel(s) \/ UndoWrite(s)

LEMMA CommittedStatus ==
  ASSUME TypeOK, NEW s \in Session
  PROVE  /\ Begin(s) => row'.status \in {row.status, "ACTIVE"}
         /\ Pause(s) => row'.status \in {row.status, "PAUSED"}
         /\ Complete(s) => row'.status = row.status
         /\ Settle(s) => row'.status \in {row.status, "PARTIAL_FAILURE", "ROLLED_BACK", "COMPLETED"}
         /\ Fail(s) => row'.status \in {row.status, "FAILED"}
         /\ Decline(s) => row'.status \in {row.status, "COMPLETED_WITHOUT_PUSH"}
         /\ Cancel(s) => row'.status \in {row.status, "CANCELLED"}
         /\ UndoWrite(s) => row'.status \in {row.status, "ROLLED_BACK"}
<1>a. Committed(s) => /\ session[s].copy \in Rows /\ session[s].stage \in Stages
                      /\ session[s].copy.current \in Stages
  <2>1. Committed(s) => session[s].pc \in Copying
    BY DEF Committed, Begin, Pause, Complete, Settle, Fail, Decline, Cancel, UndoWrite, Copying
  <2>. QED BY <2>1, SessionIs DEF Rows
<1>1. ASSUME Begin(s) PROVE row'.status \in {row.status, "ACTIVE"}
  <2> DEFINE new == Put([session[s].copy EXCEPT !.status = "ACTIVE"],
                        session[s].stage, "RUNNING", "agent")
  <2>1. new.status = "ACTIVE"
    BY <1>1, <1>a DEF Begin, Committed, Put, Rows, Stages
  <2>2. Save(s, new)
    BY <1>1 DEF Begin
  <2> HIDE DEF new
  <2>. QED BY <2>1, <2>2, SavedStatus
<1>2. ASSUME Pause(s) PROVE row'.status \in {row.status, "PAUSED"}
  <2> DEFINE new == Put([session[s].copy EXCEPT !.status = "PAUSED"],
                        session[s].stage, "NEEDS_REVIEW", "agent")
  <2>1. new.status = "PAUSED"
    BY <1>2, <1>a DEF Pause, Committed, Put, Rows, Stages
  <2>2. Save(s, new)
    BY <1>2 DEF Pause
  <2> HIDE DEF new
  <2>. QED BY <2>1, <2>2, SavedStatus
<1>3. ASSUME Complete(s) PROVE row'.status = row.status
  <2> DEFINE new == Put(session[s].copy, session[s].stage, "COMPLETED", session[s].by)
  <2>1. new.status = session[s].copy.status
    BY <1>3, <1>a DEF Complete, Committed, Put, Rows
  <2>2. Save(s, new)
    BY <1>3 DEF Complete
  <2> HIDE DEF new
  <2>. QED BY <2>1, <2>2, SavedStatus
<1>4. ASSUME Settle(s)
      PROVE  row'.status \in {row.status, "PARTIAL_FAILURE", "ROLLED_BACK", "COMPLETED"}
  <2>1. Synced(session[s].copy, target).status
          \in {session[s].copy.status, "PARTIAL_FAILURE", "ROLLED_BACK", "COMPLETED"}
    BY <1>4, <1>a, SyncedStatus DEF Committed, TypeOK
  <2>2. Save(s, Synced(session[s].copy, target))
    BY <1>4 DEF Settle
  <2>. QED BY <2>1, <2>2, SavedStatus
<1>5. ASSUME Fail(s) PROVE row'.status \in {row.status, "FAILED"}
  <2> DEFINE new == Put([session[s].copy EXCEPT !.status = "FAILED"],
                        IF session[s].stage = "push" THEN "push" ELSE session[s].copy.current,
                        "FAILED", "agent")
  <2>1. new.status = "FAILED"
    BY <1>5, <1>a DEF Fail, Committed, Put, Rows, Stages
  <2>2. Save(s, new)
    BY <1>5 DEF Fail
  <2> HIDE DEF new
  <2>. QED BY <2>1, <2>2, SavedStatus
<1>6. ASSUME Decline(s) PROVE row'.status \in {row.status, "COMPLETED_WITHOUT_PUSH"}
  <2> DEFINE new == Put([session[s].copy EXCEPT !.status = "COMPLETED_WITHOUT_PUSH"],
                        "push", "SKIPPED", "reviewer")
  <2>1. new.status = "COMPLETED_WITHOUT_PUSH"
    BY <1>6, <1>a DEF Decline, Committed, Put, Rows, Stages
  <2>2. Save(s, new)
    BY <1>6 DEF Decline
  <2> HIDE DEF new
  <2>. QED BY <2>1, <2>2, SavedStatus
<1>7. ASSUME Cancel(s) PROVE row'.status \in {row.status, "CANCELLED"}
  <2>1. Skipped(session[s].copy).status = "CANCELLED"
    BY <1>7, <1>a DEF Skipped, Rows, Committed
  <2>2. Save(s, Skipped(session[s].copy))
    BY <1>7 DEF Cancel
  <2>. QED BY <2>1, <2>2, SavedStatus
<1>8. ASSUME UndoWrite(s) PROVE row'.status \in {row.status, "ROLLED_BACK"}
  <2> DEFINE new == Put([session[s].copy EXCEPT !.status = "ROLLED_BACK"],
                        "push", "ROLLED_BACK", "reviewer")
  <2>1. new.status = "ROLLED_BACK"
    BY <1>8, <1>a DEF UndoWrite, Committed, Put, Rows, Stages
  <2>2. Save(s, new)
    BY <1>8 DEF UndoWrite
  <2> HIDE DEF new
  <2>. QED BY <2>1, <2>2, SavedStatus
<1>. QED BY <1>1, <1>2, <1>3, <1>4, <1>5, <1>6, <1>7, <1>8

LEMMA KnownStays ==
  ASSUME TypeOK, StopIsKnown, NEW s \in Session,
         row'.status = "CANCELLED" => row.status = "CANCELLED",
         \A t \in Session \ {s} : session'[t] = session[t] /\ (t \in unaware => t \in unaware'),
         row'.status = "CANCELLED" =>
           (session'[s].pc \in Committing \/ session'[s].pc = "sync" => Known(s)')
  PROVE  StopIsKnown'
<1> SUFFICES ASSUME row'.status = "CANCELLED", NEW t \in Session, BetweenCheckAndWrite(t)'
             PROVE Known(t)'
  BY DEF StopIsKnown
<1>1. CASE t = s
  BY <1>1 DEF BetweenCheckAndWrite, Committing
<1>2. CASE t # s
  BY <1>2 DEF BetweenCheckAndWrite, StopIsKnown, Known
<1>. QED BY <1>1, <1>2

LEMMA StopIsKnownInvariant == Spec => []StopIsKnown
<1>1. Init => StopIsKnown
  BY DEF Init, InitialRow, StopIsKnown
<1>2. TypeOK /\ StopIsKnown /\ [Next]_vars => StopIsKnown'
  <2> SUFFICES ASSUME TypeOK, StopIsKnown, [Next]_vars PROVE StopIsKnown'
    OBVIOUS
  <2>a. row \in Rows /\ target \in Effects /\ session \in [Session -> {Idle} \cup Served]
    BY DEF TypeOK
  <2>b. ASSUME NEW s \in Session, row.status = "CANCELLED", session[s].pc \in Committing
        PROVE s \in unaware
    BY <2>b DEF StopIsKnown, BetweenCheckAndWrite, Known, Committing
  <2>1. CASE UNCHANGED vars
    BY <2>1 DEF vars, StopIsKnown, BetweenCheckAndWrite, Known
  <2>2. CASE ClaimPass
    <3>1. /\ session'[Pass].pc = "claimed"
          /\ \A t \in Session \ {Pass} : session'[t] = session[t]
          /\ UNCHANGED <<row, unaware>>
      BY <2>2, <2>a DEF ClaimPass, At, Session
    <3>. QED BY <3>1, KnownStays DEF Committing, Session
  <2>3. ASSUME NEW s \in Session, Open(s) PROVE StopIsKnown'
    <3>1. PICK kind \in RequestKinds :
            LET q == At("enqueue", kind, row.current)
            IN  Goto(s, IF kind = "run" THEN q
                        ELSE With(q, IF kind = "cancel" THEN "cancel" ELSE "sync", row))
      BY <2>3 DEF Open
    <3>2. UNCHANGED row /\ unaware' = unaware \ {s}
      BY <2>3 DEF Open, Aware
    <3>3. /\ session'[s].pc \in {"enqueue", "cancel", "sync"}
          /\ session'[s].pc = "sync" => session'[s].copy = row
          /\ \A t \in Session \ {s} : session'[t] = session[t]
      BY <3>1, Elsewhere DEF At, With
    <3>. QED BY <3>2, <3>3, KnownStays DEF Committing, Known
  <2>4. ASSUME NEW s \in Session,
               Resolve(s) \/ Undo(s) \/ Analyze(s) \/ Review(s) \/ Preview(s) \/ Count(s) \/ Raise(s)
        PROVE StopIsKnown'
    <3>1. UNCHANGED <<row, unaware>>
      BY <2>4 DEF Resolve, Undo, Analyze, Review, Preview, Count, Raise
    <3>2. /\ session'[s].pc \in Plain
          /\ \A t \in Session \ {s} : session'[t] = session[t]
      BY <2>4, Elsewhere DEF Resolve, Undo, Analyze, Review, Preview, Count, Raise, At, Moved,
         Without, Plain
    <3>. QED BY <3>1, <3>2, KnownStays DEF Committing, Plain
  <2>5. ASSUME NEW s \in Session, Guide(s) PROVE StopIsKnown'
    <3>1. \/ UNCHANGED session
          \/ session'[s].pc = "enqueue" /\ \A t \in Session \ {s} : session'[t] = session[t]
      BY <2>5, Elsewhere DEF Guide, At
    <3>2. UNCHANGED unaware /\ (UNCHANGED row \/ PushValid)
      BY <2>5 DEF Guide
    <3>3. row'.status = "CANCELLED" => row.status = "CANCELLED"
      BY <3>2, PushingStatus
    <3>4. session[s] = Idle
      BY <2>5 DEF Guide
    <3>. QED BY <3>1, <3>2, <3>3, <3>4, KnownStays DEF Committing, Idle
  <2>6. ASSUME NEW s \in Session, StartPass(s) \/ HandBack(s) \/ Enqueue(s) \/ Crash(s)
        PROVE StopIsKnown'
    <3>1. /\ session'[s].pc \in {"load", "idle"}
          /\ \A t \in Session \ {s} : session'[t] = session[t]
      BY <2>6, <2>a DEF StartPass, HandBack, Enqueue, Crash, Idle, Moved, Without
    <3>2. UNCHANGED row /\ unaware \ {s} \subseteq unaware'
      BY <2>6 DEF StartPass, HandBack, Enqueue, Crash, Aware
    <3>. QED BY <3>1, <3>2, KnownStays DEF Committing
  <2>7. ASSUME NEW s \in Session,
               LoadPass(s) \/ BeginRead(s) \/ PauseRead(s) \/ CompleteRead(s) \/ Except(s) \/ UndoRead(s)
        PROVE StopIsKnown'
    <3>1. UNCHANGED row /\ unaware \ {s} \subseteq unaware'
      BY <2>7 DEF LoadPass, BeginRead, PauseRead, CompleteRead, Except, UndoRead, Aware
    <3>2. \A t \in Session \ {s} : session'[t] = session[t]
      BY <2>7, LeavingElsewhere, Elsewhere
      DEF LoadPass, BeginRead, PauseRead, CompleteRead, Except, UndoRead
    <3>3. row.status = "CANCELLED" => session'[s].pc \in {"idle", "hand_back", "except", "undo"}
      <4> SUFFICES ASSUME row.status = "CANCELLED"
                   PROVE session'[s].pc \in {"idle", "hand_back", "except", "undo"}
        OBVIOUS
      <4>1. Moved(s, "except").pc = "except" /\ Refreshed(s, "undo").pc = "undo"
        BY DEF Moved, Without, Refreshed, With
      <4>2. \/ Leave(s, FALSE) \/ Leave(s, TRUE)
            \/ Goto(s, Moved(s, "except")) \/ Goto(s, Refreshed(s, "undo"))
        BY <2>7 DEF LoadPass, BeginRead, PauseRead, CompleteRead, Except, UndoRead, Final
      <4>. QED BY <4>1, <4>2, LeavingElsewhere, Elsewhere
    <3>. QED BY <3>1, <3>2, <3>3, KnownStays DEF Committing
  <2>8. ASSUME NEW s \in Session, Sync(s) PROVE StopIsKnown'
    <3>1. UNCHANGED <<row, unaware>> /\ session[s].pc = "sync"
      BY <2>8 DEF Sync
    <3>2. CASE Goto(s, [Moved(s, "complete_read") EXCEPT !.stage = session[s].copy.current,
                                                         !.by = "sync"])
      <4>1. session'[s].pc = "complete_read" /\ \A t \in Session \ {s} : session'[t] = session[t]
        <5> DEFINE q == [Moved(s, "complete_read") EXCEPT !.stage = session[s].copy.current,
                                                          !.by = "sync"]
        <5>1. session[s].copy.current \in Stages /\ Moved(s, "complete_read") \in PlainSessions
          BY <3>1, SessionIs DEF Moved, Without, PlainSessions, Plain, Copying, Rows
        <5>2. Moved(s, "complete_read").pc = "complete_read"
          BY DEF Moved, Without
        <5>3. q.pc = "complete_read"
          BY <5>1, <5>2 DEF PlainSessions
        <5>4. Goto(s, q)
          BY <3>2
        <5> HIDE DEF q
        <5>. QED BY <5>3, <5>4, Elsewhere
      <4>. QED BY <3>1, <4>1, KnownStays DEF Committing
    <3>3. CASE Enter(s, session[s])
      <4>1. /\ \/ session'[s].pc \in {"idle", "hand_back", "begin_read"}
               \/ /\ session'[s].pc = "decline"
                  /\ session[s].kind = "decline" /\ session[s].copy.status # "CANCELLED"
            /\ \A t \in Session \ {s} : session'[t] = session[t]
        BY <3>3, EnteringElsewhere
      <4>2. row.status = "CANCELLED" /\ session'[s].pc = "decline" => s \in unaware
        BY <3>1, <4>1 DEF StopIsKnown, BetweenCheckAndWrite, Known
      <4>. QED BY <3>1, <4>1, <4>2, KnownStays DEF Committing, Known
    <3>. QED BY <2>8, <3>2, <3>3 DEF Sync
  <2>9. ASSUME NEW s \in Session, Push(s) PROVE StopIsKnown'
    <3>1. UNCHANGED unaware /\ (UNCHANGED row \/ PushValid)
      BY <2>9 DEF Push
    <3>2. /\ session'[s].pc \in {"complete_read", "except"}
          /\ \A t \in Session \ {s} : session'[t] = session[t]
      BY <2>9, Elsewhere DEF Push, Moved, Without
    <3>. QED BY <3>1, <3>2, PushingStatus, KnownStays DEF Committing
  <2>10. ASSUME NEW s \in Session, Begin(s) \/ Complete(s) PROVE StopIsKnown'
    <3>1. UNCHANGED unaware
      BY <2>10 DEF Begin, Complete
    <3>2. /\ session'[s].pc \in {"work", "next"}
          /\ session'[s].pc = "next" => session[s].pc \in Committing
          /\ \A t \in Session \ {s} : session'[t] = session[t]
      BY <2>10, Elsewhere DEF Begin, Complete, Moved, Without, With, Committing
    <3>3. row'.status = "CANCELLED" => row.status = "CANCELLED"
      BY <2>10, CommittedStatus
    <3>. QED BY <2>b, <3>1, <3>2, <3>3, KnownStays DEF Committing, Known
  <2>11. ASSUME NEW s \in Session, AdvanceStage(s) PROVE StopIsKnown'
    <3> DEFINE q == With(session[s], "settle", Advanced(session[s]))
    <3>1. /\ session[s].pc = "next" /\ Save(s, q.copy) /\ UNCHANGED unaware
      BY <2>11 DEF AdvanceStage
    <3>2. session[s].copy \in Rows /\ session[s].stage \in Stages /\ session[s].by \in AnyBy
      BY <3>1, SessionIs DEF Copying
    <3>3. q.copy.status \in {session[s].copy.status, "ACTIVE", "AWAITING_PUSH_DECISION", "COMPLETED"}
      BY <3>2 DEF With, Advanced, Put, Rows, Stages
    <3>4. row'.status = "CANCELLED" => row.status = "CANCELLED"
      BY <3>1, <3>3, SavedStatus DEF RowStatus, Final
    <3>5. q.by \in AnyBy /\ q.stage \in Stages
      BY <3>2 DEF With
    <3>6. \/ Enter(s, q) \/ Return(s, q) \/ Goto(s, q) \/ Leave(s, FALSE)
          \/ Goto(s, At("begin_read", q.kind, q.copy.current))
      BY <2>11, <3>5 DEF AdvanceStage, AnyBy, Stages
    <3>7. q.pc = "settle"
      BY DEF With
    <3> HIDE DEF q
    <3>8. \A t \in Session \ {s} : session'[t] = session[t]
      <4>1. CASE Enter(s, q) \/ Return(s, q)
        BY <4>1, EnteringElsewhere
      <4>2. CASE ~Enter(s, q) /\ ~Return(s, q)
        BY <3>6, <4>2, LeavingElsewhere, Elsewhere
      <4>. QED BY <4>1, <4>2
    <3>9. session'[s].pc # "sync"
      <4>1. CASE Enter(s, q) \/ Return(s, q)
        BY <4>1, EnteringElsewhere
      <4>2. At("begin_read", q.kind, q.copy.current).pc = "begin_read"
        BY DEF At
      <4>3. CASE ~Enter(s, q) /\ ~Return(s, q)
        BY <3>6, <3>7, <4>2, <4>3, LeavingElsewhere, Elsewhere
      <4>. QED BY <4>1, <4>3
    <3>. QED BY <2>b, <3>1, <3>4, <3>8, <3>9, KnownStays DEF Committing, Known
  <2>12. ASSUME NEW s \in Session,
                Pause(s) \/ Settle(s) \/ Fail(s) \/ Decline(s) \/ UndoWrite(s)
         PROVE StopIsKnown'
    <3>1. UNCHANGED unaware
      BY <2>12 DEF Pause, Settle, Fail, Decline, UndoWrite
    <3>2. /\ session'[s].pc \in {"idle", "hand_back"}
          /\ \A t \in Session \ {s} : session'[t] = session[t]
      BY <2>12, LeavingElsewhere DEF Pause, Settle, Fail, Decline, UndoWrite
    <3>3. row'.status = "CANCELLED" => row.status = "CANCELLED"
      BY <2>12, CommittedStatus
    <3>. QED BY <3>1, <3>2, <3>3, KnownStays DEF Committing
  <2>13. ASSUME NEW s \in Session, Cancel(s) PROVE StopIsKnown'
    <3>1. /\ session'[s].pc \in {"idle", "hand_back"}
          /\ \A t \in Session \ {s} : session'[t] = session[t]
      BY <2>13, LeavingElsewhere DEF Cancel
    <3>2. CASE row.status = "CANCELLED"
      BY <2>13, <3>1, <3>2, KnownStays DEF Cancel, Committing
    <3>3. CASE row.status # "CANCELLED"
      <4>1. unaware' = {t \in Session \ {s} : BetweenCheckAndWrite(t)}
        BY <2>13, <3>3 DEF Cancel
      <4>. QED BY <3>1, <4>1 DEF StopIsKnown, BetweenCheckAndWrite, Known
    <3>. QED BY <3>2, <3>3
  <2>. QED
    BY <2>1, <2>2, <2>3, <2>4, <2>5, <2>6, <2>7, <2>8, <2>9, <2>10, <2>11, <2>12, <2>13
    DEF Next, Step
<1>. QED BY <1>1, <1>2, Typing, PTL DEF Spec

(* A stop is overwritten only by a session that had checked the status     *)
(* before it and had not committed yet, or by an undo (pipeline.py: the    *)
(* refreshes before each commit), whatever else is in flight.              *)
THEOREM StopsHold == Spec => StopHolds
<1> DEFINE Held == row.status = "CANCELLED" /\ row'.status \notin {"CANCELLED", "ROLLED_BACK"}
                     => \E s \in unaware : session'[s] # session[s]
<1>1. TypeOK /\ StopIsKnown /\ [Next]_vars => [Held]_vars
  <2> SUFFICES ASSUME TypeOK, StopIsKnown, Next, row.status = "CANCELLED",
                      row'.status \notin {"CANCELLED", "ROLLED_BACK"}
               PROVE \E s \in unaware : session'[s] # session[s]
    OBVIOUS
  <2>1. row' # row /\ ~PushValid
    BY PushingStatus
  <2>2. ASSUME NEW s \in Session, UndoWrite(s) \/ Cancel(s) PROVE FALSE
    BY <2>2, CommittedStatus
  <2>3. PICK s \in Session : \/ Begin(s) \/ Pause(s) \/ Complete(s) \/ AdvanceStage(s)
                             \/ Settle(s) \/ Fail(s) \/ Decline(s)
    <3>1. ~ClaimPass
      BY <2>1 DEF ClaimPass
    <3>2. ASSUME NEW s \in Session, Open(s) \/ Resolve(s) \/ Guide(s) \/ Undo(s) \/ Crash(s)
          PROVE FALSE
      BY <2>1, <3>2 DEF Open, Resolve, Guide, Undo, Crash
    <3>3. ASSUME NEW s \in Session,
                 \/ StartPass(s) \/ HandBack(s) \/ LoadPass(s) \/ Sync(s) \/ Enqueue(s)
                 \/ BeginRead(s) \/ PauseRead(s) \/ CompleteRead(s) \/ Except(s) \/ UndoRead(s)
          PROVE FALSE
      BY <2>1, <3>3
      DEF StartPass, HandBack, LoadPass, Sync, Enqueue, BeginRead, PauseRead, CompleteRead,
          Except, UndoRead
    <3>4. ASSUME NEW s \in Session,
                 Analyze(s) \/ Review(s) \/ Preview(s) \/ Count(s) \/ Push(s) \/ Raise(s)
          PROVE FALSE
      BY <2>1, <3>4 DEF Analyze, Review, Preview, Count, Push, Raise
    <3>. QED BY <2>2, <3>1, <3>2, <3>3, <3>4 DEF Next, Step
  <2>4. session[s].pc \in Committing /\ s \in unaware
    <3>1. session[s].pc \in Committing
      BY <2>3 DEF Begin, Pause, Complete, AdvanceStage, Settle, Fail, Decline, Committing
    <3>. QED BY <3>1 DEF StopIsKnown, BetweenCheckAndWrite, Known, Committing
  <2>5. session'[s].pc # session[s].pc
    <3>1. CASE Begin(s) \/ Complete(s)
      BY <3>1, Elsewhere DEF Begin, Complete, Moved, Without, With
    <3>2. CASE Pause(s) \/ Settle(s) \/ Fail(s) \/ Decline(s)
      BY <3>2, LeavingElsewhere DEF Pause, Settle, Fail, Decline
    <3>3. CASE AdvanceStage(s)
      <4> DEFINE q == With(session[s], "settle", Advanced(session[s]))
      <4>1. session[s].pc = "next" /\ q.pc = "settle"
        BY <3>3 DEF AdvanceStage, With
      <4>2. session[s].stage \in Stages /\ session[s].by \in AnyBy
        BY <4>1, SessionIs DEF Copying
      <4>3. q.by \in AnyBy /\ q.stage \in Stages
        BY <4>2 DEF With
      <4>4. \/ Enter(s, q) \/ Return(s, q) \/ Goto(s, q) \/ Leave(s, FALSE)
            \/ Goto(s, At("begin_read", q.kind, q.copy.current))
        BY <3>3, <4>3 DEF AdvanceStage, AnyBy, Stages
      <4> HIDE DEF q
      <4>5. CASE Enter(s, q) \/ Return(s, q)
        BY <4>1, <4>5, EnteringElsewhere
      <4>6. At("begin_read", q.kind, q.copy.current).pc = "begin_read"
        BY DEF At
      <4>7. CASE ~Enter(s, q) /\ ~Return(s, q)
        BY <4>1, <4>4, <4>6, <4>7, LeavingElsewhere, Elsewhere
      <4>. QED BY <4>5, <4>7
    <3>. QED BY <2>3, <3>1, <3>2, <3>3
  <2>. QED BY <2>4, <2>5
<1>2. Spec => []TypeOK /\ []StopIsKnown
  BY Typing, StopIsKnownInvariant, PTL
<1>. QED BY <1>1, <1>2, PTL DEF Spec, StopHolds

----------------------------------------------------------------------------
(* The order of review and push.  A row, or a session's copy of one, says  *)
(* push only after the review, and waits for the review of the preview     *)
(* only after the records are there.  Between the transform and its commit *)
(* the position of a session says the same.                                *)
Reviewed == records /\ workflow = "COMPLETED"

Supported(c, rec, rev) ==
  /\ c.current = "push" => rev
  /\ Is(c, "preview") = "NEEDS_REVIEW" => rec

Stands(q, rec, rev) ==
  /\ q.pc \in Copying => Supported(q.copy, rec, rev)
  /\ q.pc \in {"count", "pause_read", "pause"} /\ q.stage = "preview" => rec
  /\ q.pc \in {"complete_read", "complete", "next"} /\ q.stage = "preview" => rev

Ordered ==
  /\ records => workflow # "NONE"
  /\ target # "NONE" => Reviewed
  /\ Supported(row, records, Reviewed)
  /\ \A s \in Session : Stands(session[s], records, Reviewed)

(* Of two columns of a row each may be written by itself. *)
LEMMA ColumnsAreSupported ==
  ASSUME NEW s, NEW new, NEW rec \in BOOLEAN, NEW rev \in BOOLEAN, Save(s, new),
         Supported(row, rec, rev), Supported(new, rec, rev)
  PROVE  Supported(row', rec, rev)
<1>1. /\ row'.current \in {row.current, new.current}
      /\ row'.stage \in {row.stage, new.stage}
  BY DEF Save, Write
<1>. QED BY <1>1 DEF Supported, Is

LEMMA PutIsSupported ==
  ASSUME NEW c \in Rows, NEW rec \in BOOLEAN, NEW rev \in BOOLEAN, Supported(c, rec, rev),
         NEW s \in Stages, NEW is, NEW by, s = "preview" /\ is = "NEEDS_REVIEW" => rec
  PROVE  /\ Supported(Put(c, s, is, by), rec, rev)
         /\ \A st : Supported(Put([c EXCEPT !.status = st], s, is, by), rec, rev)
         /\ \A st, cur : (cur = "push" => rev)
              => Supported(Put([c EXCEPT !.status = st, !.current = cur], s, is, by), rec, rev)
         /\ \A cur : (cur = "push" => rev)
              => Supported(Put([c EXCEPT !.current = cur], s, is, by), rec, rev)
  BY DEF Supported, Is, Put, Entry, Rows, Stages

LEMMA SyncedIsSupported ==
  ASSUME NEW c \in Rows, NEW rec \in BOOLEAN, NEW rev \in BOOLEAN, Supported(c, rec, rev),
         NEW held \in Effects, held # "NONE" => rev
  PROVE  Supported(Synced(c, held), rec, rev)
<1>1. CASE held = "NONE"
  BY <1>1 DEF Synced
<1>2. CASE held # "NONE"
  <2>1. "push" \in Stages /\ "push" # "preview"
    BY DEF Stages
  <2>2. PICK st, is : Synced(c, held) = Put([c EXCEPT !.status = st, !.current = "push"],
                                            "push", is, "target")
    BY <1>2 DEF Synced, Effects
  <2>3. Supported(Put([c EXCEPT !.status = st, !.current = "push"], "push", is, "target"), rec, rev)
    BY <1>2, <2>1, PutIsSupported
  <2>. QED BY <2>2, <2>3
<1>. QED BY <1>1, <1>2

LEMMA AdvancedIsSupported ==
  ASSUME NEW q, q.copy \in Rows, q.stage \in Stages, NEW rec \in BOOLEAN, NEW rev \in BOOLEAN,
         Supported(q.copy, rec, rev), q.stage = "preview" => rev
  PROVE  Supported(Advanced(q), rec, rev)
<1>1. Ready # "NEEDS_REVIEW"
  BY DEF Ready
<1>2. {"review", "preview", "push"} \subseteq Stages
  BY DEF Stages
<1> DEFINE c == q.copy
<1>3. c \in Rows /\ Supported(c, rec, rev)
  OBVIOUS
<1> HIDE DEF c
<1>4. CASE q.stage = "analyze"
  <2>1. Advanced(q) = Put([c EXCEPT !.current = "review"], "review", Ready, q.by)
    BY <1>4 DEF Advanced, c
  <2>2. Supported(Put([c EXCEPT !.current = "review"], "review", Ready, q.by), rec, rev)
    BY <1>2, <1>3, PutIsSupported
  <2>. QED BY <2>1, <2>2
<1>5. CASE q.stage = "review"
  <2>1. PICK st : Advanced(q) = Put([c EXCEPT !.status = st, !.current = "preview"],
                                    "preview", Ready, q.by)
    <3>1. Advanced(q) = Put([c EXCEPT !.current = "preview",
                                      !.status = IF q.by = "sync" THEN "ACTIVE" ELSE @],
                            "preview", Ready, q.by)
      BY <1>5 DEF Advanced, c
    <3>2. [c EXCEPT !.current = "preview", !.status = IF q.by = "sync" THEN "ACTIVE" ELSE @]
            = [c EXCEPT !.status = IF q.by = "sync" THEN "ACTIVE" ELSE c.status,
                        !.current = "preview"]
      BY <1>3 DEF Rows
    <3>. QED BY <3>1, <3>2
  <2>2. Supported(Put([c EXCEPT !.status = st, !.current = "preview"], "preview", Ready, q.by),
                  rec, rev)
    BY <1>1, <1>2, <1>3, PutIsSupported
  <2>. QED BY <2>1, <2>2
<1>6. CASE q.stage = "preview"
  <2>1. Advanced(q) = Put([c EXCEPT !.current = "push", !.status = "AWAITING_PUSH_DECISION"],
                          "push", "READY_TO_PUSH", q.by)
    BY <1>6 DEF Advanced, c
  <2>2. [c EXCEPT !.current = "push", !.status = "AWAITING_PUSH_DECISION"]
          = [c EXCEPT !.status = "AWAITING_PUSH_DECISION", !.current = "push"]
    BY <1>3 DEF Rows
  <2>3. rev
    BY <1>6
  <2>4. Supported(Put([c EXCEPT !.status = "AWAITING_PUSH_DECISION", !.current = "push"],
                      "push", "READY_TO_PUSH", q.by), rec, rev)
    BY <1>2, <1>3, <2>3, PutIsSupported
  <2>. QED BY <2>1, <2>2, <2>4
<1>7. CASE q.stage = "push"
  BY <1>3, <1>7 DEF Advanced, Supported, Is, Rows, c
<1>. QED BY <1>4, <1>5, <1>6, <1>7 DEF Stages

LEMMA SkippedIsSupported ==
  ASSUME NEW c \in Rows, NEW rec \in BOOLEAN, NEW rev \in BOOLEAN, Supported(c, rec, rev)
  PROVE  Supported(Skipped(c), rec, rev)
<1>1. Skipped(c).current = c.current
  BY DEF Skipped, Rows
<1>2. Is(Skipped(c), "preview") # "NEEDS_REVIEW"
  BY DEF Skipped, Rows, Is, Entry, Stages
<1>. QED BY <1>1, <1>2 DEF Supported

(* A step of one session keeps the order if what it writes does.           *)
LEMMA OrderStays ==
  ASSUME TypeOK, Ordered, NEW s \in Session,
         records => records', Reviewed => Reviewed', records' => workflow' # "NONE",
         target' # "NONE" => Reviewed',
         Supported(row', records', Reviewed'),
         Stands(session'[s], records', Reviewed'),
         \A t \in Session \ {s} : session'[t] = session[t]
  PROVE  Ordered'
<1>1. ASSUME NEW t \in Session PROVE Stands(session[t], records, Reviewed)'
  <2>1. CASE t = s
    BY <2>1
  <2>2. CASE t # s
    <3>1. PICK q : q = session[t]
      OBVIOUS
    <3>2. q = session'[t]
      BY <2>2, <3>1
    <3>3. Stands(q, records, Reviewed)
      BY <3>1 DEF Ordered
    <3>4. Stands(q, records', Reviewed')
      BY <3>3 DEF Stands, Supported
    <3>. QED BY <3>2, <3>4
  <2>. QED BY <2>1, <2>2
<1>. QED BY <1>1 DEF Ordered

(* Most steps leave the review, the records and the target alone. *)
LEMMA OrderStaysBesides ==
  ASSUME TypeOK, Ordered, NEW s \in Session, UNCHANGED <<workflow, records, target>>,
         Supported(row', records, Reviewed),
         Stands(session'[s], records, Reviewed),
         \A t \in Session \ {s} : session'[t] = session[t]
  PROVE  Ordered'
<1>1. records' = records /\ Reviewed' = Reviewed
  BY DEF Reviewed
<1>2. records' => workflow' # "NONE"
  BY DEF Ordered
<1>3. target' # "NONE" => Reviewed'
  BY <1>1 DEF Ordered
<1>. QED BY <1>1, <1>2, <1>3, OrderStays

(* Where nothing is asked of a session. *)
Unbound == {"idle", "hand_back"}
             \cup (Plain \ {"count", "pause_read", "complete_read"})

LEMMA UnboundStands ==
  ASSUME NEW q, q.pc \in Unbound, NEW rec, NEW rev PROVE Stands(q, rec, rev)
  BY DEF Unbound, Stands, Plain, Copying

LEMMA LeavingStands ==
  ASSUME TypeOK, NEW s \in Session, NEW failed \in BOOLEAN, Leave(s, failed),
         NEW rec, NEW rev
  PROVE  /\ Stands(session'[s], rec, rev)
         /\ \A t \in Session \ {s} : session'[t] = session[t]
<1>1. session'[s].pc \in Unbound /\ \A t \in Session \ {s} : session'[t] = session[t]
  BY LeavingElsewhere DEF Unbound
<1>2. PICK q : q = session'[s]
  OBVIOUS
<1>3. Stands(q, rec, rev)
  BY <1>1, <1>2, UnboundStands
<1>. QED BY <1>1, <1>2, <1>3

LEMMA GoingStands ==
  ASSUME TypeOK, NEW s \in Session, NEW q, Goto(s, q), NEW rec, NEW rev,
         q.pc \in Unbound \/ Stands(q, rec, rev)
  PROVE  /\ Stands(session'[s], rec, rev)
         /\ \A t \in Session \ {s} : session'[t] = session[t]
<1>1. session'[s] = q /\ \A t \in Session \ {s} : session'[t] = session[t]
  BY Elsewhere
<1>2. Stands(q, rec, rev)
  BY UnboundStands
<1>. QED BY <1>1, <1>2

LEMMA EnteringStands ==
  ASSUME TypeOK, NEW s \in Session, NEW q,
         EnterPush(s, q) \/ Return(s, q) \/ Enter(s, q),
         NEW rec, NEW rev, Supported(q.copy, rec, rev)
  PROVE  /\ Stands(session'[s], rec, rev)
         /\ \A t \in Session \ {s} : session'[t] = session[t]
<1>1. PICK p : p = session'[s]
  OBVIOUS
<1>2. /\ \/ p.pc \in {"idle", "hand_back", "begin_read"}
         \/ p.pc = "decline" /\ p.copy = q.copy
      /\ \A t \in Session \ {s} : session'[t] = session[t]
  BY <1>1, EnteringElsewhere
<1>3. CASE p.pc \in {"idle", "hand_back", "begin_read"}
  <2>1. p.pc \in Unbound
    BY <1>3 DEF Unbound, Plain
  <2>2. Stands(p, rec, rev)
    BY <2>1, UnboundStands
  <2>. QED BY <1>1, <1>2, <2>2
<1>4. CASE p.pc = "decline" /\ p.copy = q.copy
  <2>1. Stands(p, rec, rev)
    BY <1>4 DEF Stands, Copying
  <2>. QED BY <1>1, <1>2, <2>1
<1>. QED BY <1>2, <1>3, <1>4

(* What a session that goes on without a copy, or with a new one, holds.   *)
LEMMA MovedStands ==
  ASSUME NEW s \in Session
  PROVE  /\ \A pc : /\ Moved(s, pc).pc = pc /\ Moved(s, pc).stage = session[s].stage
                    /\ Moved(s, pc).by = session[s].by
         /\ \A pc : /\ Refreshed(s, pc).pc = pc /\ Refreshed(s, pc).copy = row
                    /\ Refreshed(s, pc).stage = session[s].stage
                    /\ Refreshed(s, pc).by = session[s].by
  BY DEF Moved, Without, Refreshed, With

(* The commits. *)
LEMMA CommitsAreSupported ==
  ASSUME TypeOK, Ordered, NEW s \in Session,
         Begin(s) \/ Pause(s) \/ Settle(s) \/ Fail(s) \/ Decline(s) \/ Cancel(s) \/ UndoWrite(s)
  PROVE  Supported(row', records, Reviewed)
<1> DEFINE rec == records
           rev == Reviewed
           c == session[s].copy
           stage == session[s].stage
<1>1. session[s].pc \in Copying
  BY DEF Begin, Pause, Settle, Fail, Decline, Cancel, UndoWrite, Copying
<1>2. c \in Rows /\ stage \in Stages /\ c.current \in Stages
  BY <1>1, SessionIs DEF Rows
<1>3. Supported(c, rec, rev) /\ Supported(row, rec, rev)
  BY <1>1 DEF Ordered, Stands
<1>4. rec \in BOOLEAN /\ rev \in BOOLEAN
  BY DEF TypeOK, Reviewed
<1>5. session[s].pc = "pause" /\ stage = "preview" => rec
  BY DEF Ordered, Stands
<1>6. target \in Effects /\ (target # "NONE" => rev)
  BY DEF TypeOK, Ordered
<1>7. "push" \in Stages /\ "push" # "preview"
  BY DEF Stages
<1>8. ASSUME NEW new, Save(s, new), Supported(new, rec, rev) PROVE Supported(row', rec, rev)
  BY <1>3, <1>4, <1>8, ColumnsAreSupported
<1> HIDE DEF rec, rev
<1>9. CASE Begin(s)
  <2>1. Save(s, Put([c EXCEPT !.status = "ACTIVE"], stage, "RUNNING", "agent"))
    BY <1>9 DEF Begin
  <2> HIDE DEF c, stage
  <2>2. Supported(Put([c EXCEPT !.status = "ACTIVE"], stage, "RUNNING", "agent"), rec, rev)
    BY <1>2, <1>3, <1>4, PutIsSupported
  <2>. QED BY <1>8, <2>1, <2>2 DEF rec, rev
<1>10. CASE Pause(s)
  <2>1. /\ Save(s, Put([c EXCEPT !.status = "PAUSED"], stage, "NEEDS_REVIEW", "agent"))
        /\ stage = "preview" => rec
    BY <1>5, <1>10 DEF Pause
  <2> HIDE DEF c, stage
  <2>2. Supported(Put([c EXCEPT !.status = "PAUSED"], stage, "NEEDS_REVIEW", "agent"), rec, rev)
    BY <1>2, <1>3, <1>4, <2>1, PutIsSupported
  <2>. QED BY <1>8, <2>1, <2>2 DEF rec, rev
<1>11. CASE Settle(s)
  <2>1. Save(s, Synced(c, target))
    BY <1>11 DEF Settle
  <2>2. PICK held \in Effects : held = target
    BY <1>6
  <2>3. Supported(Synced(c, held), rec, rev)
    <3> HIDE DEF c
    <3>. QED BY <1>2, <1>3, <1>4, <1>6, <2>2, SyncedIsSupported
  <2>. QED BY <1>8, <2>1, <2>2, <2>3 DEF rec, rev
<1>12. CASE Fail(s)
  <2> DEFINE at == IF stage = "push" THEN "push" ELSE c.current
  <2>1. Save(s, Put([c EXCEPT !.status = "FAILED"], at, "FAILED", "agent"))
    BY <1>12 DEF Fail
  <2>2. at \in Stages
    BY <1>2, <1>7
  <2> HIDE DEF c, stage, at
  <2>3. Supported(Put([c EXCEPT !.status = "FAILED"], at, "FAILED", "agent"), rec, rev)
    BY <1>2, <1>3, <1>4, <2>2, PutIsSupported
  <2>. QED BY <1>8, <2>1, <2>3 DEF rec, rev
<1>13. CASE Decline(s)
  <2>1. Save(s, Put([c EXCEPT !.status = "COMPLETED_WITHOUT_PUSH"], "push", "SKIPPED", "reviewer"))
    BY <1>13 DEF Decline
  <2> HIDE DEF c
  <2>2. Supported(Put([c EXCEPT !.status = "COMPLETED_WITHOUT_PUSH"], "push", "SKIPPED", "reviewer"),
                  rec, rev)
    BY <1>2, <1>3, <1>4, <1>7, PutIsSupported
  <2>. QED BY <1>8, <2>1, <2>2 DEF rec, rev
<1>14. CASE Cancel(s)
  <2>1. Save(s, Skipped(c))
    BY <1>14 DEF Cancel
  <2>2. Supported(Skipped(c), rec, rev)
    BY <1>2, <1>3, <1>4, SkippedIsSupported
  <2>. QED BY <1>8, <2>1, <2>2 DEF rec, rev
<1>15. CASE UndoWrite(s)
  <2>1. Save(s, Put([c EXCEPT !.status = "ROLLED_BACK"], "push", "ROLLED_BACK", "reviewer"))
    BY <1>15 DEF UndoWrite
  <2> HIDE DEF c
  <2>2. Supported(Put([c EXCEPT !.status = "ROLLED_BACK"], "push", "ROLLED_BACK", "reviewer"),
                  rec, rev)
    BY <1>2, <1>3, <1>4, <1>7, PutIsSupported
  <2>. QED BY <1>8, <2>1, <2>2 DEF rec, rev
<1>. QED BY <1>9, <1>10, <1>11, <1>12, <1>13, <1>14, <1>15

LEMMA TransformKeepsTheOrder ==
  ASSUME TypeOK, Ordered, Transforms, UNCHANGED <<row, target>>
  PROVE  /\ records' /\ workflow' # "NONE" /\ (Reviewed => Reviewed')
         /\ target' # "NONE" => Reviewed'
         /\ Supported(row', records', Reviewed')
<1>1. records' = TRUE /\ workflow' \in {"PAUSED", "COMPLETED"} /\ (records => workflow' = "COMPLETED")
  BY DEF Transforms
<1>2. Reviewed => Reviewed'
  BY <1>1 DEF Reviewed
<1>. QED BY <1>1, <1>2 DEF Ordered, Supported

LEMMA PushKeepsTheOrder ==
  ASSUME TypeOK, Ordered, PushValid, UNCHANGED <<workflow, records>>
  PROVE  /\ target' # "NONE" => Reviewed
         /\ Supported(row', records, Reviewed)
<1>1. /\ target' \in Effects /\ row \in Rows /\ row' = Synced(row, target')
      /\ records \in BOOLEAN /\ Reviewed \in BOOLEAN
  BY DEF PushValid, TypeOK, Effects, Reviewed
<1>2. target' # "NONE" => Reviewed
  BY DEF PushValid, Accepts, Ordered, Reviewed
<1>3. PICK held : held = target'
  OBVIOUS
<1>4. Supported(row, records, Reviewed)
  BY DEF Ordered
<1>5. Supported(Synced(row, held), records, Reviewed)
  BY <1>1, <1>2, <1>3, <1>4, SyncedIsSupported
<1>. QED BY <1>1, <1>2, <1>3, <1>5

LEMMA OrderedInvariant == Spec => []Ordered
<1>1. Init => Ordered
  <2> SUFFICES ASSUME Init PROVE Ordered
    OBVIOUS
  <2>1. Supported(row, records, Reviewed)
    BY DEF Init, InitialRow, Supported, Is, Entry, Ready, Stages
  <2>2. ASSUME NEW s \in Session PROVE Stands(session[s], records, Reviewed)
    BY DEF Init, Stands, At, Idle, Copying
  <2>. QED BY <2>1, <2>2 DEF Init, Ordered
<1>2. TypeOK /\ Ordered /\ [Next]_vars => Ordered'
  <2> SUFFICES ASSUME TypeOK, Ordered, [Next]_vars PROVE Ordered'
    OBVIOUS
  <2>a. /\ Supported(row, records, Reviewed)
        /\ \A s \in Session : Stands(session[s], records, Reviewed)
        /\ records \in BOOLEAN /\ Reviewed \in BOOLEAN
    BY DEF Ordered, TypeOK, Reviewed
  <2>1. CASE UNCHANGED vars
    BY <2>1 DEF vars, Ordered, Reviewed
  <2>2. CASE ClaimPass
    <3>1. /\ Pass \in Session /\ UNCHANGED <<workflow, records, target, row>>
          /\ session'[Pass].pc \in Unbound
          /\ \A t \in Session \ {Pass} : session'[t] = session[t]
      BY <2>2 DEF ClaimPass, TypeOK, At, Session, Unbound, Plain
    <3>2. Stands(session'[Pass], records, Reviewed)
      <4>1. PICK q : q = session'[Pass]
        OBVIOUS
      <4>. QED BY <3>1, <4>1, UnboundStands
    <3>. QED BY <2>a, <3>1, <3>2, OrderStaysBesides
  <2>3. ASSUME NEW s \in Session, Open(s) PROVE Ordered'
    <3>1. PICK kind \in RequestKinds :
            LET q == At("enqueue", kind, row.current)
            IN  Goto(s, IF kind = "run" THEN q
                        ELSE With(q, IF kind = "cancel" THEN "cancel" ELSE "sync", row))
      BY <2>3 DEF Open
    <3>2. PICK q : /\ Goto(s, q)
                   /\ \/ q.pc = "enqueue"
                      \/ q.pc \in {"cancel", "sync"} /\ q.copy = row
      BY <3>1 DEF At, With
    <3>3. q.pc \in Unbound \/ Stands(q, records, Reviewed)
      BY <2>a, <3>2 DEF Unbound, Plain, Stands
    <3>4. Stands(session'[s], records, Reviewed) /\ \A t \in Session \ {s} : session'[t] = session[t]
      BY <3>2, <3>3, GoingStands
    <3>5. UNCHANGED <<workflow, records, target, row>>
      BY <2>3 DEF Open
    <3>. QED BY <2>a, <3>4, <3>5, OrderStaysBesides
  <2>4. ASSUME NEW s \in Session, Resolve(s) PROVE Ordered'
    <3>1. /\ Goto(s, At("enqueue", "resolve", row.current)) /\ UNCHANGED <<row, records, target>>
          /\ workflow = "PAUSED" /\ workflow' = "COMPLETED"
      BY <2>4 DEF Resolve
    <3>2. ~Reviewed /\ target = "NONE"
      BY <3>1 DEF Ordered, Reviewed
    <3>3. At("enqueue", "resolve", row.current).pc \in Unbound
      BY DEF At, Unbound, Plain
    <3>4. /\ Stands(session'[s], records', Reviewed')
          /\ \A t \in Session \ {s} : session'[t] = session[t]
      BY <3>1, <3>3, GoingStands
    <3>5. Supported(row', records', Reviewed')
      BY <2>a, <3>1, <3>2 DEF Supported
    <3>. QED BY <3>1, <3>2, <3>4, <3>5, OrderStays
  <2>5. ASSUME NEW s \in Session, Undo(s) PROVE Ordered'
    <3>1. /\ Goto(s, At("undo_read", "undo", "push")) /\ UNCHANGED <<row, records, workflow>>
          /\ target' # "NONE" => target # "NONE"
      BY <2>5 DEF Undo
    <3>2. At("undo_read", "undo", "push").pc \in Unbound
      BY DEF At, Unbound, Plain
    <3>3. /\ Stands(session'[s], records', Reviewed')
          /\ \A t \in Session \ {s} : session'[t] = session[t]
      BY <3>1, <3>2, GoingStands
    <3>4. Reviewed' = Reviewed /\ (records' => workflow' # "NONE")
      BY <3>1 DEF Reviewed, Ordered
    <3>5. Supported(row', records', Reviewed')
      BY <2>a, <3>1, <3>4
    <3>6. target' # "NONE" => Reviewed'
      BY <3>1, <3>4 DEF Ordered
    <3>. QED BY <3>1, <3>3, <3>4, <3>5, <3>6, OrderStays
  <2>6. ASSUME NEW s \in Session, StartPass(s) \/ HandBack(s) \/ Enqueue(s) \/ Crash(s)
        PROVE Ordered'
    <3>1. /\ session'[s].pc \in Unbound
          /\ \A t \in Session \ {s} : session'[t] = session[t]
      BY <2>6 DEF StartPass, HandBack, Enqueue, Crash, Idle, Moved, Without, TypeOK, Unbound, Plain
    <3>2. UNCHANGED <<workflow, records, target, row>>
      BY <2>6 DEF StartPass, HandBack, Enqueue, Crash
    <3>3. Stands(session'[s], records, Reviewed)
      <4>1. PICK q : q = session'[s]
        OBVIOUS
      <4>. QED BY <3>1, <4>1, UnboundStands
    <3>. QED BY <2>a, <3>1, <3>2, <3>3, OrderStaysBesides
  <2>7. ASSUME NEW s \in Session,
               LoadPass(s) \/ BeginRead(s) \/ PauseRead(s) \/ CompleteRead(s) \/ Except(s) \/ UndoRead(s)
        PROVE Ordered'
    <3>1. UNCHANGED <<workflow, records, target, row>>
      BY <2>7 DEF LoadPass, BeginRead, PauseRead, CompleteRead, Except, UndoRead
    <3>2. \/ Leave(s, FALSE) \/ Leave(s, TRUE)
          \/ Goto(s, Moved(s, "except"))
          \/ \E pc \in {"sync", "begin", "fail", "undo"} : Goto(s, Refreshed(s, pc))
          \/ session[s].pc = "pause_read" /\ Goto(s, Refreshed(s, "pause"))
          \/ session[s].pc = "complete_read" /\ Goto(s, Refreshed(s, "complete"))
      BY <2>7 DEF LoadPass, BeginRead, PauseRead, CompleteRead, Except, UndoRead
    <3>3. Moved(s, "except").pc \in Unbound
      BY DEF Moved, Without, Unbound, Plain
    <3>4. \A pc \in {"sync", "begin", "fail", "undo"} : Stands(Refreshed(s, pc), records, Reviewed)
      BY <2>a, MovedStands DEF Stands
    <3>5. session[s].pc = "pause_read" => Stands(Refreshed(s, "pause"), records, Reviewed)
      BY <2>a, MovedStands DEF Stands
    <3>6. session[s].pc = "complete_read" => Stands(Refreshed(s, "complete"), records, Reviewed)
      BY <2>a, MovedStands DEF Stands
    <3>7. Stands(session'[s], records, Reviewed) /\ \A t \in Session \ {s} : session'[t] = session[t]
      BY <3>2, <3>3, <3>4, <3>5, <3>6, LeavingStands, GoingStands
    <3>. QED BY <2>a, <3>1, <3>7, OrderStaysBesides
  <2>8. ASSUME NEW s \in Session, Sync(s) PROVE Ordered'
    <3> DEFINE c == session[s].copy
    <3>1. session[s].pc = "sync" /\ UNCHANGED <<row, workflow, records, target>>
      BY <2>8 DEF Sync
    <3>2. Supported(c, records, Reviewed) /\ c \in Rows
      BY <2>a, <3>1, SessionIs DEF Stands, Copying
    <3>3. CASE /\ workflow = "COMPLETED" /\ Is(c, c.current) = "NEEDS_REVIEW"
               /\ Goto(s, [Moved(s, "complete_read") EXCEPT !.stage = c.current, !.by = "sync"])
      <4>1. Moved(s, "complete_read") \in PlainSessions
        BY <3>1, SessionIs DEF Moved, Without, PlainSessions, Plain, Copying
      <4> DEFINE q == [Moved(s, "complete_read") EXCEPT !.stage = c.current, !.by = "sync"]
      <4>2. q.pc = "complete_read" /\ q.stage = c.current
        BY <4>1 DEF PlainSessions, Moved, Without
      <4>3. Goto(s, q)
        BY <3>3
      <4> HIDE DEF q
      <4>4. c.current = "preview" => Reviewed
        BY <3>2, <3>3 DEF Supported, Reviewed
      <4> HIDE DEF c
      <4>5. Stands(q, records, Reviewed)
        BY <4>2, <4>4 DEF Stands, Copying
      <4>6. /\ Stands(session'[s], records, Reviewed)
            /\ \A t \in Session \ {s} : session'[t] = session[t]
        BY <4>3, <4>5, GoingStands
      <4>. QED BY <2>a, <3>1, <4>6, OrderStaysBesides
    <3>4. CASE Enter(s, session[s])
      <4>1. /\ Stands(session'[s], records, Reviewed)
            /\ \A t \in Session \ {s} : session'[t] = session[t]
        BY <3>2, <3>4, EnteringStands
      <4>. QED BY <2>a, <3>1, <4>1, OrderStaysBesides
    <3>. QED BY <2>8, <3>3, <3>4 DEF Sync
  <2>9. ASSUME NEW s \in Session, Guide(s) PROVE Ordered'
    <3>2. UNCHANGED session \/ Goto(s, At("enqueue", "guide", row.current))
      BY <2>9 DEF Guide
    <3>3. /\ (records => records') /\ (Reviewed => Reviewed')
          /\ records' => workflow' # "NONE"
          /\ target' # "NONE" => Reviewed'
          /\ Supported(row', records', Reviewed')
      <4>1. CASE Transforms /\ UNCHANGED <<row, target>>
        BY <4>1, TransformKeepsTheOrder
      <4>2. CASE PushValid /\ UNCHANGED <<workflow, records>>
        <5>1. Reviewed' = Reviewed /\ (records' => workflow' # "NONE")
          BY <4>2 DEF Reviewed, Ordered
        <5>. QED BY <4>2, <5>1, PushKeepsTheOrder
      <4>3. CASE /\ workflow = "NONE" /\ workflow' \in {"PAUSED", "COMPLETED"}
                 /\ UNCHANGED <<row, records, target>>
        <5>1. ~records /\ ~Reviewed /\ target = "NONE"
          BY <4>3 DEF Reviewed, Ordered
        <5>. QED BY <2>a, <4>3, <5>1 DEF Supported
      <4>. QED BY <2>9, <4>1, <4>2, <4>3 DEF Guide
    <3>4. session[s] = Idle
      BY <2>9 DEF Guide
    <3>5. At("enqueue", "guide", row.current).pc \in Unbound /\ Idle.pc \in Unbound
      BY DEF At, Unbound, Plain, Idle
    <3>6. /\ Stands(session'[s], records', Reviewed')
          /\ \A t \in Session \ {s} : session'[t] = session[t]
      <4>1. CASE UNCHANGED session
        <5>1. session'[s] = Idle
          BY <3>4, <4>1
        <5>2. Stands(Idle, records', Reviewed')
          BY <3>5, UnboundStands
        <5>. QED BY <4>1, <5>1, <5>2
      <4>2. CASE Goto(s, At("enqueue", "guide", row.current))
        BY <3>5, <4>2, GoingStands
      <4>. QED BY <3>2, <4>1, <4>2
    <3>. QED BY <3>3, <3>6, OrderStays
  <2>10. ASSUME NEW s \in Session, Analyze(s) \/ Count(s) \/ Raise(s) PROVE Ordered'
    <3>1. UNCHANGED <<row, workflow, records, target>>
      BY <2>10 DEF Analyze, Count, Raise
    <3>2. \/ Goto(s, Moved(s, "except"))
          \/ Goto(s, Moved(s, "pause_read")) /\ session[s].pc = "count"
          \/ /\ Goto(s, Moved(s, "complete_read"))
             /\ \/ session[s].stage = "analyze"
                \/ session[s].pc = "count" /\ workflow # "PAUSED"
      BY <2>10 DEF Analyze, Count, Raise
    <3>3. Moved(s, "except").pc \in Unbound
      BY DEF Moved, Without, Unbound, Plain
    <3>4. session[s].pc = "count" => Stands(Moved(s, "pause_read"), records, Reviewed)
      BY <2>a, MovedStands DEF Stands, Copying
    <3>5. ASSUME \/ session[s].stage = "analyze"
                 \/ session[s].pc = "count" /\ workflow # "PAUSED"
          PROVE  Stands(Moved(s, "complete_read"), records, Reviewed)
      <4>1. session[s].stage = "preview" => Reviewed
        BY <2>a, <3>5 DEF Stands, Ordered, Reviewed, TypeOK
      <4>. QED BY <4>1, MovedStands DEF Stands, Copying
    <3>6. Stands(session'[s], records, Reviewed) /\ \A t \in Session \ {s} : session'[t] = session[t]
      BY <3>2, <3>3, <3>4, <3>5, GoingStands
    <3>. QED BY <2>a, <3>1, <3>6, OrderStaysBesides
  <2>11. ASSUME NEW s \in Session, Review(s) PROVE Ordered'
    <3>1. /\ UNCHANGED <<row, records, target>> /\ session[s].stage = "review"
          /\ \E pc \in {"pause_read", "complete_read"} : Goto(s, Moved(s, pc))
          /\ IF workflow = "NONE" THEN workflow' \in {"PAUSED", "COMPLETED"} ELSE workflow' = workflow
      BY <2>11 DEF Review
    <3>2. /\ Reviewed => Reviewed'
          /\ records' => workflow' # "NONE"
          /\ workflow = "NONE" => ~records /\ target = "NONE"
      BY <3>1 DEF Reviewed, Ordered
    <3>3. Supported(row', records', Reviewed') /\ (target' # "NONE" => Reviewed')
      BY <2>a, <3>1, <3>2 DEF Supported, Ordered
    <3>4. \A pc \in {"pause_read", "complete_read"} : Stands(Moved(s, pc), records', Reviewed')
      BY <3>1, MovedStands DEF Stands, Copying
    <3>5. /\ Stands(session'[s], records', Reviewed')
          /\ \A t \in Session \ {s} : session'[t] = session[t]
      BY <3>1, <3>4, GoingStands
    <3>. QED BY <3>1, <3>2, <3>3, <3>5, OrderStays
  <2>12. ASSUME NEW s \in Session, Preview(s) PROVE Ordered'
    <3>1. UNCHANGED <<row, target>>
      BY <2>12 DEF Preview
    <3>2. CASE Transforms /\ Goto(s, Moved(s, "count"))
      <4>1. /\ records' /\ workflow' # "NONE" /\ (Reviewed => Reviewed')
            /\ target' # "NONE" => Reviewed'
            /\ Supported(row', records', Reviewed')
        BY <3>1, <3>2, TransformKeepsTheOrder
      <4>2. Stands(Moved(s, "count"), records', Reviewed')
        <5>1. Moved(s, "count").pc = "count"
          BY DEF Moved, Without
        <5>. QED BY <4>1, <5>1, Zenon DEF Stands, Copying
      <4>3. /\ Stands(session'[s], records', Reviewed')
            /\ \A t \in Session \ {s} : session'[t] = session[t]
        BY <3>2, <4>2, GoingStands
      <4>. QED BY <4>1, <4>3, OrderStays
    <3>3. CASE Goto(s, Moved(s, "except")) /\ UNCHANGED <<workflow, records>>
      <4>1. Moved(s, "except").pc \in Unbound
        BY DEF Moved, Without, Unbound, Plain
      <4>2. /\ Stands(session'[s], records, Reviewed)
            /\ \A t \in Session \ {s} : session'[t] = session[t]
        BY <3>3, <4>1, GoingStands
      <4>. QED BY <2>a, <3>1, <3>3, <4>2, OrderStaysBesides
    <3>. QED BY <2>12, <3>2, <3>3 DEF Preview
  <2>13. ASSUME NEW s \in Session, Push(s) PROVE Ordered'
    <3>1. /\ session[s].stage = "push" /\ UNCHANGED <<workflow, records>>
          /\ \E pc \in {"complete_read", "except"} : Goto(s, Moved(s, pc))
          /\ PushValid \/ UNCHANGED <<row, target>>
      BY <2>13 DEF Push
    <3>2. \A pc \in {"complete_read", "except"} : Stands(Moved(s, pc), records, Reviewed)
      BY <3>1, MovedStands DEF Stands, Copying
    <3>3. /\ Stands(session'[s], records, Reviewed)
          /\ \A t \in Session \ {s} : session'[t] = session[t]
      BY <3>1, <3>2, GoingStands
    <3>4. (target' # "NONE" => Reviewed) /\ Supported(row', records, Reviewed)
      BY <2>a, <3>1, PushKeepsTheOrder DEF Ordered
    <3>5. records' = records /\ Reviewed' = Reviewed /\ (records' => workflow' # "NONE")
      BY <3>1 DEF Reviewed, Ordered
    <3>. QED BY <3>3, <3>4, <3>5, OrderStays
  <2>14. ASSUME NEW s \in Session,
                Begin(s) \/ Pause(s) \/ Settle(s) \/ Fail(s) \/ Decline(s) \/ Cancel(s) \/ UndoWrite(s)
         PROVE Ordered'
    <3>1. UNCHANGED <<workflow, records, target>>
      BY <2>14 DEF Begin, Pause, Settle, Fail, Decline, Cancel, UndoWrite
    <3>2. Supported(row', records, Reviewed)
      BY <2>14, CommitsAreSupported
    <3>3. Leave(s, FALSE) \/ Leave(s, TRUE) \/ Goto(s, Moved(s, "work"))
      BY <2>14 DEF Begin, Pause, Settle, Fail, Decline, Cancel, UndoWrite
    <3>4. Moved(s, "work").pc \in Unbound
      BY DEF Moved, Without, Unbound, Plain
    <3>5. /\ Stands(session'[s], records, Reviewed)
          /\ \A t \in Session \ {s} : session'[t] = session[t]
      BY <3>3, <3>4, LeavingStands, GoingStands
    <3>. QED BY <3>1, <3>2, <3>5, OrderStaysBesides
  <2>15. ASSUME NEW s \in Session, Complete(s) PROVE Ordered'
    <3> DEFINE c == session[s].copy
               stage == session[s].stage
               new == Put(c, stage, "COMPLETED", session[s].by)
               q == With(session[s], "next", new)
    <3>1. /\ session[s].pc = "complete" /\ Save(s, new) /\ Goto(s, q)
          /\ UNCHANGED <<workflow, records, target>>
      BY <2>15 DEF Complete
    <3>2. c \in Rows /\ stage \in Stages
      BY <3>1, SessionIs DEF Copying
    <3>3. Supported(c, records, Reviewed) /\ (stage = "preview" => Reviewed)
      BY <2>a, <3>1 DEF Stands, Copying
    <3>4. q.pc = "next" /\ q.stage = stage /\ q.copy = new
      BY DEF With
    <3> HIDE DEF c, stage, q
    <3>5. Supported(new, records, Reviewed)
      BY <2>a, <3>2, <3>3, PutIsSupported
    <3> HIDE DEF new
    <3>6. Stands(q, records, Reviewed)
      BY <3>3, <3>4, <3>5 DEF Stands
    <3>7. Supported(row', records, Reviewed)
      BY <2>a, <3>1, <3>5, ColumnsAreSupported
    <3>8. /\ Stands(session'[s], records, Reviewed)
          /\ \A t \in Session \ {s} : session'[t] = session[t]
      BY <3>1, <3>6, GoingStands
    <3>. QED BY <3>1, <3>7, <3>8, OrderStaysBesides
  <2>16. ASSUME NEW s \in Session, AdvanceStage(s) PROVE Ordered'
    <3> DEFINE new == Advanced(session[s])
               q == With(session[s], "settle", new)
    <3>1. /\ session[s].pc = "next" /\ Save(s, q.copy) /\ UNCHANGED <<workflow, records, target>>
      BY <2>16 DEF AdvanceStage
    <3>2. session[s].copy \in Rows /\ session[s].stage \in Stages /\ session[s].by \in AnyBy
      BY <3>1, SessionIs DEF Copying
    <3>3. Supported(session[s].copy, records, Reviewed) /\ (session[s].stage = "preview" => Reviewed)
      BY <2>a, <3>1 DEF Stands, Copying
    <3>4. /\ q.pc = "settle" /\ q.copy = new /\ q.by \in AnyBy /\ q.stage \in Stages
      BY <3>2 DEF With
    <3>5. \/ Enter(s, q) \/ Return(s, q) \/ Goto(s, q) \/ Leave(s, FALSE)
          \/ Goto(s, At("begin_read", q.kind, q.copy.current))
      BY <2>16, <3>4 DEF AdvanceStage, AnyBy, Stages
    <3>6. Supported(new, records, Reviewed)
      <4>1. PICK p : p = session[s]
        OBVIOUS
      <4>2. Supported(Advanced(p), records, Reviewed)
        BY <2>a, <3>2, <3>3, <4>1, AdvancedIsSupported
      <4>. QED BY <4>1, <4>2
    <3> HIDE DEF new, q
    <3>7. Supported(row', records, Reviewed)
      BY <2>a, <3>1, <3>4, <3>6, ColumnsAreSupported
    <3>8. Stands(q, records, Reviewed)
      BY <3>4, <3>6 DEF Stands
    <3>9. At("begin_read", q.kind, q.copy.current).pc \in Unbound
      BY DEF At, Unbound, Plain
    <3>10. /\ Stands(session'[s], records, Reviewed)
           /\ \A t \in Session \ {s} : session'[t] = session[t]
      <4>1. CASE Enter(s, q) \/ Return(s, q)
        BY <3>4, <3>6, <4>1, EnteringStands
      <4>2. CASE Leave(s, FALSE)
        BY <4>2, LeavingStands
      <4>3. CASE Goto(s, q) \/ Goto(s, At("begin_read", q.kind, q.copy.current))
        BY <3>8, <3>9, <4>3, GoingStands
      <4>. QED BY <3>5, <4>1, <4>2, <4>3
    <3>. QED BY <3>1, <3>7, <3>10, OrderStaysBesides
  <2>. QED
    BY <2>1, <2>2, <2>3, <2>4, <2>5, <2>6, <2>7, <2>8, <2>9, <2>10, <2>11, <2>12, <2>13, <2>14,
       <2>15, <2>16
    DEF Next, Step
<1>. QED BY <1>1, <1>2, Typing, PTL DEF Spec

(* Nothing waits for a push, and nothing is at the target, before mapping  *)
(* and records are reviewed (pipeline.py: _sync_resolved_review and        *)
(* advance_pipeline move the row, target.py's push_valid sends), whichever *)
(* requests, passes and lost sessions meet.                                *)
THEOREM PushesFollowReview == Spec => []PushComesAfterReview
<1>1. Ordered => PushComesAfterReview
  BY DEF Ordered, Supported, Reviewed, PushComesAfterReview
<1>. QED BY <1>1, OrderedInvariant, PTL

----------------------------------------------------------------------------
(* What _sync_resolved_review completes is a review: a session that does   *)
(* has no other stage, and does nothing else meanwhile.                    *)
Syncs(q) ==
  q.pc \notin {"idle", "hand_back", "decline"} /\ q.by = "sync" =>
    q.pc \in {"complete_read", "complete", "next"} /\ q.stage \in {"review", "preview"}

Syncing == \A s \in Session : Syncs(session[s])

LEMMA SyncingStays ==
  ASSUME Syncing, NEW s \in Session, Syncs(session'[s]),
         \A t \in Session \ {s} : session'[t] = session[t]
  PROVE  Syncing'
<1>1. ASSUME NEW t \in Session PROVE Syncs(session'[t])
  <2>1. CASE t = s
    BY <2>1
  <2>2. CASE t # s
    <3>1. session'[t] = session[t]
      BY <2>2
    <3>. QED BY <3>1 DEF Syncing, Syncs
  <2>. QED BY <2>1, <2>2
<1>2. \A t \in Session : Syncs(session[t])' = Syncs(session'[t])
  BY DEF Syncs
<1>. QED BY <1>1, <1>2 DEF Syncing

(* A step to a record of its own. *)
LEMMA SyncingGoes ==
  ASSUME TypeOK, Syncing, NEW s \in Session, NEW q, Goto(s, q), Syncs(q) PROVE Syncing'
<1>1. session'[s] = q /\ \A t \in Session \ {s} : session'[t] = session[t]
  BY Elsewhere
<1>. QED BY <1>1, SyncingStays

LEMMA SyncingLeaves ==
  ASSUME TypeOK, Syncing, NEW s \in Session, NEW failed \in BOOLEAN, Leave(s, failed)
  PROVE  Syncing'
<1>1. Syncs(session'[s]) /\ \A t \in Session \ {s} : session'[t] = session[t]
  BY LeavingElsewhere DEF Syncs
<1>. QED BY <1>1, SyncingStays

LEMMA SyncingEnters ==
  ASSUME TypeOK, Syncing, NEW s \in Session, NEW q,
         EnterPush(s, q) \/ Return(s, q) \/ Enter(s, q)
  PROVE  Syncing'
<1>1. Syncs(session'[s]) /\ \A t \in Session \ {s} : session'[t] = session[t]
  BY EnteringElsewhere DEF Syncs
<1>. QED BY <1>1, SyncingStays

LEMMA AtSyncs == \A pc, kind, stage : At(pc, kind, stage).by = "agent"
  BY DEF At

LEMMA SyncingInvariant == Spec => []Syncing
<1>1. Init => Syncing
  BY AtSyncs DEF Init, Syncing, Syncs, Idle
<1>2. TypeOK /\ Syncing /\ [Next]_vars => Syncing'
  <2> SUFFICES ASSUME TypeOK, Syncing, [Next]_vars PROVE Syncing'
    OBVIOUS
  <2>1. CASE UNCHANGED vars
    BY <2>1 DEF vars, Syncing, Syncs
  <2>2. CASE ClaimPass
    <3>1. /\ Pass \in Session /\ session'[Pass] = At("claimed", "pass", "analyze")
          /\ \A t \in Session \ {Pass} : session'[t] = session[t]
      BY <2>2 DEF ClaimPass, TypeOK, Session
    <3>2. Syncs(session'[Pass])
      BY <3>1, AtSyncs DEF Syncs
    <3>. QED BY <3>1, <3>2, SyncingStays
  <2>3. ASSUME NEW s \in Session, NEW q, Goto(s, q), q.by = "agent" PROVE Syncing'
    BY <2>3, SyncingGoes DEF Syncs
  <2>4. ASSUME NEW s \in Session, Open(s) PROVE Syncing'
    <3>1. PICK kind \in RequestKinds :
            LET q == At("enqueue", kind, row.current)
            IN  Goto(s, IF kind = "run" THEN q
                        ELSE With(q, IF kind = "cancel" THEN "cancel" ELSE "sync", row))
      BY <2>4 DEF Open
    <3>2. /\ At("enqueue", kind, row.current).by = "agent"
          /\ \A pc : With(At("enqueue", kind, row.current), pc, row).by = "agent"
      BY DEF With, At
    <3>. QED BY <2>3, <3>1, <3>2
  <2>5. ASSUME NEW s \in Session, Resolve(s) \/ Undo(s) \/ Guide(s) PROVE Syncing'
    <3>1. UNCHANGED session \/ \E pc, kind, stage : Goto(s, At(pc, kind, stage))
      BY <2>5 DEF Resolve, Undo, Guide
    <3>2. CASE UNCHANGED session
      BY <3>2 DEF Syncing, Syncs
    <3>. QED BY <2>3, <3>1, <3>2, AtSyncs
  <2>6. ASSUME NEW s \in Session, HandBack(s) \/ Enqueue(s) \/ Crash(s) PROVE Syncing'
    <3>1. session'[s] = Idle /\ \A t \in Session \ {s} : session'[t] = session[t]
      BY <2>6 DEF HandBack, Enqueue, Crash, TypeOK
    <3>2. Syncs(session'[s])
      BY <3>1 DEF Syncs, Idle
    <3>. QED BY <3>1, <3>2, SyncingStays
  <2>7. ASSUME NEW s \in Session, StartPass(s) PROVE Syncing'
    <3>1. /\ session[s].pc = "claimed" /\ session'[s] = Moved(s, "load")
          /\ \A t \in Session \ {s} : session'[t] = session[t]
      BY <2>7 DEF StartPass, TypeOK
    <3>2. Syncs(session[s])
      BY DEF Syncing
    <3>3. session'[s].by = session[s].by /\ session[s].by # "sync"
      BY <3>1, <3>2, MovedStands DEF Syncs
    <3>. QED BY <3>1, <3>3, SyncingStays DEF Syncs
  <2>8. ASSUME NEW s \in Session, NEW q, Goto(s, q), session[s].pc \in Plain \cup Copying,
               session[s].pc # "decline",
               q.by = session[s].by /\ q.stage = session[s].stage,
               session[s].pc \in {"complete_read", "complete", "next"} =>
                 q.pc \in {"complete_read", "complete", "next"} \/ session[s].by # "sync"
        PROVE Syncing'
    <3>1. Syncs(session[s])
      BY DEF Syncing
    <3>2. Syncs(q)
      BY <2>8, <3>1 DEF Syncs, Plain, Copying
    <3>. QED BY <2>8, <3>2, SyncingGoes
  <2>9. ASSUME NEW s \in Session,
               LoadPass(s) \/ BeginRead(s) \/ PauseRead(s) \/ CompleteRead(s) \/ Except(s) \/ UndoRead(s)
        PROVE Syncing'
    <3>1. /\ session[s].pc \in {"load", "begin_read", "pause_read", "complete_read", "except", "undo_read"}
          /\ \/ Leave(s, FALSE) \/ Leave(s, TRUE)
             \/ Goto(s, Moved(s, "except")) /\ (session[s].pc = "complete_read" => session[s].by # "sync")
             \/ \E pc : Goto(s, Refreshed(s, pc)) /\ (session[s].pc = "complete_read" => pc = "complete")
      BY <2>9 DEF LoadPass, BeginRead, PauseRead, CompleteRead, Except, UndoRead
    <3>2. CASE Leave(s, FALSE) \/ Leave(s, TRUE)
      BY <3>2, SyncingLeaves
    <3>3. CASE Goto(s, Moved(s, "except")) /\ (session[s].pc = "complete_read" => session[s].by # "sync")
      <4>1. Moved(s, "except").by = session[s].by /\ Moved(s, "except").stage = session[s].stage
        BY MovedStands
      <4>. QED BY <2>8, <3>1, <3>3, <4>1 DEF Plain
    <3>4. ASSUME NEW pc, Goto(s, Refreshed(s, pc)), session[s].pc = "complete_read" => pc = "complete"
          PROVE Syncing'
      <4>1. /\ Refreshed(s, pc).by = session[s].by /\ Refreshed(s, pc).stage = session[s].stage
            /\ Refreshed(s, pc).pc = pc
        BY MovedStands
      <4>. QED BY <2>8, <3>1, <3>4, <4>1 DEF Plain
    <3>. QED BY <3>1, <3>2, <3>3, <3>4
  <2>10. ASSUME NEW s \in Session, Sync(s) PROVE Syncing'
    <3>1. CASE Enter(s, session[s])
      BY <3>1, SyncingEnters
    <3>2. CASE ~Enter(s, session[s])
      <4> DEFINE c == session[s].copy
                 q == [Moved(s, "complete_read") EXCEPT !.stage = c.current, !.by = "sync"]
      <4>1. session[s].pc = "sync" /\ c.current \in {"review", "preview"} /\ Goto(s, q)
        BY <2>10, <3>2 DEF Sync
      <4>2. Moved(s, "complete_read").pc = "complete_read"
        BY MovedStands
      <4>3. Moved(s, "complete_read") \in PlainSessions
        BY <4>1, SessionIs DEF Moved, Without, PlainSessions, Plain, Copying
      <4>4. q.pc = "complete_read" /\ q.stage = c.current
        BY <4>2, <4>3 DEF PlainSessions
      <4>5. Syncs(q)
        BY <4>1, <4>4 DEF Syncs
      <4> HIDE DEF q
      <4>. QED BY <4>1, <4>5, SyncingGoes
    <3>. QED BY <3>1, <3>2
  <2>11. ASSUME NEW s \in Session,
                Analyze(s) \/ Review(s) \/ Preview(s) \/ Count(s) \/ Raise(s) \/ Push(s)
         PROVE Syncing'
    <3>1. session[s].pc \in {"work", "count"} /\ \E pc : Goto(s, Moved(s, pc))
      BY <2>11 DEF Analyze, Review, Preview, Count, Raise, Push
    <3>2. \A pc : Moved(s, pc).by = session[s].by /\ Moved(s, pc).stage = session[s].stage
      BY MovedStands
    <3>. QED BY <2>8, <3>1, <3>2 DEF Plain
  <2>12. ASSUME NEW s \in Session,
                Begin(s) \/ Pause(s) \/ Complete(s) \/ Fail(s) \/ Decline(s) \/ Cancel(s)
                \/ Settle(s) \/ UndoWrite(s)
         PROVE Syncing'
    <3>1. \/ Leave(s, FALSE) \/ Leave(s, TRUE)
          \/ session[s].pc = "begin" /\ Goto(s, Moved(s, "work"))
          \/ session[s].pc = "complete" /\ \E new : Goto(s, With(session[s], "next", new))
      BY <2>12 DEF Begin, Pause, Complete, Fail, Decline, Cancel, Settle, UndoWrite
    <3>2. CASE Leave(s, FALSE) \/ Leave(s, TRUE)
      BY <3>2, SyncingLeaves
    <3>3. CASE session[s].pc = "begin" /\ Goto(s, Moved(s, "work"))
      <4>1. Moved(s, "work").by = session[s].by /\ Moved(s, "work").stage = session[s].stage
        BY MovedStands
      <4>. QED BY <2>8, <3>3, <4>1 DEF Copying
    <3>4. ASSUME session[s].pc = "complete", NEW new, Goto(s, With(session[s], "next", new))
          PROVE Syncing'
      <4>1. /\ With(session[s], "next", new).by = session[s].by
            /\ With(session[s], "next", new).stage = session[s].stage
            /\ With(session[s], "next", new).pc = "next"
        BY DEF With
      <4>. QED BY <2>8, <3>4, <4>1 DEF Copying
    <3>. QED BY <3>1, <3>2, <3>3, <3>4
  <2>13. ASSUME NEW s \in Session, AdvanceStage(s) PROVE Syncing'
    <3> DEFINE q == With(session[s], "settle", Advanced(session[s]))
    <3>1. session[s].pc = "next" /\ session[s].by \in AnyBy /\ session[s].stage \in Stages
      BY <2>13, SessionIs DEF AdvanceStage, Copying
    <3>2. q.by = session[s].by /\ q.stage = session[s].stage
      BY DEF With
    <3>3. \/ Goto(s, q) /\ q.by = "agent"
          \/ Enter(s, q) \/ Return(s, q) \/ Leave(s, FALSE)
          \/ Goto(s, At("begin_read", q.kind, q.copy.current))
      BY <2>13, <3>1, <3>2 DEF AdvanceStage, AnyBy, Stages
    <3> HIDE DEF q
    <3>. QED BY <2>3, <3>3, AtSyncs, SyncingEnters, SyncingLeaves
  <2>. QED
    BY <2>1, <2>2, <2>4, <2>5, <2>6, <2>7, <2>9, <2>10, <2>11, <2>12, <2>13
    DEF Next, Step
<1>. QED BY <1>1, <1>2, Typing, PTL DEF Spec

----------------------------------------------------------------------------
(* COMPLETED over writes that failed or were undone.  Somebody is about to *)
(* correct it, or was lost before he could.                                *)
Settles(q) == q.pc = "settle"
Undoes(q) == \/ q.pc = "undo_read"
             \/ (q.pc = "undo" /\ q.copy.status # "ROLLED_BACK")

Told ==
  /\ \A s \in Session : Settles(session[s]) => session[s].copy.status = "COMPLETED"
  /\ row.status = "COMPLETED" /\ target = "FAILED" =>
       "settle" \in lost \/ \E s \in Session : Settles(session[s])
  /\ row.status = "COMPLETED" /\ target = "UNDONE" =>
       \/ lost \cap {"settle", "undo"} # {}
       \/ \E s \in Session : Settles(session[s]) \/ Undoes(session[s])

(* A session's step keeps it if the session does not leave the correction  *)
(* undone.                                                                 *)
LEMMA ToldStays ==
  ASSUME TypeOK, Told, NEW s \in Session,
         \A t \in Session \ {s} : session'[t] = session[t],
         lost \subseteq lost',
         Settles(session'[s]) => session'[s].copy.status = "COMPLETED",
         row'.status = "COMPLETED" /\ target' = "FAILED" =>
           \/ Settles(session'[s])
           \/ /\ row.status = "COMPLETED" /\ target = "FAILED"
              /\ Settles(session[s]) => "settle" \in lost',
         row'.status = "COMPLETED" /\ target' = "UNDONE" =>
           \/ Settles(session'[s]) \/ Undoes(session'[s])
           \/ /\ row.status = "COMPLETED" /\ target = "UNDONE"
              /\ Settles(session[s]) => "settle" \in lost'
              /\ Undoes(session[s]) => "undo" \in lost'
  PROVE  Told'
<1>1. ASSUME NEW t \in Session, Settles(session'[t]) PROVE session'[t].copy.status = "COMPLETED"
  <2>1. CASE t = s
    BY <1>1, <2>1
  <2>2. CASE t # s
    <3>1. session'[t] = session[t]
      BY <2>2
    <3>2. Settles(session[t])
      BY <1>1, <3>1 DEF Settles
    <3>. QED BY <3>1, <3>2 DEF Told
  <2>. QED BY <2>1, <2>2
<1>2. ASSUME row'.status = "COMPLETED", target' = "FAILED"
      PROVE  "settle" \in lost' \/ \E t \in Session : Settles(session'[t])
  <2>1. CASE Settles(session'[s])
    BY <2>1
  <2>2. CASE ~Settles(session'[s])
    <3>1. /\ row.status = "COMPLETED" /\ target = "FAILED"
          /\ Settles(session[s]) => "settle" \in lost'
      BY <1>2, <2>2
    <3>2. CASE "settle" \in lost
      BY <3>2
    <3>3. ASSUME NEW t \in Session, Settles(session[t])
          PROVE  "settle" \in lost' \/ \E u \in Session : Settles(session'[u])
      <4>1. CASE t = s
        BY <3>1, <3>3, <4>1
      <4>2. CASE t # s
        <5>1. session'[t] = session[t]
          BY <4>2
        <5>2. Settles(session'[t])
          BY <3>3, <5>1 DEF Settles
        <5>. QED BY <5>2
      <4>. QED BY <4>1, <4>2
    <3>. QED BY <3>1, <3>2, <3>3 DEF Told
  <2>. QED BY <2>1, <2>2
<1>3. ASSUME row'.status = "COMPLETED", target' = "UNDONE"
      PROVE  \/ lost' \cap {"settle", "undo"} # {}
             \/ \E t \in Session : Settles(session'[t]) \/ Undoes(session'[t])
  <2>1. CASE Settles(session'[s]) \/ Undoes(session'[s])
    BY <2>1
  <2>2. CASE ~(Settles(session'[s]) \/ Undoes(session'[s]))
    <3>1. /\ row.status = "COMPLETED" /\ target = "UNDONE"
          /\ Settles(session[s]) => "settle" \in lost'
          /\ Undoes(session[s]) => "undo" \in lost'
      BY <1>3, <2>2
    <3>2. CASE lost \cap {"settle", "undo"} # {}
      BY <3>2
    <3>3. ASSUME NEW t \in Session, Settles(session[t]) \/ Undoes(session[t])
          PROVE  \/ lost' \cap {"settle", "undo"} # {}
                 \/ \E u \in Session : Settles(session'[u]) \/ Undoes(session'[u])
      <4>1. CASE t = s
        BY <3>1, <3>3, <4>1
      <4>2. CASE t # s
        <5>1. session'[t] = session[t]
          BY <4>2
        <5>2. Settles(session'[t]) \/ Undoes(session'[t])
          BY <3>3, <5>1 DEF Settles, Undoes
        <5>. QED BY <5>2
      <4>. QED BY <4>1, <4>2
    <3>. QED BY <3>1, <3>2, <3>3 DEF Told
  <2>. QED BY <2>1, <2>2
<1>4. /\ \A t \in Session : Settles(session'[t]) => session'[t].copy.status = "COMPLETED"
      /\ row'.status = "COMPLETED" /\ target' = "FAILED" =>
           "settle" \in lost' \/ \E t \in Session : Settles(session'[t])
      /\ row'.status = "COMPLETED" /\ target' = "UNDONE" =>
           \/ lost' \cap {"settle", "undo"} # {}
           \/ \E t \in Session : Settles(session'[t]) \/ Undoes(session'[t])
  BY <1>1, <1>2, <1>3
<1>5. /\ \A t \in Session : Settles(session[t])' = Settles(session'[t])
      /\ \A t \in Session : Undoes(session[t])' = Undoes(session'[t])
  BY DEF Settles, Undoes
<1>. QED BY <1>4, <1>5 DEF Told

(* A session that corrects nothing and says COMPLETED of nothing new.      *)
LEMMA ToldStaysApart ==
  ASSUME TypeOK, Told, NEW s \in Session,
         \A t \in Session \ {s} : session'[t] = session[t],
         UNCHANGED <<target, lost>>,
         row'.status = "COMPLETED" => row.status = "COMPLETED",
         session[s].pc \notin {"settle", "undo_read", "undo"},
         session'[s].pc # "settle"
  PROVE  Told'
<1>1. ~Settles(session[s]) /\ ~Undoes(session[s]) /\ ~Settles(session'[s])
  BY DEF Settles, Undoes
<1>. QED BY <1>1, ToldStays

LEMMA PushedStatus ==
  ASSUME TypeOK, PushValid
  PROVE  row'.status = "COMPLETED" => target' \notin {"FAILED", "UNDONE"}
<1>1. row \in Rows /\ target' \in Effects /\ row' = Synced(row, target')
  BY DEF PushValid, TypeOK, Effects
<1>2. PICK held \in Effects : held = target'
  BY <1>1
<1>3. held \in {"FAILED", "UNDONE"} => Synced(row, held).status # "COMPLETED"
  BY <1>1 DEF Synced, Put, Rows
<1>. QED BY <1>1, <1>2, <1>3

(* The status a settling session commits. *)
LEMMA SettledStatus ==
  ASSUME TypeOK, NEW s \in Session, Settle(s), session[s].copy.status = "COMPLETED"
  PROVE  row'.status = "COMPLETED" => target \notin {"FAILED", "UNDONE"}
<1>1. session[s].copy \in Rows /\ target \in Effects
  BY SessionIs DEF Settle, Copying, TypeOK
<1>2. Save(s, Synced(session[s].copy, target))
  BY DEF Settle
<1>3. target \in {"FAILED", "UNDONE"} =>
        Synced(session[s].copy, target).status \notin {"COMPLETED", session[s].copy.status}
  BY <1>1 DEF Synced, Put, Rows
<1>. QED BY <1>2, <1>3, SavedStatus

LEMMA ToldInvariant == Spec => []Told
<1>1. Init => Told
  <2> SUFFICES ASSUME Init PROVE Told
    OBVIOUS
  <2>1. row.status = "ACTIVE"
    BY DEF Init, InitialRow
  <2>2. \A s \in Session : session[s].pc \in {"idle", "enqueue"}
    BY DEF Init, At, Idle
  <2>. QED BY <2>1, <2>2 DEF Told, Settles
<1>2. TypeOK /\ Syncing /\ Told /\ [Next]_vars => Told'
  <2> SUFFICES ASSUME TypeOK, Syncing, Told, [Next]_vars PROVE Told'
    OBVIOUS
  <2>1. CASE UNCHANGED vars
    BY <2>1 DEF vars, Told, Settles, Undoes
  <2>2. CASE ClaimPass
    <3>1. /\ Pass \in Session /\ UNCHANGED <<row, target, lost>>
          /\ session[Pass].pc \notin {"settle", "undo_read", "undo"}
          /\ session'[Pass].pc # "settle"
          /\ \A t \in Session \ {Pass} : session'[t] = session[t]
      <4>1. PassOf(Pass) = "none"
        BY <2>2 DEF ClaimPass, Queue!Claim
      <4>2. session[Pass] = Idle
        BY <4>1, SessionIs DEF PassOf, Session
      <4>. QED BY <2>2, <4>2 DEF ClaimPass, TypeOK, At, Session, Idle
    <3>. QED BY <3>1, ToldStaysApart
  <2>3. ASSUME NEW s \in Session, Open(s) \/ Resolve(s) PROVE Told'
    <3>1. PICK q : Goto(s, q) /\ q.pc \in {"enqueue", "cancel", "sync"}
      <4>1. \A kind, stage : At("enqueue", kind, stage).pc = "enqueue"
        BY DEF At
      <4>2. CASE Resolve(s)
        BY <4>1, <4>2 DEF Resolve
      <4>3. CASE Open(s)
        <5>1. PICK kind \in RequestKinds :
                LET q == At("enqueue", kind, row.current)
                IN  Goto(s, IF kind = "run" THEN q
                            ELSE With(q, IF kind = "cancel" THEN "cancel" ELSE "sync", row))
          BY <4>3 DEF Open
        <5>2. \A pc : With(At("enqueue", kind, row.current), pc, row).pc = pc
          BY DEF With
        <5>. QED BY <4>1, <5>1, <5>2
      <4>. QED BY <2>3, <4>2, <4>3
    <3>2. session[s].pc = "idle" /\ UNCHANGED <<row, target, lost>>
      BY <2>3 DEF Open, Resolve, Idle
    <3>3. session'[s].pc # "settle" /\ \A t \in Session \ {s} : session'[t] = session[t]
      BY <3>1, Elsewhere
    <3>. QED BY <3>2, <3>3, ToldStaysApart
  <2>4. ASSUME NEW s \in Session, Guide(s) PROVE Told'
    <3>1. UNCHANGED session \/ Goto(s, At("enqueue", "guide", row.current))
      BY <2>4 DEF Guide
    <3>2. session[s] = Idle /\ UNCHANGED lost /\ (UNCHANGED <<row, target>> \/ PushValid)
      BY <2>4 DEF Guide
    <3>3. /\ session'[s].pc \in {"idle", "enqueue"}
          /\ \A t \in Session \ {s} : session'[t] = session[t]
      BY <3>1, <3>2, Elsewhere DEF At, Idle
    <3>4. ~Settles(session[s]) /\ ~Undoes(session[s]) /\ ~Settles(session'[s])
      BY <3>2, <3>3 DEF Settles, Undoes, Idle
    <3>5. CASE UNCHANGED <<row, target>>
      BY <3>2, <3>3, <3>4, <3>5, ToldStays
    <3>6. CASE PushValid
      BY <3>2, <3>3, <3>4, <3>6, PushedStatus, ToldStays
    <3>. QED BY <3>2, <3>5, <3>6
  <2>5. ASSUME NEW s \in Session, Undo(s) PROVE Told'
    <3>1. /\ Goto(s, At("undo_read", "undo", "push")) /\ session[s] = Idle
          /\ UNCHANGED <<row, lost>>
          /\ target' = "FAILED" => target = "FAILED"
      BY <2>5 DEF Undo
    <3>2. /\ session'[s].pc = "undo_read"
          /\ \A t \in Session \ {s} : session'[t] = session[t]
      BY <3>1, Elsewhere DEF At
    <3>3. ~Settles(session[s]) /\ ~Settles(session'[s]) /\ Undoes(session'[s])
      BY <3>1, <3>2 DEF Settles, Undoes, Idle
    <3>. QED BY <3>1, <3>2, <3>3, ToldStays
  <2>6. ASSUME NEW s \in Session, StartPass(s) \/ HandBack(s) \/ Enqueue(s) PROVE Told'
    <3>1. /\ session'[s].pc \in {"load", "idle"}
          /\ session[s].pc \in {"claimed", "hand_back", "enqueue"}
          /\ \A t \in Session \ {s} : session'[t] = session[t]
          /\ UNCHANGED <<row, target, lost>>
      BY <2>6 DEF StartPass, HandBack, Enqueue, Idle, Moved, Without, TypeOK
    <3>. QED BY <3>1, ToldStaysApart
  <2>7. ASSUME NEW s \in Session,
               LoadPass(s) \/ BeginRead(s) \/ PauseRead(s) \/ CompleteRead(s) \/ Except(s)
        PROVE Told'
    <3>1. /\ UNCHANGED <<row, target, lost>>
          /\ session[s].pc \in {"load", "begin_read", "pause_read", "complete_read", "except"}
      BY <2>7 DEF LoadPass, BeginRead, PauseRead, CompleteRead, Except
    <3>2. \/ Leave(s, FALSE) \/ Leave(s, TRUE)
          \/ Goto(s, Moved(s, "except"))
          \/ \E pc \in {"sync", "begin", "fail", "pause", "complete"} : Goto(s, Refreshed(s, pc))
      BY <2>7 DEF LoadPass, BeginRead, PauseRead, CompleteRead, Except
    <3>3. session'[s].pc # "settle" /\ \A t \in Session \ {s} : session'[t] = session[t]
      <4>1. /\ Moved(s, "except").pc = "except"
            /\ \A pc \in {"sync", "begin", "fail", "pause", "complete"} : Refreshed(s, pc).pc = pc
        BY MovedStands
      <4>2. CASE Leave(s, FALSE) \/ Leave(s, TRUE)
        BY <4>2, LeavingElsewhere
      <4>3. CASE ~(Leave(s, FALSE) \/ Leave(s, TRUE))
        <5>1. PICK q : Goto(s, q) /\ q.pc # "settle"
          BY <3>2, <4>1, <4>3
        <5>. QED BY <5>1, Elsewhere
      <4>. QED BY <4>2, <4>3
    <3>. QED BY <3>1, <3>3, ToldStaysApart
  <2>8. ASSUME NEW s \in Session, Sync(s) PROVE Told'
    <3>1. session[s].pc = "sync" /\ UNCHANGED <<row, target, lost>>
      BY <2>8 DEF Sync
    <3>2. session'[s].pc # "settle" /\ \A t \in Session \ {s} : session'[t] = session[t]
      <4>1. CASE Enter(s, session[s])
        BY <4>1, EnteringElsewhere
      <4>2. CASE Goto(s, [Moved(s, "complete_read") EXCEPT !.stage = session[s].copy.current,
                                                           !.by = "sync"])
        <5> DEFINE q == [Moved(s, "complete_read") EXCEPT !.stage = session[s].copy.current,
                                                          !.by = "sync"]
        <5>1. Moved(s, "complete_read").pc = "complete_read" /\ Goto(s, q)
          BY <4>2, MovedStands
        <5>2. Moved(s, "complete_read") \in PlainSessions
          BY <3>1, SessionIs DEF Moved, Without, PlainSessions, Plain, Copying
        <5>3. q.pc = "complete_read"
          BY <5>1, <5>2 DEF PlainSessions
        <5> HIDE DEF q
        <5>. QED BY <5>1, <5>3, Elsewhere
      <4>. QED BY <2>8, <4>1, <4>2 DEF Sync
    <3>. QED BY <3>1, <3>2, ToldStaysApart
  <2>9. ASSUME NEW s \in Session,
               Analyze(s) \/ Review(s) \/ Preview(s) \/ Count(s) \/ Raise(s)
        PROVE Told'
    <3>1. /\ UNCHANGED <<row, target, lost>> /\ session[s].pc \in {"work", "count"}
          /\ \E pc \in {"complete_read", "pause_read", "count", "except"} : Goto(s, Moved(s, pc))
      BY <2>9 DEF Analyze, Review, Preview, Count, Raise
    <3>2. session'[s].pc # "settle" /\ \A t \in Session \ {s} : session'[t] = session[t]
      BY <3>1, MovedStands, Elsewhere
    <3>. QED BY <3>1, <3>2, ToldStaysApart
  <2>10. ASSUME NEW s \in Session, Push(s) PROVE Told'
    <3>1. /\ session[s].pc = "work" /\ UNCHANGED lost
          /\ UNCHANGED <<row, target>> \/ PushValid
          /\ \E pc \in {"complete_read", "except"} : Goto(s, Moved(s, pc))
      BY <2>10 DEF Push
    <3>2. session'[s].pc # "settle" /\ \A t \in Session \ {s} : session'[t] = session[t]
      BY <3>1, MovedStands, Elsewhere
    <3>3. ~Settles(session[s]) /\ ~Undoes(session[s]) /\ ~Settles(session'[s])
      BY <3>1, <3>2 DEF Settles, Undoes
    <3>4. CASE UNCHANGED <<row, target>>
      BY <3>1, <3>2, <3>3, <3>4, ToldStays
    <3>5. CASE PushValid
      BY <3>1, <3>2, <3>3, <3>5, PushedStatus, ToldStays
    <3>. QED BY <3>1, <3>4, <3>5
  <2>11. ASSUME NEW s \in Session,
                Begin(s) \/ Pause(s) \/ Complete(s) \/ Fail(s) \/ Decline(s) \/ Cancel(s)
         PROVE Told'
    <3>1. /\ UNCHANGED <<target, lost>>
          /\ session[s].pc \in {"begin", "pause", "complete", "fail", "decline", "cancel"}
      BY <2>11 DEF Begin, Pause, Complete, Fail, Decline, Cancel
    <3>2. row'.status = "COMPLETED" => row.status = "COMPLETED"
      BY <2>11, CommittedStatus
    <3>3. \/ Leave(s, FALSE) \/ Leave(s, TRUE) \/ Goto(s, Moved(s, "work"))
          \/ \E new : Goto(s, With(session[s], "next", new))
      BY <2>11 DEF Begin, Pause, Complete, Fail, Decline, Cancel
    <3>4. \A new : With(session[s], "next", new).pc = "next"
      BY DEF With
    <3>5. session'[s].pc # "settle" /\ \A t \in Session \ {s} : session'[t] = session[t]
      <4>1. Moved(s, "work").pc = "work"
        BY MovedStands
      <4>2. CASE Leave(s, FALSE) \/ Leave(s, TRUE)
        BY <4>2, LeavingElsewhere
      <4>3. CASE ~(Leave(s, FALSE) \/ Leave(s, TRUE))
        <5>1. PICK q : Goto(s, q) /\ q.pc # "settle"
          BY <3>3, <3>4, <4>1, <4>3
        <5>. QED BY <5>1, Elsewhere
      <4>. QED BY <4>2, <4>3
    <3>. QED BY <3>1, <3>2, <3>5, ToldStaysApart
  <2>12. ASSUME NEW s \in Session, AdvanceStage(s) PROVE Told'
    <3> DEFINE q == With(session[s], "settle", Advanced(session[s]))
    <3>1. session[s].pc = "next" /\ Save(s, q.copy) /\ UNCHANGED <<target, lost>>
      BY <2>12 DEF AdvanceStage
    <3>2. session[s].copy \in Rows /\ session[s].stage \in Stages /\ session[s].by \in AnyBy
      BY <3>1, SessionIs DEF Copying
    <3>3. /\ q.pc = "settle" /\ q.by \in AnyBy /\ q.stage = session[s].stage
          /\ q.by = session[s].by
      BY <3>2 DEF With
    <3>4. \/ session[s].stage = "push" /\ q.copy.status = "COMPLETED"
          \/ q.copy.status \in {session[s].copy.status, "ACTIVE", "AWAITING_PUSH_DECISION"}
      BY <3>2 DEF With, Advanced, Put, Rows, Stages
    <3>5. session[s].stage = "push" => q.copy.status = "COMPLETED"
      BY <3>2 DEF With, Advanced, Put, Rows, Stages
    <3>6. \/ Goto(s, q) /\ q.stage = "push"
          \/ Enter(s, q) \/ Return(s, q) \/ Leave(s, FALSE)
          \/ Goto(s, At("begin_read", q.kind, q.copy.current))
      BY <2>12, <3>2, <3>3 DEF AdvanceStage, AnyBy, Stages
    <3> HIDE DEF q
    <3>7. CASE Goto(s, q) /\ q.stage = "push"
      <4>1. session'[s] = q /\ \A t \in Session \ {s} : session'[t] = session[t]
        BY <3>7, Elsewhere
      <4>2. Settles(session'[s]) /\ session'[s].copy.status = "COMPLETED"
        BY <3>3, <3>5, <3>7, <4>1 DEF Settles
      <4>. QED BY <3>1, <4>1, <4>2, ToldStays
    <3>8. CASE ~(Goto(s, q) /\ q.stage = "push")
      <4>1. session'[s].pc # "settle" /\ \A t \in Session \ {s} : session'[t] = session[t]
        <5>1. CASE Enter(s, q) \/ Return(s, q)
          BY <5>1, EnteringElsewhere
        <5>2. At("begin_read", q.kind, q.copy.current).pc = "begin_read"
          BY DEF At
        <5>. QED BY <3>6, <3>8, <5>1, <5>2, LeavingElsewhere, Elsewhere
      <4>2. session[s].stage # "push"
        <5>1. q.stage = "push" /\ q.by = "agent" => Goto(s, q)
          BY <2>12 DEF AdvanceStage, q
        <5>2. q.stage = "push" => q.by = "agent"
          BY <3>1, <3>3 DEF Syncing, Syncs, AnyBy
        <5>. QED BY <3>3, <3>8, <5>1, <5>2
      <4>3. row'.status = "COMPLETED" => row.status = "COMPLETED"
        BY <3>1, <3>4, <4>2, SavedStatus
      <4>. QED BY <3>1, <4>1, <4>3, ToldStaysApart
    <3>. QED BY <3>7, <3>8
  <2>13. ASSUME NEW s \in Session, Settle(s) PROVE Told'
    <3>1. session[s].pc = "settle" /\ UNCHANGED <<target, lost>> /\ Leave(s, FALSE)
      BY <2>13 DEF Settle
    <3>2. row'.status = "COMPLETED" => target \notin {"FAILED", "UNDONE"}
      BY <2>13, <3>1, SettledStatus DEF Told, Settles
    <3>3. session'[s].pc # "settle" /\ \A t \in Session \ {s} : session'[t] = session[t]
      BY <3>1, LeavingElsewhere
    <3>. QED BY <3>1, <3>2, <3>3, ToldStays DEF Settles
  <2>14. ASSUME NEW s \in Session, UndoRead(s) PROVE Told'
    <3>1. session[s].pc = "undo_read" /\ UNCHANGED <<row, target, lost>> /\ Goto(s, Refreshed(s, "undo"))
      BY <2>14 DEF UndoRead
    <3>2. /\ session'[s].pc = "undo" /\ session'[s].copy = row
          /\ \A t \in Session \ {s} : session'[t] = session[t]
      BY <3>1, MovedStands, Elsewhere
    <3>3. ~Settles(session[s]) /\ ~Settles(session'[s])
      BY <3>1, <3>2 DEF Settles
    <3>4. row.status = "COMPLETED" => Undoes(session'[s])
      BY <3>2 DEF Undoes
    <3>. QED BY <3>1, <3>2, <3>3, <3>4, ToldStays
  <2>15. ASSUME NEW s \in Session, UndoWrite(s) PROVE Told'
    <3> DEFINE new == Put([session[s].copy EXCEPT !.status = "ROLLED_BACK"],
                          "push", "ROLLED_BACK", "reviewer")
    <3>1. session[s].pc = "undo" /\ UNCHANGED <<target, lost>> /\ Leave(s, FALSE) /\ Save(s, new)
      BY <2>15 DEF UndoWrite
    <3>2. new.status = "ROLLED_BACK"
      BY <3>1, SessionIs DEF Put, Rows, Copying
    <3> HIDE DEF new
    <3>3. row'.status = "COMPLETED" =>
            row.status = "COMPLETED" /\ session[s].copy.status = "ROLLED_BACK"
      BY <3>1, <3>2, SavedStatus
    <3>4. session'[s].pc # "settle" /\ \A t \in Session \ {s} : session'[t] = session[t]
      BY <3>1, LeavingElsewhere
    <3>5. ~Settles(session[s]) /\ ~Settles(session'[s])
      BY <3>1, <3>4 DEF Settles
    <3>6. row'.status = "COMPLETED" => ~Undoes(session[s])
      BY <3>1, <3>3 DEF Undoes
    <3>. QED BY <3>1, <3>3, <3>4, <3>5, <3>6, ToldStays
  <2>16. ASSUME NEW s \in Session, Crash(s) PROVE Told'
    <3>1. /\ session'[s] = Idle /\ \A t \in Session \ {s} : session'[t] = session[t]
          /\ UNCHANGED <<row, target>> /\ lost' = lost \cup LeftUndone(session[s])
      BY <2>16 DEF Crash, TypeOK
    <3>2. Settles(session[s]) => "settle" \in lost'
      BY <3>1 DEF Settles, LeftUndone
    <3>3. Undoes(session[s]) => "undo" \in lost'
      BY <3>1 DEF Undoes, LeftUndone
    <3>4. ~Settles(session'[s])
      BY <3>1 DEF Settles, Idle
    <3>. QED BY <3>1, <3>2, <3>3, <3>4, ToldStays
  <2>. QED
    BY <2>1, <2>2, <2>3, <2>4, <2>5, <2>6, <2>7, <2>8, <2>9, <2>10, <2>11, <2>12, <2>13, <2>14,
       <2>15, <2>16
    DEF Next, Step
<1>. QED BY <1>1, <1>2, Typing, SyncingInvariant, PTL DEF Spec

(* When nobody is at work, COMPLETED is not said of a push with failed or  *)
(* undone writes: whoever says it in decide_push derives the status from   *)
(* the target's records next (pipeline.py:273), and an undo its own.       *)
THEOREM CompletionsTell == Spec => []CompletedTellsTheTarget
<1>1. Told => CompletedTellsTheTarget
  <2> SUFFICES ASSUME Told, Nobody PROVE ~(\E s \in Session : Settles(session[s]) \/ Undoes(session[s]))
    BY DEF Told, CompletedTellsTheTarget
  <2>. QED BY DEF Nobody, Idle, Settles, Undoes
<1>. QED BY <1>1, ToldInvariant, PTL
=============================================================================
