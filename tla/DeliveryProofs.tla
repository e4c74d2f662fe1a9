--------------------------- MODULE DeliveryProofs ---------------------------
(* Proofs of what an Autopilot migration promises when nobody is at work   *)
(* on it: it is not left ACTIVE, and a decided review is not left PAUSED.  *)
(* They are about any number of requests and losses, but about requests    *)
(* that leave the stages to the pass: a poll may move the row itself.      *)
EXTENDS PipelineProofs

(* The requests that do not write the stages, and undos of what was sent.  *)
Unpolled ==
  Kinds \subseteq {"run", "resolve", "undo", "guide"} /\ "NONE" \notin UndoWhen

Working == {"begin_read", "begin", "work", "count", "pause_read", "pause", "complete_read",
            "complete", "next", "except", "fail"}
Holding == {"sync", "begin", "pause", "complete", "next", "settle", "fail"}
Delivering == {"work", "complete_read", "complete", "next", "except", "fail"}
PassPcs == {"idle", "hand_back", "claimed", "load", "sync", "settle"} \cup Working

(* A pass q knows where the row r is.  Until the row says push nobody else *)
(* writes it, so that the copy is the row; then an undo may.               *)
Fits(q, r) ==
  /\ q.pc \in PassPcs
  /\ q.pc \notin {"idle", "hand_back"} => q.kind = "pass"
  /\ q.pc \in Holding => IF r.current # "push" THEN q.copy = r
                         ELSE q.copy.current = "push" /\ r.status \in {q.copy.status, "ROLLED_BACK"}
  /\ q.pc \in Working => q.stage = r.current
  /\ q.pc = "settle" => r.current = "push"
  /\ q.pc \in {"pause_read", "pause"} => q.stage \in {"review", "preview"}
  /\ q.pc = "count" => q.stage = "preview"

Pushing(q) == q.pc \in Delivering /\ q.stage = "push"

(* What a row r says with held at the target. *)
Says(r, held) ==
  /\ held # "NONE" => r.current = "push"
  /\ r.status = "PAUSED" => r.current \in {"review", "preview"}
  /\ r.status = "ACTIVE" /\ r.current # "push" => Is(r, r.current) # "NEEDS_REVIEW"

Asks(q) == q.pc = "enqueue"
Asked == "enqueue" \in lost \/ \E r \in Request : Asks(session[r])

(* Requests only ask for a pass, or undo. *)
RequestFits(q, held) ==
  /\ q.pc \in {"idle", "enqueue", "undo_read", "undo"}
  /\ q.pc = "enqueue" => q.kind \in {"upload", "run", "resolve"}
  /\ q.pc \in {"undo_read", "undo"} => held # "NONE"

Claimable == jobStatus \in {"QUEUED", "RUNNING"}

PushIsPursued ==
  row.status = "ACTIVE" /\ row.current = "push" => "push" \in lost \/ Pushing(session[Pass])

WorkIsPursued ==
  row.status = "ACTIVE" /\ row.current # "push" =>
    /\ session[Pass].pc # "hand_back"
    /\ \/ Claimable \/ "enqueue" \in lost
       \/ \E r \in Request : Asks(session[r]) /\ session[r].kind # "resolve"

DecisionIsPursued ==
  row.status = "PAUSED" /\ workflow = "COMPLETED" =>
    \/ Asked \/ missed
    \/ Claimable /\ (session[Pass].pc = "hand_back" => session[Pass].ends = "QUEUED")

PauseIsAsked ==
  session[Pass].pc \in {"pause_read", "pause"} /\ workflow = "COMPLETED" => owed \/ Asked

Delivers ==
  /\ \A r \in Request : RequestFits(session[r], target)
  /\ Fits(session[Pass], row) /\ (session[Pass].pc # "idle" => jobStatus = "RUNNING")
  /\ Says(row, target) /\ (row.status = "PAUSED" => jobStatus # "NONE")
  /\ PushIsPursued /\ WorkIsPursued /\ DecisionIsPursued /\ PauseIsAsked

----------------------------------------------------------------------------
(* Steps of the pass *)

(* What a step of the pass owes, on the way or at its end. *)
LEMMA PassStays ==
  ASSUME Delivers, NEW q, q = session'[Pass],
         \A r \in Request : session'[r] = session[r],
         UNCHANGED <<jobStatus, owed, missed, lost>>,
         session[Pass].pc # "idle", target # "NONE" => target' # "NONE",
         Fits(q, row'), Says(row', target'),
         row'.status = "ACTIVE" /\ row'.current = "push" =>
           \/ Pushing(q)
           \/ row.status = "ACTIVE" /\ row.current = "push" /\ ~Pushing(session[Pass]),
         q.pc = "hand_back" =>
           /\ row'.status = "ACTIVE" => row'.current = "push"
           /\ row'.status = "PAUSED" /\ workflow' = "COMPLETED" => q.ends = "QUEUED" \/ Asked,
         q.pc \in {"pause_read", "pause"} /\ workflow' = "COMPLETED" =>
           session[Pass].pc \in {"pause_read", "pause"} /\ workflow = "COMPLETED"
  PROVE  Delivers'
<1>1. jobStatus = "RUNNING" /\ jobStatus' = "RUNNING"
  BY DEF Delivers
<1>2. \A r \in Request : RequestFits(session'[r], target')
  BY DEF Delivers, RequestFits
<1>3. Asked => Asked'
  BY DEF Asked, Asks
<1>4. PushIsPursued'
  BY DEF Delivers, PushIsPursued, Pushing
<1>5. WorkIsPursued'
  BY <1>1 DEF WorkIsPursued, Claimable
<1>6. DecisionIsPursued'
  BY <1>1, <1>3 DEF DecisionIsPursued, Claimable
<1>7. PauseIsAsked'
  BY <1>3 DEF Delivers, PauseIsAsked
<1>8. Fits(session[Pass], row)' /\ Says(row, target)'
  BY DEF Fits, Says, Is
<1>9. \A r \in Request : RequestFits(session[r], target)'
  BY <1>2 DEF RequestFits
<1>. QED BY <1>1, <1>4, <1>5, <1>6, <1>7, <1>8, <1>9 DEF Delivers

(* A step on the way, that leaves the row alone. *)
LEMMA PassGoes ==
  ASSUME TypeOK, Delivers, NEW q, Goto(Pass, q), UNCHANGED <<row, target, lost>>,
         session[Pass].pc # "idle", q.pc # "hand_back", Fits(q, row),
         Pushing(session[Pass]) => Pushing(q),
         q.pc \in {"pause_read", "pause"} /\ workflow' = "COMPLETED" =>
           session[Pass].pc \in {"pause_read", "pause"} /\ workflow = "COMPLETED"
  PROVE  Delivers'
<1>1. /\ Pass \in Session /\ session'[Pass] = q
      /\ \A r \in Request : session'[r] = session[r]
      /\ UNCHANGED <<jobStatus, owed, missed>>
  BY SessionAssumption, Elsewhere DEF Session, Goto, job
<1>2. Says(row', target') /\ Fits(q, row')
  BY DEF Delivers
<1>. QED BY <1>1, <1>2, PassStays

(* The end of a pass. *)
LEMMA PassLeaves ==
  ASSUME TypeOK, Delivers, NEW failed \in BOOLEAN, Leave(Pass, failed),
         UNCHANGED <<target, workflow, lost>>,
         session[Pass].pc # "idle", Says(row', target'),
         row'.status = "ACTIVE" =>
           /\ row'.current = "push"
           /\ row.status = "ACTIVE" /\ row.current = "push" /\ ~Pushing(session[Pass]),
         row'.status = "PAUSED" /\ workflow = "COMPLETED" => owed \/ Asked
  PROVE  Delivers'
<1>1. PICK ends \in {"QUEUED", "WAITING", "FAILED"} :
        session' = [session EXCEPT ![Pass] = HandingBack(ends)] /\ (owed => ends = "QUEUED")
  <2>1. PICK ends \in {"QUEUED", IF failed THEN "FAILED" ELSE "WAITING"} :
          session' = [session EXCEPT ![Pass] = HandingBack(ends)]
    BY DEF Leave
  <2>2. Queue!Finish(Pass)
    BY DEF Leave
  <2>3. owed => ends = "QUEUED"
    <3>1. PICK e \in IF owed THEN {"QUEUED"} ELSE {"WAITING", "FAILED"} :
            [t \in {Pass} |-> PassOf(t)]' = [[t \in {Pass} |-> PassOf(t)] EXCEPT ![Pass] = e]
      BY <2>2 DEF Queue!Finish
    <3>2. PassOf(Pass)' = e
      BY <3>1
    <3>3. session'[Pass] = HandingBack(ends)
      BY <2>1 DEF TypeOK, Session
    <3>4. PassOf(Pass)' = ends
      BY <3>3 DEF PassOf, HandingBack, Idle
    <3>. QED BY <3>1, <3>2, <3>4
  <2>. QED BY <2>1, <2>3
<1>2. /\ session'[Pass] = HandingBack(ends)
      /\ \A r \in Request : session'[r] = session[r]
  BY <1>1, SessionAssumption DEF TypeOK, Session
<1>3. UNCHANGED <<jobStatus, owed, missed>>
  BY DEF Leave, Queue!Finish
<1>4. /\ HandingBack(ends).pc = "hand_back" /\ HandingBack(ends).ends = ends
      /\ Fits(HandingBack(ends), row')
  BY DEF HandingBack, Fits, PassPcs, Holding, Working
<1>. QED BY <1>1, <1>2, <1>3, <1>4, PassStays

(* The commit of a copy that is the row, and of one once the row says push.*)
LEMMA CommitsWhole ==
  ASSUME NEW s \in Session, NEW new \in Rows, session[s].copy = row, Save(s, new)
  PROVE  row' = new
  BY DEF Save, Write, Rows

LEMMA CommitsAtPush ==
  ASSUME NEW s \in Session, NEW new, session[s].copy.current = "push", new.current = "push",
         row.current = "push", row.status \in {session[s].copy.status, "ROLLED_BACK"}, Save(s, new)
  PROVE  /\ row'.current = "push"
         /\ row'.status \in {new.status, "ROLLED_BACK"}
         /\ row'.status = IF new.status = session[s].copy.status THEN row.status ELSE new.status
  BY DEF Save, Write

(* Where the pass stands with its copy. *)
LEMMA PassHolds ==
  ASSUME TypeOK, Delivers, session[Pass].pc \in Holding
  PROVE  /\ Pass \in Session /\ session[Pass].copy \in Rows /\ row \in Rows
         /\ session[Pass].kind = "pass" /\ session[Pass].stage \in Stages /\ session[Pass].by \in AnyBy
         /\ jobStatus = "RUNNING"
         /\ row.current # "push" => session[Pass].copy = row
         /\ row.current = "push" => /\ session[Pass].copy.current = "push"
                                    /\ row.status \in {session[Pass].copy.status, "ROLLED_BACK"}
         /\ session[Pass].copy.current = "push" <=> row.current = "push"
<1>1. Pass \in Session /\ session[Pass].pc \in Copying
  BY DEF Session, Holding, Copying
<1>2. PICK q : q = session[Pass]
  OBVIOUS
<1>3. Fits(q, row)
  BY <1>2 DEF Delivers
<1>4. q.pc \notin {"idle", "hand_back"} /\ q.pc \in Holding
  BY <1>2 DEF Holding
<1>. QED BY <1>1, <1>2, <1>3, <1>4, SessionIs DEF Fits, Delivers, TypeOK

(* Where Enter leads the pass of an Autopilot migration with its copy c.   *)
LEMMA PassEnters ==
  ASSUME mode = "AUTOPILOT", NEW q, q.kind = "pass",
         EnterPush(Pass, q) \/ Return(Pass, q) \/ Enter(Pass, q)
  PROVE  \/ /\ Leave(Pass, TRUE) \/ Leave(Pass, FALSE)
            /\ Enter(Pass, q) => \/ q.copy.status \in Final \/ q.copy.current = "push"
                                 \/ Is(q.copy, q.copy.current) = "NEEDS_REVIEW"
         \/ q.copy.current = "push" /\ Goto(Pass, At("begin_read", "pass", "push"))
         \/ q.copy.current # "push" /\ Enter(Pass, q)
              /\ Goto(Pass, At("begin_read", "pass", q.copy.current))
<1>1. EnterPush(Pass, q) => \/ Leave(Pass, TRUE)
                            \/ q.copy.current = "push" /\ Goto(Pass, At("begin_read", "pass", "push"))
  BY DEF EnterPush
<1>2. Return(Pass, q) => EnterPush(Pass, q) \/ Leave(Pass, FALSE)
  BY DEF Return
<1>3. Enter(Pass, q) =>
        \/ Return(Pass, q) /\ (q.copy.status \in Final \/ q.copy.current = "push"
                                    \/ Is(q.copy, q.copy.current) = "NEEDS_REVIEW")
        \/ q.copy.current # "push" /\ Goto(Pass, At("begin_read", "pass", q.copy.current))
  BY DEF Enter
<1>. QED BY <1>1, <1>2, <1>3

LEMMA BeginningFits ==
  ASSUME NEW r, NEW stage, stage = r.current
  PROVE  /\ Fits(At("begin_read", "pass", stage), r)
         /\ At("begin_read", "pass", stage).pc = "begin_read"
         /\ At("begin_read", "pass", stage).stage = stage
  BY DEF At, Fits, PassPcs, Working, Holding

(* A pass that moves on without a copy, or that refreshes it. *)
LEMMA MovingFits ==
  ASSUME Delivers, session[Pass].pc \notin {"idle", "hand_back"},
         NEW pc \in PassPcs \ {"idle", "hand_back"},
         pc \in Working => session[Pass].stage = row.current,
         pc = "settle" => row.current = "push",
         pc \in {"pause_read", "pause"} => session[Pass].stage \in {"review", "preview"},
         pc = "count" => session[Pass].stage = "preview"
  PROVE  /\ pc \notin Holding => Fits(Moved(Pass, pc), row)
         /\ Fits(Refreshed(Pass, pc), row)
         /\ Moved(Pass, pc).pc = pc /\ Moved(Pass, pc).stage = session[Pass].stage
         /\ Refreshed(Pass, pc).pc = pc /\ Refreshed(Pass, pc).stage = session[Pass].stage
<1>1. session[Pass].kind = "pass"
  BY DEF Delivers, Fits
<1>2. /\ Moved(Pass, pc).pc = pc /\ Moved(Pass, pc).stage = session[Pass].stage
      /\ Moved(Pass, pc).kind = "pass"
  BY <1>1 DEF Moved, Without
<1>3. /\ Refreshed(Pass, pc).pc = pc /\ Refreshed(Pass, pc).stage = session[Pass].stage
      /\ Refreshed(Pass, pc).kind = "pass" /\ Refreshed(Pass, pc).copy = row
  BY <1>1 DEF Refreshed, With
<1>. QED BY <1>2, <1>3 DEF Fits

LEMMA ReadsDeliver ==
  ASSUME TypeOK, Delivers,
         LoadPass(Pass) \/ BeginRead(Pass) \/ PauseRead(Pass) \/ CompleteRead(Pass) \/ Except(Pass)
  PROVE  Delivers'
<1>1. /\ UNCHANGED <<row, target, workflow, lost>>
      /\ session[Pass].pc \in {"load", "begin_read", "pause_read", "complete_read", "except"}
  BY DEF LoadPass, BeginRead, PauseRead, CompleteRead, Except
<1>2. session[Pass].pc # "load" => session[Pass].stage = row.current
  BY <1>1 DEF Delivers, Fits, Working
<1>3. session[Pass].pc = "pause_read" => session[Pass].stage \in {"review", "preview"}
  BY DEF Delivers, Fits
<1>4. \/ (Leave(Pass, FALSE) \/ Leave(Pass, TRUE)) /\ row.status \in Final
      \/ Goto(Pass, Moved(Pass, "except")) /\ session[Pass].pc \in {"begin_read", "complete_read"}
      \/ \E pc \in {"sync", "begin", "pause", "complete", "fail"} :
           /\ Goto(Pass, Refreshed(Pass, pc))
           /\ <<session[Pass].pc, pc>> \in {<<"load", "sync">>, <<"begin_read", "begin">>,
                <<"pause_read", "pause">>, <<"complete_read", "complete">>, <<"except", "fail">>}
  BY DEF LoadPass, BeginRead, PauseRead, CompleteRead, Except, Final
<1>5. CASE (Leave(Pass, FALSE) \/ Leave(Pass, TRUE)) /\ row.status \in Final
  <2>1. row'.status \notin {"ACTIVE", "PAUSED"} /\ session[Pass].pc # "idle"
    BY <1>1, <1>5 DEF Final
  <2>2. Says(row', target')
    BY <1>1 DEF Delivers
  <2>. QED BY <1>1, <1>5, <2>1, <2>2, PassLeaves
<1>6. CASE Goto(Pass, Moved(Pass, "except")) /\ session[Pass].pc \in {"begin_read", "complete_read"}
  <2>1. /\ Fits(Moved(Pass, "except"), row) /\ Moved(Pass, "except").pc = "except"
        /\ Moved(Pass, "except").stage = session[Pass].stage
    BY <1>2, <1>6, MovingFits DEF PassPcs, Working, Holding
  <2>2. PICK q : q = Moved(Pass, "except")
    OBVIOUS
  <2>. QED BY <1>1, <1>6, <2>1, <2>2, PassGoes DEF Pushing, Delivering
<1>7. ASSUME NEW pc \in {"sync", "begin", "pause", "complete", "fail"},
             Goto(Pass, Refreshed(Pass, pc)),
             <<session[Pass].pc, pc>> \in {<<"load", "sync">>, <<"begin_read", "begin">>,
               <<"pause_read", "pause">>, <<"complete_read", "complete">>, <<"except", "fail">>}
      PROVE  Delivers'
  <2>1. pc = "sync" \/ session[Pass].stage = row.current
    BY <1>2, <1>7
  <2>2. pc = "pause" => session[Pass].pc = "pause_read"
    BY <1>7
  <2>3. /\ Fits(Refreshed(Pass, pc), row) /\ Refreshed(Pass, pc).pc = pc
        /\ Refreshed(Pass, pc).stage = session[Pass].stage
    BY <1>1, <1>3, <2>1, <2>2, MovingFits DEF PassPcs, Working
  <2>4. PICK q : q = Refreshed(Pass, pc)
    OBVIOUS
  <2>5. Pushing(session[Pass]) => Pushing(q)
    BY <1>7, <2>3, <2>4 DEF Pushing, Delivering
  <2>. QED BY <1>1, <1>7, <2>2, <2>3, <2>4, <2>5, PassGoes
<1>. QED BY <1>4, <1>5, <1>6, <1>7

LEMMA WorkDelivers ==
  ASSUME TypeOK, Delivers,
         Analyze(Pass) \/ Review(Pass) \/ Preview(Pass) \/ Count(Pass) \/ Raise(Pass)
  PROVE  Delivers'
<1>1. UNCHANGED <<row, target, lost>> /\ session[Pass].pc \in {"work", "count"}
  BY DEF Analyze, Review, Preview, Count, Raise
<1>2. /\ session[Pass].stage = row.current
      /\ session[Pass].pc = "count" => session[Pass].stage = "preview"
  BY <1>1 DEF Delivers, Fits, Working
<1>3. PICK pc \in {"complete_read", "pause_read", "count", "except"} :
        /\ Goto(Pass, Moved(Pass, pc))
        /\ pc = "pause_read" => workflow' # "COMPLETED" /\ session[Pass].stage \in {"review", "preview"}
        /\ pc = "count" => session[Pass].stage = "preview"
  <2>1. CASE Analyze(Pass) \/ Raise(Pass)
    BY <2>1 DEF Analyze, Raise
  <2>2. CASE Review(Pass)
    BY <2>2 DEF Review
  <2>3. CASE Preview(Pass)
    BY <2>3 DEF Preview
  <2>4. CASE Count(Pass)
    BY <1>2, <2>4 DEF Count
  <2>. QED BY <2>1, <2>2, <2>3, <2>4
<1>4. pc = "pause_read" => session[Pass].stage # "push"
  BY <1>3
<1>5. pc = "count" => session[Pass].stage # "push"
  BY <1>3
<1>6. /\ Fits(Moved(Pass, pc), row) /\ Moved(Pass, pc).pc = pc
      /\ Moved(Pass, pc).stage = session[Pass].stage
  BY <1>1, <1>2, <1>3, MovingFits DEF PassPcs, Working, Holding
<1>7. PICK q : q = Moved(Pass, pc)
  OBVIOUS
<1>8. Pushing(session[Pass]) => Pushing(q)
  BY <1>4, <1>5, <1>6, <1>7 DEF Pushing, Delivering
<1>. QED BY <1>1, <1>3, <1>6, <1>7, <1>8, PassGoes

LEMMA PushDelivers ==
  ASSUME TypeOK, Delivers, Push(Pass) PROVE Delivers'
<1>1. /\ session[Pass].pc = "work" /\ session[Pass].stage = "push"
      /\ UNCHANGED <<lost, workflow>>
  BY DEF Push
<1>2. row.current = "push"
  BY <1>1 DEF Delivers, Fits, Working
<1>3. PICK pc \in {"complete_read", "except"} : Goto(Pass, Moved(Pass, pc))
  BY DEF Push
<1>4. PICK q : q = Moved(Pass, pc)
  OBVIOUS
<1>5. /\ Fits(q, row) /\ q.pc = pc /\ q.stage = "push"
  BY <1>1, <1>2, <1>4, MovingFits DEF PassPcs, Working, Holding
<1>6. CASE UNCHANGED <<row, target>>
  BY <1>1, <1>3, <1>4, <1>5, <1>6, PassGoes DEF Pushing, Delivering
<1>7. CASE PushValid
  <2>1. /\ row' = Synced(row, target') /\ row \in Rows /\ target' \in Effects
        /\ target # "NONE" => target' # "NONE"
    BY <1>7 DEF PushValid, TypeOK, Effects
  <2>2. PICK held \in Effects : held = target'
    BY <2>1
  <2>3. /\ Synced(row, held).current = "push"
        /\ Synced(row, held).status \in {row.status} \cup Final
    BY <1>2, <2>1 DEF Synced, Effects, Put, Rows, Final
  <2>4. row'.current = "push" /\ row'.status \in {row.status} \cup Final
    BY <2>1, <2>2, <2>3
  <2>5. Says(row', target')
    BY <1>2, <2>4 DEF Delivers, Says, Final
  <2>6. Fits(q, row')
    BY <1>5, <2>4 DEF Fits, Working, Holding
  <2>7. /\ Pass \in Session /\ q = session'[Pass] /\ Pushing(q)
        /\ \A r \in Request : session'[r] = session[r]
        /\ UNCHANGED <<jobStatus, owed, missed>>
    BY <1>3, <1>4, <1>5, SessionAssumption, Elsewhere DEF Session, Goto, job, Pushing, Delivering
  <2>. QED BY <1>1, <1>5, <2>1, <2>5, <2>6, <2>7, PassStays
<1>. QED BY <1>6, <1>7 DEF Push

(* A stage put to another status, by a pass that stands at it. *)
LEMMA PutAtStage ==
  ASSUME NEW c \in Rows, NEW stage \in Stages, NEW st \in RowStatus, NEW is \in StageStatus,
         NEW by \in Writers
  PROVE  LET new == Put([c EXCEPT !.status = st], stage, is, by)
         IN  new \in Rows /\ new.status = st /\ new.current = c.current /\ Is(new, stage) = is
  BY DEF Put, Entry, Rows, Is

LEMMA BeginDelivers ==
  ASSUME TypeOK, Delivers, Begin(Pass) PROVE Delivers'
<1> DEFINE new == Put([session[Pass].copy EXCEPT !.status = "ACTIVE"],
                      session[Pass].stage, "RUNNING", "agent")
<1>1. /\ session[Pass].pc = "begin" /\ Save(Pass, new) /\ Goto(Pass, Moved(Pass, "work"))
      /\ UNCHANGED <<target, workflow, lost>>
  BY DEF Begin
<1>2. /\ session[Pass].copy \in Rows /\ session[Pass].stage = row.current
      /\ session[Pass].stage \in Stages /\ session[Pass].kind = "pass"
  BY <1>1, PassHolds DEF Holding, Delivers, Fits, Working
<1>3. /\ "ACTIVE" \in RowStatus /\ "RUNNING" \in StageStatus /\ "agent" \in Writers
  BY DEF RowStatus, StageStatus, Writers
<1>4. /\ new \in Rows /\ new.status = "ACTIVE" /\ new.current = session[Pass].copy.current
      /\ Is(new, session[Pass].stage) = "RUNNING"
  BY <1>2, <1>3, PutAtStage
<1> HIDE DEF new
<1>5. row.current # "push" => row' = new /\ session[Pass].copy = row
  BY <1>1, <1>4, PassHolds, CommitsWhole DEF Holding, Session
<1>6. row.current = "push" => row'.current = "push" /\ row'.status \in {"ACTIVE", "ROLLED_BACK"}
  BY <1>1, <1>4, PassHolds, CommitsAtPush DEF Holding, Session
<1>7. row'.current = row.current
  BY <1>4, <1>5, <1>6
<1>8. Says(row', target')
  <2>1. row.current # "push" => row'.status = "ACTIVE" /\ Is(row', row'.current) # "NEEDS_REVIEW"
    BY <1>2, <1>4, <1>5, <1>7
  <2>. QED BY <1>1, <1>6, <1>7, <2>1 DEF Delivers, Says
<1>9. PICK q : q = Moved(Pass, "work")
  OBVIOUS
<1>10. q.pc = "work" /\ q.stage = row'.current /\ q.kind = "pass"
  BY <1>2, <1>7, <1>9 DEF Moved, Without
<1>11. Fits(q, row') /\ (row'.current = "push" => Pushing(q))
  BY <1>10 DEF Fits, PassPcs, Working, Holding, Pushing, Delivering
<1>12. /\ q = session'[Pass]
       /\ \A r \in Request : session'[r] = session[r]
       /\ UNCHANGED <<jobStatus, owed, missed>>
  BY <1>1, <1>9, SessionAssumption, Elsewhere DEF Session, Goto, job
<1>. QED BY <1>1, <1>8, <1>10, <1>11, <1>12, PassStays

LEMMA PauseDelivers ==
  ASSUME TypeOK, Delivers, Pause(Pass) PROVE Delivers'
<1> DEFINE new == Put([session[Pass].copy EXCEPT !.status = "PAUSED"],
                      session[Pass].stage, "NEEDS_REVIEW", "agent")
<1>1. /\ session[Pass].pc = "pause" /\ Save(Pass, new) /\ Leave(Pass, FALSE)
      /\ UNCHANGED <<target, workflow, lost>>
  BY DEF Pause
<1>2. /\ session[Pass].copy \in Rows /\ session[Pass].stage = row.current
      /\ session[Pass].stage \in {"review", "preview"}
  BY <1>1, PassHolds DEF Holding, Delivers, Fits, Working
<1>3. /\ "PAUSED" \in RowStatus /\ "NEEDS_REVIEW" \in StageStatus /\ "agent" \in Writers
      /\ session[Pass].stage \in Stages
  BY <1>2 DEF RowStatus, StageStatus, Writers, Stages
<1>4. new \in Rows /\ new.status = "PAUSED" /\ new.current = session[Pass].copy.current
  BY <1>2, <1>3, PutAtStage
<1> HIDE DEF new
<1>5. row.current # "push" /\ session[Pass].copy = row
  BY <1>1, <1>2, PassHolds DEF Holding
<1>6. row'.status = "PAUSED" /\ row'.current = row.current
  BY <1>1, <1>4, <1>5, CommitsWhole DEF Session
<1>7. Says(row', target')
  BY <1>1, <1>2, <1>5, <1>6 DEF Delivers, Says
<1>8. workflow = "COMPLETED" => owed \/ Asked
  BY <1>1 DEF Delivers, PauseIsAsked
<1>. QED BY <1>1, <1>6, <1>7, <1>8, PassLeaves

LEMMA CompleteDelivers ==
  ASSUME TypeOK, Delivers, Complete(Pass) PROVE Delivers'
<1> DEFINE new == Put(session[Pass].copy, session[Pass].stage, "COMPLETED", session[Pass].by)
<1>1. /\ session[Pass].pc = "complete" /\ Save(Pass, new)
      /\ Goto(Pass, With(session[Pass], "next", new))
      /\ UNCHANGED <<target, workflow, lost>>
  BY DEF Complete
<1>2. /\ session[Pass].copy \in Rows /\ session[Pass].stage = row.current
      /\ session[Pass].stage \in Stages /\ session[Pass].by \in Writers /\ session[Pass].kind = "pass"
  BY <1>1, PassHolds DEF Holding, Delivers, Fits, Working, AnyBy, Writers
<1>3. /\ new \in Rows /\ new.status = session[Pass].copy.status
      /\ new.current = session[Pass].copy.current
      /\ Is(new, session[Pass].stage) = "COMPLETED"
  <2>1. "COMPLETED" \in StageStatus
    BY DEF StageStatus
  <2>2. new \in Rows
    BY <1>2, <2>1, Putting
  <2>. QED BY <1>2, <2>2 DEF Put, Entry, Rows, Is
<1> HIDE DEF new
<1>4. row.current # "push" => row' = new /\ session[Pass].copy = row
  BY <1>1, <1>3, PassHolds, CommitsWhole DEF Holding, Session
<1>5. row.current = "push" =>
        /\ row'.current = "push" /\ row'.status = row.status
        /\ new.current = "push" /\ row.status \in {new.status, "ROLLED_BACK"}
  BY <1>1, <1>3, PassHolds, CommitsAtPush DEF Holding, Session
<1>6. row'.current = row.current /\ row'.status = row.status
  BY <1>3, <1>4, <1>5
<1>7. Says(row', target')
  <2>1. row.current # "push" => Is(row', row'.current) # "NEEDS_REVIEW"
    BY <1>2, <1>3, <1>4, <1>6
  <2>. QED BY <1>1, <1>6, <2>1 DEF Delivers, Says
<1>8. PICK q : q = With(session[Pass], "next", new)
  OBVIOUS
<1>9. q.pc = "next" /\ q.stage = row'.current /\ q.kind = "pass" /\ q.copy = new
  BY <1>2, <1>6, <1>8 DEF With
<1>10. Fits(q, row') /\ (row'.current = "push" => Pushing(q))
  BY <1>4, <1>5, <1>6, <1>9 DEF Fits, PassPcs, Working, Holding, Pushing, Delivering
<1>11. /\ q = session'[Pass]
       /\ \A r \in Request : session'[r] = session[r]
       /\ UNCHANGED <<jobStatus, owed, missed>>
  BY <1>1, <1>8, SessionAssumption, Elsewhere DEF Session, Goto, job
<1>. QED BY <1>1, <1>7, <1>9, <1>10, <1>11, PassStays

LEMMA FailDelivers ==
  ASSUME TypeOK, Delivers, Fail(Pass) PROVE Delivers'
<1> DEFINE at == IF session[Pass].stage = "push" THEN "push" ELSE session[Pass].copy.current
           new == Put([session[Pass].copy EXCEPT !.status = "FAILED"], at, "FAILED", "agent")
<1>1. /\ session[Pass].pc = "fail" /\ Save(Pass, new) /\ Leave(Pass, TRUE)
      /\ UNCHANGED <<target, workflow, lost>>
  BY DEF Fail
<1>2. session[Pass].copy \in Rows /\ at \in Stages
  BY <1>1, PassHolds DEF Holding, Rows, Stages
<1>3. /\ "FAILED" \in RowStatus /\ "FAILED" \in StageStatus /\ "agent" \in Writers
  BY DEF RowStatus, StageStatus, Writers
<1>4. new \in Rows /\ new.status = "FAILED" /\ new.current = session[Pass].copy.current
  <2> HIDE DEF at
  <2>. QED BY <1>2, <1>3, PutAtStage
<1> HIDE DEF new
<1>5. row.current # "push" => row' = new /\ session[Pass].copy = row
  BY <1>1, <1>4, PassHolds, CommitsWhole DEF Holding, Session
<1>6. row.current = "push" => row'.current = "push" /\ row'.status \in {"FAILED", "ROLLED_BACK"}
  BY <1>1, <1>4, PassHolds, CommitsAtPush DEF Holding, Session
<1>7. row'.current = row.current /\ row'.status \in {"FAILED", "ROLLED_BACK"}
  BY <1>4, <1>5, <1>6
<1>8. Says(row', target')
  BY <1>1, <1>7 DEF Delivers, Says
<1>. QED BY <1>1, <1>7, <1>8, PassLeaves

LEMMA SettleDelivers ==
  ASSUME TypeOK, Delivers, Settle(Pass) PROVE Delivers'
<1> DEFINE new == Synced(session[Pass].copy, target)
<1>1. /\ session[Pass].pc = "settle" /\ Save(Pass, new) /\ Leave(Pass, FALSE)
      /\ UNCHANGED <<target, workflow, lost>>
  BY DEF Settle
<1>2. row.current = "push"
  BY <1>1 DEF Delivers, Fits
<1>3. /\ session[Pass].copy \in Rows /\ session[Pass].copy.current = "push" /\ target \in Effects
  BY <1>1, <1>2, PassHolds DEF Holding, TypeOK
<1>4. new.current = "push" /\ new.status \in {session[Pass].copy.status} \cup Final
  BY <1>3 DEF Synced, Effects, Put, Rows, Final
<1> HIDE DEF new
<1>5. /\ row'.current = "push"
      /\ row'.status \in {row.status} \cup Final
  BY <1>1, <1>2, <1>4, PassHolds, CommitsAtPush DEF Holding, Session
<1>6. Says(row', target')
  BY <1>1, <1>2, <1>5 DEF Delivers, Says, Final
<1>7. row.status # "PAUSED" /\ ~Pushing(session[Pass])
  BY <1>1, <1>2 DEF Delivers, Says, Pushing, Delivering
<1>. QED BY <1>1, <1>2, <1>5, <1>6, <1>7, PassLeaves DEF Final

LEMMA BeginningDelivers ==
  ASSUME TypeOK, Delivers, NEW stage, stage = row.current,
         Goto(Pass, At("begin_read", "pass", stage)), UNCHANGED <<row, target, workflow, lost>>,
         session[Pass].pc # "idle", ~Pushing(session[Pass])
  PROVE  Delivers'
<1>1. PICK q : q = At("begin_read", "pass", stage)
  OBVIOUS
<1>2. Fits(q, row) /\ q.pc = "begin_read"
  BY <1>1, BeginningFits
<1>. QED BY <1>1, <1>2, PassGoes

LEMMA SyncDelivers ==
  ASSUME TypeOK, Delivers, mode = "AUTOPILOT", Sync(Pass) PROVE Delivers'
<1> DEFINE c == session[Pass].copy
           Over == /\ c.status \notin Final /\ workflow = "COMPLETED"
                   /\ c.current \in {"review", "preview"} /\ Is(c, c.current) = "NEEDS_REVIEW"
           q == [Moved(Pass, "complete_read") EXCEPT !.stage = c.current, !.by = "sync"]
<1>1. session[Pass].pc = "sync" /\ UNCHANGED <<row, target, workflow, lost>>
  BY DEF Sync
<1>2. IF Over THEN Goto(Pass, q) ELSE Enter(Pass, session[Pass])
  BY DEF Sync
<1>3. /\ session[Pass].kind = "pass" /\ c \in Rows /\ row \in Rows
      /\ row.current # "push" => c = row
      /\ c.current = "push" <=> row.current = "push"
  BY <1>1, PassHolds DEF Holding
<1>4. ~Pushing(session[Pass]) /\ session[Pass].pc # "idle" /\ Says(row', target')
  BY <1>1 DEF Pushing, Delivering, Delivers
<1>5. CASE Over
  <2>1. Goto(Pass, q) /\ c = row /\ c.current \in {"review", "preview"}
    BY <1>2, <1>3, <1>5
  <2>2. /\ Moved(Pass, "complete_read") \in PlainSessions
        /\ Moved(Pass, "complete_read").pc = "complete_read"
        /\ Moved(Pass, "complete_read").kind = "pass"
    <3>1. session[Pass].pc \in Copying /\ Pass \in Session
      BY <1>1 DEF Copying, Session
    <3>. QED BY <1>3, <3>1, SessionIs DEF Moved, Without, PlainSessions, Plain
  <2>3. q.pc = "complete_read" /\ q.kind = "pass" /\ q.stage = c.current
    BY <2>2 DEF PlainSessions
  <2> HIDE DEF q, c
  <2>4. Fits(q, row)
    BY <2>1, <2>3 DEF Fits, PassPcs, Working, Holding
  <2>. QED BY <1>1, <1>4, <2>1, <2>3, <2>4, PassGoes
<1>6. CASE ~Over
  <2>1. Enter(Pass, session[Pass])
    BY <1>2, <1>6
  <2>2. \/ /\ Leave(Pass, TRUE) \/ Leave(Pass, FALSE)
           /\ \/ c.status \in Final \/ c.current = "push"
              \/ Is(c, c.current) = "NEEDS_REVIEW"
        \/ c.current = "push" /\ Goto(Pass, At("begin_read", "pass", "push"))
        \/ c.current # "push" /\ Goto(Pass, At("begin_read", "pass", c.current))
    BY <1>3, <2>1, PassEnters
  <2>3. CASE /\ Leave(Pass, TRUE) \/ Leave(Pass, FALSE)
             /\ \/ c.status \in Final \/ c.current = "push"
                \/ Is(c, c.current) = "NEEDS_REVIEW"
    <3>1. row.status = "ACTIVE" => row.current = "push"
      BY <1>3, <2>3 DEF Delivers, Says, Final
    <3>2. ~(row.status = "PAUSED" /\ workflow = "COMPLETED")
      BY <1>3, <1>6, <2>3 DEF Delivers, Says, Final
    <3> HIDE DEF c
    <3>. QED BY <1>1, <1>4, <2>3, <3>1, <3>2, PassLeaves
  <2>4. CASE c.current = "push" /\ Goto(Pass, At("begin_read", "pass", "push"))
    BY <1>1, <1>3, <1>4, <2>4, BeginningDelivers
  <2>5. CASE c.current # "push" /\ Goto(Pass, At("begin_read", "pass", c.current))
    BY <1>1, <1>3, <1>4, <2>5, BeginningDelivers
  <2>. QED BY <2>2, <2>3, <2>4, <2>5
<1>. QED BY <1>5, <1>6

(* A pass that advanced the row from a stage before the push. *)
LEMMA AdvancedRow ==
  ASSUME mode = "AUTOPILOT", NEW q, q.copy \in Rows, q.stage \in {"analyze", "review", "preview"}
  PROVE  /\ Advanced(q).current = CASE q.stage = "analyze" -> "review"
                                    [] q.stage = "review" -> "preview"
                                    [] q.stage = "preview" -> "push"
         /\ Advanced(q).status = IF q.stage = "preview" THEN "AWAITING_PUSH_DECISION"
                                 ELSE IF q.stage = "review" /\ q.by = "sync" THEN "ACTIVE"
                                 ELSE q.copy.status
         /\ Is(Advanced(q), Advanced(q).current) \in {"QUEUED", "READY_TO_PUSH"}
<1>1. Ready = "QUEUED"
  BY DEF Ready
<1>2. CASE q.stage = "analyze"
  BY <1>1, <1>2 DEF Advanced, Put, Entry, Rows, Is, Stages
<1>3. CASE q.stage = "review"
  BY <1>1, <1>3 DEF Advanced, Put, Entry, Rows, Is, Stages
<1>4. CASE q.stage = "preview"
  BY <1>4 DEF Advanced, Put, Entry, Rows, Is, Stages
<1>. QED BY <1>2, <1>3, <1>4

LEMMA AdvanceDelivers ==
  ASSUME TypeOK, Syncing, Delivers, mode = "AUTOPILOT", AdvanceStage(Pass) PROVE Delivers'
<1> DEFINE p == session[Pass]
           q == With(p, "settle", Advanced(p))
<1>1. p.pc = "next" /\ Save(Pass, q.copy) /\ UNCHANGED <<target, workflow, lost>>
  BY DEF AdvanceStage
<1>2. /\ p.kind = "pass" /\ p.copy \in Rows /\ p.stage \in Stages /\ p.by \in AnyBy
      /\ p.stage = row.current /\ Pass \in Session
  BY <1>1, PassHolds DEF Holding, Delivers, Fits, Working
<1>3. p.by = "sync" => p.stage \in {"review", "preview"}
  BY <1>1, <1>2 DEF Syncing, Syncs
<1>4. q.copy = Advanced(p) /\ q.stage = p.stage /\ q.by = p.by /\ q.kind = "pass" /\ q.pc = "settle"
  BY <1>2 DEF With
<1>5. Advanced(p) \in Rows
  <2>1. p = [pc |-> p.pc, kind |-> p.kind, stage |-> p.stage, by |-> p.by, copy |-> p.copy]
    BY <1>1, <1>2 DEF TypeOK, Served, Idle, HandingBack
  <2>2. p.pc \in Copying /\ p.kind \in AnyKind
    BY <1>1, <1>2 DEF Copying, AnyKind
  <2> HIDE DEF p
  <2>. QED BY <1>2, <2>1, <2>2, AdvancedIsARow
<1>6. CASE p.stage = "push"
  <2>1. p.by = "agent" /\ Goto(Pass, q)
    BY <1>2, <1>3, <1>4, <1>6 DEF AdvanceStage, AnyBy
  <2>2. q.copy.current = "push" /\ q.copy.status = "COMPLETED"
    BY <1>1, <1>2, <1>4, <1>6, PassHolds DEF Advanced, Rows, Holding
  <2>3. row'.current = "push" /\ row'.status \in {"COMPLETED", "ROLLED_BACK"}
    <3> HIDE DEF q
    <3>. QED BY <1>1, <1>2, <1>6, <2>2, PassHolds, CommitsAtPush DEF Holding
  <2>4. Fits(q, row')
    BY <1>4, <2>2, <2>3 DEF Fits, PassPcs, Holding, Working
  <2>5. Says(row', target')
    BY <2>3 DEF Says
  <2>6. /\ q = session'[Pass]
        /\ \A r \in Request : session'[r] = session[r]
        /\ UNCHANGED <<jobStatus, owed, missed>>
    <3> HIDE DEF q
    <3>. QED BY <2>1, SessionAssumption, Elsewhere DEF Session, Goto, job
  <2> HIDE DEF q
  <2>. QED BY <1>1, <1>4, <2>3, <2>4, <2>5, <2>6, PassStays
<1>7. CASE p.stage # "push"
  <2>1. p.stage \in {"analyze", "review", "preview"} /\ row.current # "push" /\ p.copy = row
    BY <1>1, <1>2, <1>7, PassHolds DEF Stages, Holding
  <2> DEFINE new == Advanced(p)
  <2>2. row' = new
    BY <1>1, <1>2, <1>4, <1>5, <2>1, CommitsWhole
  <2>3. /\ new.current = CASE p.stage = "analyze" -> "review"
                           [] p.stage = "review" -> "preview"
                           [] p.stage = "preview" -> "push"
        /\ new.status = IF p.stage = "preview" THEN "AWAITING_PUSH_DECISION"
                        ELSE IF p.stage = "review" /\ p.by = "sync" THEN "ACTIVE"
                        ELSE p.copy.status
        /\ Is(new, new.current) \in {"QUEUED", "READY_TO_PUSH"}
    BY <1>2, <2>1, AdvancedRow
  <2>4. \/ Enter(Pass, q)
        \/ Return(Pass, q) /\ p.stage = "preview"
        \/ Goto(Pass, At("begin_read", "pass", q.copy.current))
    BY <1>2, <1>3, <1>4, <2>1 DEF AdvanceStage, AnyBy
  <2>5. \/ /\ Leave(Pass, TRUE) \/ Leave(Pass, FALSE)
           /\ p.stage = "preview" \/ new.status \in Final
        \/ Goto(Pass, At("begin_read", "pass", new.current))
    <3> HIDE DEF new, p, q
    <3>1. \/ /\ Leave(Pass, TRUE) \/ Leave(Pass, FALSE)
             /\ Enter(Pass, q) => \/ q.copy.status \in Final \/ q.copy.current = "push"
                                  \/ Is(q.copy, q.copy.current) = "NEEDS_REVIEW"
          \/ q.copy.current = "push" /\ Goto(Pass, At("begin_read", "pass", "push"))
          \/ Goto(Pass, At("begin_read", "pass", q.copy.current))
      BY <1>4, <2>4, PassEnters
    <3>2. q.copy = new
      BY <1>4 DEF new
    <3>3. new.current = "push" => p.stage = "preview"
      BY <2>1, <2>3
    <3>. QED BY <2>3, <2>4, <3>1, <3>2, <3>3
  <2>6. Says(row', target')
    BY <1>1, <2>1, <2>2, <2>3 DEF Delivers, Says
  <2>7. \A r \in Request : session'[r] = session[r]
    BY <2>5, SessionAssumption, LeavingElsewhere, Elsewhere DEF Session
  <2>8. CASE /\ Leave(Pass, TRUE) \/ Leave(Pass, FALSE)
             /\ p.stage = "preview" \/ new.status \in Final
    <3>1. row'.status \notin {"ACTIVE", "PAUSED"}
      BY <2>2, <2>3, <2>8 DEF Final
    <3>. QED BY <1>1, <2>6, <2>8, <3>1, PassLeaves
  <2>9. CASE Goto(Pass, At("begin_read", "pass", new.current))
    <3>1. PICK b : b = At("begin_read", "pass", new.current)
      OBVIOUS
    <3>2. Fits(b, row') /\ b.pc = "begin_read"
      <4> HIDE DEF new
      <4>. QED BY <2>2, <3>1, BeginningFits
    <3>3. row'.current = "push" => row'.status # "ACTIVE"
      BY <2>1, <2>2, <2>3
    <3>4. b = session'[Pass] /\ UNCHANGED <<jobStatus, owed, missed>>
      BY <1>2, <2>9, <3>1, Elsewhere DEF Goto, job
    <3>. QED BY <1>1, <2>6, <2>7, <3>2, <3>3, <3>4, PassStays
  <2>. QED BY <2>5, <2>8, <2>9
<1>. QED BY <1>6, <1>7

----------------------------------------------------------------------------
(* The queue's steps of the pass, and its loss *)

LEMMA PassIsOfTheQueue == PassOf(Pass) = "none" /\ TypeOK => session[Pass] = Idle
<1> SUFFICES ASSUME PassOf(Pass) = "none", TypeOK PROVE session[Pass] = Idle
  OBVIOUS
<1>1. Pass \in Session
  BY DEF Session
<1>. QED BY <1>1, SessionIs DEF PassOf

LEMMA ClaimDelivers ==
  ASSUME TypeOK, Delivers, ClaimPass PROVE Delivers'
<1>1. /\ session[Pass] = Idle
      /\ jobStatus \in {"QUEUED", "RUNNING"} /\ jobStatus' = "RUNNING"
      /\ UNCHANGED <<row, target, workflow, lost, owed, missed>>
  BY PassIsOfTheQueue DEF ClaimPass, Queue!Claim
<1>2. PICK q : q = At("claimed", "pass", "analyze")
  OBVIOUS
<1>3. q.pc = "claimed" /\ q.kind = "pass"
  BY <1>2 DEF At
<1>4. session'[Pass] = q /\ \A r \in Request : session'[r] = session[r]
  BY <1>2, SessionAssumption DEF ClaimPass, TypeOK, Session
<1>5. Fits(q, row)
  BY <1>3 DEF Fits, PassPcs, Working, Holding
<1>6. Asked => Asked'
  BY <1>1, <1>4 DEF Asked, Asks
<1>7. ~Pushing(session[Pass])
  BY <1>1 DEF Pushing, Idle, Delivering
<1>8. \A r \in Request : RequestFits(session[r], target)'
  BY <1>1, <1>4 DEF Delivers, RequestFits
<1>9. Fits(session[Pass], row)' /\ Says(row, target)'
  BY <1>1, <1>4, <1>5 DEF Delivers, Fits, Says, Is
<1>10. PushIsPursued' /\ WorkIsPursued'
  BY <1>1, <1>3, <1>4, <1>7 DEF Delivers, PushIsPursued, WorkIsPursued, Claimable
<1>11. DecisionIsPursued' /\ PauseIsAsked'
  BY <1>1, <1>3, <1>4 DEF DecisionIsPursued, PauseIsAsked, Claimable
<1>. QED BY <1>1, <1>8, <1>9, <1>10, <1>11 DEF Delivers

LEMMA StartDelivers ==
  ASSUME TypeOK, Delivers, StartPass(Pass) PROVE Delivers'
<1>1. /\ session[Pass].pc = "claimed" /\ jobStatus = "RUNNING"
      /\ UNCHANGED <<row, target, workflow, lost, jobStatus>>
  BY DEF StartPass, Queue!Begin, Delivers
<1>2. PICK q : q = Moved(Pass, "load")
  OBVIOUS
<1>3. q.pc = "load" /\ Fits(q, row)
  BY <1>1, <1>2, MovingFits DEF PassPcs, Working, Holding
<1>4. session'[Pass] = q /\ \A r \in Request : session'[r] = session[r]
  BY <1>2, SessionAssumption DEF StartPass, TypeOK, Session
<1>5. ~Pushing(session[Pass])
  BY <1>1 DEF Pushing, Delivering
<1>6. \A r \in Request : RequestFits(session[r], target)'
  BY <1>1, <1>4 DEF Delivers, RequestFits
<1>7. Fits(session[Pass], row)' /\ Says(row, target)'
  BY <1>1, <1>3, <1>4 DEF Delivers, Fits, Says, Is
<1>8. PushIsPursued' /\ WorkIsPursued'
  BY <1>1, <1>3, <1>4, <1>5 DEF Delivers, PushIsPursued, WorkIsPursued, Claimable
<1>9. DecisionIsPursued' /\ PauseIsAsked'
  BY <1>1, <1>3, <1>4 DEF DecisionIsPursued, PauseIsAsked, Claimable
<1>. QED BY <1>1, <1>6, <1>7, <1>8, <1>9 DEF Delivers

LEMMA HandBackDelivers ==
  ASSUME TypeOK, Delivers, HandBack(Pass) PROVE Delivers'
<1>1. /\ session[Pass].pc = "hand_back"
      /\ UNCHANGED <<row, target, workflow, lost, owed, missed>>
  BY DEF HandBack, Queue!HandBack
<1>2. jobStatus' = session[Pass].ends /\ session[Pass].ends \in {"QUEUED", "WAITING", "FAILED"}
  <2>1. session[Pass] # Idle /\ session[Pass].ends \in {"QUEUED", "WAITING", "FAILED"}
    BY <1>1, SessionIs DEF Session
  <2>. QED BY <1>1, <2>1 DEF HandBack, Queue!HandBack, PassOf
<1>3. /\ session'[Pass].pc = "idle" /\ Fits(session'[Pass], row)
      /\ \A r \in Request : session'[r] = session[r]
  <2>1. session'[Pass] = Idle /\ \A r \in Request : session'[r] = session[r]
    BY SessionAssumption DEF HandBack, TypeOK, Session
  <2>2. Fits(Idle, row) /\ Idle.pc = "idle"
    BY DEF Idle, Fits, PassPcs, Working, Holding
  <2>. QED BY <2>1, <2>2
<1>4. ~Pushing(session[Pass])
  BY <1>1 DEF Pushing, Delivering
<1>5. \A r \in Request : RequestFits(session[r], target)'
  BY <1>1, <1>3 DEF Delivers, RequestFits
<1>6. Fits(session[Pass], row)' /\ Says(row, target)'
  BY <1>1, <1>3 DEF Delivers, Fits, Says, Is
<1>7. PushIsPursued' /\ WorkIsPursued'
  BY <1>1, <1>3, <1>4 DEF Delivers, PushIsPursued, WorkIsPursued
<1>8. DecisionIsPursued' /\ PauseIsAsked'
  <2>1. Asked => Asked'
    BY <1>1, <1>3 DEF Asked, Asks
  <2>. QED BY <1>1, <1>2, <1>3, <2>1 DEF Delivers, DecisionIsPursued, PauseIsAsked, Claimable
<1>. QED BY <1>2, <1>3, <1>5, <1>6, <1>7, <1>8 DEF Delivers

LEMMA LossDelivers ==
  ASSUME TypeOK, Delivers, Crash(Pass) PROVE Delivers'
<1>1. /\ session[Pass].pc # "idle" /\ jobStatus = "RUNNING"
      /\ UNCHANGED <<row, target, workflow, jobStatus, owed, missed>>
      /\ lost' = lost \cup LeftUndone(session[Pass])
  BY SessionIs DEF Crash, Queue!Lose, Delivers, Session
<1>2. /\ session'[Pass].pc = "idle" /\ Fits(session'[Pass], row)
      /\ \A r \in Request : session'[r] = session[r]
  <2>1. session'[Pass] = Idle /\ \A r \in Request : session'[r] = session[r]
    BY SessionAssumption DEF Crash, TypeOK, Session
  <2>2. Fits(Idle, row) /\ Idle.pc = "idle"
    BY DEF Idle, Fits, PassPcs, Working, Holding
  <2>. QED BY <2>1, <2>2
<1>3. Pushing(session[Pass]) => "push" \in lost'
  <2>1. Pushing(session[Pass]) => session[Pass].kind = "pass"
    BY DEF Pushing, Delivering, Delivers, Fits
  <2>. QED BY <1>1, <2>1 DEF Pushing, Delivering, LeftUndone
<1>4. \A r \in Request : RequestFits(session[r], target)'
  BY <1>1, <1>2 DEF Delivers, RequestFits
<1>5. Fits(session[Pass], row)' /\ Says(row, target)'
  BY <1>1, <1>2 DEF Delivers, Fits, Says, Is
<1>6. PushIsPursued' /\ WorkIsPursued'
  BY <1>1, <1>2, <1>3 DEF Delivers, PushIsPursued, WorkIsPursued, Claimable
<1>7. DecisionIsPursued' /\ PauseIsAsked'
  BY <1>1, <1>2 DEF DecisionIsPursued, PauseIsAsked, Claimable
<1>. QED BY <1>1, <1>2, <1>4, <1>5, <1>6, <1>7 DEF Delivers

----------------------------------------------------------------------------
(* Steps of requests *)

(* A request that begins, or goes on, and leaves the job row alone. *)
LEMMA RequestGoes ==
  ASSUME TypeOK, Delivers, NEW s \in Request, NEW q, Goto(s, q), UNCHANGED <<row, lost>>,
         ~Asks(session[s]), RequestFits(q, target'),
         target # "NONE" <=> target' # "NONE",
         workflow' = workflow \/ Asks(q)
  PROVE  Delivers'
<1>1. /\ session'[s] = q /\ session'[Pass] = session[Pass]
      /\ \A r \in Request \ {s} : session'[r] = session[r]
      /\ UNCHANGED <<jobStatus, owed, missed>>
  BY SessionAssumption, Elsewhere DEF Session, Goto, job
<1>2. ASSUME NEW r \in Request PROVE RequestFits(session'[r], target')
  BY <1>1 DEF Delivers, RequestFits
<1>3. \A r \in Request : Asks(session[r]) =>
        Asks(session'[r]) /\ session'[r] = session[r]
  BY <1>1 DEF Asks
<1>4. /\ Asked => Asked'
      /\ workflow' # workflow => Asked'
  BY <1>1, <1>3 DEF Asked, Asks
<1>5. \A r \in Request : RequestFits(session[r], target)'
  BY <1>2 DEF RequestFits
<1>6. Fits(session[Pass], row)' /\ Says(row, target)'
  BY <1>1 DEF Delivers, Fits, Says, Is
<1>7. PushIsPursued'
  BY <1>1 DEF Delivers, PushIsPursued, Pushing
<1>8. WorkIsPursued'
  BY <1>1, <1>3 DEF Delivers, WorkIsPursued, Claimable, Asks
<1>9. DecisionIsPursued' /\ PauseIsAsked'
  BY <1>1, <1>4 DEF Delivers, DecisionIsPursued, PauseIsAsked, Claimable
<1>. QED BY <1>1, <1>5, <1>6, <1>7, <1>8, <1>9 DEF Delivers

LEMMA EnqueueDelivers ==
  ASSUME TypeOK, Delivers, NEW s \in Request, Enqueue(s) PROVE Delivers'
<1>1. /\ session[s].pc = "enqueue" /\ UNCHANGED <<row, target, workflow, lost>>
      /\ session[s].kind \in {"upload", "run", "resolve"}
  BY DEF Enqueue, Delivers, RequestFits
<1>2. /\ session'[s] = Idle /\ session'[Pass] = session[Pass]
      /\ \A r \in Request \ {s} : session'[r] = session[r]
  BY SessionAssumption DEF Enqueue, TypeOK, Session
<1>3. ASSUME NEW r \in Request PROVE RequestFits(session'[r], target')
  BY <1>1, <1>2 DEF Delivers, RequestFits, Idle
<1>4. \A r \in Request : RequestFits(session[r], target)'
  BY <1>3 DEF RequestFits
<1>5. Fits(session[Pass], row)' /\ Says(row, target)'
  BY <1>1, <1>2 DEF Delivers, Fits, Says, Is
<1>6. PushIsPursued'
  BY <1>1, <1>2 DEF Delivers, PushIsPursued, Pushing
<1>7. CASE session[s].kind = "resolve" /\ jobStatus = "NONE"
  <2>1. UNCHANGED <<jobStatus, owed, missed>> /\ row.status # "PAUSED" /\ session[Pass].pc = "idle"
    BY <1>7 DEF Enqueue, job, Delivers
  <2>2. \A r \in Request : Asks(session[r]) /\ session[r].kind # "resolve" => session'[r] = session[r]
    BY <1>2, <1>7
  <2>3. WorkIsPursued'
    BY <1>1, <1>2, <2>1, <2>2 DEF Delivers, WorkIsPursued, Claimable, Asks
  <2>4. DecisionIsPursued' /\ PauseIsAsked'
    BY <1>1, <1>2, <2>1 DEF DecisionIsPursued, PauseIsAsked
  <2>. QED BY <1>1, <1>2, <1>4, <1>5, <1>6, <2>1, <2>3, <2>4 DEF Delivers
<1>8. CASE ~(session[s].kind = "resolve" /\ jobStatus = "NONE")
  <2>1. Queue!Ask
    BY <1>1, <1>8 DEF Enqueue
  <2>2. /\ jobStatus' = IF jobStatus = "RUNNING" THEN jobStatus ELSE "QUEUED"
        /\ owed'
        /\ session[Pass].pc = "hand_back" => missed'
    <3>1. session[Pass].pc = "hand_back" => PassOf(Pass) \in Queue!HandedBack
      BY SessionIs DEF PassOf, Queue!HandedBack, Session
    <3>. QED BY <2>1, <3>1 DEF Queue!Ask
  <2>3. WorkIsPursued'
    BY <1>1, <1>2, <2>2 DEF Delivers, WorkIsPursued, Claimable
  <2>4. DecisionIsPursued' /\ PauseIsAsked'
    BY <1>1, <1>2, <2>2 DEF DecisionIsPursued, PauseIsAsked, Claimable
  <2>. QED BY <1>1, <1>2, <1>4, <1>5, <1>6, <2>2, <2>3, <2>4 DEF Delivers
<1>. QED BY <1>7, <1>8

LEMMA UndoWriteDelivers ==
  ASSUME TypeOK, Delivers, NEW s \in Request, UndoWrite(s) PROVE Delivers'
<1> DEFINE new == Put([session[s].copy EXCEPT !.status = "ROLLED_BACK"],
                      "push", "ROLLED_BACK", "reviewer")
<1>1. /\ session[s].pc = "undo" /\ Save(s, new) /\ Leave(s, FALSE)
      /\ UNCHANGED <<target, workflow, lost>>
  BY DEF UndoWrite
<1>2. session[s].copy \in Rows /\ s \in Session /\ s # Pass
  BY <1>1, SessionIs, SessionAssumption DEF Session, Copying
<1>3. new.status = "ROLLED_BACK" /\ new.current = session[s].copy.current
  BY <1>2 DEF Put, Rows
<1> HIDE DEF new
<1>4. target # "NONE" /\ row.current = "push"
  BY <1>1 DEF Delivers, RequestFits, Says
<1>5. row'.current = "push" /\ row'.status \in {row.status, "ROLLED_BACK"}
  BY <1>1, <1>3, <1>4 DEF Save, Write
<1>6. Goto(s, Idle)
  BY <1>1, <1>2 DEF Leave
<1>7. /\ session'[s] = Idle /\ session'[Pass] = session[Pass]
      /\ \A r \in Request \ {s} : session'[r] = session[r]
      /\ UNCHANGED <<jobStatus, owed, missed>>
  BY <1>2, <1>6, SessionAssumption, Elsewhere DEF Session, Goto, job
<1>8. ASSUME NEW r \in Request PROVE RequestFits(session'[r], target')
  BY <1>1, <1>7 DEF Delivers, RequestFits, Idle
<1>9. \A r \in Request : RequestFits(session[r], target)'
  BY <1>8 DEF RequestFits
<1>10. row'.status # "PAUSED" /\ Says(row, target)'
  BY <1>1, <1>4, <1>5 DEF Delivers, Says
<1>11. Fits(session[Pass], row)'
  BY <1>4, <1>5, <1>7 DEF Delivers, Fits
<1>12. PushIsPursued'
  BY <1>1, <1>4, <1>5, <1>7 DEF Delivers, PushIsPursued, Pushing
<1>13. WorkIsPursued' /\ DecisionIsPursued'
  BY <1>5, <1>10 DEF WorkIsPursued, DecisionIsPursued
<1>14. PauseIsAsked'
  BY <1>4, <1>7 DEF Delivers, Fits, PauseIsAsked, Working
<1>. QED BY <1>7, <1>9, <1>10, <1>11, <1>12, <1>13, <1>14 DEF Delivers

LEMMA RequestLossDelivers ==
  ASSUME TypeOK, Delivers, NEW s \in Request, Crash(s) PROVE Delivers'
<1>1. /\ UNCHANGED <<row, target, workflow, jobStatus, owed, missed>>
      /\ lost' = lost \cup LeftUndone(session[s])
  BY SessionAssumption DEF Crash, job
<1>2. /\ session'[s] = Idle /\ session'[Pass] = session[Pass]
      /\ \A r \in Request \ {s} : session'[r] = session[r]
  BY SessionAssumption DEF Crash, TypeOK, Session
<1>3. Asks(session[s]) => "enqueue" \in lost'
  BY <1>1 DEF Asks, LeftUndone
<1>4. lost \subseteq lost'
  BY <1>1
<1>5. ASSUME NEW r \in Request PROVE RequestFits(session'[r], target')
  BY <1>1, <1>2 DEF Delivers, RequestFits, Idle
<1>6. \A r \in Request : RequestFits(session[r], target)'
  BY <1>5 DEF RequestFits
<1>7. \A r \in Request : Asks(session[r]) => "enqueue" \in lost' \/ session'[r] = session[r]
  BY <1>2, <1>3
<1>8. Asked => Asked'
  BY <1>4, <1>7 DEF Asked, Asks
<1>9. Fits(session[Pass], row)' /\ Says(row, target)'
  BY <1>1, <1>2 DEF Delivers, Fits, Says, Is
<1>10. PushIsPursued'
  BY <1>1, <1>2, <1>4 DEF Delivers, PushIsPursued, Pushing
<1>11. WorkIsPursued'
  BY <1>1, <1>2, <1>4, <1>7 DEF Delivers, WorkIsPursued, Claimable, Asks
<1>12. DecisionIsPursued' /\ PauseIsAsked'
  BY <1>1, <1>2, <1>8 DEF Delivers, DecisionIsPursued, PauseIsAsked, Claimable
<1>. QED BY <1>1, <1>2, <1>6, <1>9, <1>10, <1>11, <1>12 DEF Delivers

LEMMA RequestDelivers ==
  ASSUME TypeOK, Delivers, Unpolled, mode = "AUTOPILOT", NEW s \in Request,
         Open(s) \/ Resolve(s) \/ Guide(s) \/ Undo(s) \/ Step(s) \/ Crash(s)
  PROVE  Delivers'
<1>1. /\ session[s].pc \in {"idle", "enqueue", "undo_read", "undo"}
      /\ session[s].pc \in {"undo_read", "undo"} => target # "NONE"
      /\ s \in Session /\ s # Pass
  BY SessionAssumption DEF Delivers, RequestFits, Session
<1>2. \A kind, stage : At("enqueue", kind, stage).pc = "enqueue" /\ At("enqueue", kind, stage).kind = kind
  BY DEF At
<1>3. CASE Open(s)
  <2>1. PICK kind \in RequestKinds :
          /\ Opens(kind)
          /\ LET q == At("enqueue", kind, row.current)
             IN  Goto(s, IF kind = "run" THEN q
                         ELSE With(q, IF kind = "cancel" THEN "cancel" ELSE "sync", row))
    BY <1>3 DEF Open
  <2>2. kind = "run"
    BY <2>1 DEF Opens, Unpolled
  <2>3. PICK q : q = At("enqueue", "run", row.current)
    OBVIOUS
  <2>4. Goto(s, q) /\ q.pc = "enqueue" /\ q.kind = "run"
    BY <1>2, <2>1, <2>2, <2>3
  <2>5. UNCHANGED <<row, lost, target, workflow>> /\ ~Asks(session[s])
    BY <1>3 DEF Open, Asks, Idle
  <2>6. RequestFits(q, target')
    BY <2>4 DEF RequestFits
  <2>. QED BY <2>4, <2>5, <2>6, RequestGoes
<1>4. CASE Resolve(s)
  <2>1. PICK q : q = At("enqueue", "resolve", row.current)
    OBVIOUS
  <2>2. Goto(s, q) /\ q.pc = "enqueue" /\ q.kind = "resolve"
    BY <1>2, <1>4, <2>1 DEF Resolve
  <2>3. UNCHANGED <<row, lost, target>> /\ ~Asks(session[s])
    BY <1>4 DEF Resolve, Asks, Idle
  <2>4. RequestFits(q, target') /\ Asks(q)
    BY <2>2 DEF RequestFits, Asks
  <2>. QED BY <2>2, <2>3, <2>4, RequestGoes
<1>5. CASE Undo(s)
  <2>1. PICK q : q = At("undo_read", "undo", "push")
    OBVIOUS
  <2>2. Goto(s, q) /\ q.pc = "undo_read"
    BY <1>5, <2>1 DEF Undo, At
  <2>3. UNCHANGED <<row, lost, workflow>> /\ ~Asks(session[s])
    BY <1>5 DEF Undo, Asks, Idle
  <2>4. target # "NONE" /\ target' # "NONE"
    BY <1>5 DEF Undo, Unpolled
  <2>5. RequestFits(q, target')
    BY <2>2, <2>4 DEF RequestFits
  <2>. QED BY <2>2, <2>3, <2>4, <2>5, RequestGoes
<1>6. CASE UndoRead(s)
  <2>1. PICK q : q = Refreshed(s, "undo")
    OBVIOUS
  <2>2. Goto(s, q) /\ q.pc = "undo"
    BY <1>6, <2>1 DEF UndoRead, Refreshed, With
  <2>3. UNCHANGED <<row, lost, target, workflow>> /\ ~Asks(session[s]) /\ target # "NONE"
    BY <1>1, <1>6 DEF UndoRead, Asks
  <2>4. RequestFits(q, target')
    BY <2>2, <2>3 DEF RequestFits
  <2>. QED BY <2>2, <2>3, <2>4, RequestGoes
<1>7. \/ Open(s) \/ Resolve(s) \/ Undo(s) \/ Enqueue(s) \/ UndoRead(s) \/ UndoWrite(s) \/ Crash(s)
  BY <1>1 DEF Guide, Step, StartPass, HandBack, LoadPass, Sync, BeginRead, Begin, Analyze, Review,
     Preview, Count, Push, Raise, PauseRead, Pause, CompleteRead, Complete, AdvanceStage, Settle,
     Except, Fail, Decline, Cancel
<1>. QED BY <1>3, <1>4, <1>5, <1>6, <1>7, EnqueueDelivers, UndoWriteDelivers, RequestLossDelivers

LEMMA PassDelivers ==
  ASSUME TypeOK, Syncing, Delivers, mode = "AUTOPILOT",
         Open(Pass) \/ Resolve(Pass) \/ Guide(Pass) \/ Undo(Pass) \/ Step(Pass) \/ Crash(Pass)
  PROVE  Delivers'
<1>1. session[Pass].pc \in PassPcs
  BY DEF Delivers, Fits
<1>2. ~(Enqueue(Pass) \/ Decline(Pass) \/ Cancel(Pass) \/ UndoRead(Pass) \/ UndoWrite(Pass))
  BY <1>1 DEF PassPcs, Working, Enqueue, Decline, Cancel, UndoRead, UndoWrite
<1>3. ~(Open(Pass) \/ Resolve(Pass) \/ Guide(Pass) \/ Undo(Pass))
  BY DEF Open, Resolve, Guide, Undo
<1>. QED BY <1>2, <1>3, StartDelivers, HandBackDelivers, ReadsDeliver, SyncDelivers, BeginDelivers,
         WorkDelivers, PushDelivers, PauseDelivers, CompleteDelivers, AdvanceDelivers, SettleDelivers,
         FailDelivers, LossDelivers
     DEF Step

(* execution_mode is written by create_batch only. *)
LEMMA ModeStays == [Next]_vars => mode' = mode
<1> SUFFICES ASSUME [Next]_vars PROVE mode' = mode
  OBVIOUS
<1>1. CASE UNCHANGED vars \/ ClaimPass
  BY <1>1 DEF vars, ClaimPass
<1>2. ASSUME NEW s \in Session, Open(s) \/ Resolve(s) \/ Guide(s) \/ Undo(s) \/ Crash(s)
      PROVE  mode' = mode
  BY <1>2 DEF Open, Resolve, Guide, Undo, Crash
<1>3. ASSUME NEW s \in Session,
             StartPass(s) \/ HandBack(s) \/ LoadPass(s) \/ Sync(s) \/ Enqueue(s)
             \/ BeginRead(s) \/ Begin(s)
      PROVE  mode' = mode
  BY <1>3 DEF StartPass, HandBack, LoadPass, Sync, Enqueue, BeginRead, Begin
<1>4. ASSUME NEW s \in Session,
             Analyze(s) \/ Review(s) \/ Preview(s) \/ Count(s) \/ Push(s) \/ Raise(s)
             \/ PauseRead(s) \/ Pause(s)
      PROVE  mode' = mode
  BY <1>4 DEF Analyze, Review, Preview, Count, Push, Raise, PauseRead, Pause
<1>5. ASSUME NEW s \in Session,
             CompleteRead(s) \/ Complete(s) \/ AdvanceStage(s) \/ Settle(s)
             \/ Except(s) \/ Fail(s)
             \/ Decline(s) \/ Cancel(s) \/ UndoRead(s) \/ UndoWrite(s)
      PROVE  mode' = mode
  BY <1>5 DEF CompleteRead, Complete, AdvanceStage, Settle, Except, Fail, Decline, Cancel, UndoRead,
     UndoWrite
<1>. QED BY <1>1, <1>2, <1>3, <1>4, <1>5 DEF Next, Step

LEMMA DeliveryInvariant == Spec => [](Unpolled /\ mode = "AUTOPILOT" => Delivers)
<1>1. Init => (Unpolled /\ mode = "AUTOPILOT" => Delivers)
  <2> SUFFICES ASSUME Init, mode = "AUTOPILOT" PROVE Delivers
    OBVIOUS
  <2>1. /\ session[Pass] = Idle /\ session[Uploader] = At("enqueue", "upload", "analyze")
        /\ \A r \in Request \ {Uploader} : session[r] = Idle
    BY SessionAssumption DEF Init, Session
  <2>2. /\ row.status = "ACTIVE" /\ row.current = "analyze" /\ Is(row, "analyze") = "QUEUED"
        /\ target = "NONE"
    BY DEF Init, InitialRow, Is, Entry, Ready, Stages
  <2>3. /\ At("enqueue", "upload", "analyze").pc = "enqueue"
        /\ At("enqueue", "upload", "analyze").kind = "upload"
    BY DEF At
  <2>4. ASSUME NEW r \in Request PROVE RequestFits(session[r], target)
    BY <2>1, <2>2, <2>3 DEF RequestFits, Idle
  <2>5. Fits(session[Pass], row) /\ session[Pass].pc = "idle"
    BY <2>1 DEF Fits, Idle, PassPcs, Working, Holding
  <2>6. Says(row, target)
    BY <2>2 DEF Says
  <2>7. PushIsPursued /\ WorkIsPursued /\ DecisionIsPursued /\ PauseIsAsked
    <3>1. Asks(session[Uploader]) /\ session[Uploader].kind # "resolve"
      BY <2>1, <2>3 DEF Asks
    <3>. QED BY <2>2, <2>5, <3>1, SessionAssumption
         DEF PushIsPursued, WorkIsPursued, DecisionIsPursued, PauseIsAsked
  <2>. QED BY <2>2, <2>4, <2>5, <2>6, <2>7 DEF Delivers
<1>2. TypeOK /\ Syncing /\ (Unpolled /\ mode = "AUTOPILOT" => Delivers) /\ [Next]_vars
        => (Unpolled /\ mode = "AUTOPILOT" => Delivers)'
  <2> SUFFICES ASSUME TypeOK, Syncing, Unpolled, mode = "AUTOPILOT" => Delivers, [Next]_vars,
                      mode' = "AUTOPILOT"
               PROVE  Delivers'
    OBVIOUS
  <2>1. mode = "AUTOPILOT"
    BY ModeStays
  <2>2. Delivers
    BY <2>1
  <2>3. CASE UNCHANGED vars
    BY <2>2, <2>3 DEF vars, job, Delivers, RequestFits, Fits, Says, Is, PushIsPursued, WorkIsPursued,
       DecisionIsPursued, PauseIsAsked, Pushing, Asked, Asks, Claimable
  <2>4. CASE ClaimPass
    BY <2>2, <2>4, ClaimDelivers
  <2>5. ASSUME NEW s \in Session,
               Open(s) \/ Resolve(s) \/ Guide(s) \/ Undo(s) \/ Step(s) \/ Crash(s)
        PROVE  Delivers'
    <3>1. CASE s \in Request
      BY <2>1, <2>2, <2>5, <3>1, RequestDelivers
    <3>2. CASE s = Pass
      BY <2>1, <2>2, <2>5, <3>2, PassDelivers
    <3>. QED BY <3>1, <3>2 DEF Session
  <2>. QED BY <2>3, <2>4, <2>5 DEF Next
<1>. QED BY <1>1, <1>2, Typing, SyncingInvariant, PTL DEF Spec

(* Nobody leaves an Autopilot migration ACTIVE: when everybody is gone and *)
(* the row still says so, an upload was lost before its enqueue            *)
(* (batches.py:85), or a push (pipeline.py:166 and 252).                   *)
THEOREM RestsVisibly ==
  ASSUME Unpolled PROVE Spec => []RestIsVisible
<1>1. Delivers => RestIsVisible
  <2> SUFFICES ASSUME Delivers, Nobody, row.status = "ACTIVE"
               PROVE  IF row.current = "push" THEN "push" \in lost ELSE "enqueue" \in lost
    BY DEF RestIsVisible
  <2>1. session[Pass].pc = "idle" /\ ~Claimable /\ \A r \in Request : session[r].pc = "idle"
    BY DEF Nobody, Idle, Session, Claimable
  <2>. QED BY <2>1 DEF Delivers, PushIsPursued, WorkIsPursued, Pushing, Delivering, Asks
<1>2. (Unpolled /\ mode = "AUTOPILOT" => Delivers) => RestIsVisible
  BY <1>1 DEF RestIsVisible
<1>. QED BY <1>2, DeliveryInvariant, PTL

(* A decided review is taken up by a pass: when everybody is gone and it   *)
(* was not, the request that decided it was lost before its enqueue        *)
(* (workflow.py:57), or met the end of a pass (jobs.py:83-88).             *)
THEOREM DecisionsAreTakenUp ==
  ASSUME Unpolled PROVE Spec => []DecisionIsTakenUp
<1>1. Delivers => DecisionIsTakenUp
  <2> SUFFICES ASSUME Delivers, Nobody, row.status = "PAUSED", workflow = "COMPLETED"
               PROVE  "enqueue" \in lost \/ missed
    BY DEF DecisionIsTakenUp
  <2>1. ~Claimable /\ \A r \in Request : session[r].pc = "idle"
    BY DEF Nobody, Idle, Session, Claimable
  <2>. QED BY <2>1 DEF Delivers, DecisionIsPursued, Asked, Asks
<1>2. (Unpolled /\ mode = "AUTOPILOT" => Delivers) => DecisionIsTakenUp
  BY <1>1 DEF DecisionIsTakenUp
<1>. QED BY <1>2, DeliveryInvariant, PTL
=============================================================================
