------------------------------ MODULE PassQueue ------------------------------
(***************************************************************************)
(* What the queue promises about the passes of one migration: the job row, *)
(* at most one pass at a time, and the fate of a request.  There are no    *)
(* leases, dispatchers or processes here.  JobQueue implements it, and     *)
(* Pipeline takes its job row and its passes from it.                      *)
(***************************************************************************)
CONSTANT Thread  \* pool threads

VARIABLES
  status,  \* pipeline_jobs.status
  owed,    \* a request came that no pass has begun after
  missed,  \* such a request came while a pass was handing the row back
  pass     \* of each thread: "none", "claimed", "begun", or the status it is about to write

vars == <<status, owed, missed, pass>>

HandedBack == {"QUEUED", "WAITING", "FAILED"}

Init ==
  /\ status = "NONE"
  /\ owed = FALSE
  /\ missed = FALSE
  /\ pass = [t \in Thread |-> "none"]

(* A request is never refused; the pass under way goes on. *)
Ask ==
  /\ status' = IF status = "RUNNING" THEN status ELSE "QUEUED"
  /\ owed' = TRUE
  /\ missed' = (missed \/ \E t \in Thread : pass[t] \in HandedBack)
  /\ UNCHANGED pass

(* A queued row is claimed, or one whose pass was lost. *)
Claim(t) ==
  /\ status \in {"QUEUED", "RUNNING"}
  /\ \A u \in Thread : pass[u] = "none"
  /\ status' = "RUNNING"
  /\ pass' = [pass EXCEPT ![t] = "claimed"]
  /\ UNCHANGED <<owed, missed>>

Begin(t) ==
  /\ pass[t] = "claimed"
  /\ pass' = [pass EXCEPT ![t] = "begun"]
  /\ owed' = FALSE
  /\ missed' = FALSE
  /\ UNCHANGED status

(* The end of a pass: what came during it asks for another one. *)
Finish(t) ==
  /\ pass[t] = "begun"
  /\ \E ends \in IF owed THEN {"QUEUED"} ELSE {"WAITING", "FAILED"} :
       pass' = [pass EXCEPT ![t] = ends]
  /\ UNCHANGED <<status, owed, missed>>

HandBack(t) ==
  /\ pass[t] \in HandedBack
  /\ status' = pass[t]
  /\ pass' = [pass EXCEPT ![t] = "none"]
  /\ UNCHANGED <<owed, missed>>

(* A pass is lost with its process, or with a statement that failed. *)
Lose(t) ==
  /\ pass[t] # "none"
  /\ pass' = [pass EXCEPT ![t] = "none"]
  /\ UNCHANGED <<status, owed, missed>>

Next ==
  \/ Ask
  \/ \E t \in Thread : Claim(t) \/ Begin(t) \/ Finish(t) \/ HandBack(t) \/ Lose(t)

Spec == Init /\ [][Next]_vars
=============================================================================
