------------------------------ MODULE JobQueue ------------------------------
(***************************************************************************)
(* The durable migration queue of backend/app/agent/jobs.py: one SQL row   *)
(* per batch (pipeline_jobs), request handlers that enqueue a pass, and    *)
(* one dispatcher thread per process that claims rows, runs at most two    *)
(* passes at a time and renews their leases.                               *)
(*                                                                         *)
(* Grain of atomicity: one SQL statement that reads, or one transaction    *)
(* from its first write to its commit.  A SELECT followed by a write is    *)
(* two steps, because neither SQLite (autocommitted SELECTs) nor           *)
(* PostgreSQL (READ COMMITTED) keeps the read valid until the write.       *)
(*                                                                         *)
(* Time is counted in ticks.  A tick is at least the dispatcher's period,  *)
(* so a dispatcher that is neither stopped nor stalled renews its leases   *)
(* between any two ticks; LeaseTicks of them are the 60 seconds of a lease.*)
(***************************************************************************)
EXTENDS Integers, FiniteSets

CONSTANTS
  Proc,         \* backend processes, each with one JobRunner
  Worker,       \* pool threads of all the processes (max_workers=2 each)
  Owner,        \* the process a pool thread belongs to
  Batch,        \* migrations
  NoWorker,     \* lease_token IS NULL
  LeaseTicks,   \* LEASE_SECONDS, in ticks
  Faults,       \* the kinds of fault this instance meets
  MaxFaults,    \* bound: faults in a behaviour
  MaxGeneration \* bound: requests per batch

FaultKinds == {"crash", "dberror", "stop", "stall"}

ASSUME OwnerAssumption == Owner \in [Worker -> Proc]
ASSUME NoWorkerAssumption == NoWorker \notin Worker
ASSUME LeaseAssumption == LeaseTicks \in Nat /\ LeaseTicks >= 2
ASSUME BoundAssumption == MaxFaults \in Nat /\ MaxGeneration \in Nat
ASSUME FaultAssumption == Faults \subseteq FaultKinds

VARIABLES
  status,      \* pipeline_jobs.status, "NONE" while there is no row
  generation,  \* pipeline_jobs.generation
  token,       \* pipeline_jobs.lease_token: the worker the uuid was drawn for
  lease,       \* ticks until lease_until
  disp,        \* the dispatcher of each process: where it is, what it claims
  worker,      \* the pool threads: the pass each runs
  fresh,       \* the processes that renewed their leases since the last tick
  faults,      \* faults so far
  served,      \* history: the generation the latest pass of a batch started from
  late         \* history: batches requested while a pass of theirs was finishing

vars == <<status, generation, token, lease, disp, worker, fresh, faults,
          served, late>>

Statuses == {"NONE", "QUEUED", "RUNNING", "WAITING", "FAILED"}

(* A pass is "running" in execute, "finishing" between the SELECT and the  *)
(* UPDATE of its finally block, "done" until the dispatcher drops its      *)
(* future from `active`.                                                   *)
Idle == [pc |-> "free"]
Running(b, g) == [pc |-> "running", batch |-> b, gen |-> g]
Finishing(b, g, s) == [pc |-> "finishing", batch |-> b, gen |-> g, next |-> s]
Done == [pc |-> "done"]

Passes ==
  {Idle, Done}
    \cup [pc : {"running"}, batch : Batch, gen : Nat]
    \cup [pc : {"finishing"}, batch : Batch, gen : Nat,
          next : {"QUEUED", "WAITING", "FAILED"}]

(* A dispatcher is in the wait of its loop, about to SELECT, about to      *)
(* UPDATE the row it selected, about to read the generation of the row it  *)
(* claimed; or it left the loop ("stopped"), or its process is down.       *)
AtWait == [pc |-> "wait"]
AtSelect == [pc |-> "select"]
AtUpdate(b) == [pc |-> "update", batch |-> b]
AtRead(b, w) == [pc |-> "read", batch |-> b, token |-> w]
Stopped == [pc |-> "stopped"]
Down == [pc |-> "down"]

Dispatchers ==
  {AtWait, AtSelect, Stopped, Down}
    \cup [pc : {"update"}, batch : Batch]
    \cup [pc : {"read"}, batch : Batch, token : Worker]

(* Type invariant. *)
TypeOK ==
  /\ status \in [Batch -> Statuses]
  /\ generation \in [Batch -> Nat]
  /\ token \in [Batch -> Worker \cup {NoWorker}]
  /\ lease \in [Batch -> 0..LeaseTicks]
  /\ disp \in [Proc -> Dispatchers]
  /\ worker \in [Worker -> Passes]
  /\ fresh \subseteq Proc
  /\ faults \in Nat
  /\ served \in [Batch -> Nat]
  /\ late \subseteq Batch

Init ==
  /\ status = [b \in Batch |-> "NONE"]
  /\ generation = [b \in Batch |-> 0]
  /\ token = [b \in Batch |-> NoWorker]
  /\ lease = [b \in Batch |-> 0]
  /\ disp = [p \in Proc |-> AtWait]
  /\ worker = [w \in Worker |-> Idle]
  /\ fresh = {}
  /\ faults = 0
  /\ served = [b \in Batch |-> 0]
  /\ late = {}

----------------------------------------------------------------------------
(* Helpers *)

Live(p) == disp[p].pc \notin {"stopped", "down"}

Active(w) == worker[w].pc \in {"running", "finishing"}

WorksOn(w, b) == Active(w) /\ worker[w].batch = b

AvailableUnexpired(b) == status[b] \in {"QUEUED", "RUNNING"} \* mutant: lease_until ignored
AvailableQueued(b) == status[b] = "QUEUED"                 \* mutant: no reclaiming

(* The `available` clause of claim. *)
Available(b) == \/ status[b] = "QUEUED"
                \/ status[b] = "RUNNING" /\ lease[b] = 0

Fault(kind) == /\ kind \in Faults
               /\ faults < MaxFaults
               /\ faults' = faults + 1

----------------------------------------------------------------------------
(* enqueue: called by the run endpoint, by an Autopilot upload and by the  *)
(* resolution of the last review item.  The two UPDATEs commit together;   *)
(* losing the INSERT to a concurrent one leads to the same two UPDATEs.    *)
Enqueue(b) ==
  /\ generation[b] < MaxGeneration
  /\ generation' = [generation EXCEPT ![b] = @ + 1]
  /\ status' = [status EXCEPT ![b] = IF @ = "RUNNING" THEN @ ELSE "QUEUED"]
  /\ late' = IF \E w \in Worker : WorksOn(w, b) /\ worker[w].pc = "finishing"
             THEN late \cup {b} ELSE late
  /\ UNCHANGED <<token, lease, disp, worker, fresh, faults, served>>

RenewedNone(p) == {} \* mutant: leases are never renewed

(* The head of a dispatcher iteration: forget the futures that are done,   *)
(* renew the leases of the others by token, and go on to claim a job when  *)
(* fewer than two are active.                                              *)
Renewed(p) == {b \in Batch : \E w \in Worker :
                 Owner[w] = p /\ WorksOn(w, b) /\ token[b] = w}

Renew(p) ==
  /\ disp[p] = AtWait
  /\ worker' = [w \in Worker |-> IF Owner[w] = p /\ worker[w] = Done
                                 THEN Idle ELSE worker[w]]
  /\ lease' = [b \in Batch |-> IF b \in Renewed(p) THEN LeaseTicks ELSE lease[b]]
  /\ fresh' = fresh \cup {p}
  /\ disp' = [disp EXCEPT ![p] =
                IF \E w \in Worker : Owner[w] = p /\ ~Active(w) THEN AtSelect ELSE AtWait]
  /\ UNCHANGED <<status, generation, token, faults, served, late>>

(* claim, its SELECT.  The code takes the available row with the oldest    *)
(* updated_at; here it is any available row.                               *)
Select(p) ==
  /\ disp[p] = AtSelect
  /\ \/ \E b \in Batch : Available(b) /\ disp' = [disp EXCEPT ![p] = AtUpdate(b)]
     \/ (\A b \in Batch : ~Available(b)) /\ disp' = [disp EXCEPT ![p] = AtWait]
  /\ UNCHANGED <<status, generation, token, lease, worker, fresh, faults, served, late>>

(* claim, its UPDATE with the same condition: one row or none is changed.  *)
Claim(p) ==
  \E b \in Batch, w \in Worker :
    /\ disp[p] = AtUpdate(b)
    /\ Owner[w] = p /\ worker[w] = Idle
    /\ Available(b)
    /\ status' = [status EXCEPT ![b] = "RUNNING"]
    /\ token' = [token EXCEPT ![b] = w]
    /\ lease' = [lease EXCEPT ![b] = LeaseTicks]
    /\ disp' = [disp EXCEPT ![p] = AtRead(b, w)]
    /\ UNCHANGED <<generation, worker, fresh, faults, served, late>>

ClaimLost(p) ==
  \E b \in Batch :
    /\ disp[p] = AtUpdate(b)
    /\ ~Available(b)
    /\ disp' = [disp EXCEPT ![p] = AtWait]
    /\ UNCHANGED <<status, generation, token, lease, worker, fresh, faults, served, late>>

(* claim, its db.get after the commit, and pool.submit: the pass starts    *)
(* from the generation the row has now.                                    *)
Submit(p) ==
  \E b \in Batch, w \in Worker :
    /\ disp[p] = AtRead(b, w)
    /\ worker' = [worker EXCEPT ![w] = Running(b, generation[b])]
    /\ served' = [served EXCEPT ![b] = generation[b]]
    /\ late' = late \ {b}
    /\ disp' = [disp EXCEPT ![p] = AtWait]
    /\ UNCHANGED <<status, generation, token, lease, fresh, faults>>

FinishReadOblivious(w) == \* mutant: the generation is not compared
  /\ worker[w].pc = "running"
  /\ \E ended \in {"WAITING", "FAILED"} :
       worker' = [worker EXCEPT ![w] = IF token[@.batch] # w THEN Done
                                       ELSE Finishing(@.batch, @.gen, ended)]
  /\ UNCHANGED <<status, generation, token, lease, disp, fresh, faults, served, late>>

(* execute, the SELECT of its finally block, fenced by the lease token.    *)
(* The pass itself is the business of the pipeline: here it ends, and it   *)
(* failed or not.                                                          *)
FinishRead(w) ==
  /\ worker[w].pc = "running"
  /\ LET b == worker[w].batch
         g == worker[w].gen
     IN  \E ended \in {"WAITING", "FAILED"} :
           worker' = [worker EXCEPT ![w] =
             IF token[b] # w THEN Done
             ELSE Finishing(b, g, IF generation[b] > g THEN "QUEUED" ELSE ended)]
  /\ UNCHANGED <<status, generation, token, lease, disp, fresh, faults, served, late>>

(* execute, the UPDATE of its finally block.  It is keyed by the batch     *)
(* alone: the token was compared by the SELECT.                            *)
FinishWrite(w) ==
  /\ worker[w].pc = "finishing"
  /\ LET b == worker[w].batch
     IN  /\ status' = [status EXCEPT ![b] = worker[w].next]
         /\ token' = [token EXCEPT ![b] = NoWorker]
         /\ lease' = [lease EXCEPT ![b] = 0]
  /\ worker' = [worker EXCEPT ![w] = Done]
  /\ UNCHANGED <<generation, disp, fresh, faults, served, late>>

----------------------------------------------------------------------------
(* Time and faults *)

TickPastZero == lease' = [b \in Batch |-> lease[b] - 1] /\ fresh' = {} \* mutant: no floor
Tick == /\ lease' = [b \in Batch |-> IF lease[b] = 0 THEN 0 ELSE lease[b] - 1]
        /\ fresh' = {}

(* Time passes while every dispatcher keeps its period. *)
Clock ==
  /\ \A p \in Proc : Live(p) => p \in fresh
  /\ Tick
  /\ UNCHANGED <<status, generation, token, disp, worker, faults, served, late>>

(* Time passes while some dispatcher is held up: a pause of the process, a *)
(* database that does not answer.                                          *)
Stall ==
  /\ \E p \in Proc : Live(p) /\ p \notin fresh
  /\ Fault("stall")
  /\ Tick
  /\ UNCHANGED <<status, generation, token, disp, worker, served, late>>

(* A statement of the dispatcher fails; the loop logs it and goes on.  A   *)
(* claim already committed stays in the row, and no thread works on it.    *)
DispatcherError(p) ==
  /\ disp[p].pc \in {"select", "update", "read"}
  /\ Fault("dberror")
  /\ disp' = [disp EXCEPT ![p] = AtWait]
  /\ UNCHANGED <<status, generation, token, lease, worker, fresh, served, late>>

(* The finally block of execute fails: the future ends, the row stays.     *)
WorkerError(w) ==
  /\ Active(w)
  /\ Fault("dberror")
  /\ worker' = [worker EXCEPT ![w] = Done]
  /\ UNCHANGED <<status, generation, token, lease, disp, fresh, served, late>>

(* stop: the loop ends; pool.shutdown waits for the passes, whose leases   *)
(* nobody renews any more.                                                 *)
Stop(p) ==
  /\ disp[p] = AtWait
  /\ Fault("stop")
  /\ disp' = [disp EXCEPT ![p] = Stopped]
  /\ UNCHANGED <<status, generation, token, lease, worker, fresh, served, late>>

Crash(p) ==
  /\ disp[p] # Down
  /\ Fault("crash")
  /\ disp' = [disp EXCEPT ![p] = Down]
  /\ worker' = [w \in Worker |-> IF Owner[w] = p THEN Idle ELSE worker[w]]
  /\ UNCHANGED <<status, generation, token, lease, fresh, served, late>>

(* start, in a new process or after the passes of the old loop have ended. *)
Start(p) ==
  /\ \/ disp[p] = Down
     \/ disp[p] = Stopped /\ \A w \in Worker : Owner[w] = p => ~Active(w)
  /\ disp' = [disp EXCEPT ![p] = AtWait]
  /\ worker' = [w \in Worker |-> IF Owner[w] = p THEN Idle ELSE worker[w]]
  /\ UNCHANGED <<status, generation, token, lease, fresh, faults, served, late>>

Dispatch(p) == Renew(p) \/ Select(p) \/ Claim(p) \/ ClaimLost(p) \/ Submit(p)

Finish(w) == FinishRead(w) \/ FinishWrite(w)

Next ==
  \/ \E b \in Batch : Enqueue(b)
  \/ \E p \in Proc : Dispatch(p) \/ DispatcherError(p) \/ Stop(p) \/ Crash(p) \/ Start(p)
  \/ \E w \in Worker : Finish(w) \/ WorkerError(w)
  \/ Clock
  \/ Stall

Spec == Init /\ [][Next]_vars

(* The dispatcher is a loop of its own thread; a pass ends because every   *)
(* model and target call in it has a timeout; a container is restarted     *)
(* (docker-compose.aws.yml, restart: unless-stopped); time passes.  Nobody *)
(* has to make a request, and no fault has to happen.                      *)
Fairness ==
  /\ \A p \in Proc : WF_vars(Dispatch(p)) /\ WF_vars(Start(p))
  /\ \A w \in Worker : WF_vars(Finish(w))
  /\ WF_vars(Clock)

FairSpec == Spec /\ Fairness

----------------------------------------------------------------------------
(* Properties *)

(* At most one thread works on a migration, in all the processes: the      *)
(* pipeline has no locking of its own and relies on it (jobs.py: claim,    *)
(* the renewal in _loop).  It needs dispatchers that keep their period, so *)
(* it is checked without "stop" and "stall".                               *)
OnePassPerBatch ==
  \A b \in Batch : \A v, w \in Worker : WorksOn(v, b) /\ WorksOn(w, b) => v = w

(* A row at rest owes no pass: a request that came after the latest pass   *)
(* had started is still in the queue, or it came in the window between the *)
(* SELECT and the UPDATE of a finishing pass (jobs.py:83-88).              *)
RestMeansServed ==
  \A b \in Batch : /\ status[b] \in {"WAITING", "FAILED"}
                   /\ generation[b] > served[b]
                   => b \in late

(* A claim is ended by the thread that holds it and by nobody else: no     *)
(* finishing pass frees, and no request requeues, a row that another       *)
(* thread has claimed since.                                               *)
ClaimEndsByHolder ==
  [][\A b \in Batch : status[b] = "RUNNING" /\ status'[b] # "RUNNING"
       => \E w \in Worker : token[b] = w /\ WorksOn(w, b) /\ worker'[w] = Done]_vars

(* Every requested pass is run to its end and the row comes to rest, also  *)
(* when the process that claimed it dies, or fails after the commit of the *)
(* claim: an expired lease is claimed again.                               *)
EveryJobSettles ==
  \A b \in Batch : status[b] \in {"QUEUED", "RUNNING"}
                     ~> status[b] \in {"WAITING", "FAILED"}

(* The queue as Pipeline uses it: of each migration one pass at a time,    *)
(* which begins after every request it answers, and is followed by another *)
(* for what came during it.  A request is lost only between the SELECT and *)
(* the UPDATE at the end of a pass, and a lost pass is claimed again.      *)
PassOf(b, w) ==
  IF disp[Owner[w]] = AtRead(b, w) THEN "claimed"
  ELSE IF ~WorksOn(w, b) THEN "none"
  ELSE IF worker[w].pc = "running" THEN "begun"
  ELSE worker[w].next

Passing(b) == INSTANCE PassQueue WITH
  Thread <- Worker, status <- status[b], owed <- generation[b] > served[b],
  missed <- b \in late, pass <- [w \in Worker |-> PassOf(b, w)]

ImplementsPassQueue ==
  /\ \A b \in Batch : Passing(b)!Init
  /\ [][\A b \in Batch : [Passing(b)!Next]_(Passing(b)!vars)]_vars
=============================================================================
