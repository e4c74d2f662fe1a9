--------------------------- MODULE JobQueueProofs ---------------------------
(* Proofs about the job queue, for every number of processes, threads,     *)
(* batches, faults and requests.                                           *)
EXTENDS JobQueue, TLAPS

Assumptions ==
  /\ Owner \in [Worker -> Proc]
  /\ NoWorker \notin Worker
  /\ LeaseTicks \in Nat /\ LeaseTicks >= 2
  /\ MaxFaults \in Nat /\ MaxGeneration \in Nat

LEMMA AssumptionsHold == Assumptions
  BY OwnerAssumption, NoWorkerAssumption, LeaseAssumption, BoundAssumption DEF Assumptions

(* Every variable of the queue keeps its type (jobs.py). *)
THEOREM Typing == Spec => []TypeOK
<1>1. Init => TypeOK
  BY AssumptionsHold DEF Init, TypeOK, Assumptions, Statuses, Passes, Dispatchers, Idle, AtWait
<1>2. TypeOK /\ [Next]_vars => TypeOK'
  <2> SUFFICES ASSUME TypeOK, [Next]_vars PROVE TypeOK'
    OBVIOUS
  <2> USE AssumptionsHold DEF Assumptions, TypeOK
  <2>1. CASE UNCHANGED vars
    BY <2>1 DEF vars
  <2>2. ASSUME NEW b \in Batch, Enqueue(b) PROVE TypeOK'
    BY <2>2 DEF Enqueue, Statuses
  <2>3. ASSUME NEW p \in Proc, Renew(p) PROVE TypeOK'
    <3>1. worker' \in [Worker -> Passes]
      BY <2>3 DEF Renew, Passes, Idle
    <3>2. disp' \in [Proc -> Dispatchers]
      BY <2>3 DEF Renew, Dispatchers, AtWait, AtSelect
    <3>3. lease' \in [Batch -> 0..LeaseTicks]
      BY <2>3 DEF Renew
    <3>. QED BY <2>3, <3>1, <3>2, <3>3 DEF Renew
  <2>4. ASSUME NEW p \in Proc, Select(p) PROVE TypeOK'
    BY <2>4 DEF Select, Dispatchers, AtWait, AtUpdate
  <2>5. ASSUME NEW p \in Proc, Claim(p) PROVE TypeOK'
    BY <2>5 DEF Claim, Dispatchers, AtRead, Statuses
  <2>6. ASSUME NEW p \in Proc, ClaimLost(p) PROVE TypeOK'
    BY <2>6 DEF ClaimLost, Dispatchers, AtWait
  <2>7. ASSUME NEW p \in Proc, Submit(p) PROVE TypeOK'
    BY <2>7 DEF Submit, Dispatchers, AtWait, Passes, Running
  <2>8. ASSUME NEW w \in Worker, FinishRead(w) PROVE TypeOK'
    BY <2>8 DEF FinishRead, Passes, Idle, Done, Finishing
  <2>9. ASSUME NEW w \in Worker, FinishWrite(w) PROVE TypeOK'
    BY <2>9 DEF FinishWrite, Passes, Idle, Done, Statuses
  <2>10. ASSUME NEW w \in Worker, WorkerError(w) PROVE TypeOK'
    BY <2>10 DEF WorkerError, Passes, Done, Fault
  <2>11. CASE Clock
    BY <2>11 DEF Clock, Tick
  <2>12. CASE Stall
    BY <2>12 DEF Stall, Tick, Fault
  <2>13. ASSUME NEW p \in Proc, DispatcherError(p) PROVE TypeOK'
    BY <2>13 DEF DispatcherError, Fault, Dispatchers, AtWait
  <2>14. ASSUME NEW p \in Proc, Stop(p) PROVE TypeOK'
    BY <2>14 DEF Stop, Fault, Dispatchers, Stopped
  <2>15. ASSUME NEW p \in Proc, Crash(p) PROVE TypeOK'
    BY <2>15 DEF Crash, Fault, Dispatchers, Down, Passes
  <2>16. ASSUME NEW p \in Proc, Start(p) PROVE TypeOK'
    BY <2>16 DEF Start, Dispatchers, AtWait, Passes
  <2>. QED
    BY <2>1, <2>2, <2>3, <2>4, <2>5, <2>6, <2>7, <2>8, <2>9, <2>10, <2>11, <2>12,
       <2>13, <2>14, <2>15, <2>16
    DEF Next, Dispatch, Finish
<1>. QED
  BY <1>1, <1>2, PTL DEF Spec

----------------------------------------------------------------------------
(* What makes RestMeansServed inductive: the generation a pass works from  *)
(* is one that was served, and a finishing pass that will put the row to   *)
(* rest has either seen the newest request or was overtaken by it.         *)
ServedIsRequested == \A b \in Batch : served[b] <= generation[b]

PassIsServed == \A w \in Worker : Active(w) => worker[w].gen <= served[worker[w].batch]

FinishingIsServed ==
  \A w \in Worker : /\ worker[w].pc = "finishing"
                    /\ worker[w].next # "QUEUED"
                    /\ generation[worker[w].batch] > served[worker[w].batch]
                    => worker[w].batch \in late

Accounted == ServedIsRequested /\ PassIsServed /\ FinishingIsServed /\ RestMeansServed

LEMMA AccountedInvariant == Spec => []Accounted
<1>1. Init => Accounted
  BY DEF Init, Accounted, ServedIsRequested, PassIsServed, FinishingIsServed, RestMeansServed,
     Active, Idle
<1>2. TypeOK /\ Accounted /\ [Next]_vars => Accounted'
  <2> SUFFICES ASSUME TypeOK, Accounted, [Next]_vars PROVE Accounted'
    OBVIOUS
  <2> USE DEF TypeOK, Accounted, ServedIsRequested, PassIsServed, FinishingIsServed,
              RestMeansServed, Active
  <2>1. CASE UNCHANGED vars
    BY <2>1 DEF vars
  <2>2. ASSUME NEW b \in Batch, Enqueue(b) PROVE Accounted'
    <3>1. \A c \in Batch : /\ generation'[c] \in Nat
                           /\ generation[c] <= generation'[c]
                           /\ c # b => generation'[c] = generation[c]
                           /\ served'[c] = served[c]
      BY <2>2 DEF Enqueue
    <3>2. \A w \in Worker : worker'[w].pc = "finishing" /\ worker'[w].batch = b => b \in late'
      BY <2>2 DEF Enqueue, WorksOn
    <3>3. status'[b] \notin {"WAITING", "FAILED"}
      BY <2>2 DEF Enqueue
    <3>4. \A c \in Batch : c # b => status'[c] = status[c]
      BY <2>2 DEF Enqueue
    <3>5. worker' = worker /\ late \subseteq late'
      BY <2>2 DEF Enqueue
    <3>6. \A w \in Worker : Active(w) => worker[w].batch \in Batch /\ worker[w].gen \in Nat
      BY DEF Passes, Idle, Done
    <3>7. ServedIsRequested' /\ PassIsServed'
      BY <3>1, <3>5, <3>6
    <3>8. FinishingIsServed'
      BY <3>1, <3>2, <3>5, <3>6
    <3>9. RestMeansServed'
      BY <3>1, <3>3, <3>4, <3>5
    <3>. QED BY <3>7, <3>8, <3>9
  <2>3. ASSUME NEW p \in Proc, Renew(p) PROVE Accounted'
    BY <2>3 DEF Renew, Idle
  <2>4. ASSUME NEW p \in Proc, Select(p) \/ ClaimLost(p) \/ DispatcherError(p) \/ Stop(p)
        PROVE Accounted'
    BY <2>4 DEF Select, ClaimLost, DispatcherError, Stop
  <2>5. ASSUME NEW p \in Proc, Claim(p) PROVE Accounted'
    BY <2>5 DEF Claim
  <2>6. ASSUME NEW p \in Proc, Submit(p) PROVE Accounted'
    <3>1. PICK b \in Batch, w \in Worker :
                 /\ worker' = [worker EXCEPT ![w] = Running(b, generation[b])]
                 /\ served' = [served EXCEPT ![b] = generation[b]]
                 /\ late' = late \ {b}
      BY <2>6 DEF Submit
    <3>2. status' = status /\ generation' = generation
      BY <2>6 DEF Submit
    <3>3. \A v \in Worker : Active(v) => worker[v].batch \in Batch /\ worker[v].gen \in Nat
      BY DEF Passes, Idle, Done
    <3>4. \A c \in Batch : served[c] <= served'[c] /\ served'[c] <= generation[c]
      BY <3>1
    <3>5. \A v \in Worker : \/ worker'[v] = worker[v]
                             \/ worker'[v] = Running(b, generation[b])
      BY <3>1
    <3>6. ServedIsRequested' /\ RestMeansServed'
      BY <3>1, <3>2
    <3>7. PassIsServed'
      BY <3>1, <3>3, <3>4, <3>5 DEF Running
    <3>8. FinishingIsServed'
      BY <3>1, <3>2, <3>3, <3>5 DEF Running
    <3>. QED BY <3>6, <3>7, <3>8
  <2>7. ASSUME NEW w \in Worker, FinishRead(w) PROVE Accounted'
    <3>1. worker[w].batch \in Batch /\ worker[w].gen \in Nat
      BY <2>7 DEF FinishRead, Passes, Idle, Done
    <3>2. \/ worker' = [worker EXCEPT ![w] = Done]
          \/ \E s \in {"QUEUED", "WAITING", "FAILED"} :
               /\ worker' = [worker EXCEPT ![w] = Finishing(worker[w].batch, worker[w].gen, s)]
               /\ s # "QUEUED" => generation[worker[w].batch] <= worker[w].gen
      <4>1. PICK ended \in {"WAITING", "FAILED"} :
              worker' = [worker EXCEPT ![w] =
                IF token[worker[w].batch] # w THEN Done
                ELSE Finishing(worker[w].batch, worker[w].gen,
                       IF generation[worker[w].batch] > worker[w].gen THEN "QUEUED" ELSE ended)]
        BY <2>7 DEF FinishRead
      <4>2. CASE token[worker[w].batch] # w
        BY <4>1, <4>2
      <4>3. CASE token[worker[w].batch] = w /\ generation[worker[w].batch] > worker[w].gen
        BY <4>1, <4>3
      <4>4. CASE token[worker[w].batch] = w /\ generation[worker[w].batch] <= worker[w].gen
        BY <4>1, <4>4, <3>1
      <4>. QED BY <4>2, <4>3, <4>4, <3>1
    <3>3. UNCHANGED <<status, generation, served, late>>
      BY <2>7 DEF FinishRead
    <3>4. worker[w].gen <= served[worker[w].batch]
      BY <2>7 DEF FinishRead
    <3>. QED BY <3>1, <3>2, <3>3, <3>4 DEF Done, Finishing
  <2>8. ASSUME NEW w \in Worker, FinishWrite(w) PROVE Accounted'
    BY <2>8 DEF FinishWrite, Passes, Idle, Done
  <2>9. ASSUME NEW w \in Worker, WorkerError(w) PROVE Accounted'
    BY <2>9 DEF WorkerError, Done
  <2>10. CASE Clock \/ Stall
    BY <2>10 DEF Clock, Stall, Tick
  <2>11. ASSUME NEW p \in Proc, Crash(p) \/ Start(p) PROVE Accounted'
    BY <2>11 DEF Crash, Start, Idle
  <2>. QED
    BY <2>1, <2>2, <2>3, <2>4, <2>5, <2>6, <2>7, <2>8, <2>9, <2>10, <2>11
    DEF Next, Dispatch, Finish
<1>. QED
  BY <1>1, <1>2, Typing, PTL DEF Spec

(* A row comes to rest owing a pass only through the finishing window of   *)
(* execute (jobs.py:83-88), under every kind of fault.                     *)
THEOREM RestIsServed == Spec => []RestMeansServed
<1>1. Accounted => RestMeansServed
  BY DEF Accounted
<1>. QED
  BY <1>1, AccountedInvariant, PTL

----------------------------------------------------------------------------
(* Dispatchers keep their period: nobody stops or stalls one.              *)
Punctual == Faults \cap {"stop", "stall"} = {}

(* What a lease is worth while it is renewed in time: it outlives the next *)
(* tick, and the one after that if its owner has renewed since the last.   *)
Leased(b, p) == /\ status[b] = "RUNNING"
                /\ lease[b] >= 1
                /\ p \in fresh => lease[b] >= 2

(* What makes OnePassPerBatch inductive: a thread at work, and a thread    *)
(* about to be given work, hold the row by token and under a live lease.   *)
Holding ==
  /\ \A p \in Proc : disp[p] # Stopped
  /\ \A w \in Worker : Active(w) =>
       /\ Live(Owner[w])
       /\ token[worker[w].batch] = w
       /\ Leased(worker[w].batch, Owner[w])
  /\ \A p \in Proc : disp[p].pc = "read" =>
       /\ Owner[disp[p].token] = p
       /\ worker[disp[p].token] = Idle
       /\ token[disp[p].batch] = disp[p].token
       /\ Leased(disp[p].batch, p)

LEMMA HoldingInvariant == ASSUME Punctual PROVE Spec => []Holding
<1>1. Init => Holding
  BY AssumptionsHold DEF Init, Holding, Active, Idle, AtWait, Stopped, Assumptions
<1>2. TypeOK /\ Holding /\ [Next]_vars => Holding'
  <2> SUFFICES ASSUME TypeOK, Holding, [Next]_vars PROVE Holding'
    OBVIOUS
  <2> USE AssumptionsHold, Punctual DEF Assumptions, TypeOK, Active
  <2>a. \A w \in Worker : Active(w) => worker[w].batch \in Batch
    BY DEF Passes, Idle, Done
  <2>b. \A p \in Proc : disp[p].pc = "read" => disp[p].batch \in Batch /\ disp[p].token \in Worker
    BY DEF Dispatchers, AtWait, AtSelect, Stopped, Down
  <2>1. CASE UNCHANGED vars
    BY <2>1 DEF vars, Holding, Leased, Live
  <2>2. ASSUME NEW b \in Batch, Enqueue(b) PROVE Holding'
    BY <2>2, <2>a, <2>b DEF Enqueue, Holding, Leased, Live
  <2>3. ASSUME NEW p \in Proc, Renew(p) PROVE Holding'
    <3>1. \A q \in Proc : /\ q # p => disp'[q] = disp[q]
                          /\ disp'[p] \in {AtWait, AtSelect}
                          /\ disp[p] = AtWait
      BY <2>3 DEF Renew
    <3>2. \A w \in Worker : /\ Active(w) => worker'[w] = worker[w]
                            /\ Active(w)' => Active(w)
                            /\ worker[w] = Idle => worker'[w] = Idle
      BY <2>3 DEF Renew, Idle, Done
    <3>3. \A b \in Batch : lease'[b] \in Nat /\ lease'[b] >= lease[b]
      BY <2>3 DEF Renew
    <3>4. \A w \in Worker : Active(w) /\ Owner[w] = p => lease'[worker[w].batch] >= 2
      BY <2>3, <2>a DEF Renew, Renewed, WorksOn, Holding
    <3>5. status' = status /\ token' = token /\ fresh' = fresh \cup {p}
      BY <2>3 DEF Renew
    <3>6. \A q \in Proc : /\ disp'[q] # Stopped
                          /\ Live(q) => Live(q)'
                          /\ disp'[q].pc = "read" => q # p /\ disp'[q] = disp[q]
      BY <3>1 DEF Holding, Live, AtWait, AtSelect, Stopped
    <3>7. \A b \in Batch, q \in Proc : /\ Leased(b, q)
                                       /\ q = p => lease'[b] >= 2
                                       => Leased(b, q)'
      BY <3>3, <3>5 DEF Leased
    <3>8. \A w \in Worker : Active(w)' =>
            /\ Live(Owner[w])' /\ (token[worker[w].batch] = w)' /\ Leased(worker[w].batch, Owner[w])'
      <4> SUFFICES ASSUME NEW w \in Worker, Active(w)'
                   PROVE /\ Live(Owner[w])' /\ (token[worker[w].batch] = w)'
                         /\ Leased(worker[w].batch, Owner[w])'
        OBVIOUS
      <4>1. Active(w) /\ worker'[w] = worker[w] /\ worker[w].batch \in Batch
        BY <3>2, <2>a
      <4>2. Leased(worker[w].batch, Owner[w])'
        BY <4>1, <3>4, <3>7 DEF Holding, Leased
      <4>. QED BY <4>1, <4>2, <3>5, <3>6 DEF Holding
    <3>9. \A q \in Proc : disp'[q].pc = "read" =>
            /\ Owner[disp'[q].token] = q
            /\ worker'[disp'[q].token] = Idle
            /\ token'[disp'[q].batch] = disp'[q].token
            /\ Leased(disp[q].batch, q)'
      BY <3>2, <3>5, <3>6, <3>7, <2>b DEF Holding
    <3>. QED BY <3>6, <3>8, <3>9 DEF Holding, Leased
  <2>4. ASSUME NEW p \in Proc, Select(p) \/ ClaimLost(p) \/ DispatcherError(p)
        PROVE Holding'
    <3>1. UNCHANGED <<status, token, lease, worker, fresh>>
      BY <2>4 DEF Select, ClaimLost, DispatcherError
    <3>2. \A q \in Proc : /\ disp'[q] # Stopped
                          /\ Live(q) => Live(q)'
                          /\ disp'[q].pc = "read" => disp'[q] = disp[q]
      BY <2>4 DEF Select, ClaimLost, DispatcherError, Holding, Live, AtWait, AtSelect, AtUpdate,
         Stopped
    <3>3. \A w \in Worker : Active(w)' =>
            /\ Live(Owner[w])' /\ (token[worker[w].batch] = w)' /\ Leased(worker[w].batch, Owner[w])'
      BY <3>1, <3>2 DEF Holding, Leased
    <3>4. \A q \in Proc : disp'[q].pc = "read" =>
            /\ Owner[disp'[q].token] = q
            /\ worker'[disp'[q].token] = Idle
            /\ token'[disp'[q].batch] = disp'[q].token
            /\ Leased(disp[q].batch, q)'
      BY <3>1, <3>2 DEF Holding, Leased
    <3>. QED BY <3>2, <3>3, <3>4 DEF Holding
  <2>5. ASSUME NEW p \in Proc, Claim(p) PROVE Holding'
    <3>1. PICK b \in Batch, w \in Worker :
            /\ disp[p] = AtUpdate(b) /\ Owner[w] = p /\ worker[w] = Idle /\ Available(b)
            /\ status' = [status EXCEPT ![b] = "RUNNING"]
            /\ token' = [token EXCEPT ![b] = w]
            /\ lease' = [lease EXCEPT ![b] = LeaseTicks]
            /\ disp' = [disp EXCEPT ![p] = AtRead(b, w)]
            /\ UNCHANGED <<worker, fresh>>
      BY <2>5 DEF Claim
    <3>2. \A v \in Worker : Active(v) => worker[v].batch # b
      BY <3>1 DEF Available, Holding, Leased
    <3>3. \A q \in Proc : disp[q].pc = "read" => disp[q].batch # b
      BY <3>1 DEF Available, Holding, Leased
    <3>4. \A q \in Proc : q # p => disp'[q] = disp[q]
      BY <3>1
    <3>5. disp'[p] = AtRead(b, w) /\ disp[p].pc = "update"
      BY <3>1 DEF AtUpdate
    <3>6. \A q \in Proc : disp'[q] # Stopped /\ (Live(q)' <=> Live(q))
      BY <3>4, <3>5 DEF Holding, AtRead, Stopped, Live
    <3>7. \A v \in Worker : Active(v)' =>
            /\ Live(Owner[v])' /\ (token[worker[v].batch] = v)' /\ Leased(worker[v].batch, Owner[v])'
      BY <3>1, <3>2, <3>6, <2>a DEF Holding, Leased
    <3>8. \A q \in Proc : disp'[q].pc = "read" =>
            /\ Owner[disp'[q].token] = q
            /\ worker'[disp'[q].token] = Idle
            /\ token'[disp'[q].batch] = disp'[q].token
            /\ Leased(disp[q].batch, q)'
      BY <3>1, <3>3, <3>4, <3>5, <2>b DEF Holding, Leased, AtRead
    <3>. QED BY <3>6, <3>7, <3>8 DEF Holding
  <2>6. ASSUME NEW p \in Proc, Submit(p) PROVE Holding'
    <3>1. PICK b \in Batch, w \in Worker :
            /\ disp[p] = AtRead(b, w)
            /\ worker' = [worker EXCEPT ![w] = Running(b, generation[b])]
            /\ disp' = [disp EXCEPT ![p] = AtWait]
            /\ UNCHANGED <<status, token, lease, fresh>>
      BY <2>6 DEF Submit
    <3>2. /\ disp[p].pc = "read" /\ disp[p].batch = b /\ disp[p].token = w
      BY <3>1 DEF AtRead
    <3>3. Owner[w] = p /\ worker[w] = Idle /\ token[b] = w /\ Leased(b, p)
      BY <3>2 DEF Holding
    <3>4. \A q \in Proc : disp'[q] # Stopped /\ (Live(q) => Live(q)')
      BY <3>1 DEF Holding, AtWait, Stopped, Live
    <3>5. Live(p)'
      BY <3>1 DEF AtWait, Live
    <3>6. \A v \in Worker : Active(v)' =>
            /\ Live(Owner[v])' /\ (token[worker[v].batch] = v)' /\ Leased(worker[v].batch, Owner[v])'
      BY <3>1, <3>3, <3>4, <3>5, <2>a DEF Holding, Leased, Running
    <3>7. \A q \in Proc : disp'[q].pc = "read" => q # p /\ disp'[q] = disp[q]
      BY <3>1 DEF AtWait
    <3>8. \A q \in Proc : disp'[q].pc = "read" =>
            /\ Owner[disp'[q].token] = q
            /\ worker'[disp'[q].token] = Idle
            /\ token'[disp'[q].batch] = disp'[q].token
            /\ Leased(disp[q].batch, q)'
      BY <3>1, <3>3, <3>7, <2>b DEF Holding, Leased
    <3>. QED BY <3>4, <3>6, <3>8 DEF Holding
  <2>7. ASSUME NEW w \in Worker, FinishRead(w) PROVE Holding'
    <3>1. worker[w] # Idle /\ Active(w)
      BY <2>7 DEF FinishRead, Idle
    <3>2. /\ \A v \in Worker : v # w => worker'[v] = worker[v]
          /\ worker'[w] = Done \/ (Active(w)' /\ worker'[w].batch = worker[w].batch)
      BY <2>7 DEF FinishRead, Done, Finishing
    <3>3. UNCHANGED <<status, token, lease, disp, fresh>>
      BY <2>7 DEF FinishRead
    <3>4. \A v \in Worker : Active(v)' => Active(v) /\ worker'[v].batch = worker[v].batch
      BY <3>1, <3>2 DEF Done
    <3>5. \A v \in Worker : worker[v] = Idle => worker'[v] = Idle
      BY <3>1, <3>2
    <3>6. \A v \in Worker : Active(v)' =>
            /\ Live(Owner[v])'
            /\ (token[worker[v].batch] = v)'
            /\ Leased(worker[v].batch, Owner[v])'
      BY <3>3, <3>4 DEF Holding, Leased, Live
    <3>7. \A q \in Proc : disp'[q].pc = "read" =>
            /\ Owner[disp'[q].token] = q
            /\ worker'[disp'[q].token] = Idle
            /\ token'[disp'[q].batch] = disp'[q].token
            /\ Leased(disp[q].batch, q)'
      BY <3>3, <3>5, <2>b DEF Holding, Leased
    <3>8. \A q \in Proc : disp'[q] # Stopped
      BY <3>3 DEF Holding
    <3>. QED BY <3>6, <3>7, <3>8 DEF Holding
  <2>8. ASSUME NEW w \in Worker, FinishWrite(w) PROVE Holding'
    <3>1. worker[w] # Idle /\ Active(w)
      BY <2>8 DEF FinishWrite, Idle
    <3>2. \A v \in Worker : v # w /\ Active(v) => worker[v].batch # worker[w].batch
      BY <3>1 DEF Holding
    <3>3. \A q \in Proc : disp[q].pc = "read" => disp[q].batch # worker[w].batch
      BY <3>1, <2>b DEF Holding
    <3>. QED
      BY <2>8, <3>1, <3>2, <3>3, <2>a, <2>b DEF FinishWrite, Holding, Leased, Live, Done
  <2>9. ASSUME NEW w \in Worker, WorkerError(w) PROVE Holding'
    <3>1. worker[w] # Idle
      BY <2>9 DEF WorkerError, Idle
    <3>. QED
      BY <2>9, <3>1, <2>a, <2>b DEF WorkerError, Holding, Leased, Live, Done
  <2>10. CASE Clock
    BY <2>10, <2>a, <2>b DEF Clock, Tick, Holding, Leased, Live
  <2>11. ~Stall /\ \A p \in Proc : ~Stop(p)
    BY DEF Stall, Stop, Fault, Punctual
  <2>12. ASSUME NEW p \in Proc, Crash(p) PROVE Holding'
    BY <2>12, <2>a, <2>b DEF Crash, Holding, Leased, Live, Down, Idle, Stopped
  <2>13. ASSUME NEW p \in Proc, Start(p) PROVE Holding'
    BY <2>13, <2>a, <2>b DEF Start, Holding, Leased, Live, Down, Idle, Stopped, AtWait
  <2>. QED
    BY <2>1, <2>2, <2>3, <2>4, <2>5, <2>6, <2>7, <2>8, <2>9, <2>10, <2>11, <2>12, <2>13
    DEF Next, Dispatch, Finish
<1>. QED
  BY <1>1, <1>2, Typing, PTL DEF Spec

(* With dispatchers that keep their period, any number of processes run at *)
(* most one pass of a migration at a time, crashes and database errors     *)
(* included (jobs.py: claim, _loop, execute).                              *)
THEOREM OnePass == ASSUME Punctual PROVE Spec => []OnePassPerBatch
<1>1. Holding => OnePassPerBatch
  BY DEF Holding, OnePassPerBatch, WorksOn
<1>. QED
  BY <1>1, HoldingInvariant, PTL

(* A claim is ended by the thread that holds it (jobs.py:83-88).           *)
THEOREM ClaimsAreFenced == ASSUME Punctual PROVE Spec => ClaimEndsByHolder
<1> DEFINE EndsByHolder ==
      \A b \in Batch : status[b] = "RUNNING" /\ status'[b] # "RUNNING"
        => \E w \in Worker : token[b] = w /\ WorksOn(w, b) /\ worker'[w] = Done
<1>1. TypeOK /\ Holding /\ [Next]_vars => [EndsByHolder]_vars
  <2> SUFFICES ASSUME TypeOK, Holding, Next, NEW b \in Batch,
                      status[b] = "RUNNING", status'[b] # "RUNNING"
               PROVE \E w \in Worker : token[b] = w /\ WorksOn(w, b) /\ worker'[w] = Done
    OBVIOUS
  <2> USE DEF TypeOK
  <2>1. ASSUME NEW c \in Batch, Enqueue(c) PROVE FALSE
    BY <2>1 DEF Enqueue
  <2>2. ASSUME NEW p \in Proc, Claim(p) PROVE FALSE
    BY <2>2 DEF Claim
  <2>3. ASSUME status' = status PROVE FALSE
    BY <2>3
  <2>4. PICK w \in Worker : FinishWrite(w)
    BY <2>1, <2>2, <2>3
    DEF Next, Dispatch, Finish, Renew, Select, ClaimLost, Submit, FinishRead, DispatcherError,
        WorkerError, Clock, Stall, Stop, Crash, Start
  <2>5. worker[w].batch = b /\ Active(w) /\ worker'[w] = Done
    BY <2>4 DEF FinishWrite, Active
  <2>6. token[b] = w
    BY <2>5 DEF Holding
  <2>. QED BY <2>5, <2>6 DEF WorksOn
<1>2. (Spec => []TypeOK) /\ (Spec => []Holding)
  BY Typing, HoldingInvariant
<1>. QED
  BY <1>1, <1>2, PTL DEF Spec, ClaimEndsByHolder
----------------------------------------------------------------------------
(* Under Holding the pass of a batch is the latest one, so what its end    *)
(* compares with the row is what the latest pass started from.             *)
PassIsLatest == \A w \in Worker : Active(w) => worker[w].gen = served[worker[w].batch]

LEMMA PassIsLatestInvariant == ASSUME Punctual PROVE Spec => []PassIsLatest
<1>1. Init => PassIsLatest
  BY DEF Init, PassIsLatest, Active, Idle
<1>2. TypeOK /\ Holding /\ PassIsLatest /\ [Next]_vars => PassIsLatest'
  <2> SUFFICES ASSUME TypeOK, Holding, PassIsLatest, [Next]_vars PROVE PassIsLatest'
    OBVIOUS
  <2> USE DEF TypeOK, PassIsLatest, Active
  <2>a. \A w \in Worker : Active(w) => worker[w].batch \in Batch
    BY DEF Passes, Idle, Done
  <2>1. CASE UNCHANGED vars
    BY <2>1 DEF vars
  <2>2. ASSUME NEW b \in Batch, Enqueue(b) PROVE PassIsLatest'
    BY <2>2 DEF Enqueue
  <2>3. ASSUME NEW p \in Proc,
               Renew(p) \/ Select(p) \/ Claim(p) \/ ClaimLost(p) \/ DispatcherError(p)
                 \/ Stop(p) \/ Crash(p) \/ Start(p)
        PROVE PassIsLatest'
    BY <2>3, <2>a DEF Renew, Select, Claim, ClaimLost, DispatcherError, Stop, Crash, Start, Idle
  <2>4. ASSUME NEW p \in Proc, Submit(p) PROVE PassIsLatest'
    <3>1. PICK b \in Batch, w \in Worker :
            /\ disp[p] = AtRead(b, w)
            /\ worker' = [worker EXCEPT ![w] = Running(b, generation[b])]
            /\ served' = [served EXCEPT ![b] = generation[b]]
      BY <2>4 DEF Submit
    <3>2. token[b] = w /\ worker[w] = Idle
      BY <3>1 DEF AtRead, Holding
    <3>3. \A v \in Worker : Active(v) => worker[v].batch # b
      BY <3>2 DEF Holding, Idle
    <3>. QED BY <3>1, <3>3, <2>a DEF Running
  <2>5. ASSUME NEW w \in Worker, FinishRead(w) \/ FinishWrite(w) \/ WorkerError(w)
        PROVE PassIsLatest'
    BY <2>5, <2>a DEF FinishRead, FinishWrite, WorkerError, Done, Finishing
  <2>6. CASE Clock \/ Stall
    BY <2>6 DEF Clock, Stall
  <2>. QED
    BY <2>1, <2>2, <2>3, <2>4, <2>5, <2>6 DEF Next, Dispatch, Finish
<1>. QED
  BY <1>1, <1>2, Typing, HoldingInvariant, PTL DEF Spec

----------------------------------------------------------------------------
(* The refinement.  Whoever has a pass of a batch, claimed or begun, holds *)
(* its row; what one action changes is the pass of one thread.             *)
Refining == TypeOK /\ Holding /\ Accounted /\ PassIsLatest

LEMMA PassHolds ==
  ASSUME Refining, NEW b \in Batch, NEW w \in Worker, PassOf(b, w) # "none"
  PROVE  /\ token[b] = w /\ status[b] = "RUNNING" /\ lease[b] >= 1
         /\ Live(Owner[w])
<1> USE AssumptionsHold DEF Assumptions, Refining, Holding, Leased
<1>1. CASE disp[Owner[w]] = AtRead(b, w)
  BY <1>1 DEF AtRead, Live
<1>2. CASE WorksOn(w, b)
  BY <1>2 DEF WorksOn
<1>. QED BY <1>1, <1>2 DEF PassOf

LEMMA PassIs ==
  ASSUME Refining, NEW b \in Batch, NEW w \in Worker
  PROVE  /\ PassOf(b, w) = "claimed" <=> disp[Owner[w]] = AtRead(b, w)
         /\ PassOf(b, w) = "begun" <=> WorksOn(w, b) /\ worker[w].pc = "running"
         /\ PassOf(b, w) \in {"QUEUED", "WAITING", "FAILED"}
              <=> WorksOn(w, b) /\ worker[w].pc = "finishing"
         /\ WorksOn(w, b) /\ worker[w].pc = "finishing" => PassOf(b, w) = worker[w].next
         /\ disp[Owner[w]] = AtRead(b, w) => ~Active(w)
<1> USE AssumptionsHold DEF Assumptions, Refining, Holding
<1>1. disp[Owner[w]] = AtRead(b, w) => worker[w] = Idle
  BY DEF AtRead
<1>2. worker[w].pc = "finishing" => worker[w].next \in {"QUEUED", "WAITING", "FAILED"}
  BY DEF TypeOK, Passes, Idle, Done
<1>. QED BY <1>1, <1>2 DEF PassOf, WorksOn, Active, Idle

(* What the queue of b sees of a step that leaves b alone. *)
LEMMA Stutters ==
  ASSUME NEW b \in Batch, status'[b] = status[b],
         generation'[b] = generation[b], served'[b] = served[b], (b \in late)' <=> b \in late,
         \A w \in Worker : PassOf(b, w)' = PassOf(b, w)
  PROVE  UNCHANGED Passing(b)!vars
  BY DEF Passing!vars

LEMMA StepIsAStep ==
  ASSUME Refining, Refining', [Next]_vars, Punctual, NEW b \in Batch
  PROVE  [Passing(b)!Next]_(Passing(b)!vars)
<1> DEFINE pass(w) == PassOf(b, w)
           owed == generation[b] > served[b]
<1> USE AssumptionsHold DEF Assumptions
<1>a. TypeOK /\ Holding /\ Accounted /\ PassIsLatest
  BY DEF Refining
<1>b. \A v, w \in Worker : pass(v) # "none" /\ pass(w) # "none" => v = w
  BY PassHolds
<1>c. \A v \in Worker : pass(v) \in {"none", "claimed", "begun", "QUEUED", "WAITING", "FAILED"}
  BY <1>a DEF PassOf, WorksOn, Active, TypeOK, Passes, Idle, Done
<1> HIDE DEF pass, owed
<1>1. CASE UNCHANGED vars
  <2>1. \A w \in Worker : pass(w)' = pass(w)
    BY <1>1 DEF vars, pass, PassOf, WorksOn, Active
  <2>. QED BY <1>1, <2>1, Stutters DEF vars, pass
<1>2. ASSUME NEW c \in Batch, Enqueue(c) PROVE [Passing(b)!Next]_(Passing(b)!vars)
  <2>1. \A w \in Worker : pass(w)' = pass(w)
    BY <1>2 DEF Enqueue, pass, PassOf, WorksOn, Active
  <2>2. CASE b # c
    <3>1. (b \in late)' <=> b \in late
      BY <1>2, <2>2 DEF Enqueue
    <3>. QED BY <1>2, <2>1, <2>2, <3>1, Stutters DEF Enqueue, pass
  <2>3. CASE b = c
    <3>1. owed'
      BY <1>2, <2>3, <1>a DEF Enqueue, owed, TypeOK, Accounted, ServedIsRequested
    <3>2. (b \in late)' <=> b \in late \/ \E w \in Worker : pass(w) \in {"QUEUED", "WAITING", "FAILED"}
      BY <1>2, <2>3, PassIs DEF Enqueue, pass
    <3>3. status'[b] = IF status[b] = "RUNNING" THEN status[b] ELSE "QUEUED"
      BY <1>2, <2>3, <1>a DEF Enqueue, TypeOK
    <3>4. Passing(b)!Ask
      BY <2>1, <3>1, <3>2, <3>3 DEF Passing!Ask, Passing!HandedBack, pass, owed
    <3>. QED BY <3>4 DEF Passing!Next
  <2>. QED BY <2>2, <2>3
<1>3. ASSUME NEW p \in Proc, Renew(p) \/ Select(p) \/ ClaimLost(p) \/ Stop(p) \/ Start(p)
      PROVE [Passing(b)!Next]_(Passing(b)!vars)
  <2>1. UNCHANGED <<status, generation, served, late>>
    BY <1>3 DEF Renew, Select, ClaimLost, Stop, Start
  <2>2. \A w \in Worker : disp'[Owner[w]] = AtRead(b, w) <=> disp[Owner[w]] = AtRead(b, w)
    BY <1>3, <1>a DEF Renew, Select, ClaimLost, Stop, Start, AtRead, AtWait, AtSelect, AtUpdate,
       Stopped, Down, TypeOK
  <2>3. \A w \in Worker : /\ Active(w) => worker'[w] = worker[w]
                          /\ ~Active(w) => ~Active(w)'
    BY <1>3, <1>a DEF Renew, Select, ClaimLost, Stop, Start, Active, Idle, Done, TypeOK, Holding,
       Live, Stopped, Down
  <2>4. \A w \in Worker : pass(w)' = pass(w)
    BY <2>2, <2>3 DEF pass, PassOf, WorksOn, Active
  <2>. QED BY <2>1, <2>4, Stutters DEF pass
<1>4. ASSUME NEW p \in Proc, Claim(p) PROVE [Passing(b)!Next]_(Passing(b)!vars)
  <2>1. PICK c \in Batch, w \in Worker :
          /\ disp[p] = AtUpdate(c) /\ Owner[w] = p /\ Available(c)
          /\ status' = [status EXCEPT ![c] = "RUNNING"]
          /\ disp' = [disp EXCEPT ![p] = AtRead(c, w)]
          /\ UNCHANGED <<generation, worker, served, late>>
    BY <1>4 DEF Claim
  <2>2. \A v \in Worker : disp[Owner[v]] = AtRead(b, v) => Owner[v] # p
    BY <2>1 DEF AtRead, AtUpdate
  <2>3. \A v \in Worker : c # b \/ v # w => pass(v)' = pass(v)
    BY <2>1, <2>2, <1>a DEF pass, PassOf, WorksOn, Active, AtRead, AtUpdate, TypeOK
  <2>4. CASE c # b
    BY <2>1, <2>3, <2>4, <1>a, Stutters DEF pass, TypeOK
  <2>5. CASE c = b
    <3>1. pass(w)' = "claimed"
      BY <2>1, <2>5, <1>a DEF pass, PassOf, TypeOK
    <3>2. \A v \in Worker : pass(v) = "none"
      BY <2>1, <2>5, PassHolds DEF Available, pass
    <3>3. status[b] \in {"QUEUED", "RUNNING"} /\ status'[b] = "RUNNING"
      BY <2>1, <2>5, <1>a DEF Available, TypeOK
    <3>4. Passing(b)!Claim(w)
      BY <2>1, <2>3, <3>1, <3>2, <3>3 DEF Passing!Claim, pass
    <3>. QED BY <3>4 DEF Passing!Next
  <2>. QED BY <2>4, <2>5
<1>5. ASSUME NEW p \in Proc, Submit(p) PROVE [Passing(b)!Next]_(Passing(b)!vars)
  <2>1. PICK c \in Batch, w \in Worker :
          /\ disp[p] = AtRead(c, w)
          /\ worker' = [worker EXCEPT ![w] = Running(c, generation[c])]
          /\ served' = [served EXCEPT ![c] = generation[c]]
          /\ late' = late \ {c}
          /\ disp' = [disp EXCEPT ![p] = AtWait]
          /\ UNCHANGED <<status, generation>>
    BY <1>5 DEF Submit
  <2>2. Owner[w] = p /\ worker[w] = Idle
    BY <2>1, <1>a DEF AtRead, Holding
  <2>3. \A v \in Worker : c # b \/ v # w => pass(v)' = pass(v)
    BY <2>1, <2>2, <1>a DEF pass, PassOf, WorksOn, Active, AtRead, AtWait, Running, Idle, TypeOK
  <2>4. CASE c # b
    <3>1. (b \in late)' <=> b \in late
      BY <2>1, <2>4
    <3>. QED BY <2>1, <2>3, <2>4, <3>1, <1>a, Stutters DEF pass, TypeOK
  <2>5. CASE c = b
    <3>1. pass(w) = "claimed"
      BY <2>1, <2>2, <2>5 DEF pass, PassOf
    <3>2. pass(w)' = "begun"
      BY <2>1, <2>2, <2>5, <1>a DEF pass, PassOf, WorksOn, Active, Running, AtWait, AtRead, TypeOK
    <3>3. owed' = FALSE /\ (b \in late)' = FALSE
      BY <2>1, <2>5, <1>a DEF owed, TypeOK
    <3>4. Passing(b)!Begin(w)
      BY <2>1, <2>3, <3>1, <3>2, <3>3 DEF Passing!Begin, pass, owed
    <3>. QED BY <3>4 DEF Passing!Next
  <2>. QED BY <2>4, <2>5
<1>6. ASSUME NEW w \in Worker, FinishRead(w) PROVE [Passing(b)!Next]_(Passing(b)!vars)
  <2>1. UNCHANGED <<status, generation, served, late, disp>>
    BY <1>6 DEF FinishRead
  <2>2. /\ worker[w].pc = "running" /\ Active(w)
        /\ worker[w].batch \in Batch
        /\ token[worker[w].batch] = w
        /\ worker[w].gen = served[worker[w].batch]
    BY <1>6, <1>a DEF FinishRead, Active, Holding, PassIsLatest, TypeOK, Passes, Idle, Done
  <2>3. PICK ended \in {"WAITING", "FAILED"} :
          worker' = [worker EXCEPT ![w] = Finishing(worker[w].batch, worker[w].gen,
            IF generation[worker[w].batch] > worker[w].gen THEN "QUEUED" ELSE ended)]
    BY <1>6, <2>2 DEF FinishRead
  <2>4. \A v \in Worker : worker[w].batch # b \/ v # w => pass(v)' = pass(v)
    BY <2>1, <2>2, <2>3, <1>a DEF pass, PassOf, WorksOn, Active, Finishing, TypeOK
  <2>5. CASE worker[w].batch # b
    BY <2>1, <2>4, <2>5, Stutters DEF pass
  <2>6. CASE worker[w].batch = b
    <3>1. pass(w) = "begun" /\ disp[Owner[w]] # AtRead(b, w)
      BY <2>2, <2>6, PassIs DEF pass, WorksOn
    <3>2. pass(w)' = IF owed THEN "QUEUED" ELSE ended
      BY <2>1, <2>2, <2>3, <2>6, <3>1, <1>a DEF pass, owed, PassOf, WorksOn, Active, Finishing, TypeOK
    <3>3. Passing(b)!Finish(w)
      BY <2>1, <2>4, <3>1, <3>2 DEF Passing!Finish, pass, owed
    <3>. QED BY <3>3 DEF Passing!Next
  <2>. QED BY <2>5, <2>6
<1>7. ASSUME NEW w \in Worker, FinishWrite(w) PROVE [Passing(b)!Next]_(Passing(b)!vars)
  <2>1. /\ UNCHANGED <<generation, served, late, disp>>
        /\ status' = [status EXCEPT ![worker[w].batch] = worker[w].next]
        /\ worker' = [worker EXCEPT ![w] = Done]
    BY <1>7 DEF FinishWrite
  <2>2. worker[w].pc = "finishing" /\ Active(w) /\ worker[w].batch \in Batch
    BY <1>7, <1>a DEF FinishWrite, Active, TypeOK, Passes, Idle, Done
  <2>3. \A v \in Worker : worker[w].batch # b \/ v # w => pass(v)' = pass(v)
    BY <2>1, <2>2, <1>a DEF pass, PassOf, WorksOn, Active, Done, TypeOK
  <2>4. CASE worker[w].batch # b
    BY <2>1, <2>2, <2>3, <2>4, <1>a, Stutters DEF pass, TypeOK
  <2>5. CASE worker[w].batch = b
    <3>1. /\ pass(w) = worker[w].next /\ pass(w) \in {"QUEUED", "WAITING", "FAILED"}
          /\ disp[Owner[w]] # AtRead(b, w)
      BY <2>2, <2>5, PassIs DEF pass, WorksOn
    <3>2. pass(w)' = "none"
      BY <2>1, <3>1, <1>a DEF pass, PassOf, WorksOn, Active, Done, TypeOK
    <3>3. status'[b] = pass(w)
      BY <2>1, <2>5, <3>1, <1>a DEF TypeOK
    <3>4. Passing(b)!HandBack(w)
      BY <2>1, <2>3, <3>1, <3>2, <3>3 DEF Passing!HandBack, Passing!HandedBack, pass
    <3>. QED BY <3>4 DEF Passing!Next
  <2>. QED BY <2>4, <2>5
<1>8. CASE /\ UNCHANGED <<status, generation, served, late>>
           /\ \A v \in Worker : pass(v)' \in {pass(v), "none"}
  <2>1. CASE \A v \in Worker : pass(v)' = pass(v)
    BY <1>8, <2>1, Stutters DEF pass
  <2>2. ASSUME NEW w \in Worker, pass(w)' # pass(w) PROVE Passing(b)!Lose(w)
    <3>1. pass(w) # "none" /\ pass(w)' = "none"
      BY <1>8, <2>2
    <3>2. \A v \in Worker : v # w => pass(v)' = pass(v)
      BY <1>8, <1>b, <3>1
    <3>. QED BY <1>8, <3>1, <3>2 DEF Passing!Lose, pass
  <2>. QED BY <2>1, <2>2 DEF Passing!Next
<1>9. ASSUME NEW w \in Worker, WorkerError(w) PROVE [Passing(b)!Next]_(Passing(b)!vars)
  <2>1. \A v \in Worker : pass(v)' \in {pass(v), "none"}
    BY <1>9, <1>a, PassIs DEF WorkerError, pass, PassOf, WorksOn, Active, Done, TypeOK
  <2>. QED BY <1>8, <1>9, <2>1 DEF WorkerError
<1>10. ASSUME NEW p \in Proc, DispatcherError(p) PROVE [Passing(b)!Next]_(Passing(b)!vars)
  <2>1. \A v \in Worker : \/ disp'[Owner[v]] = disp[Owner[v]]
                          \/ disp'[Owner[v]] # AtRead(b, v)
    BY <1>10, <1>a DEF DispatcherError, AtWait, AtRead, TypeOK
  <2>2. \A v \in Worker : pass(v)' \in {pass(v), "none"}
    BY <1>10, <2>1, <1>a, PassIs DEF DispatcherError, pass, PassOf, WorksOn, Active
  <2>. QED BY <1>8, <1>10, <2>2 DEF DispatcherError
<1>11. ASSUME NEW p \in Proc, Crash(p) PROVE [Passing(b)!Next]_(Passing(b)!vars)
  <2>1. \A v \in Worker : \/ disp'[Owner[v]] = disp[Owner[v]] /\ worker'[v] = worker[v]
                          \/ disp'[Owner[v]] # AtRead(b, v) /\ worker'[v] = Idle
    BY <1>11, <1>a DEF Crash, Down, AtRead, TypeOK
  <2>2. \A v \in Worker : pass(v)' \in {pass(v), "none"}
    BY <2>1 DEF pass, PassOf, WorksOn, Active, Idle
  <2>. QED BY <1>8, <1>11, <2>2 DEF Crash
<1>12. ASSUME Clock \/ Stall PROVE [Passing(b)!Next]_(Passing(b)!vars)
  <2>1. \A w \in Worker : pass(w)' = pass(w)
    BY <1>12 DEF Clock, Stall, pass, PassOf, WorksOn, Active
  <2>. QED BY <1>12, <2>1, Stutters DEF Clock, Stall, pass
<1>. QED
  BY <1>1, <1>2, <1>3, <1>4, <1>5, <1>6, <1>7, <1>9, <1>10, <1>11, <1>12
  DEF Next, Dispatch, Finish

(* Each job row, with the passes over it, behaves as PassQueue says:       *)
(* requests are answered by a pass that begins after them, one pass at a   *)
(* time (jobs.py: enqueue, claim, execute).                                *)
THEOREM QueueOfPasses == ASSUME Punctual PROVE Spec => ImplementsPassQueue
<1>1. ASSUME Init, NEW b \in Batch PROVE Passing(b)!Init
  <2>1. \A w \in Worker : PassOf(b, w) = "none"
    BY <1>1, AssumptionsHold DEF Init, Assumptions, PassOf, WorksOn, Active, Idle, AtWait, AtRead
  <2>. QED BY <1>1, <2>1 DEF Init, Passing!Init
<1>2. Refining /\ Refining' /\ [Next]_vars
        => [\A b \in Batch : [Passing(b)!Next]_(Passing(b)!vars)]_vars
  BY StepIsAStep
<1>3. Spec => []Refining
  BY Typing, HoldingInvariant, AccountedInvariant, PassIsLatestInvariant, PTL DEF Refining
<1>4. Init => \A b \in Batch : Passing(b)!Init
  BY <1>1
<1>. QED
  BY <1>2, <1>3, <1>4, PTL DEF Spec, ImplementsPassQueue

=============================================================================
