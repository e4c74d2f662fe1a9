------------------------------- MODULE Events -------------------------------
(***************************************************************************)
(* The event stream of one migration: emit_event and list_events of        *)
(* backend/app/events/service.py, the stream of backend/app/api/events.py  *)
(* and the browser's EventSource at its other end.                         *)
(*                                                                         *)
(* An event gets its id when it is flushed and can be read once its        *)
(* transaction has committed.  PostgreSQL gives ids from a sequence, in    *)
(* transactions that end in any order; SQLite lets one transaction write   *)
(* at a time and takes the id after the highest it holds.  A stream reads  *)
(* what is above its cursor, again and again.                              *)
(***************************************************************************)
EXTENDS Integers, FiniteSets, Sequences, SequencesExt

CONSTANTS
  Databases,  \* the databases this instance is run on
  Session,    \* sessions that emit events
  Client,     \* browsers and callers that read the stream
  MaxId,      \* bound: ids given
  MaxLosses   \* bound: connections lost and pages reloaded

ASSUME DatabaseAssumption == Databases \subseteq {"sqlite", "postgresql"}
ASSUME BoundAssumption == MaxId \in Nat /\ MaxLosses \in Nat

VARIABLES
  database,   \* fixed in Init
  given,      \* the highest id the sequence has given
  pending,    \* ids flushed by the open transaction of each session
  log,        \* workflow_events: the committed ids
  stream,     \* what serves each client
  received,   \* the ids each client has got since it loaded its page
  losses,     \* losses so far
  overtaken   \* history: ids still uncommitted when a client's page went past them

vars == <<database, given, pending, log, stream, received, losses, overtaken>>

Ids == 1..MaxId

(* `page` is what the latest query returned and the loop has not yielded   *)
(* yet, the lowest id first; `wire` what it has yielded and the client has *)
(* not got.                                                                *)
Closed == [is |-> "closed"]
Streaming(start, once) ==
  [is |-> "polling", once |-> once, cursor |-> start, page |-> {}, wire |-> <<>>]
Streams ==
  {Closed} \cup
  [is : {"polling", "yielding", "ending"}, once : BOOLEAN, cursor : 0..MaxId,
   page : SUBSET Ids, wire : Seq(Ids)]

(* Type invariant. *)
TypeOK ==
  /\ database \in Databases
  /\ given \in 0..MaxId
  /\ pending \in [Session -> SUBSET Ids]
  /\ log \subseteq Ids
  /\ stream \in [Client -> Streams]
  /\ received \in [Client -> Seq(Ids)]
  /\ losses \in 0..MaxLosses
  /\ overtaken \in [Client -> SUBSET Ids]

Init ==
  /\ database \in Databases
  /\ given = 0
  /\ pending = [s \in Session |-> {}]
  /\ log = {}
  /\ stream = [c \in Client |-> Closed]
  /\ received = [c \in Client |-> <<>>]
  /\ losses = 0
  /\ overtaken = [c \in Client |-> {}]

----------------------------------------------------------------------------
(* The writers *)

Uncommitted == UNION {pending[s] : s \in Session}

MayWrite(s) == database = "sqlite" => \A t \in Session \ {s} : pending[t] = {}

(* SQLite takes the highest id it holds and one more, so that it gives the *)
(* id of a row that was rolled back again.                                 *)
NextId == IF database = "postgresql" THEN given + 1 ELSE Max(log \cup Uncommitted \cup {0}) + 1

(* emit_event: the flush. *)
Emit(s) ==
  /\ MayWrite(s)
  /\ NextId <= MaxId
  /\ pending' = [pending EXCEPT ![s] = @ \cup {NextId}]
  /\ given' = IF NextId > given THEN NextId ELSE given
  /\ UNCHANGED <<database, log, stream, received, losses, overtaken>>

Commit(s) ==
  /\ pending[s] # {}
  /\ log' = log \cup pending[s]
  /\ pending' = [pending EXCEPT ![s] = {}]
  /\ UNCHANGED <<database, given, stream, received, losses, overtaken>>

Rollback(s) ==
  /\ pending[s] # {}
  /\ pending' = [pending EXCEPT ![s] = {}]
  /\ UNCHANGED <<database, given, log, stream, received, losses, overtaken>>

----------------------------------------------------------------------------
(* The readers *)

StartAnew(c) == 0 \* mutant: Last-Event-ID is not looked at
StartAfter(c) == IF received[c] = <<>> THEN 0 ELSE Last(received[c]) + 1 \* mutant: one too far

(* events: Last-Event-ID is the id of the last event the client got. *)
Start(c) == IF received[c] = <<>> THEN 0 ELSE Last(received[c])

Connect(c) ==
  /\ stream[c] = Closed
  /\ \E once \in BOOLEAN : stream' = [stream EXCEPT ![c] = Streaming(Start(c), once)]
  /\ UNCHANGED <<database, given, pending, log, received, losses, overtaken>>

Above(n) == {i \in log : i > n + 1} \* mutant: after the next

(* list_events *)
After(n) == {i \in log : i > n}

Poll(c) ==
  /\ stream[c].is = "polling"
  /\ LET new == After(stream[c].cursor)
     IN  /\ stream' = [stream EXCEPT ![c] =
              [@ EXCEPT !.page = new, !.is = IF new # {} THEN "yielding"
                                             ELSE IF stream[c].once THEN "ending" ELSE "polling"]]
         /\ overtaken' = [overtaken EXCEPT
              ![c] = @ \cup {i \in Uncommitted : \E j \in new : i < j}]
  /\ UNCHANGED <<database, given, pending, log, received, losses>>

(* stream: the cursor is the id of the event it yields. *)
Yield(c) ==
  /\ stream[c].is = "yielding"
  /\ \E i \in stream[c].page :
       /\ \A j \in stream[c].page : i <= j
       /\ LET left == stream[c].page \ {i}
          IN  stream' = [stream EXCEPT ![c] =
                [is |-> IF left # {} THEN "yielding" ELSE IF @.once THEN "ending" ELSE "polling",
                 once |-> @.once, cursor |-> i, page |-> left, wire |-> Append(@.wire, i)]]
  /\ UNCHANGED <<database, given, pending, log, received, losses, overtaken>>

Receive(c) ==
  /\ stream[c] # Closed
  /\ stream[c].wire # <<>>
  /\ received' = [received EXCEPT ![c] = Append(@, Head(stream[c].wire))]
  /\ stream' = [stream EXCEPT ![c] = [@ EXCEPT !.wire = Tail(stream[c].wire)]]
  /\ UNCHANGED <<database, given, pending, log, losses, overtaken>>

(* A snapshot ends after its page. *)
End(c) ==
  /\ stream[c].is = "ending"
  /\ stream[c].wire = <<>>
  /\ stream' = [stream EXCEPT ![c] = Closed]
  /\ UNCHANGED <<database, given, pending, log, received, losses, overtaken>>

(* The connection is lost with what is on its way. *)
Lose(c) ==
  /\ stream[c] # Closed
  /\ losses < MaxLosses
  /\ losses' = losses + 1
  /\ stream' = [stream EXCEPT ![c] = Closed]
  /\ UNCHANGED <<database, given, pending, log, received, overtaken>>

(* The page is loaded again: a new EventSource, which has got nothing. *)
Reload(c) ==
  /\ losses < MaxLosses
  /\ losses' = losses + 1
  /\ stream' = [stream EXCEPT ![c] = Closed]
  /\ received' = [received EXCEPT ![c] = <<>>]
  /\ overtaken' = [overtaken EXCEPT ![c] = {}]
  /\ UNCHANGED <<database, given, pending, log>>

Serve(c) == Poll(c) \/ Yield(c) \/ Receive(c) \/ End(c)

Next ==
  \/ \E s \in Session : Emit(s) \/ Commit(s) \/ Rollback(s)
  \/ \E c \in Client : Connect(c) \/ Serve(c) \/ Lose(c) \/ Reload(c)

Spec == Init /\ [][Next]_vars

(* The loop polls every second and an EventSource connects again by        *)
(* itself.  Nobody has to emit, and a transaction may stay open.           *)
FairSpec == Spec /\ \A c \in Client : WF_vars(Serve(c)) /\ WF_vars(Connect(c))

----------------------------------------------------------------------------
(* Properties *)

(* A client gets events in the order of their ids and none of them twice,  *)
(* across lost connections, snapshots and streams (api/events.py: start,   *)
(* cursor).                                                                *)
InOrderOnce ==
  \A c \in Client : \A i, j \in DOMAIN received[c] : i < j => received[c][i] < received[c][j]

(* What a client may be past and not have: on SQLite nothing, since the    *)
(* order of the ids is that of the commits.                                *)
Missable(c) == IF database = "sqlite" THEN {} ELSE overtaken[c]

(* "SSE resumes from Last-Event-ID" (docs/LOW_LEVEL_DESIGN.md:52): what a  *)
(* client is past and has not got was uncommitted when a later event was   *)
(* read for it.  Nothing is missed because a connection was lost.          *)
OnlyOvertakenIsMissed ==
  \A c \in Client : received[c] # <<>> =>
    \A i \in log : i < Last(received[c]) => i \in ToSet(received[c]) \cup Missable(c)

(* Whatever is committed reaches every client that stays, unless it was    *)
(* overtaken.                                                              *)
EveryEventArrives ==
  \A c \in Client, i \in Ids :
    i \in log ~> i \in ToSet(received[c]) \cup Missable(c)
=============================================================================
