---------------------------- MODULE EventsProofs ----------------------------
(* Proofs about the event stream, for any sessions, clients, ids and       *)
(* losses, on either database.                                             *)
EXTENDS Events, FiniteSetTheorems, SequenceTheorems, WellFoundedInduction,
        TLAPS

----------------------------------------------------------------------------
(* The invariant *)

(* Ids rise: what is given next is above whatever a page can hold, and on  *)
(* SQLite one transaction at a time holds ids, above all that is           *)
(* committed.                                                              *)
IdsRise ==
  /\ database = "postgresql" => \A i \in log \cup Uncommitted : i <= given
  /\ database = "sqlite" =>
       /\ \A s, t \in Session : s # t => pending[s] = {} \/ pending[t] = {}
       /\ \A i \in Uncommitted, j \in log : j < i

Rising(q) == \A i, j \in DOMAIN q : i < j => q[i] < q[j]

(* What is below `n` and still to be committed, or committed, has been got *)
(* or may be missed.                                                       *)
HasAllBelow(c, n, got) ==
  \A i \in log \cup Uncommitted : i <= n => i \in got \cup Missable(c)

(* What a client has got, in the order of the ids and with nothing missed  *)
(* before its last one.                                                    *)
HistoryIsRight(c) ==
  /\ Rising(received[c])
  /\ ToSet(received[c]) \subseteq log
  /\ \A n \in ToSet(received[c]) : HasAllBelow(c, n, ToSet(received[c]))

(* What serves it goes on from there: what is on the wire comes after what *)
(* was got, the page after the cursor, and nothing is missed in between.   *)
StreamIsRight(c) ==
  LET q == stream[c]
  IN  /\ Rising(q.wire)
      /\ ToSet(q.wire) \subseteq log
      /\ \A i \in ToSet(received[c]), j \in ToSet(q.wire) : i < j
      /\ \A i \in ToSet(received[c]) \cup ToSet(q.wire) : i <= q.cursor
      /\ q.cursor \in log \cup {0}
      /\ HasAllBelow(c, q.cursor, ToSet(received[c]) \cup ToSet(q.wire))
      /\ q.page \subseteq log
      /\ \A i \in q.page : i > q.cursor
      /\ \A i \in log \cup Uncommitted, j \in q.page :
           q.cursor < i /\ i < j => i \in q.page \cup Missable(c)

IInv ==
  /\ TypeOK
  /\ IdsRise
  /\ \A c \in Client : HistoryIsRight(c)
  /\ \A c \in Client : stream[c] # Closed => StreamIsRight(c)

----------------------------------------------------------------------------
(* Numbers and sequences *)

(* A set of naturals with a bound has a greatest element. *)
LEMMA MaxOfNaturals ==
  ASSUME NEW S \in SUBSET Nat, S # {}, NEW b \in Nat, \A x \in S : x <= b
  PROVE  Max(S) \in S /\ \A y \in S : Max(S) >= y
<1> DEFINE T == {b - x : x \in S}
<1>1. T \subseteq Nat /\ T # {}
  <2>1. \A x \in S : b - x \in Nat
    OBVIOUS
  <2>. QED BY <2>1
<1>2. \E m \in T : \A y \in T : <<y, m>> \notin OpToRel(<, Nat)
  BY <1>1, NatLessThanWellFounded, WFMin
<1>3. PICK x \in S : \A y \in S : <<b - y, b - x>> \notin OpToRel(<, Nat)
  BY <1>2
<1>4. \A y \in S : y \in Nat /\ b - y \in Nat /\ ~(b - y < b - x)
  BY <1>1, <1>3 DEF OpToRel
<1>5. \A y \in S : x >= y
  BY <1>4
<1>. QED BY <1>5 DEF Max

LEMMA InToSet ==
  ASSUME NEW q, NEW x PROVE x \in ToSet(q) <=> \E i \in DOMAIN q : q[i] = x
  BY DEF ToSet

LEMMA LongerIs ==
  ASSUME NEW q, NEW r, NEW e, NEW n \in Nat, DOMAIN q = 1..n, DOMAIN r = 1..(n + 1),
         r[n + 1] = e, \A i \in 1..n : r[i] = q[i]
  PROVE  ToSet(r) = ToSet(q) \cup {e}
<1>1. ASSUME NEW x PROVE x \in ToSet(r) <=> x \in ToSet(q) \/ x = e
  <2>1. x \in ToSet(q) <=> \E i \in 1..n : q[i] = x
    BY InToSet
  <2>2. x \in ToSet(r) <=> \E i \in 1..(n + 1) : r[i] = x
    BY InToSet
  <2>3. /\ \A i \in 1..(n + 1) : i \in 1..n \/ i = n + 1
        /\ 1..n \subseteq 1..(n + 1) /\ n + 1 \in 1..(n + 1)
    OBVIOUS
  <2>. QED BY <2>1, <2>2, <2>3
<1>. QED BY <1>1

LEMMA AppendIs ==
  ASSUME NEW S, NEW q \in Seq(S), NEW e \in S
  PROVE  /\ Append(q, e) \in Seq(S)
         /\ ToSet(Append(q, e)) = ToSet(q) \cup {e}
<1> DEFINE longer == Append(q, e)
<1>1. /\ longer \in Seq(S) /\ Len(q) \in Nat
      /\ DOMAIN q = 1..Len(q) /\ DOMAIN longer = 1..(Len(q) + 1)
      /\ \A i \in 1..Len(q) : longer[i] = q[i]
      /\ longer[Len(q) + 1] = e
  BY AppendProperties, LenProperties
<1> HIDE DEF longer
<1>2. ToSet(longer) = ToSet(q) \cup {e}
  BY <1>1, LongerIs
<1>. QED BY <1>1, <1>2 DEF longer

LEMMA RisingAppend ==
  ASSUME NEW q \in Seq(Ids), NEW e \in Ids, Rising(q), \A x \in ToSet(q) : x < e
  PROVE  Rising(Append(q, e))
  BY DEF Rising, ToSet

LEMMA TailIs ==
  ASSUME NEW q \in Seq(Ids), q # <<>>
  PROVE  /\ Head(q) \in Ids /\ Tail(q) \in Seq(Ids)
         /\ ToSet(q) = {Head(q)} \cup ToSet(Tail(q))
         /\ Rising(q) => Rising(Tail(q)) /\ \A x \in ToSet(Tail(q)) : Head(q) < x
<1>1. /\ Head(q) = q[1] /\ Len(q) \in Nat \ {0} /\ Tail(q) \in Seq(Ids) /\ Len(Tail(q)) = Len(q) - 1
      /\ \A i \in 1..(Len(q) - 1) : Tail(q)[i] = q[i + 1]
  OBVIOUS
<1>2. Head(q) \in Ids
  BY <1>1
<1>3. ToSet(q) \subseteq {Head(q)} \cup ToSet(Tail(q))
  <2> SUFFICES ASSUME NEW i \in 1..Len(q), i # 1 PROVE q[i] \in ToSet(Tail(q))
    BY <1>1 DEF ToSet
  <2>1. i - 1 \in 1..(Len(q) - 1) /\ q[i] = Tail(q)[i - 1]
    BY <1>1
  <2>2. DOMAIN Tail(q) = 1..(Len(q) - 1)
    BY <1>1, LenProperties
  <2>. QED BY <2>1, <2>2, InToSet
<1>4. {Head(q)} \cup ToSet(Tail(q)) \subseteq ToSet(q)
  BY <1>1 DEF ToSet
<1>5. Rising(q) => Rising(Tail(q)) /\ \A x \in ToSet(Tail(q)) : Head(q) < x
  BY <1>1 DEF Rising, ToSet
<1>. QED BY <1>1, <1>2, <1>3, <1>4, <1>5

LEMMA LastIs ==
  ASSUME NEW q \in Seq(Ids), q # <<>>, Rising(q)
  PROVE  Last(q) \in ToSet(q) /\ Last(q) \in Ids /\ \A x \in ToSet(q) : x <= Last(q)
<1>1. Len(q) \in Nat \ {0} /\ Len(q) \in DOMAIN q
  OBVIOUS
<1>2. \A i \in DOMAIN q : q[i] \in Ids /\ (i = Len(q) \/ i < Len(q))
  OBVIOUS
<1>. QED BY <1>1, <1>2 DEF Rising, ToSet, Last, Ids

LEMMA UncommittedIs == \A i : i \in Uncommitted <=> \E s \in Session : i \in pending[s]
  BY DEF Uncommitted

LEMMA NextIdIsAbove ==
  ASSUME IInv
  PROVE  NextId \in Nat \ {0} /\ \A i \in log \cup Uncommitted : i < NextId
<1>1. log \cup Uncommitted \subseteq Ids
  BY UncommittedIs DEF IInv, TypeOK
<1>2. CASE database = "postgresql"
  BY <1>1, <1>2 DEF IInv, TypeOK, IdsRise, NextId, Ids
<1>3. CASE database # "postgresql"
  <2> DEFINE S == log \cup Uncommitted \cup {0}
  <2>1. S \in SUBSET Nat /\ S # {} /\ \A x \in S : x <= MaxId
    BY <1>1, BoundAssumption DEF Ids
  <2>2. Max(S) \in S /\ \A y \in S : Max(S) >= y
    BY <2>1, BoundAssumption, MaxOfNaturals
  <2>3. NextId = Max(S) + 1
    BY <1>3 DEF NextId
  <2>4. Max(S) \in Nat
    BY <2>1, <2>2
  <2> HIDE DEF S
  <2>5. \A y \in S : y \in Nat /\ y < Max(S) + 1
    BY <2>1, <2>2, <2>4
  <2>. QED BY <2>3, <2>4, <2>5 DEF S
<1>. QED BY <1>2, <1>3

----------------------------------------------------------------------------
(* Steps of the writers *)

(* A step that leaves the clients alone, and whose ids are old ones or     *)
(* above all that is committed, disturbs no client.                        *)
LEMMA WritersKeepClients ==
  ASSUME IInv, UNCHANGED <<database, stream, received, overtaken>>,
         log \subseteq log', log' \subseteq Ids, Uncommitted' \subseteq Ids,
         \A i \in log' \cup Uncommitted' : i \in log \cup Uncommitted \/ \A j \in log : j < i
  PROVE  /\ \A c \in Client : HistoryIsRight(c)'
         /\ \A c \in Client : stream[c]' # Closed => StreamIsRight(c)'
<1>1. \A c \in Client : Missable(c)' = Missable(c)
  BY DEF Missable
<1>2. ASSUME NEW c \in Client, NEW n \in log \cup {0}, NEW got, HasAllBelow(c, n, got)
      PROVE  \A i \in log' \cup Uncommitted' : i <= n => i \in got \cup Missable(c)
  <2> SUFFICES ASSUME NEW i \in log' \cup Uncommitted', i <= n PROVE i \in log \cup Uncommitted
    BY <1>2 DEF HasAllBelow
  <2>1. i \in Ids /\ n \in Int
    BY DEF IInv, TypeOK, Ids
  <2>2. ~\A j \in log : j < i
    BY <2>1 DEF Ids
  <2>. QED BY <2>2
<1>3. ASSUME NEW c \in Client PROVE HistoryIsRight(c)'
  <2>1. HistoryIsRight(c)
    BY DEF IInv
  <2>. QED BY <1>1, <1>2, <2>1 DEF HistoryIsRight, HasAllBelow
<1>4. ASSUME NEW c \in Client, stream[c] # Closed PROVE StreamIsRight(c)'
  <2>1. StreamIsRight(c)
    BY <1>4 DEF IInv
  <2>2. HasAllBelow(c, stream[c].cursor, ToSet(received[c]) \cup ToSet(stream[c].wire))'
    BY <1>1, <1>2, <2>1 DEF StreamIsRight, HasAllBelow
  <2>3. ASSUME NEW i \in log' \cup Uncommitted', NEW j \in stream[c].page, stream[c].cursor < i, i < j
        PROVE  i \in stream[c].page \cup Missable(c)
    <3>1. j \in log /\ i \in Ids /\ j \in Int
      <4>1. stream[c].page \subseteq log
        BY <2>1 DEF StreamIsRight
      <4>2. log \subseteq Ids
        BY DEF IInv, TypeOK
      <4>3. i \in Ids /\ j \in log
        BY <4>1
      <4>4. \A x \in Ids : x \in Int
        BY DEF Ids
      <4>. QED BY <4>2, <4>3, <4>4
    <3>2. i \in log \cup Uncommitted
      BY <2>3, <3>1 DEF Ids
    <3>. QED BY <2>1, <2>3, <3>2 DEF StreamIsRight
  <2>. QED BY <1>1, <2>1, <2>2, <2>3 DEF StreamIsRight
<1>. QED BY <1>3, <1>4

LEMMA Emitting ==
  ASSUME IInv, NEW s \in Session, Emit(s)
  PROVE  IInv'
<1>1. /\ NextId \in Ids /\ \A i \in log \cup Uncommitted : i < NextId
  BY NextIdIsAbove, BoundAssumption DEF Emit, Ids
<1>2. /\ pending' = [pending EXCEPT ![s] = @ \cup {NextId}]
      /\ UNCHANGED <<database, log, stream, received, losses, overtaken>>
      /\ given' = IF NextId > given THEN NextId ELSE given
  BY DEF Emit
<1>3. pending \in [Session -> SUBSET Ids] /\ given \in 0..MaxId /\ log \subseteq Ids
  BY DEF IInv, TypeOK
<1>4. \A i : i \in Uncommitted' <=> \E t \in Session : i \in pending'[t]
  BY DEF Uncommitted
<1>5. \A i : i \in Uncommitted' <=> i \in Uncommitted \/ i = NextId
  BY <1>2, <1>3, <1>4, UncommittedIs
<1>6. TypeOK'
  <2>1. pending' \in [Session -> SUBSET Ids]
    BY <1>1, <1>2, <1>3
  <2>2. given' \in 0..MaxId
    BY <1>1, <1>2, <1>3 DEF Ids
  <2>. QED BY <1>2, <2>1, <2>2 DEF IInv, TypeOK
<1>7. IdsRise'
  <2>1. ASSUME database = "postgresql" PROVE \A i \in log \cup Uncommitted' : i <= given'
    <3>1. \A i \in log \cup Uncommitted : i <= given /\ i \in Ids
      BY <1>3, <2>1, UncommittedIs DEF IInv, IdsRise
    <3>. QED BY <1>1, <1>2, <1>3, <1>5, <3>1 DEF Ids
  <2>2. ASSUME database = "sqlite"
        PROVE  /\ \A t, u \in Session : t # u => pending'[t] = {} \/ pending'[u] = {}
               /\ \A i \in Uncommitted', j \in log : j < i
    <3>1. \A t \in Session \ {s} : pending[t] = {}
      BY <2>2 DEF Emit, MayWrite
    <3>2. \A i \in Uncommitted, j \in log : j < i
      BY <2>2 DEF IInv, IdsRise
    <3>. QED BY <1>1, <1>2, <1>3, <1>5, <3>1, <3>2
  <2>. QED BY <1>2, <2>1, <2>2 DEF IdsRise
<1>8. Uncommitted' \subseteq Ids /\ \A i \in log' \cup Uncommitted' : i \in log \cup Uncommitted \/ \A j \in log : j < i
  BY <1>1, <1>2, <1>3, <1>5, UncommittedIs
<1>9. /\ \A c \in Client : HistoryIsRight(c)'
      /\ \A c \in Client : stream[c]' # Closed => StreamIsRight(c)'
  BY <1>2, <1>3, <1>8, WritersKeepClients
<1>. QED BY <1>6, <1>7, <1>9 DEF IInv

(* The transaction of a session ends, and its ids are committed or not. *)
LEMMA Ending ==
  ASSUME IInv, NEW s \in Session, Commit(s) \/ Rollback(s)
  PROVE  IInv'
<1>1. /\ pending' = [pending EXCEPT ![s] = {}] /\ pending[s] # {}
      /\ UNCHANGED <<database, given, stream, received, losses, overtaken>>
      /\ log' = log \cup pending[s] \/ log' = log
  BY DEF Commit, Rollback
<1>2. pending \in [Session -> SUBSET Ids] /\ log \subseteq Ids
  BY DEF IInv, TypeOK
<1>3. \A i : i \in Uncommitted' <=> \E t \in Session : i \in pending'[t]
  BY DEF Uncommitted
<1>4. /\ Uncommitted' \subseteq Uncommitted /\ pending[s] \subseteq Uncommitted
      /\ Uncommitted \subseteq Ids
  BY <1>1, <1>2, <1>3, UncommittedIs
<1>5. TypeOK'
  BY <1>1, <1>2 DEF IInv, TypeOK
<1>6. IdsRise'
  <2>1. ASSUME database = "postgresql" PROVE \A i \in log' \cup Uncommitted' : i <= given
    BY <1>1, <1>4, <2>1 DEF IInv, IdsRise
  <2>2. ASSUME database = "sqlite"
        PROVE  /\ \A t, u \in Session : t # u => pending'[t] = {} \/ pending'[u] = {}
               /\ \A i \in Uncommitted', j \in log' : j < i
    <3>1. \A t \in Session \ {s} : pending[t] = {}
      BY <1>1, <2>2 DEF IInv, IdsRise
    <3>2. Uncommitted' = {}
      BY <1>1, <1>2, <1>3, <3>1
    <3>. QED BY <1>1, <1>2, <2>2, <3>2 DEF IInv, IdsRise
  <2>. QED BY <1>1, <2>1, <2>2 DEF IdsRise
<1>7. log \subseteq log' /\ log' \subseteq Ids /\ Uncommitted' \subseteq Ids
      /\ \A i \in log' \cup Uncommitted' : i \in log \cup Uncommitted
  BY <1>1, <1>2, <1>4
<1>8. /\ \A c \in Client : HistoryIsRight(c)'
      /\ \A c \in Client : stream[c]' # Closed => StreamIsRight(c)'
  BY <1>1, <1>7, WritersKeepClients
<1>. QED BY <1>5, <1>6, <1>8 DEF IInv

----------------------------------------------------------------------------
(* Steps of the clients *)

Open == [is : {"polling", "yielding", "ending"}, once : BOOLEAN, cursor : 0..MaxId,
         page : SUBSET Ids, wire : Seq(Ids)]

LEMMA StreamsAre ==
  /\ Streams = {Closed} \cup Open
  /\ Closed.is = "closed"
  /\ \A q \in Open : q # Closed /\ q.is # "closed" /\ q.cursor \in 0..MaxId
                     /\ q.page \subseteq Ids /\ q.wire \in Seq(Ids) /\ q.once \in BOOLEAN
<1>1. Closed.is = "closed"
  BY DEF Closed
<1>. QED BY <1>1 DEF Streams, Open

(* A step of one client leaves the others as they were. *)
LEMMA OneClient ==
  ASSUME IInv, NEW c \in Client, NEW q \in Streams,
         UNCHANGED <<database, given, pending, log>>,
         stream' = [stream EXCEPT ![c] = q],
         losses' \in 0..MaxLosses,
         received' \in [Client -> Seq(Ids)],
         overtaken' \in [Client -> SUBSET Ids],
         \A d \in Client \ {c} : received'[d] = received[d] /\ overtaken'[d] = overtaken[d],
         HistoryIsRight(c)',
         q # Closed => StreamIsRight(c)'
  PROVE  IInv'
<1>1. stream' \in [Client -> Streams] /\ stream'[c] = q /\ \A d \in Client \ {c} : stream'[d] = stream[d]
  BY DEF IInv, TypeOK
<1>2. TypeOK'
  BY <1>1 DEF IInv, TypeOK
<1>3. Uncommitted' = Uncommitted
  BY DEF Uncommitted
<1>4. IdsRise'
  BY <1>3 DEF IInv, IdsRise
<1>5. \A d \in Client \ {c} : Missable(d)' = Missable(d)
  BY DEF Missable
<1>6. ASSUME NEW d \in Client \ {c} PROVE HistoryIsRight(d)'
  <2>1. HistoryIsRight(d)
    BY DEF IInv
  <2>. QED BY <1>3, <1>5, <2>1 DEF HistoryIsRight, HasAllBelow
<1>7. ASSUME NEW d \in Client \ {c}, stream'[d] # Closed PROVE StreamIsRight(d)'
  <2>1. StreamIsRight(d)
    BY <1>1, <1>7 DEF IInv
  <2>. QED BY <1>1, <1>3, <1>5, <2>1 DEF StreamIsRight, HasAllBelow
<1>. QED BY <1>1, <1>2, <1>4, <1>6, <1>7 DEF IInv

LEMMA UncommittedStays == UNCHANGED pending => Uncommitted' = Uncommitted
  BY DEF Uncommitted

LEMMA HistoryStays ==
  ASSUME IInv, NEW c \in Client, UNCHANGED <<database, pending, log, received>>,
         Missable(c) \subseteq Missable(c)'
  PROVE  HistoryIsRight(c)'
<1>1. HistoryIsRight(c) /\ Uncommitted' = Uncommitted
  BY UncommittedStays DEF IInv
<1>. QED BY <1>1 DEF HistoryIsRight, HasAllBelow

LEMMA Connecting ==
  ASSUME IInv, NEW c \in Client, Connect(c)
  PROVE  IInv'
<1>1. PICK once \in BOOLEAN : stream' = [stream EXCEPT ![c] = Streaming(Start(c), once)]
  BY DEF Connect
<1> DEFINE q == Streaming(Start(c), once)
<1>2. UNCHANGED <<database, given, pending, log, received, losses, overtaken>>
  BY DEF Connect
<1>3. /\ HistoryIsRight(c) /\ log \subseteq Ids /\ received[c] \in Seq(Ids)
      /\ received \in [Client -> Seq(Ids)] /\ overtaken \in [Client -> SUBSET Ids] /\ losses \in 0..MaxLosses
      /\ Uncommitted \subseteq Ids
  BY UncommittedIs DEF IInv, TypeOK
<1>4. /\ Start(c) \in log \cup {0}
      /\ \A i \in ToSet(received[c]) : i <= Start(c)
      /\ HasAllBelow(c, Start(c), ToSet(received[c]))
  <2>1. CASE received[c] = <<>>
    <3>1. Start(c) = 0 /\ ToSet(received[c]) = {}
      BY <2>1 DEF Start, ToSet
    <3>2. \A i \in log \cup Uncommitted : ~(i <= 0)
      BY <1>3 DEF Ids
    <3>. QED BY <3>1, <3>2 DEF HasAllBelow
  <2>2. CASE received[c] # <<>>
    <3>1. Start(c) = Last(received[c])
      BY <2>2 DEF Start
    <3>2. Start(c) \in ToSet(received[c]) /\ \A i \in ToSet(received[c]) : i <= Start(c)
      BY <1>3, <2>2, <3>1, LastIs DEF HistoryIsRight
    <3>. QED BY <1>3, <3>2 DEF HistoryIsRight
  <2>. QED BY <2>1, <2>2
<1>5. Start(c) \in 0..MaxId
  <2>1. (\A i \in Ids : i \in 0..MaxId) /\ 0 \in 0..MaxId
    BY BoundAssumption DEF Ids
  <2>. QED BY <1>3, <1>4, <2>1
<1>6. q \in Open /\ q.wire = <<>> /\ q.page = {} /\ q.cursor = Start(c)
  BY <1>5 DEF Streaming, Open
<1>7. HistoryIsRight(c)'
  BY <1>2, HistoryStays DEF Missable
<1> HIDE DEF q
<1>8. stream'[c] = q
  BY <1>1 DEF q, IInv, TypeOK
<1>9. StreamIsRight(c)'
  <2>1. ToSet(<<>>) = {} /\ Rising(<<>>)
    BY DEF ToSet, Rising
  <2>2. HasAllBelow(c, Start(c), ToSet(received[c]))' <=> HasAllBelow(c, Start(c), ToSet(received[c]))
    BY <1>2, UncommittedStays DEF HasAllBelow, Missable, Start
  <2>3. Start(c)' = Start(c)
    BY <1>2 DEF Start
  <2>. QED BY <1>2, <1>4, <1>6, <1>8, <2>1, <2>2, <2>3, UncommittedStays
              DEF StreamIsRight, HasAllBelow, Missable
<1>10. q \in Streams
  BY <1>6, StreamsAre
<1>. QED BY <1>1, <1>2, <1>3, <1>7, <1>9, <1>10, OneClient DEF q

LEMMA Polling ==
  ASSUME IInv, NEW c \in Client, Poll(c)
  PROVE  IInv'
<1> DEFINE old == stream[c]
           new == After(old.cursor)
           q == [old EXCEPT !.page = new, !.is = IF new # {} THEN "yielding"
                                                 ELSE IF old.once THEN "ending" ELSE "polling"]
<1>1. /\ UNCHANGED <<database, given, pending, log, received, losses>>
      /\ stream' = [stream EXCEPT ![c] = q]
      /\ overtaken' = [overtaken EXCEPT ![c] = @ \cup {i \in Uncommitted : \E j \in new : i < j}]
  BY DEF Poll
<1>2. /\ old \in Open /\ old # Closed
      /\ log \subseteq Ids /\ Uncommitted \subseteq Ids /\ overtaken \in [Client -> SUBSET Ids]
  BY StreamsAre, UncommittedIs DEF Poll, IInv, TypeOK
<1>3. HistoryIsRight(c) /\ StreamIsRight(c)
  BY <1>2 DEF IInv
<1>4. new \subseteq log /\ \A i \in new : i > old.cursor
  BY DEF After
<1>5. q \in Open /\ q.wire = old.wire /\ q.page = new /\ q.cursor = old.cursor
  BY <1>2, <1>4 DEF Open
<1>6. stream'[c] = q
  BY <1>1 DEF IInv, TypeOK
<1>7. /\ Missable(c) \subseteq Missable(c)'
      /\ \A i \in Uncommitted, j \in new : i < j => i \in Missable(c)'
  <2>1. CASE database = "sqlite"
    <3>1. \A i \in Uncommitted, j \in log : j < i /\ i \in Int /\ j \in Int
      BY <1>2, <2>1 DEF IInv, IdsRise, Ids
    <3>. QED BY <1>1, <1>4, <2>1, <3>1 DEF Missable
  <2>2. CASE database # "sqlite"
    BY <1>1, <1>2, <2>2 DEF Missable
  <2>. QED BY <2>1, <2>2
<1>8. \A i \in log \cup Uncommitted, j \in new : old.cursor < i /\ i < j => i \in new \cup Missable(c)'
  BY <1>7 DEF After
<1> HIDE DEF new, q
<1>9. StreamIsRight(c)'
  BY <1>1, <1>3, <1>4, <1>5, <1>6, <1>7, <1>8, UncommittedStays DEF StreamIsRight, HasAllBelow
<1>10. HistoryIsRight(c)'
  BY <1>1, <1>7, HistoryStays
<1>11. overtaken' \in [Client -> SUBSET Ids]
  BY <1>1, <1>2
<1>12. q \in Streams
  BY <1>5, StreamsAre
<1>. QED BY <1>1, <1>9, <1>10, <1>11, <1>12, OneClient DEF IInv, TypeOK

LEMMA Yielding ==
  ASSUME IInv, NEW c \in Client, Yield(c)
  PROVE  IInv'
<1> DEFINE old == stream[c]
<1>1. PICK h \in old.page :
        /\ \A j \in old.page : h <= j
        /\ stream' = [stream EXCEPT ![c] =
             [is |-> IF old.page \ {h} # {} THEN "yielding" ELSE IF old.once THEN "ending" ELSE "polling",
              once |-> old.once, cursor |-> h, page |-> old.page \ {h}, wire |-> Append(old.wire, h)]]
  BY DEF Yield
<1> DEFINE q == [is |-> IF old.page \ {h} # {} THEN "yielding" ELSE IF old.once THEN "ending" ELSE "polling",
                 once |-> old.once, cursor |-> h, page |-> old.page \ {h}, wire |-> Append(old.wire, h)]
<1>2. UNCHANGED <<database, given, pending, log, received, losses, overtaken>>
  BY DEF Yield
<1>3. /\ old \in Open /\ old # Closed /\ old.wire \in Seq(Ids) /\ old.page \subseteq Ids
      /\ log \subseteq Ids /\ Uncommitted \subseteq Ids
  BY StreamsAre, UncommittedIs DEF Yield, IInv, TypeOK
<1>4. HistoryIsRight(c) /\ StreamIsRight(c)
  BY <1>3 DEF IInv
<1>5. /\ h \in Ids /\ h \in log /\ h > old.cursor
      /\ \A j \in old.page \ {h} : j > h
  BY <1>1, <1>3, <1>4 DEF StreamIsRight, Ids
<1>6. \A x \in ToSet(received[c]) \cup ToSet(old.wire) : x < h
  <2>1. \A x \in ToSet(received[c]) \cup ToSet(old.wire) : x <= old.cursor /\ x \in Ids
    BY <1>3, <1>4 DEF HistoryIsRight, StreamIsRight
  <2>2. old.cursor \in 0..MaxId
    BY <1>3, StreamsAre
  <2>. QED BY <1>5, <2>1, <2>2 DEF Ids
<1>7. /\ Append(old.wire, h) \in Seq(Ids) /\ ToSet(Append(old.wire, h)) = ToSet(old.wire) \cup {h}
      /\ Rising(Append(old.wire, h))
  BY <1>3, <1>4, <1>5, <1>6, AppendIs, RisingAppend DEF StreamIsRight
<1>8. q \in Open /\ q.wire = Append(old.wire, h) /\ q.page = old.page \ {h} /\ q.cursor = h
  <2>1. h \in 0..MaxId /\ old.once \in BOOLEAN
    BY <1>3, <1>5, StreamsAre DEF Ids
  <2>. QED BY <1>3, <1>7, <2>1 DEF Open
<1>9. stream'[c] = q
  BY <1>1 DEF IInv, TypeOK
<1>10. HasAllBelow(c, h, ToSet(received[c]) \cup ToSet(Append(old.wire, h)))
  <2> SUFFICES ASSUME NEW i \in log \cup Uncommitted, i <= h
               PROVE  i \in ToSet(received[c]) \cup ToSet(old.wire) \cup {h} \cup Missable(c)
    BY <1>7 DEF HasAllBelow
  <2>1. CASE i <= old.cursor
    BY <1>4, <2>1 DEF StreamIsRight, HasAllBelow
  <2>2. CASE old.cursor < i /\ i < h
    <3>1. i \in old.page \cup Missable(c)
      BY <1>1, <1>4, <2>2 DEF StreamIsRight
    <3>2. i \notin old.page
      BY <1>1, <1>3, <2>2, <1>5 DEF Ids
    <3>. QED BY <3>1, <3>2
  <2>3. i <= old.cursor \/ (old.cursor < i /\ i < h) \/ i = h
    <3>1. i \in Ids /\ old.cursor \in 0..MaxId
      BY <1>3, StreamsAre
    <3>. QED BY <1>5, <3>1 DEF Ids
  <2>. QED BY <2>1, <2>2, <2>3
<1>11. \A i \in log \cup Uncommitted, j \in old.page \ {h} :
         h < i /\ i < j => i \in (old.page \ {h}) \cup Missable(c)
  <2> SUFFICES ASSUME NEW i \in log \cup Uncommitted, NEW j \in old.page \ {h}, h < i, i < j
               PROVE  i # h /\ i \in old.page \cup Missable(c)
    OBVIOUS
  <2>1. i \in Ids /\ old.cursor \in 0..MaxId
    BY <1>3, StreamsAre
  <2>2. old.cursor < i /\ i # h
    BY <1>5, <2>1 DEF Ids
  <2>. QED BY <1>4, <2>2 DEF StreamIsRight
<1> HIDE DEF q
<1>12. StreamIsRight(c)'
  <2>1. Missable(c)' = Missable(c) /\ Uncommitted' = Uncommitted
    BY <1>2, UncommittedStays DEF Missable
  <2>2. \A i \in ToSet(received[c]) \cup ToSet(Append(old.wire, h)) : i <= h
    <3>1. \A i \in Ids : i \in Int
      BY DEF Ids
    <3>2. \A i \in ToSet(received[c]) \cup ToSet(old.wire) : i \in Int /\ i < h
      BY <1>3, <1>4, <1>6, <3>1 DEF HistoryIsRight, StreamIsRight
    <3>. QED BY <1>5, <1>7, <3>1, <3>2
  <2>3. \A i \in ToSet(received[c]), j \in ToSet(Append(old.wire, h)) : i < j
    BY <1>4, <1>6, <1>7 DEF StreamIsRight
  <2>4. ToSet(Append(old.wire, h)) \subseteq log /\ q.page \subseteq log
    BY <1>4, <1>5, <1>7, <1>8 DEF StreamIsRight
  <2>. QED BY <1>2, <1>5, <1>7, <1>8, <1>9, <1>10, <1>11, <2>1, <2>2, <2>3, <2>4
              DEF StreamIsRight, HasAllBelow
<1>13. HistoryIsRight(c)'
  BY <1>2, HistoryStays DEF Missable
<1>14. q \in Streams
  BY <1>8, StreamsAre
<1>. QED BY <1>1, <1>2, <1>12, <1>13, <1>14, OneClient DEF IInv, TypeOK, q

LEMMA Receiving ==
  ASSUME IInv, NEW c \in Client, Receive(c)
  PROVE  IInv'
<1> DEFINE old == stream[c]
           h == Head(old.wire)
           q == [old EXCEPT !.wire = Tail(old.wire)]
<1>1. /\ old # Closed /\ old.wire # <<>>
      /\ UNCHANGED <<database, given, pending, log, losses, overtaken>>
      /\ received' = [received EXCEPT ![c] = Append(received[c], h)]
      /\ stream' = [stream EXCEPT ![c] = q]
  BY DEF Receive
<1>2. /\ old \in Open /\ old.wire \in Seq(Ids) /\ received[c] \in Seq(Ids)
      /\ received \in [Client -> Seq(Ids)] /\ log \subseteq Ids
  BY <1>1, StreamsAre DEF IInv, TypeOK
<1>3. HistoryIsRight(c) /\ StreamIsRight(c)
  BY <1>1 DEF IInv
<1>4. /\ h \in Ids /\ Tail(old.wire) \in Seq(Ids)
      /\ ToSet(old.wire) = {h} \cup ToSet(Tail(old.wire))
      /\ Rising(Tail(old.wire)) /\ \A x \in ToSet(Tail(old.wire)) : h < x
  BY <1>1, <1>2, <1>3, TailIs DEF StreamIsRight
<1>5. /\ Append(received[c], h) \in Seq(Ids)
      /\ ToSet(Append(received[c], h)) = ToSet(received[c]) \cup {h}
      /\ Rising(Append(received[c], h))
  BY <1>2, <1>3, <1>4, AppendIs, RisingAppend DEF HistoryIsRight, StreamIsRight
<1>6. q \in Open /\ q.wire = Tail(old.wire) /\ q.page = old.page /\ q.cursor = old.cursor
  BY <1>2, <1>4 DEF Open
<1>7. /\ stream'[c] = q /\ received'[c] = Append(received[c], h) /\ received' \in [Client -> Seq(Ids)]
      /\ \A d \in Client \ {c} : received'[d] = received[d]
  BY <1>1, <1>2, <1>5 DEF IInv, TypeOK
<1>8. Missable(c)' = Missable(c) /\ Uncommitted' = Uncommitted
  BY <1>1, UncommittedStays DEF Missable
<1> HIDE DEF q, h
<1>9. StreamIsRight(c)'
  <2>1. ToSet(received'[c]) \cup ToSet(q.wire) = ToSet(received[c]) \cup ToSet(old.wire)
    BY <1>4, <1>5, <1>6, <1>7
  <2>2. \A i \in ToSet(received'[c]), j \in ToSet(q.wire) : i < j
    BY <1>3, <1>4, <1>5, <1>6, <1>7 DEF StreamIsRight
  <2>3. HasAllBelow(c, old.cursor, ToSet(received[c]) \cup ToSet(old.wire))
    BY <1>3 DEF StreamIsRight
  <2>4. HasAllBelow(c, q.cursor, ToSet(received'[c]) \cup ToSet(q.wire))
    BY <1>6, <2>1, <2>3
  <2>5. /\ Rising(q.wire) /\ ToSet(q.wire) \subseteq log
        /\ \A i \in ToSet(received'[c]) \cup ToSet(q.wire) : i <= q.cursor
        /\ q.cursor \in log \cup {0} /\ q.page \subseteq log
        /\ \A i \in q.page : i > q.cursor
        /\ \A i \in log \cup Uncommitted, j \in q.page :
             q.cursor < i /\ i < j => i \in q.page \cup Missable(c)
    BY <1>3, <1>4, <1>6, <2>1 DEF StreamIsRight
  <2>. QED BY <1>1, <1>7, <1>8, <2>2, <2>4, <2>5 DEF StreamIsRight, HasAllBelow
<1>10. HistoryIsRight(c)'
  <2>1. ToSet(received'[c]) \subseteq log /\ Rising(received'[c])
    BY <1>3, <1>4, <1>5, <1>7 DEF HistoryIsRight, StreamIsRight
  <2>2. ASSUME NEW n \in ToSet(received'[c]), NEW i \in log \cup Uncommitted, i <= n
        PROVE  i \in ToSet(received'[c]) \cup Missable(c)
    <3>1. Uncommitted \subseteq Ids /\ n \in Ids
      BY <1>2, <2>1, UncommittedIs DEF IInv, TypeOK
    <3>2. n <= old.cursor /\ old.cursor \in 0..MaxId
      BY <1>2, <1>3, <1>4, <1>5, <1>7, StreamsAre DEF StreamIsRight
    <3>3. i <= old.cursor
      <4>1. i \in Ids /\ \A x \in Ids : x \in Int
        BY <1>2, <3>1 DEF Ids
      <4>. QED BY <2>2, <3>1, <3>2, <4>1
    <3>4. i \in ToSet(received[c]) \cup ToSet(old.wire) \cup Missable(c)
      BY <1>3, <3>3 DEF StreamIsRight, HasAllBelow
    <3>5. i \notin ToSet(Tail(old.wire))
      <4>1. \A x \in ToSet(Tail(old.wire)) : n < x
        BY <1>3, <1>4, <1>5, <1>7 DEF StreamIsRight
      <4>. QED BY <1>2, <2>2, <3>1, <4>1 DEF Ids
    <3>. QED BY <1>4, <1>5, <1>7, <3>4, <3>5
  <2>. QED BY <1>1, <1>8, <2>1, <2>2 DEF HistoryIsRight, HasAllBelow
<1>11. q \in Streams
  BY <1>6, StreamsAre
<1>. QED BY <1>1, <1>7, <1>9, <1>10, <1>11, OneClient DEF IInv, TypeOK

(* The connection ends, and with it the stream; a page loaded again has    *)
(* got nothing.                                                            *)
LEMMA Closing ==
  ASSUME IInv, NEW c \in Client, End(c) \/ Lose(c) \/ Reload(c)
  PROVE  IInv'
<1>1. /\ UNCHANGED <<database, given, pending, log>>
      /\ stream' = [stream EXCEPT ![c] = Closed]
      /\ losses' \in 0..MaxLosses
  BY BoundAssumption DEF End, Lose, Reload, IInv, TypeOK
<1>2. Closed \in Streams
  BY StreamsAre
<1>3. CASE UNCHANGED <<received, overtaken>>
  <2>1. HistoryIsRight(c)'
    BY <1>1, <1>3, HistoryStays DEF Missable
  <2>. QED BY <1>1, <1>2, <1>3, <2>1, OneClient DEF IInv, TypeOK
<1>4. CASE Reload(c)
  <2>1. /\ received' = [received EXCEPT ![c] = <<>>] /\ overtaken' = [overtaken EXCEPT ![c] = {}]
    BY <1>4 DEF Reload
  <2>2. /\ received' \in [Client -> Seq(Ids)] /\ overtaken' \in [Client -> SUBSET Ids]
        /\ received'[c] = <<>>
        /\ \A d \in Client \ {c} : received'[d] = received[d] /\ overtaken'[d] = overtaken[d]
    BY <2>1, EmptySeq DEF IInv, TypeOK
  <2>3. HistoryIsRight(c)'
    <3>1. ToSet(<<>>) = {} /\ Rising(<<>>)
      BY DEF ToSet, Rising
    <3>. QED BY <2>2, <3>1 DEF HistoryIsRight
  <2>. QED BY <1>1, <1>2, <2>2, <2>3, OneClient
<1>. QED BY <1>3, <1>4 DEF End, Lose

LEMMA InitGivesInv == Init => IInv
<1> SUFFICES ASSUME Init PROVE IInv
  OBVIOUS
<1>1. TypeOK
  BY BoundAssumption, StreamsAre, EmptySeq DEF Init, TypeOK
<1>2. Uncommitted = {}
  BY DEF Init, Uncommitted
<1>3. IdsRise
  BY <1>2 DEF Init, IdsRise
<1>4. ASSUME NEW c \in Client PROVE HistoryIsRight(c) /\ stream[c] = Closed
  <2>1. ToSet(<<>>) = {} /\ Rising(<<>>)
    BY DEF ToSet, Rising
  <2>. QED BY <2>1 DEF Init, HistoryIsRight
<1>. QED BY <1>1, <1>3, <1>4 DEF IInv

----------------------------------------------------------------------------
(* Theorems *)

(* The invariant holds of every emit_event, list_events and stream, for    *)
(* any sessions and clients.                                               *)
THEOREM Delivering == Spec => []IInv
<1>1. Init => IInv
  BY InitGivesInv
<1>2. IInv /\ [Next]_vars => IInv'
  <2> SUFFICES ASSUME IInv, [Next]_vars PROVE IInv'
    OBVIOUS
  <2>1. ASSUME NEW s \in Session, Emit(s) \/ Commit(s) \/ Rollback(s) PROVE IInv'
    BY <2>1, Emitting, Ending
  <2>2. ASSUME NEW c \in Client, Connect(c) \/ Serve(c) \/ Lose(c) \/ Reload(c) PROVE IInv'
    BY <2>2, Connecting, Polling, Yielding, Receiving, Closing DEF Serve
  <2>3. CASE UNCHANGED vars
    <3>1. UNCHANGED <<database, given, pending, log, stream, received, losses, overtaken>>
      BY <2>3 DEF vars
    <3>2. TypeOK' /\ IdsRise'
      BY <3>1, UncommittedStays DEF IInv, TypeOK, IdsRise
    <3>3. \A c \in Client : Missable(c)' = Missable(c)
      BY <3>1 DEF Missable
    <3>4. \A c \in Client : HistoryIsRight(c)'
      BY <3>1, <3>3, HistoryStays
    <3>5. \A c \in Client : stream'[c] # Closed => StreamIsRight(c)'
      BY <3>1, <3>3, UncommittedStays DEF IInv, StreamIsRight, HasAllBelow
    <3>. QED BY <3>2, <3>4, <3>5 DEF IInv
  <2>. QED BY <2>1, <2>2, <2>3 DEF Next
<1>. QED BY <1>1, <1>2, PTL DEF Spec

(* Every variable of the stream keeps its type (events/service.py).        *)
THEOREM Typing == Spec => []TypeOK
<1>1. IInv => TypeOK
  BY DEF IInv
<1>. QED BY <1>1, Delivering, PTL

(* However often its connection is lost, a client gets the events in the   *)
(* order of their ids and none twice (api/events.py, the cursor and        *)
(* Last-Event-ID).                                                         *)
THEOREM InOrder == Spec => []InOrderOnce
<1>1. IInv => InOrderOnce
  BY DEF IInv, HistoryIsRight, Rising, InOrderOnce
<1>. QED BY <1>1, Delivering, PTL

(* "SSE resumes from Last-Event-ID" (docs/LOW_LEVEL_DESIGN.md:52): what a  *)
(* client is past and has not got was still uncommitted when a later event *)
(* was read for it, which on SQLite nothing is.                            *)
THEOREM NothingElseMissed == Spec => []OnlyOvertakenIsMissed
<1>1. ASSUME IInv, NEW c \in Client, received[c] # <<>>, NEW i \in log, i < Last(received[c])
      PROVE  i \in ToSet(received[c]) \cup Missable(c)
  <2>1. received[c] \in Seq(Ids) /\ HistoryIsRight(c) /\ log \subseteq Ids
    BY <1>1 DEF IInv, TypeOK
  <2>2. Last(received[c]) \in ToSet(received[c]) /\ Last(received[c]) \in Ids
    BY <1>1, <2>1, LastIs DEF HistoryIsRight
  <2>3. i <= Last(received[c])
    BY <1>1, <2>1, <2>2 DEF Ids
  <2>. QED BY <2>1, <2>2, <2>3 DEF HistoryIsRight, HasAllBelow
<1>2. IInv => OnlyOvertakenIsMissed
  BY <1>1 DEF OnlyOvertakenIsMissed
<1>. QED BY <1>2, Delivering, PTL

=============================================================================
