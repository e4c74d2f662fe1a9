-------------------------- MODULE ProposalsProofs --------------------------
(* Proofs about the proposals of a migration, for any generations, files,  *)
(* columns, targets, evidence, opinions and deployments.                   *)
EXTENDS Proposals, FiniteSetTheorems, SequenceTheorems, WellFoundedInduction,
        TLAPS

----------------------------------------------------------------------------
(* The invariant of what is answered and stored *)

RowsFit(rows) ==
  /\ rows \in [Column -> Mappings]
  /\ \A c \in Column : rows[c].about \in {c, NoName}

AnswersFit(answers) ==
  \A c \in DOMAIN answers :
    c \in Column /\ answers[c] \in Mappings /\ answers[c].about \in {c, NoName}

(* A file that is done has an answer for every column that was a question. *)
AsksWell(q) ==
  /\ q.stage \in [File -> Stages]
  /\ AnswersFit(q.answer)
  /\ \A f \in File : q.stage[f] = "done" => Uncertain(f) \subseteq DOMAIN q.answer

Fits(q) ==
  \/ q \in {Idle, Done, Lost}
  \/ q.pc = "asking" /\ AsksWell(q)
  \/ q.pc \in {"delete", "insert"} /\ RowsFit(q.rows)

StoredFit(generations) == \A g \in generations : g \in Generations /\ RowsFit(g.rows)

TInv ==
  /\ setting \in Settings
  /\ session = [s \in Session |-> session[s]]
  /\ \A s \in Session : Fits(session[s])
  /\ StoredFit(stored)
  /\ StoredFit(used)
  /\ lost \in 0..MaxLost
  /\ late \subseteq Session

----------------------------------------------------------------------------
(* The invariant of who writes *)

AtMostOne(S) == \A g, h \in S : g = h

(* SQLite has one writer, and what it deletes is all there is. *)
OneWriter ==
  /\ IsFiniteSet(stored) /\ IsFiniteSet(used)
  /\ setting.database = "sqlite" =>
       /\ \A s, t \in Session : session[s].pc = "insert" /\ session[t].pc = "insert" => s = t
       /\ \A s \in Session : session[s].pc = "insert" => session[s].gone = stored
       /\ AtMostOne(stored) /\ AtMostOne(used)

Running == {"asking", "delete", "insert"}

(* After start_workflow has read, there are rows, and nobody generates who *)
(* did not then.                                                           *)
NobodyNew ==
  used # {} => /\ stored # {}
               /\ \A s \in Session : session[s].pc \in Running => s \in late

----------------------------------------------------------------------------
(* Evidence, the rules and the alias *)

LEMMA EvidenceIs ==
  ASSUME NEW c \in Column, NEW t \in Target
  PROVE  /\ Evidence[c][t].name \in 0..100 /\ Evidence[c][t].alias \in {0, 100}
         /\ Evidence[c][t].type \in {0, 100} /\ Evidence[c][t].pattern \in 0..100
         /\ Evidence[c][t].unique \in 0..100
  BY EvidenceAssumption

LEMMA ResemblanceIs ==
  ASSUME NEW c \in Column, NEW t \in Target
  PROVE  Resemblance(c, t) \in Nat /\ Resemblance(c, t) <= 10000
<1>1. Evidence[c][t].name \in 0..100 /\ Evidence[c][t].alias \in {0, 100}
  BY EvidenceIs
<1>2. PICK name \in 0..100 : name = Evidence[c][t].name
  BY <1>1
<1>3. PICK alias \in {0, 100} : alias = Evidence[c][t].alias
  BY <1>1
<1>4. Resemblance(c, t) = 55 * name + 45 * alias
  BY <1>2, <1>3 DEF Resemblance
<1>5. 55 * name + 45 * alias \in Nat /\ 55 * name + 45 * alias <= 10000
  OBVIOUS
<1> QED
  BY <1>4, <1>5

(* A bounded measure has its greatest value somewhere: what is missing to  *)
(* the bound has a least one.                                              *)
LEMMA BestIs ==
  ASSUME NEW c \in Column
  PROVE  Best(c) \in Target
<1> DEFINE Missing(t) == 10000 - Resemblance(c, t)
           All == {Missing(t) : t \in Target}
           R == OpToRel(<, Nat)
<1>1. \A t \in Target : Resemblance(c, t) \in Nat /\ Missing(t) \in Nat
  BY ResemblanceIs
<1>2. All \subseteq Nat /\ All # {}
  BY <1>1, TargetAssumption
<1>3. \A m, n \in Nat : m < n => <<m, n>> \in R
  BY DEF OpToRel
<1>4. PICK least \in All : \A n \in All : ~(<<n, least>> \in R)
  <2>1. IsWellFoundedOn(R, Nat)
    BY NatLessThanWellFounded
  <2> HIDE DEF All, R
  <2> QED
    BY <1>2, <2>1, WFMin
<1> HIDE DEF R
<1>5. PICK t \in Target : least = Missing(t)
  BY <1>4
<1>6. \A u \in Target : Resemblance(c, u) <= Resemblance(c, t)
  <2> SUFFICES ASSUME NEW u \in Target PROVE Resemblance(c, u) <= Resemblance(c, t)
    OBVIOUS
  <2>1. Missing(u) \in All /\ Missing(u) \in Nat /\ Missing(t) \in Nat
    BY <1>1
  <2>2. <<Missing(u), Missing(t)>> \notin R
    BY <1>4, <1>5, <2>1
  <2>3. ~(Missing(u) < Missing(t))
    <3> HIDE DEF Missing
    <3> QED
      BY <1>3, <2>1, <2>2
  <2> QED
    BY <1>1, <2>3
<1> QED
  BY <1>6 DEF Best

LEMMA MinIs ==
  ASSUME NEW a \in Int, NEW b \in Int
  PROVE  Min({a, b}) \in {a, b} /\ Min({a, b}) <= a /\ Min({a, b}) <= b
<1>1. \E x \in {a, b} : \A y \in {a, b} : x =< y
  <2>1. CASE a <= b
    BY <2>1
  <2>2. CASE b <= a
    BY <2>2
  <2> QED
    BY <2>1, <2>2
<1> QED
  BY <1>1 DEF Min

LEMMA DeterministicFits ==
  ASSUME NEW c \in Column, NEW by \in Sources
  PROVE  Deterministic(c, by) \in Mappings /\ Deterministic(c, by).about = c
<1> DEFINE score == Resemblance(c, Best(c))
           sure == 55 + (45 * score) \div 10000
<1>1. Best(c) \in Target
  BY BestIs
<1>2. score \in Nat /\ score <= 10000
  BY <1>1, ResemblanceIs
<1>3. sure \in 55..100
  BY <1>2
<1>4. Min({98, sure}) \in 0..100
  <2> HIDE DEF sure
  <2>1. Min({98, sure}) \in {98, sure} /\ Min({98, sure}) <= 98
    BY <1>3, MinIs
  <2> QED
    BY <1>3, <2>1
<1>5. CASE score >= 3500
  <2>1. Deterministic(c, by) = [target |-> Best(c), confidence |-> Min({98, sure}),
                                by |-> by, about |-> c]
    BY <1>5 DEF Deterministic
  <2> HIDE DEF sure, score
  <2> QED
    BY <1>1, <1>4, <2>1 DEF Mappings
<1>6. CASE ~(score >= 3500)
  <2>1. Deterministic(c, by) = [target |-> NoTarget, confidence |-> 15, by |-> by, about |-> c]
    BY <1>6 DEF Deterministic
  <2> QED
    BY <2>1 DEF Mappings
<1> QED
  BY <1>5, <1>6

LEMMA KnownFits ==
  ASSUME NEW c \in Column, IsKnown(c)
  PROVE  KnownMapping(c) \in Mappings /\ KnownMapping(c).about = c
<1>1. \E t \in Target : AliasOf(c) = {t}
  BY DEF IsKnown
<1>2. (CHOOSE t \in Target : AliasOf(c) = {t}) \in Target
  BY <1>1
<1> QED
  BY <1>2 DEF KnownMapping, Mappings, Sources

----------------------------------------------------------------------------
(* Answers *)

LEMMA HeaderIs ==
  ASSUME NEW f \in File
  PROVE  /\ Header[f] \in Seq(Column)
         /\ DOMAIN Header[f] = 1..Len(Header[f]) /\ Len(Header[f]) \in Nat
         /\ ColumnsOf(f) \subseteq Column
<1>1. Header \in Seq(Seq(Column)) /\ f \in DOMAIN Header
  BY HeaderAssumption DEF File
<1>2. Header[f] \in Seq(Column)
  BY <1>1
<1>3. ColumnsOf(f) \subseteq Column
  BY DEF Column
<1> QED
  BY <1>2, <1>3

LEMMA UncertainIs ==
  ASSUME NEW f \in File
  PROVE  Uncertain(f) \subseteq Column /\ IsFiniteSet(UncertainAt(f))
<1>1. IsFiniteSet(1..Len(Header[f]))
  <2>1. 1 \in Int /\ Len(Header[f]) \in Int
    BY HeaderIs
  <2> QED
    BY <2>1, FS_Interval
<1>2. UncertainAt(f) \in SUBSET (1..Len(Header[f]))
  BY HeaderIs DEF UncertainAt
<1> QED
  BY <1>1, <1>2, HeaderIs, FS_Subset DEF Uncertain

(* Every question has a number among the questions of its file. *)
LEMMA NumberIs ==
  ASSUME NEW f \in File, NEW c \in Uncertain(f)
  PROVE  Number(f, c) \in 1..Cardinality(UncertainAt(f))
<1> DEFINE at == CHOOSE i \in DOMAIN Header[f] : Header[f][i] = c
           upto == {i \in UncertainAt(f) : i <= at}
<1>1. at \in DOMAIN Header[f] /\ Header[f][at] = c
  <2>1. c \in ToSet(Header[f])
    BY DEF Uncertain, ColumnsOf
  <2>2. \E i \in DOMAIN Header[f] : Header[f][i] = c
    BY <2>1 DEF ToSet
  <2> QED
    BY <2>2
<1>2. at \in UncertainAt(f) /\ at \in Nat
  BY <1>1, HeaderIs DEF UncertainAt
<1> HIDE DEF at
<1>3. at \in upto /\ upto \in SUBSET UncertainAt(f)
  BY <1>2
<1> HIDE DEF upto
<1>4. IsFiniteSet(UncertainAt(f))
  BY UncertainIs
<1>5. IsFiniteSet(upto) /\ Cardinality(upto) <= Cardinality(UncertainAt(f))
  BY <1>3, <1>4, FS_Subset
<1>6. Cardinality(upto) \in Nat /\ Cardinality(UncertainAt(f)) \in Nat
  BY <1>4, <1>5, FS_CardinalityType
<1>7. Cardinality(upto) # 0
  BY <1>3, <1>5, FS_EmptySet
<1>8. Number(f, c) = Cardinality(upto)
  BY DEF Number, upto, at
<1> QED
  BY <1>5, <1>6, <1>7, <1>8

(* A reply that covers its file has one item for every question. *)
LEMMA CoveringReply ==
  ASSUME NEW f \in File, NEW reply \in Replies(f), Covers(reply, f)
  PROVE  /\ Cardinality(UncertainAt(f)) # 0 => DOMAIN reply = 1..Cardinality(UncertainAt(f))
         /\ \A i \in DOMAIN reply :
              reply[i] \in [name : Uncertain(f) \cup {NoName}, says : Opinions]
<1> DEFINE count == Cardinality(UncertainAt(f))
           Items == [name : Uncertain(f) \cup {NoName}, says : Opinions]
<1>1. count \in Nat
  BY UncertainIs, FS_CardinalityType
<1>2. Len(reply) = count
  BY DEF Covers
<1>3. PICK n \in {count - 1, count} : reply \in [1..n -> Items]
  BY DEF Replies
<1> HIDE DEF count, Items
<1>4. \A i \in DOMAIN reply : reply[i] \in Items
  BY <1>3
<1>5. ASSUME count # 0 PROVE DOMAIN reply = 1..count
  <2>1. n \in Nat
    BY <1>1, <1>3, <1>5
  <2>2. reply \in Seq(Items)
    BY <1>3, <2>1, SeqDef
  <2>3. DOMAIN reply = 1..Len(reply)
    BY <2>2
  <2> QED
    BY <1>2, <2>3
<1> QED
  BY <1>4, <1>5 DEF count, Items

LEMMA ItemFits ==
  ASSUME NEW f \in File, NEW reply \in Replies(f), Covers(reply, f), NEW c \in Uncertain(f)
  PROVE  ItemFor(reply, f, c) \in [name : {c, NoName}, says : Opinions]
<1> DEFINE count == Cardinality(UncertainAt(f))
<1>1. Number(f, c) \in 1..count /\ count \in Nat
  BY NumberIs, UncertainIs, FS_CardinalityType
<1>2. DOMAIN reply = 1..count
  BY <1>1, CoveringReply
<1>3. \A i \in DOMAIN reply : reply[i] \in [name : Uncertain(f) \cup {NoName}, says : Opinions]
  BY CoveringReply
<1> HIDE DEF count
<1>4. CASE IsNamed(reply)
  <2>1. {reply[i].name : i \in DOMAIN reply} = Uncertain(f)
    BY <1>4 DEF Covers
  <2>2. \E i \in DOMAIN reply : reply[i].name = c
    BY <2>1
  <2>3. PICK i \in DOMAIN reply : ItemFor(reply, f, c) = reply[i] /\ reply[i].name = c
    BY <1>4, <2>2 DEF ItemFor
  <2> QED
    BY <1>3, <2>3
<1>5. CASE ~IsNamed(reply)
  <2>1. ItemFor(reply, f, c) = reply[Number(f, c)] /\ Number(f, c) \in DOMAIN reply
    BY <1>1, <1>2, <1>5 DEF ItemFor
  <2>2. reply[Number(f, c)].name = NoName
    BY <1>5, <2>1 DEF IsNamed
  <2> QED
    BY <1>3, <2>1, <2>2
<1> QED
  BY <1>4, <1>5

LEMMA AnsweredFit ==
  ASSUME NEW f \in File, NEW reply \in Replies(f), Covers(reply, f), NEW by \in Sources
  PROVE  /\ AnswersFit(Answered(reply, f, by))
         /\ DOMAIN Answered(reply, f, by) = Uncertain(f)
<1>1. DOMAIN Answered(reply, f, by) = Uncertain(f)
  BY DEF Answered
<1>2. ASSUME NEW c \in Uncertain(f)
      PROVE  LET m == Answered(reply, f, by)[c]
             IN  m \in Mappings /\ m.about \in {c, NoName}
  <2> DEFINE item == ItemFor(reply, f, c)
  <2>1. item \in [name : {c, NoName}, says : Opinions]
    BY ItemFits
  <2>2. Answered(reply, f, by)[c] =
          [target |-> Selected(item.says), confidence |-> item.says.confidence,
           by |-> by, about |-> item.name]
    BY DEF Answered
  <2> HIDE DEF item
  <2>3. c \in Column
    BY UncertainIs
  <2>4. Selected(item.says) \in Target \cup {NoTarget}
    BY DEF Selected
  <2>5. item.says.confidence \in 0..100
    BY <2>1, OpinionAssumption
  <2>6. item.name \in {c, NoName}
    BY <2>1
  <2> QED
    BY <2>2, <2>3, <2>4, <2>5, <2>6 DEF Mappings
<1> QED
  BY <1>1, <1>2, UncertainIs DEF AnswersFit

LEMMA RecoveredFit ==
  ASSUME NEW f \in File, NEW by \in Sources
  PROVE  AnswersFit(Recovered(f, by)) /\ DOMAIN Recovered(f, by) = Uncertain(f)
  BY UncertainIs, DeterministicFits DEF AnswersFit, Recovered

LEMMA WithFits ==
  ASSUME NEW a, NEW b, AnswersFit(a), AnswersFit(b)
  PROVE  AnswersFit(With(a, b)) /\ DOMAIN With(a, b) = DOMAIN a \cup DOMAIN b
  BY DEF AnswersFit, With

(* When every file is done, every column has its row. *)
LEMMA RowsOfAnswers ==
  ASSUME NEW answers, AnswersFit(answers),
         \A f \in File : Uncertain(f) \subseteq DOMAIN answers
  PROVE  RowsFit(Rows(answers))
<1>1. ASSUME NEW c \in Column
      PROVE  Rows(answers)[c] \in Mappings /\ Rows(answers)[c].about \in {c, NoName}
  <2>1. CASE IsKnown(c)
    <3>1. Rows(answers)[c] = KnownMapping(c)
      BY <2>1 DEF Rows
    <3> QED
      BY <2>1, <3>1, KnownFits
  <2>2. CASE ~IsKnown(c)
    <3>1. Rows(answers)[c] = answers[c]
      BY <2>2 DEF Rows
    <3>2. PICK f \in File : c \in ColumnsOf(f)
      BY DEF Column
    <3>3. c \in DOMAIN answers
      BY <2>2, <3>2 DEF Uncertain
    <3> QED
      BY <3>1, <3>3 DEF AnswersFit
  <2> QED
    BY <2>1, <2>2
<1>2. DOMAIN Rows(answers) = Column /\ Rows(answers) = [c \in Column |-> Rows(answers)[c]]
  BY DEF Rows
<1> QED
  BY <1>1, <1>2 DEF RowsFit

----------------------------------------------------------------------------
(* Steps of a session *)

LEMMA Moves ==
  ASSUME NEW s \in Session, NEW q, Goto(s, q), session = [t \in Session |-> session[t]]
  PROVE  /\ session' = [t \in Session |-> session'[t]]
         /\ session'[s] = q
         /\ \A t \in Session \ {s} : session'[t] = session[t]
  BY DEF Goto

(* What is known and what is a question does not change. *)
LEMMA FitsStays ==
  ASSUME setting' = setting, NEW q, Fits(q)
  PROVE  Fits(q)'
<1>1. \A f \in File : Uncertain(f)' = Uncertain(f)
  BY DEF Uncertain, IsKnown
<1> QED
  BY <1>1 DEF Fits, AsksWell, AnswersFit

(* A step of one session that leaves the rows alone. *)
LEMMA SessionStep ==
  ASSUME TInv, NEW s \in Session, NEW q, Goto(s, q), Fits(q), setting' = setting,
         stored' = stored, used' = used, lost' \in 0..MaxLost, late' = late
  PROVE  TInv'
<1>1. session = [t \in Session |-> session[t]]
  BY DEF TInv
<1>2. /\ session' = [t \in Session |-> session'[t]]
      /\ session'[s] = q
      /\ \A t \in Session \ {s} : session'[t] = session[t]
  BY <1>1, Moves
<1>3. ASSUME NEW t \in Session PROVE Fits(session[t])'
  <2>1. PICK p : p = session'[t]
    OBVIOUS
  <2>2. Fits(p)
    BY <1>2, <2>1 DEF TInv
  <2>3. Fits(p)'
    BY <2>2, FitsStays
  <2> QED
    BY <2>1, <2>3 DEF Fits, AsksWell
<1> QED
  BY <1>2, <1>3 DEF TInv, StoredFit

LEMMA RestFits ==
  Fits(Idle) /\ Fits(Done) /\ Fits(Lost)
  BY DEF Fits

LEMMA DeletesFits ==
  ASSUME NEW rows, RowsFit(rows) PROVE Fits(Deletes(rows))
  BY DEF Fits, Deletes

LEMMA InsertsFits ==
  ASSUME NEW rows, NEW gone, RowsFit(rows) PROVE Fits(Inserts(rows, gone))
  BY DEF Fits, Inserts

LEMMA IsAsking ==
  ASSUME TInv, NEW s \in Session, session[s].pc = "asking"
  PROVE  AsksWell(session[s])
  BY DEF TInv, Fits, Idle, Done, Lost

LEMMA IsWriting ==
  ASSUME TInv, NEW s \in Session, session[s].pc \in {"delete", "insert"}
  PROVE  RowsFit(session[s].rows)
  BY DEF TInv, Fits, Idle, Done, Lost

(* A file moves on with answers for more columns; with it done, for all    *)
(* that were questions.                                                    *)
LEMMA StagedFits ==
  ASSUME TInv, NEW s \in Session, session[s].pc = "asking", NEW f \in File,
         NEW to \in Stages, NEW more, AnswersFit(more),
         to = "done" => Uncertain(f) \subseteq DOMAIN more,
         Staged(s, f, to, more),
         UNCHANGED <<setting, stored, used, lost, late>>
  PROVE  TInv'
<1> DEFINE stages == [session[s].stage EXCEPT ![f] = to]
           answers == With(session[s].answer, more)
           q == Asks(stages, answers)
<1>1. AsksWell(session[s])
  BY IsAsking
<1>2. AnswersFit(answers) /\ DOMAIN answers = DOMAIN session[s].answer \cup DOMAIN more
  BY <1>1, WithFits DEF AsksWell
<1>3. /\ stages \in [File -> Stages] /\ stages[f] = to
      /\ \A g \in File \ {f} : stages[g] = session[s].stage[g]
  BY <1>1 DEF AsksWell
<1> HIDE DEF stages, answers
<1>4. \A g \in File : stages[g] = "done" => Uncertain(g) \subseteq DOMAIN answers
  <2> SUFFICES ASSUME NEW g \in File, stages[g] = "done"
               PROVE  Uncertain(g) \subseteq DOMAIN answers
    OBVIOUS
  <2>1. CASE g = f
    BY <1>2, <1>3, <2>1
  <2>2. CASE g # f
    BY <1>1, <1>2, <1>3, <2>2 DEF AsksWell
  <2> QED
    BY <2>1, <2>2
<1>5. q.pc = "asking" /\ q.stage = stages /\ q.answer = answers
  BY DEF Asks
<1>6. Goto(s, q)
  BY DEF Staged, stages, answers
<1> HIDE DEF q
<1>7. Fits(q)
  BY <1>2, <1>3, <1>4, <1>5 DEF Fits, AsksWell
<1> QED
  BY <1>6, <1>7, SessionStep DEF TInv

LEMMA NothingMore ==
  AnswersFit(<<>>) /\ DOMAIN <<>> = {}
  BY DEF AnswersFit

----------------------------------------------------------------------------
(* Every step keeps what is answered and stored *)

LEMMA InitFits == Init => TInv
  BY BoundAssumption DEF Init, TInv, Fits, StoredFit

LEMMA LookFits ==
  ASSUME TInv, NEW s \in Session, Look(s) PROVE TInv'
<1>1. lost' \in 0..MaxLost /\ setting' = setting /\ stored' = stored /\ used' = used /\ late' = late
  BY DEF Look, TInv
<1>2. CASE stored # {}
  <2>1. Goto(s, Done)
    BY <1>2 DEF Look
  <2> QED
    BY <1>1, <2>1, RestFits, SessionStep
<1>3. CASE stored = {} /\ s \in Asking
  <2> DEFINE q == Asks([f \in File |-> "queued"], <<>>)
  <2>1. Goto(s, q)
    BY <1>3 DEF Look
  <2>2. q.pc = "asking" /\ q.stage = [f \in File |-> "queued"] /\ q.answer = <<>>
    BY DEF Asks
  <2> HIDE DEF q
  <2>3. Fits(q)
    BY <2>2, NothingMore DEF Fits, AsksWell, Stages
  <2> QED
    BY <1>1, <2>1, <2>3, SessionStep
<1>4. CASE stored = {} /\ s \notin Asking
  <2> DEFINE rows == [c \in Column |-> Deterministic(c, "fallback")]
  <2>1. Goto(s, Deletes(rows))
    BY <1>4 DEF Look
  <2>2. \A c \in Column : rows[c] \in Mappings /\ rows[c].about = c
    BY DeterministicFits DEF Sources
  <2>3. rows \in [Column -> Mappings]
    BY <2>2
  <2> HIDE DEF rows
  <2>4. RowsFit(rows)
    BY <2>2, <2>3 DEF RowsFit
  <2>5. Fits(Deletes(rows))
    BY <2>4, DeletesFits
  <2> QED
    BY <1>1, <2>1, <2>5, SessionStep
<1> QED
  BY <1>2, <1>3, <1>4

LEMMA AskFits ==
  ASSUME TInv, NEW s \in Session, NEW f \in File, Ask(s, f) PROVE TInv'
<1>1. session[s].pc = "asking" /\ UNCHANGED <<setting, stored, used, lost, late>>
  BY DEF Ask
<1>2. AnswersFit(<<>>) /\ DOMAIN <<>> = {}
  BY NothingMore
<1>3. CASE Uncertain(f) = {} /\ Staged(s, f, "done", <<>>)
  BY <1>1, <1>2, <1>3, StagedFits DEF Stages
<1>4. CASE Staged(s, f, "asked", <<>>)
  BY <1>1, <1>2, <1>4, StagedFits DEF Stages
<1>5. CASE Staged(s, f, "asked_again", <<>>)
  BY <1>1, <1>2, <1>5, StagedFits DEF Stages
<1> QED
  BY <1>3, <1>4, <1>5 DEF Ask

LEMMA SourceIs ==
  ASSUME NEW stage \in InFlight PROVE SourceOf(stage) \in Sources
  BY DEF InFlight, SourceOf, Sources

LEMMA ReplyFits ==
  ASSUME TInv, NEW s \in Session, NEW f \in File, Reply(s, f) PROVE TInv'
<1>1. session[s].pc = "asking" /\ UNCHANGED <<setting, stored, used, lost, late>>
  BY DEF Reply
<1> DEFINE by == SourceOf(session[s].stage[f])
<1>2. by \in Sources
  <2>1. session[s].stage[f] \in InFlight
    BY DEF Reply, Calls
  <2> QED
    BY <2>1, SourceIs
<1>3. PICK reply \in Replies(f) : Covers(reply, f) /\ Staged(s, f, "done", Answered(reply, f, by))
  BY DEF Reply
<1> HIDE DEF by
<1>4. AnswersFit(Answered(reply, f, by)) /\ DOMAIN Answered(reply, f, by) = Uncertain(f)
  BY <1>2, <1>3, AnsweredFit
<1> QED
  BY <1>1, <1>3, <1>4, StagedFits DEF Stages

LEMMA FailFits ==
  ASSUME TInv, NEW s \in Session, NEW f \in File, Fail(s, f) PROVE TInv'
<1>1. session[s].pc = "asking" /\ UNCHANGED <<setting, stored, used, lost, late>>
  BY DEF Fail
<1>2. AnswersFit(<<>>) /\ DOMAIN <<>> = {}
  BY NothingMore
<1>3. CASE Staged(s, f, "failed", <<>>)
  BY <1>1, <1>2, <1>3, StagedFits DEF Stages
<1>4. CASE Staged(s, f, "asked_elsewhere", <<>>)
  BY <1>1, <1>2, <1>4, StagedFits DEF Stages
<1>5. CASE Staged(s, f, "done", Recovered(f, "recovery"))
  <2>1. AnswersFit(Recovered(f, "recovery")) /\ DOMAIN Recovered(f, "recovery") = Uncertain(f)
    BY RecoveredFit DEF Sources
  <2> QED
    BY <1>1, <1>5, <2>1, StagedFits DEF Stages
<1> QED
  BY <1>3, <1>4, <1>5 DEF Fail

LEMMA ProposeFits ==
  ASSUME TInv, NEW s \in Session, Propose(s) PROVE TInv'
<1>1. /\ session[s].pc = "asking" /\ \A f \in File : session[s].stage[f] = "done"
      /\ Goto(s, Deletes(Rows(session[s].answer)))
      /\ UNCHANGED <<setting, stored, used, lost, late>>
  BY DEF Propose
<1>2. RowsFit(Rows(session[s].answer))
  <2>1. AsksWell(session[s])
    BY <1>1, IsAsking
  <2> QED
    BY <1>1, <2>1, RowsOfAnswers DEF AsksWell
<1>3. Fits(Deletes(Rows(session[s].answer)))
  BY <1>2, DeletesFits
<1> QED
  BY <1>1, <1>3, SessionStep DEF TInv

LEMMA DeleteFits ==
  ASSUME TInv, NEW s \in Session, Delete(s) PROVE TInv'
<1>1. /\ session[s].pc = "delete" /\ Goto(s, Inserts(session[s].rows, stored))
      /\ UNCHANGED <<setting, stored, used, lost, late>>
  BY DEF Delete
<1>2. Fits(Inserts(session[s].rows, stored))
  BY <1>1, IsWriting, InsertsFits
<1> QED
  BY <1>1, <1>2, SessionStep DEF TInv

LEMMA LoseFits ==
  ASSUME TInv, NEW s \in Session, Lose(s) PROVE TInv'
<1>1. Goto(s, Lost) /\ UNCHANGED <<setting, stored, used, late>> /\ lost' \in 0..MaxLost
  BY BoundAssumption DEF Lose, TInv
<1> QED
  BY <1>1, RestFits, SessionStep

LEMMA InsertFits ==
  ASSUME TInv, NEW s \in Session, Insert(s) PROVE TInv'
<1> DEFINE new == [by |-> s, rows |-> session[s].rows]
<1>1. /\ session[s].pc = "insert" /\ Goto(s, Done) /\ UNCHANGED <<setting, used, lost, late>>
      /\ stored' = (stored \ session[s].gone) \cup {new}
  BY DEF Insert
<1>2. RowsFit(session[s].rows)
  BY <1>1, IsWriting
<1>3. new \in Generations /\ new.rows = session[s].rows
  BY <1>2 DEF Generations, RowsFit
<1> HIDE DEF new
<1>4. StoredFit(stored')
  BY <1>1, <1>2, <1>3 DEF TInv, StoredFit
<1>5. session' = [t \in Session |-> session'[t]] /\ session'[s] = Done
      /\ \A t \in Session \ {s} : session'[t] = session[t]
  BY <1>1, Moves DEF TInv
<1>6. ASSUME NEW t \in Session PROVE Fits(session[t])'
  <2>1. PICK p : p = session'[t]
    OBVIOUS
  <2>2. Fits(p)
    BY <1>5, <2>1, RestFits DEF TInv
  <2>3. Fits(p)'
    BY <1>1, <2>2, FitsStays
  <2> QED
    BY <2>1, <2>3 DEF Fits, AsksWell
<1> QED
  BY <1>1, <1>4, <1>5, <1>6 DEF TInv, StoredFit

LEMMA StartWorkflowFits ==
  ASSUME TInv, StartWorkflow PROVE TInv'
<1>1. used' = stored /\ late' \subseteq Session /\ UNCHANGED <<setting, session, stored, lost>>
  BY DEF StartWorkflow
<1>2. ASSUME NEW t \in Session PROVE Fits(session[t])'
  <2>1. PICK p : p = session[t]
    OBVIOUS
  <2>2. Fits(p)'
    BY <1>1, <2>1, FitsStays DEF TInv
  <2> QED
    BY <1>1, <2>1, <2>2 DEF Fits, AsksWell
<1> QED
  BY <1>1, <1>2 DEF TInv, StoredFit

LEMMA StutterFits ==
  ASSUME TInv, UNCHANGED vars PROVE TInv'
<1>1. UNCHANGED <<setting, session, stored, used, lost, late>>
  BY DEF vars
<1>2. ASSUME NEW t \in Session PROVE Fits(session[t])'
  <2>1. PICK p : p = session[t]
    OBVIOUS
  <2>2. Fits(p)'
    BY <1>1, <2>1, FitsStays DEF TInv
  <2> QED
    BY <1>1, <2>1, <2>2 DEF Fits, AsksWell
<1> QED
  BY <1>1, <1>2 DEF TInv, StoredFit

LEMMA TypeInvariant == Spec => []TInv
<1>1. TInv /\ [Next]_vars => TInv'
  <2> SUFFICES ASSUME TInv, [Next]_vars PROVE TInv'
    OBVIOUS
  <2>1. ASSUME NEW s \in Session, Look(s) \/ Generate(s) \/ Lose(s) PROVE TInv'
    <3>1. CASE Look(s)
      BY <3>1, LookFits
    <3>2. ASSUME NEW f \in File, Ask(s, f) \/ Reply(s, f) \/ Fail(s, f) PROVE TInv'
      BY <3>2, AskFits, ReplyFits, FailFits
    <3>3. CASE Propose(s) \/ Delete(s) \/ Insert(s)
      BY <3>3, ProposeFits, DeleteFits, InsertFits
    <3>4. CASE Lose(s)
      BY <3>4, LoseFits
    <3> QED
      BY <2>1, <3>1, <3>2, <3>3, <3>4 DEF Generate
  <2>2. CASE StartWorkflow
    BY <2>2, StartWorkflowFits
  <2>3. CASE UNCHANGED vars
    BY <2>3, StutterFits
  <2> QED
    BY <2>1, <2>2, <2>3 DEF Next
<1> QED
  BY <1>1, InitFits, PTL DEF Spec

(* Every answer that is held or stored is a mapping to a field of the      *)
(* schema or to none, and every stored generation has a row for every      *)
(* column: whatever fails, and wherever the answer came from.              *)
THEOREM TypeCorrect == Spec => []TypeOK
<1>1. TInv => TypeOK
  <2> SUFFICES ASSUME TInv PROVE TypeOK
    OBVIOUS
  <2>1. ASSUME NEW s \in Session
        PROVE  \/ session[s] \in {Idle, Done, Lost}
               \/ /\ session[s].pc = "asking"
                  /\ session[s].stage \in [File -> Stages]
                  /\ \A c \in DOMAIN session[s].answer :
                       c \in Column /\ session[s].answer[c] \in Mappings
               \/ session[s].pc \in {"delete", "insert"} /\ session[s].rows \in [Column -> Mappings]
    <3>1. Fits(session[s])
      BY DEF TInv
    <3> QED
      BY <3>1 DEF Fits, AsksWell, AnswersFit, RowsFit
  <2> QED
    BY <2>1 DEF TInv, StoredFit, TypeOK
<1> QED
  BY <1>1, TypeInvariant, PTL

(* A named answer is stored for the column it names, an unnamed one for    *)
(* the column whose turn it is, through every rung of the recovery.        *)
THEOREM NamedAnswersAreStored == Spec => []NamedAnswersStay
<1>1. TInv => NamedAnswersStay
  BY DEF TInv, StoredFit, RowsFit, NamedAnswersStay
<1> QED
  BY <1>1, TypeInvariant, PTL

----------------------------------------------------------------------------
(* What is applied without a person *)

(* Without the alias no confidence of a model reaches 9000: the other      *)
(* weights add up to 8500.                                                 *)
LEMMA ScoreNeedsAlias ==
  ASSUME NEW c \in Column, NEW m \in Mappings, m.target \in Target, Score(c, m) >= 9000
  PROVE  Evidence[c][m.target].alias = 100
<1>1. PICK t \in Target : t = m.target
  OBVIOUS
<1> DEFINE e == Evidence[c][t]
<1>2. /\ e.name \in 0..100 /\ e.alias \in {0, 100} /\ e.type \in {0, 100}
      /\ e.pattern \in 0..100 /\ e.unique \in 0..100
  BY EvidenceIs
<1>3. m.confidence \in 0..100
  BY DEF Mappings
<1>4. Score(c, m) = 20 * NameScore(e) + 15 * e.alias + 20 * e.type + 15 * e.pattern
                      + 10 * e.unique + 20 * m.confidence
  BY <1>1 DEF Score
<1> HIDE DEF e
<1>5. SUFFICES ASSUME e.alias = 0 PROVE FALSE
  BY <1>1, <1>2 DEF e
<1>6. NameScore(e) = e.name
  BY <1>5 DEF NameScore
<1>7. PICK name \in 0..100 : name = e.name
  BY <1>2
<1>8. PICK type \in 0..100 : type = e.type
  BY <1>2
<1>9. PICK pattern \in 0..100 : pattern = e.pattern
  BY <1>2
<1>10. PICK unique \in 0..100 : unique = e.unique
  BY <1>2
<1>11. PICK sure \in 0..100 : sure = m.confidence
  BY <1>3
<1>12. Score(c, m) = 20 * name + 15 * 0 + 20 * type + 15 * pattern + 10 * unique + 20 * sure
  BY <1>4, <1>5, <1>6, <1>7, <1>8, <1>9, <1>10, <1>11
<1>13. 20 * name + 15 * 0 + 20 * type + 15 * pattern + 10 * unique + 20 * sure < 9000
  OBVIOUS
<1> QED
  BY <1>12, <1>13

(* Whatever a model says and however sure it is, what is applied without a *)
(* person is a target that the column's name is an alias of.               *)
THEOREM AppliedNamesAreKnown == Spec => []AppliedNameIsKnown
<1>1. TInv => AppliedNameIsKnown
  <2> SUFFICES ASSUME TInv, NEW p \in Applied
               PROVE  p[1].rows[p[2]].target \in AliasOf(p[2])
    BY DEF AppliedNameIsKnown
  <2>1. p[1] \in used /\ p[2] \in Column /\ AutoApplies(p[1].rows, p[2])
    BY DEF Applied
  <2>2. PICK m : m = p[1].rows[p[2]]
    OBVIOUS
  <2>3. m \in Mappings
    BY <2>1, <2>2 DEF TInv, StoredFit, RowsFit
  <2>4. m.target # NoTarget /\ Score(p[2], m) >= 9000
    BY <2>1, <2>2 DEF AutoApplies
  <2>5. m.target \in Target
    BY <2>3, <2>4 DEF Mappings
  <2>6. Evidence[p[2]][m.target].alias = 100
    BY <2>1, <2>3, <2>4, <2>5, ScoreNeedsAlias
  <2> QED
    BY <2>2, <2>5, <2>6 DEF AliasOf
<1> QED
  BY <1>1, TypeInvariant, PTL

(* An answer of the failover provider or of the recovery, or a date with   *)
(* two readings, waits for a person.                                       *)
THEOREM DegradedAnswersWait == Spec => []DegradedNeedsHuman
<1>1. TInv => DegradedNeedsHuman
  <2> SUFFICES ASSUME TInv, NEW p \in Applied
               PROVE  LET m == p[1].rows[p[2]]
                      IN  /\ m.by \in {"alias", "model", "retry", "fallback"}
                          /\ ~(p[2] \in Ambiguous /\ m.target \in DateTarget)
    BY DEF DegradedNeedsHuman
  <2>1. p[1] \in used /\ p[2] \in Column /\ AutoApplies(p[1].rows, p[2])
    BY DEF Applied
  <2>2. p[1].rows[p[2]].by \in Sources
    BY <2>1 DEF TInv, StoredFit, RowsFit, Mappings
  <2>3. ~Warns(p[1].rows, p[2])
    BY <2>1 DEF AutoApplies
  <2> QED
    BY <2>2, <2>3 DEF Warns, Sources
<1> QED
  BY <1>1, TypeInvariant, PTL

----------------------------------------------------------------------------
(* Who writes *)

LEMMA InitOneWriter == Init => OneWriter
  BY FS_EmptySet DEF Init, OneWriter, AtMostOne, Idle

(* A session that does not come to its insert, and the rows as they were.  *)
LEMMA OthersWrite ==
  ASSUME TInv, OneWriter, NEW s \in Session, NEW q, Goto(s, q), q.pc # "insert",
         UNCHANGED <<setting, stored, used>>
  PROVE  OneWriter'
<1>1. session'[s] = q /\ \A t \in Session \ {s} : session'[t] = session[t]
  BY Moves DEF TInv
<1>2. \A t \in Session : session'[t].pc = "insert" => session'[t] = session[t]
  BY <1>1
<1> QED
  BY <1>2 DEF OneWriter, AtMostOne

LEMMA OtherStages ==
  /\ \A stages, answers : Asks(stages, answers).pc = "asking"
  /\ \A rows : Deletes(rows).pc = "delete"
  /\ \A rows, gone : Inserts(rows, gone).pc = "insert" /\ Inserts(rows, gone).gone = gone
  /\ Idle.pc = "idle" /\ Done.pc = "done" /\ Lost.pc = "lost"
  BY DEF Asks, Deletes, Inserts, Idle, Done, Lost

LEMMA StagedIs ==
  ASSUME NEW s \in Session, NEW f \in File, Ask(s, f) \/ Reply(s, f) \/ Fail(s, f)
  PROVE  /\ \E q : Goto(s, q) /\ q.pc = "asking"
         /\ session[s].pc = "asking" /\ UNCHANGED <<setting, stored, used, lost, late>>
<1>1. \A to, more : Staged(s, f, to, more) => \E q : Goto(s, q) /\ q.pc = "asking"
  BY OtherStages DEF Staged
<1>2. CASE Ask(s, f)
  BY <1>1, <1>2 DEF Ask
<1>3. CASE Reply(s, f)
  BY <1>1, <1>3 DEF Reply
<1>4. CASE Fail(s, f)
  BY <1>1, <1>4 DEF Fail
<1> QED
  BY <1>2, <1>3, <1>4

LEMMA LookIs ==
  ASSUME NEW s \in Session, Look(s)
  PROVE  /\ \E q : Goto(s, q) /\ q.pc # "insert" /\ (stored # {} => q = Done)
         /\ session[s] \in {Idle, Lost} /\ UNCHANGED <<setting, stored, used, lost, late>>
  BY OtherStages DEF Look

LEMMA DeleteOneWriter ==
  ASSUME TInv, OneWriter, NEW s \in Session, Delete(s) PROVE OneWriter'
<1>1. /\ Goto(s, Inserts(session[s].rows, stored)) /\ UNCHANGED <<setting, stored, used>>
      /\ setting.database = "sqlite" => \A t \in Session : session[t].pc # "insert"
  BY DEF Delete
<1>2. /\ session'[s] = Inserts(session[s].rows, stored)
      /\ \A t \in Session \ {s} : session'[t] = session[t]
  BY <1>1, Moves DEF TInv
<1>3. session'[s].gone = stored
  BY <1>2, OtherStages
<1>4. ASSUME setting.database = "sqlite", NEW t \in Session, session'[t].pc = "insert"
      PROVE  t = s
  BY <1>1, <1>2, <1>4
<1> QED
  BY <1>1, <1>3, <1>4 DEF OneWriter, AtMostOne

LEMMA InsertOneWriter ==
  ASSUME TInv, OneWriter, NEW s \in Session, Insert(s) PROVE OneWriter'
<1> DEFINE new == [by |-> s, rows |-> session[s].rows]
<1>1. /\ session[s].pc = "insert" /\ Goto(s, Done) /\ UNCHANGED <<setting, used>>
      /\ stored' = (stored \ session[s].gone) \cup {new}
  BY DEF Insert
<1> HIDE DEF new
<1>2. session'[s] = Done /\ \A t \in Session \ {s} : session'[t] = session[t]
  BY <1>1, Moves DEF TInv
<1>3. IsFiniteSet(stored')
  <2>1. IsFiniteSet(stored \ session[s].gone)
    BY FS_Difference DEF OneWriter
  <2> QED
    BY <1>1, <2>1, FS_AddElement
<1>4. ASSUME setting.database = "sqlite"
      PROVE  /\ stored' = {new}
             /\ \A t \in Session : session'[t].pc # "insert"
  <2>1. session[s].gone = stored /\ \A t \in Session \ {s} : session[t].pc # "insert"
    BY <1>1, <1>4 DEF OneWriter
  <2> QED
    BY <1>1, <1>2, <2>1, OtherStages
<1> QED
  BY <1>1, <1>3, <1>4 DEF OneWriter, AtMostOne

LEMMA WriterInvariant == Spec => []OneWriter
<1>1. TInv /\ OneWriter /\ [Next]_vars => OneWriter'
  <2> SUFFICES ASSUME TInv, OneWriter, [Next]_vars PROVE OneWriter'
    OBVIOUS
  <2>1. ASSUME NEW s \in Session, Look(s) \/ Generate(s) \/ Lose(s) PROVE OneWriter'
    <3>1. CASE Look(s)
      BY <3>1, LookIs, OthersWrite
    <3>2. ASSUME NEW f \in File, Ask(s, f) \/ Reply(s, f) \/ Fail(s, f) PROVE OneWriter'
      BY <3>2, StagedIs, OthersWrite
    <3>3. CASE Propose(s)
      BY <3>3, OtherStages, OthersWrite DEF Propose
    <3>4. CASE Lose(s)
      BY <3>4, OtherStages, OthersWrite DEF Lose
    <3> QED
      BY <2>1, <3>1, <3>2, <3>3, <3>4, DeleteOneWriter, InsertOneWriter DEF Generate
  <2>2. CASE StartWorkflow
    BY <2>2 DEF StartWorkflow, OneWriter, AtMostOne
  <2>3. CASE UNCHANGED vars
    BY <2>3 DEF vars, OneWriter, AtMostOne
  <2> QED
    BY <2>1, <2>2, <2>3 DEF Next
<1> QED
  BY <1>1, InitOneWriter, TypeInvariant, PTL DEF Spec

(* No two columns of a file are applied to one target: on SQLite however   *)
(* the generations overlap, on PostgreSQL when one of them was read.       *)
THEOREM AppliedTargetsAreDistinct == Spec => []TargetsAreDistinct
<1>1. TInv /\ OneWriter => TargetsAreDistinct
  <2> SUFFICES ASSUME TInv, OneWriter,
                      setting.database = "sqlite" \/ Cardinality(used) = 1,
                      NEW p \in Applied, NEW q \in Applied, p # q,
                      p[1].rows[p[2]].target = q[1].rows[q[2]].target,
                      NEW f \in File, p[2] \in ColumnsOf(f), q[2] \in ColumnsOf(f)
               PROVE  FALSE
    BY DEF TargetsAreDistinct
  <2>1. /\ p \in used \X Column /\ q \in used \X Column
        /\ ~Collides(p[1].rows, p[2])
    BY DEF Applied, AutoApplies
  <2>2. AtMostOne(used)
    <3>1. CASE setting.database = "sqlite"
      BY <3>1 DEF OneWriter
    <3>2. CASE Cardinality(used) = 1
      <4>1. IsFiniteSet(used)
        BY DEF OneWriter
      <4>2. \E g : used = {g}
        BY <3>2, <4>1, FS_Singleton
      <4> QED
        BY <4>2 DEF AtMostOne
    <3> QED
      BY <3>1, <3>2
  <2>3. p[1] = q[1]
    BY <2>1, <2>2 DEF AtMostOne
  <2>4. p[2] # q[2]
    BY <2>1, <2>3
  <2> QED
    BY <2>1, <2>3, <2>4 DEF Collides
<1> QED
  BY <1>1, TypeInvariant, WriterInvariant, PTL

----------------------------------------------------------------------------
(* After start_workflow *)

LEMMA InitNobodyNew == Init => NobodyNew
  BY DEF Init, NobodyNew

(* A session that only goes on, or ends. *)
LEMMA GoesOn ==
  ASSUME TInv, NobodyNew, NEW s \in Session, NEW q, Goto(s, q),
         q.pc \in Running /\ used # {} => session[s].pc \in Running,
         UNCHANGED <<stored, used, late>>
  PROVE  NobodyNew'
<1>1. session'[s] = q /\ \A t \in Session \ {s} : session'[t] = session[t]
  BY Moves DEF TInv
<1> QED
  BY <1>1 DEF NobodyNew

LEMMA InsertNobodyNew ==
  ASSUME TInv, NobodyNew, NEW s \in Session, Insert(s) PROVE NobodyNew'
<1>1. /\ Goto(s, Done) /\ UNCHANGED <<used, late>> /\ stored' # {}
  BY DEF Insert
<1>2. session'[s] = Done /\ \A t \in Session \ {s} : session'[t] = session[t]
  BY <1>1, Moves DEF TInv
<1>3. Done.pc \notin Running
  BY DEF Done, Running
<1> QED
  BY <1>1, <1>2, <1>3 DEF NobodyNew

LEMMA NobodyNewInvariant == Spec => []NobodyNew
<1>1. TInv /\ NobodyNew /\ [Next]_vars => NobodyNew'
  <2> SUFFICES ASSUME TInv, NobodyNew, [Next]_vars PROVE NobodyNew'
    OBVIOUS
  <2>1. ASSUME NEW s \in Session, Look(s) \/ Generate(s) \/ Lose(s) PROVE NobodyNew'
    <3>1. CASE Look(s)
      <4>1. PICK q : Goto(s, q) /\ (stored # {} => q = Done)
        BY <3>1, LookIs
      <4>2. UNCHANGED <<stored, used, late>>
        BY <3>1, LookIs
      <4>3. used # {} => q.pc \notin Running
        BY <4>1, OtherStages DEF NobodyNew, Running
      <4> QED
        BY <4>1, <4>2, <4>3, GoesOn
    <3>2. ASSUME NEW f \in File, Ask(s, f) \/ Reply(s, f) \/ Fail(s, f) PROVE NobodyNew'
      BY <3>2, StagedIs, GoesOn DEF Running
    <3>3. CASE Propose(s)
      BY <3>3, GoesOn DEF Propose, Running
    <3>4. CASE Delete(s)
      BY <3>4, GoesOn DEF Delete, Running
    <3>5. CASE Lose(s)
      BY <3>5, GoesOn DEF Lose, Running
    <3> QED
      BY <2>1, <3>1, <3>2, <3>3, <3>4, <3>5, InsertNobodyNew DEF Generate
  <2>2. CASE StartWorkflow
    BY <2>2 DEF StartWorkflow, NobodyNew, Running
  <2>3. CASE UNCHANGED vars
    BY <2>3 DEF vars, NobodyNew
  <2> QED
    BY <2>1, <2>2, <2>3 DEF Next
<1> QED
  BY <1>1, InitNobodyNew, TypeInvariant, PTL DEF Spec

(* The rows that start_workflow has read are replaced only by a generation *)
(* that was under way when it read them.                                   *)
THEOREM UsedRowsStand == Spec => UsedSetStands
<1> DEFINE Stands == used # {} /\ stored' # stored =>
                       \E s \in late : session'[s] # session[s]
<1>1. TInv /\ NobodyNew /\ [Next]_vars => [Stands]_vars
  <2> SUFFICES ASSUME TInv, NobodyNew, [Next]_vars, used # {}, stored' # stored
               PROVE  \E s \in late : session'[s] # session[s]
    OBVIOUS
  <2>1. PICK s \in Session : Insert(s)
    <3>1. ~StartWorkflow /\ ~UNCHANGED vars
      BY DEF StartWorkflow, vars
    <3>2. ASSUME NEW s \in Session, Look(s) \/ Lose(s) PROVE FALSE
      BY <3>2 DEF Look, Lose
    <3>3. ASSUME NEW s \in Session, Generate(s) PROVE Insert(s)
      <4>1. ASSUME NEW f \in File, Ask(s, f) \/ Reply(s, f) \/ Fail(s, f) PROVE FALSE
        BY <4>1, StagedIs
      <4>2. ~Propose(s) /\ ~Delete(s)
        BY DEF Propose, Delete
      <4> QED
        BY <3>3, <4>1, <4>2 DEF Generate
    <3> QED
      BY <3>1, <3>2, <3>3 DEF Next
  <2>2. session[s].pc = "insert" /\ session'[s] = Done
    BY <2>1, Moves DEF Insert, TInv
  <2>3. s \in late
    BY <2>2 DEF NobodyNew, Running
  <2> QED
    BY <2>2, <2>3, OtherStages
<1>2. Spec => [][Stands]_vars
  BY <1>1, TypeInvariant, NobodyNewInvariant, PTL DEF Spec
<1> QED
  BY <1>2 DEF UsedSetStands
=============================================================================
