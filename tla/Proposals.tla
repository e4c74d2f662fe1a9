----------------------------- MODULE Proposals -----------------------------
(***************************************************************************)
(* The mapping proposals of one migration: create_mapping_proposals of     *)
(* backend/app/api/mappings.py, propose_mappings of mapping/engine.py with *)
(* its recovery ladder, evaluate_mapping of agent/policy.py, and the read  *)
(* of start_workflow that uses what is stored.                             *)
(*                                                                         *)
(* Any request and the pass may generate.  A generation asks the model     *)
(* once per file, several files at a time; what fails is asked again       *)
(* alone, then at another provider, then answered by the deterministic     *)
(* rules.  Then the rows are replaced in one transaction.                  *)
(*                                                                         *)
(* Scores are the weighted evidence of the code in ten-thousandths; what   *)
(* the evidence is for a column and a target is data.                      *)
(***************************************************************************)
EXTENDS Integers, FiniteSets, Sequences, SequencesExt

CONSTANTS
  Session,     \* requests and passes that generate
  Asking,      \* those that use the configured model; the others ask with fallback=true
  Header,      \* the columns of each file, in order
  Target,      \* fields of the target schema
  NoTarget,    \* a mapping without a target field
  NoName,      \* an item of a reply that does not name its column
  Evidence,    \* of a column for a target: name, alias, type, pattern, unique, in percent
  Broad,       \* columns whose name stays a question although it is an alias
  Ambiguous,   \* columns profiled with dates that have two readings, and the date targets:
  DateTarget,
  Opinions,    \* what a model may say of a column: a target and a confidence
  Settings,    \* deployments: database, parallel workers, failover provider, fast path
  MaxLost      \* bound: generations that are lost

File == DOMAIN Header
ColumnsOf(f) == ToSet(Header[f])
Column == UNION {ColumnsOf(f) : f \in File}

ASSUME HeaderAssumption ==
  /\ Header \in Seq(Seq(Column)) /\ Len(Header) > 0
  /\ \A f \in File : IsInjective(Header[f])
  /\ \A f, g \in File : f # g => ColumnsOf(f) \cap ColumnsOf(g) = {}
ASSUME SessionAssumption == Asking \subseteq Session
ASSUME TargetAssumption == Target # {} /\ NoTarget \notin Target
ASSUME NoNameAssumption == NoName \notin Column
ASSUME EvidenceAssumption ==
  Evidence \in [Column -> [Target ->
    [name : 0..100, alias : {0, 100}, type : {0, 100}, pattern : 0..100, unique : 0..100]]]
ASSUME OpinionAssumption == \A o \in Opinions : o.confidence \in 0..100
ASSUME SettingsAssumption ==
  Settings \subseteq [database : {"sqlite", "postgresql"}, workers : 1..16,
                      failover : BOOLEAN, fast : BOOLEAN]
ASSUME BoundAssumption == MaxLost \in Nat

VARIABLES
  setting,    \* fixed in Init
  session,    \* how far each generation is
  stored,     \* mapping_proposals: the committed rows, one element per generation
  used,       \* the rows start_workflow has read, {} while there is no workflow row
  lost,       \* generations lost
  late        \* history: generations under way when start_workflow read

vars == <<setting, session, stored, used, lost, late>>

Sources == {"alias", "model", "retry", "failover", "recovery", "fallback"}
Stages == {"queued", "asked", "failed", "asked_again", "asked_elsewhere", "done"}
InFlight == {"asked", "asked_again", "asked_elsewhere"}

(* `by` stands for the warnings an answer carries, `about` is the column   *)
(* it was given for, if it names one.                                      *)
Mappings == [target : Target \cup {NoTarget}, confidence : 0..100, by : Sources,
             about : Column \cup {NoName}]

Idle == [pc |-> "idle"]
Done == [pc |-> "done"]
Lost == [pc |-> "lost"]
Asks(stages, answers) == [pc |-> "asking", stage |-> stages, answer |-> answers]
Deletes(rows) == [pc |-> "delete", rows |-> rows]
Inserts(rows, gone) == [pc |-> "insert", rows |-> rows, gone |-> gone]

Generations == [by : Session, rows : [Column -> Mappings]]

(* Type invariant. *)
TypeOK ==
  /\ setting \in Settings
  /\ \A s \in Session :
       \/ session[s] \in {Idle, Done, Lost}
       \/ /\ session[s].pc = "asking"
          /\ session[s].stage \in [File -> Stages]
          /\ \A c \in DOMAIN session[s].answer : c \in Column /\ session[s].answer[c] \in Mappings
       \/ session[s].pc \in {"delete", "insert"} /\ session[s].rows \in [Column -> Mappings]
  /\ \A g \in stored : g \in Generations
  /\ \A g \in used : g \in Generations
  /\ lost \in 0..MaxLost
  /\ late \subseteq Session

Init ==
  /\ setting \in Settings
  /\ session = [s \in Session |-> Idle]
  /\ stored = {}
  /\ used = {}
  /\ lost = 0
  /\ late = {}

----------------------------------------------------------------------------
(* Answers *)

(* propose_mappings, fast_path: one target has the name as an alias.       *)
AliasOf(c) == {t \in Target : Evidence[c][t].alias = 100}
IsKnown(c) ==
  /\ setting.fast /\ c \notin Broad
  /\ \E t \in Target : AliasOf(c) = {t} /\ Evidence[c][t].type > 0

KnownMapping(c) == [target |-> CHOOSE t \in Target : AliasOf(c) = {t},
                    confidence |-> 100, by |-> "alias", about |-> c]

(* uncertain: the columns the model is asked about, in the file's order.   *)
Uncertain(f) == {c \in ColumnsOf(f) : ~IsKnown(c)}
UncertainAt(f) == {i \in DOMAIN Header[f] : Header[f][i] \in Uncertain(f)}
Number(f, c) ==
  LET at == CHOOSE i \in DOMAIN Header[f] : Header[f][i] = c
  IN  Cardinality({i \in UncertainAt(f) : i <= at})

(* _candidate_scores, DeterministicFallback *)
Resemblance(c, t) == 55 * Evidence[c][t].name + 45 * Evidence[c][t].alias
Best(c) == CHOOSE t \in Target : \A u \in Target : Resemblance(c, u) <= Resemblance(c, t)

Deterministic(c, by) ==
  LET score == Resemblance(c, Best(c))
  IN  IF score >= 3500
      THEN [target |-> Best(c), confidence |-> Min({98, 55 + (45 * score) \div 10000}),
            by |-> by, about |-> c]
      ELSE [target |-> NoTarget, confidence |-> 15, by |-> by, about |-> c]

SelectedAsSaid(o) == o.target \* mutant: the schema is not consulted

(* A target that is not in the schema is none. *)
Selected(o) == IF o.target \in Target THEN o.target ELSE NoTarget

Replies(f) ==
  LET count == Cardinality(UncertainAt(f))
  IN  UNION {[1..n -> [name : Uncertain(f) \cup {NoName}, says : Opinions]] :
               n \in {count - 1, count}}

(* _validate_batch_result: named items are put to their columns, unnamed   *)
(* ones to the columns in order.                                           *)
IsNamed(reply) == \E i \in DOMAIN reply : reply[i].name # NoName
Covers(reply, f) ==
  /\ Len(reply) = Cardinality(UncertainAt(f))
  /\ IsNamed(reply) => {reply[i].name : i \in DOMAIN reply} = Uncertain(f)

ItemInOrder(reply, f, c) == reply[Number(f, c)] \* mutant: names ignored

ItemFor(reply, f, c) ==
  IF IsNamed(reply) THEN reply[CHOOSE i \in DOMAIN reply : reply[i].name = c]
  ELSE reply[Number(f, c)]

Answered(reply, f, by) ==
  [c \in Uncertain(f) |->
     LET item == ItemFor(reply, f, c)
     IN  [target |-> Selected(item.says), confidence |-> item.says.confidence,
          by |-> by, about |-> item.name]]

Recovered(f, by) == [c \in Uncertain(f) |-> Deterministic(c, by)]

----------------------------------------------------------------------------
(* The score, collisions and the policy *)

(* components: an alias is the name itself. *)
NameScore(e) == IF e.alias = 100 THEN 100 ELSE e.name

ScoreByModel(c, m) == \* mutant: the weight of the alias is the model's
  LET e == Evidence[c][m.target]
  IN  20 * NameScore(e) + 20 * e.type + 15 * e.pattern + 10 * e.unique + 35 * m.confidence

(* WEIGHTS *)
Score(c, m) ==
  LET e == Evidence[c][m.target]
  IN  20 * NameScore(e) + 15 * e.alias + 20 * e.type + 15 * e.pattern + 10 * e.unique
        + 20 * m.confidence

CollidesInReply(rows, c) == \* mutant: aliases are left out of the grouping
  \E f \in File : c \in ColumnsOf(f) /\ \E d \in ColumnsOf(f) \ {c} :
    rows[d].target = rows[c].target /\ "alias" \notin {rows[c].by, rows[d].by}

(* The proposals of a file for the same target are all flagged. *)
Collides(rows, c) ==
  \E f \in File : c \in ColumnsOf(f) /\ \E d \in ColumnsOf(f) \ {c} : rows[d].target = rows[c].target

WarnsOfRecovery(rows, c) == \* mutant: PROVIDER_FAILOVER is missing in POLICY_WARNINGS
  \/ rows[c].by = "recovery"
  \/ c \in Ambiguous /\ rows[c].target \in DateTarget

(* POLICY_WARNINGS *)
Warns(rows, c) ==
  \/ rows[c].by \in {"failover", "recovery"}
  \/ c \in Ambiguous /\ rows[c].target \in DateTarget

(* evaluate_mapping *)
AutoApplies(rows, c) ==
  /\ rows[c].target # NoTarget
  /\ ~Collides(rows, c) /\ ~Warns(rows, c)
  /\ Evidence[c][rows[c].target].type > 0
  /\ Score(c, rows[c]) >= 9000

----------------------------------------------------------------------------
(* A generation *)

Goto(s, q) == session' = [session EXCEPT ![s] = q]

Rows(answers) == [c \in Column |-> IF IsKnown(c) THEN KnownMapping(c) ELSE answers[c]]

LookAgain(s) == \* mutant: what is stored already is not returned
  /\ session[s] \in {Idle, Lost}
  /\ Goto(s, IF s \in Asking THEN Asks([f \in File |-> "queued"], <<>>)
             ELSE Deletes([c \in Column |-> Deterministic(c, "fallback")]))
  /\ UNCHANGED <<setting, stored, used, lost, late>>

(* create_mapping_proposals: what exists is returned.  The fallback asks   *)
(* nobody and takes no fast path.  A generation that was lost may be asked *)
(* for again.                                                              *)
Look(s) ==
  /\ session[s] \in {Idle, Lost}
  /\ Goto(s, IF stored # {} THEN Done
             ELSE IF s \in Asking THEN Asks([f \in File |-> "queued"], <<>>)
             ELSE Deletes([c \in Column |-> Deterministic(c, "fallback")]))
  /\ UNCHANGED <<setting, stored, used, lost, late>>

Workers == Min({Len(Header), setting.workers})
Calls(s) == {f \in File : session[s].stage[f] \in InFlight}

(* The wave goes through the files in order, `Workers` at a time; without  *)
(* a wave a file is recovered before the next one is asked.                *)
WaveTurn(s, f) ==
  /\ session[s].stage[f] = "queued"
  /\ \A g \in File : g < f => session[s].stage[g] # "queued"
                              /\ (Workers = 1 => session[s].stage[g] = "done")
  /\ Cardinality(Calls(s)) < Workers

RetryTurn(s, f) ==
  /\ session[s].stage[f] = "failed"
  /\ Calls(s) = {}
  /\ \A g \in File : session[s].stage[g] = "queued" => Workers = 1
  /\ \A g \in File : g < f => session[s].stage[g] # "failed"

(* batch_results_by_profile, with the answers for one more file. *)
With(answers, more) ==
  [c \in DOMAIN answers \cup DOMAIN more |-> IF c \in DOMAIN more THEN more[c] ELSE answers[c]]

Staged(s, f, to, more) ==
  Goto(s, Asks([session[s].stage EXCEPT ![f] = to], With(session[s].answer, more)))

(* propose_profile; a file all of whose columns are known needs no call.   *)
Ask(s, f) ==
  /\ session[s].pc = "asking"
  /\ \/ WaveTurn(s, f) /\ Staged(s, f, IF Uncertain(f) = {} THEN "done" ELSE "asked", <<>>)
     \/ RetryTurn(s, f) /\ Staged(s, f, "asked_again", <<>>)
  /\ UNCHANGED <<setting, stored, used, lost, late>>

SourceOf(stage) == CASE stage = "asked" -> "model"
                     [] stage = "asked_again" -> "retry"
                     [] stage = "asked_elsewhere" -> "failover"

Reply(s, f) ==
  /\ session[s].pc = "asking" /\ f \in Calls(s)
  /\ \E reply \in Replies(f) :
       /\ Covers(reply, f)
       /\ Staged(s, f, "done", Answered(reply, f, SourceOf(session[s].stage[f])))
  /\ UNCHANGED <<setting, stored, used, lost, late>>

FailWithoutNet(s, f) == \* mutant: the last failure is not caught
  /\ session[s].pc = "asking" /\ f \in Calls(s)
  /\ CASE session[s].stage[f] = "asked" -> Staged(s, f, "failed", <<>>)
       [] session[s].stage[f] = "asked_again" -> Staged(s, f, "asked_elsewhere", <<>>)
       [] session[s].stage[f] = "asked_elsewhere" -> Staged(s, f, "failed", <<>>)
  /\ UNCHANGED <<setting, stored, used, lost, late>>

(* ModelUnavailable, or InvalidModelOutput for a reply that does not cover *)
(* the columns: recover_profile takes the next rung.                       *)
Fail(s, f) ==
  /\ session[s].pc = "asking" /\ f \in Calls(s)
  /\ \/ session[s].stage[f] = "asked" /\ Staged(s, f, "failed", <<>>)
     \/ /\ session[s].stage[f] = "asked_again" /\ setting.failover
        /\ Staged(s, f, "asked_elsewhere", <<>>)
     \/ /\ \/ session[s].stage[f] = "asked_again" /\ ~setting.failover
           \/ session[s].stage[f] = "asked_elsewhere"
        /\ Staged(s, f, "done", Recovered(f, "recovery"))
  /\ UNCHANGED <<setting, stored, used, lost, late>>

Propose(s) ==
  /\ session[s].pc = "asking"
  /\ \A f \in File : session[s].stage[f] = "done"
  /\ Goto(s, Deletes(Rows(session[s].answer)))
  /\ UNCHANGED <<setting, stored, used, lost, late>>

(* The DELETE takes SQLite's write lock; on PostgreSQL it sees the rows    *)
(* that are committed.  (There a second DELETE of the same rows waits for  *)
(* the first; the rows that are left are the same.)                        *)
Delete(s) ==
  /\ session[s].pc = "delete"
  /\ setting.database = "sqlite" => \A t \in Session : session[t].pc # "insert"
  /\ Goto(s, Inserts(session[s].rows, stored))
  /\ UNCHANGED <<setting, stored, used, lost, late>>

Insert(s) ==
  /\ session[s].pc = "insert"
  /\ stored' = (stored \ session[s].gone) \cup {[by |-> s, rows |-> session[s].rows]}
  /\ Goto(s, Done)
  /\ UNCHANGED <<setting, used, lost, late>>

(* The process dies, or the database refuses a statement. *)
Lose(s) ==
  /\ session[s].pc \in {"asking", "delete", "insert"}
  /\ lost < MaxLost
  /\ lost' = lost + 1
  /\ Goto(s, Lost)
  /\ UNCHANGED <<setting, stored, used, late>>

(* start_workflow: it reads the rows once, and never again. *)
StartWorkflow ==
  /\ used = {} /\ stored # {}
  /\ used' = stored
  /\ late' = {s \in Session : session[s].pc \in {"asking", "delete", "insert"}}
  /\ UNCHANGED <<setting, session, stored, lost>>

Generate(s) == \/ \E f \in File : Ask(s, f) \/ Reply(s, f) \/ Fail(s, f)
               \/ Propose(s) \/ Delete(s) \/ Insert(s)

Next == \/ \E s \in Session : Look(s) \/ Generate(s) \/ Lose(s)
        \/ StartWorkflow

Spec == Init /\ [][Next]_vars

(* A call of a model ends: it has a timeout and a bounded number of        *)
(* retries of its own.  Nobody has to ask for proposals.                   *)
FairSpec == Spec /\ \A s \in Session : WF_vars(Generate(s))

----------------------------------------------------------------------------
(* Properties *)

(* What start_workflow applied without a person. *)
Applied == {p \in used \X Column : AutoApplies(p[1].rows, p[2])}

(* No two columns of a file are applied to one target, or clean_record     *)
(* would refuse the file for good.  Each generation flags its own          *)
(* collisions; on PostgreSQL the rows of two that overlapped may stand     *)
(* side by side, on SQLite they do not, however they overlap.              *)
TargetsAreDistinct ==
  setting.database = "sqlite" \/ Cardinality(used) = 1 =>
    \A p, q \in Applied :
      p # q /\ p[1].rows[p[2]].target = q[1].rows[q[2]].target
        => \A f \in File : ~({p[2], q[2]} \subseteq ColumnsOf(f))

(* Once start_workflow has used the proposals, they are replaced only by a *)
(* generation that was under way then (mappings.py:44, 110).               *)
UsedSetStands ==
  [][used # {} /\ stored' # stored => \E s \in late : session'[s] # session[s]]_vars

(* "The model proposes ... It cannot decide whether its proposal executes" *)
(* (docs/AUTONOMY_POLICY.md): whatever a model says and however sure it    *)
(* is, a column is applied only to a target it is an alias of.             *)
AppliedNameIsKnown ==
  \A p \in Applied : p[1].rows[p[2]].target \in AliasOf(p[2])

(* "persistent invalid output or provider outages degrade ... to labelled  *)
(* deterministic proposals that require human review" (docs, checklist     *)
(* 22, 23); "ambiguous dates ... pause the workflow" (AUTONOMY_POLICY.md). *)
DegradedNeedsHuman ==
  \A p \in Applied :
    LET m == p[1].rows[p[2]]
    IN  m.by \in {"alias", "model", "retry", "fallback"} /\ ~(p[2] \in Ambiguous /\ m.target \in DateTarget)

(* A named answer is stored for the column it names, in whatever order the *)
(* model lists them.                                                       *)
NamedAnswersStay == \A g \in stored : \A c \in Column : g.rows[c].about \in {c, NoName}

(* "... rather than terminating the workflow" (docs, checklist 22): every  *)
(* generation ends with proposals, whatever the providers do.              *)
EveryGenerationEnds ==
  \A s \in Session : session[s].pc = "asking" ~> session[s].pc \in {"done", "lost"}
=============================================================================
