----------------------------- MODULE Reconcile -----------------------------
(***************************************************************************)
(* From the rows of the source files to the records of a migration:        *)
(* clean_record and reconcile_records of backend/app/cleaning/service.py,  *)
(* validation_errors of validation/employee.py, and the loop of transform  *)
(* (api/records.py) around them.                                           *)
(*                                                                         *)
(* The rows are taken in the order of the files and of the rows in them.   *)
(* A row starts a record, is merged into the record of its identity, or    *)
(* contradicts that record and is set beside it.                           *)
(*                                                                         *)
(* A row has its two identity fields and one date; the other fields go     *)
(* through the steps that the address goes through.                        *)
(***************************************************************************)
EXTENDS Integers, FiniteSets, Sequences, SequencesExt

CONSTANTS
  Ids,      \* spellings of identifiers in the cells
  Emails,   \* spellings of addresses
  Blank,    \* an empty cell, and what cleaning makes of one
  Normal,   \* _transform of a spelling: a value or Blank
  Folded,   \* str and casefold of a value
  Dates,    \* what stands in the cells of the date column
  Days,     \* days of a month, in a leap year or not
  MaxRows   \* bound: rows in all the files

TextField == {"employee_id", "email"}
Field == TextField \cup {"hire_date"}

(* `form` is how a date is written, `first` and `second` what stands where *)
(* a day or a month may; in an ISO date first the month, in a named one    *)
(* first the day, in a slash date nobody knows.                            *)
DateCells == [form : {"iso", "named", "slash", "typed", "free"},
              first : Nat, second : Nat, leap : BOOLEAN]

Value == {Normal[t] : t \in Ids \cup Emails}

ASSUME TextAssumption ==
  /\ DOMAIN Normal = Ids \cup Emails
  /\ Value \ {Blank} \subseteq DOMAIN Folded
  /\ \A v \in Value \ {Blank} : Folded[v] # Blank \* only the empty string folds to nothing
ASSUME DateAssumption == Dates \subseteq DateCells /\ Days \in [BOOLEAN -> [1..12 -> 28..31]]
ASSUME BlankAssumption == Blank \notin Ids \cup Emails /\ Blank \notin Dates
ASSUME BoundAssumption == MaxRows \in Nat

VARIABLES
  rows,       \* the cells of the files, fixed in Init
  next,       \* the row the loop is at
  merged,     \* the records so far
  index,      \* identity -> position of its record in merged
  conflicts,  \* positions of records that contradict one
  status      \* transformed_records.status, <<>> before they are written

vars == <<rows, next, merged, index, conflicts, status>>

Rows == [employee_id : Ids \cup {Blank}, email : Emails \cup {Blank},
         hire_date : Dates \cup {Blank}]

(* Type invariant. *)
TypeOK ==
  /\ next \in 1..(Len(rows) + 1)
  /\ \A i \in DOMAIN merged :
       /\ merged[i].sources \subseteq 1..(next - 1)
       /\ merged[i].values.employee_id \in Value \cup {Blank}
       /\ merged[i].values.email \in Value \cup {Blank}
       /\ merged[i].values.hire_date \in DateCells \cup {Blank}
  /\ \A k \in DOMAIN index : index[k] \in DOMAIN merged
  /\ conflicts \subseteq DOMAIN merged
  /\ \A i \in DOMAIN status : status[i] \in {"VALID", "ESCALATION"}

Init ==
  /\ rows \in UNION {[1..n -> Rows] : n \in 1..MaxRows}
  /\ next = 1
  /\ merged = <<>>
  /\ index = <<>>
  /\ conflicts = {}
  /\ status = <<>>

----------------------------------------------------------------------------
(* clean_record *)

IsDay(month, day, leap) == month \in 1..12 /\ 1 <= day /\ day <= Days[leap][month]

Iso(month, day, leap) == [form |-> "iso", first |-> month, second |-> day, leap |-> leap]

ReadDayFirst(d) == \* mutant: day first unless that is no date
  IF IsDay(d.second, d.first, d.leap) THEN Iso(d.second, d.first, d.leap)
  ELSE IF IsDay(d.first, d.second, d.leap) THEN Iso(d.first, d.second, d.leap)
  ELSE d

(* A slash date is read day first if the first number is no month or both  *)
(* are the same, else month first if the second is no month; what has two  *)
(* readings, or none, stays as it is.                                      *)
ReadSlash(d) ==
  IF d.first > 12 \/ d.first = d.second
  THEN IF IsDay(d.second, d.first, d.leap) THEN Iso(d.second, d.first, d.leap) ELSE d
  ELSE IF d.second > 12 /\ IsDay(d.first, d.second, d.leap)
  THEN Iso(d.first, d.second, d.leap)
  ELSE d

(* _transform of a date *)
CleanDate(d) ==
  CASE d.form = "slash" -> ReadSlash(d)
    [] d.form = "named" /\ IsDay(d.second, d.first, d.leap) -> Iso(d.second, d.first, d.leap)
    [] d.form = "typed" -> Iso(d.first, d.second, d.leap)
    [] OTHER -> d

CleanText(t) == IF t = Blank THEN Blank ELSE Normal[t]

Cleaned(row) ==
  [employee_id |-> CleanText(row.employee_id),
   email |-> CleanText(row.email),
   hire_date |-> IF row.hire_date = Blank THEN Blank ELSE CleanDate(row.hire_date)]

(* validation_errors: both identity fields are there, the date is one of   *)
(* the calendar.                                                           *)
IsDate(v) == v # Blank /\ v.form = "iso" /\ IsDay(v.first, v.second, v.leap)
Errors(record) == {f \in TextField : record[f] = Blank}
                    \cup {f \in {"hire_date"} : ~IsDate(record[f])}

----------------------------------------------------------------------------
(* reconcile_records *)

KeyAsSpelled(record) == IF record.employee_id # Blank THEN record.employee_id \* mutant: no casefold
                        ELSE record.email

(* The identifier, or else the address, up to letter case. *)
Key(record) == IF record.employee_id # Blank THEN Folded[record.employee_id]
               ELSE IF record.email # Blank THEN Folded[record.email]
               ELSE Blank

Disagree(one, other) ==
  \E f \in Field : one[f] # Blank /\ other[f] # Blank /\ one[f] # other[f]

Overwritten(values, record) == record \* mutant: the later row wins, blanks included

Filled(values, record) ==
  [f \in Field |-> IF values[f] = Blank THEN record[f] ELSE values[f]]

Current == Cleaned(rows[next])
Found == Key(Current) \in DOMAIN index
ContradictsFirst == \* mutant: against the row that started the record, not what was merged
  LET p == index[Key(Current)]
  IN  Disagree(Cleaned(rows[CHOOSE i \in merged[p].sources : \A j \in merged[p].sources : i <= j]),
               Current)

Contradicts == Disagree(merged[index[Key(Current)]].values, Current)

Advance == next <= Len(rows) /\ next' = next + 1 /\ UNCHANGED <<rows, status>>

(* What is found by an identity; a row without one is not found. *)
Indexed(key, position) ==
  IF key = Blank THEN index
  ELSE [k \in DOMAIN index \cup {key} |-> IF k = key THEN position ELSE index[k]]

(* clone *)
Append1 == merged' = Append(merged, [values |-> Current, sources |-> {next}])

StartRecordAtRow == \* mutant: the index holds the row's number, not its record's
  /\ Advance
  /\ ~Found
  /\ Append1
  /\ index' = Indexed(Key(Current), next)
  /\ UNCHANGED conflicts

(* The first row of an identity, or a row without one, which none finds    *)
(* again.                                                                  *)
StartRecord ==
  /\ Advance
  /\ ~Found
  /\ Append1
  /\ index' = Indexed(Key(Current), Len(merged) + 1)
  /\ UNCHANGED conflicts

(* A row that contradicts the record of its identity: a record of its own, *)
(* which later rows do not find.                                           *)
SetBeside ==
  /\ Advance
  /\ Found /\ Contradicts
  /\ Append1
  /\ conflicts' = conflicts \cup {Len(merged) + 1}
  /\ UNCHANGED index

MergeUncounted == \* mutant: the row is not kept as a source
  /\ Advance
  /\ Found /\ ~Contradicts
  /\ merged' = [merged EXCEPT ![index[Key(Current)]].values = Filled(@, Current)]
  /\ UNCHANGED <<index, conflicts>>

(* A row that agrees fills what is blank. *)
Merge ==
  /\ Advance
  /\ Found /\ ~Contradicts
  /\ merged' = [merged EXCEPT ![index[Key(Current)]] =
                  [values |-> Filled(@.values, Current), sources |-> @.sources \cup {next}]]
  /\ UNCHANGED <<index, conflicts>>

(* transform: what has errors or contradicts a record is escalated. *)
Judge(i) ==
  IF Errors(merged[i].values) # {} \/ i \in conflicts THEN "ESCALATION" ELSE "VALID"

Write ==
  /\ next = Len(rows) + 1
  /\ status = <<>>
  /\ status' = [i \in DOMAIN merged |-> Judge(i)]
  /\ UNCHANGED <<rows, next, merged, index, conflicts>>

Next == StartRecord \/ SetBeside \/ Merge \/ Write

Spec == Init /\ [][Next]_vars

----------------------------------------------------------------------------
(* Properties.  They speak of the rows, not of the index.                  *)

Seen == 1..(next - 1)
Says(i) == Cleaned(rows[i])
NameOf(v) == IF v.employee_id = Blank THEN v.email ELSE v.employee_id
SamePerson(i, j) == /\ NameOf(Says(i)) # Blank /\ NameOf(Says(j)) # Blank
                    /\ Folded[NameOf(Says(i))] = Folded[NameOf(Says(j))]
RecordsOf(i) == {p \in DOMAIN merged : \E j \in merged[p].sources : SamePerson(i, j)}

(* Every row is a source of exactly one record: none is dropped or counted *)
(* twice, whatever is merged or set beside (docs, FR9: provenance).        *)
EveryRowOnce ==
  \A i \in Seen : Cardinality({p \in DOMAIN merged : i \in merged[p].sources}) = 1

(* A record says what its rows say: no value of a row is lost in a merge   *)
(* and none comes from nowhere.                                            *)
ValuesAreTheRows ==
  \A p \in DOMAIN merged : \A f \in Field :
    {merged[p].values[f]} \ {Blank} = {Says(i)[f] : i \in merged[p].sources} \ {Blank}

(* An identity has exactly one record that is not in conflict, and none    *)
(* but that one can be VALID: the review starts from there                 *)
(* (Review.Datasets), and no two records that are pushed without a         *)
(* decision share an identity.                                             *)
OneRecordPerIdentity ==
  \A i \in Seen : SamePerson(i, i) =>
    LET records == RecordsOf(i)
    IN  /\ Cardinality(records \ conflicts) = 1
        /\ {p \in records \cap DOMAIN status : status[p] = "VALID"} \cap conflicts = {}

(* An identity is in conflict iff two of its rows disagree: in whatever    *)
(* order the files and rows come (service.py:94), a contradiction is found *)
(* and rows that agree are not set apart.                                  *)
ConflictIsDisagreement ==
  \A i \in Seen : SamePerson(i, i) =>
    (RecordsOf(i) \cap conflicts # {}
       <=> \E j, k \in Seen : SamePerson(i, j) /\ SamePerson(i, k) /\ Disagree(Says(j), Says(k)))

(* "Ambiguous date is not guessed" (service.py:57): a slash date is        *)
(* converted exactly when the calendar allows one reading of it, and then  *)
(* to that one.                                                            *)
Readings(d) == {m \in {<<d.first, d.second>>, <<d.second, d.first>>} : IsDay(m[1], m[2], d.leap)}
NoDateIsGuessed ==
  \A i \in DOMAIN rows : rows[i].hire_date \in Dates /\ rows[i].hire_date.form = "slash" =>
    LET d == rows[i].hire_date
        v == Says(i).hire_date
    IN  IF Cardinality(Readings(d)) = 1
        THEN v.form = "iso" /\ Readings(d) = {<<v.first, v.second>>}
        ELSE v = d
=============================================================================
