-------------------------- MODULE ReconcileProofs --------------------------
(* Proofs about cleaning and reconciliation, for files of any length, any  *)
(* spellings and any way of cleaning and folding them.                     *)
EXTENDS Reconcile, FiniteSetTheorems, SequenceTheorems, TLAPS

----------------------------------------------------------------------------
(* The invariant the loop keeps *)

KeyOf(i) == Key(Says(i))
Sources(p) == merged[p].sources

(* Every row before `next` is in a record, and in no two. *)
RowsAreKept ==
  /\ \A i \in Seen : \E p \in DOMAIN merged : i \in Sources(p)
  /\ \A p, q \in DOMAIN merged : p # q => Sources(p) \cap Sources(q) = {}

(* A field of a record is what each of its rows that has the field says,   *)
(* and is blank only if none has it.                                       *)
ValuesAreSaid ==
  \A p \in DOMAIN merged : \A f \in Field :
    /\ merged[p].values[f] # Blank => \E i \in Sources(p) : Says(i)[f] = merged[p].values[f]
    /\ \A i \in Sources(p) : Says(i)[f] # Blank => Says(i)[f] = merged[p].values[f]

(* The index has every identity seen so far, at the record that holds all  *)
(* the rows of it but the ones set beside.                                 *)
IndexIsRight ==
  /\ \A i \in Seen : KeyOf(i) # Blank => KeyOf(i) \in DOMAIN index
  /\ \A k \in DOMAIN index :
       /\ k # Blank
       /\ index[k] \in DOMAIN merged \ conflicts
       /\ Sources(index[k]) # {}
       /\ \A i \in Sources(index[k]) : KeyOf(i) = k
  /\ \A p \in DOMAIN merged \ conflicts : \A i \in Sources(p) :
       KeyOf(i) # Blank => index[KeyOf(i)] = p

(* A record set beside is one row, which disagrees with another of its     *)
(* identity.                                                               *)
ConflictsAreReal ==
  \A p \in conflicts : \A i \in Sources(p) :
    KeyOf(i) # Blank /\ \E j \in Seen : KeyOf(j) = KeyOf(i) /\ Disagree(Says(j), Says(i))

(* What is written is what the loop has come to. *)
WrittenAtTheEnd ==
  \/ status = <<>>
  \/ next = Len(rows) + 1 /\ status = [p \in DOMAIN merged |-> Judge(p)]

Values == [Field -> Value \cup DateCells \cup {Blank}]
Records == [values : Values, sources : SUBSET Nat]

Shape ==
  /\ rows \in Seq(Rows)
  /\ next \in 1..(Len(rows) + 1)
  /\ merged \in Seq(Records)
  /\ \A p \in DOMAIN merged : Sources(p) \subseteq Seen
  /\ conflicts \subseteq DOMAIN merged

IInv ==
  /\ Shape
  /\ RowsAreKept
  /\ ValuesAreSaid
  /\ IndexIsRight
  /\ ConflictsAreReal
  /\ WrittenAtTheEnd

----------------------------------------------------------------------------
(* Rows *)

LEMMA DatesAreCells ==
  ASSUME NEW d \in DateCells PROVE CleanDate(d) \in DateCells
  BY DEF CleanDate, ReadSlash, Iso, IsDay, DateCells

LEMMA CleanedIsTyped ==
  ASSUME NEW r \in Rows
  PROVE  /\ Cleaned(r) \in Values
         /\ Cleaned(r).employee_id \in Value \cup {Blank}
         /\ Cleaned(r).email \in Value \cup {Blank}
         /\ Cleaned(r).hire_date \in DateCells \cup {Blank}
<1>1. \A t \in Ids \cup Emails \cup {Blank} : CleanText(t) \in Value \cup {Blank}
  BY DEF CleanText, Value
<1>2. Cleaned(r).employee_id \in Value \cup {Blank} /\ Cleaned(r).email \in Value \cup {Blank}
  BY <1>1 DEF Cleaned, Rows
<1>3. Cleaned(r).hire_date \in DateCells \cup {Blank}
  BY DatesAreCells, DateAssumption DEF Cleaned, Rows
<1>4. Cleaned(r) \in Values
  BY <1>2, <1>3 DEF Cleaned, Values, Field, TextField
<1>. QED BY <1>2, <1>3, <1>4

(* Two rows are of one person exactly when reconcile_records gives them    *)
(* the same key, and it gives no key to what names nobody.                 *)
LEMMA KeysArePersons ==
  ASSUME NEW i, NEW j, rows[i] \in Rows, rows[j] \in Rows
  PROVE  SamePerson(i, j) <=> KeyOf(i) # Blank /\ KeyOf(j) = KeyOf(i)
<1>1. \A v \in Value \cup {Blank} : v # Blank => Folded[v] # Blank
  BY TextAssumption
<1>2. /\ Says(i).employee_id \in Value \cup {Blank} /\ Says(i).email \in Value \cup {Blank}
      /\ Says(j).employee_id \in Value \cup {Blank} /\ Says(j).email \in Value \cup {Blank}
  BY CleanedIsTyped DEF Says
<1>. QED BY <1>1, <1>2 DEF SamePerson, KeyOf, Key, NameOf

LEMMA RowsAreRows ==
  ASSUME Shape PROVE \A i \in Seen : rows[i] \in Rows /\ i \in DOMAIN rows
  BY DEF Shape, Seen

----------------------------------------------------------------------------
(* The invariant gives the properties *)

LEMMA InvGivesTyping == IInv => TypeOK
<1> SUFFICES ASSUME IInv PROVE TypeOK
  OBVIOUS
<1>1. \A p \in DOMAIN merged : merged[p] \in Records
  BY DEF IInv, Shape
<1>2. ASSUME NEW p \in DOMAIN merged
      PROVE  /\ merged[p].values.employee_id \in Value \cup {Blank}
             /\ merged[p].values.email \in Value \cup {Blank}
             /\ merged[p].values.hire_date \in DateCells \cup {Blank}
  <2>1. \A i \in Sources(p) : rows[i] \in Rows
    BY RowsAreRows DEF IInv, Shape
  <2>2. \A i \in Sources(p) : /\ Says(i)["employee_id"] \in Value \cup {Blank}
                              /\ Says(i)["email"] \in Value \cup {Blank}
                              /\ Says(i)["hire_date"] \in DateCells \cup {Blank}
    BY <2>1, CleanedIsTyped DEF Says
  <2>3. \A f \in Field : merged[p].values[f] # Blank =>
                            \E i \in Sources(p) : Says(i)[f] = merged[p].values[f]
    BY DEF IInv, ValuesAreSaid
  <2>4. {"employee_id", "email", "hire_date"} \subseteq Field
    BY DEF Field, TextField
  <2>. QED BY <2>2, <2>3, <2>4
<1>3. \A i \in DOMAIN status : status[i] \in {"VALID", "ESCALATION"}
  BY DEF IInv, WrittenAtTheEnd, Judge
<1>4. \A k \in DOMAIN index : index[k] \in DOMAIN merged
  BY DEF IInv, IndexIsRight
<1>. QED BY <1>2, <1>3, <1>4 DEF IInv, Shape, TypeOK, Sources, Seen

LEMMA OneOnly ==
  ASSUME NEW S, NEW x \in S, \A y \in S : y = x PROVE Cardinality(S) = 1
<1>1. S = {x}
  OBVIOUS
<1>. QED BY <1>1, FS_Singleton

LEMMA InvGivesEveryRowOnce == IInv => EveryRowOnce
<1> SUFFICES ASSUME IInv, NEW i \in Seen
             PROVE  Cardinality({p \in DOMAIN merged : i \in merged[p].sources}) = 1
  BY DEF EveryRowOnce
<1>1. PICK p \in DOMAIN merged : i \in merged[p].sources
  BY DEF IInv, RowsAreKept, Sources
<1>2. \A q \in DOMAIN merged : i \in merged[q].sources => q = p
  BY <1>1 DEF IInv, RowsAreKept, Sources
<1>. QED BY <1>1, <1>2, OneOnly

LEMMA InvGivesValues == IInv => ValuesAreTheRows
  BY DEF IInv, RowsAreKept, ValuesAreSaid, ValuesAreTheRows, Sources

LEMMA InvGivesOneRecord == IInv => OneRecordPerIdentity
<1> SUFFICES ASSUME IInv, NEW i \in Seen, SamePerson(i, i)
             PROVE  /\ Cardinality(RecordsOf(i) \ conflicts) = 1
                    /\ {p \in RecordsOf(i) \cap DOMAIN status : status[p] = "VALID"} \cap conflicts = {}
  BY DEF OneRecordPerIdentity
<1> DEFINE p == index[KeyOf(i)]
<1>1. \A j \in Seen : SamePerson(i, j) <=> KeyOf(i) # Blank /\ KeyOf(j) = KeyOf(i)
  BY RowsAreRows, KeysArePersons DEF IInv
<1>2. KeyOf(i) # Blank /\ KeyOf(i) \in DOMAIN index
  BY <1>1 DEF IInv, IndexIsRight
<1>3. /\ p \in DOMAIN merged \ conflicts
      /\ Sources(p) # {} /\ Sources(p) \subseteq Seen
      /\ \A j \in Sources(p) : KeyOf(j) = KeyOf(i)
  BY <1>2 DEF IInv, IndexIsRight, Shape
<1>4. p \in RecordsOf(i) \ conflicts
  BY <1>1, <1>2, <1>3 DEF RecordsOf, Sources
<1>5. ASSUME NEW q \in RecordsOf(i) \ conflicts PROVE q = p
  <2>1. PICK j \in Sources(q) : SamePerson(i, j)
    BY DEF RecordsOf, Sources
  <2>2. KeyOf(j) = KeyOf(i) /\ q \in DOMAIN merged
    BY <1>1, <2>1 DEF IInv, Shape, RecordsOf
  <2>. QED BY <1>2, <2>2 DEF IInv, IndexIsRight
<1>6. Cardinality(RecordsOf(i) \ conflicts) = 1
  BY <1>4, <1>5, OneOnly
<1>7. \A q \in DOMAIN status : status[q] = "VALID" => q \notin conflicts
  BY DEF IInv, WrittenAtTheEnd, Judge
<1>. QED BY <1>6, <1>7

LEMMA InvGivesConflict == IInv => ConflictIsDisagreement
<1> SUFFICES ASSUME IInv, NEW i \in Seen, SamePerson(i, i)
             PROVE  RecordsOf(i) \cap conflicts # {}
                      <=> \E j, k \in Seen : /\ SamePerson(i, j) /\ SamePerson(i, k)
                                             /\ Disagree(Says(j), Says(k))
  BY DEF ConflictIsDisagreement
<1>1. \A j \in Seen : SamePerson(i, j) <=> KeyOf(i) # Blank /\ KeyOf(j) = KeyOf(i)
  BY RowsAreRows, KeysArePersons DEF IInv
<1>2. ASSUME NEW p \in RecordsOf(i), p \in conflicts
      PROVE  \E j, k \in Seen : SamePerson(i, j) /\ SamePerson(i, k) /\ Disagree(Says(j), Says(k))
  <2>1. PICK k \in Sources(p) : SamePerson(i, k)
    BY DEF RecordsOf, Sources
  <2>2. k \in Seen
    BY DEF IInv, Shape, RecordsOf
  <2>3. PICK j \in Seen : KeyOf(j) = KeyOf(k) /\ Disagree(Says(j), Says(k))
    BY <1>2, <2>1 DEF IInv, ConflictsAreReal
  <2>. QED BY <1>1, <2>1, <2>2, <2>3
<1>3. ASSUME NEW j \in Seen, NEW k \in Seen, SamePerson(i, j), SamePerson(i, k),
             Disagree(Says(j), Says(k)), RecordsOf(i) \cap conflicts = {}
      PROVE  FALSE
  <2>1. \A m \in Seen : SamePerson(i, m) => m \in Sources(index[KeyOf(i)])
    <3> SUFFICES ASSUME NEW m \in Seen, SamePerson(i, m) PROVE m \in Sources(index[KeyOf(i)])
      OBVIOUS
    <3>1. PICK p \in DOMAIN merged : m \in Sources(p)
      BY DEF IInv, RowsAreKept
    <3>2. p \notin conflicts
      BY <1>3, <3>1 DEF RecordsOf, Sources
    <3>. QED BY <1>1, <3>1, <3>2 DEF IInv, IndexIsRight
  <2>2. KeyOf(i) # Blank /\ index[KeyOf(i)] \in DOMAIN merged
    BY <1>1 DEF IInv, IndexIsRight
  <2>3. PICK f \in Field : Says(j)[f] # Blank /\ Says(k)[f] # Blank /\ Says(j)[f] # Says(k)[f]
    BY <1>3 DEF Disagree
  <2>. QED BY <1>3, <2>1, <2>2, <2>3 DEF IInv, ValuesAreSaid
<1>. QED BY <1>2, <1>3

----------------------------------------------------------------------------
(* Steps *)

(* What a row's turn leaves as it was. *)
LEMMA Turn ==
  ASSUME IInv, Advance
  PROVE  /\ next \in DOMAIN rows /\ next \in Nat /\ next \notin Seen /\ Seen' = Seen \cup {next}
         /\ Current = Says(next) /\ Says(next) \in Values
         /\ \A i : Says(i)' = Says(i) /\ KeyOf(i)' = KeyOf(i)
         /\ rows' = rows /\ rows \in Seq(Rows) /\ next' \in 1..(Len(rows) + 1)
         /\ Key(Current) = KeyOf(next)
         /\ WrittenAtTheEnd'
<1>1. /\ next \in DOMAIN rows /\ next \in Nat /\ next \notin Seen /\ Seen' = Seen \cup {next}
      /\ rows' = rows /\ rows \in Seq(Rows) /\ next' \in 1..(Len(rows) + 1)
  BY DEF IInv, Shape, Advance, Seen
<1>2. Current = Says(next) /\ Key(Current) = KeyOf(next)
  BY DEF Current, Says, KeyOf
<1>3. Says(next) \in Values
  BY <1>1, CleanedIsTyped, ElementOfSeq DEF Says
<1>4. \A i : Says(i)' = Says(i)
  BY <1>1 DEF Says
<1>5. \A i : KeyOf(i)' = KeyOf(i)
  BY <1>4 DEF KeyOf
<1>6. WrittenAtTheEnd'
  BY DEF IInv, Shape, WrittenAtTheEnd, Advance
<1>. QED BY <1>1, <1>2, <1>3, <1>4, <1>5, <1>6

(* A record for the row alone, which takes the next position. *)
LEMMA Appending ==
  ASSUME IInv, Advance, Append1
  PROVE  /\ merged' \in Seq(Records)
         /\ DOMAIN merged' = DOMAIN merged \cup {Len(merged) + 1}
         /\ Len(merged) + 1 \notin DOMAIN merged
         /\ \A p \in DOMAIN merged : merged'[p] = merged[p] /\ Sources(p)' = Sources(p)
         /\ merged'[Len(merged) + 1].values = Says(next)
         /\ merged'[Len(merged) + 1].sources = {next}
<1> DEFINE new == [values |-> Current, sources |-> {next}]
<1>1. new \in Records
  BY Turn DEF Records
<1>2. merged \in Seq(Records) /\ merged' = Append(merged, new)
  BY DEF IInv, Shape, Append1
<1>3. new.values = Says(next) /\ new.sources = {next}
  BY Turn
<1> HIDE DEF new
<1>. QED BY <1>1, <1>2, <1>3, AppendProperties DEF Sources

LEMMA AppendingKeeps ==
  ASSUME IInv, Advance, Append1
  PROVE  RowsAreKept' /\ ValuesAreSaid' /\ \A p \in DOMAIN merged' : Sources(p)' \subseteq Seen'
<1> DEFINE n == Len(merged) + 1
<1>1. \A p \in DOMAIN merged : Sources(p) \subseteq Seen
  BY DEF IInv, Shape
<1>2. RowsAreKept'
  <2>1. \A i \in Seen' : \E p \in DOMAIN merged' : i \in Sources(p)'
    BY Turn, Appending DEF IInv, RowsAreKept, Sources
  <2>2. ASSUME NEW p \in DOMAIN merged', NEW q \in DOMAIN merged', p # q
        PROVE  Sources(p)' \cap Sources(q)' = {}
    BY <1>1, <2>2, Turn, Appending DEF IInv, RowsAreKept, Sources
  <2>. QED BY <2>1, <2>2 DEF RowsAreKept
<1>3. ValuesAreSaid'
  <2> SUFFICES ASSUME NEW p \in DOMAIN merged', NEW f \in Field
               PROVE  /\ merged'[p].values[f] # Blank =>
                           \E i \in Sources(p)' : Says(i)[f] = merged'[p].values[f]
                      /\ \A i \in Sources(p)' : Says(i)[f] # Blank => Says(i)[f] = merged'[p].values[f]
    BY Turn DEF ValuesAreSaid
  <2>1. CASE p \in DOMAIN merged
    BY <2>1, Appending DEF IInv, ValuesAreSaid
  <2>2. CASE p = n
    BY <2>2, Appending DEF Sources
  <2>. QED BY <2>1, <2>2, Appending
<1>4. \A p \in DOMAIN merged' : Sources(p)' \subseteq Seen'
  BY <1>1, Turn, Appending DEF Sources
<1>. QED BY <1>2, <1>3, <1>4

LEMMA Starting ==
  ASSUME IInv, StartRecord
  PROVE  IInv'
<1> DEFINE n == Len(merged) + 1
           k == KeyOf(next)
<1>1. Advance /\ Append1 /\ conflicts' = conflicts /\ k \notin DOMAIN index
  BY Turn DEF StartRecord, Found
<1>2. \A p \in conflicts : p \in DOMAIN merged
  BY DEF IInv, Shape
<1>3. Shape'
  BY <1>1, <1>2, Turn, Appending, AppendingKeeps DEF Shape
<1>4. /\ DOMAIN index' = IF k = Blank THEN DOMAIN index ELSE DOMAIN index \cup {k}
      /\ \A j \in DOMAIN index : index'[j] = index[j]
      /\ k # Blank => index'[k] = n
  BY <1>1, Turn DEF StartRecord, Indexed
<1>5. ConflictsAreReal'
  <2> SUFFICES ASSUME NEW p \in conflicts, NEW i \in Sources(p)'
               PROVE  KeyOf(i) # Blank /\ \E j \in Seen' : KeyOf(j) = KeyOf(i) /\ Disagree(Says(j), Says(i))
    BY <1>1, Turn DEF ConflictsAreReal, Disagree
  <2>1. i \in Sources(p)
    BY <1>1, <1>2, Appending
  <2>. QED BY <1>1, <2>1, Turn DEF IInv, ConflictsAreReal
<1>6. IndexIsRight'
  <2>1. \A i \in Seen' : KeyOf(i) # Blank => KeyOf(i) \in DOMAIN index'
    BY <1>1, <1>4, Turn DEF IInv, IndexIsRight
  <2>2. ASSUME NEW j \in DOMAIN index'
        PROVE  /\ j # Blank
               /\ index'[j] \in DOMAIN merged' \ conflicts'
               /\ merged'[index'[j]].sources # {}
               /\ \A i \in merged'[index'[j]].sources : KeyOf(i) = j
    <3>1. CASE j \in DOMAIN index
      <4>1. index[j] \in DOMAIN merged /\ index'[j] = index[j]
        BY <1>4, <3>1 DEF IInv, IndexIsRight
      <4>2. merged'[index'[j]].sources = Sources(index[j])
        BY <1>1, <4>1, Appending DEF Sources
      <4>. QED BY <1>1, <3>1, <4>1, <4>2, Appending DEF IInv, IndexIsRight
    <3>2. CASE j \notin DOMAIN index
      <4>1. j = k /\ k # Blank /\ index'[j] = n
        BY <1>4, <3>2
      <4>2. merged'[index'[j]].sources = {next}
        BY <1>1, <4>1, Appending DEF Sources
      <4>. QED BY <1>1, <1>2, <4>1, <4>2, Appending
    <3>. QED BY <3>1, <3>2
  <2>3. ASSUME NEW p \in DOMAIN merged' \ conflicts', NEW i \in Sources(p)', KeyOf(i) # Blank
        PROVE  index'[KeyOf(i)] = p
    <3>1. CASE p \in DOMAIN merged
      <4>1. i \in Sources(p) /\ p \in DOMAIN merged \ conflicts /\ i \in Seen
        BY <1>1, <3>1, Appending DEF IInv, Shape
      <4>. QED BY <1>4, <2>3, <4>1 DEF IInv, IndexIsRight
    <3>2. CASE p = n
      BY <1>1, <1>4, <2>3, <3>2, Appending DEF Sources
    <3>. QED BY <1>1, <3>1, <3>2, Appending
  <2>. QED BY <1>1, <2>1, <2>2, <2>3, Turn DEF IndexIsRight, Sources
<1>. QED BY <1>1, <1>3, <1>5, <1>6, Turn, AppendingKeeps DEF IInv

LEMMA Setting ==
  ASSUME IInv, SetBeside
  PROVE  IInv'
<1> DEFINE n == Len(merged) + 1
           k == KeyOf(next)
<1>1. /\ Advance /\ Append1 /\ conflicts' = conflicts \cup {n} /\ index' = index
      /\ k \in DOMAIN index /\ Disagree(merged[index[k]].values, Says(next))
  BY Turn DEF SetBeside, Found, Contradicts
<1>2. \A p \in conflicts : p \in DOMAIN merged
  BY DEF IInv, Shape
<1>3. Shape'
  BY <1>1, <1>2, Turn, Appending, AppendingKeeps DEF Shape
<1>4. /\ k # Blank /\ index[k] \in DOMAIN merged
      /\ \A i \in Sources(index[k]) : KeyOf(i) = k /\ i \in Seen
  BY <1>1 DEF IInv, IndexIsRight, Shape
<1>5. \E j \in Seen : KeyOf(j) = k /\ Disagree(Says(j), Says(next))
  <2>1. PICK f \in Field : /\ merged[index[k]].values[f] # Blank /\ Says(next)[f] # Blank
                           /\ merged[index[k]].values[f] # Says(next)[f]
    BY <1>1 DEF Disagree
  <2>2. PICK j \in Sources(index[k]) : Says(j)[f] = merged[index[k]].values[f]
    BY <1>4, <2>1 DEF IInv, ValuesAreSaid
  <2>. QED BY <1>4, <2>1, <2>2 DEF Disagree
<1>6. ConflictsAreReal'
  <2> SUFFICES ASSUME NEW p \in conflicts', NEW i \in Sources(p)'
               PROVE  KeyOf(i) # Blank /\ \E j \in Seen' : KeyOf(j) = KeyOf(i) /\ Disagree(Says(j), Says(i))
    BY <1>1, Turn DEF ConflictsAreReal, Disagree
  <2>1. CASE p \in conflicts
    <3>1. i \in Sources(p)
      BY <1>1, <1>2, <2>1, Appending
    <3>. QED BY <1>1, <2>1, <3>1, Turn DEF IInv, ConflictsAreReal
  <2>2. CASE p = n
    BY <1>1, <1>4, <1>5, <2>2, Turn, Appending DEF Sources
  <2>. QED BY <1>1, <2>1, <2>2
<1>7. IndexIsRight'
  <2>1. \A i \in Seen' : KeyOf(i) # Blank => KeyOf(i) \in DOMAIN index
    BY <1>1, Turn DEF IInv, IndexIsRight
  <2>2. ASSUME NEW j \in DOMAIN index
        PROVE  /\ j # Blank
               /\ index[j] \in DOMAIN merged' \ conflicts'
               /\ merged'[index[j]].sources # {}
               /\ \A i \in merged'[index[j]].sources : KeyOf(i) = j
    <3>1. index[j] \in DOMAIN merged \ conflicts
      BY DEF IInv, IndexIsRight
    <3>2. merged'[index[j]].sources = Sources(index[j])
      BY <1>1, <3>1, Appending DEF Sources
    <3>. QED BY <1>1, <3>1, <3>2, Appending DEF IInv, IndexIsRight
  <2>3. ASSUME NEW p \in DOMAIN merged' \ conflicts', NEW i \in Sources(p)', KeyOf(i) # Blank
        PROVE  index[KeyOf(i)] = p
    BY <1>1, <2>3, Appending DEF IInv, IndexIsRight
  <2>. QED BY <1>1, <2>1, <2>2, <2>3, Turn DEF IndexIsRight, Sources
<1>. QED BY <1>1, <1>3, <1>6, <1>7, Turn, AppendingKeeps DEF IInv

(* A row that fills the record of its identity. *)
LEMMA Filling ==
  ASSUME IInv, Merge
  PROVE  LET p == index[KeyOf(next)]
         IN  /\ merged' \in Seq(Records) /\ DOMAIN merged' = DOMAIN merged
             /\ \A q \in DOMAIN merged : q # p => merged'[q] = merged[q]
             /\ \A f \in Field : merged'[p].values[f] =
                  IF merged[p].values[f] = Blank THEN Says(next)[f] ELSE merged[p].values[f]
             /\ merged'[p].sources = merged[p].sources \cup {next}
<1> DEFINE p == index[KeyOf(next)]
           new == [values |-> Filled(merged[p].values, Says(next)), sources |-> merged[p].sources \cup {next}]
<1>1. Advance /\ KeyOf(next) \in DOMAIN index
  BY Turn DEF Merge, Found
<1>2. p \in DOMAIN merged /\ merged \in Seq(Records)
  BY <1>1 DEF IInv, IndexIsRight, Shape
<1>3. merged[p].values \in Values /\ merged[p].sources \in SUBSET Nat
  <2> HIDE DEF p, new
  <2>1. merged[p] \in Records
    BY <1>2
  <2>. QED BY <2>1 DEF Records
<1>4. Filled(merged[p].values, Says(next)) \in Values
  BY <1>1, <1>3, Turn DEF Filled, Values
<1>5. new \in Records
  BY <1>1, <1>3, <1>4, Turn DEF Records
<1>6. merged' = [merged EXCEPT ![p] = new]
  BY <1>1, <1>2, Turn DEF Merge
<1>7. /\ new.sources = merged[p].sources \cup {next}
      /\ \A f \in Field : new.values[f] =
           IF merged[p].values[f] = Blank THEN Says(next)[f] ELSE merged[p].values[f]
  BY DEF Filled
<1> HIDE DEF new, p
<1>8. merged' \in Seq(Records) /\ DOMAIN merged' = DOMAIN merged
  BY <1>2, <1>5, <1>6, ExceptSeq
<1>9. merged'[p] = new /\ \A q \in DOMAIN merged : q # p => merged'[q] = merged[q]
  BY <1>2, <1>6
<1>. QED BY <1>7, <1>8, <1>9 DEF p

LEMMA Merging ==
  ASSUME IInv, Merge
  PROVE  IInv'
<1> DEFINE k == KeyOf(next)
           p0 == index[k]
<1>1. /\ Advance /\ UNCHANGED <<index, conflicts>> /\ k \in DOMAIN index
      /\ ~Disagree(merged[p0].values, Says(next))
  BY Turn DEF Merge, Found, Contradicts
<1>2. /\ k # Blank /\ p0 \in DOMAIN merged \ conflicts /\ Sources(p0) # {}
      /\ \A i \in Sources(p0) : KeyOf(i) = k
  BY <1>1 DEF IInv, IndexIsRight
<1>3. /\ merged' \in Seq(Records) /\ DOMAIN merged' = DOMAIN merged
      /\ \A q \in DOMAIN merged : q # p0 => merged'[q] = merged[q]
      /\ \A f \in Field : merged'[p0].values[f] =
           IF merged[p0].values[f] = Blank THEN Says(next)[f] ELSE merged[p0].values[f]
      /\ merged'[p0].sources = merged[p0].sources \cup {next}
  BY Filling
<1>4. \A p \in DOMAIN merged : Sources(p) \subseteq Seen /\ merged[p].sources \subseteq Seen
  BY DEF IInv, Shape, Sources
<1> HIDE DEF k, p0
<1>5. Shape'
  BY <1>1, <1>2, <1>3, <1>4, Turn DEF IInv, Shape, Sources
<1>6. RowsAreKept'
  <2>1. \A i \in Seen' : \E p \in DOMAIN merged' : i \in merged'[p].sources
    BY <1>1, <1>2, <1>3, Turn DEF IInv, RowsAreKept, Sources
  <2>2. ASSUME NEW p \in DOMAIN merged, NEW q \in DOMAIN merged, p # q
        PROVE  merged'[p].sources \cap merged'[q].sources = {}
    <3>1. merged[p].sources \cap merged[q].sources = {}
      BY <2>2 DEF IInv, RowsAreKept, Sources
    <3>. QED BY <1>1, <1>3, <1>4, <2>2, <3>1, Turn
  <2>. QED BY <1>3, <2>1, <2>2 DEF RowsAreKept, Sources
<1>7. ValuesAreSaid'
  <2> SUFFICES ASSUME NEW p \in DOMAIN merged, NEW f \in Field
               PROVE  /\ merged'[p].values[f] # Blank =>
                           \E i \in merged'[p].sources : Says(i)[f] = merged'[p].values[f]
                      /\ \A i \in merged'[p].sources : Says(i)[f] # Blank => Says(i)[f] = merged'[p].values[f]
    BY <1>1, <1>3, Turn DEF ValuesAreSaid, Sources
  <2>1. /\ merged[p].values[f] # Blank => \E i \in merged[p].sources : Says(i)[f] = merged[p].values[f]
        /\ \A i \in merged[p].sources : Says(i)[f] # Blank => Says(i)[f] = merged[p].values[f]
    BY DEF IInv, ValuesAreSaid, Sources
  <2>2. CASE p # p0
    BY <1>3, <2>1, <2>2
  <2>3. CASE p = p0
    <3>1. merged[p].values[f] # Blank /\ Says(next)[f] # Blank => Says(next)[f] = merged[p].values[f]
      BY <1>1, <2>3 DEF Disagree
    <3>. QED BY <1>3, <2>1, <2>3, <3>1
  <2>. QED BY <2>2, <2>3
<1>8. IndexIsRight'
  <2>1. \A i \in Seen' : KeyOf(i) # Blank => KeyOf(i) \in DOMAIN index
    BY <1>1, Turn DEF IInv, IndexIsRight, k
  <2>2. ASSUME NEW j \in DOMAIN index
        PROVE  /\ j # Blank
               /\ index[j] \in DOMAIN merged \ conflicts
               /\ merged'[index[j]].sources # {}
               /\ \A i \in merged'[index[j]].sources : KeyOf(i) = j
    <3>1. /\ j # Blank /\ index[j] \in DOMAIN merged \ conflicts
          /\ merged[index[j]].sources # {}
          /\ \A i \in merged[index[j]].sources : KeyOf(i) = j
      BY DEF IInv, IndexIsRight, Sources
    <3>2. CASE index[j] # p0
      BY <1>3, <3>1, <3>2
    <3>3. CASE index[j] = p0
      <4>1. KeyOf(next) = j
        BY <1>2, <3>1, <3>3 DEF Sources, k
      <4>. QED BY <1>3, <3>1, <3>3, <4>1
    <3>. QED BY <3>2, <3>3
  <2>3. ASSUME NEW p \in DOMAIN merged \ conflicts, NEW i \in merged'[p].sources, KeyOf(i) # Blank
        PROVE  index[KeyOf(i)] = p
    <3>1. CASE i \in merged[p].sources
      BY <2>3, <3>1 DEF IInv, IndexIsRight, Sources
    <3>2. CASE i \notin merged[p].sources
      BY <1>3, <3>2 DEF p0, k
    <3>. QED BY <3>1, <3>2
  <2>. QED BY <1>1, <1>3, <2>1, <2>2, <2>3, Turn DEF IndexIsRight, Sources
<1>9. ConflictsAreReal'
  <2> SUFFICES ASSUME NEW p \in conflicts, NEW i \in merged'[p].sources
               PROVE  KeyOf(i) # Blank /\ \E j \in Seen' : KeyOf(j) = KeyOf(i) /\ Disagree(Says(j), Says(i))
    BY <1>1, Turn DEF ConflictsAreReal, Disagree, Sources
  <2>1. i \in Sources(p)
    BY <1>2, <1>3 DEF IInv, Shape, Sources
  <2>. QED BY <1>1, <2>1, Turn DEF IInv, ConflictsAreReal
<1>. QED BY <1>1, <1>5, <1>6, <1>7, <1>8, <1>9, Turn DEF IInv

(* All of the invariant but what is written, where only that may change.   *)
LEMMA Keeping ==
  ASSUME IInv, UNCHANGED <<rows, next, merged, index, conflicts>>
  PROVE  Shape' /\ RowsAreKept' /\ ValuesAreSaid' /\ IndexIsRight' /\ ConflictsAreReal'
<1>1. UNCHANGED <<rows, next, merged, index, conflicts>>
  OBVIOUS
<1>2. \A i : Says(i)' = Says(i)
  BY <1>1 DEF Says
<1>3. \A i : KeyOf(i)' = KeyOf(i)
  BY <1>2 DEF KeyOf
<1>4. Seen' = Seen
  BY <1>1 DEF Seen
<1>5. Shape' /\ RowsAreKept'
  BY <1>1, <1>4 DEF IInv, Shape, RowsAreKept, Sources
<1>6. ValuesAreSaid'
  BY <1>1, <1>2 DEF IInv, ValuesAreSaid, Sources
<1>7. IndexIsRight'
  BY <1>1, <1>3, <1>4 DEF IInv, IndexIsRight, Sources
<1>8. ConflictsAreReal'
  BY <1>1, <1>2, <1>3, <1>4 DEF IInv, ConflictsAreReal, Sources, Disagree
<1>. QED BY <1>5, <1>6, <1>7, <1>8

LEMMA InitGivesInv == Init => IInv
<1> SUFFICES ASSUME Init PROVE IInv
  OBVIOUS
<1>1. rows \in Seq(Rows) /\ Len(rows) \in Nat
  <2>1. PICK n \in 1..MaxRows : rows \in [1..n -> Rows]
    BY DEF Init
  <2>. QED BY <2>1, BoundAssumption
<1>2. /\ Seen = {} /\ next \in 1..(Len(rows) + 1)
      /\ merged = <<>> /\ DOMAIN merged = {} /\ DOMAIN index = {} /\ conflicts = {} /\ status = <<>>
  BY <1>1 DEF Init, Seen
<1>. QED BY <1>1, <1>2 DEF IInv, Shape, RowsAreKept, ValuesAreSaid, IndexIsRight, ConflictsAreReal, WrittenAtTheEnd

----------------------------------------------------------------------------
(* Theorems *)

(* The loop of reconcile_records and the judgement after it keep the       *)
(* invariant.                                                              *)
THEOREM Reconciling == Spec => []IInv
<1>1. Init => IInv
  BY InitGivesInv
<1>2. IInv /\ [Next]_vars => IInv'
  <2> SUFFICES ASSUME IInv, [Next]_vars PROVE IInv'
    OBVIOUS
  <2>1. CASE StartRecord
    BY <2>1, Starting
  <2>2. CASE SetBeside
    BY <2>2, Setting
  <2>3. CASE Merge
    BY <2>3, Merging
  <2>4. CASE Write
    <3>1. WrittenAtTheEnd'
      BY <2>4 DEF Write, WrittenAtTheEnd, Judge
    <3>. QED BY <2>4, <3>1, Keeping DEF Write, IInv
  <2>5. CASE UNCHANGED vars
    <3>1. UNCHANGED <<rows, next, merged, index, conflicts, status>>
      BY <2>5 DEF vars
    <3>2. WrittenAtTheEnd'
      BY <3>1 DEF IInv, WrittenAtTheEnd, Judge
    <3>. QED BY <3>1, <3>2, Keeping DEF IInv
  <2>. QED BY <2>1, <2>2, <2>3, <2>4, <2>5 DEF Next
<1>. QED BY <1>1, <1>2, PTL DEF Spec

(* Every variable of the loop keeps its type (cleaning/service.py).        *)
THEOREM Typing == Spec => []TypeOK
BY Reconciling, InvGivesTyping, PTL

(* However many rows there are and whatever they say, each is a source of  *)
(* exactly one record: reconcile_records neither drops nor repeats one.    *)
THEOREM RowsOnce == Spec => []EveryRowOnce
BY Reconciling, InvGivesEveryRowOnce, PTL

(* Merging loses no value of a row and makes none up.                      *)
THEOREM NothingLost == Spec => []ValuesAreTheRows
BY Reconciling, InvGivesValues, PTL

(* reconcile_records leaves one record of an identity out of conflict, and *)
(* transform makes no other VALID.                                         *)
THEOREM OneRecord == Spec => []OneRecordPerIdentity
BY Reconciling, InvGivesOneRecord, PTL

(* A conflict of reconcile_records is a disagreement of two rows, and a    *)
(* disagreement is a conflict, in whatever order the rows come.            *)
THEOREM Conflicts == Spec => []ConflictIsDisagreement
BY Reconciling, InvGivesConflict, PTL

(* "Ambiguous date is not guessed" (cleaning/service.py:57), for every     *)
(* calendar and every slash date: it is converted when it has one reading  *)
(* as a day of the calendar, to that one, and stays as it is otherwise.    *)
THEOREM NoGuess == Spec => []NoDateIsGuessed
<1>1. ASSUME NEW d \in DateCells, d.form = "slash"
      PROVE  LET v == CleanDate(d)
             IN  IF Cardinality(Readings(d)) = 1
                 THEN v.form = "iso" /\ Readings(d) = {<<v.first, v.second>>}
                 ELSE v = d
  <2> DEFINE a == d.first
             b == d.second
  <2>1. a \in Nat /\ b \in Nat /\ d.leap \in BOOLEAN
    BY DEF DateCells
  <2>2. CleanDate(d) = ReadSlash(d)
    BY <1>1 DEF CleanDate
  <2>3. \A m \in 1..12 : Days[d.leap][m] \in 28..31
    BY <2>1, DateAssumption
  <2>4. \A m, n \in Nat : IsDay(m, n, d.leap) => m \in 1..12 /\ n \in 1..31
    BY <2>3 DEF IsDay
  <2>5. \A m, n \in 1..12 : IsDay(m, n, d.leap)
    BY <2>3 DEF IsDay
  <2>6. /\ Readings(d) \subseteq {<<a, b>>, <<b, a>>}
        /\ <<a, b>> \in Readings(d) <=> IsDay(a, b, d.leap)
        /\ <<b, a>> \in Readings(d) <=> IsDay(b, a, d.leap)
    BY DEF Readings
  <2>7. ASSUME NEW m \in Nat, NEW n \in Nat, Readings(d) = {<<m, n>>}, ReadSlash(d) = Iso(m, n, d.leap)
        PROVE  LET v == CleanDate(d)
               IN  /\ Cardinality(Readings(d)) = 1
                   /\ v.form = "iso" /\ Readings(d) = {<<v.first, v.second>>}
    <3>1. Cardinality(Readings(d)) = 1
      BY <2>7, FS_Singleton
    <3>2. CleanDate(d) = [form |-> "iso", first |-> m, second |-> n, leap |-> d.leap]
      BY <2>2, <2>7 DEF Iso
    <3>. QED BY <2>7, <3>1, <3>2
  <2>8. ASSUME Cardinality(Readings(d)) # 1, ReadSlash(d) = d
        PROVE  Cardinality(Readings(d)) # 1 /\ CleanDate(d) = d
    BY <2>2, <2>8
  <2>9. CASE ~IsDay(a, b, d.leap) /\ ~IsDay(b, a, d.leap)
    <3>1. Readings(d) = {}
      BY <2>6, <2>9
    <3>2. ReadSlash(d) = d
      BY <2>9 DEF ReadSlash
    <3>. QED BY <2>8, <3>1, <3>2, FS_EmptySet
  <2>10. CASE a # b /\ IsDay(a, b, d.leap) /\ IsDay(b, a, d.leap)
    <3>1. ReadSlash(d) = d
      BY <2>1, <2>4, <2>10 DEF ReadSlash
    <3>2. Readings(d) = {<<a, b>>} \cup {<<b, a>>} /\ <<b, a>> \notin {<<a, b>>}
      BY <2>6, <2>10
    <3>3. Cardinality(Readings(d)) = 2
      <4>1. IsFiniteSet({<<a, b>>}) /\ Cardinality({<<a, b>>}) = 1
        BY FS_Singleton
      <4>2. Cardinality({<<a, b>>} \cup {<<b, a>>}) = 1 + 1
        BY <3>2, <4>1, FS_AddElement
      <4>. QED BY <3>2, <4>2
    <3>4. Cardinality(Readings(d)) # 1
      BY <3>3
    <3>. QED BY <2>8, <3>1, <3>4
  <2>11. CASE (a = b \/ ~IsDay(b, a, d.leap)) /\ IsDay(a, b, d.leap)
    <3>1. Readings(d) = {<<a, b>>}
      BY <2>6, <2>11
    <3>2. ReadSlash(d) = Iso(a, b, d.leap)
      BY <2>1, <2>4, <2>5, <2>11 DEF ReadSlash
    <3>. QED BY <2>1, <2>7, <3>1, <3>2
  <2>12. CASE ~IsDay(a, b, d.leap) /\ IsDay(b, a, d.leap)
    <3>1. Readings(d) = {<<b, a>>}
      BY <2>6, <2>12
    <3>2. ReadSlash(d) = Iso(b, a, d.leap)
      BY <2>1, <2>4, <2>5, <2>12 DEF ReadSlash
    <3>. QED BY <2>1, <2>7, <3>1, <3>2
  <2>. QED BY <2>9, <2>10, <2>11, <2>12
<1>2. IInv => NoDateIsGuessed
  <2> SUFFICES ASSUME NEW i, rows[i].hire_date \in Dates, rows[i].hire_date.form = "slash"
               PROVE  LET d == rows[i].hire_date
                          v == Says(i).hire_date
                      IN  IF Cardinality(Readings(d)) = 1
                          THEN v.form = "iso" /\ Readings(d) = {<<v.first, v.second>>}
                          ELSE v = d
    BY DEF NoDateIsGuessed
  <2>1. Says(i).hire_date = CleanDate(rows[i].hire_date)
    BY BlankAssumption DEF Says, Cleaned
  <2>2. rows[i].hire_date \in DateCells
    BY DateAssumption
  <2>. QED BY <1>1, <2>1, <2>2
<1>. QED BY <1>2, Reconciling, PTL

=============================================================================
