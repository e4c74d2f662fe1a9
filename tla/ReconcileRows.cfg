\* All files of up to three rows.
CONSTANTS
  Ids <- IdSpellings
  Emails <- EmailSpellings
  Blank = Blank
  Normal <- NormalOf
  Folded <- FoldedOf
  Dates <- SomeDates
  Days <- DaysOf
  MaxRows = 3
SPECIFICATION Spec
INVARIANTS
  TypeOK
  EveryRowOnce
  ValuesAreTheRows
  OneRecordPerIdentity
  ConflictIsDisagreement
  NoDateIsGuessed
CHECK_DEADLOCK FALSE
