SPECIFICATION TableSpec
CONSTANTS
  Threads = {t1, t2}
  Keys <- MCKeys
  Records <- MCRecords
  KeyOf <- MCKeyOf
  HashOf <- MCHashOf
  Size = 1
  Nil = Nil
INVARIANTS
  TableSafe
  RecordsAreAlive
PROPERTIES
  SharingEnds
  ImplementsMap
