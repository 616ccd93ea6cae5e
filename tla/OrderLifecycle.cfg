CONSTANTS
  Orders = {o1}
  Calls = {c1, c2, c3}
SPECIFICATION Spec
SYMMETRY Symmetry
INVARIANTS
  TypeOK
  OneWinner
  WrittenOnce
  HistoryExplainsStatus
PROPERTIES
  StatusFollowsTable
  ContractSpec
