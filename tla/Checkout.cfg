CONSTANTS
  a = a
  b = b
  None = None
  Requests = {r1, r2}
  Items = {a, b}
  Venues = {v1, v2}
  Callbacks = {v1}
  Prices = {1, 3}
  Carts <- SomeCarts
  PoolSize = 2
  MaxInt4 = 3
  Word = 16
SPECIFICATION Spec
SYMMETRY Symmetry
INVARIANTS
  TypeOK
  LocksFollowTransactions
  AnswersAreTrue
  OrdersAreSound
PROPERTIES
  SoldAsOffered
  SaleSpec
