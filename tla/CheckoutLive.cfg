CONSTANTS
  a = a
  b = b
  None = None
  Requests = {r1, r2, r3}
  Items = {a, b}
  Venues = {v1}
  Callbacks = {v1}
  Prices = {1}
  Carts <- BusyCarts
  PoolSize = 2
  MaxInt4 = 3
  Word = 8
SPECIFICATION FairSpec
PROPERTY EveryRequestAnswered
