CONSTANTS
  a = a
  b = b
  v1 = v1
  v2 = v2
  here = here
  there = there
  None = None
  Requests = {r}
  Items = {a, b}
  Venues = {v1, v2}
  Callbacks = {v1}
  Prices = {1, 2}
  Carts <- SomeCarts
  Categories = {c}
  Cities = {here, there}
  CityOf <- Apart
  VenuesByName <- ByName
  PageSize = 1
SPECIFICATION Spec
SYMMETRY Symmetry
INVARIANTS
  TypeOK
  CategoriesExplainItems
PROPERTY OnlyChangesSurprise
