CONSTANTS
  Producers = {p1, p2}
  Consumers = {c1, c2}
  Closers = {k1}
  Items = {a, b}
  MaxSize = 2
  Contract = FALSE
  Asserts = TRUE
  Nullopt = Nullopt
  Nobody = Nobody
SPECIFICATION Spec
PROPERTY Refines
CHECK_DEADLOCK FALSE
