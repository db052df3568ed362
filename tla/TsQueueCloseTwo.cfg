CONSTANTS
  Producers = {p1, p2}
  Consumers = {c1, c2}
  Closers = {k1}
  Items = {a}
  MaxSize = 1
  Contract = TRUE
  Asserts = TRUE
  Nullopt = Nullopt
  Nobody = Nobody
SPECIFICATION FairSpec
PROPERTIES ClosedPopReturns
CHECK_DEADLOCK FALSE
