CONSTANTS
  Producers = {p1, p2, p3}
  Consumers = {c1, c2}
  Closers = {k1}
  Items = {a}
  MaxSize = 2
  Contract = TRUE
  Asserts = FALSE
  Nullopt = Nullopt
  Nobody = Nobody
SPECIFICATION FairSpec
INVARIANTS TypeOK NoLostItem NoLostPlace NulloptIsFinal
PROPERTIES Drained LoneSleeperReturns
CHECK_DEADLOCK FALSE
