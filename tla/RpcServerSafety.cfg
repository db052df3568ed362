CONSTANTS
  Clients = {k1, k2}
  Names = {list, move}
  List = list
  Fns = {lister, mover, thrower, breaker}
  ListFn = lister
  Throws = {thrower}
  Escapes = {breaker}
  Malformed = {garbage}
  TooLong = {long}
  Nothing = Nothing
SPECIFICATION FairSpec
INVARIANTS TypeOK OneAtATime Awake
PROPERTIES Serves Answered
CHECK_DEADLOCK FALSE
