CONSTANTS
  Threads = {t1}
  CallIds = {r1, r2, r3}
  Api = {"Call", "CallAsync", "Cancel"}
  Speculative = TRUE
  NoCall = NoCall
SPECIFICATION FairSpec
INVARIANTS TypeOK 
PROPERTIES Recovers 
CHECK_DEADLOCK FALSE
