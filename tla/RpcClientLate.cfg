CONSTANTS
  Threads = {t1}
  CallIds = {r1, r2, r3}
  Api = {"Call"}
  Speculative = TRUE
  NoCall = NoCall
SPECIFICATION Spec
INVARIANT OwnReply
CHECK_DEADLOCK FALSE
