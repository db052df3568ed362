CONSTANTS
  Threads = {t1}
  CallIds = {c1, c2}
  Api = {"Call"}
  NoCall = NoCall
  Me = me
  Py = py
  PyRequests = {c1, list}
  List = list
  Fns = {lister, breaker}
  ListFn = lister
  Throws = {}
  Escapes = {breaker}
  Nothing = Nothing
SPECIFICATION Spec
INVARIANTS SameExchange AtMostOnce PyOwnReply
CHECK_DEADLOCK FALSE
