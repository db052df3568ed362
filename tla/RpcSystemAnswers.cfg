CONSTANTS
  Threads = {t1}
  CallIds = {c1}
  Api = {"Call"}
  NoCall = NoCall
  Me = me
  Py = py
  PyRequests = {c1, list}
  List = list
  Fns = {lister, breaker}
  ListFn = lister
  Throws = {}
  Escapes = {breaker}
  Nothing = Nothing
SPECIFICATION FairSpec
PROPERTY PeerAnswers PyRecovers
CHECK_DEADLOCK FALSE
