CONSTANTS
  a = a  b = b
  i1 = i1  i2 = i2  i3 = i3
  Nodes = {a, b}
  Names = {a, b}
  Name <- MCName
  Oversized = {}
  plain = plain  raw = raw
  Components <- MCComponents
  Undumpable = {raw}
  Garbage = {junk}
  Backlog = 1
  NoIp = NoIp
  MaxSent = 3
  Hwm = 2
  Kinds = {"plain", "empty", "garbage", "fatal"}
  Workers = {w1, w2, w3}
  Files = {f1, f2}
  Ignored = {f2}
  pos = pos  rot = rot
  Shapes <- MCShapes
  Loaders = {l1, l2}
  MaxRecords = 2
  Torn = Torn
  None = None
SPECIFICATION FairSpec
INVARIANTS TypeOK Truthful Lossless OneCapture NoLostChange LoadsSomePast
PROPERTIES Found Received Flows Synced
CHECK_DEADLOCK FALSE
