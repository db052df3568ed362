CONSTANTS
  Keys <- MCKeys
  Values <- MCValues
  Files <- MCFiles
  Format <- MCFormat
  Contents <- MCContents
  Index <- MCIndex
  Names <- MCNames
  Literals = {1}
  NonUtf8 = {2}
  MaxInt = 1
  Api = {"Load", "Set", "Unsafe", "Ref", "Map"}
SPECIFICATION Spec
INVARIANTS TypeOK TypesAgree RoundTrip Homogeneous
PROPERTIES CutToZero NeverHalf SetKeepsTypes
CHECK_DEADLOCK FALSE
