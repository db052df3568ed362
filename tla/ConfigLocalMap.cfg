CONSTANTS
  Keys <- MCKeys
  Values <- MCValues
  Files <- MCFiles
  Format <- MCFormat
  Contents <- MCMixed
  Index <- MCIndex
  Names <- MCNames
  Literals = {1}
  NonUtf8 = {2}
  MaxInt = 1
  Api = {"Load", "Set"}
SPECIFICATION Spec
INVARIANT MapChecked
CHECK_DEADLOCK FALSE
