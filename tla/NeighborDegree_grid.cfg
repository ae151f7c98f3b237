SPECIFICATION NSpec
CONSTANTS
  a = a
  b = b
  Arrays <- MCArrays
  Words <- MCWords
  Null <- MCNull
  Contents <- MCContents
  Comms <- MCOpenLine
  Absent <- MCAbsent
  N = 4
  MayAlias = FALSE
  AtOnce = TRUE
INVARIANTS
  EntriesReadRight
