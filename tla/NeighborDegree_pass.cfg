SPECIFICATION NSpec
CONSTANTS
  a = a
  b = b
  Arrays <- MCArrays
  Words <- MCWords
  Null <- MCNull
  Contents <- MCContents
  Comms <- MCComms
  Absent <- MCAbsent
  N = 4
  MayAlias = FALSE
  AtOnce = TRUE
INVARIANTS
  StaysInArrays
  SurroundedReadsRight
  NoSpuriousRefusal
