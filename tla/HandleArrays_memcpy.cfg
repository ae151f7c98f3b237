SPECIFICATION Spec
CONSTANTS
  a = a
  b = b
  Arrays <- MCArrays
  Words <- MCWords
  Null <- MCNull
  Contents <- MCContents
  N = 2
  MayAlias = FALSE
  AtOnce = FALSE
INVARIANT StatusesInPlace
