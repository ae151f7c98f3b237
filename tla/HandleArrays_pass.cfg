SPECIFICATION FairSpec
CONSTANTS
  a = a
  b = b
  Arrays <- MCArrays
  Words <- MCWords
  Null <- MCNull
  Contents <- MCContents
  N = 4
  MayAlias = FALSE
  AtOnce = TRUE
INVARIANTS
  TypeOK
  NativeSeesHandles
  CallerSeesHandles
  StatusesInPlace
PROPERTIES
  WrappersReturn
  CallSpec
