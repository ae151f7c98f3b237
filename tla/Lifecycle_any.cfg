SPECIFICATION Spec
CONSTANTS
  a = a
  b = b
  refused = refused
  missing = missing
  coreless = coreless
  foreign = foreign
  commless = commless
  NoLib = NoLib
  Libs <- MCLibs
  Outcome <- MCOutcome
  Callbacks <- MCCallbacks
  InitFailsWhenHeld = TRUE
  InitWithWhenHeld = TRUE
  ToolInInitWith = TRUE
  MaxRefs = 3
  MaxOpens = 2
INVARIANTS
  TypeOK
  RefcountIsHolders
  OneNativeMPI
PROPERTIES
  FlagsNeverGoBack
CHECK_DEADLOCK FALSE
