SPECIFICATION Spec
CONSTANTS
  a = a
  b = b
  refused = refused
  missing = missing
  coreless = coreless
  foreign = foreign
  commless = commless
  NoLib = NoLib
  Libs <- MCLibs
  Outcome <- MCOutcome
  Callbacks <- MCCallbacks
  InitFailsWhenHeld = FALSE
  InitWithWhenHeld = FALSE
  ToolInInitWith = FALSE
  MaxRefs = 4
  MaxOpens = 2
INVARIANTS
  ActiveDispatch
  ReturnsToMapped
  NoFault
  LibraryBalance
  ToolCallable
PROPERTIES
  ErrorsLeakNothing
  UnmapOnlyQuiescent
  HoldSpec
