SPECIFICATION Spec
CONSTANTS
  a = a
  b = b
  refused = refused
  missing = missing
  coreless = coreless
  foreign = foreign
  commless = commless
  NoLib = NoLib
  Libs <- MCLibs
  Outcome <- MCOutcome
  Callbacks <- MCCallbacks
  InitFailsWhenHeld = FALSE
  InitWithWhenHeld = FALSE
  ToolInInitWith = TRUE
  MaxRefs = 3
  MaxOpens = 2
PROPERTY EnsuredOnce
