SPECIFICATION Spec
CONSTANTS
  a = a
  b = b
  refused = refused
  missing = missing
  coreless = coreless
  foreign = foreign
  commless = commless
  NoLib = NoLib
  Libs <- MCLibs
  Outcome <- MCOutcome
  Callbacks <- MCNoCallbacks
  InitFailsWhenHeld = FALSE
  InitWithWhenHeld = FALSE
  ToolInInitWith = FALSE
  MaxRefs = 3
  MaxOpens = 2
INVARIANT IdentityIsLoaded
