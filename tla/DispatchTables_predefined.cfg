SPECIFICATION TablesSpec
CONSTANTS
  ompi = ompi
  mpich = mpich
  mpich2 = mpich2
  intel = intel
  ms = ms
  commless = commless
  coreless = coreless
  foreign = foreign
  refused = refused
  missing = missing
  NoLib = NoLib
  Libs <- MCLibs
  Outcome <- MCOutcome
  Callbacks <- MCNoCallbacks
  InitFailsWhenHeld = FALSE
  InitWithWhenHeld = FALSE
  ToolInInitWith = FALSE
  MaxRefs = 2
  MaxOpens = 2
  Kinds <- BackendTypes
  Slots <- AllSlots
  ToolSlots <- AllToolSlots
  Values <- AllValues
  Binding <- SourceBinding
  Declared <- SlotDeclared
  Named <- SlotNamed
  ToolSince <- ToolSlotSince
  Assigned <- SourceAssigned
  Default <- DefaultValues
  ErrorOrder <- ErrorStringOrder
  KindOf <- MCKindOf
  RealKind <- MCRealKind
  Exports <- MCExports
  HostOf <- MCHostOf
  File <- MCFile
  Missing = missing
  Machines <- MCMachines
  Settings <- MCSettings
INVARIANTS
  PredefinedMatch
CHECK_DEADLOCK FALSE
