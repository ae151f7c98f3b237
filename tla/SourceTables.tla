----------------------------- MODULE SourceTables -----------------------------
(***************************************************************************)
(* DispatchTables with what is in the source: the four backends, their     *)
(* bindings and predefined values, the version gates, and the files as     *)
(* src/loader.c opens and identifies them.  Any number of libraries, on    *)
(* any machines, in any environment.                                       *)
(***************************************************************************)
EXTENDS DispatchTables, Loader, BackendBindings, SlotGates, BackendConstants

CONSTANTS
  HostOf,    (* HostOf[l]: the platform the library l is for                *)
  File,      (* File[l]: the file, as module Loader describes it            *)
  Missing,   (* what a name that opens nothing stands for                   *)
  Machines   (* [host, installed, env, level] of the processes: a platform, *)
             (* a library for every name that opens one, the environment    *)
             (* variables, the MPI version UniMPI is built for              *)

SourceBinding ==
  [openmpi |-> OpenMPIBinding, mpich |-> MpichBinding, intelmpi |-> IntelBinding,
   msmpi |-> MSBinding]
SourceAssigned ==
  [openmpi |-> OpenMPIAssigned, mpich |-> MpichAssigned, intelmpi |-> IntelAssigned,
   msmpi |-> MSAssigned]

ASSUME SourceAssumption ==
  /\ Kinds = BackendTypes /\ Slots = AllSlots /\ ToolSlots = AllToolSlots
  /\ Binding = SourceBinding /\ Assigned = SourceAssigned
  /\ Declared = SlotDeclared /\ Named = SlotNamed /\ ToolSince = ToolSlotSince
  /\ Values = AllValues /\ Default = DefaultValues /\ ErrorOrder = ErrorStringOrder

ASSUME FilesAssumption ==
  /\ HostOf \in [Libs -> Hosts]
  /\ Outcome = [l \in Libs |-> LoadOutcome(HostOf[l], File[l])]
  /\ KindOf = [l \in Libs |-> Identify(HostOf[l], File[l])]
  /\ Missing \in Libs /\ ~File[Missing].exists

(* The symbols by which MPI implementations can be told apart.  Intel MPI  *)
(* and MS-MPI are made from MPICH and have its symbols too.                *)
ASSUME SymbolsAssumption ==
  \A l \in Libs :
    LET has(symbol) == symbol \in File[l].symbols IN
    /\ has("ompi_mpi_comm_world") => RealKind[l] = "openmpi"
    /\ has("__I_MPI___cpu_core_type") <=> RealKind[l] = "intelmpi"
    /\ has("MSMPI_Get_version") <=> RealKind[l] = "msmpi"
    /\ RealKind[l] = "msmpi" => HostOf[l] = "windows"
    /\ has("MPIR_Err_create_code") \/ has("MPIR_Dup_fn") \/ has("MPIR_Comm_world") =>
         RealKind[l] \in {"mpich", "intelmpi", "msmpi"}

(* The names under which one implementation alone is installed.            *)
OwnNames ==
  [openmpi |-> {"libmpi.so.40", "libmpi.so.20"}, mpich |-> {"libmpich.so"},
   msmpi |-> {"msmpi.dll"}]

ASSUME MachinesAssumption ==
  \A m \in Machines :
    /\ m.host \in Hosts /\ m.level \in Levels
    /\ NoPath \notin DOMAIN m.installed
    /\ \A path \in DOMAIN m.installed :
         /\ m.installed[path] \in Libs
         /\ \A k \in DOMAIN OwnNames : path \in OwnNames[k] => RealKind[m.installed[path]] = k

(* The process on a machine: what unimpi_ensure_loaded opens there.        *)
SettingOn(m) ==
  LET path == Opened(DOMAIN m.installed, Select(m.host, m.env)) IN
  [level   |-> m.level,
   files   |-> {m.installed[p] : p \in DOMAIN m.installed} \cup {Missing},
   library |-> IF path = NoPath THEN Missing ELSE m.installed[path],
   asked   |-> IF m.env.library = "" /\ m.env.backend \in BackendTypes
               THEN m.env.backend ELSE "any"]

ASSUME ProcessesAssumption == Settings = {SettingOn(m) : m \in Machines}
===============================================================================
