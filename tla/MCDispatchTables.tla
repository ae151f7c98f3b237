--------------------------- MODULE MCDispatchTables ---------------------------
(***************************************************************************)
(* SourceTables on four machines: Linux ones on which the generic soname   *)
(* is Open MPI (a Debian alternative, and an old one without MPICH) or     *)
(* Intel MPI, and Windows.                                                 *)
(***************************************************************************)
EXTENDS SourceTables, TLC

CONSTANTS ompi, mpich, mpich2, intel, ms, commless, coreless, foreign, refused, missing

MCLibs == {ompi, mpich, mpich2, intel, ms, commless, coreless, foreign, refused, missing}

(* The files.  Intel MPI has MPICH's symbols besides its own.              *)
Symbols == [l \in MCLibs |->
  CASE l = ompi     -> CoreSymbols \cup {"ompi_mpi_comm_world", "ompi_mpi_comm_world_addr",
                                         "ompi_mpi_comm_self_addr"}
    [] l \in {mpich, mpich2} -> CoreSymbols \cup {"MPIR_Err_create_code", "MPIR_Dup_fn"}
    [] l = intel    -> CoreSymbols \cup {"__I_MPI___cpu_core_type", "MPIR_Dup_fn"}
    [] l = ms       -> CoreSymbols \cup {"MSMPI_Get_version", "MPIR_Dup_fn"}
    [] l = commless -> CoreSymbols \cup {"ompi_mpi_comm_world"}
    [] l = foreign  -> CoreSymbols \cup {"MPIR_Dup_fn"}
    [] OTHER        -> {"MPI_Init"}]

LibraryFile(l) ==
  [exists |-> l # missing, abiAt |-> IF l = refused THEN 4 ELSE 0,
   symbols |-> Symbols[l]]
MCHostOf == [l \in MCLibs |-> IF l \in {ms, foreign} THEN "windows" ELSE "linux"]
MCFile   == [l \in MCLibs |-> LibraryFile(l)]

MCOutcome  == [l \in MCLibs |-> LoadOutcome(MCHostOf[l], MCFile[l])]
MCKindOf   == [l \in MCLibs |-> Identify(MCHostOf[l], MCFile[l])]
MCRealKind == [l \in MCLibs |->
  CASE l \in {ompi, commless} -> "openmpi" [] l \in {mpich, mpich2, foreign} -> "mpich"
    [] l = intel -> "intelmpi" [] l = ms -> "msmpi" [] OTHER -> "unknown"]

(* Open MPI has no function for address arithmetic, an MPICH built without *)
(* the removed interfaces no MPI_Type_struct, MS-MPI little of MPI-3.      *)
MCExports == [l \in MCLibs |->
  CASE l \in {ompi, commless} -> (AllSlots \ {"aint"}) \cup AllToolSlots \cup AllValues
    [] l = mpich -> (AllSlots \ {"type_struct"}) \cup AllToolSlots \cup AllValues
    [] l = ms    -> (AllSlots \ {"matched_probe", "neighbor", "neighbor_vw", "ialltoallw",
                                "rma_3x", "comm_3x", "aint", "io_all", "comm_idup"})
                    \cup {"tool"} \cup AllValues
    [] OTHER     -> AllSlots \cup AllToolSlots \cup AllValues]

(* What is installed under which name.                                     *)
Debian ==
  ("libmpi.so.40" :> ompi) @@ ("libmpi.so" :> ompi) @@ ("libmpich.so" :> mpich)
  @@ ("libmpi_abi.so" :> refused) @@ ("/opt/broken/libmpi.so" :> commless)
NoMpich == ("libmpi.so.20" :> ompi) @@ ("libmpi.so" :> ompi)
Cluster ==
  ("libmpi.so" :> intel) @@ ("/opt/mpich/libmpi.so" :> mpich)
  @@ ("/opt/mpich2/libmpi.so" :> mpich2) @@ ("libm.so" :> coreless)
Windows == ("msmpi.dll" :> ms) @@ ("mpich.dll" :> foreign)

Env(library, backend) == [library |-> library, backend |-> backend]

Machine(host, installed, env, level) ==
  [host |-> host, installed |-> installed, env |-> env, level |-> level]

MCMachines ==
  { Machine("linux", Debian, Env("", ""), 31),
    Machine("linux", Debian, Env("", "mpich"), 30),
    Machine("linux", Debian, Env("libmpi_abi.so", "mpich"), 31),
    Machine("linux", NoMpich, Env("", "mpich"), 31),
    Machine("linux", NoMpich, Env("", "openmpi"), 22),
    Machine("linux", Cluster, Env("", "intelmpi"), 31),
    Machine("linux", Cluster, Env("", "/opt/mpich/libmpi.so"), 30),
    Machine("windows", Windows, Env("", ""), 31),
    Machine("windows", Windows, Env("", "msmpi"), 22) }

MCSettings == {SettingOn(m) : m \in MCMachines}

(* The attribute callbacks are the business of MCLifecycle.                *)
MCNoCallbacks == {}
===============================================================================
