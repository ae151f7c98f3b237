-------------------------------- MODULE Loader --------------------------------
(***************************************************************************)
(* src/loader.c and the checks of unimpi_vtable_init (src/vtable.c): which *)
(* path the environment selects, which file that path opens, which backend *)
(* the opened library is taken for, and how far loading it gets.           *)
(*                                                                         *)
(* A path is a string; a path not in the table of backends is one the      *)
(* caller wrote.  A file is a record                                       *)
(*   [exists, abiAt, symbols]                                              *)
(* whether the dynamic loader finds it, where "mpi_abi" or "mpi-abi"       *)
(* starts in its lower-cased path (0: nowhere), and what dlsym finds.      *)
(***************************************************************************)
EXTENDS Naturals, Sequences, FiniteSets

NoPath == "NULL"

(* Mutant of Backends: MPICH falls back to the generic soname.             *)
BackendsGeneric == <<
  [type |-> "openmpi",  lib |-> "libmpi.so.40", alt |-> "libmpi.so.20"],
  [type |-> "mpich",    lib |-> "libmpich.so",  alt |-> "libmpi.so"],
  [type |-> "intelmpi", lib |-> "libmpi.so",    alt |-> NoPath],
  [type |-> "msmpi",    lib |-> "msmpi.dll",    alt |-> NoPath] >>

(* unimpi_backends: the name to open for a backend and the name to try     *)
(* when that one is not there.                                             *)
Backends == <<
  [type |-> "openmpi",  lib |-> "libmpi.so.40", alt |-> "libmpi.so.20"],
  [type |-> "mpich",    lib |-> "libmpich.so",  alt |-> NoPath],
  [type |-> "intelmpi", lib |-> "libmpi.so",    alt |-> NoPath],
  [type |-> "msmpi",    lib |-> "msmpi.dll",    alt |-> NoPath] >>

BackendTypes == {Backends[i].type : i \in DOMAIN Backends}

Hosts == {"windows", "macos", "linux"}

(* backend_supported_on_platform.                                          *)
Supported(host, type) ==
  \/ host = "windows" /\ type = "msmpi"
  \/ host = "macos"   /\ type \in {"openmpi", "mpich"}
  \/ host = "linux"   /\ type \in {"openmpi", "mpich", "intelmpi"}

(* unimpi_loader_detect_backend: env.library and env.backend are the two   *)
(* environment variables, "" when unset or empty.                          *)
Select(host, env) ==
  LET named == {i \in DOMAIN Backends : Backends[i].type = env.backend} IN
  IF env.library # "" THEN env.library
  ELSE IF named # {} THEN Backends[CHOOSE i \in named : TRUE].lib
  ELSE IF env.backend # "" THEN env.backend
  ELSE IF host = "windows" THEN "msmpi.dll" ELSE "libmpi.so.40"

(* The names unimpi_loader_load passes to dlopen, in order: the path, then *)
(* the alternative of the first backend that has the path as its name.     *)
Attempts(path) ==
  LET named == {i \in DOMAIN Backends : Backends[i].lib = path}
      first == CHOOSE i \in named : \A j \in named : i <= j
  IN IF named = {} \/ Backends[first].alt = NoPath
       THEN <<path>> ELSE <<path, Backends[first].alt>>

(* The dlopen part of unimpi_loader_load: the first attempt that is the    *)
(* name of an installed library, or NoPath.                                *)
Opened(installed, path) ==
  LET hits == {i \in DOMAIN Attempts(path) : Attempts(path)[i] \in installed} IN
  IF hits = {} THEN NoPath
  ELSE Attempts(path)[CHOOSE i \in hits : \A j \in hits : i <= j]

(* path_names_standard_abi reads the first 255 characters of the path.     *)
LoweredLength == 255
NamesStandardABI(file) == file.abiAt # 0 /\ file.abiAt + 6 <= LoweredLength

(* Mutant of Probes: MPICH's symbols, which Intel MPI exports too, are     *)
(* looked up before Intel MPI's own.                                       *)
ProbesMpichFirst(host) ==
  (IF host = "windows" THEN <<[any |-> {"MSMPI_Get_version"}, type |-> "msmpi"]>> ELSE <<>>)
  \o << [any |-> {"ompi_mpi_comm_world"},                   type |-> "openmpi"],
        [any |-> {"MPIR_Err_create_code", "MPIR_Dup_fn"},   type |-> "mpich"],
        [any |-> {"__I_MPI___cpu_core_type"},               type |-> "intelmpi"],
        [any |-> {"MPIR_Comm_world"},                       type |-> "mpich"] >>

(* The symbols unimpi_loader_identify_backend looks up, in order, and what *)
(* finding one of them means.                                              *)
Probes(host) ==
  (IF host = "windows" THEN <<[any |-> {"MSMPI_Get_version"}, type |-> "msmpi"]>> ELSE <<>>)
  \o << [any |-> {"ompi_mpi_comm_world"},                   type |-> "openmpi"],
        [any |-> {"__I_MPI___cpu_core_type"},               type |-> "intelmpi"],
        [any |-> {"MPIR_Err_create_code", "MPIR_Dup_fn"},   type |-> "mpich"],
        [any |-> {"MPIR_Comm_world"},                       type |-> "mpich"] >>

(* unimpi_loader_identify_backend.                                         *)
Identify(host, file) ==
  LET hits == {i \in DOMAIN Probes(host) : Probes(host)[i].any \cap file.symbols # {}} IN
  IF hits = {} THEN "unknown"
  ELSE Probes(host)[CHOOSE i \in hits : \A j \in hits : i <= j].type

(* unimpi_vtable_validate_core.                                            *)
CoreSymbols == {"MPI_Init", "MPI_Finalize", "MPI_Comm_size", "MPI_Comm_rank"}

(* get_openmpi_comm_values: each communicator through its _addr symbol or  *)
(* its own; the pointer behind an _addr symbol is taken as set.            *)
OpenMPICommunicators(file) ==
  \A c \in {{"ompi_mpi_comm_world_addr", "ompi_mpi_comm_world"},
            {"ompi_mpi_comm_self_addr", "ompi_mpi_comm_self"}} : c \cap file.symbols # {}

(* unimpi_loader_load, unimpi_vtable_init and                              *)
(* unimpi_loader_check_platform_support on one file.  The second check for *)
(* a standard ABI is never reached: the first refuses the same paths.      *)
LoadOutcome(host, file) ==
  IF NamesStandardABI(file) THEN "abi"
  ELSE IF ~file.exists THEN "absent"
  ELSE IF ~(CoreSymbols \subseteq file.symbols) THEN "no_core"
  ELSE IF ~Supported(host, Identify(host, file)) THEN "unsupported"
  ELSE IF Identify(host, file) = "openmpi" /\ ~OpenMPICommunicators(file) THEN "no_comm"
  ELSE "native"
===============================================================================
