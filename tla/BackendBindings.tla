--------------------------- MODULE BackendBindings ---------------------------
(***************************************************************************)
(* What unimpi_vtable_init_<backend> assigns to the slots of the dispatch  *)
(* table `unimpi' (src/backends/*.c), from which MPI version on a slot is  *)
(* declared (include/unimpi_vtable.h) and from which on the header names   *)
(* it (include/unimpi_std_macros.h).                                       *)
(*                                                                         *)
(* A slot here stands for the slots of one group of MPI functions that are *)
(* bound the same way, behind the same gate, by each backend.  The ways:   *)
(*   direct    slot = dlsym(name), NULL when the library lacks the name    *)
(*   wrapped   static pointer = dlsym(name), slot = the wrapper over it    *)
(*   guarded   the same, but the slot is written only if the name is there *)
(*   local     slot = a function of UniMPI                                 *)
(*   fallback  direct, or a function of UniMPI when the name is missing    *)
(* A late binding comes after the Open MPI communicators are looked up,    *)
(* the one step of a table initialization that can fail.                   *)
(***************************************************************************)
EXTENDS Naturals, Merging

Bound(way, slots) == [s \in slots |-> [way |-> way, since |-> 22, late |-> FALSE]]
Direct(slots)   == Bound("direct", slots)
Wrapped(slots)  == Bound("wrapped", slots)
Guarded(slots)  == Bound("guarded", slots)
Local(slots)    == Bound("local", slots)
Fallback(slots) == Bound("fallback", slots)

(* #if UNIMPI_MPI_AT_LEAST around assignments.                             *)
Gate(version, b) == [s \in DOMAIN b |-> [b[s] EXCEPT !.since = version]]
Late(b)          == [s \in DOMAIN b |-> [b[s] EXCEPT !.late = TRUE]]

-----------------------------------------------------------------------------
(***************************************************************************)
(* Open MPI: its handles are pointers, every slot is the native function.  *)
(***************************************************************************)
OpenMPIBasics ==
  Direct({"environment", "p2p", "completion"}) ++ Gate(30, Direct({"matched_probe"}))
OpenMPICollectives == Direct({"collectives", "alltoallw", "communicators"})
OpenMPIDatatypes ==
  Direct({"datatypes", "type_contents"}) ++ Gate(30, Direct({"large_count"}))
OpenMPINonblocking ==
  Gate(30, Direct({"nonblocking", "ialltoallw", "neighbor", "neighbor_vw"}))
OpenMPIGroups == Direct({"groups", "topology"}) ++ Gate(30, Direct({"comm_3x"}))
OpenMPIRMA == Direct({"rma"}) ++ Gate(30, Direct({"rma_3x"}))
OpenMPIIO == Direct({"io"})
OpenMPIProcess == Direct({"process", "spawn_multiple"})
OpenMPIMisc == Direct({"misc", "type_struct"}) ++ Local({"status_fields"})
OpenMPIAttributes == Direct({"attributes"})
OpenMPILate ==
  Late(Gate(31, Fallback({"aint"}) ++ Direct({"io_all", "comm_idup"})))

OpenMPIBinding ==
  OpenMPIBasics ++ OpenMPICollectives ++ OpenMPIDatatypes ++ OpenMPINonblocking
  ++ OpenMPIGroups ++ OpenMPIRMA ++ OpenMPIIO ++ OpenMPIProcess ++ OpenMPIMisc
  ++ OpenMPIAttributes ++ OpenMPILate

(***************************************************************************)
(* MPICH: 4-byte handles, so that the functions on arrays of handles go    *)
(* through a wrapper (module HandleArrays).                                *)
(***************************************************************************)
(* Mutant of MpichBasics: the matched probes behind the gate of MPI-3.1.   *)
MpichBasicsGated31 ==
  Direct({"environment", "p2p"}) ++ Wrapped({"completion"})
  ++ Gate(31, Direct({"matched_probe"}))

MpichBasics ==
  Direct({"environment", "p2p"}) ++ Wrapped({"completion"})
  ++ Gate(30, Direct({"matched_probe"}))
MpichCollectives ==
  Direct({"collectives", "communicators", "datatypes"})
  ++ Guarded({"alltoallw", "type_contents"}) ++ Gate(30, Direct({"large_count"}))
MpichNonblocking ==
  Gate(30, Direct({"nonblocking", "neighbor"}) ++ Guarded({"ialltoallw", "neighbor_vw"}))
MpichGroups == Direct({"groups", "topology"}) ++ Gate(30, Direct({"comm_3x"}))
MpichRMA == Direct({"rma"}) ++ Gate(30, Direct({"rma_3x"}))
MpichIO == Direct({"io"})
MpichProcess == Direct({"process"}) ++ Guarded({"spawn_multiple"})
MpichMisc ==
  Direct({"misc"}) ++ Guarded({"type_struct"}) ++ Local({"status_fields"})
MpichAttributes == Direct({"attributes"})
MpichLate == Late(Gate(31, Fallback({"aint"}) ++ Direct({"io_all", "comm_idup"})))

MpichBinding ==
  MpichBasics ++ MpichCollectives ++ MpichNonblocking ++ MpichGroups ++ MpichRMA
  ++ MpichIO ++ MpichProcess ++ MpichMisc ++ MpichAttributes ++ MpichLate

(***************************************************************************)
(* Intel MPI: an MPICH with the same handles and a table of its own.       *)
(***************************************************************************)
IntelBasics ==
  Direct({"environment", "p2p"}) ++ Wrapped({"completion"})
  ++ Gate(30, Direct({"matched_probe"}))
IntelCollectives == Direct({"collectives", "communicators"}) ++ Guarded({"alltoallw"})
IntelGroups == Direct({"groups", "topology"}) ++ Gate(30, Direct({"comm_3x"}))
IntelDatatypes ==
  Direct({"datatypes"}) ++ Guarded({"type_contents"}) ++ Gate(30, Direct({"large_count"}))
IntelNonblocking ==
  Gate(30, Direct({"nonblocking", "neighbor"}) ++ Guarded({"ialltoallw", "neighbor_vw"}))
IntelRMA == Direct({"rma"}) ++ Gate(30, Direct({"rma_3x"}))
IntelIO == Direct({"io"})
IntelProcess == Direct({"process"}) ++ Guarded({"spawn_multiple"})
IntelMisc ==
  Direct({"misc"}) ++ Guarded({"type_struct"}) ++ Local({"status_fields"})
IntelAttributes == Direct({"attributes"})
IntelLate == Late(Gate(31, Fallback({"aint"}) ++ Direct({"io_all", "comm_idup"})))

IntelBinding ==
  IntelBasics ++ IntelCollectives ++ IntelGroups ++ IntelDatatypes
  ++ IntelNonblocking ++ IntelRMA ++ IntelIO ++ IntelProcess ++ IntelMisc
  ++ IntelAttributes ++ IntelLate

(***************************************************************************)
(* MS-MPI: 4-byte handles too, Windows only.                               *)
(***************************************************************************)
MSBasics ==
  Direct({"environment", "p2p"}) ++ Wrapped({"completion"})
  ++ Gate(30, Direct({"matched_probe"}))
MSCollectives == Direct({"collectives"}) ++ Guarded({"alltoallw"})
MSNonblocking ==
  Gate(30, Direct({"nonblocking", "neighbor"}) ++ Guarded({"ialltoallw", "neighbor_vw"}))
MSGroups ==
  Direct({"communicators", "groups", "topology"}) ++ Gate(30, Direct({"comm_3x"}))
MSDatatypes ==
  Direct({"datatypes"}) ++ Guarded({"type_contents"}) ++ Gate(30, Direct({"large_count"}))
MSRMA == Direct({"rma"}) ++ Gate(30, Direct({"rma_3x"}))
MSIO == Direct({"io"})
MSProcess == Direct({"process"}) ++ Guarded({"spawn_multiple"})
MSMisc ==
  Direct({"misc"}) ++ Guarded({"type_struct"}) ++ Local({"status_fields"})
MSAttributes == Direct({"attributes"})
MSLate == Late(Gate(31, Fallback({"aint"}) ++ Direct({"io_all", "comm_idup"})))

MSBinding ==
  MSBasics ++ MSCollectives ++ MSNonblocking ++ MSGroups ++ MSDatatypes ++ MSRMA
  ++ MSIO ++ MSProcess ++ MSMisc ++ MSAttributes ++ MSLate
===============================================================================
