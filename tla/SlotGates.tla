------------------------------ MODULE SlotGates ------------------------------
(***************************************************************************)
(* The MPI version from which a slot of `unimpi' (the groups of module     *)
(* BackendBindings) exists, and from which an application can name it:     *)
(*   SlotDeclared  the gates of the struct in include/unimpi_vtable.h      *)
(*   SlotNamed     the gates of include/unimpi_std_macros.h, which maps    *)
(*                 the standard names to slots (functions whose names are  *)
(*                 functions of UniMPI count from where they are declared) *)
(* and the same for the groups of slots of `unimpi_mt'.                    *)
(***************************************************************************)
EXTENDS Naturals, Merging

From(version, slots) == [s \in slots |-> version]

-----------------------------------------------------------------------------
(* unimpi_vtable_t, in the order of the header.                            *)
DeclaredBasics == From(22, {"environment", "p2p", "completion"}) ++ From(30, {"matched_probe"})
DeclaredCollectives == From(22, {"collectives", "alltoallw"})
DeclaredNonblocking ==
  From(30, {"nonblocking", "ialltoallw", "neighbor", "neighbor_vw"})
DeclaredGroups ==
  From(22, {"groups", "communicators", "topology"}) ++ From(30, {"comm_3x"})
DeclaredRMA == From(22, {"rma"}) ++ From(30, {"rma_3x"})
DeclaredIO  == From(22, {"io"}) ++ From(31, {"io_all"})
DeclaredMisc ==
  From(22, {"process", "spawn_multiple", "misc", "status_fields"})
  ++ From(31, {"aint", "comm_idup"})
DeclaredAttributes == From(22, {"attributes"})
DeclaredDatatypes ==
  From(22, {"datatypes", "type_contents", "type_struct"}) ++ From(30, {"large_count"})

SlotDeclared ==
  DeclaredBasics ++ DeclaredCollectives ++ DeclaredNonblocking ++ DeclaredGroups
  ++ DeclaredRMA ++ DeclaredIO ++ DeclaredMisc ++ DeclaredAttributes
  ++ DeclaredDatatypes

AllSlots == DOMAIN SlotDeclared

(* The macros, in the order of the header.                                 *)
NamedBasics == From(22, {"environment", "p2p", "completion"}) ++ From(30, {"matched_probe"})
NamedCollectives == From(22, {"collectives", "alltoallw"})
NamedDatatypes == From(22, {"datatypes", "type_contents", "type_struct"})
NamedNonblocking ==
  From(30, {"nonblocking", "ialltoallw", "neighbor", "neighbor_vw"})
NamedGroups ==
  From(22, {"groups", "communicators", "topology"}) ++ From(30, {"comm_3x"})
NamedRMA == From(22, {"rma"}) ++ From(30, {"rma_3x"})
NamedIO == From(22, {"io"})
NamedMisc == From(22, {"process", "spawn_multiple", "misc", "status_fields"})
NamedAttributes == From(22, {"attributes"})
NamedLargeCount == From(30, {"large_count"})
Named31 == From(31, {"aint", "io_all", "comm_idup"})

SlotNamed ==
  NamedBasics ++ NamedCollectives ++ NamedDatatypes ++ NamedNonblocking
  ++ NamedGroups ++ NamedRMA ++ NamedIO ++ NamedMisc ++ NamedAttributes
  ++ NamedLargeCount ++ Named31

(* `unimpi_mt': the handles and variables of MPI-3.0, and the lookup by    *)
(* name of MPI-3.1.                                                        *)
ToolSlotSince == From(30, {"tool"}) ++ From(31, {"tool_index"})
AllToolSlots == DOMAIN ToolSlotSince
===============================================================================
