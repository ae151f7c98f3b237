----------------------------- MODULE LibraryHold -----------------------------
(***************************************************************************)
(* What the lifecycle of src/core.c and src/mpit.c promises of the native  *)
(* library (core.c, comment on g_refcount): it is mapped exactly while the *)
(* MPI interface or an MPI-T reference holds it, it is one and the same    *)
(* library for both, and MPI is started at most once.  Tables, flags,      *)
(* handles and counters are not part of the promise.                       *)
(***************************************************************************)
EXTENDS Naturals

CONSTANT Libs    (* the native libraries *)

VARIABLES
  mpi,     (* where the MPI interface is in its life  *)
  pins,    (* references of the MPI-T interface       *)
  mapped   (* the set of libraries that are mapped    *)

hold == <<mpi, pins, mapped>>

Init == mpi = "idle" /\ pins = 0 /\ mapped = {}

(* MPI holds the library from before its native initialization to the end  *)
(* of its native finalization.                                             *)
MPIHolds == mpi \in {"starting", "up", "closing"}

(* A holder comes: it maps a library of its choice when none is mapped.    *)
Acquire == \E l \in Libs : mapped \in {{}, {l}} /\ mapped' = {l}

Start    == mpi = "idle" /\ mpi' = "starting" /\ Acquire /\ UNCHANGED pins
Started  == mpi = "starting" /\ mpi' = "up" /\ UNCHANGED <<pins, mapped>>
Close    == mpi = "up" /\ mpi' = "closing" /\ UNCHANGED <<pins, mapped>>

(* MPI gives the library up: a failed start may be tried again, a          *)
(* finalization may not.                                                   *)
MPIReleases(from, to) ==
  /\ mpi = from /\ mpi' = to
  /\ mapped' = IF pins = 0 THEN {} ELSE mapped
  /\ UNCHANGED pins

Pin == pins' = pins + 1 /\ Acquire /\ UNCHANGED mpi

Unpin ==
  /\ pins > 0 /\ pins' = pins - 1
  /\ mapped' = IF pins = 1 /\ ~MPIHolds THEN {} ELSE mapped
  /\ UNCHANGED mpi

Next == \/ Start \/ Started \/ Close
        \/ MPIReleases("starting", "idle") \/ MPIReleases("closing", "over")
        \/ Pin \/ Unpin

Spec == Init /\ [][Next]_hold
=============================================================================
