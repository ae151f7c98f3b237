----------------------------- MODULE MCLifecycle -----------------------------
(***************************************************************************)
(* Lifecycle on two native libraries and one path of every way loading can *)
(* fail.                                                                   *)
(***************************************************************************)
EXTENDS Lifecycle

CONSTANTS a, b, refused, missing, coreless, foreign, commless

MCLibs == {a, b, refused, missing, coreless, foreign, commless}

MCOutcome == [l \in MCLibs |->
  CASE l = refused  -> "abi"
    [] l = missing  -> "absent"
    [] l = coreless -> "no_core"
    [] l = foreign  -> "unsupported"
    [] l = commless -> "no_comm"
    [] OTHER        -> "native"]

(* User code inside the native calls: the attribute-delete callbacks of    *)
(* MPI_COMM_SELF that MPI_Finalize runs, and tools started by MPI_Init.    *)
MCCallbacks == {"init", "init_with", "finalize"}

(* No code of the application inside the native calls.                     *)
MCNoCallbacks == {}
=============================================================================
