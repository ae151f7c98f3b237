------------------------------ MODULE Lifecycle ------------------------------
(***************************************************************************)
(* The process-wide lifecycle of UniMPI: src/core.c (MPI interface),       *)
(* src/mpit.c (MPI-T interface), and the parts of src/loader.c and         *)
(* src/vtable.c they call.  One native MPI library is dlopen'ed, its       *)
(* functions fill the two dispatch tables `unimpi' and `unimpi_mt', and    *)
(* both interfaces share one counted hold on the library.                  *)
(*                                                                         *)
(* A library, the path that names it, and what a table filled from it      *)
(* holds are all represented by the same value l \in Libs.  The native     *)
(* MPI_Init and MPI_Finalize are split into call and return, because the   *)
(* native library may run application code in between.  Every other        *)
(* handler is one step.                                                    *)
(***************************************************************************)
EXTENDS Integers

CONSTANTS
  Libs,       (* the native libraries a path can name                       *)
  NoLib,      (* NULL: no handle, an all-zero dispatch table, no identity   *)
  Outcome,    (* Outcome[l]: how far loading l gets, one of LoadOutcomes    *)
  Callbacks,  (* native calls during which application code may run         *)
  InitFailsWhenHeld, (* may the native MPI_Init fail while the MPI-T        *)
                     (* interface holds the library?                        *)
  InitWithWhenHeld,  (* may the application call unimpi_init_with while the *)
                     (* MPI-T interface holds the library?                  *)
  ToolInInitWith,    (* may application code use MPI-T inside the native    *)
                     (* MPI_Init that unimpi_init_with calls?               *)
  MaxRefs,    (* bound: g_refcount never passes it                          *)
  MaxOpens    (* bound: dlopen count of one library never passes it         *)

(***************************************************************************)
(* How far unimpi_loader_load followed by unimpi_vtable_init gets.         *)
(***************************************************************************)
LoadOutcomes ==
  { "abi",         \* refused by its name, never opened
    "absent",      \* dlopen fails
    "no_core",     \* a core symbol is missing
    "unsupported", \* identified, but not for this platform
    "no_comm",     \* table filled, then Open MPI's communicators are missing
    "native" }     \* loaded and both tables filled

ASSUME LibsAssumption == NoLib \notin Libs /\ Outcome \in [Libs -> LoadOutcomes]
ASSUME CallbacksAssumption == Callbacks \subseteq {"init", "init_with", "finalize"}
ASSUME UsageAssumption ==
  {InitFailsWhenHeld, InitWithWhenHeld, ToolInInitWith} \subseteq BOOLEAN
ASSUME BoundsAssumption == MaxRefs \in Nat /\ MaxOpens \in Nat

VARIABLES
  (* --- globals of the library --- *)
  state,      (* g_state                                                    *)
  refcount,   (* g_refcount                                                 *)
  handle,     (* g_handle                                                   *)
  loaded,     (* g_backend_loaded                                           *)
  mpitInited, (* g_mpit_inited                                              *)
  identity,   (* g_backend_identity                                         *)
  vt,         (* the library the table `unimpi' and COMM_WORLD are from    *)
  tvt,        (* the library the table `unimpi_mt' is from                  *)
  btype,      (* g_backend_type, as the library it was identified from      *)
  (* --- the call in progress and the last answer --- *)
  frame,      (* native lifecycle call on the stack                         *)
  ret,        (* what the last UniMPI call returned                         *)
  fault,      (* how the process died, or "none"                            *)
  (* --- the application --- *)
  sessions,   (* MPI_T_init_thread successes not yet finalized              *)
  failedInits,(* MPI_T_init_thread calls that reached the library and failed*)
  (* --- the dynamic loader and the native libraries --- *)
  opened,     (* dlopen count of each library                               *)
  nativeMPI,  (* native MPI state of each mapped image                      *)
  nativeTool, (* native MPI-T nesting count of each mapped image            *)
  (* --- history: what the process no longer knows, read by no guard --- *)
  entry,      (* the native call on the stack: the library it went into,    *)
              (* and what the UniMPI call around it found                   *)
  starts      (* successes of the native MPI_Init, in any image, ever       *)

globals == <<state, refcount, handle, loaded, mpitInited, identity, vt, tvt, btype>>
native  == <<opened, nativeMPI, nativeTool>>
history == <<entry, starts>>
vars    == <<globals, frame, ret, fault, sessions, failedInits, native, history>>

States == { "NEVER", "INITIALIZING", "ACTIVE", "INIT_FAILED",
            "FINALIZING", "FINALIZED", "FINALIZE_FAILED" }
Tables == Libs \cup {NoLib}
Codes  == { "none", "OK", "NATIVE_ERROR", "ALREADY_INITIALIZED", "NOT_INITIALIZED",
            "FINALIZED", "INVALID_STATE", "INVALID_ARGUMENT", "NO_BACKEND",
            "BACKEND_LOAD", "ABI_MISMATCH", "SYMBOL_NOT_FOUND",
            "BACKEND_NOT_SUPPORTED", "BACKEND_INIT_FAILED" }

(* MPI_T_init_thread calls that took a reference and did not give it back. *)
Pins == sessions + failedInits

(* The holds on the library as they are now, and l to be called.           *)
HoldsNow(l) == [lib |-> l, refs |-> refcount, pins |-> Pins, opened |-> opened]
NoEntry     == [lib |-> NoLib, refs |-> 0, pins |-> 0, opened |-> [l \in Libs |-> 0]]

Init ==
  /\ state = "NEVER" /\ refcount = 0 /\ handle = NoLib /\ loaded = FALSE
  /\ mpitInited = FALSE /\ identity = NoLib
  /\ vt = NoLib /\ tvt = NoLib /\ btype = NoLib
  /\ frame = "none" /\ ret = "none" /\ fault = "none"
  /\ sessions = 0 /\ failedInits = 0
  /\ opened     = [l \in Libs |-> 0]
  /\ nativeMPI  = [l \in Libs |-> "fresh"]
  /\ nativeTool = [l \in Libs |-> 0]
  /\ entry = NoEntry /\ starts = 0

-----------------------------------------------------------------------------
(***************************************************************************)
(* Helpers.                                                                *)
(***************************************************************************)

(* Application code runs between calls, and inside the native calls that   *)
(* call it back.                                                           *)
UserCode == fault = "none" /\ (frame = "none" \/ frame \in Callbacks)

(* Mutant of CanInitialize: a finalized MPI may be initialized again.      *)
CanInitializeAgain == state \in {"NEVER", "INIT_FAILED", "FINALIZED"}

(* check_can_initialize; RefuseInit answers in the other states.           *)
CanInitialize == state \in {"NEVER", "INIT_FAILED"}

Native(l) == Outcome[l] = "native"

LoadCode(l) ==
  IF Outcome[l] = "abi" THEN "ABI_MISMATCH"
  ELSE IF Outcome[l] = "absent" THEN "BACKEND_LOAD"
  ELSE IF Outcome[l] = "no_core" THEN "SYMBOL_NOT_FOUND"
  ELSE IF Outcome[l] = "unsupported" THEN "BACKEND_NOT_SUPPORTED"
  ELSE IF Outcome[l] = "no_comm" THEN "BACKEND_INIT_FAILED"
  ELSE "OK"

(* Mutant of LoadFrom: the library stays open when unimpi_vtable_init      *)
(* fails.                                                                  *)
LoadFromLeaking(l) ==
  /\ Native(l) => opened[l] < MaxOpens
  /\ handle' = IF Native(l) THEN l ELSE NoLib
  /\ opened' = IF Outcome[l] \in {"abi", "absent"} \/ opened[l] >= MaxOpens
               THEN opened ELSE [opened EXCEPT ![l] = @ + 1]
  /\ tvt'    = IF Native(l) THEN l
               ELSE IF Outcome[l] \in {"abi", "absent"} THEN tvt ELSE NoLib
  /\ btype'  = IF Outcome[l] \in {"unsupported", "no_comm", "native"} THEN l ELSE btype
  /\ vt'     = IF Outcome[l] \in {"no_comm", "native"} THEN l ELSE vt

(* unimpi_loader_load(l, &g_handle), then unimpi_vtable_init(g_handle),    *)
(* then the unload and g_handle = NULL of both callers when it fails.      *)
(* loader_load clears g_handle before it tries anything; vtable_init       *)
(* clears `unimpi_mt', and fills `unimpi' before it can still fail.        *)
LoadFrom(l) ==
  /\ Native(l) => opened[l] < MaxOpens
  /\ handle' = IF Native(l) THEN l ELSE NoLib
  /\ opened' = IF Native(l) THEN [opened EXCEPT ![l] = @ + 1] ELSE opened
  /\ tvt'    = IF Native(l) THEN l
               ELSE IF Outcome[l] \in {"abi", "absent"} THEN tvt ELSE NoLib
  /\ btype'  = IF Outcome[l] \in {"unsupported", "no_comm", "native"} THEN l ELSE btype
  /\ vt'     = IF Outcome[l] \in {"no_comm", "native"} THEN l ELSE vt

(* Mutant of EnsureLoaded: not idempotent, loads again every time.         *)
EnsureLoadedAgain(l) ==
  /\ LoadFrom(l)
  /\ identity' = IF Native(l) THEN l ELSE identity
  /\ loaded'   = Native(l)

(* unimpi_ensure_loaded, with l what the environment variables select.     *)
EnsureLoaded(l) ==
  IF loaded
    THEN UNCHANGED <<handle, opened, tvt, btype, vt, identity, loaded>>
    ELSE /\ LoadFrom(l)
         /\ identity' = IF Native(l) THEN l ELSE identity
         /\ loaded'   = Native(l)

(* Calling through a slot of a table: NULL, or into an unmapped image.     *)
CallFault(table, opens) ==
  IF table = NoLib THEN "null_call"
  ELSE IF opens[table] = 0 THEN "unmapped_call" ELSE "none"

(* unimpi_vtable_cleanup: leaves `unimpi_mt' alone.                        *)
CleanupVtable == vt' = NoLib /\ btype' = NoLib

(* Mutant of UnloadHandle: closes the handle twice.                        *)
UnloadHandleTwice == opened' = [opened EXCEPT ![handle] = @ - 2] /\ handle' = NoLib

(* dlclose of the current handle; the image goes when its count reaches 0, *)
(* and with it the native state it kept.                                   *)
UnloadHandle == opened' = [opened EXCEPT ![handle] = @ - 1] /\ handle' = NoLib

Images(mpi, tool) ==
  /\ nativeMPI'  = [l \in Libs |-> IF opened'[l] = 0 THEN "fresh" ELSE mpi[l]]
  /\ nativeTool' = [l \in Libs |-> IF opened'[l] = 0 THEN 0 ELSE tool[l]]

(* Mutants of ReleaseRef: unloads one holder too early, one holder too     *)
(* late, and without giving the reference back.                            *)
ReleaseRefEarly ==
  /\ refcount' = refcount - 1
  /\ IF refcount - 1 <= 1 /\ handle # NoLib
       THEN UnloadHandle /\ loaded' = FALSE
       ELSE UNCHANGED <<opened, handle, loaded>>

ReleaseRefLate ==
  /\ refcount' = refcount - 1
  /\ IF refcount - 1 < 0 /\ handle # NoLib
       THEN UnloadHandle /\ loaded' = FALSE
       ELSE UNCHANGED <<opened, handle, loaded>>

ReleaseRefUncounted ==
  /\ refcount' = refcount
  /\ IF refcount - 1 <= 0 /\ handle # NoLib
       THEN UnloadHandle /\ loaded' = FALSE
       ELSE UNCHANGED <<opened, handle, loaded>>

(* g_refcount-- and, at zero, the unload: the same lines in                *)
(* initialize_backend, unimpi_finalize and unimpi_mt_ref_release.          *)
ReleaseRef ==
  /\ refcount' = refcount - 1
  /\ IF refcount - 1 <= 0 /\ handle # NoLib
       THEN UnloadHandle /\ loaded' = FALSE
       ELSE UNCHANGED <<opened, handle, loaded>>

(* Usage a run may assume of the native library and of the application.    *)
MayFailInit(held) == InitFailsWhenHeld \/ ~held
MayInitWith       == InitWithWhenHeld \/ refcount = 0
MayUseTool        == ToolInInitWith \/ frame # "init_with"

(* The native call goes into library l; it returns there, whatever became  *)
(* of the table in the meantime.                                           *)
Enter(call, l) == frame' = call /\ entry' = HoldsNow(l)
Leave          == frame' = "none" /\ entry' = NoEntry
Returns(call)  == frame = call /\ fault = "none" /\ opened[entry.lib] > 0

-----------------------------------------------------------------------------
(***************************************************************************)
(* unimpi_init and unimpi_init_thread.                                     *)
(***************************************************************************)

(* The environment selects l and it does not load.                         *)
InitLoadFails(l) ==
  /\ UserCode /\ CanInitialize
  /\ ~loaded /\ ~Native(l)
  /\ EnsureLoaded(l)
  /\ state' = "INIT_FAILED"
  /\ ret' = LoadCode(l)
  /\ UNCHANGED <<refcount, mpitInited, frame, fault, sessions, failedInits,
                 nativeMPI, nativeTool, history>>

(* The library is there: take a reference, call the native MPI_Init.       *)
InitBegin(l) ==
  /\ UserCode /\ CanInitialize
  /\ loaded \/ Native(l)
  /\ refcount < MaxRefs
  /\ EnsureLoaded(l)
  /\ state' = "INITIALIZING"
  /\ refcount' = refcount + 1
  /\ Enter("init", vt')
  /\ fault' = CallFault(vt', opened')
  /\ ret' = "none"
  /\ UNCHANGED <<mpitInited, sessions, failedInits, nativeMPI, nativeTool, starts>>

(* The native MPI_Init succeeded in the library it was called in.          *)
NativeInitDone ==
  nativeMPI' = [nativeMPI EXCEPT ![entry.lib] = "running"] /\ starts' = starts + 1

InitSucceeds ==
  /\ Returns("init")
  /\ state' = "ACTIVE"
  /\ ret' = "OK"
  /\ NativeInitDone
  /\ Leave
  /\ UNCHANGED <<refcount, handle, loaded, mpitInited, identity, vt, tvt, btype,
                 fault, sessions, failedInits, opened, nativeTool>>

(* Mutant of InitFails: returns without giving the hold back.              *)
InitFailsHolding ==
  /\ Returns("init")
  /\ MayFailInit(refcount > 1)
  /\ CleanupVtable
  /\ identity' = NoLib
  /\ state' = "INIT_FAILED"
  /\ ret' = "BACKEND_LOAD"
  /\ Leave
  /\ UNCHANGED <<refcount, handle, loaded, mpitInited, tvt, fault, sessions,
                 failedInits, native, starts>>

InitFails ==
  /\ Returns("init")
  /\ MayFailInit(refcount > 1)
  /\ CleanupVtable
  /\ ReleaseRef
  /\ Images(nativeMPI, nativeTool)
  /\ identity' = NoLib
  /\ state' = "INIT_FAILED"
  /\ ret' = "BACKEND_LOAD"
  /\ Leave
  /\ UNCHANGED <<mpitInited, tvt, fault, sessions, failedInits, starts>>

(***************************************************************************)
(* unimpi_init_with.                                                       *)
(***************************************************************************)
InitWithLoadFails(l) ==
  /\ UserCode /\ CanInitialize /\ MayInitWith
  /\ ~Native(l)
  /\ LoadFrom(l)
  /\ state' = "INIT_FAILED"
  /\ ret' = LoadCode(l)
  /\ UNCHANGED <<refcount, loaded, mpitInited, identity, frame, fault, sessions,
                 failedInits, nativeMPI, nativeTool, history>>

InitWithBegin(l) ==
  /\ UserCode /\ CanInitialize /\ MayInitWith
  /\ Native(l)
  /\ refcount < MaxRefs
  /\ LoadFrom(l)
  /\ identity' = l
  /\ state' = "INITIALIZING"
  /\ Enter("init_with", vt')
  /\ fault' = CallFault(vt', opened')
  /\ ret' = "none"
  /\ UNCHANGED <<refcount, loaded, mpitInited, sessions, failedInits,
                 nativeMPI, nativeTool, starts>>

InitWithSucceeds ==
  /\ Returns("init_with")
  /\ refcount' = refcount + 1
  /\ loaded' = TRUE
  /\ state' = "ACTIVE"
  /\ ret' = "OK"
  /\ NativeInitDone
  /\ Leave
  /\ UNCHANGED <<handle, mpitInited, identity, vt, tvt, btype, fault, sessions,
                 failedInits, opened, nativeTool>>

(* Unloads what g_handle names by now, without looking at, or correcting,  *)
(* the count and the flag.                                                 *)
InitWithFails ==
  /\ Returns("init_with")
  /\ MayFailInit(refcount > 0)
  /\ CleanupVtable
  /\ IF handle # NoLib THEN UnloadHandle ELSE UNCHANGED <<opened, handle>>
  /\ Images(nativeMPI, nativeTool)
  /\ identity' = NoLib
  /\ state' = "INIT_FAILED"
  /\ ret' = "BACKEND_LOAD"
  /\ Leave
  /\ UNCHANGED <<refcount, loaded, mpitInited, tvt, fault, sessions, failedInits, starts>>

(***************************************************************************)
(* unimpi_finalize.                                                        *)
(***************************************************************************)
FinalizeFault ==
  IF CallFault(vt, opened) # "none" THEN CallFault(vt, opened)
  ELSE IF nativeMPI[vt] # "running" THEN "wrong_library" ELSE "none"

FinalizeBegin ==
  /\ UserCode /\ state = "ACTIVE"
  /\ state' = "FINALIZING"
  /\ Enter("finalize", vt)
  /\ fault' = FinalizeFault
  /\ ret' = "none"
  /\ UNCHANGED <<refcount, handle, loaded, mpitInited, identity, vt, tvt, btype,
                 sessions, failedInits, native, starts>>

(* Everything is given back whatever the native MPI_Finalize answered.     *)
FinalizeReturn(ok) ==
  /\ Returns("finalize")
  /\ CleanupVtable
  /\ ReleaseRef
  /\ Images([nativeMPI EXCEPT ![entry.lib] = "over"], nativeTool)
  /\ identity' = NoLib
  /\ state' = IF ok THEN "FINALIZED" ELSE "FINALIZE_FAILED"
  /\ ret'   = IF ok THEN "OK" ELSE "NATIVE_ERROR"
  /\ Leave
  /\ UNCHANGED <<mpitInited, tvt, fault, sessions, failedInits, starts>>

(***************************************************************************)
(* Calls that are refused, from the state or from their arguments.         *)
(***************************************************************************)
Answer(code) ==
  ret' = code /\ UNCHANGED <<globals, frame, fault, sessions, failedInits, native, history>>

RefuseInit ==
  /\ UserCode
  /\ \/ state \in {"INITIALIZING", "ACTIVE"} /\ Answer("ALREADY_INITIALIZED")
     \/ state = "FINALIZED" /\ Answer("FINALIZED")
     \/ state \in {"FINALIZING", "FINALIZE_FAILED"} /\ Answer("INVALID_STATE")

RefuseFinalize ==
  /\ UserCode
  /\ \/ state \in {"NEVER", "INIT_FAILED"} /\ Answer("NOT_INITIALIZED")
     \/ state = "FINALIZED" /\ Answer("FINALIZED")
     \/ state \in {"INITIALIZING", "FINALIZING", "FINALIZE_FAILED"} /\ Answer("INVALID_STATE")

(* A bad thread level or no place for the provided one; no backend name.   *)
RejectArgument == UserCode /\ \E code \in {"INVALID_ARGUMENT", "NO_BACKEND"} : Answer(code)

(***************************************************************************)
(* unimpi_mpit_init_thread and unimpi_mpit_finalize.                       *)
(***************************************************************************)
ToolInitLoadFails(l) ==
  /\ UserCode /\ MayUseTool
  /\ ~loaded /\ ~Native(l)
  /\ EnsureLoaded(l)
  /\ ret' = LoadCode(l)
  /\ UNCHANGED <<state, refcount, mpitInited, frame, fault, sessions, failedInits,
                 nativeMPI, nativeTool, history>>

(* The reference is taken and the flag set before the native call, and     *)
(* neither is given back when that fails.                                  *)
ToolInit(l, ok) ==
  /\ UserCode /\ MayUseTool
  /\ loaded \/ Native(l)
  /\ refcount < MaxRefs
  /\ EnsureLoaded(l)
  /\ refcount' = refcount + 1
  /\ mpitInited' = TRUE
  /\ fault' = CallFault(tvt', opened')
  /\ LET success == ok /\ fault' = "none" IN
       /\ ret'         = IF success THEN "OK" ELSE "NATIVE_ERROR"
       /\ sessions'    = IF success THEN sessions + 1 ELSE sessions
       /\ failedInits' = IF success THEN failedInits ELSE failedInits + 1
       /\ nativeTool'  = IF success THEN [nativeTool EXCEPT ![tvt'] = @ + 1] ELSE nativeTool
  /\ UNCHANGED <<state, frame, nativeMPI, history>>

(* Where the native MPI_T_finalize would go: into a table that was never   *)
(* filled or is no longer mapped, or to a library MPI-T was not opened on. *)
ToolFinalizeFault ==
  IF CallFault(tvt, opened) # "none" THEN CallFault(tvt, opened)
  ELSE IF nativeTool[tvt] = 0 THEN "wrong_library" ELSE "none"

(* The application finalizes what it opened.                               *)
ToolFinalize(ok) ==
  /\ UserCode /\ MayUseTool /\ sessions > 0
  /\ ToolFinalizeFault = "none"
  /\ mpitInited' = FALSE
  /\ ReleaseRef
  /\ Images(nativeMPI, [nativeTool EXCEPT ![tvt] = @ - 1])
  /\ sessions' = sessions - 1
  /\ ret' = IF ok THEN "OK" ELSE "NATIVE_ERROR"
  /\ UNCHANGED <<state, identity, vt, tvt, btype, frame, fault, failedInits, history>>

ToolFinalizeDies ==
  /\ UserCode /\ MayUseTool /\ sessions > 0
  /\ ToolFinalizeFault # "none"
  /\ fault' = ToolFinalizeFault
  /\ UNCHANGED <<globals, frame, ret, sessions, failedInits, native, history>>

(* A native lifecycle call of MPI whose library was unmapped meanwhile.    *)
ReturnDies ==
  /\ frame # "none" /\ fault = "none" /\ opened[entry.lib] = 0
  /\ fault' = "unmapped_return"
  /\ UNCHANGED <<globals, frame, ret, sessions, failedInits, native, history>>

-----------------------------------------------------------------------------
MPIStep ==
  \/ \E l \in Libs : InitLoadFails(l)
  \/ \E l \in Libs : InitBegin(l)
  \/ InitSucceeds
  \/ InitFails
  \/ \E l \in Libs : InitWithLoadFails(l)
  \/ \E l \in Libs : InitWithBegin(l)
  \/ InitWithSucceeds
  \/ InitWithFails
  \/ FinalizeBegin
  \/ \E ok \in BOOLEAN : FinalizeReturn(ok)
  \/ RefuseInit
  \/ RefuseFinalize
  \/ RejectArgument

ToolStep ==
  \/ \E l \in Libs : ToolInitLoadFails(l)
  \/ \E l \in Libs, ok \in BOOLEAN : ToolInit(l, ok)
  \/ \E ok \in BOOLEAN : ToolFinalize(ok)

Dies == ToolFinalizeDies \/ ReturnDies

Next == MPIStep \/ ToolStep \/ Dies

Spec == Init /\ [][Next]_vars

-----------------------------------------------------------------------------
(***************************************************************************)
(* Properties of every use of the library.                                 *)
(***************************************************************************)

(* The type of every variable.                                             *)
TypeOK ==
  /\ state \in States /\ refcount \in Int /\ handle \in Tables
  /\ loaded \in BOOLEAN /\ mpitInited \in BOOLEAN /\ identity \in Tables
  /\ vt \in Tables /\ tvt \in Tables /\ btype \in Tables
  /\ frame \in {"none", "init", "init_with", "finalize"} /\ ret \in Codes
  /\ fault \in {"none", "null_call", "unmapped_call", "wrong_library", "unmapped_return"}
  /\ sessions \in Nat /\ failedInits \in Nat
  /\ opened \in [Libs -> Nat]
  /\ nativeMPI \in [Libs -> {"fresh", "running", "over"}]
  /\ nativeTool \in [Libs -> Nat]
  /\ entry \in [lib : Tables, refs : Int, pins : Nat, opened : [Libs -> Nat]]
  /\ starts \in Nat

(* The flags of unimpi_mpi_initialized and unimpi_mpi_finalized.           *)
MpiInitialized == state \in {"ACTIVE", "FINALIZING", "FINALIZED", "FINALIZE_FAILED"}
MpiFinalized   == state = "FINALIZED"

(* g_refcount is the number of live holders (an active MPI, every open     *)
(* MPI-T session) plus the references stranded by MPI_T_init_thread calls  *)
(* that failed in the library (mpit.c:21-23).  A failed one strands exactly*)
(* one, and no order of failures, retries and callbacks strands another or *)
(* gives one back twice.  Inside MPI_Init the two entry points differ:     *)
(* initialize_backend has taken MPI's reference (core.c:193), and          *)
(* unimpi_init_with takes it only afterwards (core.c:327).                 *)
LiveHolders == sessions + (IF state \in {"ACTIVE", "FINALIZING"} THEN 1 ELSE 0)
BeforeInit  == IF frame = "init" THEN 1 ELSE 0

RefcountIsHolders == refcount = LiveHolders + BeforeInit + failedInits

(* The native MPI_Init succeeds at most once in the life of the process,   *)
(* in whatever library and however many failed attempts came before, also  *)
(* when the library of an earlier one is long unmapped; and nothing runs   *)
(* any more once MPI_Finalize has returned.                                *)
OneNativeMPI ==
  /\ starts <= 1
  /\ state \in {"FINALIZED", "FINALIZE_FAILED"} =>
       \A l \in Libs : nativeMPI[l] # "running"

(* MPI_Initialized and MPI_Finalized, once true, stay true: across failed  *)
(* finalization, MPI-T calls and refused retries.                          *)
FlagsNeverGoBack ==
  [][/\ MpiInitialized => MpiInitialized'
     /\ MpiFinalized => MpiFinalized']_vars

-----------------------------------------------------------------------------
(***************************************************************************)
(* Properties of every use with ~ToolInInitWith: MPI-T is left alone while *)
(* unimpi_init_with is in the native MPI_Init.                             *)
(***************************************************************************)

(* While MPI is active, and while MPI_Finalize and the callbacks inside it *)
(* run, the dispatch table leads into a mapped library in which the native *)
(* MPI is running.                                                         *)
ActiveDispatch ==
  state \in {"ACTIVE", "FINALIZING"} =>
    /\ vt # NoLib
    /\ opened[vt] > 0
    /\ nativeMPI[vt] = "running"

(* A native MPI_Init or MPI_Finalize returns into code that is still       *)
(* mapped, and to a table that still leads there: no MPI-T call inside it  *)
(* closes or replaces the library on the stack.                            *)
ReturnsToMapped ==
  frame # "none" /\ fault = "none" => opened[entry.lib] > 0 /\ vt = entry.lib

(* A call that ends in a UniMPI error leaves no dlopen and no reference    *)
(* behind that was not there when it was entered, before any native call,  *)
(* except for what MPI-T took inside it.                                   *)
UniMPIErrors == Codes \ {"none", "OK", "NATIVE_ERROR"}

ErrorsLeakNothing ==
  [][ret' \in UniMPIErrors =>
       LET found == IF frame' # frame THEN entry ELSE HoldsNow(NoLib) IN
       /\ refcount' - Pins' <= found.refs - found.pins
       /\ Pins' <= found.pins => \A l \in Libs : opened'[l] <= found.opened[l]]_vars

-----------------------------------------------------------------------------
(***************************************************************************)
(* Properties of contract use: ~InitFailsWhenHeld, ~InitWithWhenHeld and   *)
(* ~ToolInInitWith.                                                        *)
(***************************************************************************)

(* No UniMPI call goes through an empty slot, into an unmapped library, or *)
(* to a library the session was not opened on or whose MPI does not run,   *)
(* and no native call returns into an unmapped one.                        *)
NoFault == fault = "none"

(* The library g_handle names is open exactly once and every other one is  *)
(* closed: nothing is leaked and nothing is closed twice.                  *)
LibraryBalance ==
  \A l \in Libs : opened[l] = IF l = handle THEN 1 ELSE 0

(* As long as an MPI-T session is open its table leads into the mapped     *)
(* library that opened it, before MPI_Init, after a failed MPI_Init and    *)
(* after MPI_Finalize alike.                                               *)
ToolCallable ==
  sessions > 0 => /\ tvt # NoLib
                  /\ opened[tvt] > 0
                  /\ nativeTool[tvt] = sessions

(* A library is unmapped only when neither of its interfaces is running.   *)
UnmapOnlyQuiescent ==
  [][\A l \in Libs : opened[l] > 0 /\ opened'[l] = 0 =>
       /\ nativeTool[l] > 0 => sessions' = 0
       /\ nativeMPI[l] = "running" => state' \in {"FINALIZED", "FINALIZE_FAILED"}]_vars

(* The lifecycle implements the abstract hold on one library.              *)
AbstractMPI ==
  IF CanInitialize THEN "idle"
  ELSE IF state = "INITIALIZING" THEN "starting"
  ELSE IF state = "ACTIVE" THEN "up"
  ELSE IF state = "FINALIZING" THEN "closing"
  ELSE "over"

Hold == INSTANCE LibraryHold WITH mpi <- AbstractMPI,
                                  pins <- Pins,
                                  mapped <- {l \in Libs : opened[l] > 0}

HoldSpec == Hold!Spec

-----------------------------------------------------------------------------
(***************************************************************************)
(* What the documentation says of uses outside that contract, and of       *)
(* details the code does not keep.                                         *)
(***************************************************************************)

(* core.c, check_can_initialize: a failed initialization may be retried.   *)
(* So whenever an initialization gets as far as the native MPI_Init, there *)
(* is a table to call it through.                                          *)
RetryReachesLibrary == state = "INITIALIZING" => vt # NoLib

(* core.c, comment on g_backend_loaded: with the library opened and both   *)
(* tables filled from it, unimpi_ensure_loaded loads nothing again.        *)
EnsuredOnce ==
  [][handle # NoLib /\ vt = handle /\ tvt = handle =>
       \A l \in Libs : opened'[l] <= opened[l]]_vars

(* docs/API.md: unimpi_get_backend_name names the backend that is loaded.  *)
IdentityIsLoaded == frame = "none" => (identity # NoLib => identity = handle)
=============================================================================
