--------------------------- MODULE LifecycleProofs ---------------------------
(***************************************************************************)
(* Theorems about Lifecycle.  The first part holds for every use of the    *)
(* library, whatever fails and in whatever order the entry points are      *)
(* called.                                                                 *)
(***************************************************************************)
EXTENDS Lifecycle, TLAPS

USE LibsAssumption, CallbacksAssumption, UsageAssumption, BoundsAssumption

-----------------------------------------------------------------------------
(* The call on the stack and g_state tell the same story.                  *)
FramesMatch ==
  /\ frame \in {"init", "init_with"} <=> state = "INITIALIZING"
  /\ frame = "finalize" <=> state = "FINALIZING"

(* A handle is a library that is open.                                     *)
HandleOpen == handle # NoLib => opened[handle] > 0

(* With a reference taken, g_backend_loaded is set, so nothing is loaded   *)
(* in place of what is referenced.                                         *)
ReferencedLoaded == refcount > 0 => loaded

(* What starts counts, and where native MPI can be running: in one library *)
(* at most, and during MPI_Finalize in the one on the stack.               *)
StartsOnce ==
  /\ starts = IF MpiInitialized THEN 1 ELSE 0
  /\ \A l \in Libs : nativeMPI[l] = "running" => state \in {"ACTIVE", "FINALIZING"}
  /\ \A k, l \in Libs : nativeMPI[k] = "running" /\ nativeMPI[l] = "running" => k = l
  /\ frame = "finalize" /\ fault = "none" =>
       entry.lib \in Libs /\ opened[entry.lib] > 0 /\ nativeMPI[entry.lib] = "running"

(* The inductive invariant of the first part.                              *)
IInv ==
  /\ TypeOK
  /\ RefcountIsHolders
  /\ FramesMatch
  /\ HandleOpen
  /\ ReferencedLoaded
  /\ StartsOnce

(***************************************************************************)
(* What the helper operators do to the variables they change.              *)
(***************************************************************************)
LEMMA CallFaultType ==
  ASSUME NEW table, NEW opens
  PROVE  CallFault(table, opens) \in {"none", "null_call", "unmapped_call"}
BY DEF CallFault

LEMMA LoadCodeType == ASSUME NEW l \in Libs PROVE LoadCode(l) \in Codes \ {"none", "NATIVE_ERROR"}
BY DEF LoadCode, Codes

(* A load opens its library or nothing, and closes nothing.                *)
LEMMA LoadFromEffect ==
  ASSUME TypeOK, NEW l \in Libs, LoadFrom(l)
  PROVE  /\ handle' \in Tables /\ tvt' \in Tables /\ btype' \in Tables /\ vt' \in Tables
         /\ opened' \in [Libs -> Nat]
         /\ \A k \in Libs : opened'[k] >= opened[k]
         /\ Native(l) => handle' = l /\ vt' = l /\ tvt' = l /\ opened'[l] = opened[l] + 1
         /\ Native(l) => \A k \in Libs \ {l} : opened'[k] = opened[k]
         /\ ~Native(l) => handle' = NoLib /\ opened' = opened
BY DEF LoadFrom, TypeOK, Tables, Native

LEMMA EnsureLoadedEffect ==
  ASSUME TypeOK, NEW l \in Libs, EnsureLoaded(l)
  PROVE  /\ handle' \in Tables /\ tvt' \in Tables /\ btype' \in Tables /\ vt' \in Tables
         /\ identity' \in Tables /\ loaded' \in BOOLEAN
         /\ opened' \in [Libs -> Nat]
         /\ \A k \in Libs : opened'[k] >= opened[k]
         /\ HandleOpen => HandleOpen'
         /\ loaded => UNCHANGED <<handle, opened, tvt, btype, vt, identity, loaded>>
         /\ ~loaded /\ ~Native(l) => opened' = opened
         /\ loaded \/ Native(l) => loaded'
<1>1. CASE loaded
  BY <1>1 DEF EnsureLoaded, TypeOK, HandleOpen
<1>2. CASE ~loaded
  <2>1. /\ LoadFrom(l)
        /\ identity' = IF Native(l) THEN l ELSE identity
        /\ loaded' = Native(l)
    BY <1>2 DEF EnsureLoaded
  <2>2. loaded' \in BOOLEAN
    BY <2>1 DEF Native
  <2>3. HandleOpen'
    BY <2>1, LoadFromEffect DEF TypeOK, HandleOpen
  <2> QED
    BY <1>2, <2>1, <2>2, <2>3, LoadFromEffect DEF TypeOK, Tables
<1> QED
  BY <1>1, <1>2

(* Closing the handle takes exactly one open away, and only from it.       *)
LEMMA UnloadEffect ==
  ASSUME TypeOK, HandleOpen, handle # NoLib, UnloadHandle
  PROVE  /\ handle' = NoLib
         /\ opened' \in [Libs -> Nat]
         /\ opened'[handle] = opened[handle] - 1
         /\ \A l \in Libs \ {handle} : opened'[l] = opened[l]
BY DEF TypeOK, Tables, HandleOpen, UnloadHandle

LEMMA ReleaseEffect ==
  ASSUME TypeOK, HandleOpen, ReleaseRef
  PROVE  /\ refcount' = refcount - 1
         /\ handle' \in Tables /\ loaded' \in BOOLEAN
         /\ opened' \in [Libs -> Nat]
         /\ \A l \in Libs : opened'[l] <= opened[l]
         /\ refcount > 1 => UNCHANGED <<handle, loaded, opened>>
         /\ HandleOpen'
<1>1. refcount' = refcount - 1
  BY DEF ReleaseRef
<1>2. CASE refcount - 1 <= 0 /\ handle # NoLib
  <2>1. UnloadHandle /\ loaded' = FALSE
    BY <1>2 DEF ReleaseRef
  <2>2. handle \in Libs /\ opened[handle] \in Nat /\ refcount \in Int
    BY <1>2 DEF TypeOK, Tables
  <2>3. /\ handle' = NoLib /\ opened' \in [Libs -> Nat]
        /\ opened'[handle] = opened[handle] - 1
        /\ \A l \in Libs \ {handle} : opened'[l] = opened[l]
    BY <1>2, <2>1, UnloadEffect
  <2>4. \A l \in Libs : opened'[l] <= opened[l]
    BY <2>2, <2>3 DEF TypeOK
  <2>5. ~(refcount > 1)
    BY <1>2, <2>2
  <2> QED
    BY <1>1, <2>1, <2>3, <2>4, <2>5 DEF Tables, HandleOpen
<1>3. CASE ~(refcount - 1 <= 0 /\ handle # NoLib)
  <2>1. UNCHANGED <<opened, handle, loaded>>
    BY <1>3 DEF ReleaseRef
  <2> QED
    BY <1>1, <2>1 DEF TypeOK, HandleOpen
<1> QED
  BY <1>2, <1>3

(* The reference of the MPI interface.                                     *)
MPIHold == IF state \in {"ACTIVE", "FINALIZING"} \/ frame = "init" THEN 1 ELSE 0

(* With the MPI interface up the library is loaded, and one MPI-T          *)
(* reference more makes two.                                               *)
LEMMA Held ==
  ASSUME TypeOK, RefcountIsHolders, FramesMatch, ReferencedLoaded
  PROVE  /\ refcount = MPIHold + Pins
         /\ MPIHold = 1 => loaded
         /\ MPIHold = 1 /\ sessions > 0 => refcount > 1
BY DEF TypeOK, RefcountIsHolders, FramesMatch, ReferencedLoaded, MPIHold, LiveHolders, BeforeInit,
   Pins

(* The holds have their types, now and after a typed step.                 *)
LEMMA TypedHolds ==
  /\ TypeOK => refcount \in Int /\ Pins \in Nat /\ opened \in [Libs -> Nat]
  /\ TypeOK' => refcount' \in Int /\ Pins' \in Nat /\ opened' \in [Libs -> Nat]
<1>1. \A i, j \in Nat : i + j \in Nat
  OBVIOUS
<1>2. TypeOK' => /\ sessions' \in Nat /\ failedInits' \in Nat
                 /\ refcount' \in Int /\ opened' \in [Libs -> Nat]
  BY DEF TypeOK
<1>3. TypeOK' => Pins' \in Nat
  BY <1>1, <1>2 DEF Pins
<1> QED
  BY <1>2, <1>3 DEF TypeOK, Pins

LEMMA ImagesEffect ==
  ASSUME NEW mpi \in [Libs -> {"fresh", "running", "over"}], NEW tool \in [Libs -> Nat],
         opened' \in [Libs -> Nat], Images(mpi, tool)
  PROVE  /\ nativeMPI' \in [Libs -> {"fresh", "running", "over"}]
         /\ nativeTool' \in [Libs -> Nat]
         /\ \A l \in Libs : nativeMPI'[l] = IF opened'[l] = 0 THEN "fresh" ELSE mpi[l]
         /\ \A l \in Libs : nativeTool'[l] = IF opened'[l] = 0 THEN 0 ELSE tool[l]
BY DEF Images

-----------------------------------------------------------------------------
(* A failed unimpi_init_with closes what g_handle names, if anything.      *)
LEMMA UnloadIfAnyEffect ==
  ASSUME TypeOK, HandleOpen,
         IF handle # NoLib THEN UnloadHandle ELSE UNCHANGED <<opened, handle>>
  PROVE  /\ handle' = NoLib
         /\ opened' \in [Libs -> Nat]
         /\ \A l \in Libs : opened'[l] = opened[l] - (IF l = handle THEN 1 ELSE 0)
<1>1. CASE handle # NoLib
  BY <1>1, UnloadEffect DEF TypeOK
<1>2. CASE handle = NoLib
  BY <1>2, LibsAssumption DEF TypeOK
<1> QED
  BY <1>1, <1>2

-----------------------------------------------------------------------------
(* The history variables keep their type.                                  *)
EntryTypes == [lib : Tables, refs : Int, pins : Nat, opened : [Libs -> Nat]]

LEMMA EntryType ==
  ASSUME TypeOK
  PROVE  /\ entry \in EntryTypes
         /\ NoEntry \in EntryTypes
         /\ \A l \in Tables : HoldsNow(l) \in EntryTypes
<1>1. [l \in Libs |-> 0] \in [Libs -> Nat] /\ NoLib \in Tables
  BY DEF Tables
<1>2. opened \in [Libs -> Nat] /\ refcount \in Int /\ sessions + failedInits \in Nat
  BY DEF TypeOK
<1>3. entry \in EntryTypes
  BY DEF TypeOK, EntryTypes
<1> QED
  BY <1>1, <1>2, <1>3 DEF NoEntry, HoldsNow, Pins, EntryTypes

LEMMA HistoryTypeStep ==
  ASSUME TypeOK, [Next]_vars
  PROVE  entry' \in EntryTypes /\ starts' \in Nat
<1>0. starts \in Nat /\ vt \in Tables
  BY DEF TypeOK
<1>1. ASSUME NEW l \in Libs, InitBegin(l) \/ InitWithBegin(l)
      PROVE  entry' \in EntryTypes /\ starts' \in Nat
  <2>1. vt' \in Tables
    BY <1>1, EnsureLoadedEffect, LoadFromEffect DEF InitBegin, InitWithBegin
  <2> QED
    BY <1>0, <1>1, <2>1, EntryType DEF InitBegin, InitWithBegin, Enter
<1>2. CASE FinalizeBegin
  BY <1>0, <1>2, EntryType DEF FinalizeBegin, Enter
<1>3. CASE InitSucceeds \/ InitFails \/ InitWithSucceeds \/ InitWithFails
  BY <1>0, <1>3, EntryType
     DEF InitSucceeds, InitFails, InitWithSucceeds, InitWithFails, Leave, NativeInitDone
<1>4. ASSUME NEW ok \in BOOLEAN, FinalizeReturn(ok) \/ ToolFinalize(ok)
      PROVE  entry' \in EntryTypes /\ starts' \in Nat
  BY <1>0, <1>4, EntryType DEF FinalizeReturn, ToolFinalize, Leave, history
<1>5. ASSUME NEW l \in Libs, NEW ok \in BOOLEAN,
             \/ InitLoadFails(l) \/ InitWithLoadFails(l) \/ ToolInitLoadFails(l)
             \/ ToolInit(l, ok)
      PROVE  entry' \in EntryTypes /\ starts' \in Nat
  BY <1>0, <1>5, EntryType
     DEF InitLoadFails, InitWithLoadFails, ToolInitLoadFails, ToolInit, history
<1>6. CASE RefuseInit \/ RefuseFinalize \/ RejectArgument \/ Dies \/ UNCHANGED vars
  BY <1>0, <1>6, EntryType DEF RefuseInit, RefuseFinalize, RejectArgument, Dies, ToolFinalizeDies,
     ReturnDies, Answer, vars, history
<1> QED
  BY <1>1, <1>2, <1>3, <1>4, <1>5, <1>6 DEF Next, MPIStep, ToolStep

(* Every variable keeps its type in every step.                            *)
LEMMA TypeStep ==
  TypeOK /\ HandleOpen /\ [Next]_vars => TypeOK'
<1> SUFFICES ASSUME TypeOK, HandleOpen, [Next]_vars PROVE TypeOK'
  OBVIOUS
<1>0. /\ entry' \in [lib : Tables, refs : Int, pins : Nat, opened : [Libs -> Nat]]
      /\ starts' \in Nat
  BY HistoryTypeStep DEF EntryTypes
<1> DEFINE Rest == /\ state' \in States /\ refcount' \in Int /\ handle' \in Tables
                   /\ loaded' \in BOOLEAN /\ mpitInited' \in BOOLEAN /\ identity' \in Tables
                   /\ vt' \in Tables /\ tvt' \in Tables /\ btype' \in Tables
                   /\ frame' \in {"none", "init", "init_with", "finalize"} /\ ret' \in Codes
                   /\ fault' \in {"none", "null_call", "unmapped_call", "wrong_library",
                                  "unmapped_return"}
                   /\ sessions' \in Nat /\ failedInits' \in Nat
                   /\ opened' \in [Libs -> Nat]
                   /\ nativeMPI' \in [Libs -> {"fresh", "running", "over"}]
                   /\ nativeTool' \in [Libs -> Nat]
<1> SUFFICES Rest
  BY <1>0 DEF TypeOK
<1>1. ASSUME NEW l \in Libs, InitLoadFails(l) PROVE Rest
  BY <1>1, EnsureLoadedEffect, LoadCodeType DEF InitLoadFails, TypeOK, States, Codes
<1>2. ASSUME NEW l \in Libs, InitBegin(l) PROVE Rest
  BY <1>2, EnsureLoadedEffect, CallFaultType DEF InitBegin, Enter, TypeOK, States, Codes
<1>3. ASSUME InitSucceeds PROVE Rest
  BY <1>3 DEF InitSucceeds, NativeInitDone, Leave, TypeOK, States, Codes
<1>4. ASSUME InitFails PROVE Rest
  BY <1>4, ReleaseEffect, ImagesEffect DEF InitFails, Leave, CleanupVtable, Tables, TypeOK, States, Codes
<1>5. ASSUME NEW l \in Libs, InitWithLoadFails(l) PROVE Rest
  BY <1>5, LoadFromEffect, LoadCodeType DEF InitWithLoadFails, TypeOK, States, Codes
<1>6. ASSUME NEW l \in Libs, InitWithBegin(l) PROVE Rest
  BY <1>6, LoadFromEffect, CallFaultType DEF InitWithBegin, Enter, Tables, TypeOK, States, Codes
<1>7. ASSUME InitWithSucceeds PROVE Rest
  <2>1. nativeMPI' \in [Libs -> {"fresh", "running", "over"}]
    BY <1>7 DEF InitWithSucceeds, NativeInitDone, Leave, TypeOK
  <2>2. refcount' \in Int
    BY <1>7 DEF InitWithSucceeds, NativeInitDone, Leave, TypeOK
  <2> QED
    BY <1>7, <2>1, <2>2 DEF InitWithSucceeds, NativeInitDone, Leave, TypeOK, States, Codes
<1>8. ASSUME InitWithFails PROVE Rest
  <2>1. handle' = NoLib /\ opened' \in [Libs -> Nat] /\ Images(nativeMPI, nativeTool)
    BY <1>8, UnloadIfAnyEffect DEF InitWithFails
  <2>2. /\ nativeMPI' \in [Libs -> {"fresh", "running", "over"}]
        /\ nativeTool' \in [Libs -> Nat]
    BY <2>1, ImagesEffect DEF TypeOK
  <2> QED
    BY <1>8, <2>1, <2>2 DEF InitWithFails, Leave, CleanupVtable, Tables, TypeOK, States, Codes
<1>9. ASSUME FinalizeBegin PROVE Rest
  BY <1>9, CallFaultType DEF FinalizeBegin, FinalizeFault, Enter, native, TypeOK, States, Codes
<1>10. ASSUME NEW ok \in BOOLEAN, FinalizeReturn(ok) PROVE Rest
  <2>1. [nativeMPI EXCEPT ![entry.lib] = "over"] \in [Libs -> {"fresh", "running", "over"}]
    BY DEF TypeOK
  <2>2. ReleaseRef /\ Images([nativeMPI EXCEPT ![entry.lib] = "over"], nativeTool)
    BY <1>10 DEF FinalizeReturn
  <2>3. /\ refcount' = refcount - 1 /\ handle' \in Tables /\ loaded' \in BOOLEAN
        /\ opened' \in [Libs -> Nat]
    BY <2>2, ReleaseEffect
  <2>4. /\ nativeMPI' \in [Libs -> {"fresh", "running", "over"}]
        /\ nativeTool' \in [Libs -> Nat]
    BY <2>1, <2>2, <2>3, ImagesEffect DEF TypeOK
  <2> QED
    BY <1>10, <2>3, <2>4 DEF FinalizeReturn, Leave, CleanupVtable, Tables, TypeOK, States, Codes
<1>11. ASSUME RefuseInit PROVE Rest
  BY <1>11 DEF RefuseInit, Answer, globals, native, TypeOK, States, Codes
<1>12. ASSUME RefuseFinalize PROVE Rest
  BY <1>12 DEF RefuseFinalize, Answer, globals, native, TypeOK, States, Codes
<1>13. ASSUME RejectArgument PROVE Rest
  BY <1>13 DEF RejectArgument, Answer, globals, native, TypeOK, States, Codes
<1>14. ASSUME NEW l \in Libs, ToolInitLoadFails(l) PROVE Rest
  BY <1>14, EnsureLoadedEffect, LoadCodeType DEF ToolInitLoadFails, TypeOK, States, Codes
<1>15. ASSUME NEW l \in Libs, NEW ok \in BOOLEAN, ToolInit(l, ok) PROVE Rest
  <2>1. fault' \in {"none", "null_call", "unmapped_call"}
    BY <1>15, CallFaultType DEF ToolInit
  <2>2. fault' = "none" => tvt' \in Libs
    BY <1>15, EnsureLoadedEffect DEF ToolInit, CallFault, Tables
  <2>3. nativeTool' \in [Libs -> Nat] /\ sessions' \in Nat /\ failedInits' \in Nat /\ ret' \in Codes
    BY <1>15, <2>2 DEF ToolInit, TypeOK, Codes
  <2> QED
    BY <1>15, <2>1, <2>3, EnsureLoadedEffect DEF ToolInit, TypeOK
<1>16. ASSUME NEW ok \in BOOLEAN, ToolFinalize(ok) PROVE Rest
  <2>1. tvt \in Libs /\ nativeTool[tvt] \in Nat /\ nativeTool[tvt] # 0
    BY <1>16 DEF ToolFinalize, ToolFinalizeFault, CallFault, TypeOK, Tables
  <2>2. [nativeTool EXCEPT ![tvt] = @ - 1] \in [Libs -> Nat]
    BY <2>1 DEF TypeOK
  <2>3. ReleaseRef /\ Images(nativeMPI, [nativeTool EXCEPT ![tvt] = @ - 1])
    BY <1>16 DEF ToolFinalize
  <2>4. /\ refcount' = refcount - 1 /\ handle' \in Tables /\ loaded' \in BOOLEAN
        /\ opened' \in [Libs -> Nat]
    BY <2>3, ReleaseEffect
  <2>5. /\ nativeMPI' \in [Libs -> {"fresh", "running", "over"}]
        /\ nativeTool' \in [Libs -> Nat]
    BY <2>2, <2>3, <2>4, ImagesEffect DEF TypeOK
  <2>6. sessions' \in Nat /\ refcount' \in Int
    BY <1>16, <2>4 DEF ToolFinalize, TypeOK
  <2>7. ret' \in Codes
    BY <1>16 DEF ToolFinalize, Codes
  <2> QED
    BY <1>16, <2>4, <2>5, <2>6, <2>7 DEF ToolFinalize, TypeOK
<1>17. CASE Dies
  BY <1>17, CallFaultType DEF Dies, ToolFinalizeDies, ReturnDies, ToolFinalizeFault, globals, native, TypeOK, States, Codes
<1>18. CASE UNCHANGED vars
  BY <1>18 DEF vars, globals, native, history, TypeOK
<1> QED
  BY <1>1, <1>2, <1>3, <1>4, <1>5, <1>6, <1>7, <1>8, <1>9,
     <1>10, <1>11, <1>12, <1>13, <1>14, <1>15, <1>16, <1>17, <1>18
     DEF Next, MPIStep, ToolStep

(* g_state and the call on the stack change together.                      *)
LEMMA FramesStep ==
  FramesMatch /\ [Next]_vars => FramesMatch'
<1> SUFFICES ASSUME FramesMatch, [Next]_vars PROVE FramesMatch'
  OBVIOUS
<1>1. CASE MPIStep
  BY <1>1 DEF MPIStep, FramesMatch, UserCode, CanInitialize, InitLoadFails, InitBegin,
     InitSucceeds, InitFails, InitWithLoadFails, InitWithBegin, InitWithSucceeds,
     InitWithFails, FinalizeBegin, FinalizeReturn, RefuseInit, RefuseFinalize,
     RejectArgument, Answer, Enter, Leave, Returns, globals
<1>2. CASE ToolStep \/ Dies
  BY <1>2 DEF ToolStep, Dies, FramesMatch, ToolInitLoadFails, ToolInit, ToolFinalize,
     ToolFinalizeDies, ReturnDies, globals
<1>3. CASE UNCHANGED vars
  BY <1>3 DEF vars, globals, FramesMatch
<1> QED
  BY <1>1, <1>2, <1>3 DEF Next

(* Every path that takes or gives back a reference takes or gives back a   *)
(* holder.                                                                 *)
LEMMA RefcountStep ==
  TypeOK /\ HandleOpen /\ FramesMatch /\ RefcountIsHolders /\ [Next]_vars => RefcountIsHolders'
<1> SUFFICES ASSUME TypeOK, HandleOpen, FramesMatch, RefcountIsHolders, [Next]_vars
             PROVE  RefcountIsHolders'
  OBVIOUS
<1> USE DEF RefcountIsHolders, LiveHolders, BeforeInit, FramesMatch
<1>0. refcount \in Int /\ sessions \in Nat /\ failedInits \in Nat
  BY DEF TypeOK
<1>1. ASSUME NEW l \in Libs, InitLoadFails(l) PROVE RefcountIsHolders'
  BY <1>0, <1>1 DEF InitLoadFails, UserCode, CanInitialize
<1>2. ASSUME NEW l \in Libs, InitBegin(l) PROVE RefcountIsHolders'
  BY <1>0, <1>2 DEF InitBegin, Enter, UserCode, CanInitialize
<1>3. ASSUME InitSucceeds PROVE RefcountIsHolders'
  BY <1>0, <1>3 DEF InitSucceeds, Leave, Returns
<1>4. ASSUME InitFails PROVE RefcountIsHolders'
  BY <1>0, <1>4, ReleaseEffect DEF InitFails, Leave, Returns
<1>5. ASSUME NEW l \in Libs, InitWithLoadFails(l) PROVE RefcountIsHolders'
  BY <1>0, <1>5 DEF InitWithLoadFails, UserCode, CanInitialize
<1>6. ASSUME NEW l \in Libs, InitWithBegin(l) PROVE RefcountIsHolders'
  BY <1>0, <1>6 DEF InitWithBegin, Enter, UserCode, CanInitialize
<1>7. ASSUME InitWithSucceeds PROVE RefcountIsHolders'
  BY <1>0, <1>7 DEF InitWithSucceeds, Leave, Returns
<1>8. ASSUME InitWithFails PROVE RefcountIsHolders'
  BY <1>0, <1>8 DEF InitWithFails, Leave, Returns
<1>9. ASSUME FinalizeBegin PROVE RefcountIsHolders'
  BY <1>0, <1>9 DEF FinalizeBegin, Enter
<1>10. ASSUME NEW ok \in BOOLEAN, FinalizeReturn(ok) PROVE RefcountIsHolders'
  BY <1>0, <1>10, ReleaseEffect DEF FinalizeReturn, Leave, Returns
<1>11. CASE RefuseInit \/ RefuseFinalize \/ RejectArgument
  BY <1>11 DEF RefuseInit, RefuseFinalize, RejectArgument, Answer, globals
<1>12. ASSUME NEW l \in Libs, ToolInitLoadFails(l) PROVE RefcountIsHolders'
  BY <1>0, <1>12 DEF ToolInitLoadFails
<1>13. ASSUME NEW l \in Libs, NEW ok \in BOOLEAN, ToolInit(l, ok) PROVE RefcountIsHolders'
  BY <1>0, <1>13 DEF ToolInit
<1>14. ASSUME NEW ok \in BOOLEAN, ToolFinalize(ok) PROVE RefcountIsHolders'
  BY <1>0, <1>14, ReleaseEffect DEF ToolFinalize
<1>15. CASE Dies
  BY <1>15 DEF Dies, ToolFinalizeDies, ReturnDies, globals
<1>16. CASE UNCHANGED vars
  BY <1>16 DEF vars, globals
<1> QED
  BY <1>1, <1>2, <1>3, <1>4, <1>5, <1>6, <1>7, <1>8, <1>9, <1>10, <1>11, <1>12,
     <1>13, <1>14, <1>15, <1>16 DEF Next, MPIStep, ToolStep

(* A handle stays open for as long as it is in g_handle. *)
LEMMA HandleStep ==
  TypeOK /\ HandleOpen /\ [Next]_vars => HandleOpen'
<1> SUFFICES ASSUME TypeOK, HandleOpen, [Next]_vars PROVE HandleOpen'
  OBVIOUS
<1>1. ASSUME NEW l \in Libs, InitLoadFails(l) PROVE HandleOpen'
  BY <1>1, EnsureLoadedEffect DEF InitLoadFails
<1>2. ASSUME NEW l \in Libs, InitBegin(l) PROVE HandleOpen'
  BY <1>2, EnsureLoadedEffect DEF InitBegin
<1>3. ASSUME InitSucceeds PROVE HandleOpen'
  BY <1>3 DEF InitSucceeds, HandleOpen
<1>4. ASSUME InitFails PROVE HandleOpen'
  BY <1>4, ReleaseEffect DEF InitFails
<1>5. ASSUME NEW l \in Libs, InitWithLoadFails(l) PROVE HandleOpen'
  BY <1>5, LoadFromEffect DEF InitWithLoadFails, HandleOpen
<1>6. ASSUME NEW l \in Libs, InitWithBegin(l) PROVE HandleOpen'
  BY <1>6, LoadFromEffect DEF InitWithBegin, HandleOpen, TypeOK
<1>7. ASSUME InitWithSucceeds PROVE HandleOpen'
  BY <1>7 DEF InitWithSucceeds, HandleOpen
<1>8. ASSUME InitWithFails PROVE HandleOpen'
  BY <1>8, UnloadIfAnyEffect DEF InitWithFails, HandleOpen
<1>9. ASSUME FinalizeBegin PROVE HandleOpen'
  BY <1>9 DEF FinalizeBegin, HandleOpen, native
<1>10. ASSUME NEW ok \in BOOLEAN, FinalizeReturn(ok) PROVE HandleOpen'
  BY <1>10, ReleaseEffect DEF FinalizeReturn
<1>11. ASSUME NEW l \in Libs, ToolInitLoadFails(l) PROVE HandleOpen'
  BY <1>11, EnsureLoadedEffect DEF ToolInitLoadFails
<1>12. ASSUME NEW l \in Libs, NEW ok \in BOOLEAN, ToolInit(l, ok) PROVE HandleOpen'
  BY <1>12, EnsureLoadedEffect DEF ToolInit
<1>13. ASSUME NEW ok \in BOOLEAN, ToolFinalize(ok) PROVE HandleOpen'
  BY <1>13, ReleaseEffect DEF ToolFinalize
<1>14. CASE RefuseInit \/ RefuseFinalize \/ RejectArgument \/ Dies
  BY <1>14 DEF RefuseInit, RefuseFinalize, RejectArgument, Dies, ToolFinalizeDies,
     ReturnDies, Answer, globals, native, history, HandleOpen
<1>15. CASE UNCHANGED vars
  BY <1>15 DEF vars, globals, native, history, HandleOpen
<1> QED
  BY <1>1, <1>2, <1>3, <1>4, <1>5, <1>6, <1>7, <1>8, <1>9, <1>10,
     <1>11, <1>12, <1>13, <1>14, <1>15
     DEF Next, MPIStep, ToolStep

(* The flag g_backend_loaded is set while the library is referenced.       *)
LEMMA LoadedStep ==
  TypeOK /\ HandleOpen /\ ReferencedLoaded /\ [Next]_vars => ReferencedLoaded'
<1> SUFFICES ASSUME TypeOK, HandleOpen, ReferencedLoaded, [Next]_vars
             PROVE  ReferencedLoaded'
  OBVIOUS
<1> USE DEF ReferencedLoaded
<1>0. refcount \in Int
  BY DEF TypeOK
<1>1. ASSUME NEW l \in Libs, InitLoadFails(l) \/ ToolInitLoadFails(l) PROVE ReferencedLoaded'
  BY <1>1 DEF InitLoadFails, ToolInitLoadFails
<1>2. ASSUME NEW l \in Libs, NEW ok \in BOOLEAN, InitBegin(l) \/ ToolInit(l, ok)
      PROVE  ReferencedLoaded'
  BY <1>2, EnsureLoadedEffect DEF InitBegin, ToolInit
<1>3. CASE InitSucceeds \/ InitWithSucceeds \/ InitWithFails \/ FinalizeBegin
  BY <1>3 DEF InitSucceeds, InitWithSucceeds, InitWithFails, FinalizeBegin
<1>4. ASSUME NEW l \in Libs, InitWithLoadFails(l) \/ InitWithBegin(l) PROVE ReferencedLoaded'
  BY <1>4 DEF InitWithLoadFails, InitWithBegin
<1>5. ASSUME ReleaseRef PROVE ReferencedLoaded'
  <2>1. CASE refcount > 1
    BY <1>0, <1>5, <2>1, ReleaseEffect
  <2>2. CASE refcount <= 1
    BY <1>0, <1>5, <2>2, ReleaseEffect
  <2> QED
    BY <1>0, <2>1, <2>2
<1>6. ASSUME NEW ok \in BOOLEAN, InitFails \/ FinalizeReturn(ok) \/ ToolFinalize(ok)
      PROVE  ReferencedLoaded'
  BY <1>5, <1>6 DEF InitFails, FinalizeReturn, ToolFinalize
<1>7. CASE RefuseInit \/ RefuseFinalize \/ RejectArgument \/ Dies
  BY <1>7 DEF RefuseInit, RefuseFinalize, RejectArgument, Dies, ToolFinalizeDies,
     ReturnDies, Answer, globals
<1>8. CASE UNCHANGED vars
  BY <1>8 DEF vars, globals
<1> QED
  BY <1>1, <1>2, <1>3, <1>4, <1>6, <1>7, <1>8 DEF Next, MPIStep, ToolStep

(* With the MPI interface up, an MPI-T call opens nothing, closes nothing  *)
(* and changes no MPI table: the flag is set, and its own reference is not *)
(* the last.                                                               *)
LEMMA ToolLeavesHeld ==
  ASSUME TypeOK, HandleOpen, FramesMatch, RefcountIsHolders, ReferencedLoaded,
         ToolStep, MPIHold = 1
  PROVE  /\ UNCHANGED <<state, handle, vt, opened, frame, history>>
         /\ \A l \in Libs : opened[l] > 0 => nativeMPI'[l] = nativeMPI[l]
<1>0. loaded /\ (sessions > 0 => refcount > 1)
  BY Held
<1>1. ASSUME NEW l \in Libs, ToolInitLoadFails(l)
      PROVE  UNCHANGED <<state, handle, vt, opened, frame, history, nativeMPI>>
  BY <1>0, <1>1 DEF ToolInitLoadFails
<1>2. ASSUME NEW l \in Libs, NEW ok \in BOOLEAN, ToolInit(l, ok)
      PROVE  UNCHANGED <<state, handle, vt, opened, frame, history, nativeMPI>>
  BY <1>0, <1>2, EnsureLoadedEffect DEF ToolInit
<1>3. ASSUME NEW ok \in BOOLEAN, ToolFinalize(ok)
      PROVE  /\ UNCHANGED <<state, handle, vt, opened, frame, history>>
             /\ \A l \in Libs : opened[l] > 0 => nativeMPI'[l] = nativeMPI[l]
  <2>1. UNCHANGED <<state, handle, vt, opened, frame, history>>
    BY <1>0, <1>3, ReleaseEffect DEF ToolFinalize
  <2>2. \A l \in Libs : nativeMPI'[l] = IF opened'[l] = 0 THEN "fresh" ELSE nativeMPI[l]
    BY <1>3 DEF ToolFinalize, Images
  <2> QED
    BY <2>1, <2>2
<1> QED
  BY <1>1, <1>2, <1>3 DEF ToolStep

(* What unmapping does to the native MPI of a library.                     *)
LEMMA ImagesRunning ==
  ASSUME NEW mpi, NEW tool, NEW l \in Libs, Images(mpi, tool), nativeMPI'[l] = "running"
  PROVE  mpi[l] = "running"
BY DEF Images

(* The native MPI_Init succeeds once, and nothing else sets anything       *)
(* running.                                                                *)
LEMMA StartsStep ==
  TypeOK /\ HandleOpen /\ FramesMatch /\ RefcountIsHolders /\ ReferencedLoaded /\ StartsOnce
    /\ [Next]_vars => StartsOnce'
<1> SUFFICES ASSUME TypeOK, HandleOpen, FramesMatch, RefcountIsHolders, ReferencedLoaded,
                    StartsOnce, [Next]_vars
             PROVE  StartsOnce'
  OBVIOUS
<1>0. nativeMPI \in [Libs -> {"fresh", "running", "over"}] /\ starts \in Nat
  BY DEF TypeOK
<1>2. ASSUME UNCHANGED <<nativeMPI, starts>>, frame' # "finalize",
             MpiInitialized' <=> MpiInitialized,
             ~(state \in {"ACTIVE", "FINALIZING"})
      PROVE  StartsOnce'
  BY <1>2 DEF StartsOnce
<1>3. ASSUME UNCHANGED <<nativeMPI, starts, state, entry, frame, opened>>,
             fault' = "none" => fault = "none"
      PROVE  StartsOnce'
  BY <1>3 DEF StartsOnce, MpiInitialized
<1>4. ASSUME NEW l \in Libs, InitLoadFails(l) \/ InitBegin(l) \/ InitWithLoadFails(l)
                             \/ InitWithBegin(l)
      PROVE  StartsOnce'
  BY <1>2, <1>4 DEF InitLoadFails, InitBegin, InitWithLoadFails, InitWithBegin, UserCode,
     CanInitialize, Enter, MpiInitialized, FramesMatch, history
<1>5. CASE InitSucceeds \/ InitWithSucceeds
  <2>1. /\ state = "INITIALIZING" /\ state' = "ACTIVE" /\ frame' = "none"
        /\ nativeMPI' = [nativeMPI EXCEPT ![entry.lib] = "running"]
        /\ starts' = starts + 1
    BY <1>5 DEF InitSucceeds, InitWithSucceeds, Returns, Leave, NativeInitDone, FramesMatch
  <2>2. \A l \in Libs : nativeMPI'[l] = "running" => l = entry.lib
    BY <1>0, <2>1 DEF StartsOnce
  <2>3. starts' = 1
    BY <2>1 DEF StartsOnce, MpiInitialized
  <2> QED
    BY <2>1, <2>2, <2>3 DEF StartsOnce, MpiInitialized
<1>6. CASE InitFails \/ InitWithFails
  <2>1. /\ state = "INITIALIZING" /\ state' = "INIT_FAILED" /\ frame' = "none"
        /\ Images(nativeMPI, nativeTool) /\ starts' = starts
    BY <1>6 DEF InitFails, InitWithFails, Returns, Leave, FramesMatch
  <2>2. \A l \in Libs : nativeMPI'[l] # "running"
    BY <2>1, ImagesRunning DEF StartsOnce
  <2> QED
    BY <2>1, <2>2 DEF StartsOnce, MpiInitialized
<1>7. CASE FinalizeBegin
  <2>1. /\ state = "ACTIVE" /\ state' = "FINALIZING" /\ frame' = "finalize"
        /\ UNCHANGED <<nativeMPI, starts>> /\ entry'.lib = vt
        /\ fault' = "none" => vt # NoLib /\ opened'[vt] # 0 /\ nativeMPI[vt] = "running"
        /\ opened' = opened
    BY <1>7 DEF FinalizeBegin, Enter, HoldsNow, FinalizeFault, CallFault, native
  <2>2. fault' = "none" => vt \in Libs /\ opened'[vt] > 0
    BY <2>1 DEF TypeOK, Tables
  <2> QED
    BY <2>1, <2>2 DEF StartsOnce, MpiInitialized
<1>8. ASSUME NEW ok \in BOOLEAN, FinalizeReturn(ok) PROVE StartsOnce'
  <2>1. /\ frame = "finalize" /\ fault = "none" /\ state = "FINALIZING"
        /\ state' \in {"FINALIZED", "FINALIZE_FAILED"} /\ frame' = "none"
        /\ Images([nativeMPI EXCEPT ![entry.lib] = "over"], nativeTool) /\ starts' = starts
    BY <1>8 DEF FinalizeReturn, Returns, Leave, FramesMatch
  <2>2. \A l \in Libs : [nativeMPI EXCEPT ![entry.lib] = "over"][l] # "running"
    BY <1>0, <2>1 DEF StartsOnce
  <2>3. \A l \in Libs : nativeMPI'[l] # "running"
    BY <2>1, <2>2, ImagesRunning
  <2> QED
    BY <2>1, <2>3 DEF StartsOnce, MpiInitialized
<1>9. CASE ToolStep
  <2>0. /\ UNCHANGED <<state, frame, starts, entry>>
        /\ fault' = "none" => fault = "none"
        /\ \A l \in Libs : nativeMPI'[l] = "running" => nativeMPI[l] = "running"
    BY <1>9, ImagesRunning
       DEF ToolStep, ToolInitLoadFails, ToolInit, ToolFinalize, UserCode, history
  <2>1. CASE frame # "finalize"
    BY <2>0, <2>1 DEF StartsOnce, MpiInitialized
  <2>2. CASE frame = "finalize"
    <3>1. MPIHold = 1 /\ state = "FINALIZING"
      BY <2>2 DEF MPIHold, FramesMatch
    <3>2. fault' = "none" => /\ entry.lib \in Libs /\ opened'[entry.lib] > 0
                             /\ nativeMPI'[entry.lib] = "running"
      BY <1>9, <2>0, <2>2, <3>1, ToolLeavesHeld DEF StartsOnce
    <3> QED
      BY <2>0, <2>2, <3>2 DEF StartsOnce, MpiInitialized
  <2> QED
    BY <2>1, <2>2
<1>10. CASE RefuseInit \/ RefuseFinalize \/ RejectArgument \/ Dies
  BY <1>3, <1>10 DEF RefuseInit, RefuseFinalize, RejectArgument, Dies, ToolFinalizeDies,
     ReturnDies, Answer, globals, native, history
<1>11. CASE UNCHANGED vars
  BY <1>3, <1>11 DEF vars, globals, native, history
<1> QED
  BY <1>4, <1>5, <1>6, <1>7, <1>8, <1>9, <1>10, <1>11 DEF Next, MPIStep

-----------------------------------------------------------------------------
LEMMA InitIInv == Init => IInv
<1> SUFFICES ASSUME Init PROVE IInv
  OBVIOUS
<1>1. TypeOK
  <2>1. /\ opened \in [Libs -> Nat] /\ nativeTool \in [Libs -> Nat]
        /\ nativeMPI \in [Libs -> {"fresh", "running", "over"}]
    BY DEF Init
  <2>2. /\ state \in States /\ ret \in Codes /\ handle \in Tables /\ identity \in Tables
        /\ vt \in Tables /\ tvt \in Tables /\ btype \in Tables
    BY DEF Init, States, Tables, Codes
  <2>3. /\ refcount \in Int /\ sessions \in Nat /\ failedInits \in Nat
        /\ frame = "none" /\ fault = "none" /\ starts \in Nat
    BY DEF Init
  <2>4. loaded \in BOOLEAN /\ mpitInited \in BOOLEAN
    BY Zenon DEF Init
  <2>5. entry \in [lib : Tables, refs : Int, pins : Nat, opened : [Libs -> Nat]]
    BY DEF Init, NoEntry, Tables
  <2> QED
    BY <2>1, <2>2, <2>3, <2>4, <2>5 DEF TypeOK
<1>2. RefcountIsHolders /\ FramesMatch /\ HandleOpen /\ ReferencedLoaded
  BY DEF Init, RefcountIsHolders, LiveHolders, BeforeInit, FramesMatch, HandleOpen,
     ReferencedLoaded
<1>3. StartsOnce
  BY DEF Init, StartsOnce, MpiInitialized
<1> QED
  BY <1>1, <1>2, <1>3 DEF IInv

LEMMA StepIInv == IInv /\ [Next]_vars => IInv'
BY TypeStep, RefcountStep, FramesStep, HandleStep, LoadedStep, StartsStep DEF IInv

LEMMA Invariant == Spec => []IInv
BY InitIInv, StepIInv, PTL DEF Spec

(* Every variable has its type in every reachable state.                   *)
THEOREM TypeCorrect == Spec => []TypeOK
<1>1. IInv => TypeOK
  BY DEF IInv
<1> QED
  BY <1>1, Invariant, PTL

(* g_refcount is the number of live holders and of stranded references,    *)
(* whatever fails, is retried, or is called from a callback of any of the  *)
(* three native calls.                                                     *)
THEOREM ReferencesBalance == Spec => []RefcountIsHolders
<1>1. IInv => RefcountIsHolders
  BY DEF IInv
<1> QED
  BY <1>1, Invariant, PTL

(* The native MPI_Init succeeds at most once in the life of a process, and *)
(* nothing runs once MPI_Finalize has returned.                            *)
THEOREM SingleNativeMPI == Spec => []OneNativeMPI
<1>1. IInv => OneNativeMPI
  BY DEF IInv, StartsOnce, OneNativeMPI, MpiInitialized
<1> QED
  BY <1>1, Invariant, PTL

(* MPI_Initialized and MPI_Finalized never go back to false.               *)
THEOREM FlagsMonotone == Spec => FlagsNeverGoBack
<1>1. IInv /\ [Next]_vars => (MpiInitialized => MpiInitialized') /\ (MpiFinalized => MpiFinalized')
  <2> SUFFICES ASSUME FramesMatch, [Next]_vars
               PROVE  (MpiInitialized => MpiInitialized') /\ (MpiFinalized => MpiFinalized')
    BY DEF IInv
  <2> USE DEF MpiInitialized, MpiFinalized, FramesMatch
  <2>1. CASE MPIStep
    BY <2>1 DEF MPIStep, CanInitialize, InitLoadFails, InitBegin, InitSucceeds, InitFails,
       InitWithLoadFails, InitWithBegin, InitWithSucceeds, InitWithFails, FinalizeBegin,
       FinalizeReturn, RefuseInit, RefuseFinalize, RejectArgument, Answer, Returns, globals
  <2>2. CASE ToolStep \/ Dies
    BY <2>2 DEF ToolStep, Dies, ToolInitLoadFails, ToolInit, ToolFinalize, ToolFinalizeDies,
       ReturnDies, globals
  <2>3. CASE UNCHANGED vars
    BY <2>3 DEF vars, globals
  <2> QED
    BY <2>1, <2>2, <2>3 DEF Next
<1> QED
  BY <1>1, Invariant, PTL DEF Spec, FlagsNeverGoBack
-----------------------------------------------------------------------------
(***************************************************************************)
(* The second part: MPI-T is left alone while unimpi_init_with is in the   *)
(* native MPI_Init.  Every other use is still allowed.                     *)
(***************************************************************************)
Quiet == ~ToolInInitWith

(* The library on the stack, the one in the table, and in unimpi_init_with *)
(* the one in g_handle are the same, and it is open.                       *)
OnStack ==
  /\ frame # "none" /\ fault = "none" => vt \in Libs /\ entry.lib = vt /\ opened[vt] > 0
  /\ frame = "init_with" => vt = handle /\ vt \in Libs

(* What an initialization on the stack has opened by itself: nothing, or   *)
(* once the library of g_handle, and then nobody had held one.             *)
OpenedItself ==
  frame \in {"init", "init_with"} =>
    /\ entry.refs = entry.pins
    /\ \/ frame = "init" /\ opened = entry.opened
       \/ /\ handle \in Libs
          /\ \A l \in Libs : opened[l] = entry.opened[l] + (IF l = handle THEN 1 ELSE 0)
          /\ frame = "init" => entry.pins = 0

(* The inductive invariant of the second part.                             *)
QInv ==
  /\ IInv
  /\ OnStack
  /\ ActiveDispatch
  /\ OpenedItself

(* An MPI-T call inside a native call of MPI finds the library held.       *)
LEMMA ToolInFrame ==
  ASSUME IInv, Quiet, ToolStep, frame # "none"
  PROVE  /\ UNCHANGED <<state, handle, vt, opened, frame, history>>
         /\ \A l \in Libs : opened[l] > 0 => nativeMPI'[l] = nativeMPI[l]
         /\ fault = "none"
<1>1. frame # "init_with" /\ fault = "none"
  BY DEF ToolStep, ToolInitLoadFails, ToolInit, ToolFinalize, UserCode, MayUseTool, Quiet
<1>2. MPIHold = 1
  BY <1>1 DEF IInv, TypeOK, FramesMatch, MPIHold
<1> QED
  BY <1>1, <1>2, ToolLeavesHeld DEF IInv

(* Calls that are refused, and calls that die, change none of this.        *)
LEMMA StillStep ==
  ASSUME RefuseInit \/ RefuseFinalize \/ RejectArgument \/ Dies \/ UNCHANGED vars
  PROVE  /\ UNCHANGED <<globals, frame, native, history, sessions, failedInits>>
         /\ fault' = "none" => fault = "none"
BY DEF RefuseInit, RefuseFinalize, RejectArgument, Dies, ToolFinalizeDies, ReturnDies, Answer, vars

LEMMA OnStackStep ==
  QInv /\ Quiet /\ [Next]_vars => OnStack'
<1> SUFFICES ASSUME QInv, Quiet, [Next]_vars PROVE OnStack'
  OBVIOUS
<1>0. TypeOK /\ IInv
  BY DEF QInv, IInv
<1> USE DEF OnStack
<1>1. ASSUME NEW l \in Libs, InitBegin(l) PROVE OnStack'
  <2>1. /\ frame' = "init" /\ entry'.lib = vt'
        /\ fault' = CallFault(vt', opened') /\ EnsureLoaded(l)
    BY <1>1 DEF InitBegin, Enter, HoldsNow
  <2>2. vt' \in Tables /\ opened' \in [Libs -> Nat]
    BY <1>0, <2>1, EnsureLoadedEffect
  <2>3. fault' = "none" => vt' \in Libs /\ opened'[vt'] # 0
    BY <2>1, <2>2 DEF CallFault, Tables
  <2> QED
    BY <2>1, <2>2, <2>3
<1>2. ASSUME NEW l \in Libs, InitWithBegin(l) PROVE OnStack'
  <2>1. frame' = "init_with" /\ entry'.lib = vt' /\ LoadFrom(l) /\ Native(l)
    BY <1>2 DEF InitWithBegin, Enter, HoldsNow
  <2>2. handle' = l /\ vt' = l /\ opened'[l] = opened[l] + 1
    BY <1>0, <2>1, LoadFromEffect
  <2> QED
    BY <1>0, <2>1, <2>2 DEF TypeOK
<1>3. CASE FinalizeBegin
  <2>1. /\ frame' = "finalize" /\ entry'.lib = vt /\ UNCHANGED <<vt, opened>>
        /\ fault' = "none" => vt # NoLib /\ opened[vt] # 0
    BY <1>3 DEF FinalizeBegin, Enter, HoldsNow, FinalizeFault, CallFault, native
  <2> QED
    BY <1>0, <2>1 DEF TypeOK, Tables
<1>4. ASSUME NEW ok \in BOOLEAN,
             \/ InitSucceeds \/ InitFails \/ InitWithSucceeds \/ InitWithFails
             \/ FinalizeReturn(ok)
      PROVE  OnStack'
  BY <1>4 DEF InitSucceeds, InitFails, InitWithSucceeds, InitWithFails, FinalizeReturn, Leave
<1>5. ASSUME NEW l \in Libs, InitLoadFails(l) \/ InitWithLoadFails(l) PROVE OnStack'
  BY <1>0, <1>5 DEF InitLoadFails, InitWithLoadFails, UserCode, CanInitialize, IInv, FramesMatch,
     TypeOK
<1>6. CASE ToolStep
  <2>1. CASE frame = "none"
    BY <1>6, <2>1 DEF ToolStep, ToolInitLoadFails, ToolInit, ToolFinalize
  <2>2. CASE frame # "none"
    BY <1>0, <1>6, <2>2, ToolInFrame DEF QInv, history
  <2> QED
    BY <2>1, <2>2
<1>7. CASE RefuseInit \/ RefuseFinalize \/ RejectArgument \/ Dies \/ UNCHANGED vars
  BY <1>7, StillStep DEF QInv, globals, native, history
<1> QED
  BY <1>1, <1>2, <1>3, <1>4, <1>5, <1>6, <1>7 DEF Next, MPIStep

(* The active table keeps leading into the library that was initialized.   *)
LEMMA ActiveStep ==
  QInv /\ Quiet /\ [Next]_vars => ActiveDispatch'
<1> SUFFICES ASSUME QInv, Quiet, [Next]_vars PROVE ActiveDispatch'
  OBVIOUS
<1>0. TypeOK /\ IInv /\ FramesMatch
  BY DEF QInv, IInv
<1> USE DEF ActiveDispatch
<1>1. ASSUME NEW l \in Libs, InitLoadFails(l) \/ InitBegin(l) \/ InitWithLoadFails(l)
                             \/ InitWithBegin(l)
      PROVE  ActiveDispatch'
  BY <1>1 DEF InitLoadFails, InitBegin, InitWithLoadFails, InitWithBegin
<1>2. CASE InitSucceeds \/ InitWithSucceeds
  <2>1. /\ nativeMPI' = [nativeMPI EXCEPT ![entry.lib] = "running"]
        /\ UNCHANGED <<vt, opened>> /\ frame # "none" /\ fault = "none"
    BY <1>2 DEF InitSucceeds, InitWithSucceeds, NativeInitDone, Returns
  <2>2. vt \in Libs /\ entry.lib = vt /\ opened[vt] > 0
    BY <2>1 DEF QInv, OnStack
  <2> QED
    BY <1>0, <2>1, <2>2, LibsAssumption DEF TypeOK
<1>3. ASSUME NEW ok \in BOOLEAN, InitFails \/ InitWithFails \/ FinalizeReturn(ok)
      PROVE  ActiveDispatch'
  BY <1>3 DEF InitFails, InitWithFails, FinalizeReturn
<1>4. CASE FinalizeBegin
  BY <1>4 DEF QInv, FinalizeBegin, native
<1>5. CASE ToolStep
  <2>1. UNCHANGED <<state, vt>> \/ state \notin {"ACTIVE", "FINALIZING"}
    <3>1. CASE state \in {"ACTIVE", "FINALIZING"}
      BY <1>0, <1>5, <3>1, ToolLeavesHeld DEF IInv, MPIHold
    <3> QED
      BY <3>1
  <2>2. CASE state \in {"ACTIVE", "FINALIZING"}
    <3>1. /\ UNCHANGED <<state, vt, opened>>
          /\ \A l \in Libs : opened[l] > 0 => nativeMPI'[l] = nativeMPI[l]
      BY <1>0, <1>5, <2>2, ToolLeavesHeld DEF IInv, MPIHold
    <3>2. vt \in Libs /\ opened[vt] > 0 /\ nativeMPI[vt] = "running"
      BY <1>0, <2>2 DEF QInv, TypeOK, Tables
    <3> QED
      BY <3>1, <3>2
  <2>3. CASE state \notin {"ACTIVE", "FINALIZING"}
    BY <1>5, <2>3 DEF ToolStep, ToolInitLoadFails, ToolInit, ToolFinalize
  <2> QED
    BY <2>2, <2>3
<1>6. CASE RefuseInit \/ RefuseFinalize \/ RejectArgument \/ Dies \/ UNCHANGED vars
  BY <1>6, StillStep DEF QInv, globals, native
<1> QED
  BY <1>1, <1>2, <1>3, <1>4, <1>5, <1>6 DEF Next, MPIStep

LEMMA OpenedStep ==
  QInv /\ Quiet /\ [Next]_vars => OpenedItself'
<1> SUFFICES ASSUME QInv, Quiet, [Next]_vars PROVE OpenedItself'
  OBVIOUS
<1>0. TypeOK /\ IInv /\ RefcountIsHolders /\ FramesMatch /\ ReferencedLoaded
  BY DEF QInv, IInv
<1>a. /\ refcount \in Int /\ Pins \in Nat /\ opened \in [Libs -> Nat]
      /\ refcount = MPIHold + Pins
  BY <1>0, Held DEF TypeOK, Pins
<1> USE DEF OpenedItself
<1>1. ASSUME NEW l \in Libs, InitBegin(l) PROVE OpenedItself'
  <2>1. /\ frame' = "init" /\ EnsureLoaded(l) /\ (loaded \/ Native(l))
        /\ entry' = HoldsNow(vt') /\ state \in {"NEVER", "INIT_FAILED"}
    BY <1>1 DEF InitBegin, Enter, CanInitialize
  <2>2. entry'.refs = Pins /\ entry'.pins = Pins /\ entry'.opened = opened
    BY <1>0, <1>a, <2>1 DEF HoldsNow, MPIHold, FramesMatch
  <2>3. CASE loaded
    <3>1. opened' = opened
      BY <2>1, <2>3 DEF EnsureLoaded
    <3> QED
      BY <2>1, <2>2, <3>1
  <2>4. CASE ~loaded
    <3>1. LoadFrom(l) /\ Native(l) /\ Pins = 0
      BY <1>0, <1>a, <2>1, <2>4 DEF EnsureLoaded, ReferencedLoaded, MPIHold
    <3>2. /\ handle' = l /\ opened'[l] = opened[l] + 1
          /\ \A k \in Libs \ {l} : opened'[k] = opened[k]
      BY <1>0, <3>1, LoadFromEffect
    <3>3. \A k \in Libs : opened'[k] = entry'.opened[k] + (IF k = handle' THEN 1 ELSE 0)
      BY <1>a, <2>2, <3>2
    <3> QED
      BY <2>1, <2>2, <3>1, <3>2, <3>3
  <2> QED
    BY <2>3, <2>4
<1>2. ASSUME NEW l \in Libs, InitWithBegin(l) PROVE OpenedItself'
  <2>1. /\ frame' = "init_with" /\ LoadFrom(l) /\ Native(l)
        /\ entry' = HoldsNow(vt') /\ state \in {"NEVER", "INIT_FAILED"}
    BY <1>2 DEF InitWithBegin, Enter, CanInitialize
  <2>2. entry'.refs = Pins /\ entry'.pins = Pins /\ entry'.opened = opened
    BY <1>0, <1>a, <2>1 DEF HoldsNow, MPIHold, FramesMatch
  <2>3. /\ handle' = l /\ opened'[l] = opened[l] + 1
        /\ \A k \in Libs \ {l} : opened'[k] = opened[k]
    BY <1>0, <2>1, LoadFromEffect
  <2>4. \A k \in Libs : opened'[k] = entry'.opened[k] + (IF k = handle' THEN 1 ELSE 0)
    BY <1>a, <2>2, <2>3
  <2> QED
    BY <2>1, <2>2, <2>3, <2>4
<1>3. ASSUME NEW ok \in BOOLEAN,
             \/ InitSucceeds \/ InitFails \/ InitWithSucceeds \/ InitWithFails
             \/ FinalizeReturn(ok) \/ FinalizeBegin
      PROVE  OpenedItself'
  BY <1>3 DEF InitSucceeds, InitFails, InitWithSucceeds, InitWithFails, FinalizeReturn,
     FinalizeBegin, Leave, Enter
<1>4. ASSUME NEW l \in Libs, InitLoadFails(l) \/ InitWithLoadFails(l) PROVE OpenedItself'
  BY <1>0, <1>4 DEF InitLoadFails, InitWithLoadFails, UserCode, CanInitialize, FramesMatch, TypeOK
<1>5. CASE ToolStep
  <2>1. CASE frame = "none"
    BY <1>5, <2>1 DEF ToolStep, ToolInitLoadFails, ToolInit, ToolFinalize
  <2>2. CASE frame # "none"
    BY <1>0, <1>5, <2>2, ToolInFrame DEF QInv, history
  <2> QED
    BY <2>1, <2>2
<1>6. CASE RefuseInit \/ RefuseFinalize \/ RejectArgument \/ Dies \/ UNCHANGED vars
  BY <1>6, StillStep DEF QInv, globals, native, history
<1> QED
  BY <1>1, <1>2, <1>3, <1>4, <1>5, <1>6 DEF Next, MPIStep

LEMMA InitQInv == Init => QInv
<1> SUFFICES ASSUME Init PROVE QInv
  OBVIOUS
<1>1. OnStack /\ ActiveDispatch /\ OpenedItself
  BY DEF Init, OnStack, ActiveDispatch, OpenedItself
<1> QED
  BY <1>1, InitIInv DEF QInv

LEMMA QuietInvariant == Quiet => (Spec => []QInv)
<1> SUFFICES ASSUME Quiet PROVE Spec => []QInv
  OBVIOUS
<1>1. QInv /\ [Next]_vars => QInv'
  BY StepIInv, OnStackStep, ActiveStep, OpenedStep DEF QInv
<1> QED
  BY <1>1, InitQInv, PTL DEF Spec

(* As long as MPI-T is left alone inside unimpi_init_with: while MPI is    *)
(* active or being finalized, every call through `unimpi' lands in the     *)
(* mapped library whose MPI is running.  No MPI-T call from a callback of  *)
(* MPI_Init or MPI_Finalize, successful or not, unloads or replaces it.    *)
THEOREM ActiveReachesLibrary == Quiet => (Spec => []ActiveDispatch)
<1> SUFFICES ASSUME Quiet PROVE Spec => []ActiveDispatch
  OBVIOUS
<1>1. QInv => ActiveDispatch
  BY DEF QInv
<1> QED
  BY <1>1, QuietInvariant, PTL

(* Under the same condition a native MPI_Init or MPI_Finalize returns into *)
(* a mapped library, the one the table leads into.                         *)
THEOREM NativeCallReturns == Quiet => (Spec => []ReturnsToMapped)
<1> SUFFICES ASSUME Quiet PROVE Spec => []ReturnsToMapped
  OBVIOUS
<1>1. QInv => ReturnsToMapped
  BY DEF QInv, OnStack, ReturnsToMapped
<1> QED
  BY <1>1, QuietInvariant, PTL

(* Under the same condition a call that ends in a UniMPI error, also after *)
(* its native MPI_Init failed, has given back every dlopen and every       *)
(* reference it took since it was entered.                                 *)
THEOREM ErrorsBalance == Quiet => (Spec => ErrorsLeakNothing)
<1> SUFFICES ASSUME Quiet PROVE Spec => ErrorsLeakNothing
  OBVIOUS
<1> DEFINE found == IF frame' # frame THEN entry ELSE HoldsNow(NoLib)
           NoMore == /\ refcount' - Pins' <= found.refs - found.pins
                     /\ Pins' <= found.pins => \A l \in Libs : opened'[l] <= found.opened[l]
<1>1. QInv /\ [Next]_vars => (ret' \in UniMPIErrors => NoMore)
  <2> SUFFICES ASSUME QInv, [Next]_vars, ret' \in UniMPIErrors PROVE NoMore
    OBVIOUS
  <2>0. /\ TypeOK /\ HandleOpen /\ FramesMatch /\ RefcountIsHolders /\ ReferencedLoaded
        /\ RefcountIsHolders' /\ FramesMatch' /\ TypeOK'
    BY StepIInv DEF QInv, IInv
  <2>a. /\ refcount \in Int /\ Pins \in Nat /\ opened \in [Libs -> Nat]
        /\ refcount = MPIHold + Pins
        /\ refcount' \in Int /\ Pins' \in Nat /\ opened' \in [Libs -> Nat]
        /\ ret' \notin {"none", "OK", "NATIVE_ERROR"}
    <3>1. refcount \in Int /\ Pins \in Nat /\ opened \in [Libs -> Nat]
      BY <2>0, TypedHolds
    <3>2. refcount' \in Int /\ Pins' \in Nat /\ opened' \in [Libs -> Nat]
      BY <2>0, TypedHolds
    <3>3. ret' \notin {"none", "OK", "NATIVE_ERROR"}
      BY DEF UniMPIErrors
    <3> QED
      BY <2>0, <3>1, <3>2, <3>3, Held
  <2>b. ASSUME frame' = frame, refcount' - Pins' <= refcount - Pins,
               \A l \in Libs : opened'[l] <= opened[l]
        PROVE  NoMore
    BY <2>b DEF HoldsNow
  <2>c. ASSUME UNCHANGED <<frame, refcount, sessions, failedInits, opened>> PROVE NoMore
    <3>1. refcount' - Pins' = refcount - Pins /\ \A l \in Libs : opened'[l] <= opened[l]
      BY <2>a, <2>c DEF Pins
    <3> QED
      BY <2>a, <2>b, <2>c, <3>1
  <2>1. ASSUME NEW l \in Libs, InitBegin(l) \/ InitWithBegin(l) PROVE NoMore
    BY <2>a, <2>1 DEF InitBegin, InitWithBegin
  <2>2. ASSUME NEW l \in Libs,
               InitLoadFails(l) \/ InitWithLoadFails(l) \/ ToolInitLoadFails(l)
        PROVE  NoMore
    BY <2>0, <2>2, <2>c, EnsureLoadedEffect, LoadFromEffect
       DEF InitLoadFails, InitWithLoadFails, ToolInitLoadFails
  <2>3. CASE InitSucceeds \/ InitWithSucceeds \/ FinalizeBegin
    BY <2>a, <2>3 DEF InitSucceeds, InitWithSucceeds, FinalizeBegin
  <2>4. CASE InitFails
    <3>1. /\ frame = "init" /\ frame' = "none" /\ state' = "INIT_FAILED" /\ ReleaseRef
          /\ UNCHANGED <<sessions, failedInits>>
      BY <2>4 DEF InitFails, Returns, Leave
    <3>2. MPIHold = 1 /\ Pins' = Pins /\ refcount' = refcount - 1
      BY <3>1 DEF MPIHold, Pins, ReleaseRef
    <3>3. OpenedItself /\ entry.refs = entry.pins /\ entry.pins \in Nat
      BY <2>0, <3>1 DEF QInv, OpenedItself, TypeOK
    <3>4. refcount' - Pins' <= entry.refs - entry.pins
      BY <2>a, <3>2, <3>3
    <3>5. CASE opened = entry.opened
      BY <2>0, <3>1, <3>4, <3>5, ReleaseEffect
    <3>6. CASE /\ handle \in Libs
               /\ \A l \in Libs : opened[l] = entry.opened[l] + (IF l = handle THEN 1 ELSE 0)
               /\ entry.pins = 0
      <4>1. ASSUME Pins' <= 0 PROVE \A l \in Libs : opened'[l] <= entry.opened[l]
        <5>1. refcount - 1 <= 0 /\ handle # NoLib
          BY <2>a, <3>2, <3>6, <4>1, LibsAssumption
        <5>2. UnloadHandle
          BY <3>1, <5>1 DEF ReleaseRef
        <5>3. /\ opened'[handle] = opened[handle] - 1
              /\ \A l \in Libs \ {handle} : opened'[l] = opened[l]
          BY <2>0, <5>1, <5>2, UnloadEffect
        <5>4. entry.opened \in [Libs -> Nat]
          BY <2>0 DEF TypeOK
        <5> QED
          BY <2>a, <3>6, <5>3, <5>4
      <4> QED
        BY <3>1, <3>4, <3>6, <4>1
    <3> QED
      BY <3>1, <3>3, <3>5, <3>6 DEF OpenedItself
  <2>5. CASE InitWithFails
    <3>1. /\ frame = "init_with" /\ frame' = "none" /\ refcount' = refcount
          /\ UNCHANGED <<sessions, failedInits>>
          /\ IF handle # NoLib THEN UnloadHandle ELSE UNCHANGED <<opened, handle>>
      BY <2>5 DEF InitWithFails, Returns, Leave
    <3>2. MPIHold = 0 /\ Pins' = Pins
      BY <2>0, <3>1 DEF MPIHold, Pins, FramesMatch
    <3>3. /\ entry.refs = entry.pins /\ entry.pins \in Nat
          /\ \A l \in Libs : opened[l] = entry.opened[l] + (IF l = handle THEN 1 ELSE 0)
      BY <2>0, <3>1 DEF QInv, OpenedItself, TypeOK
    <3>4. \A l \in Libs : opened'[l] = opened[l] - (IF l = handle THEN 1 ELSE 0)
      BY <2>0, <3>1, UnloadIfAnyEffect
    <3>5. entry.opened \in [Libs -> Nat]
      BY <2>0 DEF TypeOK
    <3>6. \A l \in Libs : opened'[l] <= entry.opened[l]
      BY <2>a, <3>3, <3>4, <3>5
    <3> QED
      BY <2>a, <3>1, <3>2, <3>3, <3>6
  <2>6. ASSUME NEW ok \in BOOLEAN, FinalizeReturn(ok) \/ ToolFinalize(ok) PROVE NoMore
    BY <2>a, <2>6 DEF FinalizeReturn, ToolFinalize
  <2>7. ASSUME NEW l \in Libs, NEW ok \in BOOLEAN, ToolInit(l, ok) PROVE NoMore
    BY <2>a, <2>7 DEF ToolInit
  <2>8. CASE RefuseInit \/ RefuseFinalize \/ RejectArgument \/ Dies \/ UNCHANGED vars
    BY <2>8, <2>c, StillStep DEF globals, native
  <2> QED
    BY <2>1, <2>2, <2>3, <2>4, <2>5, <2>6, <2>7, <2>8 DEF Next, MPIStep, ToolStep
<1> QED
  BY <1>1, QuietInvariant, PTL DEF Spec, ErrorsLeakNothing
=============================================================================
