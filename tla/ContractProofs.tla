---------------------------- MODULE ContractProofs ----------------------------
(***************************************************************************)
(* Theorems about Lifecycle in contract use: no initialization fails while *)
(* an MPI-T session holds the library, unimpi_init_with is not called      *)
(* under one, and MPI-T is not used inside its native MPI_Init.  Then no   *)
(* UniMPI call ever faults, and the lifecycle implements LibraryHold.      *)
(***************************************************************************)
EXTENDS LifecycleProofs

USE LibsAssumption, CallbacksAssumption, UsageAssumption, BoundsAssumption

(* How the native calls are pushed and popped matters in every step.       *)
USE DEF Enter, Leave, Returns, NativeInitDone, history

Contract == ~InitFailsWhenHeld /\ ~InitWithWhenHeld /\ ~ToolInInitWith

-----------------------------------------------------------------------------
(* The library is loaded exactly while it is referenced; in between,       *)
(* unimpi_init_with has a handle but no reference yet.                     *)
HandleIsHeld ==
  /\ handle # NoLib <=> loaded \/ frame = "init_with"
  /\ loaded <=> refcount > 0
  /\ frame = "init_with" => ~loaded

(* Both tables come from the library in g_handle for as long as they can   *)
(* be called.                                                              *)
TablesMatch ==
  /\ loaded => tvt = handle
  /\ loaded /\ state \notin {"FINALIZED", "FINALIZE_FAILED"} => vt = handle
  /\ state = "INITIALIZING" => vt = handle /\ tvt = handle

(* Every session is one on the library in g_handle.                        *)
SessionsHere == \A l \in Libs : nativeTool[l] = IF l = handle THEN sessions ELSE 0

(* The inductive invariant of contract use.                                *)
CInv ==
  /\ QInv
  /\ NoFault
  /\ HandleIsHeld
  /\ TablesMatch
  /\ LibraryBalance
  /\ SessionsHere

-----------------------------------------------------------------------------
(* Nobody holds a library that is not loaded.                              *)
LEMMA Unheld ==
  ASSUME TypeOK, RefcountIsHolders, HandleIsHeld, ~loaded
  PROVE  refcount = 0 /\ MPIHold = 0 /\ sessions = 0 /\ failedInits = 0
BY DEF TypeOK, RefcountIsHolders, HandleIsHeld, MPIHold, LiveHolders, BeforeInit

(* Loading when nothing is loaded opens one library, and both tables are   *)
(* its own.                                                                *)
LEMMA FreshLoad ==
  ASSUME TypeOK, LibraryBalance, handle = NoLib, NEW l \in Libs, LoadFrom(l), Native(l)
  PROVE  /\ handle' = l /\ vt' = l /\ tvt' = l /\ handle' # NoLib
         /\ opened'[l] = 1 /\ LibraryBalance'
<1>1. /\ handle' = l /\ vt' = l /\ tvt' = l
      /\ opened' \in [Libs -> Nat] /\ opened'[l] = opened[l] + 1
      /\ \A k \in Libs \ {l} : opened'[k] = opened[k]
  BY LoadFromEffect
<1>2. \A k \in Libs : opened[k] = 0
  BY DEF LibraryBalance
<1> QED
  BY <1>1, <1>2 DEF LibraryBalance

(* What unimpi_ensure_loaded leaves when it succeeds.                      *)
LEMMA Ensured ==
  ASSUME CInv, frame # "init_with", NEW l \in Libs, loaded \/ Native(l), EnsureLoaded(l)
  PROVE  /\ loaded' /\ handle' # NoLib /\ handle' \in Libs /\ tvt' = handle' /\ LibraryBalance'
         /\ loaded => handle' = handle /\ vt' = vt
         /\ ~loaded => vt' = handle' /\ handle = NoLib /\ refcount = 0 /\ sessions = 0
<1> USE DEF CInv, QInv, IInv
<1>1. loaded' /\ handle' \in Tables
  BY EnsureLoadedEffect
<1>2. CASE loaded
  <2>1. UNCHANGED <<handle, opened, tvt, vt>>
    BY <1>2, EnsureLoadedEffect
  <2>2. handle # NoLib /\ tvt = handle
    BY <1>2 DEF HandleIsHeld, TablesMatch
  <2> QED
    BY <1>1, <1>2, <2>1, <2>2 DEF LibraryBalance, Tables
<1>3. CASE ~loaded
  <2>1. LoadFrom(l) /\ Native(l)
    BY <1>3 DEF EnsureLoaded
  <2>2. handle = NoLib
    BY <1>3 DEF HandleIsHeld
  <2> QED
    BY <1>1, <1>3, <2>1, <2>2, FreshLoad, Unheld DEF Tables
<1> QED
  BY <1>2, <1>3

(* A failed unimpi_ensure_loaded leaves everything closed.                 *)
LEMMA NotEnsured ==
  ASSUME CInv, frame # "init_with", NEW l \in Libs, ~loaded, ~Native(l), EnsureLoaded(l)
  PROVE  /\ ~loaded' /\ handle' = NoLib /\ handle = NoLib
         /\ opened' = opened /\ refcount = 0
<1> USE DEF CInv, QInv, IInv
<1>1. LoadFrom(l) /\ loaded' = Native(l)
  BY DEF EnsureLoaded
<1>2. handle = NoLib
  BY DEF HandleIsHeld
<1> QED
  BY <1>1, <1>2, LoadFromEffect, Unheld

(* The last reference closes the library, any other one leaves it.         *)
LEMMA Released ==
  ASSUME CInv, loaded, ReleaseRef
  PROVE  /\ refcount' = refcount - 1 /\ LibraryBalance' /\ handle \in Libs
         /\ \/ refcount > 1 /\ refcount' > 0 /\ UNCHANGED <<handle, loaded, opened>>
            \/ /\ refcount = 1 /\ refcount' = 0 /\ handle' = NoLib /\ ~loaded'
               /\ \A l \in Libs : opened'[l] = 0
<1>0. /\ TypeOK /\ HandleOpen /\ HandleIsHeld /\ LibraryBalance
  BY DEF CInv, QInv, IInv
<1>1. refcount \in Int /\ refcount > 0 /\ handle # NoLib /\ handle \in Libs
  BY <1>0 DEF TypeOK, HandleIsHeld, Tables
<1>2. refcount' = refcount - 1
  BY DEF ReleaseRef
<1>3. CASE refcount = 1
  <2>1. UnloadHandle /\ loaded' = FALSE
    BY <1>1, <1>3 DEF ReleaseRef
  <2>2. /\ handle' = NoLib /\ opened'[handle] = opened[handle] - 1
        /\ \A l \in Libs \ {handle} : opened'[l] = opened[l]
    BY <1>0, <1>1, <2>1, UnloadEffect
  <2>3. opened[handle] = 1 /\ \A l \in Libs \ {handle} : opened[l] = 0
    BY <1>0, <1>1 DEF LibraryBalance
  <2>4. \A l \in Libs : opened'[l] = 0
    BY <2>2, <2>3
  <2>5. LibraryBalance'
    BY <2>2, <2>4 DEF LibraryBalance
  <2> QED
    BY <1>1, <1>2, <1>3, <2>1, <2>2, <2>4, <2>5
<1>4. CASE refcount > 1
  <2>1. UNCHANGED <<handle, loaded, opened>>
    BY <1>0, <1>4, ReleaseEffect
  <2>2. LibraryBalance'
    BY <1>0, <2>1 DEF LibraryBalance
  <2> QED
    BY <1>1, <1>2, <1>4, <2>1, <2>2
<1>5. refcount = 1 \/ refcount > 1
  BY <1>1
<1> QED
  BY <1>3, <1>4, <1>5

(* Who can be calling, and what is held then.                              *)
LEMMA CallFacts ==
  ASSUME CInv, Contract
  PROVE  /\ UserCode /\ MayUseTool => frame # "init_with"
         /\ UserCode /\ CanInitialize => frame = "none"
         /\ UserCode /\ CanInitialize /\ MayInitWith => ~loaded /\ handle = NoLib
         /\ frame = "finalize" => loaded /\ state = "FINALIZING"
         /\ sessions > 0 => loaded
<1>0. TypeOK /\ FramesMatch /\ HandleIsHeld /\ RefcountIsHolders /\ ReferencedLoaded
  BY DEF CInv, QInv, IInv
<1>1. UserCode /\ MayUseTool => frame # "init_with"
  BY DEF MayUseTool, Contract
<1>2. UserCode /\ CanInitialize => frame = "none"
  BY <1>0 DEF UserCode, CanInitialize, FramesMatch, TypeOK
<1>3. UserCode /\ CanInitialize /\ MayInitWith => ~loaded /\ handle = NoLib
  BY <1>0, <1>2 DEF MayInitWith, Contract, HandleIsHeld
<1>4. frame = "finalize" => loaded /\ state = "FINALIZING"
  BY <1>0, Held DEF FramesMatch, MPIHold
<1>5. sessions > 0 => loaded
  BY <1>0, Unheld
<1> QED
  BY <1>1, <1>2, <1>3, <1>4, <1>5

(* A failed native MPI_Init was the only holder.                           *)
LEMMA FailureIsAlone ==
  ASSUME CInv, Contract
  PROVE  /\ InitFails => loaded /\ refcount = 1 /\ sessions = 0 /\ failedInits = 0
         /\ frame = "init_with" => /\ ~loaded /\ handle # NoLib /\ refcount = 0
                                   /\ sessions = 0 /\ failedInits = 0
<1>0. TypeOK /\ HandleIsHeld /\ RefcountIsHolders /\ ReferencedLoaded
  BY DEF CInv, QInv, IInv
<1>1. refcount \in Int /\ sessions \in Nat /\ failedInits \in Nat
  BY <1>0 DEF TypeOK
<1>2. ASSUME InitFails PROVE loaded /\ refcount = 1 /\ sessions = 0 /\ failedInits = 0
  <2>1. frame = "init" /\ ~(refcount > 1)
    BY <1>2 DEF InitFails, MayFailInit, Contract
  <2>2. MPIHold = 1
    BY <2>1 DEF MPIHold
  <2>3. FramesMatch
    BY DEF CInv, QInv, IInv
  <2> QED
    BY <1>0, <1>1, <2>1, <2>2, <2>3, Held DEF Pins
<1>3. ASSUME frame = "init_with"
      PROVE  ~loaded /\ handle # NoLib /\ refcount = 0 /\ sessions = 0 /\ failedInits = 0
  BY <1>0, <1>3, Unheld DEF HandleIsHeld
<1> QED
  BY <1>2, <1>3

(* g_handle, g_backend_loaded and g_refcount change together.              *)
LEMMA HeldStep ==
  CInv /\ Contract /\ [Next]_vars => HandleIsHeld'
<1> SUFFICES ASSUME CInv, Contract, [Next]_vars PROVE HandleIsHeld'
  OBVIOUS
<1>0. /\ TypeOK /\ FramesMatch /\ HandleIsHeld /\ TablesMatch
      /\ LibraryBalance /\ SessionsHere /\ NoFault /\ refcount \in Int
  BY DEF CInv, QInv, IInv, TypeOK
<1> USE DEF HandleIsHeld
<1>1. ASSUME NEW l \in Libs, InitLoadFails(l) PROVE HandleIsHeld'
  BY <1>0, <1>1, NotEnsured, CallFacts DEF InitLoadFails
<1>2. ASSUME NEW l \in Libs, InitBegin(l) PROVE HandleIsHeld'
  BY <1>0, <1>2, Ensured, CallFacts DEF InitBegin
<1>3. ASSUME InitSucceeds PROVE HandleIsHeld'
  BY <1>0, <1>3 DEF InitSucceeds
<1>4. ASSUME InitFails PROVE HandleIsHeld'
  BY <1>0, <1>4, FailureIsAlone, Released DEF InitFails
<1>5. ASSUME NEW l \in Libs, InitWithLoadFails(l) PROVE HandleIsHeld'
  BY <1>0, <1>5, CallFacts, LoadFromEffect DEF InitWithLoadFails
<1>6. ASSUME NEW l \in Libs, InitWithBegin(l) PROVE HandleIsHeld'
  BY <1>0, <1>6, CallFacts, FreshLoad DEF InitWithBegin
<1>7. ASSUME InitWithSucceeds PROVE HandleIsHeld'
  BY <1>0, <1>7, FailureIsAlone DEF InitWithSucceeds
<1>8. ASSUME InitWithFails PROVE HandleIsHeld'
  BY <1>0, <1>8, FailureIsAlone DEF InitWithFails, UnloadHandle
<1>9. ASSUME FinalizeBegin PROVE HandleIsHeld'
  BY <1>0, <1>9 DEF FinalizeBegin, FramesMatch
<1>10. ASSUME NEW ok \in BOOLEAN, FinalizeReturn(ok) PROVE HandleIsHeld'
  <2>1. loaded /\ ReleaseRef /\ frame' = "none"
    BY <1>10, CallFacts DEF FinalizeReturn
  <2>2. \/ refcount > 1 /\ refcount' > 0 /\ UNCHANGED <<handle, loaded>>
        \/ refcount' = 0 /\ handle' = NoLib /\ ~loaded'
    BY <2>1, Released
  <2>3. CASE refcount > 1 /\ refcount' > 0 /\ UNCHANGED <<handle, loaded>>
    BY <1>0, <2>1, <2>3
  <2>4. CASE refcount' = 0 /\ handle' = NoLib /\ ~loaded'
    BY <2>1, <2>4
  <2> QED
    BY <2>2, <2>3, <2>4
<1>11. ASSUME NEW l \in Libs, ToolInitLoadFails(l) PROVE HandleIsHeld'
  BY <1>0, <1>11, NotEnsured, CallFacts DEF ToolInitLoadFails
<1>12. ASSUME NEW l \in Libs, NEW ok \in BOOLEAN, ToolInit(l, ok) PROVE HandleIsHeld'
  BY <1>0, <1>12, Ensured, CallFacts DEF ToolInit
<1>13. ASSUME NEW ok \in BOOLEAN, ToolFinalize(ok) PROVE HandleIsHeld'
  <2>1. loaded /\ ReleaseRef /\ frame' # "init_with"
    BY <1>13, CallFacts DEF ToolFinalize
  <2>2. \/ refcount > 1 /\ refcount' > 0 /\ UNCHANGED <<handle, loaded>>
        \/ refcount' = 0 /\ handle' = NoLib /\ ~loaded'
    BY <2>1, Released
  <2>3. CASE refcount > 1 /\ refcount' > 0 /\ UNCHANGED <<handle, loaded>>
    BY <1>0, <2>1, <2>3
  <2>4. CASE refcount' = 0 /\ handle' = NoLib /\ ~loaded'
    BY <2>1, <2>4
  <2> QED
    BY <2>2, <2>3, <2>4
<1>14. ASSUME Dies PROVE HandleIsHeld'
  BY <1>0, <1>14 DEF Dies, ToolFinalizeDies, ReturnDies, globals
<1>15. CASE RefuseInit \/ RefuseFinalize \/ RejectArgument
  BY <1>0, <1>15 DEF RefuseInit, RefuseFinalize, RejectArgument, Answer, globals, native
<1>16. CASE UNCHANGED vars
  BY <1>0, <1>16 DEF vars, globals, native
<1> QED
  BY <1>1, <1>2, <1>3, <1>4, <1>5, <1>6, <1>7, <1>8, <1>9, <1>10,
     <1>11, <1>12, <1>13, <1>14, <1>15, <1>16 DEF Next, MPIStep, ToolStep

(* A call into the open library does not fault.                            *)
LEMMA Reachable ==
  ASSUME NEW l \in Libs, NEW opens, opens[l] = 1
  PROVE  CallFault(l, opens) = "none"
BY DEF CallFault

(* No call goes where there is nothing to call.                            *)
LEMMA FaultStep ==
  CInv /\ Contract /\ [Next]_vars => NoFault'
<1> SUFFICES ASSUME CInv, Contract, [Next]_vars PROVE NoFault'
  OBVIOUS
<1>0. /\ TypeOK /\ FramesMatch /\ HandleIsHeld /\ TablesMatch
      /\ LibraryBalance /\ SessionsHere /\ NoFault /\ refcount \in Int
  BY DEF CInv, QInv, IInv, TypeOK
<1> USE DEF NoFault
<1>1. ASSUME NEW l \in Libs, InitLoadFails(l) PROVE NoFault'
  BY <1>0, <1>1 DEF InitLoadFails
<1>2. ASSUME NEW l \in Libs, InitBegin(l) PROVE NoFault'
  <2>1. /\ EnsureLoaded(l) /\ frame # "init_with" /\ (loaded \/ Native(l))
        /\ fault' = CallFault(vt', opened') /\ state \in {"NEVER", "INIT_FAILED"}
    BY <1>2, CallFacts DEF InitBegin, CanInitialize
  <2>2. vt' = handle' /\ handle' \in Libs /\ LibraryBalance'
    BY <1>0, <2>1, Ensured DEF TablesMatch
  <2>3. opened'[handle'] = 1
    BY <2>2 DEF LibraryBalance
  <2> QED
    BY <2>1, <2>2, <2>3, Reachable
<1>3. ASSUME InitSucceeds PROVE NoFault'
  BY <1>0, <1>3 DEF InitSucceeds
<1>4. ASSUME InitFails PROVE NoFault'
  BY <1>0, <1>4 DEF InitFails
<1>5. ASSUME NEW l \in Libs, InitWithLoadFails(l) PROVE NoFault'
  BY <1>0, <1>5 DEF InitWithLoadFails
<1>6. ASSUME NEW l \in Libs, InitWithBegin(l) PROVE NoFault'
  <2>1. /\ LoadFrom(l) /\ Native(l) /\ handle = NoLib
        /\ fault' = CallFault(vt', opened')
    BY <1>6, CallFacts DEF InitWithBegin
  <2>2. vt' = l /\ opened'[l] = 1
    BY <1>0, <2>1, FreshLoad
  <2> QED
    BY <2>1, <2>2, Reachable
<1>7. ASSUME InitWithSucceeds PROVE NoFault'
  BY <1>0, <1>7 DEF InitWithSucceeds
<1>8. ASSUME InitWithFails PROVE NoFault'
  BY <1>0, <1>8 DEF InitWithFails
<1>9. ASSUME FinalizeBegin PROVE NoFault'
  <2>1. fault' = FinalizeFault /\ state = "ACTIVE"
    BY <1>9 DEF FinalizeBegin
  <2>2. vt \in Libs /\ opened[vt] > 0 /\ nativeMPI[vt] = "running"
    BY <1>0, <2>1 DEF CInv, QInv, ActiveDispatch, TypeOK, Tables
  <2>3. CallFault(vt, opened) = "none"
    BY <1>0, <2>2, LibsAssumption DEF CallFault, TypeOK
  <2> QED
    BY <2>1, <2>2, <2>3 DEF FinalizeFault
<1>10. ASSUME NEW ok \in BOOLEAN, FinalizeReturn(ok) PROVE NoFault'
  BY <1>0, <1>10 DEF FinalizeReturn
<1>11. ASSUME NEW l \in Libs, ToolInitLoadFails(l) PROVE NoFault'
  BY <1>0, <1>11 DEF ToolInitLoadFails
<1>12. ASSUME NEW l \in Libs, NEW ok \in BOOLEAN, ToolInit(l, ok) PROVE NoFault'
  <2>1. /\ EnsureLoaded(l) /\ frame # "init_with" /\ (loaded \/ Native(l))
        /\ fault' = CallFault(tvt', opened')
    BY <1>12, CallFacts DEF ToolInit
  <2>2. tvt' = handle' /\ handle' \in Libs /\ LibraryBalance'
    BY <1>0, <2>1, Ensured
  <2>3. opened'[handle'] = 1
    BY <2>2 DEF LibraryBalance
  <2> QED
    BY <2>1, <2>2, <2>3, Reachable
<1>13. ASSUME NEW ok \in BOOLEAN, ToolFinalize(ok) PROVE NoFault'
  BY <1>0, <1>13 DEF ToolFinalize
<1>14. CASE ReturnDies
  <2>1. vt \in Libs /\ entry.lib = vt /\ opened[vt] > 0 /\ opened[entry.lib] = 0
    BY <1>14 DEF ReturnDies, CInv, QInv, OnStack
  <2> QED
    BY <2>1
<1>17. CASE ToolFinalizeDies
  <2>1. sessions > 0 /\ loaded /\ ToolFinalizeFault # "none"
    BY <1>17, CallFacts DEF ToolFinalizeDies
  <2>2. tvt = handle /\ handle \in Libs
    BY <1>0, <2>1 DEF TablesMatch, HandleIsHeld, TypeOK, Tables
  <2>3. opened[tvt] = 1 /\ nativeTool[tvt] = sessions
    BY <1>0, <2>2 DEF LibraryBalance, SessionsHere
  <2>4. CallFault(tvt, opened) = "none"
    BY <2>2, <2>3, Reachable
  <2> QED
    BY <2>1, <2>3, <2>4 DEF ToolFinalizeFault
<1>15. CASE RefuseInit \/ RefuseFinalize \/ RejectArgument
  BY <1>0, <1>15 DEF RefuseInit, RefuseFinalize, RejectArgument, Answer, globals, native
<1>16. CASE UNCHANGED vars
  BY <1>0, <1>16 DEF vars, globals, native
<1> QED
  BY <1>1, <1>2, <1>3, <1>4, <1>5, <1>6, <1>7, <1>8, <1>9, <1>10,
     <1>11, <1>12, <1>13, <1>14, <1>15, <1>16, <1>17 DEF Next, MPIStep, ToolStep, Dies

(* What is open is what g_handle names.                                    *)
LEMMA BalanceStep ==
  CInv /\ Contract /\ [Next]_vars => LibraryBalance'
<1> SUFFICES ASSUME CInv, Contract, [Next]_vars PROVE LibraryBalance'
  OBVIOUS
<1>0. /\ TypeOK /\ FramesMatch /\ HandleIsHeld /\ TablesMatch
      /\ LibraryBalance /\ SessionsHere /\ NoFault /\ refcount \in Int
  BY DEF CInv, QInv, IInv, TypeOK
<1>1. ASSUME NEW l \in Libs, InitLoadFails(l) PROVE LibraryBalance'
  BY <1>0, <1>1, NotEnsured, CallFacts DEF InitLoadFails, LibraryBalance
<1>2. ASSUME NEW l \in Libs, InitBegin(l) PROVE LibraryBalance'
  BY <1>0, <1>2, Ensured, CallFacts DEF InitBegin
<1>3. ASSUME InitSucceeds PROVE LibraryBalance'
  BY <1>0, <1>3 DEF InitSucceeds, LibraryBalance
<1>4. ASSUME InitFails PROVE LibraryBalance'
  BY <1>0, <1>4, FailureIsAlone, Released DEF InitFails
<1>5. ASSUME NEW l \in Libs, InitWithLoadFails(l) PROVE LibraryBalance'
  BY <1>0, <1>5, CallFacts, LoadFromEffect DEF InitWithLoadFails, LibraryBalance
<1>6. ASSUME NEW l \in Libs, InitWithBegin(l) PROVE LibraryBalance'
  BY <1>0, <1>6, CallFacts, FreshLoad DEF InitWithBegin
<1>7. ASSUME InitWithSucceeds PROVE LibraryBalance'
  BY <1>0, <1>7 DEF InitWithSucceeds, LibraryBalance
<1>8. ASSUME InitWithFails PROVE LibraryBalance'
  <2>1. UnloadHandle /\ handle # NoLib /\ handle \in Libs
    BY <1>0, <1>8, FailureIsAlone DEF InitWithFails, TypeOK, Tables
  <2>2. handle' = NoLib /\ opened' = [opened EXCEPT ![handle] = @ - 1]
    BY <2>1 DEF UnloadHandle
  <2>3. opened[handle] = 1 /\ \A l \in Libs \ {handle} : opened[l] = 0
    BY <1>0, <2>1 DEF LibraryBalance
  <2>4. opened \in [Libs -> Nat]
    BY <1>0 DEF TypeOK
  <2>5. \A l \in Libs : opened'[l] = 0
    BY <2>1, <2>2, <2>3, <2>4
  <2> QED
    BY <2>2, <2>5 DEF LibraryBalance
<1>9. ASSUME FinalizeBegin PROVE LibraryBalance'
  BY <1>0, <1>9 DEF FinalizeBegin, LibraryBalance, native
<1>10. ASSUME NEW ok \in BOOLEAN, FinalizeReturn(ok) PROVE LibraryBalance'
  <2>1. loaded /\ ReleaseRef
    BY <1>10, CallFacts DEF FinalizeReturn
  <2> QED
    BY <2>1, Released
<1>11. ASSUME NEW l \in Libs, ToolInitLoadFails(l) PROVE LibraryBalance'
  BY <1>0, <1>11, NotEnsured, CallFacts DEF ToolInitLoadFails, LibraryBalance
<1>12. ASSUME NEW l \in Libs, NEW ok \in BOOLEAN, ToolInit(l, ok) PROVE LibraryBalance'
  BY <1>0, <1>12, Ensured, CallFacts DEF ToolInit
<1>13. ASSUME NEW ok \in BOOLEAN, ToolFinalize(ok) PROVE LibraryBalance'
  <2>1. loaded /\ ReleaseRef
    BY <1>13, CallFacts DEF ToolFinalize
  <2> QED
    BY <2>1, Released
<1>14. ASSUME Dies PROVE LibraryBalance'
  BY <1>0, <1>14 DEF Dies, ToolFinalizeDies, ReturnDies, LibraryBalance, globals, native
<1>15. CASE RefuseInit \/ RefuseFinalize \/ RejectArgument
  BY <1>0, <1>15 DEF RefuseInit, RefuseFinalize, RejectArgument, Answer, globals, native,
     LibraryBalance
<1>16. CASE UNCHANGED vars
  BY <1>0, <1>16 DEF vars, globals, native, LibraryBalance
<1> QED
  BY <1>1, <1>2, <1>3, <1>4, <1>5, <1>6, <1>7, <1>8, <1>9, <1>10,
     <1>11, <1>12, <1>13, <1>14, <1>15, <1>16 DEF Next, MPIStep, ToolStep

(* Both tables follow g_handle.                                            *)
LEMMA TablesStep ==
  CInv /\ Contract /\ [Next]_vars => TablesMatch'
<1> SUFFICES ASSUME CInv, Contract, [Next]_vars PROVE TablesMatch'
  OBVIOUS
<1>0. /\ TypeOK /\ FramesMatch /\ HandleIsHeld /\ TablesMatch
      /\ LibraryBalance /\ SessionsHere /\ NoFault /\ refcount \in Int
  BY DEF CInv, QInv, IInv, TypeOK
<1> USE DEF TablesMatch
<1>1. ASSUME NEW l \in Libs, InitLoadFails(l) PROVE TablesMatch'
  BY <1>0, <1>1, NotEnsured, CallFacts DEF InitLoadFails
<1>2. ASSUME NEW l \in Libs, InitBegin(l) PROVE TablesMatch'
  BY <1>0, <1>2, Ensured, CallFacts DEF InitBegin, CanInitialize
<1>3. ASSUME InitSucceeds PROVE TablesMatch'
  <2>1. /\ state = "INITIALIZING" /\ state' = "ACTIVE"
        /\ UNCHANGED <<handle, loaded, vt, tvt>>
    BY <1>0, <1>3 DEF InitSucceeds, FramesMatch
  <2> QED
    BY <1>0, <2>1
<1>4. ASSUME InitFails PROVE TablesMatch'
  <2>1. loaded /\ ReleaseRef /\ refcount = 1 /\ state' = "INIT_FAILED"
    BY <1>4, FailureIsAlone DEF InitFails
  <2>2. ~loaded'
    BY <2>1, Released
  <2> QED
    BY <2>1, <2>2
<1>5. ASSUME NEW l \in Libs, InitWithLoadFails(l) PROVE TablesMatch'
  BY <1>0, <1>5, CallFacts DEF InitWithLoadFails
<1>6. ASSUME NEW l \in Libs, InitWithBegin(l) PROVE TablesMatch'
  BY <1>0, <1>6, CallFacts, FreshLoad DEF InitWithBegin
<1>7. ASSUME InitWithSucceeds PROVE TablesMatch'
  <2>1. /\ frame = "init_with" /\ state = "INITIALIZING" /\ state' = "ACTIVE"
        /\ UNCHANGED <<handle, vt, tvt>>
    BY <1>0, <1>7 DEF InitWithSucceeds, FramesMatch
  <2> QED
    BY <1>0, <2>1
<1>8. ASSUME InitWithFails PROVE TablesMatch'
  BY <1>0, <1>8, FailureIsAlone DEF InitWithFails
<1>9. ASSUME FinalizeBegin PROVE TablesMatch'
  BY <1>0, <1>9 DEF FinalizeBegin
<1>10. ASSUME NEW ok \in BOOLEAN, FinalizeReturn(ok) PROVE TablesMatch'
  <2>1. /\ loaded /\ ReleaseRef /\ tvt' = tvt /\ state' \in {"FINALIZED", "FINALIZE_FAILED"}
    BY <1>10, CallFacts DEF FinalizeReturn
  <2>2. loaded' => handle' = handle
    BY <2>1, Released
  <2> QED
    BY <1>0, <2>1, <2>2
<1>11. ASSUME NEW l \in Libs, ToolInitLoadFails(l) PROVE TablesMatch'
  <2>1. /\ EnsureLoaded(l) /\ frame # "init_with" /\ ~loaded /\ ~Native(l)
        /\ state' = state /\ frame' = frame
    BY <1>11, CallFacts DEF ToolInitLoadFails
  <2>2. ~loaded'
    BY <2>1, NotEnsured
  <2>3. state # "INITIALIZING"
    BY <1>0, <2>1, Held DEF FramesMatch, MPIHold, TypeOK, CInv, QInv, IInv
  <2> QED
    BY <2>1, <2>2, <2>3
<1>12. ASSUME NEW l \in Libs, NEW ok \in BOOLEAN, ToolInit(l, ok) PROVE TablesMatch'
  <2>1. /\ EnsureLoaded(l) /\ frame # "init_with" /\ (loaded \/ Native(l))
        /\ state' = state
    BY <1>12, CallFacts DEF ToolInit
  <2> QED
    BY <1>0, <2>1, Ensured
<1>13. ASSUME NEW ok \in BOOLEAN, ToolFinalize(ok) PROVE TablesMatch'
  <2>1. /\ loaded /\ ReleaseRef /\ sessions > 0
        /\ frame # "init_with" /\ UNCHANGED <<state, vt, tvt>>
    BY <1>13, CallFacts DEF ToolFinalize
  <2>2. \/ refcount > 1 /\ UNCHANGED <<handle, loaded>>
        \/ refcount = 1 /\ ~loaded'
    BY <2>1, Released
  <2>3. CASE UNCHANGED <<handle, loaded>>
    BY <1>0, <2>1, <2>3
  <2>4. CASE refcount = 1 /\ ~loaded'
    <3>1. state # "INITIALIZING"
      BY <1>0, <2>1, <2>4, Held DEF FramesMatch, MPIHold, TypeOK, CInv, QInv, IInv
    <3> QED
      BY <2>1, <2>4, <3>1
  <2> QED
    BY <2>2, <2>3, <2>4
<1>14. ASSUME Dies PROVE TablesMatch'
  BY <1>0, <1>14 DEF Dies, ToolFinalizeDies, ReturnDies, globals
<1>15. CASE RefuseInit \/ RefuseFinalize \/ RejectArgument
  BY <1>0, <1>15 DEF RefuseInit, RefuseFinalize, RejectArgument, Answer, globals, native
<1>16. CASE UNCHANGED vars
  BY <1>0, <1>16 DEF vars, globals, native
<1> QED
  BY <1>1, <1>2, <1>3, <1>4, <1>5, <1>6, <1>7, <1>8, <1>9, <1>10,
     <1>11, <1>12, <1>13, <1>14, <1>15, <1>16 DEF Next, MPIStep, ToolStep

(* Every session stays on the library that g_handle names.                 *)
LEMMA SessionsStep ==
  CInv /\ Contract /\ [Next]_vars => SessionsHere'
<1> SUFFICES ASSUME CInv, Contract, [Next]_vars PROVE SessionsHere'
  OBVIOUS
<1>0. /\ TypeOK /\ FramesMatch /\ HandleIsHeld /\ TablesMatch
      /\ LibraryBalance /\ SessionsHere /\ NoFault /\ refcount \in Int
  BY DEF CInv, QInv, IInv, TypeOK
<1> USE DEF SessionsHere
<1>1. ASSUME NEW l \in Libs, InitLoadFails(l) PROVE SessionsHere'
  BY <1>0, <1>1, NotEnsured, CallFacts DEF InitLoadFails
<1>2. ASSUME NEW l \in Libs, InitBegin(l) PROVE SessionsHere'
  <2>1. /\ EnsureLoaded(l) /\ frame # "init_with" /\ (loaded \/ Native(l))
        /\ UNCHANGED <<sessions, nativeTool>>
    BY <1>2, CallFacts DEF InitBegin
  <2>2. \/ handle' = handle
        \/ sessions = 0
    BY <2>1, Ensured
  <2> QED
    BY <1>0, <2>1, <2>2
<1>3. ASSUME InitSucceeds PROVE SessionsHere'
  BY <1>0, <1>3 DEF InitSucceeds
<1>4. ASSUME InitFails PROVE SessionsHere'
  <2>1. /\ sessions = 0 /\ sessions' = sessions
        /\ nativeTool' = [l \in Libs |-> IF opened'[l] = 0 THEN 0 ELSE nativeTool[l]]
    BY <1>4, FailureIsAlone DEF InitFails, Images
  <2> QED
    BY <1>0, <2>1
<1>5. ASSUME NEW l \in Libs, InitWithLoadFails(l) PROVE SessionsHere'
  <2>1. sessions = 0 /\ UNCHANGED <<sessions, nativeTool>>
    BY <1>0, <1>5, CallFacts, Unheld DEF InitWithLoadFails, CInv, QInv, IInv
  <2> QED
    BY <1>0, <2>1
<1>6. ASSUME NEW l \in Libs, InitWithBegin(l) PROVE SessionsHere'
  <2>1. sessions = 0 /\ UNCHANGED <<sessions, nativeTool>>
    BY <1>0, <1>6, CallFacts, Unheld DEF InitWithBegin, CInv, QInv, IInv
  <2> QED
    BY <1>0, <2>1
<1>7. ASSUME InitWithSucceeds PROVE SessionsHere'
  BY <1>0, <1>7 DEF InitWithSucceeds
<1>8. ASSUME InitWithFails PROVE SessionsHere'
  <2>1. /\ sessions = 0 /\ sessions' = sessions
        /\ nativeTool' = [l \in Libs |-> IF opened'[l] = 0 THEN 0 ELSE nativeTool[l]]
    BY <1>8, FailureIsAlone DEF InitWithFails, Images
  <2> QED
    BY <1>0, <2>1
<1>9. ASSUME FinalizeBegin PROVE SessionsHere'
  BY <1>0, <1>9 DEF FinalizeBegin, native
<1>10. ASSUME NEW ok \in BOOLEAN, FinalizeReturn(ok) PROVE SessionsHere'
  <2>1. /\ loaded /\ ReleaseRef /\ sessions' = sessions /\ frame = "finalize"
        /\ nativeTool' = [l \in Libs |-> IF opened'[l] = 0 THEN 0 ELSE nativeTool[l]]
    BY <1>10, CallFacts DEF FinalizeReturn, Images
  <2>2. \/ refcount > 1 /\ UNCHANGED <<handle, opened>>
        \/ refcount = 1 /\ \A l \in Libs : opened'[l] = 0
    BY <2>1, Released
  <2>3. CASE UNCHANGED <<handle, opened>>
    <3>1. \A l \in Libs : opened[l] = IF l = handle THEN 1 ELSE 0
      BY <1>0 DEF LibraryBalance
    <3> QED
      BY <1>0, <2>1, <2>3, <3>1
  <2>4. CASE refcount = 1 /\ \A l \in Libs : opened'[l] = 0
    <3>1. sessions = 0
      BY <1>0, <2>1, <2>4, CallFacts DEF RefcountIsHolders, LiveHolders, BeforeInit, TypeOK, CInv, QInv, IInv
    <3> QED
      BY <2>1, <2>4, <3>1
  <2> QED
    BY <2>2, <2>3, <2>4
<1>11. ASSUME NEW l \in Libs, ToolInitLoadFails(l) PROVE SessionsHere'
  BY <1>0, <1>11, NotEnsured, CallFacts DEF ToolInitLoadFails
<1>12. ASSUME NEW l \in Libs, NEW ok \in BOOLEAN, ToolInit(l, ok) PROVE SessionsHere'
  <2>1. /\ EnsureLoaded(l) /\ frame # "init_with" /\ (loaded \/ Native(l))
    BY <1>12, CallFacts DEF ToolInit
  <2>2. /\ handle' \in Libs /\ tvt' = handle'
        /\ handle' = handle \/ sessions = 0
    BY <2>1, Ensured
  <2>3. \/ sessions' = sessions /\ nativeTool' = nativeTool
        \/ sessions' = sessions + 1 /\ nativeTool' = [nativeTool EXCEPT ![tvt'] = @ + 1]
    BY <1>12 DEF ToolInit
  <2>4. \A k \in Libs : nativeTool[k] = IF k = handle' THEN sessions ELSE 0
    BY <1>0, <2>2
  <2> QED
    BY <1>0, <2>2, <2>3, <2>4 DEF TypeOK
<1>13. ASSUME NEW ok \in BOOLEAN, ToolFinalize(ok) PROVE SessionsHere'
  <2>1. /\ loaded /\ ReleaseRef /\ sessions > 0 /\ sessions' = sessions - 1
        /\ nativeTool' = [l \in Libs |->
             IF opened'[l] = 0 THEN 0 ELSE [nativeTool EXCEPT ![tvt] = @ - 1][l]]
    BY <1>13, CallFacts DEF ToolFinalize, Images
  <2>2. tvt = handle /\ handle \in Libs
    BY <1>0, <2>1, Released DEF TablesMatch
  <2>3. \/ refcount > 1 /\ UNCHANGED <<handle, opened>>
        \/ refcount = 1 /\ \A l \in Libs : opened'[l] = 0
    BY <2>1, Released
  <2>4. CASE UNCHANGED <<handle, opened>>
    <3>1. \A l \in Libs : opened[l] = IF l = handle THEN 1 ELSE 0
      BY <1>0 DEF LibraryBalance
    <3> QED
      BY <1>0, <2>1, <2>2, <2>4, <3>1 DEF TypeOK
  <2>5. CASE refcount = 1 /\ \A l \in Libs : opened'[l] = 0
    <3>1. sessions' = 0
      BY <1>0, <2>1, <2>5 DEF RefcountIsHolders, LiveHolders, BeforeInit, TypeOK, CInv, QInv, IInv
    <3> QED
      BY <2>1, <2>5, <3>1
  <2> QED
    BY <2>3, <2>4, <2>5
<1>14. ASSUME Dies PROVE SessionsHere'
  BY <1>0, <1>14 DEF Dies, ToolFinalizeDies, ReturnDies, globals, native
<1>15. CASE RefuseInit \/ RefuseFinalize \/ RejectArgument
  BY <1>0, <1>15 DEF RefuseInit, RefuseFinalize, RejectArgument, Answer, globals, native
<1>16. CASE UNCHANGED vars
  BY <1>0, <1>16 DEF vars, globals, native
<1> QED
  BY <1>1, <1>2, <1>3, <1>4, <1>5, <1>6, <1>7, <1>8, <1>9, <1>10,
     <1>11, <1>12, <1>13, <1>14, <1>15, <1>16 DEF Next, MPIStep, ToolStep

-----------------------------------------------------------------------------
LEMMA InitCInv == Init => CInv
<1> SUFFICES ASSUME Init PROVE CInv
  OBVIOUS
<1>1. QInv
  BY InitQInv
<1>2. HandleIsHeld
  BY DEF Init, HandleIsHeld
<1>3. NoFault /\ TablesMatch /\ LibraryBalance /\ SessionsHere
  BY DEF Init, NoFault, TablesMatch, LibraryBalance, SessionsHere
<1> QED
  BY <1>1, <1>2, <1>3 DEF CInv

LEMMA StepCInv == CInv /\ Contract /\ [Next]_vars => CInv'
<1>1. CInv /\ Contract /\ [Next]_vars => QInv'
  BY StepIInv, OnStackStep, ActiveStep, OpenedStep DEF CInv, QInv, Contract, Quiet
<1> QED
  BY <1>1, HeldStep, FaultStep, BalanceStep, TablesStep, SessionsStep DEF CInv

LEMMA ContractInvariant == Contract => (Spec => []CInv)
<1> SUFFICES ASSUME Contract PROVE Spec => []CInv
  OBVIOUS
<1>1. CInv /\ [Next]_vars => CInv'
  BY StepCInv
<1> QED
  BY <1>1, InitCInv, PTL DEF Spec

(* In contract use no UniMPI call goes through an empty or unmapped table. *)
THEOREM ContractNoFault == Contract => (Spec => []NoFault)
<1> SUFFICES ASSUME Contract PROVE Spec => []NoFault
  OBVIOUS
<1>1. CInv => NoFault
  BY DEF CInv
<1> QED
  BY <1>1, ContractInvariant, PTL

(* In contract use the library in g_handle is open once and no other is.   *)
THEOREM ContractBalance == Contract => (Spec => []LibraryBalance)
<1> SUFFICES ASSUME Contract PROVE Spec => []LibraryBalance
  OBVIOUS
<1>1. CInv => LibraryBalance
  BY DEF CInv
<1> QED
  BY <1>1, ContractInvariant, PTL

(* In contract use an open MPI-T session always reaches the library it was *)
(* opened on, whatever the MPI interface does meanwhile.                   *)
THEOREM ContractToolCallable == Contract => (Spec => []ToolCallable)
<1> SUFFICES ASSUME Contract PROVE Spec => []ToolCallable
  OBVIOUS
<1>1. CInv => ToolCallable
  <2> SUFFICES ASSUME CInv, sessions > 0
               PROVE  tvt # NoLib /\ opened[tvt] > 0 /\ nativeTool[tvt] = sessions
    BY DEF ToolCallable
  <2>0. TypeOK /\ HandleIsHeld /\ RefcountIsHolders /\ TablesMatch /\ LibraryBalance /\ SessionsHere
    BY DEF CInv, QInv, IInv
  <2>1. loaded
    BY <2>0, Unheld
  <2>2. tvt = handle /\ handle # NoLib /\ handle \in Libs
    BY <2>0, <2>1 DEF TablesMatch, HandleIsHeld, TypeOK, Tables
  <2>3. opened[tvt] = 1 /\ nativeTool[tvt] = sessions
    BY <2>0, <2>2 DEF LibraryBalance, SessionsHere
  <2> QED
    BY <2>2, <2>3
<1> QED
  BY <1>1, ContractInvariant, PTL

(* In contract use a library is unmapped only once its last session is     *)
(* finalized and its MPI is no longer running.                             *)
THEOREM ContractUnmapQuiescent == Contract => (Spec => UnmapOnlyQuiescent)
<1> DEFINE Quiescent == \A l \in Libs : opened[l] > 0 /\ opened'[l] = 0 =>
       /\ nativeTool[l] > 0 => sessions' = 0
       /\ nativeMPI[l] = "running" => state' \in {"FINALIZED", "FINALIZE_FAILED"}
<1> SUFFICES ASSUME Contract PROVE Spec => UnmapOnlyQuiescent
  OBVIOUS
<1>1. CInv /\ [Next]_vars => Quiescent
  <2> SUFFICES ASSUME CInv, [Next]_vars, NEW k \in Libs, opened[k] > 0, opened'[k] = 0
               PROVE  /\ nativeTool[k] > 0 => sessions' = 0
                      /\ nativeMPI[k] = "running" => state' \in {"FINALIZED", "FINALIZE_FAILED"}
    OBVIOUS
  <2> DEFINE Goal == /\ nativeTool[k] > 0 => sessions' = 0
                     /\ nativeMPI[k] = "running" => state' \in {"FINALIZED", "FINALIZE_FAILED"}
  <2>0. /\ TypeOK /\ FramesMatch /\ RefcountIsHolders /\ StartsOnce /\ SessionsHere
        /\ opened \in [Libs -> Nat]
    BY DEF CInv, QInv, IInv, TypeOK
  <2>1. ASSUME NEW l \in Libs, EnsureLoaded(l) \/ LoadFrom(l) PROVE FALSE
    <3>1. opened'[k] >= opened[k] /\ opened' \in [Libs -> Nat]
      BY <2>0, <2>1, EnsureLoadedEffect, LoadFromEffect
    <3> QED
      BY <2>0, <3>1
  <2>2. ASSUME NEW l \in Libs, NEW ok \in BOOLEAN,
               \/ InitLoadFails(l) \/ InitBegin(l) \/ InitWithLoadFails(l) \/ InitWithBegin(l)
               \/ ToolInitLoadFails(l) \/ ToolInit(l, ok)
        PROVE  Goal
    BY <2>1, <2>2 DEF InitLoadFails, InitBegin, InitWithLoadFails, InitWithBegin,
       ToolInitLoadFails, ToolInit
  <2>3. CASE InitFails \/ InitWithFails
    <3>1. sessions' = 0
      BY <2>3, FailureIsAlone DEF InitFails, InitWithFails
    <3>2. nativeMPI[k] # "running"
      BY <2>0, <2>3 DEF InitFails, InitWithFails, StartsOnce, FramesMatch
    <3> QED
      BY <3>1, <3>2
  <2>4. ASSUME NEW ok \in BOOLEAN, FinalizeReturn(ok) PROVE Goal
    <3>1. /\ loaded /\ ReleaseRef /\ state = "FINALIZING" /\ sessions' = sessions
          /\ state' \in {"FINALIZED", "FINALIZE_FAILED"}
      BY <2>4, CallFacts DEF FinalizeReturn
    <3>2. refcount = 1
      <4>1. refcount = 1 \/ opened' = opened
        BY <3>1, Released
      <4> QED
        BY <2>0, <4>1
    <3>3. sessions = 0
      BY <2>0, <3>1, <3>2 DEF RefcountIsHolders, LiveHolders, BeforeInit, TypeOK
    <3> QED
      BY <3>1, <3>3
  <2>5. ASSUME NEW ok \in BOOLEAN, ToolFinalize(ok) PROVE Goal
    <3>1. loaded /\ ReleaseRef /\ sessions > 0 /\ sessions' = sessions - 1
      BY <2>5, CallFacts DEF ToolFinalize
    <3>2. refcount = 1
      <4>1. refcount = 1 \/ opened' = opened
        BY <3>1, Released
      <4> QED
        BY <2>0, <4>1
    <3>3. sessions' = 0 /\ state \notin {"ACTIVE", "FINALIZING"}
      BY <2>0, <3>1, <3>2 DEF RefcountIsHolders, LiveHolders, BeforeInit, TypeOK
    <3> QED
      BY <2>0, <3>3 DEF StartsOnce
  <2>6. CASE \/ InitSucceeds \/ InitWithSucceeds \/ FinalizeBegin \/ RefuseInit
             \/ RefuseFinalize \/ RejectArgument \/ Dies \/ UNCHANGED vars
    <3>1. opened' = opened
      BY <2>6 DEF InitSucceeds, InitWithSucceeds, FinalizeBegin, RefuseInit, RefuseFinalize,
         RejectArgument, Dies, ToolFinalizeDies, ReturnDies, Answer, native, vars
    <3> QED
      BY <3>1
  <2> QED
    BY <2>2, <2>3, <2>4, <2>5, <2>6 DEF Next, MPIStep, ToolStep
<1> QED
  BY <1>1, ContractInvariant, PTL DEF Spec, UnmapOnlyQuiescent

-----------------------------------------------------------------------------
(* The image set of the refinement.                                        *)
LEMMA OneMapped ==
  ASSUME LibraryBalance, handle \in Tables
  PROVE  {l \in Libs : opened[l] > 0} = IF handle = NoLib THEN {} ELSE {handle}
BY DEF LibraryBalance, Tables

LEMMA OneMappedNext ==
  ASSUME LibraryBalance', handle' \in Tables
  PROVE  {l \in Libs : opened'[l] > 0} = IF handle' = NoLib THEN {} ELSE {handle'}
BY DEF LibraryBalance, Tables

(* The lifecycle, in contract use, implements the hold on one library:     *)
(* each entry point is one step of LibraryHold or changes nothing of it.   *)
THEOREM ContractImplementsHold == Contract => (Spec => HoldSpec)
<1> SUFFICES ASSUME Contract PROVE Spec => HoldSpec
  OBVIOUS
<1>1. Init => Hold!Init
  BY DEF Init, Hold!Init, AbstractMPI, CanInitialize, Pins
<1>2. CInv /\ CInv' /\ [Next]_vars => [Hold!Next]_Hold!hold
  <2> SUFFICES ASSUME CInv, CInv', [Next]_vars PROVE [Hold!Next]_Hold!hold
    OBVIOUS
  <2> DEFINE mapped == {l \in Libs : opened[l] > 0}
             pins   == Pins
  <2>0. /\ TypeOK /\ FramesMatch /\ HandleIsHeld /\ RefcountIsHolders /\ ReferencedLoaded
        /\ refcount \in Int /\ sessions \in Nat /\ failedInits \in Nat
    BY DEF CInv, QInv, IInv, TypeOK
  <2>p. Pins = sessions + failedInits /\ Pins' = sessions' + failedInits'
    BY DEF Pins
  <2>a. /\ mapped = IF handle = NoLib THEN {} ELSE {handle}
        /\ mapped' = IF handle' = NoLib THEN {} ELSE {handle'}
        /\ handle \in Tables /\ handle' \in Tables
    BY OneMapped, OneMappedNext DEF CInv, QInv, IInv, TypeOK
  <2> HIDE DEF mapped, pins, Pins
  <2>b. Hold!hold = <<AbstractMPI, pins, mapped>>
    BY DEF Hold!hold, mapped, pins, Pins
  <2>1. ASSUME NEW l \in Libs, InitLoadFails(l) \/ ToolInitLoadFails(l) PROVE UNCHANGED Hold!hold
    <3>1. opened' = opened
      BY <2>1, NotEnsured, CallFacts DEF InitLoadFails, ToolInitLoadFails
    <3>2. AbstractMPI' = AbstractMPI /\ pins' = pins
      BY <2>1 DEF InitLoadFails, ToolInitLoadFails, AbstractMPI, CanInitialize, pins, Pins
    <3> QED
      BY <3>1, <3>2 DEF Hold!hold, pins, Pins
  <2>2. ASSUME NEW l \in Libs, InitBegin(l) PROVE Hold!Start
    <3>1. /\ EnsureLoaded(l) /\ frame # "init_with" /\ (loaded \/ Native(l))
          /\ AbstractMPI = "idle" /\ AbstractMPI' = "starting" /\ pins' = pins
      BY <2>2, CallFacts DEF InitBegin, AbstractMPI, CanInitialize, pins, Pins
    <3>2. handle' \in Libs /\ handle' # NoLib /\ (handle = handle' \/ handle = NoLib)
      BY <3>1, Ensured
    <3>3. mapped \in {{}, {handle'}} /\ mapped' = {handle'}
      BY <2>a, <3>2
    <3> QED
      BY <3>1, <3>2, <3>3 DEF Hold!Start, Hold!Acquire, mapped, pins, Pins
  <2>3. ASSUME NEW l \in Libs, InitWithBegin(l) PROVE Hold!Start
    <3>1. /\ LoadFrom(l) /\ Native(l) /\ handle = NoLib /\ handle' = l
          /\ AbstractMPI = "idle" /\ AbstractMPI' = "starting" /\ pins' = pins
      BY <2>3, CallFacts DEF InitWithBegin, AbstractMPI, CanInitialize, pins, Pins, LoadFrom
    <3>2. mapped = {} /\ mapped' = {l}
      BY <2>a, <3>1
    <3> QED
      BY <3>1, <3>2 DEF Hold!Start, Hold!Acquire, mapped, pins, Pins
  <2>4. ASSUME InitSucceeds \/ InitWithSucceeds PROVE Hold!Started
    <3>1. /\ AbstractMPI = "starting" /\ AbstractMPI' = "up" /\ pins' = pins
          /\ opened' = opened
      BY <2>0, <2>4 DEF InitSucceeds, InitWithSucceeds, FramesMatch, AbstractMPI, CanInitialize, pins, Pins
    <3> QED
      BY <3>1 DEF Hold!Started, pins, Pins
  <2>5. ASSUME InitFails \/ InitWithFails PROVE Hold!MPIReleases("starting", "idle")
    <3>1. /\ AbstractMPI = "starting" /\ AbstractMPI' = "idle"
          /\ pins = 0 /\ pins' = pins
      BY <2>0, <2>5, FailureIsAlone DEF InitFails, InitWithFails, FramesMatch, AbstractMPI,
         CanInitialize, pins, Pins
    <3>2. handle' = NoLib
      <4>1. CASE InitFails
        <5>1. loaded /\ ReleaseRef /\ refcount = 1
          BY <4>1, FailureIsAlone DEF InitFails
        <5> QED
          BY <5>1, Released
      <4>2. CASE InitWithFails
        BY <4>2 DEF InitWithFails, UnloadHandle
      <4> QED
        BY <2>5, <4>1, <4>2
    <3>3. mapped' = {}
      BY <2>a, <3>2
    <3> QED
      BY <3>1, <3>3 DEF Hold!MPIReleases, mapped, pins, Pins
  <2>6. ASSUME FinalizeBegin PROVE Hold!Close
    <3>1. /\ AbstractMPI = "up" /\ AbstractMPI' = "closing" /\ pins' = pins
          /\ opened' = opened
      BY <2>6 DEF FinalizeBegin, AbstractMPI, CanInitialize, pins, Pins, native
    <3> QED
      BY <3>1 DEF Hold!Close, pins, Pins
  <2>7. ASSUME NEW ok \in BOOLEAN, FinalizeReturn(ok) PROVE Hold!MPIReleases("closing", "over")
    <3>1. /\ AbstractMPI = "closing" /\ AbstractMPI' = "over" /\ pins' = pins
          /\ loaded /\ ReleaseRef /\ state = "FINALIZING"
      BY <2>7, CallFacts DEF FinalizeReturn, AbstractMPI, CanInitialize, pins, Pins
    <3>2. refcount = 1 + pins
      BY <2>0, <3>1, Held DEF MPIHold, pins
    <3>3. \/ refcount > 1 /\ handle' = handle
          \/ refcount = 1 /\ handle' = NoLib
      BY <3>1, Released
    <3>4. pins \in Nat
      BY <2>0 DEF pins, Pins
    <3>5. mapped' = IF pins = 0 THEN {} ELSE mapped
      <4>1. CASE refcount > 1 /\ handle' = handle
        <5>1. pins # 0
          BY <3>2, <3>4, <4>1
        <5> QED
          BY <2>a, <4>1, <5>1
      <4>2. CASE refcount = 1 /\ handle' = NoLib
        <5>1. pins = 0
          BY <3>2, <3>4, <4>2
        <5> QED
          BY <2>a, <4>2, <5>1
      <4> QED
        BY <3>3, <4>1, <4>2
    <3> QED
      BY <3>1, <3>5 DEF Hold!MPIReleases, mapped, pins, Pins
  <2>8. ASSUME NEW l \in Libs, NEW ok \in BOOLEAN, ToolInit(l, ok) PROVE Hold!Pin
    <3>1. /\ EnsureLoaded(l) /\ frame # "init_with" /\ (loaded \/ Native(l))
          /\ AbstractMPI' = AbstractMPI
      BY <2>8, CallFacts DEF ToolInit, AbstractMPI, CanInitialize
    <3>2. handle' \in Libs /\ handle' # NoLib /\ (handle = handle' \/ handle = NoLib)
      BY <3>1, Ensured
    <3>3. mapped \in {{}, {handle'}} /\ mapped' = {handle'}
      BY <2>a, <3>2
    <3>4. pins' = pins + 1
      BY <2>0, <2>8 DEF ToolInit, pins, Pins
    <3> QED
      BY <3>1, <3>2, <3>3, <3>4 DEF Hold!Pin, Hold!Acquire, mapped, pins, Pins
  <2>9. ASSUME NEW ok \in BOOLEAN, ToolFinalize(ok) PROVE Hold!Unpin
    <3>1. /\ AbstractMPI' = AbstractMPI /\ loaded /\ ReleaseRef
          /\ sessions > 0 /\ sessions' = sessions - 1 /\ failedInits' = failedInits
      BY <2>9, CallFacts DEF ToolFinalize, AbstractMPI, CanInitialize
    <3>2. pins > 0 /\ pins' = pins - 1 /\ refcount = MPIHold + pins
      <4>1. refcount = MPIHold + Pins
        BY <2>0, Held
      <4>2. Pins > 0 /\ Pins' = Pins - 1
        BY <2>0, <3>1 DEF Pins
      <4> QED
        BY <4>1, <4>2 DEF pins
    <3>3. MPIHold = IF Hold!MPIHolds THEN 1 ELSE 0
      BY <2>0, <2>9, CallFacts DEF MPIHold, Hold!MPIHolds, AbstractMPI, CanInitialize,
         ToolFinalize, FramesMatch, States, TypeOK
    <3>4. \/ refcount > 1 /\ handle' = handle
          \/ refcount = 1 /\ handle' = NoLib
      BY <3>1, Released
    <3>5. mapped' = IF pins = 1 /\ ~Hold!MPIHolds THEN {} ELSE mapped
      <4>1. CASE refcount > 1 /\ handle' = handle
        <5>1. ~(pins = 1 /\ ~Hold!MPIHolds)
          BY <3>2, <3>3, <4>1
        <5> QED
          BY <2>a, <4>1, <5>1
      <4>2. CASE refcount = 1 /\ handle' = NoLib
        <5>0. pins \in Nat
          BY <2>0 DEF pins, Pins
        <5>1. pins = 1 /\ ~Hold!MPIHolds
          BY <3>2, <3>3, <4>2, <5>0
        <5> QED
          BY <2>a, <4>2, <5>1
      <4> QED
        BY <3>4, <4>1, <4>2
    <3> QED
      BY <3>1, <3>2, <3>5 DEF Hold!Unpin, mapped, pins, Pins
  <2>10. ASSUME \/ RefuseInit \/ RefuseFinalize \/ RejectArgument \/ Dies
                \/ UNCHANGED vars
         PROVE  UNCHANGED Hold!hold
    BY <2>10 DEF RefuseInit, RefuseFinalize, RejectArgument, Dies, ToolFinalizeDies, ReturnDies, Answer, globals,
       native, vars, Hold!hold, AbstractMPI, CanInitialize, Pins
  <2>11. ASSUME NEW l \in Libs, InitWithLoadFails(l) PROVE UNCHANGED Hold!hold
    <3>1. opened' = opened /\ AbstractMPI' = AbstractMPI /\ pins' = pins
      BY <2>0, <2>11 DEF InitWithLoadFails, LoadFrom, AbstractMPI, CanInitialize, pins, Pins
    <3> QED
      BY <3>1 DEF Hold!hold, pins, Pins
  <2>12. \/ Hold!Start \/ Hold!Started \/ Hold!Close \/ Hold!Pin \/ Hold!Unpin
         \/ Hold!MPIReleases("starting", "idle") \/ Hold!MPIReleases("closing", "over")
         => Hold!Next
    BY DEF Hold!Next
  <2>13. CASE MPIStep
    <3>1. CASE \E l \in Libs : InitLoadFails(l) \/ InitBegin(l) \/ InitWithBegin(l)
      BY <2>1, <2>2, <2>3, <2>12, <3>1
    <3>2. CASE \E l \in Libs : InitWithLoadFails(l)
      BY <2>11, <3>2
    <3>3. CASE InitSucceeds \/ InitWithSucceeds \/ InitFails \/ InitWithFails \/ FinalizeBegin
      BY <2>4, <2>5, <2>6, <2>12, <3>3
    <3>4. CASE \E ok \in BOOLEAN : FinalizeReturn(ok)
      BY <2>7, <2>12, <3>4
    <3>5. CASE RefuseInit \/ RefuseFinalize \/ RejectArgument
      BY <2>10, <3>5
    <3> QED
      BY <2>13, <3>1, <3>2, <3>3, <3>4, <3>5 DEF MPIStep
  <2>14. CASE ToolStep
    BY <2>1, <2>8, <2>9, <2>10, <2>12, <2>14 DEF ToolStep
  <2>15. CASE Dies \/ UNCHANGED vars
    BY <2>10, <2>15
  <2> QED
    BY <2>13, <2>14, <2>15 DEF Next
<1> QED
  BY <1>1, <1>2, ContractInvariant, PTL DEF Spec, HoldSpec, Hold!Spec
=============================================================================
