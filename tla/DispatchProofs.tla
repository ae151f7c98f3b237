---------------------------- MODULE DispatchProofs ----------------------------
(***************************************************************************)
(* Theorems about DispatchTables, for any libraries, any backends, any     *)
(* assignments of slots and values, and any sequence of loads, failures    *)
(* and MPI-T sessions.                                                     *)
(***************************************************************************)
EXTENDS DispatchTables, LifecycleProofs

LEMMA SameNumber == \A m, n \in Nat : m <= n /\ n <= m => m = n
OBVIOUS

USE LibsAssumption, KindsAssumption, BindingAssumption, ValuesAssumption, SettingsAssumption

-----------------------------------------------------------------------------
(* Only libraries that load completely are ever open.                      *)
OpenNative == \A l \in Libs : opened[l] > 0 => Native(l)

(* A cleaned table, with its communicators and its status sentinel.        *)
Cleaned ==
  vt = NoLib =>
    /\ \A s \in Slots : table[s] = Null
    /\ value["communicators"] = Number(0) /\ value["status_ignore"] = Number(0)

(* A slot as the initialization of the open library's backend leaves it.   *)
SlotFilled(s) ==
  LET k == KindOf[vt]  way == Binding[k][s].way IN
  /\ way = "local" => table[s] = Unimpi
  /\ way = "fallback" /\ ~Found(vt, s) => table[s] = Unimpi
  /\ way \in {"direct", "fallback"} /\ Found(vt, s) => table[s] = Function(vt)
  /\ way \in {"wrapped", "guarded"} /\ Found(vt, s) =>
       table[s] = Wrapper(k) /\ saved[k][s] = vt

SlotsFilled ==
  Filled => \A s \in Slots :
    Binding[KindOf[vt]][s].since <= setting.level => SlotFilled(s)

(* A value the backend of the filled table has.                            *)
ValueFilled(g) ==
  LET a == Assigned[KindOf[vt]][g] IN
  /\ a.how # "keep" /\ a.since <= setting.level
  /\ g = "status_ignore" => handle # NoLib
  => value[g] = Given(vt, g)

ValuesFilled == Filled => \A g \in Values : ValueFilled(g)

(* Has the backend of l, compiled for this build, a value for g?           *)
Sets(l, g) ==
  /\ Outcome[l] \in {"no_comm", "native"}
  /\ Assigned[KindOf[l]][g].how # "keep" /\ Assigned[KindOf[l]][g].since <= setting.level

(* Every predefined value is the default, or what the backend of a library *)
(* this process may load gives it.                                         *)
Sourced(g) ==
  value[g] = Number(Default[g]) \/ \E l \in Reach : Sets(l, g) /\ value[g] = Given(l, g)

ValuesSourced == \A g \in Values : Sourced(g)

(* The table was filled from a library this process may load.              *)
TableReached == vt # NoLib => vt \in Reach

(* The inductive invariant.                                                *)
DInv ==
  /\ TablesTypeOK
  /\ vt \in Tables
  /\ Cleaned
  /\ SlotsFilled
  /\ ValuesFilled
  /\ ToolTableMatches
  /\ ValuesSourced
  /\ TableReached

-----------------------------------------------------------------------------
(* Every step does one of three things.                                    *)
Leaves ==
  /\ UNCHANGED <<setting, contents, vt, tvt>>
  /\ handle' \in {handle, NoLib}

Loads(l) == LoadFrom(l) /\ LoadContents(l) /\ l \in Reach /\ UNCHANGED setting

Clears ==
  /\ ClearContents /\ UNCHANGED <<setting, tvt>>
  /\ vt' = NoLib /\ handle' \in {handle, NoLib}

LEMMA ReleaseKeeps == ReleaseRef => handle' \in {handle, NoLib}
BY DEF ReleaseRef, UnloadHandle

LEMMA EnsuredEffect ==
  ASSUME NEW l \in Libs, l \in Reach, EnsureLoaded(l), UNCHANGED setting,
         IF loaded THEN UNCHANGED contents ELSE LoadContents(l)
  PROVE  Leaves \/ Loads(l)
BY DEF EnsureLoaded, Leaves, Loads

LEMMA Effects ==
  TablesNext => Leaves \/ Clears \/ \E l \in Libs : Loads(l)
<1> SUFFICES ASSUME TablesNext PROVE Leaves \/ Clears \/ \E l \in Libs : Loads(l)
  OBVIOUS
<1>1. ASSUME NEW l \in Libs, LoadByEnv(l) PROVE Leaves \/ Loads(l)
  <2>1. EnsureLoaded(l)
    BY <1>1 DEF LoadByEnv, InitLoadFails, InitBegin, ToolInitLoadFails, ToolInit
  <2> QED
    BY <1>1, <2>1, EnsuredEffect DEF LoadByEnv, Reach
<1>2. ASSUME NEW l \in Libs, LoadByName(l) PROVE Loads(l)
  BY <1>2 DEF LoadByName, InitWithLoadFails, InitWithBegin, Loads, Reach
<1>3. CASE CleanUp
  BY <1>3, ReleaseKeeps
     DEF CleanUp, Clears, InitFails, InitWithFails, FinalizeReturn, CleanupVtable, UnloadHandle
<1>4. CASE LeaveContents
  <2>1. UNCHANGED <<vt, tvt>> /\ handle' \in {handle, NoLib}
    BY <1>4, ReleaseKeeps
       DEF LeaveContents, InitSucceeds, InitWithSucceeds, FinalizeBegin, RefuseInit,
           RefuseFinalize, RejectArgument, Answer, ToolFinalize, Dies, ToolFinalizeDies,
           ReturnDies, globals
  <2> QED
    BY <1>4, <2>1 DEF LeaveContents, Leaves
<1> QED
  BY <1>1, <1>2, <1>3, <1>4 DEF TablesNext

(* What is behind a complete or almost complete load is of a known kind.   *)
LEMMA KnownKind ==
  \A l \in Libs : Outcome[l] \in {"no_comm", "native"} => KindOf[l] \in Kinds
OBVIOUS

-----------------------------------------------------------------------------
(* The operators that fill the tables, by type.                            *)
LEMMA EntriesType ==
  /\ Null \in Entries /\ Unimpi \in Entries
  /\ \A l \in Libs : Function(l) \in Entries
  /\ \A k \in Kinds : Wrapper(k) \in Entries
  /\ Null.via \notin Kinds /\ Unimpi.via \notin Kinds
  /\ \A l \in Libs : Function(l).via \notin Kinds
  /\ \A k \in Kinds : Wrapper(k).via = k
BY DEF Null, Unimpi, Function, Wrapper, Entries, Tables

LEMMA CellsType ==
  /\ \A n \in Int : Number(n) \in Cells
  /\ \A l \in Libs : Address(l) \in Cells
BY DEF Number, Address, Cells, Tables

LEMMA SlotType ==
  ASSUME TablesTypeOK, NEW l \in Libs, KindOf[l] \in Kinds, NEW s \in Slots
  PROVE  /\ Slot(l, s) \in Entries
         /\ Slot(l, s).via \in Kinds => Wraps(Slot(l, s).via, s)
<1> DEFINE k == KindOf[l]  way == Binding[k][s].way
<1>1. CASE Slot(l, s) = table[s]
  BY <1>1 DEF TablesTypeOK
<1>2. CASE Slot(l, s) \in {Unimpi, Null, Function(l)}
  BY <1>2, EntriesType
<1>3. CASE Slot(l, s) = Wrapper(k) /\ way \in {"wrapped", "guarded"}
  BY <1>3, EntriesType DEF Wraps
<1> QED
  BY <1>1, <1>2, <1>3 DEF Slot

LEMMA PointerType ==
  ASSUME TablesTypeOK, NEW l \in Libs, KindOf[l] \in Kinds, NEW s \in Slots
  PROVE  /\ Pointer(l, s) \in Tables
         /\ Pointer(l, s) # NoLib =>
              Wraps(KindOf[l], s) /\ KindOf[Pointer(l, s)] = KindOf[l]
BY DEF TablesTypeOK, Pointer, Wraps, Tables

LEMMA ValueType ==
  ASSUME TablesTypeOK, NEW l \in Libs, KindOf[l] \in Kinds, NEW g \in Values
  PROVE  Value(l, g) \in Cells
<1>1. Assigned[KindOf[l]][g].num \in Int
  OBVIOUS
<1>2. Given(l, g) \in Cells
  BY <1>1, CellsType DEF Given
<1>3. Neutral(g) \in Cells
  BY CellsType DEF Neutral, TablesTypeOK
<1> QED
  BY <1>2, <1>3 DEF Value

LEMMA FillType ==
  ASSUME TablesTypeOK, NEW l \in Libs, KindOf[l] \in Kinds, Fill(l),
         setting' \in Settings, tools' \in [ToolSlots -> Tables]
  PROVE  TablesTypeOK'
<1> DEFINE k0 == KindOf[l]  row == [s \in Slots |-> Pointer(l, s)]
<1>1. /\ table' = [s \in Slots |-> Slot(l, s)]
      /\ saved' = [saved EXCEPT ![k0] = row]
      /\ value' = [g \in Values |-> Value(l, g)]
  BY DEF Fill
<1>2. table' \in [Slots -> Entries] /\ \A s \in Slots : table'[s].via \in Kinds => Wraps(table'[s].via, s)
  BY <1>1, SlotType
<1>3. row \in [Slots -> Tables]
  BY PointerType
<1>4. saved' \in [Kinds -> [Slots -> Tables]]
  BY <1>1, <1>3 DEF TablesTypeOK
<1>5. ASSUME NEW k \in Kinds, NEW s \in Slots, saved'[k][s] # NoLib
      PROVE  Wraps(k, s) /\ KindOf[saved'[k][s]] = k
  <2>1. CASE k = k0
    <3>1. saved'[k][s] = Pointer(l, s)
      BY <1>1, <2>1 DEF TablesTypeOK
    <3> QED
      BY <1>5, <2>1, <3>1, PointerType
  <2>2. CASE k # k0
    <3>1. saved'[k] = saved[k]
      BY <1>1, <2>2 DEF TablesTypeOK
    <3> QED
      BY <1>5, <3>1 DEF TablesTypeOK
  <2> QED
    BY <2>1, <2>2
<1>6. value' \in [Values -> Cells]
  BY <1>1, ValueType
<1> QED
  BY <1>2, <1>4, <1>5, <1>6 DEF TablesTypeOK, Wraps

LEMMA TypeLoad ==
  ASSUME TablesTypeOK, NEW l \in Libs, Loads(l)
  PROVE  TablesTypeOK'
<1>1. setting' \in Settings
  BY DEF Loads, TablesTypeOK
<1>2. CASE Outcome[l] \in {"abi", "absent"}
  BY <1>1, <1>2 DEF Loads, LoadContents, contents, TablesTypeOK, Wraps
<1>3. CASE Outcome[l] \notin {"abi", "absent"}
  <2>1. tools' \in [ToolSlots -> Tables]
    BY <1>3 DEF Loads, LoadContents, ToolSlot, Tables
  <2>2. CASE Outcome[l] \in {"no_comm", "native"}
    BY <1>1, <1>3, <2>1, <2>2, KnownKind, FillType DEF Loads, LoadContents
  <2>3. CASE Outcome[l] \notin {"no_comm", "native"}
    <3>1. value' = [g \in Values |-> Neutral(g)] /\ UNCHANGED <<table, saved>>
      BY <1>3, <2>3 DEF Loads, LoadContents
    <3>2. value' \in [Values -> Cells]
      BY <3>1, CellsType DEF Neutral, TablesTypeOK
    <3> QED
      BY <1>1, <2>1, <3>1, <3>2 DEF TablesTypeOK, Wraps
  <2> QED
    BY <2>2, <2>3
<1> QED
  BY <1>2, <1>3

LEMMA TypeClear ==
  ASSUME TablesTypeOK, Clears
  PROVE  TablesTypeOK'
<1>1. table' = [s \in Slots |-> Null]
  BY DEF Clears, ClearContents
<1>2. value' \in [Values -> Cells]
  BY CellsType DEF Clears, ClearContents, TablesTypeOK
<1>3. UNCHANGED <<setting, saved, tools>>
  BY DEF Clears, ClearContents
<1>4. table' \in [Slots -> Entries] /\ \A s \in Slots : table'[s].via \notin Kinds
  BY <1>1, EntriesType
<1> QED
  BY <1>2, <1>3, <1>4 DEF TablesTypeOK, Wraps

-----------------------------------------------------------------------------
(* A complete load leaves every slot and every value as its backend's      *)
(* initialization does, whatever was there.                                *)
LEMMA NativeFill ==
  ASSUME TablesTypeOK, NEW l \in Libs, Native(l), Fill(l), UNCHANGED setting,
         vt' = l, handle' = l
  PROVE  SlotsFilled' /\ ValuesFilled'
<1>1. KindOf[l] \in Kinds
  BY KnownKind DEF Native
<1>2. ASSUME NEW s \in Slots, Binding[KindOf[l]][s].since <= setting.level
      PROVE  SlotFilled(s)'
  <2>1. Runs(l, Binding[KindOf[l]][s])
    BY <1>2 DEF Runs
  <2>2. table'[s] = Slot(l, s) /\ saved'[KindOf[l]][s] = Pointer(l, s)
    BY <1>1 DEF Fill, TablesTypeOK
  <2> QED
    BY <2>1, <2>2 DEF SlotFilled, Slot, Pointer, Found
<1>3. ASSUME NEW g \in Values PROVE ValueFilled(g)'
  BY DEF ValueFilled, Fill, Value, Runs, Given, Found
<1>4. SlotsFilled'
  BY <1>2 DEF SlotsFilled
<1>5. ValuesFilled'
  BY <1>3 DEF ValuesFilled
<1> QED
  BY <1>4, <1>5

(* A load gives a predefined value its backend's, the default, or nothing. *)
LEMMA NeutralSourced ==
  ASSUME TablesTypeOK, ValuesSourced, NEW g \in Values
  PROVE  Neutral(g) = Number(Default[g])
         \/ \E l \in Reach : Sets(l, g) /\ Neutral(g) = Given(l, g)
BY DEF Neutral, ValuesSourced, Sourced

LEMMA SourcedLoad ==
  ASSUME TablesTypeOK, ValuesSourced, TableReached, NEW l \in Libs, Loads(l)
  PROVE  ValuesSourced' /\ TableReached'
<1>1. LoadFrom(l) /\ LoadContents(l) /\ l \in Reach /\ UNCHANGED setting
  BY DEF Loads
<1>2. /\ Reach' = Reach
      /\ \A m, g : Sets(m, g)' = Sets(m, g) /\ Given(m, g)' = Given(m, g)
  BY <1>1 DEF Reach, Sets, Given, Found
<1>3. TableReached'
  BY <1>1, <1>2 DEF LoadFrom, TableReached
<1>4. ASSUME NEW g \in Values PROVE Sourced(g)'
  <2>1. CASE value'[g] = value[g]
    BY <1>2, <2>1 DEF ValuesSourced, Sourced
  <2>2. CASE value'[g] = Neutral(g)
    BY <1>2, <2>2, NeutralSourced DEF Sourced
  <2>3. CASE Sets(l, g) /\ value'[g] = Given(l, g)
    BY <1>1, <1>2, <2>3 DEF Sourced
  <2>4. CASE Outcome[l] \in {"no_comm", "native"}
    <3>1. value'[g] = Value(l, g)
      BY <1>1, <2>4 DEF LoadContents, Fill
    <3> QED
      BY <2>2, <2>3, <2>4, <3>1 DEF Value, Runs, Sets
  <2>5. CASE Outcome[l] \notin {"no_comm", "native"}
    BY <1>1, <2>1, <2>2, <2>5 DEF LoadContents, contents
  <2> QED
    BY <2>4, <2>5
<1> QED
  BY <1>3, <1>4 DEF ValuesSourced

LEMMA SourcedClear ==
  ASSUME TablesTypeOK, ValuesSourced, Clears
  PROVE  ValuesSourced' /\ TableReached'
<1>1. /\ value' = [value EXCEPT !["communicators"] = Number(0), !["status_ignore"] = Number(0)]
      /\ vt' = NoLib /\ UNCHANGED setting
  BY DEF Clears, ClearContents
<1>2. /\ Reach' = Reach
      /\ \A m, g : Sets(m, g)' = Sets(m, g) /\ Given(m, g)' = Given(m, g)
  BY <1>1 DEF Reach, Sets, Given, Found
<1>3. ASSUME NEW g \in Values PROVE Sourced(g)'
  <2>1. value'[g] = value[g] \/ value'[g] = Number(Default[g])
    BY <1>1 DEF TablesTypeOK
  <2> QED
    BY <1>2, <2>1 DEF ValuesSourced, Sourced
<1> QED
  BY <1>1, <1>3 DEF ValuesSourced, TableReached

LEMMA SourcedLeave ==
  ASSUME ValuesSourced, TableReached, Leaves
  PROVE  ValuesSourced' /\ TableReached'
<1>1. UNCHANGED <<setting, value, vt>>
  BY DEF Leaves, contents
<1>2. /\ Reach' = Reach
      /\ \A m, g : Sets(m, g)' = Sets(m, g) /\ Given(m, g)' = Given(m, g)
  BY <1>1 DEF Reach, Sets, Given, Found
<1> QED
  BY <1>1, <1>2 DEF ValuesSourced, Sourced, TableReached

LEMMA LoadStep ==
  ASSUME DInv, NEW l \in Libs, Loads(l)
  PROVE  DInv'
<1> USE DEF DInv
<1>1. TablesTypeOK'
  BY TypeLoad
<1>2. LoadFrom(l) /\ LoadContents(l) /\ UNCHANGED setting
  BY DEF Loads
<1>3. vt' \in Tables
  BY <1>2 DEF LoadFrom, Tables
<1>4. ToolTableMatches'
  BY <1>2 DEF LoadFrom, LoadContents, contents, ToolSlot, ToolTableMatches, Native, Found
<1>5. Cleaned'
  <2>1. CASE Outcome[l] \in {"no_comm", "native"}
    BY <1>2, <2>1 DEF LoadFrom, Cleaned
  <2>2. CASE Outcome[l] \in {"abi", "absent"}
    BY <1>2, <2>2 DEF LoadFrom, LoadContents, contents, Cleaned
  <2>3. CASE Outcome[l] \notin {"no_comm", "native", "abi", "absent"}
    <3>1. /\ vt' = vt /\ table' = table
          /\ value' = [g \in Values |-> Neutral(g)]
      BY <1>2, <2>3 DEF LoadFrom, LoadContents
    <3> QED
      BY <3>1 DEF Neutral, Cleaned
  <2> QED
    BY <2>1, <2>2, <2>3
<1>6. SlotsFilled' /\ ValuesFilled'
  <2>1. CASE Native(l)
    <3>1. Fill(l) /\ vt' = l /\ handle' = l
      BY <1>2, <2>1 DEF LoadFrom, LoadContents, Native
    <3> QED
      BY <1>2, <2>1, <3>1, NativeFill
  <2>2. CASE Outcome[l] = "no_comm"
    <3>1. ~Filled'
      BY <1>2, <2>2 DEF LoadFrom, Filled, Native
    <3> QED
      BY <3>1 DEF SlotsFilled, ValuesFilled
  <2>3. CASE Outcome[l] \notin {"no_comm", "native"}
    <3>1. /\ UNCHANGED <<setting, vt, table, saved>> /\ handle' = NoLib
          /\ \A g \in Values \ {"status_ignore"} : value'[g] = value[g]
      BY <1>2, <2>3 DEF LoadFrom, LoadContents, contents, Neutral, Native
    <3>2. SlotsFilled'
      BY <3>1 DEF SlotsFilled, Filled, SlotFilled, Found
    <3>3. ASSUME NEW g \in Values, ValueFilled(g) PROVE ValueFilled(g)'
      BY <3>1, <3>3 DEF ValueFilled, Given, Found
    <3>4. ValuesFilled'
      BY <3>1, <3>3 DEF ValuesFilled, Filled
    <3> QED
      BY <3>2, <3>4
  <2> QED
    BY <2>1, <2>2, <2>3 DEF Native
<1> QED
  BY <1>1, <1>3, <1>4, <1>5, <1>6, SourcedLoad

LEMMA ClearStep == ASSUME DInv, Clears PROVE DInv'
<1> USE DEF DInv
<1>1. /\ table' = [s \in Slots |-> Null] /\ UNCHANGED <<setting, tvt, tools>>
      /\ value' = [value EXCEPT !["communicators"] = Number(0), !["status_ignore"] = Number(0)]
      /\ vt' = NoLib /\ handle' \in {handle, NoLib}
  BY DEF Clears, ClearContents
<1>2. vt' \in Tables
  BY <1>1 DEF Tables
<1>3. Cleaned'
  BY <1>1 DEF Cleaned, TablesTypeOK
<1>4. SlotsFilled' /\ ValuesFilled'
  BY <1>1 DEF SlotsFilled, ValuesFilled, Filled
<1>5. ToolTableMatches'
  BY <1>1 DEF ToolTableMatches, Found
<1> QED
  BY <1>2, <1>3, <1>4, <1>5, TypeClear, SourcedClear

LEMMA LeaveStep == ASSUME DInv, Leaves PROVE DInv'
<1> USE DEF DInv, Leaves, contents
<1>1. TablesTypeOK'
  BY DEF TablesTypeOK, Wraps
<1>2. vt' \in Tables
  OBVIOUS
<1>3. Cleaned'
  BY DEF Cleaned
<1>4. ASSUME NEW g \in Values, ValueFilled(g) PROVE ValueFilled(g)'
  BY <1>4 DEF ValueFilled, Given, Found
<1>5. SlotsFilled'
  BY DEF SlotsFilled, Filled, SlotFilled, Found
<1>6. ValuesFilled'
  BY <1>4 DEF ValuesFilled, Filled
<1>7. ToolTableMatches'
  BY DEF ToolTableMatches, Found
<1> QED
  BY <1>1, <1>2, <1>3, <1>5, <1>6, <1>7, SourcedLeave

LEMMA InitDInv == TablesInit => DInv
<1> SUFFICES ASSUME TablesInit PROVE DInv
  OBVIOUS
<1> USE DEF TablesInit, Init
<1>1. TablesTypeOK
  BY EntriesType, CellsType DEF TablesTypeOK, Tables
<1>2. vt \in Tables /\ SlotsFilled /\ ValuesFilled
  BY DEF SlotsFilled, ValuesFilled, Filled, Tables
<1>3. Cleaned
  BY DEF Cleaned
<1>4. ToolTableMatches
  BY DEF ToolTableMatches
<1>5. ValuesSourced /\ TableReached
  BY DEF ValuesSourced, Sourced, TableReached
<1> QED
  BY <1>1, <1>2, <1>3, <1>4, <1>5 DEF DInv

LEMMA StepDInv == DInv /\ [TablesNext]_tvars => DInv'
<1> SUFFICES ASSUME DInv, [TablesNext]_tvars PROVE DInv'
  OBVIOUS
<1>1. CASE UNCHANGED tvars
  <2>1. Leaves
    BY <1>1 DEF tvars, vars, globals, contents, Leaves
  <2> QED
    BY <2>1, LeaveStep
<1>2. CASE TablesNext
  BY <1>2, Effects, LoadStep, ClearStep, LeaveStep
<1> QED
  BY <1>1, <1>2

LEMMA TablesInvariant == TablesSpec => []DInv
BY InitDInv, StepDInv, PTL DEF TablesSpec

-----------------------------------------------------------------------------
(* Every behaviour of the tables is one of the lifecycle (src/core.c,      *)
(* src/mpit.c): what is proved of the lifecycle holds here.                *)
THEOREM TablesFollowLifecycle == TablesSpec => Spec
<1>1. TablesInit => Init
  BY DEF TablesInit
<1>2. [TablesNext]_tvars => [Next]_vars
  BY DEF TablesNext, LoadByEnv, LoadByName, CleanUp, LeaveContents, Next, MPIStep, ToolStep, tvars
<1> QED
  BY <1>1, <1>2, PTL DEF TablesSpec, Spec

(* The slots, saved pointers and values keep their type; a wrapper of a    *)
(* backend stands only where that backend wraps (src/backends/*.c).        *)
THEOREM TablesTypeCorrect == TablesSpec => []TablesTypeOK
BY TablesInvariant, PTL DEF DInv

(* `unimpi_mt' is never a mixture of two libraries (src/vtable.c:102).     *)
THEOREM ToolTableOfOneLibrary == TablesSpec => []ToolTableMatches
BY TablesInvariant, PTL DEF DInv

(* The values a backend has are those in force while its library is open   *)
(* (src/backends/*.c), and unimpi_vtable_cleanup resets the communicators. *)
THEOREM PredefinedOfBackend == TablesSpec => []PredefinedSet
<1>1. DInv => PredefinedSet
  BY DEF DInv, ValuesFilled, ValueFilled, Cleaned, PredefinedSet
<1> QED
  BY <1>1, TablesInvariant, PTL

(* With one backend in play nothing but its values and the defaults shows, *)
(* through any failures, cleanups and retries (src/vtable.c:145).          *)
THEOREM PredefinedOfOneBackend == TablesSpec => []PredefinedOfOneKind
<1>1. ASSUME DInv, OneKind, Filled, NEW g \in Values, g = "status_ignore" => handle # NoLib
      PROVE  value[g] = Expected(g)
  <2> DEFINE a == Assigned[KindOf[vt]][g]
  <2>1. vt \in Reach /\ vt \in Libs /\ Outcome[vt] = "native"
    BY <1>1 DEF DInv, TableReached, Filled, Tables, Native
  <2>2. setting.level \in Levels /\ a.since \in Levels
    BY <1>1, <2>1 DEF DInv, TablesTypeOK
  <2>3. CASE a.how # "keep" /\ a.since <= setting.level
    BY <1>1, <2>2, <2>3 DEF DInv, ValuesFilled, ValueFilled, Expected, Levels
  <2>4. CASE a.how = "keep" \/ ~(a.since <= setting.level)
    <3>1. ASSUME NEW l \in Reach PROVE ~Sets(l, g)
      BY <1>1, <2>1, <2>4, <3>1 DEF OneKind, Sets
    <3>2. value[g] = Number(Default[g])
      BY <1>1, <3>1 DEF DInv, ValuesSourced, Sourced
    <3> QED
      BY <2>2, <2>4, <3>2 DEF Expected, Levels
  <2> QED
    BY <2>3, <2>4
<1>2. DInv => PredefinedOfOneKind
  BY <1>1 DEF PredefinedOfOneKind
<1> QED
  BY <1>2, TablesInvariant, PTL

-----------------------------------------------------------------------------
(* The assignment of the i-th error class.                                 *)
Code(k, i) == Assigned[k][ErrorOrder[i]]

(* The error codes are apart: when a backend has a number for a class, no  *)
(* class looked at before it has that number, neither as the backend sets  *)
(* it nor, where the backend leaves it alone, from another one.            *)
CodesApart ==
  /\ DOMAIN ErrorOrder \subseteq Nat
  /\ \A i \in DOMAIN ErrorOrder : ErrorOrder[i] \in Values \ {"status_ignore"}
  /\ \A k \in Kinds, i \in DOMAIN ErrorOrder :
       Code(k, i).how \in {"keep", "number"} /\ Code(k, i).since = 22
  /\ \A k \in Kinds, i, j \in DOMAIN ErrorOrder :
       j < i /\ Code(k, i).how # "keep" =>
         IF Code(k, j).how # "keep" THEN Code(k, j).num # Code(k, i).num
         ELSE /\ Default[ErrorOrder[j]] # Code(k, i).num
              /\ \A other \in Kinds :
                   Code(other, j).how # "keep" => Code(other, j).num # Code(k, i).num

(* What the libraries of this process leave in a class.                    *)
LEMMA ClassValue ==
  ASSUME DInv, CodesApart, Filled, NEW i \in DOMAIN ErrorOrder
  PROVE  LET k == KindOf[vt]  g == ErrorOrder[i] IN
         IF Code(k, i).how # "keep" THEN value[g] = Number(Code(k, i).num)
         ELSE \/ value[g] = Number(Default[g])
              \/ \E other \in Kinds :
                   Code(other, i).how # "keep" /\ value[g] = Number(Code(other, i).num)
<1> DEFINE k == KindOf[vt]  g == ErrorOrder[i]
<1>1. /\ vt \in Libs /\ k \in Kinds /\ setting.level \in Levels
      /\ Reach \subseteq Libs
  BY KnownKind DEF DInv, Filled, Tables, Native, TablesTypeOK, Reach
<1>2. g \in Values /\ g # "status_ignore"
  BY DEF CodesApart
<1>3. ASSUME NEW l \in Libs, KindOf[l] \in Kinds, Code(KindOf[l], i).how # "keep"
      PROVE  Given(l, g) = Number(Code(KindOf[l], i).num)
  BY <1>3 DEF CodesApart, Given, Code
<1>4. CASE Code(k, i).how # "keep"
  <2>1. value[g] = Given(vt, g)
    BY <1>1, <1>2, <1>4 DEF DInv, ValuesFilled, ValueFilled, CodesApart, Code, Levels
  <2> QED
    BY <1>1, <1>3, <1>4, <2>1
<1>5. CASE Code(k, i).how = "keep" /\ value[g] # Number(Default[g])
  <2>1. PICK l \in Reach : Sets(l, g) /\ value[g] = Given(l, g)
    BY <1>2, <1>5 DEF DInv, ValuesSourced, Sourced
  <2>2. l \in Libs /\ KindOf[l] \in Kinds
    BY <1>1, <2>1, KnownKind DEF Sets
  <2> QED
    BY <1>3, <1>5, <2>1, <2>2 DEF Sets, Code
<1> QED
  BY <1>4, <1>5

(* With codes apart a class is found by its code.                          *)
LEMMA ClassFound ==
  ASSUME DInv, CodesApart, Filled, NEW i \in DOMAIN ErrorOrder,
         Code(KindOf[vt], i).how # "keep"
  PROVE  ErrorString(value[ErrorOrder[i]]) = ErrorOrder[i]
<1> DEFINE k == KindOf[vt]  code == value[ErrorOrder[i]]
           hits == {j \in DOMAIN ErrorOrder : value[ErrorOrder[j]] = code}
<1>1. k \in Kinds
  BY KnownKind DEF DInv, Filled, Tables, Native
<1>2. code = Number(Code(k, i).num)
  BY ClassValue
<1>3. ASSUME NEW j \in hits PROVE i <= j
  <2>1. j \in DOMAIN ErrorOrder /\ value[ErrorOrder[j]] = code /\ i \in Nat /\ j \in Nat
    BY <1>3 DEF CodesApart
  <2>2. ~(j < i)
    <3> SUFFICES ASSUME j < i PROVE FALSE
      OBVIOUS
    <3>1. \A m, n : Number(m) = Number(n) => m = n
      BY DEF Number
    <3>2. \/ Code(k, j).how # "keep" /\ code = Number(Code(k, j).num)
          \/ Code(k, j).how = "keep" /\ code = Number(Default[ErrorOrder[j]])
          \/ Code(k, j).how = "keep" /\ \E other \in Kinds :
               Code(other, j).how # "keep" /\ code = Number(Code(other, j).num)
      BY <2>1, ClassValue
    <3>3. IF Code(k, j).how # "keep" THEN Code(k, j).num # Code(k, i).num
          ELSE /\ Default[ErrorOrder[j]] # Code(k, i).num
               /\ \A other \in Kinds :
                    Code(other, j).how # "keep" => Code(other, j).num # Code(k, i).num
      BY <1>1, <2>1 DEF CodesApart
    <3> QED
      BY <1>2, <3>1, <3>2, <3>3
  <2> QED
    BY <2>1, <2>2
<1>4. i \in hits
  OBVIOUS
<1>5. ASSUME NEW j \in hits, \A n \in hits : j <= n PROVE j = i
  <2>1. j <= i /\ i <= j /\ i \in Nat /\ j \in Nat
    BY <1>3, <1>4, <1>5 DEF CodesApart
  <2> QED
    BY <2>1, SameNumber
<1>6. (CHOOSE j \in hits : \A n \in hits : j <= n) = i
  BY <1>3, <1>4, <1>5
<1> QED
  BY <1>4, <1>6 DEF ErrorString

(* Whatever classes other backends have left behind, a code of the backend *)
(* in the table is told apart (src/error.c:164), if the codes are apart.   *)
THEOREM ClassesToldApart == TablesSpec /\ []CodesApart => []ErrorsNamedRight
<1>1. DInv /\ CodesApart => ErrorsNamedRight
  BY ClassFound DEF ErrorsNamedRight, Code
<1> QED
  BY <1>1, TablesInvariant, PTL

-----------------------------------------------------------------------------
(* If the gates agree, no history of loads and failures leaves a slot the  *)
(* application can name leading anywhere but into the open library         *)
(* (src/vtable.c, src/backends/*.c).                                       *)
LEMMA NamedSlotsLead == DInv /\ GatesAgree => SlotsLeadHome
<1> SUFFICES ASSUME DInv, GatesAgree PROVE SlotsLeadHome
  OBVIOUS
<1> USE DEF DInv
<1>1. ASSUME Filled, NEW s \in Slots, Named[s] <= setting.level
      PROVE  LET way == Binding[KindOf[vt]][s].way IN
             IF way = "local" \/ (way = "fallback" /\ ~Found(vt, s))
               THEN table[s] = Unimpi
               ELSE Found(vt, s) => LeadsTo(s) = vt
  <2>1. vt \in Libs
    BY <1>1 DEF Filled, Tables
  <2>2. KindOf[vt] \in Kinds
    BY <1>1, <2>1, KnownKind DEF Filled, Native
  <2>3. SlotFilled(s)
    BY <1>1, <2>2 DEF GatesAgree, SlotsFilled
  <2>4. Binding[KindOf[vt]][s].way \in Ways
    BY <2>2
  <2>5. CASE Binding[KindOf[vt]][s].way \in {"wrapped", "guarded"}
    BY <2>1, <2>2, <2>3, <2>5 DEF SlotFilled, LeadsTo, Wrapper
  <2>6. CASE Binding[KindOf[vt]][s].way \in {"direct", "fallback", "local"}
    BY <2>1, <2>3, <2>6 DEF SlotFilled, LeadsTo, Function
  <2> QED
    BY <2>4, <2>5, <2>6 DEF Ways
<1> QED
  BY <1>1 DEF SlotsLeadHome, Cleaned

(* No slot leads into a library other than the one that filled the table.  *)
THEOREM SlotsAlwaysLeadHome == TablesSpec /\ []GatesAgree => []SlotsLeadHome
BY NamedSlotsLead, TablesInvariant, PTL

-----------------------------------------------------------------------------
(* Libraries are opened by complete loads only.                            *)
LEMMA OpenNativeStep == IInv /\ OpenNative /\ [Next]_vars => OpenNative'
<1> SUFFICES ASSUME IInv, OpenNative, [Next]_vars PROVE OpenNative'
  OBVIOUS
<1>1. TypeOK /\ HandleOpen
  BY DEF IInv
<1>2. ASSUME NEW l \in Libs, EnsureLoaded(l) \/ LoadFrom(l) PROVE OpenNative'
  <2>1. opened' = opened \/ (Native(l) /\ opened' = [opened EXCEPT ![l] = @ + 1])
    BY <1>2 DEF EnsureLoaded, LoadFrom
  <2> QED
    BY <1>1, <2>1 DEF OpenNative, TypeOK, Native
<1>3. ASSUME \A l \in Libs : opened'[l] <= opened[l], opened' \in [Libs -> Nat]
      PROVE  OpenNative'
  BY <1>1, <1>3 DEF OpenNative, TypeOK, Native
<1>4. ASSUME ReleaseRef PROVE OpenNative'
  BY <1>1, <1>3, <1>4, ReleaseEffect
<1>5. CASE InitWithFails
  <2>1. /\ opened' \in [Libs -> Nat]
        /\ \A l \in Libs : opened'[l] = opened[l] - (IF l = handle THEN 1 ELSE 0)
    BY <1>1, <1>5, UnloadIfAnyEffect DEF InitWithFails
  <2>3. \A l \in Libs : opened[l] \in Nat
    BY <1>1 DEF TypeOK
  <2>4. ASSUME NEW l \in Libs PROVE opened'[l] <= opened[l]
    <3>1. opened'[l] = opened[l] - (IF l = handle THEN 1 ELSE 0)
      BY <2>1
    <3> QED
      BY <2>3, <3>1
  <2> QED
    BY <1>3, <2>1, <2>4
<1>6. CASE UNCHANGED opened
  BY <1>6 DEF OpenNative, Native
<1>7. CASE MPIStep
  BY <1>2, <1>4, <1>5, <1>6, <1>7
     DEF MPIStep, InitLoadFails, InitBegin, InitSucceeds, InitFails, InitWithLoadFails,
         InitWithBegin, InitWithSucceeds, FinalizeBegin, FinalizeReturn, RefuseInit,
         RefuseFinalize, RejectArgument, Answer, native
<1>8. CASE ToolStep
  BY <1>2, <1>4, <1>6, <1>8
     DEF ToolStep, ToolInitLoadFails, ToolInit, ToolFinalize
<1>10. CASE Dies
  BY <1>6, <1>10 DEF Dies, ToolFinalizeDies, ReturnDies, native
<1>9. CASE UNCHANGED vars
  BY <1>6, <1>9 DEF vars, native
<1> QED
  BY <1>7, <1>8, <1>9, <1>10 DEF Next

LEMMA OnlyNativeOpen == Spec => []OpenNative
<1>1. Init => OpenNative
  BY DEF Init, OpenNative
<1> QED
  BY <1>1, OpenNativeStep, Invariant, PTL DEF Spec

(* The tables and the lifecycle together: a call by a standard name made   *)
(* while MPI is active ends in a mapped library whose native MPI runs, as  *)
(* long as MPI-T is left alone while unimpi_init_with is in the native     *)
(* MPI_Init (src/core.c, src/vtable.c).                                    *)
THEOREM ActiveCallsReachMPI == Quiet => (TablesSpec /\ []GatesAgree => []ActiveCallsLand)
<1> SUFFICES ASSUME Quiet PROVE TablesSpec /\ []GatesAgree => []ActiveCallsLand
  OBVIOUS
<1>1. ASSUME SlotsLeadHome, ActiveDispatch, OpenNative, DInv PROVE ActiveCallsLand
  <2> SUFFICES ASSUME state \in {"ACTIVE", "FINALIZING"}, NEW s \in Slots,
                      Named[s] <= setting.level, Found(vt, s), table[s] # Unimpi
               PROVE  LeadsTo(s) \in Libs /\ opened[LeadsTo(s)] > 0
                      /\ nativeMPI[LeadsTo(s)] = "running"
    BY DEF ActiveCallsLand
  <2>1. vt # NoLib /\ opened[vt] > 0 /\ nativeMPI[vt] = "running"
    BY <1>1 DEF ActiveDispatch
  <2>2. vt \in Libs /\ Filled
    BY <1>1, <2>1 DEF DInv, Tables, OpenNative, Filled
  <2>3. LeadsTo(s) = vt
    BY <1>1, <2>2 DEF SlotsLeadHome
  <2> QED
    BY <2>1, <2>2, <2>3
<1>2. TablesSpec => [](ActiveDispatch /\ OpenNative)
  BY TablesFollowLifecycle, ActiveReachesLibrary, OnlyNativeOpen, PTL
<1> QED
  BY <1>1, <1>2, SlotsAlwaysLeadHome, TablesInvariant, PTL
===============================================================================
