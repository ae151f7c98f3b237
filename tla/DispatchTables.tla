---------------------------- MODULE DispatchTables ----------------------------
(***************************************************************************)
(* What the lifecycle does to the contents of the dispatch tables and of   *)
(* the predefined values.  Module Lifecycle knows only which library a     *)
(* table was filled from; here every slot, the static pointers behind the  *)
(* wrappers, and every predefined value is followed through any sequence   *)
(* of loads, failures, MPI-T sessions and retries over several backends.   *)
(*                                                                         *)
(* Each step is a step of Lifecycle together with what unimpi_vtable_init  *)
(* and the unimpi_vtable_init_<backend> it calls, or unimpi_vtable_cleanup,*)
(* do to those variables.                                                  *)
(***************************************************************************)
EXTENDS Lifecycle

CONSTANTS
  Kinds,      (* the backends UniMPI has a table initialization for         *)
  Slots,      (* the groups of slots of `unimpi'                            *)
  ToolSlots,  (* the groups of slots of `unimpi_mt'                         *)
  Values,     (* the predefined values                                      *)
  Binding,    (* Binding[k][s]: what backend k's initialization assigns     *)
  Declared,   (* the MPI version from which a slot exists                   *)
  Named,      (* the MPI version from which the standard name is mapped     *)
  ToolSince,  (* the MPI version from which a slot of `unimpi_mt' exists    *)
  Assigned,   (* Assigned[k][g]: how backend k's initialization sets g      *)
  Default,    (* the number a predefined value starts with                  *)
  ErrorOrder, (* the classes unimpi_mpi_error_string knows, in its order    *)
  KindOf,     (* KindOf[l]: what unimpi_loader_identify_backend answers     *)
  RealKind,   (* RealKind[l]: which MPI implementation l is                 *)
  Exports,    (* the slots and values that l has symbols for                *)
  Settings    (* how a process may be built and started                     *)

Ways == {"direct", "wrapped", "guarded", "local", "fallback"}
Hows == {"keep", "number", "address"}
Levels == {22, 30, 31}

ASSUME KindsAssumption ==
  /\ KindOf \in [Libs -> Kinds \cup {"unknown"}]
  /\ \A l \in Libs : Outcome[l] \in {"no_comm", "native"} => KindOf[l] \in Kinds
  /\ "none" \notin Kinds /\ "native" \notin Kinds /\ "unimpi" \notin Kinds

ASSUME BindingAssumption ==
  /\ Binding \in [Kinds -> [Slots -> [way : Ways, since : Levels, late : BOOLEAN]]]
  /\ Declared \in [Slots -> Levels] /\ Named \in [Slots -> Levels]
  /\ ToolSince \in [ToolSlots -> Levels]

ASSUME ValuesAssumption ==
  /\ Assigned \in [Kinds -> [Values ->
       [how : Hows, num : Int, since : Levels, late : BOOLEAN]]]
  /\ Default \in [Values -> Int]
  /\ {"communicators", "status_ignore"} \subseteq Values
  /\ Default["communicators"] = 0 /\ Default["status_ignore"] = 0

(* level    the MPI version UniMPI is built for                            *)
(* files    what unimpi_init_with may be called on                         *)
(* library  what the environment variables select                          *)
(* asked    the backend they ask for by name, or "any"                     *)
ASSUME SettingsAssumption ==
  Settings \subseteq
    [level : Levels, files : SUBSET Libs, library : Libs, asked : Kinds \cup {"any"}]

VARIABLES
  setting,  (* of this process                                              *)
  table,    (* `unimpi': where a call through a slot goes                   *)
  saved,    (* the static pointers of the wrappers, one set per backend     *)
  tools,    (* `unimpi_mt': the library a slot leads to                     *)
  value     (* the predefined values: a number, or an address in a library  *)

contents == <<table, saved, tools, value>>
tvars == <<vars, setting, contents>>

(* What a slot holds: nothing, a function of a library, a wrapper of a     *)
(* backend over the pointer it saved, or a function of UniMPI.             *)
Entries == [via : {"none", "native", "unimpi"} \cup Kinds, lib : Tables]
Null       == [via |-> "none",   lib |-> NoLib]
Function(l)== [via |-> "native", lib |-> l]
Wrapper(k) == [via |-> k,        lib |-> NoLib]
Unimpi     == [via |-> "unimpi", lib |-> NoLib]

Cells == [lib : Tables, num : Int]
Number(n)  == [lib |-> NoLib, num |-> n]
Address(l) == [lib |-> l,     num |-> 0]

TablesInit ==
  /\ Init
  /\ setting \in Settings
  /\ table = [s \in Slots |-> Null]
  /\ saved = [k \in Kinds |-> [s \in Slots |-> NoLib]]
  /\ tools = [t \in ToolSlots |-> NoLib]
  /\ value = [g \in Values |-> Number(Default[g])]

-----------------------------------------------------------------------------
(***************************************************************************)
(* Filling and clearing.                                                   *)
(***************************************************************************)

(* Is an assignment of the backend's initialization compiled in, and       *)
(* reached when l is loaded?                                               *)
Runs(l, a) == a.since <= setting.level /\ (Native(l) \/ ~a.late)

Found(l, x) == x \in Exports[l]

(* The slot s after the assignments for l: a guarded one is not written    *)
(* when the symbol is missing.                                             *)
Slot(l, s) ==
  LET k == KindOf[l]  way == Binding[k][s].way IN
  IF ~Runs(l, Binding[k][s]) THEN table[s]
  ELSE IF way = "wrapped" THEN Wrapper(k)
  ELSE IF way = "local" THEN Unimpi
  ELSE IF Found(l, s) THEN IF way = "guarded" THEN Wrapper(k) ELSE Function(l)
  ELSE IF way = "guarded" THEN table[s]
  ELSE IF way = "fallback" THEN Unimpi
  ELSE Null

(* Mutants of Pointer: the pointer behind a wrapper is looked up once, as  *)
(* the statics keep their value; one is saved for every slot.              *)
PointerOnce(l, s) ==
  LET k == KindOf[l] IN
  IF Runs(l, Binding[k][s]) /\ Binding[k][s].way \in {"wrapped", "guarded"}
     /\ saved[k][s] = NoLib
    THEN IF Found(l, s) THEN l ELSE NoLib
    ELSE saved[k][s]

PointerAnyWay(l, s) ==
  IF Runs(l, Binding[KindOf[l]][s]) THEN IF Found(l, s) THEN l ELSE NoLib
  ELSE saved[KindOf[l]][s]

(* The pointer saved for the wrapper of s.                                 *)
Pointer(l, s) ==
  LET k == KindOf[l] IN
  IF Runs(l, Binding[k][s]) /\ Binding[k][s].way \in {"wrapped", "guarded"}
    THEN IF Found(l, s) THEN l ELSE NoLib
    ELSE saved[k][s]

(* dlsym of a predefined symbol answers NULL when it is missing.           *)
Given(l, g) ==
  LET a == Assigned[KindOf[l]][g] IN
  IF a.how = "number" THEN Number(a.num)
  ELSE IF Found(l, g) THEN Address(l) ELSE Number(0)

(* unimpi_vtable_init sets UNIMPI_STATUS_IGNORE to NULL before all else.   *)
Neutral(g) == IF g = "status_ignore" THEN Number(0) ELSE value[g]

(* Mutant of Value: a value that an earlier backend set is kept.           *)
ValueOnce(l, g) ==
  LET a == Assigned[KindOf[l]][g] IN
  IF a.how # "keep" /\ Runs(l, a) /\ value[g] = Number(Default[g])
    THEN Given(l, g) ELSE Neutral(g)

(* Mutant of Value: what the backend does not set is zeroed.               *)
ValueWiped(l, g) ==
  LET a == Assigned[KindOf[l]][g] IN
  IF a.how # "keep" /\ Runs(l, a) THEN Given(l, g) ELSE Number(0)

(* A predefined value after the assignments for l.                         *)
Value(l, g) ==
  LET a == Assigned[KindOf[l]][g] IN
  IF a.how # "keep" /\ Runs(l, a) THEN Given(l, g) ELSE Neutral(g)

(* unimpi_vtable_init_<backend> without its `unimpi_mt' part.              *)
Fill(l) ==
  /\ table' = [s \in Slots |-> Slot(l, s)]
  /\ saved' = [saved EXCEPT ![KindOf[l]] = [s \in Slots |-> Pointer(l, s)]]
  /\ value' = [g \in Values |-> Value(l, g)]

(* Mutant of ToolSlot: `unimpi_mt' is not wiped before it is filled.       *)
ToolSlotUnwiped(l, t) ==
  IF Native(l) /\ ToolSince[t] <= setting.level /\ Found(l, t) THEN l ELSE tools[t]

(* memset of `unimpi_mt', then the assignments, all of them late.          *)
ToolSlot(l, t) ==
  IF Native(l) /\ ToolSince[t] <= setting.level /\ Found(l, t) THEN l ELSE NoLib

(* unimpi_loader_load, unimpi_vtable_init.                                 *)
LoadContents(l) ==
  IF Outcome[l] \in {"abi", "absent"} THEN UNCHANGED contents
  ELSE /\ tools' = [t \in ToolSlots |-> ToolSlot(l, t)]
       /\ IF Outcome[l] \in {"no_comm", "native"} THEN Fill(l)
          ELSE /\ value' = [g \in Values |-> Neutral(g)]
               /\ UNCHANGED <<table, saved>>

(* unimpi_vtable_cleanup: the table, the communicators, the status         *)
(* sentinel; no other predefined value, no saved pointer, no `unimpi_mt'.  *)
ClearContents ==
  /\ table' = [s \in Slots |-> Null]
  /\ value' = [value EXCEPT !["communicators"] = Number(0), !["status_ignore"] = Number(0)]
  /\ UNCHANGED <<saved, tools>>

-----------------------------------------------------------------------------
(***************************************************************************)
(* The steps of Lifecycle, by what they do to the contents.                *)
(***************************************************************************)

(* unimpi_ensure_loaded on what the environment selects; src/mpit.c is     *)
(* compiled from MPI-3.0 on.                                               *)
LoadByEnv(l) ==
  /\ l = setting.library
  /\ \/ InitLoadFails(l)
     \/ InitBegin(l)
     \/ setting.level >= 30 /\ ToolInitLoadFails(l)
     \/ setting.level >= 30 /\ \E ok \in BOOLEAN : ToolInit(l, ok)
  /\ IF loaded THEN UNCHANGED contents ELSE LoadContents(l)
  /\ UNCHANGED setting

LoadByName(l) ==
  /\ l \in setting.files
  /\ InitWithLoadFails(l) \/ InitWithBegin(l)
  /\ LoadContents(l)
  /\ UNCHANGED setting

CleanUp ==
  /\ InitFails \/ InitWithFails \/ \E ok \in BOOLEAN : FinalizeReturn(ok)
  /\ ClearContents
  /\ UNCHANGED setting

LeaveContents ==
  /\ \/ InitSucceeds
     \/ InitWithSucceeds
     \/ FinalizeBegin
     \/ RefuseInit
     \/ RefuseFinalize
     \/ RejectArgument
     \/ \E ok \in BOOLEAN : ToolFinalize(ok)
     \/ Dies
  /\ UNCHANGED <<setting, contents>>

TablesNext ==
  \/ \E l \in Libs : LoadByEnv(l)
  \/ \E l \in Libs : LoadByName(l)
  \/ CleanUp
  \/ LeaveContents

TablesSpec == TablesInit /\ [][TablesNext]_tvars

-----------------------------------------------------------------------------
(***************************************************************************)
(* Properties.                                                             *)
(***************************************************************************)

Wraps(k, s) == Binding[k][s].way \in {"wrapped", "guarded"}

(* The type of the variables this module adds: a backend's wrapper is only *)
(* in slots that backend wraps, over a pointer into a library of its kind. *)
TablesTypeOK ==
  /\ setting \in Settings
  /\ table \in [Slots -> Entries]
  /\ \A s \in Slots : table[s].via \in Kinds => Wraps(table[s].via, s)
  /\ saved \in [Kinds -> [Slots -> Tables]]
  /\ \A k \in Kinds, s \in Slots :
       saved[k][s] # NoLib => Wraps(k, s) /\ KindOf[saved[k][s]] = k
  /\ tools \in [ToolSlots -> Tables]
  /\ value \in [Values -> Cells]

(* The table was filled, to the end.                                       *)
Filled == vt # NoLib /\ Native(vt)

(* Where a call through slot s ends.                                       *)
LeadsTo(s) ==
  IF table[s].via = "native" THEN table[s].lib
  ELSE IF table[s].via \in Kinds THEN saved[table[s].via][s]
  ELSE NoLib

(* The gates of the four initializations, of the table's declaration and   *)
(* of the standard names agree in this build: no assignment to a slot that *)
(* does not exist, and no name for a slot that is not assigned.            *)
GatesAgree ==
  \A k \in Kinds, s \in Slots :
    LET compiled(since) == since <= setting.level IN
    /\ compiled(Named[s]) => compiled(Binding[k][s].since)
    /\ compiled(Binding[k][s].since) => compiled(Declared[s])

(* Whatever libraries were loaded, failed or were left before: in a filled *)
(* table every slot the application can name and the library has a symbol  *)
(* for leads into that library, through the pointer of the right backend's *)
(* wrapper where there is one; and a table that was cleaned holds nothing. *)
SlotsLeadHome ==
  /\ vt = NoLib => \A s \in Slots : table[s] = Null
  /\ Filled =>
       \A s \in Slots :
         Named[s] <= setting.level =>
           LET way == Binding[KindOf[vt]][s].way IN
           IF way = "local" \/ (way = "fallback" /\ ~Found(vt, s))
             THEN table[s] = Unimpi
             ELSE Found(vt, s) => LeadsTo(s) = vt

(* The tables and the lifecycle together: while MPI is active, and in the  *)
(* callbacks of MPI_Finalize, a call by a standard name that leaves UniMPI *)
(* ends in a mapped library in which the native MPI is running.            *)
ActiveCallsLand ==
  state \in {"ACTIVE", "FINALIZING"} =>
    \A s \in Slots :
      Named[s] <= setting.level /\ Found(vt, s) /\ table[s] # Unimpi =>
        LeadsTo(s) \in Libs /\ opened[LeadsTo(s)] > 0
        /\ nativeMPI[LeadsTo(s)] = "running"

(* `unimpi_mt' holds exactly the functions of one library, the one of the  *)
(* last native load, or nothing: never a mixture of two.                   *)
ToolTableMatches ==
  \A t \in ToolSlots :
    tools[t] = IF tvt # NoLib /\ ToolSince[t] <= setting.level /\ Found(tvt, t)
               THEN tvt ELSE NoLib

(* Every predefined value the backend of a filled table has a value for    *)
(* has that value (the status sentinel as long as the library is open: a   *)
(* failed load resets it), and a cleaned table comes with null             *)
(* communicators and no status sentinel.                                   *)
PredefinedSet ==
  /\ Filled =>
       \A g \in Values :
         LET a == Assigned[KindOf[vt]][g] IN
         /\ a.how # "keep" /\ a.since <= setting.level
         /\ g = "status_ignore" => handle # NoLib
         => value[g] = Given(vt, g)
  /\ vt = NoLib =>
       value["communicators"] = Number(Default["communicators"])
       /\ value["status_ignore"] = Number(Default["status_ignore"])

(* The table was filled by the initialization written for the library's    *)
(* implementation (handle width, status layout, predefined values).        *)
OwnBackend == Filled => KindOf[vt] = RealKind[vt]

(* A backend asked for by name in UNIMPI_BACKEND is the one that gets      *)
(* bound: the reason src/loader.c:11 gives for not letting MPICH fall back *)
(* to the generic soname.  Intel MPI's entry is that generic soname.       *)
NamedBackend ==
  [][/\ handle' # handle /\ handle' # NoLib /\ frame' # "init_with"
     /\ setting.asked \in Kinds \ {"intelmpi"}
     => RealKind[handle'] = setting.asked]_tvars

(* unimpi_mpi_error_string: the first class with that number.              *)
ErrorString(code) ==
  LET hits == {i \in DOMAIN ErrorOrder : value[ErrorOrder[i]] = code} IN
  IF hits = {} THEN "unknown" ELSE ErrorOrder[CHOOSE i \in hits : \A j \in hits : i <= j]

(* Every error class of a filled table's backend is told from every other  *)
(* one and from success, whatever classes earlier backends left behind.    *)
ErrorsNamedRight ==
  Filled =>
    \A i \in DOMAIN ErrorOrder :
      Assigned[KindOf[vt]][ErrorOrder[i]].how # "keep" =>
        ErrorString(value[ErrorOrder[i]]) = ErrorOrder[i]

(* unimpi_error_class: the MPI class of a code of UniMPI.                  *)
ErrorClass(code) ==
  IF code = "OK" THEN "SUCCESS"
  ELSE IF code = "INVALID_ARGUMENT" THEN "ARG"
  ELSE IF code \in {"NO_BACKEND", "BACKEND_LOAD", "BACKEND_INIT_FAILED"} THEN "OTHER"
  ELSE "UNKNOWN"

(* With the table of any backend, after any sequence of loads, every code  *)
(* of UniMPI has a class, and it is not taken for another one or success.  *)
FailuresClassed ==
  Filled =>
    \A code \in UniMPIErrors :
      ErrorString(value[ErrorClass(code)]) = ErrorClass(code)

(* What a process that loads only vt would have.                           *)
Expected(g) ==
  LET a == Assigned[KindOf[vt]][g] IN
  IF a.how = "keep" \/ a.since > setting.level THEN Number(Default[g]) ELSE Given(vt, g)

(* The libraries this process may load, and do they all need one backend?  *)
Reach == setting.files \cup {setting.library}
OneKind ==
  \A l, m \in Reach :
    Outcome[l] \in {"no_comm", "native"} /\ Outcome[m] \in {"no_comm", "native"} =>
      KindOf[l] = KindOf[m]

(* As long as one backend only is tried, through any failures and retries, *)
(* a filled table comes with that backend's values and, where it has none, *)
(* with the defaults (the status sentinel as long as the library is open). *)
PredefinedOfOneKind ==
  OneKind /\ Filled =>
    \A g \in Values :
      (g = "status_ignore" => handle # NoLib) => value[g] = Expected(g)

-----------------------------------------------------------------------------
(***************************************************************************)
(* What the documentation says and the code does not keep.                 *)
(***************************************************************************)

(* docs/design.md, "Lifecycle": predefined values are cleaned on every     *)
(* failure path, so that what was tried before does not show.              *)
PredefinedMatch == Filled => \A g \in Values : value[g] = Expected(g)
===============================================================================
