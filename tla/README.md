# UniMPI in TLA+

UniMPI is a thin MPI library: an application links against it, and at run time it
loads one native MPI library (Open MPI, MPICH, Intel MPI or MS-MPI), fills a table
of function pointers from it, and sends every MPI call through that table. This
directory holds TLA+ models of the parts of UniMPI that keep state or rewrite data,
the TLC configurations that check them on small instances, and proofs, checked by
TLAPS, that hold for every instance. Paths below are relative to the repository.

## 1. The system

| component | state it keeps | operations | hard behaviour |
|---|---|---|---|
| MPI lifecycle (`src/core.c`) | `g_state`, `g_refcount`, `g_handle`, `g_backend_loaded`, `g_backend_identity` | `unimpi_init`, `_init_thread`, `_init_with`, `_finalize`, the two flags | failure at every stage, retry, callbacks inside the native calls, a hold on the library shared with MPI-T |
| MPI-T lifecycle (`src/mpit.c`) | `g_mpit_inited`, its share of `g_refcount` | `unimpi_mpit_init_thread`, `_finalize` | allowed before `MPI_Init` and after `MPI_Finalize`; nests |
| dispatch tables (`src/vtable.c`, `include/unimpi_vtable.h`) | `unimpi`, `unimpi_mt`, `g_backend_type` | fill, validate, clear | filled before the last check that can fail; the two tables are cleared at different times |
| loader (`src/loader.c`, `src/platform_posix.c`) | dlopen counts, the diagnostic | select a path from the environment, open, identify, unload | fallback sonames, order of identification |
| narrow-handle wrappers (`src/backends/*_wrappers.c`) | none; rewrites the caller's arrays in place | request, datatype and info arrays, arrays of statuses | overlapping reads and writes, aliased arguments, errors half-way |
| neighbour degree (in the same files) | none | lengths of the arrays of neighbourhood collectives | Cartesian edges, graphs |
| backend constants (`src/backends/*.c`, `src/mp_constants.c`, `src/predef_attr.c`) | the values of MPI constants and predefined handles | set when a table is filled | what one backend sets and the next leaves |
| error reporting (`src/error.c`) | none | code to class and text | comparison chains over values that depend on the backend |
| names and version gate (`include/unimpi_std_macros.h`, `tools/`) | none | compile time | none at run time |

How they interact: an entry point of the lifecycle calls the loader, the loader's
handle fills both tables, and a lifecycle call then goes through a table into the
native library. The native library may call the application back, which may call
UniMPI again. The MPI interface and every MPI-T session share one counted hold on the
library; whoever gives back the last reference unloads it. The wrappers sit in slots
of the table and change the application's memory around one native call.

What makes each part correct, in short: *lifecycle*: no call goes through an empty
or stale slot, nothing is leaked or closed twice, one native MPI per process, flags
that never go back, a failed initialization that can be retried. *Wrappers*: the
native call sees the handles of the caller, the caller sees its own again, statuses
keep their index. *Tables*: every slot, and every pointer behind a wrapper, leads into the library that is
loaded. *Loader*: the library that is bound is the one that was asked for, and is
recognized for what it is. *Constants*: after every successful initialization they are
the values of the loaded backend. *Neighbour degree*: as many entries are packed as the
native collective reads, never more than there are. `PROJECT.json` lists the hazards
behind these, each at its line.

## 2. The modules

| module | models | extends or instantiates |
|---|---|---|
| `Lifecycle` | the state of the process: `core.c`, `mpit.c`, when tables are filled and cleared | instantiates `LibraryHold` |
| `LibraryHold` | what `g_refcount` promises, as a specification of its own | |
| `Loader` | `loader.c` and the checks of `unimpi_vtable_init`, as operators on an environment and a file | |
| `BackendBindings` | what each backend assigns to each group of slots, and how | |
| `SlotGates` | the MPI version from which a slot is declared, and from which it has its standard name | |
| `BackendConstants` | the predefined values: defaults, and what each backend sets | |
| `Merging` | `++`, which puts a table together from parts (the operator `@@` of module TLC, defined so that it can be proved about) | |
| `DispatchTables` | the contents of the tables through the steps of the lifecycle, for any backends | extends `Lifecycle` |
| `SourceTables` | `DispatchTables` for the backends, gates and values of the source, and for libraries and machines as `Loader` sees them | extends it and the four modules above |
| `HandleCalls` | what the array wrappers promise, as a specification of its own: a call on handles | |
| `HandleArrays` | the array wrappers, word by word | instantiates `HandleCalls` |
| `NeighborDegree` | the neighbourhood collectives: how long the arrays are taken to be | extends `HandleArrays` |
| `MCLifecycle`, `MCDispatchTables`, `MCHandleArrays`, `MCNeighborDegree` | instances for TLC | |
| `LifecycleProofs`, `ContractProofs`, `DispatchProofs`, `MergingProofs`, `SourceProofs`, `HandleArraysProofs`, `NeighborProofs` | theorems and lemmas | |

They were built in the order of what depends on them: the shared state of the process
first, then what each load leaves behind (tables, values), then the wrappers that
rewrite the application's memory, then the lengths those wrappers are called with.

## 3. Lifecycle

`Lifecycle.tla` has one variable for each global of `core.c`, `mpit.c`, `vtable.c`
that the lifecycle changes, and one action for each way through each entry point:

| code | actions |
|---|---|
| `unimpi_init`, `unimpi_init_thread` through `initialize_backend` | `InitLoadFails`, `InitBegin`, `InitSucceeds`, `InitFails` |
| `unimpi_init_with` | `InitWithLoadFails`, `InitWithBegin`, `InitWithSucceeds`, `InitWithFails` |
| `unimpi_finalize` | `FinalizeBegin`, `FinalizeReturn` |
| their early returns | `RefuseInit`, `RefuseFinalize`, `RejectArgument` |
| `unimpi_mpit_init_thread` | `ToolInitLoadFails`, `ToolInit` |
| `unimpi_mpit_finalize` | `ToolFinalize`, `ToolFinalizeDies` |
| `unimpi_ensure_loaded`, load and fill, `unimpi_vtable_cleanup`, release of a reference | operators `EnsureLoaded`, `LoadFrom`, `CleanupVtable`, `ReleaseRef` used by those actions |

The native `MPI_Init` and `MPI_Finalize` are split into call and return, because the
native library may run application code in between (`frame` is the call on the stack;
`Callbacks` says which of the three call back: the native `MPI_Init` of
`initialize_backend`, that of `unimpi_init_with`, and `MPI_Finalize`, whose attribute
callbacks are why the code has a state FINALIZING). The nested call sees the state of the
middle of the outer one. Every other handler is one step.

What is outside the repository is modelled from how the code uses it: `opened` is the
dlopen count of each library, and a library whose count reaches 0 is unmapped and its
native state lost; the native `MPI_Init`, `MPI_Finalize` and `MPI_T_*` calls may each
succeed or fail. A native call returns in the library it was called in, whatever became
of the table meanwhile. `fault` records a call through an empty slot, into an unmapped
library, to a library the session was not opened on or whose MPI does not run, and a
native call that finds its library unmapped when it is to return (`ReturnDies`); the
process stops there.

Two variables keep what the process itself has forgotten: `entry`, the library the native
call on the stack is in and the references and dlopens there were when the UniMPI call
around it was entered, and `starts`, how often a native `MPI_Init` has succeeded in the
life of the process, in any image. No step of UniMPI's own code depends on them; only
where a native call returns to does.

Abstractions: a library, its path, and what a table filled from it holds are one
value, so a table is right or wrong as a whole. `Outcome` says how far loading a
library gets (six outcomes, those of `unimpi_loader_load` and `unimpi_vtable_init`).
Thread levels, diagnostics text and the write-only `g_backend_handle` are left out.
The application finalizes only MPI-T sessions it opened. Lifecycle calls from two
threads at once are excluded, as `docs/design.md:76-79` excludes them.

`LibraryHold.tla` is the promise in the comment on `g_refcount`: three variables, and
a library that is mapped exactly while the MPI interface or an MPI-T reference holds
it, one and the same for both. `Lifecycle!Hold` is the refinement mapping.

**The contract.** Three constants describe the use:

- `InitFailsWhenHeld`: may the native `MPI_Init` fail while MPI-T holds the library?
- `InitWithWhenHeld`: may `unimpi_init_with` be called while MPI-T holds it?
- `ToolInInitWith`: may application code use MPI-T inside the native `MPI_Init` that
  `unimpi_init_with` calls?

With all three FALSE every property of the passing runs holds, with application code in all three native
calls. The code does not enforce any of them, and the properties are grouped by what they
need:

- *nothing* (run `any`): `TypeOK`, `RefcountIsHolders`, `OneNativeMPI`, `FlagsNeverGoBack`;
- *`~ToolInInitWith`*: `ActiveDispatch`, `ReturnsToMapped`, `ErrorsLeakNothing`. The run
  `contract` checks them under all three, the theorems of section 8 under this one;
- *all three* (run `contract`): `NoFault`, `LibraryBalance`, `ToolCallable`,
  `UnmapOnlyQuiescent`, `HoldSpec`.

Each term is there for a case that fails without it. `retry` shows the first. For the
second, `unimpi_init_with` overwrites `g_handle` and clears it again on failure
(`core.c:295,318`), so that the library MPI-T holds is never closed. `window` shows the
third: `unimpi_init_with` calls the native `MPI_Init` (`core.c:314`) with its library open,
both tables filled, no reference taken and `g_backend_loaded` clear (both follow at
`core.c:327-328`), where `initialize_backend` has taken and set them. An
`MPI_T_init_thread` inside that call loads once more, over `g_handle`: the first library
loses a dlclose, the tables may come to lead elsewhere, and the `MPI_T_finalize` that
follows unloads what the tables lead to. A tool that a native `MPI_Init` starts, and that uses
MPI-T through UniMPI, would do that. Every other call from there is in
`contract` and in `any`.

`RefcountIsHolders` counts the reference of an `MPI_T_init_thread` that failed in the
library (`mpit.c:21-23`) as one that stays for ever: that is what the code does, and no
document says otherwise. What it rules out is a second stranded reference or one given
back twice, in any order of calls.

## 4. Dispatch tables, loader and predefined values

`DispatchTables.tla` takes the steps of `Lifecycle` (the theorem
`TablesFollowLifecycle` says that it adds none) and follows what they do to the
contents:

| code | definition |
|---|---|
| `unimpi_ensure_loaded`, on the library the environment selects | `LoadByEnv` |
| `unimpi_init_with` | `LoadByName` |
| `unimpi_vtable_init` and the `unimpi_vtable_init_<backend>` it calls | `LoadContents`, `Fill`, of which `Slot`, `Pointer`, `Value`, `ToolSlot` are one assignment each |
| `unimpi_vtable_cleanup` after a failed or finished native call | `CleanUp`, `ClearContents` |
| the other entry points | `LeaveContents` |
| `unimpi_mpi_error_string`, `unimpi_error_class` | `ErrorString`, `ErrorClass` |

Its variables are the slots (`table`), the static pointers behind the wrappers
(`saved`, which no cleanup touches), the MPI-T table (`tools`), the predefined values
(`value`) and the build and environment of the process (`setting`).

The 370 slots of `unimpi` stand in groups that each backend binds in one way, behind one
gate, before or after the one step of an initialization that can fail (Open MPI's
communicators). All 370 are assigned by each of the four initializations, and each
belongs to one group. A group is mapped to the lines where most of its slots are; a few
slots stand elsewhere in the same function. `BackendBindings` says *how* a group is
bound: `direct`, through a wrapper (`wrapped`, or `guarded` when the slot is only written if
the symbol exists), to a function of UniMPI (`local`, `fallback`). Which symbol a slot
asks for is taken to be its own, and so is the width of its parameters.

`BackendConstants` lists every error class with its number in each backend. All other
predefined values stand in families that each backend treats alike and carry the number
of one member. An address read through an `_addr` symbol of Open MPI is taken as set. Of
MPICH's communicators only the numbers are modelled, not the legacy symbols
(`MPIR_Comm_world`, `MPIR_Comm_self`) that `mpich.c:99-124` prefers where a library has
them: their values are taken to be the same.

`Loader` says which name the environment selects, which file that name opens (with the
alternative soname), what the file is taken for, and how far its load gets. An
environment and the files of a machine are constants of a process, so `Loader` has
operators and no variables.

`SourceTables` puts these together. Its assumptions say that the constants of
`DispatchTables` are what the source has (`SourceAssumption`), that `Outcome` and
`KindOf` are what `Loader` makes of each file (`FilesAssumption`), and that a process
opens what `Loader` finds for it on its machine (`ProcessesAssumption`). Two more are
not about UniMPI but about what it is used with: `SymbolsAssumption` says which
implementations export the symbols that the code tells them apart by, and
`MachinesAssumption` that names such as `libmpich.so` or `libmpi.so.40` are installed
for their own implementation only, which the comments in `loader.c:8-14` count on.
Which implementation a file really is (`RealKind`) is then compared with what the code
takes it for. `MCDispatchTables` gives these constants values: ten files, and three machines (a
Debian whose generic soname is Open MPI, a cluster whose generic soname is Intel MPI and
that has two MPICHs, a Windows).

## 5. HandleArrays

A UniMPI handle is 8 bytes wide; a handle of MPICH, Intel MPI and MS-MPI is a 4-byte
integer. `HandleArrays.tla` models the wrappers on arrays of 4-byte words, little
endian as the code requires. Every loop iteration is a step: `CompressStep` (forward,
from 1), the native call (`NativeRequests`, `NativeTypes`, `NativeContents`,
`NativeContentsFails`), `ExpandStep` (backward, with sign extension) and `StatusStep`
(5-word records spread to 6-word statuses, backward). A call has two array arguments; wrappers with one have an
empty second one. The history variable `given` holds what the arrays mean to the
caller: what it stored, and every handle the native call wrote, so that the properties
compare words with meaning. `filled` is how many handles the native
`MPI_Type_get_contents` wrote. It may be fewer than the room it was given, and the wrapper,
which does not know, spreads all of the room. `CallerSeesHandles` therefore says nothing of
the entries between: after the call they hold words of other entries.

`HandleCalls.tla` is what all this is for, seen by the application: a call on an array of
handles is the native call on those handles, and no other handle of any array changes.
It has no words, loops or packing. The refinement mapping `Calls` at the end of
`HandleArrays.tla` reads each handle where the wrapper has it at that moment: as the
caller stored it (`AsStored`), as one packed word (`AsWord`), or in two words again
(`InTwoWords`). `CallSpec` is `HandleCalls` under that mapping. `Fill`, the promise for an
array to be filled, is as weak as the code: every entry of the part that was passed is the
64-bit form of some handle afterwards, whether the native call wrote it or not.

The caller may hand over an array whose high words hold anything: a single-handle
call of the native library writes only the low word. Native calls may fail after
completing some requests, and may report `MPI_UNDEFINED` (a negative number) as the
number of completed ones. `AtOnce` chooses between the two outcomes a `memcpy` with
overlapping arguments has in practice: all is read before anything is written, or 16
bytes are moved and then 4. `MayAlias` says whether one array may be passed for both
datatype arguments.

Not modelled here: absent arrays, a native call that fails without setting
`*outcount`, how long the native library reads the arrays of a nonblocking call, other
threads. Arrays
are the same or disjoint, never partly overlapping. Access to the array through
`int32_t *` and `intptr_t *` is taken to be in program order.

## 6. NeighborDegree

A neighbourhood collective does not say how long its arrays are.
`NeighborDegree.tla` models `neighbor_degree` as the code computes it: `Branch` is the
kind of topology it takes the communicator for (by numbers the backend sets),
`Counted` the sides of a grid that its loop counts, `GraphDegree` the difference of two
indices, `Needs` and `MayFail` the slots it checks and the calls and allocations that
can fail in each branch. What it finds is the length with which `Collective` enters
the wrapper of `HandleArrays`; each refusal (`LacksFunction`, `QueryFails`,
`WrongTopology`) returns before the arrays are touched. `Entries`, what the native
collective reads, is external: MPI-3.1, section 7.6, gives a process of a grid two
entries for each dimension, also where it has no neighbour.

`neighbor_degree` asks `MPI_Graph_get` for the indices only and passes NULL for the edges
(`mpich_wrappers.c:330`). `nulled` says whether the library takes that; one that does not
is modelled as refusing (`QueryFails`). That it might crash instead is not modelled.

A communicator is given as one process sees it. The blocking and the nonblocking
`alltoallw` differ only in the native function they call; so do the copies for Intel MPI
and MS-MPI. The wrappers of `[i]neighbor_alltoallv` have the same body
(`mpich_wrappers.c:370-402`) and take arrays of datatypes, as their slots are declared;
the standard's function takes one datatype for each direction, so there is nothing to say
what a native `alltoallv` reads of them. They are not modelled and no property claims
anything of them.

`SurroundedReadsRight` is about processes that have *another* process on every side. A
dimension one wide is left out of it: there a process of a periodic grid is its own
neighbour, and the loop of the code skips the dimension (`dims[i] <= 1`).

## 7. Runs

| run | question | size | result |
|---|---|---|---|
| `contract` | contract use: `NoFault`, `LibraryBalance`, `ToolCallable`, `ActiveDispatch`, `ReturnsToMapped`, `ErrorsLeakNothing`, `UnmapOnlyQuiescent`, `HoldSpec` | 3253 states | holds |
| `any` | every use: `TypeOK`, `RefcountIsHolders`, `OneNativeMPI`, `FlagsNeverGoBack` | 68543 states | holds |
| `window` | with the library open and both tables filled, does nothing load again? (`core.c:49`) | | violated |
| `retry` | after a failed initialization, does the next one find a table? (`core.c:117`) | | violated |
| `identity` | is the backend that is named the one that is loaded? (`docs/API.md:173`) | | violated |
| `tables` | every use without callbacks, ten libraries, nine environments, three MPI versions: `TablesTypeOK`, `GatesAgree`, `SlotsLeadHome`, `ActiveCallsLand`, `ToolTableMatches`, `PredefinedSet`, `PredefinedOfOneKind`, `OwnBackend`, `NamedBackend`, `ErrorsNamedRight`, `FailuresClassed` | 15702 states | holds |
| `predefined` | does a run start with predefined values untouched by earlier attempts? (`docs/design.md:72-74`) | | violated |
| `arrays` | `TypeOK`, `NativeSeesHandles`, `CallerSeesHandles`, `StatusesInPlace`, `CallSpec`, `WrappersReturn` | 54884 states | holds |
| `alias` | does a datatype array passed twice come back as it was? | | violated |
| `memcpy` | does each status keep its index and fields when `memcpy` moves 16 bytes, then 4? | | violated |
| `degree` | `StaysInArrays`, `SurroundedReadsRight`, `NoSpuriousRefusal` | 22656 states | holds |
| `grid` | does a neighbourhood collective find the caller's handles in all it reads? (`docs/SUPPORT_MATRIX.md:100`) | | violated |

The violated ones are findings, with the line of the documentation each contradicts,
in `PROJECT.json`. In short:

- `retry`: with an MPI-T session open, a native `MPI_Init` that fails empties the table
  and leaves `g_backend_loaded` set; the retry skips the load and calls NULL.
- `identity`: the last `MPI_T_finalize` unloads and keeps the name.
- `window`: inside the native `MPI_Init` of `unimpi_init_with`, `g_backend_loaded` is still
  clear, and `MPI_T_init_thread` loads a library again over the open one.
- `predefined`: Open MPI is tried and its communicators cannot be read; MPICH is loaded
  next and sets only some of the values Open MPI set. The run `tables` shows how far
  the damage goes: what a backend sets it sets right (`PredefinedSet`), and a process
  that only ever tries libraries of one backend has that backend's values and defaults,
  whatever fails and is retried (`PredefinedOfOneKind`).
- `alias`: packed twice and restored twice, `[11,12,13,14]` reaches the native call as
  `[11,13,13,14]`, and the caller is left with `[11,0,13,0]`.
- `memcpy`: records 1 to 4 overlap their new places. Compiled with gcc 12 at -O1 and
  above, `statuses_expand_inplace` puts the tag, the source or a count word where
  `MPI_ERROR` of these statuses should be; at -O0 `memcpy` happens to read first.
- `grid`: at the end of an open line of three processes `neighbor_degree` finds one
  neighbour, so the second of the two entries the native call reads was not packed. The
  run has only that line, so that the trace is about a process that lacks a neighbour, and
  not about one in a dimension one wide, where the code counts too few as well.

More places where code and comments part, seen while modelling and not given runs of
their own:

- `g_backend_loaded` is said to be cleared whenever the library is unloaded (`core.c:49`)
  and is not after a failed `unimpi_init_with` while MPI-T holds the library;
- a load that fails at Open MPI's communicators leaves the slots filled (`core.c:158`), the
  same omission that `predefined` shows for the values;
- `msmpi.c` numbers the error classes as Open MPI does (`msmpi.c:30-95`) where its comments
  say MPICH's (`msmpi.c:29,1049`): `MSCodes` and `MpichCodes` can be compared line by line;
- after `MPI_Type_get_contents` the wrapper says that it extends what the backend wrote
  (`mpich_wrappers.c:232-236`) and extends all of the room the caller passed.

**Bounds.** `Lifecycle`: two native libraries, since the mistakes are about one being
taken for the other, and one path for each of the five ways a load can fail;
`MaxRefs` 4 (`contract`) or 3 references, enough for MPI together with several
sessions and for a session opened after `MPI_Finalize`; `MaxOpens` 2 dlopens of one library, one
more than a balanced use has. `DispatchTables`: one library of each implementation, a
second MPICH (a pointer saved for one MPICH and used for another shows only with two),
and one library for each way a load can fail; `MaxRefs` and `MaxOpens` 2; the versions
2.2, 3.0 and 3.1, which are all the gates there are; no callbacks, which the runs of
`Lifecycle` have.
`HandleArrays`: two arrays, capacity 4 (so that a
packed half of an array overlaps the unpacked half in every phase of both loops, and
status records 1 to 3 overlap their places), low words of both signs, different
handles in different places, garbage in every high word. `NeighborDegree`: capacity 4,
which is a grid of two dimensions; corner, edge and inside of grids, rings, dimensions
of extent 1 and 2, a grid of no dimension, every node of a graph with degrees 2, 0, 3, all
splits of a distributed graph, no topology; libraries that lack a function of each
branch. The violated runs use the smallest instance that shows the case.

**Deadlock** is checked except in `any` and the runs of `DispatchTables`, where a
fault stops the process.

**Fairness.** `HandleArrays!FairSpec` assumes weak fairness of `Wrapper`: a wrapper is
straight-line code with loops, and once called it runs on. There is none for the native
call, which may wait for a message for ever, and none for the caller. Under it
`WrappersReturn` holds: every wrapper reaches its native function, and once that
returns, its caller. Nothing of the kind is claimed of the lifecycle: the library runs
only when it is called, so nothing obliges a next step, and inside a call its code waits
for nothing but the native library.

## 8. Proofs

`LifecycleProofs`, for any libraries, outcomes, callbacks and use. The invariants are
not inductive as they stand. `IInv` adds to them that the call on the stack agrees with
`g_state`, that a handle is open, that the loaded flag is set while there is a reference (so
that nothing is loaded in place of what is held), that a native `MPI_Init` has succeeded only
in the states that follow one, and where native MPI state can be. It needs no assumption on the use, and gives `TypeCorrect`,
`ReferencesBalance`, `SingleNativeMPI` and `FlagsMonotone`. Under `Quiet` (that is,
`~ToolInInitWith`) `QInv` adds that the library on the stack is open and the table leads
there (`OnStack`), and what the call has opened itself (`OpenedItself`), to compare its end
with its beginning. It gives `ActiveReachesLibrary`, `NativeCallReturns` and
`ErrorsBalance`. Each part has a step lemma with one case per action.

`ContractProofs`, under
`~InitFailsWhenHeld /\ ~InitWithWhenHeld /\ ~ToolInInitWith`. `CInv` adds to `QInv`
that the library is loaded exactly while it is referenced (`HandleIsHeld`; in
`unimpi_init_with` there is a handle before there is a reference), that both tables
come from it while they can be called (`TablesMatch`), that it alone is open, once,
and that every session is one on it. Theorems: `ContractNoFault`, `ContractBalance`,
`ContractToolCallable`, `ContractUnmapQuiescent`, and `ContractImplementsHold`: every step of the
lifecycle is a step of `LibraryHold` or a stutter.

`HandleArraysProofs`, for any capacity and any contents. `TypeCorrect` needs no
assumption. `NativeHandles` and `CallerHandles` assume `~MayAlias`; `HandleInv` says how far each argument is packed or
spread at each place of the wrapper, and the two step lemmas show that the forward
loop never overwrites what it still has to read, nor does the backward one.
`StatusesIntact` assumes `AtOnce`; its invariant splits the status array at the loop
index. Each assumption is needed: the runs `alias` and `memcpy` drop it.
`WrappersImplementCalls` (assuming `~MayAlias`) is the refinement: every step of a
wrapper is a step of `HandleCalls` or leaves `handles` and `call` as they are. Its
invariant `CallInv` adds to `HandleInv` that arrays that take no part in the call are
untouched (`OutsideInv`); `HandlesMeant` then says, of every handle but those that
`MPI_Type_get_contents` did not write (`Unwritten`), that what the mapping reads, in the
middle of any loop, is what the caller means, so that a loop step moves the
border between two ways of storing a handle and changes none.

`DispatchProofs`, for any libraries, backends, gates, bindings and values.
`TablesFollowLifecycle` carries the theorems of `LifecycleProofs` over. `DInv` says of each slot where it
may lead and of each value what it may be, by the library the table was filled from; a step
either leaves the contents, loads a library, or clears them, and that split, rather than the
ways through the entry points, is the structure of the proof. Two of its parts are there for
one theorem each: `ValuesSourced` (every value is a default or was set by the backend of
some library the process may load), for the two about values left behind, and
`TableReached` (the filled table is of a library the process may load). Theorems:
`TablesTypeCorrect`, `ToolTableOfOneLibrary`, `PredefinedOfBackend`,
`PredefinedOfOneBackend`; with `[]GatesAgree` as a hypothesis `SlotsAlwaysLeadHome` and,
under `Quiet`, `ActiveCallsReachMPI`, without which a slot that is named but not assigned keeps what it
held; and with `[]CodesApart` as a hypothesis `ClassesToldApart`: the code of a class
must differ from that of every class compared before it, also from one that only
another backend sets, or that stays at its default.

`SourceProofs` proves those hypotheses of the source, and with them the theorems without
hypotheses (beyond the assumptions of `SourceTables`), for any number of libraries, machines
and processes; only `SourceCallsReachMPI` keeps `Quiet`. `SourceGatesAgree` has two ideas: every group of each binding is bound
from the version `SinceMPI` gives it, and `SlotDeclared` and `SlotNamed` are compared with
that one table, group by group, instead of the three with each other.
`SourceSlotsLeadHome` and `SourceCallsReachMPI` follow from it. For the error classes,
`WellNumbered` says of a numbering that the classes all backends set are numbered one
to one within 1..53, the later ones as everywhere else and the last code by itself. It
is shown of each backend from the order in which the classes are listed;
`SourceClassesToldApart` and `SourceFailuresClassed` follow.
`SourceOwnBackend` goes through the probes of `Identify` in their order: where a probe
answers, `SymbolsAssumption` leaves one implementation or the earlier probes have excluded the
others. `SourceNamedBackend` goes from the variable UNIMPI_BACKEND to the path, to the
names that may be opened in its place, to the library. Intel MPI is left out of it, as in the
property: its entry in the table is the generic soname.

`NeighborProofs`, for grids of any number of dimensions and any extent, any graph and
any capacity. `SidesCounted` gives a bijection between the sides of a grid and
`1..2*ndims`, from which `DegreeBound` (never more than there are entries) and
`DegreeExact` (as many, where there is a neighbour on every side) follow. `CollectivesAreArrayCalls`
makes the calls calls of `HandleArrays`, so that `NativeHandles` applies; `NInv` ties
the lengths of the call to the communicator. Theorems: `NeverBeyondArrays`,
`SurroundedReads` (assuming `~MayAlias`), `TopologiesRecognized`.

The proofs use only the named assumptions on the constants, which TLC evaluates in
the runs of their modules. `MaxRefs` and `MaxOpens` are arbitrary naturals in them, so the bounds of
the runs do not limit the theorems.

Every invariant and action property of the passing runs is a theorem. Only model-checked:
`WrappersReturn`, since liveness under fairness is out of the prover's reach, and the
runs that expect a violation. Nothing here needs ENABLED or induction over recursive definitions.

## 9. Not modelled

- Absent arrays (`MPI_IN_PLACE`, the info array of `MPI_Comm_spawn_multiple` away from the
  root), the time for which a native library reads the arrays of a nonblocking call, an
  `*outcount` left unset by a failed call, and threads that share a constant array: the
  hazards in `PROJECT.json` say why each has no property.
- The wrappers of `[i]neighbor_alltoallv` (section 6), and a library whose
  `MPI_Graph_get` crashes on NULL edges.
- Which symbol each slot is bound to by name, and the casts of its signature: a
  misspelt name would need the list of 370 names twice.
- The arithmetic of `unimpi_aint_add` and the status accessors, the thread level
  negotiation, the texts of UniMPI's error codes, the debug log, `unimpi_diagnose_backend`
  beyond the load it does.
- The wrapper files for Intel MPI and MS-MPI are copies of the one for MPICH with other
  names; the modules are mapped to the latter.
- The Windows layer is a thin wrapper with the same interface as the POSIX one. The tool that audits
  the gates, tests, benchmarks and examples were read as documentation.
