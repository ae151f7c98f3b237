---------------------------- MODULE HandleArrays ----------------------------
(***************************************************************************)
(* The array adapters of the backends whose handles are 4-byte integers:   *)
(* src/backends/mpich_wrappers.c, and the same code for Intel MPI and      *)
(* MS-MPI.  A UniMPI handle is 8 bytes wide: an array of n handles is 2*n  *)
(* little-endian words.  A wrapper packs the low words of the caller's     *)
(* array into its first n words, in place, calls the native function on    *)
(* them, and spreads them out again with sign extension.  Arrays of        *)
(* statuses come back with 5-word records and are spread to 6 words.       *)
(*                                                                         *)
(* One call at a time: every loop iteration is a step.  A call has two     *)
(* array arguments; the second has length 0 in the wrappers that take one. *)
(***************************************************************************)
EXTENDS Integers

CONSTANTS
  N,         (* the capacity of every array, in handles or statuses         *)
  Arrays,    (* the caller's handle arrays                                  *)
  Words,     (* the values of a 4-byte word, as signed integers             *)
  Null,      (* the native MPI_REQUEST_NULL                                 *)
  Contents,  (* what the caller may have stored in an array                 *)
  MayAlias,  (* may a caller pass one array as both datatype arguments?     *)
  AtOnce     (* does memcpy read all it copies before it writes?  Otherwise *)
             (* it moves 16 bytes, then 4                                   *)

Cells       == 0..2*N-1     (* the words of a handle array                  *)
StatusCells == 0..6*N-1     (* the words of a status array                  *)
Stale       == -1           (* a status word the native call did not write  *)

ASSUME NAssumption == N \in Nat
ASSUME WordsAssumption == Words \subseteq Int /\ {-1, 0, Null} \subseteq Words
ASSUME ContentsAssumption == Contents \subseteq [Cells -> Words]
ASSUME ModeAssumption == MayAlias \in BOOLEAN /\ AtOnce \in BOOLEAN

VARIABLES
  mem,      (* the words of the caller's arrays                             *)
  args,     (* the two array arguments of the call                          *)
  lens,     (* and how many handles of each take part                       *)
  kind,     (* which family of wrappers is called, one of Kinds             *)
  pc,       (* where the wrapper is                                         *)
  k, i,     (* the argument and the index its loop is at                    *)
  rc,       (* what the native call returned                                *)
  st,       (* the caller's status array; word w of the native records is w *)
  out,      (* how many statuses the wrapper spreads (negative: undefined)  *)
  written,  (* how many statuses the native call wrote                      *)
  filled,   (* how many handles it wrote into an array it was to fill       *)
  given     (* history: the arrays as the caller means them, with every     *)
            (* handle the native call wrote, and no other change            *)

vars == <<mem, args, lens, kind, pc, k, i, rc, st, out, written, filled, given>>

(* waitall, testall / waitsome, testsome / waitany, testany, startall /    *)
(* type_create_struct, type_struct, comm_spawn_multiple and the            *)
(* [i][neighbor_]alltoallw family / type_get_contents.                     *)
Kinds == {"all", "some", "any", "types", "contents"}

Init ==
  /\ mem \in [Arrays -> Contents] /\ given = mem
  /\ args \in [1..2 -> Arrays] /\ lens = [a \in 1..2 |-> 0] /\ kind = "any"
  /\ pc = "user" /\ k = 1 /\ i = 0 /\ rc = "ok"
  /\ st = [w \in StatusCells |-> Stale] /\ out = 0 /\ written = 0
  /\ filled = 0

(* Mutant of Ext: zero extension.                                          *)
ZeroExt(w) == 0

(* (MPI_Request)(intptr_t)val: the high word of the sign extension.        *)
Ext(w) == IF w < 0 THEN -1 ELSE 0

-----------------------------------------------------------------------------
(* The caller stores handles in its arrays and enters a wrapper.  A handle *)
(* that a single-handle native call has written has any value in its high  *)
(* word.                                                                   *)
Call(kd, x, y, n1, n2, c1, c2) ==
  /\ pc = "user"
  /\ kd # "types" => n2 = 0
  /\ x = y => MayAlias /\ kd = "types" /\ c1 = c2
  /\ mem' = [mem EXCEPT ![x] = c1, ![y] = c2] /\ given' = mem'
  /\ kind' = kd /\ args' = <<x, y>> /\ lens' = <<n1, n2>>
  /\ pc' = IF kd = "contents" THEN "native" ELSE "compress"
  /\ k' = 1 /\ i' = 1
  /\ UNCHANGED <<rc, st, out, written, filled>>

(* Mutant of CompressStep: takes the high word.                            *)
CompressStepHigh ==
  /\ pc = "compress" /\ i < lens[k]
  /\ mem' = [mem EXCEPT ![args[k]][i] = mem[args[k]][2*i + 1]]
  /\ i' = i + 1
  /\ UNCHANGED <<args, lens, kind, pc, k, rc, st, out, written, filled, given>>

(* One iteration of reqs_compress_inplace or dtypes_compress_inplace:      *)
(* forward, from 1.                                                        *)
CompressStep ==
  /\ pc = "compress" /\ i < lens[k]
  /\ mem' = [mem EXCEPT ![args[k]][i] = mem[args[k]][2*i]]
  /\ i' = i + 1
  /\ UNCHANGED <<args, lens, kind, pc, k, rc, st, out, written, filled, given>>

CompressDone ==
  /\ pc = "compress" /\ i >= lens[k]
  /\ IF k = 1 THEN k' = 2 /\ i' = 1 /\ pc' = pc
              ELSE k' = 1 /\ pc' = "native" /\ UNCHANGED i
  /\ UNCHANGED <<mem, args, lens, kind, rc, st, out, written, filled, given>>

-----------------------------------------------------------------------------
(***************************************************************************)
(* The native calls.                                                       *)
(***************************************************************************)
(* Mutant of ToRestore: starts one entry too far.                          *)
ToRestorePast == pc' = "restore" /\ k' = 1 /\ i' = lens[1]

ToRestore == pc' = "restore" /\ k' = 1 /\ i' = lens[1] - 1

(* A completion call sets some of the handles to MPI_REQUEST_NULL, whether *)
(* it succeeds or not.  waitall and testall are given an array of count    *)
(* statuses or none, and write them all or none; waitsome and testsome     *)
(* write outcount of them, which may be MPI_UNDEFINED.                     *)
NativeRequests(done, o, wr, code) ==
  /\ pc = "native" /\ kind \in {"all", "some", "any"}
  /\ done \subseteq 0..lens[1]-1
  /\ mem'   = [mem EXCEPT ![args[1]] =
                 [c \in Cells |-> IF c \in done THEN Null ELSE mem[args[1]][c]]]
  /\ given' = [given EXCEPT ![args[1]] =
                 [c \in Cells |-> IF \E j \in done : c = 2*j THEN Null
                                  ELSE given[args[1]][c]]]
  /\ kind = "all"  => o \in {0, lens[1]}
  /\ kind = "some" => o \in -1..lens[1]
  /\ kind = "any"  => o = 0
  /\ wr \in {0, o} /\ wr >= 0
  /\ out' = o /\ written' = wr
  /\ st' = [w \in StatusCells |-> IF w < 5*wr THEN w ELSE st[w]]
  /\ rc' = code
  /\ ToRestore
  /\ UNCHANGED <<args, lens, kind, filled>>

(* Datatypes and infos are only read.                                      *)
NativeTypes(code) ==
  /\ pc = "native" /\ kind = "types"
  /\ rc' = code
  /\ ToRestore
  /\ UNCHANGED <<mem, args, lens, kind, st, out, written, filled, given>>

(* MPI_Type_get_contents writes wr narrow handles, h, at the start of an   *)
(* array of max_datatypes, and leaves the rest of it alone.  When it fails *)
(* it leaves all of it as it is.                                           *)
NativeContents(wr, h) ==
  /\ pc = "native" /\ kind = "contents"
  /\ wr \in 0..lens[1]
  /\ mem'   = [mem EXCEPT ![args[1]] =
                 [c \in Cells |-> IF c < wr THEN h[c] ELSE mem[args[1]][c]]]
  /\ given' = [given EXCEPT ![args[1]] =
                 [c \in Cells |-> IF \E j \in 0..wr-1 : c = 2*j THEN h[c \div 2]
                                  ELSE given[args[1]][c]]]
  /\ filled' = wr
  /\ rc' = "ok"
  /\ ToRestore
  /\ UNCHANGED <<args, lens, kind, st, out, written>>

NativeContentsFails ==
  /\ pc = "native" /\ kind = "contents"
  /\ rc' = "error" /\ pc' = "return"
  /\ UNCHANGED <<mem, args, lens, kind, k, i, st, out, written, filled, given>>

-----------------------------------------------------------------------------
(* Mutant of ExpandStep: an unsigned index, which is never below 0.        *)
ExpandStepUnsigned ==
  /\ pc = "restore" /\ i >= 0
  /\ LET val == mem[args[k]][i] IN
       mem' = [mem EXCEPT ![args[k]] =
                 [mem[args[k]] EXCEPT ![2*i] = val, ![2*i + 1] = Ext(val)]]
  /\ i' = IF i = 0 THEN lens[k] - 1 ELSE i - 1
  /\ UNCHANGED <<args, lens, kind, pc, k, rc, st, out, written, filled, given>>

(* One iteration of reqs_expand_inplace or dtypes_restore_inplace:         *)
(* backward, with sign extension.                                          *)
ExpandStep ==
  /\ pc = "restore" /\ i >= 0
  /\ LET val == mem[args[k]][i] IN
       mem' = [mem EXCEPT ![args[k]] =
                 [mem[args[k]] EXCEPT ![2*i] = val, ![2*i + 1] = Ext(val)]]
  /\ i' = i - 1
  /\ UNCHANGED <<args, lens, kind, pc, k, rc, st, out, written, filled, given>>

(* Mutant of ExpandDone: the second array is forgotten.                    *)
ExpandDoneOnce ==
  /\ pc = "restore" /\ i < 0
  /\ k' = 1 /\ i' = out - 1 /\ pc' = "statuses"
  /\ UNCHANGED <<mem, args, lens, kind, rc, st, out, written, filled, given>>

ExpandDone ==
  /\ pc = "restore" /\ i < 0
  /\ IF k = 1 THEN k' = 2 /\ i' = lens[2] - 1 /\ pc' = pc
              ELSE k' = 1 /\ i' = out - 1 /\ pc' = "statuses"
  /\ UNCHANGED <<mem, args, lens, kind, rc, st, out, written, filled, given>>

Copied(s, to, from, len) ==
  [w \in StatusCells |-> IF w \in to..(to + len - 1) THEN s[from + (w - to)] ELSE s[w]]

(* Mutant of CopyRecord: memcpy as a compiler expands it.                  *)
CopyInChunks(s, j) == Copied(Copied(s, 6*j, 5*j, 4), 6*j + 4, 5*j + 4, 1)

(* The memcpy of statuses_expand_inplace.  Source and destination overlap  *)
(* for 0 < j < 5, where C leaves the result undefined.                     *)
CopyRecord(s, j) ==
  IF AtOnce THEN Copied(s, 6*j, 5*j, 5)
  ELSE Copied(Copied(s, 6*j, 5*j, 4), 6*j + 4, 5*j + 4, 1)

(* One iteration of statuses_expand_inplace: backward.                     *)
StatusStep ==
  /\ pc = "statuses" /\ i >= 0
  /\ st' = CopyRecord(st, i)
  /\ i' = i - 1
  /\ UNCHANGED <<mem, args, lens, kind, pc, k, rc, out, written, filled, given>>

StatusDone ==
  /\ pc = "statuses" /\ i < 0
  /\ pc' = "return"
  /\ UNCHANGED <<mem, args, lens, kind, k, i, rc, st, out, written, filled, given>>

(* The caller reads what it got; nothing of the call is left.              *)
Return ==
  /\ pc = "return" /\ pc' = "user"
  /\ lens' = [a \in 1..2 |-> 0] /\ kind' = "any" /\ k' = 1 /\ i' = 0
  /\ rc' = "ok" /\ out' = 0 /\ written' = 0 /\ filled' = 0
  /\ st' = [w \in StatusCells |-> Stale]
  /\ given' = mem
  /\ UNCHANGED <<mem, args>>

-----------------------------------------------------------------------------
User ==
  \E kd \in Kinds, x, y \in Arrays, n1, n2 \in 0..N, c1, c2 \in Contents :
    Call(kd, x, y, n1, n2, c1, c2)

Native ==
  \/ \E done \in SUBSET (0..N-1), o \in -1..N, wr \in 0..N, code \in {"ok", "error"} :
       NativeRequests(done, o, wr, code)
  \/ \E code \in {"ok", "error"} : NativeTypes(code)
  \/ \E wr \in 0..N, h \in Contents : NativeContents(wr, h)
  \/ NativeContentsFails

Wrapper ==
  \/ CompressStep \/ CompressDone
  \/ ExpandStep \/ ExpandDone
  \/ StatusStep \/ StatusDone
  \/ Return

Next == User \/ Native \/ Wrapper

Spec == Init /\ [][Next]_vars

(* A wrapper is straight-line code with loops and runs on; the native call *)
(* may wait for ever, and the caller need not call.                        *)
FairSpec == Spec /\ WF_vars(Wrapper)

-----------------------------------------------------------------------------
(* The type of every variable, and that every index is inside its array.   *)
TypeOK ==
  /\ mem \in [Arrays -> [Cells -> Words]] /\ given \in [Arrays -> [Cells -> Words]]
  /\ args \in [1..2 -> Arrays] /\ lens \in [1..2 -> 0..N] /\ kind \in Kinds
  /\ pc \in {"user", "compress", "native", "restore", "statuses", "return"}
  /\ k \in 1..2 /\ i \in -2..N+1
  /\ pc = "compress" => i >= 1
  /\ pc = "restore"  => i < lens[k]
  /\ pc = "statuses" => i < out
  /\ rc \in {"ok", "error"}
  /\ st \in [StatusCells -> -1..5*N-1]
  /\ out \in -1..N /\ written \in 0..N /\ filled \in 0..N

(* When the native function is called, entry j of every packed array is    *)
(* the handle the caller put into entry j.                                 *)
NativeSeesHandles ==
  pc = "native" /\ kind # "contents" =>
    \A a \in 1..2 : \A j \in 0..lens[a]-1 : mem[args[a]][j] = given[args[a]][2*j]

(* The entries of argument a that hold a handle after the call: all that   *)
(* were passed or, in an array to be filled, those the native call wrote.  *)
Shown(a) == IF kind = "contents" /\ a = 1 THEN filled ELSE lens[a]

(* Array x as the caller finds it: each of the first n entries the 64-bit  *)
(* integer of the handle it should hold, everything from entry m on as it  *)
(* was.  Nothing is said of the entries between.                           *)
Restored(x, n, m) ==
  \A c \in Cells :
    c < 2*n \/ c >= 2*m =>
      mem[x][c] = IF c >= 2*n \/ c % 2 = 0 THEN given[x][c]
                  ELSE IF given[x][c - 1] < 0 THEN -1 ELSE 0

(* Every wrapper, on success and on error, gives the arrays back intact:   *)
(* the handles the caller gave, changed only where the native call wrote,  *)
(* and nothing touched beyond the part that was passed, or anywhere when   *)
(* type_get_contents fails.  The entries of that part which the native     *)
(* type_get_contents did not write are left out: the wrapper spreads the   *)
(* whole part, and they end up as the words of other entries.              *)
CallerSeesHandles ==
  pc = "return" =>
    \A a \in 1..2 :
      IF kind = "contents" /\ rc = "error" THEN Restored(args[a], 0, 0)
      ELSE Restored(args[a], Shown(a), lens[a])

(* The status the caller reads at index j is, field by field, the record   *)
(* the native call wrote at index j (docs/MPI_SUPPORT_ANALYSIS.md:         *)
(* "Per-element status arrays ... are adapted in place").                  *)
StatusesInPlace ==
  pc = "return" =>
    \A j \in 0..written-1, f \in 0..4 : st[6*j + f] = 5*j + f

(* Every wrapper gets to its native function, whatever the lengths (zero   *)
(* among them), and, once that has returned, back to its caller.           *)
WrappersReturn ==
  /\ pc = "compress" ~> pc = "native"
  /\ pc = "restore" ~> pc = "user"

-----------------------------------------------------------------------------
(* The array adapters implement HandleCalls.  A handle is where the        *)
(* wrapper has it at the moment: in its two words for the caller, and      *)
(* before the loop of its array reaches it; in one word when packed.       *)
AsStored(x, j) == [low |-> mem[x][2*j], high |-> mem[x][2*j + 1]]
AsWord(w)      == [low |-> w, high |-> IF w < 0 THEN -1 ELSE 0]

InTwoWords(a, j) ==
  \/ pc \in {"user", "statuses", "return"}
  \/ pc = "native" /\ kind = "contents"
  \/ pc = "restore" /\ (a < k \/ (a = k /\ j > i))

StillUnpacked(a, j) == pc = "compress" /\ (a > k \/ (a = k /\ j >= i))

HandleOf(a, j) ==
  IF InTwoWords(a, j) THEN AsStored(args[a], j)
  ELSE AsWord(mem[args[a]][IF StillUnpacked(a, j) THEN 2*j ELSE j])

HandlesNow ==
  [x \in Arrays |-> [j \in 0..N-1 |->
     IF args[1] = x /\ j < lens[1] THEN HandleOf(1, j)
     ELSE IF args[2] = x /\ j < lens[2] THEN HandleOf(2, j)
     ELSE AsStored(x, j)]]

CallNow ==
  IF pc = "user" THEN [phase |-> "none", on |-> <<>>, lens |-> <<>>]
  ELSE [phase |-> IF pc \in {"compress", "native"}
                  THEN IF kind = "contents" THEN "fill" ELSE "asked"
                  ELSE "answered",
        on |-> args, lens |-> lens]

Calls == INSTANCE HandleCalls WITH handles <- HandlesNow, call <- CallNow

(* However it moves the words about, a wrapper hands the native function   *)
(* the handles of its caller and the caller the handles of the native      *)
(* function, and touches no other handle: every step of its loops leaves   *)
(* all handles as they are.                                                *)
CallSpec == Calls!Spec
=============================================================================
