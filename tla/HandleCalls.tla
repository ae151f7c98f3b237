----------------------------- MODULE HandleCalls -----------------------------
(***************************************************************************)
(* What the array adapters of src/backends/mpich_wrappers.c (and of        *)
(* intelmpi_wrappers.c and msmpi_wrappers.c) promise: a call on arrays of  *)
(* 8-byte handles is the native call on the handles, and nothing else.     *)
(* Packing, words, loops and the way back are not part of the promise.     *)
(***************************************************************************)
EXTENDS Integers

CONSTANTS
  N,       (* the capacity of every array                                   *)
  Arrays,  (* the caller's handle arrays                                    *)
  Words,   (* the values of a 4-byte word, as signed integers               *)
  Null     (* the native MPI_REQUEST_NULL                                   *)

VARIABLES
  handles, (* the caller's arrays, handle by handle                         *)
  call     (* the call in progress                                          *)

calls == <<handles, call>>

(* A handle is 64 bits wide: a native one, in the low word, and whatever   *)
(* is above it; wide when the whole is the native one, as an integer.      *)
Handles == [low : Words, high : Words]
Wide(w) == [low |-> w, high |-> IF w < 0 THEN -1 ELSE 0]
IsWide(h) == h = Wide(h.low)

Entries == 0..N-1
NoCall == [phase |-> "none", on |-> <<>>, lens |-> <<>>]

Init == handles \in [Arrays -> [Entries -> Handles]] /\ call = NoCall

(* The caller stores what it likes into one or two arrays and passes a     *)
(* part of each to a function that reads native handles: from then on a    *)
(* handle of those parts is its low word.                                  *)
Ask(x, y, n1, n2) ==
  /\ call = NoCall /\ x # y
  /\ call' = [phase |-> "asked", on |-> <<x, y>>, lens |-> <<n1, n2>>]
  /\ handles' \in [Arrays -> [Entries -> Handles]]
  /\ \A z \in Arrays \ {x, y} : handles'[z] = handles[z]
  /\ \A j \in Entries :
       (j < n1 => IsWide(handles'[x][j])) /\ (j < n2 => IsWide(handles'[y][j]))

(* The caller passes a part of an array to be filled.                      *)
AskForFill(x, y, n1) ==
  /\ call = NoCall /\ x # y
  /\ call' = [phase |-> "fill", on |-> <<x, y>>, lens |-> <<n1, 0>>]
  /\ handles' \in [Arrays -> [Entries -> Handles]]
  /\ \A z \in Arrays \ {x, y} : handles'[z] = handles[z]

(* The native function completes some of the requests, or none.            *)
Complete(done) ==
  /\ call.phase = "asked" /\ call' = [call EXCEPT !.phase = "answered"]
  /\ \A j \in done : j < call.lens[1]
  /\ handles' = [handles EXCEPT ![call.on[1]] =
                   [j \in Entries |-> IF j \in done THEN Wide(Null) ELSE @[j]]]

(* The native function writes handles at the start of the part it is       *)
(* given, or fails.  The adapter does not know how many, and makes every   *)
(* entry of the part wide: one that was not written does not keep its      *)
(* value, and the promise gives it no other.                               *)
Fill ==
  /\ call.phase = "fill" /\ call' = [call EXCEPT !.phase = "answered"]
  /\ handles' \in [Arrays -> [Entries -> Handles]]
  /\ \A z \in Arrays \ {call.on[1]} : handles'[z] = handles[z]
  /\ \A j \in Entries :
       IF j < call.lens[1] THEN IsWide(handles'[call.on[1]][j])
       ELSE handles'[call.on[1]][j] = handles[call.on[1]][j]

FillFails ==
  /\ call.phase = "fill" /\ call' = [call EXCEPT !.phase = "answered"]
  /\ UNCHANGED handles

(* The caller gets its arrays back as the native function left them.       *)
Answer == call.phase = "answered" /\ call' = NoCall /\ UNCHANGED handles

Next ==
  \/ \E x, y \in Arrays, n1, n2 \in 0..N : Ask(x, y, n1, n2) \/ AskForFill(x, y, n1)
  \/ \E done \in SUBSET Entries : Complete(done)
  \/ Fill \/ FillFails
  \/ Answer

Spec == Init /\ [][Next]_calls
===============================================================================
