---------------------------- MODULE NeighborProofs ----------------------------
(***************************************************************************)
(* Proofs about NeighborDegree, for grids of any number of dimensions and  *)
(* any extent, any graph and any capacity of the arrays.  The core is      *)
(* counting: what neighbor_degree finds is never more than what the native *)
(* collective reads, and as much where a process is surrounded.            *)
(***************************************************************************)
EXTENDS NeighborDegree, HandleArraysProofs, FiniteSetTheorems

-----------------------------------------------------------------------------
(***************************************************************************)
(* Counting.                                                               *)
(***************************************************************************)
(* A grid of n dimensions has 2*n sides: one bijection with 1..2*n.        *)
LEMMA SidesCounted ==
  ASSUME NEW c, c.ndims \in Nat
  PROVE  IsFiniteSet(Sides(c)) /\ Cardinality(Sides(c)) = 2 * c.ndims
<1> DEFINE n == c.ndims
           half(j) == IF j <= n THEN <<j - 1, -1>> ELSE <<j - n - 1, 1>>
           f == [j \in 1..2*n |-> half(j)]
<1>1. n \in Nat /\ 2*n \in Nat
  OBVIOUS
<1> HIDE DEF n
<1>2. f \in [1..2*n -> Sides(c)]
  <2> SUFFICES ASSUME NEW j \in 1..2*n PROVE half(j) \in Sides(c)
    OBVIOUS
  <2>1. CASE j <= n
    <3>1. j - 1 \in 0..n-1
      BY <1>1, <2>1
    <3> QED
      BY <2>1, <3>1 DEF Sides, Directions, n
  <2>2. CASE ~(j <= n)
    <3>1. j - n - 1 \in 0..n-1
      BY <1>1, <2>2
    <3> QED
      BY <2>2, <3>1 DEF Sides, Directions, n
  <2> QED
    BY <2>1, <2>2
<1>3. ASSUME NEW j \in 1..2*n, NEW l \in 1..2*n, f[j] = f[l]
      PROVE  j = l
  <2>1. half(j)[1] = half(l)[1] /\ half(j)[2] = half(l)[2]
    BY <1>3
  <2> QED
    BY <1>1, <2>1
<1>4. ASSUME NEW side \in Sides(c)
      PROVE  \E j \in 1..2*n : f[j] = side
  <2>1. PICK dim \in 0..n-1, s \in Directions : side = <<dim, s>>
    BY DEF Sides, n
  <2>2. CASE s = -1
    <3>1. dim + 1 \in 1..2*n /\ half(dim + 1) = <<dim, s>>
      BY <1>1, <2>2
    <3> QED
      BY <2>1, <3>1
  <2>3. CASE s = 1
    <3>1. dim + n + 1 \in 1..2*n /\ half(dim + n + 1) = <<dim, s>>
      BY <1>1, <2>3
    <3> QED
      BY <2>1, <3>1
  <2> QED
    BY <2>2, <2>3 DEF Directions
<1>5. ExistsBijection(1..2*n, Sides(c))
  <2> HIDE DEF f
  <2> QED
    BY <1>2, <1>3, <1>4 DEF ExistsBijection, Bijection, Injection, Surjection, IsInjective
<1>6. IsFiniteSet(1..2*n) /\ Cardinality(1..2*n) = 2*n
  BY <1>1, FS_Interval
<1> QED
  BY <1>5, <1>6, FS_Bijection DEF n

(* The edges of a process in a graph, as numbers.                          *)
LEMMA EdgesCounted ==
  ASSUME NEW c \in Comms, c.topo = "graph"
  PROVE  GraphDegree(c) = Cardinality(Edges(c)) /\ GraphDegree(c) \in Nat
<1>1. /\ c.rank \in Nat /\ c.index[c.rank] \in Nat /\ FirstEdge(c) \in Nat
      /\ FirstEdge(c) <= c.index[c.rank]
  BY CommsAssumption
<1>2. Cardinality(Edges(c)) = c.index[c.rank] - FirstEdge(c)
  <2> DEFINE lo == FirstEdge(c)
             hi == c.index[c.rank] - 1
  <2>1. lo \in Int /\ hi \in Int
    BY <1>1
  <2>2. Cardinality(lo..hi) = IF lo > hi THEN 0 ELSE hi - lo + 1
    <3> HIDE DEF lo, hi
    <3> QED
      BY <2>1, FS_Interval
  <2> QED
    BY <1>1, <2>2 DEF Edges
<1>3. GraphDegree(c) = c.index[c.rank] - FirstEdge(c)
  BY <1>1 DEF GraphDegree, FirstEdge
<1> QED
  BY <1>1, <1>2, <1>3

(* neighbor_degree never finds more than the arrays have.                  *)
LEMMA DegreeBound ==
  ASSUME NEW c \in Comms, c.topo # "none"
  PROVE  /\ Degree(c).in \in 0..N /\ Degree(c).out \in 0..N
         /\ Degree(c).in <= Entries(c).in /\ Degree(c).out <= Entries(c).out
<1> USE NAssumption
<1>0. Entries(c).in <= N /\ Entries(c).out <= N
  BY CommsAssumption
<1>1. CASE c.topo = "cart"
  <2> DEFINE S == {side \in Sides(c) : Counted(c, side)}
  <2>1. c.ndims \in Nat
    BY <1>1, CommsAssumption
  <2>2. Cardinality(S) \in Nat /\ Cardinality(S) <= 2 * c.ndims
    <3>1. IsFiniteSet(Sides(c)) /\ Cardinality(Sides(c)) = 2 * c.ndims
      BY <2>1, SidesCounted
    <3>2. S \in SUBSET Sides(c)
      OBVIOUS
    <3> HIDE DEF S
    <3>3. IsFiniteSet(S) /\ Cardinality(S) <= Cardinality(Sides(c))
      BY <3>1, <3>2, FS_Subset
    <3> QED
      BY <3>1, <3>3, FS_CardinalityType
  <2>3. Degree(c) = [in |-> Cardinality(S), out |-> Cardinality(S)]
    BY <1>1 DEF Degree
  <2>4. Entries(c) = [in |-> 2 * c.ndims, out |-> 2 * c.ndims]
    BY <1>1 DEF Entries
  <2> HIDE DEF S
  <2> QED
    BY <1>0, <2>1, <2>2, <2>3, <2>4
<1>2. CASE c.topo = "graph"
  BY <1>0, <1>2, EdgesCounted DEF Degree, Entries
<1>3. CASE c.topo = "dist"
  BY <1>0, <1>3, CommsAssumption DEF Degree, Entries
<1> QED
  BY <1>1, <1>2, <1>3, CommsAssumption

(* And exactly as much where there is a neighbour on every side.           *)
LEMMA DegreeExact ==
  ASSUME NEW c \in Comms, c.topo # "none", Surrounded(c)
  PROVE  Degree(c) = Entries(c)
<1>1. CASE c.topo = "cart"
  <2>1. \A side \in Sides(c) : Counted(c, side)
    <3> SUFFICES ASSUME NEW dim \in 0..c.ndims-1, NEW s \in Directions
                 PROVE  Counted(c, <<dim, s>>)
      BY DEF Sides
    <3>1. c.dims[dim] > 1
          /\ (c.periods[dim] \/ (c.coords[dim] > 0 /\ c.coords[dim] < c.dims[dim] - 1))
      BY <1>1 DEF Surrounded
    <3> QED
      BY <3>1 DEF Counted, Directions
  <2>2. {side \in Sides(c) : Counted(c, side)} = Sides(c)
    BY <2>1
  <2>3. c.ndims \in Nat
    BY <1>1, CommsAssumption
  <2> QED
    BY <1>1, <2>2, <2>3, SidesCounted DEF Degree, Entries
<1>2. CASE c.topo = "graph"
  BY <1>2, EdgesCounted DEF Degree, Entries
<1>3. CASE c.topo = "dist"
  BY <1>3 DEF Degree, Entries
<1> QED
  BY <1>1, <1>2, <1>3, CommsAssumption

-----------------------------------------------------------------------------
(***************************************************************************)
(* The calls are calls of HandleArrays.                                    *)
(***************************************************************************)
LEMMA BranchOfNone == ASSUME NEW c \in Comms, c.topo = "none" PROVE Branch(c) # c.topo
  BY DEF Branch, NativeTopology, TopologyCodes

LEMMA CollectiveIsCall ==
  ASSUME NEW c \in Comms, NEW x \in Arrays, NEW y \in Arrays, NEW c1 \in Contents,
         NEW c2 \in Contents, Collective(c, x, y, c1, c2)
  PROVE  User /\ c.topo # "none"
<1>1. c.topo # "none"
  BY BranchOfNone DEF Collective
<1>2. Degree(c).out \in 0..N /\ Degree(c).in \in 0..N
  BY <1>1, DegreeBound
<1>3. Call("types", x, y, Degree(c).out, Degree(c).in, c1, c2)
  BY DEF Collective
<1> HIDE DEF Call
<1> QED
  BY <1>1, <1>2, <1>3 DEF User, Kinds

LEMMA StepIsStep == [NNext]_nvars => [Next]_vars
<1> SUFFICES ASSUME [NNext]_nvars PROVE [Next]_vars
  OBVIOUS
<1>1. CASE \E c \in Comms, x, y \in Arrays, c1, c2 \in Contents : Collective(c, x, y, c1, c2)
  BY <1>1, CollectiveIsCall DEF Next
<1>2. CASE \E c \in Comms : LacksFunction(c) \/ QueryFails(c) \/ WrongTopology(c)
  BY <1>2 DEF LacksFunction, QueryFails, WrongTopology, Refused
<1>3. CASE Proceed
  BY <1>3 DEF Proceed, Next, Native
<1>4. CASE UNCHANGED nvars
  BY <1>4 DEF nvars
<1> QED
  BY <1>1, <1>2, <1>3, <1>4 DEF NNext

(* The neighbourhood collectives are calls of the array wrappers with      *)
(* lengths inside their arrays, so everything proved of those holds here.  *)
THEOREM CollectivesAreArrayCalls == NSpec => Spec
<1>1. NInit => Init
  BY DEF NInit
<1> QED
  BY <1>1, StepIsStep, PTL DEF NSpec, Spec

-----------------------------------------------------------------------------
(***************************************************************************)
(* Between calls the lengths are zero; during one they are what            *)
(* neighbor_degree found for the communicator of the call.                 *)
(***************************************************************************)
NInv ==
  /\ comm \in Comms
  /\ pc = "user" => lens = [a \in 1..2 |-> 0]
  /\ pc # "user" =>
       /\ comm.topo # "none" /\ kind = "types"
       /\ lens = <<Degree(comm).out, Degree(comm).in>>

LEMMA NInvInit == NInit => NInv
  BY DEF NInit, Init, NInv

LEMMA NInvStep == NInv /\ [NNext]_nvars => NInv'
<1> SUFFICES ASSUME NInv, [NNext]_nvars PROVE NInv'
  OBVIOUS
<1>1. ASSUME NEW c \in Comms, NEW x \in Arrays, NEW y \in Arrays, NEW c1 \in Contents,
             NEW c2 \in Contents, Collective(c, x, y, c1, c2)
      PROVE  NInv'
  <2>1. c.topo # "none"
    BY <1>1, CollectiveIsCall
  <2>2. /\ comm' = c /\ kind' = "types" /\ lens' = <<Degree(c).out, Degree(c).in>>
        /\ pc' = "compress"
    BY <1>1 DEF Collective, Call
  <2> QED
    BY <2>1, <2>2 DEF NInv
<1>2. CASE \E c \in Comms : LacksFunction(c) \/ QueryFails(c) \/ WrongTopology(c)
  BY <1>2 DEF LacksFunction, QueryFails, WrongTopology, Refused, NInv, vars
<1>3. CASE Proceed
  <2>1. comm' = comm /\ pc # "user"
    BY <1>3 DEF Proceed, Wrapper, NativeTypes, CompressStep, CompressDone, ExpandStep,
                ExpandDone, StatusStep, StatusDone, Return
  <2>2. CASE Return
    BY <2>1, <2>2 DEF Return, NInv
  <2>3. CASE \E code \in {"ok", "error"} : NativeTypes(code)
    BY <2>1, <2>3 DEF NativeTypes, ToRestore, NInv
  <2>4. CASE CompressStep \/ CompressDone
    BY <2>1, <2>4 DEF CompressStep, CompressDone, NInv
  <2>5. CASE ExpandStep \/ ExpandDone \/ StatusStep \/ StatusDone
    BY <2>1, <2>5 DEF ExpandStep, ExpandDone, StatusStep, StatusDone, NInv
  <2> QED
    BY <1>3, <2>2, <2>3, <2>4, <2>5 DEF Proceed, Wrapper
<1>4. CASE UNCHANGED nvars
  BY <1>4 DEF nvars, vars, NInv
<1> QED
  BY <1>1, <1>2, <1>3, <1>4 DEF NNext

(* No wrapper packs or restores beyond the caller's arrays, on any grid,   *)
(* graph or distributed graph.                                             *)
THEOREM NeverBeyondArrays == NSpec => []StaysInArrays
<1>1. NInv => StaysInArrays
  <2> SUFFICES ASSUME NInv PROVE StaysInArrays
    OBVIOUS
  <2>1. CASE pc = "user"
    <3>1. lens[1] = 0 /\ lens[2] = 0 /\ comm \in Comms
      BY <2>1 DEF NInv
    <3>2. Entries(comm).out >= 0 /\ Entries(comm).in >= 0
      <4>1. CASE comm.topo = "none"
        BY <4>1 DEF Entries
      <4>2. CASE comm.topo # "none"
        <5>1. CASE comm.topo = "cart"
          BY <3>1, <5>1, CommsAssumption DEF Entries
        <5>2. CASE comm.topo = "graph"
          BY <3>1, <5>2, EdgesCounted DEF Entries
        <5>3. CASE comm.topo = "dist"
          BY <3>1, <5>3, CommsAssumption DEF Entries
        <5> QED
          BY <3>1, <4>2, <5>1, <5>2, <5>3, CommsAssumption
      <4> QED
        BY <4>1, <4>2
    <3> QED
      BY <3>1, <3>2 DEF StaysInArrays
  <2>2. CASE pc # "user"
    BY <2>2, DegreeBound DEF NInv, StaysInArrays
  <2> QED
    BY <2>1, <2>2
<1> QED
  BY <1>1, NInvInit, NInvStep, PTL DEF NSpec

(* When no array is passed twice, the native collective of a process with  *)
(* a neighbour on every side (and of any process of a graph) finds the     *)
(* caller's handles in everything it reads.                                *)
THEOREM SurroundedReads ==
  ASSUME ~MayAlias
  PROVE  NSpec => []SurroundedReadsRight
<1>1. NInv /\ NativeSeesHandles => SurroundedReadsRight
  <2> SUFFICES ASSUME NInv, NativeSeesHandles, Surrounded(comm), pc = "native"
               PROVE  /\ \A j \in 0..Entries(comm).out-1 : mem[args[1]][j] = given[args[1]][2*j]
                      /\ \A j \in 0..Entries(comm).in-1  : mem[args[2]][j] = given[args[2]][2*j]
    BY DEF SurroundedReadsRight, EntriesReadRight
  <2>1. comm \in Comms /\ comm.topo # "none" /\ kind = "types"
        /\ lens = <<Degree(comm).out, Degree(comm).in>>
    BY DEF NInv
  <2>2. lens[1] = Entries(comm).out /\ lens[2] = Entries(comm).in
    BY <2>1, DegreeExact
  <2> QED
    BY <2>1, <2>2 DEF NativeSeesHandles
<1>2. Spec => []NativeSeesHandles
  BY NativeHandles
<1> QED
  BY <1>1, <1>2, NInvInit, NInvStep, CollectivesAreArrayCalls, PTL DEF NSpec

-----------------------------------------------------------------------------
(* A communicator with a topology is refused only for a function the       *)
(* library lacks: neighbor_degree always takes the branch of the kind of   *)
(* topology the communicator has.                                          *)
THEOREM TopologiesRecognized == NSpec => []NoSpuriousRefusal
<1>1. ASSUME NEW c \in Comms, c.topo # "none"
      PROVE  Branch(c) = c.topo
  BY <1>1, CommsAssumption DEF Branch, NativeTopology, TopologyCodes
<1>2. NInit => NoSpuriousRefusal
  BY DEF NInit, NoSpuriousRefusal
<1>3. NoSpuriousRefusal /\ [NNext]_nvars => NoSpuriousRefusal'
  <2> SUFFICES ASSUME NoSpuriousRefusal, [NNext]_nvars PROVE NoSpuriousRefusal'
    OBVIOUS
  <2>1. CASE \E c \in Comms, x, y \in Arrays, c1, c2 \in Contents :
               Collective(c, x, y, c1, c2)
    BY <2>1 DEF Collective, NoSpuriousRefusal
  <2>2. CASE \E c \in Comms : LacksFunction(c)
    BY <2>2 DEF LacksFunction, Refused, NoSpuriousRefusal
  <2>3. CASE \E c \in Comms : QueryFails(c)
    BY <2>3 DEF QueryFails, Refused, NoSpuriousRefusal
  <2>4. CASE \E c \in Comms : WrongTopology(c)
    BY <1>1, <2>4 DEF WrongTopology, Refused, NoSpuriousRefusal
  <2>5. CASE Proceed \/ UNCHANGED nvars
    BY <2>5 DEF Proceed, nvars, NoSpuriousRefusal
  <2> QED
    BY <2>1, <2>2, <2>3, <2>4, <2>5 DEF NNext
<1> QED
  BY <1>2, <1>3, PTL DEF NSpec
===============================================================================
