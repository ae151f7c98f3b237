---------------------------- MODULE NeighborDegree ----------------------------
(***************************************************************************)
(* The neighbourhood collectives with arrays of datatypes,                 *)
(* [i]neighbor_alltoallw in src/backends/mpich_wrappers.c, and the same    *)
(* code for Intel MPI and MS-MPI.  The wrapper has to find out how long    *)
(* the caller's arrays are: neighbor_degree asks the native library about  *)
(* the topology of the communicator.  What it finds is how many entries    *)
(* module HandleArrays packs and restores; what the native collective      *)
(* reads follows from the topology itself.                                 *)
(*                                                                         *)
(* The wrappers of [i]neighbor_alltoallv have the same body, and the table *)
(* gives them arrays of datatypes too; the function of the standard takes  *)
(* one datatype for each direction, so what a native alltoallv reads of    *)
(* those arrays is not modelled, and nothing here is claimed for it.       *)
(*                                                                         *)
(* A communicator, as one of its processes sees it, is a record with a     *)
(* field topo and, by its value,                                           *)
(*   "cart"   ndims, dims, periods, coords, as MPI_Cart_get gives them     *)
(*   "graph"  index, as MPI_Graph_get gives it, and rank                   *)
(*   "dist"   in and out, the degrees of a distributed graph               *)
(*   "none"   no topology                                                  *)
(***************************************************************************)
EXTENDS HandleArrays, FiniteSets

CONSTANTS
  Comms,  (* the communicators collectives are called on                    *)
  Absent  (* which of the functions asked a library may lack                *)

VARIABLES
  lacks,  (* the slots of this library that are NULL                        *)
  nulled, (* does its MPI_Graph_get take NULL for the edges?                *)
  comm,   (* the communicator of the call                                   *)
  answer  (* what neighbor_degree returned                                  *)

nvars == <<vars, lacks, nulled, comm, answer>>

Directions == {-1, 1}
Sides(c) == (0..c.ndims-1) \X Directions

(* The edges of a graph are numbered through, node after node.             *)
FirstEdge(c) == IF c.rank = 0 THEN 0 ELSE c.index[c.rank - 1]
Edges(c)     == FirstEdge(c)..(c.index[c.rank] - 1)

(* What the native collective reads of its arrays (MPI-3.1, 7.6): on a     *)
(* grid two entries for each dimension, also where there is no neighbour;  *)
(* on a graph one for each edge of the process.                            *)
Entries(c) ==
  IF c.topo = "cart" THEN [in |-> 2 * c.ndims, out |-> 2 * c.ndims]
  ELSE IF c.topo = "graph"
    THEN [in |-> Cardinality(Edges(c)), out |-> Cardinality(Edges(c))]
  ELSE IF c.topo = "dist" THEN [in |-> c.in, out |-> c.out]
  ELSE [in |-> 0, out |-> 0]

ASSUME CommsAssumption ==
  \A c \in Comms :
    /\ c.topo \in {"cart", "graph", "dist", "none"}
    /\ c.topo = "cart" =>
         /\ c.ndims \in Nat
         /\ c.dims \in [0..c.ndims-1 -> Nat] /\ c.coords \in [0..c.ndims-1 -> Nat]
         /\ c.periods \in [0..c.ndims-1 -> BOOLEAN]
    /\ c.topo = "graph" =>
         /\ c.rank \in Nat /\ c.index[c.rank] \in Nat /\ FirstEdge(c) \in Nat
         /\ FirstEdge(c) <= c.index[c.rank]
    /\ c.topo = "dist" => c.in \in Nat /\ c.out \in Nat
    /\ Entries(c).in <= N /\ Entries(c).out <= N

-----------------------------------------------------------------------------
(* Mutant of TopologyCodes: the numbers of Open MPI.                       *)
TopologyCodesOfOpenMPI == [cart |-> 1, graph |-> 2, dist |-> 3]

(* UNIMPI_CART and UNIMPI_GRAPH as the backend sets them.                  *)
TopologyCodes == [cart |-> 2, graph |-> 1, dist |-> 3]

(* What the native MPI_Topo_test answers.                                  *)
NativeTopology == [cart |-> 2, graph |-> 1, dist |-> 3, none |-> -32766]

(* The branch neighbor_degree takes.                                       *)
Branch(c) ==
  LET type == NativeTopology[c.topo] IN
  IF type = TopologyCodes.cart THEN "cart"
  ELSE IF type = TopologyCodes.graph THEN "graph" ELSE "dist"

(* Mutant of Counted: the far side is missed one place too early.          *)
CountedShort(c, side) ==
  LET dim == side[1] IN
  /\ c.dims[dim] > 1
  /\ \/ c.periods[dim]
     \/ side[2] = -1 /\ c.coords[dim] > 0
     \/ side[2] = 1  /\ c.coords[dim] < c.dims[dim] - 2

(* Does the loop over the dimensions count this side?                      *)
Counted(c, side) ==
  LET dim == side[1] IN
  /\ c.dims[dim] > 1
  /\ \/ c.periods[dim]
     \/ side[2] = -1 /\ c.coords[dim] > 0
     \/ side[2] = 1  /\ c.coords[dim] < c.dims[dim] - 1

(* Mutant of GraphDegree: index[rank] is taken for the degree.             *)
GraphDegreeCumulative(c) == c.index[c.rank]

GraphDegree(c) == IF c.rank = 0 THEN c.index[0] ELSE c.index[c.rank] - c.index[c.rank - 1]

(* The degrees neighbor_degree stores.                                     *)
Degree(c) ==
  IF c.topo = "cart"
    THEN LET deg == Cardinality({side \in Sides(c) : Counted(c, side)})
         IN [in |-> deg, out |-> deg]
  ELSE IF c.topo = "graph" THEN [in |-> GraphDegree(c), out |-> GraphDegree(c)]
  ELSE [in |-> c.in, out |-> c.out]

(* The slots it checks for NULL in the branch it takes, and what can fail  *)
(* in it.                                                                  *)
Needs(c) ==
  {"topo_test"} \cup
  (IF Branch(c) = "cart" THEN {"cartdim_get", "cart_get"}
   ELSE IF Branch(c) = "graph" THEN {"graphdims_get", "graph_get", "comm_rank"}
   ELSE {"dist_graph_neighbors_count"})

MayFail(c) ==
  IF c.topo = "cart" /\ Branch(c) = "cart" /\ c.ndims <= 0 THEN {"topo_test", "cartdim_get"}
  ELSE IF Branch(c) = "dist" THEN Needs(c) ELSE Needs(c) \cup {"malloc"}

Functions == {"topo_test", "cartdim_get", "cart_get", "graphdims_get", "graph_get",
              "comm_rank", "dist_graph_neighbors_count"}

ASSUME AbsentAssumption == Absent \subseteq SUBSET Functions

-----------------------------------------------------------------------------
NInit ==
  /\ Init
  /\ lacks \in Absent /\ nulled \in BOOLEAN /\ comm \in Comms /\ answer = "none"

(* neighbor_degree succeeds and the call goes through the wrapper's loops. *)
(* For a graph it asks MPI_Graph_get for the index only and passes NULL    *)
(* for the edges: a library that wants both arrays refuses (QueryFails).   *)
Collective(c, x, y, c1, c2) ==
  /\ Needs(c) \cap lacks = {} /\ Branch(c) = c.topo
  /\ c.topo = "graph" => nulled
  /\ Call("types", x, y, Degree(c).out, Degree(c).in, c1, c2)
  /\ comm' = c /\ answer' = "ok"
  /\ UNCHANGED <<lacks, nulled>>

(* neighbor_degree does not: the wrapper returns what it returned, before  *)
(* it touches the arrays.                                                  *)
Refused(c, code) ==
  /\ pc = "user"
  /\ comm' = c /\ answer' = code
  /\ UNCHANGED <<vars, lacks, nulled>>

LacksFunction(c) == Needs(c) \cap lacks # {} /\ Refused(c, "topology")

QueryFails(c) ==
  /\ Needs(c) \cap lacks = {}
  /\ \E query \in MayFail(c) : Refused(c, IF query = "malloc" THEN "no_mem" ELSE "error")

(* A communicator without a topology, or one taken for another kind: the   *)
(* native library refuses the query.                                       *)
WrongTopology(c) ==
  /\ Needs(c) \cap lacks = {} /\ Branch(c) # c.topo
  /\ Refused(c, "topology")

Proceed ==
  /\ Wrapper \/ \E code \in {"ok", "error"} : NativeTypes(code)
  /\ UNCHANGED <<lacks, nulled, comm, answer>>

NNext ==
  \/ \E c \in Comms, x, y \in Arrays, c1, c2 \in Contents : Collective(c, x, y, c1, c2)
  \/ \E c \in Comms : LacksFunction(c)
  \/ \E c \in Comms : QueryFails(c)
  \/ \E c \in Comms : WrongTopology(c)
  \/ Proceed

NSpec == NInit /\ [][NNext]_nvars

-----------------------------------------------------------------------------
(* No more entries are packed and restored than the caller's arrays have.  *)
StaysInArrays == lens[1] <= Entries(comm).out /\ lens[2] <= Entries(comm).in

(* docs/SUPPORT_MATRIX.md, neighbour collectives: the datatype arrays are  *)
(* adapted for the native stride.  So every entry the native collective is *)
(* going to read is the handle the caller put there.                       *)
EntriesReadRight ==
  pc = "native" =>
    /\ \A j \in 0..Entries(comm).out-1 : mem[args[1]][j] = given[args[1]][2*j]
    /\ \A j \in 0..Entries(comm).in-1  : mem[args[2]][j] = given[args[2]][2*j]

(* A process with a neighbour on every side of its grid, and in no         *)
(* dimension itself: none is only 1 wide.  A process of any graph.         *)
Surrounded(c) ==
  c.topo = "cart" =>
    \A dim \in 0..c.ndims-1 :
      c.dims[dim] > 1 /\ (c.periods[dim] \/ (c.coords[dim] > 0 /\ c.coords[dim] < c.dims[dim] - 1))

(* On graphs, distributed graphs, and where a process of a grid has        *)
(* another one for a neighbour on every side, neighbor_degree finds the    *)
(* right lengths, so that the native collective reads the caller's handles *)
(* in all it reads.                                                        *)
SurroundedReadsRight == Surrounded(comm) => EntriesReadRight

(* A communicator with a topology is turned down as one without only when  *)
(* the library lacks a function (tests/mpi/test_mpi30_core.c: the wrapper  *)
(* must not reject a Cartesian communicator with MPI_ERR_TOPOLOGY).        *)
NoSpuriousRefusal ==
  answer = "topology" => comm.topo = "none" \/ Needs(comm) \cap lacks # {}
===============================================================================
