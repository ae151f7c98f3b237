--------------------------- MODULE MCNeighborDegree ---------------------------
(***************************************************************************)
(* NeighborDegree on one array pair, with grids of up to two dimensions    *)
(* (their corners, edges and insides, rings, 1-wide dimensions, no         *)
(* dimension at all), places in a graph, and distributed graphs.           *)
(***************************************************************************)
EXTENDS NeighborDegree

CONSTANTS a, b

MCArrays == {a, b}
MCNull   == 0
MCWords  == {-7, -1, MCNull, 3, 5, 9}
MCContents ==
  { [c \in Cells |-> IF c % 2 = 1 THEN 9
                     ELSE IF c = first THEN -7 ELSE IF c < 4 THEN 3 ELSE 5] :
      first \in {0, 2} }

Line(n, p, x) ==
  [topo |-> "cart", ndims |-> 1, dims |-> [d \in {0} |-> n],
   periods |-> [d \in {0} |-> p], coords |-> [d \in {0} |-> x]]
Plane(n, p, x, y) ==
  [topo |-> "cart", ndims |-> 2, dims |-> [d \in {0, 1} |-> n],
   periods |-> [d \in {0, 1} |-> p], coords |-> [d \in {0, 1} |-> IF d = 0 THEN x ELSE y]]
Point == [topo |-> "cart", ndims |-> 0, dims |-> <<>>, periods |-> <<>>, coords |-> <<>>]

(* Node degrees 2, 0, 3.                                                   *)
Node(r) ==
  [topo |-> "graph", rank |-> r, index |-> [d \in 0..2 |-> IF d = 2 THEN 5 ELSE 2]]

MCComms ==
  {Point, Line(2, TRUE, 0), Line(1, TRUE, 0), Line(3, FALSE, 0), Line(3, FALSE, 1),
   Line(3, FALSE, 2), Plane(2, TRUE, 0, 1), Plane(3, FALSE, 1, 1), Plane(3, FALSE, 0, 1)}
  \cup {Node(r) : r \in 0..2}
  \cup {[topo |-> "dist", in |-> d, out |-> 3 - d] : d \in 0..3}
  \cup {[topo |-> "none"]}

(* One line of three processes that does not close.                        *)
MCOpenLine == {Line(3, FALSE, x) : x \in 0..2}

MCAbsent == {{}, {"cart_get"}, {"dist_graph_neighbors_count"}, {"graph_get", "topo_test"}}
===============================================================================
