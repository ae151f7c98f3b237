---------------------------- MODULE MergingProofs ----------------------------
(***************************************************************************)
(* What a table put together from parts has in it.                         *)
(***************************************************************************)
EXTENDS Merging, TLAPS

(* It has the entries of both parts, and no others.                        *)
LEMMA MergedDomain ==
  ASSUME NEW f, NEW g, NEW x
  PROVE  x \in DOMAIN (f ++ g) <=> x \in DOMAIN f \/ x \in DOMAIN g
BY DEF ++

(* Where both have one, it is that of the first.                           *)
LEMMA MergedEntry ==
  ASSUME NEW f, NEW g, NEW x \in DOMAIN (f ++ g)
  PROVE  (f ++ g)[x] = IF x \in DOMAIN f THEN f[x] ELSE g[x]
<1>1. x \in (DOMAIN f) \cup (DOMAIN g)
  BY DEF ++
<1> QED
  BY <1>1 DEF ++
===============================================================================
