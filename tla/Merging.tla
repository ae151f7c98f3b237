------------------------------- MODULE Merging -------------------------------
(***************************************************************************)
(* A table put together from parts: f ++ g has the entries of f, and those *)
(* of g where f has none.  It is the operator @@ of module TLC, which the  *)
(* proof system knows nothing about.                                       *)
(***************************************************************************)
f ++ g ==
  [x \in (DOMAIN f) \cup (DOMAIN g) |-> IF x \in DOMAIN f THEN f[x] ELSE g[x]]
===============================================================================
