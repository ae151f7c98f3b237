--------------------------- MODULE MCHandleArrays ---------------------------
(***************************************************************************)
(* HandleArrays on two arrays: different handles at different places, one  *)
(* of them negative, and garbage in every high word.                       *)
(***************************************************************************)
EXTENDS HandleArrays

CONSTANTS a, b

MCArrays == {a, b}
MCNull   == 0
MCWords  == {-7, -1, MCNull, 3, 5, 9}

(* Low words 3, -7, 5, ... and -7, 3, 5, ...; high words 9.                *)
MCContents ==
  { [c \in Cells |-> IF c % 2 = 1 THEN 9
                     ELSE IF c = first THEN -7 ELSE IF c < 4 THEN 3 ELSE 5] :
      first \in {0, 2} }
=============================================================================
