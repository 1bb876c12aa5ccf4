------------------------------ MODULE MCTimer ------------------------------
(***************************************************************************)
(* Two harts and words of four values: deadlines that differ in both      *)
(* words, so that a half-written compare register can lie before either.   *)
(***************************************************************************)
EXTENDS Timer

MCDeadlines == {2, 4, 11}
=============================================================================
