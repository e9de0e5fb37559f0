-------------------------- MODULE MCNumberOperator --------------------------
(* The example on a few lines of input.                                    *)
EXTENDS NumberOperator

InMask == {{"IN"}}
Endless == {-1}
Lines == {<< >>, <<3>>, <<2, -1>>, <<8, 4, 6, 11>>}
=============================================================================
