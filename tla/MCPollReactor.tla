--------------------------- MODULE MCPollReactor ---------------------------
(* The Dynamic and the Static reactor on small instances.                  *)
EXTENDS PollReactorProperties, TLC

InMask == {{"IN"}}
Endless == {-1}
Finite == {2}
EndlessOrFinite == {-1, 0, 2}
Limits == {-1, 0, 2}

(* Sockets, and functions, are interchangeable: sound for the invariants and *)
(* action properties, not for liveness.                                      *)
Symmetry == Permutations(Sockets) \union Permutations(Functions)
=============================================================================
