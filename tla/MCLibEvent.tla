----------------------------- MODULE MCLibEvent -----------------------------
(* The LibEvent reactor on small instances.                                *)
EXTENDS LibEventProperties, TLC

(* The masks a handler can be added with. *)
InMask == {{"IN"}}
AnyMask == (SUBSET Events) \ {{}}

(* Handlers of one kind, and sockets, are interchangeable: sound for the   *)
(* invariants and action properties, not for liveness.                     *)
Symmetry ==
  Permutations(ZmqHandlers) \union Permutations(FdHandlers) \union Permutations(Sockets)
=============================================================================
