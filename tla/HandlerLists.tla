--------------------------- MODULE HandlerLists ----------------------------
(***************************************************************************)
(* What the linked queues promise: every queue is a list, an object is in  *)
(* at most one of them and at most once, a new object goes to the front,   *)
(* any object can be taken out, and the others keep their order.           *)
(***************************************************************************)
EXTENDS SequencesExt

CONSTANTS
  Objects,  (* the objects kept in lists *)
  Queues    (* the lists                 *)

VARIABLE lists

Kept == UNION {ToSet(lists[q]) : q \in Queues}

Init == lists = [q \in Queues |-> << >>]

Put(q, o) ==
  /\ o \notin Kept
  /\ lists' = [lists EXCEPT ![q] = Cons(o, @)]

Take(q, i) ==
  /\ i \in DOMAIN lists[q]
  /\ lists' = [lists EXCEPT ![q] = RemoveAt(@, i)]

Next ==
  \E q \in Queues :
    \/ \E o \in Objects : Put(q, o)
    \/ \E i \in 1 .. Len(lists[q]) : Take(q, i)

Spec == Init /\ [][Next]_lists
=============================================================================
