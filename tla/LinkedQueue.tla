---------------------------- MODULE LinkedQueue ----------------------------
(***************************************************************************)
(* Private::LinkedQueue, the intrusive doubly linked list of               *)
(* details/LinkedQueue.hpp.  Every object carries one pair of links        *)
(* (LinkedBase::prev_, next_) that all queues share, and a queue is        *)
(* nothing but a head_ pointer.  The operations are operators on the       *)
(* memory the links live in, so that a caller can run several of them in   *)
(* one step: links is the record                                           *)
(*   [head : [Queues -> Objects or NULL],                                  *)
(*    prev, next : [Objects -> Objects or NULL]].                          *)
(***************************************************************************)
EXTENDS Naturals, Sequences, FiniteSets

CONSTANTS
  Objects,  (* the objects that derive from LinkedBase     *)
  Queues,   (* the LinkedQueue instances                   *)
  NULL      (* the null pointer                            *)

ASSUME NullAssumption == NULL \notin Objects

Pointers == Objects \union {NULL}

Links == [head : [Queues  -> Pointers],
          prev : [Objects -> Pointers],
          next : [Objects -> Pointers]]

(* Every constructor sets its pointers to 0. *)
NoLinks == [head |-> [q \in Queues  |-> NULL],
            prev |-> [o \in Objects |-> NULL],
            next |-> [o \in Objects |-> NULL]]

(* The assignment a->f = v, which the code makes only if a is not 0. *)
Store(f, a, v) == IF a = NULL THEN f ELSE [f EXCEPT ![a] = v]

(* Mutant: the former head is not linked back. *)
EnqueueForward(m, q, o) ==
  [head |-> [m.head EXCEPT ![q] = o],
   prev |-> [m.prev EXCEPT ![o] = NULL],
   next |-> [m.next EXCEPT ![o] = m.head[q]]]

(***************************************************************************)
(* enqueue puts the object at the head: the "queue" is LIFO.               *)
(***************************************************************************)
Enqueue(m, q, o) ==
  [head |-> [m.head EXCEPT ![q] = o],
   prev |-> Store([m.prev EXCEPT ![o] = NULL], m.head[q], o),
   next |-> [m.next EXCEPT ![o] = m.head[q]]]

(* Mutant: the head of the queue stays. *)
DequeueKeepsHead(m, q, o) ==
  LET next == Store(m.next, m.prev[o], m.next[o])
  IN  [head |-> m.head, prev |-> Store(m.prev, next[o], m.prev[o]), next |-> next]

(***************************************************************************)
(* dequeue unlinks an object.  It looks at q only to move its head: called *)
(* with a queue that does not hold o, it unlinks o from its neighbours in  *)
(* the queue that does, and leaves that queue's head as it was.  The links *)
(* of o itself are not reset.                                              *)
(***************************************************************************)
Dequeue(m, q, o) ==
  LET next == Store(m.next, m.prev[o], m.next[o])
      prev == Store(m.prev, next[o], m.prev[o])
  IN  [head |-> IF m.head[q] # o THEN m.head
                ELSE [m.head EXCEPT ![q] = IF prev[o] # NULL THEN prev[o]
                                                             ELSE next[o]],
       prev |-> prev,
       next |-> next]

(* pop_head, called on a queue that is not empty. *)
PopHead(m, q) ==
  LET o == m.head[q]
  IN  [head |-> [m.head EXCEPT ![q] = m.next[o]],
       prev |-> Store(m.prev, m.next[o], NULL),
       next |-> m.next]

(* One round of the destructor: head_ moves on, no link is repaired. *)
DeleteHead(m, q) == [m EXCEPT !.head[q] = m.next[m.head[q]]]

(* next(), made total *)
Onward(m) == [p \in Pointers |-> IF p = NULL THEN NULL ELSE m.next[p]]

(* The pointers met from head() on, the k-th after k calls of next() *)
Met(m, q) ==
  LET at[k \in 0 .. Cardinality(Objects)] ==
        IF k = 0 THEN m.head[q] ELSE Onward(m)[at[k - 1]]
  IN  at

(***************************************************************************)
(* Walking a queue as its users do: head() first, then next() until 0.     *)
(* The walk gives up when it has met more objects than there are.          *)
(***************************************************************************)
Walk(m, q) ==
  LET at == Met(m, q)
      places == {i \in 1 .. Cardinality(Objects) + 1 : at[i - 1] # NULL}
  IN  [i \in 1 .. Cardinality(places) |-> at[i - 1]]
=============================================================================
