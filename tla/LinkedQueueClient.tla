------------------------- MODULE LinkedQueueClient -------------------------
(***************************************************************************)
(* The linked queues under a client that keeps to their precondition: an   *)
(* object is enqueued only while it is in no queue, and dequeued only from *)
(* the queue that holds it.  dequeue leaves stale links in the object it   *)
(* takes out, and the queues share the links of an object, so each step    *)
(* runs over whatever the earlier ones left behind.                        *)
(***************************************************************************)
EXTENDS LinkedQueue, SequencesExt

VARIABLES
  links,   (* the memory: heads and links                                 *)
  lists,   (* history: the client's own account of what each queue holds  *)
  dying    (* the queues whose destructor has started                     *)

vars == <<links, lists, dying>>

Kept == UNION {ToSet(lists[q]) : q \in Queues}

TypeOK ==
  /\ links \in Links
  /\ lists \in [Queues -> Seq(Objects)]
  /\ dying \subseteq Queues

Init ==
  /\ links = NoLinks
  /\ lists = [q \in Queues |-> << >>]
  /\ dying = {}

Insert(q, o) ==
  /\ q \notin dying
  /\ o \notin Kept
  /\ links' = Enqueue(links, q, o)
  /\ lists' = [lists EXCEPT ![q] = Cons(o, @)]
  /\ UNCHANGED dying

Delete(q, i) ==
  /\ q \notin dying
  /\ i \in DOMAIN lists[q]
  /\ links' = Dequeue(links, q, lists[q][i])
  /\ lists' = [lists EXCEPT ![q] = RemoveAt(@, i)]
  /\ UNCHANGED dying

Pop(q) ==
  /\ q \notin dying
  /\ links.head[q] # NULL
  /\ links' = PopHead(links, q)
  /\ lists' = [lists EXCEPT ![q] = Tail(@)]
  /\ UNCHANGED dying

(* ~LinkedQueue starts: no operation is called on the queue any more. *)
Destroy(q) ==
  /\ q \notin dying
  /\ dying' = dying \union {q}
  /\ UNCHANGED <<links, lists>>

DestroyHead(q) ==
  /\ q \in dying
  /\ links.head[q] # NULL
  /\ links' = DeleteHead(links, q)
  /\ lists' = [lists EXCEPT ![q] = Tail(@)]
  /\ UNCHANGED dying

Next ==
  \E q \in Queues :
    \/ \E o \in Objects : Insert(q, o)
    \/ \E i \in 1 .. Len(lists[q]) : Delete(q, i)
    \/ Pop(q)
    \/ Destroy(q)
    \/ DestroyHead(q)

Spec == Init /\ [][Next]_vars

-----------------------------------------------------------------------------
Lists == INSTANCE HandlerLists WITH lists <- [q \in Queues |-> Walk(links, q)]

(***************************************************************************)
(* The pointers implement the lists: seen only through head() and next(),  *)
(* enqueue, dequeue, pop_head and the destructor put and take one object   *)
(* of one queue and disturb nothing else, in any order of calls.           *)
(***************************************************************************)
ImplementsLists == Lists!Spec

(* No object is in two places. *)
NoSharing ==
  \A p, q \in Queues : \A i \in 1 .. Len(lists[p]), j \in 1 .. Len(lists[q]) :
    lists[p][i] = lists[q][j] => p = q /\ i = j

(* The object after position i of list s, or NULL. *)
After(s, i)  == IF i < Len(s) THEN s[i + 1] ELSE NULL
Before(s, i) == IF i > 1 THEN s[i - 1] ELSE NULL

(***************************************************************************)
(* The pointers agree with the client's account: the head is the first     *)
(* object, and each object's links name its neighbours (prev_ is not kept  *)
(* up by the destructor, which never reads it).  This is the inductive     *)
(* form of correctness, the one dequeue relies on when it trusts the links *)
(* of the object it is given.                                              *)
(***************************************************************************)
Forward(m, q, s) ==
  /\ m.head[q] = After(s, 0)
  /\ \A i \in 1 .. Len(s) : m.next[s[i]] = After(s, i)
Backward(m, s) == \A i \in 1 .. Len(s) : m.prev[s[i]] = Before(s, i)

LinksAgree ==
  \A q \in Queues : /\ Forward(links, q, lists[q])
                    /\ q \notin dying => Backward(links, lists[q])

Inv == TypeOK /\ NoSharing /\ LinksAgree
=============================================================================
