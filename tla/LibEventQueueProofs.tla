------------------------ MODULE LibEventQueueProofs -------------------------
(***************************************************************************)
(* The three queues of the LibEvent reactor stay linked as they should,    *)
(* and no pointer of the reactor outlives its handler, for any number of   *)
(* handlers and sockets, if clients keep to three rules; until the queues  *)
(* themselves are gone, who walks one meets its handlers.  The argument    *)
(* orders each queue: without an order, two handlers that point at each    *)
(* other would satisfy every local condition on prev_ and next_, and       *)
(* dequeue would make a handler its own successor.                         *)
(***************************************************************************)
EXTENDS LibEventProofs, FiniteSetTheorems, Iteration

-----------------------------------------------------------------------------
(* Queues linked in memory m that hold the handlers of A, each in the      *)
(* queue that W says.                                                      *)

Chained(m, A, W) ==
  /\ \A q \in Queues : m.head[q] # NULL =>
       m.head[q] \in A /\ W[m.head[q]] = q /\ m.prev[m.head[q]] = NULL
  /\ \A h \in A : m.next[h] # NULL =>
       m.next[h] \in A /\ W[m.next[h]] = W[h] /\ m.prev[m.next[h]] = h
  /\ \A h \in A : IF m.prev[h] = NULL
                  THEN m.head[W[h]] = h
                  ELSE m.prev[h] \in A /\ W[m.prev[h]] = W[h] /\ m.next[m.prev[h]] = h

(* The order of each queue: the head is its least handler, and next_ leads *)
(* from each handler to the least of the greater ones.                     *)
Ordered(m, A, W, rank) ==
  /\ \A h \in A : m.head[W[h]] # NULL /\ rank[m.head[W[h]]] <= rank[h]
  /\ \A h \in A : m.next[h] # NULL => rank[h] < rank[m.next[h]]
  /\ \A g, h \in A : W[g] = W[h] /\ rank[h] < rank[g] =>
       m.next[h] # NULL /\ rank[m.next[h]] <= rank[g]
  /\ \A g, h \in A : W[g] = W[h] /\ rank[g] = rank[h] => g = h

Queued(m, A, W, rank) == Chained(m, A, W) /\ Ordered(m, A, W, rank)

Ranks == [Handlers -> Int]

(* What enqueue and dequeue write. *)
LEMMA EnqueueWrites ==
  ASSUME NEW m \in LQ!Links, NEW q \in Queues, NEW o \in Handlers
  PROVE  LET n == LQ!Enqueue(m, q, o) IN
         /\ n.head[q] = o /\ \A p \in Queues \ {q} : n.head[p] = m.head[p]
         /\ n.next[o] = m.head[q] /\ \A x \in Handlers \ {o} : n.next[x] = m.next[x]
         /\ m.head[q] # o => n.prev[o] = NULL
         /\ m.head[q] # NULL => n.prev[m.head[q]] = o
         /\ \A x \in Handlers \ {o, m.head[q]} : n.prev[x] = m.prev[x]
BY NullIsNoHandler DEF LQ!Enqueue, LQ!Links, LQ!Pointers, LQ!Store

LEMMA DequeueWrites ==
  ASSUME NEW m \in LQ!Links, NEW q \in Queues, NEW o \in Handlers,
         m.prev[o] # o, m.next[o] # o
  PROVE  LET n == LQ!Dequeue(m, q, o) IN
         /\ n.head[q] = IF m.head[q] # o THEN m.head[q]
                        ELSE IF m.prev[o] # NULL THEN m.prev[o] ELSE m.next[o]
         /\ \A p \in Queues \ {q} : n.head[p] = m.head[p]
         /\ \A x \in Handlers : n.next[x] = IF x = m.prev[o] THEN m.next[o] ELSE m.next[x]
         /\ \A x \in Handlers : n.prev[x] = IF x = m.next[o] THEN m.prev[o] ELSE m.prev[x]
BY NullIsNoHandler DEF LQ!Dequeue, LQ!Links, LQ!Pointers, LQ!Store

LEMMA LinksPoint ==
  ASSUME NEW m \in LQ!Links
  PROVE  /\ \A q \in Queues : m.head[q] \in Handlers \union {NULL}
         /\ \A h \in Handlers : /\ m.next[h] \in Handlers \union {NULL}
                                /\ m.prev[h] \in Handlers \union {NULL}
BY DEF LQ!Links, LQ!Pointers

-----------------------------------------------------------------------------
(* enqueue puts a handler before all others of its queue. *)

LEMMA EnqueueChained ==
  ASSUME NEW m \in LQ!Links, NEW A \in SUBSET Handlers, NEW W \in [Handlers -> Queues],
         Chained(m, A, W), NEW q \in Queues, NEW o \in Handlers \ A
  PROVE  Chained(LQ!Enqueue(m, q, o), A \union {o}, [W EXCEPT ![o] = q])
<1> DEFINE n == LQ!Enqueue(m, q, o)
           V == [W EXCEPT ![o] = q]
<1>1. m.head[q] # o /\ o # NULL /\ NULL \notin Handlers
  BY NullIsNoHandler DEF Chained
<1>2. /\ n.head[q] = o /\ \A p \in Queues \ {q} : n.head[p] = m.head[p]
      /\ n.next[o] = m.head[q] /\ \A x \in Handlers \ {o} : n.next[x] = m.next[x]
      /\ n.prev[o] = NULL
      /\ m.head[q] # NULL => n.prev[m.head[q]] = o
      /\ \A x \in Handlers \ {o, m.head[q]} : n.prev[x] = m.prev[x]
  BY <1>1, EnqueueWrites
<1>3. V[o] = q /\ \A x \in Handlers \ {o} : V[x] = W[x]
  OBVIOUS
<1> HIDE DEF n, V
<1>4. ASSUME NEW p \in Queues, n.head[p] # NULL
      PROVE  n.head[p] \in A \union {o} /\ V[n.head[p]] = p /\ n.prev[n.head[p]] = NULL
  <2>1. CASE p = q
    BY <1>2, <1>3, <2>1
  <2>2. CASE p # q
    <3>1. n.head[p] = m.head[p] /\ m.head[p] \in A /\ W[m.head[p]] = p /\ m.prev[m.head[p]] = NULL
      BY <1>2, <1>4, <2>2 DEF Chained
    <3>2. m.head[p] # m.head[q]
      BY <1>4, <2>2, <3>1 DEF Chained
    <3> QED  BY <1>2, <1>3, <3>1, <3>2
  <2> QED  BY <2>1, <2>2
<1>5. ASSUME NEW h \in A \union {o}, n.next[h] # NULL
      PROVE  /\ n.next[h] \in A \union {o} /\ V[n.next[h]] = V[h]
             /\ n.prev[n.next[h]] = h
  <2>1. CASE h = o
    BY <1>2, <1>3, <1>5, <2>1 DEF Chained
  <2>2. CASE h # o
    <3>1. n.next[h] = m.next[h]
      BY <1>2, <2>2
    <3>2. m.next[h] \in A /\ W[m.next[h]] = W[h] /\ m.prev[m.next[h]] = h
      BY <1>5, <2>2, <3>1 DEF Chained
    <3>3. m.next[h] # m.head[q]
      BY <1>1, <3>2 DEF Chained
    <3> QED  BY <1>2, <1>3, <2>2, <3>1, <3>2, <3>3
  <2> QED  BY <2>1, <2>2
<1>6. ASSUME NEW h \in A \union {o}
      PROVE  IF n.prev[h] = NULL
             THEN n.head[V[h]] = h
             ELSE /\ n.prev[h] \in A \union {o} /\ V[n.prev[h]] = V[h]
                  /\ n.next[n.prev[h]] = h
  <2>1. CASE h = o
    BY <1>2, <1>3, <2>1
  <2>2. CASE h = m.head[q]
    <3>1. h \in A /\ W[h] = q /\ h # o /\ n.prev[h] = o
      BY <1>1, <1>2, <2>2 DEF Chained
    <3> QED  BY <1>1, <1>2, <1>3, <2>2, <3>1
  <2>3. CASE h # o /\ h # m.head[q]
    <3>1. h \in A /\ n.prev[h] = m.prev[h] /\ V[h] = W[h]
      BY <1>2, <1>3, <2>3
    <3>2. CASE m.prev[h] = NULL
      <4>1. m.head[W[h]] = h /\ W[h] # q
        BY <2>3, <3>1, <3>2 DEF Chained
      <4> QED  BY <1>2, <3>1, <3>2, <4>1
    <3>3. CASE m.prev[h] # NULL
      <4>1. m.prev[h] \in A /\ W[m.prev[h]] = W[h] /\ m.next[m.prev[h]] = h
        BY <3>1, <3>3 DEF Chained
      <4> QED  BY <1>2, <1>3, <3>1, <3>3, <4>1
    <3> QED  BY <3>2, <3>3
  <2> QED  BY <2>1, <2>2, <2>3
<1>7. Chained(n, A \union {o}, V)
  BY <1>4, <1>5, <1>6 DEF Chained
<1> QED  BY <1>7 DEF n, V

LEMMA EnqueueOrdered ==
  ASSUME NEW m \in LQ!Links, NEW A \in SUBSET Handlers, NEW W \in [Handlers -> Queues],
         NEW rank \in Ranks, Queued(m, A, W, rank), NEW q \in Queues,
         NEW o \in Handlers \ A
  PROVE  \E rank2 \in Ranks :
           /\ \A x \in Handlers \ {o} : rank2[x] = rank[x]
           /\ Ordered(LQ!Enqueue(m, q, o), A \union {o}, [W EXCEPT ![o] = q], rank2)
<1> DEFINE n == LQ!Enqueue(m, q, o)
           V == [W EXCEPT ![o] = q]
           least == IF m.head[q] = NULL THEN 0 ELSE rank[m.head[q]] - 1
           rank2 == [rank EXCEPT ![o] = least]
<1>1. m.head[q] # o /\ o # NULL /\ NULL \notin Handlers
  BY NullIsNoHandler DEF Queued, Chained
<1>2. /\ n.head[q] = o /\ \A p \in Queues \ {q} : n.head[p] = m.head[p]
      /\ n.next[o] = m.head[q] /\ \A x \in Handlers \ {o} : n.next[x] = m.next[x]
  BY EnqueueWrites
<1>3. V[o] = q /\ \A x \in Handlers \ {o} : V[x] = W[x] /\ W[x] \in Queues
  OBVIOUS
<1>4. least \in Int /\ (m.head[q] # NULL => least < rank[m.head[q]])
  BY LinksPoint DEF Ranks
<1>5. /\ rank2 \in Ranks /\ rank2[o] = least
      /\ \A x \in Handlers \ {o} : rank2[x] = rank[x] /\ rank[x] \in Int
  BY <1>4 DEF Ranks
<1> HIDE DEF n, V, least, rank2
<1>6. /\ \A h \in A : m.head[W[h]] \in A /\ rank[m.head[W[h]]] <= rank[h]
      /\ \A h \in A : m.next[h] # NULL => m.next[h] \in A
      /\ m.head[q] # NULL => m.head[q] \in A /\ W[m.head[q]] = q
  BY <1>3 DEF Queued, Chained, Ordered
<1>7. \A h \in A : V[h] = q => least < rank[h] /\ m.head[q] # NULL
  BY <1>1, <1>3, <1>4, <1>5, <1>6
<1>8. ASSUME NEW h \in A \union {o}
      PROVE  n.head[V[h]] # NULL /\ rank2[n.head[V[h]]] <= rank2[h]
  <2>1. CASE V[h] = q
    BY <1>1, <1>2, <1>4, <1>5, <1>7, <2>1
  <2>2. CASE V[h] # q
    <3>1. h \in A /\ h # o /\ n.head[V[h]] = m.head[W[h]]
      BY <1>2, <1>3, <2>2
    <3> QED  BY <1>1, <1>5, <1>6, <3>1
  <2> QED  BY <2>1, <2>2
<1>9. ASSUME NEW h \in A \union {o}, n.next[h] # NULL
      PROVE  rank2[h] < rank2[n.next[h]]
  <2>1. CASE h = o
    BY <1>1, <1>2, <1>4, <1>5, <1>6, <1>9, <2>1
  <2>2. CASE h # o
    <3>1. n.next[h] = m.next[h] /\ m.next[h] \in A
      BY <1>2, <1>6, <1>9, <2>2
    <3>2. rank[h] < rank[m.next[h]]
      BY <1>9, <2>2, <3>1 DEF Queued, Ordered
    <3> QED  BY <1>5, <2>2, <3>1, <3>2
  <2> QED  BY <2>1, <2>2
<1>10. ASSUME NEW g \in A \union {o}, NEW h \in A \union {o}, V[g] = V[h],
              rank2[h] < rank2[g]
       PROVE  n.next[h] # NULL /\ rank2[n.next[h]] <= rank2[g]
  <2>1. g # o
    BY <1>3, <1>4, <1>5, <1>7, <1>10
  <2>2. CASE h = o
    BY <1>1, <1>2, <1>3, <1>5, <1>6, <1>7, <1>10, <2>1, <2>2
  <2>3. CASE h # o
    <3>1. W[g] = W[h] /\ rank[h] < rank[g] /\ g \in A /\ h \in A
      BY <1>3, <1>5, <1>10, <2>1, <2>3
    <3>2. m.next[h] # NULL /\ rank[m.next[h]] <= rank[g]
      BY <3>1 DEF Queued, Ordered
    <3> QED  BY <1>2, <1>5, <1>6, <2>1, <2>3, <3>1, <3>2
  <2> QED  BY <2>2, <2>3
<1>11. ASSUME NEW g \in A \union {o}, NEW h \in A \union {o}, V[g] = V[h],
              rank2[g] = rank2[h]
       PROVE  g = h
  <2>1. CASE g # o /\ h # o
    BY <1>3, <1>5, <1>11, <2>1 DEF Queued, Ordered
  <2>2. CASE g = o \/ h = o
    BY <1>3, <1>4, <1>5, <1>7, <1>11, <2>2
  <2> QED  BY <2>1, <2>2
<1>12. Ordered(n, A \union {o}, V, rank2)
  BY <1>8, <1>9, <1>10, <1>11 DEF Ordered
<1> QED  BY <1>5, <1>12 DEF n, V

(* enqueue keeps both, with a rank for the handler it puts into a queue. *)
LEMMA EnqueueQueued ==
  ASSUME NEW m \in LQ!Links, NEW A \in SUBSET Handlers, NEW W \in [Handlers -> Queues],
         NEW rank \in Ranks, Queued(m, A, W, rank), NEW q \in Queues,
         NEW o \in Handlers \ A
  PROVE  \E rank2 \in Ranks :
           /\ \A x \in Handlers \ {o} : rank2[x] = rank[x]
           /\ Queued(LQ!Enqueue(m, q, o), A \union {o}, [W EXCEPT ![o] = q], rank2)
BY EnqueueChained, EnqueueOrdered DEF Queued

-----------------------------------------------------------------------------
(* dequeue takes a handler from anywhere in its queue. *)

(* The neighbours of a handler are others, on either side of it. *)
LEMMA Neighbours ==
  ASSUME NEW m \in LQ!Links, NEW A \in SUBSET Handlers, NEW W \in [Handlers -> Queues],
         NEW rank \in Ranks, Queued(m, A, W, rank), NEW o \in A
  PROVE  /\ m.prev[o] # NULL =>
              /\ m.prev[o] \in A \ {o} /\ W[m.prev[o]] = W[o]
              /\ m.next[m.prev[o]] = o /\ rank[m.prev[o]] < rank[o]
         /\ m.next[o] # NULL =>
              /\ m.next[o] \in A \ {o} /\ W[m.next[o]] = W[o]
              /\ m.prev[m.next[o]] = o /\ rank[o] < rank[m.next[o]]
         /\ m.prev[o] = NULL <=> m.head[W[o]] = o
         /\ m.prev[o] # o /\ m.next[o] # o
<1>1. o # NULL /\ rank[o] \in Int
  BY NullIsNoHandler DEF Ranks
<1>2. m.next[o] # NULL =>
        /\ m.next[o] \in A \ {o} /\ W[m.next[o]] = W[o]
        /\ m.prev[m.next[o]] = o /\ rank[o] < rank[m.next[o]]
  BY <1>1 DEF Queued, Chained, Ordered
<1>3. m.prev[o] # NULL =>
        /\ m.prev[o] \in A /\ W[m.prev[o]] = W[o] /\ m.next[m.prev[o]] = o
  BY DEF Queued, Chained
<1>4. m.prev[o] # NULL => rank[m.prev[o]] < rank[o]
  BY <1>1, <1>3 DEF Queued, Ordered
<1>5. m.prev[o] = NULL <=> m.head[W[o]] = o
  BY <1>1 DEF Queued, Chained
<1> QED  BY <1>1, <1>2, <1>3, <1>4, <1>5

LEMMA DequeueChained ==
  ASSUME NEW m \in LQ!Links, NEW A \in SUBSET Handlers, NEW W \in [Handlers -> Queues],
         Chained(m, A, W), NEW o \in A, m.prev[o] # o, m.next[o] # o
  PROVE  Chained(LQ!Dequeue(m, W[o], o), A \ {o}, W)
<1> DEFINE d == LQ!Dequeue(m, W[o], o)
           before == m.prev[o]
           after == m.next[o]
<1>1. /\ before # NULL => /\ before \in A \ {o} /\ W[before] = W[o]
                          /\ m.next[before] = o
      /\ after # NULL => /\ after \in A \ {o} /\ W[after] = W[o]
                         /\ m.prev[after] = o
      /\ before = NULL <=> m.head[W[o]] = o
      /\ before # o /\ after # o
  BY NullIsNoHandler DEF Chained
<1>2. /\ d.head[W[o]] = IF m.head[W[o]] # o THEN m.head[W[o]]
                        ELSE IF before # NULL THEN before ELSE after
      /\ \A p \in Queues \ {W[o]} : d.head[p] = m.head[p]
      /\ \A x \in Handlers : d.next[x] = IF x = before THEN after ELSE m.next[x]
      /\ \A x \in Handlers : d.prev[x] = IF x = after THEN before ELSE m.prev[x]
  BY <1>1, DequeueWrites
<1>3. o \in Handlers /\ NULL \notin Handlers
  BY NullIsNoHandler
<1> HIDE DEF d, before, after
<1>4. ASSUME NEW q \in Queues, d.head[q] # NULL
      PROVE  /\ d.head[q] \in A \ {o} /\ W[d.head[q]] = q
             /\ d.prev[d.head[q]] = NULL
  <2>1. CASE q = W[o] /\ m.head[q] = o
    BY <1>1, <1>2, <1>4, <2>1
  <2>2. CASE ~(q = W[o] /\ m.head[q] = o)
    <3>1. d.head[q] = m.head[q]
      BY <1>2, <2>2
    <3>2. m.head[q] \in A /\ W[m.head[q]] = q /\ m.prev[m.head[q]] = NULL
      BY <1>4, <3>1 DEF Chained
    <3>3. m.head[q] # o /\ m.head[q] # after
      BY <1>1, <1>3, <1>4, <2>2, <3>1, <3>2
    <3> QED  BY <1>2, <3>1, <3>2, <3>3
  <2> QED  BY <2>1, <2>2
<1>5. ASSUME NEW h \in A \ {o}, d.next[h] # NULL
      PROVE  /\ d.next[h] \in A \ {o} /\ W[d.next[h]] = W[h]
             /\ d.prev[d.next[h]] = h
  <2>1. CASE h = before
    BY <1>1, <1>2, <1>3, <1>5, <2>1
  <2>2. CASE h # before
    <3>1. d.next[h] = m.next[h]
      BY <1>2, <2>2
    <3>2. m.next[h] \in A /\ W[m.next[h]] = W[h] /\ m.prev[m.next[h]] = h
      BY <1>5, <3>1 DEF Chained
    <3>3. m.next[h] # o /\ m.next[h] # after
      BY <1>1, <1>3, <1>5, <2>2, <3>1, <3>2 DEF before
    <3> QED  BY <1>2, <3>1, <3>2, <3>3
  <2> QED  BY <2>1, <2>2
<1>6. ASSUME NEW h \in A \ {o}
      PROVE  IF d.prev[h] = NULL
             THEN d.head[W[h]] = h
             ELSE /\ d.prev[h] \in A \ {o} /\ W[d.prev[h]] = W[h]
                  /\ d.next[d.prev[h]] = h
  <2>1. CASE h = after
    BY <1>1, <1>2, <1>3, <2>1
  <2>2. CASE h # after
    <3>1. d.prev[h] = m.prev[h]
      BY <1>2, <2>2
    <3>2. CASE m.prev[h] = NULL
      <4>1. m.head[W[h]] = h /\ W[h] \in Queues
        BY <3>2 DEF Chained
      <4> QED  BY <1>2, <3>1, <3>2, <4>1
    <3>3. CASE m.prev[h] # NULL
      <4>1. m.prev[h] \in A /\ W[m.prev[h]] = W[h] /\ m.next[m.prev[h]] = h
        BY <3>3 DEF Chained
      <4>2. m.prev[h] # o /\ m.prev[h] # before
        BY <1>1, <1>3, <2>2, <3>3, <4>1 DEF after
      <4> QED  BY <1>2, <3>1, <3>3, <4>1, <4>2
    <3> QED  BY <3>2, <3>3
  <2> QED  BY <2>1, <2>2
<1>7. Chained(d, A \ {o}, W)
  BY <1>4, <1>5, <1>6 DEF Chained
<1> QED  BY <1>7 DEF d

LEMMA DequeueOrdered ==
  ASSUME NEW m \in LQ!Links, NEW A \in SUBSET Handlers, NEW W \in [Handlers -> Queues],
         NEW rank \in Ranks, Queued(m, A, W, rank), NEW o \in A
  PROVE  Ordered(LQ!Dequeue(m, W[o], o), A \ {o}, W, rank)
<1> DEFINE d == LQ!Dequeue(m, W[o], o)
           before == m.prev[o]
           after == m.next[o]
<1>1. /\ before # NULL => /\ before \in A \ {o} /\ W[before] = W[o]
                          /\ m.next[before] = o /\ rank[before] < rank[o]
      /\ after # NULL => /\ after \in A \ {o} /\ W[after] = W[o]
                         /\ rank[o] < rank[after]
      /\ before = NULL <=> m.head[W[o]] = o
      /\ before # o /\ after # o
  BY Neighbours
<1>2. /\ d.head[W[o]] = IF m.head[W[o]] # o THEN m.head[W[o]]
                        ELSE IF before # NULL THEN before ELSE after
      /\ \A p \in Queues \ {W[o]} : d.head[p] = m.head[p]
      /\ \A x \in Handlers : d.next[x] = IF x = before THEN after ELSE m.next[x]
  BY <1>1, DequeueWrites
<1>3. /\ \A h \in A : rank[h] \in Int /\ W[h] \in Queues
      /\ o \in A /\ NULL \notin A
  BY NullIsNoHandler DEF Ranks
<1> HIDE DEF d, before, after
<1>4. /\ \A h \in A : /\ m.head[W[h]] # NULL
                      /\ m.head[W[h]] \in A /\ rank[m.head[W[h]]] <= rank[h]
      /\ \A h \in A : m.next[h] # NULL => m.next[h] \in A /\ rank[h] < rank[m.next[h]]
  BY <1>3 DEF Queued, Chained, Ordered
<1>5. \A h \in A \ {o} : W[h] = W[o] /\ rank[o] <= rank[h] =>
        after # NULL /\ rank[after] <= rank[h]
  <2> TAKE h \in A \ {o}
  <2> HAVE W[h] = W[o] /\ rank[o] <= rank[h]
  <2>1. rank[o] < rank[h]
    BY <1>3 DEF Queued, Ordered
  <2> QED  BY <1>3, <2>1 DEF Queued, Ordered, after
<1>6. ASSUME NEW h \in A \ {o}
      PROVE  d.head[W[h]] # NULL /\ rank[d.head[W[h]]] <= rank[h]
  <2>1. CASE W[h] = W[o] /\ m.head[W[o]] = o
    BY <1>1, <1>2, <1>4, <1>5, <2>1
  <2>2. CASE ~(W[h] = W[o] /\ m.head[W[o]] = o)
    <3>1. d.head[W[h]] = m.head[W[h]]
      BY <1>2, <1>3, <2>2
    <3> QED  BY <1>4, <3>1
  <2> QED  BY <2>1, <2>2
<1>7. ASSUME NEW h \in A \ {o}, d.next[h] # NULL
      PROVE  rank[h] < rank[d.next[h]]
  <2>1. CASE h = before
    BY <1>1, <1>2, <1>3, <1>7, <2>1
  <2>2. CASE h # before
    BY <1>2, <1>4, <1>7, <2>2
  <2> QED  BY <2>1, <2>2
<1>8. ASSUME NEW g \in A \ {o}, NEW h \in A \ {o}, W[g] = W[h], rank[h] < rank[g]
      PROVE  d.next[h] # NULL /\ rank[d.next[h]] <= rank[g]
  <2>1. m.next[h] # NULL /\ rank[m.next[h]] <= rank[g]
    BY <1>8 DEF Queued, Ordered
  <2>2. CASE h = before
    <3>1. rank[o] <= rank[g] /\ W[g] = W[o]
      BY <1>1, <1>3, <1>8, <2>1, <2>2
    <3> QED  BY <1>2, <1>5, <2>2, <3>1
  <2>3. CASE h # before
    BY <1>2, <2>1, <2>3
  <2> QED  BY <2>2, <2>3
<1>9. \A g, h \in A \ {o} : W[g] = W[h] /\ rank[g] = rank[h] => g = h
  BY DEF Queued, Ordered
<1>10. Ordered(d, A \ {o}, W, rank)
  BY <1>6, <1>7, <1>8, <1>9 DEF Ordered
<1> QED  BY <1>10 DEF d

LEMMA DequeueQueued ==
  ASSUME NEW m \in LQ!Links, NEW A \in SUBSET Handlers, NEW W \in [Handlers -> Queues],
         NEW rank \in Ranks, Queued(m, A, W, rank), NEW o \in A
  PROVE  Queued(LQ!Dequeue(m, W[o], o), A \ {o}, W, rank)
<1>1. m.prev[o] # o /\ m.next[o] # o
  BY NullIsNoHandler DEF Queued, Chained, Ordered, Ranks
<1>2. Chained(LQ!Dequeue(m, W[o], o), A \ {o}, W)
  BY <1>1, DequeueChained DEF Queued
<1> QED  BY <1>2, DequeueOrdered DEF Queued

(* Only the handlers in A matter, and the memory of the others may be freed. *)
LEMMA QueuedAgrees ==
  ASSUME NEW m \in LQ!Links, NEW A \in SUBSET Handlers, NEW W, NEW rank,
         Queued(m, A, W, rank), NEW V, \A h \in A : V[h] = W[h]
  PROVE  Queued(m, A, V, rank)
<1>1. /\ \A q \in Queues : m.head[q] # NULL => m.head[q] \in A /\ V[m.head[q]] = W[m.head[q]]
      /\ \A h \in A : m.next[h] # NULL => m.next[h] \in A /\ V[m.next[h]] = W[m.next[h]]
      /\ \A h \in A : m.prev[h] # NULL => m.prev[h] \in A /\ V[m.prev[h]] = W[m.prev[h]]
  BY DEF Queued, Chained
<1>2. Chained(m, A, V)
  BY <1>1 DEF Queued, Chained
<1>3. Ordered(m, A, V, rank)
  BY DEF Queued, Ordered
<1> QED  BY <1>2, <1>3 DEF Queued

LEMMA FreeQueued ==
  ASSUME NEW m \in LQ!Links, NEW A \in SUBSET Handlers, NEW W, NEW rank,
         Queued(m, A, W, rank), NEW h \in Handlers \ A
  PROVE  Queued(Free(m, h), A, W, rank)
<1>1. /\ Free(m, h).head = m.head
      /\ \A x \in Handlers \ {h} : /\ Free(m, h).next[x] = m.next[x]
                                   /\ Free(m, h).prev[x] = m.prev[x]
  BY DEF Free, LQ!Links, LQ!Pointers
<1> DEFINE f == Free(m, h)
<1> HIDE DEF f
<1>2. /\ f.head = m.head
      /\ \A x \in A : x \in Handlers \ {h} /\ f.next[x] = m.next[x] /\ f.prev[x] = m.prev[x]
  BY <1>1 DEF f
<1>3. Chained(f, A, W)
  BY <1>2 DEF Queued, Chained
<1>4. Ordered(f, A, W, rank)
  BY <1>2 DEF Queued, Ordered
<1> QED  BY <1>3, <1>4 DEF Queued, f

-----------------------------------------------------------------------------
(* The queues of the reactor. *)

(* The queue that each handler belongs in. *)
Seat == [h \in Handlers |-> Where(h)]

Linked == \E rank \in Ranks : Queued(links, alive, Seat, rank)

(***************************************************************************)
(* The inductive invariant: the pointers the reactor keeps and the queues  *)
(* they lead through need each other.                                      *)
(***************************************************************************)
SoundInv ==
  /\ TypeOK
  /\ PointersInv
  /\ pc \notin {"freeing", "dead"} => Linked

ClientRules == {"RemoveEnabled", "CheckEnabled", "SpareNext"} \subseteq Contract

LEMMA SeatIs ==
  /\ Seat \in [Handlers -> Queues]
  /\ \A h \in Handlers : Where(h) = Seat[h] /\ Where(h)' = Seat'[h]
  /\ \A h \in Handlers : Seat[h] = IF h \in enabled THEN QueueOf(h) ELSE "disabled"
BY DEF Seat, Where, QueueOf, Queues

LEMMA SeatMoves ==
  ASSUME NEW h \in Handlers,
         \A x \in Handlers \ {h} : (x \in enabled' <=> x \in enabled) /\ status'[x] = status[x]
  PROVE  /\ Seat' \in [Handlers -> Queues]
         /\ \A x \in Handlers \ {h} : Seat'[x] = Seat[x]
         /\ Seat'[h] = IF h \in enabled'
                       THEN IF status'[h] = "TRIGGERED" THEN "triggered" ELSE "waiting"
                       ELSE "disabled"
BY DEF Seat, Where, QueueOf, Queues

LEMMA SeatStays ==
  ASSUME UNCHANGED <<enabled, status>>
  PROVE  Seat' = Seat
BY DEF Seat, Where, QueueOf

(* do_activate puts the handler where its new status says. *)
LEMMA ActivateLinked ==
  ASSUME TypeOK, NEW lk \in LQ!Links, NEW A \in SUBSET Handlers, NEW rank \in Ranks,
         Queued(lk, A, Seat, rank), NEW h \in Handlers \ A, NEW s, NEW m,
         Activate(lk, h, s, m), enabled' = enabled \union {h}
  PROVE  /\ \E rank2 \in Ranks :
              /\ \A x \in Handlers \ {h} : rank2[x] = rank[x]
              /\ Queued(links', A \union {h}, Seat', rank2)
         /\ \A x \in Handlers \ {h} : Seat'[x] = Seat[x] /\ status'[x] = status[x]
         /\ registered' \subseteq registered \union {h}
<1>1. PICK q \in {"waiting", "triggered"} :
        /\ links' = LQ!Enqueue(lk, q, h)
        /\ status' = [status EXCEPT ![h] = IF q = "triggered" THEN "TRIGGERED" ELSE "WAITING"]
  BY DEF Activate
<1>2. /\ status'[h] = IF q = "triggered" THEN "TRIGGERED" ELSE "WAITING"
      /\ \A x \in Handlers \ {h} : status'[x] = status[x]
  BY <1>1 DEF TypeOK
<1>3. /\ Seat' \in [Handlers -> Queues]
      /\ \A x \in Handlers \ {h} : Seat'[x] = Seat[x]
      /\ Seat'[h] = q
  BY <1>2, SeatMoves
<1>4. q \in Queues /\ Seat \in [Handlers -> Queues]
  BY QueueNames, SeatIs
<1>5. PICK rank2 \in Ranks :
        /\ \A x \in Handlers \ {h} : rank2[x] = rank[x]
        /\ Queued(LQ!Enqueue(lk, q, h), A \union {h}, [Seat EXCEPT ![h] = q], rank2)
  BY <1>4, EnqueueQueued
<1>6. LQ!Enqueue(lk, q, h) \in LQ!Links
  BY <1>4, EnqueueType
<1>7. \A x \in A \union {h} : Seat'[x] = [Seat EXCEPT ![h] = q][x]
  BY <1>3, <1>4
<1>8. Queued(links', A \union {h}, Seat', rank2)
  BY <1>1, <1>5, <1>6, <1>7, QueuedAgrees
<1>9. registered' \subseteq registered \union {h}
  BY DEF Activate
<1> QED  BY <1>2, <1>3, <1>5, <1>8, <1>9

(* do_remove_handler takes it out and frees it. *)
LEMMA RemoveLinked ==
  ASSUME TypeOK, NEW rank \in Ranks, Queued(links, alive, Seat, rank),
         NEW h \in Handlers, h \in alive \intersect enabled, DoRemoveHandler(h)
  PROVE  /\ Queued(links', alive', Seat', rank)
         /\ \A x \in Handlers \ {h} : Seat'[x] = Seat[x] /\ status'[x] = status[x]
<1> DEFINE lk == LQ!Dequeue(links, Seat[h], h)
<1>1. Seat[h] = QueueOf(h) /\ Seat \in [Handlers -> Queues]
  BY SeatIs
<1>2. lk \in LQ!Links /\ links' = Free(lk, h) /\ Delete(h)
  BY <1>1, DequeueType DEF DoRemoveHandler, TypeOK
<1>3. alive' = alive \ {h} /\ alive \in SUBSET Handlers /\ links \in LQ!Links
  BY <1>2 DEF Delete, TypeOK
<1>4. Queued(lk, alive', Seat, rank)
  BY <1>1, <1>3, DequeueQueued
<1> HIDE DEF lk
<1>5. Queued(links', alive', Seat, rank)
  BY <1>2, <1>3, <1>4, FreeQueued
<1>6. \A x \in Handlers \ {h} : (x \in enabled' <=> x \in enabled) /\ status'[x] = status[x]
  BY <1>2 DEF Delete, TypeOK
<1>7. \A x \in Handlers \ {h} : Seat'[x] = Seat[x]
  BY <1>6, SeatMoves
<1>8. links' \in LQ!Links /\ \A x \in alive' : Seat'[x] = Seat[x]
  BY <1>2, <1>3, <1>7, FreeType
<1>9. Queued(links', alive', Seat', rank)
  BY <1>3, <1>5, <1>8, QueuedAgrees
<1> QED  BY <1>6, <1>7, <1>9

(* An enabled handler that is moved to the queue it now belongs in. *)
LEMMA MoveLinked ==
  ASSUME TypeOK, NEW rank \in Ranks, Queued(links, alive, Seat, rank),
         NEW h \in Handlers, h \in alive \intersect enabled, NEW q \in Queues,
         links' = Requeue(links, h, q), alive' = alive,
         \A x \in Handlers \ {h} : Seat'[x] = Seat[x], Seat'[h] = q
  PROVE  Linked'
<1>1. Seat[h] = QueueOf(h) /\ Seat \in [Handlers -> Queues]
  BY SeatIs
<1>2. links \in LQ!Links /\ alive \in SUBSET Handlers /\ links' \in LQ!Links
  BY RequeueType DEF TypeOK
<1> DEFINE lk == LQ!Dequeue(links, Seat[h], h)
<1>3. links' = LQ!Enqueue(lk, q, h) /\ lk \in LQ!Links
  BY <1>1, <1>2, DequeueType DEF Requeue
<1>4. Queued(lk, alive \ {h}, Seat, rank)
  BY <1>1, <1>2, DequeueQueued
<1>5. /\ alive \ {h} \in SUBSET Handlers /\ h \in Handlers \ (alive \ {h})
      /\ (alive \ {h}) \union {h} = alive
  BY <1>2
<1> HIDE DEF lk
<1>6. PICK rank2 \in Ranks :
        Queued(LQ!Enqueue(lk, q, h), (alive \ {h}) \union {h}, [Seat EXCEPT ![h] = q], rank2)
  BY <1>1, <1>3, <1>4, <1>5, EnqueueQueued
<1>7. \A x \in alive : Seat'[x] = [Seat EXCEPT ![h] = q][x]
  BY <1>1, <1>2
<1>8. Queued(links', alive, [Seat EXCEPT ![h] = q], rank2)
  BY <1>3, <1>5, <1>6
<1>9. Queued(links', alive, Seat', rank2)
  BY <1>2, <1>7, <1>8, QueuedAgrees
<1> QED  BY <1>9 DEF Linked

(* handle_event moves the handler whose status has changed. *)
LEMMA SettleLinked ==
  ASSUME TypeOK, Linked, NEW h \in Handlers, h \in alive \intersect enabled, NEW r, NEW u,
         Settle(h, r, u), UNCHANGED <<alive, enabled>>
  PROVE  /\ Linked'
         /\ \A x \in Handlers \ {h} : Seat'[x] = Seat[x] /\ status'[x] = status[x]
<1>1. PICK rank \in Ranks : Queued(links, alive, Seat, rank)
  BY DEF Linked
<1>2. CASE UNCHANGED <<links, status, immediate>>
  <2>1. Seat' = Seat
    BY <1>2, SeatStays
  <2> QED  BY <1>1, <1>2, <2>1 DEF Linked
<1>3. CASE ~UNCHANGED <<links, status, immediate>>
  <2>1. PICK q \in {"waiting", "triggered"} :
          /\ links' = Requeue(links, h, q)
          /\ status' = [status EXCEPT ![h] = IF q = "triggered" THEN "TRIGGERED" ELSE "WAITING"]
    BY <1>3 DEF Settle
  <2>2. /\ status'[h] = IF q = "triggered" THEN "TRIGGERED" ELSE "WAITING"
        /\ \A x \in Handlers \ {h} : status'[x] = status[x]
    BY <2>1 DEF TypeOK
  <2>3. (\A x \in Handlers \ {h} : Seat'[x] = Seat[x]) /\ Seat'[h] = q
    BY <2>2, SeatMoves
  <2>4. Linked'
    BY <1>1, <2>1, <2>3, MoveLinked, QueueNames
  <2> QED  BY <2>2, <2>3, <2>4
<1> QED  BY <1>2, <1>3

(* Steps that touch neither the queues nor the handlers. *)
LEMMA RestLinked ==
  ASSUME Linked, UNCHANGED <<links, alive, enabled, status>>
  PROVE  Linked' /\ Seat' = Seat
BY SeatStays DEF Linked

LEMMA LinkedLeads ==
  ASSUME TypeOK, Linked
  PROVE  /\ \A q \in Queues : links.head[q] # NULL =>
              links.head[q] \in alive /\ Seat[links.head[q]] = q
         /\ \A h \in alive : links.next[h] # NULL =>
              links.next[h] \in alive \ {h} /\ Seat[links.next[h]] = Seat[h]
<1>1. PICK rank \in Ranks : Queued(links, alive, Seat, rank)
  BY DEF Linked
<1>2. links \in LQ!Links /\ alive \in SUBSET Handlers /\ Seat \in [Handlers -> Queues]
  BY SeatIs DEF TypeOK
<1>3. \A h \in alive : links.next[h] # NULL => links.next[h] # h
  BY <1>1, <1>2 DEF Queued, Ordered, Ranks
<1> QED  BY <1>1, <1>2, <1>3 DEF Queued, Chained

-----------------------------------------------------------------------------
(* The client's calls. *)

(* A call about handler h leaves every pointer to another handler alone. *)
LEMMA PointersKept ==
  ASSUME SoundInv, TypeOK', NEW h, h # nextHi, pc \in {"app", "callback"},
         UNCHANGED <<pc, caller, nextHi, iter, replacing>>,
         \A x \in Handlers \ {h} : /\ Seat'[x] = Seat[x]
                                   /\ x \in alive' <=> x \in alive,
         registered' \union active' \subseteq enabled', enabled' \subseteq alive',
         \A x \in Handlers \ alive' : status'[x] = "WAITING",
         nowHandled' = NULL \/ (nowHandled' = nowHandled /\ nowHandled \in enabled')
  PROVE  PointersInv'
<1>1. nextHi \in Handlers \union {NULL} /\ nowHandled \in Handlers \union {NULL}
  BY DEF SoundInv, TypeOK
<1>2. iter.hi = NULL
  BY DEF SoundInv, PointersInv
<1>3. nextHi # NULL => /\ InImmediate' /\ nextHi \in alive'
                       /\ Where(nextHi)' = "triggered"
  <2>1. nextHi # NULL => InImmediate /\ nextHi \in alive /\ Where(nextHi) = "triggered"
    BY DEF SoundInv, PointersInv
  <2>2. nextHi # NULL => Where(nextHi)' = Where(nextHi)
    BY <1>1, SeatIs
  <2>3. InImmediate => InImmediate'
    BY DEF InImmediate
  <2> QED  BY <1>1, <2>1, <2>2, <2>3
<1>4. /\ caller = "none" => nowHandled' = NULL
      /\ nowHandled' # NULL => nowHandled' \in enabled' /\ nowHandled' # nextHi
  BY DEF SoundInv, PointersInv
<1>5. /\ pc \notin {"callback", "replace"} => caller = "none"
      /\ pc = "callback" => caller # "none"
  BY DEF SoundInv, PointersInv
<1> QED  BY <1>2, <1>3, <1>4, <1>5 DEF PointersInv

LEMMA AddSound ==
  ASSUME SoundInv, NEW h \in Handlers, NEW s, NEW m, pc \in {"app", "callback"},
         h \notin alive, alive' = alive \union {h}, enabled' = enabled \union {h},
         Activate(links, h, s, m), TypeOK',
         UNCHANGED <<active, nowHandled, pc, caller, nextHi, iter, replacing>>
  PROVE  SoundInv'
<1>1. PICK rank \in Ranks : Queued(links, alive, Seat, rank)
  BY DEF SoundInv, Linked
<1>2. links \in LQ!Links /\ alive \in SUBSET Handlers /\ TypeOK
  BY DEF SoundInv, TypeOK
<1>3. /\ \E rank2 \in Ranks :
           /\ \A x \in Handlers \ {h} : rank2[x] = rank[x]
           /\ Queued(links', alive \union {h}, Seat', rank2)
      /\ \A x \in Handlers \ {h} : Seat'[x] = Seat[x] /\ status'[x] = status[x]
      /\ registered' \subseteq registered \union {h}
  BY <1>1, <1>2, ActivateLinked
<1>4. Linked'
  BY <1>3 DEF Linked
<1>5. /\ registered' \union active' \subseteq enabled' /\ enabled' \subseteq alive'
      /\ \A x \in Handlers \ alive' : status'[x] = "WAITING"
      /\ nowHandled # NULL => nowHandled \in enabled'
      /\ h # nextHi
  BY <1>3, NullIsNoHandler DEF SoundInv, PointersInv
<1>6. PointersInv'
  BY <1>3, <1>5, PointersKept
<1> QED  BY <1>4, <1>6 DEF SoundInv

LEMMA AddTimeoutSound ==
  ASSUME SoundInv, NEW h \in Timers, AddTimeout(h), TypeOK'
  PROVE  SoundInv'
<1>1. PICK rank \in Ranks : Queued(links, alive, Seat, rank)
  BY DEF SoundInv, Linked, AddTimeout, ClientRuns
<1>2. /\ links \in LQ!Links /\ alive \in SUBSET Handlers /\ Seat \in [Handlers -> Queues]
      /\ "waiting" \in Queues /\ h \in Handlers \ alive
  BY SeatIs, QueueNames DEF SoundInv, TypeOK, AddTimeout, Handlers
<1>3. /\ links' = LQ!Enqueue(links, "waiting", h) /\ alive' = alive \union {h}
      /\ enabled' = enabled \union {h} /\ status' = status /\ pc' = pc
      /\ registered' = registered \union {h}
      /\ pc \in {"app", "callback"}
      /\ UNCHANGED <<active, nowHandled, caller, nextHi, iter, replacing>>
  BY DEF AddTimeout, ClientRuns, clientUnchanged
<1>4. status[h] = "WAITING"
  BY <1>2 DEF SoundInv, PointersInv
<1>5. (\A x \in Handlers \ {h} : Seat'[x] = Seat[x]) /\ Seat'[h] = "waiting"
  BY <1>2, <1>3, <1>4, SeatMoves
<1>6. PICK rank2 \in Ranks :
        Queued(LQ!Enqueue(links, "waiting", h), alive \union {h},
               [Seat EXCEPT ![h] = "waiting"], rank2)
  BY <1>1, <1>2, EnqueueQueued
<1>7. links' \in LQ!Links /\ \A x \in alive' : Seat'[x] = [Seat EXCEPT ![h] = "waiting"][x]
  BY <1>2, <1>3, <1>5 DEF TypeOK
<1>8. Queued(links', alive', Seat', rank2)
  <2>1. Queued(links', alive', [Seat EXCEPT ![h] = "waiting"], rank2)
    BY <1>3, <1>6
  <2>2. alive' \in SUBSET Handlers
    BY <1>2, <1>3
  <2> QED  BY <1>7, <2>1, <2>2, QueuedAgrees
<1>9. /\ registered' \union active' \subseteq enabled' /\ enabled' \subseteq alive'
      /\ \A x \in Handlers \ alive' : status'[x] = "WAITING"
      /\ nowHandled # NULL => nowHandled \in enabled'
      /\ h # nextHi
  BY <1>2, <1>3, NullIsNoHandler DEF SoundInv, PointersInv
<1>10. PointersInv'
  BY <1>2, <1>3, <1>5, <1>9, PointersKept
<1> QED  BY <1>8, <1>10 DEF SoundInv, Linked

LEMMA RemoveSound ==
  ASSUME ClientRules, SoundInv, NEW h \in Handlers, RemoveHandler(h), TypeOK'
  PROVE  SoundInv'
<1>1. PICK rank \in Ranks : Queued(links, alive, Seat, rank)
  BY DEF SoundInv, Linked, RemoveHandler, ClientRuns
<1>2. h \in alive \intersect enabled /\ h # nextHi /\ DoRemoveHandler(h)
  BY DEF ClientRules, RemoveHandler
<1>3. /\ Queued(links', alive', Seat', rank)
      /\ \A x \in Handlers \ {h} : Seat'[x] = Seat[x] /\ status'[x] = status[x]
  BY <1>1, <1>2, RemoveLinked DEF SoundInv
<1>4. Linked'
  BY <1>3 DEF Linked
<1>5. /\ pc \in {"app", "callback"} /\ UNCHANGED <<pc, caller, nextHi, iter, replacing>>
      /\ registered' = registered \ {h} /\ active' = active \ {h}
      /\ alive' = alive \ {h} /\ enabled' = enabled \ {h}
      /\ nowHandled' = IF nowHandled = h THEN NULL ELSE nowHandled
      /\ status' = [status EXCEPT ![h] = "WAITING"]
  BY <1>2 DEF RemoveHandler, ClientRuns, clientUnchanged, DoRemoveHandler, Deactivate, Delete
<1>6. /\ registered' \union active' \subseteq enabled' /\ enabled' \subseteq alive'
      /\ nowHandled # NULL /\ nowHandled # h => nowHandled \in enabled'
      /\ \A x \in Handlers \ alive : status[x] = "WAITING"
  BY <1>5 DEF SoundInv, PointersInv
<1>7. \A x \in Handlers \ alive' : status'[x] = "WAITING"
  BY <1>5, <1>6 DEF SoundInv, TypeOK
<1>8. PointersInv'
  BY <1>2, <1>3, <1>5, <1>6, <1>7, PointersKept
<1> QED  BY <1>4, <1>8 DEF SoundInv

LEMMA DisableSound ==
  ASSUME ClientRules, SoundInv, NEW h \in Handlers, DisableHandler(h), TypeOK'
  PROVE  SoundInv'
<1>1. PICK rank \in Ranks : Queued(links, alive, Seat, rank)
  BY DEF SoundInv, Linked, DisableHandler, ClientRuns
<1>2. /\ h \in alive \intersect enabled /\ h # nextHi
      /\ links' = Requeue(links, h, "disabled")
  BY DEF ClientRules, DisableHandler, SoundInv, PointersInv
<1>3. /\ pc \in {"app", "callback"} /\ UNCHANGED <<pc, caller, nextHi, iter, replacing>>
      /\ registered' = registered \ {h} /\ active' = active \ {h}
      /\ alive' = alive /\ enabled' = enabled \ {h} /\ status' = status
      /\ nowHandled' = IF nowHandled = h THEN NULL ELSE nowHandled
  BY DEF DisableHandler, ClientRuns, clientUnchanged, Deactivate
<1>4. (\A x \in Handlers \ {h} : Seat'[x] = Seat[x]) /\ Seat'[h] = "disabled"
  BY <1>3, SeatMoves
<1>5. Linked'
  BY <1>1, <1>2, <1>3, <1>4, MoveLinked, QueueNames DEF SoundInv
<1>6. /\ registered' \union active' \subseteq enabled' /\ enabled' \subseteq alive'
      /\ nowHandled # NULL /\ nowHandled # h => nowHandled \in enabled'
      /\ \A x \in Handlers \ alive' : status'[x] = "WAITING"
  BY <1>3 DEF SoundInv, PointersInv
<1>7. PointersInv'
  BY <1>2, <1>3, <1>4, <1>6, PointersKept
<1> QED  BY <1>5, <1>7 DEF SoundInv

LEMMA EnableSound ==
  ASSUME SoundInv, NEW h \in Handlers, EnableHandler(h), TypeOK'
  PROVE  SoundInv'
<1> DEFINE lk == LQ!Dequeue(links, "disabled", h)
<1>1. PICK rank \in Ranks : Queued(links, alive, Seat, rank)
  BY DEF SoundInv, Linked, EnableHandler, ClientRuns
<1>2. /\ links \in LQ!Links /\ alive \in SUBSET Handlers /\ Seat \in [Handlers -> Queues]
      /\ h \in alive \ enabled /\ Seat[h] = "disabled" /\ "disabled" \in Queues
  BY SeatIs, QueueNames DEF SoundInv, TypeOK, EnableHandler
<1>3. Queued(LQ!Dequeue(links, Seat[h], h), alive \ {h}, Seat, rank)
  BY <1>1, <1>2, DequeueQueued
<1>4. Queued(lk, alive \ {h}, Seat, rank) /\ lk \in LQ!Links
  BY <1>2, <1>3, DequeueType
<1>5. /\ Activate(lk, h, sock[h], expected[h]) /\ enabled' = enabled \union {h}
      /\ alive' = alive /\ active' = active /\ nowHandled' = nowHandled
      /\ pc \in {"app", "callback"} /\ UNCHANGED <<pc, caller, nextHi, iter, replacing>>
  BY DEF EnableHandler, ClientRuns, clientUnchanged
<1> HIDE DEF lk
<1>6. /\ alive \ {h} \in SUBSET Handlers /\ h \in Handlers \ (alive \ {h})
      /\ (alive \ {h}) \union {h} = alive
  BY <1>2
<1>7. /\ \E rank2 \in Ranks :
           /\ \A x \in Handlers \ {h} : rank2[x] = rank[x]
           /\ Queued(links', (alive \ {h}) \union {h}, Seat', rank2)
      /\ \A x \in Handlers \ {h} : Seat'[x] = Seat[x] /\ status'[x] = status[x]
      /\ registered' \subseteq registered \union {h}
  BY <1>4, <1>5, <1>6, ActivateLinked DEF SoundInv
<1>8. Linked'
  BY <1>5, <1>6, <1>7 DEF Linked
<1>9. h # nextHi
  <2>1. nextHi # NULL => nextHi \in Handlers /\ Where(nextHi) = "triggered"
    BY DEF SoundInv, PointersInv, TypeOK
  <2> QED  BY <1>2, <2>1, SeatIs, NullIsNoHandler
<1>10. /\ registered' \union active' \subseteq enabled' /\ enabled' \subseteq alive'
       /\ nowHandled # NULL => nowHandled \in enabled'
       /\ \A x \in Handlers \ alive' : status'[x] = "WAITING"
  BY <1>2, <1>5, <1>7 DEF SoundInv, PointersInv
<1>11. PointersInv'
  BY <1>5, <1>7, <1>9, <1>10, PointersKept
<1> QED  BY <1>8, <1>11 DEF SoundInv

LEMMA ForceCheckSound ==
  ASSUME ClientRules, SoundInv, NEW h \in Handlers, ForceCheckEvents(h), TypeOK'
  PROVE  SoundInv'
<1>1. PICK rank \in Ranks : Queued(links, alive, Seat, rank)
  BY DEF SoundInv, Linked, ForceCheckEvents, ClientRuns
<1>2. /\ h \in alive \intersect enabled /\ status[h] = "WAITING"
      /\ pc \in {"app", "callback"}
      /\ UNCHANGED <<registered, active, alive, enabled, nowHandled, pc, caller, nextHi,
                     iter, replacing>>
  BY DEF ClientRules, ForceCheckEvents, ClientRuns, clientUnchanged
<1>3. \/ /\ status' = [status EXCEPT ![h] = "TRIGGERED"]
         /\ links' = Requeue(links, h, "triggered")
      \/ UNCHANGED <<status, links>>
  BY DEF ForceCheckEvents
<1>4. Linked' /\ \A x \in Handlers \ {h} : Seat'[x] = Seat[x] /\ status'[x] = status[x]
  <2>1. CASE UNCHANGED <<status, links>>
    <3>1. Seat' = Seat
      BY <1>2, <2>1, SeatStays
    <3> QED  BY <1>1, <1>2, <2>1, <3>1 DEF Linked
  <2>2. CASE /\ status' = [status EXCEPT ![h] = "TRIGGERED"]
             /\ links' = Requeue(links, h, "triggered")
    <3>1. status'[h] = "TRIGGERED" /\ \A x \in Handlers \ {h} : status'[x] = status[x]
      BY <2>2 DEF SoundInv, TypeOK
    <3>2. (\A x \in Handlers \ {h} : Seat'[x] = Seat[x]) /\ Seat'[h] = "triggered"
      BY <1>2, <3>1, SeatMoves
    <3>3. Linked'
      BY <1>1, <1>2, <2>2, <3>2, MoveLinked, QueueNames DEF SoundInv
    <3> QED  BY <3>1, <3>2, <3>3
  <2> QED  BY <1>3, <2>1, <2>2
<1>5. h # nextHi
  <2>1. nextHi # NULL => Where(nextHi) = "triggered"
    BY DEF SoundInv, PointersInv
  <2> QED  BY <1>2, <2>1, NullIsNoHandler DEF Where, QueueOf
<1>6. /\ registered' \union active' \subseteq enabled' /\ enabled' \subseteq alive'
      /\ nowHandled # NULL => nowHandled \in enabled'
      /\ \A x \in Handlers \ alive' : status'[x] = "WAITING"
  BY <1>2, <1>4 DEF SoundInv, PointersInv
<1>7. PointersInv'
  BY <1>2, <1>4, <1>5, <1>6, PointersKept
<1> QED  BY <1>4, <1>7 DEF SoundInv

LEMMA ReplaceSocketSound ==
  ASSUME ClientRules, SoundInv, NEW old, NEW new, ReplaceSocket(old, new), TypeOK'
  PROVE  SoundInv'
<1>1. /\ pc \in {"app", "callback"} /\ pc' = "replace" /\ iter' = IterBegin
      /\ replacing' = [old |-> old, new |-> new]
      /\ nextHi # NULL => sock[nextHi] # old
      /\ UNCHANGED <<registered, active, links, alive, enabled, status, sock,
                     nowHandled, caller, nextHi>>
  BY DEF ReplaceSocket, ClientRuns, ClientRules, baseVars, handlerVars
<1>2. Linked /\ Linked' /\ Seat' = Seat
  BY <1>1, RestLinked DEF SoundInv
<1>3. iter'.hi # NULL => iter'.hi \in alive' /\ Seat'[iter'.hi] = iter'.queue
  BY <1>1, <1>2, LinkedLeads, QueueNames DEF IterBegin, SoundInv
<1>4. alive \subseteq Handlers /\ nextHi \in Handlers \union {NULL}
  BY DEF SoundInv, TypeOK
<1>5. iter'.hi # NULL => iter'.hi \in alive' /\ Where(iter.hi)' = iter'.queue
  <2>1. iter'.hi # NULL => iter'.hi \in Handlers
    BY <1>1, <1>3, <1>4
  <2> QED  BY <1>1, <1>3, <2>1 DEF Seat, Where, QueueOf
<1>6. nextHi' # NULL => /\ InImmediate' /\ nextHi' \in alive' /\ Where(nextHi)' = "triggered"
                        /\ sock'[nextHi'] # replacing'.old
  BY <1>1 DEF SoundInv, PointersInv, InImmediate, Where, QueueOf
<1>7. PointersInv'
  BY <1>1, <1>5, <1>6 DEF SoundInv, PointersInv
<1> QED  BY <1>2, <1>7 DEF SoundInv

LEMMA DestroySound ==
  ASSUME SoundInv, Destroy, TypeOK'
  PROVE  SoundInv'
<1>1. /\ pc = "app" /\ pc' = "destroy" /\ iter' = IterBegin
      /\ UNCHANGED <<registered, active, links, alive, enabled, status, sock,
                     nowHandled, caller, nextHi, replacing>>
  BY DEF Destroy, baseVars, handlerVars
<1>2. Linked /\ Linked' /\ Seat' = Seat
  BY <1>1, RestLinked DEF SoundInv
<1>3. iter'.hi # NULL => iter'.hi \in alive' /\ Seat'[iter'.hi] = iter'.queue
  BY <1>1, <1>2, LinkedLeads, QueueNames DEF IterBegin, SoundInv
<1>4. alive \subseteq Handlers
  BY DEF SoundInv, TypeOK
<1>5. iter'.hi # NULL => iter'.hi \in alive' /\ Where(iter.hi)' = iter'.queue
  <2>1. iter'.hi # NULL => iter'.hi \in Handlers
    BY <1>1, <1>3, <1>4
  <2> QED  BY <1>1, <1>3, <2>1 DEF Seat, Where, QueueOf
<1>6. nextHi' = NULL
  BY <1>1 DEF SoundInv, PointersInv, InImmediate
<1>7. PointersInv'
  BY <1>1, <1>5, <1>6 DEF SoundInv, PointersInv
<1> QED  BY <1>2, <1>7 DEF SoundInv

(* Steps that change no handler, and no pointer to one. *)
LEMMA RestSound ==
  ASSUME SoundInv, TypeOK',
         UNCHANGED <<links, alive, enabled, status, sock, nowHandled, caller, nextHi,
                     iter, replacing>>,
         registered' \subseteq registered, active' \subseteq active \union registered,
         pc' = pc \/ {pc, pc'} \subseteq {"app", "loop", "process"}
  PROVE  SoundInv'
<1>1. pc \notin {"freeing", "dead"} => Linked'
  BY RestLinked DEF SoundInv
<1>2. /\ \A x : Where(x)' = Where(x)
      /\ nextHi # NULL => (InImmediate => InImmediate')
  BY DEF Where, QueueOf, SoundInv, PointersInv, InImmediate
<1>3. nextHi # NULL => /\ InImmediate' /\ nextHi \in alive /\ Where(nextHi) = "triggered"
                       /\ pc' = "replace" => sock[nextHi] # replacing.old
  BY <1>2 DEF SoundInv, PointersInv
<1>4. iter.hi # NULL => pc' \in {"replace", "destroy"} /\ iter.hi \in alive
                        /\ Where(iter.hi) = iter.queue
  BY DEF SoundInv, PointersInv
<1>5. /\ registered' \union active' \subseteq enabled
      /\ pc' \notin {"callback", "replace"} => caller = "none"
      /\ pc' = "callback" => caller # "none"
      /\ pc' \in {"freeing", "dead"} => registered' = {} /\ active' = {}
  BY DEF SoundInv, PointersInv
<1>6. /\ enabled \subseteq alive /\ \A h \in Handlers \ alive : status[h] = "WAITING"
      /\ caller = "none" => nowHandled = NULL
      /\ nowHandled # NULL => nowHandled \in enabled /\ nowHandled # nextHi
  BY DEF SoundInv, PointersInv
<1>7. PointersInv'
  BY <1>2, <1>3, <1>4, <1>5, <1>6 DEF PointersInv
<1> QED  BY <1>1, <1>7 DEF SoundInv

LEMMA ClientSound == ASSUME ClientRules, SoundInv, Client PROVE SoundInv'
<1>1. TypeOK'
  BY ClientType DEF SoundInv
<1>2. ASSUME NEW h \in ZmqHandlers, NEW s \in Sockets, NEW m \in Masks,
             AddZmqHandler(h, s, m)
      PROVE  SoundInv'
  <2>1. h \in Handlers
    BY DEF Handlers
  <2> QED
    BY <1>1, <1>2, <2>1, AddSound DEF AddZmqHandler, ClientRuns, clientUnchanged
<1>3. ASSUME NEW h \in FdHandlers, AddFdHandler(h)
      PROVE  SoundInv'
  <2>1. h \in Handlers
    BY DEF Handlers
  <2> QED
    BY <1>1, <1>3, <2>1, AddSound DEF AddFdHandler, ClientRuns, clientUnchanged
<1>4. ASSUME NEW s \in Sockets, Use(s)
      PROVE  SoundInv'
  BY <1>1, <1>4, RestSound DEF Use, Operate, handlerVars
<1>5. ASSUME NEW timeout \in Durations, RunNested(timeout)
      PROVE  SoundInv'
  BY <1>1, <1>5, RestSound DEF RunNested, loopUnchanged, handlerVars
<1> QED
  BY <1>1, <1>2, <1>3, <1>4, <1>5, AddTimeoutSound, RemoveSound, DisableSound,
     EnableSound, ForceCheckSound, ReplaceSocketSound, DestroySound
  DEF Client

-----------------------------------------------------------------------------
(* The iterator of replace_socket and ~LibEvent. *)

(* It steps to another handler before this one is moved or deleted. *)
LEMMA IterAdvances ==
  ASSUME SoundInv, Linked, iter.hi # NULL
  PROVE  /\ iter.hi \in Handlers /\ iter.hi \in alive \intersect enabled
         /\ IterNext(iter).hi # NULL =>
              /\ IterNext(iter).hi \in alive \ {iter.hi}
              /\ Seat[IterNext(iter).hi] = IterNext(iter).queue
<1> DEFINE h == iter.hi
<1>1. h \in Handlers /\ h \in alive /\ Seat[h] = iter.queue
  BY SeatIs DEF SoundInv, TypeOK, PointersInv
<1>2. iter.queue \in {"waiting", "triggered"} /\ h \in enabled
  <2>1. iter.queue \in {"waiting", "triggered", "none"} /\ Seat[h] \in Queues
    BY <1>1, SeatIs DEF SoundInv, TypeOK
  <2> QED  BY <1>1, <2>1, SeatIs DEF Queues
<1>3. /\ links.next[h] # NULL =>
           links.next[h] \in alive \ {h} /\ Seat[links.next[h]] = Seat[h]
      /\ links.head["triggered"] # NULL =>
           links.head["triggered"] \in alive /\ Seat[links.head["triggered"]] = "triggered"
  BY <1>1, LinkedLeads, QueueNames DEF SoundInv
<1>4. CASE links.next[h] # NULL
  <2>1. IterNext(iter).hi = links.next[h] /\ IterNext(iter).queue = iter.queue
    BY <1>4 DEF IterNext, SoundInv, TypeOK
  <2> QED  BY <1>1, <1>2, <1>3, <1>4, <2>1
<1>5. CASE links.next[h] = NULL /\ iter.queue = "waiting"
  BY <1>1, <1>2, <1>3, <1>5 DEF IterNext
<1>6. CASE links.next[h] = NULL /\ iter.queue # "waiting"
  BY <1>1, <1>2, <1>6 DEF IterNext, NoIter
<1> QED  BY <1>4, <1>5, <1>6

(* One round of replace_socket, for a handler of the old socket, moves it. *)
LEMMA ReplaceMoves ==
  ASSUME SoundInv, ReplaceStep, sock[iter.hi] = replacing.old,
         NEW rank \in Ranks, Queued(links, alive, Seat, rank)
  PROVE  /\ \E rank2 \in Ranks :
              /\ \A x \in Handlers \ {iter.hi} : rank2[x] = rank[x]
              /\ Queued(links', alive', Seat', rank2)
         /\ \A x \in Handlers \ {iter.hi} : Seat'[x] = Seat[x] /\ status'[x] = status[x]
         /\ \A x \in Handlers \ {iter.hi} : sock'[x] = sock[x]
         /\ sock'[iter.hi] = replacing.new
         /\ registered' \subseteq registered \union {iter.hi}
         /\ active' \subseteq active
<1>1. Linked /\ iter.hi # NULL /\ UNCHANGED <<alive, enabled>>
  BY DEF Linked, ReplaceStep
<1>2. PICK h \in Handlers : h = iter.hi /\ h \in alive \intersect enabled
  BY <1>1, IterAdvances
<1> DEFINE lk == LQ!Dequeue(links, Seat[h], h)
<1>3. /\ links \in LQ!Links /\ alive \in SUBSET Handlers /\ Seat \in [Handlers -> Queues]
      /\ Seat[h] = QueueOf(h)
  BY <1>2, SeatIs DEF SoundInv, TypeOK
<1>4. Queued(lk, alive \ {h}, Seat, rank) /\ lk \in LQ!Links
  BY <1>2, <1>3, DequeueQueued, DequeueType
<1>5. /\ active' = active \ {h}
      /\ sock' = [sock EXCEPT ![h] = replacing.new]
      /\ Activate(lk, h, replacing.new, expected[h])
  BY <1>2, <1>3 DEF ReplaceStep
<1> HIDE DEF lk
<1>6. /\ alive \ {h} \in SUBSET Handlers /\ h \in Handlers \ (alive \ {h})
      /\ (alive \ {h}) \union {h} = alive /\ enabled' = enabled \union {h}
  BY <1>1, <1>2, <1>3
<1>7. /\ \E rank2 \in Ranks :
           /\ \A x \in Handlers \ {h} : rank2[x] = rank[x]
           /\ Queued(links', (alive \ {h}) \union {h}, Seat', rank2)
      /\ \A x \in Handlers \ {h} : Seat'[x] = Seat[x] /\ status'[x] = status[x]
      /\ registered' \subseteq registered \union {h}
  BY <1>4, <1>5, <1>6, ActivateLinked DEF SoundInv
<1>8. (\A x \in Handlers \ {h} : sock'[x] = sock[x]) /\ sock'[h] = replacing.new
  BY <1>5 DEF SoundInv, TypeOK
<1> QED  BY <1>1, <1>2, <1>5, <1>6, <1>7, <1>8

LEMMA ReplaceStepSound ==
  ASSUME SoundInv, ReplaceStep, TypeOK'
  PROVE  SoundInv'
<1>1. /\ pc = "replace" /\ iter.hi # NULL /\ iter' = IterNext(iter) /\ Linked
      /\ UNCHANGED <<alive, enabled, nowHandled, pc, caller, nextHi, replacing>>
  BY DEF ReplaceStep, SoundInv
<1>2. PICK h \in Handlers : h = iter.hi /\ h \in alive \intersect enabled
  BY <1>1, IterAdvances
<1>3. /\ Linked'
      /\ \A x \in Handlers \ {h} : Seat'[x] = Seat[x]
      /\ \A x \in Handlers \ alive : status'[x] = status[x]
      /\ nextHi # NULL => Seat'[nextHi] = Seat[nextHi] /\ sock'[nextHi] = sock[nextHi]
      /\ registered' \subseteq registered \union {h} /\ active' \subseteq active
  <2>0. nextHi # NULL => nextHi \in Handlers /\ sock[nextHi] # replacing.old
    BY <1>1 DEF SoundInv, TypeOK, PointersInv
  <2>1. CASE sock[h] = replacing.old
    <3>1. PICK rank \in Ranks : Queued(links, alive, Seat, rank)
      BY <1>1 DEF Linked
    <3>2. /\ \E rank2 \in Ranks : Queued(links', alive', Seat', rank2)
          /\ \A x \in Handlers \ {h} : Seat'[x] = Seat[x] /\ status'[x] = status[x]
          /\ \A x \in Handlers \ {h} : sock'[x] = sock[x]
          /\ registered' \subseteq registered \union {h} /\ active' \subseteq active
      BY <1>2, <2>1, <3>1, ReplaceMoves
    <3> QED  BY <1>2, <2>0, <2>1, <3>2 DEF Linked
  <2>2. CASE sock[h] # replacing.old
    <3>1. UNCHANGED <<links, status, sock, registered, active>>
      BY <1>2, <2>2 DEF ReplaceStep, baseVars
    <3>2. Linked' /\ Seat' = Seat
      BY <1>1, <3>1, RestLinked
    <3> QED  BY <3>1, <3>2
  <2> QED  BY <2>1, <2>2
<1>4. iter'.hi # NULL => /\ iter'.hi \in alive /\ Where(iter.hi)' = iter'.queue
  <2>1. iter'.hi # NULL => /\ iter'.hi \in alive \ {h}
                           /\ Seat[iter'.hi] = iter'.queue
    BY <1>1, <1>2, IterAdvances
  <2>2. iter'.hi # NULL => iter'.hi \in Handlers /\ Seat'[iter'.hi] = iter'.queue
    BY <1>3, <2>1 DEF SoundInv, TypeOK
  <2> QED  BY <2>1, <2>2 DEF Seat, Where, QueueOf
<1>5. nextHi # NULL => /\ InImmediate' /\ nextHi \in alive /\ Where(nextHi)' = "triggered"
                       /\ sock'[nextHi] # replacing.old
  <2>1. nextHi # NULL => /\ nextHi \in Handlers /\ InImmediate /\ nextHi \in alive
                         /\ Where(nextHi) = "triggered" /\ sock[nextHi] # replacing.old
    BY <1>1 DEF SoundInv, TypeOK, PointersInv
  <2>2. nextHi # NULL => Where(nextHi)' = Where(nextHi)
    BY <1>1, <1>3, <2>1, SeatIs
  <2> QED  BY <1>1, <1>3, <2>1, <2>2 DEF InImmediate
<1>6. /\ registered' \union active' \subseteq enabled' /\ enabled' \subseteq alive'
      /\ \A x \in Handlers \ alive' : status'[x] = "WAITING"
      /\ caller = "none" => nowHandled = NULL
      /\ nowHandled # NULL => nowHandled \in enabled /\ nowHandled # nextHi
  BY <1>1, <1>2, <1>3 DEF SoundInv, PointersInv
<1>7. PointersInv'
  BY <1>1, <1>4, <1>5, <1>6 DEF PointersInv
<1> QED  BY <1>3, <1>7 DEF SoundInv

LEMMA ReplaceEndSound ==
  ASSUME SoundInv, ReplaceEnd, TypeOK'
  PROVE  SoundInv'
<1>1. /\ pc = "replace" /\ pc' = IF caller = "none" THEN "app" ELSE "callback"
      /\ iter'.hi = NULL
      /\ UNCHANGED <<registered, active, links, alive, enabled, status, sock,
                     nowHandled, caller, nextHi>>
  BY DEF ReplaceEnd, baseVars, handlerVars, NoIter
<1>2. Linked'
  BY <1>1, RestLinked DEF SoundInv
<1>3. nextHi # NULL => InImmediate' /\ nextHi \in alive /\ Where(nextHi)' = "triggered"
  BY <1>1 DEF SoundInv, PointersInv, InImmediate, Where, QueueOf
<1>4. PointersInv'
  BY <1>1, <1>3 DEF SoundInv, PointersInv
<1> QED  BY <1>2, <1>4 DEF SoundInv

LEMMA DestroyStepSound ==
  ASSUME SoundInv, DestroyStep, TypeOK'
  PROVE  SoundInv'
<1>1. /\ pc = "destroy" /\ iter.hi # NULL /\ iter' = IterNext(iter) /\ Linked
      /\ DoRemoveHandler(iter.hi)
      /\ UNCHANGED <<pc, caller, nextHi, replacing>>
  BY DEF DestroyStep, SoundInv
<1>2. PICK h \in Handlers : h = iter.hi /\ h \in alive \intersect enabled
  BY <1>1, IterAdvances
<1>3. PICK rank \in Ranks : Queued(links, alive, Seat, rank)
  BY <1>1 DEF Linked
<1>4. /\ Queued(links', alive', Seat', rank)
      /\ \A x \in Handlers \ {h} : Seat'[x] = Seat[x] /\ status'[x] = status[x]
  BY <1>1, <1>2, <1>3, RemoveLinked DEF SoundInv
<1>5. Linked'
  BY <1>4 DEF Linked
<1>6. /\ registered' = registered \ {h} /\ active' = active \ {h}
      /\ alive' = alive \ {h} /\ enabled' = enabled \ {h}
      /\ status' = [status EXCEPT ![h] = "WAITING"]
      /\ nowHandled' = IF nowHandled = h THEN NULL ELSE nowHandled
  BY <1>1, <1>2 DEF DoRemoveHandler, Deactivate, Delete
<1>7. iter'.hi # NULL => iter'.hi \in alive' /\ Where(iter.hi)' = iter'.queue
  <2>1. iter'.hi # NULL => /\ iter'.hi \in alive \ {h}
                           /\ Seat[iter'.hi] = iter'.queue
    BY <1>1, <1>2, IterAdvances
  <2>2. iter'.hi # NULL => iter'.hi \in Handlers /\ Seat'[iter'.hi] = iter'.queue
    BY <1>4, <2>1 DEF SoundInv, TypeOK
  <2> QED  BY <1>6, <2>1, <2>2 DEF Seat, Where, QueueOf
<1>8. caller = "none" /\ nowHandled = NULL /\ nextHi = NULL
  BY <1>1 DEF SoundInv, PointersInv, InImmediate
<1>9. /\ registered' \union active' \subseteq enabled' /\ enabled' \subseteq alive'
      /\ \A x \in Handlers \ alive : status[x] = "WAITING"
  BY <1>6 DEF SoundInv, PointersInv
<1>10. \A x \in Handlers \ alive' : status'[x] = "WAITING"
  BY <1>6, <1>9 DEF SoundInv, TypeOK
<1>11. PointersInv'
  BY <1>1, <1>6, <1>7, <1>8, <1>9, <1>10 DEF PointersInv
<1> QED  BY <1>5, <1>11 DEF SoundInv

(* From here on the queues are only walked, and no pointer is kept. *)
LEMMA FreeingSound ==
  ASSUME SoundInv, DestroyBase \/ FreeHead \/ Freed, TypeOK'
  PROVE  SoundInv'
<1>1. /\ pc' \in {"freeing", "dead"} /\ pc \in {"destroy", "freeing"}
      /\ registered' = {} /\ active' = {} /\ iter'.hi = NULL
      /\ UNCHANGED <<nowHandled, caller, nextHi>>
  BY DEF SoundInv, PointersInv, DestroyBase, FreeHead, Freed, baseVars, NoIter, handlerVars
<1>2. caller = "none" /\ nowHandled = NULL /\ nextHi = NULL
  BY <1>1 DEF SoundInv, PointersInv, InImmediate
<1>3. enabled' \subseteq alive' /\ \A x \in Handlers \ alive' : status'[x] = "WAITING"
  <2>1. enabled \subseteq alive /\ \A x \in Handlers \ alive : status[x] = "WAITING"
    BY DEF SoundInv, PointersInv
  <2>2. CASE DestroyBase \/ Freed
    BY <2>1, <2>2 DEF DestroyBase, Freed, handlerVars
  <2>3. CASE FreeHead
    BY <2>1, <2>3 DEF FreeHead, Delete, SoundInv, TypeOK
  <2> QED  BY <2>2, <2>3
<1>4. PointersInv'
  BY <1>1, <1>2, <1>3 DEF PointersInv
<1> QED  BY <1>1, <1>4 DEF SoundInv

-----------------------------------------------------------------------------
(* The loop and the callbacks. *)

LEMMA LoopSound ==
  ASSUME SoundInv, TypeOK',
         \/ Running \/ LoopEnd \/ LoopEmpty \/ DispatchError \/ Dispatch
         \/ ProcessExit \/ ProcessDone
  PROVE  SoundInv'
<1>1. /\ {pc, pc'} \subseteq {"app", "loop", "process"}
      /\ UNCHANGED <<links, alive, enabled, status, sock, nowHandled, caller, nextHi,
                     iter, replacing>>
  <2>1. CASE Running \/ Dispatch \/ ProcessExit
    BY <2>1
    DEF Running, Run, Dispatch, ProcessExit, Processing, loopUnchanged, handlerVars
  <2>2. CASE LoopEnd \/ LoopEmpty \/ DispatchError \/ ProcessDone
    BY <2>2
    DEF LoopEnd, LoopEmpty, DispatchError, ProcessDone, loopUnchanged, handlerVars
  <2> QED  BY <2>1, <2>2
<1>2. registered' = registered /\ active' \subseteq active \union registered
  <2>1. CASE Dispatch
    BY <2>1 DEF Dispatch, Wait
  <2>2. CASE ~Dispatch
    BY <2>2
    DEF Running, Run, LoopEnd, LoopEmpty, DispatchError, ProcessDone, ProcessExit,
        ExitCallback, baseVars
  <2> QED  BY <2>1, <2>2
<1> QED  BY <1>1, <1>2, RestSound

LEMMA EventCallbackSound ==
  ASSUME SoundInv, NEW h \in Handlers, EventCallback(h), TypeOK'
  PROVE  SoundInv'
<1>1. /\ pc = "process" /\ pc' = "callback" /\ caller' = "event" /\ nowHandled' = h
      /\ h \in active /\ active' \subseteq active /\ registered' \subseteq registered
      /\ UNCHANGED <<links, status, nextHi, alive, enabled, sock, iter, replacing>>
  BY DEF EventCallback, Processing, CallFunction, callUnchanged, Fire
<1>2. Linked'
  BY <1>1, RestLinked DEF SoundInv
<1>3. nextHi = NULL /\ iter.hi = NULL /\ h # NULL
  BY <1>1, NullIsNoHandler DEF SoundInv, PointersInv, InImmediate
<1>4. PointersInv'
  BY <1>1, <1>3 DEF SoundInv, PointersInv
<1> QED  BY <1>2, <1>4 DEF SoundInv

LEMMA EventIgnoredSound ==
  ASSUME SoundInv, NEW h \in Handlers, EventIgnored(h), TypeOK'
  PROVE  SoundInv'
<1>1. /\ pc = "process" /\ h \in active
      /\ active' \subseteq active /\ registered' \subseteq registered
      /\ \E r : Settle(h, r, TRUE)
      /\ UNCHANGED <<pc, caller, nowHandled, nextHi, alive, enabled, iter, replacing>>
  BY DEF EventIgnored, Processing, callUnchanged, Fire
<1>2. h \in alive \intersect enabled /\ Linked
  BY <1>1 DEF SoundInv, PointersInv
<1>3. Linked' /\ \A x \in Handlers \ {h} : Seat'[x] = Seat[x] /\ status'[x] = status[x]
  BY <1>1, <1>2, SettleLinked DEF SoundInv
<1>4. nextHi = NULL /\ iter.hi = NULL
  BY <1>1 DEF SoundInv, PointersInv, InImmediate
<1>5. \A x \in Handlers \ alive' : status'[x] = "WAITING"
  BY <1>1, <1>2, <1>3 DEF SoundInv, PointersInv
<1>6. PointersInv'
  BY <1>1, <1>4, <1>5 DEF SoundInv, PointersInv
<1> QED  BY <1>3, <1>6 DEF SoundInv

LEMMA ImmediateSound ==
  ASSUME SoundInv, ImmediateCallback \/ ImmediateStep \/ ImmediateEnd, TypeOK'
  PROVE  SoundInv'
<1>1. /\ UNCHANGED <<registered, active, links, status, alive, enabled, sock, iter,
                     replacing>>
      /\ pc \in {"process", "immediate"} /\ pc' \in {"process", "immediate", "callback"}
  BY DEF ImmediateCallback, ImmediateStep, ImmediateEnd, Processing, CallFunction,
         callUnchanged
<1>2. Linked /\ Linked' /\ Seat' = Seat
  BY <1>1, RestLinked DEF SoundInv
<1>3. iter.hi = NULL /\ caller = "none" /\ nowHandled = NULL
  BY <1>1 DEF SoundInv, PointersInv
<1>4. /\ links.head["triggered"] # NULL =>
           links.head["triggered"] \in alive /\ Seat[links.head["triggered"]] = "triggered"
      /\ \A h \in alive : links.next[h] # NULL =>
           links.next[h] \in alive \ {h} /\ Seat[links.next[h]] = Seat[h]
      /\ alive \subseteq Handlers
  BY <1>2, LinkedLeads, QueueNames DEF SoundInv, TypeOK
<1>5. CASE ImmediateCallback
  <2>1. /\ pc' = "immediate" /\ nextHi' = links.head["triggered"]
        /\ UNCHANGED <<caller, nowHandled>>
    BY <1>5 DEF ImmediateCallback
  <2>2. nextHi' # NULL => nextHi' \in alive /\ Where(nextHi)' = "triggered"
    BY <1>2, <1>4, <2>1 DEF Seat, Where, QueueOf
  <2>3. PointersInv'
    BY <1>1, <1>3, <2>1, <2>2 DEF SoundInv, PointersInv, InImmediate
  <2> QED  BY <1>2, <2>3 DEF SoundInv
<1>6. CASE ImmediateStep
  <2>1. /\ pc' = "callback" /\ caller' = "immediate" /\ nowHandled' = nextHi
        /\ nextHi # NULL /\ nextHi' = links.next[nextHi]
    BY <1>6 DEF ImmediateStep, CallFunction, NextTriggered
  <2>2. nextHi \in alive /\ nextHi \in Handlers /\ Where(nextHi) = "triggered"
    BY <2>1 DEF SoundInv, PointersInv, TypeOK
  <2>3. Seat[nextHi] = "triggered" /\ nextHi \in enabled
    BY <2>2, SeatIs DEF Where
  <2>4. nextHi' # NULL => nextHi' \in alive \ {nextHi} /\ Seat'[nextHi'] = "triggered"
    BY <1>2, <1>4, <2>1, <2>2, <2>3
  <2>5. nextHi' # NULL => /\ nextHi' \in alive /\ nextHi' # nextHi
                          /\ Where(nextHi)' = "triggered"
    BY <1>4, <2>4 DEF Seat, Where, QueueOf
  <2>6. PointersInv'
    BY <1>1, <1>3, <2>1, <2>3, <2>5 DEF SoundInv, PointersInv, InImmediate
  <2> QED  BY <1>2, <2>6 DEF SoundInv
<1>7. CASE ImmediateEnd
  <2>1. nextHi' = NULL /\ pc' = "process" /\ UNCHANGED <<caller, nowHandled>>
    BY <1>7 DEF ImmediateEnd
  <2>2. PointersInv'
    BY <1>1, <1>3, <2>1 DEF SoundInv, PointersInv
  <2> QED  BY <1>2, <2>2 DEF SoundInv
<1> QED  BY <1>5, <1>6, <1>7

LEMMA CallbackReturnsSound ==
  ASSUME SoundInv, NEW goOn \in BOOLEAN, CallbackReturns(goOn), TypeOK'
  PROVE  SoundInv'
<1>1. /\ pc = "callback" /\ nowHandled' = NULL /\ caller' = "none"
      /\ pc' = IF caller = "event" THEN "process" ELSE "immediate"
      /\ UNCHANGED <<registered, active, nextHi, alive, enabled, sock, iter, replacing>>
  BY DEF CallbackReturns
<1>2. /\ Linked'
      /\ \A x \in Handlers \ {nowHandled} : Seat'[x] = Seat[x] /\ status'[x] = status[x]
      /\ \A x \in Handlers \ alive : status'[x] = "WAITING"
  <2>0. Linked /\ \A x \in Handlers \ alive : status[x] = "WAITING"
    BY <1>1 DEF SoundInv, PointersInv
  <2>1. CASE UNCHANGED <<links, status>>
    <3>1. Linked' /\ Seat' = Seat
      BY <1>1, <2>0, <2>1, RestLinked
    <3> QED  BY <2>0, <2>1, <3>1
  <2>2. CASE nowHandled # NULL /\ \E r : Settle(nowHandled, r, caller = "event")
    <3>1. nowHandled \in Handlers /\ nowHandled \in alive \intersect enabled
      BY <2>2 DEF SoundInv, TypeOK, PointersInv
    <3>2. PICK r : Settle(nowHandled, r, caller = "event")
      BY <2>2
    <3>3. /\ Linked'
          /\ \A x \in Handlers \ {nowHandled} : Seat'[x] = Seat[x] /\ status'[x] = status[x]
      BY <1>1, <2>0, <3>1, <3>2, SettleLinked DEF SoundInv
    <3> QED  BY <2>0, <3>1, <3>3
  <2> QED  BY <2>1, <2>2 DEF CallbackReturns
<1>3. nextHi # NULL => /\ caller = "immediate" /\ nextHi \in alive
                       /\ Where(nextHi)' = "triggered"
  <2>1. nextHi # NULL => /\ InImmediate /\ nextHi \in alive /\ nextHi \in Handlers
                         /\ Where(nextHi) = "triggered" /\ nextHi # nowHandled
    BY NullIsNoHandler DEF SoundInv, TypeOK, PointersInv
  <2>2. nextHi # NULL => Where(nextHi)' = Where(nextHi)
    BY <1>1, <1>2, <2>1, SeatIs
  <2> QED  BY <1>1, <2>1, <2>2 DEF InImmediate
<1>4. PointersInv'
  BY <1>1, <1>2, <1>3 DEF SoundInv, PointersInv, InImmediate
<1> QED  BY <1>2, <1>4 DEF SoundInv

-----------------------------------------------------------------------------
LEMMA SoundInit == Init => SoundInv
<1> SUFFICES ASSUME Init PROVE SoundInv
  OBVIOUS
<1>1. TypeOK
  BY InitType
<1>2. PointersInv
  BY DEF Init, BaseInit, PointersInv, NoIter
<1>3. Linked
  <2> DEFINE rank == [h \in Handlers |-> 0]
  <2>1. rank \in Ranks
    BY DEF Ranks
  <2>2. alive = {} /\ \A q \in Queues : links.head[q] = NULL
    BY DEF Init, LQ!NoLinks
  <2> HIDE DEF rank
  <2>3. Queued(links, alive, Seat, rank)
    BY <2>2 DEF Queued, Chained, Ordered
  <2> QED  BY <2>1, <2>3 DEF Linked
<1> QED  BY <1>1, <1>2, <1>3 DEF SoundInv

LEMMA SoundNext == ASSUME ClientRules, SoundInv, [Next]_vars PROVE SoundInv'
<1>1. TypeOK'
  BY NextType DEF SoundInv
<1>2. CASE Reactor
  <2>1. ASSUME NEW h \in Handlers, EventCallback(h) \/ EventIgnored(h) PROVE SoundInv'
    BY <1>1, <2>1, EventCallbackSound, EventIgnoredSound
  <2>2. ASSUME NEW goOn \in BOOLEAN, CallbackReturns(goOn) PROVE SoundInv'
    BY <1>1, <2>2, CallbackReturnsSound
  <2> QED
    BY <1>1, <1>2, <2>1, <2>2, ReplaceStepSound, ReplaceEndSound, DestroyStepSound,
       FreeingSound, LoopSound, ImmediateSound
    DEF Reactor
<1>3. ASSUME NEW s \in Sockets, SignalSocket(s) PROVE SoundInv'
  BY <1>1, <1>3, RestSound DEF SignalSocket, Signal, handlerVars
<1>4. CASE UNCHANGED vars
  BY <1>1, <1>4, RestSound DEF vars, baseVars, handlerVars
<1> QED
  BY <1>1, <1>2, <1>3, <1>4, ClientSound, LoopSound DEF Next

LEMMA SoundAlways == ASSUME ClientRules PROVE Spec => []SoundInv
BY SoundInit, SoundNext, PTL DEF Spec

LEMMA SoundConsistent == SoundInv => Consistent
<1> SUFFICES ASSUME SoundInv PROVE Consistent
  OBVIOUS
<1>1. NoDangling
  BY DEF SoundInv, PointersInv, NoDangling
<1>2. WellLinked
  <2> SUFFICES ASSUME pc \notin {"freeing", "dead"}
               PROVE  WellLinked
    BY DEF WellLinked
  <2>1. PICK rank \in Ranks : Queued(links, alive, Seat, rank)
    BY DEF SoundInv, Linked
  <2>2. alive \subseteq Handlers /\ \A h \in alive : Seat[h] = Where(h)
    BY SeatIs DEF SoundInv, TypeOK
  <2>3. \A q \in Queues : LET h == links.head[q] IN
          h # NULL => h \in alive /\ Where(h) = q /\ links.prev[h] = NULL
    BY <2>1, <2>2 DEF Queued, Chained
  <2>4. \A h \in alive : LET n == links.next[h] IN
          n # NULL => n \in alive /\ Where(n) = Where(h) /\ links.prev[n] = h
    BY <2>1, <2>2 DEF Queued, Chained
  <2>5. \A h \in alive : LET p == links.prev[h] IN
          IF p = NULL THEN links.head[Where(h)] = h
                      ELSE p \in alive /\ Where(p) = Where(h) /\ links.next[p] = h
    BY <2>1, <2>2 DEF Queued, Chained
  <2> QED  BY <2>3, <2>4, <2>5 DEF WellLinked
<1> QED  BY <1>1, <1>2 DEF SoundInv, Consistent

(***************************************************************************)
(* If clients enable a handler before they remove or check it, and leave   *)
(* alone the handler that immediate_callback calls next, the queues stay   *)
(* doubly linked lists of the handlers that belong in them, and none of    *)
(* now_handled_, next_hi, the iterators and the events given to libevent   *)
(* outlives its handler.                                                   *)
(***************************************************************************)
THEOREM QueuesSound ==
  ASSUME {"RemoveEnabled", "CheckEnabled", "SpareNext"} \subseteq Contract
  PROVE  Spec => []Consistent
<1>1. ClientRules
  BY DEF ClientRules
<1> QED  BY <1>1, SoundAlways, SoundConsistent, PTL

-----------------------------------------------------------------------------
(* What a walk from the head needs: prev_ does not matter to it. *)

Led(m, A, W, rank) ==
  /\ \A q \in Queues : m.head[q] # NULL => m.head[q] \in A /\ W[m.head[q]] = q
  /\ \A h \in A : m.next[h] # NULL => m.next[h] \in A /\ W[m.next[h]] = W[h]
  /\ Ordered(m, A, W, rank)

(* The handlers of A that W puts in queue q *)
Seated(A, W, q) == {h \in A : W[h] = q}

(* The pointers a walk meets *)

LEMMA SameCardinality == \A T : LQ!Cardinality(T) = Cardinality(T)
BY DEF LQ!Cardinality, Cardinality

LEMMA MetFollows ==
  ASSUME IsFiniteSet(Handlers), NEW m \in LQ!Links, NEW q \in Queues
  PROVE  /\ Cardinality(Handlers) \in Nat
         /\ LQ!Met(m, q) \in [0 .. Cardinality(Handlers) -> LQ!Pointers]
         /\ Follows(LQ!Met(m, q), LQ!Onward(m), m.head[q], Cardinality(Handlers))
<1>1. Cardinality(Handlers) \in Nat
  BY FS_CardinalityType
<1>2. LQ!Onward(m) \in [LQ!Pointers -> LQ!Pointers] /\ m.head[q] \in LQ!Pointers
  BY DEF LQ!Onward, LQ!Links, LQ!Pointers
<1> DEFINE n == Cardinality(Handlers)
           Is(f) == f = [k \in 0 .. n |-> IF k = 0 THEN m.head[q] ELSE LQ!Onward(m)[f[k - 1]]]
<1>3. LQ!Met(m, q) = CHOOSE f : Is(f)
  BY SameCardinality DEF LQ!Met
<1>4. \E f : Is(f)
  <2>1. PICK f \in [0 .. n -> LQ!Pointers] : Follows(f, LQ!Onward(m), m.head[q], n)
    BY <1>1, <1>2, FollowsExists
  <2>2. Is(f)
    BY <2>1 DEF Follows
  <2> HIDE DEF Is
  <2> QED  BY <2>2
<1> HIDE DEF Is
<1>5. Is(LQ!Met(m, q))
  BY <1>3, <1>4
<1>6. /\ LQ!Met(m, q) \in [0 .. n -> LQ!Pointers]
      /\ Follows(LQ!Met(m, q), LQ!Onward(m), m.head[q], n)
  BY <1>1, <1>2, <1>5, RecursionFollows DEF Is
<1> QED  BY <1>1, <1>6

(* The k-th pointer of a walk over M that climbs in rank and passes nobody *)
Climbing(at, M, rank, n) ==
  /\ at \in [0 .. n -> M \union {NULL}]
  /\ \A k \in 1 .. n : at[k] # NULL => at[k - 1] # NULL /\ rank[at[k - 1]] < rank[at[k]]
  /\ \A h \in M : at[0] # NULL /\ rank[at[0]] <= rank[h]
  /\ \A k \in 1 .. n : \A h \in M :
       at[k - 1] # NULL /\ rank[at[k - 1]] < rank[h] => at[k] # NULL /\ rank[at[k]] <= rank[h]

LEMMA WalkClimbs ==
  ASSUME IsFiniteSet(Handlers), NEW m \in LQ!Links, NEW A \in SUBSET Handlers,
         NEW W \in [Handlers -> Queues], NEW rank \in Ranks, Led(m, A, W, rank),
         NEW q \in Queues
  PROVE  Climbing(LQ!Met(m, q), Seated(A, W, q), rank, Cardinality(Handlers))
<1> DEFINE n == Cardinality(Handlers)
           at == LQ!Met(m, q)
           M == {h \in A : W[h] = q}
           S == {k \in 0 .. n : at[k] \in M \union {NULL}}
<1>1. /\ n \in Nat /\ at[0] = m.head[q]
      /\ \A k \in 1 .. n : at[k] = LQ!Onward(m)[at[k - 1]]
  BY MetFollows DEF Follows
<1> HIDE DEF n, at
<1>2. /\ \A h \in M : LQ!Onward(m)[h] = m.next[h] /\ h # NULL
      /\ LQ!Onward(m)[NULL] = NULL
  BY NullIsNoHandler DEF LQ!Onward, LQ!Pointers
<1>3. \A h \in M : m.next[h] # NULL => m.next[h] \in M
  BY DEF Led
<1>4. \A k \in 0 .. n : at[k] \in M \union {NULL}
  <2>1. 0 \in S
    BY <1>1 DEF Led
  <2>2. ASSUME NEW k \in 1 .. n, k - 1 \in S PROVE k \in S
    <3>1. at[k - 1] \in M \union {NULL} /\ k \in 0 .. n
      BY <1>1, <2>2
    <3>2. at[k] = LQ!Onward(m)[at[k - 1]]
      BY <1>1
    <3>3. LQ!Onward(m)[at[k - 1]] \in M \union {NULL}
      BY <1>2, <1>3, <3>1
    <3> QED  BY <3>1, <3>2, <3>3
  <2> HIDE DEF S
  <2>3. 0 .. n \subseteq S
    BY <1>1, <2>1, <2>2, Climb
  <2> QED  BY <2>3 DEF S
<1>5. at \in [0 .. n -> M \union {NULL}]
  <2>1. at = [k \in 0 .. n |-> at[k]]
    BY MetFollows DEF at, n
  <2> QED  BY <1>4, <2>1
<1>6. ASSUME NEW k \in 1 .. n, at[k] # NULL
      PROVE  at[k - 1] # NULL /\ rank[at[k - 1]] < rank[at[k]]
  <2>1. k - 1 \in 0 .. n
    BY <1>1
  <2>2. at[k - 1] # NULL
    BY <1>1, <1>2, <1>6
  <2>3. at[k - 1] \in M /\ at[k] = m.next[at[k - 1]]
    BY <1>1, <1>2, <1>4, <2>1, <2>2
  <2> QED  BY <1>6, <2>2, <2>3 DEF Led, Ordered
<1>7. \A h \in M : at[0] # NULL /\ rank[at[0]] <= rank[h]
  BY <1>1 DEF Led, Ordered
<1>8. ASSUME NEW k \in 1 .. n, NEW h \in M, at[k - 1] # NULL, rank[at[k - 1]] < rank[h]
      PROVE  at[k] # NULL /\ rank[at[k]] <= rank[h]
  <2>1. at[k - 1] \in M /\ at[k] = m.next[at[k - 1]]
    BY <1>1, <1>2, <1>4, <1>8
  <2> QED  BY <1>8, <2>1 DEF Led, Ordered
<1>9. Climbing(at, M, rank, n)
  BY <1>5, <1>6, <1>7, <1>8 DEF Climbing
<1> QED  BY <1>9 DEF at, n, Seated

(* It meets all of M, each once, before it ends. *)
MeetsAll(at, M, n) ==
  \E c \in 0 .. n :
    /\ \A k \in 0 .. n : at[k] # NULL <=> k < c
    /\ \A k \in 0 .. c - 1 : at[k] \in M
    /\ \A j, k \in 0 .. c - 1 : at[j] = at[k] => j = k
    /\ \A h \in M : \E k \in 0 .. c - 1 : at[k] = h

LEMMA ClimbMeetsAll ==
  ASSUME IsFiniteSet(Handlers), NEW M \in SUBSET Handlers, NEW rank \in Ranks,
         \A g, h \in M : rank[g] = rank[h] => g = h,
         NEW at, Climbing(at, M, rank, Cardinality(Handlers))
  PROVE  MeetsAll(at, M, Cardinality(Handlers))
<1> DEFINE n == Cardinality(Handlers)
<1>1. /\ n \in Nat /\ NULL \notin M
      /\ \A h \in M : rank[h] \in Int
  BY FS_CardinalityType, NullIsNoHandler DEF Ranks
<1>2. /\ at \in [0 .. n -> M \union {NULL}]
      /\ \A k \in 1 .. n : at[k] # NULL => at[k - 1] # NULL /\ rank[at[k - 1]] < rank[at[k]]
      /\ \A h \in M : at[0] # NULL /\ rank[at[0]] <= rank[h]
      /\ \A k \in 1 .. n : \A h \in M :
           at[k - 1] # NULL /\ rank[at[k - 1]] < rank[h] =>
             at[k] # NULL /\ rank[at[k]] <= rank[h]
  BY DEF Climbing
<1> HIDE DEF n
<1>3. ASSUME NEW k \in 0 .. n, at[k] # NULL, NEW j \in 0 .. n, j < k
      PROVE  at[j] # NULL /\ rank[at[j]] < rank[at[k]]
  <2> DEFINE S == {i \in 0 .. n : at[i] # NULL =>
                     \A l \in 0 .. n : l < i => at[l] # NULL /\ rank[at[l]] < rank[at[i]]}
  <2>1. 0 \in S
    BY <1>1
  <2>2. ASSUME NEW i \in 1 .. n, i - 1 \in S PROVE i \in S
    <3> SUFFICES ASSUME at[i] # NULL, NEW l \in 0 .. n, l < i
                 PROVE  at[l] # NULL /\ rank[at[l]] < rank[at[i]]
      OBVIOUS
    <3>1. at[i - 1] # NULL /\ rank[at[i - 1]] < rank[at[i]] /\ i - 1 \in 0 .. n
      BY <1>1, <1>2
    <3>2. CASE l = i - 1
      BY <3>1, <3>2
    <3>3. CASE l < i - 1
      <4>1. at[l] # NULL /\ rank[at[l]] < rank[at[i - 1]]
        BY <2>2, <3>1, <3>3
      <4>2. {at[l], at[i - 1], at[i]} \subseteq M
        BY <1>2, <3>1, <4>1
      <4> QED  BY <1>1, <3>1, <4>1, <4>2
    <3> QED  BY <3>2, <3>3
  <2> HIDE DEF S
  <2>3. 0 .. n \subseteq S
    BY <1>1, <2>1, <2>2, Climb
  <2> QED  BY <1>3, <2>3 DEF S
<1>4. at[n] = NULL
  <2> SUFFICES ASSUME at[n] # NULL PROVE FALSE
    OBVIOUS
  <2>1. \A k \in 0 .. n : at[k] # NULL
    BY <1>1, <1>3
  <2>2. at \in [0 .. n -> Handlers]
    BY <1>2, <2>1
  <2>3. ASSUME NEW j \in 0 .. n, NEW k \in 0 .. n, at[j] = at[k] PROVE j = k
    <3>1. at[j] \in M /\ rank[at[j]] \in Int
      BY <1>1, <1>2, <2>1
    <3>2. ~ (j < k) /\ ~ (k < j)
      BY <1>3, <2>1, <2>3, <3>1
    <3> QED  BY <1>1, <3>2
  <2>4. at \in Injection(0 .. n, Handlers)
    BY <2>2, <2>3 DEF Injection, IsInjective
  <2>5. Cardinality(0 .. n) = n + 1
    BY <1>1, FS_Interval
  <2>6. n + 1 <= n
    BY <2>4, <2>5, FS_Injection DEF n
  <2> QED  BY <1>1, <2>6
<1>5. PICK c \in 0 .. n : at[c] = NULL /\ \A k \in 0 .. n : at[k] = NULL => c <= k
  <2> DEFINE E == {k \in 0 .. n : at[k] = NULL}
  <2>1. E \in SUBSET Nat /\ n \in E
    BY <1>1, <1>4
  <2> HIDE DEF E
  <2>2. PICK c \in E : \A k \in E : c <= k
    BY <2>1, Least
  <2> QED  BY <2>2 DEF E
<1>6. \A k \in 0 .. n : at[k] # NULL <=> k < c
  BY <1>1, <1>3, <1>5
<1>7. \A k \in 0 .. c - 1 : at[k] \in M
  BY <1>1, <1>2, <1>6
<1>8. ASSUME NEW j \in 0 .. c - 1, NEW k \in 0 .. c - 1, at[j] = at[k] PROVE j = k
  <2>1. /\ j \in 0 .. n /\ k \in 0 .. n /\ at[j] # NULL /\ at[k] # NULL
        /\ rank[at[j]] \in Int
    BY <1>1, <1>6, <1>7
  <2>2. ~ (j < k) /\ ~ (k < j)
    BY <1>3, <1>8, <2>1
  <2> QED  BY <2>1, <2>2
<1>9. ASSUME NEW h \in M PROVE \E k \in 0 .. c - 1 : at[k] = h
  <2> SUFFICES ASSUME \A k \in 0 .. c - 1 : at[k] # h PROVE FALSE
    OBVIOUS
  <2> DEFINE S == {k \in 0 .. c : at[k] # NULL /\ rank[at[k]] <= rank[h]}
  <2>1. 0 \in S
    BY <1>1, <1>2
  <2>2. ASSUME NEW k \in 1 .. c, k - 1 \in S PROVE k \in S
    <3>1. k - 1 \in 0 .. c - 1 /\ k \in 1 .. n
      BY <1>1
    <3>2. at[k - 1] # h /\ at[k - 1] \in M
      BY <1>7, <3>1
    <3>3. rank[at[k - 1]] < rank[h]
      BY <1>1, <2>2, <3>2
    <3> QED  BY <1>2, <2>2, <3>1, <3>3
  <2> HIDE DEF S
  <2>3. c \in S
    BY <1>1, <2>1, <2>2, Climb
  <2> QED  BY <1>5, <2>3 DEF S
<1>10. MeetsAll(at, M, n)
  BY <1>5, <1>6, <1>7, <1>8, <1>9 DEF MeetsAll
<1> QED  BY <1>10 DEF n

LEMMA WalkMeets ==
  ASSUME IsFiniteSet(Handlers), NEW m \in LQ!Links, NEW A \in SUBSET Handlers,
         NEW W \in [Handlers -> Queues], NEW rank \in Ranks, Led(m, A, W, rank),
         NEW q \in Queues
  PROVE  LET walk == LQ!Walk(m, q)
             M == Seated(A, W, q)
         IN  {walk[i] : i \in 1 .. Len(walk)} = M /\ Len(walk) = Cardinality(M)
<1> DEFINE n == Cardinality(Handlers)
           at == LQ!Met(m, q)
           places == {i \in 1 .. n + 1 : at[i - 1] # NULL}
           M == Seated(A, W, q)
<1>1. n \in Nat
  BY FS_CardinalityType
<1>2. PICK c \in 0 .. n :
        /\ \A k \in 0 .. n : at[k] # NULL <=> k < c
        /\ \A k \in 0 .. c - 1 : at[k] \in M
        /\ \A j, k \in 0 .. c - 1 : at[j] = at[k] => j = k
        /\ \A h \in M : \E k \in 0 .. c - 1 : at[k] = h
  <2>1. Climbing(at, M, rank, n)
    BY WalkClimbs
  <2>2. M \in SUBSET Handlers /\ \A g, h \in M : rank[g] = rank[h] => g = h
    BY DEF Led, Ordered, Seated
  <2> HIDE DEF at, M
  <2>3. MeetsAll(at, M, n)
    BY <2>1, <2>2, ClimbMeetsAll
  <2> QED  BY <2>3 DEF MeetsAll
<1> HIDE DEF n, at, M
<1>3. places = 1 .. c
  BY <1>1, <1>2
<1>4. Cardinality(1 .. c) = c /\ IsFiniteSet(1 .. c)
  BY <1>1, FS_Interval
<1> HIDE DEF places
<1>5. LQ!Walk(m, q) = [i \in 1 .. Cardinality(places) |-> at[i - 1]]
  BY SameCardinality DEF LQ!Walk, places, at, n
<1> DEFINE walk == [i \in 1 .. c |-> at[i - 1]]
<1>6. LQ!Walk(m, q) = walk
  BY <1>3, <1>4, <1>5
<1>7. /\ walk \in [1 .. c -> M]
      /\ \A i, j \in 1 .. c : walk[i] = walk[j] => i = j
      /\ \A h \in M : \E i \in 1 .. c : walk[i] = h
  <2>1. \A i \in 1 .. c : i - 1 \in 0 .. c - 1 /\ walk[i] = at[i - 1]
    BY <1>1
  <2>2. \A i, j \in 1 .. c : walk[i] = walk[j] => i = j
    BY <1>1, <1>2, <2>1
  <2>3. ASSUME NEW h \in M PROVE \E i \in 1 .. c : walk[i] = h
    <3>1. PICK k \in 0 .. c - 1 : at[k] = h
      BY <1>2
    <3>2. k + 1 \in 1 .. c /\ walk[k + 1] = h
      BY <1>1, <3>1
    <3> QED  BY <3>2
  <2> QED  BY <1>2, <2>1, <2>2, <2>3
<1>8. Len(walk) = c
  BY <1>1
<1> HIDE DEF walk
<1>9. Cardinality(M) = c
  <2>1. walk \in Bijection(1 .. c, M)
    BY <1>7 DEF Bijection, Injection, IsInjective, Surjection
  <2>2. ExistsBijection(1 .. c, M)
    BY <2>1 DEF ExistsBijection
  <2> QED  BY <1>4, <2>2, FS_Bijection
<1>10. {walk[i] : i \in 1 .. c} = M
  BY <1>7
<1> QED  BY <1>6, <1>8, <1>9, <1>10 DEF M

-----------------------------------------------------------------------------
(* The queues' own destructors follow next_ and repair no link: what they  *)
(* leave can still be walked.                                              *)

Walkable == \E rank \in Ranks : Led(links, alive, Seat, rank)

LEMMA LinkedWalkable == Linked => Walkable
BY DEF Linked, Walkable, Queued, Chained, Led

LEMMA FreeHeadWalkable ==
  ASSUME TypeOK, Walkable, FreeHead
  PROVE  Walkable'
<1>1. PICK rank \in Ranks : Led(links, alive, Seat, rank)
  BY DEF Walkable
<1>2. PICK q \in Queues : q = FreeingQueue /\ links.head[q] # NULL
  <2>1. \E q \in Queues :
          /\ links.head[q] # NULL
          /\ q \in {"waiting", "triggered"} => links.head["disabled"] = NULL
          /\ q = "waiting" => links.head["triggered"] = NULL
    BY DEF FreeHead, Queues
  <2> QED  BY <2>1 DEF FreeingQueue
<1> DEFINE h == links.head[q]
<1>3. h \in alive /\ Seat[h] = q /\ h \in Handlers
  BY <1>1, <1>2 DEF Led, TypeOK
<1>4. /\ links'.head[q] = links.next[h]
      /\ \A p \in Queues \ {q} : links'.head[p] = links.head[p]
      /\ \A x \in Handlers \ {h} : links'.next[x] = links.next[x]
      /\ alive' = alive \ {h} /\ alive \subseteq Handlers
  BY <1>2, <1>3 DEF FreeHead, Delete, Free, LQ!DeleteHead, TypeOK, LQ!Links
<1>5. \A x \in Handlers \ {h} : Seat'[x] = Seat[x]
  <2>1. \A x \in Handlers \ {h} : (x \in enabled' <=> x \in enabled) /\ status'[x] = status[x]
    BY <1>2 DEF FreeHead, Delete, TypeOK
  <2> QED  BY <1>3, <2>1, SeatMoves
<1>6. /\ \A x \in alive : rank[x] \in Int /\ Seat[x] \in Queues
      /\ \A x \in alive \ {h} : Seat[x] = q =>
           links.next[h] # NULL /\ rank[h] < rank[x] /\ rank[links.next[h]] <= rank[x]
      /\ \A x \in alive : links.next[x] # h
      /\ \A p \in Queues \ {q} : links.head[p] # h
  <2>1. \A x \in alive : rank[x] \in Int /\ Seat[x] \in Queues
    BY <1>4, SeatIs DEF Ranks
  <2>2. \A x \in alive : Seat[x] = q => rank[h] <= rank[x]
    BY <1>1 DEF Led, Ordered
  <2>3. \A x \in alive \ {h} : Seat[x] = q => rank[h] < rank[x]
    BY <1>1, <1>3, <2>1, <2>2 DEF Led, Ordered
  <2>4. \A x \in alive \ {h} : Seat[x] = q =>
          links.next[h] # NULL /\ rank[links.next[h]] <= rank[x]
    BY <1>1, <1>3, <2>3 DEF Led, Ordered
  <2>5. ASSUME NEW x \in alive, links.next[x] = h PROVE FALSE
    <3>1. Seat[x] = q /\ rank[x] < rank[h]
      BY <1>1, <1>2, <1>3, <2>5 DEF Led, Ordered
    <3> QED  BY <1>3, <2>1, <2>2, <3>1
  <2>6. \A p \in Queues \ {q} : links.head[p] # h
    BY <1>1, <1>2, <1>3 DEF Led
  <2> QED  BY <2>1, <2>3, <2>4, <2>5, <2>6
<1> HIDE DEF h
<1>7. ASSUME NEW p \in Queues, links'.head[p] # NULL
      PROVE  links'.head[p] \in alive' /\ Seat'[links'.head[p]] = p
  BY <1>1, <1>3, <1>4, <1>5, <1>6, <1>7 DEF Led
<1>8. ASSUME NEW x \in alive', links'.next[x] # NULL
      PROVE  links'.next[x] \in alive' /\ Seat'[links'.next[x]] = Seat'[x]
  BY <1>1, <1>4, <1>5, <1>6, <1>8 DEF Led
<1>9. Ordered(links', alive', Seat', rank)
  <2>1. \A x \in alive' : links'.head[Seat'[x]] # NULL /\ rank[links'.head[Seat'[x]]] <= rank[x]
    BY <1>1, <1>4, <1>5, <1>6 DEF Led, Ordered
  <2>2. \A x \in alive' : /\ x \in alive /\ links'.next[x] = links.next[x]
                          /\ Seat'[x] = Seat[x]
    BY <1>4, <1>5
  <2> QED  BY <1>1, <2>1, <2>2 DEF Led, Ordered
<1>10. Led(links', alive', Seat', rank)
  BY <1>7, <1>8, <1>9 DEF Led
<1> QED  BY <1>10 DEF Walkable

LEMMA FreeingSteps ==
  ASSUME Next, pc' \in {"freeing", "dead"}, ~FreeHead
  PROVE  UNCHANGED <<links, alive, enabled, status>>
<1>1. CASE Client
  BY <1>1 DEF Client, ClientRuns, AddZmqHandler, AddFdHandler, AddTimeout, RemoveHandler,
     DisableHandler, EnableHandler, ForceCheckEvents, Use, ReplaceSocket, RunNested, Destroy,
     clientUnchanged
<1>2. CASE Running \/ Dispatch \/ DispatchError \/ \E s \in Sockets : SignalSocket(s)
  BY <1>2 DEF Running, Run, Dispatch, DispatchError, SignalSocket
<1>3. CASE Reactor
  BY <1>3 DEF Reactor, ReplaceStep, ReplaceEnd, DestroyStep, DestroyBase, Freed, LoopEnd,
     LoopEmpty, ProcessExit, ProcessDone, Processing, EventCallback, EventIgnored,
     CallFunction, ImmediateCallback, ImmediateStep, ImmediateEnd, CallbackReturns,
     handlerVars
<1> QED  BY <1>1, <1>2, <1>3 DEF Next

LEMMA WalkableNext ==
  ASSUME SoundInv, SoundInv', Walkable, [Next]_vars
  PROVE  Walkable'
<1>1. CASE pc' \notin {"freeing", "dead"}
  <2>1. Linked'
    BY <1>1 DEF SoundInv
  <2> QED  BY <2>1 DEF Linked, Walkable, Queued, Chained, Led
<1>2. CASE FreeHead
  BY <1>2, FreeHeadWalkable DEF SoundInv
<1>3. CASE pc' \in {"freeing", "dead"} /\ ~FreeHead
  <2>1. UNCHANGED <<links, alive, enabled, status>>
    BY <1>3, FreeingSteps DEF vars, handlerVars
  <2> QED  BY <2>1, SeatStays DEF Walkable
<1> QED  BY <1>1, <1>2, <1>3

LEMMA WalkableHolds ==
  ASSUME IsFiniteSet(Handlers), TypeOK, Walkable
  PROVE  QueuesHold
<1>1. PICK rank \in Ranks : Led(links, alive, Seat, rank)
  BY DEF Walkable
<1>2. /\ links \in LQ!Links /\ alive \in SUBSET Handlers /\ Seat \in [Handlers -> Queues]
      /\ \A h \in alive : Seat[h] = Where(h)
  BY SeatIs DEF TypeOK
<1>3. ASSUME NEW q \in Queues
      PROVE  LET walk == LQ!Walk(links, q) IN
             /\ {walk[i] : i \in 1 .. Len(walk)} = {h \in alive : Where(h) = q}
             /\ Len(walk) = Cardinality({h \in alive : Where(h) = q})
  <2>1. Seated(alive, Seat, q) = {h \in alive : Where(h) = q}
    BY <1>2 DEF Seated
  <2>2. LET walk == LQ!Walk(links, q)
            M == Seated(alive, Seat, q)
        IN  {walk[i] : i \in 1 .. Len(walk)} = M /\ Len(walk) = Cardinality(M)
    BY <1>1, <1>2, WalkMeets
  <2> QED  BY <2>1, <2>2
<1> QED  BY <1>3 DEF QueuesHold

(***************************************************************************)
(* Under the same rules walking a queue from its head meets the handlers   *)
(* that belong in it, each once, and ends, between any two steps of the    *)
(* reactor, those of its destructors included.                             *)
(***************************************************************************)
THEOREM QueuesWalked ==
  ASSUME {"RemoveEnabled", "CheckEnabled", "SpareNext"} \subseteq Contract,
         IsFiniteSet(Handlers)
  PROVE  Spec => []QueuesHold
<1>1. ClientRules
  BY DEF ClientRules
<1>2. Init => Walkable
  <2>1. Init => Linked
    BY SoundInit DEF SoundInv, Init
  <2> QED  BY <2>1, LinkedWalkable
<1>3. SoundInv /\ Walkable /\ [Next]_vars => SoundInv' /\ Walkable'
  BY <1>1, SoundNext, WalkableNext
<1>4. SoundInv /\ Walkable => QueuesHold
  BY WalkableHolds DEF SoundInv
<1> QED  BY <1>2, <1>3, <1>4, SoundInit, PTL DEF Spec

-----------------------------------------------------------------------------
(***************************************************************************)
(* Under the same rules a function is called only while its handler exists *)
(* and is enabled, from event_callback and from immediate_callback.        *)
(***************************************************************************)
THEOREM SilentWhileDisabled ==
  ASSUME {"RemoveEnabled", "CheckEnabled", "SpareNext"} \subseteq Contract
  PROVE  Spec => DisabledSilent
<1> DEFINE Silent == pc # "callback" /\ pc' = "callback" /\ pc # "replace" => cur' \in enabled
<1>1. ClientRules
  BY DEF ClientRules
<1>2. ASSUME SoundInv, Next
      PROVE  Silent
  <2> SUFFICES ASSUME pc # "callback", pc' = "callback", pc # "replace"
               PROVE  cur' \in enabled
    OBVIOUS
  <2>1. (\E h \in Handlers : EventCallback(h)) \/ ImmediateStep
    <3>1. ~Client
      BY DEF Client, AddZmqHandler, AddFdHandler, AddTimeout, RemoveHandler,
             DisableHandler, EnableHandler, ForceCheckEvents, Use, ReplaceSocket,
             RunNested, Destroy, clientUnchanged
    <3>2. ~Running /\ ~Dispatch /\ ~DispatchError /\ ~\E s \in Sockets : SignalSocket(s)
      BY DEF Running, Run, Dispatch, DispatchError, SignalSocket
    <3>3. Reactor
      BY <1>2, <3>1, <3>2 DEF Next
    <3> QED
      BY <3>3
      DEF Reactor, ReplaceStep, ReplaceEnd, DestroyStep, DestroyBase, FreeHead, Freed,
          LoopEnd, LoopEmpty, ProcessExit, ProcessDone, EventIgnored, ImmediateCallback,
          ImmediateEnd, CallbackReturns
  <2>2. ASSUME NEW h \in Handlers, EventCallback(h)
        PROVE  cur' \in enabled
    BY <1>2, <2>2 DEF EventCallback, CallFunction, SoundInv, PointersInv
  <2>3. ASSUME ImmediateStep
        PROVE  cur' \in enabled
    <3>1. cur' = nextHi /\ nextHi # NULL
      BY <2>3 DEF ImmediateStep, CallFunction
    <3>2. Where(nextHi) = "triggered"
      BY <1>2, <3>1 DEF SoundInv, PointersInv
    <3> QED  BY <3>1, <3>2 DEF Where
  <2> QED  BY <2>1, <2>2, <2>3
<1>3. SoundInv /\ [Next]_vars => [Silent]_vars
  BY <1>2
<1>4. Spec => [][Silent]_vars
  BY <1>1, <1>3, SoundAlways, PTL DEF Spec
<1> QED  BY <1>4 DEF DisabledSilent

-----------------------------------------------------------------------------
(* replace_socket reaches every handler of the old socket. *)

(* Those it has not reached yet are at its iterator or after it.  A round  *)
(* moves the handler it is about to the head of a queue: before the        *)
(* iterator, or into the triggered queue the iterator has still to walk.   *)
Ahead(rank) ==
  \A h \in alive : sock[h] = replacing.old =>
    /\ iter.hi # NULL
    /\ \/ Seat[h] = iter.queue /\ rank[iter.hi] <= rank[h]
       \/ Seat[h] = "triggered" /\ iter.queue = "waiting"

AheadInv ==
  pc = "replace" /\ replacing.old # replacing.new =>
    \E rank \in Ranks : Queued(links, alive, Seat, rank) /\ Ahead(rank)

LEMMA ReplaceSocketAhead ==
  ASSUME "ReplaceWhole" \in Contract, SoundInv, NEW old, NEW new, ReplaceSocket(old, new)
  PROVE  AheadInv'
<1>1. /\ pc \in {"app", "callback"} /\ iter' = IterBegin
      /\ replacing'.old = old /\ replacing'.new = new
      /\ \A h \in IterMisses : sock[h] # old
      /\ UNCHANGED <<links, alive, enabled, status, sock>>
  BY DEF ReplaceSocket, ClientRuns, handlerVars
<1>2. PICK rank \in Ranks : Queued(links, alive, Seat, rank)
  BY <1>1 DEF SoundInv, Linked
<1>3. Seat' = Seat
  BY <1>1, SeatStays
<1>4. ASSUME NEW h \in alive, sock[h] = old
      PROVE  /\ iter'.hi # NULL
             /\ \/ Seat[h] = iter'.queue /\ rank[iter'.hi] <= rank[h]
                \/ Seat[h] = "triggered" /\ iter'.queue = "waiting"
  <2>1. h \in enabled /\ links.head["waiting"] # NULL
    BY <1>1, <1>4 DEF IterMisses
  <2>2. h \in Handlers /\ Seat[h] \in {"waiting", "triggered"}
    BY <2>1, SeatIs, QueueOfType DEF SoundInv, TypeOK
  <2>3. rank[links.head[Seat[h]]] <= rank[h]
    BY <1>2 DEF Queued, Ordered
  <2> QED  BY <1>1, <2>1, <2>2, <2>3 DEF IterBegin
<1>5. Ahead(rank)'
  BY <1>1, <1>3, <1>4 DEF Ahead
<1>6. Queued(links', alive', Seat', rank)
  BY <1>1, <1>2, <1>3
<1> QED  BY <1>1, <1>5, <1>6 DEF AheadInv

LEMMA ReplaceStepAhead ==
  ASSUME SoundInv, AheadInv, ReplaceStep
  PROVE  AheadInv'
<1> SUFFICES ASSUME replacing.old # replacing.new
             PROVE  AheadInv'
  BY DEF ReplaceStep, AheadInv
<1>1. /\ pc = "replace" /\ iter.hi # NULL /\ iter' = IterNext(iter) /\ Linked
      /\ UNCHANGED <<alive, enabled, pc, replacing>>
  BY DEF ReplaceStep, SoundInv, AheadInv
<1>2. PICK rank \in Ranks : Queued(links, alive, Seat, rank) /\ Ahead(rank)
  BY <1>1 DEF AheadInv
<1>3. PICK g \in Handlers : g = iter.hi /\ g \in alive /\ Seat[g] = iter.queue
  BY <1>1, IterAdvances, SeatIs DEF SoundInv, PointersInv
<1>4. PICK rank2 \in Ranks :
        /\ Queued(links', alive', Seat', rank2)
        /\ \A x \in Handlers \ {g} : rank2[x] = rank[x]
        /\ \A x \in Handlers \ {g} : Seat'[x] = Seat[x] /\ sock'[x] = sock[x]
        /\ sock'[g] # replacing.old
  <2>1. CASE sock[g] = replacing.old
    <3>1. /\ \E rank2 \in Ranks :
               /\ \A x \in Handlers \ {g} : rank2[x] = rank[x]
               /\ Queued(links', alive', Seat', rank2)
          /\ \A x \in Handlers \ {g} : Seat'[x] = Seat[x] /\ status'[x] = status[x]
          /\ \A x \in Handlers \ {g} : sock'[x] = sock[x]
          /\ sock'[g] = replacing.new
      BY <1>2, <1>3, <2>1, ReplaceMoves
    <3> QED  BY <1>1, <3>1
  <2>2. CASE sock[g] # replacing.old
    <3>1. UNCHANGED <<links, status, sock>>
      BY <1>3, <2>2 DEF ReplaceStep
    <3>2. Seat' = Seat
      BY <1>1, <3>1, SeatStays
    <3>3. Queued(links', alive', Seat', rank)
      BY <1>1, <1>2, <3>1, <3>2
    <3> QED  BY <2>2, <3>1, <3>2, <3>3
  <2> QED  BY <2>1, <2>2
<1>5. ASSUME NEW h \in alive, sock'[h] = replacing.old
      PROVE  /\ iter'.hi # NULL
             /\ \/ Seat'[h] = iter'.queue /\ rank2[iter'.hi] <= rank2[h]
                \/ Seat'[h] = "triggered" /\ iter'.queue = "waiting"
  <2>1. /\ h \in Handlers \ {g} /\ sock[h] = replacing.old
        /\ Seat'[h] = Seat[h] /\ rank2[h] = rank[h]
    BY <1>4, <1>5 DEF SoundInv, TypeOK
  <2>2. /\ iter'.hi # NULL => iter'.hi \in Handlers \ {g}
        /\ iter'.hi # NULL => rank2[iter'.hi] = rank[iter'.hi]
    BY <1>1, <1>3, <1>4, IterAdvances DEF SoundInv, TypeOK
  <2>3. \/ Seat[h] = iter.queue /\ rank[g] <= rank[h]
        \/ Seat[h] = "triggered" /\ iter.queue = "waiting"
    BY <1>2, <1>3, <2>1 DEF Ahead
  <2>4. CASE Seat[h] = iter.queue /\ rank[g] <= rank[h]
    <3>1. rank[g] < rank[h]
      BY <1>2, <1>3, <2>1, <2>4 DEF Queued, Ordered, Ranks
    <3>2. links.next[g] # NULL /\ rank[links.next[g]] <= rank[h]
      BY <1>2, <1>3, <2>4, <3>1 DEF Queued, Ordered
    <3>3. iter'.hi = links.next[g] /\ iter'.queue = iter.queue
      BY <1>1, <1>3, <3>2 DEF IterNext, SoundInv, TypeOK
    <3> QED  BY <2>1, <2>2, <2>4, <3>2, <3>3
  <2>5. CASE Seat[h] = "triggered" /\ iter.queue = "waiting"
    <3>1. CASE links.next[g] # NULL
      <4>1. iter'.hi = links.next[g] /\ iter'.queue = iter.queue
        BY <1>1, <1>3, <3>1 DEF IterNext, SoundInv, TypeOK
      <4> QED  BY <2>1, <2>5, <3>1, <4>1
    <3>2. CASE links.next[g] = NULL
      <4>1. iter'.hi = links.head["triggered"] /\ iter'.queue = "triggered"
        BY <1>1, <1>3, <2>5, <3>2 DEF IterNext
      <4>2. links.head["triggered"] # NULL /\ rank[links.head["triggered"]] <= rank[h]
        BY <1>2, <2>5 DEF Queued, Ordered
      <4> QED  BY <2>1, <2>2, <2>5, <4>1, <4>2
    <3> QED  BY <3>1, <3>2
  <2> QED  BY <2>3, <2>4, <2>5
<1>6. Ahead(rank2)'
  BY <1>1, <1>5 DEF Ahead
<1> QED  BY <1>1, <1>4, <1>6 DEF AheadInv

(* While replace_socket walks, nothing else moves a handler. *)
LEMMA ReplaceOnly ==
  ASSUME Next, pc = "replace" \/ pc' = "replace"
  PROVE  \/ \E old, new \in Sockets : ReplaceSocket(old, new)
         \/ ReplaceStep \/ ReplaceEnd
         \/ UNCHANGED <<pc, iter, replacing, links, alive, enabled, status, sock>>
<1>1. CASE Client
  BY <1>1
  DEF Client, AddZmqHandler, AddFdHandler, AddTimeout, RemoveHandler, DisableHandler,
      EnableHandler, ForceCheckEvents, Use, RunNested, Destroy, ClientRuns,
      clientUnchanged
<1>2. CASE Running \/ Dispatch \/ DispatchError
  BY <1>2 DEF Running, Run, Dispatch, DispatchError
<1>3. CASE Reactor
  BY <1>3
  DEF Reactor, DestroyStep, DestroyBase, FreeHead, Freed, LoopEnd, LoopEmpty, ProcessExit,
      ProcessDone, Processing, EventCallback, EventIgnored, ImmediateCallback,
      ImmediateStep, ImmediateEnd, CallbackReturns, CallFunction
<1>4. CASE \E s \in Sockets : SignalSocket(s)
  BY <1>4 DEF SignalSocket, handlerVars
<1> QED  BY <1>1, <1>2, <1>3, <1>4 DEF Next

LEMMA AheadStays ==
  ASSUME AheadInv, UNCHANGED <<pc, iter, replacing, links, alive, enabled, status, sock>>
  PROVE  AheadInv'
<1>1. Seat' = Seat
  BY SeatStays
<1> QED  BY <1>1 DEF AheadInv, Ahead

LEMMA AheadNext ==
  ASSUME "ReplaceWhole" \in Contract, SoundInv, AheadInv, [Next]_vars
  PROVE  AheadInv'
<1>1. CASE UNCHANGED vars
  BY <1>1, AheadStays DEF vars, handlerVars
<1>2. CASE Next /\ pc' # "replace"
  BY <1>2 DEF AheadInv
<1>3. CASE Next /\ pc' = "replace"
  <2>1. ~ReplaceEnd
    BY <1>3 DEF ReplaceEnd
  <2> QED  BY <1>3, <2>1, ReplaceOnly, ReplaceSocketAhead, ReplaceStepAhead, AheadStays
<1> QED  BY <1>1, <1>2, <1>3

(***************************************************************************)
(* When replace_socket ends, no handler refers to the old socket, unless   *)
(* it was replaced by itself, if the client also calls it only when its    *)
(* iterator reaches all that do.  The rounds move handlers within the      *)
(* queues being walked, so this rests on the order of the queues.          *)
(***************************************************************************)
THEOREM SocketReplaced ==
  ASSUME {"RemoveEnabled", "CheckEnabled", "SpareNext", "ReplaceWhole"} \subseteq Contract
  PROVE  Spec => ReplacedEverywhere
<1> DEFINE Done == pc = "replace" /\ pc' # "replace" /\ replacing.old # replacing.new =>
                     \A h \in alive : sock[h] # replacing.old
<1>1. ClientRules /\ "ReplaceWhole" \in Contract
  BY DEF ClientRules
<1>2. Init => AheadInv
  BY DEF Init, AheadInv
<1>3. SoundInv /\ AheadInv /\ [Next]_vars => AheadInv'
  BY <1>1, AheadNext
<1>4. SoundInv /\ AheadInv /\ [Next]_vars => [Done]_vars
  <2> SUFFICES ASSUME SoundInv, AheadInv, Next, pc = "replace", pc' # "replace",
                      replacing.old # replacing.new
               PROVE  \A h \in alive : sock[h] # replacing.old
    OBVIOUS
  <2>1. ReplaceEnd
    BY ReplaceOnly DEF ReplaceSocket, ReplaceStep
  <2> QED  BY <2>1 DEF ReplaceEnd, AheadInv, Ahead
<1>5. Spec => [][Done]_vars
  BY <1>1, <1>2, <1>3, <1>4, SoundAlways, PTL DEF Spec
<1> QED  BY <1>5 DEF ReplacedEverywhere
=============================================================================
