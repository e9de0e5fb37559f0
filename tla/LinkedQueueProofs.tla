------------------------- MODULE LinkedQueueProofs --------------------------
(***************************************************************************)
(* The linked queues agree with the lists their client keeps, for any      *)
(* number of objects and queues; for any finite number of objects, walking *)
(* them shows these lists.                                                 *)
(***************************************************************************)
EXTENDS LinkedQueueClient, SequenceTheorems, FiniteSetTheorems, Iteration

-----------------------------------------------------------------------------
(* Lists: what the three changes of a list do to its positions.            *)

LEMMA ConsLemma ==
  ASSUME NEW S, NEW s \in Seq(S), NEW e \in S
  PROVE  /\ Cons(e, s) \in Seq(S)
         /\ Len(Cons(e, s)) = Len(s) + 1
         /\ \A i \in 1 .. Len(s) + 1 :
              Cons(e, s)[i] = IF i = 1 THEN e ELSE s[i - 1]
BY SMT DEF Cons

LEMMA RemoveAtLemma ==
  ASSUME NEW S, NEW s \in Seq(S), NEW i \in 1 .. Len(s)
  PROVE  /\ RemoveAt(s, i) \in Seq(S)
         /\ Len(RemoveAt(s, i)) = Len(s) - 1
         /\ \A j \in 1 .. Len(s) - 1 :
              RemoveAt(s, i)[j] = IF j < i THEN s[j] ELSE s[j + 1]
<1> DEFINE a == SubSeq(s, 1, i - 1)
           b == SubSeq(s, i + 1, Len(s))
<1>1. Len(s) \in Nat
  BY LenProperties
<1>2. /\ a \in Seq(S) /\ Len(a) = i - 1
      /\ \A j \in 1 .. i - 1 : a[j] = s[j]
  BY <1>1, SMT
<1>3. /\ b \in Seq(S) /\ Len(b) = Len(s) - i
      /\ \A j \in 1 .. Len(s) - i : b[j] = s[i + j]
  BY <1>1, SMT
<1> HIDE DEF a, b
<1>4. /\ a \o b \in Seq(S)
      /\ Len(a \o b) = Len(a) + Len(b)
      /\ \A j \in 1 .. Len(a) + Len(b) :
           (a \o b)[j] = IF j <= Len(a) THEN a[j] ELSE b[j - Len(a)]
  BY <1>2, <1>3, ConcatProperties
<1>5. \A j \in 1 .. Len(s) - 1 : (a \o b)[j] = IF j < i THEN s[j] ELSE s[j + 1]
  BY <1>1, <1>2, <1>3, <1>4, SMT
<1>6. RemoveAt(s, i) = a \o b
  BY DEF RemoveAt, a, b
<1>7. Len(a \o b) = Len(s) - 1
  BY <1>1, <1>2, <1>3, <1>4, SMT
<1> QED  BY <1>4, <1>5, <1>6, <1>7

LEMMA TailLemma ==
  ASSUME NEW S, NEW s \in Seq(S), Len(s) > 0
  PROVE  /\ Tail(s) \in Seq(S)
         /\ Len(Tail(s)) = Len(s) - 1
         /\ \A j \in 1 .. Len(s) - 1 : Tail(s)[j] = s[j + 1]
BY SMT

(* An object the client does not keep is at no position of a list.         *)
LEMMA NotKept ==
  ASSUME TypeOK, NEW o, o \notin Kept, NEW q \in Queues,
         NEW i \in 1 .. Len(lists[q])
  PROVE  lists[q][i] # o
<1>1. DOMAIN lists[q] = 1 .. Len(lists[q])
  BY LenProperties DEF TypeOK
<1> QED  BY <1>1 DEF Kept, ToSet

-----------------------------------------------------------------------------
(* The memory: what enqueue and dequeue write. *)
LEMMA EnqueueLemma ==
  ASSUME NEW m \in Links, NEW q \in Queues, NEW o \in Objects
  PROVE  /\ Enqueue(m, q, o) \in Links
         /\ Enqueue(m, q, o).head[q] = o
         /\ \A p \in Queues \ {q} : Enqueue(m, q, o).head[p] = m.head[p]
         /\ Enqueue(m, q, o).next[o] = m.head[q]
         /\ \A x \in Objects \ {o} : Enqueue(m, q, o).next[x] = m.next[x]
         /\ m.head[q] # o => Enqueue(m, q, o).prev[o] = NULL
         /\ m.head[q] # NULL => Enqueue(m, q, o).prev[m.head[q]] = o
         /\ \A x \in Objects \ {o, m.head[q]} :
              Enqueue(m, q, o).prev[x] = m.prev[x]
BY NullAssumption DEF Enqueue, Links, Pointers, Store

LEMMA DequeueLemma ==
  ASSUME NEW m \in Links, NEW q \in Queues, NEW o \in Objects,
         m.prev[o] # o, m.next[o] # o
  PROVE  /\ Dequeue(m, q, o) \in Links
         /\ Dequeue(m, q, o).head[q] =
              IF m.head[q] # o THEN m.head[q]
              ELSE IF m.prev[o] # NULL THEN m.prev[o] ELSE m.next[o]
         /\ \A p \in Queues \ {q} : Dequeue(m, q, o).head[p] = m.head[p]
         /\ \A x \in Objects : Dequeue(m, q, o).next[x] =
              IF x = m.prev[o] THEN m.next[o] ELSE m.next[x]
         /\ \A x \in Objects : Dequeue(m, q, o).prev[x] =
              IF x = m.next[o] THEN m.prev[o] ELSE m.prev[x]
BY NullAssumption DEF Dequeue, Links, Pointers, Store

-----------------------------------------------------------------------------
(* enqueue, on a list s that becomes t. *)

Distinct(s) == \A i, j \in 1 .. Len(s) : s[i] = s[j] => i = j

LEMMA ForwardEnqueue ==
  ASSUME NEW m \in Links, NEW q \in Queues, NEW o \in Objects,
         NEW s \in Seq(Objects), NEW t \in Seq(Objects),
         \A i \in 1 .. Len(s) : s[i] # o,
         Len(t) = Len(s) + 1,
         \A i \in 1 .. Len(s) + 1 : t[i] = IF i = 1 THEN o ELSE s[i - 1],
         Forward(m, q, s)
  PROVE  Forward(Enqueue(m, q, o), q, t)
<1> DEFINE n == Enqueue(m, q, o)
<1>0. /\ n.head[q] = o
      /\ n.next[o] = m.head[q]
      /\ \A x \in Objects \ {o} : n.next[x] = m.next[x]
  BY EnqueueLemma
<1> HIDE DEF n
<1>1. n.head[q] = After(t, 0)
  BY <1>0 DEF After
<1>2. ASSUME NEW i \in 1 .. Len(t)
      PROVE  n.next[t[i]] = After(t, i)
  <2>1. CASE i = 1
    <3>1. t[i] = o /\ n.next[o] = m.head[q]
      BY <1>0, <2>1
    <3>2. m.head[q] = After(s, 0)
      BY DEF Forward
    <3>3. After(s, 0) = After(t, 1)
      <4>1. 1 < Len(t) => t[2] = s[1]
        OBVIOUS
      <4> QED  BY <4>1 DEF After
    <3> QED  BY <2>1, <3>1, <3>2, <3>3
  <2>2. CASE i # 1
    <3>1. t[i] = s[i - 1] /\ i - 1 \in 1 .. Len(s)
      BY <2>2
    <3>2. s[i - 1] \in Objects \ {o}
      BY <3>1, ElementOfSeq
    <3>3. n.next[s[i - 1]] = m.next[s[i - 1]]
      BY <1>0, <3>2
    <3>4. m.next[s[i - 1]] = After(s, i - 1)
      BY <3>1 DEF Forward
    <3>5. After(s, i - 1) = After(t, i)
      BY <3>1 DEF After
    <3> QED  BY <3>1, <3>3, <3>4, <3>5
  <2> QED  BY <2>1, <2>2
<1> QED  BY <1>1, <1>2 DEF Forward, n

LEMMA BackwardEnqueue ==
  ASSUME NEW m \in Links, NEW q \in Queues, NEW o \in Objects,
         NEW s \in Seq(Objects), NEW t \in Seq(Objects),
         \A i \in 1 .. Len(s) : s[i] # o,
         Len(t) = Len(s) + 1,
         \A i \in 1 .. Len(s) + 1 : t[i] = IF i = 1 THEN o ELSE s[i - 1],
         Distinct(s), Forward(m, q, s), Backward(m, s)
  PROVE  Backward(Enqueue(m, q, o), t)
<1> DEFINE n == Enqueue(m, q, o)
<1>1. m.head[q] = IF Len(s) = 0 THEN NULL ELSE s[1]
  BY DEF Forward, After
<1>2. m.head[q] # o
  BY <1>1, NullAssumption
<1>3. /\ n.prev[o] = NULL
      /\ m.head[q] # NULL => n.prev[m.head[q]] = o
      /\ \A x \in Objects \ {o, m.head[q]} : n.prev[x] = m.prev[x]
  BY <1>2, EnqueueLemma
<1> HIDE DEF n
<1>4. ASSUME NEW i \in 1 .. Len(t)
      PROVE  n.prev[t[i]] = Before(t, i)
  <2>1. CASE i = 1
    BY <1>3, <2>1 DEF Before
  <2>2. CASE i = 2
    <3>1. t[2] = s[1] /\ t[1] = o /\ s[1] \in Objects
      BY <2>2, ElementOfSeq
    <3>2. n.prev[s[1]] = o
      BY <1>1, <1>3, <2>2, <3>1, NullAssumption
    <3> QED  BY <2>2, <3>1, <3>2 DEF Before
  <2>3. CASE i > 2
    <3>1. t[i] = s[i - 1] /\ t[i - 1] = s[i - 2] /\ i - 1 \in 2 .. Len(s)
      BY <2>3
    <3>2. s[i - 1] \in Objects \ {o, m.head[q]}
      BY <1>1, <3>1, ElementOfSeq DEF Distinct
    <3>3. n.prev[s[i - 1]] = m.prev[s[i - 1]]
      BY <1>3, <3>2
    <3>4. m.prev[s[i - 1]] = s[i - 2]
      BY <3>1 DEF Backward, Before
    <3> QED  BY <2>3, <3>1, <3>3, <3>4 DEF Before
  <2> QED  BY <2>1, <2>2, <2>3
<1> QED  BY <1>4 DEF Backward, n

-----------------------------------------------------------------------------
(* dequeue of the object at position i of a list. *)

(* Its neighbours are neither itself nor the same object. *)
LEMMA Neighbours ==
  ASSUME NEW m \in Links, NEW q \in Queues, NEW s \in Seq(Objects),
         NEW i \in 1 .. Len(s),
         Distinct(s), Forward(m, q, s), Backward(m, s)
  PROVE  /\ s[i] \in Objects
         /\ m.next[s[i]] = After(s, i) /\ m.prev[s[i]] = Before(s, i)
         /\ m.next[s[i]] # s[i] /\ m.prev[s[i]] # s[i]
         /\ m.head[q] = s[1]
         /\ \A j \in 1 .. Len(s) : s[j] = After(s, i) <=> j = i + 1
         /\ \A j \in 1 .. Len(s) : s[j] = Before(s, i) <=> j = i - 1
<1>1. \A j \in 1 .. Len(s) : s[j] \in Objects
  BY ElementOfSeq
<1>2. m.next[s[i]] = After(s, i) /\ m.prev[s[i]] = Before(s, i) /\ m.head[q] = s[1]
  BY DEF Forward, Backward, After
<1>3. \A j \in 1 .. Len(s) : s[j] = After(s, i) <=> j = i + 1
  BY <1>1, NullAssumption DEF After, Distinct
<1>4. \A j \in 1 .. Len(s) : s[j] = Before(s, i) <=> j = i - 1
  BY <1>1, NullAssumption DEF Before, Distinct
<1>5. s[i] # After(s, i) /\ s[i] # Before(s, i)
  BY <1>3, <1>4
<1> QED  BY <1>1, <1>2, <1>3, <1>4, <1>5

LEMMA ForwardDequeue ==
  ASSUME NEW m \in Links, NEW q \in Queues,
         NEW s \in Seq(Objects), NEW t \in Seq(Objects), NEW i \in 1 .. Len(s),
         Len(t) = Len(s) - 1,
         \A j \in 1 .. Len(s) - 1 : t[j] = IF j < i THEN s[j] ELSE s[j + 1],
         Distinct(s), Forward(m, q, s), Backward(m, s)
  PROVE  Forward(Dequeue(m, q, s[i]), q, t)
<1> DEFINE o == s[i]
           n == Dequeue(m, q, o)
<1>1. /\ o \in Objects /\ m.next[o] # o /\ m.prev[o] # o
      /\ m.next[o] = After(s, i) /\ m.prev[o] = Before(s, i) /\ m.head[q] = s[1]
      /\ \A j \in 1 .. Len(s) : s[j] = Before(s, i) <=> j = i - 1
  BY Neighbours
<1>2. /\ n.head[q] = IF m.head[q] # o THEN m.head[q]
                     ELSE IF m.prev[o] # NULL THEN m.prev[o] ELSE m.next[o]
      /\ \A x \in Objects : n.next[x] = IF x = m.prev[o] THEN m.next[o] ELSE m.next[x]
  BY <1>1, DequeueLemma
<1>3. \A j \in 1 .. Len(s) : s[j] \in Objects /\ m.next[s[j]] = After(s, j)
  BY ElementOfSeq DEF Forward
<1>4. n.head[q] = After(t, 0)
  <2>1. CASE i = 1
    <3>1. o = s[1] /\ m.prev[o] = NULL
      BY <1>1, <2>1 DEF Before
    <3>2. n.head[q] = After(s, 1)
      BY <1>1, <1>2, <2>1, <3>1
    <3> QED  BY <2>1, <3>2 DEF After
  <2>2. CASE i > 1
    <3>1. s[1] # o
      BY <2>2 DEF Distinct
    <3>2. t[1] = s[1] /\ Len(t) > 0
      BY <2>2
    <3> QED  BY <1>1, <1>2, <3>1, <3>2 DEF After
  <2> QED  BY <2>1, <2>2
<1> HIDE DEF o, n
<1>5. ASSUME NEW j \in 1 .. Len(t)
      PROVE  n.next[t[j]] = After(t, j)
  <2>1. CASE j < i - 1
    <3>1. t[j] = s[j] /\ t[j + 1] = s[j + 1] /\ j + 1 \in 1 .. Len(t)
      BY <2>1
    <3>2. j \in 1 .. Len(s) /\ s[j] # m.prev[o]
      BY <1>1, <2>1
    <3>3. n.next[s[j]] = After(s, j)
      BY <1>2, <1>3, <3>2
    <3> QED  BY <3>1, <3>3 DEF After
  <2>2. CASE j = i - 1
    <3>1. t[j] = s[j] /\ (i < Len(s) => t[i] = s[i + 1])
      BY <2>2
    <3>2. n.next[s[j]] = After(s, i)
      BY <1>1, <1>2, <1>3, <2>2
    <3> QED  BY <2>2, <3>1, <3>2 DEF After
  <2>3. CASE j >= i
    <3>1. t[j] = s[j + 1] /\ j + 1 \in 1 .. Len(s)
      BY <2>3
    <3>2. n.next[s[j + 1]] = After(s, j + 1)
      BY <1>1, <1>2, <1>3, <2>3, <3>1
    <3>3. j + 1 < Len(s) => t[j + 1] = s[(j + 1) + 1]
      BY <2>3
    <3> QED  BY <3>1, <3>2, <3>3 DEF After
  <2> QED  BY <2>1, <2>2, <2>3
<1> QED  BY <1>4, <1>5 DEF Forward, n, o

LEMMA BackwardDequeue ==
  ASSUME NEW m \in Links, NEW q \in Queues,
         NEW s \in Seq(Objects), NEW t \in Seq(Objects), NEW i \in 1 .. Len(s),
         Len(t) = Len(s) - 1,
         \A j \in 1 .. Len(s) - 1 : t[j] = IF j < i THEN s[j] ELSE s[j + 1],
         Distinct(s), Forward(m, q, s), Backward(m, s)
  PROVE  Backward(Dequeue(m, q, s[i]), t)
<1> DEFINE o == s[i]
           n == Dequeue(m, q, o)
<1>1. /\ o \in Objects /\ m.next[o] # o /\ m.prev[o] # o
      /\ m.next[o] = After(s, i) /\ m.prev[o] = Before(s, i)
      /\ \A j \in 1 .. Len(s) : s[j] = After(s, i) <=> j = i + 1
  BY Neighbours
<1>2. \A x \in Objects : n.prev[x] = IF x = m.next[o] THEN m.prev[o] ELSE m.prev[x]
  BY <1>1, DequeueLemma
<1>3. \A j \in 1 .. Len(s) : s[j] \in Objects /\ m.prev[s[j]] = Before(s, j)
  BY ElementOfSeq DEF Backward
<1> HIDE DEF o, n
<1>4. ASSUME NEW j \in 1 .. Len(t)
      PROVE  n.prev[t[j]] = Before(t, j)
  <2>1. CASE j < i
    <3>1. t[j] = s[j] /\ (j > 1 => t[j - 1] = s[j - 1])
      BY <2>1
    <3>2. j \in 1 .. Len(s) /\ s[j] # m.next[o]
      BY <1>1, <2>1
    <3>3. n.prev[s[j]] = Before(s, j)
      BY <1>2, <1>3, <3>2
    <3> QED  BY <3>1, <3>3 DEF Before
  <2>2. CASE j = i
    <3>1. t[j] = s[i + 1] /\ i + 1 \in 1 .. Len(s) /\ (i > 1 => t[i - 1] = s[i - 1])
      BY <2>2
    <3>2. n.prev[s[i + 1]] = Before(s, i)
      BY <1>1, <1>2, <1>3, <3>1
    <3> QED  BY <2>2, <3>1, <3>2 DEF Before
  <2>3. CASE j > i
    <3>1. t[j] = s[j + 1] /\ j + 1 \in 1 .. Len(s) /\ t[j - 1] = s[j]
      BY <2>3
    <3>2. n.prev[s[j + 1]] = Before(s, j + 1)
      BY <1>1, <1>2, <1>3, <2>3, <3>1
    <3>3. Before(s, j + 1) = s[j]
      BY DEF Before
    <3> QED  BY <2>3, <3>1, <3>2, <3>3 DEF Before
  <2> QED  BY <2>1, <2>2, <2>3
<1> QED  BY <1>4 DEF Backward, n, o

-----------------------------------------------------------------------------
(* pop_head on a queue whose head has no predecessor is dequeue. *)
LEMMA PopHeadIsDequeue ==
  ASSUME NEW m \in Links, NEW q \in Queues, m.head[q] # NULL,
         m.prev[m.head[q]] = NULL, m.next[m.head[q]] # m.head[q]
  PROVE  PopHead(m, q) = Dequeue(m, q, m.head[q])
BY NullAssumption DEF PopHead, Dequeue, Links, Pointers, Store

LEMMA DeleteHeadLemma ==
  ASSUME NEW m \in Links, NEW q \in Queues, m.head[q] # NULL
  PROVE  /\ DeleteHead(m, q) \in Links
         /\ DeleteHead(m, q).head[q] = m.next[m.head[q]]
         /\ \A p \in Queues \ {q} : DeleteHead(m, q).head[p] = m.head[p]
         /\ DeleteHead(m, q).next = m.next /\ DeleteHead(m, q).prev = m.prev
BY DEF DeleteHead, Links, Pointers

-----------------------------------------------------------------------------
(* The invariant. *)

LEMMA InitInv == Init => Inv
<1> SUFFICES ASSUME Init PROVE Inv
  OBVIOUS
<1>1. TypeOK
  BY EmptySeq DEF Init, TypeOK, NoLinks, Links, Pointers
<1>2. \A q \in Queues : Len(lists[q]) = 0
  BY DEF Init
<1>3. NoSharing
  BY <1>2, SMT DEF NoSharing
<1>4. LinksAgree
  BY <1>2, SMT DEF LinksAgree, Forward, Backward, After, Init, NoLinks
<1> QED  BY <1>1, <1>3, <1>4 DEF Inv

(* What the invariant says of a single queue, and of two. *)
LEMMA OneQueue ==
  ASSUME Inv, NEW q \in Queues
  PROVE  /\ links \in Links
         /\ lists[q] \in Seq(Objects)
         /\ Len(lists[q]) \in Nat
         /\ \A i \in 1 .. Len(lists[q]) : lists[q][i] \in Objects
         /\ Distinct(lists[q])
         /\ Forward(links, q, lists[q])
         /\ q \notin dying => Backward(links, lists[q])
<1>1. lists[q] \in Seq(Objects) /\ links \in Links
  BY DEF Inv, TypeOK
<1>2. Distinct(lists[q])
  BY DEF Inv, NoSharing, Distinct
<1> QED  BY <1>1, <1>2, LenProperties, ElementOfSeq DEF Inv, LinksAgree

LEMMA TwoQueues ==
  ASSUME Inv, NEW p \in Queues, NEW q \in Queues, p # q,
         NEW i \in 1 .. Len(lists[p]), NEW j \in 1 .. Len(lists[q])
  PROVE  lists[p][i] # lists[q][j]
BY DEF Inv, NoSharing

(***************************************************************************)
(* A step that changes the list of one queue q, and writes the links of no *)
(* object of another, keeps the invariant if it keeps it for q.            *)
(***************************************************************************)
LEMMA OneChange ==
  ASSUME Inv, NEW q \in Queues, NEW t \in Seq(Objects),
         lists' = [lists EXCEPT ![q] = t], links' \in Links,
         dying' = dying,
         Distinct(t), Forward(links', q, t), q \notin dying => Backward(links', t),
         \A i \in 1 .. Len(t) : \A p \in Queues \ {q} :
           \A j \in 1 .. Len(lists[p]) : t[i] # lists[p][j],
         \A p \in Queues \ {q} :
           /\ links'.head[p] = links.head[p]
           /\ \A j \in 1 .. Len(lists[p]) :
                /\ links'.next[lists[p][j]] = links.next[lists[p][j]]
                /\ links'.prev[lists[p][j]] = links.prev[lists[p][j]]
  PROVE  Inv'
<1>1. lists'[q] = t /\ \A p \in Queues \ {q} : lists'[p] = lists[p]
  BY DEF Inv, TypeOK
<1>2. TypeOK'
  BY DEF Inv, TypeOK
<1>3. NoSharing'
  <2> SUFFICES ASSUME NEW p \in Queues, NEW r \in Queues,
                      NEW i \in 1 .. Len(lists'[p]), NEW j \in 1 .. Len(lists'[r]),
                      lists'[p][i] = lists'[r][j]
               PROVE  p = r /\ i = j
    BY DEF NoSharing
  <2>1. CASE p # q /\ r # q
    BY <1>1, <2>1 DEF Inv, NoSharing
  <2>2. CASE p = q /\ r # q
    BY <1>1, <2>2
  <2>3. CASE p # q /\ r = q
    BY <1>1, <2>3
  <2>4. CASE p = q /\ r = q
    BY <1>1, <2>4 DEF Distinct
  <2> QED  BY <2>1, <2>2, <2>3, <2>4
<1>4. ASSUME NEW p \in Queues
      PROVE  /\ Forward(links', p, lists'[p])
             /\ p \notin dying' => Backward(links', lists'[p])
  <2>1. CASE p = q
    BY <1>1, <2>1
  <2>2. CASE p # q
    <3>1. lists'[p] = lists[p] /\ Forward(links, p, lists[p])
      BY <1>1, <2>2, OneQueue
    <3>2. p \notin dying => Backward(links, lists[p])
      BY OneQueue
    <3> QED  BY <2>2, <3>1, <3>2 DEF Forward, Backward
  <2> QED  BY <2>1, <2>2
<1>5. LinksAgree'
  BY <1>4 DEF LinksAgree
<1> QED  BY <1>2, <1>3, <1>5 DEF Inv

(* Insert *)
LEMMA InsertInv ==
  ASSUME Inv, NEW q \in Queues, NEW o \in Objects, Insert(q, o)
  PROVE  Inv'
<1> DEFINE s == lists[q]
           t == Cons(o, s)
<1>1. \A p \in Queues : \A i \in 1 .. Len(lists[p]) : lists[p][i] # o
  BY NotKept DEF Insert, Inv
<1>2. /\ links \in Links /\ s \in Seq(Objects) /\ Len(s) \in Nat
      /\ Distinct(s) /\ Forward(links, q, s) /\ Backward(links, s)
  BY OneQueue DEF Insert
<1>3. /\ lists' = [lists EXCEPT ![q] = t] /\ links' = Enqueue(links, q, o)
      /\ dying' = dying
  BY DEF Insert
<1>4. \A i \in 1 .. Len(s) : s[i] # o
  BY <1>1
<1>5. links.head[q] = IF Len(s) = 0 THEN NULL ELSE s[1]
  BY <1>2 DEF Forward, After
<1>6. \A p \in Queues \ {q} : \A j \in 1 .. Len(lists[p]) :
        lists[p][j] \in Objects \ {o, links.head[q]}
  BY <1>1, <1>2, <1>5, OneQueue, TwoQueues, NullAssumption
<1> HIDE DEF s
<1>7. /\ t \in Seq(Objects) /\ Len(t) = Len(s) + 1
      /\ \A i \in 1 .. Len(s) + 1 : t[i] = IF i = 1 THEN o ELSE s[i - 1]
  BY <1>2 DEF Cons
<1> HIDE DEF t
<1>8. Forward(links', q, t)
  BY <1>2, <1>3, <1>4, <1>7, ForwardEnqueue
<1>9. Backward(links', t)
  BY <1>2, <1>3, <1>4, <1>7, BackwardEnqueue
<1>10. Distinct(t)
  <2> SUFFICES ASSUME NEW i \in 1 .. Len(t), NEW j \in 1 .. Len(t), t[i] = t[j]
               PROVE  i = j
    BY DEF Distinct
  <2>1. CASE i = 1 \/ j = 1
    BY <1>2, <1>4, <1>7, <2>1
  <2>2. CASE i > 1 /\ j > 1
    <3>1. i - 1 \in 1 .. Len(s) /\ j - 1 \in 1 .. Len(s) /\ s[i - 1] = s[j - 1]
      BY <1>2, <1>7, <2>2
    <3>2. i - 1 = j - 1
      BY <1>2, <3>1 DEF Distinct
    <3> QED  BY <2>2, <3>2
  <2> QED  BY <1>2, <1>7, <2>1, <2>2
<1>11. links' \in Links
  BY <1>2, <1>3, EnqueueLemma
<1>12. \A i \in 1 .. Len(t) : \A p \in Queues \ {q} :
         \A j \in 1 .. Len(lists[p]) : t[i] # lists[p][j]
  BY <1>1, <1>2, <1>7, TwoQueues DEF s
<1>13. \A p \in Queues \ {q} :
         /\ links'.head[p] = links.head[p]
         /\ \A j \in 1 .. Len(lists[p]) :
              /\ links'.next[lists[p][j]] = links.next[lists[p][j]]
              /\ links'.prev[lists[p][j]] = links.prev[lists[p][j]]
  <2>1. /\ \A p \in Queues \ {q} : links'.head[p] = links.head[p]
        /\ \A x \in Objects \ {o, links.head[q]} :
             links'.next[x] = links.next[x] /\ links'.prev[x] = links.prev[x]
    BY <1>2, <1>3, EnqueueLemma
  <2> QED  BY <1>6, <2>1
<1> QED
  BY <1>3, <1>7, <1>8, <1>9, <1>10, <1>11, <1>12, <1>13, OneChange

(* The client takes the object at position i out of a queue by dequeue. *)
LEMMA DequeueInv ==
  ASSUME Inv, NEW q \in Queues, q \notin dying, NEW i \in 1 .. Len(lists[q]),
         links' = Dequeue(links, q, lists[q][i]),
         lists' = [lists EXCEPT ![q] = RemoveAt(lists[q], i)],
         dying' = dying
  PROVE  Inv'
<1> DEFINE s == lists[q]
           o == s[i]
           t == RemoveAt(s, i)
<1>1. /\ links \in Links /\ s \in Seq(Objects) /\ Len(s) \in Nat
      /\ Distinct(s) /\ Forward(links, q, s) /\ Backward(links, s)
  BY OneQueue
<1>2. \A p \in Queues \ {q} : \A j \in 1 .. Len(lists[p]) :
        lists[p][j] \in Objects /\ \A k \in 1 .. Len(s) : s[k] # lists[p][j]
  BY OneQueue, TwoQueues
<1>3. lists' = [lists EXCEPT ![q] = t] /\ links' = Dequeue(links, q, o)
  OBVIOUS
<1> HIDE DEF s
<1>4. i \in 1 .. Len(s)
  BY DEF s
<1>5. /\ t \in Seq(Objects) /\ Len(t) = Len(s) - 1
      /\ \A j \in 1 .. Len(s) - 1 : t[j] = IF j < i THEN s[j] ELSE s[j + 1]
  BY <1>1, <1>4, RemoveAtLemma
<1>6. /\ o \in Objects /\ links.next[o] # o /\ links.prev[o] # o
      /\ links.next[o] = After(s, i) /\ links.prev[o] = Before(s, i)
  BY <1>1, <1>4, Neighbours
<1> HIDE DEF t
<1>7. Forward(links', q, t)
  BY <1>1, <1>3, <1>4, <1>5, ForwardDequeue
<1>8. Backward(links', t)
  BY <1>1, <1>3, <1>4, <1>5, BackwardDequeue
<1>9. Distinct(t)
  <2> SUFFICES ASSUME NEW j \in 1 .. Len(t), NEW k \in 1 .. Len(t), t[j] = t[k]
               PROVE  j = k
    BY DEF Distinct
  <2> DEFINE at(l) == IF l < i THEN l ELSE l + 1
  <2>1. at(j) \in 1 .. Len(s) /\ at(k) \in 1 .. Len(s) /\ s[at(j)] = s[at(k)]
    BY <1>1, <1>4, <1>5
  <2>2. at(j) = at(k)
    BY <1>1, <2>1 DEF Distinct
  <2> QED  BY <1>1, <1>4, <1>5, <2>2
<1>10. links' \in Links
  BY <1>1, <1>3, <1>6, DequeueLemma
<1>11. \A j \in 1 .. Len(t) : \A p \in Queues \ {q} :
         \A k \in 1 .. Len(lists[p]) : t[j] # lists[p][k]
  BY <1>1, <1>2, <1>4, <1>5
<1>12. \A p \in Queues \ {q} : \A j \in 1 .. Len(lists[p]) :
         lists[p][j] \in Objects \ {links.next[o], links.prev[o]}
  BY <1>1, <1>2, <1>4, <1>6, NullAssumption DEF After, Before
<1>13. \A p \in Queues \ {q} :
         /\ links'.head[p] = links.head[p]
         /\ \A j \in 1 .. Len(lists[p]) :
              /\ links'.next[lists[p][j]] = links.next[lists[p][j]]
              /\ links'.prev[lists[p][j]] = links.prev[lists[p][j]]
  <2>1. /\ \A p \in Queues \ {q} : links'.head[p] = links.head[p]
        /\ \A x \in Objects \ {links.next[o], links.prev[o]} :
             links'.next[x] = links.next[x] /\ links'.prev[x] = links.prev[x]
    BY <1>1, <1>3, <1>6, DequeueLemma
  <2> QED  BY <1>12, <2>1
<1> QED
  BY <1>3, <1>5, <1>7, <1>8, <1>9, <1>10, <1>11, <1>13, OneChange

(* Delete *)
LEMMA DeleteInv ==
  ASSUME Inv, NEW q \in Queues, NEW i \in 1 .. Len(lists[q]), Delete(q, i)
  PROVE  Inv'
BY DequeueInv DEF Delete

(* The head of a queue is the first object of its list. *)
LEMMA HeadOfList ==
  ASSUME Inv, NEW q \in Queues, links.head[q] # NULL
  PROVE  /\ Len(lists[q]) > 0 /\ 1 \in 1 .. Len(lists[q])
         /\ links.head[q] = lists[q][1]
         /\ RemoveAt(lists[q], 1) = Tail(lists[q])
<1> DEFINE s == lists[q]
<1>1. s \in Seq(Objects) /\ Len(s) \in Nat /\ Forward(links, q, s)
  BY OneQueue
<1> HIDE DEF s
<1>2. Len(s) > 0 /\ links.head[q] = s[1]
  BY <1>1 DEF Forward, After
<1>3. RemoveAt(s, 1) = Tail(s)
  <2>1. /\ RemoveAt(s, 1) \in Seq(Objects) /\ Len(RemoveAt(s, 1)) = Len(s) - 1
        /\ \A j \in 1 .. Len(s) - 1 : RemoveAt(s, 1)[j] = s[j + 1]
    BY <1>1, <1>2, RemoveAtLemma
  <2>2. /\ Tail(s) \in Seq(Objects) /\ Len(Tail(s)) = Len(s) - 1
        /\ \A j \in 1 .. Len(s) - 1 : Tail(s)[j] = s[j + 1]
    BY <1>1, <1>2, TailLemma
  <2> QED  BY <1>1, <2>1, <2>2, SeqEqual
<1> QED  BY <1>1, <1>2, <1>3 DEF s

(* Pop *)
LEMMA PopInv ==
  ASSUME Inv, NEW q \in Queues, Pop(q)
  PROVE  Inv'
<1> DEFINE s == lists[q]
<1>1. /\ links \in Links /\ s \in Seq(Objects)
      /\ Distinct(s) /\ Forward(links, q, s) /\ Backward(links, s)
      /\ 1 \in 1 .. Len(s) /\ links.head[q] = s[1] /\ RemoveAt(s, 1) = Tail(s)
  BY OneQueue, HeadOfList DEF Pop
<1> HIDE DEF s
<1>2. links.prev[s[1]] = NULL /\ links.next[s[1]] # s[1]
  BY <1>1, Neighbours DEF Before
<1>3. links' = Dequeue(links, q, s[1])
  BY <1>1, <1>2, PopHeadIsDequeue DEF Pop
<1> QED  BY <1>1, <1>3, DequeueInv DEF Pop, s

(* Destroy *)
LEMMA DestroyInv ==
  ASSUME Inv, NEW q \in Queues, Destroy(q)
  PROVE  Inv'
<1>1. TypeOK'
  BY DEF Inv, TypeOK, Destroy
<1>2. NoSharing'
  BY DEF Inv, NoSharing, Destroy
<1>3. LinksAgree'
  BY DEF Inv, LinksAgree, Destroy
<1> QED  BY <1>1, <1>2, <1>3 DEF Inv

(* DestroyHead *)
LEMMA DestroyHeadInv ==
  ASSUME Inv, NEW q \in Queues, DestroyHead(q)
  PROVE  Inv'
<1> DEFINE s == lists[q]
           t == Tail(s)
<1>1. /\ links \in Links /\ s \in Seq(Objects) /\ Len(s) \in Nat
      /\ Distinct(s) /\ Forward(links, q, s)
      /\ Len(s) > 0 /\ links.head[q] = s[1] /\ links.head[q] # NULL
  BY OneQueue, HeadOfList DEF DestroyHead
<1>2. \A p \in Queues \ {q} : \A j \in 1 .. Len(lists[p]) :
        \A k \in 1 .. Len(s) : s[k] # lists[p][j]
  BY TwoQueues
<1>3. /\ links' = DeleteHead(links, q) /\ dying' = dying /\ q \in dying
      /\ lists' = [lists EXCEPT ![q] = t]
  BY DEF DestroyHead
<1> HIDE DEF s
<1>4. /\ t \in Seq(Objects) /\ Len(t) = Len(s) - 1
      /\ \A j \in 1 .. Len(s) - 1 : t[j] = s[j + 1]
  BY <1>1, TailLemma
<1> HIDE DEF t
<1>5. /\ links' \in Links
      /\ links'.head[q] = links.next[s[1]]
      /\ \A p \in Queues \ {q} : links'.head[p] = links.head[p]
      /\ links'.next = links.next /\ links'.prev = links.prev
  BY <1>1, <1>3, DeleteHeadLemma
<1>6. Forward(links', q, t)
  <2>1. \A i \in 1 .. Len(s) : links.next[s[i]] = After(s, i)
    BY <1>1 DEF Forward
  <2>2. links'.head[q] = After(t, 0)
    BY <1>1, <1>4, <1>5, <2>1 DEF After
  <2>3. ASSUME NEW i \in 1 .. Len(t)
        PROVE  links'.next[t[i]] = After(t, i)
    <3>1. t[i] = s[i + 1] /\ i + 1 \in 1 .. Len(s)
      BY <1>1, <1>4
    <3>2. links'.next[t[i]] = After(s, i + 1)
      BY <1>5, <2>1, <3>1
    <3>3. i < Len(t) => t[i + 1] = s[(i + 1) + 1]
      BY <1>1, <1>4
    <3> QED  BY <1>1, <1>4, <3>2, <3>3 DEF After
  <2> QED  BY <2>2, <2>3 DEF Forward
<1>7. Distinct(t)
  BY <1>1, <1>4 DEF Distinct
<1>8. \A j \in 1 .. Len(t) : \A p \in Queues \ {q} :
        \A k \in 1 .. Len(lists[p]) : t[j] # lists[p][k]
  BY <1>1, <1>2, <1>4
<1> QED  BY <1>3, <1>4, <1>5, <1>6, <1>7, <1>8, OneChange

(***************************************************************************)
(* Whatever its client does within its precondition, the pointers agree    *)
(* with the client's lists, and no object is in two places.                *)
(***************************************************************************)
THEOREM QueuesCorrect == Spec => []Inv
<1>1. Init => Inv
  BY InitInv
<1>2. Inv /\ [Next]_vars => Inv'
  <2> SUFFICES ASSUME Inv, [Next]_vars PROVE Inv'
    OBVIOUS
  <2>1. ASSUME NEW q \in Queues, NEW o \in Objects, Insert(q, o) PROVE Inv'
    BY <2>1, InsertInv
  <2>2. ASSUME NEW q \in Queues, NEW i \in 1 .. Len(lists[q]), Delete(q, i) PROVE Inv'
    BY <2>2, DeleteInv
  <2>3. ASSUME NEW q \in Queues, Pop(q) PROVE Inv'
    BY <2>3, PopInv
  <2>4. ASSUME NEW q \in Queues, Destroy(q) PROVE Inv'
    BY <2>4, DestroyInv
  <2>5. ASSUME NEW q \in Queues, DestroyHead(q) PROVE Inv'
    BY <2>5, DestroyHeadInv
  <2>6. CASE UNCHANGED vars
    BY <2>6 DEF vars, Inv, TypeOK, NoSharing, LinksAgree
  <2> QED  BY <2>1, <2>2, <2>3, <2>4, <2>5, <2>6 DEF Next
<1> QED  BY <1>1, <1>2, PTL DEF Spec

-----------------------------------------------------------------------------
(* Seen through head() and next() *)

LEMMA MetFollows ==
  ASSUME IsFiniteSet(Objects), NEW m \in Links, NEW q \in Queues
  PROVE  /\ Cardinality(Objects) \in Nat
         /\ Met(m, q) \in [0 .. Cardinality(Objects) -> Pointers]
         /\ Follows(Met(m, q), Onward(m), m.head[q], Cardinality(Objects))
<1>1. Cardinality(Objects) \in Nat
  BY FS_CardinalityType
<1>2. Onward(m) \in [Pointers -> Pointers] /\ m.head[q] \in Pointers
  BY DEF Onward, Links, Pointers
<1> DEFINE n == Cardinality(Objects)
           Is(f) == f = [k \in 0 .. n |-> IF k = 0 THEN m.head[q] ELSE Onward(m)[f[k - 1]]]
<1>3. Met(m, q) = CHOOSE f : Is(f)
  BY DEF Met
<1>4. \E f : Is(f)
  <2>1. PICK f \in [0 .. n -> Pointers] : Follows(f, Onward(m), m.head[q], n)
    BY <1>1, <1>2, FollowsExists
  <2>2. Is(f)
    BY <2>1 DEF Follows
  <2> HIDE DEF Is
  <2> QED  BY <2>2
<1> HIDE DEF Is
<1>5. Is(Met(m, q))
  BY <1>3, <1>4
<1>6. Met(m, q) \in [0 .. n -> Pointers] /\ Follows(Met(m, q), Onward(m), m.head[q], n)
  BY <1>1, <1>2, <1>5, RecursionFollows DEF Is
<1> QED  BY <1>1, <1>6

(* There are no more objects than there are. *)
LEMMA DistinctFits ==
  ASSUME IsFiniteSet(Objects), NEW s \in Seq(Objects), Distinct(s)
  PROVE  Len(s) <= Cardinality(Objects)
<1>1. Len(s) \in Nat /\ s \in [1 .. Len(s) -> Objects]
  BY LenProperties, ElementOfSeq
<1>2. s \in Injection(1 .. Len(s), Objects)
  BY <1>1 DEF Distinct, Injection, IsInjective
<1>3. Cardinality(1 .. Len(s)) = Len(s)
  BY <1>1, FS_Interval
<1> QED  BY <1>2, <1>3, FS_Injection

(* A walk along links that agree with a list meets that list. *)
LEMMA WalkIsList ==
  ASSUME IsFiniteSet(Objects), NEW m \in Links, NEW q \in Queues,
         NEW s \in Seq(Objects), Distinct(s), Forward(m, q, s)
  PROVE  Walk(m, q) = s
<1> DEFINE n == Cardinality(Objects)
           at == Met(m, q)
           S == {k \in 0 .. n : at[k] = After(s, k)}
           places == {i \in 1 .. n + 1 : at[i - 1] # NULL}
<1>1. /\ n \in Nat /\ Len(s) \in Nat /\ Len(s) <= n
      /\ at[0] = m.head[q] /\ \A k \in 1 .. n : at[k] = Onward(m)[at[k - 1]]
  BY MetFollows, DistinctFits, LenProperties DEF Follows
<1>2. \A i \in 1 .. Len(s) : s[i] \in Objects /\ s[i] # NULL
  BY ElementOfSeq, NullAssumption
<1> HIDE DEF n, at
<1>3. \A k \in 0 .. n : at[k] = After(s, k)
  <2>1. 0 \in S
    BY <1>1 DEF Forward
  <2>2. ASSUME NEW k \in 1 .. n, k - 1 \in S PROVE k \in S
    <3>1. at[k - 1] = After(s, k - 1) /\ at[k] = Onward(m)[at[k - 1]]
      BY <1>1, <2>2
    <3>2. CASE k <= Len(s)
      <4>1. at[k - 1] = s[k]
        BY <1>1, <3>1, <3>2 DEF After
      <4>2. at[k] = m.next[s[k]]
        BY <1>1, <1>2, <3>1, <3>2, <4>1 DEF Onward, Pointers
      <4> QED  BY <1>1, <3>2, <4>2 DEF Forward
    <3>3. CASE k > Len(s)
      <4>1. at[k - 1] = NULL
        BY <1>1, <3>1, <3>3 DEF After
      <4> QED  BY <1>1, <3>1, <3>3, <4>1 DEF Onward, Pointers, After
    <3> QED  BY <1>1, <3>2, <3>3
  <2> HIDE DEF S
  <2>3. 0 .. n \subseteq S
    BY <1>1, <2>1, <2>2, Climb
  <2> QED  BY <2>3 DEF S
<1>4. \A i \in 1 .. n + 1 : at[i - 1] = IF i <= Len(s) THEN s[i] ELSE NULL
  BY <1>1, <1>3 DEF After
<1>5. places = 1 .. Len(s)
  <2>1. \A i \in 1 .. n + 1 : at[i - 1] # NULL <=> i <= Len(s)
    BY <1>1, <1>2, <1>4
  <2>2. places = {i \in 1 .. n + 1 : i <= Len(s)}
    BY <2>1
  <2> HIDE DEF places
  <2> QED  BY <1>1, <2>2
<1> HIDE DEF places
<1>6. Cardinality(places) = Len(s)
  <2>1. Len(s) \in Nat
    BY <1>1
  <2>2. Cardinality(1 .. Len(s)) = Len(s)
    BY <2>1, FS_Interval
  <2> QED  BY <1>5, <2>2
<1>7. Walk(m, q) = [i \in 1 .. Cardinality(places) |-> at[i - 1]]
  BY DEF Walk, places, at, n
<1>8. Walk(m, q) = [i \in 1 .. Len(s) |-> s[i]]
  BY <1>1, <1>4, <1>6, <1>7
<1> QED  BY <1>8

LEMMA WalksAreLists ==
  ASSUME IsFiniteSet(Objects), Inv
  PROVE  [q \in Queues |-> Walk(links, q)] = lists
<1>1. ASSUME NEW q \in Queues PROVE Walk(links, q) = lists[q]
  BY OneQueue, WalkIsList DEF Inv, TypeOK
<1> QED  BY <1>1 DEF Inv, TypeOK

LEMMA WalksAreListsNext ==
  ASSUME IsFiniteSet(Objects), Inv'
  PROVE  [q \in Queues |-> Walk(links, q)]' = lists'
<1>1. ASSUME NEW q \in Queues PROVE Walk(links', q) = lists'[q]
  <2>1. /\ links' \in Links /\ lists'[q] \in Seq(Objects)
        /\ Distinct(lists'[q]) /\ Forward(links', q, lists'[q])
    BY DEF Inv, TypeOK, NoSharing, LinksAgree, Distinct
  <2> QED  BY <2>1, WalkIsList
<1> QED  BY <1>1 DEF Inv, TypeOK

(* A step of the client puts or takes one object of its own list. *)
LEMMA ListsStep ==
  ASSUME Inv, Next
  PROVE  \/ \E q \in Queues, o \in Objects :
              o \notin Kept /\ lists' = [lists EXCEPT ![q] = Cons(o, @)]
         \/ \E q \in Queues : \E i \in 1 .. Len(lists[q]) :
              i \in DOMAIN lists[q] /\ lists' = [lists EXCEPT ![q] = RemoveAt(@, i)]
         \/ lists' = lists
<1>1. ASSUME NEW q \in Queues, Pop(q) \/ DestroyHead(q)
      PROVE  /\ 1 \in 1 .. Len(lists[q]) /\ 1 \in DOMAIN lists[q]
             /\ lists' = [lists EXCEPT ![q] = RemoveAt(@, 1)]
  <2>1. /\ links.head[q] # NULL /\ lists' = [lists EXCEPT ![q] = Tail(@)]
        /\ lists[q] \in Seq(Objects)
    BY <1>1 DEF Pop, DestroyHead, Inv, TypeOK
  <2> QED  BY <2>1, HeadOfList, LenProperties
<1>2. ASSUME NEW q \in Queues, Destroy(q) PROVE lists' = lists
  BY <1>2 DEF Destroy
<1> QED  BY <1>1, <1>2 DEF Next, Insert, Delete

(***************************************************************************)
(* The pointers implement the lists: what head() and next() lead through   *)
(* changes as a list does, by one object of one queue, whatever the order  *)
(* of calls and the links left behind in objects outside the queues.       *)
(***************************************************************************)
THEOREM QueuesImplementLists ==
  ASSUME IsFiniteSet(Objects)
  PROVE  Spec => ImplementsLists
<1> DEFINE walks == [q \in Queues |-> Walk(links, q)]
<1>1. Inv => walks = lists
  BY WalksAreLists
<1>2. Inv' => walks' = lists'
  BY WalksAreListsNext
<1>3. Init => Lists!Init
  <2> SUFFICES ASSUME Init PROVE Lists!Init
    OBVIOUS
  <2>1. walks = lists
    BY InitInv, <1>1
  <2> QED  BY <2>1 DEF Init, Lists!Init
<1>4. Inv /\ Inv' /\ [Next]_vars => [Lists!Next]_walks
  <2> SUFFICES ASSUME Inv, Inv', [Next]_vars PROVE [Lists!Next]_walks
    OBVIOUS
  <2>1. walks = lists /\ walks' = lists'
    BY <1>1, <1>2
  <2>2. CASE UNCHANGED vars
    BY <2>1, <2>2 DEF vars
  <2>3. CASE Next
    <3>1. Lists!Kept = Kept
      BY <2>1 DEF Lists!Kept, Kept, Lists!ToSet, ToSet
    <3>2. \A s, o : Lists!Cons(o, s) = Cons(o, s)
      BY DEF Lists!Cons, Cons
    <3>3. \A s, i : Lists!RemoveAt(s, i) = RemoveAt(s, i)
      BY DEF Lists!RemoveAt, RemoveAt
    <3>4. CASE \E q \in Queues, o \in Objects :
                 o \notin Kept /\ lists' = [lists EXCEPT ![q] = Cons(o, @)]
      <4>1. PICK q \in Queues, o \in Objects :
              o \notin Kept /\ lists' = [lists EXCEPT ![q] = Cons(o, lists[q])]
        BY <3>4
      <4>2. Lists!Put(q, o)
        BY <2>1, <3>1, <3>2, <4>1 DEF Lists!Put
      <4> QED  BY <4>2 DEF Lists!Next
    <3>5. CASE \E q \in Queues : \E i \in 1 .. Len(lists[q]) :
                 i \in DOMAIN lists[q] /\ lists' = [lists EXCEPT ![q] = RemoveAt(@, i)]
      <4>1. PICK q \in Queues : \E i \in 1 .. Len(lists[q]) :
              i \in DOMAIN lists[q] /\ lists' = [lists EXCEPT ![q] = RemoveAt(lists[q], i)]
        BY <3>5
      <4>2. PICK i \in 1 .. Len(lists[q]) :
              i \in DOMAIN lists[q] /\ lists' = [lists EXCEPT ![q] = RemoveAt(lists[q], i)]
        BY <4>1
      <4>3. Lists!Take(q, i)
        BY <2>1, <3>3, <4>2 DEF Lists!Take
      <4>4. i \in 1 .. Len(walks[q])
        BY <2>1, <4>2
      <4> QED  BY <4>3, <4>4 DEF Lists!Next
    <3> QED  BY <2>1, <2>3, <3>4, <3>5, ListsStep
  <2> QED  BY <2>2, <2>3
<1>5. Spec => Lists!Spec
  BY <1>3, <1>4, QueuesCorrect, PTL DEF Spec, Lists!Spec
<1> QED  BY <1>5 DEF ImplementsLists
=============================================================================
