------------------------- MODULE PollReactorProofs --------------------------
(***************************************************************************)
(* The Dynamic and the Static reactor are type correct, keep their three   *)
(* vectors aligned, call every handler whose events matched, and stop at a *)
(* cancel; and if a callback that adds or removes handlers returns false,  *)
(* the dispatch reads only what is there.  A run neither waits past the    *)
(* end of its timeout nor gives up before it, however early zmq::poll      *)
(* returns.  For any sockets, functions, masks and timeouts.               *)
(***************************************************************************)
EXTENDS PollReactorProperties, SequenceTheorems, Iteration

-----------------------------------------------------------------------------
(* Sequences built by comprehension and by EXCEPT. *)

LEMMA ResizeLemma ==
  ASSUME NEW S, NEW s \in Seq(S), NEW k \in Nat, NEW fill \in S
  PROVE  /\ Resize(s, k, fill) \in Seq(S)
         /\ Len(Resize(s, k, fill)) = k
         /\ \A i \in 1 .. k :
              Resize(s, k, fill)[i] = IF i <= Len(s) THEN s[i] ELSE fill
<1>1. Len(s) \in Nat /\ \A i \in 1 .. Len(s) : s[i] \in S
  BY LenProperties, ElementOfSeq
<1>2. Resize(s, k, fill) \in [1 .. k -> S]
  BY <1>1 DEF Resize
<1>3. Resize(s, k, fill) \in Seq(S)
  BY <1>2, SeqDef
<1>4. Len(Resize(s, k, fill)) = k
  BY <1>2, <1>3, LenProperties
<1> QED  BY <1>3, <1>4 DEF Resize

LEMMA ExceptLemma ==
  ASSUME NEW S, NEW s \in Seq(S), NEW i \in 1 .. Len(s), NEW e \in S
  PROVE  /\ [s EXCEPT ![i] = e] \in Seq(S)
         /\ Len([s EXCEPT ![i] = e]) = Len(s)
         /\ \A j \in 1 .. Len(s) : [s EXCEPT ![i] = e][j] = IF j = i THEN e ELSE s[j]
<1> QED  BY ExceptSeq, LenProperties

(* A function over the positions of a sequence is a sequence of its size. *)
LEMMA MapLemma ==
  ASSUME NEW S, NEW T, NEW s \in Seq(S), NEW t \in [1 .. Len(s) -> T]
  PROVE  t \in Seq(T) /\ Len(t) = Len(s)
<1>1. Len(s) \in Nat
  BY LenProperties
<1>2. t \in Seq(T)
  BY <1>1, SeqDef
<1> QED  BY <1>1, <1>2, LenProperties

LEMMA IndexOfLemma ==
  ASSUME NEW s, sockets \in Seq(Sockets \union {NULL}), IndexOf(s) # 0
  PROVE  /\ IndexOf(s) \in 1 .. Len(sockets) /\ sockets[IndexOf(s)] = s
         /\ \A j \in 1 .. IndexOf(s) - 1 : sockets[j] # s
<1> DEFINE I == {i \in 1 .. Len(sockets) : sockets[i] = s}
<1>1. I # {} /\ IndexOf(s) = Min(I)
  BY DEF IndexOf, SelectInSeq
<1>2. Len(sockets) \in Nat
  BY LenProperties
<1>3. \E x \in I : \A y \in I : x <= y
  <2>1. I \in SUBSET Nat /\ I # {}
    BY <1>1, <1>2
  <2> HIDE DEF I
  <2> QED  BY <2>1, Least
<1>4. Min(I) \in I /\ \A y \in I : Min(I) <= y
  BY <1>3 DEF Min
<1>5. IndexOf(s) \in 1 .. Len(sockets) /\ sockets[IndexOf(s)] = s
  BY <1>1, <1>4
<1>6. ASSUME NEW j \in 1 .. IndexOf(s) - 1, sockets[j] = s PROVE FALSE
  <2>1. j \in I
    BY <1>2, <1>5, <1>6
  <2> QED  BY <1>1, <1>2, <1>4, <1>5, <1>6, <2>1
<1> QED  BY <1>5, <1>6

-----------------------------------------------------------------------------
(* The three vectors. *)

Vectors ==
  /\ items \in Seq(Item)
  /\ sockets \in Seq(Sockets \union {NULL})
  /\ handlers \in Seq(Functions \union {NULL})
  /\ capacity \in Nat
  /\ Aligned
  /\ BlankSilent

LEMMA VectorsSizes ==
  ASSUME Vectors
  PROVE  LET size == Len(items) IN
         /\ size \in Nat /\ Len(sockets) = size /\ Len(handlers) = size
         /\ DOMAIN items = 1 .. size /\ DOMAIN sockets = 1 .. size
         /\ DOMAIN handlers = 1 .. size
         /\ \A i \in 1 .. size :
              /\ items[i] \in Item /\ sockets[i] \in Sockets \union {NULL}
              /\ handlers[i] \in Functions \union {NULL}
              /\ items[i].socket = sockets[i]
              /\ handlers[i] = NULL => items[i].events = {}
BY LenProperties, ElementOfSeq DEF Vectors, Aligned, BlankSilent

(* It is enough to know the new vectors position by position. *)
LEMMA VectorsFromPositions ==
  ASSUME items' \in Seq(Item), sockets' \in Seq(Sockets \union {NULL}),
         handlers' \in Seq(Functions \union {NULL}), capacity' \in Nat,
         Len(sockets') = Len(items'), Len(handlers') = Len(items'),
         \A i \in 1 .. Len(items') :
           /\ items'[i].socket = sockets'[i]
           /\ handlers'[i] = NULL => items'[i].events = {}
  PROVE  Vectors'
<1>1. DOMAIN items' = 1 .. Len(items') /\ DOMAIN handlers' = 1 .. Len(handlers')
  BY LenProperties
<1> QED  BY <1>1 DEF Vectors, Aligned, BlankSilent

LEMMA GrowType ==
  ASSUME capacity \in Nat, NEW i \in Nat, NEW j \in Nat, Grow(i, j)
  PROVE  capacity' \in Nat
BY DEF Grow

(* What resize and an assignment do to the sockets and the functions.      *)
LEMMA ResizedSockets ==
  ASSUME NEW k \in Nat, sockets \in Seq(Sockets \union {NULL})
  PROVE  LET s == Resize(sockets, k, NULL) IN
         /\ s \in Seq(Sockets \union {NULL}) /\ Len(s) = k
         /\ \A i \in 1 .. k : s[i] = IF i <= Len(sockets) THEN sockets[i] ELSE NULL
<1>1. PICK S : S = Sockets \union {NULL}
  OBVIOUS
<1>2. sockets \in Seq(S) /\ NULL \in S
  BY <1>1
<1>3. LET s == Resize(sockets, k, NULL) IN
      /\ s \in Seq(S) /\ Len(s) = k
      /\ \A i \in 1 .. k : s[i] = IF i <= Len(sockets) THEN sockets[i] ELSE NULL
  BY <1>2, ResizeLemma
<1> QED  BY <1>1, <1>3

LEMMA ResizedItems ==
  ASSUME NEW k \in Nat, items \in Seq(Item), NoItem \in Item
  PROVE  LET s == Resize(items, k, NoItem) IN
         /\ s \in Seq(Item) /\ Len(s) = k
         /\ \A i \in 1 .. k : s[i] = IF i <= Len(items) THEN items[i] ELSE NoItem
<1>1. PICK S : S = Item
  OBVIOUS
<1>2. items \in Seq(S) /\ NoItem \in S
  BY <1>1
<1>3. LET s == Resize(items, k, NoItem) IN
      /\ s \in Seq(S) /\ Len(s) = k
      /\ \A i \in 1 .. k : s[i] = IF i <= Len(items) THEN items[i] ELSE NoItem
  BY <1>2, ResizeLemma
<1> QED  BY <1>1, <1>3

LEMMA ResizedHandlers ==
  ASSUME NEW k \in Nat, handlers \in Seq(Functions \union {NULL})
  PROVE  LET s == Resize(handlers, k, NULL) IN
         /\ s \in Seq(Functions \union {NULL}) /\ Len(s) = k
         /\ \A i \in 1 .. k : s[i] = IF i <= Len(handlers) THEN handlers[i] ELSE NULL
<1>1. PICK S : S = Functions \union {NULL}
  OBVIOUS
<1>2. handlers \in Seq(S) /\ NULL \in S
  BY <1>1
<1>3. LET s == Resize(handlers, k, NULL) IN
      /\ s \in Seq(S) /\ Len(s) = k
      /\ \A i \in 1 .. k : s[i] = IF i <= Len(handlers) THEN handlers[i] ELSE NULL
  BY <1>2, ResizeLemma
<1> QED  BY <1>1, <1>3

LEMMA ChangedHandler ==
  ASSUME handlers \in Seq(Functions \union {NULL}), NEW k \in 1 .. Len(handlers),
         NEW f \in Functions
  PROVE  LET s == [handlers EXCEPT ![k] = f] IN
         /\ s \in Seq(Functions \union {NULL}) /\ Len(s) = Len(handlers)
         /\ \A i \in 1 .. Len(handlers) : s[i] = IF i = k THEN f ELSE handlers[i]
BY ExceptLemma

LEMMA AddItemVectors ==
  ASSUME Vectors, NEW s \in Sockets \union {NULL}, NEW m \in SUBSET Events,
         NEW f \in Functions, AddItem(s, m), handlers' = Append(handlers, f)
  PROVE  Vectors'
<1> DEFINE item == [socket |-> s, events |-> m, revents |-> {}]
<1>1. item \in Item /\ item.socket = s
  BY DEF Item
<1>2. /\ items' = Append(items, item) /\ sockets' = Append(sockets, s)
      /\ Grow(Len(items), Len(items) + 1)
  BY DEF AddItem
<1> HIDE DEF item
<1>3. /\ items' \in Seq(Item) /\ sockets' \in Seq(Sockets \union {NULL})
      /\ handlers' \in Seq(Functions \union {NULL})
  BY <1>1, <1>2, AppendProperties DEF Vectors
<1>4. /\ Len(items') = Len(items) + 1 /\ Len(sockets') = Len(sockets) + 1
      /\ Len(handlers') = Len(handlers) + 1
      /\ \A i \in 1 .. Len(items) + 1 :
           /\ items'[i] = IF i <= Len(items) THEN items[i] ELSE item
           /\ sockets'[i] = IF i <= Len(items) THEN sockets[i] ELSE s
           /\ handlers'[i] = IF i <= Len(items) THEN handlers[i] ELSE f
  BY <1>1, <1>2, VectorsSizes, AppendProperties DEF Vectors
<1>5. capacity' \in Nat
  BY <1>2, GrowType, VectorsSizes DEF Vectors
<1>6. \A i \in 1 .. Len(items') :
        /\ items'[i].socket = sockets'[i]
        /\ handlers'[i] = NULL => items'[i].events = {}
  BY <1>1, <1>4, VectorsSizes, ReactorAssumption
<1> QED  BY <1>3, <1>4, <1>5, <1>6, VectorsSizes, VectorsFromPositions

LEMMA RemoveFromVectors ==
  ASSUME Vectors, NEW k \in Nat, RemoveFrom(k), handlers' = Resize(handlers, k, NULL)
  PROVE  Vectors'
<1>1. NoItem \in Item /\ NoItem.socket = NULL /\ NoItem.events = {}
  BY DEF NoItem, Item
<1>2. /\ items' = Resize(items, k, NoItem) /\ sockets' = Resize(sockets, k, NULL)
      /\ Grow(Len(items), k)
  BY DEF RemoveFrom
<1>3. /\ items' \in Seq(Item) /\ Len(items') = k
      /\ \A i \in 1 .. k : items'[i] = IF i <= Len(items) THEN items[i] ELSE NoItem
  BY <1>1, <1>2, ResizedItems DEF Vectors
<1>4. /\ sockets' \in Seq(Sockets \union {NULL}) /\ Len(sockets') = k
      /\ \A i \in 1 .. k : sockets'[i] = IF i <= Len(sockets) THEN sockets[i] ELSE NULL
  BY <1>2, ResizedSockets DEF Vectors
<1>5. /\ handlers' \in Seq(Functions \union {NULL}) /\ Len(handlers') = k
      /\ \A i \in 1 .. k : handlers'[i] = IF i <= Len(handlers) THEN handlers[i] ELSE NULL
  BY ResizedHandlers DEF Vectors
<1>6. capacity' \in Nat
  BY <1>2, GrowType, VectorsSizes DEF Vectors
<1>7. \A i \in 1 .. k :
        /\ items'[i].socket = sockets'[i]
        /\ handlers'[i] = NULL => items'[i].events = {}
  BY <1>1, <1>3, <1>4, <1>5, VectorsSizes
<1> QED  BY <1>3, <1>4, <1>5, <1>6, <1>7, VectorsFromPositions

LEMMA ReplaceEntryVectors ==
  ASSUME Vectors, NEW s \in Sockets, NEW m \in SUBSET Events, NEW f \in Functions,
         IndexOf(s) # 0, ReplaceEntry(IndexOf(s), s, m),
         handlers' = [handlers EXCEPT ![IndexOf(s)] = f]
  PROVE  Vectors' /\ Len(items') = Len(items)
<1> DEFINE item == [socket |-> s, events |-> m, revents |-> {}]
           k == IndexOf(s)
<1>1. item \in Item /\ item.socket = s
  BY DEF Item
<1>2. k \in 1 .. Len(items) /\ k \in 1 .. Len(sockets) /\ k \in 1 .. Len(handlers)
  BY IndexOfLemma, VectorsSizes DEF Vectors
<1>3. /\ items' = [items EXCEPT ![k] = item] /\ sockets' = [sockets EXCEPT ![k] = s]
      /\ capacity' = capacity /\ handlers' = [handlers EXCEPT ![k] = f]
  BY DEF ReplaceEntry
<1> HIDE DEF item, k
<1>4. /\ items' \in Seq(Item) /\ Len(items') = Len(items)
      /\ \A i \in 1 .. Len(items) : items'[i] = IF i = k THEN item ELSE items[i]
  BY <1>1, <1>2, <1>3, ExceptLemma DEF Vectors
<1>5. /\ sockets' \in Seq(Sockets \union {NULL}) /\ Len(sockets') = Len(sockets)
      /\ \A i \in 1 .. Len(sockets) : sockets'[i] = IF i = k THEN s ELSE sockets[i]
  BY <1>2, <1>3, ExceptLemma DEF Vectors
<1>6. /\ handlers' \in Seq(Functions \union {NULL}) /\ Len(handlers') = Len(handlers)
      /\ \A i \in 1 .. Len(handlers) : handlers'[i] = IF i = k THEN f ELSE handlers[i]
  <2>1. handlers \in Seq(Functions \union {NULL})
    BY DEF Vectors
  <2>2. k \in 1 .. Len(handlers)
    BY <1>2
  <2>3. LET s1 == [handlers EXCEPT ![k] = f] IN
        /\ s1 \in Seq(Functions \union {NULL}) /\ Len(s1) = Len(handlers)
        /\ \A i \in 1 .. Len(handlers) : s1[i] = IF i = k THEN f ELSE handlers[i]
    BY <2>1, <2>2, ChangedHandler
  <2> QED  BY <1>3, <2>3
<1>7. \A i \in 1 .. Len(items') :
        /\ items'[i].socket = sockets'[i]
        /\ handlers'[i] = NULL => items'[i].events = {}
  BY <1>1, <1>4, <1>5, <1>6, VectorsSizes, ReactorAssumption
<1> QED  BY <1>3, <1>4, <1>5, <1>6, <1>7, VectorsSizes, VectorsFromPositions DEF Vectors

(* The two ways the items change whole keep all but one of their fields. *)
LEMMA ReplaceEverywhereVectors ==
  ASSUME Vectors, NEW old \in Sockets, NEW new \in Sockets,
         ReplaceEverywhere(old, new), handlers' = handlers
  PROVE  /\ Vectors' /\ Len(items') = Len(items)
         /\ \A i \in 1 .. Len(items) :
              /\ items'[i].events = items[i].events
              /\ items'[i].revents = items[i].revents
<1> DEFINE hit(i) == sockets[i] = old /\ items[i].socket = old
<1>1. /\ sockets' = [i \in 1 .. Len(items) |-> IF hit(i) THEN new ELSE sockets[i]]
      /\ items' = [i \in 1 .. Len(items) |->
                     IF hit(i) THEN [items[i] EXCEPT !.socket = new] ELSE items[i]]
      /\ capacity' = capacity
  BY VectorsSizes DEF ReplaceEverywhere
<1>2. \A i \in 1 .. Len(items) :
        /\ sockets'[i] \in Sockets \union {NULL}
        /\ items'[i] \in Item /\ items'[i].socket = sockets'[i]
        /\ items'[i].events = items[i].events
        /\ items'[i].revents = items[i].revents
  BY <1>1, VectorsSizes DEF Item
<1>3. items' \in [1 .. Len(items) -> Item]
  BY <1>1, <1>2
<1>4. sockets' \in [1 .. Len(items) -> Sockets \union {NULL}]
  BY <1>1, <1>2
<1> HIDE DEF hit
<1>5. /\ items' \in Seq(Item) /\ Len(items') = Len(items)
      /\ sockets' \in Seq(Sockets \union {NULL}) /\ Len(sockets') = Len(items)
  BY <1>3, <1>4, MapLemma DEF Vectors
<1> QED  BY <1>1, <1>2, <1>5, VectorsSizes, VectorsFromPositions DEF Vectors

LEMMA ReportedVectors ==
  ASSUME Vectors, NEW r \in [1 .. Len(items) -> SUBSET (Events \union {"ERR"})],
         items' = [i \in DOMAIN items |-> [items[i] EXCEPT !.revents = r[i]]],
         UNCHANGED <<sockets, capacity, handlers>>
  PROVE  Vectors' /\ Len(items') = Len(items)
<1>1. items' = [i \in 1 .. Len(items) |-> [items[i] EXCEPT !.revents = r[i]]]
  BY VectorsSizes
<1>2. \A i \in 1 .. Len(items) :
        /\ items'[i] \in Item /\ items'[i].socket = sockets[i]
        /\ items'[i].events = items[i].events
  <2> SUFFICES ASSUME NEW i \in 1 .. Len(items)
               PROVE  /\ items'[i] \in Item /\ items'[i].socket = sockets[i]
                      /\ items'[i].events = items[i].events
    OBVIOUS
  <2>1. items[i] \in Item /\ items[i].socket = sockets[i]
    BY VectorsSizes
  <2>2. items'[i] = [items[i] EXCEPT !.revents = r[i]]
    BY <1>1
  <2>3. r[i] \in SUBSET (Events \union {"ERR"})
    OBVIOUS
  <2> QED  BY <2>1, <2>2, <2>3 DEF Item
<1>3. items' \in [1 .. Len(items) -> Item]
  BY <1>1, <1>2
<1>4. items' \in Seq(Item) /\ Len(items') = Len(items)
  BY <1>3, MapLemma DEF Vectors
<1> QED  BY <1>2, <1>4, VectorsSizes, VectorsFromPositions DEF Vectors

LEMMA SomeMatchedVectors ==
  ASSUME Vectors, SomeMatched, UNCHANGED <<sockets, capacity, handlers>>
  PROVE  Vectors' /\ Len(items') = Len(items)
<1>1. PICK r \in [DOMAIN items -> SUBSET (Events \union {"ERR"})] :
        items' = [i \in DOMAIN items |-> [items[i] EXCEPT !.revents = r[i]]]
  BY DEF SomeMatched
<1> QED  BY <1>1, VectorsSizes, ReportedVectors

LEMMA NoneMatchedVectors ==
  ASSUME Vectors, NoneMatched, UNCHANGED <<sockets, capacity, handlers>>
  PROVE  Vectors' /\ Len(items') = Len(items)
<1> DEFINE r == [i \in 1 .. Len(items) |-> {}]
<1>1. items' = [i \in DOMAIN items |-> [items[i] EXCEPT !.revents = r[i]]]
  BY VectorsSizes DEF NoneMatched
<1>2. r \in [1 .. Len(items) -> SUBSET (Events \union {"ERR"})]
  OBVIOUS
<1> HIDE DEF r
<1> QED  BY <1>1, <1>2, ReportedVectors

-----------------------------------------------------------------------------
(* The other variables. *)

Timing ==
  /\ now \in 0 .. MaxNow
  /\ skew \in -MaxSkew .. MaxSkew
  /\ stepped \in BOOLEAN
  /\ wait \in Nat \union {-1} /\ remaining \in Nat \union {-1}
  /\ start \in Int /\ waited \in Int /\ lastEv \in Int

Control ==
  /\ static \in Kinds
  /\ pc \in {"build", "app", "poll", "dispatch", "callback"}
  /\ once \in BOOLEAN
  /\ timeout \in Timeouts /\ limit \in MaxEvents
  /\ polls \in Nat
  /\ result \in {"none", "OK", "NONE_MATCHED", "CANCELLED", "ERROR"}
  /\ n \in Nat \ {0} /\ last \in Nat
  /\ valid \in BOOLEAN /\ resized \in BOOLEAN
  /\ handled \in BOOLEAN /\ cancelled \in BOOLEAN
  /\ called \subseteq Nat

LEMMA TableParts == TableInv <=> Vectors /\ Timing /\ Control
BY DEF TableInv, TypeOK, BaseTypeOK, Vectors, Timing, Control

LEMMA TablePartsNext == (TableInv)' <=> Vectors' /\ Timing' /\ Control'
BY DEF TableInv, TypeOK, BaseTypeOK, Vectors, Timing, Control

LEMMA ClockType == ASSUME Timing PROVE Clock \in Int /\ Elapsed \in Nat
BY BaseAssumption DEF Timing, Clock, Elapsed

LEMMA VectorsUnchanged ==
  ASSUME Vectors, UNCHANGED <<vectors, handlers>> PROVE Vectors'
BY DEF Vectors, vectors, Aligned, BlankSilent

LEMMA TimingUnchanged ==
  ASSUME Timing, UNCHANGED <<clockVars, pollVars, timerVars>> PROVE Timing'
BY DEF Timing, clockVars, pollVars, timerVars

LEMMA TickTimerType ==
  ASSUME Timing, TickTimer
  PROVE  remaining' \in Nat \union {-1} /\ lastEv' \in Int
<1>1. CASE remaining > 0
  BY <1>1, ClockType DEF Timing, TickTimer
<1>2. CASE ~(remaining > 0)
  BY <1>2 DEF Timing, TickTimer, timerVars
<1> QED  BY <1>1, <1>2

LEMMA FinishType ==
  ASSUME Timing, Control, NEW res \in {"OK", "NONE_MATCHED", "CANCELLED", "ERROR"},
         Finish(res), UNCHANGED <<clockVars, static, once, timeout, limit>>,
         handled' \in BOOLEAN, cancelled' \in BOOLEAN
  PROVE  Timing' /\ Control'
<1>1. UNCHANGED <<now, skew, stepped, static, once, timeout, limit>>
  BY DEF clockVars
<1>5. valid' \in BOOLEAN /\ resized' \in BOOLEAN
  BY Zenon DEF Finish
<1>2. /\ n' \in Nat \ {0} /\ last' \in Nat /\ called' \subseteq Nat
      /\ pc' \in {"app", "poll"} /\ result' \in {result, res}
  BY DEF Finish
<1>3. /\ remaining' \in Nat \union {-1} /\ lastEv' \in Int /\ polls' \in Nat
      /\ \/ UNCHANGED pollVars
         \/ StartPoll(remaining', Clock)
  <2>1. CASE once \/ res \notin {"OK", "NONE_MATCHED"}
    BY <2>1 DEF Finish, Timing, Control, timerVars, pollVars
  <2>2. CASE ~(once \/ res \notin {"OK", "NONE_MATCHED"})
    BY <2>2, TickTimerType DEF Finish, Control
  <2> QED  BY <2>1, <2>2
<1>4. wait' \in Nat \union {-1} /\ start' \in Int /\ waited' \in Int
  BY <1>3, ClockType DEF Timing, StartPoll, pollVars
<1> QED  BY <1>1, <1>2, <1>3, <1>4, <1>5 DEF Timing, Control

-----------------------------------------------------------------------------
(* Each action keeps the vectors aligned and the types. *)

LEMMA TableUnchangedType ==
  ASSUME Timing, Control, UNCHANGED tableUnchanged,
         valid' \in BOOLEAN, resized' \in BOOLEAN
  PROVE  Timing' /\ Control'
BY DEF tableUnchanged, clockVars, pollVars, timerVars, runVars, history, Timing, Control

LEMMA TableActions ==
  ASSUME TableInv, Table \/ Build
  PROVE  (TableInv)'
<1> USE TableParts, TablePartsNext
<1>1. ASSUME NEW s \in Sockets \union {NULL}, NEW m \in Masks, NEW f \in Functions,
             AddHandler(s, m, f) \/ MakeStaticPair(s, m, f)
      PROVE  (TableInv)'
  <2>1. /\ AddItem(s, m) /\ handlers' = Append(handlers, f)
        /\ UNCHANGED tableUnchanged /\ valid' \in {valid, valid /\ capacity' = capacity}
        /\ resized' \in {resized, pc = "callback"}
    BY <1>1 DEF AddHandler, MakeStaticPair, Resized
  <2>2. m \in SUBSET Events
    BY ReactorAssumption
  <2>3. Vectors'
    BY <2>1, <2>2, AddItemVectors
  <2>4. valid' \in BOOLEAN /\ resized' \in BOOLEAN
    BY <2>1 DEF Control
  <2> QED  BY <2>1, <2>3, <2>4, TableUnchangedType
<1>2. ASSUME NEW s \in Sockets, NEW m \in Masks, NEW f \in Functions,
             ReplaceHandler(s, m, f)
      PROVE  (TableInv)'
  <2>1. /\ IndexOf(s) # 0 /\ ReplaceEntry(IndexOf(s), s, m)
        /\ handlers' = [handlers EXCEPT ![IndexOf(s)] = f]
        /\ UNCHANGED tableUnchanged /\ valid' = valid /\ resized' = resized
    BY <1>2 DEF ReplaceHandler
  <2>2. m \in SUBSET Events
    BY ReactorAssumption
  <2>3. Vectors'
    BY <2>1, <2>2, ReplaceEntryVectors
  <2>4. valid' \in BOOLEAN /\ resized' \in BOOLEAN
    BY <2>1 DEF Control
  <2> QED  BY <2>1, <2>3, <2>4, TableUnchangedType
<1>3. ASSUME NEW k \in 0 .. MaxItems, RemoveHandlersFrom(k)
      PROVE  (TableInv)'
  <2>1. /\ RemoveFrom(k) /\ handlers' = Resize(handlers, k, NULL)
        /\ UNCHANGED tableUnchanged /\ valid' = (valid /\ capacity' = capacity)
        /\ resized' = (pc = "callback")
    BY <1>3 DEF RemoveHandlersFrom, Resized
  <2>2. k \in Nat
    BY BaseAssumption
  <2>3. Vectors'
    BY <2>1, <2>2, RemoveFromVectors
  <2>4. valid' \in BOOLEAN /\ resized' \in BOOLEAN
    BY <2>1 DEF Control
  <2> QED  BY <2>1, <2>3, <2>4, TableUnchangedType
<1>4. ASSUME NEW old \in Sockets, NEW new \in Sockets, ReplaceSocket(old, new)
      PROVE  (TableInv)'
  <2>1. /\ ReplaceEverywhere(old, new) /\ handlers' = handlers
        /\ UNCHANGED tableUnchanged /\ valid' = valid /\ resized' = resized
    BY <1>4 DEF ReplaceSocket
  <2>2. Vectors'
    BY <2>1, ReplaceEverywhereVectors
  <2>3. valid' \in BOOLEAN /\ resized' \in BOOLEAN
    BY <2>1 DEF Control
  <2> QED  BY <2>1, <2>2, <2>3, TableUnchangedType
<1>5. CASE MakeStaticDone
  <2>1. Vectors' /\ Timing'
    BY <1>5, VectorsUnchanged, TimingUnchanged DEF MakeStaticDone
  <2>2. Control'
    BY <1>5 DEF MakeStaticDone, Control, runVars, dispatchVars, iterators, history
  <2> QED  BY <2>1, <2>2
<1> QED  BY <1>1, <1>2, <1>3, <1>4, <1>5 DEF Table, Build

LEMMA CallActions ==
  ASSUME TableInv, Calls
  PROVE  (TableInv)'
<1> USE TableParts, TablePartsNext
<1>1. Timeouts \subseteq Nat \union {-1}
  BY ReactorAssumption
<1>2. 0 \in 0 .. MaxNow /\ 0 \in -MaxSkew .. MaxSkew
  BY BaseAssumption
<1>3. ASSUME NEW o \in BOOLEAN, NEW t \in Timeouts, NEW k \in MaxEvents, Call(o, t, k)
      PROVE  (TableInv)'
  <2>1. Vectors'
    BY <1>3, VectorsUnchanged DEF Call
  <2>2. Timing'
    <3>1. /\ now' = 0 /\ skew' = 0 /\ stepped' = FALSE
          /\ wait' = t /\ remaining' = t /\ start' = 0 /\ waited' = 0 /\ lastEv' = 0
      BY <1>3 DEF Call, StartTimer, StartPoll
    <3>2. t \in Nat \union {-1}
      BY <1>1
    <3>3. stepped' \in BOOLEAN
      BY <3>1, Zenon
    <3> QED  BY <1>2, <3>1, <3>2, <3>3 DEF Timing
  <2>3. Control'
    BY <1>3 DEF Call, Control, iterators
  <2> QED  BY <2>1, <2>2, <2>3
<1>4. ASSUME NEW t \in Timeouts, CallNothing(t)
      PROVE  (TableInv)'
  <2>1. Vectors'
    BY <1>4, VectorsUnchanged DEF CallNothing
  <2>2. Timing'
    <3>1. /\ now' = 0 /\ skew' = 0 /\ stepped' = FALSE
          /\ remaining' = t /\ lastEv' = 0 /\ UNCHANGED <<wait, start, waited>>
      BY <1>4 DEF CallNothing, StartTimer, pollVars
    <3>2. t \in Nat \union {-1}
      BY <1>1
    <3>3. stepped' \in BOOLEAN
      BY <3>1, Zenon
    <3> QED  BY <1>2, <3>1, <3>2, <3>3 DEF Timing
  <2>3. Control'
    BY <1>4 DEF CallNothing, Control, dispatchVars, iterators
  <2> QED  BY <2>1, <2>2, <2>3
<1> QED  BY <1>3, <1>4 DEF Calls

LEMMA PollActions ==
  ASSUME TableInv, PollError \/ PollNone \/ PollMatched
  PROVE  (TableInv)'
<1> USE TableParts, TablePartsNext
<1>1. CASE PollError
  <2>1. /\ Finish("ERROR") /\ UNCHANGED <<vectors, handlers>>
        /\ UNCHANGED <<clockVars, static, once, timeout, limit, handled, cancelled>>
    BY <1>1 DEF PollError, pollUnchanged, history, vectors
  <2>2. Timing' /\ Control'
    BY <2>1, FinishType DEF Control
  <2> QED  BY <2>1, <2>2, VectorsUnchanged
<1>2. CASE PollNone
  <2>1. /\ NoneMatched /\ UNCHANGED <<sockets, capacity, handlers>>
        /\ UNCHANGED <<clockVars, static, once, timeout, limit, handled, cancelled>>
        /\ \/ Finish("NONE_MATCHED")
           \/ /\ ~TimedOut /\ PollAgain
              /\ UNCHANGED <<timerVars, pc, polls, result, dispatchVars>>
    BY <1>2 DEF PollNone, pollUnchanged, history
  <2>2. Vectors'
    BY <2>1, NoneMatchedVectors
  <2>3. CASE Finish("NONE_MATCHED")
    <3>1. Timing' /\ Control'
      BY <2>1, <2>3, FinishType DEF Control
    <3> QED  BY <2>2, <3>1
  <2>4. CASE ~Finish("NONE_MATCHED")
    <3>1. Control'
      BY <2>1, <2>4 DEF Control, dispatchVars, iterators
    <3>2. wait' \in Nat /\ start' \in Int /\ waited' \in Int
      BY <2>1, <2>4, ClockType DEF PollAgain, TimedOut, Timing
    <3>3. Timing'
      BY <2>1, <2>4, <3>2 DEF Timing, clockVars, timerVars
    <3> QED  BY <2>2, <3>1, <3>3
  <2> QED  BY <2>3, <2>4
<1>3. CASE PollMatched
  <2>1. Vectors' /\ Timing'
    BY <1>3, SomeMatchedVectors, TimingUnchanged DEF PollMatched
  <2>2. Len(items) \in Nat
    BY VectorsSizes
  <2>3. Control'
    BY <1>3, <2>2 DEF PollMatched, Control, runVars, history
  <2> QED  BY <2>1, <2>3
<1> QED  BY <1>1, <1>2, <1>3

LEMMA DispatchActions ==
  ASSUME TableInv, Skip \/ CallHandler \/ Continue \/ Cancel \/ Throw \/ DispatchDone
  PROVE  (TableInv)'
<1> USE TableParts, TablePartsNext
<1>1. UNCHANGED <<vectors, handlers, clockVars, static, once, timeout, limit>>
  BY DEF Skip, CallHandler, Continue, Cancel, Throw, DispatchDone, dispatchUnchanged
<1>2. Vectors'
  BY <1>1, VectorsUnchanged
<1>3. CASE Skip \/ CallHandler \/ Continue
  <2>1. Timing'
    BY <1>1, <1>3, TimingUnchanged DEF Skip, CallHandler, Continue
  <2>2. /\ n' \in {n, n + 1} /\ pc' \in {"dispatch", "callback"}
        /\ called' \in {called, called \union {n}} /\ handled' \in {handled, TRUE}
        /\ UNCHANGED <<polls, result, last, valid, resized, cancelled>>
    BY <1>3 DEF Skip, CallHandler, Continue, NextPosition, history, iterators
  <2>3. n' \in Nat \ {0} /\ called' \subseteq Nat
    BY <2>2 DEF Control
  <2>4. handled' \in BOOLEAN
    BY <2>2, Zenon DEF Control
  <2>5. Control'
    BY <1>1, <2>2, <2>3, <2>4 DEF Control
  <2> QED  BY <1>2, <2>1, <2>5
<1>4. CASE Cancel \/ DispatchDone
  <2>1. /\ Finish("CANCELLED") \/ Finish("OK")
        /\ handled' = handled /\ cancelled' \in {cancelled, TRUE}
    BY <1>4 DEF Cancel, DispatchDone, history
  <2>2. Timing' /\ Control'
    BY <1>1, <2>1, FinishType DEF Control
  <2> QED  BY <1>2, <2>2
<1>5. CASE Throw
  <2>1. Timing'
    BY <1>1, <1>5, TimingUnchanged DEF Throw
  <2>2. /\ pc' = "app" /\ result' = "none" /\ n' = 1 /\ last' = 0 /\ called' = {}
        /\ UNCHANGED <<polls, handled, cancelled>>
    BY <1>5 DEF Throw, history
  <2>3. valid' \in BOOLEAN /\ resized' \in BOOLEAN
    BY <1>5, Zenon DEF Throw
  <2>4. Control'
    BY <1>1, <2>2, <2>3 DEF Control
  <2> QED  BY <1>2, <2>1, <2>4
<1> QED  BY <1>3, <1>4, <1>5

LEMMA TimeActions ==
  ASSUME TableInv, Pass \/ AdjustClock
  PROVE  (TableInv)'
<1> USE TableParts, TablePartsNext
<1>1. UNCHANGED timeUnchanged
  BY DEF Pass, AdjustClock
<1>2. Vectors' /\ Control'
  BY <1>1, VectorsUnchanged
  DEF timeUnchanged, Control, runVars, dispatchVars, iterators, history
<1>3. CASE Pass
  <2>1. /\ Tick /\ UNCHANGED <<timerVars, wait, start>>
        /\ waited' \in {waited, waited + 1}
    BY <1>1, <1>3 DEF Pass, PassInPoll, timeUnchanged, pollVars
  <2>2. Timing'
    BY <2>1, BaseAssumption DEF Timing, Tick, timerVars
  <2> QED  BY <1>2, <2>2
<1>4. CASE AdjustClock
  <2>1. Timing'
    BY <1>1, <1>4 DEF AdjustClock, SetClock, Timing, pollVars, timerVars, timeUnchanged
  <2> QED  BY <1>2, <2>1
<1> QED  BY <1>3, <1>4

LEMMA TableInit == Init => TableInv
<1> SUFFICES ASSUME Init PROVE TableInv
  OBVIOUS
<1>1. Vectors
  BY DEF Init, BaseInit, Vectors, Aligned, BlankSilent
<1>2. Timing
  <2>1. 0 \in 0 .. MaxNow /\ 0 \in -MaxSkew .. MaxSkew
    BY BaseAssumption
  <2>2. /\ now = 0 /\ skew = 0 /\ stepped = FALSE /\ wait = 0 /\ remaining = 0
        /\ start = 0 /\ waited = 0 /\ lastEv = 0
    BY DEF Init, BaseInit
  <2>3. stepped \in BOOLEAN
    BY <2>2, Zenon
  <2> QED  BY <2>1, <2>2, <2>3 DEF Timing
<1>3. Control
  <2>1. pc \in {"build", "app"}
    BY DEF Init
  <2>2. /\ once \in BOOLEAN /\ valid \in BOOLEAN /\ resized \in BOOLEAN
        /\ handled \in BOOLEAN /\ cancelled \in BOOLEAN
    BY Zenon DEF Init
  <2> QED  BY <2>1, <2>2 DEF Init, Control
<1> QED  BY <1>1, <1>2, <1>3, TableParts

LEMMA TableNext == ASSUME TableInv, [Next]_vars PROVE (TableInv)'
<1>1. CASE UNCHANGED vars
  <2>1. Vectors' /\ Timing'
    BY <1>1, TableParts, VectorsUnchanged, TimingUnchanged DEF vars
  <2>2. Control'
    BY <1>1, TableParts DEF vars, Control, runVars, dispatchVars, iterators, history
  <2> QED  BY <2>1, <2>2, TablePartsNext
<1> QED
  BY <1>1, TableActions, CallActions, PollActions, DispatchActions, TimeActions
  DEF Next, Reactor

(* No operation of the reactor, and no callback that uses it, leaves the   *)
(* three vectors different in size or an entry with another's socket.      *)
THEOREM VectorsAligned == Spec => []Aligned
<1>1. TableInv => Aligned
  BY DEF TableInv
<1> QED  BY <1>1, TableInit, TableNext, PTL DEF Spec

(* The variables of both reactors keep to their types, with any timeouts,  *)
(* however the clock is set.                                               *)
THEOREM TypesKept == Spec => []TypeOK
<1>1. TableInv => TypeOK
  BY DEF TableInv
<1> QED  BY <1>1, TableInit, TableNext, PTL DEF Spec

-----------------------------------------------------------------------------
(* The dispatch calls what matched, and nothing after a cancel. *)

Matching == {i \in DOMAIN items : EventMatches(items[i])}

Dispatched ==
  /\ pc \in {"dispatch", "callback"} => \A i \in 1 .. n - 1 : i \in Matching => i \in called
  /\ pc \in {"dispatch", "callback"} => \A i \in called : i < n \/ (i = n /\ pc = "callback")
  /\ pc = "callback" => n \in called
  /\ pc \notin {"dispatch", "callback"} => called = {}
  /\ cancelled => pc = "app"
  /\ pc = "build" => result = "none"

LEMMA CallsParts == CallsInv <=> TableInv /\ Dispatched
BY DEF CallsInv, Dispatched, AllMatchedCalled, Matching

LEMMA CallsPartsNext == (CallsInv)' <=> (TableInv)' /\ Dispatched'
BY DEF CallsInv, Dispatched, AllMatchedCalled, Matching

LEMMA AddItemMatching ==
  ASSUME Vectors, NEW s \in Sockets \union {NULL}, NEW m \in SUBSET Events, AddItem(s, m)
  PROVE  Matching' \subseteq Matching
<1> DEFINE item == [socket |-> s, events |-> m, revents |-> {}]
<1>1. item \in Item /\ item.revents = {}
  BY DEF Item
<1>2. items' = Append(items, item)
  BY DEF AddItem
<1> HIDE DEF item
<1>3. /\ DOMAIN items' = 1 .. Len(items) + 1
      /\ \A i \in 1 .. Len(items) + 1 :
           items'[i] = IF i <= Len(items) THEN items[i] ELSE item
  BY <1>1, <1>2, AppendProperties, LenProperties, VectorsSizes DEF Vectors
<1> QED  BY <1>1, <1>3, VectorsSizes DEF Matching, EventMatches

LEMMA RemoveFromMatching ==
  ASSUME Vectors, NEW k \in Nat, RemoveFrom(k)
  PROVE  Matching' \subseteq Matching
<1>1. NoItem.revents = {}
  BY DEF NoItem
<1>2. items' = [i \in 1 .. k |-> IF i <= Len(items) THEN items[i] ELSE NoItem]
  BY DEF RemoveFrom, Resize
<1> QED  BY <1>1, <1>2, VectorsSizes DEF Matching, EventMatches

LEMMA ReplaceEntryMatching ==
  ASSUME Vectors, NEW s, NEW m, NEW i, ReplaceEntry(i, s, m)
  PROVE  Matching' \subseteq Matching
<1> DEFINE item == [socket |-> s, events |-> m, revents |-> {}]
<1>1. item.revents = {} /\ items' = [items EXCEPT ![i] = item]
  BY DEF ReplaceEntry
<1> HIDE DEF item
<1> QED  BY <1>1, VectorsSizes DEF Matching, EventMatches

LEMMA ReplaceEverywhereMatching ==
  ASSUME Vectors, NEW old \in Sockets, NEW new \in Sockets,
         ReplaceEverywhere(old, new), handlers' = handlers
  PROVE  Matching' \subseteq Matching
<1>1. /\ Vectors' /\ Len(items') = Len(items)
      /\ \A i \in 1 .. Len(items) :
           /\ items'[i].events = items[i].events
           /\ items'[i].revents = items[i].revents
  BY ReplaceEverywhereVectors
<1>2. DOMAIN items' = 1 .. Len(items')
  BY <1>1, LenProperties DEF Vectors
<1> QED  BY <1>1, <1>2, VectorsSizes DEF Matching, EventMatches

LEMMA TableDispatched ==
  ASSUME CallsInv, Table \/ Build
  PROVE  Dispatched'
<1> USE CallsParts, TableParts
<1>1. ASSUME Matching' \subseteq Matching, UNCHANGED tableUnchanged
      PROVE  Dispatched'
  BY <1>1 DEF Dispatched, tableUnchanged, runVars, history
<1>2. ASSUME NEW s \in Sockets \union {NULL}, NEW m \in Masks, NEW f \in Functions,
             AddHandler(s, m, f) \/ MakeStaticPair(s, m, f)
      PROVE  Dispatched'
  <2>1. m \in SUBSET Events
    BY ReactorAssumption
  <2> QED  BY <1>1, <1>2, <2>1, AddItemMatching DEF AddHandler, MakeStaticPair, Resized
<1>3. ASSUME NEW s \in Sockets, NEW m \in Masks, NEW f \in Functions,
             ReplaceHandler(s, m, f)
      PROVE  Dispatched'
  BY <1>1, <1>3, ReplaceEntryMatching DEF ReplaceHandler
<1>4. ASSUME NEW k \in 0 .. MaxItems, RemoveHandlersFrom(k)
      PROVE  Dispatched'
  <2>1. k \in Nat
    BY BaseAssumption
  <2> QED  BY <1>1, <1>4, <2>1, RemoveFromMatching DEF RemoveHandlersFrom, Resized
<1>5. ASSUME NEW old \in Sockets, NEW new \in Sockets, ReplaceSocket(old, new)
      PROVE  Dispatched'
  BY <1>1, <1>5, ReplaceEverywhereMatching DEF ReplaceSocket
<1>6. CASE MakeStaticDone
  BY <1>6 DEF MakeStaticDone, Dispatched, history, dispatchVars
<1> QED  BY <1>2, <1>3, <1>4, <1>5, <1>6 DEF Table, Build

LEMMA OtherDispatched ==
  ASSUME CallsInv, Calls \/ PollError \/ PollNone \/ PollMatched \/ Pass \/ AdjustClock
  PROVE  Dispatched'
<1> USE CallsParts, TableParts
<1>1. CASE Calls
  BY <1>1 DEF Calls, Call, CallNothing, Dispatched, dispatchVars
<1>2. CASE PollError \/ PollNone
  <2>1. /\ pc = "poll" /\ pc' \in {"app", "poll"} /\ cancelled' = cancelled
        /\ called' \in {called, {}}
    BY <1>2 DEF PollError, PollNone, Finish, pollUnchanged, history, dispatchVars
  <2> QED  BY <2>1 DEF Dispatched
<1>3. CASE PollMatched
  <2>1. /\ pc = "poll" /\ pc' = "dispatch" /\ n' = 1
        /\ UNCHANGED <<called, cancelled>>
    BY <1>3 DEF PollMatched, history
  <2> QED  BY <2>1 DEF Dispatched
<1>4. CASE Pass \/ AdjustClock
  BY <1>4
  DEF Pass, AdjustClock, timeUnchanged, vectors, runVars, dispatchVars, iterators, history,
      Dispatched, Matching
<1> QED  BY <1>1, <1>2, <1>3, <1>4

LEMMA DispatchDispatched ==
  ASSUME CallsInv, Skip \/ CallHandler \/ Continue \/ Cancel \/ Throw \/ DispatchDone
  PROVE  Dispatched'
<1> USE CallsParts, TableParts
<1>1. Matching' = Matching /\ n \in Nat \ {0} /\ called \subseteq Nat
  BY DEF Skip, CallHandler, Continue, Cancel, Throw, DispatchDone, dispatchUnchanged,
         vectors, Matching, Control
<1>2. CASE Skip
  <2>1. n \notin Matching
    BY <1>2 DEF Skip, Matching
  <2>2. pc = "dispatch" /\ n' = n + 1 /\ UNCHANGED <<pc, called, cancelled>>
    BY <1>2 DEF Skip, history
  <2>3. \A i \in 1 .. n' - 1 : i \in 1 .. n - 1 \/ i = n
    BY <1>1, <2>2
  <2>4. \A i \in called' : i < n'
    BY <1>1, <2>2 DEF Dispatched
  <2> QED  BY <1>1, <2>1, <2>2, <2>3, <2>4 DEF Dispatched
<1>3. CASE CallHandler
  BY <1>1, <1>3 DEF CallHandler, Dispatched
<1>4. CASE Continue
  <2>1. /\ pc = "callback" /\ pc' = "dispatch" /\ n' = n + 1
        /\ UNCHANGED <<called, cancelled>>
    BY <1>4 DEF Continue, NextPosition, history
  <2>2. \A i \in 1 .. n' - 1 : i \in 1 .. n - 1 \/ i = n
    BY <1>1, <2>1
  <2>3. \A i \in called' : i < n'
    BY <1>1, <2>1 DEF Dispatched
  <2> QED  BY <1>1, <2>1, <2>2, <2>3 DEF Dispatched
<1>5. CASE Cancel \/ Throw
  <2>1. pc' = "app" /\ called' = {}
    BY <1>5 DEF Cancel, Throw, Finish
  <2> QED  BY <2>1 DEF Dispatched
<1>6. CASE DispatchDone
  <2>1. /\ pc = "dispatch" /\ pc' \in {"app", "poll"} /\ cancelled' = cancelled
        /\ called' = {}
    BY <1>6 DEF DispatchDone, Finish, history
  <2> QED  BY <2>1 DEF Dispatched
<1> QED  BY <1>2, <1>3, <1>4, <1>5, <1>6

LEMMA CallsInit == Init => CallsInv
BY TableInit, CallsParts DEF Init, Dispatched

LEMMA CallsNext == ASSUME CallsInv, [Next]_vars PROVE (CallsInv)'
<1>1. (TableInv)'
  BY TableNext, CallsParts
<1>2. Dispatched'
  <2>1. CASE UNCHANGED vars
    BY <2>1, CallsParts
    DEF vars, vectors, runVars, dispatchVars, iterators, history, Dispatched, Matching
  <2> QED
    BY <2>1, TableDispatched, OtherDispatched, DispatchDispatched DEF Next, Reactor
<1> QED  BY <1>1, <1>2, CallsPartsNext

(* The dispatch passes over no entry whose events have matched, whatever   *)
(* the functions do to the reactor.                                        *)
THEOREM MatchedCalled == Spec => []AllMatchedCalled
<1>1. CallsInv => AllMatchedCalled
  BY DEF CallsInv
<1> QED  BY <1>1, CallsInit, CallsNext, PTL DEF Spec

(* A function that returns false is the last one called in its call of the *)
(* reactor, which returns CANCELLED then, and only then.                   *)
THEOREM CancelEndsCall == Spec => CancelEnds
<1> DEFINE Ends == /\ pc' = "callback" => ~cancelled
                   /\ pc # "app" /\ pc' = "app" => (result' = "CANCELLED" <=> cancelled')
<1>1. ASSUME CallsInv, Next PROVE Ends
  <2>1. /\ cancelled => pc = "app"
        /\ pc = "app" => pc' \in {"app", "poll"}
    BY <1>1, CallsParts
    DEF Dispatched, Next, Table, Build, Calls, Reactor, AddHandler, ReplaceHandler, Resized,
        RemoveHandlersFrom, ReplaceSocket, MakeStaticPair, MakeStaticDone, Call,
        CallNothing, PollError, PollNone, PollMatched, Skip, CallHandler, Continue,
        Cancel, Throw, DispatchDone, Pass, AdjustClock, timeUnchanged, tableUnchanged
  <2>2. ASSUME NEW res \in {"OK", "NONE_MATCHED", "ERROR"}, Finish(res), pc' = "app"
        PROVE  result' = res
    BY <2>2 DEF Finish
  <2>3. CASE Cancel
    <3>1. result' = "CANCELLED" /\ pc' = "app" /\ pc # "app"
      BY <2>3 DEF Cancel, Finish
    <3>2. cancelled'
      BY <2>3, Zenon DEF Cancel
    <3>3. pc' # "callback"
      BY <3>1
    <3> QED  BY <3>1, <3>2, <3>3, Zenon
  <2>4. CASE PollError \/ PollNone \/ DispatchDone
    <3>1. pc \in {"poll", "dispatch"} /\ pc' # "callback" /\ cancelled' = cancelled
      BY <2>4 DEF PollError, PollNone, DispatchDone, Finish, pollUnchanged, history
    <3>2. pc' = "app" => result' \in {"OK", "NONE_MATCHED", "ERROR"}
      BY <2>2, <2>4 DEF PollError, PollNone, DispatchDone
    <3> QED  BY <2>1, <3>1, <3>2
  <2>5. CASE MakeStaticDone
    BY <1>1, <2>5, CallsParts DEF MakeStaticDone, Dispatched, runVars, history
  <2>6. CASE Throw
    <3>1. pc = "callback" /\ pc' = "app" /\ result' = "none" /\ cancelled' = cancelled
      BY <2>6 DEF Throw, history
    <3> QED  BY <2>1, <3>1
  <2>7. CASE ~(Cancel \/ Throw \/ PollError \/ PollNone \/ DispatchDone \/ MakeStaticDone)
    <3>1. pc # "app" => pc' # "app"
      BY <1>1, <2>7
      DEF Next, Table, Build, Calls, Reactor, AddHandler, ReplaceHandler, Resized,
          RemoveHandlersFrom, ReplaceSocket, MakeStaticPair, Call, CallNothing,
          PollMatched, Skip, CallHandler, Continue, Pass, AdjustClock, timeUnchanged,
          tableUnchanged
    <3> QED  BY <2>1, <3>1
  <2> QED  BY <2>3, <2>4, <2>5, <2>6, <2>7
<1>2. CallsInv /\ [Next]_vars => [Ends]_vars
  BY <1>1
<1> QED  BY <1>2, CallsInit, CallsNext, PTL DEF Spec, CancelEnds

-----------------------------------------------------------------------------
(* No entry without a function is called. *)

(* A dispatch calls none of the empty functions that remove_handlers_from  *)
(* leaves when it is told to keep more handlers than there are, in the     *)
(* client or in a callback: their entries ask for no event, and so match   *)
(* none, even if zmq::poll reports one.                                    *)
THEOREM NoEmptyFunction == Spec => NoEmptyCall
<1> DEFINE Full == pc = "dispatch" /\ pc' = "callback" =>
                     n \in DOMAIN handlers /\ handlers[n] # NULL
<1>1. ASSUME TableInv, Next, pc = "dispatch", pc' = "callback"
      PROVE  n \in DOMAIN handlers /\ handlers[n] # NULL
  <2>1. CallHandler
    BY <1>1
    DEF Next, Table, Build, Calls, Reactor, AddHandler, ReplaceHandler, Changing,
        RemoveHandlersFrom, ReplaceSocket, MakeStaticPair, MakeStaticDone, Call,
        CallNothing, PollError, PollNone, PollMatched, Skip, Continue, Cancel, Throw,
        DispatchDone, Finish, Pass, AdjustClock, timeUnchanged
  <2>2. n <= Len(items) /\ EventMatches(items[n])
    BY <2>1 DEF CallHandler
  <2>3. Vectors /\ n \in Nat \ {0}
    BY <1>1, TableParts DEF Control
  <2>4. n \in 1 .. Len(items)
    BY <2>2, <2>3, VectorsSizes
  <2> QED  BY <2>2, <2>3, <2>4, VectorsSizes DEF EventMatches
<1>2. TableInv /\ [Next]_vars => [Full]_vars
  BY <1>1
<1> QED  BY <1>2, TableInit, TableNext, PTL DEF Spec, NoEmptyCall

-----------------------------------------------------------------------------
(* The dispatch stays within the vectors, if it does not outlive a callback *)
(* that has resized them.                                                   *)

LEMMA TableCovered ==
  ASSUME CallsInv, Covered, Table
  PROVE  Covered'
<1> USE CallsParts, TableParts
<1>1. ASSUME Changing, Resized
      PROVE  Covered'
  <2>1. pc' = pc /\ resized' = (pc = "callback") /\ pc \in {"app", "callback"}
    BY <1>1 DEF Changing, Resized, tableUnchanged
  <2> QED  BY <2>1 DEF Covered
<1>2. ASSUME NEW s \in Sockets, NEW m \in Masks, NEW f \in Functions,
             ReplaceHandler(s, m, f)
      PROVE  Covered'
  <2>1. /\ IndexOf(s) # 0 /\ ReplaceEntry(IndexOf(s), s, m)
        /\ handlers' = [handlers EXCEPT ![IndexOf(s)] = f]
        /\ UNCHANGED <<pc, last, valid, resized>>
    BY <1>2 DEF ReplaceHandler, tableUnchanged
  <2>2. Len(items') = Len(items)
    BY <2>1, ReactorAssumption, ReplaceEntryVectors
  <2> QED  BY <2>1, <2>2 DEF Covered
<1>3. ASSUME NEW old \in Sockets, NEW new \in Sockets, ReplaceSocket(old, new)
      PROVE  Covered'
  BY <1>3, ReplaceEverywhereVectors DEF ReplaceSocket, tableUnchanged, Covered
<1> QED  BY <1>1, <1>2, <1>3 DEF Table, AddHandler, RemoveHandlersFrom

LEMMA OtherCovered ==
  ASSUME CallsInv, Covered, Build \/ Calls \/ PollError \/ PollNone \/ Pass \/ AdjustClock
  PROVE  Covered'
<1> USE CallsParts, TableParts
<1>1. CASE Build
  BY <1>1
  DEF Build, MakeStaticPair, MakeStaticDone, tableUnchanged, dispatchVars, iterators, Covered
<1>2. CASE Calls
  BY <1>2 DEF Calls, Call, CallNothing, dispatchVars, iterators, Covered
<1>3. CASE PollError \/ PollNone
  <2>1. pc = "poll" /\ pc' \in {"app", "poll"} /\ (resized' = resized \/ ~resized')
    BY <1>3 DEF PollError, PollNone, Finish, dispatchVars, iterators
  <2> QED  BY <2>1 DEF Covered
<1>4. CASE Pass \/ AdjustClock
  BY <1>4 DEF Pass, AdjustClock, timeUnchanged, vectors, dispatchVars, iterators, Covered
<1> QED  BY <1>1, <1>2, <1>3, <1>4

LEMMA DispatchCovered ==
  ASSUME ResizeCancels, CallsInv, Covered,
         \/ PollMatched \/ Skip \/ CallHandler \/ Continue
         \/ Cancel \/ Throw \/ DispatchDone
  PROVE  Covered'
<1> USE CallsParts, TableParts
<1>1. CASE PollMatched
  <2>1. Len(items') = Len(items)
    BY <1>1, SomeMatchedVectors DEF PollMatched
  <2>2. pc = "poll" /\ pc' = "dispatch" /\ last' = Len(items) /\ resized' = resized
    BY <1>1 DEF PollMatched
  <2>3. valid'
    BY <1>1, Zenon DEF PollMatched
  <2> QED  BY <2>1, <2>2, <2>3 DEF Covered
<1>2. CASE Skip \/ CallHandler \/ Continue
  <2>1. /\ pc \in {"dispatch", "callback"} /\ pc' \in {"dispatch", "callback"}
        /\ pc = "callback" => ~resized
        /\ UNCHANGED <<last, valid, resized, items>>
    BY <1>2 DEF Skip, CallHandler, Continue, dispatchUnchanged, vectors, iterators
  <2> QED  BY <2>1 DEF Covered
<1>3. CASE Cancel \/ Throw
  BY <1>3 DEF Cancel, Throw, Finish, Covered
<1>4. CASE DispatchDone
  <2>1. pc' \in {"app", "poll"} /\ ~resized'
    BY <1>4 DEF DispatchDone, Finish
  <2> QED  BY <2>1 DEF Covered
<1> QED  BY <1>1, <1>2, <1>3, <1>4

LEMMA CoveredNext ==
  ASSUME ResizeCancels, CallsInv, Covered, [Next]_vars
  PROVE  Covered'
<1>1. CASE UNCHANGED vars
  BY <1>1 DEF vars, vectors, dispatchVars, iterators, Covered
<1> QED
  BY <1>1, TableCovered, OtherCovered, DispatchCovered DEF Next, Reactor

(* Callbacks may change the vectors as they like: as long as one that adds *)
(* or removes handlers returns false, or throws, the dispatch reads through *)
(* valid iterators inside the vectors, for the call ends before it reads.  *)
THEOREM DispatchInside == ASSUME ResizeCancels PROVE Spec => []IteratorsValid
<1>1. Init => Covered
  BY DEF Init, Covered
<1>2. CallsInv /\ Covered /\ [Next]_vars => Covered'
  BY CoveredNext
<1>3. CallsInv /\ Covered => IteratorsValid
  BY DEF Covered, IteratorsValid
<1> QED  BY <1>1, <1>2, <1>3, CallsInit, CallsNext, PTL DEF Spec

-----------------------------------------------------------------------------
(* The vectors implement the table of handlers. *)

Entries == [i \in DOMAIN handlers |-> Entry(i)]

EntryType == [socket : Sockets \union {NULL}, events : SUBSET Events,
              fun : Functions \union {NULL}]

LEMMA EntriesLemma ==
  ASSUME Vectors
  PROVE  /\ Entries \in Seq(EntryType) /\ Len(Entries) = Len(items) /\ Len(items) \in Nat
         /\ DOMAIN Entries = 1 .. Len(items)
         /\ \A i \in 1 .. Len(items) :
              Entries[i] = [socket |-> sockets[i], events |-> items[i].events,
                            fun |-> handlers[i]]
<1>1. /\ Entries = [i \in 1 .. Len(items) |-> Entry(i)]
      /\ \A i \in 1 .. Len(items) : Entry(i) \in EntryType
  BY VectorsSizes DEF Entries, Entry, EntryType, Item
<1>2. Entries \in [1 .. Len(items) -> EntryType]
  BY <1>1
<1>3. Entries \in Seq(EntryType) /\ Len(Entries) = Len(items)
  BY <1>2, MapLemma DEF Vectors
<1> QED  BY <1>1, <1>3, VectorsSizes DEF Entry

LEMMA EntriesLemmaNext ==
  ASSUME Vectors'
  PROVE  /\ Entries' \in Seq(EntryType) /\ Len(Entries') = Len(items')
         /\ Len(items') \in Nat
         /\ DOMAIN Entries' = 1 .. Len(items')
         /\ \A i \in 1 .. Len(items') :
              Entries'[i] = [socket |-> sockets'[i], events |-> items'[i].events,
                             fun |-> handlers'[i]]
<1>1. /\ Len(items') \in Nat /\ DOMAIN handlers' = 1 .. Len(items')
      /\ \A i \in 1 .. Len(items') :
           /\ items'[i] \in Item /\ sockets'[i] \in Sockets \union {NULL}
           /\ handlers'[i] \in Functions \union {NULL}
  BY LenProperties, ElementOfSeq DEF Vectors, Aligned
<1>2. /\ Entries' = [i \in 1 .. Len(items') |-> Entry(i)']
      /\ \A i \in 1 .. Len(items') : Entry(i)' \in EntryType
  BY <1>1 DEF Entries, Entry, EntryType, Item
<1>3. Entries' \in [1 .. Len(items') -> EntryType]
  BY <1>2
<1>4. Entries' \in Seq(EntryType) /\ Len(Entries') = Len(items')
  BY <1>3, MapLemma DEF Vectors
<1> QED  BY <1>1, <1>2, <1>4 DEF Entry

(* What an operation that adds an entry, or changes some, makes of the table. *)
LEMMA SameEntries ==
  ASSUME Vectors, Vectors', Len(items') = Len(items),
         \A i \in 1 .. Len(items) :
           /\ items'[i].events = items[i].events
           /\ sockets'[i] = sockets[i] /\ handlers'[i] = handlers[i]
  PROVE  Entries' = Entries
<1>1. \A i \in 1 .. Len(items) : Entries'[i] = Entries[i]
  BY EntriesLemma, EntriesLemmaNext
<1> QED  BY <1>1, EntriesLemma, EntriesLemmaNext, SeqEqual

LEMMA AddEntry ==
  ASSUME Vectors, NEW s \in Sockets \union {NULL}, NEW m \in SUBSET Events,
         NEW f \in Functions, AddItem(s, m), handlers' = Append(handlers, f)
  PROVE  Entries' = Append(Entries, [socket |-> s, events |-> m, fun |-> f])
<1> DEFINE item == [socket |-> s, events |-> m, revents |-> {}]
           e == [socket |-> s, events |-> m, fun |-> f]
<1>1. item \in Item /\ item.events = m /\ e \in EntryType
  BY DEF Item, EntryType
<1>2. items' = Append(items, item) /\ sockets' = Append(sockets, s)
  BY DEF AddItem
<1> HIDE DEF item
<1>3. /\ Len(items') = Len(items) + 1
      /\ \A i \in 1 .. Len(items) + 1 :
           /\ items'[i] = IF i <= Len(items) THEN items[i] ELSE item
           /\ sockets'[i] = IF i <= Len(items) THEN sockets[i] ELSE s
           /\ handlers'[i] = IF i <= Len(items) THEN handlers[i] ELSE f
  BY <1>1, <1>2, VectorsSizes, AppendProperties DEF Vectors
<1>4. Vectors'
  BY AddItemVectors
<1>5. \A i \in 1 .. Len(items) + 1 :
        Entries'[i] = IF i <= Len(items) THEN Entries[i] ELSE e
  <2> TAKE i \in 1 .. Len(items) + 1
  <2>1. Entries'[i] = [socket |-> sockets'[i], events |-> items'[i].events,
                       fun |-> handlers'[i]]
    BY <1>3, <1>4, EntriesLemmaNext
  <2>2. CASE i <= Len(items)
    <3>1. items'[i] = items[i] /\ sockets'[i] = sockets[i] /\ handlers'[i] = handlers[i]
      BY <1>3, <2>2
    <3>2. Entries[i] = [socket |-> sockets[i], events |-> items[i].events,
                        fun |-> handlers[i]]
      BY <2>2, EntriesLemma
    <3> QED  BY <2>1, <2>2, <3>1, <3>2
  <2>3. CASE ~(i <= Len(items))
    <3>1. items'[i] = item /\ sockets'[i] = s /\ handlers'[i] = f
      BY <1>3, <2>3
    <3> QED  BY <1>1, <2>1, <2>3, <3>1
  <2> QED  BY <2>2, <2>3
<1> HIDE DEF e
<1>6. /\ Append(Entries, e) \in Seq(EntryType) /\ Len(Append(Entries, e)) = Len(items) + 1
      /\ \A i \in 1 .. Len(items) + 1 :
           Append(Entries, e)[i] = IF i <= Len(items) THEN Entries[i] ELSE e
  BY <1>1, EntriesLemma, AppendProperties
<1>7. Entries' = Append(Entries, e)
  BY <1>3, <1>4, <1>5, <1>6, EntriesLemmaNext, SeqEqual
<1> QED  BY <1>7 DEF e

LEMMA ReplaceOneEntry ==
  ASSUME Vectors, NEW s \in Sockets, NEW m \in SUBSET Events, NEW f \in Functions,
         IndexOf(s) # 0, ReplaceEntry(IndexOf(s), s, m),
         handlers' = [handlers EXCEPT ![IndexOf(s)] = f]
  PROVE  Entries' = [Entries EXCEPT ![IndexOf(s)].events = m, ![IndexOf(s)].fun = f]
<1> DEFINE k == IndexOf(s)
<1>1. k \in 1 .. Len(items) /\ sockets[k] = s
  BY IndexOfLemma, VectorsSizes DEF Vectors
<1>2. /\ items' = [items EXCEPT ![k] = [socket |-> s, events |-> m, revents |-> {}]]
      /\ sockets' = [sockets EXCEPT ![k] = s] /\ handlers' = [handlers EXCEPT ![k] = f]
  BY DEF ReplaceEntry
<1>3. Vectors' /\ Len(items') = Len(items)
  BY ReplaceEntryVectors
<1> HIDE DEF k
<1>4. \A i \in 1 .. Len(items) :
        Entries'[i] = IF i = k THEN [socket |-> s, events |-> m, fun |-> f] ELSE Entries[i]
  <2> TAKE i \in 1 .. Len(items)
  <2>1. /\ items'[i].events = IF i = k THEN m ELSE items[i].events
        /\ sockets'[i] = IF i = k THEN s ELSE sockets[i]
        /\ handlers'[i] = IF i = k THEN f ELSE handlers[i]
    BY <1>2, VectorsSizes
  <2> QED  BY <1>3, <2>1, EntriesLemma, EntriesLemmaNext
<1> DEFINE changed == [Entries EXCEPT ![k].events = m, ![k].fun = f]
<1>5. /\ changed \in Seq(EntryType) /\ Len(changed) = Len(items)
      /\ \A i \in 1 .. Len(items) :
           changed[i] = IF i = k THEN [socket |-> s, events |-> m, fun |-> f] ELSE Entries[i]
  <2>1. Entries[k] = [socket |-> s, events |-> items[k].events, fun |-> handlers[k]]
    BY <1>1, EntriesLemma
  <2> DEFINE e == [socket |-> s, events |-> m, fun |-> f]
             half == [Entries EXCEPT ![k].events = m]
  <2>4. half[k] = [socket |-> s, events |-> m, fun |-> handlers[k]]
    BY <1>1, <2>1, EntriesLemma
  <2>5. [half[k] EXCEPT !.fun = f] = e
    BY <2>4
  <2>6. changed = [half EXCEPT ![k] = e]
    BY <2>5
  <2>2. changed = [Entries EXCEPT ![k] = [socket |-> s, events |-> m, fun |-> f]]
    BY <2>6
  <2>3. [socket |-> s, events |-> m, fun |-> f] \in EntryType
    BY DEF EntryType
  <2> QED  BY <1>1, <2>2, <2>3, EntriesLemma, ExceptLemma
<1> HIDE DEF changed
<1>6. Entries' = changed
  BY <1>3, <1>4, <1>5, EntriesLemmaNext, SeqEqual
<1> QED  BY <1>6 DEF changed, k

LEMMA ResizeEntries ==
  ASSUME Vectors, NEW k \in Nat, RemoveFrom(k), handlers' = Resize(handlers, k, NULL)
  PROVE  /\ Vectors' /\ Len(items') = k
         /\ \A i \in 1 .. k : Entries'[i] = IF i <= Len(items) THEN Entries[i]
                                                              ELSE Handlers!Blank
<1>1. /\ items' = Resize(items, k, NoItem) /\ sockets' = Resize(sockets, k, NULL)
  BY DEF RemoveFrom
<1>2. Vectors'
  BY RemoveFromVectors
<1>3. NoItem \in Item /\ NoItem.events = {}
  BY DEF NoItem, Item
<1>4. /\ Len(items') = k
      /\ \A i \in 1 .. k :
           /\ items'[i] = IF i <= Len(items) THEN items[i] ELSE NoItem
           /\ sockets'[i] = IF i <= Len(items) THEN sockets[i] ELSE NULL
           /\ handlers'[i] = IF i <= Len(items) THEN handlers[i] ELSE NULL
  BY <1>1, <1>3, ResizedItems, ResizedSockets, ResizedHandlers, VectorsSizes DEF Vectors
<1> QED  BY <1>2, <1>3, <1>4, EntriesLemma, EntriesLemmaNext DEF Handlers!Blank

(* remove_handlers_from cuts the table off, or adds blank entries. *)
LEMMA ResizedTable ==
  ASSUME Vectors, NEW k \in Nat, RemoveFrom(k), handlers' = Resize(handlers, k, NULL)
  PROVE  \/ \E j \in 0 .. Len(Entries) : Entries' = SubSeq(Entries, 1, j)
         \/ /\ IsPrefix(Entries, Entries')
            /\ \A i \in Len(Entries) + 1 .. Len(Entries') : Entries'[i] = Handlers!Blank
<1>1. /\ Vectors' /\ Len(items') = k
      /\ \A i \in 1 .. k : Entries'[i] = IF i <= Len(items) THEN Entries[i]
                                                           ELSE Handlers!Blank
  BY ResizeEntries
<1>2. /\ Entries \in Seq(EntryType) /\ Len(Entries) = Len(items) /\ Len(items) \in Nat
      /\ Entries' \in Seq(EntryType) /\ Len(Entries') = k
  BY <1>1, EntriesLemma, EntriesLemmaNext
<1>3. CASE k <= Len(items)
  <2>1. \A i \in 1 .. k : Entries[i] \in EntryType
    BY <1>2, <1>3, ElementOfSeq
  <2>2. /\ SubSeq(Entries, 1, k) \in Seq(EntryType) /\ Len(SubSeq(Entries, 1, k)) = k
        /\ \A i \in 1 .. k : SubSeq(Entries, 1, k)[i] = Entries[i]
    BY <2>1, SubSeqProperties
  <2>3. Entries' = SubSeq(Entries, 1, k)
    BY <1>1, <1>2, <1>3, <2>2, SeqEqual
  <2> QED  BY <1>2, <1>3, <2>3
<1>4. CASE k > Len(items)
  <2>1. /\ \A i \in 1 .. Len(items) : Entries[i] \in EntryType
        /\ \A i \in 1 .. Len(items) : Entries'[i] \in EntryType
    BY <1>2, <1>4, ElementOfSeq
  <2> DEFINE p == SubSeq(Entries, 1, Len(items))
             q == SubSeq(Entries', 1, Len(items))
  <2>2. /\ p \in Seq(EntryType) /\ Len(p) = Len(items)
        /\ \A i \in 1 .. Len(items) : p[i] = Entries[i]
    BY <1>2, <2>1, SubSeqProperties
  <2>3. /\ q \in Seq(EntryType) /\ Len(q) = Len(items)
        /\ \A i \in 1 .. Len(items) : q[i] = Entries'[i]
    BY <1>2, <2>1, SubSeqProperties
  <2> HIDE DEF p, q
  <2>4. p = q
    BY <1>1, <1>2, <1>4, <2>2, <2>3, SeqEqual
  <2>5. IsPrefix(Entries, Entries')
    BY <1>2, <1>4, <2>4 DEF IsPrefix, p, q
  <2>6. \A i \in Len(Entries) + 1 .. Len(Entries') : Entries'[i] = Handlers!Blank
    BY <1>1, <1>2, <1>4
  <2> QED  BY <2>5, <2>6
<1> QED  BY <1>2, <1>3, <1>4

LEMMA RedirectEntries ==
  ASSUME Vectors, NEW old \in Sockets, NEW new \in Sockets,
         ReplaceEverywhere(old, new), handlers' = handlers
  PROVE  Entries' = [i \in DOMAIN Entries |->
                       IF Entries[i].socket = old
                       THEN [Entries[i] EXCEPT !.socket = new] ELSE Entries[i]]
<1>1. /\ Vectors' /\ Len(items') = Len(items)
      /\ \A i \in 1 .. Len(items) : items'[i].events = items[i].events
  BY ReplaceEverywhereVectors
<1>2. \A i \in 1 .. Len(items) :
        sockets'[i] = IF sockets[i] = old THEN new ELSE sockets[i]
  BY VectorsSizes DEF ReplaceEverywhere
<1> DEFINE r == [i \in 1 .. Len(items) |->
                   IF Entries[i].socket = old
                   THEN [Entries[i] EXCEPT !.socket = new] ELSE Entries[i]]
<1>3. \A i \in 1 .. Len(items) : r[i] \in EntryType /\ Entries'[i] = r[i]
  <2> TAKE i \in 1 .. Len(items)
  <2>1. Entries[i] = [socket |-> sockets[i], events |-> items[i].events, fun |-> handlers[i]]
    BY EntriesLemma
  <2>2. Entries'[i] = [socket |-> sockets'[i], events |-> items[i].events, fun |-> handlers[i]]
    BY <1>1, EntriesLemmaNext
  <2>3. Entries'[i] = r[i]
    BY <1>2, <2>1, <2>2
  <2>4. Entries'[i] \in EntryType
    BY <1>1, EntriesLemmaNext, ElementOfSeq
  <2> QED  BY <2>3, <2>4
<1>4. r \in Seq(EntryType) /\ Len(r) = Len(items)
  <2>1. r \in [1 .. Len(items) -> EntryType]
    BY <1>3
  <2> HIDE DEF r
  <2> QED  BY <2>1, MapLemma DEF Vectors
<1> HIDE DEF r
<1>5. Entries' = r
  BY <1>1, <1>3, <1>4, EntriesLemmaNext, SeqEqual
<1> QED  BY <1>5, EntriesLemma DEF r

LEMMA TableSteps ==
  ASSUME TableInv, Table \/ Build
  PROVE  Handlers!Next \/ Entries' = Entries
<1>1. Vectors
  BY TableParts
<1>2. ASSUME NEW s \in Sockets \union {NULL}, NEW m \in Masks, NEW f \in Functions,
             AddHandler(s, m, f) \/ MakeStaticPair(s, m, f)
      PROVE  Handlers!Next
  <2>1. m \in SUBSET Events
    BY ReactorAssumption
  <2>2. Entries' = Append(Entries, [socket |-> s, events |-> m, fun |-> f])
    BY <1>1, <1>2, <2>1, AddEntry DEF AddHandler, MakeStaticPair
  <2>3. Handlers!Add
    BY <2>1, <2>2 DEF Handlers!Add, Entries
  <2> QED  BY <2>3 DEF Handlers!Next
<1>3. ASSUME NEW s \in Sockets, NEW m \in Masks, NEW f \in Functions,
             ReplaceHandler(s, m, f)
      PROVE  Handlers!Next
  <2> DEFINE k == IndexOf(s)
  <2>1. m \in SUBSET Events
    BY ReactorAssumption
  <2>2. k # 0 /\ Entries' = [Entries EXCEPT ![k].events = m, ![k].fun = f]
    BY <1>1, <1>3, <2>1, ReplaceOneEntry DEF ReplaceHandler
  <2>3. /\ k \in 1 .. Len(sockets) /\ sockets[k] = s
        /\ \A j \in 1 .. k - 1 : sockets[j] # s
    BY <1>1, <2>2, IndexOfLemma DEF Vectors
  <2> HIDE DEF k
  <2>4. k \in DOMAIN Entries /\ Entries[k].socket = s /\ s # NULL
    BY <1>1, <2>3, EntriesLemma, VectorsSizes, BaseAssumption
  <2>5. \A j \in 1 .. k - 1 : Entries[j].socket # Entries[k].socket
    BY <1>1, <2>3, <2>4, EntriesLemma, VectorsSizes
  <2>6. \E i \in DOMAIN Entries, mask \in SUBSET Events, fun \in Functions :
          /\ Entries[i].socket # NULL
          /\ \A j \in 1 .. i - 1 : Entries[j].socket # Entries[i].socket
          /\ Entries' = [Entries EXCEPT ![i].events = mask, ![i].fun = fun]
    BY <2>1, <2>2, <2>4, <2>5
  <2>7. Handlers!Replace
    BY <2>6 DEF Handlers!Replace, Entries
  <2> QED  BY <2>7 DEF Handlers!Next
<1>4. ASSUME NEW k \in 0 .. MaxItems, RemoveHandlersFrom(k)
      PROVE  Handlers!Next
  <2>1. k \in Nat
    BY BaseAssumption
  <2>2. \/ \E j \in 0 .. Len(Entries) : Entries' = SubSeq(Entries, 1, j)
        \/ /\ IsPrefix(Entries, Entries')
           /\ \A i \in Len(Entries) + 1 .. Len(Entries') : Entries'[i] = Handlers!Blank
    BY <1>1, <1>4, <2>1, ResizedTable DEF RemoveHandlersFrom
  <2>3. Handlers!Truncate \/ Handlers!Extend
    BY <2>2 DEF Handlers!Truncate, Handlers!Extend, Handlers!IsPrefix, IsPrefix, Entries
  <2> QED  BY <2>3 DEF Handlers!Next
<1>5. ASSUME NEW old \in Sockets, NEW new \in Sockets, ReplaceSocket(old, new)
      PROVE  Handlers!Next
  <2>1. Entries' = [i \in DOMAIN Entries |->
                      IF Entries[i].socket = old
                      THEN [Entries[i] EXCEPT !.socket = new] ELSE Entries[i]]
    BY <1>1, <1>5, RedirectEntries DEF ReplaceSocket
  <2>2. Handlers!Redirect
    BY <2>1 DEF Handlers!Redirect, Entries
  <2> QED  BY <2>2 DEF Handlers!Next
<1>6. CASE MakeStaticDone
  BY <1>6 DEF MakeStaticDone, Entries, Entry, vectors
<1> QED  BY <1>2, <1>3, <1>4, <1>5, <1>6 DEF Table, Build

(* Events that have matched are not part of the table. *)
LEMMA ReportsOnly ==
  ASSUME Vectors, SomeMatched \/ NoneMatched, UNCHANGED <<sockets, capacity, handlers>>
  PROVE  Entries' = Entries
<1>1. Vectors' /\ Len(items') = Len(items)
  BY SomeMatchedVectors, NoneMatchedVectors
<1>2. \A i \in 1 .. Len(items) : items'[i].events = items[i].events
  BY VectorsSizes DEF SomeMatched, NoneMatched, Item
<1>3. sockets' = sockets /\ handlers' = handlers
  OBVIOUS
<1> QED  BY <1>1, <1>2, <1>3, SameEntries

LEMMA OtherSteps ==
  ASSUME TableInv, Calls \/ Reactor \/ PollError \/ Throw \/ Pass \/ AdjustClock
  PROVE  Entries' = Entries
<1>1. CASE PollNone \/ PollMatched
  <2>1. /\ SomeMatched \/ NoneMatched
        /\ UNCHANGED <<sockets, capacity, handlers>>
    BY <1>1 DEF PollNone, PollMatched, pollUnchanged
  <2> QED  BY <2>1, ReportsOnly, TableParts
<1>2. CASE ~(PollNone \/ PollMatched)
  <2>1. UNCHANGED <<vectors, handlers>>
    BY <1>2
    DEF Calls, Call, CallNothing, Reactor, Skip, CallHandler, Continue, Cancel,
        DispatchDone, PollError, Throw, Pass, AdjustClock, dispatchUnchanged,
        pollUnchanged, timeUnchanged, vectors
  <2> QED  BY <2>1 DEF Entries, Entry, vectors
<1> QED  BY <1>1, <1>2

(* The three vectors behave as one table of entries: every step of either  *)
(* reactor, in the client or in a callback, is one the table allows, or    *)
(* leaves it alone.                                                        *)
THEOREM VectorsImplementTable == Spec => ImplementsTable
<1>1. Init => Handlers!Init
  BY DEF Init, BaseInit, Handlers!Init
<1>2. TableInv /\ [Next]_vars => [Handlers!Next]_[i \in DOMAIN handlers |-> Entry(i)]
  <2>1. ASSUME TableInv, Next PROVE Handlers!Next \/ Entries' = Entries
    BY <2>1, TableSteps, OtherSteps DEF Next
  <2>2. ASSUME UNCHANGED vars PROVE Entries' = Entries
    BY <2>2 DEF vars, vectors, Entries, Entry
  <2> QED  BY <2>1, <2>2 DEF Entries
<1> QED  BY <1>1, <1>2, TableInit, TableNext, PTL DEF Spec, ImplementsTable, Handlers!Spec

-----------------------------------------------------------------------------
(* The time a call of poll takes.  The parts of its invariant: *)

(* The account of the Timer. *)
Balanced == remaining + lastEv = timeout /\ lastEv >= -MaxSkew

(* The account of a round of do_poll. *)
Rounded ==
  /\ 0 <= wait /\ start + wait <= timeout
  /\ now - waited <= start + MaxSkew
  /\ wait = 0 => timeout = 0
  /\ 0 <= waited
  /\ ~stepped => start + wait = timeout /\ now = start + waited

Unset == ~stepped => skew = 0

Accounts ==
  /\ Unset
  /\ Inside => Balanced
  /\ Inside /\ pc = "poll" => Rounded
  /\ NeverTooShort

LEMMA TimeParts == TimeInv <=> CallsInv /\ Accounts
BY DEF TimeInv, Accounts, Balanced, Rounded, Unset

LEMMA TimePartsNext == (TimeInv)' <=> (CallsInv)' /\ Accounts'
BY DEF TimeInv, Accounts, Balanced, Rounded, Unset

LEMMA TimeTypes ==
  ASSUME TableInv
  PROVE  /\ now \in Nat /\ skew \in Int /\ skew >= -MaxSkew /\ stepped \in BOOLEAN
         /\ wait \in Int /\ start \in Int /\ waited \in Int
         /\ remaining \in Int /\ lastEv \in Int
         /\ timeout \in Int /\ timeout >= -1 /\ MaxSkew \in Nat
         /\ Clock \in Int /\ Clock = now + skew
<1>1. Timing /\ Control
  BY TableParts
<1>2. MaxNow \in Nat /\ MaxSkew \in Nat
  BY BaseAssumption
<1>3. stepped \in BOOLEAN
  BY <1>1 DEF Timing
<1>4. timeout \in Nat \union {-1}
  BY <1>1, ReactorAssumption DEF Control
<1>5. now \in Nat /\ skew \in Int /\ skew >= -MaxSkew
  BY <1>1, <1>2 DEF Timing
<1>6. /\ wait \in Int /\ start \in Int /\ waited \in Int
      /\ remaining \in Int /\ lastEv \in Int
  BY <1>1 DEF Timing
<1> QED  BY <1>2, <1>3, <1>4, <1>5, <1>6 DEF Clock

(* The accounts depend on these variables only. *)
LEMMA SameAccounts ==
  ASSUME Accounts, UNCHANGED <<clockVars, pollVars, timerVars, pc, runVars>>
  PROVE  Accounts'
BY DEF Accounts, Unset, Inside, Balanced, Rounded, NeverTooShort, clockVars, pollVars,
       timerVars, runVars

-----------------------------------------------------------------------------
(* The steps of the clock, the Timer and do_poll. *)

(* When do_poll reports that it has waited, the whole timeout is over.     *)
LEMMA TimedOutLate ==
  ASSUME TableInv, Accounts, pc = "poll", TimedOut, ~stepped
  PROVE  now >= timeout
<1>1. CASE timeout < 0
  BY <1>1, TimeTypes
<1>2. CASE timeout >= 0
  <2>1. Rounded /\ skew = 0
    BY <1>2 DEF Accounts, Inside, Unset
  <2>2. now = Clock
    BY <2>1, TimeTypes
  <2> QED  BY <1>2, <2>1, <2>2, TimeTypes DEF Rounded, TimedOut, Elapsed
<1> QED  BY <1>1, <1>2, TimeTypes

(* Unless it ends the run, a tick of the Timer conserves its account, and  *)
(* what is left starts a round of do_poll whose account balances, too.     *)
LEMMA NextRound ==
  ASSUME TableInv, Accounts, Inside, TickTimer, remaining' > 0,
         StartPoll(remaining', Clock), UNCHANGED <<clockVars, timeout>>
  PROVE  Balanced' /\ Rounded'
<1>1. /\ remaining' = remaining - (Clock - lastEv) /\ lastEv' = Clock
      /\ remaining + lastEv = timeout
  BY TimeTypes DEF TickTimer, timerVars, Accounts, Balanced
<1>2. wait' = remaining' /\ waited' = 0 /\ start' = Clock
  BY DEF StartPoll
<1>3. now' = now /\ stepped' = stepped /\ timeout' = timeout
  BY DEF clockVars
<1>4. Balanced'
  BY <1>1, <1>3, TimeTypes DEF Balanced
<1>5. ~stepped => Clock = now
  BY TimeTypes DEF Accounts, Unset
<1>6. Rounded'
  BY <1>1, <1>2, <1>3, <1>5, TimeTypes DEF Rounded
<1> QED  BY <1>4, <1>6

LEMMA FinishAccounts ==
  ASSUME TableInv, Accounts, pc \in {"poll", "dispatch", "callback"},
         NEW res \in {"OK", "NONE_MATCHED", "CANCELLED", "ERROR"}, Finish(res),
         UNCHANGED <<clockVars, timeout, limit>>,
         res = "NONE_MATCHED" => pc = "poll" /\ TimedOut
  PROVE  Accounts'
<1>1. Unset'
  BY DEF Accounts, Unset, clockVars
<1>2. CASE pc' = "app"
  <2>1. result' = res
    BY <1>2 DEF Finish
  <2>2. ~stepped => now >= timeout \/ res # "NONE_MATCHED"
    BY TimedOutLate
  <2> QED  BY <1>1, <1>2, <2>1, <2>2 DEF Accounts, Inside, NeverTooShort, clockVars
<1>3. CASE pc' # "app"
  <2>1. /\ pc' = "poll" /\ TickTimer /\ ~Expired
        /\ StartPoll(remaining', Clock)
    BY <1>3 DEF Finish
  <2>2. ASSUME timeout >= 0 PROVE Balanced' /\ Rounded'
    <3>1. Inside
      BY <2>2 DEF Inside
    <3>2. remaining' \in Int
      BY <2>1, TickTimerType, TableParts
    <3>3. remaining' > 0
      BY <2>1, <2>2, <3>2 DEF Expired
    <3> QED  BY <2>1, <3>1, <3>3, NextRound
  <2> QED  BY <1>1, <2>1, <2>2 DEF Accounts, Inside, NeverTooShort
<1> QED  BY <1>2, <1>3

LEMMA PollAgainAccounts ==
  ASSUME TableInv, Accounts, pc = "poll", ~TimedOut, PollAgain,
         UNCHANGED <<clockVars, timerVars, pc, once, timeout, limit, result>>
  PROVE  Accounts'
<1>1. Unset' /\ (Inside' => Balanced') /\ NeverTooShort'
  BY DEF Accounts, Unset, Inside, Balanced, NeverTooShort, clockVars, timerVars
<1>2. ASSUME Inside PROVE Rounded'
  <2>1. Rounded /\ (~stepped => skew = 0)
    BY <1>2 DEF Accounts, Unset
  <2>2. Elapsed \in Nat /\ Elapsed < wait
    BY <2>1, ClockType, TableParts, TimeTypes DEF TimedOut
  <2>3. wait' = wait - Elapsed /\ start' = Clock /\ waited' = 0
    BY DEF PollAgain
  <2>4. now' = now /\ stepped' = stepped /\ timeout' = timeout
    BY DEF clockVars
  <2>5. ~stepped => Elapsed = Clock - start /\ Clock = now
    BY <2>1, TimeTypes DEF Rounded, Elapsed
  <2>6. start' + wait' <= start + wait
    <3>1. Clock <= start + Elapsed
      BY TimeTypes DEF Elapsed
    <3> QED  BY <2>2, <2>3, <3>1, TimeTypes
  <2>7. now' - waited' <= start' + MaxSkew
    BY <2>3, <2>4, TimeTypes
  <2> QED  BY <2>1, <2>2, <2>3, <2>4, <2>5, <2>6, <2>7, TimeTypes DEF Rounded
<1> QED  BY <1>1, <1>2 DEF Accounts, Inside

-----------------------------------------------------------------------------
(* Each action keeps the accounts. *)

LEMMA QuietAccounts ==
  ASSUME CallsInv, Accounts,
         Table \/ Build \/ PollMatched \/ Skip \/ CallHandler \/ Continue \/ Throw
  PROVE  Accounts'
<1>1. CASE Table \/ Build
  <2>1. CASE UNCHANGED tableUnchanged
    BY <2>1, SameAccounts DEF tableUnchanged
  <2>2. CASE MakeStaticDone
    <3>1. result' = "none" /\ pc' = "app" /\ UNCHANGED clockVars
      BY <2>2, CallsParts DEF MakeStaticDone, Dispatched, runVars
    <3> QED  BY <3>1 DEF Accounts, Unset, Inside, NeverTooShort, clockVars
  <2> QED
    BY <1>1, <2>1, <2>2
    DEF Table, Build, AddHandler, ReplaceHandler, RemoveHandlersFrom, ReplaceSocket,
        MakeStaticPair, Resized
<1>2. CASE PollMatched \/ Skip \/ CallHandler \/ Continue
  <2>1. /\ UNCHANGED <<clockVars, pollVars, timerVars, timeout, limit>>
        /\ pc \in {"poll", "dispatch", "callback"} /\ pc' \in {"dispatch", "callback"}
    BY <1>2 DEF PollMatched, Skip, CallHandler, Continue, dispatchUnchanged, runVars
  <2> QED
    BY <2>1 DEF Accounts, Unset, Inside, Balanced, Rounded, NeverTooShort, clockVars,
        pollVars, timerVars
<1>3. CASE Throw
  BY <1>3 DEF Throw, dispatchUnchanged, clockVars, Accounts, Unset, Inside, NeverTooShort
<1> QED  BY <1>1, <1>2, <1>3

LEMMA CallsAccounts ==
  ASSUME TableInv, Accounts, Calls
  PROVE  Accounts'
<1>1. ASSUME NEW o \in BOOLEAN, NEW t \in Timeouts, NEW k \in MaxEvents, Call(o, t, k)
      PROVE  Accounts'
  <2>1. /\ now' = 0 /\ skew' = 0 /\ timeout' = t /\ pc' = "poll"
        /\ wait' = t /\ remaining' = t /\ start' = 0 /\ waited' = 0 /\ lastEv' = 0
    BY <1>1 DEF Call, StartTimer, StartPoll
  <2>2. t \in Int /\ MaxSkew \in Nat
    BY ReactorAssumption, BaseAssumption
  <2> QED
    BY <2>1, <2>2 DEF Accounts, Unset, Inside, Balanced, Rounded, NeverTooShort
<1>2. ASSUME NEW t \in Timeouts, CallNothing(t)
      PROVE  Accounts'
  BY <1>2 DEF CallNothing, Accounts, Unset, Inside, NeverTooShort
<1> QED  BY <1>1, <1>2 DEF Calls

LEMMA ReturnAccounts ==
  ASSUME TableInv, Accounts, PollError \/ PollNone \/ Cancel \/ DispatchDone
  PROVE  Accounts'
<1>1. CASE PollError
  BY <1>1, FinishAccounts DEF PollError, pollUnchanged
<1>2. CASE PollNone
  <2>1. CASE TimedOut
    BY <1>2, <2>1, FinishAccounts DEF PollNone, pollUnchanged
  <2>2. CASE ~TimedOut
    BY <1>2, <2>2, PollAgainAccounts DEF PollNone, pollUnchanged
  <2> QED  BY <2>1, <2>2
<1>3. CASE Cancel \/ DispatchDone
  <2>1. /\ Finish("CANCELLED") \/ Finish("OK")
        /\ UNCHANGED <<clockVars, timeout, limit>>
        /\ pc \in {"dispatch", "callback"}
    BY <1>3 DEF Cancel, DispatchDone, dispatchUnchanged
  <2> QED  BY <2>1, FinishAccounts
<1> QED  BY <1>1, <1>2, <1>3

LEMMA ClockAccounts ==
  ASSUME TableInv, Accounts, Pass \/ AdjustClock
  PROVE  Accounts'
<1>1. UNCHANGED <<timerVars, pc, timeout, limit, result>>
  BY DEF Pass, AdjustClock, timeUnchanged, runVars
<1>2. (Inside' => Balanced')
  BY <1>1 DEF Accounts, Inside, Balanced, timerVars
<1>3. pc \in {"poll", "callback"}
  BY DEF Pass, AdjustClock
<1>4. CASE Pass
  <2>1. now' = now + 1 /\ skew' = skew /\ stepped' = stepped
    BY <1>4 DEF Pass, PassInPoll, Tick
  <2>2. ASSUME Inside, pc = "poll" PROVE Rounded'
    <3>1. /\ wait' = wait /\ start' = start
          /\ waited' = IF wait = -1 THEN waited ELSE waited + 1
      BY <1>4, <2>2 DEF Pass, PassInPoll
    <3>2. Rounded
      BY <2>2 DEF Accounts
    <3> QED  BY <1>1, <2>1, <3>1, <3>2, TimeTypes DEF Rounded
  <2> QED  BY <1>1, <1>2, <1>3, <2>1, <2>2 DEF Accounts, Unset, Inside, NeverTooShort
<1>5. CASE AdjustClock
  <2>1. stepped' /\ now' = now /\ UNCHANGED pollVars
    BY <1>5 DEF AdjustClock, SetClock
  <2> QED
    BY <1>1, <1>2, <1>3, <2>1 DEF Accounts, Unset, Inside, Rounded, NeverTooShort, pollVars
<1> QED  BY <1>4, <1>5

LEMMA TimeInit == Init => TimeInv
<1> SUFFICES ASSUME Init PROVE TimeInv
  OBVIOUS
<1>1. skew = 0 /\ pc \notin {"poll", "dispatch", "callback"} /\ result = "none"
  BY DEF Init, BaseInit
<1>2. Accounts
  BY <1>1 DEF Accounts, Unset, Inside, NeverTooShort
<1> QED  BY <1>2, CallsInit, TimeParts

LEMMA TimeNext == ASSUME TimeInv, [Next]_vars PROVE (TimeInv)'
<1> USE TimeParts
<1>1. CASE UNCHANGED vars
  BY <1>1, SameAccounts, CallsNext, TimePartsNext DEF vars
<1>2. CASE Next
  BY <1>2, CallsNext, CallsParts, TimePartsNext, QuietAccounts, CallsAccounts, ReturnAccounts,
     ClockAccounts
  DEF Next, Reactor
<1> QED  BY <1>1, <1>2

(* zmq::poll is never told to wait past the end of the timeout, nor for    *)
(* ever if there is one, for any timeout and after any number of rounds:   *)
(* all the waits and callbacks of a call together end by its timeout.  The *)
(* clock, set as often as it may be, moves that end by MaxSkew at most.    *)
THEOREM WaitsBounded == Spec => []NeverTooLong
<1>1. TimeInv => NeverTooLong
  <2> SUFFICES ASSUME TimeInv, pc = "poll", timeout >= 0
               PROVE  /\ 0 <= wait
                      /\ now + (wait - waited) <=
                           timeout + (IF stepped THEN MaxSkew ELSE 0)
    BY DEF NeverTooLong
  <2>1. TableInv /\ Rounded
    BY TimeParts, CallsParts DEF Accounts, Inside
  <2>2. now + (wait - waited) <= timeout + MaxSkew
    BY <2>1, TimeTypes DEF Rounded
  <2>3. ~stepped => now + (wait - waited) <= timeout
    BY <2>1, TimeTypes DEF Rounded
  <2> QED  BY <2>1, <2>2, <2>3, TimeTypes DEF Rounded
<1> QED  BY <1>1, TimeInit, TimeNext, PTL DEF Spec

(* NONE_MATCHED is not returned before the whole timeout has passed,       *)
(* however early zmq::poll gives up, and whatever was called in between.   *)
THEOREM NoneNotEarly == Spec => []NeverTooShort
<1>1. TimeInv => NeverTooShort
  BY DEF TimeInv
<1> QED  BY <1>1, TimeInit, TimeNext, PTL DEF Spec
=============================================================================
