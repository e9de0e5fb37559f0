--------------------------- MODULE LibEventProofs ---------------------------
(***************************************************************************)
(* The LibEvent reactor is type correct and always schedules the callback  *)
(* its triggered handlers depend on, for any handlers, sockets and events  *)
(* and whatever rules its client keeps to.                                 *)
(***************************************************************************)
EXTENDS LibEventProperties, TLAPS

-----------------------------------------------------------------------------
(* The memory of the queues. *)

LEMMA QueueNames == {"waiting", "triggered", "disabled"} \subseteq Queues
BY DEF Queues

LEMMA QueueOfType == ASSUME NEW h PROVE QueueOf(h) \in {"waiting", "triggered"}
BY DEF QueueOf

LEMMA NullIsNoHandler == NULL \notin Handlers
BY HandlersAssumption

LEMMA EnqueueType ==
  ASSUME NEW m \in LQ!Links, NEW q \in Queues, NEW h \in Handlers
  PROVE  /\ LQ!Enqueue(m, q, h) \in LQ!Links
         /\ LQ!Enqueue(m, q, h).head[q] = h
         /\ \A p \in Queues \ {q} : LQ!Enqueue(m, q, h).head[p] = m.head[p]
BY NullIsNoHandler DEF LQ!Enqueue, LQ!Links, LQ!Pointers, LQ!Store

LEMMA DequeueType ==
  ASSUME NEW m \in LQ!Links, NEW q \in Queues, NEW h \in Handlers
  PROVE  /\ LQ!Dequeue(m, q, h) \in LQ!Links
         /\ \A p \in Queues \ {q} : LQ!Dequeue(m, q, h).head[p] = m.head[p]
         /\ m.head[q] = NULL => LQ!Dequeue(m, q, h).head[q] = NULL
<1> DEFINE next == LQ!Store(m.next, m.prev[h], m.next[h])
           prev == LQ!Store(m.prev, next[h], m.prev[h])
<1>1. next \in [Handlers -> Handlers \union {NULL}]
  BY DEF LQ!Links, LQ!Pointers, LQ!Store
<1>2. prev \in [Handlers -> Handlers \union {NULL}]
  BY <1>1 DEF LQ!Links, LQ!Pointers, LQ!Store
<1> HIDE DEF next, prev
<1> QED  BY <1>1, <1>2, NullIsNoHandler DEF LQ!Dequeue, LQ!Links, LQ!Pointers, next, prev

LEMMA FreeType ==
  ASSUME NEW m \in LQ!Links, NEW h \in Handlers
  PROVE  Free(m, h) \in LQ!Links /\ Free(m, h).head = m.head
BY DEF Free, LQ!Links, LQ!Pointers

LEMMA RequeueType ==
  ASSUME NEW m \in LQ!Links, NEW q \in Queues, NEW h \in Handlers
  PROVE  Requeue(m, h, q) \in LQ!Links
<1>1. QueueOf(h) \in Queues
  BY QueueOfType, QueueNames
<1>2. LQ!Dequeue(m, QueueOf(h), h) \in LQ!Links
  BY <1>1, DequeueType
<1> QED  BY <1>2, EnqueueType DEF Requeue

(* What the memory and the parts of the invariant that concern it may do.  *)
(* The immediate callback is scheduled, or neither it nor the head of the  *)
(* triggered queue has changed.                                            *)
Scheduled(lk) ==
  \/ immediate' = "pending"
  \/ immediate' = immediate /\ (lk.head["triggered"] # NULL => links.head["triggered"] # NULL)

LEMMA UpdateImmediateType ==
  ASSUME TypeOK, NEW lk, UpdateImmediate(lk)
  PROVE  /\ immediate' \in {"idle", "pending", "active"}
         /\ Scheduled(lk)
BY DEF UpdateImmediate, Scheduled, TypeOK, BaseTypeOK

LEMMA AskType ==
  ASSUME TypeOK, NEW h, NEW s, NEW r \in SUBSET Events, HasActualEvents(h, s, r)
  PROVE  /\ ready' \in [Sockets -> SUBSET Events]
         /\ signal' \in [Sockets -> {"quiet", "edge", "reported"}]
         /\ used' \subseteq Handlers
BY DEF HasActualEvents, Ask, TypeOK, BaseTypeOK

LEMMA ActivateType ==
  ASSUME TypeOK, NEW lk \in LQ!Links, NEW h \in Handlers, NEW s, NEW m,
         lk.head["triggered"] # NULL => links.head["triggered"] # NULL,
         Activate(lk, h, s, m)
  PROVE  /\ ready' \in [Sockets -> SUBSET Events]
         /\ signal' \in [Sockets -> {"quiet", "edge", "reported"}]
         /\ used' \subseteq Handlers
         /\ registered' \subseteq Handlers
         /\ status' \in [Handlers -> {"WAITING", "TRIGGERED"}]
         /\ links' \in LQ!Links
         /\ immediate' \in {"idle", "pending", "active"}
         /\ Scheduled(links')
<1>1. registered' \subseteq Handlers
  BY DEF Activate, TypeOK, BaseTypeOK
<1>2. PICK r \in SUBSET Events :
        /\ HasActualEvents(h, s, r)
        /\ \/ /\ status' = [status EXCEPT ![h] = "TRIGGERED"]
              /\ links' = LQ!Enqueue(lk, "triggered", h)
              /\ UpdateImmediate(links')
           \/ /\ status' = [status EXCEPT ![h] = "WAITING"]
              /\ links' = LQ!Enqueue(lk, "waiting", h)
              /\ UNCHANGED immediate
  BY DEF Activate
<1>3. status' \in [Handlers -> {"WAITING", "TRIGGERED"}]
  BY <1>2 DEF TypeOK
<1>4. links' \in LQ!Links
  BY <1>2, EnqueueType, QueueNames
<1>5. immediate' \in {"idle", "pending", "active"} /\ Scheduled(links')
  <2>1. CASE links' = LQ!Enqueue(lk, "triggered", h) /\ UpdateImmediate(links')
    BY <2>1, UpdateImmediateType
  <2>2. CASE links' = LQ!Enqueue(lk, "waiting", h) /\ UNCHANGED immediate
    <3>1. links'.head["triggered"] = lk.head["triggered"]
      BY <2>2, EnqueueType DEF Queues
    <3> QED  BY <2>2, <3>1 DEF Scheduled, TypeOK, BaseTypeOK
  <2> QED  BY <1>2, <2>1, <2>2
<1> QED  BY <1>1, <1>2, <1>3, <1>4, <1>5, AskType

-----------------------------------------------------------------------------
(* Every action keeps the types. *)

LEMMA InitType == Init => TypeOK
<1> SUFFICES ASSUME Init PROVE TypeOK
  OBVIOUS
<1>1. links \in LQ!Links
  BY DEF Init, LQ!NoLinks, LQ!Links, LQ!Pointers
<1>2. BaseTypeOK
  BY DEF Init, BaseInit, BaseTypeOK
<1>3. /\ status \in [Handlers -> {"WAITING", "TRIGGERED"}]
      /\ sock \in [Handlers -> Sockets \union {NULL}]
      /\ expected \in [Handlers -> SUBSET Events]
  BY DEF Init
<1> QED
  BY <1>1, <1>2, <1>3 DEF Init, TypeOK, Places, NoIter, NoReplacing

LEMMA DeleteType ==
  ASSUME TypeOK, NEW h \in Handlers, Delete(h)
  PROVE  /\ alive' \subseteq Handlers /\ enabled' \subseteq Handlers
         /\ status' \in [Handlers -> {"WAITING", "TRIGGERED"}]
         /\ sock' \in [Handlers -> Sockets \union {NULL}]
         /\ expected' \in [Handlers -> SUBSET Events]
         /\ used' \subseteq Handlers
         /\ cur' \in Handlers \union {NULL}
BY DEF Delete, TypeOK

LEMMA DoRemoveHandlerType ==
  ASSUME TypeOK, NEW h \in Handlers, DoRemoveHandler(h)
  PROVE  /\ BaseTypeOK' /\ links' \in LQ!Links
         /\ nowHandled' \in Handlers \union {NULL}
         /\ Scheduled(links')
<1> DEFINE lk == LQ!Dequeue(links, QueueOf(h), h)
<1>1. lk \in LQ!Links
  BY DequeueType, QueueOfType, QueueNames DEF TypeOK
<1>2. UpdateImmediate(lk) /\ links' = Free(lk, h)
  BY DEF DoRemoveHandler
<1>3. links' \in LQ!Links /\ links'.head = lk.head
  BY <1>1, <1>2, FreeType
<1>4. immediate' \in {"idle", "pending", "active"} /\ Scheduled(lk)
  BY <1>2, UpdateImmediateType
<1>5. BaseTypeOK' /\ nowHandled' \in Handlers \union {NULL}
  BY <1>4 DEF DoRemoveHandler, Deactivate, TypeOK, BaseTypeOK
<1> QED  BY <1>3, <1>4, <1>5 DEF Scheduled

LEMMA ClientType ==
  ASSUME TypeOK, Client
  PROVE  TypeOK' /\ (Destroy \/ (\E old, new \in Sockets : ReplaceSocket(old, new)) \/ Scheduled(links'))
<1>1. ASSUME NEW h \in ZmqHandlers, NEW s \in Sockets, NEW m \in Masks,
             AddZmqHandler(h, s, m)
      PROVE  TypeOK' /\ Scheduled(links')
  <2>1. Activate(links, h, s, m) /\ h \in Handlers /\ links \in LQ!Links
    BY <1>1 DEF AddZmqHandler, Handlers, TypeOK
  <2>2. m \in SUBSET Events
    BY HandlersAssumption
  <2> QED
    BY <1>1, <2>1, <2>2, ActivateType
    DEF AddZmqHandler, TypeOK, BaseTypeOK, clientUnchanged
<1>2. ASSUME NEW h \in FdHandlers, AddFdHandler(h)
      PROVE  TypeOK' /\ Scheduled(links')
  <2>1. Activate(links, h, NULL, {}) /\ h \in Handlers /\ links \in LQ!Links
    BY <1>2 DEF AddFdHandler, Handlers, TypeOK
  <2> QED
    BY <1>2, <2>1, ActivateType DEF AddFdHandler, TypeOK, BaseTypeOK, clientUnchanged
<1>3. ASSUME NEW h \in Timers, AddTimeout(h)
      PROVE  TypeOK' /\ Scheduled(links')
  <2>1. h \in Handlers /\ links \in LQ!Links /\ links' = LQ!Enqueue(links, "waiting", h)
    BY <1>3 DEF AddTimeout, Handlers, TypeOK
  <2>2. links' \in LQ!Links
    BY <2>1, EnqueueType, QueueNames
  <2>3. links'.head["triggered"] = links.head["triggered"]
    BY <2>1, EnqueueType DEF Queues
  <2> QED
    BY <1>3, <2>1, <2>2, <2>3
    DEF AddTimeout, TypeOK, BaseTypeOK, Scheduled, clientUnchanged
<1>4. ASSUME NEW h \in Handlers, RemoveHandler(h)
      PROVE  TypeOK' /\ Scheduled(links')
  <2>1. DoRemoveHandler(h) /\ Delete(h) /\ UNCHANGED clientUnchanged
    BY <1>4 DEF RemoveHandler, DoRemoveHandler
  <2> QED  BY <2>1, DeleteType, DoRemoveHandlerType DEF TypeOK, clientUnchanged
<1>5. ASSUME NEW h \in Handlers, DisableHandler(h)
      PROVE  TypeOK' /\ Scheduled(links')
  <2> DEFINE lk == LQ!Dequeue(links, QueueOf(h), h)
  <2>1. lk \in LQ!Links /\ links' = LQ!Enqueue(lk, "disabled", h) /\ UpdateImmediate(lk)
    BY <1>5, DequeueType, QueueOfType, QueueNames DEF DisableHandler, Requeue, TypeOK
  <2> HIDE DEF lk
  <2>2. links' \in LQ!Links
    BY <2>1, EnqueueType, QueueNames
  <2>3. links'.head["triggered"] = lk.head["triggered"]
    BY <2>1, EnqueueType DEF Queues
  <2>4. immediate' \in {"idle", "pending", "active"} /\ Scheduled(links')
    BY <2>1, <2>3, UpdateImmediateType DEF Scheduled
  <2> QED
    BY <1>5, <2>2, <2>4
    DEF DisableHandler, Deactivate, TypeOK, BaseTypeOK, clientUnchanged
<1>6. ASSUME NEW h \in Handlers, EnableHandler(h)
      PROVE  TypeOK' /\ Scheduled(links')
  <2> DEFINE lk == LQ!Dequeue(links, "disabled", h)
  <2>1. lk \in LQ!Links /\ lk.head["triggered"] = links.head["triggered"]
    BY DequeueType DEF Queues, TypeOK
  <2>2. Activate(lk, h, sock[h], expected[h])
    BY <1>6 DEF EnableHandler
  <2> HIDE DEF lk
  <2> QED
    BY <1>6, <2>1, <2>2, ActivateType
    DEF EnableHandler, TypeOK, BaseTypeOK, clientUnchanged
<1>7. ASSUME NEW h \in Handlers, ForceCheckEvents(h)
      PROVE  TypeOK' /\ Scheduled(links')
  <2>1. PICK r \in SUBSET Events :
          /\ HasActualEvents(h, sock[h], r)
          /\ \/ /\ status' = [status EXCEPT ![h] = "TRIGGERED"]
                /\ links' = Requeue(links, h, "triggered")
                /\ UpdateImmediate(links')
             \/ UNCHANGED <<status, links, immediate>>
    BY <1>7 DEF ForceCheckEvents
  <2>2. links' \in LQ!Links
    BY <2>1, RequeueType, QueueNames DEF TypeOK
  <2>3. immediate' \in {"idle", "pending", "active"} /\ Scheduled(links')
    BY <2>1, UpdateImmediateType DEF Scheduled, TypeOK, BaseTypeOK
  <2> QED
    BY <1>7, <2>1, <2>2, <2>3, AskType
    DEF ForceCheckEvents, TypeOK, BaseTypeOK, clientUnchanged
<1>8. ASSUME NEW s \in Sockets, Use(s)
      PROVE  TypeOK' /\ Scheduled(links')
  BY <1>8 DEF Use, Operate, TypeOK, BaseTypeOK, Scheduled, handlerVars
<1>9. ASSUME NEW old \in Sockets, NEW new \in Sockets, ReplaceSocket(old, new)
      PROVE  TypeOK'
  BY <1>9, QueueNames
  DEF ReplaceSocket, TypeOK, BaseTypeOK, baseVars, handlerVars, Places,
      IterBegin, LQ!Links, LQ!Pointers
<1>10. ASSUME Destroy
       PROVE  TypeOK'
  BY <1>10, QueueNames
  DEF Destroy, TypeOK, BaseTypeOK, baseVars, handlerVars, Places,
      IterBegin, LQ!Links, LQ!Pointers
<1>11. ASSUME NEW timeout \in Durations, RunNested(timeout)
       PROVE  TypeOK' /\ Scheduled(links')
  <2>1. exits' \in [pending : Nat, active : Nat]
    BY <1>11 DEF RunNested, LoopExit, Durations, TypeOK, BaseTypeOK
  <2> QED
    BY <1>11, <2>1
    DEF RunNested, TypeOK, BaseTypeOK, Scheduled, loopUnchanged, handlerVars
<1> QED  BY <1>1, <1>2, <1>3, <1>4, <1>5, <1>6, <1>7, <1>8, <1>9, <1>10, <1>11 DEF Client

LEMMA IterType ==
  ASSUME TypeOK, iter.hi # NULL
  PROVE  /\ iter.hi \in Handlers
         /\ IterNext(iter) \in [queue : {"waiting", "triggered", "none"},
                                hi : Handlers \union {NULL}]
<1>1. iter.hi \in Handlers /\ iter.queue \in {"waiting", "triggered", "none"}
  BY DEF TypeOK
<1>2. /\ links.next[iter.hi] \in Handlers \union {NULL}
      /\ links.head["triggered"] \in Handlers \union {NULL}
  BY <1>1, QueueNames DEF TypeOK, LQ!Links, LQ!Pointers
<1>3. iter \in [queue : {"waiting", "triggered", "none"}, hi : Handlers \union {NULL}]
  BY DEF TypeOK
<1> QED  BY <1>1, <1>2, <1>3 DEF IterNext, NoIter

LEMMA ReplaceStepType ==
  ASSUME TypeOK, ReplaceStep
  PROVE  TypeOK' /\ Scheduled(links')
<1> DEFINE h == iter.hi
           lk == LQ!Dequeue(links, QueueOf(h), h)
<1>1. h \in Handlers /\ iter' = IterNext(iter)
  BY IterType DEF ReplaceStep
<1>2. iter' \in [queue : {"waiting", "triggered", "none"}, hi : Handlers \union {NULL}]
  BY <1>1, IterType DEF ReplaceStep
<1>3. CASE UNCHANGED <<baseVars, links, status, sock, used>>
  BY <1>2, <1>3 DEF ReplaceStep, TypeOK, BaseTypeOK, baseVars, Scheduled
<1>4. CASE /\ active' = active \ {h}
           /\ sock' = [sock EXCEPT ![h] = replacing.new]
           /\ Activate(lk, h, replacing.new, expected[h])
           /\ UNCHANGED <<exits, stop>>
  <2>1. lk \in LQ!Links
    BY <1>1, DequeueType, QueueOfType, QueueNames DEF TypeOK
  <2>2. lk.head["triggered"] # NULL => links.head["triggered"] # NULL
    <3> DEFINE q == QueueOf(h)
    <3>1. q \in Queues /\ "triggered" \in Queues /\ links \in LQ!Links
      BY QueueOfType, QueueNames DEF TypeOK
    <3> HIDE DEF q
    <3>2. /\ \A p \in Queues \ {q} : LQ!Dequeue(links, q, h).head[p] = links.head[p]
          /\ links.head[q] = NULL => LQ!Dequeue(links, q, h).head[q] = NULL
      BY <1>1, <3>1, DequeueType
    <3>3. CASE q = "triggered"
      BY <3>2, <3>3 DEF q
    <3>4. CASE q # "triggered"
      BY <3>1, <3>2, <3>4 DEF q
    <3> QED  BY <3>3, <3>4
  <2> HIDE DEF lk
  <2>3. sock' \in [Handlers -> Sockets \union {NULL}]
    BY <1>4 DEF TypeOK
  <2> QED
    BY <1>1, <1>2, <1>4, <2>1, <2>2, <2>3, ActivateType
    DEF ReplaceStep, TypeOK, BaseTypeOK
<1> QED  BY <1>3, <1>4 DEF ReplaceStep

LEMMA ReplaceEndType == ASSUME TypeOK, ReplaceEnd PROVE TypeOK'
BY DEF ReplaceEnd, TypeOK, BaseTypeOK, baseVars, handlerVars, Places, NoIter, NoReplacing

LEMMA DestroyStepType ==
  ASSUME TypeOK, DestroyStep
  PROVE  TypeOK' /\ Scheduled(links')
<1>1. iter.hi \in Handlers /\ DoRemoveHandler(iter.hi) /\ Delete(iter.hi)
  BY IterType DEF DestroyStep, DoRemoveHandler
<1>2. iter' \in [queue : {"waiting", "triggered", "none"}, hi : Handlers \union {NULL}]
  BY IterType DEF DestroyStep
<1> QED
  BY <1>1, <1>2, DeleteType, DoRemoveHandlerType DEF DestroyStep, TypeOK

LEMMA DestroyBaseType == ASSUME TypeOK, DestroyBase PROVE TypeOK'
BY DEF DestroyBase, TypeOK, BaseTypeOK, handlerVars, Places, NoIter

(* The queue to be freed next has a head. *)
LEMMA FreedHandler ==
  ASSUME TypeOK, FreeHead
  PROVE  FreeingQueue \in Queues /\ links.head[FreeingQueue] \in Handlers
<1>1. \E p \in Queues :
        /\ links.head[p] # NULL
        /\ p \in {"waiting", "triggered"} => links.head["disabled"] = NULL
        /\ p = "waiting" => links.head["triggered"] = NULL
  <2>1. CASE links.head["disabled"] # NULL
    BY <2>1, QueueNames
  <2>2. CASE links.head["disabled"] = NULL /\ links.head["triggered"] # NULL
    BY <2>2, QueueNames
  <2>3. CASE links.head["disabled"] = NULL /\ links.head["triggered"] = NULL
    BY <2>3 DEF FreeHead, Queues
  <2> QED  BY <2>1, <2>2, <2>3
<1>2. FreeingQueue \in Queues /\ links.head[FreeingQueue] # NULL
  BY <1>1 DEF FreeingQueue
<1> QED  BY <1>2 DEF TypeOK, LQ!Links, LQ!Pointers

LEMMA FreeHeadType ==
  ASSUME TypeOK, FreeHead
  PROVE  TypeOK'
<1> DEFINE q == FreeingQueue
           h == links.head[q]
           lk == LQ!DeleteHead(links, q)
<1>1. q \in Queues /\ h \in Handlers
  BY FreedHandler
<1> HIDE DEF q
<1>2. lk \in LQ!Links
  BY <1>1 DEF LQ!DeleteHead, TypeOK, LQ!Links, LQ!Pointers
<1>3. Free(lk, h) \in LQ!Links
  BY <1>1, <1>2, FreeType
<1>4. links' = Free(lk, h) /\ Delete(h)
  BY DEF FreeHead, q
<1> HIDE DEF h, lk
<1> QED
  BY <1>1, <1>3, <1>4, DeleteType DEF FreeHead, TypeOK, BaseTypeOK, baseVars

LEMMA FreedType == ASSUME TypeOK, Freed PROVE TypeOK'
BY DEF Freed, TypeOK, BaseTypeOK, baseVars, handlerVars, Places

-----------------------------------------------------------------------------
(* The loop *)

LEMMA RunningType ==
  ASSUME TypeOK, Running
  PROVE  TypeOK'
<1> PICK o \in BOOLEAN, timeout \in Durations : Run(o, timeout)
  BY DEF Running
<1>1. exits' \in [pending : Nat, active : Nat]
  BY DEF Run, LoopExit, Durations, TypeOK, BaseTypeOK
<1> QED
  BY <1>1 DEF Run, ResetResult, TypeOK, BaseTypeOK, loopUnchanged, handlerVars, Places

LEMMA LoopType ==
  ASSUME TypeOK, LoopEnd \/ LoopEmpty \/ DispatchError \/ ProcessDone
  PROVE  TypeOK' /\ pc' \in {"app", "loop"} /\ pc \in {"loop", "process"}
         /\ UNCHANGED <<links, immediate, caller>>
<1>1. pc' \in {"app", "loop"} /\ pc \in {"loop", "process"}
  BY DEF LoopEnd, LoopEmpty, DispatchError, ProcessDone
<1>2. pollResult' \in {"OK", "NONE_MATCHED", "ERROR", "CANCELLED"}
  BY DEF LoopEnd, LoopEmpty, DispatchError, ProcessDone, TypeOK
<1>3. UNCHANGED <<baseVars, once, outcome, loopUnchanged>>
  BY DEF LoopEnd, LoopEmpty, DispatchError, ProcessDone
<1> QED
  BY <1>1, <1>2, <1>3 DEF TypeOK, BaseTypeOK, baseVars, loopUnchanged, handlerVars, Places

LEMMA WaitType ==
  ASSUME BaseTypeOK, Wait(sock)
  PROVE  BaseTypeOK'
<1> DEFINE hot == {h \in registered \intersect ZmqHandlers : signal[sock[h]] = "edge"}
<1>1. PICK due \in SUBSET (registered \ ZmqHandlers), n \in 0 .. exits.pending :
        /\ active' = active \union hot \union due
        /\ signal' = [s \in Sockets |-> IF \E h \in hot : sock[h] = s
                                        THEN "reported" ELSE signal[s]]
        /\ immediate' = IF immediate = "pending" THEN "active" ELSE immediate
        /\ exits' = [pending |-> exits.pending - n, active |-> exits.active + n]
        /\ UNCHANGED <<ready, registered, stop>>
  BY DEF Wait
<1>2. active' \subseteq Handlers
  BY <1>1 DEF BaseTypeOK
<1>3. signal' \in [Sockets -> {"quiet", "edge", "reported"}]
  <2>1. \A s \in Sockets : signal[s] \in {"quiet", "edge", "reported"}
    BY DEF BaseTypeOK
  <2> HIDE DEF hot
  <2> QED  BY <1>1, <2>1
<1>4. exits' \in [pending : Nat, active : Nat]
  <2>1. exits.pending \in Nat /\ exits.active \in Nat
    BY DEF BaseTypeOK
  <2>2. exits.pending - n \in Nat /\ exits.active + n \in Nat
    BY <2>1
  <2> QED  BY <1>1, <2>2
<1> QED  BY <1>1, <1>2, <1>3, <1>4 DEF BaseTypeOK

LEMMA DispatchType == ASSUME TypeOK, Dispatch PROVE TypeOK'
BY WaitType DEF Dispatch, TypeOK, loopUnchanged, handlerVars, Places

LEMMA ProcessExitType == ASSUME TypeOK, ProcessExit PROVE TypeOK'
<1>1. exits' \in [pending : Nat, active : Nat]
  BY DEF ProcessExit, ExitCallback, TypeOK, BaseTypeOK
<1> QED
  BY <1>1 DEF ProcessExit, ExitCallback, TypeOK, BaseTypeOK, loopUnchanged, handlerVars

-----------------------------------------------------------------------------
(* The callbacks *)

LEMMA SettleType ==
  ASSUME TypeOK, NEW h \in Handlers, NEW r, NEW u, Settle(h, r, u)
  PROVE  /\ links' \in LQ!Links
         /\ status' \in [Handlers -> {"WAITING", "TRIGGERED"}]
         /\ immediate' \in {"idle", "pending", "active"}
         /\ u => Scheduled(links')
<1> DEFINE now == IF r \intersect expected[h] # {} THEN "TRIGGERED" ELSE "WAITING"
           to  == IF now = "TRIGGERED" THEN "triggered" ELSE "waiting"
<1>1. CASE UNCHANGED <<links, status, immediate>>
  BY <1>1 DEF TypeOK, BaseTypeOK, Scheduled
<1>2. CASE /\ status' = [status EXCEPT ![h] = now]
           /\ links' = Requeue(links, h, to)
           /\ IF u THEN UpdateImmediate(links') ELSE UNCHANGED immediate
  <2>1. to \in Queues
    BY QueueNames
  <2>2. links' \in LQ!Links
    BY <1>2, <2>1, RequeueType DEF TypeOK
  <2>3. status' \in [Handlers -> {"WAITING", "TRIGGERED"}]
    BY <1>2 DEF TypeOK
  <2>4. CASE u
    BY <1>2, <2>2, <2>3, <2>4, UpdateImmediateType
  <2>5. CASE ~u
    BY <1>2, <2>2, <2>3, <2>5 DEF TypeOK, BaseTypeOK
  <2> QED  BY <2>4, <2>5
<1> QED  BY <1>1, <1>2 DEF Settle

LEMMA FireType ==
  ASSUME TypeOK, NEW h, Fire(h)
  PROVE  active' \subseteq Handlers /\ registered' \subseteq Handlers
BY DEF Fire, TypeOK, BaseTypeOK

LEMMA EventCallbackType ==
  ASSUME TypeOK, NEW h \in Handlers, EventCallback(h)
  PROVE  TypeOK'
<1>1. PICK r \in SUBSET Events : HasActualEvents(h, sock[h], r)
  BY DEF EventCallback
<1>2. Fire(h) /\ CallFunction(h, "event")
  BY DEF EventCallback
<1> QED
  BY <1>1, <1>2, AskType, FireType
  DEF EventCallback, CallFunction, callUnchanged, TypeOK, BaseTypeOK, Places

LEMMA EventIgnoredType ==
  ASSUME TypeOK, NEW h \in Handlers, EventIgnored(h)
  PROVE  TypeOK' /\ Scheduled(links')
<1>1. PICK r \in SUBSET Events : HasActualEvents(h, sock[h], r) /\ Settle(h, r, TRUE)
  BY DEF EventIgnored
<1>2. Fire(h)
  BY DEF EventIgnored
<1>3. /\ links' \in LQ!Links /\ status' \in [Handlers -> {"WAITING", "TRIGGERED"}]
      /\ immediate' \in {"idle", "pending", "active"} /\ Scheduled(links')
  BY <1>1, SettleType
<1>4. TypeOK'
  BY <1>1, <1>2, <1>3, AskType, FireType DEF EventIgnored, callUnchanged, TypeOK, BaseTypeOK
<1> QED  BY <1>3, <1>4

LEMMA ImmediateType ==
  ASSUME TypeOK, ImmediateCallback \/ ImmediateStep \/ ImmediateEnd
  PROVE  TypeOK'
<1>0. \A p : p \in Handlers => links.next[p] \in Handlers \union {NULL}
  BY DEF TypeOK, LQ!Links, LQ!Pointers
<1>1. CASE ImmediateCallback
  <2>1. links.head["triggered"] \in Handlers \union {NULL}
    BY QueueNames DEF TypeOK, LQ!Links, LQ!Pointers
  <2> QED
    BY <1>1, <2>1 DEF ImmediateCallback, callUnchanged, TypeOK, BaseTypeOK, Places
<1>2. CASE ImmediateStep
  BY <1>0, <1>2
  DEF ImmediateStep, NextTriggered, CallFunction, callUnchanged, TypeOK, BaseTypeOK, Places
<1>3. CASE ImmediateEnd
  <2>1. immediate' \in {"idle", "pending", "active"}
    BY <1>3, UpdateImmediateType DEF ImmediateEnd
  <2> QED
    BY <1>3, <2>1 DEF ImmediateEnd, callUnchanged, TypeOK, BaseTypeOK, Places
<1> QED  BY <1>1, <1>2, <1>3

LEMMA CallbackReturnsType ==
  ASSUME TypeOK, NEW goOn \in BOOLEAN, CallbackReturns(goOn)
  PROVE  TypeOK' /\ (caller = "event" => Scheduled(links'))
<1>1. /\ ready' \in [Sockets -> SUBSET Events]
      /\ signal' \in [Sockets -> {"quiet", "edge", "reported"}]
      /\ used' \subseteq Handlers
      /\ links' \in LQ!Links
      /\ status' \in [Handlers -> {"WAITING", "TRIGGERED"}]
      /\ immediate' \in {"idle", "pending", "active"}
      /\ caller = "event" => Scheduled(links')
  <2>1. CASE UNCHANGED <<ready, signal, used, links, status, immediate>>
    BY <2>1 DEF TypeOK, BaseTypeOK, Scheduled
  <2>2. CASE nowHandled # NULL /\ \E r \in SUBSET Events :
               /\ HasActualEvents(nowHandled, sock[nowHandled], r)
               /\ Settle(nowHandled, r, caller = "event")
    <3>1. nowHandled \in Handlers
      BY <2>2 DEF TypeOK
    <3>2. PICK r \in SUBSET Events :
            /\ HasActualEvents(nowHandled, sock[nowHandled], r)
            /\ Settle(nowHandled, r, caller = "event")
      BY <2>2
    <3> QED  BY <3>1, <3>2, AskType, SettleType
  <2> QED  BY <2>1, <2>2 DEF CallbackReturns
<1>2. /\ stop' \subseteq {"term", "break"}
      /\ pollResult' \in {"OK", "NONE_MATCHED", "ERROR", "CANCELLED"}
      /\ outcome' \in {"unrun", "none", "called", "cancelled"}
      /\ nowHandled' = NULL /\ cur' = NULL /\ caller' = "none"
      /\ pc' \in {"process", "immediate"}
      /\ UNCHANGED <<registered, active, exits, nextHi, alive, enabled, sock,
                     expected, once, iter, replacing>>
  BY DEF CallbackReturns, TypeOK, BaseTypeOK
<1> QED  BY <1>1, <1>2 DEF TypeOK, BaseTypeOK, Places

LEMMA SignalType == ASSUME TypeOK, NEW s \in Sockets, SignalSocket(s) PROVE TypeOK'
BY DEF SignalSocket, Signal, TypeOK, BaseTypeOK, handlerVars

LEMMA NextType == ASSUME TypeOK, [Next]_vars PROVE TypeOK'
<1>1. CASE Reactor
  <2>1. ASSUME NEW h \in Handlers, EventCallback(h) \/ EventIgnored(h) PROVE TypeOK'
    BY <2>1, EventCallbackType, EventIgnoredType
  <2>2. ASSUME NEW goOn \in BOOLEAN, CallbackReturns(goOn) PROVE TypeOK'
    BY <2>2, CallbackReturnsType
  <2> QED
    BY <1>1, <2>1, <2>2, ReplaceStepType, ReplaceEndType, DestroyStepType,
       DestroyBaseType, FreeHeadType, FreedType, LoopType, ProcessExitType,
       ImmediateType
    DEF Reactor
<1>2. CASE UNCHANGED vars
  BY <1>2 DEF vars, baseVars, handlerVars, TypeOK, BaseTypeOK
<1> QED
  BY <1>1, <1>2, ClientType, RunningType, DispatchType, LoopType, SignalType DEF Next

(* In every reachable state each variable has its type. *)
THEOREM TypeCorrect == Spec => []TypeOK
BY InitType, NextType, PTL DEF Spec

-----------------------------------------------------------------------------
(* Triggered handlers are called. *)

(* A step that schedules the immediate callback if it fills the triggered  *)
(* queue, and moves neither to nor from immediate_callback.                *)
LEMMA KeepsScheduled ==
  ASSUME ScheduledInv, Scheduled(links'),
         InImmediate => InImmediate',
         pc \in {"freeing", "dead"} => pc' \in {"freeing", "dead"}
  PROVE  ImmediateScheduled'
BY DEF ScheduledInv, ImmediateScheduled, Scheduled

(* The client's calls from a callback of immediate_callback leave it there. *)
LEMMA ClientScheduled == ASSUME ScheduledInv, Client PROVE ScheduledInv'
<1>1. TypeOK' /\ (Destroy \/ (\E old, new \in Sockets : ReplaceSocket(old, new)) \/ Scheduled(links'))
  BY ClientType DEF ScheduledInv
<1>2. ASSUME NEW old \in Sockets, NEW new \in Sockets, ReplaceSocket(old, new)
      PROVE  ScheduledInv'
  BY <1>1, <1>2
  DEF ReplaceSocket, ScheduledInv, ImmediateScheduled, InImmediate, handlerVars,
      baseVars, ClientRuns
<1>3. CASE Destroy
  BY <1>1, <1>3
  DEF Destroy, ScheduledInv, ImmediateScheduled, InImmediate, handlerVars, baseVars
<1>4. CASE /\ ~Destroy
           /\ ~\E old, new \in Sockets : ReplaceSocket(old, new)
  <2>1. UNCHANGED <<pc, caller>>
    BY <1>4
    DEF Client, AddZmqHandler, AddFdHandler, AddTimeout, RemoveHandler,
        DisableHandler, EnableHandler, ForceCheckEvents, Use, RunNested,
        clientUnchanged, loopUnchanged
  <2>2. Scheduled(links')
    BY <1>1, <1>4
  <2>3. ImmediateScheduled'
    BY <2>1, <2>2, KeepsScheduled DEF InImmediate
  <2> QED  BY <1>1, <2>1, <2>3 DEF ScheduledInv
<1> QED  BY <1>2, <1>3, <1>4

LEMMA ReplaceScheduled ==
  ASSUME ScheduledInv, ReplaceStep \/ ReplaceEnd
  PROVE  ScheduledInv'
<1>1. CASE ReplaceStep
  <2>1. TypeOK' /\ Scheduled(links')
    BY <1>1, ReplaceStepType DEF ScheduledInv
  <2>2. UNCHANGED <<pc, caller>>
    BY <1>1 DEF ReplaceStep
  <2>3. ImmediateScheduled'
    BY <2>1, <2>2, KeepsScheduled DEF InImmediate
  <2> QED  BY <2>1, <2>2, <2>3 DEF ScheduledInv
<1>2. CASE ReplaceEnd
  <2>1. TypeOK'
    BY <1>2, ReplaceEndType DEF ScheduledInv
  <2> QED
    BY <1>2, <2>1
    DEF ReplaceEnd, ScheduledInv, ImmediateScheduled, InImmediate, handlerVars, baseVars
<1> QED  BY <1>1, <1>2

(* Once the event base is gone nothing is scheduled any more. *)
LEMMA DestroyScheduled ==
  ASSUME ScheduledInv, DestroyStep \/ DestroyBase \/ FreeHead \/ Freed
  PROVE  ScheduledInv'
<1>1. CASE DestroyStep
  <2>1. TypeOK' /\ Scheduled(links')
    BY <1>1, DestroyStepType DEF ScheduledInv
  <2>2. UNCHANGED <<pc, caller>>
    BY <1>1 DEF DestroyStep
  <2>3. ImmediateScheduled'
    BY <2>1, <2>2, KeepsScheduled DEF InImmediate
  <2> QED  BY <2>1, <2>2, <2>3 DEF ScheduledInv
<1>2. CASE DestroyBase \/ FreeHead \/ Freed
  <2>1. TypeOK'
    BY <1>2, DestroyBaseType, FreeHeadType, FreedType DEF ScheduledInv
  <2>2. pc \in {"destroy", "freeing"} /\ pc' \in {"freeing", "dead"} /\ caller' = caller
    BY <1>2 DEF DestroyBase, FreeHead, Freed
  <2> QED  BY <2>1, <2>2 DEF ScheduledInv, ImmediateScheduled
<1> QED  BY <1>1, <1>2

LEMMA LoopScheduled ==
  ASSUME ScheduledInv,
         \/ Running \/ LoopEnd \/ LoopEmpty \/ DispatchError \/ Dispatch
         \/ ProcessExit \/ ProcessDone
  PROVE  ScheduledInv'
<1>1. TypeOK'
  BY RunningType, LoopType, DispatchType, ProcessExitType DEF ScheduledInv
<1>2. /\ pc \in {"app", "loop", "process"} /\ pc' \in {"app", "loop", "process"}
      /\ UNCHANGED <<links, caller>>
  <2>1. CASE Running \/ Dispatch \/ ProcessExit
    BY <2>1
    DEF Running, Run, Dispatch, ProcessExit, Processing, loopUnchanged, handlerVars
  <2>2. CASE LoopEnd \/ LoopEmpty \/ DispatchError \/ ProcessDone
    BY <2>2
    DEF LoopEnd, LoopEmpty, DispatchError, ProcessDone, loopUnchanged, handlerVars
  <2> QED  BY <2>1, <2>2
<1>3. immediate # "idle" => immediate' # "idle"
  <2>1. CASE Dispatch
    BY <2>1 DEF Dispatch, Wait
  <2>2. CASE ~Dispatch
    BY <2>2
    DEF Running, Run, LoopEnd, LoopEmpty, DispatchError, ProcessDone, ProcessExit,
        ExitCallback, baseVars
  <2> QED  BY <2>1, <2>2
<1> QED  BY <1>1, <1>2, <1>3 DEF ScheduledInv, ImmediateScheduled, InImmediate

(* immediate_callback leaves only after update_immediate_timeout. *)
LEMMA ImmediateCallbackScheduled ==
  ASSUME ScheduledInv, ImmediateCallback \/ ImmediateStep \/ ImmediateEnd
  PROVE  ScheduledInv'
<1>1. TypeOK'
  BY ImmediateType DEF ScheduledInv
<1>2. CASE ImmediateCallback
  BY <1>1, <1>2
  DEF ImmediateCallback, Processing, ScheduledInv, ImmediateScheduled, InImmediate
<1>3. CASE ImmediateStep
  BY <1>1, <1>3
  DEF ImmediateStep, CallFunction, ScheduledInv, ImmediateScheduled, InImmediate
<1>4. CASE ImmediateEnd
  BY <1>1, <1>4
  DEF ImmediateEnd, UpdateImmediate, ScheduledInv, ImmediateScheduled, InImmediate
<1> QED  BY <1>2, <1>3, <1>4

LEMMA EventScheduled ==
  ASSUME ScheduledInv, NEW h \in Handlers, EventCallback(h) \/ EventIgnored(h)
  PROVE  ScheduledInv'
<1>1. CASE EventCallback(h)
  <2>1. TypeOK'
    BY <1>1, EventCallbackType DEF ScheduledInv
  <2>2. /\ pc = "process" /\ pc' = "callback" /\ caller' = "event"
        /\ UNCHANGED <<links, immediate>>
    BY <1>1 DEF EventCallback, Processing, CallFunction
  <2> QED  BY <2>1, <2>2 DEF ScheduledInv, ImmediateScheduled, InImmediate
<1>2. CASE EventIgnored(h)
  <2>1. TypeOK' /\ Scheduled(links')
    BY <1>2, EventIgnoredType DEF ScheduledInv
  <2>2. UNCHANGED <<pc, caller>>
    BY <1>2 DEF EventIgnored
  <2>3. ImmediateScheduled'
    BY <2>1, <2>2, KeepsScheduled DEF InImmediate
  <2> QED  BY <2>1, <2>2, <2>3 DEF ScheduledInv
<1> QED  BY <1>1, <1>2

(* handle_event updates the timeout itself, except for immediate_callback. *)
LEMMA CallbackReturnsScheduled ==
  ASSUME ScheduledInv, NEW goOn \in BOOLEAN, CallbackReturns(goOn)
  PROVE  ScheduledInv'
<1>1. TypeOK' /\ (caller = "event" => Scheduled(links'))
  BY CallbackReturnsType DEF ScheduledInv
<1>2. /\ pc = "callback" /\ caller' = "none"
      /\ pc' = IF caller = "event" THEN "process" ELSE "immediate"
  BY DEF CallbackReturns
<1>3. CASE caller = "event"
  <2>1. ImmediateScheduled'
    BY <1>1, <1>2, <1>3, KeepsScheduled DEF InImmediate
  <2> QED  BY <1>1, <1>2, <2>1 DEF ScheduledInv
<1>4. CASE caller # "event"
  BY <1>1, <1>2, <1>4 DEF ScheduledInv, ImmediateScheduled, InImmediate
<1> QED  BY <1>3, <1>4

LEMMA ScheduledInit == Init => ScheduledInv
BY InitType
DEF Init, ScheduledInv, ImmediateScheduled, LQ!NoLinks, Queues

LEMMA ScheduledNext == ASSUME ScheduledInv, [Next]_vars PROVE ScheduledInv'
<1>1. CASE Reactor
  <2>1. ASSUME NEW h \in Handlers, EventCallback(h) \/ EventIgnored(h) PROVE ScheduledInv'
    BY <2>1, EventScheduled
  <2>2. ASSUME NEW goOn \in BOOLEAN, CallbackReturns(goOn) PROVE ScheduledInv'
    BY <2>2, CallbackReturnsScheduled
  <2> QED
    BY <1>1, <2>1, <2>2, ReplaceScheduled, DestroyScheduled, LoopScheduled,
       ImmediateCallbackScheduled
    DEF Reactor
<1>2. ASSUME NEW s \in Sockets, SignalSocket(s) PROVE ScheduledInv'
  <2>1. TypeOK'
    BY <1>2, SignalType DEF ScheduledInv
  <2> QED
    BY <1>2, <2>1
    DEF SignalSocket, Signal, ScheduledInv, ImmediateScheduled, InImmediate, handlerVars
<1>3. CASE UNCHANGED vars
  <2>1. TypeOK'
    BY <1>3, NextType DEF ScheduledInv
  <2> QED
    BY <1>3, <2>1
    DEF vars, baseVars, handlerVars, ScheduledInv, ImmediateScheduled, InImmediate
<1> QED
  BY <1>1, <1>2, <1>3, ClientScheduled, LoopScheduled DEF Next

(* A triggered handler always has the immediate callback scheduled for it, *)
(* or is being worked off by it: update_immediate_timeout is never missed. *)
THEOREM TriggeredScheduled == Spec => []ImmediateScheduled
<1>1. ScheduledInv => ImmediateScheduled
  BY DEF ScheduledInv
<1> QED  BY <1>1, ScheduledInit, ScheduledNext, PTL DEF Spec
=============================================================================
