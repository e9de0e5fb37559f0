------------------------ MODULE LibEventLevelProofs -------------------------
(***************************************************************************)
(* The LibEvent reactor implements LevelReactor: every step over           *)
(* edge-triggered descriptors, three queues and a timer of its own is a    *)
(* step of a reactor that calls what is ready now, or no step of it.  The  *)
(* proof draws on those of the queues, of the wake-ups and of the result.  *)
(***************************************************************************)
EXTENDS LibEventQueueProofs, LibEventWakeupProofs

-----------------------------------------------------------------------------
(* What the client sees, as LibEventProperties!Level maps it. *)

Spent == (alive \intersect Timers) \ registered
Result == IF Phase = "run" \/ Phase = "function" THEN "none" ELSE pollResult

LEMMA PhaseIs ==
  /\ pc \in {"destroy", "freeing", "dead"} => Phase = "over"
  /\ pc \in {"loop", "process", "immediate"} => Phase = "run"
  /\ pc \in {"app", "callback", "replace"} =>
       Phase = IF caller = "none" THEN "idle" ELSE "function"
BY DEF Phase, Destroying

LEMMA PhaseIsNext ==
  /\ pc' \in {"destroy", "freeing", "dead"} => Phase' = "over"
  /\ pc' \in {"loop", "process", "immediate"} => Phase' = "run"
  /\ pc' \in {"app", "callback", "replace"} =>
       Phase' = IF caller' = "none" THEN "idle" ELSE "function"
BY DEF Phase, Destroying

LEMMA DueInside == Level!DueChanges
BY DEF Level!DueChanges, Due

(* The steps of LevelReactor, in these terms. *)
LEMMA Unseen ==
  ASSUME UNCHANGED <<alive, enabled, cur, outcome>>,
         Spent' = Spent, Phase' = Phase, Result' = Result
  PROVE  Level!Next
BY DueInside DEF Level!Next, Spent, Result

LEMMA Registers ==
  ASSUME NEW h \in Handlers, Phase \in {"idle", "function"}, h \notin alive,
         alive' = alive \union {h}, enabled' = enabled \union {h},
         UNCHANGED <<cur, outcome>>, Spent' = Spent, Phase' = Phase, Result' = Result
  PROVE  Level!Next
<1>1. Level!Register(h)
  BY DEF Level!Register, Level!tableUnchanged, Spent, Result
<1> QED  BY <1>1, DueInside DEF Level!Next

LEMMA Removes ==
  ASSUME NEW h \in Handlers, Phase \in {"idle", "function", "over"}, h \in alive,
         alive' = alive \ {h}, enabled' = enabled \ {h}, Spent' = Spent \ {h},
         cur' = IF cur = h THEN NULL ELSE cur,
         outcome' = outcome, Phase' = Phase, Result' = Result
  PROVE  Level!Next
<1>1. Level!Remove(h)
  BY DEF Level!Remove, Level!tableUnchanged, Spent, Result
<1> QED  BY <1>1, DueInside DEF Level!Next

LEMMA Disables ==
  ASSUME NEW h \in Handlers, Phase \in {"idle", "function"}, h \in enabled,
         enabled' = enabled \ {h}, Spent' = Spent \union ({h} \intersect Timers),
         UNCHANGED <<alive, cur, outcome>>, Phase' = Phase, Result' = Result
  PROVE  Level!Next
<1>1. Level!Disable(h)
  BY DEF Level!Disable, Level!tableUnchanged, Spent, Result
<1> QED  BY <1>1, DueInside DEF Level!Next

LEMMA Enables ==
  ASSUME NEW h \in Handlers, Phase \in {"idle", "function"}, h \in alive \ enabled,
         enabled' = enabled \union {h}, UNCHANGED <<alive, cur, outcome>>,
         Spent' = Spent, Phase' = Phase, Result' = Result
  PROVE  Level!Next
<1>1. Level!Enable(h)
  BY DEF Level!Enable, Level!tableUnchanged, Spent, Result
<1> QED  BY <1>1, DueInside DEF Level!Next

LEMMA CallsFunction ==
  ASSUME NEW h \in Handlers, Phase = "run", Phase' = "function",
         h \in enabled, h \in Due', h \notin Spent, cur' = h,
         Spent' = Spent \union ({h} \intersect (Timers \ Persistent)),
         UNCHANGED <<alive, enabled, outcome>>
  PROVE  Level!Next
<1>1. Level!Call(h)
  BY DEF Level!Call, Spent
<1> QED  BY <1>1, DueInside DEF Level!Next

LEMMA Returned ==
  ASSUME NEW goOn \in BOOLEAN, Phase = "function", Phase' = "run", cur' = NULL,
         outcome' = IF goOn /\ outcome # "cancelled" THEN "called" ELSE "cancelled",
         UNCHANGED <<alive, enabled>>, Spent' = Spent
  PROVE  Level!Next
<1>1. Level!Return(goOn)
  BY DEF Level!Return, Spent
<1> QED  BY <1>1, DueInside DEF Level!Next

LEMMA Starts ==
  ASSUME Phase = "idle", Phase' = "run", outcome' = "none",
         UNCHANGED <<alive, enabled, cur>>, Spent' = Spent
  PROVE  Level!Next
<1>1. Level!Start
  BY DEF Level!Start, Spent
<1> QED  BY <1>1, DueInside DEF Level!Next

LEMMA EndsRun ==
  ASSUME Phase = "run", Phase' = "idle",
         pollResult' \in {"OK", "NONE_MATCHED", "CANCELLED", "ERROR"},
         pollResult' = "OK" => outcome # "none",
         pollResult' = "CANCELLED" => outcome = "cancelled",
         UNCHANGED <<alive, enabled, cur, outcome>>, Spent' = Spent
  PROVE  Level!Next
<1>1. Level!End
  BY DEF Level!End, Spent
<1> QED  BY <1>1, DueInside DEF Level!Next

LEMMA Destroys ==
  ASSUME Phase = "idle", Phase' = "over", UNCHANGED <<alive, enabled, cur, outcome>>,
         Spent' = Spent, Result' = Result
  PROVE  Level!Next
<1>1. Level!Destroy
  BY DEF Level!Destroy, Spent, Result
<1> QED  BY <1>1, DueInside DEF Level!Next

LEMMA StopsTimers ==
  ASSUME Phase = "over", Phase' = "over", UNCHANGED <<alive, enabled, cur, outcome>>,
         Spent' = alive \intersect Timers, Result' = Result
  PROVE  Level!Next
<1>1. Level!StopTimers
  BY DEF Level!StopTimers, Spent, Result
<1> QED  BY <1>1, DueInside DEF Level!Next

-----------------------------------------------------------------------------
(* Only a handler whose event is added is called by libevent, and only a   *)
(* 0MQ handler is ever TRIGGERED: so a timer that is spent is called by    *)
(* neither event_callback nor immediate_callback.                          *)
FiredInv ==
  /\ active \subseteq registered
  /\ \A h \in Handlers : status[h] = "TRIGGERED" => h \in ZmqHandlers

LEMMA ActivateFires ==
  ASSUME TypeOK, FiredInv, NEW h \in Handlers, NEW s, NEW m, NEW lk, Activate(lk, h, s, m)
  PROVE  /\ \A x \in Handlers : status'[x] = "TRIGGERED" => x \in ZmqHandlers
         /\ registered \subseteq registered' /\ registered' \subseteq registered \union {h}
         /\ h \in Timers => registered' = registered
<1>1. /\ registered' = IF h \in Timers THEN registered ELSE registered \union {h}
      /\ \/ status' = [status EXCEPT ![h] = "WAITING"]
         \/ h \in ZmqHandlers /\ status' = [status EXCEPT ![h] = "TRIGGERED"]
  BY DEF Activate, HasActualEvents
<1>2. \A x \in Handlers : status'[x] = "TRIGGERED" => x \in ZmqHandlers
  BY <1>1 DEF FiredInv, TypeOK
<1> QED  BY <1>1, <1>2

LEMMA SettleFires ==
  ASSUME TypeOK, FiredInv, NEW h \in Handlers, NEW r, NEW u, Settle(h, r, u)
  PROVE  \A x \in Handlers : status'[x] = "TRIGGERED" => x \in ZmqHandlers
<1>1. \/ status' = status
      \/ h \in ZmqHandlers /\ \E now : status' = [status EXCEPT ![h] = now]
  BY DEF Settle
<1> QED  BY <1>1 DEF FiredInv, TypeOK

LEMMA DeleteFires ==
  ASSUME TypeOK, FiredInv, NEW h \in Handlers, Delete(h)
  PROVE  \A x \in Handlers : status'[x] = "TRIGGERED" => x \in ZmqHandlers
BY DEF Delete, FiredInv, TypeOK

LEMMA ClientFires == ASSUME TypeOK, FiredInv, Client PROVE FiredInv'
<1>1. ASSUME NEW h \in ZmqHandlers, NEW s \in Sockets, NEW m \in Masks,
             AddZmqHandler(h, s, m)
      PROVE  FiredInv'
  <2>1. h \in Handlers /\ Activate(links, h, s, m) /\ active' = active
    BY <1>1 DEF AddZmqHandler, Handlers
  <2> QED  BY <2>1, ActivateFires DEF FiredInv
<1>2. ASSUME NEW h \in FdHandlers, AddFdHandler(h)
      PROVE  FiredInv'
  <2>1. h \in Handlers /\ Activate(links, h, NULL, {}) /\ active' = active
    BY <1>2 DEF AddFdHandler, Handlers
  <2> QED  BY <2>1, ActivateFires DEF FiredInv
<1>3. ASSUME NEW h \in Timers, AddTimeout(h)
      PROVE  FiredInv'
  BY <1>3 DEF AddTimeout, FiredInv
<1>4. ASSUME NEW h \in Handlers, RemoveHandler(h)
      PROVE  FiredInv'
  <2>1. Delete(h) /\ active' = active \ {h} /\ registered' = registered \ {h}
    BY <1>4 DEF RemoveHandler, DoRemoveHandler, Deactivate
  <2> QED  BY <2>1, DeleteFires DEF FiredInv
<1>5. ASSUME NEW h \in Handlers, DisableHandler(h)
      PROVE  FiredInv'
  BY <1>5 DEF DisableHandler, Deactivate, FiredInv
<1>6. ASSUME NEW h \in Handlers, EnableHandler(h)
      PROVE  FiredInv'
  <2>1. Activate(LQ!Dequeue(links, "disabled", h), h, sock[h], expected[h]) /\ active' = active
    BY <1>6 DEF EnableHandler
  <2> QED  BY <2>1, ActivateFires DEF FiredInv
<1>7. ASSUME NEW h \in Handlers, ForceCheckEvents(h)
      PROVE  FiredInv'
  <2>1. /\ UNCHANGED <<active, registered>>
        /\ \/ status' = status
           \/ h \in ZmqHandlers /\ status' = [status EXCEPT ![h] = "TRIGGERED"]
    BY <1>7 DEF ForceCheckEvents, HasActualEvents
  <2> QED  BY <2>1 DEF FiredInv, TypeOK
<1>8. CASE \/ \E s \in Sockets : Use(s)
           \/ \E old, new \in Sockets : ReplaceSocket(old, new)
           \/ \E timeout \in Durations : RunNested(timeout)
           \/ Destroy
  <2>1. UNCHANGED <<active, registered, status>>
    BY <1>8
    DEF Use, Operate, ReplaceSocket, RunNested, Destroy, baseVars, handlerVars,
        loopUnchanged
  <2> QED  BY <2>1 DEF FiredInv
<1> QED  BY <1>1, <1>2, <1>3, <1>4, <1>5, <1>6, <1>7, <1>8 DEF Client

LEMMA ReactorFires == ASSUME TypeOK, FiredInv, Reactor PROVE FiredInv'
<1>1. CASE ReplaceStep
  <2>1. iter.hi \in Handlers
    BY <1>1 DEF ReplaceStep, TypeOK
  <2>2. CASE UNCHANGED <<baseVars, links, status, sock, used>>
    BY <2>2 DEF FiredInv, baseVars
  <2>3. CASE /\ active' = active \ {iter.hi}
             /\ Activate(LQ!Dequeue(links, QueueOf(iter.hi), iter.hi), iter.hi,
                         replacing.new, expected[iter.hi])
    BY <2>1, <2>3, ActivateFires DEF FiredInv
  <2> QED  BY <1>1, <2>2, <2>3 DEF ReplaceStep
<1>2. CASE DestroyStep
  <2>1. iter.hi \in Handlers
    BY <1>2 DEF DestroyStep, TypeOK
  <2>2. /\ Delete(iter.hi)
        /\ active' = active \ {iter.hi} /\ registered' = registered \ {iter.hi}
    BY <1>2 DEF DestroyStep, DoRemoveHandler, Deactivate
  <2> QED  BY <2>1, <2>2, DeleteFires DEF FiredInv
<1>3. CASE FreeHead
  <2>1. links.head[FreeingQueue] \in Handlers
    BY <1>3, FreedHandler
  <2>2. Delete(links.head[FreeingQueue]) /\ UNCHANGED <<active, registered>>
    BY <1>3 DEF FreeHead, baseVars
  <2> QED  BY <2>1, <2>2, DeleteFires DEF FiredInv
<1>4. CASE \E h \in Handlers : EventCallback(h) \/ EventIgnored(h)
  <2>1. PICK h \in Handlers : EventCallback(h) \/ EventIgnored(h)
    BY <1>4
  <2>2. Fire(h) /\ (status' = status \/ \E r, u : Settle(h, r, u))
    BY <2>1 DEF EventCallback, EventIgnored
  <2>3. \A x \in Handlers : status'[x] = "TRIGGERED" => x \in ZmqHandlers
    BY <2>2, SettleFires DEF FiredInv
  <2> QED  BY <2>2, <2>3 DEF Fire, FiredInv
<1>5. CASE \E goOn \in BOOLEAN : CallbackReturns(goOn)
  <2>1. /\ UNCHANGED <<active, registered>>
        /\ \/ status' = status
           \/ nowHandled # NULL /\ \E r, u : Settle(nowHandled, r, u)
    BY <1>5 DEF CallbackReturns
  <2>2. \A x \in Handlers : status'[x] = "TRIGGERED" => x \in ZmqHandlers
    BY <2>1, SettleFires DEF FiredInv, TypeOK
  <2> QED  BY <2>1, <2>2 DEF FiredInv
<1>6. CASE DestroyBase
  BY <1>6 DEF DestroyBase, handlerVars, FiredInv
<1>7. CASE \/ ReplaceEnd \/ Freed \/ LoopEnd \/ LoopEmpty \/ ProcessExit \/ ProcessDone
           \/ ImmediateCallback \/ ImmediateStep \/ ImmediateEnd
  <2>1. UNCHANGED <<active, registered, status>>
    BY <1>7
    DEF ReplaceEnd, Freed, LoopEnd, LoopEmpty, ProcessExit, ExitCallback, ProcessDone,
        ImmediateCallback, ImmediateStep, ImmediateEnd, baseVars, handlerVars,
        loopUnchanged
  <2> QED  BY <2>1 DEF FiredInv
<1> QED  BY <1>1, <1>2, <1>3, <1>4, <1>5, <1>6, <1>7 DEF Reactor

LEMMA FiredNext == ASSUME TypeOK, FiredInv, [Next]_vars PROVE FiredInv'
<1>1. CASE Dispatch
  BY <1>1 DEF Dispatch, Wait, loopUnchanged, handlerVars, FiredInv
<1>2. CASE \/ Running \/ DispatchError \/ UNCHANGED vars
           \/ \E s \in Sockets : SignalSocket(s)
  <2>1. UNCHANGED <<active, registered, status>>
    BY <1>2
    DEF Running, Run, DispatchError, SignalSocket, Signal, vars, baseVars, handlerVars,
        loopUnchanged
  <2> QED  BY <2>1 DEF FiredInv
<1> QED  BY <1>1, <1>2, ClientFires, ReactorFires DEF Next

-----------------------------------------------------------------------------
(* What the steps are read with: the invariants of the other proofs. *)
LevelInv == SoundInv /\ WakeupInv /\ FiredInv /\ OwnResult

LEMMA LevelFacts ==
  ASSUME LevelInv
  PROVE  /\ TypeOK
         /\ alive \subseteq Handlers /\ enabled \subseteq alive
         /\ registered \subseteq enabled /\ active \subseteq registered
         /\ pc \notin {"callback", "replace"} => caller = "none"
         /\ pc = "callback" => caller # "none"
         /\ caller = "none" => nowHandled = NULL /\ cur = NULL
BY DEF LevelInv, SoundInv, TypeOK, PointersInv, WakeupInv, Handling, FiredInv

(* A step outside of a run, and of ~LibEvent, that leaves pc and caller alone *)
LEMMA ClientPhase ==
  ASSUME pc \in {"app", "callback"}, UNCHANGED <<pc, caller>>
  PROVE  /\ Phase \in {"idle", "function"}
         /\ Phase' = Phase
         /\ pollResult' = pollResult => Result' = Result
<1>1. Phase \in {"idle", "function"} /\ Phase' = Phase
  BY PhaseIs, PhaseIsNext
<1> QED  BY <1>1 DEF Result

(* The steps of the client *)

LEMMA AddLevel ==
  ASSUME LevelInv,
         \/ \E h \in ZmqHandlers, s \in Sockets, m \in Masks : AddZmqHandler(h, s, m)
         \/ \E h \in FdHandlers : AddFdHandler(h)
         \/ \E h \in Timers : AddTimeout(h)
  PROVE  Level!Next
<1>1. PICK h \in Handlers :
        /\ ClientRuns("Add") /\ h \notin alive
        /\ alive' = alive \union {h} /\ enabled' = enabled \union {h}
        /\ UNCHANGED <<cur, clientUnchanged>>
        /\ \/ h \notin Timers /\ \E lk, s, m : Activate(lk, h, s, m)
           \/ registered' = registered \union {h}
  <2>1. CASE \E h \in ZmqHandlers, s \in Sockets, m \in Masks : AddZmqHandler(h, s, m)
    BY <2>1, HandlersAssumption DEF AddZmqHandler, Handlers
  <2>2. CASE \E h \in FdHandlers : AddFdHandler(h)
    BY <2>2, HandlersAssumption DEF AddFdHandler, Handlers
  <2>3. CASE \E h \in Timers : AddTimeout(h)
    BY <2>3 DEF AddTimeout, Handlers
  <2> QED  BY <2>1, <2>2, <2>3
<1>2. TypeOK /\ FiredInv
  BY LevelFacts DEF LevelInv
<1>3. Spent' = Spent
  <2>1. CASE h \notin Timers /\ \E lk, s, m : Activate(lk, h, s, m)
    <3>1. registered \subseteq registered' /\ registered' \subseteq registered \union {h}
      BY <1>2, <2>1, ActivateFires
    <3> QED  BY <1>1, <2>1, <3>1 DEF Spent
  <2>2. CASE registered' = registered \union {h}
    BY <1>1, <2>2 DEF Spent
  <2> QED  BY <1>1, <2>1, <2>2
<1>4. Phase \in {"idle", "function"} /\ Phase' = Phase /\ Result' = Result
  BY <1>1, ClientPhase DEF ClientRuns, clientUnchanged
<1> QED  BY <1>1, <1>3, <1>4, Registers DEF clientUnchanged

LEMMA HandlerLevel ==
  ASSUME LevelInv, NEW h \in Handlers,
         RemoveHandler(h) \/ DisableHandler(h) \/ EnableHandler(h) \/ ForceCheckEvents(h)
  PROVE  Level!Next
<1>1. /\ TypeOK /\ FiredInv /\ enabled \subseteq alive /\ registered \subseteq enabled
  BY LevelFacts DEF LevelInv
<1>2. pc \in {"app", "callback"} /\ UNCHANGED clientUnchanged
  BY DEF RemoveHandler, DisableHandler, EnableHandler, ForceCheckEvents, ClientRuns
<1>3. Phase \in {"idle", "function"} /\ Phase' = Phase /\ Result' = Result
  BY <1>2, ClientPhase DEF clientUnchanged
<1>4. outcome' = outcome
  BY <1>2 DEF clientUnchanged
<1>5. CASE RemoveHandler(h)
  <2>1. /\ h \in alive /\ alive' = alive \ {h} /\ enabled' = enabled \ {h}
        /\ registered' = registered \ {h} /\ cur' = IF cur = h THEN NULL ELSE cur
    BY <1>5 DEF RemoveHandler, DoRemoveHandler, Deactivate, Delete
  <2>2. Spent' = Spent \ {h}
    BY <2>1 DEF Spent
  <2> QED  BY <1>3, <1>4, <2>1, <2>2, Removes
<1>6. CASE DisableHandler(h)
  <2>1. /\ h \in enabled /\ enabled' = enabled \ {h} /\ registered' = registered \ {h}
        /\ UNCHANGED <<alive, cur>>
    BY <1>6 DEF DisableHandler, Deactivate
  <2>2. Spent' = Spent \union ({h} \intersect Timers)
    BY <1>1, <2>1 DEF Spent
  <2> QED  BY <1>3, <1>4, <2>1, <2>2, Disables
<1>7. CASE EnableHandler(h)
  <2>1. /\ h \in alive \ enabled /\ enabled' = enabled \union {h}
        /\ UNCHANGED <<alive, cur>>
        /\ Activate(LQ!Dequeue(links, "disabled", h), h, sock[h], expected[h])
    BY <1>7 DEF EnableHandler
  <2>2. /\ registered \subseteq registered' /\ registered' \subseteq registered \union {h}
        /\ h \in Timers => registered' = registered
    BY <1>1, <2>1, ActivateFires
  <2>3. Spent' = Spent
    BY <2>1, <2>2 DEF Spent
  <2> QED  BY <1>3, <1>4, <2>1, <2>3, Enables
<1>8. CASE ForceCheckEvents(h)
  <2>1. UNCHANGED <<alive, enabled, cur, registered>>
    BY <1>8 DEF ForceCheckEvents
  <2>2. Spent' = Spent
    BY <2>1 DEF Spent
  <2> QED  BY <1>3, <1>4, <2>1, <2>2, Unseen
<1> QED  BY <1>5, <1>6, <1>7, <1>8

LEMMA ClientLevel == ASSUME LevelInv, Client PROVE Level!Next
<1>1. ASSUME NEW s \in Sockets, Use(s) PROVE Level!Next
  <2>1. /\ pc \in {"app", "callback"}
        /\ UNCHANGED <<pc, caller, pollResult, alive, enabled, cur, outcome, registered>>
    BY <1>1 DEF Use, Operate, ClientRuns, handlerVars
  <2>2. Spent' = Spent
    BY <2>1 DEF Spent
  <2> QED  BY <2>1, <2>2, ClientPhase, Unseen
<1>2. ASSUME NEW old \in Sockets, NEW new \in Sockets, ReplaceSocket(old, new)
      PROVE  Level!Next
  <2>1. /\ pc \in {"app", "callback"} /\ pc' = "replace"
        /\ UNCHANGED <<caller, pollResult, alive, enabled, cur, outcome, registered>>
    BY <1>2 DEF ReplaceSocket, ClientRuns, baseVars, handlerVars
  <2>2. Phase' = Phase
    BY <2>1, PhaseIs, PhaseIsNext
  <2>3. Result' = Result /\ Spent' = Spent
    BY <2>1, <2>2 DEF Result, Spent
  <2> QED  BY <2>1, <2>2, <2>3, Unseen
<1>3. ASSUME NEW timeout, RunNested(timeout) PROVE Level!Next
  <2>1. /\ pc = "callback" /\ caller # "none"
        /\ UNCHANGED <<pc, caller, alive, enabled, cur, outcome, registered>>
    BY <1>3, LevelFacts DEF RunNested, loopUnchanged, handlerVars
  <2>2. Phase = "function" /\ Phase' = "function"
    BY <2>1, PhaseIs, PhaseIsNext
  <2>3. Result' = Result /\ Spent' = Spent
    BY <2>1, <2>2 DEF Result, Spent
  <2> QED  BY <2>1, <2>2, <2>3, Unseen
<1>4. CASE Destroy
  <2>1. /\ pc = "app" /\ pc' = "destroy" /\ caller = "none"
        /\ UNCHANGED <<pollResult, alive, enabled, cur, outcome, registered>>
    BY <1>4, LevelFacts DEF Destroy, baseVars, handlerVars
  <2>2. Phase = "idle" /\ Phase' = "over"
    BY <2>1, PhaseIs, PhaseIsNext
  <2>3. Result' = Result /\ Spent' = Spent
    BY <2>1, <2>2 DEF Result, Spent
  <2> QED  BY <2>1, <2>2, <2>3, Destroys
<1> QED  BY <1>1, <1>2, <1>3, <1>4, AddLevel, HandlerLevel DEF Client

(* replace_socket and ~LibEvent *)

LEMMA ReplaceLevel == ASSUME LevelInv, ReplaceStep \/ ReplaceEnd PROVE Level!Next
<1>1. /\ TypeOK /\ FiredInv
  BY LevelFacts DEF LevelInv
<1>2. CASE ReplaceStep
  <2>1. UNCHANGED <<pc, caller, pollResult, alive, enabled, cur, outcome>>
    BY <1>2 DEF ReplaceStep
  <2>2. Phase' = Phase
    BY <2>1 DEF Phase, Destroying
  <2>3. Result' = Result
    BY <2>1, <2>2 DEF Result
  <2>4. Spent' = Spent
    <3>1. CASE UNCHANGED baseVars
      BY <2>1, <3>1 DEF Spent, baseVars
    <3>2. CASE sock[iter.hi] = replacing.old /\ \E lk, s, m : Activate(lk, iter.hi, s, m)
      <4>1. iter.hi \in Handlers /\ sock[iter.hi] # NULL
        BY <1>1, <1>2, <3>2, HandlersAssumption
        DEF ReplaceStep, TypeOK, LevelInv, WakeupInv, OwnSockets
      <4>2. iter.hi \notin Timers
        BY <4>1, HandlersAssumption DEF LevelInv, WakeupInv, OwnSockets
      <4>3. /\ registered \subseteq registered'
            /\ registered' \subseteq registered \union {iter.hi}
        BY <1>1, <3>2, <4>1, ActivateFires
      <4> QED  BY <2>1, <4>2, <4>3 DEF Spent
    <3> QED  BY <1>2, <3>1, <3>2 DEF ReplaceStep
  <2> QED  BY <2>1, <2>2, <2>3, <2>4, Unseen
<1>3. CASE ReplaceEnd
  <2>1. /\ pc = "replace" /\ pc' \in {"app", "callback"}
        /\ UNCHANGED <<caller, pollResult, alive, enabled, cur, outcome, registered>>
    BY <1>3 DEF ReplaceEnd, baseVars, handlerVars
  <2>2. Phase' = Phase
    BY <2>1, PhaseIs, PhaseIsNext
  <2>3. Result' = Result /\ Spent' = Spent
    BY <2>1, <2>2 DEF Result, Spent
  <2> QED  BY <2>1, <2>2, <2>3, Unseen
<1> QED  BY <1>2, <1>3

LEMMA DestroyLevel ==
  ASSUME LevelInv, DestroyStep \/ DestroyBase \/ FreeHead \/ Freed
  PROVE  Level!Next
<1>1. /\ {pc, pc'} \subseteq {"destroy", "freeing", "dead"} /\ caller = "none"
      /\ UNCHANGED <<pollResult, outcome>>
  BY LevelFacts DEF DestroyStep, DestroyBase, FreeHead, Freed
<1>2. Phase = "over" /\ Phase' = "over"
  BY <1>1, PhaseIs, PhaseIsNext
<1>3. Result' = Result
  BY <1>1, <1>2 DEF Result
<1>4. TypeOK /\ enabled \subseteq alive /\ registered \subseteq enabled /\ cur = NULL
  BY <1>1, LevelFacts
<1>5. CASE DestroyStep
  <2>1. PICK h \in Handlers : h = iter.hi
    BY <1>4, <1>5 DEF DestroyStep, TypeOK
  <2>2. /\ h \in alive /\ alive' = alive \ {h} /\ enabled' = enabled \ {h}
        /\ registered' = registered \ {h} /\ cur' = IF cur = h THEN NULL ELSE cur
    BY <1>5, <2>1
    DEF DestroyStep, DoRemoveHandler, Deactivate, Delete, LevelInv, SoundInv, PointersInv
  <2>3. Spent' = Spent \ {h}
    BY <2>2 DEF Spent
  <2> QED  BY <1>1, <1>2, <1>3, <2>2, <2>3, Removes
<1>6. CASE DestroyBase
  <2>1. UNCHANGED <<alive, enabled, cur>> /\ registered' = {}
    BY <1>6 DEF DestroyBase, handlerVars
  <2>2. Spent' = alive \intersect Timers
    BY <2>1 DEF Spent
  <2> QED  BY <1>1, <1>2, <1>3, <2>1, <2>2, StopsTimers
<1>7. CASE FreeHead
  <2>1. PICK h \in Handlers : h = links.head[FreeingQueue]
    BY <1>4, <1>7, FreedHandler
  <2>2. /\ alive' = alive \ {h} /\ enabled' = enabled \ {h}
        /\ registered' = registered /\ cur' = IF cur = h THEN NULL ELSE cur
    BY <1>7, <2>1 DEF FreeHead, Delete, baseVars
  <2>3. Spent' = Spent \ {h}
    BY <2>2 DEF Spent
  <2>4. CASE h \in alive
    BY <1>1, <1>2, <1>3, <2>2, <2>3, <2>4, Removes
  <2>5. CASE h \notin alive
    <3>1. UNCHANGED <<alive, enabled, cur>> /\ Spent' = Spent
      BY <1>4, <2>2, <2>3, <2>5 DEF Spent
    <3> QED  BY <1>1, <1>2, <1>3, <3>1, Unseen
  <2> QED  BY <2>4, <2>5
<1>8. CASE Freed
  <2>1. UNCHANGED <<alive, enabled, cur, registered>>
    BY <1>8 DEF Freed, baseVars, handlerVars
  <2>2. Spent' = Spent
    BY <2>1 DEF Spent
  <2> QED  BY <1>1, <1>2, <1>3, <2>1, <2>2, Unseen
<1> QED  BY <1>5, <1>6, <1>7, <1>8

(* The run *)

LEMMA RunLevel == ASSUME LevelInv, Running PROVE Level!Next
<1>1. /\ pc = "app" /\ pc' = "loop" /\ caller = "none" /\ outcome' = "none"
      /\ UNCHANGED <<alive, enabled, cur, registered>>
  BY LevelFacts DEF Running, Run, loopUnchanged, handlerVars
<1>2. Phase = "idle" /\ Phase' = "run"
  BY <1>1, PhaseIs, PhaseIsNext
<1>3. Spent' = Spent
  BY <1>1 DEF Spent
<1> QED  BY <1>1, <1>2, <1>3, Starts

(* A step that goes on with the run, or ends it with the result it has *)
LEMMA LoopLevel ==
  ASSUME LevelInv,
         \/ LoopEnd \/ LoopEmpty \/ DispatchError \/ Dispatch
         \/ ProcessExit \/ ProcessDone
  PROVE  Level!Next
<1>1. /\ pc \in {"loop", "process"} /\ pc' \in {"app", "loop", "process"}
      /\ caller = "none" /\ UNCHANGED <<caller, alive, enabled, cur, outcome>>
      /\ pollResult' \in {pollResult, "NONE_MATCHED", "ERROR"}
  <2>1. CASE LoopEnd \/ LoopEmpty \/ DispatchError \/ Dispatch
    BY <2>1, LevelFacts
    DEF LoopEnd, LoopEmpty, DispatchError, Dispatch, loopUnchanged, handlerVars
  <2>2. CASE ProcessExit \/ ProcessDone
    BY <2>2, LevelFacts DEF ProcessExit, Processing, ProcessDone, loopUnchanged, handlerVars
  <2> QED  BY <2>1, <2>2
<1>2. registered' = registered
  BY DEF LoopEnd, LoopEmpty, DispatchError, Dispatch, Wait, ProcessExit, ExitCallback,
         ProcessDone, baseVars
<1>3. Spent' = Spent
  BY <1>1, <1>2 DEF Spent
<1>4. Phase = "run"
  BY <1>1, PhaseIs
<1>5. CASE pc' = "app"
  <2>1. Phase' = "idle"
    BY <1>1, <1>5, PhaseIsNext
  <2>2. /\ pollResult' \in {"OK", "NONE_MATCHED", "CANCELLED", "ERROR"}
        /\ pollResult' = "OK" => outcome # "none"
        /\ pollResult' = "CANCELLED" => outcome = "cancelled"
    BY <1>1, LevelFacts DEF LevelInv, OwnResult, TypeOK
  <2> QED  BY <1>1, <1>3, <1>4, <2>1, <2>2, EndsRun
<1>6. CASE pc' # "app"
  <2>1. Phase' = "run"
    BY <1>1, <1>6, PhaseIsNext
  <2>2. Result' = Result
    BY <1>4, <2>1 DEF Result
  <2> QED  BY <1>1, <1>3, <1>4, <2>1, <2>2, Unseen
<1> QED  BY <1>5, <1>6

(* immediate_callback begins and ends unseen. *)
LEMMA ImmediateLevel == ASSUME LevelInv, ImmediateCallback \/ ImmediateEnd PROVE Level!Next
<1>1. /\ {pc, pc'} \subseteq {"process", "immediate"}
      /\ UNCHANGED <<alive, enabled, cur, outcome, registered>>
  BY DEF ImmediateCallback, ImmediateEnd, Processing, callUnchanged
<1>2. Phase = "run" /\ Phase' = "run"
  BY <1>1, PhaseIs, PhaseIsNext
<1>3. Result' = Result /\ Spent' = Spent
  BY <1>1, <1>2 DEF Result, Spent
<1> QED  BY <1>1, <1>2, <1>3, Unseen

(* The handler that immediate_callback calls without asking is due. *)
LEMMA ImmediateStepLevel == ASSUME LevelInv, ImmediateStep PROVE Level!Next
<1>1. PICK h \in Handlers : h = nextHi /\ h # NULL
  BY LevelFacts DEF ImmediateStep, TypeOK
<1>2. /\ pc = "immediate" /\ pc' = "callback" /\ caller' # "none" /\ cur' = h
      /\ UNCHANGED <<alive, enabled, outcome, registered, ready, sock, expected, used>>
  BY <1>1 DEF ImmediateStep, CallFunction, callUnchanged
<1>3. Phase = "run" /\ Phase' = "function"
  BY <1>2, PhaseIs, PhaseIsNext
<1>4. h \in alive /\ h \in enabled /\ status[h] = "TRIGGERED"
  BY <1>1 DEF LevelInv, SoundInv, PointersInv, Where, QueueOf
<1>5. h \in ZmqHandlers /\ h \notin Timers
  BY <1>4, HandlersAssumption DEF LevelInv, FiredInv
<1>6. h # nowHandled
  BY <1>1, <1>2, LevelFacts
<1>7. h \in Due'
  <2>1. h \in used \/ ready[sock[h]] \intersect expected[h] # {}
    BY <1>4, <1>5, <1>6 DEF LevelInv, WakeupInv, TriggeredIsReady
  <2> QED  BY <1>2, <1>4, <2>1 DEF Due
<1>8. h \notin Spent /\ Spent' = Spent \union ({h} \intersect (Timers \ Persistent))
  BY <1>2, <1>5 DEF Spent
<1> QED  BY <1>2, <1>3, <1>4, <1>7, <1>8, CallsFunction

(* event_callback asks first. *)
LEMMA EventLevel ==
  ASSUME LevelInv, NEW h \in Handlers, EventCallback(h) \/ EventIgnored(h)
  PROVE  Level!Next
<1>1. /\ pc = "process" /\ h \in active /\ Fire(h)
      /\ UNCHANGED <<alive, enabled, outcome, sock, expected>>
  BY DEF EventCallback, EventIgnored, Processing, callUnchanged
<1>2. TypeOK /\ h \in enabled /\ h \in alive /\ h \in registered
  BY <1>1, LevelFacts
<1>3. h \notin Spent /\ Spent' = Spent \union ({h} \intersect (Timers \ Persistent))
  BY <1>1, <1>2 DEF Spent, Fire
<1>4. Phase = "run"
  BY <1>1, PhaseIs
<1>5. CASE EventCallback(h)
  <2>1. pc' = "callback" /\ caller' # "none" /\ cur' = h
    BY <1>5 DEF EventCallback, CallFunction
  <2>2. Phase' = "function"
    BY <2>1, PhaseIsNext
  <2>3. CASE h \in ZmqHandlers
    <3>1. sock[h] \in Sockets
      BY <1>2, <2>3, SocketOf DEF LevelInv
    <3>2. PICK r \in SUBSET Events :
            HasActualEvents(h, sock[h], r) /\ r \intersect expected[h] # {}
      BY <1>5, <2>3 DEF EventCallback
    <3>3. ready'[sock[h]] = r
      BY <1>2, <2>3, <3>1, <3>2, Asked
    <3> QED  BY <1>1, <1>2, <1>3, <1>4, <2>1, <2>2, <3>2, <3>3, CallsFunction DEF Due
  <2>4. CASE h \notin ZmqHandlers
    BY <1>1, <1>2, <1>3, <1>4, <2>1, <2>2, <2>4, CallsFunction DEF Due
  <2> QED  BY <2>3, <2>4
<1>6. CASE EventIgnored(h)
  <2>1. h \in ZmqHandlers /\ UNCHANGED <<pc, caller, cur, pollResult>>
    BY <1>6 DEF EventIgnored
  <2>2. Phase' = Phase
    BY <2>1 DEF Phase, Destroying
  <2>3. Result' = Result
    BY <2>1, <2>2 DEF Result
  <2>4. Spent' = Spent
    BY <1>3, <2>1, HandlersAssumption
  <2> QED  BY <1>1, <2>1, <2>2, <2>3, <2>4, Unseen
<1> QED  BY <1>5, <1>6

LEMMA ReturnLevel ==
  ASSUME LevelInv, NEW goOn \in BOOLEAN, CallbackReturns(goOn)
  PROVE  Level!Next
<1>1. /\ pc = "callback" /\ pc' \in {"process", "immediate"} /\ caller # "none"
      /\ cur' = NULL /\ UNCHANGED <<alive, enabled, registered>>
      /\ outcome' = IF goOn /\ outcome # "cancelled" THEN "called" ELSE "cancelled"
  BY LevelFacts DEF CallbackReturns
<1>2. Phase = "function" /\ Phase' = "run"
  BY <1>1, PhaseIs, PhaseIsNext
<1>3. Spent' = Spent
  BY <1>1 DEF Spent
<1> QED  BY <1>1, <1>2, <1>3, Returned

LEMMA SignalLevel == ASSUME NEW s \in Sockets, SignalSocket(s) PROVE Level!Next
<1>1. UNCHANGED <<pc, caller, pollResult, alive, enabled, cur, outcome, registered>>
  BY DEF SignalSocket, Signal, handlerVars
<1>2. Phase' = Phase
  BY <1>1 DEF Phase, Destroying
<1>3. Result' = Result /\ Spent' = Spent
  BY <1>1, <1>2 DEF Result, Spent
<1> QED  BY <1>1, <1>2, <1>3, Unseen

-----------------------------------------------------------------------------
(* All together *)

LEMMA LevelInit == Init => Level!Init
<1> SUFFICES ASSUME Init PROVE Level!Init
  OBVIOUS
<1>1. /\ alive = {} /\ enabled = {} /\ cur = NULL /\ outcome = "unrun"
      /\ pc = "app" /\ caller = "none" /\ pollResult = "OK"
  BY DEF Init
<1>2. Phase = "idle"
  BY <1>1, PhaseIs
<1>3. Due = {} /\ Spent = {} /\ Result = "OK"
  BY <1>1, <1>2 DEF Due, Spent, Result
<1> QED  BY <1>1, <1>2, <1>3 DEF Level!Init, Spent, Result

LEMMA LevelNext == ASSUME LevelInv, [Next]_vars PROVE [Level!Next]_(Level!vars)
<1>1. CASE Reactor
  BY <1>1, ReplaceLevel, DestroyLevel, LoopLevel, ImmediateLevel, ImmediateStepLevel,
     EventLevel, ReturnLevel
  DEF Reactor
<1>2. CASE UNCHANGED vars
  <2>1. /\ UNCHANGED <<pc, caller, pollResult, alive, enabled, cur, outcome, registered>>
    BY <1>2 DEF vars, baseVars, handlerVars
  <2>2. Phase' = Phase
    BY <2>1 DEF Phase, Destroying
  <2>3. Result' = Result /\ Spent' = Spent
    BY <2>1, <2>2 DEF Result, Spent
  <2> QED  BY <2>1, <2>2, <2>3, Unseen
<1> QED  BY <1>1, <1>2, ClientLevel, RunLevel, LoopLevel, SignalLevel DEF Next

LEMMA LevelInvInit == Init => LevelInv
BY SoundInit, WakeupInit DEF LevelInv, FiredInv, Init, BaseInit, OwnResult

LEMMA LevelInvNext ==
  ASSUME ClientRules, {"OnePerSocket", "NoSelfEnable"} \subseteq Contract,
         LevelInv, [Next]_vars
  PROVE  LevelInv'
BY SoundNext, WakeupNext, FiredNext, ResultNext, LevelFacts DEF LevelInv

(***************************************************************************)
(* For a client that keeps to the rules, except perhaps to that about      *)
(* replace_socket, the reactor is level-triggered: it calls only handlers  *)
(* that are enabled and whose sockets are ready at that moment (unless     *)
(* the client has used them outside of their callbacks), calls no one-shot *)
(* timer again, and returns what its callbacks justify.                    *)
(***************************************************************************)
THEOREM ImplementsLevelReactor ==
  ASSUME {"RemoveEnabled", "CheckEnabled", "SpareNext", "OnePerSocket",
          "NoSelfEnable"} \subseteq Contract
  PROVE  Spec => ImplementsLevel
<1>1. LevelInv /\ [Next]_vars => LevelInv'
  BY LevelInvNext DEF ClientRules
<1>2. LevelInv /\ [Next]_vars => [Level!Next]_(Level!vars)
  BY LevelNext
<1>3. Spec => Level!Spec
  BY <1>1, <1>2, LevelInit, LevelInvInit, PTL DEF Spec, Level!Spec
<1> QED  BY <1>3 DEF ImplementsLevel
=============================================================================
