------------------------------ MODULE LibEvent ------------------------------
(***************************************************************************)
(* The LibEvent reactor: handlers in three linked queues, an event base,   *)
(* and a client that runs the reactor and calls it, from outside or from   *)
(* the callbacks.  Everything below runs in one thread; only Signal is     *)
(* another thread's.  A step is what happens between two points where the  *)
(* client's code, libevent or a socket has a choice.                       *)
(***************************************************************************)
EXTENDS EventBase, Sequences

CONSTANTS
  Calls,     (* what the client of this instance does: a subset of AllCalls *)
  Contract,  (* the rules it keeps to: a subset of AllRules                 *)
  Masks,     (* the event masks it adds 0MQ handlers with                   *)
  MaxExits   (* bound: loopexit events outstanding at a time                *)

AllCalls == {"Add", "Remove", "Disable", "Enable", "ForceCheck", "Use",
             "Replace", "Destroy", "Timeout", "Cancel", "Nest"}

(***************************************************************************)
(* The rules the code needs its clients to follow, though it states none:  *)
(*   RemoveEnabled  a disabled handler is enabled before it is removed     *)
(*   CheckEnabled   a disabled handler is not force-checked                *)
(*   SpareNext      a callback leaves alone the handler that the loop of   *)
(*                  immediate_callback has chosen to call next             *)
(*   OnePerSocket   a socket has at most one handler                       *)
(*   NoSelfEnable   a callback does not re-enable its own handler          *)
(*   ReplaceWhole   replace_socket is called only if its iterator reaches  *)
(*                  every handler of the old socket                        *)
(***************************************************************************)
AllRules == {"RemoveEnabled", "CheckEnabled", "SpareNext", "OnePerSocket",
             "NoSelfEnable", "ReplaceWhole"}

ASSUME ClientAssumption == Calls \subseteq AllCalls /\ Contract \subseteq AllRules
ASSUME HandlersAssumption ==
  /\ NULL \notin Handlers \union Sockets
  /\ ZmqHandlers \intersect FdHandlers = {}
  /\ ZmqHandlers \intersect Timers = {}
  /\ FdHandlers \intersect Timers = {}
  /\ Persistent \subseteq Timers
  /\ Masks \subseteq SUBSET Events
  /\ MaxExits \in Nat

Queues == {"waiting", "triggered", "disabled"}

LQ == INSTANCE LinkedQueue WITH Objects <- Handlers

VARIABLES
  links,       (* the three queues: their heads and the handlers' links        *)
  alive,       (* the HandlerInfo objects that exist                           *)
  enabled,     (* HandlerInfo::enabled_                                        *)
  status,      (* HandlerInfo::status_                                         *)
  sock,        (* HandlerInfo::arg_.socket                                     *)
  expected,    (* HandlerInfo::expected_events_                                *)
  nowHandled,  (* now_handled_                                                 *)
  pollResult   (* poll_result_                                                 *)

handlerVars == <<links, alive, enabled, status, sock, expected>>

VARIABLES
  pc,        (* where the thread is, see Places                              *)
  once,      (* event_base_loop runs with EVLOOP_ONCE                        *)
  caller,    (* who runs the callback: "event", "immediate", or "none"       *)
  nextHi,    (* next_hi in immediate_callback                                *)
  iter,      (* AllHandlersIter: its queue and handler                       *)
  replacing  (* the arguments of replace_socket                              *)

VARIABLES
  cur,       (* history: the handler whose callback runs, while it exists    *)
  used,      (* history: handlers whose socket was used outside their        *)
             (*   callback since the reactor last asked what it is ready for *)
  outcome    (* history: what the callbacks of this run returned             *)

vars == <<baseVars, handlerVars, nowHandled, pollResult,
          pc, once, caller, nextHi, iter, replacing, cur, used, outcome>>

Places == {"app",        (* in the client's code, outside the reactor   *)
           "loop",       (* at the top of event_base_loop               *)
           "process",    (* libevent is working off the active events   *)
           "immediate",  (* between two handlers of immediate_callback  *)
           "callback",   (* in a handler's function                     *)
           "replace",    (* in do_replace_descriptor                    *)
           "destroy",    (* in ~LibEvent                                *)
           "freeing",    (* in the destructors of the queues            *)
           "dead"}

NoIter == [queue |-> "none", hi |-> NULL]
NoReplacing == [old |-> NULL, new |-> NULL]

TypeOK ==
  /\ BaseTypeOK
  /\ links \in LQ!Links
  /\ alive \subseteq Handlers
  /\ enabled \subseteq Handlers
  /\ status \in [Handlers -> {"WAITING", "TRIGGERED"}]
  /\ sock \in [Handlers -> Sockets \union {NULL}]
  /\ expected \in [Handlers -> SUBSET Events]
  /\ nowHandled \in Handlers \union {NULL}
  /\ pollResult \in {"OK", "NONE_MATCHED", "ERROR", "CANCELLED"}
  /\ pc \in Places
  /\ once \in BOOLEAN
  /\ caller \in {"event", "immediate", "none"}
  /\ nextHi \in Handlers \union {NULL}
  /\ iter \in [queue : {"waiting", "triggered", "none"}, hi : Handlers \union {NULL}]
  /\ replacing \in [old : Sockets \union {NULL}, new : Sockets \union {NULL}]
  /\ cur \in Handlers \union {NULL}
  /\ used \subseteq Handlers
  /\ outcome \in {"unrun", "none", "called", "cancelled"}

(* LibEvent::LibEvent *)
Init ==
  /\ BaseInit
  /\ links = LQ!NoLinks
  /\ alive = {} /\ enabled = {}
  /\ status = [h \in Handlers |-> "WAITING"]
  /\ sock = [h \in Handlers |-> NULL]
  /\ expected = [h \in Handlers |-> {}]
  /\ nowHandled = NULL
  /\ pollResult = "OK"
  /\ pc = "app" /\ once = FALSE /\ caller = "none" /\ nextHi = NULL
  /\ iter = NoIter /\ replacing = NoReplacing
  /\ cur = NULL /\ used = {} /\ outcome = "unrun"

-----------------------------------------------------------------------------
(* The private helpers. *)

(* Mutant: a handler is always taken for a waiting one. *)
QueueOfWaiting(h) == "waiting"

(* get_queue *)
QueueOf(h) == IF status[h] = "TRIGGERED" THEN "triggered" ELSE "waiting"

(* Mutant: immediate_callback does not schedule itself again. *)
UpdateImmediateOnce(lk) ==
  immediate' = IF pc # "immediate" /\ lk.head["triggered"] # NULL THEN "pending"
                                                                  ELSE immediate

(***************************************************************************)
(* update_immediate_timeout, when the queues are lk: event_add with a zero *)
(* timeout also takes an event that is already active off the active list. *)
(***************************************************************************)
UpdateImmediate(lk) ==
  immediate' = IF lk.head["triggered"] # NULL THEN "pending" ELSE immediate

(* h leaves its queue of lk for queue q. *)
Requeue(lk, h, q) == LQ!Enqueue(LQ!Dequeue(lk, QueueOf(h), h), q, h)

(* has_actual_events asks the socket of h, if it has one; r is the answer. *)
HasActualEvents(h, s, r) ==
  IF h \in ZmqHandlers THEN Ask(s, r) /\ used' = used \ {h}
                       ELSE r = {} /\ UNCHANGED <<ready, signal, used>>

(***************************************************************************)
(* do_activate, for h with socket s and mask m, not in any queue of lk.    *)
(* event_add without a timeout does not schedule a timer.                  *)
(***************************************************************************)
Activate(lk, h, s, m) ==
  /\ registered' = IF h \in Timers THEN registered ELSE registered \union {h}
  /\ \E r \in SUBSET Events :
       /\ HasActualEvents(h, s, r)
       /\ \/ /\ r \intersect m # {}
             /\ status' = [status EXCEPT ![h] = "TRIGGERED"]
             /\ links' = LQ!Enqueue(lk, "triggered", h)
             /\ UpdateImmediate(links')
          \/ /\ r \intersect m = {}
             /\ status' = [status EXCEPT ![h] = "WAITING"]
             /\ links' = LQ!Enqueue(lk, "waiting", h)
             /\ UNCHANGED immediate

(* Mutant: without the test of now_handled_. *)
DeactivateKeepsNow(h) ==
  /\ registered' = registered \ {h}
  /\ active' = active \ {h}
  /\ UNCHANGED nowHandled

(* do_deactivate up to the queues: the event and now_handled_. *)
Deactivate(h) ==
  /\ registered' = registered \ {h}
  /\ active' = active \ {h}
  /\ nowHandled' = IF nowHandled = h THEN NULL ELSE nowHandled

(* The memory of h is freed; a new HandlerInfo in it will be constructed. *)
Free(lk, h) == [lk EXCEPT !.prev[h] = NULL, !.next[h] = NULL]
Delete(h) ==
  /\ alive' = alive \ {h}
  /\ enabled' = enabled \ {h}
  /\ status' = [status EXCEPT ![h] = "WAITING"]
  /\ sock' = [sock EXCEPT ![h] = NULL]
  /\ expected' = [expected EXCEPT ![h] = {}]
  /\ used' = used \ {h}
  /\ cur' = IF cur = h THEN NULL ELSE cur

(* do_remove_handler *)
DoRemoveHandler(h) ==
  LET lk == LQ!Dequeue(links, QueueOf(h), h) IN
  /\ Deactivate(h)
  /\ UpdateImmediate(lk)
  /\ links' = Free(lk, h)
  /\ Delete(h)
  /\ UNCHANGED <<ready, signal, exits, stop>>

-----------------------------------------------------------------------------
(* What the client may do when its code runs: in the app or a callback. *)

ClientRuns(call) == pc \in {"app", "callback"} /\ call \in Calls

clientUnchanged == <<exits, stop, pollResult, pc, once, caller, nextHi, iter,
                     replacing, outcome>>

(* add_handler for a 0MQ socket *)
AddZmqHandler(h, s, m) ==
  /\ ClientRuns("Add")
  /\ h \notin alive
  /\ "OnePerSocket" \in Contract => \A g \in alive : sock[g] # s
  /\ alive' = alive \union {h}
  /\ enabled' = enabled \union {h}
  /\ sock' = [sock EXCEPT ![h] = s]
  /\ expected' = [expected EXCEPT ![h] = m]
  /\ Activate(links, h, s, m)
  /\ UNCHANGED <<active, nowHandled, cur, clientUnchanged>>

(* add_handler for a descriptor *)
AddFdHandler(h) ==
  /\ ClientRuns("Add")
  /\ h \notin alive
  /\ alive' = alive \union {h}
  /\ enabled' = enabled \union {h}
  /\ Activate(links, h, NULL, {})
  /\ UNCHANGED <<active, sock, expected, nowHandled, cur, clientUnchanged>>

(* add_timeout *)
AddTimeout(h) ==
  /\ ClientRuns("Add")
  /\ h \notin alive
  /\ alive' = alive \union {h}
  /\ enabled' = enabled \union {h}
  /\ registered' = registered \union {h}
  /\ links' = LQ!Enqueue(links, "waiting", h)
  /\ UNCHANGED <<ready, signal, active, immediate, status, sock, expected,
                 nowHandled, cur, used, clientUnchanged>>

(* remove_handler *)
RemoveHandler(h) ==
  /\ ClientRuns("Remove")
  /\ h \in alive
  /\ "RemoveEnabled" \in Contract => h \in enabled
  /\ "SpareNext" \in Contract => h # nextHi
  /\ DoRemoveHandler(h)
  /\ UNCHANGED clientUnchanged

(* Mutant: a disabled handler keeps its event. *)
DisableKeepsEvent(h) ==
  /\ ClientRuns("Disable")
  /\ h \in enabled
  /\ "SpareNext" \in Contract => h # nextHi
  /\ UpdateImmediate(LQ!Dequeue(links, QueueOf(h), h))
  /\ enabled' = enabled \ {h}
  /\ links' = Requeue(links, h, "disabled")
  /\ nowHandled' = IF nowHandled = h THEN NULL ELSE nowHandled
  /\ UNCHANGED <<ready, signal, registered, active, alive, status, sock, expected,
                 cur, used, clientUnchanged>>

(* disable_handler *)
DisableHandler(h) ==
  /\ ClientRuns("Disable")
  /\ h \in enabled
  /\ "SpareNext" \in Contract => h # nextHi
  /\ Deactivate(h)
  /\ UpdateImmediate(LQ!Dequeue(links, QueueOf(h), h))
  /\ enabled' = enabled \ {h}
  /\ links' = Requeue(links, h, "disabled")
  /\ UNCHANGED <<ready, signal, alive, status, sock, expected, cur, used,
                 clientUnchanged>>

(* enable_handler *)
EnableHandler(h) ==
  /\ ClientRuns("Enable")
  /\ h \in alive \ enabled
  /\ "NoSelfEnable" \in Contract => h # cur
  /\ enabled' = enabled \union {h}
  /\ Activate(LQ!Dequeue(links, "disabled", h), h, sock[h], expected[h])
  /\ UNCHANGED <<active, alive, sock, expected, nowHandled, cur, clientUnchanged>>

(* force_check_events; for a TRIGGERED handler it does nothing *)
ForceCheckEvents(h) ==
  /\ ClientRuns("ForceCheck")
  /\ h \in alive
  /\ "CheckEnabled" \in Contract => h \in enabled
  /\ status[h] = "WAITING"
  /\ \E r \in SUBSET Events :
       /\ HasActualEvents(h, sock[h], r)
       /\ \/ /\ r \intersect expected[h] # {}
             /\ status' = [status EXCEPT ![h] = "TRIGGERED"]
             /\ links' = Requeue(links, h, "triggered")
             /\ UpdateImmediate(links')
          \/ /\ r \intersect expected[h] = {}
             /\ UNCHANGED <<status, links, immediate>>
  /\ UNCHANGED <<registered, active, alive, enabled, sock, expected, nowHandled,
                 cur, clientUnchanged>>

(* The client sends or receives on socket s. *)
Use(s) ==
  /\ ClientRuns("Use")
  /\ Operate(s)
  /\ used' = used \union {h \in alive \ {cur} : sock[h] = s}
  /\ UNCHANGED <<handlerVars, nowHandled, cur, pollResult, pc, once, caller,
                 nextHi, iter, replacing, outcome>>

-----------------------------------------------------------------------------
(* AllHandlersIter, and the two calls that use it. *)

(* first_queue: it starts, and may end, at the head of the waiting queue. *)
IterBegin == [queue |-> "waiting", hi |-> links.head["waiting"]]

(* Mutant: the iterator ends with the waiting queue. *)
IterNextWaiting(it) ==
  IF links.next[it.hi] = NULL THEN NoIter ELSE [it EXCEPT !.hi = links.next[it.hi]]

(* operator++ with next_queue *)
IterNext(it) ==
  IF links.next[it.hi] # NULL THEN [it EXCEPT !.hi = links.next[it.hi]]
  ELSE IF it.queue = "waiting"
       THEN [queue |-> "triggered", hi |-> links.head["triggered"]]
       ELSE NoIter

(* The handlers the iterator misses: all disabled ones, and if no handler is *)
(* waiting all triggered ones.                                               *)
IterMisses ==
  {h \in alive : h \notin enabled \/ links.head["waiting"] = NULL}

(* replace_socket *)
ReplaceSocket(old, new) ==
  /\ ClientRuns("Replace")
  /\ "OnePerSocket" \in Contract => old = new \/ \A h \in alive : sock[h] # new
  /\ "ReplaceWhole" \in Contract => \A h \in IterMisses : sock[h] # old
  /\ "SpareNext" \in Contract /\ nextHi # NULL => sock[nextHi] # old
  /\ pc' = "replace"
  /\ iter' = IterBegin
  /\ replacing' = [old |-> old, new |-> new]
  /\ UNCHANGED <<baseVars, handlerVars, nowHandled, pollResult, once, caller,
                 nextHi, cur, used, outcome>>

(* One round of do_replace_descriptor, which steps the iterator first. *)
ReplaceStep ==
  LET h == iter.hi IN
  /\ pc = "replace"
  /\ h # NULL
  /\ iter' = IterNext(iter)
  /\ \/ /\ sock[h] # replacing.old
        /\ UNCHANGED <<baseVars, links, status, sock, used>>
     \/ /\ sock[h] = replacing.old
        /\ active' = active \ {h}
        /\ sock' = [sock EXCEPT ![h] = replacing.new]
        /\ Activate(LQ!Dequeue(links, QueueOf(h), h), h, replacing.new, expected[h])
        /\ UNCHANGED <<exits, stop>>
  /\ UNCHANGED <<alive, enabled, expected, nowHandled, pollResult, pc, once,
                 caller, nextHi, replacing, cur, outcome>>

ReplaceEnd ==
  /\ pc = "replace"
  /\ iter.hi = NULL
  /\ pc' = IF caller = "none" THEN "app" ELSE "callback"
  /\ iter' = NoIter
  /\ replacing' = NoReplacing
  /\ UNCHANGED <<baseVars, handlerVars, nowHandled, pollResult, once, caller,
                 nextHi, cur, used, outcome>>

(* ~LibEvent removes what its iterator reaches ... *)
Destroy ==
  /\ pc = "app"
  /\ "Destroy" \in Calls
  /\ pc' = "destroy"
  /\ iter' = IterBegin
  /\ UNCHANGED <<baseVars, handlerVars, nowHandled, pollResult, once, caller,
                 nextHi, replacing, cur, used, outcome>>

DestroyStep ==
  /\ pc = "destroy"
  /\ iter.hi # NULL
  /\ iter' = IterNext(iter)
  /\ DoRemoveHandler(iter.hi)
  /\ UNCHANGED <<pollResult, pc, once, caller, nextHi, replacing, outcome>>

(* ... frees the event base ... *)
DestroyBase ==
  /\ pc = "destroy"
  /\ iter.hi = NULL
  /\ pc' = "freeing"
  /\ registered' = {} /\ active' = {}
  /\ immediate' = "idle"
  /\ exits' = [pending |-> 0, active |-> 0]
  /\ stop' = {}
  /\ iter' = NoIter
  /\ UNCHANGED <<ready, signal, handlerVars, nowHandled, pollResult, once,
                 caller, nextHi, replacing, cur, used, outcome>>

(* ... and then the queues, its last member first, delete the rest. *)
FreeingQueue ==
  CHOOSE q \in Queues :
    /\ links.head[q] # NULL
    /\ q \in {"waiting", "triggered"} => links.head["disabled"] = NULL
    /\ q = "waiting" => links.head["triggered"] = NULL

FreeHead ==
  /\ pc = "freeing"
  /\ \E q \in Queues : links.head[q] # NULL
  /\ LET h == links.head[FreeingQueue] IN
       /\ links' = Free(LQ!DeleteHead(links, FreeingQueue), h)
       /\ Delete(h)
  /\ UNCHANGED <<baseVars, nowHandled, pollResult, pc, once, caller, nextHi,
                 iter, replacing, outcome>>

Freed ==
  /\ pc = "freeing"
  /\ \A q \in Queues : links.head[q] = NULL
  /\ pc' = "dead"
  /\ UNCHANGED <<baseVars, handlerVars, nowHandled, pollResult, once, caller,
                 nextHi, iter, replacing, cur, used, outcome>>

-----------------------------------------------------------------------------
(* do_run and the loop of libevent. *)

loopUnchanged == <<handlerVars, nowHandled, caller, nextHi, iter, replacing,
                   cur, used>>

(* do_run forgets the result of the last run; the mutant does not. *)
KeepResult == UNCHANGED pollResult
ResetResult == pollResult' = "NONE_MATCHED"

(* do_run(o ? EVLOOP_ONCE : 0, timeout) up to event_base_loop *)
Run(o, timeout) ==
  /\ pc = "app"
  /\ timeout # "none" => "Timeout" \in Calls /\ exits.pending + exits.active < MaxExits
  /\ LoopExit(timeout)
  /\ ResetResult
  /\ stop' = {}
  /\ once' = o
  /\ pc' = "loop"
  /\ outcome' = "none"
  /\ UNCHANGED <<ready, signal, registered, active, immediate, loopUnchanged>>

(* A callback runs the reactor it was called from: event_base_loop refuses, *)
(* but the event that was to end the nested run will end the outer one.     *)
RunNested(timeout) ==
  /\ pc = "callback"
  /\ "Nest" \in Calls
  /\ timeout # "none" => exits.pending + exits.active < MaxExits
  /\ LoopExit(timeout)
  /\ pollResult' = "ERROR"
  /\ UNCHANGED <<ready, signal, registered, active, immediate, stop, pc, once,
                 outcome, loopUnchanged>>

(* event_base_loop returns 0: it was told to stop. *)
LoopEnd ==
  /\ pc = "loop"
  /\ stop # {}
  /\ pc' = "app"
  /\ UNCHANGED <<baseVars, pollResult, once, outcome, loopUnchanged>>

(* It returns 1: there are no events at all. *)
LoopEmpty ==
  /\ pc = "loop"
  /\ stop = {}
  /\ ~HaveEvents /\ ~SomeActive
  /\ pollResult' = "NONE_MATCHED"
  /\ pc' = "app"
  /\ UNCHANGED <<baseVars, once, outcome, loopUnchanged>>

Dispatch ==
  /\ pc = "loop"
  /\ stop = {}
  /\ HaveEvents \/ SomeActive
  /\ Wait(sock)
  /\ pc' = "process"
  /\ UNCHANGED <<pollResult, once, outcome, loopUnchanged>>

(* It returns -1. *)
DispatchError ==
  /\ pc = "loop"
  /\ stop = {}
  /\ HaveEvents \/ SomeActive
  /\ pollResult' = "ERROR"
  /\ pc' = "app"
  /\ UNCHANGED <<baseVars, once, outcome, loopUnchanged>>

Processing == pc = "process" /\ "break" \notin stop

ProcessExit ==
  /\ Processing
  /\ ExitCallback
  /\ UNCHANGED <<pc, pollResult, once, outcome, loopUnchanged>>

(* All active events are worked off, or a callback has broken the loop. *)
ProcessDone ==
  /\ pc = "process"
  /\ ~SomeActive \/ "break" \in stop
  /\ pc' = IF once /\ ~SomeActive THEN "app" ELSE "loop"
  /\ UNCHANGED <<baseVars, pollResult, once, outcome, loopUnchanged>>

-----------------------------------------------------------------------------
(* event_callback, immediate_callback and handle_event. *)

(* handle_event enters the function of h. *)
CallFunction(h, who) ==
  /\ nowHandled' = h
  /\ cur' = h
  /\ caller' = who
  /\ pc' = "callback"

callUnchanged == <<alive, enabled, sock, expected, exits, stop, once, iter,
                   replacing>>

(* Mutant: handle_event leaves the handler in its queue. *)
SettleNothing(h, r, updateImmediate) == UNCHANGED <<links, status, immediate>>

(***************************************************************************)
(* handle_event after the callback, or without one: h is moved to the      *)
(* queue that the answer r of its socket puts it in.                       *)
(***************************************************************************)
Settle(h, r, updateImmediate) ==
  LET now == IF r \intersect expected[h] # {} THEN "TRIGGERED" ELSE "WAITING"
      to  == IF now = "TRIGGERED" THEN "triggered" ELSE "waiting"
  IN  \/ /\ h \notin ZmqHandlers \/ status[h] = now
         /\ UNCHANGED <<links, status, immediate>>
      \/ /\ h \in ZmqHandlers /\ status[h] # now
         /\ status' = [status EXCEPT ![h] = now]
         /\ links' = Requeue(links, h, to)
         /\ IF updateImmediate THEN UpdateImmediate(links') ELSE UNCHANGED immediate

(* event_callback, with something to call the function for *)
EventCallback(h) ==
  /\ Processing
  /\ h \in active
  /\ Fire(h)
  /\ \E r \in SUBSET Events :
       /\ HasActualEvents(h, sock[h], r)
       /\ h \in ZmqHandlers => r \intersect expected[h] # {}
  /\ CallFunction(h, "event")
  /\ UNCHANGED <<links, status, immediate, pollResult, nextHi, outcome,
                 callUnchanged>>

(* event_callback of a 0MQ handler whose socket turns out not to be ready *)
EventIgnored(h) ==
  /\ Processing
  /\ h \in active \intersect ZmqHandlers
  /\ Fire(h)
  /\ \E r \in SUBSET Events :
       /\ HasActualEvents(h, sock[h], r)
       /\ r \intersect expected[h] = {}
       /\ Settle(h, r, TRUE)
  /\ UNCHANGED <<nowHandled, pollResult, pc, caller, nextHi, cur, outcome,
                 callUnchanged>>

(* immediate_callback starts: its event is not pending any more. *)
ImmediateCallback ==
  /\ Processing
  /\ immediate = "active"
  /\ immediate' = "idle"
  /\ nextHi' = links.head["triggered"]
  /\ pc' = "immediate"
  /\ UNCHANGED <<ready, signal, registered, active, links, status, nowHandled,
                 pollResult, caller, cur, used, outcome, callUnchanged>>

(* Mutant: the loop starts again at the head of the queue. *)
FirstTriggered(h) == links.head["triggered"]
NextTriggered(h) == links.next[h]

(* It reads which handler is next and calls this one, without asking again. *)
ImmediateStep ==
  /\ pc = "immediate"
  /\ nextHi # NULL
  /\ nextHi' = NextTriggered(nextHi)
  /\ CallFunction(nextHi, "immediate")
  /\ UNCHANGED <<ready, signal, registered, active, immediate, links, status,
                 pollResult, used, outcome, callUnchanged>>

ImmediateEnd ==
  /\ pc = "immediate"
  /\ nextHi = NULL
  /\ UpdateImmediate(links)
  /\ pc' = "process"
  /\ UNCHANGED <<ready, signal, registered, active, links, status, nowHandled,
                 pollResult, caller, nextHi, cur, used, outcome, callUnchanged>>

(***************************************************************************)
(* The callback returns goOn to handle_event, which asks the socket again  *)
(* unless the handler has been removed or disabled in the callback.        *)
(***************************************************************************)
CallbackReturns(goOn) ==
  /\ pc = "callback"
  /\ ~goOn => "Cancel" \in Calls
  /\ stop' = IF goOn THEN stop ELSE stop \union {"break"}
  /\ pollResult' = IF goOn THEN "OK" ELSE "CANCELLED"
  /\ outcome' = IF ~goOn \/ outcome = "cancelled" THEN "cancelled" ELSE "called"
  /\ \/ /\ nowHandled = NULL
        /\ UNCHANGED <<ready, signal, used, links, status, immediate>>
     \/ /\ nowHandled # NULL
        /\ \E r \in SUBSET Events :
             /\ HasActualEvents(nowHandled, sock[nowHandled], r)
             /\ Settle(nowHandled, r, caller = "event")
  /\ nowHandled' = NULL
  /\ cur' = NULL
  /\ caller' = "none"
  /\ pc' = IF caller = "event" THEN "process" ELSE "immediate"
  /\ UNCHANGED <<registered, active, exits, nextHi, alive, enabled, sock,
                 expected, once, iter, replacing>>

-----------------------------------------------------------------------------
(* Another thread makes socket s signal its descriptor. *)
SignalSocket(s) ==
  /\ pc \notin {"destroy", "freeing", "dead"}
  /\ Signal(s)
  /\ UNCHANGED <<handlerVars, nowHandled, pollResult, pc, once, caller, nextHi,
                 iter, replacing, cur, used, outcome>>

Durations == {"none", "zero", "later"}

Client ==
  \/ \E h \in ZmqHandlers, s \in Sockets, m \in Masks : AddZmqHandler(h, s, m)
  \/ \E h \in FdHandlers : AddFdHandler(h)
  \/ \E h \in Timers : AddTimeout(h)
  \/ \E h \in Handlers :
       RemoveHandler(h) \/ DisableHandler(h) \/ EnableHandler(h) \/ ForceCheckEvents(h)
  \/ \E s \in Sockets : Use(s)
  \/ \E old, new \in Sockets : ReplaceSocket(old, new)
  \/ \E timeout \in Durations : RunNested(timeout)
  \/ Destroy

Running == \E o \in BOOLEAN, timeout \in Durations : Run(o, timeout)

Reactor ==
  \/ ReplaceStep \/ ReplaceEnd
  \/ DestroyStep \/ DestroyBase \/ FreeHead \/ Freed
  \/ LoopEnd \/ LoopEmpty \/ ProcessExit \/ ProcessDone
  \/ \E h \in Handlers : EventCallback(h) \/ EventIgnored(h)
  \/ ImmediateCallback \/ ImmediateStep \/ ImmediateEnd
  \/ \E goOn \in BOOLEAN : CallbackReturns(goOn)

Next ==
  \/ Client
  \/ Running
  \/ Reactor
  \/ Dispatch
  \/ DispatchError
  \/ \E s \in Sockets : SignalSocket(s)

Spec == Init /\ [][Next]_vars
=============================================================================
