------------------------- MODULE LibEventProperties -------------------------
(***************************************************************************)
(* What the LibEvent reactor must never do, and what it must get done.     *)
(***************************************************************************)
EXTENDS LibEvent

Destroying == pc \in {"destroy", "freeing", "dead"}

(* The queue a handler belongs in. *)
Where(h) == IF h \in enabled THEN QueueOf(h) ELSE "disabled"

(* The callback that runs was called from the loop of immediate_callback. *)
InImmediate == pc = "immediate" \/ caller = "immediate"

(***************************************************************************)
(* Whenever some handler is TRIGGERED, immediate_callback is scheduled or  *)
(* running: nothing else would ever call the handler, for an               *)
(* edge-triggered descriptor reports nothing twice.  update_immediate_     *)
(* timeout must therefore have been called on every path.                  *)
(***************************************************************************)
ImmediateScheduled ==
  links.head["triggered"] # NULL =>
    immediate # "idle" \/ InImmediate \/ pc \in {"freeing", "dead"}

(* ImmediateScheduled made inductive: outside of a callback, and of what a *)
(* callback calls, nobody has called one.                                  *)
ScheduledInv ==
  /\ TypeOK
  /\ ImmediateScheduled
  /\ caller = "immediate" => pc \in {"callback", "replace"}

(***************************************************************************)
(* The three queues are doubly linked lists of existing handlers, each in  *)
(* the queue that its enabled_ and status_ say, though all three share one *)
(* pair of links per handler and dequeue is told which queue to leave.     *)
(***************************************************************************)
WellLinked ==
  pc \notin {"freeing", "dead"} =>
    /\ \A q \in Queues : LET h == links.head[q] IN
         h # NULL => h \in alive /\ Where(h) = q /\ links.prev[h] = NULL
    /\ \A h \in alive : LET n == links.next[h] IN
         n # NULL => n \in alive /\ Where(n) = Where(h) /\ links.prev[n] = h
    /\ \A h \in alive : LET p == links.prev[h] IN
         IF p = NULL THEN links.head[Where(h)] = h
                     ELSE p \in alive /\ Where(p) = Where(h) /\ links.next[p] = h

(***************************************************************************)
(* Walking a queue from its head meets the handlers that belong in it,     *)
(* each once, and no other; so ~LibEvent deletes every handler once.       *)
(***************************************************************************)
QueuesHold ==
  \A q \in Queues :
    LET walk == LQ!Walk(links, q) IN
    /\ {walk[i] : i \in 1 .. Len(walk)} = {h \in alive : Where(h) = q}
    /\ Len(walk) = Cardinality({h \in alive : Where(h) = q})

(***************************************************************************)
(* No pointer the reactor keeps across a callback, and no event it has     *)
(* given to libevent, outlives its handler: neither now_handled_, nor the  *)
(* next_hi of immediate_callback (which stays in the triggered queue), nor *)
(* the iterator of replace_socket and the destructor.                      *)
(***************************************************************************)
NoDangling ==
  /\ {nowHandled, nextHi, iter.hi} \subseteq alive \union {NULL}
  /\ nextHi # NULL => Where(nextHi) = "triggered"
  /\ registered \union active \subseteq enabled
  /\ enabled \subseteq alive

(* The type invariant and the pointers together. *)
Consistent == TypeOK /\ WellLinked /\ NoDangling

(***************************************************************************)
(* What makes it inductive, if clients keep to RemoveEnabled, CheckEnabled *)
(* and SpareNext, beside an order of each queue: who may hold a pointer,   *)
(* when, and in which queue the handler it points to stays meanwhile.      *)
(***************************************************************************)
PointersInv ==
  /\ registered \union active \subseteq enabled /\ enabled \subseteq alive
  /\ \A h \in Handlers \ alive : status[h] = "WAITING"
  /\ pc \notin {"callback", "replace"} => caller = "none"
  /\ pc = "callback" => caller # "none"
  /\ caller = "none" => nowHandled = NULL
  /\ nowHandled # NULL => nowHandled \in enabled /\ nowHandled # nextHi
  /\ nextHi # NULL => /\ InImmediate /\ nextHi \in alive /\ Where(nextHi) = "triggered"
                      /\ pc = "replace" => sock[nextHi] # replacing.old
  /\ iter.hi # NULL => /\ pc \in {"replace", "destroy"}
                       /\ iter.hi \in alive /\ Where(iter.hi) = iter.queue
  /\ pc \in {"freeing", "dead"} => registered = {} /\ active = {}

(***************************************************************************)
(* No wake-up is lost: a WAITING handler whose socket is ready, or has     *)
(* commands that epoll will not report again, is about to be asked about   *)
(* by an event_callback or by the handle_event whose callback is running,  *)
(* unless the client used the socket outside the callback and still has to *)
(* call force_check_events.                                                *)
(***************************************************************************)
NoLostWakeup ==
  ~Destroying =>
    \A h \in enabled \intersect ZmqHandlers :
      /\ status[h] = "WAITING"
      /\ signal[sock[h]] # "edge"
      /\ \/ ready[sock[h]] \intersect expected[h] # {}
         \/ signal[sock[h]] = "reported"
      => h \in active \/ h = nowHandled \/ h \in used

(***************************************************************************)
(* A TRIGGERED handler is called without its socket being asked again, so  *)
(* its socket must still be ready, unless the client has used it outside   *)
(* the callback.                                                           *)
(***************************************************************************)
TriggeredIsReady ==
  \A h \in enabled \intersect ZmqHandlers :
    status[h] = "TRIGGERED" /\ h # nowHandled /\ h \notin used =>
      ready[sock[h]] \intersect expected[h] # {}

(***************************************************************************)
(* What makes these two inductive, under OnePerSocket and NoSelfEnable: a  *)
(* socket leads to its one handler, whatever the queues hold, during a     *)
(* replace_socket too; and a callback uses its own socket only while       *)
(* now_handled_ promises to ask it again.                                  *)
(***************************************************************************)
OwnSockets ==
  /\ enabled \subseteq alive
  /\ \A h \in Handlers : sock[h] # NULL => h \in alive \intersect ZmqHandlers
  /\ \A h \in alive \intersect ZmqHandlers : sock[h] # NULL
  /\ \A g, h \in alive : sock[g] = sock[h] /\ sock[g] # NULL => g = h
  /\ pc = "replace" =>
       /\ {replacing.old, replacing.new} \subseteq Sockets
       /\ replacing.old # replacing.new =>
            \A g, h \in alive : ~(sock[g] = replacing.old /\ sock[h] = replacing.new)

Handling ==
  /\ pc \notin {"callback", "replace"} => caller = "none"
  /\ caller = "none" => nowHandled = NULL /\ cur = NULL
  /\ cur = NULL \/ nowHandled = cur \/ cur \in alive \ enabled

WakeupInv == TypeOK /\ OwnSockets /\ Handling /\ NoLostWakeup /\ TriggeredIsReady

(* A function is called only while its handler exists and is enabled. *)
DisabledSilent ==
  [][pc # "callback" /\ pc' = "callback" /\ pc # "replace" =>
       cur' \in enabled]_vars

(***************************************************************************)
(* When replace_socket is done, no handler refers to the old socket, which *)
(* the client may now close, unless it was replaced by itself; the         *)
(* handlers are moved to the queues' heads while the iterator walks over   *)
(* them.                                                                   *)
(***************************************************************************)
ReplacedEverywhere ==
  [][pc = "replace" /\ pc' # "replace" /\ replacing.old # replacing.new =>
       \A h \in alive : sock[h] # replacing.old]_vars

(***************************************************************************)
(* The result of a run is about this run: OK and CANCELLED are returned    *)
(* only if a callback has returned true or false in it, although           *)
(* poll_result_ is a field that callbacks write and do_run rereads.        *)
(***************************************************************************)
ResultOfThisRun ==
  pc = "app" =>
    /\ pollResult = "CANCELLED" => outcome = "cancelled"
    /\ pollResult = "OK" => outcome # "none"

(* doc_pages.hpp: a handler that returns false stops the polling, and the  *)
(* run returns CANCELLED.                                                  *)
CancelReported == pc = "app" /\ outcome = "cancelled" => pollResult = "CANCELLED"

-----------------------------------------------------------------------------
(***************************************************************************)
(* What a client sees of the reactor.  A handler is due while its socket   *)
(* is ready for what it asks; nothing is said of one whose socket was used *)
(* outside its callback, or that has no 0MQ socket.                        *)
(***************************************************************************)
Due ==
  {h \in alive : h \notin ZmqHandlers \/ h \in used
                   \/ ready[sock[h]] \intersect expected[h] # {}}

Phase ==
  CASE Destroying -> "over"
    [] ~Destroying /\ pc \in {"loop", "process", "immediate"} -> "run"
    [] ~Destroying /\ pc \notin {"loop", "process", "immediate"} ->
         IF caller = "none" THEN "idle" ELSE "function"

Level == INSTANCE LevelReactor WITH
  OneShot <- Timers \ Persistent, handlers <- alive, due <- Due,
  spent <- (alive \intersect Timers) \ registered,
  phase <- Phase, current <- cur,
  result <- IF Phase = "run" \/ Phase = "function" THEN "none" ELSE pollResult

(***************************************************************************)
(* Over edge-triggered descriptors, three queues and a timer of its own,   *)
(* the reactor is level-triggered: it calls only enabled handlers, whose   *)
(* sockets are ready at that moment, never fires a one-shot timer twice,   *)
(* and returns what its callbacks justify.                                 *)
(***************************************************************************)
ImplementsLevel == Level!Spec

-----------------------------------------------------------------------------
(***************************************************************************)
(* The thread does not stop where it can go on, the client runs the        *)
(* reactor again and again, and its callbacks return.  A wait that could   *)
(* end does so in the end instead of failing for ever, and libevent works  *)
(* off its active events in the order they came, so that none is passed    *)
(* over for ever when callbacks keep breaking the loop.                    *)
(***************************************************************************)
Fairness ==
  /\ WF_vars(Running)
  /\ WF_vars(Reactor)
  /\ SF_vars(Dispatch)
  /\ \A h \in Handlers : SF_vars(EventCallback(h) \/ EventIgnored(h))

FairSpec == Spec /\ Fairness

(* Once a function has returned false, the run comes to an end. *)
CancelStops == "break" \in stop /\ pc # "app" ~> pc = "app"

(* immediate_callback ends, whatever its callbacks do to the queues. *)
ImmediateEnds == pc = "immediate" ~> pc = "process"

(* Another thread leaves a command for a socket. *)
Arrival == \E s \in Sockets : signal[s] = "quiet" /\ signal'[s] = "edge"

(* The function of h has to be called: h is TRIGGERED, or its socket is ready *)
(* or has commands waiting, and the client has not used it since.             *)
Pending(h) ==
  h \in enabled /\ \/ status[h] = "TRIGGERED"
                   \/ /\ h \notin used
                      /\ \/ ready[sock[h]] \intersect expected[h] # {}
                         \/ signal[sock[h]] # "quiet"

(***************************************************************************)
(* Once no more commands arrive, every handler that has to be called is    *)
(* called, or turns out not to be ready: from the edge on the descriptor   *)
(* through event_callback, the queues and immediate_callback to the        *)
(* function.  While commands arrive it may wait for ever: each status      *)
(* change in an event_callback puts off immediate_callback, which was      *)
(* about to run, to the next round of the loop.                            *)
(***************************************************************************)
Served ==
  <>[][~Arrival]_vars =>
    \A h \in ZmqHandlers : Pending(h) ~> cur = h \/ ~Pending(h)
=============================================================================
