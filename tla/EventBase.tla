----------------------------- MODULE EventBase -----------------------------
(***************************************************************************)
(* What the LibEvent reactor stands on: 0MQ sockets and one libevent       *)
(* event_base.  Neither is code of this repository; both are modelled from *)
(* the calls src/LibEvent.cpp makes and what it expects of them.           *)
(*                                                                         *)
(* A 0MQ socket has a descriptor (ZMQ_FD) that becomes readable when       *)
(* another thread leaves a command for the socket, and whose edge is       *)
(* reported once.  What the socket is ready for (ZMQ_EVENTS) changes only  *)
(* when its own thread runs the commands, which getsockopt always does and *)
(* send and recv sometimes do; running them makes the descriptor quiet.    *)
(***************************************************************************)
EXTENDS Naturals, FiniteSets

CONSTANTS
  ZmqHandlers,  (* HandlerInfo addresses used for 0MQ sockets            *)
  FdHandlers,   (* ... for plain descriptors                             *)
  Timers,       (* ... for add_timeout                                   *)
  Persistent,   (* the timers added with persistent = true               *)
  Sockets,      (* the 0MQ sockets                                       *)
  Events,       (* the Poll values a handler can ask for: IN, OUT        *)
  NULL          (* the null pointer                                      *)

Handlers == ZmqHandlers \union FdHandlers \union Timers

VARIABLES
  ready,       (* per socket: what it is ready for, as of the last commands run *)
  signal,      (* per socket: "quiet"; "edge": commands wait, not yet reported; *)
               (*   "reported": commands wait and epoll will not say so again   *)
  registered,  (* handlers whose event is added                                 *)
  active,      (* handlers whose event is in the active list                    *)
  immediate,   (* event_immediate_: "idle", "pending" or "active"               *)
  exits,       (* one-shot events of event_base_loopexit, pending and active    *)
  stop         (* event_gotterm and event_break, as a subset of {"term","break"} *)

baseVars == <<ready, signal, registered, active, immediate, exits, stop>>

BaseTypeOK ==
  /\ ready \in [Sockets -> SUBSET Events]
  /\ signal \in [Sockets -> {"quiet", "edge", "reported"}]
  /\ registered \subseteq Handlers
  /\ active \subseteq Handlers
  /\ immediate \in {"idle", "pending", "active"}
  /\ exits \in [pending : Nat, active : Nat]
  /\ stop \subseteq {"term", "break"}

BaseInit ==
  /\ ready \in [Sockets -> SUBSET Events]
  /\ signal = [s \in Sockets |-> "quiet"]
  /\ registered = {} /\ active = {}
  /\ immediate = "idle"
  /\ exits = [pending |-> 0, active |-> 0]
  /\ stop = {}

(* What ZMQ_EVENTS can answer: commands left for the socket may change it. *)
Answers(s) == IF signal[s] = "quiet" THEN {ready[s]} ELSE SUBSET Events

(* getsockopt(ZMQ_EVENTS) on s answers r. *)
Ask(s, r) ==
  /\ r \in Answers(s)
  /\ ready' = [ready EXCEPT ![s] = r]
  /\ signal' = [signal EXCEPT ![s] = "quiet"]

(* Another thread leaves a command for s. *)
Signal(s) ==
  /\ signal[s] = "quiet"
  /\ signal' = [signal EXCEPT ![s] = "edge"]
  /\ UNCHANGED <<ready, registered, active, immediate, exits, stop>>

(* The client sends or receives on s, which may run the commands or not. *)
Operate(s) ==
  /\ \E r \in SUBSET Events : ready' = [ready EXCEPT ![s] = r]
  /\ \/ signal' = [signal EXCEPT ![s] = "quiet"]
     \/ UNCHANGED signal
  /\ UNCHANGED <<registered, active, immediate, exits, stop>>

HaveEvents == registered # {} \/ immediate # "idle" \/ exits.pending > 0
SomeActive == active # {} \/ immediate = "active" \/ exits.active > 0

(***************************************************************************)
(* One wait for events, given the socket of each handler.  An edge on a    *)
(* socket's descriptor activates every event on it; level-triggered        *)
(* descriptors and timeouts are ready when the environment says so.  The   *)
(* wait ends only when some event is active.                               *)
(***************************************************************************)
Wait(socketOf) ==
  LET hot == {h \in registered \intersect ZmqHandlers : signal[socketOf[h]] = "edge"}
  IN  \E due \in SUBSET (registered \ ZmqHandlers), n \in 0 .. exits.pending :
        /\ active' = active \union hot \union due
        /\ signal' = [s \in Sockets |-> IF \E h \in hot : socketOf[h] = s
                                        THEN "reported" ELSE signal[s]]
        /\ immediate' = IF immediate = "pending" THEN "active" ELSE immediate
        /\ exits' = [pending |-> exits.pending - n, active |-> exits.active + n]
        /\ SomeActive'
        /\ UNCHANGED <<ready, registered, stop>>

(* A callback starts: a one-shot timer is no longer added. *)
Fire(h) ==
  /\ active' = active \ {h}
  /\ registered' = IF h \in Timers \ Persistent THEN registered \ {h} ELSE registered

(* The callback of event_base_loopexit. *)
ExitCallback ==
  /\ exits.active > 0
  /\ exits' = [exits EXCEPT !.active = @ - 1]
  /\ stop' = stop \union {"term"}
  /\ UNCHANGED <<ready, signal, registered, active, immediate>>

(* event_base_loopexit before a loop: at once for 0, later for a timeout. *)
LoopExit(timeout) ==
  exits' = CASE timeout = "none"  -> exits
             [] timeout = "zero"  -> [exits EXCEPT !.active = @ + 1]
             [] timeout = "later" -> [exits EXCEPT !.pending = @ + 1]
=============================================================================
