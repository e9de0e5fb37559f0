---------------------------- MODULE PollReactor ----------------------------
(***************************************************************************)
(* The Dynamic and the Static reactor over ReactorBase.  They differ in    *)
(* where their handlers come from: a Static reactor gets them once, from   *)
(* make_static, and never changes them.  Both poll, then call the function *)
(* of every entry whose events matched, one after another, in one thread.  *)
(***************************************************************************)
EXTENDS ReactorBase, FiniteSets

CONSTANTS
  Functions,  (* the functions handlers call                               *)
  Kinds,      (* what reactors there are: TRUE is Static, FALSE is Dynamic *)
  Masks,      (* the event masks handlers are added with                   *)
  Timeouts,   (* the timeouts the client runs the reactor with             *)
  MaxEvents,  (* ... and the limits, -1 for none                           *)
  ResizeCancels
              (* TRUE if a callback that adds or removes handlers returns  *)
              (*   false, or throws                                        *)

ASSUME ReactorAssumption ==
  /\ NULL \notin Functions
  /\ Masks \subseteq SUBSET Events
  /\ Timeouts \subseteq Nat \union {-1}
  /\ MaxEvents \subseteq Nat \union {-1}
  /\ Kinds \subseteq BOOLEAN /\ ResizeCancels \in BOOLEAN

VARIABLES
  static,     (* it is a StaticReactor                                      *)
  handlers,   (* handlers_, or fun_tuple_: functions, NULL is an empty one  *)
  pc,         (* "build", "app", "poll", "dispatch" or "callback"           *)
  once,       (* operator() was called, not run()                           *)
  timeout,    (* its arguments                                              *)
  limit,
  polls,      (* i of Dynamic::run                                          *)
  result,     (* what the last call returned, "none" if nothing             *)
  n,          (* operator(): the position of its dispatch, from 1           *)
  last,       (* ... where it ends: the size when it began                  *)
  valid       (* ... its iterators still point into poll_items_             *)

VARIABLES
  called,     (* history: the positions called since the last poll          *)
  resized,    (* history: the callback has added or removed handlers        *)
  handled,    (* history: a function has been called in this call           *)
  cancelled   (* history: a function has returned false in this call        *)

runVars == <<once, timeout, limit, polls, result>>
iterators == <<last, valid, resized>>
dispatchVars == <<n, iterators, called>>
history == <<handled, cancelled>>
vars == <<vectors, clockVars, pollVars, timerVars, static, handlers, pc, runVars,
          dispatchVars, history>>

TypeOK ==
  /\ BaseTypeOK
  /\ static \in Kinds
  /\ handlers \in Seq(Functions \union {NULL})
  /\ pc \in {"build", "app", "poll", "dispatch", "callback"}
  /\ once \in BOOLEAN
  /\ timeout \in Timeouts /\ limit \in MaxEvents
  /\ polls \in Nat
  /\ result \in {"none", "OK", "NONE_MATCHED", "CANCELLED", "ERROR"}
  /\ n \in Nat \ {0} /\ last \in Nat
  /\ {valid, resized, handled, cancelled} \subseteq BOOLEAN
  /\ called \subseteq Nat

Init ==
  /\ BaseInit
  /\ handlers = << >>
  /\ static \in Kinds
  /\ pc = IF static THEN "build" ELSE "app"
  /\ once = FALSE /\ polls = 0 /\ result = "none"
  /\ timeout \in Timeouts /\ limit \in MaxEvents
  /\ n = 1 /\ last = 0 /\ valid = TRUE /\ resized = FALSE
  /\ called = {} /\ handled = FALSE /\ cancelled = FALSE

-----------------------------------------------------------------------------
(* The table of handlers, changed in the app or in a callback. *)

Changing == ~static /\ pc \in {"app", "callback"}

tableUnchanged == <<static, clockVars, pollVars, timerVars, pc, runVars, n, last,
                    called, history>>

(* A vector that grows in a callback leaves the dispatch its old elements. *)
Resized ==
  /\ valid' = (valid /\ capacity' = capacity)
  /\ resized' = (pc = "callback")
  /\ UNCHANGED tableUnchanged

(* add_handler, for a descriptor if s is NULL *)
AddHandler(s, m, f) ==
  /\ Changing
  /\ Len(items) < MaxItems
  /\ AddItem(s, m)
  /\ handlers' = Append(handlers, f)
  /\ Resized

(* replace_handler, of a socket that has one *)
ReplaceHandler(s, m, f) ==
  /\ Changing
  /\ IndexOf(s) # 0
  /\ ReplaceEntry(IndexOf(s), s, m)
  /\ handlers' = [handlers EXCEPT ![IndexOf(s)] = f]
  /\ UNCHANGED <<valid, resized, tableUnchanged>>

(* remove_handlers_from(k), which may be past the end *)
RemoveHandlersFrom(k) ==
  /\ Changing
  /\ RemoveFrom(k)
  /\ handlers' = Resize(handlers, k, NULL)
  /\ Resized

(* replace_socket *)
ReplaceSocket(old, new) ==
  /\ Changing
  /\ ReplaceEverywhere(old, new)
  /\ UNCHANGED <<handlers, valid, resized, tableUnchanged>>

(* make_static adds its pairs of a socket and a function one by one.  The   *)
(* functions are in fun_tuple_ at once and the sockets are added by the     *)
(* constructor: nobody has the reactor yet to see it half built.            *)
MakeStaticPair(s, m, f) ==
  /\ pc = "build"
  /\ Len(items) < MaxItems
  /\ AddItem(s, m)
  /\ handlers' = Append(handlers, f)
  /\ UNCHANGED <<valid, resized, tableUnchanged>>

MakeStaticDone ==
  /\ pc = "build"
  /\ items # << >>
  /\ pc' = "app"
  /\ UNCHANGED <<vectors, clockVars, pollVars, timerVars, static, handlers, runVars,
                 dispatchVars, history>>

-----------------------------------------------------------------------------
(* run and operator(). *)

(* The client calls operator()(t), or run(t, k). *)
Call(o, t, k) ==
  /\ pc = "app"
  /\ o \/ k # 0
  /\ static => k = -1
  /\ once' = o /\ timeout' = t /\ limit' = k
  /\ polls' = 0
  /\ now' = 0 /\ skew' = 0 /\ stepped' = FALSE
  /\ StartTimer(t)
  /\ StartPoll(t, 0)
  /\ handled' = FALSE /\ cancelled' = FALSE
  /\ called' = {}
  /\ pc' = "poll"
  /\ UNCHANGED <<vectors, static, handlers, result, n, iterators>>

(* run(t, 0) does not poll at all. *)
CallNothing(t) ==
  /\ pc = "app"
  /\ ~static
  /\ 0 \in MaxEvents
  /\ result' = "NONE_MATCHED"
  /\ once' = FALSE /\ timeout' = t /\ limit' = 0 /\ polls' = 0
  /\ StartTimer(t)
  /\ now' = 0 /\ skew' = 0 /\ stepped' = FALSE
  /\ handled' = FALSE /\ cancelled' = FALSE
  /\ UNCHANGED <<vectors, pollVars, static, handlers, pc, dispatchVars>>

(* Mutant: run goes on until the remaining time is negative. *)
ExpiredBelowZero == timeout >= 0 /\ remaining' < 0

Expired == timeout >= 0 /\ remaining' <= 0

(* One poll operation has returned res: operator() returns it; run ticks its *)
(* timer and polls again, unless it is time to return.                       *)
Finish(res) ==
  /\ n' = 1 /\ last' = 0 /\ valid' = TRUE /\ resized' = FALSE /\ called' = {}
  /\ \/ /\ once \/ res \notin {"OK", "NONE_MATCHED"}
        /\ result' = res
        /\ pc' = "app"
        /\ UNCHANGED <<timerVars, pollVars, polls>>
     \/ /\ ~once /\ res \in {"OK", "NONE_MATCHED"}
        /\ TickTimer
        /\ polls' = IF limit = -1 THEN 0 ELSE polls + 1
        /\ \/ /\ Expired \/ polls' = limit
              /\ result' = res
              /\ pc' = "app"
              /\ UNCHANGED pollVars
           \/ /\ ~(Expired \/ polls' = limit)
              /\ StartPoll(remaining', Clock)
              /\ pc' = "poll"
              /\ UNCHANGED result

pollUnchanged == <<sockets, capacity, clockVars, static, handlers, once, timeout,
                   limit, history>>

(* zmq::poll throws; do_poll returns -1. *)
PollError ==
  /\ pc = "poll"
  /\ Finish("ERROR")
  /\ UNCHANGED <<items, pollUnchanged>>

(* zmq::poll returns 0, and do_poll either returns 0 or polls again. *)
PollNone ==
  /\ pc = "poll"
  /\ NoneMatched
  /\ \/ /\ TimedOut
        /\ Finish("NONE_MATCHED")
     \/ /\ ~TimedOut
        /\ PollAgain
        /\ UNCHANGED <<timerVars, pc, polls, result, dispatchVars>>
  /\ UNCHANGED pollUnchanged

(* Events have matched: the dispatch begins. *)
PollMatched ==
  /\ pc = "poll"
  /\ SomeMatched
  /\ pc' = "dispatch"
  /\ n' = 1 /\ last' = Len(items)
  /\ valid' = TRUE
  /\ UNCHANGED <<sockets, capacity, clockVars, pollVars, timerVars, static,
                 handlers, runVars, called, resized, history>>

-----------------------------------------------------------------------------
(* The dispatch: the loop of Dynamic::operator(), or the chain of Callers. *)

dispatchUnchanged == <<vectors, clockVars, static, handlers, once, timeout, limit>>

(* Mutant: the entry after one that has been called is skipped. *)
NextAfterCall == n + 2
NextPosition == n + 1

(* What the loop reads through an iterator that is not valid is undefined. *)
Skip ==
  /\ pc = "dispatch" /\ n <= last
  /\ valid /\ n <= Len(items)
  /\ ~EventMatches(items[n])
  /\ n' = n + 1
  /\ UNCHANGED <<pollVars, timerVars, pc, polls, result, iterators, called,
                 history, dispatchUnchanged>>

(* call_handler *)
CallHandler ==
  /\ pc = "dispatch" /\ n <= last
  /\ valid /\ n <= Len(items)
  /\ EventMatches(items[n])
  /\ called' = called \union {n} /\ handled' = TRUE
  /\ pc' = "callback"
  /\ UNCHANGED <<pollVars, timerVars, polls, result, n, iterators,
                 cancelled, dispatchUnchanged>>

(* The function returns true, ... *)
Continue ==
  /\ pc = "callback"
  /\ ResizeCancels => ~resized
  /\ n' = NextPosition
  /\ pc' = "dispatch"
  /\ UNCHANGED <<pollVars, timerVars, polls, result, iterators, called,
                 history, dispatchUnchanged>>

(* Mutant: what the function returns is not looked at. *)
CancelGoesOn ==
  /\ pc = "callback"
  /\ cancelled' = TRUE
  /\ n' = n + 1
  /\ pc' = "dispatch"
  /\ UNCHANGED <<pollVars, timerVars, polls, result, iterators, called,
                 handled, dispatchUnchanged>>

(* ... or false, which ends the whole call. *)
Cancel ==
  /\ pc = "callback"
  /\ cancelled' = TRUE
  /\ Finish("CANCELLED")
  /\ UNCHANGED <<handled, dispatchUnchanged>>

(* The function throws: the exception leaves operator() and run, which *)
(* return nothing.                                                     *)
Throw ==
  /\ pc = "callback"
  /\ pc' = "app" /\ result' = "none"
  /\ n' = 1 /\ last' = 0 /\ valid' = TRUE /\ resized' = FALSE /\ called' = {}
  /\ UNCHANGED <<pollVars, timerVars, polls, history, dispatchUnchanged>>

DispatchDone ==
  /\ pc = "dispatch" /\ n > last
  /\ Finish("OK")
  /\ UNCHANGED <<history, dispatchUnchanged>>

-----------------------------------------------------------------------------
(* Time, and the next-state relation. *)

timeUnchanged == <<vectors, timerVars, static, handlers, pc, runVars, dispatchVars, history>>

Pass ==
  \/ /\ pc = "poll"
     /\ PassInPoll
     /\ UNCHANGED timeUnchanged
  \/ /\ pc = "callback"
     /\ Tick
     /\ UNCHANGED <<pollVars, timeUnchanged>>

AdjustClock ==
  /\ pc \in {"poll", "callback"}
  /\ SetClock
  /\ UNCHANGED <<pollVars, timeUnchanged>>

Table ==
  \/ \E s \in Sockets \union {NULL}, m \in Masks, f \in Functions : AddHandler(s, m, f)
  \/ \E s \in Sockets, m \in Masks, f \in Functions : ReplaceHandler(s, m, f)
  \/ \E k \in 0 .. MaxItems : RemoveHandlersFrom(k)
  \/ \E old, new \in Sockets : ReplaceSocket(old, new)

Build ==
  \/ \E s \in Sockets, m \in Masks, f \in Functions : MakeStaticPair(s, m, f)
  \/ MakeStaticDone

Calls ==
  \/ \E o \in BOOLEAN, t \in Timeouts, k \in MaxEvents : Call(o, t, k)
  \/ \E t \in Timeouts : CallNothing(t)

Reactor == PollNone \/ PollMatched \/ Skip \/ CallHandler \/ Continue \/ Cancel \/ DispatchDone

Next == Table \/ Build \/ Calls \/ Reactor \/ PollError \/ Throw \/ Pass \/ AdjustClock

Spec == Init /\ [][Next]_vars
=============================================================================
