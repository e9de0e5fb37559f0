----------------------- MODULE PollReactorProperties -----------------------
(***************************************************************************)
(* What the Dynamic and the Static reactor promise.                        *)
(***************************************************************************)
EXTENDS PollReactor

-----------------------------------------------------------------------------
(* The handlers *)

Entry(i) == [socket |-> sockets[i], events |-> items[i].events, fun |-> handlers[i]]

Handlers == INSTANCE HandlerTable WITH table <- [i \in DOMAIN handlers |-> Entry(i)]

(***************************************************************************)
(* The three vectors are one list: every operation changes all of them     *)
(* alike, so that the function at a position belongs to the socket and the *)
(* events there.                                                           *)
(***************************************************************************)
ImplementsTable == Handlers!Spec

(***************************************************************************)
(* The vectors are of one size and poll the socket that the function is    *)
(* told of.                                                                *)
(***************************************************************************)
Aligned ==
  /\ Len(items) = Len(handlers) /\ Len(sockets) = Len(handlers)
  /\ \A i \in DOMAIN items : items[i].socket = sockets[i]

(***************************************************************************)
(* An empty function is never called, though remove_handlers_from past the *)
(* end makes some, whose poll items zmq::poll then takes for descriptor 0. *)
(***************************************************************************)
NoEmptyCall ==
  [][pc = "dispatch" /\ pc' = "callback" =>
       n \in DOMAIN handlers /\ handlers[n] # NULL]_vars

(***************************************************************************)
(* One poll operation calls every handler whose events matched, except one *)
(* that a callback has replaced or removed since: the dispatch has passed  *)
(* over none, and calls none again.                                        *)
(***************************************************************************)
AllMatchedCalled ==
  pc \in {"dispatch", "callback"} =>
    /\ \A i \in 1 .. n - 1 :
         i \in DOMAIN items /\ EventMatches(items[i]) => i \in called
    /\ \A i \in called : i < n \/ (i = n /\ pc = "callback")

(***************************************************************************)
(* After a function has returned false no other is called, and CANCELLED   *)
(* is returned, which nothing else is.                                     *)
(***************************************************************************)
CancelEnds ==
  [][/\ pc' = "callback" => ~cancelled
     /\ pc # "app" /\ pc' = "app" => (result' = "CANCELLED" <=> cancelled')]_vars

(***************************************************************************)
(* The dispatch reads through its iterators only where they are valid,     *)
(* although callbacks may change the vectors they point into: false, which *)
(* a callback that has added or removed handlers must return, leaves every *)
(* loop that holds an iterator, and the next poll takes new ones.          *)
(***************************************************************************)
IteratorsValid == pc = "dispatch" /\ n <= last => valid /\ n <= Len(items)

(***************************************************************************)
(* NONE_MATCHED says that no handler has been called.  run returns the     *)
(* result of its last poll, though, whatever the polls before it did.      *)
(***************************************************************************)
NoneCalled == pc = "app" /\ result = "NONE_MATCHED" => ~handled

(***************************************************************************)
(* What makes the above inductive.  Of the vectors: only entries made by   *)
(* resize have an empty function, and those ask for no event.  Of the      *)
(* dispatch: the function that runs is counted among those called, nothing *)
(* else is when a dispatch begins, nothing runs after a cancel, and nothing*)
(* has been returned while building.                                       *)
(***************************************************************************)
BlankSilent ==
  \A i \in DOMAIN handlers : handlers[i] = NULL => items[i].events = {}

TableInv == TypeOK /\ Aligned /\ BlankSilent

CallsInv ==
  /\ TableInv
  /\ AllMatchedCalled
  /\ pc = "callback" => n \in called
  /\ pc \notin {"dispatch", "callback"} => called = {}
  /\ cancelled => pc = "app"
  /\ pc = "build" => result = "none"

(* ... and the iterators span the vectors until a callback resizes them, *)
(* which no dispatch outlives if ResizeCancels.                          *)
Covered ==
  /\ pc # "callback" => ~resized
  /\ pc \in {"dispatch", "callback"} /\ ~resized => valid /\ last = Len(items)

-----------------------------------------------------------------------------
(* The time *)

(***************************************************************************)
(* The Timer of run and the loop of do_poll neither lose nor gain time:    *)
(* zmq::poll is never told to wait past the end of the timeout, nor for    *)
(* ever if there is one.  If somebody sets the wall clock, however often,  *)
(* the end of the last wait is off by no more than the clock was, at most, *)
(* however many waits there have been.                                     *)
(***************************************************************************)
NeverTooLong ==
  pc = "poll" /\ timeout >= 0 =>
    /\ 0 <= wait
    /\ now + (wait - waited) <= timeout + (IF stepped THEN MaxSkew ELSE 0)

(***************************************************************************)
(* NONE_MATCHED is returned only when the whole timeout has passed,        *)
(* however early zmq::poll gives up, and whatever was called in between.   *)
(***************************************************************************)
NeverTooShort ==
  pc = "app" /\ result = "NONE_MATCHED" /\ limit # 0 /\ ~stepped => now >= timeout

(***************************************************************************)
(* What makes these two inductive.  The Timer's account of a run balances: *)
(* the time left and the time already seen make up the timeout, by the     *)
(* wall clock even if it is set.  In a round of do_poll, the wait and the  *)
(* start of the round do, as long as nobody sets the clock; if somebody    *)
(* does, the round ends by the timeout on the wall clock it began with,    *)
(* which was behind the real time by no more than MaxSkew.                 *)
(***************************************************************************)
Inside == pc \in {"poll", "dispatch", "callback"} /\ timeout >= 0

TimeInv ==
  /\ CallsInv
  /\ ~stepped => skew = 0
  /\ Inside => remaining + lastEv = timeout /\ lastEv >= -MaxSkew
  /\ Inside /\ pc = "poll" =>
       /\ 0 <= wait /\ start + wait <= timeout
       /\ now - waited <= start + MaxSkew
       /\ wait = 0 => timeout = 0
       /\ 0 <= waited
       /\ ~stepped => start + wait = timeout /\ now = start + waited
  /\ NeverTooShort

(***************************************************************************)
(* Time passes, zmq::poll returns in the end, and so do the functions.     *)
(***************************************************************************)
FairSpec == Spec /\ WF_vars(Reactor) /\ SF_vars(Pass)

(* A call with a timeout returns, though events keep matching and zmq::poll *)
(* keeps returning early.                                                   *)
Returns == pc = "poll" /\ timeout >= 0 ~> pc = "app"
=============================================================================
