---------------------------- MODULE ReactorBase ----------------------------
(***************************************************************************)
(* Private::ReactorBase, which the Dynamic and the Static reactor share:   *)
(* the parallel vectors poll_items_ and sockets_, the wait for events in   *)
(* do_poll, and the Timer of run().  zmq::poll, the wall clock and the     *)
(* growth of std::vector are not code of this repository; they are         *)
(* modelled from how it uses them.  A 0MQ socket is named by the socket_t  *)
(* that owns it, so that static_cast<void*>( *s) is s.                     *)
(***************************************************************************)
EXTENDS Integers, Sequences, SequencesExt

CONSTANTS
  Sockets,   (* the zmq::socket_t objects                                *)
  Events,    (* the Poll values a handler can ask for; zmq::poll may add *)
             (*   "ERR" for a descriptor nobody asked it for             *)
  NULL,      (* the null pointer                                         *)
  MaxItems,  (* bound: entries of the vectors                            *)
  MaxNow,    (* bound: real time that passes in one run                  *)
  MaxSkew    (* bound: how far the wall clock may be set off             *)

ASSUME BaseAssumption ==
  /\ NULL \notin Sockets
  /\ MaxItems \in Nat /\ MaxNow \in Nat /\ MaxSkew \in Nat

VARIABLES
  items,     (* poll_items_: socket (NULL for a descriptor), events, revents *)
  sockets,   (* sockets_                                                     *)
  capacity   (* poll_items_.capacity()                                       *)

vectors == <<items, sockets, capacity>>

VARIABLES
  now,       (* real time since the run began                             *)
  skew,      (* how far the wall clock has been set off since then        *)
  stepped,   (* history: the wall clock was set during the run            *)
  wait,      (* the timeout given to zmq::poll; -1 is for ever            *)
  start,     (* do_poll: when this round of its loop started              *)
  waited,    (* real time spent in this call of zmq::poll                 *)
  remaining, (* Timer::remaining_                                         *)
  lastEv     (* Timer::last_ev_                                           *)

clockVars == <<now, skew, stepped>>
pollVars  == <<wait, start, waited>>
timerVars == <<remaining, lastEv>>

Item == [socket : Sockets \union {NULL}, events : SUBSET Events,
         revents : SUBSET (Events \union {"ERR"})]

BaseTypeOK ==
  /\ items \in Seq(Item)
  /\ sockets \in Seq(Sockets \union {NULL})
  /\ capacity \in Nat
  /\ now \in 0 .. MaxNow
  /\ skew \in -MaxSkew .. MaxSkew
  /\ stepped \in BOOLEAN
  /\ {wait, remaining} \subseteq Nat \union {-1}
  /\ {start, waited, lastEv} \subseteq Int

BaseInit ==
  /\ items = << >> /\ sockets = << >> /\ capacity = 0
  /\ now = 0 /\ skew = 0 /\ stepped = FALSE
  /\ wait = 0 /\ start = 0 /\ waited = 0
  /\ remaining = 0 /\ lastEv = 0

-----------------------------------------------------------------------------
(* The vectors. *)

(* std::vector grows from size n to size m: its elements move unless they fit. *)
Grow(n, m) ==
  capacity' = IF m <= capacity THEN capacity ELSE n + (IF n > m - n THEN n ELSE m - n)

(* A value-initialised zmq::pollitem_t. *)
NoItem == [socket |-> NULL, events |-> {}, revents |-> {}]

(* add_socket, and add_fd with s = NULL *)
AddItem(s, m) ==
  /\ items' = Append(items, [socket |-> s, events |-> m, revents |-> {}])
  /\ sockets' = Append(sockets, s)
  /\ Grow(Len(items), Len(items) + 1)

(* A vector resized to n, with what it is filled up with. *)
Resize(s, n, fill) == [i \in 1 .. n |-> IF i <= Len(s) THEN s[i] ELSE fill]

(* remove_from *)
RemoveFrom(n) ==
  /\ items' = Resize(items, n, NoItem)
  /\ sockets' = Resize(sockets, n, NULL)
  /\ Grow(Len(items), n)

(* Mutant: the last entry for s. *)
IndexOfLast(s) == SelectLastInSeq(sockets, LAMBDA t : t = s)

(* index_of: the first entry for s, or 0. *)
IndexOf(s) == SelectInSeq(sockets, LAMBDA t : t = s)

(* replace_socket(idx, s, m) *)
ReplaceEntry(i, s, m) ==
  /\ items' = [items EXCEPT ![i] = [socket |-> s, events |-> m, revents |-> {}]]
  /\ sockets' = [sockets EXCEPT ![i] = s]
  /\ UNCHANGED capacity

(* Mutant: the poll items keep the old 0MQ socket. *)
ReplaceOnlyPointer(old, new) ==
  /\ sockets' = [i \in DOMAIN sockets |-> IF sockets[i] = old THEN new ELSE sockets[i]]
  /\ UNCHANGED <<items, capacity>>

(* replace_socket(old_ptr, new_ptr) *)
ReplaceEverywhere(old, new) ==
  LET hit(i) == sockets[i] = old /\ items[i].socket = old IN
  /\ sockets' = [i \in DOMAIN sockets |-> IF hit(i) THEN new ELSE sockets[i]]
  /\ items' = [i \in DOMAIN items |->
                 IF hit(i) THEN [items[i] EXCEPT !.socket = new] ELSE items[i]]
  /\ UNCHANGED capacity

(* Mutant: events nobody asked for match. *)
AnyEventMatches(item) == item.revents # {}

(* event_matches *)
EventMatches(item) == item.revents \intersect item.events # {}

-----------------------------------------------------------------------------
(* The clock and the Timer. *)

(* gettimeofday *)
Clock == now + skew

(* Real time passes. *)
Tick == now < MaxNow /\ now' = now + 1 /\ UNCHANGED <<skew, stepped>>

(* Somebody sets the wall clock. *)
SetClock ==
  /\ \E d \in -MaxSkew .. MaxSkew : d # skew /\ skew' = d
  /\ stepped' = TRUE
  /\ UNCHANGED now

(* The Timer of a run that begins now, for a timeout. *)
StartTimer(timeout) == remaining' = timeout /\ lastEv' = 0

(* Mutant: the remaining time may become negative. *)
TickUnclamped ==
  IF remaining > 0
  THEN remaining' = remaining - (Clock - lastEv) /\ lastEv' = Clock
  ELSE UNCHANGED timerVars

(* Timer::tick *)
TickTimer ==
  IF remaining > 0
  THEN /\ remaining' = LET left == remaining - (Clock - lastEv)
                       IN  IF left <= 0 THEN 0 ELSE left
       /\ lastEv' = Clock
  ELSE UNCHANGED timerVars

-----------------------------------------------------------------------------
(* do_poll and zmq::poll. *)

(* do_poll(timeout) enters its first zmq::poll, the clock reading c. *)
StartPoll(timeout, c) ==
  wait' = timeout /\ waited' = 0 /\ start' = IF timeout > 0 THEN c ELSE 0

(* timeout_usec(start, stop) *)
Elapsed == IF start > Clock THEN 0 ELSE Clock - start

(* Time passes in zmq::poll, which never waits longer than it was told to. *)
PassInPoll ==
  /\ wait = -1 \/ waited < wait
  /\ Tick
  /\ waited' = IF wait = -1 THEN waited ELSE waited + 1
  /\ UNCHANGED <<wait, start>>

(* What zmq::poll can report for an item. *)
Reports(item) ==
  SUBSET (IF item.socket = NULL THEN item.events \union {"ERR"} ELSE item.events)

(* zmq::poll returns a positive number. *)
SomeMatched ==
  \E r \in [DOMAIN items -> SUBSET (Events \union {"ERR"})] :
    /\ \A i \in DOMAIN items : r[i] \in Reports(items[i])
    /\ \E i \in DOMAIN items : r[i] # {}
    /\ items' = [i \in DOMAIN items |-> [items[i] EXCEPT !.revents = r[i]]]

(* It returns 0, perhaps too early, but never if it may wait for ever, *)
NoneMatched ==
  /\ wait # -1
  /\ items' = [i \in DOMAIN items |-> [items[i] EXCEPT !.revents = {}]]

(* Mutant: the first return is taken for a timeout. *)
NoRetry == TRUE

(* ... and do_poll does not poll again. *)
TimedOut == wait = -1 \/ wait = 0 \/ Elapsed >= wait

(* Mutant: do_poll polls again for the whole timeout. *)
PollAgainInFull == start' = Clock /\ waited' = 0 /\ UNCHANGED wait

(* Otherwise it polls again for the time that is left. *)
PollAgain == wait' = wait - Elapsed /\ start' = Clock /\ waited' = 0
=============================================================================
