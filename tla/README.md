# ZmqReactor in TLA+

ZmqReactor is a C++ library of reactors for 0MQ: the client registers handlers
(functions returning `bool`) for 0MQ sockets, descriptors and timeouts, then runs
the reactor, which calls the handlers whose events have happened. This directory
holds its specification: TLA+ modules translated from the source, TLC runs over
them, and theorems that TLAPS checks. Line numbers refer to `src/` at the modelled
commit; `PROJECT.json` maps each definition to its lines.

## 1. The system

| Component | Source | State | Operations |
|---|---|---|---|
| `LinkedQueue` | `include/zmqreactor/details/LinkedQueue.hpp` | `head_`, and `prev_`/`next_` inside the objects | `enqueue`, `dequeue`, `pop_head`, `head`, `next`, destructor |
| `LibEvent` reactor | `src/LibEvent.cpp`, `LibEvent.hpp`, `LibEvent.fwd.hpp` | three queues of `HandlerInfo`, `now_handled_`, `poll_result_`, the one-shot `event_immediate_`, a libevent base | add (3 kinds), remove, enable, disable, `force_check_events`, `replace_socket`, `run`, `operator()`, `cancel` by a handler's result, destructor; callbacks `event_callback`, `immediate_callback`, `handle_event` |
| `ReactorBase` | `src/Base.cpp`, `details/Base.hpp` | parallel vectors `poll_items_`, `sockets_`; `last_error_`; `Timer` | `add_socket`, `add_fd`, `replace_socket` (two), `index_of`, `remove_from`, `do_poll`, `call_handler`, `Timer::tick` |
| `Dynamic` reactor | `src/Dynamic.cpp`, `Dynamic.hpp` | `handlers_`, parallel to the base's vectors | `add_handler`, `replace_handler`, `remove_handlers_from`, `operator()`, `run` |
| `Static` reactor | `Static.hpp`, `details/StaticImpl.hpp` | `fun_tuple_`, fixed at creation | `make_static`, `operator()`, `run`, the recursive `Caller` |
| common types | `common.hpp` | none | `Arg`, `Poll`, `PollResult` |
| `NumberOperator` | `examples/NumberOperator.cpp` | two threads, a pair of sockets per operation, the numbers | `main`, `request`, the operator thread, `Handler::operator()` |

How they interact. Each reactor runs in one thread. The LibEvent reactor uses
`LinkedQueue` for its handlers, asks sockets for `ZMQ_EVENTS`, and is called back
by libevent; the handlers' functions it calls may call it again. The Dynamic and
the Static reactor inherit `ReactorBase`, block in `zmq::poll`, and dispatch in a
loop; functions called from that loop may use the (Dynamic) reactor. The only
concurrency inside is with 0MQ's I/O threads and libevent's kernel events: they
decide when a socket signals its descriptor, and the descriptor is watched
edge-triggered. The example composes the parts: its main thread sends requests to
five endpoints, its operator thread serves them from a Static or a Dynamic reactor,
and the end of the context ends the reactor's run.

What is hard here, and what correctness means for each part:

- **LinkedQueue.** One pair of links serves three queues; `dequeue` trusts the links
  of the object and the queue it is told, and leaves stale links behind. Correct: each
  queue is a list, whatever the order of calls.
- **LibEvent.** Edge-triggered descriptors report a command once, while `ZMQ_EVENTS`
  swallows the edge; callbacks may remove, disable, replace or re-enable any handler,
  their own included, while `immediate_callback`, `handle_event` and iterators hold
  pointers; `poll_result_` and `now_handled_` are written by nested code. Correct: no
  lost wake-up, no call on a socket that is not ready, no dangling pointer, every
  triggered handler served, a handler's `false` ends the run and is reported.
- **Poll reactors.** Three vectors hold one table; callbacks change it during dispatch; a
  timeout is split over two nested loops by a clock that can be set. Correct: the table
  stays one table, a dispatch passes over nothing that matched and calls nothing twice, a
  timeout is neither cut short nor exceeded.
- **NumberOperator.** Each thread throws if the other is not far enough (an endpoint not
  yet bound, a context being terminated while a handler uses it); a handler blocks its reactor if it
  is called without a request; `run` waits for ever. Correct: every answer is that of
  its operation, nobody throws or blocks for ever, the program ends.

The hazards are listed line by line in `PROJECT.json`.

## 2. The modules

| Module | Models | Remarks |
|---|---|---|
| `LinkedQueue` | the pointer operations, as functions on a memory of heads and links | `DeleteHead` is one round of the destructor |
| `HandlerLists` | abstract: one list per queue | what `LinkedQueue` implements |
| `LinkedQueueClient` | a client that keeps to the precondition of the queues | `lists` is its own account |
| `EventBase` | external: 0MQ sockets and libevent's base, as `LibEvent.cpp` uses them | `signal` is the state of the edge |
| `LibEvent` | the reactor, its client and its thread | uses `LinkedQueue` through `LQ` |
| `LevelReactor` | abstract: a reactor that calls what is ready now | what `LibEvent` implements |
| `LibEventProperties` | its properties, the refinement, fairness | |
| `ReactorBase` | vectors, `do_poll`, `Timer`; external: `zmq::poll`, the clock | operators that `PollReactor` composes |
| `HandlerTable` | abstract: one list of entries | what the three vectors implement |
| `PollReactor` | Dynamic and Static (`Kinds`: FALSE and TRUE) | |
| `PollReactorProperties` | their properties and fairness | |
| `NumberOperator` | the example: both threads and their messages, composed with `PollReactor` | its properties at the end |
| `LinkedQueueProofs`, `LibEventProofs`, `LibEventWakeupProofs`, `LibEventQueueProofs`, `LibEventLevelProofs`, `PollReactorProofs`, `NumberOperatorProofs` | theorems and proofs | each extends the module it is about, or the proofs it builds on |
| `Iteration` | lemmas about functions that are iterated | used by the proofs about walks and positions |
| `MCLinkedQueue`, `MCLibEvent`, `MCPollReactor`, `MCNumberOperator` | small instances for TLC | |

**LibEvent, state and steps.** `links` is the memory of the three queues
(`waiting`, `triggered`, `disabled`); `status`, `enabled`, `sock`, `expected` are the
fields of `HandlerInfo`; `registered`, `active`, `immediate`, `exits`, `stop` are the
state of the event base. `pc` says where the thread is. A step is what runs between two
points where somebody has a choice: a client call is one step; `replace_socket` and
`~LibEvent` take one step per handler visited by `AllHandlersIter`; a run goes through
`Dispatch` (the kernel wait), `EventCallback` or `EventIgnored` (`event_callback` that
calls the function or not), `ImmediateCallback`/`ImmediateStep`/`ImmediateEnd`, and
`CallbackReturns` (the rest of `handle_event` after the function). While `pc` is
`"callback"` the client may make any call of the API, `run` included: libevent refuses to
run a base that is running, but the exit that `do_run` has asked for by then ends the outer run,
and `poll_result_` says ERROR until the callback returns (`RunNested`). A handler is removed by
`Deactivate` then `Dequeue`, added by `Activate`, which asks the socket at once. Where
`getsockopt` or `Operate` is called, its answer is any that the socket can give:
the present one if the descriptor is quiet, any other if commands wait.

**LevelReactor.** A client need not know of edges and queues. It sees handlers that exist
and are enabled, sockets that are ready (`due`), timers that will not fire again
(`spent`), a function that runs, and results. `LibEventProperties!Level` maps the
reactor's variables to these: `due` is every handler whose socket is ready for what it asks, or of
which the model promises nothing (descriptors, timers, sockets used outside their callback);
`phase` is `pc` and `caller` seen from outside; `spent` is the timers without an event in
the base. The steps of `event_callback`, the queues and `immediate_callback` map to
`Call(h)`, which requires `h` enabled and due at that moment, or to stuttering.

**PollReactor, state and steps.** `items`, `sockets` and `handlers` are the vectors,
`capacity` says when growing moves them, `n`, `last` and `valid` stand for the iterators
of the dispatch loop; `resized` records that the running callback has added or removed
handlers. `zmq::poll` returns 0 only from a wait that has an end. `Call` enters `run` or `operator()`; `PollError`, `PollNone` and
`PollMatched` are the returns of `zmq::poll` with what `do_poll` does next (return or
poll again); `Skip`, `CallHandler`, `Continue`, `Cancel`, `DispatchDone` are the loop of
`Dynamic::operator()` and equally the chain of `Caller`s; `Throw` is a function that throws
through all of them; `Finish` is what `run` does
with the result. `replace_handler` for a socket that has no handler changes nothing
and has no action. Time passes (`Pass`) inside `zmq::poll` and inside callbacks; the
wall clock, which both `do_poll` and `Timer` read, may be set meanwhile (`AdjustClock`).

**NumberOperator, state and steps.** `main` and `operator` say where the threads are,
`bound`, `connected`, `printed` how far they are; `requests` and `replies` hold the message
that waits at a REP or REQ socket, `doing` and `held` are the locals of
`Handler::operator()`. An operation's name (`"SORT"`, ...) stands for its endpoint, its sockets
and its functor. The main thread's steps leave the reactor alone. The operator's are those of
`PollReactor`, restricted: `SetUp` makes the calls of either thread function; `Found` is
`PollMatched` with the events that `requests` justifies; `Terminated` is `PollError` while
the context is being terminated; `Enter`, `Receive`, `Reply`, `Answer` are a call of a
handler. A send or a connect that the other side cannot take yet waits or throws as 0MQ's
does (`Abort`).

### What the client must not do

The code states few preconditions; the models name the ones it needs. `Contract`
(LibEvent) and `ResizeCancels` (poll reactors) switch them on. For each one, turning it off in
a passing instance lets TLC find a violation, so none is assumed without need; nor do the
passing runs say anything of a client that breaks one.

| Rule | Meaning | Without it |
|---|---|---|
| `RemoveEnabled` | a disabled handler is enabled before `remove_handler` | the disabled queue keeps a freed head (run `libevent_remove_disabled`) |
| `CheckEnabled` | no `force_check_events` on a disabled handler | it enters the triggered queue while the disabled one links it (`Consistent` fails) |
| `SpareNext` | a callback does not remove, disable or replace the handler that `immediate_callback` has chosen next | `next_hi` dangles or leaves its queue (`Consistent` fails) |
| `OnePerSocket` | one handler per socket | a check for one swallows the other's edge (`NoLostWakeup` fails) |
| `NoSelfEnable` | a callback does not re-enable its own handler | the check after the callback is skipped, status goes stale (`NoLostWakeup`, `TriggeredIsReady` fail) |
| `ReplaceWhole` | `replace_socket` only when its iterator reaches all handlers of the socket | the others keep the old socket (run `libevent_replace`) |
| `ResizeCancels` | a callback of a Dynamic reactor that adds or removes handlers returns false, or throws (replacing is always fine) | the dispatch goes on with iterators that dangle, though `README:8` and `doc_pages.hpp:15` offer adding and removing at run time (`IteratorsValid` fails) |

## 3. The runs

Constants of a `.cfg` are the whole difference between runs of one module. Passing runs:

| Run | Question | Bounds |
|---|---|---|
| `linked_queue` | do the pointers implement lists, through any order of calls, and destruction | 4 objects, 2 queues: one object has two neighbours and another queue has one |
| `libevent_safety` | `Consistent`, `QueuesHold`, `ImmediateScheduled`, `NoLostWakeup`, `TriggeredIsReady`, `ImplementsLevel` under the whole contract and every call on 0MQ sockets | 2 handlers, 2 sockets, event `IN` |
| `libevent_queues` | queues, pointers and `replace_socket` without `OnePerSocket` and `NoSelfEnable` | 3 handlers (a middle one in a queue), 2 sockets |
| `libevent_mixed` | the three kinds of handlers, run timeouts, runs inside callbacks, the result of a run, `ImplementsLevel`; checks deadlock | 1 of each, 1 outstanding exit; the client leaves the socket alone outside callbacks (`libevent_safety` has that) |
| `libevent_liveness` | `CancelStops`, `ImmediateEnds`, `Served` | 2 handlers, no removal |
| `poll_table` | the vectors are one table, dispatch passes over no match and calls none twice, cancel ends, iterators are valid where they are used; checks deadlock | 2 sockets, 2 functions, 3 entries: a socket twice and another; no time |
| `poll_time` | timeouts, over retries, callbacks that take time and clock steps; a call returns; checks deadlock | 1 entry, timeouts -1, 0, 2, limits -1, 0, 2, 5 ticks, clock off by 1 |
| `number_operator` | `Answered`, `CalledForRequest`, `AbortsOnlyIfEmpty`, `Ends`, with either reactor | the program itself, on lines of 0, 1, 2 and 4 numbers |

The properties, by run, in the words of the code:

- `ImplementsLists`, `Inv`: seen through `head()` and `next()`, the queues refine
  `HandlerLists`; links agree with the client's account.
- `NoLostWakeup`: a waiting handler whose socket is ready, or whose edge has been
  consumed, is about to be asked by somebody. This is why `handle_event` checks again after
  the callback, and why `add_handler` checks at once.
- `TriggeredIsReady`: `immediate_callback` calls without asking, so status must be true.
- `ImmediateScheduled`: a triggered handler has `event_immediate_` pending, active or
  running; nothing else would call it.
- `Consistent`: types, doubly linked queues, no dangling `now_handled_`, `next_hi`,
  iterator or event. `QueuesHold`: a walk meets every handler of the queue once.
- `ImplementsLevel`: the reactor refines `LevelReactor`: over edge-triggered descriptors it
  calls only handlers that are enabled and whose socket is ready at that moment, one at a
  time; a timer that is one-shot, or was disabled, does not fire again; OK and CANCELLED
  are returned only if functions have returned so in this run.
- `DisabledSilent`, `ReplacedEverywhere`, `ResultOfThisRun`: action and state properties
  of disabling, replacing and results.
- `ImplementsTable`: the vectors refine `HandlerTable`; `Aligned` relates poll items to
  sockets. `AllMatchedCalled`: the dispatch has called each entry behind it that still shows a
  match, and will call none again, whatever callbacks replace, add or remove. `NoEmptyCall`: no step
  calls an empty function. `CancelEnds`: after a `false` nothing is called. `IteratorsValid`: the
  dispatch reads only through valid iterators and inside the vectors, although callbacks that
  add or remove have invalidated them before they cancel or throw.
- `NeverTooLong`: what has passed of a call and what is left of its present wait are together
  within its timeout, and within the timeout and the clock's error (`MaxSkew`) if the clock has
  been set; a remainder never becomes the -1 of an endless wait. `NeverTooShort`: NONE_MATCHED only
  after the whole timeout, while nobody sets the clock. `Returns`: a call with a timeout returns.
- `Served`: from the command's edge on the descriptor to the function: a handler whose socket is
  ready, has commands waiting, or that is triggered, is called, or its socket stops to be ready.
- `Answered`: each line printed is its operation's result for the numbers entered.
  `CalledForRequest`: a called handler's own socket has a request. `AbortsOnlyIfEmpty`: nothing
  throws but the REQ socket when no numbers were entered (then `send` sends nothing, and `recv`
  is out of turn). `Ends`: with numbers, the process exits.

Each property of a passing run has a mutant in `PROJECT.json`: a plausible bug in a
mapped definition (kept beside it, commented "Mutant") under which TLC finds it violated.

The bounds are small because the hazards are: they need one handler acting on another
(2 handlers), a middle element of a list (3), a socket listed twice. Time is counted in
ticks of which a timeout has two, so that a call can end before, at and after a tick, and
five pass, more than two timeouts. The example is not cut down at all, but for what is
entered. Symmetry is used in the runs without liveness only.
Deadlock is not checked where the system really stops: after the reactor is destroyed, or
(`linked_queue`) when every queue is, and when the example's process has ended.

### Violations: where the code and its documentation part

| Run | Property | The documentation says | The code does |
|---|---|---|---|
| `libevent_cancel` | `CancelReported` | `doc_pages.hpp:165`: false stops polling and CANCELLED is returned | `immediate_callback` goes on, and the next handler's `true` overwrites the result with OK |
| `libevent_replace` | `ReplacedEverywhere` | `Base.hpp:52`, `LibEvent.hpp:274`: all configured handlers | disabled handlers, and triggered ones if none waits, are missed |
| `libevent_remove_disabled` | `QueuesHold` | `README:9`: supports enabling/disabling handlers | a removed disabled handler stays at the head of its queue |
| `poll_none_matched` | `NoneCalled` | `common.hpp:60`: NONE_MATCHED means no handlers called, for `run` too | `run` returns the result of its last poll: with a timeout of 2, a handler is called and returns true, the next poll waits the 2 ticks, and the run returns NONE_MATCHED |

## 4. Fairness

- LibEvent, `FairSpec`: weak fairness of `Running` (the client runs the reactor again)
  and of `Reactor` (code that can go on does, and functions return); strong fairness of
  `Dispatch`, since `DispatchError` competes with it at each round: a wait that could
  end is not answered with an error for ever; strong fairness of each event's callback, since
  libevent works off its active events first in, first out, so that none is overtaken for
  ever when callbacks break the loop. Nothing is assumed of other threads.
  `Served` holds once arrivals stop: while they go on, each status change in an
  `event_callback` takes `event_immediate_` off the active list (`event_add` with a zero
  timeout), and the triggered handlers can wait for ever. `CancelStops` and
  `ImmediateEnds` need no such condition.
- Poll reactors, `FairSpec`: weak fairness of `Reactor`: `zmq::poll` returns and
  functions return; strong fairness of `Pass`: time is not stopped by infinitely many
  early returns. Setting the clock, and errors, are never fair.
- `NumberOperator`, `FairNumberSpec`: weak fairness of each thread, and that the user
  answers the prompt. Nothing else is needed: while a thread waits, the other goes on.

## 5. What is proved

For every number of handlers, sockets, objects and queues, every mask and every client:

- `LinkedQueueProofs!QueuesCorrect`, `Spec => []Inv`. `Inv` is already inductive: types, no
  object in two places (`NoSharing`), and links that agree with the lists (`LinksAgree`);
  the prev-links agree only until the queue's destructor begins, which never reads them.
  Each operation is covered by a lemma about lists (`Cons`, `RemoveAt`, `Tail`) and one about
  the links it writes; stale links of objects outside any queue never matter.
- `LinkedQueueProofs!QueuesImplementLists`, `Spec => ImplementsLists`, for finitely many objects:
  each call changes what `head()` and `next()` lead through as `HandlerLists` changes its
  lists. With `Inv` this is that a walk along links that agree with a list is that list
  (`WalkIsList`). A walk is iteration: `Iteration` shows that the recursive definition of its
  k-th pointer has a value (`RecursionFollows`), and its induction is over the set of places
  where the claim holds (`Climb`), for which the library's well-foundedness of `<` is enough.
  A list of distinct objects is no longer than there are objects (`DistinctFits`), so the
  walk does not give up early; this is what needs them to be finite.
- `LibEventProofs!TypeCorrect`, `Spec => []TypeOK`, for every contract, the empty one
  included: whatever the client does, an operation writes only well-typed values.
- `LibEventProofs!TriggeredScheduled`, `Spec => []ImmediateScheduled`, again for every
  contract. `ImmediateScheduled` is not inductive by itself: it counts a callback "called
  from immediate_callback" as progress, so one must know that `caller = "immediate"`
  ends with the callback; `ScheduledInv` adds the types and that `caller` is
  `"immediate"` only in a callback or in the `replace_socket` it called. The heart is that
  each path that fills the triggered queue either runs `update_immediate_timeout` or is
  inside the loop whose last step runs it.
- `LibEventWakeupProofs!WakeupsKept` and `TriggeredKept`, `Spec => []NoLostWakeup` and
  `Spec => []TriggeredIsReady`, if the contract has `OnePerSocket` and `NoSelfEnable`; the
  other rules of section 3 are about pointers and are not needed. The two invariants need
  each other and more: `WakeupInv` adds that a socket leads to its one handler, during a
  `replace_socket` too (`OwnSockets`), and that a callback that may use its own socket is
  still promised a check by `now_handled_`, or its handler is disabled (`Handling`). Both
  promises are stated for one handler (`Heeded`); a step either leaves all that concerns
  the handler alone (`Kept`), or has just asked its socket (`Settled`), and almost every
  operation concerns one handler and one socket (`OnlyOne`). The exceptions are
  `Dispatch`, where each edge makes its own handler's event active, and the client's `Use`.
  That `DestroyStep` and `ReplaceStep` walk the right queues does not matter here.
- `LibEventWakeupProofs!ResultCorrect`, `Spec => []ResultOfThisRun`, for every contract. The
  implication must hold all through the run, a nested one included (`OwnResult`).
- `LibEventQueueProofs!QueuesSound`, `Spec => []Consistent`, if the contract has
  `RemoveEnabled`, `CheckEnabled` and `SpareNext`. `WellLinked`, which is local, is not
  inductive: two handlers that each point at the other satisfy all of it, and `dequeue`
  would make one of them its own successor. `Queued` therefore adds an order: some `rank`,
  in which the head is the least of its queue and `next_` leads to the next greater one.
  `enqueue` gives the new head a rank below all others, `dequeue` changes none, so the rank is
  an integer and no step has to renumber a queue. `PointersInv` adds who may hold which pointer
  when: `next_hi` only inside `immediate_callback`, pointing into the triggered queue and never
  at the handler being called; the iterator into the queue it says; `now_handled_` at
  an enabled handler. Each of the three rules is used once: for `remove_handler`, for
  `force_check_events`, and to keep `next_hi` in its queue. Both were checked by TLC first
  (`PointersInv`), and the lemmas on `Enqueue`, `Dequeue` and `Free` are for any memory.
- `LibEventQueueProofs!QueuesWalked`, `Spec => []QueuesHold`, under the same rules, for finitely many
  handlers. The rank makes a walk climb (`Climbing`), and a climb that passes nobody meets
  all and ends (`MeetsAll`). While the queues' own destructors run, `Linked` does not hold,
  for they repair no `prev_`: `Walkable` keeps the half of it that a walk uses, and a round
  takes away the least of its queue.
- `LibEventQueueProofs!SilentWhileDisabled`, `Spec => DisabledSilent`, from the same invariant: libevent
  holds events of enabled handlers only, and the triggered queue has enabled handlers only.
- `LibEventQueueProofs!SocketReplaced`, `Spec => ReplacedEverywhere`, if the contract also has
  `ReplaceWhole`; a socket may be replaced by itself, which moves its handlers and no more. `Ahead` says, with the rank, where a handler of the old socket can still be: at
  the iterator or behind it in its queue, or in the triggered queue while the waiting one is
  walked. A round puts its handler before the iterator, or into the queue still to
  come, where it is met again with its new socket.
- `LibEventLevelProofs!ImplementsLevelReactor`, `Spec => ImplementsLevel`, if the contract has
  every rule but `ReplaceWhole`: the initial states map to that of `LevelReactor`, and each
  step to one of its steps or to a change of `due` alone, which its `Next` allows. There is one
  lemma for each step of `LevelReactor`, said with the reactor's variables (`Registers`, `Removes`, ...,
  `CallsFunction`, `EndsRun`, and `Unseen` for the steps without a counterpart), and one for
  each group of the reactor's own. `LevelInv` gathers what they are read with: `SoundInv` (which
  handlers are enabled and which pointers lead to them), `WakeupInv` (a `TRIGGERED` handler is
  due though nobody asks its socket again), `OwnResult` (the result is justified when the run ends, and not
  only when it is read) and `FiredInv`, which is new: libevent holds an active event only of
  a handler whose event is added, and only 0MQ handlers are ever `TRIGGERED`; so neither
  `event_callback` nor `immediate_callback` can call a timer that is spent.
- `PollReactorProofs!VectorsAligned` and `TypesKept`, `Spec => []Aligned` and `Spec => []TypeOK`, whatever callbacks do.
  `TableInv` is inductive: it adds `BlankSilent`, that only entries made by a `resize`
  have no function, and that these ask for no event. The operations are covered by
  lemmas about sequences (`ResizeLemma`, `ExceptLemma`, `MapLemma`, `IndexOfLemma`).
- `PollReactorProofs!MatchedCalled`, `Spec => []AllMatchedCalled`. `CallsInv` adds to `TableInv`
  that the running function counts as called, that a dispatch starts with nothing called, and
  that only a finished call is cancelled.
  It does not matter what callbacks do to the table: they make new entries without
  results and clear the results of old ones, so that no entry that has been passed starts
  to match.
- `PollReactorProofs!CancelEndsCall`, `Spec => CancelEnds`, an action property from `CallsInv`.
- `PollReactorProofs!NoEmptyFunction`, `Spec => NoEmptyCall`, for every client. It follows from
  `BlankSilent`: an entry that matched asked for an event.
- `PollReactorProofs!DispatchInside`, `Spec => []IteratorsValid`, if `ResizeCancels`. `Covered`
  is inductive: until the running callback has added or removed handlers, the iterators are
  valid and span the whole vectors; once it has, no step leads back into the loop.
- `PollReactorProofs!VectorsImplementTable`, `Spec => ImplementsTable`: each step of the
  reactor on three vectors is a step of `HandlerTable` on one list of entries, or none. It is the
  lemmas on sequences again, now for the entries position by position; `TableInv` makes
  the three vectors of one length, so that one position means one entry. `index_of`
  must be the first position (`IndexOfLemma`), for `replace_handler` changes only that one.
- `PollReactorProofs!WaitsBounded` and `NoneNotEarly`, `Spec => []NeverTooLong` and
  `Spec => []NeverTooShort`, for any timeout and limit. `TimeInv`, which adds two accounts to
  `CallsInv`: the `Timer`'s, `remaining + lastEv = timeout`, which balances even if the clock is set,
  and that of a round of `do_poll`, `start + wait = timeout` and `now = start + waited`,
  which does unless it is. If it is, `start + wait` is at most the timeout, and `now` is at most
  `MaxSkew` ahead of `start + waited`. `NeverTooShort` is one of its conjuncts: a result outlives its run.
- `NumberOperatorProofs!ExampleIsReactor`, `NumberSpec => Spec`: the composition adds no
  step to the reactor, so the theorems above that need no `ResizeCancels` hold of it too (its
  handlers never change the reactor). It uses that each
  endpoint of `Modes` is a socket and a function of the reactor (`NumberAssumption`).
- `NumberOperatorProofs!NeverWaits` and `NeverAborts`, for every input. `ExchangeInv` says how
  the threads keep in step (`InOrder`), that the reactor's sockets are those of `Modes` in
  their order (`SocketsOfModes`), that at most one message is on its way (`OneMessage`), and
  that what the dispatch has not reached yet still waits (`RestIsWaiting`): that
  the other sockets have none follows from the names being distinct. A handler is
  therefore never in `recv` or `send` while the context is being terminated.
- `NumberOperatorProofs!EveryAnswerRight`, `NumberSpec => []Answered`, whatever the operations
  compute. `Travelling` follows the numbers: entered, requested, held, replied.

Assumptions: those in the modules (`NULL` is no object and no function; the kinds of
handlers are disjoint; masks are sets of events; the bounds are numbers), and for the two
theorems about walks that the objects are finitely many, as what fits in a memory is.
Every safety property of the passing runs is proved. Only model-checked is
liveness (`Served`, `Returns`, `Ends`, ...): it is out of the prover's reach and stays with TLC.

## 6. Not modelled

- LibEvent: exceptions of `getsockopt` (a terminated context) and of callbacks, which would
  leave through libevent's C code; the contents of `Arg`; the durations of handler and run timeouts, including the
  unit of `do_run`'s timeout (a timeout is none, zero or later); copies of `HandlerDesc`.
- Poll reactors: the contents of `Arg`; the text of `last_error_`; failed allocations between
  two `push_back`s; a reactor half built by `make_static`, which nobody sees; a deleted old socket given to `replace_socket`; a `run` inside a callback,
  which overwrites the `revents` of the outer dispatch; the instants between reading the clock and entering `zmq::poll`.
- Everywhere: the life of function objects (a callback that removes or replaces itself, or that
  makes `handlers_` grow, destroys or moves the object that is executing). `NonCopyable`, build files and tests
  have no behaviour of their own; the tests were read for how clients use the reactors.
- `NumberOperator`: a signal that makes `zmq::poll` fail (the operator would stop, and main
  wait for ever); parsing and printing; the parts of a message; integer overflow; the
  uninitialised `is_dynamic` without an option (either reactor, as `Kinds` has it).

## 7. Plan

Done: `LinkedQueue` with its client, abstraction and proof; `EventBase`, `LibEvent` with
properties, four passing and three violation runs, the refinement of `LevelReactor`, and
ten theorems; `ReactorBase`, `PollReactor` over `HandlerTable`, two passing runs and a violation,
and nine theorems; `NumberOperator` over `PollReactor`, a run and four theorems.

Next: a nested `run` of the poll reactors, and `getsockopt` that throws.
