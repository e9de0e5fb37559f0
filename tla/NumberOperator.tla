--------------------------- MODULE NumberOperator ---------------------------
(***************************************************************************)
(* examples/NumberOperator.cpp: a reactor at work between two threads.     *)
(* The main thread sends the numbers it has read to one endpoint after     *)
(* another and prints the replies; the operator thread runs a Static or a  *)
(* Dynamic reactor, whose handler of an endpoint receives numbers,         *)
(* operates on them and sends the result back.  The reactor's steps are    *)
(* those of PollReactor, restricted to what this client calls and to what  *)
(* zmq::poll finds on its sockets.                                         *)
(***************************************************************************)
EXTENDS PollReactorProperties

CONSTANT Inputs  (* the sequences of numbers that may be entered *)

(* The operations, in the order of enum Mode and of endpoints[].  Each names *)
(* its endpoint, the operator's socket and the functor.                      *)
Modes == <<"SORT", "REVSORT", "SQUARE", "SUM", "FACTORIAL">>
Mode == Range(Modes)

ASSUME NumberAssumption ==
  /\ Mode \subseteq Sockets /\ Mode \subseteq Functions
  /\ {"IN"} \in Masks /\ -1 \in Timeouts /\ -1 \in MaxEvents
  /\ MaxItems >= Len(Modes)
  /\ Inputs \subseteq Seq(Int)

VARIABLES
  process,   (* "running", "aborted" (an exception was not caught) or "exited" *)
  main,      (* the main thread: "bind", "create", "read", "request", "wait",  *)
             (*   "delete" or "terminate"                                      *)
  bound,     (* how many of its REQ sockets are bound                          *)
  numbers,   (* the numbers entered                                            *)
  printed,   (* what has been printed for the Modes up to now                  *)
  operator,  (* the other thread: "none", "connect", "set up", "run", "done"   *)
  connected, (* how many of its REP sockets are connected                      *)
  doing,     (* the callback: "none", "entered", "received" or "replied"       *)
  held,      (* ... and its numbers                                            *)
  requests,  (* the message waiting at each REP socket, << >> if there is none *)
  replies    (* ... and at each REQ socket                                     *)

mainVars == <<main, bound, numbers, printed>>
operatorVars == <<operator, connected, doing, held>>
messageVars == <<requests, replies>>
numberVars == <<process, mainVars, operatorVars, messageVars>>
allVars == <<vars, numberVars>>

NumberInit ==
  /\ Init
  /\ process = "running"
  /\ main = "bind" /\ bound = 0 /\ numbers = << >> /\ printed = << >>
  /\ operator = "none" /\ connected = 0 /\ doing = "none" /\ held = << >>
  /\ requests = [m \in Mode |-> << >>] /\ replies = [m \in Mode |-> << >>]

-----------------------------------------------------------------------------
(* The functors *)

(* Mutant: accumulate clears the numbers and adds no result. *)
TransformLoses(m, s) == IF m = "SUM" THEN << >> ELSE s

(* sort, squares and accumulate; what they do on overflow is left out. *)
Transform(m, s) ==
  CASE m = "SORT"      -> SortSeq(s, <)
    [] m = "REVSORT"   -> Reverse(SortSeq(s, <))
    [] m = "SQUARE"    -> [i \in DOMAIN s |-> s[i] * s[i]]
    [] m = "SUM"       -> << FoldSeq(+, 0, s) >>
    [] m = "FACTORIAL" -> << FoldSeq( *, 1, s) >>

-----------------------------------------------------------------------------
(* The main thread *)

(* The endpoint of the current request *)
Current == Modes[Len(printed) + 1]

(* An exception that nobody catches *)
Abort == process' = "aborted" /\ UNCHANGED <<mainVars, operatorVars, messageVars>>

Bind ==
  /\ main = "bind"
  /\ bound' = bound + 1
  /\ main' = IF bound' = Len(Modes) THEN "create" ELSE "bind"
  /\ UNCHANGED <<process, numbers, printed, operatorVars, messageVars>>

(* Mutant: the thread is created before the endpoints are bound. *)
CreateThreadEarly ==
  /\ operator = "none" /\ main \in {"bind", "create"}
  /\ operator' = "connect"
  /\ main' = IF main = "create" THEN "read" ELSE main
  /\ UNCHANGED <<process, bound, numbers, printed, connected, doing, held, messageVars>>

(* pthread_create *)
CreateThread ==
  /\ main = "create"
  /\ operator' = "connect"
  /\ main' = "read"
  /\ UNCHANGED <<process, bound, numbers, printed, connected, doing, held, messageVars>>

ReadNumbers ==
  /\ main = "read"
  /\ numbers' \in Inputs
  /\ main' = "request"
  /\ UNCHANGED <<process, bound, printed, operatorVars, messageVars>>

(* request sends the numbers, which waits for the endpoint to be connected, *)
(* or sends nothing if there are none: then the REQ socket throws at recv.  *)
SendRequest ==
  /\ main = "request"
  /\ \/ /\ numbers = << >>
        /\ Abort
     \/ /\ numbers # << >>
        /\ connected > Len(printed)
        /\ requests' = [requests EXCEPT ![Current] = numbers]
        /\ main' = "wait"
        /\ UNCHANGED <<process, bound, numbers, printed, operatorVars, replies>>

(* ... and receives the reply, which is printed. *)
ReceiveReply ==
  /\ main = "wait"
  /\ replies[Current] # << >>
  /\ printed' = Append(printed, replies[Current])
  /\ replies' = [replies EXCEPT ![Current] = << >>]
  /\ main' = IF Len(printed') = Len(Modes) THEN "delete" ELSE "request"
  /\ UNCHANGED <<process, bound, numbers, operatorVars, requests>>

(* main deletes its sockets and returns; the destructor of context begins. *)
Return ==
  /\ main = "delete"
  /\ main' = "terminate"
  /\ UNCHANGED <<process, bound, numbers, printed, operatorVars, messageVars>>

(* The destructor waits until no socket is left. *)
Exit ==
  /\ main = "terminate" /\ operator = "done"
  /\ process' = "exited"
  /\ UNCHANGED <<mainVars, operatorVars, messageVars>>

Main ==
  /\ process = "running"
  /\ Bind \/ CreateThread \/ ReadNumbers \/ SendRequest \/ ReceiveReply \/ Return \/ Exit
  /\ UNCHANGED vars

-----------------------------------------------------------------------------
(* The operator thread, before and after it runs its reactor *)

(* connect_socks.  An inproc endpoint that is not bound cannot be connected. *)
Connect ==
  /\ operator = "connect"
  /\ \/ /\ connected >= bound
        /\ Abort
     \/ /\ connected < bound
        /\ connected' = connected + 1
        /\ operator' = IF connected' = Len(Modes) THEN "set up" ELSE "connect"
        /\ UNCHANGED <<process, mainVars, doing, held, messageVars>>
  /\ UNCHANGED vars

(* A pair of a socket and a function, given to add_handler or make_static *)
AddPair(m, f) == AddHandler(m, {"IN"}, f) \/ MakeStaticPair(m, {"IN"}, f)

(* Mutant: the functor of the second pair is a copy of the first. *)
SetUpCopied ==
  /\ operator = "set up"
  /\ Len(handlers) < Len(Modes)
  /\ LET k == Len(handlers) + 1 IN AddPair(Modes[k], Modes[IF k = 2 THEN 1 ELSE k])
  /\ UNCHANGED numberVars

SetUp ==
  /\ operator = "set up"
  /\ \/ /\ Len(handlers) < Len(Modes)
        /\ LET m == Modes[Len(handlers) + 1] IN AddPair(m, m)
     \/ /\ Len(handlers) = Len(Modes)
        /\ MakeStaticDone
  /\ UNCHANGED numberVars

(* r.run() *)
Run ==
  /\ operator = "set up"
  /\ Len(handlers) = Len(Modes)
  /\ Call(FALSE, -1, -1)
  /\ operator' = "run"
  /\ UNCHANGED <<process, mainVars, connected, doing, held, messageVars>>

(* run has returned: the sockets are deleted. *)
DeleteSockets ==
  /\ operator = "run" /\ pc = "app"
  /\ operator' = "done"
  /\ UNCHANGED <<vars, process, mainVars, connected, doing, held, messageVars>>

-----------------------------------------------------------------------------
(* ... and while it runs it *)

Waiting(s) == IF requests[s] # << >> THEN {"IN"} ELSE {}

(* zmq::poll finds requests, ... *)
Found ==
  /\ PollMatched
  /\ \A i \in DOMAIN items : items'[i].revents = Waiting(items[i].socket)
  /\ UNCHANGED numberVars

(* ... or fails, since the context is being terminated. *)
Terminated ==
  /\ main = "terminate"
  /\ PollError
  /\ UNCHANGED numberVars

Dispatch == (Skip \/ DispatchDone) /\ UNCHANGED numberVars

Enter ==
  /\ CallHandler
  /\ doing' = "entered"
  /\ UNCHANGED <<process, mainVars, operator, connected, held, messageVars>>

(* Mutant: all handlers use the first socket. *)
FirstSocket == sockets[1]

(* arg.socket *)
ArgSocket == sockets[n]

(* Handler::operator() receives the numbers, ... *)
Receive ==
  /\ pc = "callback" /\ doing = "entered"
  /\ \/ /\ main = "terminate"
        /\ Abort
     \/ /\ main # "terminate"
        /\ requests[ArgSocket] # << >>
        /\ held' = requests[ArgSocket]
        /\ requests' = [requests EXCEPT ![ArgSocket] = << >>]
        /\ doing' = "received"
        /\ UNCHANGED <<process, mainVars, operator, connected, replies>>
  /\ UNCHANGED vars

(* ... applies its functor and sends the result, part by part: an empty one *)
(* is not sent at all, ...                                                  *)
Reply ==
  /\ pc = "callback" /\ doing = "received"
  /\ \/ /\ main = "terminate"
        /\ Abort
     \/ /\ main # "terminate"
        /\ replies' = [replies EXCEPT ![ArgSocket] = Transform(handlers[n], held)]
        /\ doing' = "replied"
        /\ UNCHANGED <<process, mainVars, operator, connected, held, requests>>
  /\ UNCHANGED vars

(* ... and returns true. *)
Answer ==
  /\ doing = "replied"
  /\ Continue
  /\ doing' = "none" /\ held' = << >>
  /\ UNCHANGED <<process, mainVars, operator, connected, messageVars>>

Operator ==
  /\ process = "running"
  /\ \/ Connect \/ SetUp \/ Run \/ DeleteSockets
     \/ Found \/ Terminated \/ Dispatch \/ Enter \/ Receive \/ Reply \/ Answer

-----------------------------------------------------------------------------
NumberNext == Main \/ Operator

NumberSpec == NumberInit /\ [][NumberNext]_allVars

(* Each thread is scheduled, and the user answers the prompt. *)
FairNumberSpec == NumberSpec /\ WF_allVars(Main) /\ WF_allVars(Operator)

-----------------------------------------------------------------------------
(***************************************************************************)
(* Every line that is printed holds what its operation makes of the        *)
(* numbers entered: requests and replies cross two threads, five pairs of  *)
(* sockets and the reactor's two parallel vectors, and none goes astray.   *)
(***************************************************************************)
Answered ==
  \A k \in DOMAIN printed : printed[k] = Transform(Modes[k], numbers)

(***************************************************************************)
(* A handler that is called has a request to receive: the events its       *)
(* dispatch reads were found by this poll, and nobody has received since.  *)
(* A recv in a callback would otherwise block the whole reactor.           *)
(***************************************************************************)
CalledForRequest ==
  pc = "callback" /\ doing = "entered" => requests[ArgSocket] # << >>

(***************************************************************************)
(* The two threads start and stop in step: endpoints are bound before they *)
(* are connected, and the context is terminated only when the operator     *)
(* polls or is returning from a callback it has answered, so that its next *)
(* call of 0MQ is the poll, where the failure is turned into a result of   *)
(* run.  Nothing else throws, unless the user enters no numbers.           *)
(***************************************************************************)
AbortsOnlyIfEmpty == process = "aborted" => numbers = << >> /\ main = "request"

(***************************************************************************)
(* What makes these inductive.  The threads start in order; the reactor's  *)
(* sockets are those of Modes; and there is one message or none, on its    *)
(* way to the operator, in the callback, or on its way back.               *)
(***************************************************************************)
InOrder ==
  /\ bound \in Nat /\ connected \in Nat
  /\ main # "bind" => bound = Len(Modes)
  /\ main \in {"bind", "create"} => operator = "none"
  /\ main = "bind" => bound < Len(Modes)
  /\ printed \in Seq(Range(printed))
  /\ main \in {"bind", "create", "read", "request", "wait"} => Len(printed) < Len(Modes)
  /\ operator = "none" => connected = 0
  /\ operator = "connect" => connected < Len(Modes)

SocketsOfModes ==
  /\ Len(sockets) <= Len(Modes)
  /\ \A i \in DOMAIN sockets : sockets[i] = Modes[i]
  /\ pc \in {"poll", "dispatch", "callback"} => operator = "run"
  /\ pc = "callback" <=> doing # "none"
  /\ doing # "none" => n \in DOMAIN sockets

OneMessage ==
  /\ requests = [m \in Mode |-> requests[m]] /\ replies = [m \in Mode |-> replies[m]]
  /\ \A m \in Mode : requests[m] # << >> =>
       /\ main = "wait" /\ m = Current
       /\ doing # "received"
       /\ \A k \in Mode : replies[k] = << >>
  /\ doing = "received" =>
       /\ main = "wait" /\ ArgSocket = Current
       /\ \A k \in Mode : replies[k] = << >>
  /\ \A m \in Mode : replies[m] # << >> => main = "wait" /\ m = Current

(* What the rest of the dispatch will find *)
RestIsWaiting ==
  pc \in {"dispatch", "callback"} =>
    \A i \in DOMAIN items :
      (i > n \/ (i = n /\ pc = "dispatch")) /\ EventMatches(items[i]) =>
        requests[sockets[i]] # << >>

(* What travels is the numbers entered, then their transformation. *)
Travelling ==
  /\ \A i \in DOMAIN handlers : handlers[i] = Modes[i]
  /\ main \in {"bind", "create", "read"} => printed = << >>
  /\ \A m \in Mode : requests[m] # << >> => requests[m] = numbers
  /\ doing = "received" => held = numbers
  /\ \A m \in Mode : replies[m] # << >> => replies[m] = Transform(m, numbers)

ExchangeInv ==
  /\ InOrder /\ SocketsOfModes /\ OneMessage /\ RestIsWaiting
  /\ CalledForRequest /\ AbortsOnlyIfEmpty

(***************************************************************************)
(* The program ends once it has numbers: every request is answered, and    *)
(* terminating the context gets the operator out of a poll for ever, so    *)
(* that its sockets are deleted and the destructor of context returns.     *)
(***************************************************************************)
Ends == numbers # << >> ~> process = "exited"
=============================================================================
