------------------------ MODULE NumberOperatorProofs ------------------------
(***************************************************************************)
(* The example's reactor is a PollReactor, so that what is proved of that  *)
(* holds here; and in the exchange between the two threads no handler is   *)
(* called without a request and no exception is thrown, whatever numbers   *)
(* are entered.                                                            *)
(***************************************************************************)
EXTENDS NumberOperator, PollReactorProofs

NumberInv == CallsInv /\ ExchangeInv

LEMMA ModesFacts ==
  /\ Len(Modes) = 5
  /\ \A i, j \in 1 .. 5 : Modes[i] = Modes[j] => i = j
  /\ \A i \in 1 .. 5 : Modes[i] \in Mode
BY DEF Modes, Mode, Range

LEMMA NumberVectors == ASSUME NumberInv PROVE Vectors /\ n \in Nat \ {0}
BY CallsParts, TableParts DEF NumberInv, Control

-----------------------------------------------------------------------------
(* Every step of the example is one of the reactor's, or none of them. *)

LEMMA SetUpStep == ASSUME NumberInv, SetUp PROVE Next
<1>1. CASE MakeStaticDone
  BY <1>1 DEF Next, Build
<1>2. CASE Len(handlers) < Len(Modes) /\ LET m == Modes[Len(handlers) + 1] IN AddPair(m, m)
  <2>1. PICK m : m = Modes[Len(handlers) + 1]
    OBVIOUS
  <2>2. AddPair(m, m)
    BY <1>2, <2>1
  <2>3. Len(handlers) + 1 \in 1 .. 5
    BY <1>2, ModesFacts, NumberVectors, VectorsSizes
  <2>4. m \in Mode
    BY <2>1, <2>3, ModesFacts
  <2>5. m \in Sockets /\ m \in Functions /\ {"IN"} \in Masks
    BY <2>4, NumberAssumption
  <2>6. AddHandler(m, {"IN"}, m) \/ MakeStaticPair(m, {"IN"}, m)
    BY <2>2 DEF AddPair
  <2>7. Table \/ Build
    BY <2>5, <2>6 DEF Table, Build
  <2> QED  BY <2>7 DEF Next
<1> QED  BY <1>1, <1>2 DEF SetUp

LEMMA StepIsReactorStep == ASSUME NumberInv, [NumberNext]_allVars PROVE [Next]_vars
<1>1. CASE Main
  BY <1>1 DEF Main
<1>2. CASE Connect \/ DeleteSockets \/ Receive \/ Reply
  BY <1>2 DEF Connect, DeleteSockets, Receive, Reply, vars
<1>3. CASE SetUp
  BY <1>3, SetUpStep
<1>4. CASE Run
  <2>1. Call(FALSE, -1, -1)
    BY <1>4 DEF Run
  <2>2. Calls
    BY <2>1, NumberAssumption DEF Calls
  <2> QED  BY <2>2 DEF Next
<1>5. CASE Found \/ Terminated \/ Dispatch \/ Enter \/ Answer
  BY <1>5 DEF Found, Terminated, Dispatch, Enter, Answer, Next, Reactor
<1>6. CASE UNCHANGED allVars
  BY <1>6 DEF allVars
<1> QED  BY <1>1, <1>2, <1>3, <1>4, <1>5, <1>6 DEF NumberNext, Operator

-----------------------------------------------------------------------------
(* The main thread *)

LEMMA AppendPrinted ==
  ASSUME NEW s, s \in Seq(Range(s)), NEW x
  PROVE  /\ Append(s, x) \in Seq(Range(Append(s, x)))
         /\ Len(Append(s, x)) = Len(s) + 1
<1>1. PICK S : S = Range(s) \union {x}
  OBVIOUS
<1>2. \A i \in DOMAIN s : s[i] \in S
  BY <1>1 DEF Range
<1>3. /\ s \in Seq(S) /\ x \in S
  BY <1>1, <1>2
<1>4. Append(s, x) \in Seq(S) /\ Len(Append(s, x)) = Len(s) + 1
  BY <1>3
<1> QED  BY <1>4, SeqOfRange

LEMMA CurrentIsMode ==
  ASSUME InOrder, main \in {"request", "wait"}
  PROVE  Current \in Mode
<1>1. Len(printed) \in Nat
  BY DEF InOrder
<1> QED  BY <1>1, ModesFacts DEF InOrder, Current

LEMMA MainSteps == ASSUME NumberInv, Main PROVE ExchangeInv'
<1> USE DEF NumberInv, ExchangeInv
<1>1. /\ UNCHANGED <<items, sockets, handlers, pc, n>>
      /\ UNCHANGED <<connected, doing, held>>
  BY DEF Main, vars, vectors, dispatchVars, Bind, CreateThread, ReadNumbers,
         SendRequest, ReceiveReply, Return, Exit, Abort, operatorVars
<1>2. CASE Bind \/ CreateThread
  <2>1. /\ main \in {"bind", "create"} /\ main' # "wait"
        /\ UNCHANGED <<requests, replies, process>>
    BY <1>2 DEF Bind, CreateThread, messageVars
  <2>2. InOrder'
    BY <1>1, <1>2, ModesFacts DEF InOrder, Bind, CreateThread, operatorVars
  <2>3. SocketsOfModes'
    BY <1>1, <2>1, <1>2 DEF SocketsOfModes, InOrder, Bind, CreateThread, operatorVars
  <2>4. OneMessage'
    BY <1>1, <2>1 DEF OneMessage
  <2> QED
    BY <1>1, <2>1, <2>2, <2>3, <2>4
    DEF RestIsWaiting, CalledForRequest, AbortsOnlyIfEmpty, ArgSocket, EventMatches, Main
<1>3. CASE ReadNumbers \/ Return \/ Exit
  <2>1. /\ main # "wait" /\ main' # "wait" /\ main \notin {"bind", "create"}
        /\ main' \notin {"bind", "create"} /\ process' # "aborted"
        /\ main = "read" \/ main' \notin {"read", "request"}
        /\ UNCHANGED <<requests, replies, bound, operator, printed>>
    BY <1>3 DEF ReadNumbers, Return, Exit, Main, messageVars, mainVars, operatorVars
  <2>2. InOrder' /\ SocketsOfModes'
    BY <1>1, <2>1 DEF InOrder, SocketsOfModes
  <2>3. OneMessage'
    BY <1>1, <2>1 DEF OneMessage
  <2> QED
    BY <1>1, <2>1, <2>2, <2>3
    DEF RestIsWaiting, CalledForRequest, AbortsOnlyIfEmpty, ArgSocket, EventMatches
<1>4. CASE SendRequest
  <2>1. main = "request" /\ main' \in {"request", "wait"} /\ UNCHANGED <<bound, operator, printed>>
    BY <1>4 DEF SendRequest, Abort, mainVars, operatorVars
  <2>2. InOrder' /\ SocketsOfModes'
    BY <1>1, <2>1 DEF InOrder, SocketsOfModes
  <2>3. CASE numbers = << >> /\ Abort
    BY <1>1, <2>1, <2>2, <2>3
    DEF Abort, mainVars, messageVars, OneMessage, RestIsWaiting, CalledForRequest,
        AbortsOnlyIfEmpty, ArgSocket, EventMatches, Current
  <2>4. CASE numbers # << >> /\ requests' = [requests EXCEPT ![Current] = numbers]
             /\ main' = "wait" /\ UNCHANGED <<process, replies>>
    <3>1. \A m \in Mode : requests[m] = << >> /\ replies[m] = << >>
      BY <2>1 DEF OneMessage
    <3>2. doing # "received"
      BY <2>1 DEF OneMessage
    <3>3. Current' = Current
      BY <2>1 DEF Current
    <3>4. /\ requests' = [m \in Mode |-> requests'[m]]
          /\ \A m \in Mode : requests'[m] = IF m = Current THEN numbers ELSE << >>
      BY <2>4, <3>1 DEF OneMessage
    <3>5. OneMessage'
      BY <1>1, <2>1, <2>4, <3>1, <3>2, <3>3, <3>4 DEF OneMessage
    <3>6. \A i \in DOMAIN sockets : requests[sockets[i]] # << >> => requests'[sockets[i]] # << >>
      BY <2>4 DEF OneMessage
    <3>7. RestIsWaiting' /\ CalledForRequest'
      BY <1>1, <3>6, NumberVectors, VectorsSizes
      DEF RestIsWaiting, CalledForRequest, SocketsOfModes, ArgSocket, EventMatches
    <3> QED  BY <2>2, <2>4, <3>5, <3>7 DEF AbortsOnlyIfEmpty, Main
  <2> QED  BY <1>4, <2>3, <2>4 DEF SendRequest
<1>5. CASE ReceiveReply
  <2>1. /\ main = "wait" /\ replies[Current] # << >>
        /\ printed' = Append(printed, replies[Current])
        /\ replies' = [replies EXCEPT ![Current] = << >>]
        /\ main' = IF Len(printed') = Len(Modes) THEN "delete" ELSE "request"
        /\ UNCHANGED <<bound, operator, requests, process>>
    BY <1>5 DEF ReceiveReply, operatorVars
  <2>2. printed' \in Seq(Range(printed')) /\ Len(printed') = Len(printed) + 1
    BY <2>1, AppendPrinted DEF InOrder
  <2>3. Len(printed) \in Nat
    BY DEF InOrder
  <2>4. InOrder' /\ SocketsOfModes'
    BY <1>1, <2>1, <2>2, <2>3, ModesFacts DEF InOrder, SocketsOfModes
  <2>5. \A m \in Mode : requests[m] = << >>
    BY <2>1, CurrentIsMode DEF OneMessage
  <2>6. doing # "received"
    BY <2>1, CurrentIsMode DEF OneMessage
  <2>7. /\ replies' = [m \in Mode |-> replies'[m]]
        /\ \A m \in Mode : replies'[m] = << >>
    BY <2>1, CurrentIsMode DEF OneMessage
  <2>8. OneMessage'
    BY <1>1, <2>1, <2>5, <2>6, <2>7 DEF OneMessage
  <2>9. RestIsWaiting' /\ CalledForRequest'
    BY <1>1, <2>1 DEF RestIsWaiting, CalledForRequest, ArgSocket, EventMatches
  <2> QED  BY <2>1, <2>4, <2>8, <2>9 DEF AbortsOnlyIfEmpty, Main
<1> QED  BY <1>2, <1>3, <1>4, <1>5 DEF Main

-----------------------------------------------------------------------------
(* The operator thread *)

(* Outside of run the reactor neither polls nor calls. *)
LEMMA NotRunning ==
  ASSUME NumberInv, operator # "run"
  PROVE  pc \in {"build", "app"} /\ doing = "none"
BY CallsParts, TableParts DEF NumberInv, ExchangeInv, SocketsOfModes, Control

LEMMA PairSet ==
  ASSUME NumberInv, SetUp
  PROVE  /\ pc' \in {"build", "app"}
         /\ \/ UNCHANGED sockets
            \/ /\ Len(handlers) < Len(Modes)
               /\ sockets' = Append(sockets, Modes[Len(handlers) + 1])
<1>1. pc \in {"build", "app"}
  BY NotRunning DEF SetUp
<1>2. CASE MakeStaticDone
  BY <1>2 DEF MakeStaticDone, vectors
<1>3. CASE Len(handlers) < Len(Modes) /\ LET m == Modes[Len(handlers) + 1] IN AddPair(m, m)
  <2>1. PICK m : m = Modes[Len(handlers) + 1]
    OBVIOUS
  <2>2. AddHandler(m, {"IN"}, m) \/ MakeStaticPair(m, {"IN"}, m)
    BY <1>3, <2>1 DEF AddPair
  <2>3. sockets' = Append(sockets, m) /\ pc' = pc
    BY <2>2 DEF AddHandler, MakeStaticPair, AddItem, Resized, tableUnchanged
  <2> QED  BY <1>1, <1>3, <2>1, <2>3
<1> QED  BY <1>2, <1>3 DEF SetUp

LEMMA StartSteps ==
  ASSUME NumberInv, Connect \/ SetUp \/ Run \/ DeleteSockets
  PROVE  ExchangeInv'
<1> USE DEF NumberInv, ExchangeInv
<1>1. pc \in {"build", "app"} /\ doing = "none"
  <2>1. CASE Connect \/ SetUp \/ Run
    BY <2>1, NotRunning DEF Connect, SetUp, Run
  <2>2. CASE DeleteSockets
    BY <2>2 DEF DeleteSockets, SocketsOfModes
  <2> QED  BY <2>1, <2>2
<1>2. operator = "connect" => ~(connected >= bound)
  <2>1. operator = "connect" => main # "bind" /\ connected < Len(Modes)
    BY DEF InOrder
  <2>2. connected \in Nat /\ bound \in Nat /\ (main # "bind" => bound = 5)
    BY ModesFacts DEF InOrder
  <2> QED  BY <2>1, <2>2, ModesFacts
<1>3. /\ UNCHANGED <<process, main, bound, numbers, printed, doing, requests, replies>>
      /\ operator = "run" => operator' = "done"
      /\ operator' \in {operator, "set up", "run", "done"}
      /\ connected' \in {connected, connected + 1}
      /\ operator' = "connect" => connected' < Len(Modes)
  <2>1. CASE Connect
    <3>1. /\ operator = "connect" /\ connected' = connected + 1
          /\ operator' = IF connected' = Len(Modes) THEN "set up" ELSE "connect"
          /\ UNCHANGED <<process, mainVars, doing, held, messageVars>>
      BY <1>2, <2>1 DEF Connect
    <3>2. connected < Len(Modes) /\ connected \in Nat
      BY <3>1 DEF InOrder
    <3>3. operator' = "connect" => connected' < Len(Modes)
      BY <3>1, <3>2, ModesFacts
    <3> QED  BY <3>1, <3>3 DEF mainVars, messageVars
  <2>2. CASE SetUp
    BY <2>2 DEF SetUp, numberVars, mainVars, operatorVars, messageVars
  <2>3. CASE Run
    BY <2>3 DEF Run, mainVars, messageVars
  <2>4. CASE DeleteSockets
    BY <2>4 DEF DeleteSockets, mainVars, messageVars
  <2> QED  BY <2>1, <2>2, <2>3, <2>4
<1>4. OneMessage'
  BY <1>1, <1>3 DEF OneMessage, Current
<1>5. InOrder'
  <2>1. operator # "none"
    BY DEF Connect, SetUp, Run, DeleteSockets
  <2>2. operator' # "none" /\ connected' \in Nat
    <3>1. connected \in Nat
      BY DEF InOrder
    <3>2. operator' # "none"
      BY ONLY <1>3, <2>1
    <3>3. connected' = connected \/ connected' = connected + 1
      BY ONLY <1>3
    <3> QED  BY ONLY <3>1, <3>2, <3>3
  <2>3. main \notin {"bind", "create"}
    BY <2>1 DEF InOrder
  <2> QED  BY <1>3, <2>2, <2>3 DEF InOrder
<1>6. SocketsOfModes' /\ pc' \notin {"dispatch", "callback"}
  <2>1. CASE Connect \/ DeleteSockets
    <3>1. UNCHANGED <<sockets, pc, n>>
      BY <2>1 DEF Connect, DeleteSockets, vars, vectors, dispatchVars
    <3> QED  BY <1>1, <1>3, <3>1 DEF SocketsOfModes
  <2>2. CASE Run
    <3>1. UNCHANGED <<sockets, n>> /\ pc' = "poll" /\ operator' = "run"
      BY <2>2 DEF Run, Call, vectors
    <3> QED  BY <1>1, <1>3, <3>1 DEF SocketsOfModes
  <2>3. CASE SetUp
    <3>1. Len(sockets') <= Len(Modes) /\ \A i \in DOMAIN sockets' : sockets'[i] = Modes[i]
      <4>1. CASE UNCHANGED sockets
        BY <4>1 DEF SocketsOfModes
      <4>2. CASE Len(handlers) < Len(Modes) /\ sockets' = Append(sockets, Modes[Len(handlers) + 1])
        <5>1. PICK S : S = Sockets \union {NULL} \union {Modes[Len(handlers) + 1]}
          OBVIOUS
        <5>2. sockets \in Seq(S) /\ Len(handlers) = Len(sockets)
          BY <5>1, NumberVectors, VectorsSizes, SeqMonotonic DEF Vectors
        <5>3. Modes[Len(handlers) + 1] \in S
          BY <5>1
        <5> QED  BY <4>2, <5>2, <5>3, AppendProperties, LenProperties, ModesFacts DEF SocketsOfModes
      <4> QED  BY <2>3, <4>1, <4>2, PairSet
    <3>2. pc' \in {"build", "app"} /\ doing' = "none"
      BY <2>3, <1>1, <1>3, PairSet
    <3> QED  BY <3>1, <3>2 DEF SocketsOfModes
  <2> QED  BY <2>1, <2>2, <2>3
<1>7. pc' # "callback" /\ (process' = "aborted" => numbers' = << >> /\ main' = "request")
  BY <1>3, <1>6 DEF AbortsOnlyIfEmpty
<1> QED  BY <1>4, <1>5, <1>6, <1>7
         DEF RestIsWaiting, CalledForRequest, AbortsOnlyIfEmpty

(* Between two callbacks nothing moves but the dispatch. *)
LEMMA LoopSteps ==
  ASSUME NumberInv, Found \/ Terminated \/ Dispatch
  PROVE  ExchangeInv'
<1> USE DEF NumberInv, ExchangeInv
<1>1. UNCHANGED <<numberVars, sockets, handlers>>
  BY DEF Found, Terminated, Dispatch, PollMatched, PollError, Skip, DispatchDone,
         pollUnchanged, dispatchUnchanged, vectors
<1>2. /\ UNCHANGED <<process, main, bound, numbers, printed, operator, connected>>
      /\ UNCHANGED <<doing, requests, replies>>
  BY <1>1 DEF numberVars, mainVars, operatorVars, messageVars
<1>3. pc \in {"poll", "dispatch"} /\ pc' \in {"app", "poll", "dispatch"}
  BY DEF Found, Terminated, Dispatch, PollMatched, PollError, Skip, DispatchDone, Finish
<1>4. doing = "none" /\ operator = "run"
  BY <1>3 DEF SocketsOfModes
<1>5. InOrder'
  BY <1>2 DEF InOrder
<1>6. SocketsOfModes'
  BY <1>1, <1>2, <1>3, <1>4 DEF SocketsOfModes
<1>7. OneMessage'
  BY <1>2, <1>4 DEF OneMessage, Current
<1>8. RestIsWaiting'
  <2>1. CASE Found
    <3>1. /\ UNCHANGED <<capacity, sockets, handlers, requests>>
          /\ \A i \in DOMAIN items : items'[i].revents = Waiting(items[i].socket)
      BY <1>1, <1>2, <2>1 DEF Found, PollMatched
    <3>2. Vectors' /\ Len(items') = Len(items)
      BY <2>1, <3>1, NumberVectors, SomeMatchedVectors DEF Found, PollMatched
    <3>3. DOMAIN items' = DOMAIN items
      BY <3>2, NumberVectors, LenProperties DEF Vectors
    <3>4. ASSUME NEW i \in DOMAIN items, EventMatches(items'[i])
          PROVE  requests'[sockets'[i]] # << >>
      <4>1. items'[i].revents # {}
        BY <3>4 DEF EventMatches
      <4>2. requests[items[i].socket] # << >>
        BY <3>1, <4>1 DEF Waiting
      <4>3. items[i].socket = sockets[i]
        BY NumberVectors DEF Vectors, Aligned
      <4> QED  BY <3>1, <4>2, <4>3
    <3> QED  BY <3>3, <3>4 DEF RestIsWaiting
  <2>2. CASE Terminated
    <3>1. pc' = "app"
      BY <2>2 DEF Terminated, PollError, Finish
    <3> QED  BY <3>1 DEF RestIsWaiting
  <2>3. CASE Skip
    <3>1. pc = "dispatch" /\ pc' = "dispatch" /\ n' = n + 1 /\ items' = items
      BY <2>3 DEF Skip, dispatchUnchanged, vectors
    <3>2. \A i \in DOMAIN items : i > n + 1 \/ i = n + 1 => i > n
      BY NumberVectors, VectorsSizes
    <3> QED  BY <1>1, <1>2, <3>1, <3>2 DEF RestIsWaiting, EventMatches
  <2>4. CASE DispatchDone
    <3>1. pc' \in {"app", "poll"}
      BY <2>4 DEF DispatchDone, Finish
    <3> QED  BY <3>1 DEF RestIsWaiting
  <2> QED  BY <2>1, <2>2, <2>3, <2>4 DEF Dispatch
<1> QED  BY <1>2, <1>3, <1>5, <1>6, <1>7, <1>8 DEF CalledForRequest, AbortsOnlyIfEmpty

(* The callback: its socket is the one of the request that is being served. *)
LEMMA ArgIsMode ==
  ASSUME NumberInv, n \in DOMAIN sockets
  PROVE  ArgSocket \in Mode /\ \A i \in DOMAIN sockets : sockets[i] = ArgSocket => i = n
<1> USE DEF NumberInv, ExchangeInv
<1>1. DOMAIN sockets = 1 .. Len(sockets) /\ Len(sockets) \in Nat /\ Len(sockets) <= 5
  BY NumberVectors, VectorsSizes, ModesFacts DEF SocketsOfModes
<1>2. \A i \in DOMAIN sockets : i \in 1 .. 5 /\ sockets[i] = Modes[i]
  BY <1>1 DEF SocketsOfModes
<1> QED  BY <1>2, ModesFacts DEF ArgSocket

LEMMA CallbackSteps ==
  ASSUME NumberInv, Enter \/ Receive \/ Reply \/ Answer
  PROVE  ExchangeInv'
<1> USE DEF NumberInv, ExchangeInv
<1>1. UNCHANGED <<items, sockets, handlers>>
  BY DEF Enter, Receive, Reply, Answer, CallHandler, Continue, dispatchUnchanged, vectors, vars
<1>2. CASE Enter
  <2>1. /\ UNCHANGED <<process, main, bound, numbers, printed, operator, connected>>
        /\ UNCHANGED <<requests, replies, n>>
        /\ doing' = "entered" /\ pc = "dispatch" /\ pc' = "callback"
    BY <1>2 DEF Enter, CallHandler, mainVars, messageVars
  <2>2. n <= Len(items) /\ EventMatches(items[n])
    BY <1>2 DEF Enter, CallHandler
  <2>3. n \in DOMAIN items /\ n \in DOMAIN sockets
    BY <2>2, NumberVectors, VectorsSizes
  <2>4. requests[sockets[n]] # << >>
    BY <2>1, <2>2, <2>3 DEF RestIsWaiting
  <2>5. InOrder'
    BY <2>1 DEF InOrder
  <2>6. SocketsOfModes'
    BY <1>1, <2>1, <2>3 DEF SocketsOfModes
  <2>7. OneMessage'
    BY <2>1 DEF OneMessage, Current
  <2>8. RestIsWaiting'
    BY <1>1, <2>1 DEF RestIsWaiting, EventMatches
  <2> QED  BY <1>1, <2>1, <2>4, <2>5, <2>6, <2>7, <2>8
           DEF CalledForRequest, AbortsOnlyIfEmpty, ArgSocket
<1>3. CASE Receive
  <2>1. pc = "callback" /\ doing = "entered" /\ n \in DOMAIN sockets
    BY <1>3 DEF Receive, SocketsOfModes
  <2>2. ArgSocket \in Mode /\ requests[ArgSocket] # << >>
    BY <2>1, ArgIsMode DEF CalledForRequest
  <2>3. main = "wait" /\ ArgSocket = Current /\ \A k \in Mode : replies[k] = << >>
    BY <2>2 DEF OneMessage
  <2>4. /\ UNCHANGED <<process, main, bound, numbers, printed, operator, connected>>
        /\ UNCHANGED <<replies, pc, n>>
        /\ requests' = [requests EXCEPT ![ArgSocket] = << >>]
        /\ doing' = "received"
    BY <1>3, <2>3 DEF Receive, mainVars, vars, dispatchVars
  <2>5. InOrder'
    BY <2>4 DEF InOrder
  <2>6. SocketsOfModes'
    BY <1>1, <2>1, <2>4 DEF SocketsOfModes
  <2>7. /\ requests' = [m \in Mode |-> requests'[m]]
        /\ \A m \in Mode : requests'[m] = << >>
    BY <2>2, <2>3, <2>4 DEF OneMessage
  <2>8. Current' = Current /\ ArgSocket' = ArgSocket
    BY <1>1, <2>4 DEF Current, ArgSocket
  <2>9. OneMessage'
    BY <2>3, <2>4, <2>7, <2>8 DEF OneMessage
  <2>10. RestIsWaiting'
    <3>1. ASSUME NEW i \in DOMAIN items, i > n, EventMatches(items[i])
          PROVE  FALSE
      <4>1. requests[sockets[i]] # << >>
        BY <2>1, <3>1 DEF RestIsWaiting
      <4>2. i \in DOMAIN sockets /\ i \in Nat /\ n \in Nat
        BY NumberVectors, VectorsSizes
      <4>3. sockets[i] \in Mode
        <5>1. i \in 1 .. 5 /\ sockets[i] = Modes[i]
          BY <4>2, NumberVectors, VectorsSizes, ModesFacts DEF SocketsOfModes
        <5> QED  BY <5>1, ModesFacts
      <4>4. sockets[i] = ArgSocket
        BY <2>3, <4>1, <4>3 DEF OneMessage
      <4>5. i = n
        BY <2>1, <4>2, <4>4, ArgIsMode
      <4> QED  BY <3>1, <4>2, <4>5
    <3> QED  BY <1>1, <2>1, <2>4, <3>1 DEF RestIsWaiting, EventMatches
  <2> QED  BY <2>4, <2>5, <2>6, <2>9, <2>10 DEF CalledForRequest, AbortsOnlyIfEmpty
<1>4. CASE Reply
  <2>1. pc = "callback" /\ doing = "received" /\ n \in DOMAIN sockets
    BY <1>4 DEF Reply, SocketsOfModes
  <2>2. /\ main = "wait" /\ ArgSocket = Current
        /\ \A k \in Mode : requests[k] = << >> /\ replies[k] = << >>
    BY <2>1 DEF OneMessage
  <2>3. PICK result_ : result_ = Transform(handlers[n], held)
    OBVIOUS
  <2>4. /\ UNCHANGED <<process, main, bound, numbers, printed, operator, connected>>
        /\ UNCHANGED <<requests, pc, n>>
        /\ replies' = [replies EXCEPT ![ArgSocket] = result_]
        /\ doing' = "replied"
    BY <1>4, <2>2, <2>3 DEF Reply, mainVars, vars, dispatchVars
  <2>5. InOrder'
    BY <2>4 DEF InOrder
  <2>6. SocketsOfModes'
    BY <1>1, <2>1, <2>4 DEF SocketsOfModes
  <2>7. /\ replies' = [m \in Mode |-> replies'[m]]
        /\ \A m \in Mode : m # ArgSocket => replies'[m] = << >>
    BY <2>2, <2>4 DEF OneMessage
  <2>8. Current' = Current
    BY <2>4 DEF Current
  <2>9. OneMessage'
    BY <2>2, <2>4, <2>7, <2>8 DEF OneMessage
  <2>10. RestIsWaiting'
    BY <1>1, <2>4 DEF RestIsWaiting, EventMatches
  <2> QED  BY <2>4, <2>5, <2>6, <2>9, <2>10 DEF CalledForRequest, AbortsOnlyIfEmpty
<1>5. CASE Answer
  <2>1. /\ UNCHANGED <<process, main, bound, numbers, printed, operator, connected>>
        /\ UNCHANGED <<requests, replies>>
        /\ doing = "replied" /\ doing' = "none"
        /\ pc = "callback" /\ pc' = "dispatch" /\ n' = n + 1
    BY <1>5 DEF Answer, Continue, NextPosition, mainVars, messageVars
  <2>2. InOrder'
    BY <2>1 DEF InOrder
  <2>3. SocketsOfModes'
    BY <1>1, <2>1 DEF SocketsOfModes
  <2>4. OneMessage'
    BY <2>1 DEF OneMessage, Current
  <2>5. RestIsWaiting'
    <3>1. \A i \in DOMAIN items : i > n + 1 \/ i = n + 1 => i > n
      BY NumberVectors, VectorsSizes
    <3> QED  BY <1>1, <2>1, <3>1 DEF RestIsWaiting, EventMatches
  <2> QED  BY <2>1, <2>2, <2>3, <2>4, <2>5 DEF CalledForRequest, AbortsOnlyIfEmpty
<1> QED  BY <1>2, <1>3, <1>4, <1>5

-----------------------------------------------------------------------------
LEMMA NumberInitInv == NumberInit => NumberInv
<1> SUFFICES ASSUME NumberInit PROVE NumberInv
  OBVIOUS
<1>1. CallsInv
  BY CallsInit DEF NumberInit
<1>2. sockets = << >> /\ pc \in {"build", "app"}
  BY DEF NumberInit, Init, BaseInit
<1>3. InOrder
  BY ModesFacts DEF NumberInit, InOrder, Range
<1>4. SocketsOfModes
  BY <1>2, ModesFacts DEF NumberInit, SocketsOfModes
<1>5. OneMessage
  BY DEF NumberInit, OneMessage
<1> QED
  BY <1>1, <1>2, <1>3, <1>4, <1>5
  DEF NumberInit, NumberInv, ExchangeInv, RestIsWaiting, CalledForRequest, AbortsOnlyIfEmpty

LEMMA NumberNextInv == ASSUME NumberInv, [NumberNext]_allVars PROVE NumberInv'
<1>1. (CallsInv)'
  BY StepIsReactorStep, CallsNext DEF NumberInv
<1>2. CASE Main
  BY <1>1, <1>2, MainSteps DEF NumberInv
<1>3. CASE Operator
  BY <1>1, <1>3, StartSteps, LoopSteps, CallbackSteps DEF Operator, NumberInv
<1>4. CASE UNCHANGED allVars
  <2>1. /\ UNCHANGED <<items, sockets, handlers, pc, n>>
        /\ UNCHANGED <<process, main, bound, numbers, printed, operator, connected>>
        /\ UNCHANGED <<doing, requests, replies>>
    BY <1>4 DEF allVars, vars, vectors, dispatchVars, numberVars, mainVars, operatorVars, messageVars
  <2>2. InOrder' /\ SocketsOfModes'
    BY <2>1 DEF NumberInv, ExchangeInv, InOrder, SocketsOfModes
  <2>3. OneMessage'
    BY <2>1 DEF NumberInv, ExchangeInv, OneMessage, Current, ArgSocket
  <2> QED
    BY <1>1, <2>1, <2>2, <2>3
    DEF NumberInv, ExchangeInv, RestIsWaiting, EventMatches, CalledForRequest, ArgSocket,
        AbortsOnlyIfEmpty
<1> QED  BY <1>2, <1>3, <1>4 DEF NumberNext

LEMMA NumberInvariant == NumberSpec => []NumberInv
<1>1. NumberInv /\ [NumberNext]_allVars => NumberInv'
  BY NumberNextInv
<1> QED  BY NumberInitInv, <1>1, PTL DEF NumberSpec

-----------------------------------------------------------------------------
(* The numbers on their way.  What Transform computes is of no account. *)

AnswersInv == Travelling /\ Answered

LEMMA MainAnswers == ASSUME NumberInv, AnswersInv, Main PROVE AnswersInv'
<1> USE DEF AnswersInv
<1>1. UNCHANGED <<handlers, doing, held>>
  BY DEF Main, vars, Bind, CreateThread, ReadNumbers, SendRequest, ReceiveReply,
         Return, Exit, Abort, operatorVars
<1>2. CASE Bind \/ CreateThread \/ Return \/ Exit
  <2>1. /\ UNCHANGED <<numbers, printed, requests, replies>>
        /\ main' \in {"bind", "create", "read"} => main \in {"bind", "create", "read"}
    BY <1>2 DEF Bind, CreateThread, Return, Exit, mainVars, operatorVars, messageVars
  <2> QED  BY <1>1, <2>1 DEF Travelling, Answered
<1>3. CASE ReadNumbers
  <2>1. main = "read" /\ main' = "request" /\ UNCHANGED <<printed, requests, replies>>
    BY <1>3 DEF ReadNumbers, messageVars
  <2>2. \A m \in Mode : requests[m] = << >> /\ replies[m] = << >>
    BY <2>1 DEF NumberInv, ExchangeInv, OneMessage
  <2>3. doing # "received"
    BY <2>1 DEF NumberInv, ExchangeInv, OneMessage
  <2>4. printed = << >>
    BY <2>1 DEF Travelling
  <2> QED  BY <1>1, <2>1, <2>2, <2>3, <2>4 DEF Travelling, Answered
<1>4. CASE SendRequest
  <2>1. main = "request" /\ main' \in {"request", "wait"} /\ UNCHANGED <<numbers, printed, replies>>
    BY <1>4 DEF SendRequest, Abort, mainVars, messageVars
  <2>2. requests' = requests \/ requests' = [requests EXCEPT ![Current] = numbers]
    BY <1>4 DEF SendRequest, Abort, messageVars
  <2>3. \A m \in Mode : requests'[m] # << >> => requests'[m] = numbers
    BY <2>2 DEF Travelling, NumberInv, ExchangeInv, OneMessage
  <2> QED  BY <1>1, <2>1, <2>3 DEF Travelling, Answered
<1>5. CASE ReceiveReply
  <2>1. /\ main = "wait" /\ replies[Current] # << >>
        /\ printed' = Append(printed, replies[Current])
        /\ replies' = [replies EXCEPT ![Current] = << >>]
        /\ main' \in {"delete", "request"}
        /\ UNCHANGED <<numbers, requests>>
    BY <1>5 DEF ReceiveReply
  <2>2. Current \in Mode
    BY <2>1, CurrentIsMode DEF NumberInv, ExchangeInv
  <2>3. replies[Current] = Transform(Modes[Len(printed) + 1], numbers)
    BY <2>1, <2>2 DEF Travelling, Current
  <2>4. \A m \in Mode : replies'[m] # << >> => replies'[m] = replies[m]
    BY <2>1, <2>2 DEF NumberInv, ExchangeInv, OneMessage
  <2>5. Answered'
    <3>1. PICK S : S = Range(printed) \union {replies[Current]}
      OBVIOUS
    <3>2. printed \in Seq(Range(printed))
      BY DEF NumberInv, ExchangeInv, InOrder
    <3>3. printed \in Seq(S) /\ replies[Current] \in S
      BY <3>1, <3>2, SeqMonotonic
    <3>4. /\ Len(printed) \in Nat /\ DOMAIN printed = 1 .. Len(printed)
          /\ Append(printed, replies[Current]) \in Seq(S)
          /\ Len(Append(printed, replies[Current])) = Len(printed) + 1
          /\ \A k \in 1 .. Len(printed) : Append(printed, replies[Current])[k] = printed[k]
          /\ Append(printed, replies[Current])[Len(printed) + 1] = replies[Current]
      BY <3>3, AppendProperties, LenProperties
    <3>5. DOMAIN printed' = 1 .. Len(printed) + 1
      BY <2>1, <3>4, LenProperties
    <3>6. ASSUME NEW k \in DOMAIN printed' PROVE printed'[k] = Transform(Modes[k], numbers)
      <4>1. CASE k = Len(printed) + 1
        BY <2>1, <2>3, <3>4, <4>1
      <4>2. CASE k \in DOMAIN printed
        BY <2>1, <3>4, <4>2 DEF Answered
      <4> QED  BY <3>4, <3>5, <4>1, <4>2
    <3>7. Answered' <=> \A k \in DOMAIN printed' : printed'[k] = Transform(Modes[k], numbers')
      BY DEF Answered
    <3> QED  BY <2>1, <3>6, <3>7
  <2> QED  BY <1>1, <2>1, <2>4, <2>5 DEF Travelling
<1> QED  BY <1>2, <1>3, <1>4, <1>5 DEF Main

LEMMA OperatorAnswers == ASSUME NumberInv, AnswersInv, Operator PROVE AnswersInv'
<1> USE DEF AnswersInv
<1>1. CASE Connect \/ Run \/ DeleteSockets \/ Found \/ Terminated \/ Dispatch \/ Enter \/ Answer
  <2>1. UNCHANGED handlers
    BY <1>1 DEF Connect, Run, Call, DeleteSockets, Found, Terminated, Dispatch, Enter,
                Answer, PollMatched, PollError, pollUnchanged, Skip, DispatchDone,
                CallHandler, Continue, dispatchUnchanged, vars
  <2>2. UNCHANGED <<main, numbers, printed, requests, replies>>
    BY <1>1 DEF Connect, Run, DeleteSockets, Found, Terminated, Dispatch, Enter, Answer,
                Abort, mainVars, messageVars, numberVars
  <2>3. doing' = "received" => doing = "received" /\ held' = held
    BY <1>1 DEF Connect, Run, DeleteSockets, Found, Terminated, Dispatch, Enter, Answer,
                Abort, operatorVars, numberVars
  <2> QED  BY <2>1, <2>2, <2>3 DEF Travelling, Answered
<1>2. CASE SetUp
  <2>1. UNCHANGED <<main, numbers, printed, doing, held, requests, replies>>
    BY <1>2 DEF SetUp, numberVars, mainVars, operatorVars, messageVars
  <2>2. \A i \in DOMAIN handlers' : handlers'[i] = Modes[i]
    <3>1. CASE MakeStaticDone
      BY <3>1 DEF MakeStaticDone, Travelling
    <3>2. CASE Len(handlers) < Len(Modes) /\ LET m == Modes[Len(handlers) + 1] IN AddPair(m, m)
      <4>1. PICK m : m = Modes[Len(handlers) + 1]
        OBVIOUS
      <4>2. AddHandler(m, {"IN"}, m) \/ MakeStaticPair(m, {"IN"}, m)
        BY <3>2, <4>1 DEF AddPair
      <4>3. handlers' = Append(handlers, m)
        BY <4>2 DEF AddHandler, MakeStaticPair
      <4>4. PICK S : S = Functions \union {NULL} \union {m}
        OBVIOUS
      <4>5. handlers \in Seq(S) /\ m \in S
        BY <4>4, NumberVectors, SeqMonotonic DEF Vectors
      <4> QED  BY <4>1, <4>3, <4>5, AppendProperties, LenProperties DEF Travelling
    <3> QED  BY <1>2, <3>1, <3>2 DEF SetUp
  <2> QED  BY <2>1, <2>2 DEF Travelling, Answered
<1>3. CASE Receive
  <2>1. pc = "callback" /\ doing = "entered" /\ n \in DOMAIN sockets
    BY <1>3 DEF Receive, NumberInv, ExchangeInv, SocketsOfModes
  <2>2. ArgSocket \in Mode /\ requests[ArgSocket] # << >>
    BY <2>1, ArgIsMode DEF NumberInv, ExchangeInv, CalledForRequest
  <2>3. main = "wait"
    BY <2>2 DEF NumberInv, ExchangeInv, OneMessage
  <2>4. /\ UNCHANGED <<handlers, main, numbers, printed, replies>>
        /\ held' = requests[ArgSocket]
        /\ requests' = [requests EXCEPT ![ArgSocket] = << >>]
    BY <1>3, <2>3 DEF Receive, mainVars, vars
  <2>5. \A m \in Mode : requests'[m] # << >> => requests'[m] = numbers
    BY <2>4 DEF Travelling, NumberInv, ExchangeInv, OneMessage
  <2>6. held' = numbers
    BY <2>2, <2>4 DEF Travelling
  <2> QED  BY <2>4, <2>5, <2>6 DEF Travelling, Answered
<1>4. CASE Reply
  <2>1. pc = "callback" /\ doing = "received" /\ n \in DOMAIN sockets
    BY <1>4 DEF Reply, NumberInv, ExchangeInv, SocketsOfModes
  <2>2. main = "wait"
    BY <2>1 DEF NumberInv, ExchangeInv, OneMessage
  <2>3. /\ UNCHANGED <<handlers, main, numbers, printed, held, requests>>
        /\ replies' = [replies EXCEPT ![ArgSocket] = Transform(handlers[n], held)]
    BY <1>4, <2>2 DEF Reply, mainVars, vars
  <2>4. handlers[n] = ArgSocket /\ held = numbers
    <3>1. n \in DOMAIN handlers
      BY <2>1, NumberVectors, VectorsSizes
    <3>2. sockets[n] = Modes[n]
      BY <2>1 DEF NumberInv, ExchangeInv, SocketsOfModes
    <3> QED  BY <2>1, <3>1, <3>2 DEF Travelling, ArgSocket
  <2>5. replies' = [replies EXCEPT ![ArgSocket] = Transform(ArgSocket, numbers)]
    BY <2>3, <2>4
  <2>6. \A m \in Mode : replies'[m] # << >> => replies'[m] = Transform(m, numbers)
    BY <2>5 DEF Travelling, NumberInv, ExchangeInv, OneMessage
  <2> QED  BY <2>1, <2>3, <2>4, <2>6 DEF Travelling, Answered
<1> QED  BY <1>1, <1>2, <1>3, <1>4 DEF Operator

LEMMA AnswersInvariant == NumberSpec => []AnswersInv
<1>1. NumberInit => AnswersInv
  BY DEF NumberInit, Init, AnswersInv, Travelling, Answered
<1>2. ASSUME NumberInv, AnswersInv, UNCHANGED allVars PROVE AnswersInv'
  BY <1>2 DEF allVars, vars, vectors, numberVars, mainVars, operatorVars, messageVars,
              AnswersInv, Travelling, Answered
<1>3. NumberInv /\ AnswersInv /\ [NumberNext]_allVars => AnswersInv'
  BY <1>2, MainAnswers, OperatorAnswers DEF NumberNext
<1> QED  BY <1>1, <1>3, NumberInvariant, PTL DEF NumberSpec

-----------------------------------------------------------------------------
(***************************************************************************)
(* The example's reactor is a PollReactor: every step of the two threads   *)
(* is a step of the reactor that the specification allows, or none.  What  *)
(* is proved of every PollReactor therefore holds in this program.         *)
(***************************************************************************)
THEOREM ExampleIsReactor == NumberSpec => Spec
<1>1. NumberInit => Init
  BY DEF NumberInit
<1>2. NumberInv /\ [NumberNext]_allVars => [Next]_vars
  BY StepIsReactorStep
<1> QED  BY <1>1, <1>2, NumberInvariant, PTL DEF NumberSpec, Spec

(***************************************************************************)
(* No handler is called without a request on its socket, whatever numbers  *)
(* are entered, so that Handler::operator() never blocks in recv.          *)
(***************************************************************************)
THEOREM NeverWaits == NumberSpec => []CalledForRequest
<1>1. NumberInv => CalledForRequest
  BY DEF NumberInv, ExchangeInv
<1> QED  BY <1>1, NumberInvariant, PTL

(***************************************************************************)
(* No exception leaves a thread, unless the user enters no numbers: the    *)
(* threads bind, connect, exchange and terminate in an order that suits.   *)
(***************************************************************************)
THEOREM NeverAborts == NumberSpec => []AbortsOnlyIfEmpty
<1>1. NumberInv => AbortsOnlyIfEmpty
  BY DEF NumberInv, ExchangeInv
<1> QED  BY <1>1, NumberInvariant, PTL

(***************************************************************************)
(* Every line that is printed is the right one, whatever is entered and    *)
(* whatever the operations compute: no request, reply or function is taken *)
(* for another, in either reactor.                                         *)
(***************************************************************************)
THEOREM EveryAnswerRight == NumberSpec => []Answered
<1>1. AnswersInv => Answered
  BY DEF AnswersInv
<1> QED  BY <1>1, AnswersInvariant, PTL
=============================================================================
