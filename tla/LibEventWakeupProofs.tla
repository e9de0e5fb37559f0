------------------------ MODULE LibEventWakeupProofs ------------------------
(***************************************************************************)
(* No wake-up is lost, and no function is called on a stale answer, for    *)
(* any number of handlers and sockets: every handler whose socket may have *)
(* something for it is asked in time, over descriptors that report a       *)
(* command only once.  And a run's result is its own.                      *)
(***************************************************************************)
EXTENDS LibEventProofs

-----------------------------------------------------------------------------
(* The two promises, for one handler *)

StillReady(g) ==
  status[g] = "TRIGGERED" /\ g # nowHandled /\ g \notin used =>
    ready[sock[g]] \intersect expected[g] # {}

Woken(g) ==
  /\ status[g] = "WAITING"
  /\ signal[sock[g]] # "edge"
  /\ \/ ready[sock[g]] \intersect expected[g] # {}
     \/ signal[sock[g]] = "reported"
  => g \in active \/ g = nowHandled \/ g \in used

Heeded(g) == StillReady(g) /\ (~Destroying => Woken(g))

AllHeeded == \A g \in enabled \intersect ZmqHandlers : Heeded(g)

LEMMA WakeupParts == WakeupInv <=> TypeOK /\ OwnSockets /\ Handling /\ AllHeeded
BY DEF WakeupInv, NoLostWakeup, TriggeredIsReady, AllHeeded, Heeded, StillReady, Woken

LEMMA WakeupPartsNext == WakeupInv' <=> TypeOK' /\ OwnSockets' /\ Handling' /\ AllHeeded'
BY DEF WakeupInv, NoLostWakeup, TriggeredIsReady, AllHeeded, Heeded, StillReady, Woken

(* Nothing that concerns g has changed, ... *)
LEMMA Kept ==
  ASSUME NEW g, Heeded(g),
         status'[g] = status[g], sock'[g] = sock[g], expected'[g] = expected[g],
         ready'[sock[g]] = ready[sock[g]],
         signal'[sock[g]] = signal[sock[g]] \/ signal'[sock[g]] = "edge",
         g \in active => g \in active',
         g = nowHandled => g = nowHandled',
         g \in used => g \in used',
         Destroying => Destroying'
  PROVE  Heeded(g)'
BY DEF Heeded, StillReady, Woken

(* ... or its socket has just been asked, and its status says what for. *)
Status(r, m) == IF r \intersect m # {} THEN "TRIGGERED" ELSE "WAITING"

LEMMA Settled ==
  ASSUME NEW g, signal'[sock'[g]] = "quiet",
         status'[g] = Status(ready'[sock'[g]], expected'[g])
  PROVE  Heeded(g)'
BY DEF Heeded, StillReady, Woken, Status

(* A step that concerns only h and the socket s *)
Elsewhere(h, s) ==
  /\ \A t \in Sockets : t # s => ready'[t] = ready[t] /\ signal'[t] = signal[t]
  /\ \A g \in Handlers : g # h =>
       status'[g] = status[g] /\ sock'[g] = sock[g] /\ expected'[g] = expected[g]
  /\ used \ {h} \subseteq used'
  /\ active \ {h} \subseteq active'
  /\ enabled' \subseteq enabled \union {h}
  /\ nowHandled \in {h, NULL, nowHandled'}
  /\ Destroying => Destroying'

LEMMA OnlyOne ==
  ASSUME WakeupInv, NEW h, NEW s, Elsewhere(h, s),
         \A g \in alive \intersect ZmqHandlers : g # h => sock[g] # s,
         h \in enabled' \intersect ZmqHandlers => Heeded(h)'
  PROVE  AllHeeded'
<1> SUFFICES ASSUME NEW g \in enabled', g \in ZmqHandlers PROVE Heeded(g)'
  BY DEF AllHeeded
<1>1. CASE g = h
  BY <1>1
<1>2. CASE g # h
  <2>1. g \in enabled /\ g \in Handlers /\ g \in alive
    BY <1>2 DEF Elsewhere, WakeupInv, OwnSockets, Handlers
  <2>2. Heeded(g)
    BY <2>1, WakeupParts DEF AllHeeded
  <2>3. sock[g] \in Sockets /\ sock[g] # s
    BY <1>2, <2>1 DEF WakeupInv, OwnSockets, TypeOK
  <2>4. g # NULL
    BY <2>1, NullIsNoHandler
  <2> QED  BY <1>2, <2>1, <2>2, <2>3, <2>4, Kept DEF Elsewhere
<1> QED  BY <1>1, <1>2

(* What asking does *)
LEMMA Asked ==
  ASSUME TypeOK, NEW h, NEW s, NEW r, HasActualEvents(h, s, r)
  PROVE  /\ \A t \in Sockets : t # s => ready'[t] = ready[t] /\ signal'[t] = signal[t]
         /\ h \in ZmqHandlers /\ s \in Sockets => ready'[s] = r /\ signal'[s] = "quiet"
         /\ h \notin ZmqHandlers => UNCHANGED <<ready, signal, used>>
         /\ used \ {h} \subseteq used'
BY DEF HasActualEvents, Ask, TypeOK, BaseTypeOK

LEMMA Activated ==
  ASSUME TypeOK, NEW lk, NEW h \in Handlers, NEW s, NEW m, Activate(lk, h, s, m)
  PROVE  /\ \A t \in Sockets : t # s => ready'[t] = ready[t] /\ signal'[t] = signal[t]
         /\ \A g \in Handlers : g # h => status'[g] = status[g]
         /\ h \in ZmqHandlers /\ s \in Sockets =>
              signal'[s] = "quiet" /\ status'[h] = Status(ready'[s], m)
         /\ used \ {h} \subseteq used'
<1>1. PICK r \in SUBSET Events :
        /\ HasActualEvents(h, s, r)
        /\ \/ r \intersect m # {} /\ status' = [status EXCEPT ![h] = "TRIGGERED"]
           \/ r \intersect m = {} /\ status' = [status EXCEPT ![h] = "WAITING"]
  BY DEF Activate
<1>2. /\ \A g \in Handlers : g # h => status'[g] = status[g]
      /\ status'[h] = Status(r, m)
  BY <1>1 DEF TypeOK, Status
<1> QED  BY <1>1, <1>2, Asked

LEMMA SocketOf ==
  ASSUME WakeupInv, NEW h \in Handlers
  PROVE  /\ \A g \in alive \intersect ZmqHandlers : g # h => sock[g] # sock[h]
         /\ h \in alive \intersect ZmqHandlers => sock[h] \in Sockets
         /\ h \notin alive \/ h \notin ZmqHandlers => sock[h] = NULL
BY DEF WakeupInv, OwnSockets, TypeOK

(* Most steps leave the handlers' sockets alone. *)
LEMMA SameSockets ==
  ASSUME OwnSockets, UNCHANGED <<alive, sock>>, enabled' \subseteq alive,
         pc' = "replace" => pc = "replace" /\ UNCHANGED replacing
  PROVE  OwnSockets'
BY DEF OwnSockets

LEMMA SameHandling ==
  ASSUME Handling, UNCHANGED <<pc, caller, cur, nowHandled>>,
         alive \ enabled \subseteq alive' \ enabled'
  PROVE  Handling'
BY DEF Handling

Heeds == OwnSockets /\ Handling /\ AllHeeded

(* A step that touches no socket, no active event and no handler *)
LEMMA Untouched ==
  ASSUME WakeupInv,
         UNCHANGED <<ready, signal, status, sock, expected, enabled, used>>,
         active \subseteq active', nowHandled \in {NULL, nowHandled'},
         Destroying => Destroying'
  PROVE  AllHeeded'
<1> SUFFICES ASSUME NEW g \in enabled', g \in ZmqHandlers PROVE Heeded(g)'
  BY DEF AllHeeded
<1>1. g \in enabled /\ g # NULL
  BY NullIsNoHandler DEF WakeupInv, TypeOK
<1>2. Heeded(g)
  BY <1>1, WakeupParts DEF AllHeeded
<1> QED  BY <1>1, <1>2, Kept

-----------------------------------------------------------------------------
(* The client's calls *)

LEMMA AddZmqHeeds ==
  ASSUME WakeupInv, "OnePerSocket" \in Contract,
         NEW h \in ZmqHandlers, NEW s \in Sockets, NEW m, AddZmqHandler(h, s, m)
  PROVE  Heeds'
<1> USE DEF AddZmqHandler
<1>1. /\ h \in Handlers /\ h \notin alive /\ TypeOK
      /\ \A g \in alive : sock[g] # s
      /\ sock' = [sock EXCEPT ![h] = s] /\ expected' = [expected EXCEPT ![h] = m]
      /\ alive' = alive \union {h} /\ enabled' = enabled \union {h}
      /\ UNCHANGED <<active, nowHandled, cur, pc, caller, replacing>>
      /\ pc \in {"app", "callback"}
  BY DEF WakeupInv, Handlers, clientUnchanged, ClientRuns
<1>2. OwnSockets'
  <2> USE DEF WakeupInv, OwnSockets
  <2>1. sock'[h] = s /\ s # NULL /\ \A g \in Handlers : g # h => sock'[g] = sock[g]
    BY <1>1, HandlersAssumption DEF TypeOK
  <2>2. alive \subseteq Handlers
    BY <1>1 DEF TypeOK
  <2>3. \A g \in Handlers : sock'[g] # NULL => g \in alive' \intersect ZmqHandlers
    BY <1>1, <2>1
  <2>4. \A g \in alive' \intersect ZmqHandlers : sock'[g] # NULL
    BY <1>1, <2>1, <2>2
  <2>5. \A f, g \in alive' : sock'[f] = sock'[g] /\ sock'[f] # NULL => f = g
    BY <1>1, <2>1, <2>2
  <2> QED  BY <1>1, <2>3, <2>4, <2>5
<1>3. Handling'
  BY <1>1 DEF WakeupInv, Handling
<1>4. AllHeeded'
  <2>1. /\ \A t \in Sockets : t # s => ready'[t] = ready[t] /\ signal'[t] = signal[t]
        /\ \A g \in Handlers : g # h => status'[g] = status[g]
        /\ signal'[s] = "quiet" /\ status'[h] = Status(ready'[s], m)
        /\ used \ {h} \subseteq used'
    BY <1>1, Activated
  <2>2. sock'[h] = s /\ expected'[h] = m
    BY <1>1 DEF TypeOK
  <2>3. Heeded(h)'
    BY <2>1, <2>2, Settled
  <2>4. Elsewhere(h, s)
    BY <1>1, <2>1 DEF Elsewhere, TypeOK, Destroying
  <2> QED  BY <1>1, <2>3, <2>4, OnlyOne
<1> QED  BY <1>2, <1>3, <1>4 DEF Heeds

(* A handler without a 0MQ socket is no one's concern. *)
LEMMA AddOtherHeeds ==
  ASSUME WakeupInv, NEW h \in FdHandlers \union Timers,
         (h \in FdHandlers /\ AddFdHandler(h)) \/ (h \in Timers /\ AddTimeout(h))
  PROVE  Heeds'
<1>1. /\ h \in Handlers /\ h \notin ZmqHandlers /\ h \notin alive /\ TypeOK
      /\ alive' = alive \union {h} /\ enabled' = enabled \union {h}
      /\ UNCHANGED <<active, sock, expected, nowHandled, cur, pc, caller, replacing>>
      /\ pc \in {"app", "callback"}
  BY HandlersAssumption
  DEF WakeupInv, Handlers, AddFdHandler, AddTimeout, clientUnchanged, ClientRuns
<1>2. OwnSockets'
  BY <1>1 DEF WakeupInv, OwnSockets, TypeOK
<1>3. Handling'
  BY <1>1 DEF WakeupInv, Handling
<1>4. AllHeeded'
  <2>1. UNCHANGED <<ready, signal, used>>
    BY <1>1, Asked DEF AddFdHandler, AddTimeout, Activate
  <2>2. \A g \in Handlers : g # h => status'[g] = status[g]
    BY <1>1, Activated DEF AddFdHandler, AddTimeout
  <2>3. Elsewhere(h, NULL)
    BY <1>1, <2>1, <2>2 DEF Elsewhere, Destroying
  <2>4. \A g \in alive \intersect ZmqHandlers : sock[g] # NULL
    BY DEF WakeupInv, OwnSockets
  <2> QED  BY <1>1, <2>3, <2>4, OnlyOne
<1> QED  BY <1>2, <1>3, <1>4 DEF Heeds

(* Nor is one that is gone. *)
LEMMA DeletedHeeds ==
  ASSUME WakeupInv, NEW h \in Handlers, Delete(h),
         UNCHANGED <<ready, signal, pc, caller, replacing>>,
         active \ {h} \subseteq active',
         nowHandled' = (IF nowHandled = h THEN NULL ELSE nowHandled)
                       \/ (nowHandled = NULL /\ nowHandled' = NULL)
  PROVE  Heeds'
<1>1. /\ TypeOK /\ alive' = alive \ {h} /\ enabled' = enabled \ {h}
      /\ status' = [status EXCEPT ![h] = "WAITING"]
      /\ sock' = [sock EXCEPT ![h] = NULL]
      /\ expected' = [expected EXCEPT ![h] = {}]
      /\ used' = used \ {h} /\ cur' = (IF cur = h THEN NULL ELSE cur)
      /\ h # NULL /\ NULL \notin Sockets
  BY NullIsNoHandler, HandlersAssumption DEF Delete, WakeupInv
<1>2. OwnSockets'
  BY <1>1 DEF WakeupInv, OwnSockets, TypeOK
<1>3. Handling'
  BY <1>1 DEF WakeupInv, Handling
<1>4. AllHeeded'
  <2>1. Elsewhere(h, sock[h])
    BY <1>1 DEF Elsewhere, TypeOK, Destroying
  <2> QED  BY <1>1, <2>1, SocketOf, OnlyOne
<1> QED  BY <1>2, <1>3, <1>4 DEF Heeds

LEMMA RemoveHeeds ==
  ASSUME WakeupInv, NEW h \in Handlers, DoRemoveHandler(h), UNCHANGED <<pc, caller, replacing>>
  PROVE  Heeds'
BY DeletedHeeds DEF DoRemoveHandler, Deactivate

LEMMA DisableHeeds ==
  ASSUME WakeupInv, NEW h \in Handlers, DisableHandler(h)
  PROVE  Heeds'
<1>1. /\ TypeOK /\ h \in enabled /\ enabled' = enabled \ {h} /\ active' = active \ {h}
      /\ nowHandled' = (IF nowHandled = h THEN NULL ELSE nowHandled)
      /\ UNCHANGED <<ready, signal, alive, status, sock, expected, cur, used,
                     pc, caller, replacing>>
  BY DEF DisableHandler, Deactivate, clientUnchanged, WakeupInv
<1>2. OwnSockets'
  BY <1>1, SameSockets DEF WakeupInv, OwnSockets
<1>3. Handling'
  BY <1>1 DEF WakeupInv, Handling, OwnSockets
<1>4. AllHeeded'
  <2>1. Elsewhere(h, sock[h])
    BY <1>1 DEF Elsewhere, Destroying
  <2> QED  BY <1>1, <2>1, SocketOf, OnlyOne
<1> QED  BY <1>2, <1>3, <1>4 DEF Heeds

LEMMA EnableHeeds ==
  ASSUME WakeupInv, "NoSelfEnable" \in Contract, NEW h \in Handlers, EnableHandler(h)
  PROVE  Heeds'
<1>1. /\ TypeOK /\ h \in alive /\ h # cur /\ enabled' = enabled \union {h}
      /\ UNCHANGED <<active, alive, sock, expected, nowHandled, cur, pc, caller, replacing>>
  BY DEF EnableHandler, clientUnchanged, WakeupInv
<1>2. OwnSockets'
  BY <1>1, SameSockets DEF WakeupInv, OwnSockets
<1>3. Handling'
  BY <1>1 DEF WakeupInv, Handling
<1>4. AllHeeded'
  <2>1. /\ \A t \in Sockets : t # sock[h] => ready'[t] = ready[t] /\ signal'[t] = signal[t]
        /\ \A g \in Handlers : g # h => status'[g] = status[g]
        /\ h \in ZmqHandlers /\ sock[h] \in Sockets =>
             signal'[sock[h]] = "quiet" /\ status'[h] = Status(ready'[sock[h]], expected[h])
        /\ used \ {h} \subseteq used'
    BY <1>1, Activated DEF EnableHandler
  <2>2. h \in ZmqHandlers => Heeded(h)'
    BY <1>1, <2>1, SocketOf, Settled
  <2>3. Elsewhere(h, sock[h])
    BY <1>1, <2>1 DEF Elsewhere, Destroying
  <2> QED  BY <2>2, <2>3, SocketOf, OnlyOne
<1> QED  BY <1>2, <1>3, <1>4 DEF Heeds

LEMMA ForceCheckHeeds ==
  ASSUME WakeupInv, NEW h \in Handlers, ForceCheckEvents(h)
  PROVE  Heeds'
<1>1. /\ TypeOK /\ h \in alive /\ status[h] = "WAITING"
      /\ UNCHANGED <<active, alive, enabled, sock, expected, nowHandled, cur,
                     pc, caller, replacing>>
  BY DEF ForceCheckEvents, clientUnchanged, WakeupInv
<1>2. OwnSockets'
  BY <1>1, SameSockets DEF WakeupInv, OwnSockets
<1>3. Handling'
  BY <1>1, SameHandling DEF WakeupInv
<1>4. AllHeeded'
  <2>1. PICK r \in SUBSET Events :
          /\ HasActualEvents(h, sock[h], r)
          /\ \/ r \intersect expected[h] # {} /\ status' = [status EXCEPT ![h] = "TRIGGERED"]
             \/ r \intersect expected[h] = {} /\ UNCHANGED status
    BY DEF ForceCheckEvents
  <2>2. /\ status'[h] = Status(r, expected[h])
        /\ \A g \in Handlers : g # h => status'[g] = status[g]
    BY <1>1, <2>1 DEF TypeOK, Status
  <2>3. h \in ZmqHandlers => Heeded(h)'
    BY <1>1, <2>1, <2>2, Asked, SocketOf, Settled
  <2>4. Elsewhere(h, sock[h])
    BY <1>1, <2>1, <2>2, Asked DEF Elsewhere, Destroying
  <2> QED  BY <2>3, <2>4, SocketOf, OnlyOne
<1> QED  BY <1>2, <1>3, <1>4 DEF Heeds

(* Whoever the client's own use of a socket concerns is excused. *)
LEMMA UseHeeds ==
  ASSUME WakeupInv, NEW s \in Sockets, Use(s)
  PROVE  Heeds'
<1>1. /\ TypeOK
      /\ UNCHANGED <<active, alive, enabled, status, sock, expected, nowHandled, cur,
                     pc, caller, replacing>>
      /\ used' = used \union {h \in alive \ {cur} : sock[h] = s}
      /\ \A t \in Sockets : t # s => ready'[t] = ready[t] /\ signal'[t] = signal[t]
  BY DEF Use, Operate, handlerVars, WakeupInv, TypeOK, BaseTypeOK
<1>2. OwnSockets'
  BY <1>1, SameSockets DEF WakeupInv, OwnSockets
<1>3. Handling'
  BY <1>1, SameHandling DEF WakeupInv
<1>4. ASSUME NEW g \in enabled', g \in ZmqHandlers PROVE Heeded(g)'
  <2>1. g \in enabled /\ g \in alive /\ g \in Handlers /\ g # NULL /\ sock[g] \in Sockets
    BY <1>1, <1>4, NullIsNoHandler, SocketOf DEF WakeupInv, OwnSockets, TypeOK
  <2>2. CASE sock[g] # s
    <3>1. Heeded(g)
      BY <1>4, <2>1, WakeupParts DEF AllHeeded
    <3> QED  BY <1>1, <2>1, <2>2, <3>1, Kept DEF Destroying
  <2>3. CASE sock[g] = s /\ g # cur
    BY <1>1, <2>1, <2>3 DEF Heeded, StillReady, Woken
  <2>4. CASE g = cur
    <3>1. g = nowHandled
      BY <2>1, <2>4 DEF WakeupInv, Handling
    <3> QED  BY <1>1, <3>1 DEF Heeded, StillReady, Woken
  <2> QED  BY <2>2, <2>3, <2>4
<1> QED  BY <1>2, <1>3, <1>4 DEF Heeds, AllHeeded

-----------------------------------------------------------------------------
(* replace_socket *)

LEMMA ReplaceSocketHeeds ==
  ASSUME WakeupInv, "OnePerSocket" \in Contract,
         NEW old \in Sockets, NEW new \in Sockets, ReplaceSocket(old, new)
  PROVE  Heeds'
<1>1. /\ old = new \/ \A h \in alive : sock[h] # new
      /\ pc \in {"app", "callback"} /\ pc' = "replace"
      /\ replacing' = [old |-> old, new |-> new]
      /\ UNCHANGED <<baseVars, handlerVars, nowHandled, caller, cur, used>>
  BY DEF ReplaceSocket, ClientRuns
<1>2. OwnSockets'
  BY <1>1 DEF WakeupInv, OwnSockets, handlerVars
<1>3. Handling'
  BY <1>1 DEF WakeupInv, Handling, handlerVars
<1>4. AllHeeded'
  BY <1>1, Untouched DEF handlerVars, baseVars, Destroying
<1> QED  BY <1>2, <1>3, <1>4 DEF Heeds

(* The one handler of the old socket is asked about the new one. *)
LEMMA ReplaceStepHeeds ==
  ASSUME WakeupInv, ReplaceStep
  PROVE  Heeds'
<1>1. PICK h \in Handlers : h = iter.hi
  BY DEF ReplaceStep, WakeupInv, TypeOK
<1>2. PICK old \in Sockets, new \in Sockets :
        old = replacing.old /\ new = replacing.new
  BY DEF ReplaceStep, WakeupInv, OwnSockets
<1>3. /\ TypeOK /\ pc = "replace" /\ pc' = "replace"
      /\ UNCHANGED <<alive, enabled, expected, nowHandled, caller, cur, replacing>>
  BY DEF ReplaceStep, WakeupInv
<1>4. Handling'
  BY <1>1, <1>3, SameHandling DEF WakeupInv
<1>5. CASE sock[h] # old
  <2>1. UNCHANGED <<baseVars, status, sock, used>>
    BY <1>1, <1>2, <1>5 DEF ReplaceStep
  <2>2. OwnSockets'
    BY <1>1, <1>3, <2>1, SameSockets DEF WakeupInv, OwnSockets
  <2>3. AllHeeded'
    BY <1>1, <1>3, <2>1, Untouched DEF baseVars, Destroying
  <2> QED  BY <1>4, <2>2, <2>3 DEF Heeds
<1>6. CASE sock[h] = old
  <2>1. /\ active' = active \ {h} /\ sock' = [sock EXCEPT ![h] = new]
        /\ Activate(LQ!Dequeue(links, QueueOf(h), h), h, new, expected[h])
    BY <1>1, <1>2, <1>6 DEF ReplaceStep
  <2>2. /\ h \in alive /\ h \in ZmqHandlers /\ old # NULL /\ new # NULL
        /\ \A g \in alive : g # h => sock[g] # new
    <3> USE DEF WakeupInv, OwnSockets
    <3>1. h \in alive /\ h \in ZmqHandlers /\ old # NULL /\ new # NULL
      BY <1>1, <1>2, <1>3, <1>6, HandlersAssumption
    <3>2. CASE old = new
      BY <1>2, <1>6, <3>1, <3>2
    <3>3. CASE old # new
      BY <1>2, <1>3, <1>6, <3>1, <3>3
    <3> QED  BY <3>1, <3>2, <3>3
  <2>3. sock'[h] = new /\ \A g \in Handlers : g # h => sock'[g] = sock[g]
    BY <1>1, <1>3, <2>1 DEF TypeOK
  <2>4. OwnSockets'
    <3> USE DEF WakeupInv, OwnSockets
    <3>1. alive \subseteq Handlers
      BY <1>1, <1>3 DEF TypeOK
    <3>2. \A g \in Handlers : sock'[g] # NULL => g \in alive' \intersect ZmqHandlers
      BY <1>1, <1>3, <2>2, <2>3
    <3>3. \A g \in alive' \intersect ZmqHandlers : sock'[g] # NULL
      BY <1>1, <1>3, <2>2, <2>3, <3>1
    <3>4. \A f, g \in alive' : sock'[f] = sock'[g] /\ sock'[f] # NULL => f = g
      BY <1>1, <1>3, <2>2, <2>3, <3>1
    <3>5. old # new => \A g \in alive' : sock'[g] # old
      BY <1>1, <1>2, <1>3, <1>6, <2>2, <2>3, <3>1
    <3> QED  BY <1>1, <1>2, <1>3, <3>2, <3>3, <3>4, <3>5
  <2>5. /\ \A t \in Sockets : t # new => ready'[t] = ready[t] /\ signal'[t] = signal[t]
        /\ \A g \in Handlers : g # h => status'[g] = status[g]
        /\ signal'[new] = "quiet" /\ status'[h] = Status(ready'[new], expected[h])
        /\ used \ {h} \subseteq used'
    BY <1>1, <1>2, <1>3, <2>1, <2>2, Activated DEF WakeupInv
  <2>6. Heeded(h)'
    BY <1>1, <1>3, <2>3, <2>5, Settled
  <2>7. Elsewhere(h, new)
    BY <1>1, <1>3, <2>1, <2>3, <2>5 DEF Elsewhere, Destroying
  <2>8. AllHeeded'
    BY <2>2, <2>6, <2>7, OnlyOne
  <2> QED  BY <1>4, <2>4, <2>8 DEF Heeds
<1> QED  BY <1>5, <1>6

-----------------------------------------------------------------------------
(* ~LibEvent, and the other steps that only go on *)

LEMMA DestroyHeeds ==
  ASSUME WakeupInv, Destroy \/ DestroyStep \/ DestroyBase \/ FreeHead \/ Freed
  PROVE  Heeds'
<1>1. CASE Destroy \/ Freed
  <2>1. /\ UNCHANGED <<baseVars, handlerVars, nowHandled, caller, cur, used>>
        /\ pc \notin {"callback", "replace"}
        /\ pc' \notin {"callback", "replace"}
        /\ Destroying'
    BY <1>1 DEF Destroy, Freed, Destroying
  <2>2. OwnSockets' /\ Handling'
    BY <2>1 DEF WakeupInv, OwnSockets, Handling, handlerVars
  <2>3. AllHeeded'
    BY <2>1, Untouched DEF baseVars, handlerVars
  <2> QED  BY <2>2, <2>3 DEF Heeds
<1>2. CASE DestroyStep
  BY <1>2, RemoveHeeds DEF DestroyStep, WakeupInv, TypeOK
<1>3. CASE DestroyBase
  <2>1. /\ UNCHANGED <<ready, signal, handlerVars, nowHandled, caller, cur, used>>
        /\ pc = "destroy" /\ pc' = "freeing"
    BY <1>3 DEF DestroyBase
  <2>2. OwnSockets' /\ Handling'
    BY <2>1 DEF WakeupInv, OwnSockets, Handling, handlerVars
  <2>3. ASSUME NEW g \in enabled', g \in ZmqHandlers PROVE Heeded(g)'
    <3>1. StillReady(g)
      BY <2>1, <2>3, WakeupParts DEF AllHeeded, Heeded, handlerVars
    <3> QED  BY <2>1, <3>1 DEF Heeded, StillReady, Destroying, handlerVars
  <2> QED  BY <2>2, <2>3 DEF Heeds, AllHeeded
<1>4. CASE FreeHead
  <2> DEFINE h == links.head[FreeingQueue]
  <2>1. Delete(h) /\ UNCHANGED <<baseVars, nowHandled, pc, caller, replacing>> /\ pc = "freeing"
    BY <1>4 DEF FreeHead
  <2>2. h \in Handlers
    BY <1>4, FreedHandler DEF WakeupInv
  <2>3. nowHandled = NULL
    BY <2>1 DEF WakeupInv, Handling
  <2> QED  BY <2>1, <2>2, <2>3, DeletedHeeds DEF baseVars
<1> QED  BY <1>1, <1>2, <1>3, <1>4

(* Steps of the loop that concern no handler *)
LEMMA LoopHeeds ==
  ASSUME WakeupInv,
         \/ Running \/ LoopEnd \/ LoopEmpty \/ DispatchError \/ ProcessExit
         \/ ProcessDone \/ (\E timeout \in Durations : RunNested(timeout))
         \/ ReplaceEnd \/ ImmediateCallback \/ ImmediateEnd
  PROVE  Heeds'
<1>1. UNCHANGED <<ready, signal, active, alive, enabled, status, sock, expected,
                  used, nowHandled, cur, caller>>
  <2>1. CASE Running \/ (\E timeout \in Durations : RunNested(timeout))
    BY <2>1 DEF Running, Run, RunNested, loopUnchanged, handlerVars
  <2>2. CASE LoopEnd \/ LoopEmpty \/ DispatchError \/ ProcessDone
    BY <2>2
    DEF LoopEnd, LoopEmpty, DispatchError, ProcessDone, loopUnchanged, handlerVars, baseVars
  <2>3. CASE ProcessExit \/ ReplaceEnd
    BY <2>3 DEF ProcessExit, ExitCallback, ReplaceEnd, loopUnchanged, handlerVars, baseVars
  <2>4. CASE ImmediateCallback \/ ImmediateEnd
    BY <2>4 DEF ImmediateCallback, ImmediateEnd, callUnchanged
  <2> QED  BY <2>1, <2>2, <2>3, <2>4
<1>2. /\ pc \notin {"destroy", "freeing", "dead"}
      /\ pc' # "replace"
      /\ pc' = "callback" => pc = "callback" \/ caller # "none"
      /\ pc' # "callback" => pc \notin {"callback", "replace"} \/ caller = "none"
  BY DEF Running, Run, RunNested, LoopEnd, LoopEmpty, DispatchError, ProcessDone,
         ProcessExit, Processing, ReplaceEnd, ImmediateCallback, ImmediateEnd
<1>3. OwnSockets'
  BY <1>1, <1>2, SameSockets DEF WakeupInv, OwnSockets
<1>4. Handling'
  BY <1>1, <1>2 DEF WakeupInv, Handling
<1>5. AllHeeded'
  BY <1>1, <1>2, Untouched DEF Destroying
<1> QED  BY <1>3, <1>4, <1>5 DEF Heeds

(* An edge becomes an active event of the handler it is for. *)
LEMMA DispatchHeeds == ASSUME WakeupInv, Dispatch PROVE Heeds'
<1> DEFINE hot == {h \in registered \intersect ZmqHandlers : signal[sock[h]] = "edge"}
<1>1. /\ TypeOK /\ pc = "loop" /\ pc' = "process"
      /\ UNCHANGED <<ready, alive, enabled, status, sock, expected, used,
                     nowHandled, cur, caller>>
      /\ active \union hot \subseteq active'
      /\ signal' = [s \in Sockets |-> IF \E h \in hot : sock[h] = s
                                      THEN "reported" ELSE signal[s]]
  BY DEF Dispatch, Wait, loopUnchanged, handlerVars, WakeupInv
<1>2. OwnSockets'
  BY <1>1, SameSockets DEF WakeupInv, OwnSockets
<1>3. Handling'
  BY <1>1 DEF WakeupInv, Handling
<1>4. ASSUME NEW g \in enabled', g \in ZmqHandlers PROVE Heeded(g)'
  <2>1. /\ g \in enabled /\ g \in alive /\ g \in Handlers /\ g # NULL
        /\ sock[g] \in Sockets /\ Heeded(g)
    BY <1>1, <1>4, NullIsNoHandler, SocketOf, WakeupParts
    DEF WakeupInv, OwnSockets, TypeOK, AllHeeded
  <2>2. CASE \E h \in hot : sock[h] = sock[g]
    <3>1. PICK h \in hot : sock[h] = sock[g]
      BY <2>2
    <3>2. h = g
      BY <1>4, <2>1, <3>1, SocketOf DEF WakeupInv, OwnSockets, Handlers
    <3>3. g \in active'
      BY <1>1, <3>1, <3>2
    <3> QED  BY <1>1, <2>1, <3>3 DEF Heeded, StillReady, Woken
  <2>3. CASE ~\E h \in hot : sock[h] = sock[g]
    <3>1. signal'[sock[g]] = signal[sock[g]]
      BY <1>1, <2>1, <2>3
    <3> QED  BY <1>1, <2>1, <3>1, Kept DEF Destroying
  <2> QED  BY <2>2, <2>3
<1> QED  BY <1>2, <1>3, <1>4 DEF Heeds, AllHeeded

LEMMA SignalHeeds == ASSUME WakeupInv, NEW s \in Sockets, SignalSocket(s) PROVE Heeds'
<1>1. /\ TypeOK
      /\ UNCHANGED <<ready, active, alive, enabled, status, sock, expected, used,
                     nowHandled, cur, caller, pc, replacing>>
      /\ \A t \in Sockets : signal'[t] \in {signal[t], "edge"}
  BY DEF SignalSocket, Signal, handlerVars, WakeupInv, TypeOK, BaseTypeOK
<1>2. OwnSockets'
  BY <1>1, SameSockets DEF WakeupInv, OwnSockets
<1>3. Handling'
  BY <1>1, SameHandling DEF WakeupInv
<1>4. ASSUME NEW g \in enabled', g \in ZmqHandlers PROVE Heeded(g)'
  <2>1. g \in enabled /\ g \in Handlers /\ sock[g] \in Sockets /\ Heeded(g)
    BY <1>1, <1>4, SocketOf, WakeupParts DEF WakeupInv, OwnSockets, TypeOK, AllHeeded
  <2> QED  BY <1>1, <2>1, Kept DEF Destroying
<1> QED  BY <1>2, <1>3, <1>4 DEF Heeds, AllHeeded

-----------------------------------------------------------------------------
(* The callbacks *)

(* From here on now_handled_ promises to ask the socket again. *)
LEMMA EventCallbackHeeds ==
  ASSUME WakeupInv, NEW h \in Handlers, EventCallback(h)
  PROVE  Heeds'
<1>1. /\ TypeOK /\ pc = "process" /\ pc' = "callback"
      /\ nowHandled' = h /\ cur' = h /\ caller' = "event" /\ active' = active \ {h}
      /\ UNCHANGED <<alive, enabled, status, sock, expected>>
  BY DEF EventCallback, Processing, Fire, CallFunction, callUnchanged, WakeupInv
<1>2. nowHandled = NULL
  BY <1>1 DEF WakeupInv, Handling
<1>3. OwnSockets'
  BY <1>1, SameSockets DEF WakeupInv, OwnSockets
<1>4. Handling'
  BY <1>1 DEF Handling
<1>5. AllHeeded'
  <2>1. /\ \A t \in Sockets : t # sock[h] => ready'[t] = ready[t] /\ signal'[t] = signal[t]
        /\ used \ {h} \subseteq used'
    BY <1>1, Asked DEF EventCallback
  <2>2. Heeded(h)'
    BY <1>1 DEF Heeded, StillReady, Woken
  <2>3. Elsewhere(h, sock[h])
    BY <1>1, <1>2, <2>1 DEF Elsewhere, Destroying
  <2> QED  BY <2>2, <2>3, SocketOf, OnlyOne
<1> QED  BY <1>3, <1>4, <1>5 DEF Heeds

(* What handle_event does last: the status is the answer. *)
LEMMA SettleStatus ==
  ASSUME TypeOK, NEW h \in Handlers, NEW r, NEW u, Settle(h, r, u)
  PROVE  /\ \A g \in Handlers : g # h => status'[g] = status[g]
         /\ h \in ZmqHandlers => status'[h] = Status(r, expected[h])
<1> DEFINE now == Status(r, expected[h])
<1>1. \/ (h \notin ZmqHandlers \/ status[h] = now) /\ UNCHANGED status
      \/ h \in ZmqHandlers /\ status' = [status EXCEPT ![h] = now]
  BY DEF Settle, Status
<1> QED  BY <1>1 DEF TypeOK

LEMMA SettleHeeds ==
  ASSUME WakeupInv, NEW h \in Handlers, NEW r, NEW u,
         HasActualEvents(h, sock[h], r), Settle(h, r, u),
         UNCHANGED <<enabled, sock, expected>>,
         active \ {h} \subseteq active', nowHandled \in {h, NULL, nowHandled'},
         ~Destroying
  PROVE  AllHeeded'
<1>1. /\ TypeOK
      /\ \A g \in Handlers : g # h => status'[g] = status[g]
      /\ h \in ZmqHandlers => status'[h] = Status(r, expected[h])
  BY SettleStatus DEF WakeupInv
<1>2. /\ \A t \in Sockets : t # sock[h] => ready'[t] = ready[t] /\ signal'[t] = signal[t]
      /\ h \in ZmqHandlers /\ sock[h] \in Sockets =>
           ready'[sock[h]] = r /\ signal'[sock[h]] = "quiet"
      /\ used \ {h} \subseteq used'
  BY <1>1, Asked
<1>3. ASSUME h \in enabled' \intersect ZmqHandlers PROVE Heeded(h)'
  <2>1. sock[h] \in Sockets
    BY <1>3, SocketOf DEF WakeupInv, OwnSockets
  <2> QED  BY <1>1, <1>2, <1>3, <2>1, Settled
<1>4. Elsewhere(h, sock[h])
  BY <1>1, <1>2 DEF Elsewhere
<1> QED  BY <1>3, <1>4, SocketOf, OnlyOne

LEMMA EventIgnoredHeeds ==
  ASSUME WakeupInv, NEW h \in Handlers, EventIgnored(h)
  PROVE  Heeds'
<1>1. /\ TypeOK /\ pc = "process" /\ active' = active \ {h}
      /\ UNCHANGED <<pc, caller, nowHandled, cur, alive, enabled, sock, expected>>
  BY DEF EventIgnored, Processing, Fire, callUnchanged, WakeupInv
<1>2. OwnSockets'
  BY <1>1, SameSockets DEF WakeupInv, OwnSockets
<1>3. Handling'
  BY <1>1, SameHandling DEF WakeupInv
<1>4. PICK r \in SUBSET Events : HasActualEvents(h, sock[h], r) /\ Settle(h, r, TRUE)
  BY DEF EventIgnored
<1>5. AllHeeded'
  BY <1>1, <1>4, SettleHeeds DEF Destroying
<1> QED  BY <1>2, <1>3, <1>5 DEF Heeds

LEMMA ImmediateStepHeeds == ASSUME WakeupInv, ImmediateStep PROVE Heeds'
<1>1. /\ pc = "immediate" /\ pc' = "callback" /\ caller' = "immediate" /\ cur' = nowHandled'
      /\ UNCHANGED <<ready, signal, active, alive, enabled, status, sock, expected, used>>
  BY DEF ImmediateStep, CallFunction, callUnchanged
<1>2. nowHandled = NULL
  BY <1>1 DEF WakeupInv, Handling
<1>3. OwnSockets'
  BY <1>1, SameSockets DEF WakeupInv, OwnSockets
<1>4. Handling'
  BY <1>1 DEF Handling
<1>5. AllHeeded'
  BY <1>1, <1>2, Untouched DEF Destroying
<1> QED  BY <1>3, <1>4, <1>5 DEF Heeds

(* The promise is kept, unless the handler is gone or disabled. *)
LEMMA CallbackReturnsHeeds ==
  ASSUME WakeupInv, NEW goOn \in BOOLEAN, CallbackReturns(goOn)
  PROVE  Heeds'
<1>1. /\ TypeOK /\ pc = "callback" /\ pc' \in {"process", "immediate"}
      /\ nowHandled' = NULL /\ cur' = NULL /\ caller' = "none"
      /\ UNCHANGED <<active, alive, enabled, sock, expected>>
  BY DEF CallbackReturns, WakeupInv
<1>2. OwnSockets'
  BY <1>1, SameSockets DEF WakeupInv, OwnSockets
<1>3. Handling'
  BY <1>1 DEF Handling
<1>4. CASE nowHandled = NULL
  <2>1. UNCHANGED <<ready, signal, used, status>>
    BY <1>4 DEF CallbackReturns
  <2>2. AllHeeded'
    BY <1>1, <1>4, <2>1, Untouched DEF Destroying
  <2> QED  BY <1>2, <1>3, <2>2 DEF Heeds
<1>5. CASE nowHandled # NULL
  <2>1. PICK h \in Handlers : h = nowHandled
    BY <1>1, <1>5 DEF TypeOK
  <2>2. PICK r \in SUBSET Events :
          HasActualEvents(h, sock[h], r) /\ Settle(h, r, caller = "event")
    BY <1>5, <2>1 DEF CallbackReturns
  <2>3. PICK u \in BOOLEAN : Settle(h, r, u)
    BY <2>2
  <2>4. AllHeeded'
    BY <1>1, <2>1, <2>2, <2>3, SettleHeeds DEF Destroying
  <2> QED  BY <1>2, <1>3, <2>4 DEF Heeds
<1> QED  BY <1>4, <1>5

-----------------------------------------------------------------------------
(* All together *)

LEMMA WakeupInit == Init => WakeupInv
<1> SUFFICES ASSUME Init PROVE WakeupInv
  OBVIOUS
<1>1. TypeOK
  BY InitType
<1>2. alive = {} /\ enabled = {} /\ pc = "app" /\ nowHandled = NULL /\ cur = NULL
      /\ caller = "none" /\ \A h \in Handlers : sock[h] = NULL
  BY DEF Init
<1> QED  BY <1>1, <1>2, WakeupParts DEF OwnSockets, Handling, AllHeeded

LEMMA ClientHeeds ==
  ASSUME WakeupInv, {"OnePerSocket", "NoSelfEnable"} \subseteq Contract, Client
  PROVE  Heeds'
<1>1. ASSUME NEW h \in ZmqHandlers, NEW s \in Sockets, NEW m \in Masks, AddZmqHandler(h, s, m)
      PROVE  Heeds'
  BY <1>1, AddZmqHeeds
<1>2. ASSUME NEW h \in Handlers, RemoveHandler(h) PROVE Heeds'
  BY <1>2, RemoveHeeds DEF RemoveHandler, clientUnchanged
<1>3. ASSUME NEW h \in Handlers, DisableHandler(h) \/ EnableHandler(h) \/ ForceCheckEvents(h)
      PROVE  Heeds'
  BY <1>3, DisableHeeds, EnableHeeds, ForceCheckHeeds
<1>4. ASSUME NEW s \in Sockets, Use(s) PROVE Heeds'
  BY <1>4, UseHeeds
<1>5. ASSUME NEW old \in Sockets, NEW new \in Sockets, ReplaceSocket(old, new) PROVE Heeds'
  BY <1>5, ReplaceSocketHeeds
<1>6. CASE (\E h \in FdHandlers : AddFdHandler(h)) \/ (\E h \in Timers : AddTimeout(h))
  BY <1>6, AddOtherHeeds
<1>7. CASE (\E timeout \in Durations : RunNested(timeout)) \/ Destroy
  BY <1>7, LoopHeeds, DestroyHeeds
<1> QED  BY <1>1, <1>2, <1>3, <1>4, <1>5, <1>6, <1>7 DEF Client

LEMMA WakeupNext ==
  ASSUME WakeupInv, {"OnePerSocket", "NoSelfEnable"} \subseteq Contract, [Next]_vars
  PROVE  WakeupInv'
<1>1. ASSUME Reactor PROVE Heeds'
  <2>1. ASSUME NEW h \in Handlers, EventCallback(h) \/ EventIgnored(h) PROVE Heeds'
    BY <2>1, EventCallbackHeeds, EventIgnoredHeeds
  <2>2. ASSUME NEW goOn \in BOOLEAN, CallbackReturns(goOn) PROVE Heeds'
    BY <2>2, CallbackReturnsHeeds
  <2> QED
    BY <1>1, <2>1, <2>2, ReplaceStepHeeds, DestroyHeeds, LoopHeeds, ImmediateStepHeeds
    DEF Reactor
<1>2. CASE UNCHANGED vars
  BY <1>2 DEF vars, baseVars, handlerVars, WakeupInv, TypeOK, BaseTypeOK, OwnSockets,
    Handling, NoLostWakeup, TriggeredIsReady, Destroying
<1>3. CASE ~UNCHANGED vars
  <2>1. Heeds'
    BY <1>1, <1>3, ClientHeeds, LoopHeeds, DispatchHeeds, SignalHeeds DEF Next
  <2>2. TypeOK'
    BY NextType DEF WakeupInv
  <2> QED  BY <2>1, <2>2, WakeupPartsNext DEF Heeds
<1> QED  BY <1>2, <1>3

(* If a socket has one handler, and callbacks do not re-enable their own,  *)
(* then no command left for a socket by another thread is forgotten: the   *)
(* handler of every ready socket is TRIGGERED or about to be asked about.  *)
THEOREM WakeupsKept ==
  ASSUME {"OnePerSocket", "NoSelfEnable"} \subseteq Contract
  PROVE  Spec => []NoLostWakeup
<1>1. WakeupInv /\ [Next]_vars => WakeupInv'
  BY WakeupNext
<1>2. WakeupInv => NoLostWakeup
  BY DEF WakeupInv
<1> QED  BY <1>1, <1>2, WakeupInit, PTL DEF Spec

(* Under the same rules immediate_callback may call a TRIGGERED handler    *)
(* without asking: its socket is still ready, if the client left it alone. *)
THEOREM TriggeredKept ==
  ASSUME {"OnePerSocket", "NoSelfEnable"} \subseteq Contract
  PROVE  Spec => []TriggeredIsReady
<1>1. WakeupInv /\ [Next]_vars => WakeupInv'
  BY WakeupNext
<1>2. WakeupInv => TriggeredIsReady
  BY DEF WakeupInv
<1> QED  BY <1>1, <1>2, WakeupInit, PTL DEF Spec

-----------------------------------------------------------------------------
(* The result of a run *)

OwnResult ==
  /\ pollResult = "CANCELLED" => outcome = "cancelled"
  /\ pollResult = "OK" => outcome # "none"

LEMMA ResultNext == ASSUME OwnResult, [Next]_vars PROVE OwnResult'
<1>1. CASE Running
  BY <1>1 DEF Running, Run, ResetResult, OwnResult
<1>2. ASSUME NEW timeout, RunNested(timeout) PROVE OwnResult'
  BY <1>2 DEF RunNested, OwnResult
<1>3. ASSUME NEW goOn \in BOOLEAN, CallbackReturns(goOn) PROVE OwnResult'
  BY <1>3 DEF CallbackReturns, OwnResult
<1>4. CASE LoopEmpty \/ DispatchError
  BY <1>4 DEF LoopEmpty, DispatchError, OwnResult
<1>5. CASE UNCHANGED <<pollResult, outcome>>
  BY <1>5 DEF OwnResult
<1>6. CASE Client
  BY <1>2, <1>5, <1>6
  DEF Client, AddZmqHandler, AddFdHandler, AddTimeout, RemoveHandler, DisableHandler,
      EnableHandler, ForceCheckEvents, Use, ReplaceSocket, Destroy, clientUnchanged
<1>7. CASE Reactor
  <2>1. ASSUME NEW h, EventCallback(h) \/ EventIgnored(h) PROVE OwnResult'
    BY <1>5, <2>1 DEF EventCallback, EventIgnored
  <2> QED
    BY <1>3, <1>4, <1>5, <1>7, <2>1
    DEF Reactor, ReplaceStep, ReplaceEnd, DestroyStep, DestroyBase, FreeHead, Freed,
        LoopEnd, ProcessExit, ProcessDone, ImmediateCallback, ImmediateStep, ImmediateEnd
<1> QED
  BY <1>1, <1>4, <1>5, <1>6, <1>7 DEF Next, Dispatch, SignalSocket, vars

(* The code of a run tells of its own callbacks only: do_run resets the    *)
(* field, so that no CANCELLED or OK of an earlier run comes back.         *)
THEOREM ResultCorrect == Spec => []ResultOfThisRun
<1>1. Init => OwnResult
  BY DEF Init, OwnResult
<1>2. OwnResult => ResultOfThisRun
  BY DEF OwnResult, ResultOfThisRun
<1>3. OwnResult /\ [Next]_vars => OwnResult'
  BY ResultNext
<1> QED  BY <1>1, <1>2, <1>3, PTL DEF Spec
=============================================================================
