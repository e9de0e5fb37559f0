---------------------------- MODULE LevelReactor ----------------------------
(***************************************************************************)
(* What the LibEvent reactor promises its client, whatever it takes to     *)
(* keep it over edge-triggered descriptors: a run calls the functions of   *)
(* enabled handlers while they are due, one at a time, and returns a       *)
(* result that its callbacks justify.                                      *)
(***************************************************************************)
CONSTANTS
  Handlers,  (* the handlers there can be                     *)
  Timers,    (* ... those that fire after a time              *)
  OneShot,   (* ... and among these, those that fire once     *)
  NULL

VARIABLES
  handlers,  (* the handlers that exist                                  *)
  enabled,   (* ... that are enabled                                     *)
  due,       (* ... whose socket is ready, or may be after it was used   *)
  spent,     (* the timers that have fired for the last time             *)
  phase,     (* "idle", "run", "function" or "over"                      *)
  current,   (* the handler whose function runs, while it exists         *)
  outcome,   (* what the functions called by this run have returned      *)
  result     (* what the last run has returned, "none" while it runs     *)

vars == <<handlers, enabled, due, spent, phase, current, outcome, result>>

Init ==
  /\ handlers = {} /\ enabled = {} /\ due = {} /\ spent = {}
  /\ phase = "idle" /\ current = NULL
  /\ outcome = "unrun" /\ result = "OK"

(* Any socket may become ready, or stop to be, at any time. *)
DueChanges == due' \subseteq handlers'

-----------------------------------------------------------------------------
(* The client, between runs or in a function *)

tableUnchanged == <<phase, outcome, result>>

Register(h) ==
  /\ phase \in {"idle", "function"}
  /\ h \notin handlers
  /\ handlers' = handlers \union {h} /\ enabled' = enabled \union {h}
  /\ UNCHANGED <<spent, current, tableUnchanged>>

Remove(h) ==
  /\ phase \in {"idle", "function", "over"}
  /\ h \in handlers
  /\ handlers' = handlers \ {h} /\ enabled' = enabled \ {h} /\ spent' = spent \ {h}
  /\ current' = IF current = h THEN NULL ELSE current
  /\ UNCHANGED tableUnchanged

(* A timer that is disabled does not fire again, even if it is enabled. *)
Disable(h) ==
  /\ phase \in {"idle", "function"}
  /\ h \in enabled
  /\ enabled' = enabled \ {h}
  /\ spent' = spent \union ({h} \intersect Timers)
  /\ UNCHANGED <<handlers, current, tableUnchanged>>

Enable(h) ==
  /\ phase \in {"idle", "function"}
  /\ h \in handlers \ enabled
  /\ enabled' = enabled \union {h}
  /\ UNCHANGED <<handlers, spent, current, tableUnchanged>>

-----------------------------------------------------------------------------
(* A run *)

Start ==
  /\ phase = "idle"
  /\ phase' = "run" /\ outcome' = "none" /\ result' = "none"
  /\ UNCHANGED <<handlers, enabled, spent, current>>

(* The function of h is called, its socket being ready now. *)
Call(h) ==
  /\ phase = "run"
  /\ h \in enabled \intersect due'
  /\ h \notin spent
  /\ phase' = "function" /\ current' = h
  /\ spent' = spent \union ({h} \intersect OneShot)
  /\ UNCHANGED <<handlers, enabled, outcome, result>>

Return(goOn) ==
  /\ phase = "function"
  /\ phase' = "run" /\ current' = NULL
  /\ outcome' = IF goOn /\ outcome # "cancelled" THEN "called" ELSE "cancelled"
  /\ UNCHANGED <<handlers, enabled, spent, result>>

(* The run returns CANCELLED only if a function has returned false, and OK *)
(* only if one has been called.                                            *)
End ==
  /\ phase = "run"
  /\ phase' = "idle"
  /\ result' \in {"OK", "NONE_MATCHED", "CANCELLED", "ERROR"}
  /\ result' = "OK" => outcome # "none"
  /\ result' = "CANCELLED" => outcome = "cancelled"
  /\ UNCHANGED <<handlers, enabled, spent, current, outcome>>

-----------------------------------------------------------------------------
(* The end: no timer fires any more, and every handler is removed. *)
Destroy ==
  /\ phase = "idle"
  /\ phase' = "over"
  /\ UNCHANGED <<handlers, enabled, spent, current, outcome, result>>

StopTimers ==
  /\ phase = "over"
  /\ spent' = handlers \intersect Timers
  /\ UNCHANGED <<handlers, enabled, phase, current, outcome, result>>

Next ==
  /\ DueChanges
  /\ \/ \E h \in Handlers : Register(h) \/ Remove(h) \/ Disable(h) \/ Enable(h) \/ Call(h)
     \/ \E goOn \in BOOLEAN : Return(goOn)
     \/ Start \/ End \/ Destroy \/ StopTimers
     \/ UNCHANGED <<handlers, enabled, spent, phase, current, outcome, result>>

Spec == Init /\ [][Next]_vars
=============================================================================
