--------------------------- MODULE HandlerTable ----------------------------
(***************************************************************************)
(* What a Dynamic reactor promises of its handlers: it is one list of      *)
(* entries, each a function with the socket and the events it is for.      *)
(***************************************************************************)
EXTENDS Integers, SequencesExt

CONSTANTS Sockets, Events, Functions, NULL

VARIABLE table

Blank == [socket |-> NULL, events |-> {}, fun |-> NULL]

Init == table = << >>

(* A new handler comes last. *)
Add == \E s \in Sockets \union {NULL}, m \in SUBSET Events, f \in Functions :
         table' = Append(table, [socket |-> s, events |-> m, fun |-> f])

(* The first handler of a socket gets other events and another function. *)
Replace ==
  \E i \in DOMAIN table, m \in SUBSET Events, f \in Functions :
    /\ table[i].socket # NULL
    /\ \A j \in 1 .. i - 1 : table[j].socket # table[i].socket
    /\ table' = [table EXCEPT ![i].events = m, ![i].fun = f]

(* The last handlers are removed, or blank ones are appended. *)
Truncate == \E n \in 0 .. Len(table) : table' = SubSeq(table, 1, n)
Extend ==
  /\ IsPrefix(table, table')
  /\ \A i \in Len(table) + 1 .. Len(table') : table'[i] = Blank

(* All handlers of one socket are moved to another. *)
Redirect ==
  \E old, new \in Sockets :
    table' = [i \in DOMAIN table |->
                IF table[i].socket = old THEN [table[i] EXCEPT !.socket = new]
                                         ELSE table[i]]

Next == Add \/ Replace \/ Truncate \/ Extend \/ Redirect

Spec == Init /\ [][Next]_table
=============================================================================
