---------------------------- MODULE PropertyMap ----------------------------
(***************************************************************************)
(* What the tables of properties and prefixes promise: a map in which the  *)
(* first value of a key stays.  A call that began when its key had no      *)
(* value may give it one; every other call leaves the map as it is, and is *)
(* answered CPL_OK all the same.  Calls that begin together on a new key   *)
(* may each add their value: no order between them is kept.                *)
(***************************************************************************)

CONSTANTS
  Writers,   \* the callers of cpl_add_*_property and cpl_add_prefix
  Keys,      \* <<id, name, kind>>
  Values,    \* the values
  NoRequest  \* a writer that is not inside a call

VARIABLES
  values,   \* what the keys have: a set of [key, value]
  request,  \* request[w]: the key and the value of w's call
  fresh,    \* fresh[w]: had the key no value when the call began?
  answer    \* answer[w]: what w's last call returned

vars == <<values, request, fresh, answer>>

Request == [key : Keys, value : Values]

HasValue(k) == \E v \in values : v.key = k

Init ==
  /\ values = {}
  /\ request = [w \in Writers |-> NoRequest]
  /\ fresh = [w \in Writers |-> FALSE]
  /\ answer = [w \in Writers |-> "none"]

Begin(w) ==
  /\ request[w] = NoRequest
  /\ request'[w] \in Request
  /\ request' = [request EXCEPT ![w] = request'[w]]
  /\ fresh' = [fresh EXCEPT ![w] = ~HasValue(request'[w].key)]
  /\ UNCHANGED <<values, answer>>

\* The value of a call becomes one of its key's.
Take(w) ==
  /\ request[w] # NoRequest
  /\ fresh[w]
  /\ values' = values \cup {request[w]}
  /\ UNCHANGED <<request, fresh, answer>>

\* CPL_OK is only said of a key that has a value.
Return(w) ==
  /\ request[w] # NoRequest
  /\ \/ /\ HasValue(request[w].key)
        /\ answer' = [answer EXCEPT ![w] = "ok"]
     \/ answer' = [answer EXCEPT ![w] = "error"]
  /\ request' = [request EXCEPT ![w] = NoRequest]
  /\ fresh' = [fresh EXCEPT ![w] = FALSE]
  /\ UNCHANGED values

Next == \E w \in Writers : Begin(w) \/ Take(w) \/ Return(w)

Spec == Init /\ [][Next]_vars

=============================================================================
