------------------------ MODULE AtomicLookupOrCreate ------------------------
(***************************************************************************)
(* What cpl_lookup_or_create_object promises its callers: between the call *)
(* and the return there is one indivisible step that either hands out an   *)
(* object that matches the request, or creates the object because none     *)
(* matched, or fails.  A caller that fails may leave a new object behind   *)
(* (the row was inserted, its id could not be read).                       *)
(***************************************************************************)
EXTENDS Naturals

CONSTANTS
  Callers,   \* the client processes
  Names,     \* the <<prefix, name>> pairs
  Types,     \* the object types of cpl.h
  AnyType,   \* CPL_NONE passed as the type
  NoRequest, \* a process that is not inside a call
  NoAnswer,  \* a call that has not taken effect yet
  Error,     \* every negative return code
  MaxId      \* bound: the largest object id the database hands out

Request == [name : Names, type : Types \cup {AnyType}]

Object == [id : 1..MaxId, name : Names, type : Types, maker : Callers]

\* The rows the lookup of a request selects.
Matches(objs, r) ==
  {o \in objs : o.name = r.name /\ r.type \in {o.type, AnyType}}

VARIABLES
  objects,   \* the objects the callers have created
  request,   \* request[p]: what p asked for
  answer     \* answer[p]: NoAnswer, Error, or the id p is about to return

vars == <<objects, request, answer>>

Init ==
  /\ objects = {}
  /\ request = [p \in Callers |-> NoRequest]
  /\ answer = [p \in Callers |-> NoAnswer]

Pending(p) == request[p] # NoRequest /\ answer[p] = NoAnswer

Answer(p, a) == answer' = [answer EXCEPT ![p] = a]

Call(p) ==
  /\ request[p] = NoRequest
  /\ \E r \in Request : request' = [request EXCEPT ![p] = r]
  /\ UNCHANGED <<objects, answer>>

Find(p) ==
  /\ Pending(p)
  /\ \E o \in Matches(objects, request[p]) : Answer(p, o.id)
  /\ UNCHANGED <<objects, request>>

\* A new row, which only a request that nothing matches may add.
Create(p, o) ==
  /\ Matches(objects, request[p]) = {}
  /\ o.name = request[p].name
  /\ o.type = request[p].type
  /\ o.maker = p
  /\ \A other \in objects : other.id # o.id
  /\ objects' = objects \cup {o}

Make(p) ==
  /\ Pending(p)
  /\ \E o \in Object : Create(p, o) /\ (Answer(p, o.id) \/ Answer(p, Error))
  /\ UNCHANGED request

Fail(p) ==
  /\ Pending(p)
  /\ Answer(p, Error)
  /\ UNCHANGED <<objects, request>>

Return(p) ==
  /\ request[p] # NoRequest /\ answer[p] # NoAnswer
  /\ request' = [request EXCEPT ![p] = NoRequest]
  /\ answer' = [answer EXCEPT ![p] = NoAnswer]
  /\ UNCHANGED objects

\* The process dies inside the call; its INSERT may still be carried out.
Die(p) ==
  /\ request[p] # NoRequest
  /\ request' = [request EXCEPT ![p] = NoRequest]
  /\ answer' = [answer EXCEPT ![p] = NoAnswer]
  /\ \/ UNCHANGED objects
     \/ Pending(p) /\ \E o \in Object : Create(p, o)

Next ==
  \E p \in Callers :
    Call(p) \/ Find(p) \/ Make(p) \/ Fail(p) \/ Return(p) \/ Die(p)

Spec == Init /\ [][Next]_vars

=============================================================================
