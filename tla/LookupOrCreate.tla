--------------------------- MODULE LookupOrCreate ---------------------------
(***************************************************************************)
(* cpl_lookup_or_create_object, step by step.                              *)
(*                                                                         *)
(* Every attached process opens the same named POSIX semaphore (initial    *)
(* value 1) and brackets "look the object up; create it if that answered   *)
(* CPL_E_NOT_FOUND" with a wait and a post.  The lookup and the creation   *)
(* are separate SQL statements in autocommit mode, each of which may fail. *)
(* Nothing undoes the wait of a process that dies.                         *)
(*                                                                         *)
(* The environment modelled: clients that die at any point and start       *)
(* again, statements that fail with or without effect, a connection that   *)
(* breaks after the server has committed (LinkFails), so that              *)
(* SQL_EXECUTE_EXT reconnects and executes the INSERT again, and clients   *)
(* that call cpl_create_object directly, without the semaphore (Creators). *)
(***************************************************************************)
EXTENDS Naturals, FiniteSets

CONSTANTS
  Callers,    \* processes that call cpl_lookup_or_create_object
  Creators,   \* processes that call cpl_create_object
  Names,      \* the <<prefix, name>> pairs
  Types,      \* the object types CPL_ENSURE_O_TYPE lets through
  AbortTypes, \* the types the backend's assertion rejects (debug builds)
  AnyType,    \* CPL_NONE passed as the type
  NoRequest,  \* a process that is not inside a call
  NoAnswer,   \* a call whose outcome is not decided yet
  Error,      \* every negative return code
  Retries,    \* retries_left of SQL_START
  LinkFails,  \* can the link break between a commit and its reply?
  MaxId       \* bound: the largest object id the database hands out

ASSUME ConstantsAssumption ==
  /\ Callers \cap Creators = {}
  /\ AbortTypes \subseteq Types
  /\ AnyType \notin Types
  /\ NoRequest \notin [name : Names, type : Types \cup {AnyType}]
  /\ NoAnswer \notin 1..MaxId /\ Error \notin 1..MaxId /\ Error # NoAnswer
  /\ Retries \in Nat
  /\ LinkFails \in BOOLEAN
  /\ MaxId \in Nat

VARIABLES
  objects,     \* the rows of cpl_objects
  nextId,      \* the sequence that numbers them
  sem,         \* the value of the named semaphore
  pc,          \* pc[p]: where p is in cpl_lookup_or_create_object
  request,     \* request[p]: the arguments of p's call
  answer,      \* answer[p]: NoAnswer, Error, or the id in *out_id
  retriesLeft, \* retriesLeft[p]: reconnections left to p's INSERT
  leaked,      \* history: permits held by processes that died
  answered     \* history: the successful answers given so far

vars ==
  <<objects, nextId, sem, pc, request, answer, retriesLeft, leaked, answered>>

Request == [name : Names, type : Types \cup {AnyType}]

Object ==
  [id : 1..MaxId, name : Names, type : Types, maker : Callers \cup Creators]

\* The rows the lookup of a request selects (lookup_object_t, lookup_object_nt).
Matches(objs, r) ==
  {o \in objs : o.name = r.name /\ r.type \in {o.type, AnyType}}

\* Faulty variant of Latest: the sort order dropped, the first row wins.
Oldest(objs, o) == \A other \in objs : o.id <= other.id

\* ORDER BY creation_time DESC LIMIT 1: ids follow the order of creation.
Latest(objs, o) == \A other \in objs : other.id <= o.id

Init ==
  /\ objects = {}
  /\ nextId = 1
  /\ sem = 1
  /\ pc = [p \in Callers |-> "idle"]
  /\ request = [p \in Callers |-> NoRequest]
  /\ answer = [p \in Callers |-> NoAnswer]
  /\ retriesLeft = [p \in Callers |-> 0]
  /\ leaked = 0
  /\ answered = {}

-----------------------------------------------------------------------------
(* The steps of one call.  What is marked "faulty variant" is not part of  *)
(* the specification: it is there to see a property fail.                  *)

InSection(p) == pc[p] \in {"lookup", "create", "post"}

Goto(p, from, to) == pc[p] = from /\ pc' = [pc EXCEPT ![p] = to]

\* The call's outcome is decided and control is at the label out.
Finish(p, from, a) ==
  /\ Goto(p, from, "post")
  /\ answer' = [answer EXCEPT ![p] = a]
  /\ retriesLeft' = [retriesLeft EXCEPT ![p] = 0]

Call(p) ==
  /\ Goto(p, "idle", "wait")
  /\ \E r \in Request : request' = [request EXCEPT ![p] = r]
  /\ UNCHANGED
       <<objects, nextId, sem, answer, retriesLeft, leaked, answered>>

\* Faulty variant of SemWait: the wait is on a copy of the semaphore.
SemWaitOnCopy(p) ==
  /\ Goto(p, "wait", "lookup")
  /\ sem > 0
  /\ UNCHANGED <<objects, nextId, sem, request, answer, retriesLeft, leaked,
                 answered>>

SemWait(p) ==
  /\ Goto(p, "wait", "lookup")
  /\ sem > 0
  /\ sem' = sem - 1
  /\ UNCHANGED
       <<objects, nextId, request, answer, retriesLeft, leaked, answered>>

\* Faulty variant of LookupFinds: "return r" in the place of "goto out".
LookupFindsNoPost(p) ==
  /\ Goto(p, "lookup", "idle")
  /\ Matches(objects, request[p]) # {}
  /\ request' = [request EXCEPT ![p] = NoRequest]
  /\ UNCHANGED
       <<objects, nextId, sem, answer, retriesLeft, leaked, answered>>

LookupFinds(p) ==
  /\ pc[p] = "lookup"
  /\ \E o \in Matches(objects, request[p]) :
       /\ Latest(Matches(objects, request[p]), o)
       /\ Finish(p, "lookup", o.id)
  /\ UNCHANGED <<objects, nextId, sem, request, leaked, answered>>

\* Faulty variant of LookupMisses: the semaphore guards the lookup only.
LookupMissesAndPosts(p) ==
  /\ Goto(p, "lookup", "create")
  /\ Matches(objects, request[p]) = {}
  /\ sem' = sem + 1
  /\ retriesLeft' = [retriesLeft EXCEPT ![p] = Retries]
  /\ UNCHANGED <<objects, nextId, request, answer, leaked, answered>>

LookupMisses(p) ==
  /\ Goto(p, "lookup", "create")
  /\ Matches(objects, request[p]) = {}
  /\ retriesLeft' = [retriesLeft EXCEPT ![p] = Retries]
  /\ UNCHANGED <<objects, nextId, sem, request, answer, leaked, answered>>

\* Faulty variant of LookupFails: any lookup error leads to the creation.
LookupFailsIntoCreate(p) ==
  /\ Goto(p, "lookup", "create")
  /\ UNCHANGED <<objects, nextId, sem, request, answer, retriesLeft, leaked,
                 answered>>

\* The SELECT fails: any code but CPL_E_NOT_FOUND ends the call.
LookupFails(p) ==
  /\ Finish(p, "lookup", Error)
  /\ UNCHANGED <<objects, nextId, sem, request, leaked, answered>>

\* cpl_create_object refuses CPL_NONE as the type: CPL_E_INVALID_ARGUMENT.
RejectType(p) ==
  /\ Finish(p, "create", Error)
  /\ request[p].type = AnyType
  /\ UNCHANGED <<objects, nextId, sem, request, leaked, answered>>

\* One execution of INSERT ... RETURNING id, committed at once.
InsertRow(n, t, maker) ==
  /\ nextId <= MaxId
  /\ t \in Types \ AbortTypes
  /\ objects' = objects \cup
       {[id |-> nextId, name |-> n, type |-> t, maker |-> maker]}
  /\ nextId' = nextId + 1

InsertFor(p) == InsertRow(request[p].name, request[p].type, p)

Insert(p) ==
  /\ Finish(p, "create", nextId)
  /\ InsertFor(p)
  /\ UNCHANGED <<sem, request, leaked, answered>>

\* The INSERT fails, or its row is there but the id cannot be fetched.
InsertFails(p) ==
  /\ Finish(p, "create", Error)
  /\ request[p].type \in Types \ AbortTypes
  /\ InsertFor(p) \/ UNCHANGED <<objects, nextId>>
  /\ UNCHANGED <<sem, request, leaked, answered>>

\* Faulty variant of LoseReply: retries_left is not counted down.
LoseReplyForever(p) ==
  /\ LinkFails
  /\ pc[p] = "create"
  /\ request[p].type \in Types \ AbortTypes
  /\ retriesLeft' = [retriesLeft EXCEPT ![p] = (@ + 1) % 2]
  /\ InsertFor(p) \/ UNCHANGED <<objects, nextId>>
  /\ UNCHANGED <<sem, pc, request, answer, leaked, answered>>

\* SQLSTATE 08S01: reconnect and goto retry, with the row inserted or not.
\* The reconnection frees the statement the retry uses: the retry fails
\* (InsertFails), or runs where the driver manager reuses the address.
LoseReply(p) ==
  /\ LinkFails
  /\ pc[p] = "create"
  /\ request[p].type \in Types \ AbortTypes
  /\ retriesLeft[p] > 0
  /\ retriesLeft' = [retriesLeft EXCEPT ![p] = @ - 1]
  /\ InsertFor(p) \/ UNCHANGED <<objects, nextId>>
  /\ UNCHANGED <<sem, pc, request, answer, leaked, answered>>

\* Faulty variants of SemPost: one post too many, and none.
SemPostTwice == sem' = sem + 2
SemNoPost == UNCHANGED sem

SemPost == sem' = sem + 1

Return(p) ==
  /\ Goto(p, "post", "idle")
  /\ SemPost
  /\ request' = [request EXCEPT ![p] = NoRequest]
  /\ answer' = [answer EXCEPT ![p] = NoAnswer]
  /\ answered' =
       IF answer[p] = Error
       THEN answered
       ELSE answered \cup {[request |-> request[p], id |-> answer[p]]}
  /\ UNCHANGED <<objects, nextId, retriesLeft, leaked>>

-----------------------------------------------------------------------------
(* The environment.                                                        *)

\* p's process ends inside the call: it is killed, sem_wait() is interrupted
\* and aborts, or the backend's assertion fails.  A new process takes its
\* place.  The statement it had sent may still be executed.
Die(p) ==
  /\ pc[p] # "idle"
  /\ pc' = [pc EXCEPT ![p] = "idle"]
  /\ request' = [request EXCEPT ![p] = NoRequest]
  /\ answer' = [answer EXCEPT ![p] = NoAnswer]
  /\ leaked' = IF InSection(p) THEN leaked + 1 ELSE leaked
  /\ \/ pc[p] = "create" /\ InsertFor(p)
     \/ UNCHANGED <<objects, nextId>>
  /\ retriesLeft' = [retriesLeft EXCEPT ![p] = 0]
  /\ UNCHANGED <<sem, answered>>

\* The backend's assertion on the type ends the process (debug builds).
AssertFails(p) ==
  /\ pc[p] = "create"
  /\ request[p].type \in AbortTypes
  /\ Die(p)

\* cpl_create_object takes no lock at all.
DirectCreate(c) ==
  /\ \E n \in Names, t \in Types : InsertRow(n, t, c)
  /\ UNCHANGED <<sem, pc, request, answer, retriesLeft, leaked, answered>>

Step(p) ==
  \/ SemWait(p)
  \/ LookupFinds(p) \/ LookupMisses(p) \/ LookupFails(p)
  \/ RejectType(p) \/ Insert(p) \/ InsertFails(p) \/ LoseReply(p)
  \/ AssertFails(p) \/ Return(p)

Next ==
  \/ \E p \in Callers : Call(p) \/ Step(p) \/ Die(p)
  \/ \E c \in Creators : DirectCreate(c)

Spec == Init /\ [][Next]_vars

\* A process inside the library keeps running.  No fairness among the
\* waiters: sem_post() wakes one of them, but a newcomer may be faster.
FairSpec == Spec /\ \A p \in Callers : WF_vars(Step(p))

-----------------------------------------------------------------------------
(* Properties.                                                             *)

TypeOK ==
  /\ objects \in SUBSET Object
  /\ nextId \in 1..(MaxId + 1)
  /\ sem \in 0..1
  /\ pc \in [Callers -> {"idle", "wait", "lookup", "create", "post"}]
  /\ request \in [Callers -> Request \cup {NoRequest}]
  /\ answer \in [Callers -> 1..MaxId \cup {NoAnswer, Error}]
  /\ retriesLeft \in [Callers -> 0..Retries]
  /\ leaked \in 0..1
  /\ answered \in SUBSET [request : Request, id : 1..MaxId]

\* The one permit of cpl_lookup_or_create_object_semaphore is in exactly one
\* place: in the semaphore, with one process between the wait and the post,
\* or lost with a process that died there.  So at most one process is
\* between the two, and after such a death none ever is again.
PermitAccounting ==
  sem + leaked + Cardinality({p \in Callers : InSection(p)}) = 1

\* Whatever fails, the objects of one name and type that
\* cpl_lookup_or_create_object creates come from a single process: no two
\* processes ever both find nothing and both create.
OneMaker ==
  \A o1, o2 \in objects :
    /\ {o1.maker, o2.maker} \subseteq Callers
    /\ o1.name = o2.name /\ o1.type = o2.type
    => o1.maker = o2.maker

\* cpl_lookup_or_create_object is atomic: it never creates an object that
\* is already there.  A link that breaks at the wrong moment refutes it.
UniqueObject ==
  \A o1, o2 \in objects :
    /\ {o1.maker, o2.maker} \subseteq Callers
    /\ o1.name = o2.name /\ o1.type = o2.type
    => o1 = o2

\* Two successful calls of cpl_lookup_or_create_object with the same name
\* and type answer the same id, even when a retry has duplicated the object,
\* unless someone calls cpl_create_object for that name and type.
AnswersAgree ==
  \A a, b \in answered :
    /\ a.request = b.request
    /\ a.request.type # AnyType
    /\ a.id # b.id
    => \E o \in Matches(objects, a.request) : o.maker \in Creators

\* A process between the wait and the post leaves the section: the retries of
\* SQL_EXECUTE_EXT run out.
SectionIsLeft ==
  \A p \in Callers : InSection(p) ~> ~InSection(p)

\* The permit comes back to the semaphore unless its holder dies.
PermitReturns == (sem = 0) ~> (sem > 0 \/ leaked > 0)

\* Where no link breaks and nobody calls cpl_create_object,
\* cpl_lookup_or_create_object is the indivisible operation it claims to be.
Atomic == INSTANCE AtomicLookupOrCreate
  WITH Callers <- Callers, Names <- Names, Types <- Types, MaxId <- MaxId,
       AnyType <- AnyType, NoRequest <- NoRequest, NoAnswer <- NoAnswer,
       Error <- Error,
       objects <- objects, request <- request, answer <- answer
IsAtomic == Atomic!Spec

=============================================================================
