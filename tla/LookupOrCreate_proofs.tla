----------------------- MODULE LookupOrCreate_proofs -----------------------
(***************************************************************************)
(* Proofs about LookupOrCreate, for any number of processes, names and     *)
(* types: the type invariant, the accounting of the semaphore's permit,    *)
(* and what it buys: one maker per object, and a unique object where no    *)
(* link breaks.                                                            *)
(***************************************************************************)
EXTENDS LookupOrCreate, FiniteSetTheorems, TLAPS

(***************************************************************************)
(* The inductive invariant.                                                *)
(***************************************************************************)

\* The permit is in one place, process by process.
MutexInv ==
  /\ \A p, q \in Callers : InSection(p) /\ InSection(q) => p = q
  /\ sem = 1 => leaked = 0 /\ \A p \in Callers : ~InSection(p)
  /\ leaked = 1 => \A p \in Callers : ~InSection(p)
  /\ sem = 0 /\ leaked = 0 => \E p \in Callers : InSection(p)

\* A call has a request, and an answer once control is at out.
CallInv ==
  \A p \in Callers :
    /\ pc[p] = "idle" <=> request[p] = NoRequest
    /\ pc[p] = "post" <=> answer[p] # NoAnswer

IdInv == \A o \in objects : o.id < nextId

\* What a process that creates has found, or has made by itself.
CreateInv ==
  \A p \in Callers : pc[p] = "create" =>
    \A o \in Matches(objects, request[p]) : o.maker = p \/ o.maker \in Creators

Inv == TypeOK /\ MutexInv /\ CallInv /\ IdInv /\ CreateInv /\ OneMaker

\* The invariant holds before the first call: no rows, the permit in the semaphore.
THEOREM InitInv == Init => Inv
BY ConstantsAssumption
   DEF Init, Inv, TypeOK, MutexInv, CallInv, IdInv, CreateInv, OneMaker,
       InSection, Matches

(***************************************************************************)
(* One lemma per conjunct.                                                 *)
(***************************************************************************)

\* An INSERT adds one row, with a fresh id.
LEMMA InsertRowAdds ==
  ASSUME TypeOK, IdInv,
         NEW n \in Names, NEW t, NEW m \in Callers \cup Creators,
         InsertRow(n, t, m)
  PROVE  /\ nextId \in 1..MaxId
         /\ nextId' \in 1..(MaxId + 1)
         /\ objects' \in SUBSET Object
         /\ IdInv'
         /\ \E o \in Object :
              /\ o.id = nextId /\ o.name = n /\ o.type = t /\ o.maker = m
              /\ objects' = objects \cup {o}
<1> DEFINE row == [id |-> nextId, name |-> n, type |-> t, maker |-> m]
<1>1. nextId \in 1..MaxId /\ nextId' \in 1..(MaxId + 1) /\ nextId' = nextId + 1
  BY ConstantsAssumption DEF TypeOK, InsertRow
<1>2. row \in Object
  BY <1>1 DEF Object, InsertRow
<1>3. objects' = objects \cup {row}
  BY DEF InsertRow
<1>4. IdInv'
  <2> SUFFICES ASSUME NEW o \in objects' PROVE o.id < nextId'
    BY DEF IdInv
  <2>1. CASE o \in objects
    <3>1. o.id \in 1..MaxId
      BY <2>1 DEF TypeOK, Object
    <3> QED
      BY <1>1, <2>1, <3>1 DEF IdInv
  <2>2. CASE o = row
    BY <1>1, <2>2
  <2> QED
    BY <1>3, <2>1, <2>2
<1>5. objects' \in SUBSET Object
  BY <1>2, <1>3 DEF TypeOK
<1> QED
  BY <1>1, <1>2, <1>3, <1>4, <1>5

\* The steps that may add a row and the row they add.
LEMMA RowsOnlyGrow ==
  ASSUME Inv, [Next]_vars
  PROVE  /\ objects' \in SUBSET Object
         /\ nextId' \in 1..(MaxId + 1)
         /\ IdInv'
<1>1. ASSUME NEW p \in Callers, pc[p] = "create", InsertFor(p)
      PROVE  objects' \in SUBSET Object /\ nextId' \in 1..(MaxId + 1) /\ IdInv'
  <2>1. request[p] \in Request
    BY <1>1 DEF Inv, TypeOK, CallInv
  <2>2. request[p].name \in Names
    BY <2>1 DEF Request
  <2> QED
    BY <1>1, <2>2, InsertRowAdds DEF Inv, InsertFor
<1>2. ASSUME NEW c \in Creators, DirectCreate(c)
      PROVE  objects' \in SUBSET Object /\ nextId' \in 1..(MaxId + 1) /\ IdInv'
  BY <1>2, InsertRowAdds DEF Inv, DirectCreate
<1>3. ASSUME UNCHANGED <<objects, nextId>>
      PROVE  objects' \in SUBSET Object /\ nextId' \in 1..(MaxId + 1) /\ IdInv'
  BY <1>3 DEF Inv, TypeOK, IdInv
<1> QED
  BY <1>1, <1>2, <1>3
     DEF Next, Step, Call, SemWait, LookupFinds, LookupMisses, LookupFails,
         RejectType, Insert, InsertFails, LoseReply, AssertFails, Return, Die,
         Finish, Goto, vars

\* Every step keeps a call's request, answer and place in the code in step.
LEMMA CallStep ==
  ASSUME Inv, [Next]_vars
  PROVE  CallInv'
<1> USE ConstantsAssumption DEF Inv, TypeOK, CallInv, Goto, Finish
<1>1. ASSUME NEW p \in Callers, Call(p) PROVE CallInv'
  BY <1>1 DEF Call, Request
<1>2. ASSUME NEW p \in Callers, SemWait(p) PROVE CallInv'
  BY <1>2 DEF SemWait
<1>3. ASSUME NEW p \in Callers, LookupFinds(p) PROVE CallInv'
  <2>1. PICK o \in objects : Finish(p, "lookup", o.id)
    BY <1>3 DEF LookupFinds, Matches
  <2>2. o.id \in 1..MaxId
    BY DEF Object
  <2> QED
    BY <1>3, <2>1, <2>2 DEF LookupFinds
<1>4. ASSUME NEW p \in Callers, LookupMisses(p) PROVE CallInv'
  BY <1>4 DEF LookupMisses
<1>5. ASSUME NEW p \in Callers, LookupFails(p) \/ RejectType(p) \/ InsertFails(p)
      PROVE CallInv'
  BY <1>5 DEF LookupFails, RejectType, InsertFails
<1>6. ASSUME NEW p \in Callers, Insert(p) PROVE CallInv'
  BY <1>6 DEF Insert, InsertFor, InsertRow
<1>7. ASSUME NEW p \in Callers, LoseReply(p) PROVE CallInv'
  BY <1>7 DEF LoseReply
<1>8. ASSUME NEW p \in Callers, Return(p) \/ Die(p) PROVE CallInv'
  BY <1>8 DEF Return, Die
<1>9. ASSUME NEW c \in Creators, DirectCreate(c) PROVE CallInv'
  BY <1>9 DEF DirectCreate
<1>10. CASE UNCHANGED vars
  BY <1>10 DEF vars
<1> QED
  BY <1>1, <1>2, <1>3, <1>4, <1>5, <1>6, <1>7, <1>8, <1>9, <1>10
     DEF Next, Step, AssertFails

\* Every step keeps the variables in their types; the semaphore stays at 0 or 1
\* because a process that posts is the one that waited.
LEMMA TypeStep ==
  ASSUME Inv, [Next]_vars
  PROVE  TypeOK'
<1> USE ConstantsAssumption DEF Inv, TypeOK, Goto, Finish
<1>0. objects' \in SUBSET Object /\ nextId' \in 1..(MaxId + 1)
  BY RowsOnlyGrow
<1>1. ASSUME NEW p \in Callers, Call(p) PROVE TypeOK'
  BY <1>1, <1>0 DEF Call
<1>2. ASSUME NEW p \in Callers, SemWait(p) PROVE TypeOK'
  BY <1>2, <1>0 DEF SemWait
<1>3. ASSUME NEW p \in Callers, LookupFinds(p) PROVE TypeOK'
  <2>1. PICK o \in objects : Finish(p, "lookup", o.id)
    BY <1>3 DEF LookupFinds, Matches
  <2>2. o.id \in 1..MaxId
    BY DEF Object
  <2> QED
    BY <1>3, <1>0, <2>1, <2>2 DEF LookupFinds
<1>4. ASSUME NEW p \in Callers, LookupMisses(p) PROVE TypeOK'
  BY <1>4, <1>0 DEF LookupMisses
<1>5. ASSUME NEW p \in Callers, LookupFails(p) \/ RejectType(p) \/ InsertFails(p)
      PROVE TypeOK'
  BY <1>5, <1>0 DEF LookupFails, RejectType, InsertFails
<1>6. ASSUME NEW p \in Callers, Insert(p) PROVE TypeOK'
  <2>1. nextId \in 1..MaxId
    BY <1>6 DEF Insert, InsertFor, InsertRow
  <2> QED
    BY <1>6, <1>0, <2>1 DEF Insert
<1>7. ASSUME NEW p \in Callers, LoseReply(p) PROVE TypeOK'
  BY <1>7, <1>0 DEF LoseReply
<1>8. ASSUME NEW p \in Callers, Return(p) PROVE TypeOK'
  <2>1. request[p] \in Request /\ sem = 0
    BY <1>8 DEF Return, MutexInv, InSection, CallInv
  <2>2. answer[p] \in 1..MaxId \/ answer[p] = Error
    BY <1>8 DEF Return, CallInv
  <2>3. answered' \in SUBSET [request : Request, id : 1..MaxId]
    BY <1>8, <2>1, <2>2 DEF Return
  <2> QED
    BY <1>8, <1>0, <2>1, <2>3 DEF Return, SemPost
<1>9. ASSUME NEW p \in Callers, Die(p) PROVE TypeOK'
  <2>1. leaked' \in 0..1
    BY <1>9 DEF Die, MutexInv
  <2> QED
    BY <1>9, <1>0, <2>1 DEF Die
<1>10. ASSUME NEW c \in Creators, DirectCreate(c) PROVE TypeOK'
  BY <1>10, <1>0 DEF DirectCreate
<1>11. CASE UNCHANGED vars
  BY <1>11 DEF vars
<1> QED
  BY <1>1, <1>2, <1>3, <1>4, <1>5, <1>6, <1>7, <1>8, <1>9, <1>10, <1>11
     DEF Next, Step, AssertFails

\* Every step moves the permit whole: wait, post, or death inside the section.
LEMMA MutexStep ==
  ASSUME Inv, [Next]_vars
  PROVE  MutexInv'
<1> USE DEF Inv, TypeOK, MutexInv, InSection, Goto, Finish
<1>1. ASSUME NEW p \in Callers, Call(p) PROVE MutexInv'
  BY <1>1 DEF Call
<1>2. ASSUME NEW p \in Callers, SemWait(p) PROVE MutexInv'
  BY <1>2 DEF SemWait
<1>3. ASSUME NEW p \in Callers,
             \/ LookupFinds(p) \/ LookupMisses(p) \/ LookupFails(p)
             \/ RejectType(p) \/ Insert(p) \/ InsertFails(p) \/ LoseReply(p)
      PROVE MutexInv'
  <2>1. /\ UNCHANGED <<sem, leaked>>
        /\ InSection(p) /\ InSection(p)'
        /\ \A q \in Callers : q # p => pc'[q] = pc[q]
    BY <1>3 DEF LookupFinds, LookupMisses, LookupFails, RejectType, Insert,
                InsertFails, LoseReply
  <2> QED
    BY <2>1
<1>4. ASSUME NEW p \in Callers, Return(p) PROVE MutexInv'
  BY <1>4 DEF Return, SemPost
<1>5. ASSUME NEW p \in Callers, Die(p) PROVE MutexInv'
  BY <1>5 DEF Die
<1>6. ASSUME NEW c \in Creators, DirectCreate(c) PROVE MutexInv'
  BY <1>6 DEF DirectCreate
<1>7. CASE UNCHANGED vars
  BY <1>7 DEF vars
<1> QED
  BY <1>1, <1>2, <1>3, <1>4, <1>5, <1>6, <1>7 DEF Next, Step, AssertFails

\* Every step leaves the rows alone, or adds one that a creator made, or one
\* that the process at the creation made for its own request.
LEMMA RowsAdded ==
  ASSUME Inv, [Next]_vars
  PROVE  \/ UNCHANGED objects
         \/ \E o \in Object :
              /\ objects' = objects \cup {o}
              /\ o.maker \in Creators
              /\ UNCHANGED <<pc, request, answer, answered>>
         \/ \E p \in Callers, o \in Object :
              /\ objects' = objects \cup {o}
              /\ pc[p] = "create"
              /\ o.name = request[p].name /\ o.type = request[p].type
              /\ o.id = nextId
              /\ o.maker = p
              /\ \A q \in Callers : q # p => pc'[q] = pc[q]
<1>1. ASSUME NEW p \in Callers, pc[p] = "create", InsertFor(p)
      PROVE  \E o \in Object :
               /\ objects' = objects \cup {o}
               /\ o.name = request[p].name /\ o.type = request[p].type
               /\ o.id = nextId
               /\ o.maker = p
  <2>1. request[p].name \in Names
    BY <1>1 DEF Inv, TypeOK, CallInv, Request
  <2> QED
    BY <1>1, <2>1, InsertRowAdds DEF Inv, InsertFor
<1>2. ASSUME NEW c \in Creators, DirectCreate(c)
      PROVE  \E o \in Object :
               /\ objects' = objects \cup {o}
               /\ o.maker \in Creators
               /\ UNCHANGED <<pc, request, answer, answered>>
  BY <1>2, InsertRowAdds DEF Inv, DirectCreate
<1>3. ASSUME NEW p \in Callers, Insert(p) \/ InsertFails(p) \/ LoseReply(p) \/ Die(p)
      PROVE  /\ UNCHANGED objects \/ (pc[p] = "create" /\ InsertFor(p))
             /\ \A q \in Callers : q # p => pc'[q] = pc[q]
  BY <1>3 DEF Insert, InsertFails, LoseReply, Die, Finish, Goto, Inv, TypeOK
<1>4. ASSUME NEW p \in Callers,
             \/ Call(p) \/ SemWait(p) \/ LookupFinds(p) \/ LookupMisses(p)
             \/ LookupFails(p) \/ RejectType(p) \/ Return(p)
      PROVE  UNCHANGED objects
  BY <1>4 DEF Call, SemWait, LookupFinds, LookupMisses, LookupFails, RejectType,
              Return
<1>5. ASSUME NEW p \in Callers, Insert(p) \/ InsertFails(p) \/ LoseReply(p) \/ Die(p)
      PROVE  \/ UNCHANGED objects
             \/ \E q \in Callers, o \in Object :
                  /\ objects' = objects \cup {o}
                  /\ pc[q] = "create"
                  /\ o.name = request[q].name /\ o.type = request[q].type
                  /\ o.id = nextId
                  /\ o.maker = q
                  /\ \A r \in Callers : r # q => pc'[r] = pc[r]
  BY <1>3, <1>5, <1>1
<1>6. CASE UNCHANGED vars
  BY <1>6 DEF vars
<1> QED
  BY <1>2, <1>4, <1>5, <1>6 DEF Next, Step, AssertFails

\* A new row has its maker in common with every matching row of a caller,
\* because its maker had found none but its own (CreateInv).
LEMMA OneMakerStep ==
  ASSUME Inv, [Next]_vars
  PROVE  OneMaker'
<1> USE ConstantsAssumption DEF Inv, OneMaker
<1>1. CASE UNCHANGED objects
  BY <1>1
<1>2. ASSUME NEW o \in Object, objects' = objects \cup {o}, o.maker \in Creators
      PROVE  OneMaker'
  BY <1>2
<1>3. ASSUME NEW p \in Callers, NEW o \in Object, objects' = objects \cup {o},
             pc[p] = "create", o.name = request[p].name,
             o.type = request[p].type, o.maker = p
      PROVE  OneMaker'
  <2>1. \A other \in objects :
          other.name = o.name /\ other.type = o.type
          => other.maker = p \/ other.maker \in Creators
    BY <1>3 DEF CreateInv, Matches
  <2> QED
    BY <1>3, <2>1
<1> QED
  BY <1>1, <1>2, <1>3, RowsAdded

\* While a process is about to create, nobody but itself and the direct creators
\* adds a row that matches: the others are outside the section (MutexInv).
LEMMA CreateStep ==
  ASSUME Inv, [Next]_vars
  PROVE  CreateInv'
<1> SUFFICES ASSUME NEW p \in Callers, pc'[p] = "create",
                    NEW o \in Matches(objects, request[p])'
             PROVE  o.maker = p \/ o.maker \in Creators
  BY DEF CreateInv
<1> USE DEF Inv, TypeOK
<1>1. request'[p] = request[p] /\ pc[p] \in {"lookup", "create"}
  BY DEF Next, Step, Call, SemWait, LookupFinds, LookupMisses, LookupFails,
         RejectType, Insert, InsertFails, LoseReply, AssertFails, Return, Die,
         DirectCreate, Finish, Goto, vars
<1>2. o \in Matches(objects, request[p]) =>
        pc[p] = "create" \/ o.maker = p \/ o.maker \in Creators
  <2>1. CASE pc[p] = "lookup"
    <3>1. Matches(objects, request[p]) = {}
      BY <2>1 DEF Next, Step, Call, SemWait, LookupFinds, LookupMisses,
         LookupFails, RejectType, Insert, InsertFails, LoseReply, AssertFails,
         Return, Die, DirectCreate, Finish, Goto, vars
    <3> QED
      BY <3>1
  <2> QED
    BY <1>1, <2>1
<1>3. CASE o \in Matches(objects, request[p])
  BY <1>2, <1>3 DEF CreateInv
<1>4. CASE o \notin Matches(objects, request[p])
  <2>1. o \in objects' /\ o \notin objects
    BY <1>1, <1>4 DEF Matches
  <2>2. CASE o.maker \in Creators
    BY <2>2
  <2>3. ASSUME NEW q \in Callers, pc[q] = "create", o.maker = q
        PROVE  o.maker = p
    BY <1>1, <2>3 DEF MutexInv, InSection
  <2> QED
    BY <2>1, <2>2, <2>3, RowsAdded
<1> QED
  BY <1>3, <1>4

\* Every step of the callers, the creators and the environment keeps the
\* invariant.
THEOREM InvStep == Inv /\ [Next]_vars => Inv'
BY TypeStep, MutexStep, CallStep, RowsOnlyGrow, CreateStep, OneMakerStep DEF Inv

\* The invariant holds in every state of cpl_lookup_or_create_object.
THEOREM Invariance == Spec => []Inv
BY InitInv, InvStep, PTL DEF Spec

(***************************************************************************)
(* The properties.                                                         *)
(***************************************************************************)

\* Every variable keeps its type; the semaphore never exceeds its one permit.
THEOREM TypeCorrect == Spec => []TypeOK
BY Invariance, PTL DEF Inv

\* Objects of one name and type that cpl_lookup_or_create_object made come
\* from one process, whatever fails and whoever calls cpl_create_object.
THEOREM OneMakerAlways == Spec => []OneMaker
BY Invariance, PTL DEF Inv

\* The permit is in the semaphore, with one process in the section, or lost
\* with a process that died there: it is never duplicated.
THEOREM PermitsAccounted == Spec => []PermitAccounting
<1>1. ASSUME TypeOK, MutexInv PROVE PermitAccounting
  <2> DEFINE H == {p \in Callers : InSection(p)}
  <2>1. CASE H = {}
    <3>1. Cardinality(H) = 0
      BY <2>1, FS_EmptySet
    <3>2. (sem = 1 /\ leaked = 0) \/ (sem = 0 /\ leaked = 1)
      BY <1>1, <2>1 DEF TypeOK, MutexInv
    <3> QED
      BY <3>1, <3>2 DEF PermitAccounting
  <2>2. CASE H # {}
    <3>1. PICK p \in Callers : InSection(p)
      BY <2>2
    <3>2. H = {p}
      BY <1>1, <3>1 DEF MutexInv
    <3>3. Cardinality(H) = 1
      BY <3>2, FS_Singleton
    <3>4. sem = 0 /\ leaked = 0
      BY <1>1, <3>1 DEF TypeOK, MutexInv
    <3> QED
      BY <3>3, <3>4 DEF PermitAccounting
  <2> QED
    BY <2>1, <2>2
<1> QED
  BY <1>1, Invariance, PTL DEF Inv

\* Where no link breaks, a process about to create has found no object that
\* cpl_lookup_or_create_object made.
UniqueInv ==
  /\ \A p \in Callers : pc[p] = "create" =>
       \A o \in Matches(objects, request[p]) : o.maker \in Creators
  /\ UniqueObject

\* Where no link breaks, an INSERT runs at most once per lookup that missed, so
\* the row it adds is the only one of its name, type and caller.
LEMMA UniqueStep ==
  ASSUME ~LinkFails, Inv, UniqueInv, [Next]_vars
  PROVE  UniqueInv'
<1> USE ConstantsAssumption DEF Inv
<1>1. ASSUME NEW p \in Callers, pc'[p] = "create",
             NEW o \in Matches(objects, request[p])'
      PROVE  o.maker \in Creators
  <2>1. request'[p] = request[p] /\ pc[p] \in {"lookup", "create"}
    BY <1>1 DEF Next, Step, Call, SemWait, LookupFinds, LookupMisses,
       LookupFails, RejectType, Insert, InsertFails, LoseReply, AssertFails,
       Return, Die, DirectCreate, Finish, Goto, vars, TypeOK
  <2>2. CASE o \in objects
    <3>1. o \in Matches(objects, request[p])
      BY <1>1, <2>1, <2>2 DEF Matches
    <3>2. CASE pc[p] = "lookup"
      <4>1. Matches(objects, request[p]) = {}
        BY <1>1, <3>2 DEF Next, Step, Call, SemWait, LookupFinds, LookupMisses,
           LookupFails, RejectType, Insert, InsertFails, LoseReply,
           AssertFails, Return, Die, DirectCreate, Finish, Goto, vars, TypeOK
      <4> QED
        BY <3>1, <4>1
    <3> QED
      BY <2>1, <3>1, <3>2 DEF UniqueInv
  <2>3. CASE o \notin objects
    <3>1. o \in objects'
      BY <1>1 DEF Matches
    <3>2. ASSUME NEW q \in Callers, pc[q] = "create" PROVE q = p
      BY <2>1, <3>2 DEF MutexInv, InSection
    <3>3. ASSUME NEW q \in Callers,
                 Call(q) \/ Step(q) \/ Die(q)
          PROVE  UNCHANGED objects
      <4>1. CASE q # p
        BY <3>2, <3>3, <4>1
           DEF Step, Call, SemWait, LookupFinds, LookupMisses, LookupFails,
               RejectType, Insert, InsertFails, LoseReply, AssertFails,
               Return, Die, Finish, Goto
      <4>2. CASE q = p
        BY <1>1, <3>3, <4>2
           DEF Step, Call, SemWait, LookupFinds, LookupMisses, LookupFails,
               RejectType, Insert, InsertFails, LoseReply, AssertFails,
               Return, Die, Finish, Goto, TypeOK
      <4> QED
        BY <4>1, <4>2
    <3>4. ASSUME NEW c \in Creators, DirectCreate(c)
          PROVE  o.maker \in Creators
      <4>1. PICK n \in Names, t \in Types : InsertRow(n, t, c)
        BY <3>4 DEF DirectCreate
      <4>2. \E new \in Object :
              new.maker = c /\ objects' = objects \cup {new}
        BY <4>1, InsertRowAdds
      <4> QED
        BY <2>3, <3>1, <4>2
    <3> QED
      BY <2>3, <3>1, <3>3, <3>4 DEF Next, vars
  <2> QED
    BY <2>2, <2>3
<1>2. UniqueObject'
  <2>1. CASE UNCHANGED objects
    BY <2>1 DEF UniqueInv, UniqueObject
  <2>2. ASSUME NEW o \in Object, objects' = objects \cup {o},
               o.maker \in Creators
        PROVE  UniqueObject'
    BY <2>2 DEF UniqueInv, UniqueObject
  <2>3. ASSUME NEW p \in Callers, NEW o \in Object,
               objects' = objects \cup {o},
               pc[p] = "create", o.name = request[p].name,
               o.type = request[p].type, o.maker = p
        PROVE  UniqueObject'
    <3>1. \A other \in objects :
            other.name = o.name /\ other.type = o.type
            => other.maker \in Creators
      BY <2>3 DEF UniqueInv, Matches
    <3> QED
      BY <2>3, <3>1 DEF UniqueInv, UniqueObject
  <2> QED
    BY <2>1, <2>2, <2>3, RowsAdded
<1> QED
  BY <1>1, <1>2 DEF UniqueInv

\* Where no link breaks, cpl_lookup_or_create_object never makes an object
\* that is already there, even beside callers of cpl_create_object.
THEOREM UniqueWithoutBrokenLinks == ~LinkFails => (Spec => []UniqueObject)
<1> SUFFICES ASSUME ~LinkFails PROVE Spec => []UniqueObject
  OBVIOUS
<1>1. Init => UniqueInv
  BY DEF Init, UniqueInv, UniqueObject
<1>2. Inv /\ UniqueInv /\ [Next]_vars => UniqueInv'
  BY UniqueStep
<1>3. UniqueInv => UniqueObject
  BY DEF UniqueInv
<1> QED
  BY <1>1, <1>2, <1>3, Invariance, PTL DEF Spec

(***************************************************************************)
(* Answers agree because a lookup answers the latest row, and no row is    *)
(* added for a name and type that has been answered.                       *)
(***************************************************************************)

IsLatest(objs, r, i) ==
  \E o \in Matches(objs, r) : o.id = i /\ Latest(Matches(objs, r), o)

Undisturbed(objs, r) == \A o \in Matches(objs, r) : o.maker \notin Creators

AnswerInv ==
  \A r \in Request : r.type # AnyType /\ Undisturbed(objects, r) =>
    /\ \A a \in answered : a.request = r => IsLatest(objects, r, a.id)
    /\ \A p \in Callers :
         /\ pc[p] = "post" /\ request[p] = r /\ answer[p] # Error
            => IsLatest(objects, r, answer[p])
         /\ pc[p] = "create" /\ request[p] = r
            => \A a \in answered : a.request # r

\* A step that adds no row: only the lookup and the return matter.
LEMMA AnswerStepSameRows ==
  ASSUME Inv, AnswerInv, [Next]_vars, UNCHANGED objects
  PROVE  AnswerInv'
<1> SUFFICES ASSUME NEW r \in Request, r.type # AnyType, Undisturbed(objects, r)
             PROVE  /\ \A a \in answered' : a.request = r => IsLatest(objects, r, a.id)
                    /\ \A p \in Callers :
                         /\ pc'[p] = "post" /\ request'[p] = r /\ answer'[p] # Error
                            => IsLatest(objects, r, answer'[p])
                         /\ pc'[p] = "create" /\ request'[p] = r
                            => \A a \in answered' : a.request # r
  BY DEF AnswerInv
<1> USE DEF Inv, TypeOK
<1>1. /\ \A a \in answered : a.request = r => IsLatest(objects, r, a.id)
      /\ \A p \in Callers :
           /\ pc[p] = "post" /\ request[p] = r /\ answer[p] # Error
              => IsLatest(objects, r, answer[p])
           /\ pc[p] = "create" /\ request[p] = r
              => \A a \in answered : a.request # r
  BY DEF AnswerInv
<1>2. ASSUME NEW a \in answered', a.request = r
      PROVE  IsLatest(objects, r, a.id)
  <2>1. CASE a \in answered
    BY <1>1, <1>2, <2>1
  <2>2. ASSUME NEW p \in Callers, Return(p), a \notin answered
        PROVE  IsLatest(objects, r, a.id)
    <3>1. answer[p] # Error /\ a = [request |-> request[p], id |-> answer[p]]
      BY <1>2, <2>2 DEF Return
    <3> QED
      BY <1>1, <1>2, <2>2, <3>1 DEF Return, Goto
  <2>3. a \in answered \/ \E p \in Callers : Return(p)
    BY <1>2 DEF Next, Step, Call, SemWait, LookupFinds, LookupMisses,
       LookupFails, RejectType, Insert, InsertFails, LoseReply, AssertFails,
       Die, DirectCreate, vars
  <2> QED
    BY <2>1, <2>2, <2>3
<1>3. ASSUME NEW p \in Callers, pc'[p] = "post", request'[p] = r,
             answer'[p] # Error
      PROVE  IsLatest(objects, r, answer'[p])
  <2>1. CASE LookupFinds(p)
    BY <1>3, <2>1 DEF LookupFinds, Finish, IsLatest
  <2>2. CASE ~LookupFinds(p)
    <3>1. ~Insert(p)
      <4>1. SUFFICES ASSUME Insert(p) PROVE FALSE
        OBVIOUS
      <4>2. PICK o \in Object : o.id = nextId /\ objects' = objects \cup {o}
        BY <4>1, InsertRowAdds DEF Insert, InsertFor, Finish, Goto, CallInv, Request
      <4>3. o \in objects /\ o.id < o.id
        BY <4>2 DEF IdInv
      <4> QED
        BY <4>3, ConstantsAssumption DEF Object
    <3>2. pc[p] = "post" /\ request[p] = r /\ answer[p] = answer'[p]
      BY <1>3, <2>2, <3>1
         DEF Next, Step, Call, SemWait, LookupFinds, LookupMisses,
             LookupFails, RejectType, Insert, InsertFails, LoseReply,
             AssertFails, Return, Die, DirectCreate, Finish, Goto, vars
    <3> QED
      BY <1>1, <1>3, <3>2
  <2> QED
    BY <2>1, <2>2
<1>4. ASSUME NEW p \in Callers, pc'[p] = "create", request'[p] = r,
             NEW a \in answered'
      PROVE  a.request # r
  <2>1. answered' = answered /\ request[p] = r
    <3>1. ASSUME NEW q \in Callers, Return(q) PROVE FALSE
      BY <1>4, <3>1 DEF Return, Goto, MutexInv, InSection
    <3> QED
      BY <1>4, <3>1
         DEF Next, Step, Call, SemWait, LookupFinds, LookupMisses,
             LookupFails, RejectType, Insert, InsertFails, LoseReply,
             AssertFails, Die, DirectCreate, Finish, Goto, vars
  <2>2. CASE pc[p] = "create"
    BY <1>1, <1>4, <2>1, <2>2
  <2>3. CASE pc[p] # "create"
    <3>1. Matches(objects, r) = {}
      BY <1>4, <2>1, <2>3
         DEF Next, Step, Call, SemWait, LookupFinds, LookupMisses,
             LookupFails, RejectType, Insert, InsertFails, LoseReply,
             AssertFails, Return, Die, DirectCreate, Finish, Goto, vars
    <3> QED
      BY <1>1, <1>4, <2>1, <3>1 DEF IsLatest
  <2> QED
    BY <2>2, <2>3
<1> QED
  BY <1>2, <1>3, <1>4

\* A row of another name and type, or one a creator made.
LEMMA AnswerStepOtherRow ==
  ASSUME Inv, NEW r \in Request, r.type # AnyType, NEW o \in Object,
         objects' = objects \cup {o}, Undisturbed(objects, r)',
         ~(o.name = r.name /\ o.type = r.type) \/ o.maker \in Creators
  PROVE  /\ Matches(objects', r) = Matches(objects, r)
         /\ Undisturbed(objects, r)
<1>1. Undisturbed(objects, r)
  BY DEF Undisturbed, Matches
<1>2. ~(o.name = r.name /\ o.type = r.type)
  BY DEF Undisturbed, Matches
<1> QED
  BY <1>1, <1>2 DEF Matches

\* A row added by a caller leaves the answers given and pending the latest match
\* of the caller that holds the permit.
LEMMA AnswerStepNewRow ==
  ASSUME Inv, AnswerInv, [Next]_vars, ~UNCHANGED objects
  PROVE  AnswerInv'
<1> USE ConstantsAssumption DEF Inv, TypeOK
<1>1. ASSUME NEW o \in Object, objects' = objects \cup {o}, o.maker \in Creators,
             UNCHANGED <<pc, request, answer, answered>>
      PROVE  AnswerInv'
  <2> SUFFICES ASSUME NEW r \in Request, r.type # AnyType, Undisturbed(objects, r)'
               PROVE  /\ Undisturbed(objects, r)
                      /\ Matches(objects', r) = Matches(objects, r)
    BY <1>1 DEF AnswerInv, IsLatest
  <2> QED
    BY <1>1, AnswerStepOtherRow
<1>2. ASSUME NEW p \in Callers, NEW o \in Object, objects' = objects \cup {o},
             pc[p] = "create", o.name = request[p].name,
             o.type = request[p].type, o.id = nextId, o.maker = p,
             \A q \in Callers : q # p => pc'[q] = pc[q]
      PROVE  AnswerInv'
  <2> SUFFICES ASSUME NEW r \in Request, r.type # AnyType, Undisturbed(objects, r)'
               PROVE  /\ \A a \in answered' : a.request = r => IsLatest(objects', r, a.id)
                      /\ \A q \in Callers :
                           /\ pc'[q] = "post" /\ request'[q] = r /\ answer'[q] # Error
                              => IsLatest(objects', r, answer'[q])
                           /\ pc'[q] = "create" /\ request'[q] = r
                              => \A a \in answered' : a.request # r
    BY DEF AnswerInv
  <2>1. Insert(p) \/ InsertFails(p) \/ LoseReply(p) \/ Die(p)
    <3>1. ASSUME NEW q \in Callers, Call(q) \/ Step(q) \/ Die(q), q # p
          PROVE  UNCHANGED objects
      BY <1>2, <3>1
         DEF Step, Call, SemWait, LookupFinds, LookupMisses, LookupFails,
             RejectType, Insert, InsertFails, LoseReply, AssertFails,
             Return, Die, Finish, Goto, MutexInv, InSection
    <3>2. ASSUME NEW c \in Creators, DirectCreate(c) PROVE FALSE
      <4>1. PICK n \in Names, t \in Types : InsertRow(n, t, c)
        BY <3>2 DEF DirectCreate
      <4>2. PICK new \in Object :
              new.maker = c /\ new.id = nextId /\ objects' = objects \cup {new}
        BY <4>1, InsertRowAdds
      <4>3. o \notin objects /\ new \notin objects
        BY <1>2, <4>2 DEF IdInv, Object
      <4>4. o = new
        BY <1>2, <4>2, <4>3
      <4> QED
        BY <1>2, <4>2, <4>4
    <3>3. UNCHANGED objects \/ Call(p) \/ Step(p) \/ Die(p)
      BY <3>1, <3>2 DEF Next, vars
    <3> QED
      BY <3>3 DEF Step, Call, SemWait, LookupFinds, LookupMisses, LookupFails,
                  RejectType, AssertFails, Return
  <2>2. /\ answered' = answered
        /\ \A q \in Callers : ~(pc[q] = "post") /\ (q # p => pc[q] # "create")
    BY <1>2, <2>1 DEF Insert, InsertFails, LoseReply, Die, MutexInv, InSection
  <2>3. \A q \in Callers : pc'[q] \in {"post", "create"} => q = p /\ request'[p] = request[p]
    BY <1>2, <2>1, <2>2 DEF Insert, InsertFails, LoseReply, Die, Finish, Goto
  <2>4. Undisturbed(objects, r)
    BY <1>2 DEF Undisturbed, Matches
  <2>5. CASE request[p] = r
    <3>1. \A a \in answered : a.request # r
      BY <1>2, <2>4, <2>5 DEF AnswerInv
    <3>2. ASSUME pc'[p] = "post", answer'[p] # Error
          PROVE  IsLatest(objects', r, answer'[p])
      <4>1. answer'[p] = o.id
        BY <1>2, <2>1, <3>2
           DEF Insert, InsertFails, LoseReply, Die, Finish, Goto
      <4>2. o \in Matches(objects', r)
        BY <1>2, <2>5 DEF Matches
      <4>3. Latest(Matches(objects', r), o)
        <5> SUFFICES ASSUME NEW other \in Matches(objects', r)
                     PROVE  other.id <= o.id
          BY DEF Latest
        <5>1. other = o \/ (other \in objects /\ other.id < nextId)
          BY <1>2 DEF Matches, IdInv
        <5>2. o.id \in Nat
          BY DEF Object
        <5>3. other \in Object
          BY <5>1
        <5>4. other.id \in Nat
          BY <5>3 DEF Object
        <5> QED
          BY <1>2, <5>1, <5>2, <5>4
      <4> QED
        BY <4>1, <4>2, <4>3 DEF IsLatest
    <3> QED
      BY <2>2, <2>3, <3>1, <3>2
  <2>6. CASE request[p] # r
    <3>1. request[p] \in Request
      BY <1>2 DEF CallInv
    <3>2. ~(o.name = r.name /\ o.type = r.type)
      BY <1>2, <2>6, <3>1 DEF Request
    <3>3. Matches(objects', r) = Matches(objects, r)
      BY <1>2, <3>2, AnswerStepOtherRow
    <3> QED
      BY <2>2, <2>3, <2>4, <2>6, <3>3 DEF AnswerInv, IsLatest
  <2> QED
    BY <2>5, <2>6
<1> QED
  BY <1>1, <1>2, RowsAdded

\* What AnswerInv keeps for every answer makes two answers to one request agree.
LEMMA AnswerInvImplies ==
  ASSUME TypeOK, AnswerInv
  PROVE  AnswersAgree
<1> SUFFICES ASSUME NEW a \in answered, NEW b \in answered,
                    a.request = b.request, a.request.type # AnyType,
                    Undisturbed(objects, a.request)
             PROVE  a.id = b.id
  BY DEF AnswersAgree, Undisturbed
<1> DEFINE r == a.request
<1>1. r \in Request
  BY DEF TypeOK
<1>2. IsLatest(objects, r, a.id) /\ IsLatest(objects, r, b.id)
  BY <1>1 DEF AnswerInv
<1>3. PICK o1 \in Matches(objects, r), o2 \in Matches(objects, r) :
        /\ o1.id = a.id /\ o2.id = b.id
        /\ o1.id <= o2.id /\ o2.id <= o1.id
  BY <1>2 DEF IsLatest, Latest
<1>4. o1.id \in Int /\ o2.id \in Int
  BY <1>3 DEF TypeOK, Object, Matches
<1> QED
  BY <1>3, <1>4

\* Successful calls for one name and type answer the same id as long as
\* nobody calls cpl_create_object for them, also after retries that insert a
\* row twice.
THEOREM AnswersAlwaysAgree == Spec => []AnswersAgree
<1>1. Init => AnswerInv
  BY DEF Init, AnswerInv
<1>2. Inv /\ AnswerInv /\ [Next]_vars => AnswerInv'
  BY AnswerStepSameRows, AnswerStepNewRow
<1>3. Inv /\ AnswerInv => AnswersAgree
  BY AnswerInvImplies DEF Inv
<1> QED
  BY <1>1, <1>2, <1>3, Invariance, PTL DEF Spec

(***************************************************************************)
(* Without broken links and without callers of cpl_create_object, every    *)
(* step is a step of the indivisible operation, or stutters.               *)
(***************************************************************************)

\* The INSERT of a process that found nothing is the abstract creation.
LEMMA InsertIsCreate ==
  ASSUME Creators = {}, Inv, UniqueInv,
         NEW p \in Callers, pc[p] = "create", InsertFor(p)
  PROVE  /\ Atomic!Pending(p)
         /\ \E o \in Atomic!Object : Atomic!Create(p, o) /\ o.id = nextId
<1> USE DEF Inv, TypeOK, CallInv
<1>1. request[p] \in Request
  OBVIOUS
<1>2. PICK o \in Object :
        /\ o.id = nextId /\ o.name = request[p].name
        /\ o.type = request[p].type /\ o.maker = p
        /\ objects' = objects \cup {o}
  BY <1>1, InsertRowAdds DEF InsertFor, Request
<1>3. o \in Atomic!Object
  BY DEF Atomic!Object, Object
<1>4. Atomic!Matches(objects, request[p]) = {}
  <2>1. Matches(objects, request[p]) = {}
    BY DEF UniqueInv
  <2> QED
    BY <2>1 DEF Matches, Atomic!Matches
<1>5. \A other \in objects : other.id # o.id
  BY <1>2, ConstantsAssumption DEF IdInv, Object
<1>6. Atomic!Create(p, o)
  BY <1>2, <1>4, <1>5 DEF Atomic!Create
<1>7. Atomic!Pending(p)
  BY ConstantsAssumption DEF Atomic!Pending
<1> QED
  BY <1>2, <1>3, <1>6, <1>7

\* Every step is a step of the indivisible operation, or leaves the rows, the
\* requests and the answers alone.
LEMMA StepIsAtomicStep ==
  ASSUME ~LinkFails, Creators = {}, Inv, UniqueInv, [Next]_vars
  PROVE  [Atomic!Next]_(Atomic!vars)
<1> USE ConstantsAssumption
    DEF Inv, TypeOK, CallInv, Goto, Finish, Atomic!vars, Atomic!Answer
<1>1. ASSUME NEW p \in Callers, Call(p) PROVE Atomic!Call(p)
  BY <1>1 DEF Call, Atomic!Call, Request, Atomic!Request
<1>2. ASSUME NEW p \in Callers, SemWait(p) \/ LookupMisses(p)
      PROVE  UNCHANGED Atomic!vars
  BY <1>2 DEF SemWait, LookupMisses
<1>3. ASSUME NEW p \in Callers, LookupFinds(p) PROVE Atomic!Find(p)
  <2>1. PICK o \in Matches(objects, request[p]) : Finish(p, "lookup", o.id)
    BY <1>3 DEF LookupFinds
  <2>2. o \in Atomic!Matches(objects, request[p])
    BY DEF Matches, Atomic!Matches
  <2>3. UNCHANGED <<objects, request>> /\ pc[p] = "lookup"
    BY <1>3 DEF LookupFinds
  <2> QED
    BY <2>1, <2>2, <2>3 DEF Atomic!Find, Atomic!Pending
<1>4. ASSUME NEW p \in Callers, LookupFails(p) \/ RejectType(p) PROVE Atomic!Fail(p)
  BY <1>4 DEF LookupFails, RejectType, Atomic!Fail, Atomic!Pending
<1>5. ASSUME NEW p \in Callers, Insert(p) PROVE Atomic!Make(p)
  <2>1. /\ pc[p] = "create" /\ InsertFor(p) /\ UNCHANGED request
        /\ answer' = [answer EXCEPT ![p] = nextId]
    BY <1>5 DEF Insert
  <2> QED
    BY <2>1, InsertIsCreate DEF Atomic!Make
<1>6. ASSUME NEW p \in Callers, InsertFails(p)
      PROVE  Atomic!Make(p) \/ Atomic!Fail(p)
  <2>1. /\ pc[p] = "create" /\ UNCHANGED request
        /\ answer' = [answer EXCEPT ![p] = Error]
        /\ InsertFor(p) \/ UNCHANGED objects
    BY <1>6 DEF InsertFails
  <2>2. CASE InsertFor(p)
    BY <2>1, <2>2, InsertIsCreate DEF Atomic!Make
  <2>3. CASE UNCHANGED objects
    BY <2>1, <2>3 DEF Atomic!Fail, Atomic!Pending
  <2> QED
    BY <2>1, <2>2, <2>3
<1>7. ASSUME NEW p \in Callers, LoseReply(p) PROVE FALSE
  BY <1>7 DEF LoseReply
<1>8. ASSUME NEW p \in Callers, Return(p) PROVE Atomic!Return(p)
  BY <1>8 DEF Return, Atomic!Return
<1>9. ASSUME NEW p \in Callers, Die(p) PROVE Atomic!Die(p)
  <2>1. /\ pc[p] # "idle"
        /\ request' = [request EXCEPT ![p] = NoRequest]
        /\ answer' = [answer EXCEPT ![p] = NoAnswer]
        /\ (pc[p] = "create" /\ InsertFor(p)) \/ UNCHANGED objects
    BY <1>9 DEF Die
  <2>2. request[p] # NoRequest
    BY <2>1
  <2> QED
    BY <2>1, <2>2, InsertIsCreate DEF Atomic!Die
<1>10. CASE UNCHANGED vars
  BY <1>10 DEF vars
<1> QED
  BY <1>1, <1>2, <1>3, <1>4, <1>5, <1>6, <1>7, <1>8, <1>9, <1>10
     DEF Next, Step, AssertFails, Atomic!Next

\* cpl_lookup_or_create_object is one indivisible operation for its callers,
\* where no link breaks and nobody calls cpl_create_object.
THEOREM LookupOrCreateIsAtomic ==
  ~LinkFails /\ Creators = {} => (Spec => IsAtomic)
<1> SUFFICES ASSUME ~LinkFails, Creators = {} PROVE Spec => IsAtomic
  OBVIOUS
<1>1. Init => Atomic!Init
  BY DEF Init, Atomic!Init
<1>2. Init => UniqueInv
  BY DEF Init, UniqueInv, UniqueObject
<1>3. Inv /\ UniqueInv /\ [Next]_vars => UniqueInv'
  BY UniqueStep
<1>4. Inv /\ UniqueInv /\ [Next]_vars => [Atomic!Next]_(Atomic!vars)
  BY StepIsAtomicStep
<1> QED
  BY <1>1, <1>2, <1>3, <1>4, Invariance, PTL DEF Spec, IsAtomic, Atomic!Spec

=============================================================================
