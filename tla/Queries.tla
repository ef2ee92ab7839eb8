------------------------------ MODULE Queries ------------------------------
(***************************************************************************)
(* The queries of one client and the callbacks they call, over the pools   *)
(* of prepared statements and the connection they are prepared on.         *)
(*                                                                         *)
(* Every query of the ODBC backend is one routine with another SELECT in   *)
(* it: take a statement from its pool, bind, execute, fetch all rows into  *)
(* a local list (or one row into local variables), close the cursor, give  *)
(* the statement back, and only then call the caller's function, row by    *)
(* row.  So a callback may ask further queries.                            *)
(*                                                                         *)
(* SQLSTATE 08S01 makes the client reconnect: all statements are freed,    *)
(* and allocated and prepared anew.  "goto retry" then goes on with the    *)
(* local variable stmt, a statement that is freed: it is refused, or the   *)
(* driver manager has given its address to a new statement, of any pool.   *)
(*                                                                         *)
(* The client has one thread; what concurrent threads do to a pool is in   *)
(* StmtPool.  Other processes add objects and relations meanwhile.         *)
(***************************************************************************)
EXTENDS ProvStore, FiniteSets, Sequences

CONSTANTS
  N,            \* CPL_STMT_MAX
  Null,         \* NULL, in the place of a statement
  None,         \* an argument that a query does not have
  PrefixOf,     \* PrefixOf[n]: the prefix of a stored name
  Retries,      \* retries_left of SQL_START
  Additions,    \* the <<name, type>> pairs of objects that others create
  AddedTypes,   \* the types of relations that others add
  AskedTypes,   \* bound: the types that are asked for, AnyType among them
  Inner,        \* bound: the statements of queries asked in a callback
  Reused,       \* bound: the new statements that may get an old address
  MaxNesting,   \* bound: calls within calls
  MaxObjects,   \* bound: objects
  MaxRelations, \* bound: relations
  MaxLinks      \* bound: connections

VARIABLES
  pool,     \* pool[k]: the array k_stmts
  link,     \* the number of the connection, and of its statements
  dangling, \* has a reconnection failed?  The arrays are freed and stay so
  cursors,  \* the statements with an open cursor
  calls     \* the calls in progress, the innermost one last

vars == <<tables, pool, link, dangling, cursors, calls>>

Lists == {"lookup_object_nt_ext", "lookup_object_t_ext", "get_all_objects_nt",
  "get_all_objects_t", "get_object_ancestors", "get_object_descendants",
  "get_bundle_objects", "get_bundle_relations"}

Singles == {"lookup_relation", "has_immediate_ancestor", "get_object_info",
  "get_session_info"}

Statements == Lists \cup Singles

Handle == [stmt : Statements, link : 1..MaxLinks, place : 1..N]

Ids == {None} \cup (Nat \ {0})

Query == [stmt : Statements, id : Ids, other : Ids, name : Stored \cup {None},
          prefix : {PrefixOf[n] : n \in Stored} \cup {None},
          type : ObjectTypes \cup RelationTypes \cup {AnyType}]

ASSUME QueriesAssumption ==
  /\ N \in Nat \ {0}
  /\ Null \notin Handle
  /\ None \notin Nat \cup Stored
  /\ DOMAIN PrefixOf = Stored
  /\ Retries \in Nat
  /\ Additions \subseteq Stored \X ObjectTypes
  /\ AddedTypes \subseteq RelationTypes
  /\ AskedTypes \subseteq ObjectTypes \cup RelationTypes \cup {AnyType}
  /\ Inner \cup Reused \subseteq Statements
  /\ {MaxNesting, MaxObjects, MaxRelations} \subseteq Nat
  /\ MaxLinks \in Nat \ {0}

\* What ALLOC_STMT and PREPARE make of the arrays on connection number l.
Prepared(l) ==
  [k \in Statements |-> [i \in 1..N |-> [stmt |-> k, link |-> l, place |-> i]]]

Init ==
  /\ TablesInit
  /\ pool = Prepared(1)
  /\ link = 1
  /\ dangling = FALSE
  /\ cursors = {}
  /\ calls = <<>>

-----------------------------------------------------------------------------
(* The SELECTs.                                                            *)

ObjectRow(o) == [id |-> o.id, name |-> o.name, type |-> o.type]

Related(r, other) == [id |-> r.id, other |-> other, type |-> r.type]

\* lookup_object_nt_ext, lookup_object_t_ext.
Named(q, type) ==
  {o \in objects : o.name = q.name /\ type \in {o.type, AnyType}}

\* get_all_objects_nt, get_all_objects_t.
WithPrefix(q, type) ==
  {o \in objects : PrefixOf[o.name] = q.prefix /\ type \in {o.type, AnyType}}

Ancestors(id) == {Related(r, r.to) : r \in {s \in relations : s.from = id}}

\* Faulty variant of Descendants: the wrong end is told.
DescendantsSelf(id) == {Related(r, r.to) : r \in {s \in relations : s.to = id}}

Descendants(id) == {Related(r, r.from) : r \in {s \in relations : s.to = id}}

\* The rows that executing statement k with the arguments of q selects.
\* cpl_sessions is empty: nothing that runs creates a session.
Rows(k, q) ==
  CASE k = "lookup_object_nt_ext" -> {ObjectRow(o) : o \in Named(q, AnyType)}
    [] k = "lookup_object_t_ext" -> {ObjectRow(o) : o \in Named(q, q.type)}
    [] k = "get_all_objects_nt" -> {ObjectRow(o) : o \in WithPrefix(q, AnyType)}
    [] k = "get_all_objects_t" -> {ObjectRow(o) : o \in WithPrefix(q, q.type)}
    [] k = "get_object_info" ->
         {ObjectRow(o) : o \in {p \in objects : p.id = q.id}}
    [] k = "get_object_ancestors" -> Ancestors(q.id)
    [] k = "get_object_descendants" -> Descendants(q.id)
    [] k = "get_bundle_objects" -> {ObjectRow(o) : o \in BundleObjects(q.id)}
    [] k = "get_bundle_relations" ->
         {Related(r, r.to) : r \in BundleRelations(q.id)}
    [] k = "lookup_relation" ->
         {Related(r, r.to) : r \in {s \in relations :
            s.from = q.id /\ s.to = q.other /\ s.type = q.type}}
    [] k = "has_immediate_ancestor" ->
         {Related(r, r.to) : r \in {s \in relations :
            s.from = q.other /\ s.to = q.id}}
    [] k = "get_session_info" -> {}

\* The code of an answer without rows.  cpl_get_object_relations makes CPL_OK
\* of CPL_S_NO_DATA, and has_immediate_ancestor stores 0.
NoRows(k) ==
  CASE k \in {"get_object_ancestors", "get_object_descendants",
              "has_immediate_ancestor"} -> "ok"
    [] k \in {"get_all_objects_nt", "get_all_objects_t", "get_bundle_objects",
              "get_bundle_relations"} -> "no_data"
    [] OTHER -> "not_found"

-----------------------------------------------------------------------------
(* The calls.                                                              *)

Depth == Len(calls)
Top == calls[Depth]

\* The innermost call changes.
Becomes(c) == calls' = [calls EXCEPT ![Depth] = c]

NoArgs == [id |-> None, other |-> None, name |-> None, prefix |-> None,
           type |-> AnyType]

Asking(k, args) ==
  [stmt |-> k, id |-> args.id, other |-> args.other, name |-> args.name,
   prefix |-> args.prefix, type |-> args.type]

\* A call begins, by the program or by a callback.
Ask(k, args) ==
  /\ Depth < MaxNesting
  /\ Depth > 0 => Top.at = "callback" /\ k \in Inner
  /\ calls' = Append(calls,
       [query |-> Asking(k, args), at |-> "acquire", handle |-> Null,
        retries |-> Retries, rows |-> {}, told |-> {}, code |-> "ok",
        before |-> Rows(k, Asking(k, args)), reused |-> FALSE])
  /\ UNCHANGED <<tables, pool, link, dangling, cursors>>

ObjectIds == {o.id : o \in objects}

LookupObjectExt ==
  \E n \in Stored, t \in AskedTypes \ RelationTypes :
    Ask(IF t = AnyType THEN "lookup_object_nt_ext" ELSE "lookup_object_t_ext",
        [NoArgs EXCEPT !.name = n, !.type = t])

GetAllObjects ==
  \E n \in Stored, t \in AskedTypes \ RelationTypes :
    Ask(IF t = AnyType THEN "get_all_objects_nt" ELSE "get_all_objects_t",
        [NoArgs EXCEPT !.prefix = PrefixOf[n], !.type = t])

GetObjectInfo ==
  \E o \in ObjectIds : Ask("get_object_info", [NoArgs EXCEPT !.id = o])

GetSessionInfo == Ask("get_session_info", [NoArgs EXCEPT !.id = 1])

GetObjectRelations ==
  \E o \in ObjectIds, k \in {"get_object_ancestors", "get_object_descendants"} :
    Ask(k, [NoArgs EXCEPT !.id = o])

HasImmediateAncestor ==
  \E o, p \in ObjectIds :
    Ask("has_immediate_ancestor", [NoArgs EXCEPT !.id = o, !.other = p])

LookupRelation ==
  \E o, p \in ObjectIds, t \in AskedTypes \cap RelationTypes :
    Ask("lookup_relation", [NoArgs EXCEPT !.id = o, !.other = p, !.type = t])

GetBundleObjects ==
  \E o \in ObjectIds : Ask("get_bundle_objects", [NoArgs EXCEPT !.id = o])

GetBundleRelations ==
  \E o \in ObjectIds : Ask("get_bundle_relations", [NoArgs EXCEPT !.id = o])

-----------------------------------------------------------------------------
(* What all of them do.                                                    *)

At(label) == Depth > 0 /\ Top.at = label

\* cpl_acquire_stmt: the first statement of the array, or NULL.
Acquire ==
  /\ At("acquire") /\ ~dangling
  /\ LET array == pool[Top.query.stmt]
         full == {i \in 1..N : array[i] # Null}
     IN  IF full = {}
         THEN /\ Becomes([Top EXCEPT !.at = "execute"])
              /\ UNCHANGED pool
         ELSE LET first == CHOOSE i \in full : \A j \in full : i <= j
              IN  /\ Becomes([Top EXCEPT !.at = "execute", !.handle = array[first]])
                  /\ pool' = [pool EXCEPT ![Top.query.stmt][first] = Null]
  /\ UNCHANGED <<tables, link, dangling, cursors>>

\* Can the statement be executed?
Alive(h) == h # Null /\ h.link = link /\ h \notin cursors

\* SQLExecute, of whatever statement is at that address now.
Execute ==
  /\ At("execute")
  /\ Alive(Top.handle)
  /\ cursors' = cursors \cup {Top.handle}
  /\ Becomes([Top EXCEPT !.at = "fetch", !.rows = Rows(Top.handle.stmt, Top.query)])
  /\ UNCHANGED <<tables, pool, link, dangling>>

\* goto err: the statement is refused or fails.
ExecuteFails ==
  /\ At("execute")
  /\ Becomes([Top EXCEPT !.at = "release", !.code = "error"])
  /\ UNCHANGED <<tables, pool, link, dangling, cursors>>

\* Faulty variant of Reconnect: retries_left is set anew at the label retry.
ReconnectForever ==
  /\ At("execute") /\ Alive(Top.handle)
  /\ pool' = Prepared(link)
  /\ cursors' = {}
  /\ Becomes([Top EXCEPT !.retries = IF @ = Retries THEN 0 ELSE Retries])
  /\ UNCHANGED <<tables, link, dangling>>

\* goto retry, with h at the address of the call's statement.
Resumed(h) ==
  [Top EXCEPT !.handle = h, !.retries = @ - 1, !.reused = (h # Top.handle)]

\* SQLSTATE 08S01: cpl_odbc_disconnect, cpl_odbc_connect, goto retry.  The
\* address of stmt may be that of a new statement.
Reconnect ==
  /\ At("execute") /\ Alive(Top.handle)
  /\ Top.retries > 0
  /\ link < MaxLinks
  /\ link' = link + 1
  /\ pool' = Prepared(link + 1)
  /\ cursors' = {}
  /\ \E h \in {Top.handle} \cup
              {pool'[k][i] : k \in Reused, i \in 1..N} :
       Becomes(Resumed(h))
  /\ UNCHANGED <<tables, dangling>>

\* The connection cannot be made, or a statement not be prepared: goto err,
\* with the arrays freed.
ReconnectFails ==
  /\ At("execute") /\ Alive(Top.handle)
  /\ Top.retries > 0
  /\ dangling' = TRUE
  /\ cursors' = {}
  /\ Becomes([Top EXCEPT !.at = "release", !.code = "error"])
  /\ UNCHANGED <<tables, pool, link>>

\* Faulty variant of Fetched: "if" in the place of "while".
FetchedFirst(rows) == {r \in rows : \A s \in rows : r.id <= s.id}

\* The loop over SQLFetch.
Fetched(rows) == rows

\* The rows are in the local list, or the first one, of no given order, in
\* the local variables; the cursor is closed.
Fetch ==
  /\ At("fetch")
  /\ cursors' = cursors \ {Top.handle}
  /\ \/ /\ Top.query.stmt \in Lists
        /\ Becomes([Top EXCEPT !.at = "release", !.rows = Fetched(@)])
     \/ /\ Top.query.stmt \in Singles
        /\ IF Top.rows = {}
           THEN Becomes([Top EXCEPT !.at = "release"])
           ELSE \E r \in Top.rows :
                  Becomes([Top EXCEPT !.at = "release", !.rows = {r}])
  /\ UNCHANGED <<tables, pool, link, dangling>>

\* Faulty variant of FetchFails: "goto err" in the place of "goto err_close".
FetchFailsOpen ==
  /\ At("fetch")
  /\ Becomes([Top EXCEPT !.at = "release", !.rows = {}, !.code = "error"])
  /\ UNCHANGED <<tables, pool, link, dangling, cursors>>

\* goto err_close: the cursor is closed all the same.
FetchFails ==
  /\ At("fetch")
  /\ cursors' = cursors \ {Top.handle}
  /\ Becomes([Top EXCEPT !.at = "release", !.rows = {}, !.code = "error"])
  /\ UNCHANGED <<tables, pool, link, dangling>>

\* Faulty variant of GivenBack: the test for NULL is left out.
GivenBackUntested(k, h) == [pool EXCEPT ![k] = [i \in 1..N |-> h]]

\* cpl_release_stmt: every empty place gets the statement.
GivenBack(k, h) ==
  [pool EXCEPT ![k] = [i \in 1..N |-> IF @[i] = Null THEN h ELSE @[i]]]

\* What comes after the release.
Release ==
  /\ At("release") /\ ~dangling
  /\ pool' = GivenBack(Top.query.stmt, Top.handle)
  /\ Becomes(
       CASE Top.code = "error" -> [Top EXCEPT !.at = "done"]
         [] Top.code = "ok" /\ Top.rows = {} ->
              [Top EXCEPT !.at = "done", !.code = NoRows(Top.query.stmt)]
         [] Top.code = "ok" /\ Top.rows # {} /\ Top.query.stmt \in Singles ->
              [Top EXCEPT !.at = "done", !.rows = {}, !.told = Top.rows]
         [] OTHER -> [Top EXCEPT !.at = "callback"])
  /\ UNCHANGED <<tables, link, dangling, cursors>>

\* The callback is called for a row, and does what it does meanwhile; its
\* error ends the call.
Callback ==
  /\ At("callback")
  /\ \E r \in Top.rows, code \in {"ok", "callback_error"} :
       LET rest == Top.rows \ {r}
           over == rest = {} \/ code # "ok"
       IN  Becomes([Top EXCEPT !.told = @ \cup {r}, !.code = code,
                      !.rows = IF over THEN {} ELSE rest,
                      !.at = IF over THEN "done" ELSE "callback"])
  /\ UNCHANGED <<tables, pool, link, dangling, cursors>>

Return ==
  /\ At("done")
  /\ calls' = SubSeq(calls, 1, Depth - 1)
  /\ UNCHANGED <<tables, pool, link, dangling, cursors>>

Step ==
  \/ Acquire \/ Execute \/ ExecuteFails \/ Reconnect \/ ReconnectFails
  \/ Fetch \/ FetchFails \/ Release \/ Callback \/ Return

Call ==
  \/ LookupObjectExt \/ GetAllObjects \/ GetObjectInfo \/ GetSessionInfo
  \/ GetObjectRelations \/ HasImmediateAncestor \/ LookupRelation
  \/ GetBundleObjects \/ GetBundleRelations

\* Other processes add rows.
AddObject ==
  /\ nextObject <= MaxObjects
  /\ \E nt \in Additions, m \in Makers : InsertObject(nt[1], nt[2], m)
  /\ UNCHANGED <<pool, link, dangling, cursors, calls>>

AddRelation ==
  /\ nextRelation <= MaxRelations
  /\ \E from \in ObjectIds, t \in AddedTypes, m \in Makers :
       \E to \in IF t = "bundleRelation" THEN {r.id : r \in relations}
                 ELSE ObjectIds :
         InsertRelation(from, to, t, m)
  /\ UNCHANGED <<pool, link, dangling, cursors, calls>>

Next == Call \/ Step \/ AddObject \/ AddRelation

Spec == Init /\ [][Next]_vars

\* A client inside the library keeps running.
FairSpec == Spec /\ WF_vars(Step)

-----------------------------------------------------------------------------
(* Properties.                                                             *)

Codes == {"ok", "no_data", "not_found", "error", "callback_error"}

Calls == [query : Query, at : {"acquire", "execute", "fetch", "release",
            "callback", "done"}, handle : Handle \cup {Null},
          retries : 0..Retries, code : Codes, reused : BOOLEAN]

TypeOK ==
  /\ \A k \in Statements : \A i \in 1..N :
       pool[k][i] \in {h \in Handle : h.stmt = k} \cup {Null}
  /\ link \in 1..MaxLinks
  /\ dangling \in BOOLEAN
  /\ cursors \subseteq Handle
  /\ \A d \in 1..Depth :
       LET c == calls[d]
       IN  [query |-> c.query, at |-> c.at, handle |-> c.handle,
            retries |-> c.retries, code |-> c.code, reused |-> c.reused] \in Calls

\* Is the program, or a callback of it, running?
Outside == Depth = 0 \/ Top.at \in {"acquire", "callback", "done"}

\* Whenever the program or a callback runs, however the queries before have
\* failed and whatever reconnections they went through, all statements are
\* in their pools: each array holds N different statements, prepared on the
\* connection there is, and none of them has a cursor left open.  So a
\* callback may ask further queries, to any depth; a reconnection that fails
\* is the one exception.
PoolIsWhole ==
  Outside /\ ~dangling => pool = Prepared(link) /\ cursors = {}

\* A query that comes to an answer without having lost its statement tells
\* every row that was there when it began, and none that is not there; and it
\* denies that there are any only if there were none.
Answered ==
  \A d \in 1..Depth :
    LET c == calls[d]
        now == Rows(c.query.stmt, c.query)
    IN  c.at = "done" /\ ~c.reused /\ c.code # "error" =>
          /\ c.told \subseteq now
          /\ c.code \in {"no_data", "not_found"} => c.told = {}
          /\ c.code # "callback_error" /\ c.query.stmt \in Lists =>
               c.before \subseteq c.told
          /\ c.told = {} => c.before = {}

\* The callers of cpl_get_object_relations see a graph of objects: what they
\* are told of, but for memberships in bundles, leads to an object that is
\* there, of which the same query in the other direction leads back.  The ids
\* of relations are numbers of their own, so that a membership may come up for
\* an object of the number of its member; its type tells.
LineageIsSymmetric ==
  \A d \in 1..Depth :
    LET c == calls[d]
        o == c.query.id
    IN  ~c.reused =>
          \A row \in c.told :
            row.type # "bundleRelation" =>
              CASE c.query.stmt = "get_object_ancestors" ->
                     /\ row.other \in ObjectIds
                     /\ Related(row, o) \in Descendants(row.other)
                [] c.query.stmt = "get_object_descendants" ->
                     /\ row.other \in ObjectIds
                     /\ Related(row, o) \in Ancestors(row.other)
                [] OTHER -> TRUE

\* A query comes to its callbacks or its end: the retries run out.
CallsEnd ==
  \A d \in 1..MaxNesting :
    (Depth = d /\ At("acquire") /\ ~dangling) ~>
      (Depth = d /\ Top.at \in {"callback", "done"}) \/ dangling

\* "Execute the prepared statement" (cpl-odbc.cpp:174): what is executed is
\* the statement of the query.  Refuted by the retry after a reconnection.
ExecutesPrepared ==
  At("execute") =>
    Top.handle # Null /\ Top.handle.link = link
    /\ Top.handle.stmt = Top.query.stmt

=============================================================================
