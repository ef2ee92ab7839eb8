--------------------------- MODULE Queries_proofs ---------------------------
(***************************************************************************)
(* Theorems about Queries: type correctness, that the pools are whole      *)
(* whenever the program or one of its callbacks runs, and what queries     *)
(* answer, for any number of statements, reconnections and nested queries. *)
(***************************************************************************)
EXTENDS Queries, TLAPS

Positive == Nat \ {0}

ObjectRows == [id : Positive, name : Stored, type : ObjectTypes]
RelatedRows == [id : Positive, other : Positive, type : RelationTypes]
AnyRows == SUBSET (ObjectRows \cup RelatedRows)

\* All of a call.
WholeCall ==
  [query : Query,
   at : {"acquire", "execute", "fetch", "release", "callback", "done"},
   handle : Handle \cup {Null}, retries : 0..Retries,
   rows : AnyRows, told : AnyRows, code : Codes, before : AnyRows,
   reused : BOOLEAN]

TablesInv ==
  /\ objects \subseteq
       [id : Positive, name : Stored, type : ObjectTypes, maker : Makers]
  /\ relations \subseteq
       [id : Positive, from : Positive, to : Positive, type : RelationTypes,
        maker : Makers]
  /\ \A r \in relations :
       r.type # "bundleRelation" => {r.from, r.to} \subseteq ObjectIds
  /\ nextObject \in Positive /\ nextRelation \in Positive

\* All calls but the innermost one are in a callback.
CallsInv ==
  /\ calls \in Seq(WholeCall)
  /\ \A d \in 1..(Depth - 1) : calls[d].at = "callback"

LinkInv == link \in 1..MaxLinks /\ dangling \in BOOLEAN /\ cursors \subseteq Handle

PoolTyped ==
  \A k \in Statements : \A i \in 1..N :
    pool[k][i] \in {h \in Handle : h.stmt = k} \cup {Null}

\* Connection l, with the first statement of k out of its pool.
Taken(l, k) == [Prepared(l) EXCEPT ![k][1] = Null]

Inside == Depth > 0 /\ Top.at \in {"execute", "fetch", "release"}

\* A call inside the library has taken the first statement of its pool, or a
\* reconnection has filled the pools behind its back; the only open cursor is
\* that of the statement it has executed.
PoolInv ==
  ~dangling =>
    /\ PoolIsWhole
    /\ Inside =>
         /\ Top.handle # Null
         /\ \/ pool = Prepared(link)
            \/ /\ pool = Taken(link, Top.query.stmt)
               /\ Top.handle = Prepared(link)[Top.query.stmt][1]
         /\ cursors = IF Top.at = "fetch" THEN {Top.handle} ELSE {}

Inv == TablesInv /\ CallsInv /\ LinkInv /\ PoolTyped /\ PoolInv

-----------------------------------------------------------------------------
(* Statements, rows and calls.                                             *)

\* ALLOC_STMT and PREPARE fill all places.
LEMMA PreparedWhole ==
  ASSUME NEW l \in 1..MaxLinks, NEW k \in Statements, NEW i \in 1..N
  PROVE  /\ Prepared(l)[k][i] \in {h \in Handle : h.stmt = k}
         /\ Prepared(l)[k][i] # Null
<1>1. Prepared(l)[k][i] = [stmt |-> k, link |-> l, place |-> i]
  BY DEF Prepared
<1>2. Prepared(l)[k][i] \in Handle
  BY <1>1 DEF Handle
<1> QED
  BY <1>1, <1>2, QueriesAssumption

\* The rows of a SELECT.
LEMMA RowsTyped ==
  ASSUME TablesInv, NEW k \in Statements, NEW q
  PROVE  Rows(k, q) \in AnyRows
<1>1. \A O \in SUBSET objects : {ObjectRow(o) : o \in O} \in AnyRows
  BY DEF TablesInv, ObjectRow, AnyRows, ObjectRows
<1>2. \A S \in SUBSET relations : {Related(r, r.to) : r \in S} \in AnyRows
  BY DEF TablesInv, Related, AnyRows, RelatedRows
<1>3. \A S \in SUBSET relations : {Related(r, r.from) : r \in S} \in AnyRows
  BY DEF TablesInv, Related, AnyRows, RelatedRows
<1>4. /\ \A t : Named(q, t) \subseteq objects /\ WithPrefix(q, t) \subseteq objects
      /\ BundleObjects(q.id) \subseteq objects
      /\ BundleRelations(q.id) \subseteq relations
  BY DEF Named, WithPrefix, BundleObjects, BundleRelations
<1>5. Ancestors(q.id) \in AnyRows /\ Descendants(q.id) \in AnyRows
  BY <1>2, <1>3 DEF Ancestors, Descendants
<1>6. CASE k = "lookup_object_nt_ext"
  BY <1>1, <1>4, <1>6 DEF Rows
<1>7. CASE k = "lookup_object_t_ext"
  BY <1>1, <1>4, <1>7 DEF Rows
<1>8. CASE k = "get_all_objects_nt"
  BY <1>1, <1>4, <1>8 DEF Rows
<1>9. CASE k = "get_all_objects_t"
  BY <1>1, <1>4, <1>9 DEF Rows
<1>10. CASE k = "get_object_info"
  BY <1>1, <1>10 DEF Rows
<1>11. CASE k \in {"get_object_ancestors", "get_object_descendants"}
  BY <1>5, <1>11 DEF Rows
<1>12. CASE k = "get_bundle_objects"
  BY <1>1, <1>4, <1>12 DEF Rows
<1>13. CASE k = "get_bundle_relations"
  BY <1>2, <1>4, <1>13 DEF Rows
<1>14. CASE k = "lookup_relation"
  BY <1>2, <1>14 DEF Rows
<1>15. CASE k = "has_immediate_ancestor"
  BY <1>2, <1>15 DEF Rows
<1>16. CASE k = "get_session_info"
  BY <1>16 DEF Rows, AnyRows
<1> QED
  BY <1>6, <1>7, <1>8, <1>9, <1>10, <1>11, <1>12, <1>13, <1>14, <1>15, <1>16
     DEF Statements, Lists, Singles

LEMMA TopIsCall ==
  ASSUME CallsInv, Depth > 0
  PROVE  Top \in WholeCall /\ Depth \in Nat /\ Depth \in 1..Len(calls)
BY DEF CallsInv, Depth, Top

\* The innermost call changes, and no other.
LEMMA BecomesInv ==
  ASSUME CallsInv, Depth > 0, NEW c \in WholeCall, Becomes(c)
  PROVE  /\ CallsInv' /\ Depth' = Depth /\ Top' = c
         /\ \A d \in 1..(Depth - 1) : calls'[d] = calls[d]
<1>1. calls' = [calls EXCEPT ![Depth] = c] /\ Depth \in 1..Len(calls)
  BY TopIsCall DEF Becomes
<1>2. calls' \in Seq(WholeCall) /\ Len(calls') = Len(calls)
  BY <1>1 DEF CallsInv
<1>3. Depth' = Depth
  BY <1>2 DEF Depth
<1>4. Top' = c
  BY <1>1, <1>3 DEF Top, CallsInv, Depth
<1>5. \A d \in 1..(Depth - 1) : calls'[d] = calls[d]
  BY <1>1 DEF CallsInv, Depth
<1> QED
  BY <1>2, <1>3, <1>4, <1>5 DEF CallsInv

\* Whole pools, and pools without a call's statement.
LEMMA PoolTypes ==
  ASSUME NEW l \in 1..MaxLinks, NEW p,
         p = Prepared(l) \/ \E k \in Statements : p = Taken(l, k)
  PROVE  \A k \in Statements : \A i \in 1..N :
           p[k][i] \in {h \in Handle : h.stmt = k} \cup {Null}
<1>1. CASE p = Prepared(l)
  BY <1>1, PreparedWhole
<1>2. ASSUME NEW k \in Statements, p = Taken(l, k)
      PROVE  \A j \in Statements : \A i \in 1..N :
               p[j][i] \in {Prepared(l)[j][i], Null}
  BY <1>2 DEF Taken, Prepared
<1> QED
  BY <1>1, <1>2, PreparedWhole

-----------------------------------------------------------------------------
(* The steps of a call.                                                    *)

\* A call finds the first statement of its pool.
LEMMA Acquired ==
  ASSUME Inv, Acquire
  PROVE  LET h == Prepared(link)[Top.query.stmt][1]
         IN  /\ Becomes([Top EXCEPT !.at = "execute", !.handle = h])
             /\ pool' = Taken(link, Top.query.stmt)
<1> DEFINE k == Top.query.stmt
           full == {i \in 1..N : pool[k][i] # Null}
<1>1. Depth > 0 /\ Top.at = "acquire" /\ ~dangling
  BY DEF Acquire, At
<1>2. k \in Statements
  BY <1>1, TopIsCall DEF Inv, WholeCall, Query
<1>3. pool = Prepared(link) /\ link \in 1..MaxLinks
  BY <1>1 DEF Inv, PoolInv, PoolIsWhole, Outside, LinkInv
<1>4. full = 1..N /\ 1 \in 1..N
  BY <1>2, <1>3, PreparedWhole, QueriesAssumption
<1>5. (CHOOSE i \in full : \A j \in full : i <= j) = 1
  <2>1. \A i \in full : (\A j \in full : i <= j) <=> i = 1
    BY <1>4, QueriesAssumption
  <2> QED
    BY <1>4, <2>1
<1> QED
  BY <1>3, <1>4, <1>5 DEF Acquire, Taken

LEMMA AcquireInv == ASSUME Inv, Acquire PROVE Inv'
<1> DEFINE k == Top.query.stmt
           h == Prepared(link)[k][1]
           c == [Top EXCEPT !.at = "execute", !.handle = h]
<1>1. /\ Depth > 0 /\ Top.at = "acquire" /\ ~dangling
      /\ UNCHANGED <<tables, link, dangling, cursors>>
  BY DEF Acquire, At
<1>2. Top \in WholeCall /\ k \in Statements
  BY <1>1, TopIsCall DEF Inv, WholeCall, Query
<1>3. cursors = {} /\ link \in 1..MaxLinks
  BY <1>1 DEF Inv, PoolInv, PoolIsWhole, Outside, LinkInv
<1>4. Becomes(c) /\ pool' = Taken(link, k)
  BY Acquired
<1>5. h \in Handle /\ h # Null
  BY <1>2, <1>3, PreparedWhole, QueriesAssumption
<1>6. c \in WholeCall /\ c.at = "execute" /\ c.handle = h /\ c.query = Top.query
  BY <1>2, <1>5 DEF WholeCall
<1>7. CallsInv' /\ Depth' = Depth /\ Top' = c
  BY <1>1, <1>4, <1>6, BecomesInv DEF Inv
<1>8. PoolInv'
  BY <1>1, <1>3, <1>4, <1>5, <1>6, <1>7 DEF PoolInv, PoolIsWhole, Outside, Inside
<1>9. PoolTyped'
  BY <1>1, <1>2, <1>3, <1>4, PoolTypes DEF PoolTyped
<1>10. TablesInv' /\ LinkInv'
  BY <1>1 DEF Inv, TablesInv, ObjectIds, LinkInv, tables
<1> QED
  BY <1>7, <1>8, <1>9, <1>10 DEF Inv

LEMMA ExecuteInv == ASSUME Inv, Execute PROVE Inv'
<1> DEFINE c == [Top EXCEPT !.at = "fetch",
                            !.rows = Rows(Top.handle.stmt, Top.query)]
<1>1. /\ Depth > 0 /\ Top.at = "execute" /\ Top.handle # Null
      /\ UNCHANGED <<tables, pool, link, dangling>>
      /\ cursors' = cursors \cup {Top.handle} /\ Becomes(c)
  BY DEF Execute, At, Alive
<1>2. Top \in WholeCall /\ Top.handle \in Handle /\ Top.handle.stmt \in Statements
  BY <1>1, TopIsCall DEF Inv, WholeCall, Handle
<1>3. Rows(Top.handle.stmt, Top.query) \in AnyRows
  BY <1>2, RowsTyped DEF Inv
<1>4. c \in WholeCall /\ c.at = "fetch" /\ c.handle = Top.handle
      /\ c.query = Top.query
  BY <1>2, <1>3 DEF WholeCall
<1>5. CallsInv' /\ Depth' = Depth /\ Top' = c
  BY <1>1, <1>4, BecomesInv DEF Inv
<1>6. PoolInv'
  BY <1>1, <1>4, <1>5 DEF Inv, PoolInv, PoolIsWhole, Outside, Inside
<1>7. TablesInv' /\ LinkInv' /\ PoolTyped'
  BY <1>1, <1>2 DEF Inv, TablesInv, ObjectIds, LinkInv, PoolTyped, tables
<1> QED
  BY <1>5, <1>6, <1>7 DEF Inv

LEMMA ExecuteFailsInv == ASSUME Inv, ExecuteFails PROVE Inv'
<1> DEFINE c == [Top EXCEPT !.at = "release", !.code = "error"]
<1>1. /\ Depth > 0 /\ Top.at = "execute" /\ Becomes(c)
      /\ UNCHANGED <<tables, pool, link, dangling, cursors>>
  BY DEF ExecuteFails, At
<1>2. c \in WholeCall /\ c.at = "release" /\ c.handle = Top.handle
      /\ c.query = Top.query
  BY <1>1, TopIsCall DEF Inv, WholeCall, Codes
<1>3. CallsInv' /\ Depth' = Depth /\ Top' = c
  BY <1>1, <1>2, BecomesInv DEF Inv
<1>4. PoolInv'
  BY <1>1, <1>2, <1>3 DEF Inv, PoolInv, PoolIsWhole, Outside, Inside
<1>5. TablesInv' /\ LinkInv' /\ PoolTyped'
  BY <1>1 DEF Inv, TablesInv, ObjectIds, LinkInv, PoolTyped, tables
<1> QED
  BY <1>3, <1>4, <1>5 DEF Inv

LEMMA ResumedCall ==
  ASSUME Top \in WholeCall, Top.retries > 0, NEW h \in Handle
  PROVE  /\ Resumed(h) \in WholeCall /\ Resumed(h).at = Top.at
         /\ Resumed(h).handle = h /\ Resumed(h).query = Top.query
         /\ Resumed(h).before = Top.before /\ Resumed(h).rows = Top.rows
         /\ Resumed(h).told = Top.told /\ Resumed(h).code = Top.code
         /\ h # Top.handle => Resumed(h).reused
<1>1. Top.retries - 1 \in 0..Retries
  BY QueriesAssumption DEF WholeCall
<1>2. PICK b \in BOOLEAN : b <=> h # Top.handle
  OBVIOUS
<1>3. Resumed(h) = [Top EXCEPT !.handle = h, !.retries = Top.retries - 1,
                               !.reused = b]
  BY <1>2 DEF Resumed
<1>4. [Top EXCEPT !.handle = h, !.retries = Top.retries - 1, !.reused = b].reused
        = b
  BY DEF WholeCall
<1> QED
  BY <1>1, <1>2, <1>3, <1>4 DEF WholeCall

LEMMA ReconnectInv == ASSUME Inv, Reconnect PROVE Inv'
<1>1. /\ Depth > 0 /\ Top.at = "execute" /\ Top.handle # Null
      /\ Top.retries > 0 /\ link < MaxLinks /\ link' = link + 1
      /\ pool' = Prepared(link') /\ cursors' = {}
      /\ UNCHANGED <<tables, dangling>>
  BY DEF Reconnect, At, Alive
<1>2. link' \in 1..MaxLinks
  BY <1>1, QueriesAssumption DEF Inv, LinkInv
<1>3. PICK h \in {Top.handle} \cup {pool'[k][i] : k \in Reused, i \in 1..N} :
        Becomes(Resumed(h))
  BY DEF Reconnect
<1>4. Top \in WholeCall
  BY <1>1, TopIsCall DEF Inv
<1>5. \A k \in Statements, i \in 1..N :
        Prepared(link')[k][i] \in Handle /\ Prepared(link')[k][i] # Null
  BY <1>2, PreparedWhole
<1>6. h \in Handle /\ h # Null
  <2>1. CASE h = Top.handle
    BY <1>1, <1>4, <2>1 DEF WholeCall
  <2>2. CASE h # Top.handle
    BY <1>1, <1>3, <1>5, <2>2, QueriesAssumption
  <2> QED
    BY <2>1, <2>2
<1>7. Resumed(h) \in WholeCall /\ Resumed(h).at = "execute"
      /\ Resumed(h).handle = h
  BY <1>1, <1>4, <1>6, ResumedCall
<1>8. CallsInv' /\ Depth' = Depth /\ Top' = Resumed(h)
  BY <1>1, <1>3, <1>7, BecomesInv DEF Inv
<1>9. PoolInv'
  BY <1>1, <1>6, <1>7, <1>8 DEF PoolInv, PoolIsWhole, Outside, Inside
<1>10. PoolTyped'
  BY <1>1, <1>2, PoolTypes DEF PoolTyped
<1>11. TablesInv' /\ LinkInv'
  BY <1>1, <1>2 DEF Inv, TablesInv, ObjectIds, LinkInv, tables
<1> QED
  BY <1>8, <1>9, <1>10, <1>11 DEF Inv

LEMMA ReconnectFailsInv == ASSUME Inv, ReconnectFails PROVE Inv'
<1> DEFINE c == [Top EXCEPT !.at = "release", !.code = "error"]
<1>1. /\ Depth > 0 /\ Becomes(c) /\ dangling' /\ dangling' \in BOOLEAN
      /\ cursors' = {} /\ UNCHANGED <<tables, pool, link>>
  BY DEF ReconnectFails, At
<1>2. c \in WholeCall
  BY <1>1, TopIsCall DEF Inv, WholeCall, Codes
<1>3. CallsInv'
  BY <1>1, <1>2, BecomesInv DEF Inv
<1> QED
  BY <1>1, <1>3 DEF Inv, TablesInv, ObjectIds, LinkInv, PoolTyped, PoolInv, tables

\* What Fetch and FetchFails have in common.
LEMMA ClosedInv ==
  ASSUME Inv, At("fetch"), NEW rows \in AnyRows, NEW code \in Codes,
         Becomes([Top EXCEPT !.at = "release", !.rows = rows, !.code = code]),
         cursors' = cursors \ {Top.handle},
         UNCHANGED <<tables, pool, link, dangling>>
  PROVE  Inv'
<1> DEFINE c == [Top EXCEPT !.at = "release", !.rows = rows, !.code = code]
<1>1. Depth > 0 /\ Top.at = "fetch"
  BY DEF At
<1>2. c \in WholeCall /\ c.at = "release" /\ c.handle = Top.handle
      /\ c.query = Top.query
  BY <1>1, TopIsCall DEF Inv, WholeCall
<1>3. CallsInv' /\ Depth' = Depth /\ Top' = c
  BY <1>1, <1>2, BecomesInv DEF Inv
<1>4. PoolInv'
  BY <1>1, <1>2, <1>3 DEF Inv, PoolInv, PoolIsWhole, Outside, Inside
<1>5. TablesInv' /\ LinkInv' /\ PoolTyped'
  BY DEF Inv, TablesInv, ObjectIds, LinkInv, PoolTyped, tables
<1> QED
  BY <1>3, <1>4, <1>5 DEF Inv

LEMMA FetchInv == ASSUME Inv, Fetch \/ FetchFails PROVE Inv'
<1>1. At("fetch") /\ UNCHANGED <<tables, pool, link, dangling>>
      /\ cursors' = cursors \ {Top.handle}
  BY DEF Fetch, FetchFails
<1>2. Top \in WholeCall
  BY <1>1, TopIsCall DEF Inv, At
<1>3. \E rows \in AnyRows, code \in Codes :
        Becomes([Top EXCEPT !.at = "release", !.rows = rows, !.code = code])
  <2>1. Top.rows \in AnyRows /\ Top.code \in Codes
    BY <1>2 DEF WholeCall
  <2>2. [Top EXCEPT !.at = "release"]
          = [Top EXCEPT !.at = "release", !.rows = Top.rows, !.code = Top.code]
    BY <1>2 DEF WholeCall
  <2>3. \A rows : [Top EXCEPT !.at = "release", !.rows = rows]
          = [Top EXCEPT !.at = "release", !.rows = rows, !.code = Top.code]
    BY <1>2 DEF WholeCall
  <2>4. CASE Becomes([Top EXCEPT !.at = "release"])
    BY <2>1, <2>2, <2>4
  <2>5. CASE Becomes([Top EXCEPT !.at = "release", !.rows = Fetched(@)])
    BY <2>1, <2>3, <2>5 DEF Fetched
  <2>6. ASSUME NEW r \in Top.rows,
               Becomes([Top EXCEPT !.at = "release", !.rows = {r}])
        PROVE  \E rows \in AnyRows, code \in Codes : Becomes(
                 [Top EXCEPT !.at = "release", !.rows = rows, !.code = code])
    <3>1. {r} \in AnyRows
      BY <2>1 DEF AnyRows
    <3> QED
      BY <2>1, <2>3, <2>6, <3>1
  <2>7. CASE FetchFails
    BY <2>7 DEF FetchFails, AnyRows, Codes
  <2> QED
    BY <2>4, <2>5, <2>6, <2>7 DEF Fetch
<1> QED
  BY <1>1, <1>3, ClosedInv

LEMMA ReleaseInv == ASSUME Inv, Release PROVE Inv'
<1> DEFINE k == Top.query.stmt
<1>1. /\ Depth > 0 /\ Top.at = "release" /\ ~dangling
      /\ UNCHANGED <<tables, link, dangling, cursors>>
      /\ pool' = GivenBack(k, Top.handle)
  BY DEF Release, At
<1>2. Top \in WholeCall /\ k \in Statements
  BY <1>1, TopIsCall DEF Inv, WholeCall, Query
<1>3. link \in 1..MaxLinks /\ cursors = {}
      /\ \/ pool = Prepared(link)
         \/ pool = Taken(link, k) /\ Top.handle = Prepared(link)[k][1]
  BY <1>1 DEF Inv, PoolInv, Inside, LinkInv
<1>4. pool' = Prepared(link)
  <2>1. \A i \in 1..N : Prepared(link)[k][i] # Null
    BY <1>2, <1>3, PreparedWhole
  <2>2. /\ DOMAIN Prepared(link) = Statements
        /\ Prepared(link)[k] = [i \in 1..N |-> Prepared(link)[k][i]]
        /\ Prepared(link) = [j \in Statements |-> Prepared(link)[j]]
    BY <1>2 DEF Prepared
  <2>3. CASE pool = Prepared(link)
    BY <1>1, <1>2, <2>1, <2>2, <2>3 DEF GivenBack
  <2>4. CASE pool = Taken(link, k) /\ Top.handle = Prepared(link)[k][1]
    <3>1. 1 \in 1..N
      BY QueriesAssumption
    <3>2. \A i \in 1..N :
            pool[k][i] = IF i = 1 THEN Null ELSE Prepared(link)[k][i]
      BY <1>2, <2>2, <2>4, <3>1 DEF Taken
    <3>3. [i \in 1..N |-> IF pool[k][i] = Null THEN Top.handle ELSE pool[k][i]]
            = Prepared(link)[k]
      BY <2>1, <2>2, <2>4, <3>2
    <3>4. pool' = [pool EXCEPT ![k] = Prepared(link)[k]]
      BY <1>1, <1>2, <2>2, <2>4, <3>3 DEF GivenBack, Taken
    <3> QED
      BY <1>2, <2>2, <2>4, <3>4 DEF Taken
  <2> QED
    BY <1>3, <2>3, <2>4
<1>5. PICK c \in WholeCall : Becomes(c) /\ c.at \in {"done", "callback"}
  <2>1. NoRows(k) \in Codes /\ {} \in AnyRows
    BY DEF NoRows, Codes, AnyRows
  <2>2. [Top EXCEPT !.at = "done"] \in WholeCall
        /\ [Top EXCEPT !.at = "done"].at = "done"
    BY <1>2 DEF WholeCall
  <2>3. [Top EXCEPT !.at = "done", !.code = NoRows(k)] \in WholeCall
        /\ [Top EXCEPT !.at = "done", !.code = NoRows(k)].at = "done"
    BY <1>2, <2>1 DEF WholeCall
  <2>4. [Top EXCEPT !.at = "done", !.rows = {}, !.told = Top.rows] \in WholeCall
        /\ [Top EXCEPT !.at = "done", !.rows = {}, !.told = Top.rows].at = "done"
    BY <1>2, <2>1 DEF WholeCall
  <2>5. [Top EXCEPT !.at = "callback"] \in WholeCall
        /\ [Top EXCEPT !.at = "callback"].at = "callback"
    BY <1>2 DEF WholeCall
  <2> QED
    BY <2>2, <2>3, <2>4, <2>5 DEF Release
<1>6. CallsInv' /\ Depth' = Depth /\ Top' = c
  BY <1>1, <1>5, BecomesInv DEF Inv
<1>7. PoolInv'
  BY <1>1, <1>3, <1>4, <1>5, <1>6 DEF PoolInv, PoolIsWhole, Inside
<1>8. PoolTyped'
  BY <1>3, <1>4, PoolTypes DEF PoolTyped
<1>9. TablesInv' /\ LinkInv'
  BY <1>1 DEF Inv, TablesInv, ObjectIds, LinkInv, tables
<1> QED
  BY <1>6, <1>7, <1>8, <1>9 DEF Inv

LEMMA CallbackInv == ASSUME Inv, Callback PROVE Inv'
<1>1. /\ Depth > 0 /\ Top.at = "callback"
      /\ UNCHANGED <<tables, pool, link, dangling, cursors>>
  BY DEF Callback, At
<1>2. Top \in WholeCall
  BY <1>1, TopIsCall DEF Inv
<1>3. PICK c \in WholeCall : Becomes(c) /\ c.at \in {"done", "callback"}
  <2>1. PICK r \in Top.rows, code \in {"ok", "callback_error"} :
          \/ Becomes([Top EXCEPT !.told = @ \cup {r}, !.code = code,
                                 !.rows = {}, !.at = "done"])
          \/ Becomes([Top EXCEPT !.told = @ \cup {r}, !.code = code,
                                 !.rows = Top.rows \ {r}, !.at = "callback"])
    BY DEF Callback
  <2>2. Top.told \cup {r} \in AnyRows /\ Top.rows \ {r} \in AnyRows
        /\ {} \in AnyRows
    BY <1>2, <2>1 DEF WholeCall, AnyRows
  <2>3. code \in Codes
    BY <2>1 DEF Codes
  <2>4. \A rows \in AnyRows, at \in {"done", "callback"} :
          LET c == [Top EXCEPT !.told = @ \cup {r}, !.code = code,
                               !.rows = rows, !.at = at]
          IN  c \in WholeCall /\ c.at = at
    BY <1>2, <2>2, <2>3 DEF WholeCall
  <2> QED
    BY <2>1, <2>2, <2>4
<1>4. CallsInv' /\ Depth' = Depth /\ Top' = c
  BY <1>1, <1>3, BecomesInv DEF Inv
<1>5. PoolInv'
  BY <1>1, <1>3, <1>4 DEF Inv, PoolInv, PoolIsWhole, Outside, Inside
<1>6. TablesInv' /\ LinkInv' /\ PoolTyped'
  BY <1>1 DEF Inv, TablesInv, ObjectIds, LinkInv, PoolTyped, tables
<1> QED
  BY <1>4, <1>5, <1>6 DEF Inv

LEMMA ReturnInv == ASSUME Inv, Return PROVE Inv'
<1>1. /\ Depth > 0 /\ Top.at = "done" /\ calls' = SubSeq(calls, 1, Depth - 1)
      /\ UNCHANGED <<tables, pool, link, dangling, cursors>>
  BY DEF Return, At
<1>2. calls \in Seq(WholeCall) /\ Depth \in Nat /\ Depth = Len(calls)
  BY DEF Inv, CallsInv, Depth
<1>3. /\ calls' \in Seq(WholeCall) /\ Len(calls') = Depth - 1
      /\ \A d \in 1..(Depth - 1) : calls'[d] = calls[d]
  BY <1>1, <1>2
<1>4. Depth' = Depth - 1
  BY <1>3 DEF Depth
<1>5. CallsInv'
  BY <1>2, <1>3, <1>4 DEF Inv, CallsInv
<1>6. Depth' > 0 => Top'.at = "callback"
  BY <1>2, <1>3, <1>4 DEF Inv, CallsInv, Top
<1>7. PoolInv'
  BY <1>1, <1>2, <1>4, <1>6 DEF Inv, PoolInv, PoolIsWhole, Outside, Inside
<1>8. TablesInv' /\ LinkInv' /\ PoolTyped'
  BY <1>1 DEF Inv, TablesInv, ObjectIds, LinkInv, PoolTyped, tables
<1> QED
  BY <1>5, <1>7, <1>8 DEF Inv

-----------------------------------------------------------------------------
(* New calls, and the environment.                                         *)

LEMMA AskInv ==
  ASSUME Inv, NEW k \in Statements, NEW args, Asking(k, args) \in Query,
         Ask(k, args)
  PROVE  Inv'
<1> DEFINE c == [query |-> Asking(k, args), at |-> "acquire", handle |-> Null,
                 retries |-> Retries, rows |-> {}, told |-> {}, code |-> "ok",
                 before |-> Rows(k, Asking(k, args)), reused |-> FALSE]
<1>1. /\ Depth > 0 => Top.at = "callback"
      /\ calls' = Append(calls, c)
      /\ UNCHANGED <<tables, pool, link, dangling, cursors>>
  BY DEF Ask
<1>2. c \in WholeCall
  <2>1. Rows(k, Asking(k, args)) \in AnyRows /\ {} \in AnyRows
    BY RowsTyped DEF Inv, AnyRows
  <2>2. Retries \in 0..Retries
    BY QueriesAssumption
  <2> QED
    BY <2>1, <2>2 DEF WholeCall, Codes
<1>3. calls \in Seq(WholeCall) /\ Depth \in Nat /\ Depth = Len(calls)
  BY DEF Inv, CallsInv, Depth
<1>4. /\ calls' \in Seq(WholeCall) /\ Len(calls') = Depth + 1
      /\ calls'[Depth + 1] = c
      /\ \A d \in 1..Depth : calls'[d] = calls[d]
  BY <1>1, <1>2, <1>3
<1>5. Depth' = Depth + 1 /\ Top' = c
  BY <1>4 DEF Depth, Top
<1>6. CallsInv'
  <2>1. \A d \in 1..Depth : calls[d].at = "callback"
    BY <1>1, <1>3 DEF Inv, CallsInv, Top
  <2> QED
    BY <1>3, <1>4, <1>5, <2>1 DEF CallsInv
<1>7. Top'.at = "acquire"
  BY <1>5
<1>8. PoolInv'
  <2>1. Outside
    BY <1>1, <1>3 DEF Outside
  <2> QED
    BY <1>1, <1>7, <2>1 DEF Inv, PoolInv, PoolIsWhole, Inside
<1>9. TablesInv' /\ LinkInv' /\ PoolTyped'
  BY <1>1 DEF Inv, TablesInv, ObjectIds, LinkInv, PoolTyped, tables
<1> QED
  BY <1>6, <1>8, <1>9 DEF Inv

\* The arguments of the queries.
LEMMA CallAsks ==
  ASSUME TablesInv, Call
  PROVE  \E k \in Statements : \E args :
           Asking(k, args) \in Query /\ Ask(k, args)
<1> DEFINE Asked == \E k \in Statements : \E args :
                      Asking(k, args) \in Query /\ Ask(k, args)
<1>1. ObjectIds \subseteq Nat \ {0}
  BY DEF ObjectIds, TablesInv, Positive
<1> DEFINE AnyTypes == ObjectTypes \cup RelationTypes \cup {AnyType}
           Prefixes == {PrefixOf[n] : n \in Stored} \cup {None}
<1>2. ASSUME NEW k \in Statements, NEW args, Ask(k, args),
             args \in [id : Ids, other : Ids, name : Stored \cup {None},
                       prefix : Prefixes, type : AnyTypes]
      PROVE  Asked
  BY <1>2 DEF Asking, Query
<1>3. NoArgs \in [id : Ids, other : Ids, name : Stored \cup {None},
                  prefix : Prefixes, type : AnyTypes]
  BY DEF NoArgs, Ids
<1>4. AskedTypes \ RelationTypes \subseteq AnyTypes
  BY QueriesAssumption
<1>5. CASE LookupObjectExt
  BY <1>2, <1>3, <1>4, <1>5 DEF LookupObjectExt, Statements, Lists
<1>6. CASE GetAllObjects
  BY <1>2, <1>3, <1>4, <1>6 DEF GetAllObjects, Statements, Lists
<1>7. CASE GetObjectInfo
  BY <1>1, <1>2, <1>3, <1>7 DEF GetObjectInfo, Statements, Singles, Ids
<1>8. CASE GetSessionInfo
  BY <1>2, <1>3, <1>8 DEF GetSessionInfo, Statements, Singles, Ids
<1>9. CASE GetObjectRelations
  BY <1>1, <1>2, <1>3, <1>9 DEF GetObjectRelations, Statements, Lists, Ids
<1>10. CASE HasImmediateAncestor
  BY <1>1, <1>2, <1>3, <1>10 DEF HasImmediateAncestor, Statements, Singles, Ids
<1>11. CASE LookupRelation
  BY <1>1, <1>2, <1>3, <1>11 DEF LookupRelation, Statements, Singles, Ids
<1>12. CASE GetBundleObjects \/ GetBundleRelations
  BY <1>1, <1>2, <1>3, <1>12 DEF GetBundleObjects, GetBundleRelations,
     Statements, Lists, Ids
<1> QED
  BY <1>5, <1>6, <1>7, <1>8, <1>9, <1>10, <1>11, <1>12 DEF Call

\* What others insert changes nothing of the client's.
LEMMA OthersInv ==
  ASSUME Inv, TablesInv', UNCHANGED <<pool, link, dangling, cursors, calls>>
  PROVE  Inv'
BY DEF Inv, CallsInv, LinkInv, PoolTyped, PoolInv, PoolIsWhole, Outside, Inside,
   Depth, Top

LEMMA AddInv ==
  ASSUME Inv, AddObject \/ AddRelation
  PROVE  Inv'
<1>1. CASE AddObject
  <2>1. PICK nt \in Additions, m \in Makers : InsertObject(nt[1], nt[2], m)
    BY <1>1 DEF AddObject
  <2>2. nt[1] \in Stored /\ nt[2] \in ObjectTypes
    BY QueriesAssumption
  <2>3. objects \subseteq objects'
    BY <2>1 DEF InsertObject
  <2>4. ObjectIds \subseteq ObjectIds'
    BY <2>3 DEF ObjectIds
  <2>5. TablesInv'
    BY <2>1, <2>2, <2>4 DEF Inv, TablesInv, InsertObject, Positive
  <2> QED
    BY <1>1, <2>5, OthersInv DEF AddObject
<1>2. CASE AddRelation
  <2>1. PICK from \in Positive, to \in Positive, t \in RelationTypes,
             m \in Makers :
          /\ InsertRelation(from, to, t, m)
          /\ t # "bundleRelation" => {from, to} \subseteq ObjectIds
    BY <1>2, QueriesAssumption
       DEF AddRelation, Inv, TablesInv, ObjectIds
  <2>2. ObjectIds' = ObjectIds
    BY <2>1 DEF InsertRelation, ObjectIds
  <2>3. TablesInv'
    BY <2>1, <2>2 DEF Inv, TablesInv, InsertRelation, Positive
  <2> QED
    BY <1>2, <2>3, OthersInv DEF AddRelation
<1> QED
  BY <1>1, <1>2

-----------------------------------------------------------------------------
(* The theorems.                                                           *)

LEMMA InitInv == Init => Inv
<1> SUFFICES ASSUME Init PROVE Inv
  OBVIOUS
<1>1. link \in 1..MaxLinks /\ link = 1
  BY QueriesAssumption DEF Init
<1>2. PoolTyped
  BY <1>1, PoolTypes DEF Init, PoolTyped
<1>3. CallsInv /\ Depth = 0
  BY DEF Init, CallsInv, Depth
<1>4. PoolInv
  BY <1>1, <1>3 DEF Init, PoolInv, PoolIsWhole, Inside
<1>5. TablesInv /\ LinkInv
  <2>1. objects = {} /\ relations = {} /\ nextObject = 1 /\ nextRelation = 1
        /\ cursors = {} /\ dangling \in BOOLEAN
    BY DEF Init, TablesInit
  <2> QED
    BY <1>1, <2>1 DEF TablesInv, ObjectIds, LinkInv, Positive
<1> QED
  BY <1>2, <1>3, <1>4, <1>5 DEF Inv

\* The types of tables, pools and calls, and where the statements are.
THEOREM Invariance == Spec => []Inv
<1>1. Inv /\ [Next]_vars => Inv'
  <2> SUFFICES ASSUME Inv, [Next]_vars PROVE Inv'
    OBVIOUS
  <2>1. CASE Call
    BY <2>1, CallAsks, AskInv DEF Inv
  <2>2. CASE Step
    BY <2>2, AcquireInv, ExecuteInv, ExecuteFailsInv, ReconnectInv,
       ReconnectFailsInv, FetchInv, ReleaseInv, CallbackInv, ReturnInv DEF Step
  <2>3. CASE AddObject \/ AddRelation
    BY <2>3, AddInv
  <2>4. CASE UNCHANGED vars
    BY <2>4, OthersInv DEF vars, tables, Inv, TablesInv, ObjectIds
  <2> QED
    BY <2>1, <2>2, <2>3, <2>4 DEF Next
<1> QED
  BY InitInv, <1>1, PTL DEF Spec

\* Statements stay in pools of their own, and calls keep their types.
THEOREM TypeCorrect == Spec => []TypeOK
<1>1. Inv => TypeOK
  <2> SUFFICES ASSUME Inv PROVE TypeOK
    OBVIOUS
  <2>1. ASSUME NEW d \in 1..Depth
        PROVE  [query |-> calls[d].query, at |-> calls[d].at,
                handle |-> calls[d].handle, retries |-> calls[d].retries,
                code |-> calls[d].code, reused |-> calls[d].reused] \in Calls
    <3>1. calls[d] \in WholeCall
      BY DEF Inv, CallsInv, Depth
    <3> QED
      BY <3>1 DEF WholeCall, Calls
  <2> QED
    BY <2>1 DEF Inv, LinkInv, PoolTyped, TypeOK
<1> QED
  BY Invariance, <1>1, PTL

\* cpl_acquire_stmt, cpl_release_stmt and the reconnection: whenever the
\* program or a callback runs, all statements are in their pools, prepared on
\* the connection there is, with their cursors closed, unless a reconnection
\* has failed.
THEOREM PoolsAreWhole == Spec => []PoolIsWhole
<1>1. Inv => PoolIsWhole
  BY DEF Inv, PoolInv, PoolIsWhole
<1> QED
  BY Invariance, <1>1, PTL

-----------------------------------------------------------------------------
(* What the queries answer.                                                *)

\* The rows that the query of c selects by now.
Now(c) == Rows(c.query.stmt, c.query)

\* What c has fetched and told is there, and what was there is among it, but
\* for calls that go on with a statement of somebody else's.
Answering(c) ==
  /\ c.before \subseteq Now(c)
  /\ c.handle # Null => c.handle.link <= link
  /\ c.at \in {"acquire", "execute"} =>
       c.rows = {} /\ c.told = {} /\ c.code = "ok"
  /\ c.at = "acquire" => ~c.reused
  /\ ~c.reused =>
       /\ c.told \subseteq Now(c)
       /\ c.at = "execute" =>
            \/ c.handle = Null
            \/ c.handle.link # link
            \/ c.handle.stmt = c.query.stmt
       /\ c.at = "fetch" =>
            /\ c.told = {} /\ c.code = "ok"
            /\ c.rows \subseteq Now(c) /\ c.before \subseteq c.rows
       /\ c.at = "release" => c.told = {} /\ c.code \in {"ok", "error"}
       /\ c.at = "release" /\ c.code = "ok" =>
            /\ c.rows \subseteq Now(c)
            /\ c.query.stmt \in Lists => c.before \subseteq c.rows
            /\ c.rows = {} => c.before = {}
       /\ c.at = "callback" =>
            /\ c.code = "ok" /\ c.rows # {} /\ c.rows \subseteq Now(c)
            /\ c.before \subseteq c.told \cup c.rows
       /\ c.at = "done" /\ c.code # "error" =>
            /\ c.code \in {"no_data", "not_found"} => c.told = {}
            /\ c.code # "callback_error" /\ c.query.stmt \in Lists =>
                 c.before \subseteq c.told
            /\ c.told = {} => c.before = {}

AnswersInv == \A d \in 1..Depth : Answering(calls[d])

\* Rows only come.
LEMMA RowsGrow ==
  ASSUME objects \subseteq objects', relations \subseteq relations',
         NEW k \in Statements, NEW q
  PROVE  Rows(k, q) \subseteq Rows(k, q)'
<1>1. /\ \A t : Named(q, t) \subseteq Named(q, t)'
      /\ \A t : WithPrefix(q, t) \subseteq WithPrefix(q, t)'
  BY DEF Named, WithPrefix
<1>2. BundleRelations(q.id) \subseteq BundleRelations(q.id)'
  BY DEF BundleRelations
<1>3. BundleObjects(q.id) \subseteq BundleObjects(q.id)'
  BY <1>2 DEF BundleObjects
<1>4. Ancestors(q.id) \subseteq Ancestors(q.id)'
      /\ Descendants(q.id) \subseteq Descendants(q.id)'
  BY DEF Ancestors, Descendants, Related
<1>5. CASE k = "lookup_object_nt_ext"
  BY <1>1, <1>5 DEF Rows, ObjectRow
<1>6. CASE k = "lookup_object_t_ext"
  BY <1>1, <1>6 DEF Rows, ObjectRow
<1>7. CASE k = "get_all_objects_nt"
  BY <1>1, <1>7 DEF Rows, ObjectRow
<1>8. CASE k = "get_all_objects_t"
  BY <1>1, <1>8 DEF Rows, ObjectRow
<1>9. CASE k = "get_object_info"
  BY <1>9 DEF Rows, ObjectRow
<1>10. CASE k \in {"get_object_ancestors", "get_object_descendants"}
  BY <1>4, <1>10 DEF Rows
<1>11. CASE k = "get_bundle_objects"
  BY <1>3, <1>11 DEF Rows, ObjectRow
<1>12. CASE k = "get_bundle_relations"
  BY <1>2, <1>12 DEF Rows, Related
<1>13. CASE k = "lookup_relation"
  BY <1>13 DEF Rows, Related
<1>14. CASE k = "has_immediate_ancestor"
  BY <1>14 DEF Rows, Related
<1>15. CASE k = "get_session_info"
  BY <1>15 DEF Rows
<1> QED
  BY <1>5, <1>6, <1>7, <1>8, <1>9, <1>10, <1>11, <1>12, <1>13, <1>14, <1>15
     DEF Statements, Lists, Singles

\* What others add takes nothing from a call, and a reconnection takes nothing
\* from a call that is in a callback.
LEMMA AnsweringKept ==
  ASSUME NEW c \in WholeCall, Answering(c), link \in Nat, link' \in Nat,
         objects \subseteq objects', relations \subseteq relations',
         link' = link \/ (c.at = "callback" /\ link <= link')
  PROVE  Answering(c)'
<1>1. Now(c) \subseteq Now(c)'
  BY RowsGrow DEF Now, WholeCall, Query
<1>2. c.handle # Null => c.handle.link \in Nat
  BY DEF WholeCall, Handle
<1>3. c.handle # Null => c.handle.link <= link'
  BY <1>2 DEF Answering
<1> QED
  BY <1>1, <1>3 DEF Answering

\* The innermost call becomes c, and the others are in callbacks.
LEMMA BecomesAnswers ==
  ASSUME Inv, AnswersInv, Inv', UNCHANGED tables, Depth > 0, Top \in WholeCall,
         NEW c \in WholeCall, Becomes(c), link <= link', Answering(c)'
  PROVE  AnswersInv'
<1>1. /\ Depth' = Depth /\ Top' = c /\ Depth \in Nat
      /\ \A d \in 1..(Depth - 1) : calls'[d] = calls[d]
  BY BecomesInv, TopIsCall DEF Inv
<1>2. link \in Nat /\ link' \in Nat
  BY DEF Inv, LinkInv
<1>3. ASSUME NEW d \in 1..(Depth - 1)
      PROVE  Answering(calls[d])'
  <2>1. calls[d].at = "callback" /\ calls[d] \in WholeCall /\ Answering(calls[d])
    BY DEF Inv, CallsInv, AnswersInv, Depth
  <2>2. calls'[d] = calls[d]
    BY <1>1
  <2> DEFINE e == calls[d]
  <2>3. \A f \in WholeCall : f.at = "callback" /\ Answering(f) => Answering(f)'
    BY <1>2, AnsweringKept DEF tables
  <2> QED
    BY <2>1, <2>2, <2>3
<1> QED
  BY <1>1, <1>3 DEF AnswersInv, Top

\* What is known of the innermost call.
LEMMA TopAnswers ==
  ASSUME Inv, AnswersInv, Depth > 0
  PROVE  /\ Top \in WholeCall /\ Top.query.stmt \in Statements
         /\ Answering(Top) /\ link \in Nat
<1>1. Top \in WholeCall /\ Depth \in Nat
  BY TopIsCall DEF Inv
<1>2. Answering(Top)
  BY <1>1 DEF AnswersInv, Top
<1> QED
  BY <1>1, <1>2 DEF WholeCall, Query, Inv, LinkInv

\* Rows that are there stay there when the tables are left alone.
LEMMA NowStays ==
  ASSUME UNCHANGED tables, NEW c, c.query.stmt \in Statements
  PROVE  Now(c) \subseteq Now(c)'
BY RowsGrow DEF Now, tables

LEMMA AcquireAnswers ==
  ASSUME Inv, AnswersInv, Inv', Acquire
  PROVE  AnswersInv'
<1>1. /\ Depth > 0 /\ Top.at = "acquire" /\ ~dangling
      /\ UNCHANGED <<tables, link>>
  BY DEF Acquire, At
<1>2. /\ Top \in WholeCall /\ Top.query.stmt \in Statements
      /\ Answering(Top) /\ link \in Nat
  BY <1>1, TopAnswers
<1>3. PICK h : Becomes([Top EXCEPT !.at = "execute", !.handle = h])
               /\ h = Prepared(link)[Top.query.stmt][1]
  BY <1>1, Acquired
<1>4. h \in Handle /\ h.stmt = Top.query.stmt /\ h.link = link
  BY <1>2, <1>3, QueriesAssumption, PreparedWhole DEF Inv, LinkInv, Prepared
<1>5. PICK c : c = [Top EXCEPT !.at = "execute", !.handle = h]
  OBVIOUS
<1>6. /\ c \in WholeCall /\ c.at = "execute" /\ c.handle = h
      /\ c.query = Top.query /\ c.before = Top.before /\ c.rows = Top.rows
      /\ c.told = Top.told /\ c.code = Top.code
  BY <1>2, <1>4, <1>5 DEF WholeCall
<1>7. Now(c) = Now(Top) /\ Now(c) \subseteq Now(c)'
  BY <1>1, <1>2, <1>6, NowStays DEF Now
<1>8. Answering(c)'
  BY <1>1, <1>2, <1>4, <1>6, <1>7 DEF Answering
<1> QED
  BY <1>1, <1>2, <1>3, <1>5, <1>6, <1>8, BecomesAnswers

LEMMA ExecuteAnswers ==
  ASSUME Inv, AnswersInv, Inv', Execute
  PROVE  AnswersInv'
<1>1. /\ Depth > 0 /\ Top.at = "execute" /\ Top.handle # Null
      /\ Top.handle.link = link /\ UNCHANGED <<tables, link>>
      /\ Becomes([Top EXCEPT !.at = "fetch",
                             !.rows = Rows(Top.handle.stmt, Top.query)])
  BY DEF Execute, At, Alive
<1>2. /\ Top \in WholeCall /\ Top.query.stmt \in Statements
      /\ Answering(Top) /\ link \in Nat
  BY <1>1, TopAnswers
<1>3. PICK c : c = [Top EXCEPT !.at = "fetch",
                               !.rows = Rows(Top.handle.stmt, Top.query)]
  OBVIOUS
<1>4. Rows(Top.handle.stmt, Top.query) \in AnyRows
  BY <1>1, <1>2, RowsTyped DEF Inv, WholeCall, Handle
<1>5. /\ c \in WholeCall /\ c.at = "fetch" /\ c.handle = Top.handle
      /\ c.query = Top.query /\ c.before = Top.before
      /\ c.rows = Rows(Top.handle.stmt, Top.query)
      /\ c.told = Top.told /\ c.code = Top.code /\ c.reused = Top.reused
  BY <1>2, <1>3, <1>4 DEF WholeCall
<1>6. Now(c) = Now(Top) /\ Now(c) \subseteq Now(c)'
  BY <1>1, <1>2, <1>5, NowStays DEF Now
<1>7. ~c.reused => c.rows = Now(c)
  BY <1>1, <1>2, <1>5 DEF Answering, Now
<1>8. Answering(c)'
  BY <1>1, <1>2, <1>5, <1>6, <1>7 DEF Answering
<1> QED
  BY <1>1, <1>2, <1>3, <1>5, <1>8, BecomesAnswers

\* The statement fails, or cannot be executed again.
LEMMA FailsAnswers ==
  ASSUME Inv, AnswersInv, Inv', ExecuteFails \/ ReconnectFails
  PROVE  AnswersInv'
<1>1. /\ Depth > 0 /\ Top.at = "execute" /\ UNCHANGED <<tables, link>>
      /\ Becomes([Top EXCEPT !.at = "release", !.code = "error"])
  BY DEF ExecuteFails, ReconnectFails, At
<1>2. /\ Top \in WholeCall /\ Top.query.stmt \in Statements
      /\ Answering(Top) /\ link \in Nat
  BY <1>1, TopAnswers
<1>3. PICK c : c = [Top EXCEPT !.at = "release", !.code = "error"]
  OBVIOUS
<1>4. /\ c \in WholeCall /\ c.at = "release" /\ c.handle = Top.handle
      /\ c.query = Top.query /\ c.before = Top.before
      /\ c.told = Top.told /\ c.code = "error" /\ c.reused = Top.reused
  BY <1>2, <1>3 DEF WholeCall, Codes
<1>5. Now(c) = Now(Top) /\ Now(c) \subseteq Now(c)'
  BY <1>1, <1>2, <1>4, NowStays DEF Now
<1>6. Answering(c)'
  BY <1>1, <1>2, <1>4, <1>5 DEF Answering
<1> QED
  BY <1>1, <1>2, <1>3, <1>4, <1>6, BecomesAnswers

LEMMA ReconnectAnswers ==
  ASSUME Inv, AnswersInv, Inv', Reconnect
  PROVE  AnswersInv'
<1>1. /\ Depth > 0 /\ Top.at = "execute" /\ Top.handle # Null
      /\ Top.retries > 0 /\ link' = link + 1
      /\ pool' = Prepared(link') /\ UNCHANGED tables
  BY DEF Reconnect, At, Alive
<1>2. /\ Top \in WholeCall /\ Top.query.stmt \in Statements
      /\ Answering(Top) /\ link \in Nat
  BY <1>1, TopAnswers
<1>3. PICK h \in {Top.handle} \cup {pool'[k][i] : k \in Reused, i \in 1..N} :
        Becomes(Resumed(h))
  BY DEF Reconnect
<1>4. h \in Handle /\ h.link <= link' /\ (h = Top.handle => h.link # link')
      /\ h # Null
  <2>1. CASE h = Top.handle
    <3>1. h \in Handle /\ h.link <= link
      BY <1>1, <1>2, <2>1 DEF WholeCall, Answering
    <3>2. h.link \in Nat
      BY <3>1 DEF Handle
    <3> QED
      BY <1>1, <1>2, <2>1, <3>1, <3>2
  <2>2. CASE h # Top.handle
    <3>1. PICK k \in Statements, i \in 1..N : h = Prepared(link')[k][i]
      BY <1>1, <1>3, <2>2, QueriesAssumption
    <3>2. link' \in 1..MaxLinks
      BY DEF Inv, LinkInv
    <3>3. h \in Handle /\ h # Null
      BY <3>1, <3>2, PreparedWhole
    <3>4. h.link = link'
      BY <3>1 DEF Prepared
    <3> QED
      BY <1>1, <1>2, <2>2, <3>3, <3>4
  <2> QED
    BY <2>1, <2>2
<1>5. PICK c : c = Resumed(h)
  OBVIOUS
<1>6. /\ c \in WholeCall /\ c.at = "execute" /\ c.handle = h
  BY <1>1, <1>2, <1>4, <1>5, ResumedCall
<1>7. /\ c.query = Top.query /\ c.before = Top.before /\ c.rows = Top.rows
      /\ c.told = Top.told /\ c.code = Top.code
      /\ h # Top.handle => c.reused
  BY <1>1, <1>2, <1>4, <1>5, ResumedCall
<1>8. Now(c) = Now(Top) /\ Now(c) \subseteq Now(c)'
  BY <1>1, <1>2, <1>7, NowStays DEF Now
<1>9. Answering(c)'
  BY <1>1, <1>2, <1>4, <1>6, <1>7, <1>8 DEF Answering
<1> QED
  BY <1>1, <1>2, <1>3, <1>5, <1>6, <1>9, BecomesAnswers

\* The rows are fetched, or the first one.
LEMMA FetchAnswers ==
  ASSUME Inv, AnswersInv, Inv', Fetch
  PROVE  AnswersInv'
<1>1. Depth > 0 /\ Top.at = "fetch" /\ UNCHANGED <<tables, link>>
  BY DEF Fetch, At
<1>2. /\ Top \in WholeCall /\ Top.query.stmt \in Statements
      /\ Answering(Top) /\ link \in Nat
  BY <1>1, TopAnswers
<1>3. PICK rows : /\ Becomes([Top EXCEPT !.at = "release", !.rows = rows])
                  /\ rows \subseteq Top.rows /\ (rows = {} => Top.rows = {})
                  /\ Top.query.stmt \in Lists => rows = Top.rows
  <2>1. [Top EXCEPT !.at = "release"]
          = [Top EXCEPT !.at = "release", !.rows = Top.rows]
    BY <1>2 DEF WholeCall
  <2>2. CASE Top.query.stmt \in Lists
             /\ Becomes([Top EXCEPT !.at = "release", !.rows = Fetched(@)])
    BY <2>2 DEF Fetched
  <2>3. CASE /\ Top.query.stmt \in Singles /\ Top.rows = {}
             /\ Becomes([Top EXCEPT !.at = "release"])
    BY <2>1, <2>3
  <2>4. ASSUME Top.query.stmt \in Singles, NEW r \in Top.rows,
               Becomes([Top EXCEPT !.at = "release", !.rows = {r}])
        PROVE  \E rows :
                 /\ Becomes([Top EXCEPT !.at = "release", !.rows = rows])
                 /\ rows \subseteq Top.rows /\ (rows = {} => Top.rows = {})
                 /\ Top.query.stmt \in Lists => rows = Top.rows
    <3>1. Top.query.stmt \notin Lists
      BY <2>4 DEF Lists, Singles
    <3>2. {r} \subseteq Top.rows /\ {r} # {}
      OBVIOUS
    <3> QED
      BY <2>4, <3>1, <3>2
  <2> QED
    BY <2>2, <2>3, <2>4 DEF Fetch
<1>4. PICK c : c = [Top EXCEPT !.at = "release", !.rows = rows]
  OBVIOUS
<1>5. rows \in AnyRows
  BY <1>2, <1>3 DEF WholeCall, AnyRows
<1>6. /\ c \in WholeCall /\ c.at = "release" /\ c.handle = Top.handle
      /\ c.query = Top.query /\ c.before = Top.before /\ c.rows = rows
      /\ c.told = Top.told /\ c.code = Top.code /\ c.reused = Top.reused
  BY <1>2, <1>4, <1>5 DEF WholeCall
<1>7. Now(c) = Now(Top) /\ Now(c) \subseteq Now(c)'
  BY <1>1, <1>2, <1>6, NowStays DEF Now
<1>8. Answering(c)'
  BY <1>1, <1>2, <1>3, <1>6, <1>7 DEF Answering
<1> QED
  BY <1>1, <1>2, <1>3, <1>4, <1>6, <1>8, BecomesAnswers

LEMMA FetchFailsAnswers ==
  ASSUME Inv, AnswersInv, Inv', FetchFails
  PROVE  AnswersInv'
<1>1. /\ Depth > 0 /\ Top.at = "fetch" /\ UNCHANGED <<tables, link>>
      /\ Becomes([Top EXCEPT !.at = "release", !.rows = {}, !.code = "error"])
  BY DEF FetchFails, At
<1>2. /\ Top \in WholeCall /\ Top.query.stmt \in Statements
      /\ Answering(Top) /\ link \in Nat
  BY <1>1, TopAnswers
<1>3. PICK c : c = [Top EXCEPT !.at = "release", !.rows = {}, !.code = "error"]
  OBVIOUS
<1>4. /\ c \in WholeCall /\ c.at = "release" /\ c.handle = Top.handle
      /\ c.query = Top.query /\ c.before = Top.before
      /\ c.told = Top.told /\ c.code = "error" /\ c.reused = Top.reused
  BY <1>2, <1>3 DEF WholeCall, Codes, AnyRows
<1>5. Now(c) = Now(Top) /\ Now(c) \subseteq Now(c)'
  BY <1>1, <1>2, <1>4, NowStays DEF Now
<1>6. Answering(c)'
  BY <1>1, <1>2, <1>4, <1>5 DEF Answering
<1> QED
  BY <1>1, <1>2, <1>3, <1>4, <1>6, BecomesAnswers

\* What is left after the release of the statement.
LEMMA ReleaseAnswers ==
  ASSUME Inv, AnswersInv, Inv', Release
  PROVE  AnswersInv'
<1>1. Depth > 0 /\ Top.at = "release" /\ UNCHANGED <<tables, link>>
  BY DEF Release, At
<1>2. /\ Top \in WholeCall /\ Top.query.stmt \in Statements
      /\ Answering(Top) /\ link \in Nat
  BY <1>1, TopAnswers
<1>3. {} \in AnyRows /\ NoRows(Top.query.stmt) \in Codes \ {"error", "callback_error"}
  BY DEF AnyRows, NoRows, Codes
<1>4. \A c : c.query = Top.query =>
             Now(c) = Now(Top) /\ Now(c) \subseteq Now(c)'
  BY <1>1, <1>2, NowStays DEF Now
<1>5. ASSUME NEW c, Becomes(c), c \in WholeCall, Answering(c)'
      PROVE  AnswersInv'
  BY <1>1, <1>2, <1>5, BecomesAnswers
<1>6. CASE Top.code = "error"
  <2>1. PICK c : c = [Top EXCEPT !.at = "done"]
    OBVIOUS
  <2>2. /\ c \in WholeCall /\ c.at = "done" /\ c.handle = Top.handle
        /\ c.query = Top.query /\ c.before = Top.before
        /\ c.told = Top.told /\ c.code = "error" /\ c.reused = Top.reused
    BY <1>2, <1>6, <2>1 DEF WholeCall
  <2>3. Answering(c)'
    <3>1. Now(c) = Now(Top) /\ Now(c) \subseteq Now(c)'
      BY <1>4, <2>2
    <3> QED
      BY <1>1, <1>2, <2>2, <3>1 DEF Answering
  <2> QED
    BY <1>5, <1>6, <2>1, <2>2, <2>3 DEF Release
<1>7. CASE Top.code = "ok" /\ Top.rows = {}
  <2>1. PICK c : c = [Top EXCEPT !.at = "done", !.code = NoRows(Top.query.stmt)]
    OBVIOUS
  <2>2. /\ c \in WholeCall /\ c.at = "done" /\ c.handle = Top.handle
        /\ c.query = Top.query /\ c.before = Top.before /\ c.told = Top.told
        /\ c.code = NoRows(Top.query.stmt) /\ c.reused = Top.reused
    BY <1>2, <1>3, <2>1 DEF WholeCall
  <2>3. ~c.reused => c.told = {} /\ c.before = {}
    BY <1>1, <1>2, <1>7, <2>2 DEF Answering
  <2>4. Answering(c)'
    <3>1. Now(c) = Now(Top) /\ Now(c) \subseteq Now(c)'
      BY <1>4, <2>2
    <3> QED
      BY <1>1, <1>2, <2>2, <2>3, <3>1 DEF Answering
  <2>5. Becomes(c)
    BY <1>7, <2>1 DEF Release
  <2> QED
    BY <1>5, <2>2, <2>4, <2>5
<1>8. CASE Top.code = "ok" /\ Top.rows # {} /\ Top.query.stmt \in Singles
  <2>1. PICK c : c = [Top EXCEPT !.at = "done", !.rows = {}, !.told = Top.rows]
    OBVIOUS
  <2>2. /\ c \in WholeCall /\ c.at = "done" /\ c.handle = Top.handle
        /\ c.query = Top.query /\ c.before = Top.before /\ c.told = Top.rows
        /\ c.code = "ok" /\ c.reused = Top.reused
    BY <1>2, <1>3, <1>8, <2>1 DEF WholeCall
  <2>3. c.query.stmt \notin Lists
    BY <1>8, <2>2 DEF Lists, Singles
  <2>4. Answering(c)'
    <3>1. Now(c) = Now(Top) /\ Now(c) \subseteq Now(c)'
      BY <1>4, <2>2
    <3> QED
      BY <1>1, <1>2, <1>8, <2>2, <2>3, <3>1 DEF Answering
  <2>5. Becomes(c)
    BY <1>8, <2>1 DEF Release
  <2> QED
    BY <1>5, <2>2, <2>4, <2>5
<1>9. CASE /\ Top.code # "error"
           /\ ~(Top.code = "ok" /\ Top.rows = {})
           /\ ~(Top.code = "ok" /\ Top.rows # {} /\ Top.query.stmt \in Singles)
  <2>1. PICK c : c = [Top EXCEPT !.at = "callback"]
    OBVIOUS
  <2>2. /\ c \in WholeCall /\ c.at = "callback" /\ c.handle = Top.handle
        /\ c.query = Top.query /\ c.before = Top.before /\ c.told = Top.told
        /\ c.rows = Top.rows /\ c.code = Top.code /\ c.reused = Top.reused
    BY <1>2, <2>1 DEF WholeCall
  <2>3. Top.query.stmt \in Lists \/ Top.query.stmt \in Singles
    BY <1>2 DEF Statements
  <2>4. Answering(c)'
    <3>1. Now(c) = Now(Top) /\ Now(c) \subseteq Now(c)'
      BY <1>4, <2>2
    <3> QED
      BY <1>1, <1>2, <1>9, <2>2, <2>3, <3>1 DEF Answering
  <2>5. Becomes(c)
    BY <1>9, <2>1 DEF Release
  <2> QED
    BY <1>5, <2>2, <2>4, <2>5
<1> QED
  BY <1>6, <1>7, <1>8, <1>9

LEMMA CallbackAnswers ==
  ASSUME Inv, AnswersInv, Inv', Callback
  PROVE  AnswersInv'
<1>1. Depth > 0 /\ Top.at = "callback" /\ UNCHANGED <<tables, link>>
  BY DEF Callback, At
<1>2. /\ Top \in WholeCall /\ Top.query.stmt \in Statements
      /\ Answering(Top) /\ link \in Nat
  BY <1>1, TopAnswers
<1>3. PICK r \in Top.rows, code \in {"ok", "callback_error"} : \E rows, at :
        /\ Becomes([Top EXCEPT !.told = Top.told \cup {r}, !.code = code,
                               !.rows = rows, !.at = at])
        /\ \/ /\ at = "done" /\ rows = {}
              /\ Top.rows \ {r} = {} \/ code # "ok"
           \/ /\ at = "callback" /\ rows = Top.rows \ {r} /\ rows # {}
              /\ code = "ok"
  BY DEF Callback
<1>4. PICK rows, at :
        /\ r \in Top.rows /\ code \in {"ok", "callback_error"}
        /\ Becomes([Top EXCEPT !.told = Top.told \cup {r}, !.code = code,
                               !.rows = rows, !.at = at])
        /\ \/ /\ at = "done" /\ rows = {}
              /\ Top.rows \ {r} = {} \/ code # "ok"
           \/ /\ at = "callback" /\ rows = Top.rows \ {r} /\ rows # {}
              /\ code = "ok"
  BY <1>3
<1>5. PICK c : c = [Top EXCEPT !.told = Top.told \cup {r}, !.code = code,
                               !.rows = rows, !.at = at]
  OBVIOUS
<1>6. Top.told \cup {r} \in AnyRows /\ rows \in AnyRows
  BY <1>2, <1>4 DEF WholeCall, AnyRows
<1>7. /\ c \in WholeCall /\ c.at = at /\ c.handle = Top.handle
      /\ c.query = Top.query /\ c.before = Top.before
      /\ c.told = Top.told \cup {r} /\ c.rows = rows /\ c.code = code
      /\ c.reused = Top.reused
  BY <1>2, <1>4, <1>5, <1>6 DEF WholeCall, Codes
<1>8. Now(c) = Now(Top) /\ Now(c) \subseteq Now(c)'
  BY <1>1, <1>2, <1>7, NowStays DEF Now
<1>9. Answering(c)'
  <2>1. ~c.reused => /\ c.told \subseteq Now(c)
                     /\ c.before \subseteq c.told \cup (Top.rows \ {r})
                     /\ rows \subseteq Now(c)
    BY <1>1, <1>2, <1>4, <1>7, <1>8 DEF Answering
  <2>2. c.before \subseteq Now(c)
    BY <1>2, <1>7, <1>8 DEF Answering
  <2>3. c.handle # Null => c.handle.link <= link
    BY <1>2, <1>7 DEF Answering
  <2>4. c.at \in {"callback", "done"} /\ c.code \in {"ok", "callback_error"}
        /\ c.told # {}
    BY <1>4, <1>7
  <2>5. c.at = "callback" => c.code = "ok" /\ c.rows # {} /\ c.rows = Top.rows \ {r}
    BY <1>4, <1>7
  <2>6. c.at = "done" /\ c.code = "ok" => Top.rows \ {r} = {}
    BY <1>4, <1>7
  <2> QED
    BY <1>1, <1>7, <1>8, <2>1, <2>2, <2>3, <2>4, <2>5, <2>6 DEF Answering
<1> QED
  BY <1>1, <1>2, <1>4, <1>5, <1>7, <1>9, BecomesAnswers

\* What does not touch a call that stays.
LEMMA RestAnswers ==
  ASSUME Inv, AnswersInv, link' = link,
         objects \subseteq objects', relations \subseteq relations'
  PROVE  \A d \in 1..Depth : calls'[d] = calls[d] => Answering(calls[d])'
<1> SUFFICES ASSUME NEW d \in 1..Depth, calls'[d] = calls[d]
             PROVE  Answering(calls[d])'
  OBVIOUS
<1>1. calls[d] \in WholeCall /\ Answering(calls[d]) /\ link \in Nat
  BY DEF Inv, CallsInv, LinkInv, AnswersInv, Depth
<1>2. \A c \in WholeCall : Answering(c) => Answering(c)'
  BY <1>1, AnsweringKept
<1> QED
  BY <1>1, <1>2

LEMMA ReturnAnswers ==
  ASSUME Inv, AnswersInv, Return
  PROVE  AnswersInv'
<1>1. /\ Depth > 0 /\ calls' = SubSeq(calls, 1, Depth - 1)
      /\ UNCHANGED <<tables, link>>
  BY DEF Return, At
<1>2. calls \in Seq(WholeCall) /\ Depth \in Nat /\ Depth = Len(calls)
  BY DEF Inv, CallsInv, Depth
<1>3. /\ Len(calls') = Depth - 1
      /\ \A d \in 1..(Depth - 1) : calls'[d] = calls[d]
  BY <1>1, <1>2
<1>4. \A d \in 1..(Depth - 1) : Answering(calls[d])'
  BY <1>1, <1>2, <1>3, RestAnswers DEF tables
<1> QED
  BY <1>3, <1>4 DEF AnswersInv, Depth

LEMMA AskAnswers ==
  ASSUME Inv, AnswersInv, NEW k \in Statements, NEW args,
         Asking(k, args) \in Query, Ask(k, args)
  PROVE  AnswersInv'
<1>1. PICK c : c =
        [query |-> Asking(k, args), at |-> "acquire", handle |-> Null,
         retries |-> Retries, rows |-> {}, told |-> {}, code |-> "ok",
         before |-> Rows(k, Asking(k, args)), reused |-> FALSE]
  OBVIOUS
<1>2. calls' = Append(calls, c) /\ UNCHANGED <<tables, link>>
  BY <1>1 DEF Ask
<1>3. calls \in Seq(WholeCall) /\ Depth \in Nat /\ Depth = Len(calls)
  BY DEF Inv, CallsInv, Depth
<1>4. /\ c.at = "acquire" /\ c.handle = Null /\ c.rows = {} /\ c.told = {}
      /\ c.code = "ok" /\ c.before = Rows(k, c.query) /\ c.query.stmt = k
      /\ ~c.reused
  BY <1>1 DEF Asking
<1>5. c.before = Now(c)
  BY <1>4 DEF Now
<1>6. Now(c) \subseteq Now(c)'
  BY <1>2, <1>4, NowStays
<1>7. Answering(c)'
  BY <1>4, <1>5, <1>6 DEF Answering
<1>8. /\ Len(calls') = Depth + 1 /\ calls'[Depth + 1] = c
      /\ \A d \in 1..Depth : calls'[d] = calls[d]
  BY <1>2, <1>3
<1>9. \A d \in 1..Depth : Answering(calls[d])'
  BY <1>2, <1>8, RestAnswers DEF tables
<1> QED
  BY <1>3, <1>7, <1>8, <1>9 DEF AnswersInv, Depth

\* Others add rows.
LEMMA AddAnswers ==
  ASSUME Inv, AnswersInv, UNCHANGED <<link, calls>>,
         objects \subseteq objects', relations \subseteq relations'
  PROVE  AnswersInv'
BY RestAnswers DEF AnswersInv, Depth

\* Each call knows what it may tell, whoever adds rows meanwhile.
THEOREM Answers == Spec => []AnswersInv
<1>1. Init => AnswersInv
  BY DEF Init, AnswersInv, Depth
<1>2. Inv /\ Inv' /\ AnswersInv /\ [Next]_vars => AnswersInv'
  <2> SUFFICES ASSUME Inv, Inv', AnswersInv, [Next]_vars PROVE AnswersInv'
    OBVIOUS
  <2>1. CASE Call
    BY <2>1, CallAsks, AskAnswers DEF Inv
  <2>2. CASE Step
    BY <2>2, AcquireAnswers, ExecuteAnswers, FailsAnswers, ReconnectAnswers,
       FetchAnswers, FetchFailsAnswers, ReleaseAnswers, CallbackAnswers,
       ReturnAnswers DEF Step
  <2>3. CASE AddObject \/ AddRelation
    <3>1. objects \subseteq objects' /\ relations \subseteq relations'
      BY <2>3 DEF AddObject, AddRelation, InsertObject, InsertRelation
    <3> QED
      BY <2>3, <3>1, AddAnswers DEF AddObject, AddRelation
  <2>4. CASE UNCHANGED vars
    BY <2>4, AddAnswers DEF vars, tables
  <2> QED
    BY <2>1, <2>2, <2>3, <2>4 DEF Next
<1> QED
  BY <1>1, <1>2, Invariance, PTL DEF Spec

\* cpl_get_*, cpl_lookup_*_ext and their fetch loops: a query that does not
\* fail and keeps its statement tells all that was there when it began, and
\* nothing that is not there, although others add rows while it runs.
THEOREM QueriesAnswer == Spec => []Answered
<1>1. AnswersInv => Answered
  BY DEF AnswersInv, Answering, Answered, Now
<1> QED
  BY Answers, <1>1, PTL

\* cpl_get_object_relations: ancestors and descendants agree.
THEOREM LineageAgrees == Spec => []LineageIsSymmetric
<1>1. Inv /\ AnswersInv => LineageIsSymmetric
  <2> SUFFICES ASSUME Inv, AnswersInv, NEW d \in 1..Depth, ~calls[d].reused,
                      NEW row \in calls[d].told, row.type # "bundleRelation"
               PROVE  /\ calls[d].query.stmt = "get_object_ancestors" =>
                           /\ row.other \in ObjectIds
                           /\ Related(row, calls[d].query.id) \in
                                Descendants(row.other)
                      /\ calls[d].query.stmt = "get_object_descendants" =>
                           /\ row.other \in ObjectIds
                           /\ Related(row, calls[d].query.id) \in
                                Ancestors(row.other)
    BY DEF LineageIsSymmetric
  <2> DEFINE o == calls[d].query.id
  <2>1. row \in Now(calls[d])
    BY DEF AnswersInv, Answering
  <2>2. \A r \in relations :
          r.type # "bundleRelation" => {r.from, r.to} \subseteq ObjectIds
    BY DEF Inv, TablesInv
  <2>3. ASSUME calls[d].query.stmt = "get_object_ancestors"
        PROVE  row.other \in ObjectIds /\ Related(row, o) \in Descendants(row.other)
    <3>1. PICK r \in relations : r.from = o /\ row = Related(r, r.to)
      BY <2>1, <2>3 DEF Now, Rows, Ancestors
    <3>2. row.other = r.to /\ row.id = r.id /\ row.type = r.type
      BY <3>1 DEF Related
    <3>3. Related(row, o) = Related(r, r.from)
      BY <3>1, <3>2 DEF Related
    <3> QED
      BY <2>2, <3>2, <3>3 DEF Descendants
  <2>4. ASSUME calls[d].query.stmt = "get_object_descendants"
        PROVE  row.other \in ObjectIds /\ Related(row, o) \in Ancestors(row.other)
    <3>1. PICK r \in relations : r.to = o /\ row = Related(r, r.from)
      BY <2>1, <2>4 DEF Now, Rows, Descendants
    <3>2. row.other = r.from /\ row.id = r.id /\ row.type = r.type
      BY <3>1 DEF Related
    <3>3. Related(row, o) = Related(r, r.to)
      BY <3>1, <3>2 DEF Related
    <3> QED
      BY <2>2, <3>2, <3>3 DEF Ancestors
  <2> QED
    BY <2>3, <2>4
<1> QED
  BY Invariance, Answers, <1>1, PTL

=============================================================================
