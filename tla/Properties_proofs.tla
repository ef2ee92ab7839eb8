-------------------------- MODULE Properties_proofs --------------------------
(***************************************************************************)
(* Theorems about Properties: type correctness, the two invariants of the  *)
(* INSERTs, and that the tables with their rules implement PropertyMap.    *)
(*                                                                         *)
(* The inductive invariant says of a call what it may rely on although     *)
(* the rule's test and the insertion are two steps: rows only come, so a   *)
(* key that had a value keeps one (Knows), and a call that is executed     *)
(* again finds the row it has left itself (Leaves).                        *)
(***************************************************************************)
EXTENDS Properties, TLAPS

\* What w's call knows of the rows of its key.
Knows(w) ==
  /\ ~InCall(w) => ~fresh[w]
  /\ InCall(w) /\ ~fresh[w] => Duplicate(w)
  /\ at[w] = "checked" /\ ~ignored[w] => fresh[w]
  /\ at[w] = "checked" /\ ignored[w] => Duplicate(w)
  /\ at[w] = "stored" => Duplicate(w)

\* w's rows come from calls that are over, or from the one at hand, whose key
\* they then have.
Leaves(w) ==
  /\ \A r \in rows :
       r.call[1] = w =>
         /\ r.call[2] <= pos[w]
         /\ r.call[2] = pos[w] => InCall(w) /\ SameKey(r, Row(w))
  /\ at[w] = "checked" /\ ~ignored[w] =>
       \A r \in rows : r.call # <<w, pos[w]>>

\* Is entry p of w's document in the tables?
Kept(w, p) ==
  \E r \in rows :
    /\ r.item = job[w].item
    /\ r.name = Tokens[job[w].entries[p].key]
    /\ r.kind = job[w].entries[p].kind

\* How much of its document w has stored, and what it has lost.
Stores(w) ==
  /\ at[w] = "idle" => pos[w] = 1 /\ lost[w] = {}
  /\ at[w] = "ok" => ~More(w)
  /\ \A p \in DOMAIN job[w].entries \ lost[w] : p < pos[w] => Kept(w, p)
  /\ job[w].mode = "import" /\ job[w].item \in Bundles /\ at[w] # "failed" =>
       lost[w] = {}

Inv ==
  /\ TypeOK
  /\ OneRowPerCall
  /\ \A w \in Writers : Knows(w) /\ Leaves(w) /\ Stores(w)
  /\ lost \in [Writers -> SUBSET Nat]

-----------------------------------------------------------------------------
(* Lemmas about values and entries.                                        *)

\* A float is one of the numbers.
LEMMA FloatIsNumber == ASSUME NEW n \in Numbers PROVE Float(n) \in Numbers
<1>1. Exact \in Nat /\ Exact % 4 = 0
  BY ConstantsAssumption
<1>2. CASE n <= Exact \/ n % 2 = 0
  BY <1>2 DEF Float
<1>3. CASE ~(n <= Exact \/ n % 2 = 0)
  <2>1. n \in Nat /\ n > Exact /\ n % 2 = 1 /\ n <= 2 * Exact
    BY <1>1, <1>3 DEF Numbers
  <2>2. n + 1 <= 2 * Exact
    BY <1>1, <2>1
  <2>3. (n - 1) % 4 = 0 \/ (n + 1) % 4 = 0
    BY <2>1
  <2>4. \E m \in {n - 1, n + 1} : m % 4 = 0
    BY <2>3
  <2>5. Float(n) \in {n - 1, n + 1}
    BY <1>3, <2>4 DEF Float
  <2> QED
    BY <1>1, <2>1, <2>2, <2>5 DEF Numbers
<1> QED
  BY <1>2, <1>3

\* What goes into the column "value".
LEMMA StoredIsValue ==
  ASSUME NEW e \in Entries, e.kind \in Kinds, NEW mode
  PROVE  Stored(e.kind, e.value, mode) \in Values
<1>1. e.value \in DocValues(e.kind)
  BY DEF Entries
<1>2. CASE e.kind = "boolean"
  BY <1>1, <1>2 DEF DocValues, Stored, Values
<1>3. CASE e.kind = "numerical"
  <2>1. e.value \in Numbers
    BY <1>1, <1>3 DEF DocValues
  <2>2. Float(e.value) \in Numbers
    BY <2>1, FloatIsNumber
  <2> QED
    BY <1>3, <2>1, <2>2 DEF Stored, Values
<1>4. CASE e.kind \in {"string", "prefix"}
  BY <1>1, <1>4 DEF DocValues, Stored, Values
<1> QED
  BY <1>2, <1>3, <1>4 DEF Kinds, Scalars

\* The positions of a job's entries.
LEMMA Positions ==
  ASSUME NEW j \in Jobs \cup {NoJob}
  PROVE  DOMAIN j.entries = 1..Len(j.entries) /\ Len(j.entries) \in Nat
<1>1. CASE j \in Jobs
  BY <1>1 DEF Jobs
<1>2. CASE j = NoJob
  <2>1. j.entries = <<>>
    BY <1>2 DEF NoJob
  <2> QED
    BY <2>1
<1> QED
  BY <1>1, <1>2

\* The row of an INSERT is one of the table's.
LEMMA RowIsRow ==
  ASSUME TypeOK, NEW w \in Writers, More(w), Entry(w).kind \in Kinds
  PROVE  /\ Row(w) \in Rows
         /\ Pair(Row(w)) \in [key : MapKeys, value : Values]
         /\ Pair(Row(w)) # NoRequest
<1>1. job[w] \in Jobs
  <2>1. Len(job[w].entries) >= 1
    BY DEF TypeOK, More
  <2> QED
    BY <2>1 DEF TypeOK, NoJob
<1>2. Entry(w) \in Entries
  BY <1>1 DEF TypeOK, More, Entry, Jobs
<1>3. Tokens[Entry(w).key] \in Names
  BY <1>2 DEF Entries, Names
<1>4. Stored(Entry(w).kind, Entry(w).value, job[w].mode) \in Values
  BY <1>2, StoredIsValue DEF TypeOK
<1>5. Pair(Row(w)) \in [key : MapKeys, value : Values]
  BY <1>1, <1>3, <1>4 DEF TypeOK, Row, Pair, MapKeys, Jobs
<1>6. Row(w) \in Rows
  BY <1>1, <1>3, <1>4 DEF TypeOK, Row, Rows, Jobs
<1> QED
  BY <1>5, <1>6, ConstantsAssumption

-----------------------------------------------------------------------------
(* The steps of one writer leave the others alone.                         *)

\* Nothing of v changes.
Rests(v) ==
  /\ at'[v] = at[v] /\ job'[v] = job[v] /\ pos'[v] = pos[v]
  /\ ignored'[v] = ignored[v] /\ retries'[v] = retries[v]
  /\ fresh'[v] = fresh[v] /\ lost'[v] = lost[v]

\* The rows there are, and perhaps the row of w's INSERT.
Grows(w) == rows' = rows \/ (InCall(w) /\ rows' = rows \cup {Row(w)})

LEMMA WritersRest ==
  ASSUME TypeOK, lost \in [Writers -> SUBSET Nat], NEW w \in Writers,
         Call(w) \/ Step(w) \/ Die(w)
  PROVE  Grows(w) /\ \A v \in Writers \ {w} : Rests(v)
<1>1. CASE Call(w)
  BY <1>1 DEF Call, CallAddObjectProperty, CallAddRelationProperty,
     CallAddPrefix, ImportObjectProperties, ImportRelationProperties,
     ImportPrefixes, Begin, TypeOK, Grows, Rests
<1>2. CASE AddObjectProperty(w) \/ AddRelationProperty(w) \/ AddPrefix(w)
  BY <1>2 DEF AddObjectProperty, AddRelationProperty, AddPrefix, Execute,
     TypeOK, Grows, Rests
<1>3. CASE CheckRule(w)
  BY <1>3 DEF CheckRule, TypeOK, Grows, Rests
<1>4. CASE Commit(w)
  BY <1>4 DEF Commit, TypeOK, Grows, Rests, InCall
<1>5. CASE Succeed(w) \/ Fail(w) \/ Die(w)
  BY <1>5 DEF Succeed, Fail, Die, Return, TypeOK, Grows, Rests
<1>6. CASE BreakLink(w)
  BY <1>6 DEF BreakLink, TypeOK, Grows, Rests
<1>7. CASE Reject(w) \/ Finish(w)
  BY <1>7 DEF Reject, Finish, TypeOK, Grows, Rests
<1> QED
  BY <1>1, <1>2, <1>3, <1>4, <1>5, <1>6, <1>7 DEF Step

\* What w's INSERT looks for stays there.
LEMMA DuplicateStays ==
  ASSUME NEW w \in Writers, Duplicate(w), rows \subseteq rows',
         job'[w] = job[w], pos'[w] = pos[w]
  PROVE  Duplicate(w)'
BY DEF Duplicate, SameKey, Row, Entry

LEMMA OthersKeep ==
  ASSUME Inv, NEW w \in Writers, NEW v \in Writers \ {w}, Grows(w), Rests(v)
  PROVE  (Knows(v) /\ Leaves(v) /\ Stores(v))'
<1>1. rows \subseteq rows' /\ Knows(v) /\ Leaves(v) /\ Stores(v)
  BY DEF Grows, Inv
<1>2. Duplicate(v) => Duplicate(v)'
  BY <1>1, DuplicateStays DEF Rests
<1>3. InCall(v)' = InCall(v)
  BY DEF InCall, Rests
<1>4. Knows(v)'
  BY <1>1, <1>2, <1>3 DEF Knows, Rests
<1>5. \A r \in rows' \ rows : r.call = <<w, pos[w]>>
  BY DEF Grows, Row
<1>6. \A r : SameKey(r, Row(v)) => SameKey(r, Row(v))'
  BY DEF SameKey, Row, Entry, Rests
<1>7. Leaves(v)'
  BY <1>1, <1>3, <1>5, <1>6 DEF Leaves, Rests
<1>8. \A p : Kept(v, p) => Kept(v, p)'
  BY <1>1 DEF Kept, Rests
<1>9. Stores(v)'
  BY <1>1, <1>8 DEF Stores, More, Rests
<1> QED
  BY <1>4, <1>7, <1>9

-----------------------------------------------------------------------------
(* Types.                                                                  *)

\* lost has only positions, and the types hold.
Typed == TypeOK /\ lost \in [Writers -> SUBSET Nat]

\* The step of a writer that begins a job.
LEMMA BeginTyped ==
  ASSUME Typed, NEW w \in Writers, NEW mode \in {"call", "import"},
         NEW item \in Items, NEW entries \in Seq(Entries),
         Begin(w, mode, item, entries)
  PROVE  Typed'
<1>1. job'[w] \in Jobs /\ job' \in [Writers -> Jobs \cup {NoJob}]
  BY DEF Begin, Typed, TypeOK, Jobs
<1>2. \A v \in Writers : InCall(v)' => v # w /\ InCall(v)
  BY DEF Begin, Typed, TypeOK, InCall
<1>3. \A v \in Writers \ {w} : More(v)' = More(v) /\ Entry(v)' = Entry(v)
  BY DEF Begin, Typed, TypeOK, More, Entry
<1> QED
  BY <1>1, <1>2, <1>3 DEF Begin, Typed, TypeOK

LEMMA CallTyped ==
  ASSUME Typed, NEW w \in Writers, Call(w)
  PROVE  Typed'
<1>1. \E mode \in {"call", "import"}, item \in Items, entries \in Seq(Entries) :
        Begin(w, mode, item, entries)
  <2> DEFINE Given == ObjectCalls \cup RelationCalls \cup PrefixCalls
  <2>7. \A e \in Given : <<e>> \in Seq(Entries)
    BY ConstantsAssumption
  <2>8. ASSUME NEW item \in Items, NEW e \in Given,
               Begin(w, "call", item, <<e>>)
        PROVE  \E mode \in {"call", "import"}, i \in Items,
                   entries \in Seq(Entries) : Begin(w, mode, i, entries)
    BY <2>7, <2>8
  <2>1. CASE CallAddObjectProperty(w)
    BY <2>1, <2>8 DEF CallAddObjectProperty, Items
  <2>2. CASE CallAddRelationProperty(w)
    BY <2>2, <2>8 DEF CallAddRelationProperty, Items
  <2>3. CASE CallAddPrefix(w)
    BY <2>3, <2>8 DEF CallAddPrefix, Items
  <2>4. CASE ImportObjectProperties(w)
    BY <2>4, ConstantsAssumption DEF ImportObjectProperties, Items
  <2>5. CASE ImportRelationProperties(w)
    <3>1. PICK r \in Relations, doc \in RelationJobs :
            Begin(w, "import", r, Ends[r] \o doc)
      BY <2>5 DEF ImportRelationProperties
    <3>2. Ends[r] \in Seq(Entries) /\ doc \in Seq(Entries)
      BY ConstantsAssumption
    <3>3. Ends[r] \o doc \in Seq(Entries)
      BY <3>2
    <3> QED
      BY <3>1, <3>3 DEF Items
  <2>6. CASE ImportPrefixes(w)
    BY <2>6, ConstantsAssumption DEF ImportPrefixes, Items
  <2> QED
    BY <2>1, <2>2, <2>3, <2>4, <2>5, <2>6 DEF Call
<1> QED
  BY <1>1, BeginTyped

\* An INSERT is sent.
LEMMA ExecuteTyped ==
  ASSUME Typed, NEW w \in Writers, NEW kinds \in SUBSET Kinds,
         Execute(w, kinds)
  PROVE  Typed'
<1>1. Retries \in 0..Retries
  BY ConstantsAssumption
<1>2. \A v \in Writers : More(v)' = More(v) /\ Entry(v)' = Entry(v)
  BY DEF Execute, More, Entry
<1>3. \A v \in Writers : InCall(v)' => v = w \/ InCall(v)
  BY DEF Execute, Typed, TypeOK, InCall
<1>4. More(w) /\ Entry(w).kind \in Kinds
  BY DEF Execute
<1>5. fresh' \in [Writers -> BOOLEAN] /\ retries' \in [Writers -> 0..Retries]
  BY <1>1 DEF Execute, Typed, TypeOK, Duplicate
<1> QED
  BY <1>2, <1>3, <1>4, <1>5 DEF Execute, Typed, TypeOK

\* A call returns.
LEMMA ReturnTyped ==
  ASSUME Typed, NEW w \in Writers, NEW code \in {"ok", "error"},
         NEW to \in {"next", "failed"}, Return(w, code, to)
  PROVE  Typed'
<1>1. 0 \in 0..Retries
  BY ConstantsAssumption
<1>2. \A v \in Writers : InCall(v)' => v # w /\ InCall(v)
  BY DEF Return, Typed, TypeOK, InCall
<1>3. \A v \in Writers \ {w} : More(v)' = More(v) /\ Entry(v)' = Entry(v)
  BY DEF Return, Typed, TypeOK, More, Entry
<1>4. retries' \in [Writers -> 0..Retries]
  BY <1>1 DEF Return, Typed, TypeOK
<1>5. lost' \in [Writers -> SUBSET Nat]
  BY DEF Return, Typed, TypeOK
<1> QED
  BY <1>2, <1>3, <1>4, <1>5 DEF Return, Typed, TypeOK

LEMMA StepTyped ==
  ASSUME Typed, NEW w \in Writers, Step(w) \/ Die(w)
  PROVE  Typed'
<1>1. CASE AddObjectProperty(w)
  BY <1>1, ExecuteTyped DEF AddObjectProperty, Kinds
<1>2. CASE AddRelationProperty(w)
  BY <1>2, ExecuteTyped DEF AddRelationProperty, Kinds
<1>3. CASE AddPrefix(w)
  BY <1>3, ExecuteTyped DEF AddPrefix, Kinds
<1>4. CASE CheckRule(w)
  BY <1>4 DEF CheckRule, Duplicate, Typed, TypeOK, InCall, More, Entry
<1>5. CASE Commit(w)
  <2>1. Row(w) \in Rows
    BY <1>5, RowIsRow DEF Commit, InCall, Typed, TypeOK
  <2> QED
    BY <1>5, <2>1 DEF Commit, Typed, TypeOK, InCall, More, Entry
<1>6. CASE Succeed(w)
  BY <1>6, ReturnTyped DEF Succeed
<1>7. CASE Fail(w)
  BY <1>7, ReturnTyped DEF Fail, AfterError
<1>8. CASE Die(w)
  BY <1>8, ReturnTyped DEF Die
<1>9. CASE BreakLink(w)
  <2>1. retries[w] - 1 \in 0..Retries
    BY <1>9, ConstantsAssumption DEF BreakLink, Typed, TypeOK
  <2>2. retries' \in [Writers -> 0..Retries]
    BY <1>9, <2>1 DEF BreakLink, Typed, TypeOK
  <2> QED
    BY <1>9, <2>2 DEF BreakLink, Typed, TypeOK, InCall, More, Entry
<1>10. CASE Reject(w) \/ Finish(w)
  BY <1>10 DEF Reject, Finish, Typed, TypeOK, InCall, More, Entry
<1> QED
  BY <1>1, <1>2, <1>3, <1>4, <1>5, <1>6, <1>7, <1>8, <1>9, <1>10 DEF Step

-----------------------------------------------------------------------------
(* What a writer's own step does to what it knows, leaves and stores.      *)

\* w's part of the invariant, and that no two rows are of one call.
Own(w) == Knows(w) /\ Leaves(w) /\ Stores(w) /\ OneRowPerCall

LEMMA BeginOwn ==
  ASSUME Inv, Typed', NEW w \in Writers, NEW mode, NEW item, NEW entries,
         Begin(w, mode, item, entries)
  PROVE  Own(w)'
<1>1. /\ at[w] = "idle" /\ at'[w] = "next" /\ pos' = pos /\ pos[w] = 1
      /\ rows' = rows /\ lost' = lost /\ fresh' = fresh /\ lost[w] = {}
  BY DEF Inv, TypeOK, Stores, Begin
<1>2. Knows(w)'
  BY <1>1 DEF Inv, Knows, InCall
<1>3. Leaves(w)'
  BY <1>1 DEF Inv, Leaves, InCall
<1>4. Stores(w)'
  <2>1. job'[w] \in Jobs \cup {NoJob}
    BY DEF Typed, TypeOK
  <2>2. DOMAIN job'[w].entries = 1..Len(job'[w].entries)
    BY <2>1, Positions
  <2>3. \A p \in DOMAIN job'[w].entries : ~(p < 1)
    BY <2>1, <2>2, Positions
  <2> QED
    BY <1>1, <2>3 DEF Stores
<1>5. OneRowPerCall'
  BY <1>1 DEF Inv, OneRowPerCall
<1> QED
  BY <1>2, <1>3, <1>4, <1>5 DEF Own

LEMMA ExecuteOwn ==
  ASSUME Inv, NEW w \in Writers, NEW kinds, Execute(w, kinds)
  PROVE  Own(w)'
<1>1. /\ at[w] = "next" /\ at'[w] = "sent" /\ UNCHANGED <<rows, job, pos, lost>>
      /\ fresh'[w] = ~Duplicate(w)
  BY DEF Inv, TypeOK, Execute
<1>2. Duplicate(w)' = Duplicate(w)
  BY <1>1 DEF Duplicate, SameKey, Row, Entry
<1>3. Knows(w)'
  BY <1>1, <1>2 DEF Knows, InCall
<1>4. Leaves(w)'
  BY <1>1 DEF Inv, Leaves, InCall
<1>5. Stores(w)'
  BY <1>1 DEF Inv, Stores, Kept
<1>6. OneRowPerCall'
  BY <1>1 DEF Inv, OneRowPerCall
<1> QED
  BY <1>3, <1>4, <1>5, <1>6 DEF Own

LEMMA CheckRuleOwn ==
  ASSUME Inv, NEW w \in Writers, CheckRule(w)
  PROVE  Own(w)'
<1>1. /\ at[w] = "sent" /\ at'[w] = "checked"
      /\ UNCHANGED <<rows, job, pos, retries, lost, fresh>>
      /\ ignored'[w] = Duplicate(w)
  BY DEF Inv, TypeOK, CheckRule
<1>2. Duplicate(w)' = Duplicate(w) /\ InCall(w) /\ InCall(w)'
  BY <1>1 DEF Duplicate, SameKey, Row, Entry, InCall
<1>3. Knows(w)'
  BY <1>1, <1>2 DEF Inv, Knows
<1>4. Leaves(w)'
  <2>1. \A r \in rows : r.call[1] = w =>
          r.call[2] <= pos[w] /\ (r.call[2] = pos[w] => SameKey(r, Row(w)))
    BY DEF Inv, Leaves
  <2>2. \A r : SameKey(r, Row(w))' = SameKey(r, Row(w))
    BY <1>1 DEF SameKey, Row, Entry
  <2>3. ~Duplicate(w) => \A r \in rows : r.call # <<w, pos[w]>>
    BY <2>1 DEF Duplicate
  <2> QED
    BY <1>1, <1>2, <2>1, <2>2, <2>3 DEF Leaves
<1>5. Stores(w)'
  BY <1>1 DEF Inv, Stores, Kept
<1>6. OneRowPerCall'
  BY <1>1 DEF Inv, OneRowPerCall
<1> QED
  BY <1>3, <1>4, <1>5, <1>6 DEF Own

LEMMA CommitOwn ==
  ASSUME Inv, NEW w \in Writers, Commit(w)
  PROVE  Own(w)'
<1>1. /\ at[w] = "checked" /\ at'[w] = "stored" /\ InCall(w) /\ InCall(w)'
      /\ UNCHANGED <<job, pos, ignored, retries, lost, fresh>>
  BY DEF Inv, TypeOK, Commit, InCall
<1>2. Row(w)' = Row(w) /\ Row(w).call = <<w, pos[w]>>
  BY <1>1 DEF Row, Entry
<1>3. \A r : SameKey(r, Row(w))' = SameKey(r, Row(w))
  BY <1>2 DEF SameKey
<1>4. rows \subseteq rows' /\ \A r \in rows' : r \in rows \/ r = Row(w)
  BY DEF Commit
<1>5. Duplicate(w)'
  <2>1. CASE ignored[w]
    <3>1. rows' = rows
      BY <2>1 DEF Commit
    <3>2. Duplicate(w)
      BY <1>1, <2>1 DEF Inv, Knows
    <3> QED
      BY <3>1, <3>2, <1>3 DEF Duplicate
  <2>2. CASE ~ignored[w]
    BY <1>2, <2>2 DEF Commit, Duplicate, SameKey
  <2> QED
    BY <2>1, <2>2
<1>6. Knows(w)'
  BY <1>1, <1>5 DEF Knows
<1>7. Leaves(w)'
  <2>1. pos[w] \in Nat
    BY DEF Inv, TypeOK
  <2>2. SameKey(Row(w), Row(w))
    BY DEF SameKey
  <2> QED
    BY <1>1, <1>2, <1>3, <1>4, <2>1, <2>2 DEF Inv, Leaves
<1>8. Stores(w)'
  BY <1>1, <1>4 DEF Inv, Stores, Kept
<1>9. OneRowPerCall'
  <2>1. CASE ignored[w]
    BY <2>1 DEF Inv, OneRowPerCall, Commit
  <2>2. CASE ~ignored[w]
    <3>1. \A r \in rows : r.call # Row(w).call
      BY <1>1, <1>2, <2>2 DEF Inv, Leaves
    <3> QED
      BY <1>4, <3>1 DEF Inv, OneRowPerCall
  <2> QED
    BY <2>1, <2>2
<1> QED
  BY <1>6, <1>7, <1>8, <1>9 DEF Own

LEMMA ReturnOwn ==
  ASSUME Inv, NEW w \in Writers, NEW code \in {"ok", "error"},
         NEW to \in {"next", "failed"}, Return(w, code, to),
         code = "ok" => at[w] = "stored",
         code = "error" /\ job[w].mode = "import" /\ job[w].item \in Bundles =>
           to = "failed"
  PROVE  Own(w)'
<1>1. /\ InCall(w) /\ at'[w] = to /\ ~InCall(w)'
      /\ UNCHANGED <<rows, job>> /\ pos[w] \in Nat /\ pos'[w] = pos[w] + 1
      /\ fresh'[w] = FALSE
  BY DEF Inv, TypeOK, Return, InCall
<1>2. /\ code = "ok" => lost' = lost
      /\ code = "error" => lost'[w] = lost[w] \cup {pos[w]}
  BY DEF Inv, TypeOK, Return
<1>3. Knows(w)'
  BY <1>1 DEF Knows, InCall
<1>4. Leaves(w)'
  <2>1. \A r \in rows : r.call[2] \in Nat
    BY DEF Inv, TypeOK, Rows
  <2>2. \A r \in rows : r.call[1] = w => r.call[2] <= pos[w]
    BY DEF Inv, Leaves
  <2> QED
    BY <1>1, <2>1, <2>2 DEF Leaves, InCall
<1>5. Stores(w)'
  <2>1. \A p : Kept(w, p)' = Kept(w, p)
    BY <1>1 DEF Kept
  <2>2. code = "ok" => Kept(w, pos[w])
    BY DEF Inv, Knows, Duplicate, Kept, SameKey, Row, Entry
  <2>3. \A p \in DOMAIN job[w].entries : p \in Nat
    <3>1. job[w] \in Jobs \cup {NoJob}
      BY DEF Inv, TypeOK
    <3>2. DOMAIN job[w].entries = 1..Len(job[w].entries)
      BY <3>1, Positions
    <3> QED
      BY <3>2
  <2>4. \A p \in DOMAIN job'[w].entries \ lost'[w] : p < pos'[w] => Kept(w, p)'
    BY <1>1, <1>2, <2>1, <2>2, <2>3 DEF Inv, Stores
  <2>5. job'[w].mode = "import" /\ job'[w].item \in Bundles
          /\ at'[w] # "failed" => lost'[w] = {}
    BY <1>1, <1>2 DEF Inv, Stores, InCall
  <2> QED
    BY <1>1, <2>4, <2>5 DEF Stores
<1>6. OneRowPerCall'
  BY <1>1 DEF Inv, OneRowPerCall
<1> QED
  BY <1>3, <1>4, <1>5, <1>6 DEF Own

LEMMA BreakLinkOwn ==
  ASSUME Inv, NEW w \in Writers, BreakLink(w)
  PROVE  Own(w)'
<1>1. /\ InCall(w) /\ at'[w] = "sent" /\ InCall(w)'
      /\ UNCHANGED <<rows, job, pos, lost, fresh>>
  BY DEF Inv, TypeOK, BreakLink, InCall
<1>2. \A r : SameKey(r, Row(w))' = SameKey(r, Row(w))
  BY <1>1 DEF SameKey, Row, Entry
<1>3. Duplicate(w)' = Duplicate(w)
  BY <1>1, <1>2 DEF Duplicate
<1>4. Knows(w)'
  BY <1>1, <1>3 DEF Inv, Knows
<1>5. Leaves(w)'
  BY <1>1, <1>2 DEF Inv, Leaves
<1>6. Stores(w)'
  BY <1>1 DEF Inv, Stores, Kept, InCall
<1>7. OneRowPerCall'
  BY <1>1 DEF Inv, OneRowPerCall
<1> QED
  BY <1>4, <1>5, <1>6, <1>7 DEF Own

LEMMA EndOwn ==
  ASSUME Inv, NEW w \in Writers, Reject(w) \/ Finish(w)
  PROVE  Own(w)'
<1>1. /\ at[w] = "next" /\ at'[w] \in {"failed", "ok"}
      /\ UNCHANGED <<rows, job, pos, ignored, lost, fresh>>
      /\ at'[w] = "ok" => ~More(w)
  BY DEF Inv, TypeOK, Reject, Finish
<1>2. ~InCall(w) /\ ~InCall(w)'
  BY <1>1 DEF InCall
<1>3. Knows(w)'
  BY <1>1, <1>2 DEF Inv, Knows, InCall
<1>4. Leaves(w)'
  BY <1>1, <1>2 DEF Inv, Leaves, InCall
<1>5. Stores(w)'
  BY <1>1 DEF Inv, Stores, Kept, More
<1>6. OneRowPerCall'
  BY <1>1 DEF Inv, OneRowPerCall
<1> QED
  BY <1>3, <1>4, <1>5, <1>6 DEF Own


-----------------------------------------------------------------------------
(* The inductive invariant.                                                *)

\* A call that begins.
LEMMA CallOwn ==
  ASSUME Inv, Typed', NEW w \in Writers, Call(w)
  PROVE  Own(w)'
<1>1. \E mode, item, entries : Begin(w, mode, item, entries)
  BY DEF Call, CallAddObjectProperty, CallAddRelationProperty, CallAddPrefix,
     ImportObjectProperties, ImportRelationProperties, ImportPrefixes
<1> QED
  BY <1>1, BeginOwn

\* Every other step of the writer.
LEMMA StepOwn ==
  ASSUME Inv, NEW w \in Writers, Step(w) \/ Die(w)
  PROVE  Own(w)'
<1>1. CASE AddObjectProperty(w) \/ AddRelationProperty(w) \/ AddPrefix(w)
  BY <1>1, ExecuteOwn DEF AddObjectProperty, AddRelationProperty, AddPrefix
<1>2. CASE CheckRule(w)
  BY <1>2, CheckRuleOwn
<1>3. CASE Commit(w)
  BY <1>3, CommitOwn
<1>4. CASE Succeed(w)
  BY <1>4, ReturnOwn DEF Succeed
<1>5. CASE Fail(w)
  <2>1. AfterError(w) \in {"next", "failed"}
    BY DEF AfterError
  <2>2. job[w].mode = "import" /\ job[w].item \in Bundles =>
          AfterError(w) = "failed"
    BY DEF AfterError
  <2> QED
    BY <1>5, <2>1, <2>2, ReturnOwn DEF Fail
<1>6. CASE Die(w)
  BY <1>6, ReturnOwn DEF Die
<1>7. CASE BreakLink(w)
  BY <1>7, BreakLinkOwn
<1>8. CASE Reject(w) \/ Finish(w)
  BY <1>8, EndOwn
<1> QED
  BY <1>1, <1>2, <1>3, <1>4, <1>5, <1>6, <1>7, <1>8 DEF Step

LEMMA WriterInv ==
  ASSUME Inv, NEW w \in Writers, Call(w) \/ Step(w) \/ Die(w)
  PROVE  Inv'
<1>1. Typed
  BY DEF Inv, Typed
<1>2. Typed'
  BY <1>1, CallTyped, StepTyped
<1>3. Own(w)'
  BY <1>2, CallOwn, StepOwn
<1>4. Grows(w) /\ \A v \in Writers \ {w} : Rests(v)
  BY <1>1, WritersRest DEF Typed
<1>5. \A v \in Writers \ {w} : (Knows(v) /\ Leaves(v) /\ Stores(v))'
  BY <1>4, OthersKeep
<1> QED
  BY <1>2, <1>3, <1>5 DEF Inv, Own, Typed

\* A step that leaves alone what the writers have.
LEMMA QuietInv ==
  ASSUME Inv,
         UNCHANGED <<rows, at, job, pos, ignored, retries, answer, fresh, lost>>
  PROVE  Inv'
BY DEF Inv, TypeOK, OneRowPerCall, Knows, Leaves, Stores, Kept, InCall, More,
   Entry, Duplicate, SameKey, Row

LEMMA ExportQuiet ==
  ASSUME NEW e \in Readers, Export(e)
  PROVE  UNCHANGED <<rows, at, job, pos, ignored, retries, answer, fresh, lost>>
BY DEF Export, GetObjectProperties, GetRelationProperties, GetProperties,
   ExportFails

LEMMA InitInv == Init => Inv
<1> SUFFICES ASSUME Init PROVE Inv
  OBVIOUS
<1>1. TypeOK
  BY ConstantsAssumption DEF Init, TypeOK, InCall
<1>2. OneRowPerCall
  BY DEF Init, OneRowPerCall
<1>3. lost \in [Writers -> SUBSET Nat]
  BY DEF Init
<1>4. ASSUME NEW w \in Writers
      PROVE  Knows(w) /\ Leaves(w) /\ Stores(w)
  <2>1. DOMAIN NoJob.entries = {}
    BY DEF NoJob
  <2>2. NoJob.mode # "import"
    BY DEF NoJob
  <2> QED
    BY <2>1, <2>2 DEF Init, Knows, Leaves, Stores, InCall
<1> QED
  BY <1>1, <1>2, <1>3, <1>4 DEF Inv

\* The types, one row of each call, and what the writers know, leave behind
\* and have stored, whatever the number of writers and of reconnections.
THEOREM Invariance == Spec => []Inv
<1>1. Inv /\ [Next]_vars => Inv'
  <2> SUFFICES ASSUME Inv, [Next]_vars PROVE Inv'
    OBVIOUS
  <2>1. ASSUME NEW w \in Writers, Call(w) \/ Step(w) \/ Die(w)
        PROVE  Inv'
    BY <2>1, WriterInv
  <2>2. ASSUME NEW e \in Readers, Export(e)
        PROVE  Inv'
    BY <2>2, ExportQuiet, QuietInv
  <2>3. CASE UNCHANGED vars
    BY <2>3, QuietInv DEF vars
  <2> QED
    BY <2>1, <2>2, <2>3 DEF Next
<1> QED
  BY InitInv, <1>1, PTL DEF Spec

\* The variables have their types, and only entries of a job are sent.
THEOREM TypeCorrect == Spec => []TypeOK
<1>1. Inv => TypeOK
  BY DEF Inv
<1> QED
  BY Invariance, <1>1, PTL

\* cpl_add_*_property and cpl_add_prefix: however often a broken link makes
\* the backend execute an INSERT, the call leaves no more than one row.
THEOREM OneRowPerCallAlways == Spec => []OneRowPerCall
<1>1. Inv => OneRowPerCall
  BY DEF Inv
<1> QED
  BY Invariance, <1>1, PTL

\* import_document_json: CPL_OK says that every entry is there but for those
\* whose INSERT has failed, of which there are none among the prefixes.
THEOREM ImportsAreStored == Spec => []ImportIsStored
<1>1. Inv => ImportIsStored
  <2> SUFFICES ASSUME Inv, NEW w \in Writers,
                      at[w] = "ok", job[w].mode = "import"
               PROVE  /\ job[w].item \in Bundles => lost[w] = {}
                      /\ \A p \in DOMAIN job[w].entries \ lost[w] : Kept(w, p)
    BY DEF ImportIsStored, Kept
  <2>1. Stores(w) /\ ~More(w)
    BY DEF Inv, Stores
  <2>2. job[w] \in Jobs \cup {NoJob} /\ pos[w] \in Nat
    BY DEF Inv, TypeOK
  <2>3. DOMAIN job[w].entries = 1..Len(job[w].entries)
        /\ Len(job[w].entries) \in Nat
    BY <2>2, Positions
  <2>4. \A p \in DOMAIN job[w].entries : p < pos[w]
    BY <2>1, <2>2, <2>3 DEF More
  <2> QED
    BY <2>1, <2>4 DEF Stores
<1> QED
  BY Invariance, <1>1, PTL

-----------------------------------------------------------------------------
(* The tables with their rules implement PropertyMap.                      *)

\* Both sides ask the same of a key.
LEMMA SameQuestion ==
  ASSUME NEW w \in Writers
  PROVE  Map!HasValue(Pair(Row(w)).key) <=> Duplicate(w)
<1>1. \A r : Pair(r).key = Pair(Row(w)).key <=> SameKey(r, Row(w))
  BY DEF Pair, SameKey
<1>2. Map!HasValue(Pair(Row(w)).key)
        <=> \E r \in rows : Pair(r).key = Pair(Row(w)).key
  BY DEF Map!HasValue, Pairs
<1> QED
  BY <1>1, <1>2 DEF Duplicate

\* A request, whatever the try.
LEMMA RequestKeeps ==
  ASSUME NEW w \in Writers, InCall(w)' = InCall(w), job'[w] = job[w],
         pos'[w] = pos[w]
  PROVE  Request(w)' = Request(w)
BY DEF Request, Pair, Row, Entry

LEMMA OthersAsk ==
  ASSUME NEW w \in Writers, \A v \in Writers \ {w} : Rests(v)
  PROVE  Requests' = [Requests EXCEPT ![w] = Requests'[w]]
<1>1. \A v \in Writers \ {w} : Request(v)' = Request(v)
  BY RequestKeeps DEF Rests, InCall
<1> QED
  BY <1>1 DEF Requests

LEMMA Stutter ==
  ASSUME NEW w \in Writers, \A v \in Writers \ {w} : Rests(v),
         Request(w)' = Request(w), UNCHANGED <<rows, fresh, answer>>
  PROVE  UNCHANGED Map!vars
<1>1. Requests' = Requests
  BY OthersAsk DEF Requests
<1>2. Pairs' = Pairs
  BY DEF Pairs
<1> QED
  BY <1>1, <1>2 DEF Map!vars

LEMMA ExecuteBegins ==
  ASSUME Inv, NEW w \in Writers, \A v \in Writers \ {w} : Rests(v),
         NEW kinds \in SUBSET Kinds, Execute(w, kinds)
  PROVE  Map!Begin(w)
<1>1. /\ ~InCall(w) /\ InCall(w)' /\ More(w) /\ Entry(w).kind \in Kinds
      /\ UNCHANGED <<rows, job, pos, answer>>
  BY DEF Execute, InCall, Inv, TypeOK
<1>2. Requests[w] = NoRequest
  BY <1>1 DEF Requests, Request
<1>3. Pair(Row(w))' = Pair(Row(w))
  BY <1>1 DEF Pair, Row, Entry
<1>4. Requests'[w] = Pair(Row(w))
  BY <1>1, <1>3 DEF Requests, Request
<1>5. Requests'[w] \in Map!Request
  BY <1>1, <1>4, RowIsRow DEF Inv, Map!Request
<1>6. Requests' = [Requests EXCEPT ![w] = Requests'[w]]
  BY OthersAsk
<1>7. fresh' = [fresh EXCEPT ![w] = ~Duplicate(w)]
  BY DEF Execute
<1>8. Duplicate(w) <=> Map!HasValue(Requests'[w].key)
  BY <1>4, SameQuestion
<1>9. fresh' = [fresh EXCEPT ![w] = ~Map!HasValue(Requests'[w].key)]
  BY <1>7, <1>8 DEF Duplicate, Map!HasValue
<1>10. Pairs' = Pairs
  BY <1>1 DEF Pairs
<1> QED
  BY <1>1, <1>2, <1>5, <1>6, <1>9, <1>10 DEF Map!Begin

LEMMA CommitTakes ==
  ASSUME Inv, NEW w \in Writers, \A v \in Writers \ {w} : Rests(v), Commit(w)
  PROVE  Map!Take(w) \/ UNCHANGED Map!vars
<1>1. /\ InCall(w) /\ InCall(w)'
      /\ UNCHANGED <<job, pos, retries, fresh, answer>>
  BY DEF Commit, InCall, Inv, TypeOK
<1>2. Request(w)' = Request(w)
  BY <1>1, RequestKeeps
<1>3. CASE ignored[w]
  BY <1>1, <1>2, <1>3, Stutter DEF Commit
<1>4. CASE ~ignored[w]
  <2>1. fresh[w]
    BY <1>4 DEF Inv, Knows, Commit
  <2>2. Requests[w] = Pair(Row(w))
    BY <1>1 DEF Requests, Request
  <2>3. Requests[w] # NoRequest
    BY <1>1, <2>2, RowIsRow DEF Inv, TypeOK
  <2>4. Pairs' = Pairs \cup {Requests[w]}
    BY <1>4, <2>2 DEF Commit, Pairs
  <2>5. Requests' = Requests
    BY <1>2, OthersAsk DEF Requests
  <2> QED
    BY <1>1, <2>1, <2>3, <2>4, <2>5 DEF Map!Take
<1> QED
  BY <1>3, <1>4

LEMMA ReturnReturns ==
  ASSUME Inv, NEW w \in Writers, \A v \in Writers \ {w} : Rests(v),
         NEW code \in {"ok", "error"}, NEW to \in {"next", "failed"},
         Return(w, code, to), code = "ok" => at[w] = "stored"
  PROVE  Map!Return(w)
<1>1. /\ InCall(w) /\ ~InCall(w)' /\ UNCHANGED rows
      /\ answer' = [answer EXCEPT ![w] = code]
      /\ fresh' = [fresh EXCEPT ![w] = FALSE]
  BY DEF Return, InCall, Inv, TypeOK
<1>2. Requests[w] = Pair(Row(w)) /\ Requests'[w] = NoRequest
  BY <1>1 DEF Requests, Request
<1>3. Requests[w] # NoRequest
  BY <1>1, <1>2, RowIsRow DEF Inv, TypeOK
<1>4. Requests' = [Requests EXCEPT ![w] = NoRequest]
  BY <1>2, OthersAsk
<1>5. code = "ok" => Map!HasValue(Requests[w].key)
  BY <1>2, SameQuestion DEF Inv, Knows
<1>6. Pairs' = Pairs
  BY <1>1 DEF Pairs
<1> QED
  BY <1>1, <1>3, <1>4, <1>5, <1>6 DEF Map!Return

\* A step of a writer is a step of the map, or none.
LEMMA WriterMaps ==
  ASSUME Inv, NEW w \in Writers, Call(w) \/ Step(w) \/ Die(w)
  PROVE  Map!Next \/ UNCHANGED Map!vars
<1>1. \A v \in Writers \ {w} : Rests(v)
  BY WritersRest DEF Inv
<1>2. CASE Call(w)
  <2>1. PICK mode, item, entries : Begin(w, mode, item, entries)
    BY <1>2 DEF Call, CallAddObjectProperty, CallAddRelationProperty,
       CallAddPrefix, ImportObjectProperties, ImportRelationProperties,
       ImportPrefixes
  <2>2. ~InCall(w) /\ ~InCall(w)' /\ UNCHANGED <<rows, fresh, answer>>
    BY <2>1 DEF Begin, InCall, Inv, TypeOK
  <2>3. Request(w)' = Request(w)
    BY <2>2 DEF Request
  <2> QED
    BY <1>1, <2>2, <2>3, Stutter
<1>3. CASE AddObjectProperty(w) \/ AddRelationProperty(w) \/ AddPrefix(w)
  BY <1>1, <1>3, ExecuteBegins DEF AddObjectProperty, AddRelationProperty,
     AddPrefix, Kinds, Map!Next
<1>4. CASE CheckRule(w) \/ BreakLink(w)
  <2>1. InCall(w) /\ InCall(w)' /\ UNCHANGED <<rows, job, pos, fresh, answer>>
    BY <1>4 DEF CheckRule, BreakLink, InCall, Inv, TypeOK
  <2>2. Request(w)' = Request(w)
    BY <2>1, RequestKeeps
  <2> QED
    BY <1>1, <2>1, <2>2, Stutter
<1>5. CASE Commit(w)
  BY <1>1, <1>5, CommitTakes DEF Map!Next
<1>6. CASE Succeed(w)
  BY <1>1, <1>6, ReturnReturns DEF Succeed, Map!Next
<1>7. CASE Fail(w)
  <2>1. AfterError(w) \in {"next", "failed"}
    BY DEF AfterError
  <2> QED
    BY <1>1, <1>7, <2>1, ReturnReturns DEF Fail, Map!Next
<1>8. CASE Die(w)
  BY <1>1, <1>8, ReturnReturns DEF Die, Map!Next
<1>9. CASE Reject(w) \/ Finish(w)
  <2>1. ~InCall(w) /\ ~InCall(w)' /\ UNCHANGED <<rows, fresh, answer>>
    BY <1>9 DEF Reject, Finish, InCall, Inv, TypeOK
  <2>2. Request(w)' = Request(w)
    BY <2>1 DEF Request
  <2> QED
    BY <1>1, <2>1, <2>2, Stutter
<1> QED
  BY <1>2, <1>3, <1>4, <1>5, <1>6, <1>7, <1>8, <1>9 DEF Step

LEMMA QuietMaps ==
  ASSUME UNCHANGED <<rows, at, job, pos, ignored, retries, answer, fresh, lost>>
  PROVE  UNCHANGED Map!vars
<1>1. Requests' = Requests
  BY DEF Requests, Request, InCall, Pair, Row, Entry
<1>2. Pairs' = Pairs
  BY DEF Pairs
<1> QED
  BY <1>1, <1>2 DEF Map!vars

\* cpl_add_*_property and cpl_add_prefix with the rules that ignore
\* duplicates are the map of PropertyMap: a call whose key had a value when it
\* began changes nothing, CPL_OK is only said of a key that has one, and a
\* value stays.
THEOREM TablesAreMap == Spec => IsPropertyMap
<1>1. Init => Map!Init
  BY DEF Init, Map!Init, Pairs, Requests, Request, InCall
<1>2. Inv /\ [Next]_vars => [Map!Next]_(Map!vars)
  <2> SUFFICES ASSUME Inv, [Next]_vars
               PROVE  Map!Next \/ UNCHANGED Map!vars
    OBVIOUS
  <2>1. ASSUME NEW w \in Writers, Call(w) \/ Step(w) \/ Die(w)
        PROVE  Map!Next \/ UNCHANGED Map!vars
    BY <2>1, WriterMaps
  <2>2. ASSUME NEW e \in Readers, Export(e)
        PROVE  Map!Next \/ UNCHANGED Map!vars
    BY <2>2, ExportQuiet, QuietMaps
  <2>3. CASE UNCHANGED vars
    BY <2>3, QuietMaps DEF vars
  <2> QED
    BY <2>1, <2>2, <2>3 DEF Next
<1> QED
  BY <1>1, <1>2, Invariance, PTL DEF Spec, IsPropertyMap, Map!Spec

=============================================================================
