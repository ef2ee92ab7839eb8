---------------------- MODULE Properties_readers_proofs ----------------------
(***************************************************************************)
(* Theorems about the readers of Properties, for any documents and any     *)
(* number of writers: what an import has stored, getters list and exports  *)
(* give back, and the ends of a relation prevail over properties of their  *)
(* names.                                                                  *)
(*                                                                         *)
(* The argument follows a row from the entry of the document it comes from *)
(* (Comes) to the three sections of an export (Shown).  While the export   *)
(* is between its SELECTs other writers may add rows, but none to the item *)
(* of an import that nobody has disturbed by the end (Lone).               *)
(***************************************************************************)
EXTENDS Properties_proofs, FiniteSetTheorems

\* A row fits into its table.
Fits(item, kind) == IF item \in Bundles THEN kind = "prefix" ELSE kind \in Scalars

\* Row r is that of entry p of w's document.
OfEntry(r, w, p) ==
  /\ p \in DOMAIN job[w].entries
  /\ r.item = job[w].item
  /\ r.name = Tokens[job[w].entries[p].key]
  /\ r.kind = job[w].entries[p].kind
  /\ r.value = Stored(r.kind, job[w].entries[p].value, job[w].mode)

\* w's rows are those of its entries, and what it is about to insert fits; the
\* entries of a relation's import have its ends among them.
Comes(w) ==
  /\ \A r \in rows :
       r.call[1] = w =>
         at[w] # "idle" /\ OfEntry(r, w, r.call[2]) /\ Fits(r.item, r.kind)
  /\ InCall(w) => Fits(job[w].item, Entry(w).kind)
  /\ job[w].mode = "import" /\ job[w].item \in Relations =>
       \A n \in DOMAIN Ends[job[w].item] :
         \E q \in DOMAIN job[w].entries : job[w].entries[q] = Ends[job[w].item][n]

\* w has imported all of its entries, and all rows of its item are its own.
Lone(w) ==
  /\ at[w] = "ok" /\ job[w].mode = "import" /\ lost[w] = {}
  /\ \A r \in rows : r.item = job[w].item => r.call[1] = w

\* The kinds whose SELECTs an export has made.
Passed(section) ==
  {kind \in Scalars :
     \/ section = "numerical" /\ kind = "string"
     \/ section = "boolean" /\ kind # "boolean"
     \/ section = "ok"}

\* doc has entry p of w as w's document has it.
Shows(doc, w, p) ==
  LET entry == job[w].entries[p]
      name == FullName[Tokens[entry.key]]
  IN  /\ name \in DOMAIN doc
      /\ doc[name] = [kind |-> entry.kind, value |-> entry.value]

\* What an export has collected of w's document by now.
Shown(e, w) ==
  \A p \in DOMAIN job[w].entries :
    Alone(w, p) /\ Exactly(job[w].entries[p])
      /\ job[w].entries[p].kind \in Passed(export[e].at)
      => Shows(export[e].doc, w, p)

\* doc has the ends of a relation.
ShowsEnds(doc, item) ==
  \A n \in DOMAIN Ends[item] :
    doc[Ends[item][n].key] = [kind |-> "string", value |-> Ends[item][n].value]

Reads(e) ==
  /\ export[e].at \in Scalars \cup {"ok"}
  /\ export[e].at # "string" => export[e].item \in Objects \cup Relations
  /\ export[e].at = "string" => export[e].done = {}
  /\ \A w \in export[e].done :
       /\ w \in Writers /\ at[w] = "ok" /\ job[w].item = export[e].item
       /\ Lone(w) => Shown(e, w)
  /\ export[e].at = "ok" /\ export[e].item \in Relations =>
       ShowsEnds(export[e].doc, export[e].item)

ReadersInv ==
  /\ \A w \in Writers : Comes(w)
  /\ export = [e \in Readers |-> export[e]]
  /\ \A e \in Readers : Reads(e)

-----------------------------------------------------------------------------
(* The writers.                                                            *)

\* The items of the three tables are different.
LEMMA ItemFits ==
  ASSUME NEW w \in Writers, NEW kinds,
         \/ job[w].item \in Objects \cup Relations /\ kinds = Scalars
         \/ job[w].item \in Bundles /\ kinds = {"prefix"},
         Entry(w).kind \in kinds
  PROVE  Fits(job[w].item, Entry(w).kind)
BY ConstantsAssumption DEF Fits

\* An INSERT's row is that of the entry at hand.
LEMMA RowOfEntry ==
  ASSUME Inv, NEW w \in Writers, InCall(w)
  PROVE  /\ OfEntry(Row(w), w, pos[w]) /\ Row(w).call = <<w, pos[w]>>
         /\ Row(w).item = job[w].item /\ Row(w).kind = Entry(w).kind
<1>1. pos[w] \in DOMAIN job[w].entries
  <2>1. job[w] \in Jobs \cup {NoJob} /\ pos[w] \in Nat \ {0} /\ More(w)
    BY DEF Inv, TypeOK
  <2>2. DOMAIN job[w].entries = 1..Len(job[w].entries)
        /\ Len(job[w].entries) \in Nat
    BY <2>1, Positions
  <2> QED
    BY <2>1, <2>2 DEF More
<1> QED
  BY <1>1 DEF OfEntry, Row, Entry

\* A writer that rests has no new rows.
LEMMA OthersCome ==
  ASSUME Inv, NEW w \in Writers, NEW v \in Writers \ {w}, Grows(w), Rests(v),
         Comes(v)
  PROVE  Comes(v)'
<1>1. \A r \in rows' : r \in rows \/ r.call[1] = w
  BY DEF Grows, Row
<1>2. \A r, p : OfEntry(r, v, p)' = OfEntry(r, v, p)
  BY DEF OfEntry, Rests
<1>3. InCall(v)' = InCall(v) /\ Entry(v)' = Entry(v)
  BY DEF InCall, Entry, Rests
<1> QED
  BY <1>1, <1>2, <1>3 DEF Comes, Rests

LEMMA BeginComes ==
  ASSUME Inv, NEW w \in Writers, Comes(w), Call(w)
  PROVE  Comes(w)'
<1>1. /\ at[w] = "idle" /\ at'[w] = "next" /\ rows' = rows
      /\ ~InCall(w)'
  BY DEF Call, CallAddObjectProperty, CallAddRelationProperty, CallAddPrefix,
     ImportObjectProperties, ImportRelationProperties, ImportPrefixes, Begin,
     Inv, TypeOK, InCall
<1>2. \A r \in rows' : r.call[1] # w
  BY <1>1 DEF Comes
<1>3. job'[w].mode = "import" /\ job'[w].item \in Relations =>
        \A n \in DOMAIN Ends[job'[w].item] :
          \E q \in DOMAIN job'[w].entries :
            job'[w].entries[q] = Ends[job'[w].item][n]
  <2>1. CASE CallAddObjectProperty(w) \/ CallAddRelationProperty(w)
               \/ CallAddPrefix(w)
    BY <2>1 DEF CallAddObjectProperty, CallAddRelationProperty, CallAddPrefix,
       Begin, Inv, TypeOK
  <2>2. CASE ImportObjectProperties(w) \/ ImportPrefixes(w)
    <3>1. job'[w].item \in Objects \cup Bundles
      BY <2>2 DEF ImportObjectProperties, ImportPrefixes, Begin, Inv, TypeOK
    <3> QED
      BY <3>1, ConstantsAssumption
  <2>3. CASE ImportRelationProperties(w)
    <3>1. PICK r \in Relations, doc \in RelationJobs :
            Begin(w, "import", r, Ends[r] \o doc)
      BY <2>3 DEF ImportRelationProperties
    <3>2. job'[w].item = r /\ job'[w].entries = Ends[r] \o doc
      BY <3>1 DEF Begin, Inv, TypeOK
    <3>3. Ends[r] \in Seq(Entries) /\ doc \in Seq(Entries)
      BY ConstantsAssumption
    <3>4. \A n \in DOMAIN Ends[r] :
            n \in DOMAIN (Ends[r] \o doc) /\ (Ends[r] \o doc)[n] = Ends[r][n]
      BY <3>3
    <3> QED
      BY <3>2, <3>4
  <2> QED
    BY <2>1, <2>2, <2>3 DEF Call
<1> QED
  BY <1>1, <1>2, <1>3 DEF Comes

LEMMA ExecuteComes ==
  ASSUME Inv, NEW w \in Writers, Comes(w), NEW kinds, Execute(w, kinds),
         \/ job[w].item \in Objects \cup Relations /\ kinds = Scalars
         \/ job[w].item \in Bundles /\ kinds = {"prefix"}
  PROVE  Comes(w)'
<1>1. at'[w] = "sent" /\ UNCHANGED <<rows, job, pos>>
  BY DEF Execute, Inv, TypeOK
<1>2. Entry(w)' = Entry(w) /\ \A r, p : OfEntry(r, w, p)' = OfEntry(r, w, p)
  BY <1>1 DEF Entry, OfEntry
<1>3. Fits(job[w].item, Entry(w).kind)
  BY ItemFits DEF Execute
<1> QED
  BY <1>1, <1>2, <1>3 DEF Comes

LEMMA StepComes ==
  ASSUME Inv, NEW w \in Writers, Comes(w), Step(w) \/ Die(w)
  PROVE  Comes(w)'
<1>1. CASE AddObjectProperty(w) \/ AddRelationProperty(w) \/ AddPrefix(w)
  BY <1>1, ExecuteComes DEF AddObjectProperty, AddRelationProperty, AddPrefix
<1>2. CASE ~(AddObjectProperty(w) \/ AddRelationProperty(w) \/ AddPrefix(w))
  <2>1. /\ at'[w] # "idle" /\ job' = job /\ Grows(w)
        /\ InCall(w)' => InCall(w) /\ pos' = pos
    <3>1. CASE CheckRule(w) \/ Reject(w) \/ Finish(w)
      BY <3>1 DEF CheckRule, Reject, Finish, Grows, InCall, Inv, TypeOK
    <3>2. CASE Commit(w) \/ BreakLink(w)
      BY <3>2 DEF Commit, BreakLink, Grows, InCall, Inv, TypeOK
    <3>3. CASE Succeed(w) \/ Fail(w) \/ Die(w)
      BY <3>3 DEF Succeed, Fail, Die, Return, AfterError, Grows, InCall, Inv,
         TypeOK
    <3> QED
      BY <1>2, <3>1, <3>2, <3>3 DEF Step
  <2>2. \A r, p : OfEntry(r, w, p)' = OfEntry(r, w, p)
    BY <2>1 DEF OfEntry
  <2>3. ASSUME NEW r \in rows', r.call[1] = w
        PROVE  OfEntry(r, w, r.call[2]) /\ Fits(r.item, r.kind)
    <3>1. CASE r \in rows
      BY <2>3, <3>1 DEF Comes
    <3>2. CASE r = Row(w) /\ InCall(w)
      <4>1. Row(w).call[2] = pos[w]
        BY DEF Row
      <4> QED
        BY <3>2, <4>1, RowOfEntry DEF Comes
    <3> QED
      BY <2>1, <3>1, <3>2 DEF Grows
  <2>4. InCall(w)' => Entry(w)' = Entry(w)
    BY <2>1 DEF Entry
  <2> QED
    BY <2>1, <2>2, <2>3, <2>4 DEF Comes
<1> QED
  BY <1>1, <1>2

-----------------------------------------------------------------------------
(* What an import has stored is there once.                                *)

\* What comes out of the column is what went in, for what fits.
LEMMA ComesOut ==
  ASSUME NEW entry \in Entries, entry.kind \in Kinds, Exactly(entry), NEW mode
  PROVE  /\ Collected(entry.kind, Stored(entry.kind, entry.value, mode))
              = entry.value
         /\ Stored(entry.kind, entry.value, mode)
              = Stored(entry.kind, entry.value, "call")
<1>1. entry.value \in DocValues(entry.kind)
  BY DEF Entries
<1>2. CASE entry.kind = "boolean"
  BY <1>1, <1>2, ConstantsAssumption DEF DocValues, Stored, Collected
<1>3. CASE entry.kind = "numerical"
  BY <1>3 DEF Exactly, Stored, Collected, Float
<1>4. CASE entry.kind \in {"string", "prefix"}
  BY <1>4 DEF Exactly, Stored, Collected
<1> QED
  BY <1>2, <1>3, <1>4 DEF Kinds, Scalars

LEMMA EntryTyped ==
  ASSUME Inv, NEW w \in Writers, NEW p \in DOMAIN job[w].entries
  PROVE  /\ job[w] \in Jobs /\ job[w].entries[p] \in Entries
         /\ Tokens[job[w].entries[p].key] \in Names
<1>1. job[w] \in Jobs \cup {NoJob}
  BY DEF Inv, TypeOK
<1>2. job[w] \in Jobs
  BY <1>1 DEF NoJob
<1>3. job[w].entries \in Seq(Entries)
  BY <1>2 DEF Jobs
<1>4. job[w].entries[p] \in Entries
  BY <1>3
<1>5. job[w].entries[p].key \in DocKeys
  BY <1>4 DEF Entries
<1> QED
  BY <1>2, <1>4, <1>5 DEF Names

\* The row of an entry whose name no other one has is the only one of its
\* name.
LEMMA TheRow ==
  ASSUME Inv, NEW w \in Writers, Comes(w), Lone(w),
         NEW p \in DOMAIN job[w].entries, Alone(w, p)
  PROVE  \E r \in rows :
           /\ OfEntry(r, w, p) /\ r.kind \in Kinds /\ Fits(r.item, r.kind)
           /\ \A s \in rows : s.item = r.item /\ s.name = r.name => s = r
<1> DEFINE name == Tokens[job[w].entries[p].key]
<1>1. ASSUME NEW s \in rows, s.item = job[w].item, s.name = name
      PROVE  s.call = <<w, p>> /\ OfEntry(s, w, p) /\ Fits(s.item, s.kind)
  <2>1. s.call[1] = w /\ s.call \in Writers \X (Nat \ {0}) /\ s.call[2] \in Nat
    BY <1>1 DEF Lone, Inv, TypeOK, Rows
  <2>2. OfEntry(s, w, s.call[2]) /\ Fits(s.item, s.kind)
    BY <2>1 DEF Comes
  <2>3. s.call[2] = p
    BY <1>1, <2>2 DEF OfEntry, Alone
  <2> QED
    BY <2>1, <2>2, <2>3
<1>2. PICK r \in rows : r.item = job[w].item /\ r.name = name
  <2>1. Stores(w) /\ ~More(w)
    BY DEF Inv, Stores, Lone
  <2>2. job[w] \in Jobs \cup {NoJob} /\ pos[w] \in Nat
    BY DEF Inv, TypeOK
  <2>3. DOMAIN job[w].entries = 1..Len(job[w].entries)
        /\ Len(job[w].entries) \in Nat
    BY <2>2, Positions
  <2>4. p < pos[w]
    BY <2>1, <2>2, <2>3 DEF More
  <2> QED
    BY <2>1, <2>4 DEF Stores, Lone, Kept
<1>3. \A s \in rows : s.item = r.item /\ s.name = r.name => s = r
  BY <1>1, <1>2 DEF Inv, OneRowPerCall
<1>4. OfEntry(r, w, p) /\ Fits(r.item, r.kind) /\ r.kind \in Kinds
  BY <1>1, <1>2 DEF Inv, TypeOK, Rows
<1> QED
  BY <1>3, <1>4

\* If no other writer has the item, all rows of it are w's.
LEMMA UndisturbedIsLone ==
  ASSUME Inv, NEW w \in Writers, \A v \in Writers : Comes(v), Undisturbed(w)
  PROVE  Lone(w)
<1>1. ASSUME NEW r \in rows, r.item = job[w].item
      PROVE  r.call[1] = w
  <2>1. r.call[1] \in Writers
    BY DEF Inv, TypeOK, Rows
  <2>2. OfEntry(r, r.call[1], r.call[2])
    BY <2>1 DEF Comes
  <2>3. r.item = job[r.call[1]].item
    BY <2>2 DEF OfEntry
  <2> QED
    BY <1>1, <2>1, <2>3 DEF Undisturbed
<1> QED
  BY <1>1 DEF Undisturbed, Lone

-----------------------------------------------------------------------------
(* What a section of an export shows.                                      *)

LEMMA MergeShows ==
  ASSUME Inv, NEW w \in Writers, Comes(w), Lone(w),
         NEW p \in DOMAIN job[w].entries, Alone(w, p),
         Exactly(job[w].entries[p]),
         NEW kind \in Scalars, NEW last \in SUBSET Select(job[w].item, kind),
         LastOfEach(Select(job[w].item, kind), last), NEW doc,
         job[w].entries[p].kind # kind => Shows(doc, w, p)
  PROVE  Shows(Merge(doc, last), w, p)
<1> DEFINE entry == job[w].entries[p]
           name == FullName[Tokens[entry.key]]
<1>1. PICK r \in rows :
        /\ OfEntry(r, w, p) /\ r.kind \in Kinds
        /\ \A s \in rows : s.item = r.item /\ s.name = r.name => s = r
  BY TheRow
<1>2. /\ r.item = job[w].item /\ r.name = Tokens[entry.key]
      /\ r.kind = entry.kind /\ r.name \in Names
      /\ r.value = Stored(entry.kind, entry.value, job[w].mode)
  BY <1>1, EntryTyped DEF OfEntry
<1>3. ASSUME NEW s \in last, FullName[s.name] = name
      PROVE  s = r
  <2>1. s \in rows /\ s.item = job[w].item /\ s.name \in Names
    BY DEF Select, Inv, TypeOK, Rows
  <2>2. s.name = r.name
    BY <1>2, <1>3, <2>1, ConstantsAssumption
  <2> QED
    BY <1>1, <1>2, <2>1, <2>2
<1>4. CASE entry.kind = kind
  <2>1. r \in Select(job[w].item, kind)
    BY <1>2, <1>4 DEF Select
  <2>2. PICK s \in last : s.name = r.name
    BY <2>1 DEF LastOfEach
  <2>3. s = r /\ FullName[r.name] = name
    BY <1>2, <1>3, <2>2
  <2>4. r \in last /\ (CHOOSE s1 \in last : FullName[s1.name] = name) = r
    BY <1>3, <2>3
  <2>5. name \in DOMAIN Merge(doc, last)
        /\ Merge(doc, last)[name]
             = [kind |-> r.kind, value |-> Collected(r.kind, r.value)]
    BY <2>3, <2>4 DEF Merge
  <2>6. Collected(r.kind, r.value) = entry.value
    BY <1>1, <1>2, EntryTyped, ComesOut
  <2> QED
    BY <1>2, <2>5, <2>6 DEF Shows
<1>5. CASE entry.kind # kind
  <2>1. \A s \in last : FullName[s.name] # name
    BY <1>2, <1>3, <1>5 DEF Select
  <2>2. name \in DOMAIN doc /\ doc[name] = [kind |-> entry.kind, value |-> entry.value]
    BY <1>5 DEF Shows
  <2>3. name \in DOMAIN Merge(doc, last) /\ Merge(doc, last)[name] = doc[name]
    BY <2>1, <2>2 DEF Merge
  <2> QED
    BY <2>2, <2>3 DEF Shows
<1> QED
  BY <1>4, <1>5

LEMMA EndsShow ==
  ASSUME NEW item \in Relations, NEW doc
  PROVE  ShowsEnds(WithEnds(item, doc), item)
<1> SUFFICES ASSUME NEW n \in DOMAIN Ends[item]
             PROVE  WithEnds(item, doc)[Ends[item][n].key]
                      = [kind |-> "string", value |-> Ends[item][n].value]
  BY DEF ShowsEnds
<1> DEFINE end == Ends[item][n]
           named == {Ends[item][m] : m \in DOMAIN Ends[item]}
<1>1. \A y \in named : y.key = end.key => y = end
  BY ConstantsAssumption
<1>2. end \in named
  OBVIOUS
<1>3. (CHOOSE y \in named : y.key = end.key) = end
  BY <1>1, <1>2
<1> HIDE DEF end, named
<1>4. end.key \in {y.key : y \in named} /\ \E y \in named : y.key = end.key
  BY <1>2
<1>5. WithEnds(item, doc)[end.key] = [kind |-> "string", value |-> end.value]
  BY <1>3, <1>4 DEF WithEnds, named
<1> QED
  BY <1>5 DEF end

LEMMA WithEndsShows ==
  ASSUME Inv, NEW w \in Writers, Comes(w), Lone(w),
         NEW p \in DOMAIN job[w].entries, Alone(w, p), NEW doc,
         Shows(doc, w, p)
  PROVE  Shows(WithEnds(job[w].item, doc), w, p)
<1> DEFINE entry == job[w].entries[p]
           item == job[w].item
           name == FullName[Tokens[entry.key]]
           named == {Ends[item][n] : n \in DOMAIN Ends[item]}
<1>1. CASE item \notin Relations
  BY <1>1 DEF WithEnds
<1>2. CASE item \in Relations
  <2>1. ASSUME NEW y \in named, y.key = name
        PROVE  y = entry /\ y.kind = "string"
    <3>1. PICK n \in DOMAIN Ends[item] : y = Ends[item][n]
      OBVIOUS
    <3>2. PICK q \in DOMAIN job[w].entries : job[w].entries[q] = y
      BY <1>2, <3>1 DEF Comes, Lone
    <3>3. Tokens[job[w].entries[q].key] = Tokens[entry.key]
      BY <2>1, <3>2, EntryTyped, ConstantsAssumption
    <3>4. q = p
      BY <3>3 DEF Alone
    <3>5. y.kind = "string"
      BY <1>2, <3>1, ConstantsAssumption
    <3> QED
      BY <3>2, <3>4, <3>5
  <2>2. name \in DOMAIN doc
        /\ doc[name] = [kind |-> entry.kind, value |-> entry.value]
    BY DEF Shows
  <2>3. CASE \E y \in named : y.key = name
    <3> DEFINE end == CHOOSE y \in named : y.key = name
    <3>1. end \in named /\ end.key = name
      BY <2>3
    <3>2. end = entry /\ entry.kind = "string"
      BY <2>1, <3>1
    <3>3. name \in DOMAIN WithEnds(item, doc)
          /\ WithEnds(item, doc)[name] = [kind |-> "string", value |-> end.value]
      BY <1>2, <2>2, <2>3 DEF WithEnds
    <3> QED
      BY <3>2, <3>3 DEF Shows
  <2>4. CASE ~\E y \in named : y.key = name
    <3>1. name \in DOMAIN WithEnds(item, doc)
          /\ WithEnds(item, doc)[name] = doc[name]
      BY <1>2, <2>2, <2>4 DEF WithEnds
    <3> QED
      BY <2>2, <3>1 DEF Shows
  <2> QED
    BY <2>3, <2>4
<1> QED
  BY <1>1, <1>2

\* What an export has of w's entries after the SELECT of one more kind.
LEMMA SectionShows ==
  ASSUME Inv, NEW e \in Readers, NEW w \in Writers, Comes(w), Lone(w),
         NEW item, item = job[w].item,
         export[e].at \in Scalars, export[e].at # "string" => Shown(e, w),
         NEW last \in SUBSET Select(item, export[e].at),
         LastOfEach(Select(item, export[e].at), last),
         NEW p \in DOMAIN job[w].entries, Alone(w, p),
         Exactly(job[w].entries[p]),
         job[w].entries[p].kind \in Passed(NextSection[export[e].at])
  PROVE  Shows(Written(item, export[e].at, export[e].doc, last), w, p)
<1> DEFINE kind == export[e].at
<1>1. job[w].entries[p].kind # kind => Shows(export[e].doc, w, p)
  <2>1. job[w].entries[p].kind # kind =>
          kind # "string" /\ job[w].entries[p].kind \in Passed(kind)
    BY DEF Passed, NextSection, Scalars
  <2> QED
    BY <2>1 DEF Shown
<1>2. Shows(Merge(export[e].doc, last), w, p)
  BY <1>1, MergeShows
<1> QED
  BY <1>2, WithEndsShows DEF Written

-----------------------------------------------------------------------------
(* The inductive invariant.                                                *)

\* Writers leave the exports alone.
LEMMA WritersExportNothing ==
  ASSUME NEW w \in Writers, Call(w) \/ Step(w) \/ Die(w)
  PROVE  export' = export
<1>1. ASSUME NEW mode, NEW item, NEW entries, Begin(w, mode, item, entries)
      PROVE  export' = export
  BY <1>1 DEF Begin
<1>2. CASE Call(w)
  BY <1>1, <1>2 DEF Call, CallAddObjectProperty, CallAddRelationProperty,
     CallAddPrefix, ImportObjectProperties, ImportRelationProperties,
     ImportPrefixes
<1>3. ASSUME NEW code, NEW to, Return(w, code, to)
      PROVE  export' = export
  BY <1>3 DEF Return
<1>4. CASE Succeed(w) \/ Fail(w) \/ Die(w)
  BY <1>3, <1>4 DEF Succeed, Fail, Die
<1>5. CASE AddObjectProperty(w) \/ AddRelationProperty(w) \/ AddPrefix(w)
  BY <1>5 DEF AddObjectProperty, AddRelationProperty, AddPrefix, Execute
<1>6. CASE CheckRule(w) \/ Commit(w) \/ BreakLink(w) \/ Reject(w) \/ Finish(w)
  BY <1>6 DEF CheckRule, Commit, BreakLink, Reject, Finish
<1> QED
  BY <1>2, <1>4, <1>5, <1>6 DEF Step

\* A writer that has finished does nothing more.
LEMMA FinishedRest ==
  ASSUME Inv, NEW w \in Writers, Call(w) \/ Step(w) \/ Die(w)
  PROVE  at[w] # "ok"
BY DEF Call, CallAddObjectProperty, CallAddRelationProperty, CallAddPrefix,
   ImportObjectProperties, ImportRelationProperties, ImportPrefixes, Begin,
   Step, AddObjectProperty, AddRelationProperty, AddPrefix, Execute, CheckRule,
   Commit, Succeed, Fail, Die, Return, InCall, BreakLink, Reject, Finish

\* What an export shows of a document that rests does not change by itself.
LEMMA ShownRests ==
  ASSUME NEW e, NEW v, job'[v] = job[v], export'[e] = export[e], Shown(e, v)
  PROVE  Shown(e, v)'
<1> SUFFICES ASSUME NEW p \in DOMAIN job'[v].entries, Alone(v, p)',
                    Exactly(job[v].entries[p]),
                    job[v].entries[p].kind \in Passed(export[e].at)
             PROVE  Shows(export[e].doc, v, p)'
  BY DEF Shown, Exactly, Passed, Scalars
<1>1. Alone(v, p)
  BY DEF Alone
<1>2. Shows(export[e].doc, v, p)
  BY <1>1 DEF Shown
<1> QED
  BY <1>2 DEF Shows

\* An export does not see what writers of other items do.
LEMMA WriterReads ==
  ASSUME Inv, ReadersInv, NEW w \in Writers, Call(w) \/ Step(w) \/ Die(w),
         NEW e \in Readers
  PROVE  Reads(e)'
<1>1. Grows(w) /\ \A v \in Writers \ {w} : Rests(v)
  BY WritersRest DEF Inv
<1>2. export' = export
  BY WritersExportNothing
<1>3. Reads(e)
  BY DEF ReadersInv
<1>4. ASSUME NEW v \in export[e].done
      PROVE  /\ v \in Writers /\ at'[v] = "ok" /\ job'[v].item = export[e].item
             /\ Lone(v)' => Shown(e, v)'
  <2>1. v \in Writers /\ at[v] = "ok" /\ job[v].item = export[e].item
        /\ (Lone(v) => Shown(e, v))
    BY <1>3 DEF Reads
  <2>2. v \in Writers \ {w}
    BY <2>1, FinishedRest
  <2>3. Rests(v) /\ rows \subseteq rows'
    BY <1>1, <2>2 DEF Grows
  <2>4. Lone(v)' => Lone(v)
    BY <2>3 DEF Lone, Rests
  <2>5. Shown(e, v) => Shown(e, v)'
    <3>1. job'[v] = job[v] /\ export'[e] = export[e]
      BY <1>2, <2>3 DEF Rests
    <3> QED
      BY <3>1, ShownRests
  <2> QED
    BY <2>1, <2>3, <2>4, <2>5 DEF Rests
<1> QED
  BY <1>2, <1>3, <1>4 DEF Reads

LEMMA GetReads ==
  ASSUME Inv, ReadersInv, NEW e \in Readers, NEW item \in Objects \cup Relations,
         GetProperties(e, item)
  PROVE  Reads(e)'
<1> DEFINE kind == export[e].at
<1>1. PICK last \in SUBSET Select(item, kind) :
        /\ LastOfEach(Select(item, kind), last)
        /\ export' = [export EXCEPT ![e] =
             [at |-> NextSection[kind], item |-> item,
              doc |-> Written(item, kind, export[e].doc, last),
              done |-> IF kind = "string"
                       THEN {w \in Writers : at[w] = "ok" /\ job[w].item = item}
                       ELSE export[e].done]]
  BY DEF GetProperties
<1>2. /\ kind \in Scalars
      /\ kind # "string" => export[e].item = item
      /\ UNCHANGED <<rows, at, job, pos, ignored, retries, answer, fresh, lost>>
  BY DEF GetProperties
<1>3. export'[e] =
        [at |-> NextSection[kind], item |-> item,
         doc |-> Written(item, kind, export[e].doc, last),
         done |-> IF kind = "string"
                  THEN {w \in Writers : at[w] = "ok" /\ job[w].item = item}
                  ELSE export[e].done]
  BY <1>1 DEF ReadersInv
<1> HIDE DEF kind
<1>4. /\ export'[e].at = NextSection[kind] /\ export'[e].item = item
      /\ export'[e].doc = Written(item, kind, export[e].doc, last)
      /\ export'[e].done = IF kind = "string"
                           THEN {w \in Writers : at[w] = "ok" /\ job[w].item = item}
                           ELSE export[e].done
  BY <1>3
<1>5. /\ NextSection[kind] \in {"numerical", "boolean", "ok"}
      /\ NextSection[kind] = "ok" => kind = "boolean"
  <2>1. /\ NextSection["string"] = "numerical"
        /\ NextSection["numerical"] = "boolean"
        /\ NextSection["boolean"] = "ok"
    BY DEF NextSection
  <2>2. kind \in {"string", "numerical", "boolean"}
    BY <1>2 DEF Scalars
  <2> QED
    BY <2>1, <2>2
<1>6. ASSUME NEW w \in export'[e].done
      PROVE  /\ w \in Writers /\ at[w] = "ok" /\ job[w].item = item
             /\ Lone(w) => Shown(e, w)'
  <2>1. /\ w \in Writers /\ at[w] = "ok" /\ job[w].item = item
        /\ kind # "string" /\ Lone(w) => Shown(e, w)
    <3>1. CASE kind = "string"
      BY <1>4, <3>1
    <3>2. CASE kind # "string"
      <4>1. w \in export[e].done /\ export[e].item = item
        BY <1>2, <1>4, <3>2
      <4>2. Reads(e)
        BY DEF ReadersInv
      <4> QED
        BY <4>1, <4>2, <3>2 DEF Reads
    <3> QED
      BY <3>1, <3>2
  <2>2. SUFFICES ASSUME Lone(w), NEW p \in DOMAIN job[w].entries, Alone(w, p)',
                        Exactly(job[w].entries[p]),
                        job[w].entries[p].kind \in Passed(NextSection[kind])
                 PROVE  Shows(export[e].doc, w, p)'
    BY <1>2, <1>4, <2>1 DEF Shown, Exactly, Passed, Scalars
  <2>3. Comes(w)
    BY <2>1 DEF ReadersInv
  <2> QED
    <3>1. /\ export[e].at # "string" => Shown(e, w)
          /\ Alone(w, p)
          /\ export[e].at \in Scalars
          /\ job[w].entries[p].kind \in Passed(NextSection[export[e].at])
          /\ last \in SUBSET Select(item, export[e].at)
          /\ LastOfEach(Select(item, export[e].at), last)
      BY <1>1, <1>2, <2>1, <2>2 DEF kind, Alone
    <3>2. Shows(Written(item, export[e].at, export[e].doc, last), w, p)
      BY <2>1, <2>2, <2>3, <3>1, SectionShows
    <3> QED
      BY <1>2, <1>4, <3>2 DEF kind, Shows
<1>7. kind = "boolean" /\ item \in Relations =>
        ShowsEnds(export'[e].doc, item)
  BY <1>4, EndsShow DEF Written
<1>8. \A w \in Writers : Lone(w)' = Lone(w)
  BY <1>2 DEF Lone
<1> QED
  BY <1>2, <1>4, <1>5, <1>6, <1>7, <1>8 DEF Reads, Scalars

LEMMA ExportReads ==
  ASSUME Inv, ReadersInv, NEW e \in Readers, Export(e)
  PROVE  ReadersInv'
<1>1. UNCHANGED <<rows, at, job, pos, ignored, retries, answer, fresh, lost>>
  BY ExportQuiet
<1>2. \A w \in Writers : Comes(w)'
  BY <1>1 DEF ReadersInv, Comes, OfEntry, InCall, Entry
<1>3. /\ export' = [d \in Readers |-> export'[d]]
      /\ \A d \in Readers \ {e} : export'[d] = export[d]
  BY DEF ReadersInv, Export, GetObjectProperties, GetRelationProperties,
     GetProperties, ExportFails
<1>4. Reads(e)'
  <2>1. CASE ExportFails(e)
    <3>1. export'[e] = NoExport
      BY <2>1 DEF ExportFails, ReadersInv
    <3> QED
      BY <3>1 DEF Reads, NoExport, Scalars
  <2>2. CASE ~ExportFails(e)
    BY <2>2, GetReads DEF Export, GetObjectProperties, GetRelationProperties
  <2> QED
    BY <2>1, <2>2
<1>5. \A d \in Readers \ {e} : Reads(d)'
  <2>1. \A d \in Readers \ {e} : \A w : Shown(d, w) => Shown(d, w)'
    BY <1>1, <1>3, ShownRests
  <2>2. \A w : Lone(w)' = Lone(w)
    BY <1>1 DEF Lone
  <2> QED
    BY <1>1, <1>3, <2>1, <2>2 DEF ReadersInv, Reads, ShowsEnds, Scalars
<1> QED
  BY <1>2, <1>3, <1>4, <1>5 DEF ReadersInv

LEMMA WriterReadersInv ==
  ASSUME Inv, ReadersInv, NEW w \in Writers, Call(w) \/ Step(w) \/ Die(w)
  PROVE  ReadersInv'
<1>1. Grows(w) /\ \A v \in Writers \ {w} : Rests(v)
  BY WritersRest DEF Inv
<1>2. Comes(w)'
  BY BeginComes, StepComes DEF ReadersInv
<1>3. \A v \in Writers \ {w} : Comes(v)'
  BY <1>1, OthersCome DEF ReadersInv
<1>4. export' = export
  BY WritersExportNothing
<1> QED
  BY <1>2, <1>3, <1>4, WriterReads DEF ReadersInv

LEMMA InitReads == Init => ReadersInv
<1> SUFFICES ASSUME Init PROVE ReadersInv
  OBVIOUS
<1>1. NoJob.mode = "none"
  BY DEF NoJob
<1>2. \A w \in Writers : Comes(w)
  BY <1>1 DEF Init, Comes, InCall
<1>3. NoExport.at = "string" /\ NoExport.done = {}
  BY DEF NoExport
<1> QED
  BY <1>2, <1>3 DEF Init, ReadersInv, Reads, Scalars

\* Rows come from the entries of the writers' documents, and an export has
\* what a document said, as long as nobody else has written to the item.
THEOREM ReadersInvariance == Spec => [](Inv /\ ReadersInv)
<1>1. Inv /\ ReadersInv /\ [Next]_vars => ReadersInv'
  <2> SUFFICES ASSUME Inv, ReadersInv, [Next]_vars PROVE ReadersInv'
    OBVIOUS
  <2>1. ASSUME NEW w \in Writers, Call(w) \/ Step(w) \/ Die(w)
        PROVE  ReadersInv'
    BY <2>1, WriterReadersInv
  <2>2. ASSUME NEW e \in Readers, Export(e)
        PROVE  ReadersInv'
    BY <2>2, ExportReads
  <2>3. CASE UNCHANGED vars
    <3>1. UNCHANGED <<rows, at, job, pos, lost, export>>
      BY <2>3 DEF vars
    <3>2. \A w : Comes(w)' = Comes(w)
      BY <3>1 DEF Comes, OfEntry, InCall, Entry, Fits, Stored, Float
    <3>3. \A e, w : Shown(e, w)' = Shown(e, w)
      BY <3>1 DEF Shown, Shows, Alone, Exactly, Passed, Scalars
    <3>4. \A w : Lone(w)' = Lone(w)
      BY <3>1 DEF Lone
    <3> QED
      BY <3>1, <3>2, <3>3, <3>4 DEF ReadersInv, Reads, ShowsEnds
  <2> QED
    BY <2>1, <2>2, <2>3 DEF Next
<1> QED
  BY InitReads, <1>1, Invariance, PTL DEF Spec

-----------------------------------------------------------------------------
(* The properties.                                                         *)

\* export_relations_json: the ends are written after the properties, and so
\* prevail over properties of their names.
THEOREM EndsAlwaysPrevail == Spec => []EndsPrevail
<1>1. ReadersInv => EndsPrevail
  BY DEF ReadersInv, Reads, ShowsEnds, EndsPrevail
<1> QED
  BY ReadersInvariance, <1>1, PTL

\* import_*_json and export_*_json: a property comes back as it was imported,
\* although the export is three SELECTs and others import meanwhile.
THEOREM PropertiesComeBack == Spec => []PropertyRoundTrip
<1>1. Inv /\ ReadersInv => PropertyRoundTrip
  <2> SUFFICES ASSUME Inv, ReadersInv, NEW e \in Readers, NEW w \in Writers,
                      export[e].at = "ok", w \in export[e].done, Undisturbed(w),
                      NEW p \in DOMAIN job[w].entries, Alone(w, p),
                      Exactly(job[w].entries[p]), export[e].item = job[w].item
               PROVE  Shows(export[e].doc, w, p)
    BY DEF PropertyRoundTrip, Shows
  <2>1. Comes(w) /\ Lone(w)
    BY UndisturbedIsLone DEF ReadersInv
  <2>2. job[w].item \in Objects \cup Relations
    BY DEF ReadersInv, Reads
  <2>3. PICK r \in rows :
          OfEntry(r, w, p) /\ r.kind \in Kinds /\ Fits(r.item, r.kind)
    BY <2>1, TheRow
  <2>4. job[w].entries[p].kind \in Scalars
    BY <2>2, <2>3, ConstantsAssumption DEF OfEntry, Fits
  <2>5. Shown(e, w)
    BY <2>1 DEF ReadersInv, Reads
  <2> QED
    BY <2>4, <2>5 DEF Shown, Passed
<1> QED
  BY ReadersInvariance, <1>1, PTL

\* cpl_get_*_properties, cpl_get_prefixes and cpl_lookup_object_by_*_property
\* find what an import has stored, once and by its value.
THEOREM ImportsAreRetrievable == Spec => []Retrievable
<1>1. Inv /\ ReadersInv => Retrievable
  <2> SUFFICES ASSUME Inv, ReadersInv, NEW w \in Writers, Undisturbed(w),
                      NEW p \in DOMAIN job[w].entries, Alone(w, p)
               PROVE  LET entry == job[w].entries[p]
                          item == job[w].item
                          name == Tokens[entry.key]
                          listed == Listed(item, entry.kind, name)
                      IN  /\ Cardinality(listed) = 1
                          /\ Exactly(entry) =>
                               {Collected(r.kind, r.value) : r \in listed}
                                 = {entry.value}
                          /\ item \in Objects
                               /\ (entry.kind = "string" \/ Exactly(entry)) =>
                               item \in ObjectsByProperty(name, entry.kind,
                                 Stored(entry.kind, entry.value, "call"))
    BY DEF Retrievable
  <2> DEFINE entry == job[w].entries[p]
             item == job[w].item
             name == Tokens[entry.key]
             listed == Listed(item, entry.kind, name)
  <2>1. Comes(w) /\ Lone(w)
    BY UndisturbedIsLone DEF ReadersInv
  <2>2. PICK r \in rows :
          /\ OfEntry(r, w, p) /\ r.kind \in Kinds
          /\ \A s \in rows : s.item = r.item /\ s.name = r.name => s = r
    BY <2>1, TheRow
  <2>3. /\ r.item = item /\ r.name = name /\ r.kind = entry.kind
        /\ r.value = Stored(entry.kind, entry.value, job[w].mode)
        /\ entry \in Entries
    BY <2>2, EntryTyped DEF OfEntry
  <2>4. listed = {r}
    BY <2>2, <2>3 DEF Listed, Select
  <2>5. Cardinality(listed) = 1
    BY <2>4, FS_Singleton
  <2>6. Exactly(entry) =>
          {Collected(s.kind, s.value) : s \in listed} = {entry.value}
    <3>1. Exactly(entry) => Collected(r.kind, r.value) = entry.value
      BY <2>2, <2>3, ComesOut
    <3> QED
      BY <2>4, <3>1
  <2>7. entry.kind = "string" \/ Exactly(entry) =>
          r.value = Stored(entry.kind, entry.value, "call")
    <3>1. entry.kind = "string" =>
            Stored(entry.kind, entry.value, job[w].mode)
              = Stored(entry.kind, entry.value, "call")
      BY DEF Stored
    <3> QED
      BY <2>2, <2>3, <3>1, ComesOut
  <2>8. item \in Objects /\ (entry.kind = "string" \/ Exactly(entry)) =>
          item \in ObjectsByProperty(name, entry.kind,
                     Stored(entry.kind, entry.value, "call"))
    BY <2>2, <2>3, <2>7 DEF ObjectsByProperty
  <2> QED
    BY <2>5, <2>6, <2>8
<1> QED
  BY ReadersInvariance, <1>1, PTL

=============================================================================
