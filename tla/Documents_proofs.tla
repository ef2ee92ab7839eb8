-------------------------- MODULE Documents_proofs --------------------------
(***************************************************************************)
(* Theorems about Documents, for any number of imports, exports and        *)
(* creators, any documents and any number of broken links: imports do not  *)
(* mix, the relations of an import are members of its bundle but for one   *)
(* and one with each broken link, and what validate_json has accepted      *)
(* stays acyclic.                                                          *)
(***************************************************************************)
EXTENDS Documents, FiniteSetTheorems, TLAPS

\* The sequences number the rows.
RowsInv ==
  /\ nextObject \in Nat /\ nextRelation \in Nat
  /\ \A o \in objects : o.id \in Nat /\ o.id < nextObject
  /\ \A o, p \in objects : o.id = p.id => o = p
  /\ \A r \in relations :
       r.id \in Nat /\ r.id < nextRelation /\ r.maker \in Imports
  /\ \A r, s \in relations : r.id = s.id => r = s

Fields == {"at", "doc", "extern", "anchors", "pos", "bundle", "table",
           "source", "dest", "relation", "repeats"}

CallsInv ==
  /\ import = [i \in Imports |-> import[i]]
  /\ \A i \in Imports :
       /\ DOMAIN import[i] = Fields
       /\ import[i].at \in Labels
       /\ import[i].pos \in Nat \ {0}
       /\ import[i].doc \in Document
       /\ import[i].repeats \in Nat

\* Is id that of an object that i has created?
Mine(i, id) == \E o \in objects : o.id = id /\ o.maker = i

\* No objects but those of the document come in.
Plain(i) == ~import[i].extern /\ import[i].anchors = <<>>

\* The relation at hand, and its ends by lookup_tbl.
Hand(i) == Item(i, import[i].doc.relations)

HasSource(i) ==
  /\ Hand(i).source \in DOMAIN import[i].table
  /\ import[i].source = import[i].table[Hand(i).source]

HasDest(i) ==
  /\ Hand(i).dest \in DOMAIN import[i].table
  /\ import[i].dest = import[i].table[Hand(i).dest]

\* Row r is a relation of i's document, between the objects of its keys.
FromDocument(i, r) ==
  \E n \in DOMAIN import[i].doc.relations :
    LET link == import[i].doc.relations[n]
    IN  /\ link.source \in DOMAIN import[i].table
        /\ link.dest \in DOMAIN import[i].table
        /\ r.from = import[i].table[link.source]
        /\ r.to = import[i].table[link.dest]

\* Row r is in i's bundle.
Member(i, r) ==
  \E m \in relations :
    m.type = "bundleRelation" /\ m.from = import[i].bundle /\ m.to = r.id

\* Where i is, and what there is of it by then.
PlaceInv(i) ==
  /\ import[i].at \in {"idle", "bundle"} => import[i].bundle = None
  /\ import[i].at \notin {"idle", "bundle", "error"} => import[i].bundle # None
  /\ import[i].bundle # None => Mine(i, import[i].bundle)
  /\ import[i].at \in {"idle", "bundle", "prefixes", "objects"} =>
       \A r \in relations : r.maker # i
  /\ import[i].at \in {"dest", "relate"} =>
       import[i].pos \in DOMAIN import[i].doc.relations

\* lookup_tbl has one object of i's for each key.
TableInv(i) ==
  /\ \A k \in DOMAIN import[i].table : k \in Keys /\ Mine(i, import[i].table[k])
  /\ \A k, l \in DOMAIN import[i].table :
       import[i].table[k] = import[i].table[l] => k = l

\* Without CPL_J_EXTERN_OBJ and anchors the ends come from lookup_tbl.
EdgeInv(i) ==
  Plain(i) =>
    /\ import[i].at \notin {"anchor", "linkAnchor"}
    /\ import[i].at \in {"dest", "relate"} => HasSource(i)
    /\ import[i].at = "relate" => HasDest(i)
    /\ \A r \in Own(i) : FromDocument(i, r)

\* The relations that i has inserted and that are not in its bundle.
Strays(i) == {r \in Own(i) : ~Member(i, r)}

\* The strays that are not at hand.
Left(i) == {r \in Strays(i) : r.id # import[i].relation}

Few(S, n) == IsFiniteSet(S) /\ Cardinality(S) <= n

\* Each membership is one of a relation of i's in i's bundle, and no more than
\* the relation at hand, and one with each broken link, has none.
MemberInv(i) ==
  /\ import[i].at \in {"link", "linkAnchor"} =>
       \E r \in Own(i) : r.id = import[i].relation
  /\ import[i].at \notin {"link", "linkAnchor", "error"} =>
       import[i].relation = None
  /\ \A m \in relations :
       m.maker = i /\ m.type = "bundleRelation" =>
         /\ m.from = import[i].bundle /\ Mine(i, m.from)
         /\ \E r \in Own(i) : r.id = m.to
  /\ IF import[i].at = "error" THEN Few(Strays(i), import[i].repeats + 1)
     ELSE Few(Left(i), import[i].repeats)

LocalInv(i) == PlaceInv(i) /\ TableInv(i) /\ EdgeInv(i) /\ MemberInv(i)

Inv == RowsInv /\ CallsInv /\ \A i \in Imports : LocalInv(i)

-----------------------------------------------------------------------------
(* The INSERTs.                                                            *)

\* An object comes, with an id of its own.
LEMMA InsertObjectRows ==
  ASSUME RowsInv, NEW n, NEW t, NEW m, InsertObject(n, t, m)
  PROVE  /\ RowsInv' /\ relations' = relations /\ objects \subseteq objects'
         /\ \E o \in objects' : o.id = nextObject /\ o.maker = m
<1>1. objects' = objects \cup
        {[id |-> nextObject, name |-> n, type |-> t, maker |-> m]}
  BY DEF InsertObject
<1>2. nextObject' = nextObject + 1 /\ UNCHANGED <<relations, nextRelation>>
  BY DEF InsertObject
<1>3. \A o \in objects : o.id \in Nat /\ o.id < nextObject
  BY DEF RowsInv
<1>4. \A o \in objects' : o.id \in Nat /\ o.id < nextObject'
  BY <1>1, <1>2, <1>3 DEF RowsInv
<1>5. \A o, p \in objects' : o.id = p.id => o = p
  BY <1>1, <1>3 DEF RowsInv
<1>6. \E o \in objects' : o.id = nextObject /\ o.maker = m
  <2> DEFINE row == [id |-> nextObject, name |-> n, type |-> t, maker |-> m]
  <2>1. row \in objects' /\ row.id = nextObject /\ row.maker = m
    BY <1>1
  <2> QED
    BY <2>1
<1>7. \A r \in relations' :
        r.id \in Nat /\ r.id < nextRelation' /\ r.maker \in Imports
  BY <1>2 DEF RowsInv
<1> QED
  BY <1>1, <1>2, <1>4, <1>5, <1>6, <1>7 DEF RowsInv

\* The row of a relation.
NewRow(from, to, t, m) ==
  [id |-> nextRelation, from |-> from, to |-> to, type |-> t, maker |-> m]

LEMMA InsertRelationRows ==
  ASSUME RowsInv, NEW from, NEW to, NEW t, NEW m \in Imports,
         InsertRelation(from, to, t, m)
  PROVE  /\ RowsInv' /\ objects' = objects
         /\ relations' = relations \cup {NewRow(from, to, t, m)}
         /\ NewRow(from, to, t, m) \notin relations
<1>1. relations' = relations \cup {NewRow(from, to, t, m)}
  BY DEF InsertRelation, NewRow
<1>2. nextRelation' = nextRelation + 1 /\ UNCHANGED <<objects, nextObject>>
  BY DEF InsertRelation
<1>3. \A r \in relations : r.id \in Nat /\ r.id < nextRelation
  BY DEF RowsInv
<1>4. \A r \in relations' :
        r.id \in Nat /\ r.id < nextRelation' /\ r.maker \in Imports
  BY <1>1, <1>2, <1>3 DEF RowsInv, NewRow
<1>5. \A r, s \in relations' : r.id = s.id => r = s
  BY <1>1, <1>3 DEF RowsInv, NewRow
<1> QED
  BY <1>1, <1>2, <1>3, <1>4, <1>5 DEF RowsInv, NewRow

-----------------------------------------------------------------------------
(* Counting.                                                               *)

LEMMA FewSubset ==
  ASSUME NEW S, NEW T, NEW n, Few(S, n), T \subseteq S, n \in Nat
  PROVE  Few(T, n)
<1>1. IsFiniteSet(T) /\ Cardinality(T) <= Cardinality(S)
  BY FS_Subset DEF Few
<1>2. Cardinality(T) \in Nat /\ Cardinality(S) \in Nat
  BY <1>1, FS_CardinalityType DEF Few
<1> QED
  BY <1>1, <1>2 DEF Few

LEMMA FewMore ==
  ASSUME NEW S, NEW T, NEW n, Few(S, n), NEW x, T \subseteq S \cup {x}, n \in Nat
  PROVE  Few(T, n + 1)
<1>1. IsFiniteSet(S \cup {x}) /\ Cardinality(S) \in Nat
      /\ Cardinality(S \cup {x}) = IF x \in S THEN Cardinality(S)
                                   ELSE Cardinality(S) + 1
  BY FS_AddElement, FS_CardinalityType DEF Few
<1>2. Few(S \cup {x}, n + 1)
  BY <1>1 DEF Few
<1> QED
  BY <1>2, FewSubset

LEMMA FewNone == ASSUME NEW n \in Nat PROVE Few({}, n)
BY FS_EmptySet DEF Few

\* All strays are those that are left, and the one at hand.
LEMMA FewStrays ==
  ASSUME RowsInv, CallsInv, NEW i \in Imports, Few(Left(i), import[i].repeats)
  PROVE  Few(Strays(i), import[i].repeats + 1)
<1>1. import[i].repeats \in Nat
  BY DEF CallsInv
<1>2. \E x : Strays(i) \subseteq Left(i) \cup {x}
  <2>1. \A r, s \in Strays(i) : r.id = s.id => r = s
    BY DEF Strays, Own, RowsInv
  <2>2. CASE Strays(i) \subseteq Left(i)
    BY <2>2
  <2>3. CASE ~(Strays(i) \subseteq Left(i))
    <3>1. PICK x \in Strays(i) : x.id = import[i].relation
      BY <2>3 DEF Left
    <3>2. \A r \in Strays(i) : r \in Left(i) \/ r = x
      BY <2>1, <3>1 DEF Left
    <3> QED
      BY <3>2
  <2> QED
    BY <2>2, <2>3
<1> QED
  BY <1>1, <1>2, FewMore

-----------------------------------------------------------------------------
(* What others do leaves an import's part alone.                           *)

LEMMA OthersKeep ==
  ASSUME CallsInv, NEW i \in Imports, LocalInv(i), import'[i] = import[i],
         objects \subseteq objects', relations \subseteq relations',
         \A r \in relations' \ relations : r.maker # i
  PROVE  LocalInv(i)'
<1>1. \A id : Mine(i, id) => Mine(i, id)'
  BY DEF Mine
<1>2. Own(i)' = Own(i)
  BY DEF Own
<1>3. \A r : Member(i, r) => Member(i, r)'
  BY DEF Member
<1>4. PlaceInv(i)' /\ TableInv(i)'
  BY <1>1 DEF LocalInv, PlaceInv, TableInv
<1>5. EdgeInv(i)'
  BY <1>2 DEF LocalInv, EdgeInv, Plain, HasSource, HasDest, Hand, Item,
     FromDocument
<1>6. MemberInv(i)'
  <2>1. Strays(i)' \subseteq Strays(i) /\ Left(i)' \subseteq Left(i)
    BY <1>2, <1>3 DEF Strays, Left
  <2>2. import[i].repeats \in Nat
    BY DEF CallsInv
  <2>3. IF import'[i].at = "error"
        THEN Few(Strays(i)', import'[i].repeats + 1)
        ELSE Few(Left(i)', import'[i].repeats)
    BY <2>1, <2>2, FewSubset DEF LocalInv, MemberInv
  <2> QED
    BY <1>1, <1>2, <2>3 DEF LocalInv, MemberInv
<1> QED
  BY <1>4, <1>5, <1>6 DEF LocalInv

-----------------------------------------------------------------------------
(* The steps of an import, by what they insert.                            *)

\* The arguments of the call and what it keeps of ids stay.
Keeps(i) ==
  /\ import'[i].doc = import[i].doc /\ import'[i].extern = import[i].extern
  /\ import'[i].anchors = import[i].anchors
  /\ import'[i].bundle = import[i].bundle
  /\ import'[i].table = import[i].table

\* A step that inserts nothing, or an object that is not kept.
LEMMA QuietLocal ==
  ASSUME RowsInv, CallsInv, NEW i \in Imports, LocalInv(i), Keeps(i),
         import'[i].relation = import[i].relation,
         import'[i].repeats = import[i].repeats,
         relations' = relations, objects \subseteq objects',
         import[i].at # "idle", import'[i].at \notin {"idle", "bundle"},
         import[i].at = "bundle" => import'[i].at = "error",
         import'[i].at \in {"prefixes", "objects"} =>
           import[i].at \in {"prefixes", "objects"},
         import[i].at \in {"link", "linkAnchor", "error"} =>
           import'[i].at = "error",
         import'[i].at \notin {"link", "linkAnchor"},
         import'[i].at \in {"dest", "relate"} =>
           import'[i].pos \in DOMAIN import[i].doc.relations,
         Plain(i) =>
           /\ import'[i].at # "anchor"
           /\ import'[i].at \in {"dest", "relate"} => HasSource(i)'
           /\ import'[i].at = "relate" => HasDest(i)'
  PROVE  LocalInv(i)'
<1>1. \A id : Mine(i, id) => Mine(i, id)'
  BY DEF Mine
<1>2. Own(i)' = Own(i)
  BY DEF Own
<1>3. \A r : Member(i, r)' = Member(i, r)
  BY DEF Member, Keeps
<1>4. PlaceInv(i)' /\ TableInv(i)'
  BY <1>1 DEF LocalInv, PlaceInv, TableInv, Keeps
<1>5. EdgeInv(i)'
  <2>1. Plain(i)' = Plain(i) /\ \A r : FromDocument(i, r)' = FromDocument(i, r)
    BY DEF Plain, FromDocument, Keeps
  <2> QED
    BY <1>2, <2>1 DEF LocalInv, EdgeInv
<1>6. MemberInv(i)'
  <2>1. Strays(i)' = Strays(i) /\ Left(i)' = Left(i)
    BY <1>2, <1>3 DEF Strays, Left
  <2>2. IF import'[i].at = "error"
        THEN Few(Strays(i)', import'[i].repeats + 1)
        ELSE Few(Left(i)', import'[i].repeats)
    <3>1. CASE import'[i].at # "error"
      <4>1. import[i].at # "error" /\ Few(Left(i), import[i].repeats)
        BY <3>1 DEF LocalInv, MemberInv
      <4> QED
        BY <2>1, <3>1, <4>1
    <3>2. CASE import'[i].at = "error"
      <4>1. Few(Strays(i), import[i].repeats + 1)
        BY FewStrays DEF LocalInv, MemberInv
      <4> QED
        BY <2>1, <3>2, <4>1
    <3> QED
      BY <3>1, <3>2
  <2>3. import'[i].at # "error" => import'[i].relation = None
    BY DEF LocalInv, MemberInv
  <2> QED
    BY <1>1, <1>2, <2>2, <2>3 DEF LocalInv, MemberInv, Keeps
<1> QED
  BY <1>4, <1>5, <1>6 DEF LocalInv

\* What is inserted for the relation at hand is of the document.
LEMMA HandFromDocument ==
  ASSUME NEW i \in Imports, LocalInv(i), Plain(i), import[i].at = "relate",
         NEW r, r.from = import[i].source, r.to = import[i].dest
  PROVE  FromDocument(i, r)
<1>1. import[i].pos \in DOMAIN import[i].doc.relations
  BY DEF LocalInv, PlaceInv
<1>2. HasSource(i) /\ HasDest(i)
  BY DEF LocalInv, EdgeInv
<1>3. Hand(i) = import[i].doc.relations[import[i].pos]
  BY DEF Hand, Item
<1> QED
  BY <1>1, <1>2, <1>3 DEF FromDocument, HasSource, HasDest

\* A step that inserts a relation.
LEMMA RelateLocal ==
  ASSUME NEW i \in Imports, RowsInv, CallsInv, LocalInv(i), Keeps(i),
         import'[i].repeats = import[i].repeats,
         NEW from, NEW to, NEW t, t # "bundleRelation",
         InsertRelation(from, to, t, i),
         import[i].at \in {"anchor", "relate"},
         import'[i].at \in {"link", "linkAnchor", "error"},
         import'[i].at # "error" => import'[i].relation = nextRelation,
         Plain(i) => /\ import[i].at = "relate" /\ import'[i].at # "linkAnchor"
                     /\ from = import[i].source /\ to = import[i].dest
  PROVE  LocalInv(i)'
<1> DEFINE new == NewRow(from, to, t, i)
<1>1. objects' = objects /\ relations' = relations \cup {new}
  BY InsertRelationRows
<1>2. \A id : Mine(i, id)' = Mine(i, id)
  BY <1>1 DEF Mine
<1>3. Own(i)' = Own(i) \cup {new}
  BY <1>1 DEF Own, NewRow
<1>4. \A r : Member(i, r) => Member(i, r)'
  BY <1>1 DEF Member, Keeps
<1>5. PlaceInv(i)' /\ TableInv(i)'
  BY <1>2 DEF LocalInv, PlaceInv, TableInv, Keeps
<1>6. EdgeInv(i)'
  <2>1. Plain(i)' = Plain(i) /\ \A r : FromDocument(i, r)' = FromDocument(i, r)
    BY DEF Plain, FromDocument, Keeps
  <2>2. Plain(i) => FromDocument(i, new)
    <3>1. new.from = from /\ new.to = to
      BY DEF NewRow
    <3> QED
      BY <3>1, HandFromDocument
  <2> QED
    BY <1>3, <2>1, <2>2 DEF LocalInv, EdgeInv
<1>7. MemberInv(i)'
  <2>1. /\ import[i].relation = None /\ import[i].repeats \in Nat
        /\ Few(Left(i), import[i].repeats)
    BY DEF LocalInv, MemberInv, CallsInv
  <2>2. Strays(i) = Left(i)
    BY <2>1, ImportAssumption DEF Left, Strays, Own, RowsInv
  <2>3. Strays(i)' \subseteq Left(i) \cup {new}
    BY <1>3, <1>4, <2>2 DEF Strays
  <2>4. new.id = nextRelation /\ new.type # "bundleRelation"
    BY DEF NewRow
  <2>5. Few(Strays(i)', import'[i].repeats + 1)
    BY <2>1, <2>3, FewMore
  <2>6. import'[i].at # "error" => Few(Left(i)', import'[i].repeats)
    <3>1. import'[i].at # "error" => Left(i)' \subseteq Left(i)
      BY <2>3, <2>4 DEF Left
    <3> QED
      BY <2>1, <3>1, FewSubset
  <2> QED
    BY <1>1, <1>2, <1>3, <2>4, <2>5, <2>6 DEF LocalInv, MemberInv, Keeps
<1> QED
  BY <1>5, <1>6, <1>7 DEF LocalInv

\* A step that inserts a membership.
LEMMA LinkLocal ==
  ASSUME NEW i \in Imports, RowsInv, CallsInv, LocalInv(i), Keeps(i),
         import'[i].repeats = import[i].repeats,
         import'[i].at # "error" => import'[i].relation = None,
         InsertRelation(import[i].bundle, import[i].relation, "bundleRelation", i),
         import[i].at \in {"link", "linkAnchor"},
         import'[i].at \in {"relations", "anchors", "error"}
  PROVE  LocalInv(i)'
<1> DEFINE new == NewRow(import[i].bundle, import[i].relation, "bundleRelation", i)
<1>1. objects' = objects /\ relations' = relations \cup {new}
  BY InsertRelationRows
<1>2. \A id : Mine(i, id)' = Mine(i, id)
  BY <1>1 DEF Mine
<1>3. Own(i)' = Own(i)
  BY <1>1 DEF Own, NewRow
<1>4. \A r : Member(i, r) => Member(i, r)'
  BY <1>1 DEF Member, Keeps
<1>5. new.type = "bundleRelation" /\ new.from = import[i].bundle
      /\ new.to = import[i].relation
  BY DEF NewRow
<1>6. PlaceInv(i)' /\ TableInv(i)'
  BY <1>2 DEF LocalInv, PlaceInv, TableInv, Keeps
<1>7. EdgeInv(i)'
  <2>1. Plain(i)' = Plain(i) /\ \A r : FromDocument(i, r)' = FromDocument(i, r)
    BY DEF Plain, FromDocument, Keeps
  <2> QED
    BY <1>3, <2>1 DEF LocalInv, EdgeInv
<1>8. MemberInv(i)'
  <2>1. Strays(i)' \subseteq Left(i)
    BY <1>1, <1>3, <1>4, <1>5 DEF Strays, Left, Member, Keeps
  <2>2. Mine(i, new.from) /\ \E r \in Own(i) : r.id = new.to
    BY <1>5 DEF LocalInv, PlaceInv, MemberInv
  <2>3. Few(Left(i), import[i].repeats) /\ import[i].repeats \in Nat
    BY DEF LocalInv, MemberInv, CallsInv
  <2>4. Few(Strays(i)', import'[i].repeats)
    BY <2>1, <2>3, FewSubset
  <2>5. Few(Strays(i)', import'[i].repeats + 1)
    <3>1. Strays(i)' \subseteq Left(i) \cup {new}
      BY <2>1
    <3> QED
      BY <2>3, <3>1, FewMore
  <2>6. Few(Left(i)', import'[i].repeats)
    <3>1. Left(i)' \subseteq Left(i)
      BY <2>1 DEF Left
    <3> QED
      BY <2>3, <3>1, FewSubset
  <2> QED
    BY <1>1, <1>2, <1>3, <1>5, <2>2, <2>5, <2>6 DEF LocalInv, MemberInv, Keeps
<1> QED
  BY <1>6, <1>7, <1>8 DEF LocalInv

-----------------------------------------------------------------------------
(* The steps of an import.                                                 *)

\* The import's own part of a step.
OwnStep(i) ==
  /\ RowsInv' /\ CallsInv' /\ LocalInv(i)'
  /\ objects \subseteq objects' /\ relations \subseteq relations'
  /\ \A r \in relations' \ relations : r.maker = i
  /\ \A j \in Imports \ {i} : import'[j] = import[j]

LEMMA Unchanged ==
  ASSUME RowsInv, UNCHANGED tables
  PROVE  RowsInv' /\ relations' = relations /\ objects' = objects
BY DEF RowsInv, tables

\* Before its first relation an import has none to be linked.
LEMMA NothingInserted ==
  ASSUME NEW i \in Imports, CallsInv', relations' = relations,
         \A r \in relations : r.maker # i,
         import'[i].at \in {"idle", "bundle", "prefixes", "objects"},
         import'[i].relation = None
  PROVE  EdgeInv(i)' /\ MemberInv(i)'
<1>1. Own(i)' = {} /\ Left(i)' = {}
  BY DEF Own, Left, Strays
<1>2. import'[i].repeats \in Nat
  BY DEF CallsInv
<1>3. Few(Left(i)', import'[i].repeats)
  BY <1>1, <1>2, FewNone
<1> QED
  BY <1>1, <1>3 DEF EdgeInv, MemberInv

LEMMA BeginOwn ==
  ASSUME Inv, NEW i \in Imports, BeginImport(i)
  PROVE  OwnStep(i)
<1>1. PICK doc \in Documents, extern \in BOOLEAN : \E anchors \in AnchorLists(doc) :
        import' = [import EXCEPT ![i].at = "bundle", ![i].doc = doc,
                     ![i].extern = extern, ![i].anchors = anchors]
  BY DEF BeginImport
<1>2. PICK anchors \in AnchorLists(doc) :
        import' = [import EXCEPT ![i].at = "bundle", ![i].doc = doc,
                     ![i].extern = extern, ![i].anchors = anchors]
  BY <1>1
<1>3. CallsInv' /\ \A j \in Imports \ {i} : import'[j] = import[j]
  BY <1>2, ImportAssumption DEF Inv, CallsInv, Fields, Labels
<1>4. /\ import[i].at = "idle" /\ import'[i].at = "bundle"
      /\ import'[i].bundle = import[i].bundle
      /\ import'[i].table = import[i].table
      /\ import'[i].relation = import[i].relation
      /\ import'[i].repeats = import[i].repeats
  BY <1>2 DEF Inv, CallsInv, Fields, BeginImport, At
<1>5. RowsInv' /\ relations' = relations /\ objects' = objects
  BY Unchanged DEF BeginImport, Inv
<1>6. Own(i)' = {} /\ \A r \in relations : r.maker # i
  BY <1>4, <1>5 DEF Inv, LocalInv, PlaceInv, Own
<1>7. PlaceInv(i)' /\ TableInv(i)'
  BY <1>4, <1>5, <1>6 DEF Inv, LocalInv, PlaceInv, TableInv, Mine
<1>8. import'[i].relation = None
  BY <1>4 DEF Inv, LocalInv, MemberInv
<1>9. EdgeInv(i)' /\ MemberInv(i)'
  BY <1>3, <1>4, <1>5, <1>6, <1>8, NothingInserted
<1> QED
  BY <1>3, <1>5, <1>7, <1>9 DEF OwnStep, LocalInv

LEMMA CreateBundleOwn ==
  ASSUME Inv, NEW i \in Imports, CreateBundle(i)
  PROVE  OwnStep(i)
<1>1. /\ import[i].at = "bundle" /\ InsertObject(BundleName, "bundle", i)
      /\ import' = [import EXCEPT ![i].at = "prefixes", ![i].bundle = nextObject]
  BY DEF CreateBundle, At, Insert
<1>2. CallsInv' /\ \A j \in Imports \ {i} : import'[j] = import[j]
  BY <1>1 DEF Inv, CallsInv, Fields, Labels
<1>3. /\ import'[i].at = "prefixes" /\ import'[i].bundle = nextObject
      /\ import'[i].table = import[i].table
      /\ import'[i].relation = import[i].relation
  BY <1>1 DEF Inv, CallsInv, Fields
<1>4. /\ RowsInv' /\ relations' = relations /\ objects \subseteq objects'
      /\ \E o \in objects' : o.id = nextObject /\ o.maker = i
  BY <1>1, InsertObjectRows DEF Inv
<1>5. Own(i)' = {} /\ \A r \in relations : r.maker # i
  BY <1>1, <1>4 DEF Inv, LocalInv, PlaceInv, Own
<1>6. nextObject # None
  BY ImportAssumption DEF Inv, RowsInv
<1>7. PlaceInv(i)' /\ TableInv(i)'
  BY <1>3, <1>4, <1>5, <1>6 DEF Inv, LocalInv, PlaceInv, TableInv, Mine
<1>8. import'[i].relation = None
  BY <1>1, <1>3 DEF Inv, LocalInv, MemberInv
<1>9. EdgeInv(i)' /\ MemberInv(i)'
  BY <1>2, <1>3, <1>4, <1>5, <1>8, NothingInserted
<1> QED
  BY <1>2, <1>4, <1>7, <1>9 DEF OwnStep, LocalInv

LEMMA ImportObjectOwn ==
  ASSUME Inv, NEW i \in Imports, ImportObject(i)
  PROVE  OwnStep(i)
<1> DEFINE item == Item(i, import[i].doc.objects)
           table == import[i].table
<1>1. /\ import[i].at = "objects" /\ InsertObject(Tokens[item.key], item.type, i)
      /\ More(i, import[i].doc.objects)
      /\ import' = [import EXCEPT ![i].table = Emplace(@, item.key, nextObject),
                                  ![i].pos = @ + 1]
  BY DEF ImportObject, At, Insert
<1>2. CallsInv' /\ \A j \in Imports \ {i} : import'[j] = import[j]
  <2>1. /\ import = [j \in Imports |-> import[j]] /\ DOMAIN import[i] = Fields
        /\ import[i].pos \in Nat \ {0}
        /\ import[i].doc \in Document /\ import[i].repeats \in Nat
    BY DEF Inv, CallsInv
  <2>2. /\ import' = [j \in Imports |-> import'[j]]
        /\ \A j \in Imports \ {i} : import'[j] = import[j]
    BY <1>1, <2>1
  <2>3. /\ DOMAIN import'[i] = Fields
        /\ import'[i].at = "objects" /\ import'[i].pos = import[i].pos + 1
        /\ import'[i].doc = import[i].doc /\ import'[i].repeats = import[i].repeats
    BY <1>1, <2>1 DEF Fields
  <2> QED
    BY <2>1, <2>2, <2>3 DEF Inv, CallsInv, Labels
<1>3. /\ import'[i].at = "objects" /\ import'[i].bundle = import[i].bundle
      /\ import'[i].table = Emplace(table, item.key, nextObject)
      /\ import'[i].relation = import[i].relation
  BY <1>1 DEF Inv, CallsInv, Fields
<1>4. /\ RowsInv' /\ relations' = relations /\ objects \subseteq objects'
      /\ \E o \in objects' : o.id = nextObject /\ o.maker = i
  BY <1>1, InsertObjectRows DEF Inv
<1>5. Own(i)' = {} /\ \A r \in relations : r.maker # i
  BY <1>1, <1>4 DEF Inv, LocalInv, PlaceInv, Own
<1>6. PlaceInv(i)'
  <2>1. import[i].bundle # None /\ Mine(i, import[i].bundle)
    BY <1>1 DEF Inv, LocalInv, PlaceInv
  <2>2. Mine(i, import[i].bundle)'
    BY <1>3, <1>4, <2>1 DEF Mine
  <2> QED
    BY <1>3, <1>4, <1>5, <2>1, <2>2 DEF PlaceInv, Mine
<1>7. item.key \in Keys
  <2>1. import[i].doc.objects \in Seq(Entry)
    BY DEF Inv, CallsInv, Document
  <2>2. item \in Entry
    <3>1. import[i].pos \in Nat \ {0} /\ import[i].pos <= Len(import[i].doc.objects)
      BY <1>1 DEF Inv, CallsInv, More
    <3>2. import[i].pos \in 1..Len(import[i].doc.objects)
      BY <2>1, <3>1
    <3>3. import[i].doc.objects[import[i].pos] \in Entry
      BY <2>1, <3>2
    <3> QED
      BY <3>3 DEF Item
  <2> QED
    BY <2>2 DEF Entry
<1>8. TableInv(i)'
  <2>1. \A k \in DOMAIN table :
          k \in Keys /\ Mine(i, table[k]) /\ table[k] # nextObject
    BY DEF Inv, RowsInv, LocalInv, TableInv, Mine
  <2>2. \E o \in objects' : o.id = nextObject /\ o.maker = i
    BY <1>4
  <2>3. DOMAIN import'[i].table = DOMAIN table \cup {item.key}
        /\ \A k \in DOMAIN table \cup {item.key} :
             import'[i].table[k] = IF k \in DOMAIN table THEN table[k]
                                   ELSE nextObject
    BY <1>3 DEF Emplace
  <2>4. ASSUME NEW k \in DOMAIN import'[i].table
        PROVE  /\ k \in Keys
               /\ \E o \in objects' : o.id = import'[i].table[k] /\ o.maker = i
    <3>1. CASE k \in DOMAIN table
      <4>1. PICK o \in objects : o.id = table[k] /\ o.maker = i
        BY <2>1, <3>1 DEF Mine
      <4>2. o \in objects' /\ import'[i].table[k] = table[k]
        BY <1>4, <2>3, <3>1
      <4> QED
        BY <2>1, <3>1, <4>1, <4>2
    <3>2. CASE k \notin DOMAIN table
      BY <1>7, <2>2, <2>3, <2>4, <3>2
    <3> QED
      BY <3>1, <3>2
  <2>5. \A k, l \in DOMAIN import'[i].table :
          import'[i].table[k] = import'[i].table[l] => k = l
    BY <2>1, <2>3 DEF Inv, LocalInv, TableInv
  <2> QED
    BY <2>4, <2>5 DEF TableInv, Mine
<1>9. import'[i].relation = None
  BY <1>1, <1>3 DEF Inv, LocalInv, MemberInv
<1>10. EdgeInv(i)' /\ MemberInv(i)'
  BY <1>2, <1>3, <1>4, <1>5, <1>9, NothingInserted
<1> QED
  BY <1>2, <1>4, <1>6, <1>8, <1>10 DEF OwnStep, LocalInv

\* ImportPrefixes, and the ends of the loops.
LEMMA AdvanceOwn ==
  ASSUME Inv, NEW i \in Imports,
         ImportPrefixes(i) \/ EndObjects(i) \/ SkipAnchor(i) \/ EndAnchors(i)
           \/ EndRelations(i)
  PROVE  OwnStep(i)
<1>1. CallsInv' /\ \A j \in Imports \ {i} : import'[j] = import[j]
  BY DEF Inv, CallsInv, Fields, Labels, ImportPrefixes, EndObjects, SkipAnchor,
     EndAnchors, EndRelations
<1>2. /\ Keeps(i)
      /\ import'[i].relation = import[i].relation
      /\ import'[i].repeats = import[i].repeats
      /\ \/ import[i].at = "prefixes" /\ import'[i].at = "objects"
         \/ import[i].at = "objects" /\ import'[i].at = "anchors"
         \/ import[i].at = "anchors" /\ import'[i].at \in {"anchors", "relations"}
         \/ import[i].at = "relations" /\ import'[i].at = "ok"
  BY DEF Inv, CallsInv, Fields, Keeps, At, ImportPrefixes, EndObjects,
     SkipAnchor, EndAnchors, EndRelations
<1>3. RowsInv' /\ relations' = relations /\ objects' = objects
  BY Unchanged DEF Inv, ImportPrefixes, EndObjects, SkipAnchor, EndAnchors,
     EndRelations
<1>4. LocalInv(i)'
  BY <1>2, <1>3, QuietLocal DEF Inv
<1> QED
  BY <1>1, <1>3, <1>4 DEF OwnStep

LEMMA LookupAnchorOwn ==
  ASSUME Inv, NEW i \in Imports, LookupAnchor(i)
  PROVE  OwnStep(i)
<1>1. PICK id : import' = [import EXCEPT ![i].at = "anchor", ![i].source = id]
  BY DEF LookupAnchor
<1>2. CallsInv' /\ \A j \in Imports \ {i} : import'[j] = import[j]
  BY <1>1 DEF Inv, CallsInv, Fields, Labels
<1>3. /\ Keeps(i) /\ import[i].at = "anchors" /\ import'[i].at = "anchor"
      /\ import'[i].relation = import[i].relation
      /\ import'[i].repeats = import[i].repeats
  BY <1>1 DEF Inv, CallsInv, Fields, Keeps, At, LookupAnchor
<1>4. RowsInv' /\ relations' = relations /\ objects' = objects
  BY Unchanged DEF Inv, LookupAnchor
<1>5. ~Plain(i)
  BY DEF LookupAnchor, Plain, More, Inv, CallsInv
<1>6. LocalInv(i)'
  BY <1>3, <1>4, <1>5, QuietLocal DEF Inv
<1> QED
  BY <1>2, <1>4, <1>6 DEF OwnStep

\* With lookup_tbl only, a key has the object that is kept for it.
LEMMA ResolvedPlainly ==
  ASSUME NEW i \in Imports, Plain(i), NEW key, NEW t, NEW id \in Resolve(i, key, t)
  PROVE  key \in DOMAIN import[i].table /\ id = import[i].table[key]
BY DEF Plain, Resolve

LEMMA FindSourceOwn ==
  ASSUME Inv, NEW i \in Imports, FindSource(i)
  PROVE  OwnStep(i)
<1>1. PICK id \in Resolve(i, Hand(i).source, EndTypes(Hand(i).type)[1]) :
        import' = [import EXCEPT ![i].at = "dest", ![i].source = id]
  BY DEF FindSource, Hand
<1>2. CallsInv' /\ \A j \in Imports \ {i} : import'[j] = import[j]
  BY <1>1 DEF Inv, CallsInv, Fields, Labels
<1>3. /\ Keeps(i) /\ import[i].at = "relations" /\ import'[i].at = "dest"
      /\ import'[i].pos = import[i].pos /\ import'[i].source = id
      /\ import'[i].relation = import[i].relation
      /\ import'[i].repeats = import[i].repeats
  BY <1>1 DEF Inv, CallsInv, Fields, Keeps, At, FindSource
<1>4. RowsInv' /\ relations' = relations /\ objects' = objects
  BY Unchanged DEF Inv, FindSource
<1>5. import[i].pos \in DOMAIN import[i].doc.relations
  <2>1. import[i].doc.relations \in Seq(Link) /\ import[i].pos \in Nat \ {0}
    BY DEF Inv, CallsInv, Document
  <2> QED
    BY <2>1 DEF FindSource, More
<1>6. Plain(i) => HasSource(i)'
  BY <1>1, <1>3, ResolvedPlainly DEF HasSource, Hand, Item, Keeps
<1>7. LocalInv(i)'
  BY <1>3, <1>4, <1>5, <1>6, QuietLocal DEF Inv
<1> QED
  BY <1>2, <1>4, <1>7 DEF OwnStep

LEMMA FindDestOwn ==
  ASSUME Inv, NEW i \in Imports, FindDest(i)
  PROVE  OwnStep(i)
<1>1. PICK id \in Resolve(i, Hand(i).dest, EndTypes(Hand(i).type)[2]) :
        import' = [import EXCEPT ![i].at = "relate", ![i].dest = id]
  BY DEF FindDest, Hand
<1>2. CallsInv' /\ \A j \in Imports \ {i} : import'[j] = import[j]
  BY <1>1 DEF Inv, CallsInv, Fields, Labels
<1>3. /\ Keeps(i) /\ import[i].at = "dest" /\ import'[i].at = "relate"
      /\ import'[i].pos = import[i].pos /\ import'[i].dest = id
      /\ import'[i].source = import[i].source
      /\ import'[i].relation = import[i].relation
      /\ import'[i].repeats = import[i].repeats
  BY <1>1 DEF Inv, CallsInv, Fields, Keeps, At, FindDest
<1>4. RowsInv' /\ relations' = relations /\ objects' = objects
  BY Unchanged DEF Inv, FindDest
<1>5. import'[i].pos \in DOMAIN import[i].doc.relations
  BY <1>3 DEF Inv, LocalInv, PlaceInv
<1>6. Plain(i) => HasSource(i)' /\ HasDest(i)'
  <2> SUFFICES ASSUME Plain(i) PROVE HasSource(i)' /\ HasDest(i)'
    OBVIOUS
  <2>1. HasSource(i)
    BY <1>3 DEF Inv, LocalInv, EdgeInv
  <2>2. HasSource(i)'
    BY <1>3, <2>1 DEF HasSource, Hand, Item, Keeps
  <2>3. HasDest(i)'
    BY <1>1, <1>3, ResolvedPlainly DEF HasDest, Hand, Item, Keeps
  <2> QED
    BY <2>2, <2>3
<1>7. LocalInv(i)'
  BY <1>3, <1>4, <1>5, <1>6, QuietLocal DEF Inv
<1> QED
  BY <1>2, <1>4, <1>7 DEF OwnStep

\* The type of a relation that is not a membership.
LEMMA InsertsRelation ==
  ASSUME Inv, NEW i \in Imports, Insert(i),
         import[i].at \in {"anchor", "relate"}
  PROVE  \E from, to, t :
           /\ InsertRelation(from, to, t, i) /\ t # "bundleRelation"
           /\ import[i].at = "relate" =>
                from = import[i].source /\ to = import[i].dest
<1>1. CASE import[i].at = "anchor"
  BY <1>1 DEF Insert, At
<1>2. CASE import[i].at = "relate"
  <2>1. import[i].doc.relations \in Seq(Link)
        /\ import[i].pos \in DOMAIN import[i].doc.relations
    BY <1>2 DEF Inv, CallsInv, Document, LocalInv, PlaceInv
  <2>2. Hand(i) \in Link
    BY <2>1 DEF Hand, Item
  <2>3. Hand(i).type # "bundleRelation"
    BY <2>2 DEF Link
  <2>4. InsertRelation(import[i].source, import[i].dest, Hand(i).type, i)
    BY <1>2 DEF Insert, At, Hand
  <2> QED
    BY <2>3, <2>4
<1> QED
  BY <1>1, <1>2

LEMMA RelateOwn ==
  ASSUME Inv, NEW i \in Imports, Relate(i) \/ RelateAnchor(i)
  PROVE  OwnStep(i)
<1>1. CallsInv' /\ \A j \in Imports \ {i} : import'[j] = import[j]
  BY DEF Inv, CallsInv, Fields, Labels, Relate, RelateAnchor
<1>2. /\ Keeps(i) /\ import'[i].relation = nextRelation
      /\ import'[i].repeats = import[i].repeats
      /\ \/ import[i].at = "relate" /\ import'[i].at = "link"
         \/ import[i].at = "anchor" /\ import'[i].at = "linkAnchor"
  <2>1. CASE Relate(i)
    BY <2>1 DEF Inv, CallsInv, Fields, Keeps, At, Relate
  <2>2. CASE RelateAnchor(i)
    BY <2>2 DEF Inv, CallsInv, Fields, Keeps, At, RelateAnchor
  <2> QED
    BY <2>1, <2>2
<1>3. Insert(i)
  BY DEF Relate, RelateAnchor
<1>4. PICK from, to, t :
        /\ InsertRelation(from, to, t, i) /\ t # "bundleRelation"
        /\ import[i].at = "relate" =>
             from = import[i].source /\ to = import[i].dest
  BY <1>2, <1>3, InsertsRelation
<1>5. /\ RowsInv' /\ objects' = objects
      /\ relations' = relations \cup {NewRow(from, to, t, i)}
  BY <1>4, InsertRelationRows DEF Inv
<1>6. Plain(i) => import[i].at = "relate"
  BY <1>2 DEF Inv, LocalInv, EdgeInv
<1>7. LocalInv(i)'
  BY <1>2, <1>4, <1>6, RelateLocal DEF Inv
<1> QED
  BY <1>1, <1>5, <1>7 DEF OwnStep, NewRow

LEMMA LinkOwn ==
  ASSUME Inv, NEW i \in Imports, LinkRelation(i) \/ LinkAnchor(i)
  PROVE  OwnStep(i)
<1>1. CallsInv' /\ \A j \in Imports \ {i} : import'[j] = import[j]
  BY DEF Inv, CallsInv, Fields, Labels, LinkRelation, LinkAnchor
<1>2. /\ Keeps(i) /\ import'[i].relation = None
      /\ import'[i].repeats = import[i].repeats
      /\ \/ import[i].at = "link" /\ import'[i].at = "relations"
         \/ import[i].at = "linkAnchor" /\ import'[i].at = "anchors"
  <2>1. CASE LinkRelation(i)
    BY <2>1 DEF Inv, CallsInv, Fields, Keeps, At, LinkRelation
  <2>2. CASE LinkAnchor(i)
    BY <2>2 DEF Inv, CallsInv, Fields, Keeps, At, LinkAnchor
  <2> QED
    BY <2>1, <2>2
<1>3. InsertRelation(import[i].bundle, import[i].relation, "bundleRelation", i)
  BY <1>2 DEF LinkRelation, LinkAnchor, Insert, At
<1>4. /\ RowsInv' /\ objects' = objects
      /\ relations' = relations \cup
           {NewRow(import[i].bundle, import[i].relation, "bundleRelation", i)}
  BY <1>3, InsertRelationRows DEF Inv
<1>5. LocalInv(i)'
  BY <1>2, <1>3, LinkLocal DEF Inv
<1> QED
  BY <1>1, <1>4, <1>5 DEF OwnStep, NewRow

LEMMA FailOwn ==
  ASSUME Inv, NEW i \in Imports, ImportFails(i)
  PROVE  OwnStep(i)
<1>1. CallsInv' /\ \A j \in Imports \ {i} : import'[j] = import[j]
  BY DEF Inv, CallsInv, Fields, Labels, ImportFails
<1>2. /\ Keeps(i) /\ import[i].at \notin {"idle", "ok", "error"}
      /\ import'[i].at = "error"
      /\ import'[i].relation = import[i].relation
      /\ import'[i].repeats = import[i].repeats
  BY DEF Inv, CallsInv, Fields, Keeps, ImportFails
<1>3. CASE UNCHANGED tables
  <2>1. RowsInv' /\ relations' = relations /\ objects' = objects
    BY <1>3, Unchanged DEF Inv
  <2>2. LocalInv(i)'
    BY <1>2, <2>1, QuietLocal DEF Inv
  <2> QED
    BY <1>1, <2>1, <2>2 DEF OwnStep
<1>4. CASE Insert(i) /\ import[i].at \in {"bundle", "objects"}
  <2>1. \E n, t : InsertObject(n, t, i)
    BY <1>4 DEF Insert, At
  <2>2. RowsInv' /\ relations' = relations /\ objects \subseteq objects'
    BY <2>1, InsertObjectRows DEF Inv
  <2>3. LocalInv(i)'
    BY <1>2, <2>2, QuietLocal DEF Inv
  <2> QED
    BY <1>1, <2>2, <2>3 DEF OwnStep
<1>5. CASE Insert(i) /\ import[i].at \in {"anchor", "relate"}
  <2>1. PICK from, to, t :
          /\ InsertRelation(from, to, t, i) /\ t # "bundleRelation"
          /\ import[i].at = "relate" =>
               from = import[i].source /\ to = import[i].dest
    BY <1>5, InsertsRelation
  <2>2. /\ RowsInv' /\ objects' = objects
        /\ relations' = relations \cup {NewRow(from, to, t, i)}
    BY <2>1, InsertRelationRows DEF Inv
  <2>3. Plain(i) => import[i].at = "relate"
    BY <1>5 DEF Inv, LocalInv, EdgeInv
  <2>4. LocalInv(i)'
    BY <1>2, <1>5, <2>1, <2>3, RelateLocal DEF Inv
  <2> QED
    BY <1>1, <2>2, <2>4 DEF OwnStep, NewRow
<1>6. CASE Insert(i) /\ import[i].at \in {"link", "linkAnchor"}
  <2>1. InsertRelation(import[i].bundle, import[i].relation, "bundleRelation", i)
    BY <1>6 DEF Insert, At
  <2>2. /\ RowsInv' /\ objects' = objects
        /\ relations' = relations \cup
             {NewRow(import[i].bundle, import[i].relation, "bundleRelation", i)}
    BY <2>1, InsertRelationRows DEF Inv
  <2>3. LocalInv(i)'
    BY <1>2, <1>6, <2>1, LinkLocal DEF Inv
  <2> QED
    BY <1>1, <2>2, <2>3 DEF OwnStep, NewRow
<1> QED
  BY <1>3, <1>4, <1>5, <1>6 DEF ImportFails, Insert, At

\* A relation is inserted once more.
LEMMA RepeatLocal ==
  ASSUME Inv, CallsInv', NEW i \in Imports, Keeps(i), import'[i].at = import[i].at,
         import'[i].pos = import[i].pos, import'[i].source = import[i].source,
         import'[i].dest = import[i].dest,
         import'[i].relation = import[i].relation,
         import'[i].repeats = import[i].repeats + 1,
         import[i].at \in {"bundle", "objects", "anchor", "relate", "link",
                          "linkAnchor"},
         objects \subseteq objects', relations \subseteq relations',
         \A r \in relations' \ relations : r.maker = i,
         import[i].at \in {"bundle", "objects"} => relations' = relations,
         \A r \in relations' \ relations :
           Plain(i) /\ r.type # "bundleRelation" => FromDocument(i, r),
         \E x : Own(i)' \subseteq Own(i) \cup {x},
         \A r \in relations' \ relations :
           r.type = "bundleRelation" =>
             /\ r.from = import[i].bundle /\ r.to = import[i].relation
             /\ import[i].at \in {"link", "linkAnchor"}
  PROVE  LocalInv(i)'
<1>1. \A id : Mine(i, id) => Mine(i, id)'
  BY DEF Mine
<1>2. Own(i) \subseteq Own(i)' /\ \A r : Member(i, r) => Member(i, r)'
  BY DEF Own, Member, Keeps
<1>3. PlaceInv(i)' /\ TableInv(i)'
  BY <1>1 DEF Inv, LocalInv, PlaceInv, TableInv, Keeps
<1>4. EdgeInv(i)'
  <2>1. Plain(i)' = Plain(i) /\ \A r : FromDocument(i, r)' = FromDocument(i, r)
    BY DEF Plain, FromDocument, Keeps
  <2>2. Plain(i) => \A r \in Own(i)' : FromDocument(i, r)
    BY DEF Inv, LocalInv, EdgeInv, Own
  <2>3. HasSource(i)' = HasSource(i) /\ HasDest(i)' = HasDest(i)
    BY DEF HasSource, HasDest, Hand, Item, Keeps
  <2> QED
    BY <2>1, <2>2, <2>3 DEF Inv, LocalInv, EdgeInv
<1>5. MemberInv(i)'
  <2>1. import[i].repeats \in Nat /\ Few(Left(i), import[i].repeats)
    BY DEF Inv, CallsInv, LocalInv, MemberInv
  <2>2. PICK x : Own(i)' \subseteq Own(i) \cup {x}
    OBVIOUS
  <2>3. Left(i)' \subseteq Left(i) \cup {x}
    BY <1>2, <2>2 DEF Left, Strays
  <2>4. Few(Left(i)', import[i].repeats + 1)
    BY <2>1, <2>3, FewMore
  <2>5. import[i].at \in {"link", "linkAnchor"} => Mine(i, import[i].bundle)
    BY DEF Inv, LocalInv, PlaceInv
  <2>6. \A m \in relations' : m.maker = i /\ m.type = "bundleRelation" =>
          /\ m.from = import[i].bundle /\ Mine(i, m.from)
          /\ \E r \in Own(i) : r.id = m.to
    BY <2>5 DEF Inv, LocalInv, MemberInv
  <2> QED
    BY <1>1, <1>2, <2>4, <2>6 DEF Inv, LocalInv, MemberInv, Keeps
<1> QED
  BY <1>3, <1>4, <1>5 DEF LocalInv

LEMMA RepeatOwn ==
  ASSUME Inv, NEW i \in Imports, RepeatInsert(i)
  PROVE  OwnStep(i)
<1>1. CallsInv' /\ \A j \in Imports \ {i} : import'[j] = import[j]
  BY DEF Inv, CallsInv, Fields, Labels, RepeatInsert
<1>2. /\ Insert(i) /\ Keeps(i) /\ import'[i].at = import[i].at
      /\ import'[i].pos = import[i].pos /\ import'[i].source = import[i].source
      /\ import'[i].dest = import[i].dest
      /\ import'[i].relation = import[i].relation
      /\ import'[i].repeats = import[i].repeats + 1
  BY DEF Inv, CallsInv, Fields, Keeps, RepeatInsert
<1>3. CASE import[i].at \in {"bundle", "objects"}
  <2>1. \E n, t : InsertObject(n, t, i)
    BY <1>2, <1>3 DEF Insert, At
  <2>2. RowsInv' /\ relations' = relations /\ objects \subseteq objects'
    BY <2>1, InsertObjectRows DEF Inv
  <2>3. Own(i)' = Own(i)
    BY <2>2 DEF Own
  <2>4. LocalInv(i)'
    BY <1>1, <1>2, <1>3, <2>2, <2>3, RepeatLocal
  <2> QED
    BY <1>1, <2>2, <2>4 DEF OwnStep
<1>4. CASE import[i].at \in {"anchor", "relate"}
  <2>1. PICK from, to, t :
          /\ InsertRelation(from, to, t, i) /\ t # "bundleRelation"
          /\ import[i].at = "relate" =>
               from = import[i].source /\ to = import[i].dest
    BY <1>2, <1>4, InsertsRelation
  <2> DEFINE new == NewRow(from, to, t, i)
  <2>2. RowsInv' /\ objects' = objects /\ relations' = relations \cup {new}
    BY <2>1, InsertRelationRows DEF Inv
  <2>3. new.maker = i /\ new.type # "bundleRelation"
    BY <2>1 DEF NewRow
  <2>4. Plain(i) => FromDocument(i, new)
    <3>1. new.from = from /\ new.to = to
      BY DEF NewRow
    <3>2. Plain(i) => import[i].at = "relate"
      BY <1>4 DEF Inv, LocalInv, EdgeInv
    <3> HIDE DEF new
    <3> QED
      BY <2>1, <3>1, <3>2, HandFromDocument DEF Inv
  <2>5. Own(i)' \subseteq Own(i) \cup {new}
    BY <2>2 DEF Own
  <2>6. LocalInv(i)'
    BY <1>1, <1>2, <1>4, <2>2, <2>3, <2>4, <2>5, RepeatLocal
  <2> QED
    BY <1>1, <2>2, <2>3, <2>6 DEF OwnStep
<1>5. CASE import[i].at \in {"link", "linkAnchor"}
  <2> DEFINE new == NewRow(import[i].bundle, import[i].relation,
                           "bundleRelation", i)
  <2>1. InsertRelation(import[i].bundle, import[i].relation, "bundleRelation", i)
    BY <1>2, <1>5 DEF Insert, At
  <2>2. RowsInv' /\ objects' = objects /\ relations' = relations \cup {new}
    BY <2>1, InsertRelationRows DEF Inv
  <2>3. /\ new.maker = i /\ new.type = "bundleRelation"
        /\ new.from = import[i].bundle /\ new.to = import[i].relation
    BY DEF NewRow
  <2>4. Own(i)' \subseteq Own(i) \cup {new}
    BY <2>2 DEF Own
  <2>5. LocalInv(i)'
    BY <1>1, <1>2, <1>5, <2>2, <2>3, <2>4, RepeatLocal
  <2> QED
    BY <1>1, <2>2, <2>3, <2>5 DEF OwnStep
<1> QED
  BY <1>2, <1>3, <1>4, <1>5 DEF Insert, At

LEMMA ImportOwn ==
  ASSUME Inv, NEW i \in Imports, ImportStep(i)
  PROVE  OwnStep(i)
BY BeginOwn, CreateBundleOwn, ImportObjectOwn, AdvanceOwn, LookupAnchorOwn,
   FindSourceOwn, FindDestOwn, RelateOwn, LinkOwn, RepeatOwn,
   FailOwn DEF ImportStep

-----------------------------------------------------------------------------
(* The inductive invariant.                                                *)

LEMMA ImportInv ==
  ASSUME Inv, NEW i \in Imports, ImportStep(i)
  PROVE  Inv'
<1>1. OwnStep(i)
  BY ImportOwn
<1>2. ASSUME NEW j \in Imports \ {i}
      PROVE  LocalInv(j)'
  BY <1>1, OthersKeep DEF OwnStep, Inv
<1> QED
  BY <1>1, <1>2 DEF OwnStep, Inv

\* An export leaves alone what the imports have, and so does a creator.
LEMMA OtherInv ==
  ASSUME Inv, import' = import,
         UNCHANGED tables \/ \E n, t, c : InsertObject(n, t, c)
  PROVE  Inv'
<1>1. RowsInv' /\ relations' = relations /\ objects \subseteq objects'
  <2>1. CASE UNCHANGED tables
    BY <2>1, Unchanged DEF Inv
  <2>2. CASE \E n, t, c : InsertObject(n, t, c)
    BY <2>2, InsertObjectRows DEF Inv
  <2> QED
    BY <2>1, <2>2
<1>2. \A i \in Imports : LocalInv(i)'
  BY <1>1, OthersKeep DEF Inv
<1>3. CallsInv'
  BY DEF Inv, CallsInv
<1> QED
  BY <1>1, <1>2, <1>3 DEF Inv

LEMMA ExportQuiet ==
  ASSUME NEW e \in Exports, Export(e)
  PROVE  UNCHANGED tables /\ import' = import
BY DEF Export, ExportStep, BeginExport, ExportObjects, ExportRelations,
   WriteRelations, ExportFails

LEMMA InitInv == Init => Inv
<1> SUFFICES ASSUME Init PROVE Inv
  OBVIOUS
<1>1. /\ objects = {} /\ relations = {} /\ nextObject = 1 /\ nextRelation = 1
      /\ import = [i \in Imports |->
           [at |-> "idle", doc |-> [objects |-> <<>>, relations |-> <<>>],
            extern |-> FALSE, anchors |-> <<>>, pos |-> 1, bundle |-> None,
            table |-> <<>>, source |-> None, dest |-> None, relation |-> None,
            repeats |-> 0]]
  BY DEF Init, TablesInit, ImportInit
<1>2. RowsInv
  BY <1>1 DEF RowsInv
<1>3. CallsInv
  <2>1. [objects |-> <<>>, relations |-> <<>>] \in Document
    BY DEF Document
  <2>2. \A i \in Imports :
          /\ DOMAIN import[i] = Fields /\ import[i].at = "idle"
          /\ import[i].pos = 1
          /\ import[i].doc = [objects |-> <<>>, relations |-> <<>>]
          /\ import[i].repeats = 0
    BY <1>1 DEF Fields
  <2>3. import = [i \in Imports |-> import[i]]
    BY <1>1
  <2> QED
    BY <2>1, <2>2, <2>3 DEF CallsInv, Labels
<1>4. ASSUME NEW i \in Imports
      PROVE  LocalInv(i)
  <2>1. /\ import[i].at = "idle" /\ import[i].bundle = None
        /\ import[i].table = <<>>
    BY <1>1
  <2>2. DOMAIN import[i].table = {}
    BY <2>1
  <2>3. Own(i) = {} /\ Left(i) = {}
    BY <1>1 DEF Own, Left, Strays
  <2>4. import[i].relation = None /\ import[i].repeats = 0
    BY <1>1
  <2>5. Few(Left(i), import[i].repeats)
    BY <2>3, <2>4, FewNone
  <2> QED
    BY <1>1, <2>1, <2>2, <2>3, <2>4, <2>5
       DEF LocalInv, PlaceInv, TableInv, EdgeInv, MemberInv
<1> QED
  BY <1>2, <1>3, <1>4 DEF Inv

\* What imports keep of ids, and the rows they leave, whatever the documents
\* and whoever else writes to the database.
THEOREM Invariance == Spec => []Inv
<1>1. Inv /\ [Next]_vars => Inv'
  <2> SUFFICES ASSUME Inv, [Next]_vars PROVE Inv'
    OBVIOUS
  <2>1. ASSUME NEW i \in Imports, Import(i)
        PROVE  Inv'
    BY <2>1, ImportInv DEF Import
  <2>2. ASSUME NEW e \in Exports, Export(e)
        PROVE  Inv'
    BY <2>2, ExportQuiet, OtherInv
  <2>3. ASSUME NEW c \in Creators, CreateObject(c)
        PROVE  Inv'
    BY <2>3, OtherInv DEF CreateObject
  <2>4. CASE UNCHANGED vars
    BY <2>4, OtherInv DEF vars
  <2> QED
    BY <2>1, <2>2, <2>3, <2>4 DEF Next
<1> QED
  BY InitInv, <1>1, PTL DEF Spec

-----------------------------------------------------------------------------
(* The properties.                                                         *)

\* The row of an id is the one that was created.
LEMMA MineAt ==
  ASSUME RowsInv, NEW i, NEW id, Mine(i, id)
  PROVE  ObjectAt(id).maker = i
<1>1. PICK o \in objects : o.id = id /\ o.maker = i
  BY DEF Mine
<1>2. ObjectAt(id) \in objects /\ ObjectAt(id).id = id
  BY <1>1 DEF ObjectAt
<1> QED
  BY <1>1, <1>2 DEF RowsInv

\* import_document_json without CPL_J_EXTERN_OBJ and anchors: the ends of the
\* relations of an import are its own objects, although other imports of the
\* same names run at the same time.
THEOREM ImportsAreApart == Spec => []ImportsStayApart
<1>1. Inv => ImportsStayApart
  <2> SUFFICES ASSUME Inv, NEW i \in Imports, Plain(i), NEW r \in Own(i)
               PROVE  {ObjectAt(r.from).maker, ObjectAt(r.to).maker} = {i}
    BY DEF ImportsStayApart, Plain
  <2>1. FromDocument(i, r) /\ TableInv(i)
    BY DEF Inv, LocalInv, EdgeInv
  <2>2. Mine(i, r.from) /\ Mine(i, r.to)
    BY <2>1 DEF FromDocument, TableInv
  <2> QED
    BY <2>2, MineAt DEF Inv
<1> QED
  BY Invariance, <1>1, PTL

\* import_document_json: the members of an import's bundle are relations of
\* its own; of these, no more are not members than links have broken, and the
\* last one.
THEOREM MembersAreOfBundle == Spec => []MembersOfBundle
<1>1. Inv => MembersOfBundle
  <2> SUFFICES ASSUME Inv, NEW i \in Imports, import[i].bundle # None
               PROVE  LET members == BundleRelations(import[i].bundle)
                          last == IF import[i].at \in
                                       {"linkAnchor", "link", "error"}
                                  THEN 1 ELSE 0
                      IN  /\ members \subseteq Own(i)
                          /\ Cardinality(Own(i) \ members)
                               <= import[i].repeats + last
    BY DEF MembersOfBundle
  <2> DEFINE members == BundleRelations(import[i].bundle)
  <2>1. members \subseteq Own(i)
    <3> SUFFICES ASSUME NEW r \in members PROVE r \in Own(i)
      OBVIOUS
    <3>1. PICK m \in relations :
            /\ m.from = import[i].bundle /\ m.type = "bundleRelation"
            /\ m.to = r.id
      BY DEF BundleRelations
    <3>2. m.maker \in Imports
      BY DEF Inv, RowsInv
    <3>3. Mine(m.maker, m.from) /\ \E s \in Own(m.maker) : s.id = m.to
      BY <3>1, <3>2 DEF Inv, LocalInv, MemberInv
    <3>4. Mine(i, m.from)
      BY <3>1 DEF Inv, LocalInv, PlaceInv
    <3>5. m.maker = i
      BY <3>3, <3>4 DEF Inv, RowsInv, Mine
    <3>6. PICK s \in Own(i) : s.id = r.id
      BY <3>1, <3>3, <3>5
    <3>7. s \in relations /\ r \in relations
      BY DEF Own, BundleRelations
    <3> QED
      BY <3>6, <3>7 DEF Inv, RowsInv
  <2>2. Own(i) \ members = Strays(i)
    BY DEF Own, BundleRelations, Member, Strays
  <2>3. CASE import[i].at \in {"linkAnchor", "link", "error"}
    <3>1. Few(Strays(i), import[i].repeats + 1)
      BY <2>3, FewStrays DEF Inv, LocalInv, MemberInv
    <3> QED
      BY <2>1, <2>2, <2>3, <3>1 DEF Few
  <2>4. CASE import[i].at \notin {"linkAnchor", "link", "error"}
    <3>1. import[i].relation = None /\ Few(Left(i), import[i].repeats)
      BY <2>4 DEF Inv, LocalInv, MemberInv
    <3>2. Strays(i) = Left(i)
      BY <3>1, ImportAssumption DEF Left, Strays, Own, Inv, RowsInv
    <3>3. import[i].repeats \in Nat
      BY DEF Inv, CallsInv
    <3> QED
      BY <2>1, <2>2, <2>4, <3>1, <3>2, <3>3 DEF Few
  <2> QED
    BY <2>3, <2>4
<1> QED
  BY Invariance, <1>1, PTL

\* validate_json and import_document_json: if the names of a document form a
\* DAG, so do the ids that its relations are stored with, because lookup_tbl
\* has one object for each name, and no other way to an id is taken.
THEOREM ValidIsAcyclic == Spec => []ValidStaysAcyclic
<1>1. Inv => ValidStaysAcyclic
  <2> SUFFICES ASSUME Inv, NEW i \in Imports, Validates(import[i].doc), Plain(i)
               PROVE  IsDag({<<r.from, r.to>> : r \in Own(i)})
    BY DEF ValidStaysAcyclic, Plain
  <2> DEFINE table == import[i].table
             links == import[i].doc.relations
             stored == {<<r.from, r.to>> : r \in Own(i)}
             edges == Edges(import[i].doc)
  <2>1. \A k, l \in DOMAIN table : table[k] = table[l] => k = l
    BY DEF Inv, LocalInv, TableInv
  <2>2. \A k \in DOMAIN table : k # NoKey
    BY ImportAssumption DEF Inv, LocalInv, TableInv
  <2>3. \A e \in stored : \E n \in DOMAIN links :
          /\ links[n].source \in DOMAIN table /\ links[n].dest \in DOMAIN table
          /\ e[1] = table[links[n].source] /\ e[2] = table[links[n].dest]
          /\ <<links[n].source, links[n].dest>> \in edges
    <3> SUFFICES ASSUME NEW r \in Own(i)
                 PROVE  \E n \in DOMAIN links :
                          /\ links[n].source \in DOMAIN table
                          /\ links[n].dest \in DOMAIN table
                          /\ r.from = table[links[n].source]
                          /\ r.to = table[links[n].dest]
                          /\ <<links[n].source, links[n].dest>> \in edges
      OBVIOUS
    <3>1. PICK n \in DOMAIN links :
            /\ links[n].source \in DOMAIN table /\ links[n].dest \in DOMAIN table
            /\ r.from = table[links[n].source] /\ r.to = table[links[n].dest]
      BY DEF Inv, LocalInv, EdgeInv, FromDocument
    <3>2. links[n].dest # NoKey
      BY <2>2, <3>1
    <3>3. <<links[n].source, links[n].dest>> \in edges
      BY <3>2 DEF Edges
    <3> QED
      BY <3>1, <3>3
  <2> SUFFICES ASSUME NEW nodes \in SUBSET {e[1] : e \in stored}, nodes # {}
               PROVE  \E id \in nodes : \A e \in stored :
                        e[1] = id => e[2] \notin nodes
    BY DEF IsDag
  <2> DEFINE keys == {k \in DOMAIN table : table[k] \in nodes}
  <2>4. \A id \in nodes : \E k \in keys :
          table[k] = id /\ k \in {e[1] : e \in edges}
    <3> SUFFICES ASSUME NEW id \in nodes
                 PROVE  \E k \in keys : table[k] = id /\ k \in {e[1] : e \in edges}
      OBVIOUS
    <3>1. PICK e \in stored : e[1] = id
      OBVIOUS
    <3>2. PICK n \in DOMAIN links :
            /\ links[n].source \in DOMAIN table
            /\ e[1] = table[links[n].source]
            /\ <<links[n].source, links[n].dest>> \in edges
      BY <2>3
    <3>3. <<links[n].source, links[n].dest>>[1] = links[n].source
      OBVIOUS
    <3> QED
      BY <3>1, <3>2, <3>3
  <2>5. keys # {} /\ keys \subseteq {e[1] : e \in edges}
    <3>1. \A k \in keys : k \in {e[1] : e \in edges}
      BY <2>1, <2>4
    <3> QED
      BY <2>4, <3>1
  <2>6. PICK k \in keys : \A e \in edges : e[1] = k => e[2] \notin keys
    BY <2>5 DEF Validates, IsDag
  <2>7. ASSUME NEW e \in stored, e[1] = table[k], e[2] \in nodes
        PROVE  FALSE
    <3>1. PICK n \in DOMAIN links :
            /\ links[n].source \in DOMAIN table /\ links[n].dest \in DOMAIN table
            /\ e[1] = table[links[n].source] /\ e[2] = table[links[n].dest]
            /\ <<links[n].source, links[n].dest>> \in edges
      BY <2>3
    <3>2. links[n].source = k
      BY <2>1, <2>7, <3>1
    <3>3. links[n].dest \in keys
      BY <2>7, <3>1
    <3> DEFINE f == <<links[n].source, links[n].dest>>
    <3>4. f \in edges /\ f[1] = k /\ f[2] \in keys
      BY <3>1, <3>2, <3>3
    <3> QED
      BY <2>6, <3>4
  <2> QED
    BY <2>7
<1> QED
  BY Invariance, <1>1, PTL

=============================================================================
