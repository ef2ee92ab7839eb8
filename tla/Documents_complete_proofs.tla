---------------------- MODULE Documents_complete_proofs ----------------------
(***************************************************************************)
(* Theorems about Documents, for any number of imports, exports and        *)
(* creators, any documents and any number of broken links: an import that  *)
(* answers CPL_OK has stored its document and nothing else, anchors come   *)
(* from before the import, and an export gives back what was imported.     *)
(*                                                                         *)
(* The argument ties each position that an import has come to in its       *)
(* document to the rows before it: the objects by name and type            *)
(* (StoredInv), the ends of the relation at hand (HandInv), the relations  *)
(* (LinkedInv), and how many members the bundle has (CountInv).  RowsOf    *)
(* says where rows come from, whatever the import has come to.  Once an    *)
(* import is done nothing that an export reads of its bundle changes       *)
(* (Settled), and ExportsInv follows an export through its SELECTs.        *)
(***************************************************************************)
EXTENDS Documents_proofs

\* The objects of an import.
By(i) == {o \in objects : o.maker = i}

\* Is id that of an object of a name?
Holds(id, name) == \E o \in objects : o.id = id /\ o.name = name

\* An object of a name that is not older than one of i's.
Latest(i, id, name) ==
  Holds(id, name) /\ \E o \in By(i) : o.id <= id /\ o.name = name

IsBundle(o) == o.name = BundleName /\ o.type = "bundle"

\* Object o is that of entry n of i's document.
IsEntry(i, o, n) ==
  /\ o.name = Tokens[import[i].doc.objects[n].key]
  /\ o.type = import[i].doc.objects[n].type

\* Relation r is relation n of i's document, by type and names.
FromLink(i, r, n) ==
  /\ r.type = import[i].doc.relations[n].type
  /\ import[i].doc.relations[n].dest \in Keys
  /\ Holds(r.from, Tokens[import[i].doc.relations[n].source])
  /\ Holds(r.to, Tokens[import[i].doc.relations[n].dest])

\* Relation r is that to anchor k.
FromAnchor(i, r, k) ==
  /\ r.type = "alternateOf" /\ r.to = import[i].anchors[k].id
  /\ Latest(i, r.from, Tokens[import[i].anchors[k].key])

\* The anchors are older than all objects of the import, which has an object
\* of each of their names in its document.
AnchorsInv(i) ==
  /\ import[i].anchors \in Seq([id : Nat, key : Keys])
  /\ \A k \in DOMAIN import[i].anchors :
       /\ import[i].anchors[k].id \in ObjectIds
       /\ \A o \in By(i) : import[i].anchors[k].id < o.id
       /\ \E n \in DOMAIN import[i].doc.objects :
            import[i].doc.objects[n].key = import[i].anchors[k].key

NamesInv(i) ==
  \A k \in DOMAIN import[i].table : Holds(import[i].table[k], Tokens[k])

\* Where the rows of an import come from.
RowsOf(i) ==
  /\ \A o \in By(i) :
       IsBundle(o) \/ \E n \in DOMAIN import[i].doc.objects : IsEntry(i, o, n)
  /\ \A r \in Own(i) :
       \/ \E n \in DOMAIN import[i].doc.relations : FromLink(i, r, n)
       \/ \E k \in DOMAIN import[i].anchors : FromAnchor(i, r, k)

\* The objects that are in the table by now.
StoredInv(i) ==
  /\ import[i].at = "idle" => By(i) = {}
  /\ import[i].at \notin {"idle", "bundle", "error"} =>
       \E o \in By(i) : IsBundle(o)
  /\ import[i].at \notin {"idle", "bundle", "prefixes", "error"} =>
       \A n \in DOMAIN import[i].doc.objects :
         (import[i].at = "objects" => n < import[i].pos) =>
           \E o \in By(i) : IsEntry(i, o, n)

\* The ends of the relation at hand, and then the relation.
HandInv(i) ==
  /\ import[i].at \in {"anchor", "linkAnchor"} =>
       import[i].pos \in DOMAIN import[i].anchors
  /\ import[i].at = "anchor" =>
       Latest(i, import[i].source, Tokens[Item(i, import[i].anchors).key])
  /\ import[i].at \in {"dest", "relate"} =>
       Holds(import[i].source, Tokens[Hand(i).source])
  /\ import[i].at = "relate" =>
       Hand(i).dest \in Keys /\ Holds(import[i].dest, Tokens[Hand(i).dest])
  /\ import[i].at = "link" =>
       /\ import[i].pos \in DOMAIN import[i].doc.relations
       /\ \E r \in Own(i) :
            r.id = import[i].relation /\ FromLink(i, r, import[i].pos)

InAnchors == {"anchors", "anchor", "linkAnchor"}
InRelations == {"relations", "dest", "relate", "link"}

\* The bundle has relation n of the document.
Linked(i, n) == \E r \in Own(i) : Member(i, r) /\ FromLink(i, r, n)

LinkedInv(i) ==
  /\ import[i].at \in InRelations =>
       \A n \in DOMAIN import[i].doc.relations :
         n < import[i].pos => Linked(i, n)
  /\ import[i].at = "ok" =>
       \A n \in DOMAIN import[i].doc.relations : Linked(i, n)

\* The members of the bundle, but for the relation at hand.
Joined(i) == {r \in Own(i) : Member(i, r) /\ r.id # import[i].relation}

Count(S, least, most) == IsFiniteSet(S) /\ Cardinality(S) \in least..most

\* One for each relation of the document, and some for the anchors.
CountInv(i) ==
  LET pos == import[i].pos
      anchors == Len(import[i].anchors)
      links == Len(import[i].doc.relations)
  IN  /\ import[i].at \in InAnchors =>
           pos <= anchors + 1 /\ Count(Joined(i), 0, pos - 1)
      /\ import[i].at \in InRelations =>
           pos <= links + 1 /\ Count(Joined(i), pos - 1, pos - 1 + anchors)
      /\ import[i].at = "ok" => Count(Joined(i), links, links + anchors)

\* What an import is to have done, by where it is.
DoneInv(i) == StoredInv(i) /\ HandInv(i) /\ LinkedInv(i) /\ CountInv(i)

StoryInv(i) ==
  /\ ImportOK(i) /\ AnchorsInv(i) /\ NamesInv(i) /\ RowsOf(i)
  /\ DoneInv(i)

TablesInv ==
  /\ TablesOK /\ IsFiniteSet(objects) /\ IsFiniteSet(relations)
  /\ nextObject \in Nat \ {0} /\ nextRelation \in Nat \ {0}

CompleteInv == Inv /\ TablesInv /\ \A i \in Imports : StoryInv(i)

-----------------------------------------------------------------------------
(* The tables.                                                             *)

LEMMA ObjectsGrow ==
  ASSUME RowsInv, TablesInv, NEW n \in Stored, NEW t \in ObjectTypes,
         NEW m \in Makers, InsertObject(n, t, m)
  PROVE  TablesInv'
<1> DEFINE new == [id |-> nextObject, name |-> n, type |-> t, maker |-> m]
<1>1. /\ objects' = objects \cup {new} /\ nextObject' = nextObject + 1
      /\ relations' = relations /\ nextRelation' = nextRelation
  BY DEF InsertObject
<1>2. /\ new \notin objects /\ new.id = nextObject
      /\ new.name \in Stored /\ new.type \in ObjectTypes /\ new.maker \in Makers
  BY DEF RowsInv
<1> HIDE DEF new
<1>3. IsFiniteSet(objects') /\ Cardinality(objects') = nextObject' - 1
  BY <1>1, <1>2, FS_AddElement DEF TablesInv, TablesOK
<1>4. ObjectIds' = ObjectIds \cup {nextObject}
  BY <1>1, <1>2 DEF ObjectIds
<1>5. ObjectIds' = 1..(nextObject' - 1)
  <2>1. ObjectIds = 1..(nextObject - 1) /\ nextObject \in Nat \ {0}
    BY DEF TablesInv, TablesOK
  <2>2. 1..(nextObject' - 1) = 1..(nextObject - 1) \cup {nextObject}
    BY <1>1, <2>1
  <2> QED
    BY <1>4, <2>1, <2>2
<1>6. RelationIds' = RelationIds
  BY <1>1 DEF RelationIds
<1>7. \A o \in objects' :
        o.name \in Stored /\ o.type \in ObjectTypes /\ o.maker \in Makers
  BY <1>1, <1>2 DEF TablesInv, TablesOK
<1>8. \A r \in relations' :
        /\ r.type \in RelationTypes /\ r.maker \in Makers
        /\ r.from \in ObjectIds'
        /\ r.to \in IF r.type = "bundleRelation" THEN RelationIds' ELSE ObjectIds'
  BY <1>1, <1>4, <1>6 DEF TablesInv, TablesOK
<1>9. TablesOK'
  BY <1>1, <1>3, <1>5, <1>6, <1>7, <1>8 DEF TablesInv, TablesOK, ObjectTypes,
     RelationTypes
<1> QED
  BY <1>1, <1>3, <1>9 DEF TablesInv

LEMMA RelationsGrow ==
  ASSUME RowsInv, TablesInv, NEW from \in ObjectIds, NEW to,
         NEW t \in RelationTypes, NEW m \in Makers,
         to \in IF t = "bundleRelation" THEN RelationIds ELSE ObjectIds,
         InsertRelation(from, to, t, m)
  PROVE  TablesInv'
<1> DEFINE new == NewRow(from, to, t, m)
<1>1. /\ relations' = relations \cup {new} /\ nextRelation' = nextRelation + 1
      /\ objects' = objects /\ nextObject' = nextObject
  BY DEF InsertRelation, NewRow
<1>2. /\ new.id = nextRelation /\ new.from = from /\ new.to = to
      /\ new.type = t /\ new.maker = m
  BY DEF NewRow
<1>3. new \notin relations
  BY <1>2 DEF RowsInv
<1> HIDE DEF new
<1>4. IsFiniteSet(relations') /\ Cardinality(relations') = nextRelation' - 1
  BY <1>1, <1>3, FS_AddElement DEF TablesInv, TablesOK
<1>5. RelationIds' = RelationIds \cup {nextRelation}
  BY <1>1, <1>2 DEF RelationIds
<1>6. RelationIds' = 1..(nextRelation' - 1)
  <2>1. RelationIds = 1..(nextRelation - 1) /\ nextRelation \in Nat \ {0}
    BY DEF TablesInv, TablesOK
  <2>2. 1..(nextRelation' - 1) = 1..(nextRelation - 1) \cup {nextRelation}
    BY <1>1, <2>1
  <2> QED
    BY <1>5, <2>1, <2>2
<1>7. ObjectIds' = ObjectIds
  BY <1>1 DEF ObjectIds
<1>8. ASSUME NEW r \in relations'
      PROVE  /\ r.type \in RelationTypes /\ r.maker \in Makers
             /\ r.from \in ObjectIds'
             /\ r.to \in IF r.type = "bundleRelation" THEN RelationIds'
                                                      ELSE ObjectIds'
  <2>1. CASE r \in relations
    BY <1>5, <1>7, <2>1 DEF TablesInv, TablesOK
  <2>2. CASE r = new
    BY <1>2, <1>5, <1>7, <2>2
  <2> QED
    BY <1>1, <2>1, <2>2
<1>9. TablesOK'
  BY <1>1, <1>4, <1>6, <1>7, <1>8 DEF TablesInv, TablesOK, ObjectTypes,
     RelationTypes, EntityRelations
<1> QED
  BY <1>1, <1>4, <1>9 DEF TablesInv

LEMMA TablesRest ==
  ASSUME TablesInv, UNCHANGED tables
  PROVE  TablesInv'
BY DEF TablesInv, TablesOK, ObjectIds, RelationIds, tables, ObjectTypes,
   RelationTypes, EntityRelations

-----------------------------------------------------------------------------
(* What the INSERTs of an import add.                                      *)

NewObject(i, o) ==
  /\ o.id = nextObject /\ o.maker = i
  /\ objects' = objects \cup {o} /\ relations' = relations

NewRelation(i, r) ==
  /\ r.id = nextRelation /\ r.maker = i
  /\ relations' = relations \cup {r} /\ objects' = objects

LEMMA Positioned ==
  ASSUME NEW S, NEW s \in Seq(S), NEW n \in Nat \ {0}, n <= Len(s)
  PROVE  n \in DOMAIN s /\ s[n] \in S
OBVIOUS

LEMMA HandIsLink ==
  ASSUME Inv, NEW i \in Imports,
         \/ import[i].at \in {"dest", "relate"}
         \/ More(i, import[i].doc.relations)
  PROVE  /\ import[i].pos \in DOMAIN import[i].doc.relations
         /\ Hand(i) = import[i].doc.relations[import[i].pos] /\ Hand(i) \in Link
<1>1. import[i].doc.relations \in Seq(Link) /\ import[i].pos \in Nat \ {0}
  BY DEF Inv, CallsInv, Document
<1>2. import[i].pos \in DOMAIN import[i].doc.relations
  BY <1>1 DEF Inv, LocalInv, PlaceInv, More
<1> QED
  BY <1>1, <1>2 DEF Hand, Item

LEMMA InsertsObject ==
  ASSUME CompleteInv, NEW i \in Imports, Insert(i),
         import[i].at \in {"bundle", "objects"}
  PROVE  /\ TablesInv'
         /\ \E o : /\ NewObject(i, o)
                   /\ import[i].at = "bundle" => IsBundle(o)
                   /\ import[i].at = "objects" =>
                        /\ import[i].pos \in DOMAIN import[i].doc.objects
                        /\ IsEntry(i, o, import[i].pos)
<1>1. i \in Makers
  BY ImportAssumption
<1>2. CASE import[i].at = "bundle"
  <2> DEFINE new == [id |-> nextObject, name |-> BundleName, type |-> "bundle",
                     maker |-> i]
  <2>1. InsertObject(BundleName, "bundle", i)
    BY <1>2 DEF Insert, At
  <2>2. TablesInv'
    BY <1>1, <2>1, ObjectsGrow, ImportAssumption DEF CompleteInv, Inv, ObjectTypes
  <2>3. NewObject(i, new) /\ IsBundle(new)
    BY <2>1 DEF InsertObject, NewObject, IsBundle
  <2> QED
    BY <1>2, <2>2, <2>3
<1>3. CASE import[i].at = "objects"
  <2> DEFINE entries == import[i].doc.objects
             pos == import[i].pos
             new == [id |-> nextObject, name |-> Tokens[entries[pos].key],
                     type |-> entries[pos].type, maker |-> i]
  <2>1. /\ More(i, entries)
        /\ InsertObject(Tokens[entries[pos].key], entries[pos].type, i)
    BY <1>3 DEF Insert, At, Item
  <2>2. entries \in Seq(Entry) /\ pos \in Nat \ {0}
    BY DEF CompleteInv, Inv, CallsInv, Document
  <2>3. pos \in DOMAIN entries /\ entries[pos] \in Entry
    BY <2>1, <2>2, Positioned DEF More
  <2>4. Tokens[entries[pos].key] \in Stored /\ entries[pos].type \in ObjectTypes
    BY <2>3, ImportAssumption DEF Entry
  <2>5. TablesInv'
    BY <1>1, <2>1, <2>4, ObjectsGrow DEF CompleteInv, Inv
  <2>6. NewObject(i, new) /\ IsEntry(i, new, pos)
    BY <2>1 DEF InsertObject, NewObject, IsEntry
  <2> QED
    BY <1>3, <2>3, <2>5, <2>6
<1> QED
  BY <1>2, <1>3

LEMMA HeldIds ==
  ASSUME NEW id, NEW name, Holds(id, name)
  PROVE  id \in ObjectIds
BY DEF Holds, ObjectIds

\* The relation of a document, or that to an anchor.
LEMMA InsertsOwn ==
  ASSUME CompleteInv, NEW i \in Imports, Insert(i),
         import[i].at \in {"anchor", "relate"}
  PROVE  /\ TablesInv'
         /\ \E r : /\ NewRelation(i, r) /\ r.type # "bundleRelation"
                   /\ import[i].at = "anchor" => FromAnchor(i, r, import[i].pos)
                   /\ import[i].at = "relate" => FromLink(i, r, import[i].pos)
<1>1. i \in Makers /\ HandInv(i) /\ RowsInv /\ TablesInv
  BY ImportAssumption DEF CompleteInv, StoryInv, DoneInv, Inv
<1>2. CASE import[i].at = "anchor"
  <2> DEFINE to == Item(i, import[i].anchors).id
             new == NewRow(import[i].source, to, "alternateOf", i)
  <2>1. InsertRelation(import[i].source, to, "alternateOf", i)
    BY <1>2 DEF Insert, At
  <2>2. /\ import[i].pos \in DOMAIN import[i].anchors
        /\ Latest(i, import[i].source, Tokens[import[i].anchors[import[i].pos].key])
    BY <1>1, <1>2 DEF HandInv, Item
  <2>3. import[i].source \in ObjectIds /\ to \in ObjectIds
    BY <2>2, HeldIds DEF Latest, CompleteInv, StoryInv, AnchorsInv, Item
  <2>4. TablesInv'
    BY <1>1, <2>1, <2>3, RelationsGrow DEF RelationTypes, EntityRelations
  <2>5. NewRelation(i, new) /\ new.type = "alternateOf"
        /\ new.from = import[i].source /\ new.to = to
    BY <2>1 DEF InsertRelation, NewRow, NewRelation
  <2>6. FromAnchor(i, new, import[i].pos)
    BY <2>2, <2>5 DEF FromAnchor, Item
  <2> QED
    BY <1>2, <2>4, <2>5, <2>6
<1>3. CASE import[i].at = "relate"
  <2> DEFINE new == NewRow(import[i].source, import[i].dest, Hand(i).type, i)
  <2>1. InsertRelation(import[i].source, import[i].dest, Hand(i).type, i)
    BY <1>3 DEF Insert, At, Hand
  <2>2. /\ Hand(i) = import[i].doc.relations[import[i].pos]
        /\ Hand(i).type \in RelationTypes /\ Hand(i).type # "bundleRelation"
    BY <1>3, HandIsLink DEF CompleteInv, Link
  <2>3. /\ Holds(import[i].source, Tokens[Hand(i).source])
        /\ Hand(i).dest \in Keys /\ Holds(import[i].dest, Tokens[Hand(i).dest])
    BY <1>1, <1>3 DEF HandInv
  <2>4. import[i].source \in ObjectIds /\ import[i].dest \in ObjectIds
    BY <2>3, HeldIds
  <2>5. TablesInv'
    BY <1>1, <2>1, <2>2, <2>4, RelationsGrow
  <2>6. NewRelation(i, new) /\ new.type = Hand(i).type
        /\ new.from = import[i].source /\ new.to = import[i].dest
    BY <2>1 DEF InsertRelation, NewRow, NewRelation
  <2>7. FromLink(i, new, import[i].pos)
    BY <2>2, <2>3, <2>6 DEF FromLink
  <2> QED
    BY <1>3, <2>2, <2>5, <2>6, <2>7
<1> QED
  BY <1>2, <1>3

LEMMA InsertsMember ==
  ASSUME CompleteInv, NEW i \in Imports, Insert(i),
         import[i].at \in {"link", "linkAnchor"}
  PROVE  /\ TablesInv'
         /\ \E r : /\ NewRelation(i, r) /\ r.type = "bundleRelation"
                   /\ r.from = import[i].bundle /\ r.to = import[i].relation
<1> DEFINE new == NewRow(import[i].bundle, import[i].relation, "bundleRelation", i)
<1>1. InsertRelation(import[i].bundle, import[i].relation, "bundleRelation", i)
  BY DEF Insert, At
<1>2. i \in Makers /\ RowsInv /\ TablesInv
  BY ImportAssumption DEF CompleteInv, Inv
<1>3. import[i].bundle \in ObjectIds
  BY DEF CompleteInv, Inv, LocalInv, PlaceInv, Mine, ObjectIds
<1>4. import[i].relation \in RelationIds
  BY DEF CompleteInv, Inv, LocalInv, MemberInv, Own, RelationIds
<1>5. TablesInv'
  BY <1>1, <1>2, <1>3, <1>4, RelationsGrow DEF RelationTypes
<1>6. NewRelation(i, new) /\ new.type = "bundleRelation"
      /\ new.from = import[i].bundle /\ new.to = import[i].relation
  BY <1>1 DEF InsertRelation, NewRow, NewRelation
<1> QED
  BY <1>5, <1>6

-----------------------------------------------------------------------------
(* What stays when rows come.                                              *)

Grown == objects \subseteq objects' /\ relations \subseteq relations'

LEMMA FactsStay ==
  ASSUME Grown, NEW i, import'[i].doc = import[i].doc,
         import'[i].anchors = import[i].anchors
  PROVE  /\ \A id, name : Holds(id, name) => Holds(id, name)'
         /\ \A id, name : Latest(i, id, name) => Latest(i, id, name)'
         /\ By(i) \subseteq By(i)' /\ Own(i) \subseteq Own(i)'
         /\ ObjectIds \subseteq ObjectIds' /\ RelationIds \subseteq RelationIds'
         /\ \A r, n : FromLink(i, r, n) => FromLink(i, r, n)'
         /\ \A r, k : FromAnchor(i, r, k) => FromAnchor(i, r, k)'
         /\ \A o, n : IsEntry(i, o, n) <=> IsEntry(i, o, n)'
<1>1. \A id, name : Holds(id, name) => Holds(id, name)'
  BY DEF Grown, Holds
<1>2. By(i) \subseteq By(i)' /\ Own(i) \subseteq Own(i)'
  BY DEF Grown, By, Own
<1>3. \A id, name : Latest(i, id, name) => Latest(i, id, name)'
  BY <1>1, <1>2 DEF Latest
<1>4. ObjectIds \subseteq ObjectIds' /\ RelationIds \subseteq RelationIds'
  BY DEF Grown, ObjectIds, RelationIds
<1>5. \A r, n : FromLink(i, r, n) => FromLink(i, r, n)'
  BY <1>1 DEF FromLink
<1>6. \A r, k : FromAnchor(i, r, k) => FromAnchor(i, r, k)'
  BY <1>3 DEF FromAnchor
<1>7. \A o, n : IsEntry(i, o, n) <=> IsEntry(i, o, n)'
  BY DEF IsEntry
<1> QED
  BY <1>1, <1>2, <1>3, <1>4, <1>5, <1>6, <1>7

LEMMA LinkedStays ==
  ASSUME Grown, NEW i, import'[i].doc = import[i].doc,
         import'[i].anchors = import[i].anchors,
         import'[i].bundle = import[i].bundle, NEW n, Linked(i, n)
  PROVE  Linked(i, n)'
<1>1. PICK r \in Own(i) : Member(i, r) /\ FromLink(i, r, n)
  BY DEF Linked
<1>2. r \in Own(i)' /\ FromLink(i, r, n)'
  BY <1>1, FactsStay
<1>3. Member(i, r)'
  BY <1>1 DEF Member, Grown
<1> QED
  BY <1>2, <1>3 DEF Linked

\* New rows of an import are of its document.
FitObjects(i) ==
  \A o \in By(i)' :
    \/ o \in By(i)
    \/ /\ o.id = nextObject
       /\ IsBundle(o) \/ \E n \in DOMAIN import[i].doc.objects : IsEntry(i, o, n)

FitRelations(i) ==
  \A r \in Own(i)' :
    \/ r \in Own(i)
    \/ \E n \in DOMAIN import[i].doc.relations : FromLink(i, r, n)
    \/ \E k \in DOMAIN import[i].anchors : FromAnchor(i, r, k)

LEMMA RowsStay ==
  ASSUME CompleteInv, NEW i \in Imports, Grown,
         import'[i].doc = import[i].doc, import'[i].anchors = import[i].anchors,
         FitObjects(i), FitRelations(i)
  PROVE  AnchorsInv(i)' /\ RowsOf(i)'
<1>1. AnchorsInv(i) /\ RowsOf(i)
  BY DEF CompleteInv, StoryInv
<1>2. \A id \in ObjectIds : id \in Nat /\ id < nextObject
  BY DEF CompleteInv, Inv, RowsInv, ObjectIds
<1>3. ObjectIds \subseteq ObjectIds'
  BY FactsStay
<1>4. ASSUME NEW k \in DOMAIN import[i].anchors, NEW o \in By(i)'
      PROVE  import[i].anchors[k].id < o.id
  BY <1>1, <1>2 DEF FitObjects, AnchorsInv
<1>5. AnchorsInv(i)'
  BY <1>1, <1>3, <1>4 DEF AnchorsInv
<1>6. ASSUME NEW o \in By(i)'
      PROVE  IsBundle(o) \/ \E n \in DOMAIN import[i].doc.objects : IsEntry(i, o, n)
  BY <1>1 DEF FitObjects, RowsOf
<1>7. ASSUME NEW r \in Own(i)'
      PROVE  \/ \E n \in DOMAIN import[i].doc.relations : FromLink(i, r, n)
             \/ \E k \in DOMAIN import[i].anchors : FromAnchor(i, r, k)
  BY <1>1 DEF FitRelations, RowsOf
<1>8. /\ \A r, n : FromLink(i, r, n) => FromLink(i, r, n)'
      /\ \A r, k : FromAnchor(i, r, k) => FromAnchor(i, r, k)'
      /\ \A o, n : IsEntry(i, o, n) <=> IsEntry(i, o, n)'
  BY FactsStay
<1>9. RowsOf(i)'
  BY <1>6, <1>7, <1>8 DEF RowsOf, IsBundle
<1> QED
  BY <1>5, <1>9

LEMMA NamesStay ==
  ASSUME CompleteInv, NEW i \in Imports, Grown,
         import'[i].table = import[i].table
  PROVE  NamesInv(i)'
BY DEF CompleteInv, StoryInv, NamesInv, Holds, Grown

LEMMA TypesStay ==
  ASSUME Inv', NEW i \in Imports,
         import'[i].source \in ObjectIds' \cup {None},
         import'[i].dest \in ObjectIds' \cup {None},
         import'[i].relation \in RelationIds' \cup {None},
         import'[i].repeats \in 0..MaxRepeats
  PROVE  ImportOK(i)'
<1>1. import'[i].bundle \in ObjectIds' \cup {None}
  BY DEF Inv, LocalInv, PlaceInv, Mine, ObjectIds
<1>2. /\ import'[i].at \in Labels /\ import'[i].pos \in Nat \ {0}
      /\ \A k \in DOMAIN import'[i].table :
           k \in Keys /\ import'[i].table[k] \in ObjectIds'
  BY DEF Inv, CallsInv, LocalInv, TableInv, Mine, ObjectIds
<1> QED
  BY <1>1, <1>2 DEF ImportOK, Labels

\* All of an import's part stays when only rows come, its own or of others.
LEMMA StoryStays ==
  ASSUME CompleteInv, Inv', NEW i \in Imports, Grown,
         import'[i].at = import[i].at, import'[i].pos = import[i].pos,
         import'[i].source = import[i].source, import'[i].dest = import[i].dest,
         import'[i].relation = import[i].relation, Keeps(i),
         import'[i].repeats \in 0..MaxRepeats,
         FitObjects(i), FitRelations(i), Joined(i)' = Joined(i),
         import[i].at = "idle" => By(i)' = By(i)
  PROVE  StoryInv(i)'
<1>1. AnchorsInv(i)' /\ RowsOf(i)' /\ NamesInv(i)'
  BY RowsStay, NamesStay DEF Keeps
<1>2. /\ \A id, name : Holds(id, name) => Holds(id, name)'
      /\ \A id, name : Latest(i, id, name) => Latest(i, id, name)'
      /\ By(i) \subseteq By(i)' /\ Own(i) \subseteq Own(i)'
      /\ ObjectIds \subseteq ObjectIds' /\ RelationIds \subseteq RelationIds'
      /\ \A r, n : FromLink(i, r, n) => FromLink(i, r, n)'
      /\ \A o, n : IsEntry(i, o, n) <=> IsEntry(i, o, n)'
  BY FactsStay DEF Keeps
<1>3. ImportOK(i)'
  BY <1>2, TypesStay DEF CompleteInv, StoryInv, ImportOK
<1>4. StoryInv(i) /\ DoneInv(i)
  BY DEF CompleteInv, StoryInv
<1>5. StoredInv(i)'
  BY <1>2, <1>4 DEF DoneInv, StoredInv, Keeps, IsBundle
<1>6. HandInv(i)'
  BY <1>2, <1>4 DEF DoneInv, HandInv, Keeps, Hand, Item
<1>7. LinkedInv(i)'
  <2>1. \A n : Linked(i, n) => Linked(i, n)'
    BY LinkedStays DEF Keeps
  <2> QED
    BY <1>4, <2>1 DEF DoneInv, LinkedInv, Keeps, InRelations
<1>8. CountInv(i)'
  BY <1>4 DEF DoneInv, CountInv, Keeps, InAnchors, InRelations, Count
<1> QED
  BY <1>1, <1>3, <1>5, <1>6, <1>7, <1>8 DEF StoryInv, DoneInv

-----------------------------------------------------------------------------
(* The members of the bundle.                                              *)

\* Who adds a membership of a bundle has made the bundle, and the member.
MembersByMaker ==
  \A i \in Imports : \A m \in relations :
    m.type = "bundleRelation" /\ m.from = import[i].bundle =>
      m.maker = i /\ \E r \in Own(i) : r.id = m.to

LEMMA MembersOfMaker == Inv => MembersByMaker
<1> SUFFICES ASSUME Inv, NEW i \in Imports, NEW m \in relations,
                    m.type = "bundleRelation", m.from = import[i].bundle
             PROVE  m.maker = i /\ \E r \in Own(i) : r.id = m.to
  BY DEF MembersByMaker
<1>1. m.maker \in Imports
  BY DEF Inv, RowsInv
<1>2. Mine(m.maker, m.from) /\ \E r \in Own(m.maker) : r.id = m.to
  BY <1>1 DEF Inv, LocalInv, MemberInv
<1>3. m.from \in Nat
  BY <1>2 DEF Mine, Inv, RowsInv
<1>4. Mine(i, m.from)
  BY <1>3, ImportAssumption DEF Inv, LocalInv, PlaceInv
<1>5. m.maker = i
  BY <1>2, <1>4 DEF Inv, RowsInv, Mine
<1> QED
  BY <1>2, <1>5

LEMMA MembersOfMakerNext == Inv' => MembersByMaker'
BY MembersOfMaker, PTL

\* Nobody adds members to the bundle of another import.
LEMMA JoinedByOthers ==
  ASSUME CompleteInv, Inv', NEW i \in Imports, import'[i] = import[i],
         relations \subseteq relations',
         \A r \in relations' \ relations : r.maker # i
  PROVE  Joined(i)' = Joined(i)
<1>1. Own(i)' = Own(i)
  BY DEF Own
<1>2. \A m \in relations' :
        m.type = "bundleRelation" /\ m.from = import[i].bundle => m \in relations
  BY MembersOfMakerNext DEF MembersByMaker
<1>3. \A r : Member(i, r)' <=> Member(i, r)
  BY <1>2 DEF Member
<1> QED
  BY <1>1, <1>3 DEF Joined

LEMMA JoinedRests ==
  ASSUME NEW i, relations' = relations,
         import'[i].bundle = import[i].bundle,
         import'[i].relation = import[i].relation
  PROVE  Joined(i)' = Joined(i)
BY DEF Joined, Own, Member

\* A relation that is new is no member yet.
LEMMA JoinedAfterOwn ==
  ASSUME CompleteInv, NEW i \in Imports, NEW new, NewRelation(i, new),
         new.type # "bundleRelation",
         import'[i].bundle = import[i].bundle,
         \/ import'[i].relation = import[i].relation
         \/ import'[i].relation = nextRelation /\ import[i].relation = None
  PROVE  Joined(i)' = Joined(i)
<1>1. Own(i)' = Own(i) \cup {new}
  BY DEF NewRelation, Own
<1>2. \A r : Member(i, r)' <=> Member(i, r)
  BY DEF NewRelation, Member
<1>3. ~Member(i, new)
  <2> SUFFICES ASSUME NEW m \in relations, m.type = "bundleRelation",
                      m.from = import[i].bundle, m.to = new.id
               PROVE  FALSE
    BY DEF Member
  <2>1. \E r \in relations : r.id = new.id
    BY MembersOfMaker DEF MembersByMaker, CompleteInv, Own
  <2> QED
    BY <2>1 DEF NewRelation, CompleteInv, Inv, RowsInv
<1>4. \A r \in Own(i) : r.id \in Nat /\ r.id # nextRelation
  BY DEF Own, CompleteInv, Inv, RowsInv
<1>5. \A r \in Own(i) : r.id # import'[i].relation <=> r.id # import[i].relation
  BY <1>4, ImportAssumption
<1> QED
  BY <1>1, <1>2, <1>3, <1>5 DEF Joined

\* The membership of the relation at hand, and once more.
LEMMA JoinedAfterMember ==
  ASSUME CompleteInv, NEW i \in Imports, NEW new, NewRelation(i, new),
         new.type = "bundleRelation",
         new.from = import[i].bundle, new.to = import[i].relation,
         import'[i].bundle = import[i].bundle
  PROVE  /\ import'[i].relation = import[i].relation => Joined(i)' = Joined(i)
         /\ import'[i].relation = None =>
              \A r \in Own(i) : r.id = import[i].relation =>
                /\ Joined(i)' = Joined(i) \cup {r} /\ r \notin Joined(i)
                /\ Member(i, r)'
<1>1. Own(i)' = Own(i)
  BY DEF NewRelation, Own
<1>2. \A r : Member(i, r)' <=> Member(i, r) \/ r.id = import[i].relation
  BY DEF NewRelation, Member
<1>3. \A r, s \in Own(i) : r.id = s.id => r = s
  BY DEF Own, CompleteInv, Inv, RowsInv
<1>4. \A r \in Own(i) : r.id # None
  BY ImportAssumption DEF Own, CompleteInv, Inv, RowsInv
<1>5. ASSUME import'[i].relation = None, NEW r \in Own(i),
             r.id = import[i].relation
      PROVE  Joined(i)' = Joined(i) \cup {r} /\ r \notin Joined(i) /\ Member(i, r)'
  BY <1>1, <1>2, <1>3, <1>4, <1>5 DEF Joined
<1>6. import'[i].relation = import[i].relation => Joined(i)' = Joined(i)
  BY <1>1, <1>2 DEF Joined
<1> QED
  BY <1>5, <1>6

-----------------------------------------------------------------------------
(* The steps of an import.                                                 *)

OwnStory(i) ==
  /\ TablesInv' /\ StoryInv(i)'
  /\ \A o \in objects' \ objects : o.maker = i

LEMMA InsertFits ==
  ASSUME CompleteInv, NEW i \in Imports, Insert(i) \/ UNCHANGED tables
  PROVE  /\ TablesInv' /\ Grown /\ FitObjects(i) /\ FitRelations(i)
         /\ \A o \in objects' \ objects : o.maker = i
<1>1. CASE UNCHANGED tables
  <2>1. objects' = objects /\ relations' = relations
    BY <1>1 DEF tables
  <2>2. TablesInv'
    BY <1>1, TablesRest DEF CompleteInv
  <2> QED
    BY <2>1, <2>2 DEF Grown, FitObjects, FitRelations, By, Own
<1>2. CASE Insert(i) /\ import[i].at \in {"bundle", "objects"}
  <2>1. TablesInv'
    BY <1>2, InsertsObject
  <2>2. PICK o : /\ NewObject(i, o)
                 /\ import[i].at = "bundle" => IsBundle(o)
                 /\ import[i].at = "objects" =>
                      /\ import[i].pos \in DOMAIN import[i].doc.objects
                      /\ IsEntry(i, o, import[i].pos)
    BY <1>2, InsertsObject
  <2>3. FitObjects(i)
    BY <1>2, <2>2 DEF NewObject, FitObjects, By
  <2>4. FitRelations(i)
    BY <2>2 DEF NewObject, FitRelations, Own
  <2> QED
    BY <2>1, <2>2, <2>3, <2>4 DEF NewObject, Grown
<1>3. CASE Insert(i) /\ import[i].at \in {"anchor", "relate"}
  <2>1. TablesInv'
    BY <1>3, InsertsOwn
  <2>2. PICK r : /\ NewRelation(i, r) /\ r.type # "bundleRelation"
                 /\ import[i].at = "anchor" => FromAnchor(i, r, import[i].pos)
                 /\ import[i].at = "relate" => FromLink(i, r, import[i].pos)
    BY <1>3, InsertsOwn
  <2>3. /\ import[i].at = "anchor" => import[i].pos \in DOMAIN import[i].anchors
        /\ import[i].at = "relate" =>
             import[i].pos \in DOMAIN import[i].doc.relations
    BY HandIsLink DEF CompleteInv, StoryInv, DoneInv, HandInv
  <2>4. FitObjects(i)
    BY <2>2 DEF NewRelation, FitObjects, By
  <2>5. FitRelations(i)
    BY <1>3, <2>2, <2>3 DEF NewRelation, FitRelations, Own
  <2> QED
    BY <2>1, <2>2, <2>4, <2>5 DEF NewRelation, Grown
<1>4. CASE Insert(i) /\ import[i].at \in {"link", "linkAnchor"}
  <2>1. TablesInv'
    BY <1>4, InsertsMember
  <2>2. PICK r : NewRelation(i, r) /\ r.type = "bundleRelation"
    BY <1>4, InsertsMember
  <2>3. FitObjects(i) /\ FitRelations(i)
    BY <2>2 DEF NewRelation, FitObjects, FitRelations, By, Own
  <2> QED
    BY <2>1, <2>2, <2>3 DEF NewRelation, Grown
<1>5. Insert(i) => import[i].at \in {"bundle", "objects", "anchor", "relate",
                                     "link", "linkAnchor"}
  BY DEF Insert, At
<1> QED
  BY <1>1, <1>2, <1>3, <1>4, <1>5

LEMMA StepStory ==
  ASSUME CompleteInv, Inv', NEW i \in Imports, Insert(i) \/ UNCHANGED tables,
         import'[i].doc = import[i].doc, import'[i].anchors = import[i].anchors,
         import'[i].source \in ObjectIds \cup {import[i].source, None},
         import'[i].dest \in ObjectIds \cup {import[i].dest, None},
         import'[i].relation \in RelationIds' \cup {import[i].relation, None},
         import'[i].repeats = import[i].repeats,
         NamesInv(i)' \/ import'[i].table = import[i].table,
         DoneInv(i)'
  PROVE  OwnStory(i)
<1>1. /\ TablesInv' /\ Grown /\ FitObjects(i) /\ FitRelations(i)
      /\ \A o \in objects' \ objects : o.maker = i
  BY InsertFits
<1>2. AnchorsInv(i)' /\ RowsOf(i)'
  BY <1>1, RowsStay
<1>3. NamesInv(i)'
  BY <1>1, NamesStay
<1>4. ObjectIds \subseteq ObjectIds' /\ RelationIds \subseteq RelationIds'
  BY <1>1, FactsStay
<1>5. ImportOK(i)'
  BY <1>4, TypesStay DEF CompleteInv, StoryInv, ImportOK
<1> QED
  BY <1>1, <1>2, <1>3, <1>5 DEF OwnStory, StoryInv

LEMMA OthersStory ==
  ASSUME CompleteInv, Inv', NEW i \in Imports, import'[i] = import[i], Grown,
         \A o \in objects' \ objects : o.maker # i,
         \A r \in relations' \ relations : r.maker # i
  PROVE  StoryInv(i)'
<1>1. By(i)' = By(i) /\ Own(i)' = Own(i)
  BY DEF Grown, By, Own
<1>2. Joined(i)' = Joined(i)
  BY JoinedByOthers DEF Grown
<1>3. FitObjects(i) /\ FitRelations(i)
  BY <1>1 DEF FitObjects, FitRelations
<1>4. import'[i].repeats \in 0..MaxRepeats
  BY DEF CompleteInv, StoryInv, ImportOK
<1> QED
  BY <1>1, <1>2, <1>3, <1>4, StoryStays DEF Keeps

LEMMA BeginStory ==
  ASSUME CompleteInv, Inv', NEW i \in Imports, BeginImport(i)
  PROVE  OwnStory(i)
<1>1. PICK doc \in Documents, extern \in BOOLEAN : \E anchors \in AnchorLists(doc) :
        import' = [import EXCEPT ![i].at = "bundle", ![i].doc = doc,
                     ![i].extern = extern, ![i].anchors = anchors]
  BY DEF BeginImport
<1>2. PICK anchors \in AnchorLists(doc) :
        import' = [import EXCEPT ![i].at = "bundle", ![i].doc = doc,
                     ![i].extern = extern, ![i].anchors = anchors]
  BY <1>1
<1>3. /\ import[i].at = "idle" /\ import'[i].at = "bundle"
      /\ import'[i].doc = doc /\ import'[i].anchors = anchors
      /\ import'[i].table = import[i].table
      /\ import'[i].source = import[i].source /\ import'[i].dest = import[i].dest
      /\ import'[i].relation = import[i].relation
      /\ import'[i].repeats = import[i].repeats
  <2>1. /\ import = [j \in Imports |-> import[j]] /\ DOMAIN import[i] = Fields
        /\ import[i].at = "idle"
    BY DEF CompleteInv, Inv, CallsInv, BeginImport, At
  <2>2. import'[i] = [import[i] EXCEPT !.at = "bundle", !.doc = doc,
                                       !.extern = extern, !.anchors = anchors]
    BY <1>2, <2>1
  <2> QED
    BY <2>1, <2>2 DEF Fields
<1>4. /\ TablesInv' /\ objects' = objects /\ relations' = relations
  BY TablesRest DEF CompleteInv, BeginImport, tables
<1>5. By(i)' = {} /\ Own(i)' = {}
  <2>1. By(i) = {} /\ Own(i) = {}
    BY <1>3 DEF CompleteInv, StoryInv, DoneInv, StoredInv, Inv, LocalInv,
       PlaceInv, Own
  <2> QED
    BY <1>4, <2>1 DEF By, Own
<1>6. ObjectIds' = ObjectIds /\ RelationIds' = RelationIds
  BY <1>4 DEF ObjectIds, RelationIds
<1>7. ImportOK(i)'
  BY <1>3, <1>6, TypesStay DEF CompleteInv, StoryInv, ImportOK
<1>8. AnchorsInv(i)'
  <2>1. CASE anchors = <<>>
    BY <1>3, <2>1 DEF AnchorsInv
  <2>2. CASE anchors # <<>>
    <3>1. PICK o \in objects, n \in DOMAIN doc.objects :
            anchors = <<[id |-> o.id, key |-> doc.objects[n].key]>>
      BY <2>2 DEF AnchorLists
    <3>2. doc.objects \in Seq(Entry)
      BY ImportAssumption DEF Document
    <3>3. doc.objects[n].key \in Keys
      <4>1. doc.objects[n] \in Entry
        BY <3>1, <3>2
      <4> QED
        BY <4>1 DEF Entry
    <3>4. o.id \in Nat /\ o.id \in ObjectIds
      BY DEF CompleteInv, Inv, RowsInv, ObjectIds
    <3>5. [id |-> o.id, key |-> doc.objects[n].key] \in [id : Nat, key : Keys]
      BY <3>3, <3>4
    <3>6. anchors \in Seq([id : Nat, key : Keys])
      BY <3>1, <3>5
    <3>7. \A k \in DOMAIN anchors :
            anchors[k].id = o.id /\ anchors[k].key = doc.objects[n].key
      BY <3>1
    <3> QED
      BY <1>3, <1>5, <1>6, <3>1, <3>4, <3>6, <3>7 DEF AnchorsInv
  <2> QED
    BY <2>1, <2>2
<1>9. NamesInv(i)'
  BY <1>3, <1>4, NamesStay DEF Grown
<1>10. RowsOf(i)' /\ DoneInv(i)'
  BY <1>3, <1>5 DEF RowsOf, DoneInv, StoredInv, HandInv, LinkedInv, CountInv,
     InAnchors, InRelations
<1> QED
  BY <1>4, <1>7, <1>8, <1>9, <1>10 DEF OwnStory, StoryInv

LEMMA CreateBundleStory ==
  ASSUME CompleteInv, Inv', NEW i \in Imports, CreateBundle(i)
  PROVE  OwnStory(i)
<1>1. /\ import[i].at = "bundle" /\ Insert(i)
      /\ import' = [import EXCEPT ![i].at = "prefixes", ![i].bundle = nextObject]
  BY DEF CreateBundle, At
<1>2. /\ import'[i].at = "prefixes"
      /\ import'[i].doc = import[i].doc /\ import'[i].anchors = import[i].anchors
      /\ import'[i].table = import[i].table
      /\ import'[i].source = import[i].source /\ import'[i].dest = import[i].dest
      /\ import'[i].relation = import[i].relation
      /\ import'[i].repeats = import[i].repeats
  BY <1>1 DEF CompleteInv, Inv, CallsInv, Fields
<1>3. PICK o : NewObject(i, o) /\ IsBundle(o)
  BY <1>1, InsertsObject
<1>4. o \in By(i)'
  BY <1>3 DEF NewObject, By
<1>5. DoneInv(i)'
  BY <1>2, <1>3, <1>4 DEF DoneInv, StoredInv, IsBundle, HandInv, LinkedInv,
     CountInv, InAnchors, InRelations
<1> QED
  BY <1>1, <1>2, <1>5, StepStory

LEMMA ImportPrefixesStory ==
  ASSUME CompleteInv, Inv', NEW i \in Imports, ImportPrefixes(i)
  PROVE  OwnStory(i)
<1>1. /\ import[i].at = "prefixes" /\ UNCHANGED tables
      /\ import' = [import EXCEPT ![i].at = "objects", ![i].pos = 1]
  BY DEF ImportPrefixes, At
<1>2. /\ import'[i].at = "objects" /\ import'[i].pos = 1
      /\ import'[i].doc = import[i].doc /\ import'[i].anchors = import[i].anchors
      /\ import'[i].table = import[i].table
      /\ import'[i].source = import[i].source /\ import'[i].dest = import[i].dest
      /\ import'[i].relation = import[i].relation
      /\ import'[i].repeats = import[i].repeats
  BY <1>1 DEF CompleteInv, Inv, CallsInv, Fields
<1>3. By(i)' = By(i) /\ \E o \in By(i) : IsBundle(o)
  BY <1>1 DEF By, tables, CompleteInv, StoryInv, DoneInv, StoredInv
<1>4. \A n \in DOMAIN import[i].doc.objects : n \in Nat \ {0}
  <2>1. import[i].doc.objects \in Seq(Entry)
    BY DEF CompleteInv, Inv, CallsInv, Document
  <2> QED
    BY <2>1
<1>5. StoredInv(i)'
  BY <1>2, <1>3, <1>4 DEF StoredInv, IsBundle
<1>6. DoneInv(i)'
  BY <1>2, <1>5 DEF DoneInv, HandInv, LinkedInv, CountInv, InAnchors, InRelations
<1> QED
  BY <1>1, <1>2, <1>6, StepStory

LEMMA ImportObjectStory ==
  ASSUME CompleteInv, Inv', NEW i \in Imports, ImportObject(i)
  PROVE  OwnStory(i)
<1> DEFINE entries == import[i].doc.objects
           pos == import[i].pos
           table == import[i].table
<1>1. /\ import[i].at = "objects" /\ Insert(i)
      /\ import' = [import EXCEPT
           ![i].table = Emplace(@, Item(i, entries).key, nextObject),
           ![i].pos = @ + 1]
  BY DEF ImportObject, At
<1>2. /\ import'[i].at = "objects" /\ import'[i].pos = pos + 1
      /\ import'[i].doc = import[i].doc /\ import'[i].anchors = import[i].anchors
      /\ import'[i].source = import[i].source /\ import'[i].dest = import[i].dest
      /\ import'[i].relation = import[i].relation
      /\ import'[i].repeats = import[i].repeats
      /\ import'[i].table = Emplace(table, entries[pos].key, nextObject)
  BY <1>1 DEF CompleteInv, Inv, CallsInv, Fields, Item
<1>3. PICK o : NewObject(i, o) /\ pos \in DOMAIN entries /\ IsEntry(i, o, pos)
  BY <1>1, InsertsObject
<1>4. /\ Grown /\ o \in By(i)' /\ By(i) \subseteq By(i)'
      /\ o.id = nextObject /\ o \in objects' /\ o.name = Tokens[entries[pos].key]
  BY <1>3 DEF NewObject, By, Grown, IsEntry
<1>5. NamesInv(i)'
  <2>1. \A k \in DOMAIN table :
          \E p \in objects' : p.id = table[k] /\ p.name = Tokens[k]
    BY <1>4 DEF CompleteInv, StoryInv, NamesInv, Holds, Grown
  <2>2. \E p \in objects' : p.id = nextObject /\ p.name = Tokens[entries[pos].key]
    BY <1>4
  <2>3. DOMAIN import'[i].table = DOMAIN table \cup {entries[pos].key}
        /\ \A k \in DOMAIN table \cup {entries[pos].key} :
             import'[i].table[k] = IF k \in DOMAIN table THEN table[k]
                                   ELSE nextObject
    BY <1>2 DEF Emplace
  <2> QED
    BY <2>1, <2>2, <2>3 DEF NamesInv, Holds
<1>6. StoredInv(i)'
  <2>1. \E p \in By(i)' : IsBundle(p)
    BY <1>1, <1>4 DEF CompleteInv, StoryInv, DoneInv, StoredInv
  <2>2. ASSUME NEW n \in DOMAIN entries, n < pos + 1
        PROVE  \E p \in By(i)' : IsEntry(i, p, n)
    <3>1. n \in Nat /\ pos \in Nat
      <4>1. entries \in Seq(Entry) /\ pos \in Nat
        BY DEF CompleteInv, Inv, CallsInv, Document
      <4> QED
        BY <4>1
    <3>2. CASE n = pos
      BY <1>3, <1>4, <3>2
    <3>3. CASE n < pos
      BY <1>1, <1>4, <3>3 DEF CompleteInv, StoryInv, DoneInv, StoredInv
    <3> QED
      BY <2>2, <3>1, <3>2, <3>3
  <2> QED
    BY <1>2, <2>1, <2>2 DEF StoredInv, IsBundle, IsEntry
<1>7. DoneInv(i)'
  BY <1>2, <1>6 DEF DoneInv, HandInv, LinkedInv, CountInv, InAnchors, InRelations
<1> QED
  BY <1>1, <1>2, <1>5, <1>7, StepStory

LEMMA Lengths ==
  ASSUME CompleteInv, NEW i \in Imports
  PROVE  /\ import[i].pos \in Nat \ {0}
         /\ Len(import[i].anchors) \in Nat
         /\ DOMAIN import[i].anchors = 1..Len(import[i].anchors)
         /\ Len(import[i].doc.objects) \in Nat
         /\ DOMAIN import[i].doc.objects = 1..Len(import[i].doc.objects)
         /\ Len(import[i].doc.relations) \in Nat
         /\ DOMAIN import[i].doc.relations = 1..Len(import[i].doc.relations)
<1>1. /\ import[i].doc \in Document /\ import[i].pos \in Nat \ {0}
      /\ import[i].anchors \in Seq([id : Nat, key : Keys])
  BY DEF CompleteInv, Inv, CallsInv, StoryInv, AnchorsInv
<1>2. import[i].doc.objects \in Seq(Entry) /\ import[i].doc.relations \in Seq(Link)
  BY <1>1 DEF Document
<1>3. ASSUME NEW S, NEW s \in Seq(S)
      PROVE  Len(s) \in Nat /\ DOMAIN s = 1..Len(s)
  OBVIOUS
<1>4. /\ Len(import[i].anchors) \in Nat
      /\ DOMAIN import[i].anchors = 1..Len(import[i].anchors)
  BY <1>1, <1>3
<1>5. /\ Len(import[i].doc.objects) \in Nat
      /\ DOMAIN import[i].doc.objects = 1..Len(import[i].doc.objects)
  BY <1>2, <1>3
<1>6. /\ Len(import[i].doc.relations) \in Nat
      /\ DOMAIN import[i].doc.relations = 1..Len(import[i].doc.relations)
  BY <1>2, <1>3
<1> QED
  BY <1>1, <1>4, <1>5, <1>6

LEMMA EndObjectsStory ==
  ASSUME CompleteInv, Inv', NEW i \in Imports, EndObjects(i)
  PROVE  OwnStory(i)
<1>1. /\ import[i].at = "objects" /\ UNCHANGED tables
      /\ ~More(i, import[i].doc.objects)
      /\ import' = [import EXCEPT ![i].at = "anchors", ![i].pos = 1]
  BY DEF EndObjects, At
<1>2. /\ import'[i].at = "anchors" /\ import'[i].pos = 1
      /\ import'[i].doc = import[i].doc /\ import'[i].anchors = import[i].anchors
      /\ import'[i].table = import[i].table
      /\ import'[i].source = import[i].source /\ import'[i].dest = import[i].dest
      /\ import'[i].relation = import[i].relation
      /\ import'[i].repeats = import[i].repeats
  BY <1>1 DEF CompleteInv, Inv, CallsInv, Fields
<1>3. By(i)' = By(i) /\ Own(i)' = Own(i)
  BY <1>1 DEF By, Own, tables
<1>4. \A n \in DOMAIN import[i].doc.objects : n < import[i].pos
  BY <1>1, Lengths DEF More
<1>5. StoredInv(i)
  BY DEF CompleteInv, StoryInv, DoneInv
<1>6. StoredInv(i)'
  <2>1. /\ \E o \in By(i) : IsBundle(o)
        /\ \A n \in DOMAIN import[i].doc.objects : \E o \in By(i) : IsEntry(i, o, n)
    BY <1>1, <1>4, <1>5 DEF StoredInv
  <2> QED
    BY <1>2, <1>3, <2>1 DEF StoredInv, IsBundle, IsEntry
<1>7. Joined(i)' = {}
  <2>1. Own(i) = {}
    BY <1>1 DEF CompleteInv, Inv, LocalInv, PlaceInv, Own
  <2> QED
    BY <1>3, <2>1 DEF Joined
<1>8. CountInv(i)'
  <2>1. Count({}, 0, 0)
    BY FS_EmptySet DEF Count
  <2> QED
    BY <1>2, <1>7, <2>1, Lengths DEF CountInv, InAnchors, InRelations, Count
<1>9. DoneInv(i)'
  BY <1>2, <1>6, <1>8 DEF DoneInv, HandInv, LinkedInv, InRelations
<1> QED
  BY <1>1, <1>2, <1>9, StepStory

\* All objects of the document are in the table by then.
After == InAnchors \cup InRelations \cup {"ok"}

LEMMA StoredAfter ==
  ASSUME CompleteInv, NEW i \in Imports, Grown, import'[i].doc = import[i].doc,
         import[i].at \in After, import'[i].at \in After
  PROVE  StoredInv(i)'
<1>1. /\ \E o \in By(i) : IsBundle(o)
      /\ \A n \in DOMAIN import[i].doc.objects : \E o \in By(i) : IsEntry(i, o, n)
  BY DEF CompleteInv, StoryInv, DoneInv, StoredInv, After, InAnchors, InRelations
<1>2. By(i) \subseteq By(i)'
  BY DEF By, Grown
<1> QED
  BY <1>1, <1>2 DEF StoredInv, IsBundle, IsEntry, After, InAnchors, InRelations

LEMMA CountMore ==
  ASSUME NEW S, NEW a \in Nat, NEW b \in Nat, Count(S, a, b), NEW x, x \notin S
  PROVE  Count(S \cup {x}, a + 1, b + 1)
<1>1. IsFiniteSet(S) /\ Cardinality(S) \in Nat /\ Cardinality(S) \in a..b
  BY FS_CardinalityType DEF Count
<1>2. IsFiniteSet(S \cup {x}) /\ Cardinality(S \cup {x}) = Cardinality(S) + 1
  BY <1>1, FS_AddElement
<1> QED
  BY <1>1, <1>2 DEF Count

\* Any object of the anchor's name that the lookup finds is as new as one of
\* the import's.
LEMMA LookupLatest ==
  ASSUME CompleteInv, NEW i \in Imports, import[i].at \in After,
         NEW k \in DOMAIN import[i].anchors,
         NEW id \in LookupObject(Tokens[import[i].anchors[k].key], AnyType)
  PROVE  Latest(i, id, Tokens[import[i].anchors[k].key])
<1> DEFINE name == Tokens[import[i].anchors[k].key]
           rows == {o \in objects : o.name = name /\ AnyType \in {o.type, AnyType}}
<1>1. PICK p \in rows : p.id = id /\ \A q \in rows : q.id <= p.id
  BY DEF LookupObject
<1>2. PICK n \in DOMAIN import[i].doc.objects :
        import[i].doc.objects[n].key = import[i].anchors[k].key
  BY DEF CompleteInv, StoryInv, AnchorsInv
<1>3. PICK o \in By(i) : IsEntry(i, o, n)
  BY DEF CompleteInv, StoryInv, DoneInv, StoredInv, After, InAnchors, InRelations
<1>4. o \in rows
  BY <1>2, <1>3 DEF IsEntry, By
<1> QED
  BY <1>1, <1>3, <1>4 DEF Latest, Holds, By

LEMMA LookupAnchorStory ==
  ASSUME CompleteInv, Inv', NEW i \in Imports, LookupAnchor(i)
  PROVE  OwnStory(i)
<1> DEFINE name == Tokens[Item(i, import[i].anchors).key]
<1>1. /\ import[i].at = "anchors" /\ UNCHANGED tables
      /\ More(i, import[i].anchors)
  BY DEF LookupAnchor, At
<1>2. PICK id \in LookupObject(name, AnyType) :
        import' = [import EXCEPT ![i].at = "anchor", ![i].source = id]
  BY DEF LookupAnchor
<1>3. /\ import'[i].at = "anchor" /\ import'[i].pos = import[i].pos
      /\ import'[i].doc = import[i].doc /\ import'[i].anchors = import[i].anchors
      /\ import'[i].table = import[i].table
      /\ import'[i].bundle = import[i].bundle
      /\ import'[i].source = id /\ import'[i].dest = import[i].dest
      /\ import'[i].relation = import[i].relation
      /\ import'[i].repeats = import[i].repeats
  BY <1>2 DEF CompleteInv, Inv, CallsInv, Fields
<1>4. import[i].pos \in DOMAIN import[i].anchors
  BY <1>1, Lengths DEF More
<1>5. Latest(i, id, name)
  BY <1>1, <1>2, <1>4, LookupLatest DEF Item, After, InAnchors
<1>6. Grown /\ relations' = relations
  BY <1>1 DEF Grown, tables
<1>7. HandInv(i)'
  <2>1. \A n : Latest(i, id, n) => Latest(i, id, n)'
    BY <1>3, <1>6, FactsStay
  <2> QED
    BY <1>3, <1>4, <1>5, <2>1 DEF HandInv, Item
<1>8. StoredInv(i)'
  BY <1>1, <1>3, <1>6, StoredAfter DEF After, InAnchors
<1>9. CountInv(i)'
  BY <1>1, <1>3, <1>6, JoinedRests DEF CompleteInv, StoryInv, DoneInv, CountInv,
     Count, InAnchors, InRelations
<1>10. DoneInv(i)'
  BY <1>3, <1>7, <1>8, <1>9 DEF DoneInv, LinkedInv, InRelations
<1>11. id \in ObjectIds
  BY <1>5, HeldIds DEF Latest
<1> QED
  BY <1>1, <1>3, <1>10, <1>11, StepStory

LEMMA SkipAnchorStory ==
  ASSUME CompleteInv, Inv', NEW i \in Imports, SkipAnchor(i)
  PROVE  OwnStory(i)
<1>1. /\ import[i].at = "anchors" /\ UNCHANGED tables
      /\ More(i, import[i].anchors)
      /\ import' = [import EXCEPT ![i].pos = @ + 1]
  BY DEF SkipAnchor, At
<1>2. /\ import'[i].at = "anchors" /\ import'[i].pos = import[i].pos + 1
      /\ import'[i].doc = import[i].doc /\ import'[i].anchors = import[i].anchors
      /\ import'[i].table = import[i].table
      /\ import'[i].bundle = import[i].bundle
      /\ import'[i].source = import[i].source /\ import'[i].dest = import[i].dest
      /\ import'[i].relation = import[i].relation
      /\ import'[i].repeats = import[i].repeats
  BY <1>1 DEF CompleteInv, Inv, CallsInv, Fields
<1>3. Grown /\ relations' = relations
  BY <1>1 DEF Grown, tables
<1>4. StoredInv(i)'
  BY <1>1, <1>2, <1>3, StoredAfter DEF After, InAnchors
<1>5. CountInv(i)'
  <2>1. Joined(i)' = Joined(i)
    BY <1>2, <1>3, JoinedRests
  <2>2. /\ Count(Joined(i), 0, import[i].pos - 1)
        /\ import[i].pos <= Len(import[i].anchors)
    BY <1>1 DEF CompleteInv, StoryInv, DoneInv, CountInv, InAnchors, More
  <2>3. Count(Joined(i), 0, import[i].pos)
    BY <2>2, Lengths DEF Count
  <2> QED
    BY <1>2, <2>1, <2>2, <2>3, Lengths DEF CountInv, InAnchors, InRelations
<1>6. DoneInv(i)'
  BY <1>2, <1>4, <1>5 DEF DoneInv, HandInv, LinkedInv, InRelations
<1> QED
  BY <1>1, <1>2, <1>6, StepStory

LEMMA RelateAnchorStory ==
  ASSUME CompleteInv, Inv', NEW i \in Imports, RelateAnchor(i)
  PROVE  OwnStory(i)
<1>1. /\ import[i].at = "anchor" /\ Insert(i)
      /\ import' = [import EXCEPT ![i].at = "linkAnchor",
                                  ![i].relation = nextRelation]
  BY DEF RelateAnchor, At
<1>2. /\ import'[i].at = "linkAnchor" /\ import'[i].pos = import[i].pos
      /\ import'[i].doc = import[i].doc /\ import'[i].anchors = import[i].anchors
      /\ import'[i].table = import[i].table
      /\ import'[i].bundle = import[i].bundle
      /\ import'[i].source = import[i].source /\ import'[i].dest = import[i].dest
      /\ import'[i].relation = nextRelation
      /\ import'[i].repeats = import[i].repeats
  BY <1>1 DEF CompleteInv, Inv, CallsInv, Fields
<1>3. PICK r : NewRelation(i, r) /\ r.type # "bundleRelation"
  BY <1>1, InsertsOwn
<1>4. Grown /\ nextRelation \in RelationIds'
  BY <1>3 DEF NewRelation, Grown, RelationIds
<1>5. StoredInv(i)'
  BY <1>1, <1>2, <1>4, StoredAfter DEF After, InAnchors
<1>6. CountInv(i)'
  <2>1. import[i].relation = None
    BY <1>1 DEF CompleteInv, Inv, LocalInv, MemberInv
  <2>2. Joined(i)' = Joined(i)
    BY <1>2, <1>3, <2>1, JoinedAfterOwn
  <2> QED
    BY <1>1, <1>2, <2>2 DEF CompleteInv, StoryInv, DoneInv, CountInv, Count,
       InAnchors, InRelations
<1>7. HandInv(i)'
  BY <1>1, <1>2 DEF CompleteInv, StoryInv, DoneInv, HandInv
<1>8. DoneInv(i)'
  BY <1>2, <1>5, <1>6, <1>7 DEF DoneInv, LinkedInv, InRelations
<1> QED
  BY <1>1, <1>2, <1>4, <1>8, StepStory

LEMMA LinkAnchorStory ==
  ASSUME CompleteInv, Inv', NEW i \in Imports, LinkAnchor(i)
  PROVE  OwnStory(i)
<1>1. /\ import[i].at = "linkAnchor" /\ Insert(i)
      /\ import' = [import EXCEPT ![i].at = "anchors", ![i].pos = @ + 1,
                                  ![i].source = None, ![i].relation = None]
  BY DEF LinkAnchor, At
<1>2. /\ import'[i].at = "anchors" /\ import'[i].pos = import[i].pos + 1
      /\ import'[i].doc = import[i].doc /\ import'[i].anchors = import[i].anchors
      /\ import'[i].table = import[i].table
      /\ import'[i].bundle = import[i].bundle
      /\ import'[i].source = None /\ import'[i].dest = import[i].dest
      /\ import'[i].relation = None
      /\ import'[i].repeats = import[i].repeats
  BY <1>1 DEF CompleteInv, Inv, CallsInv, Fields
<1>3. PICK m : /\ NewRelation(i, m) /\ m.type = "bundleRelation"
               /\ m.from = import[i].bundle /\ m.to = import[i].relation
  BY <1>1, InsertsMember
<1>4. Grown
  BY <1>3 DEF NewRelation, Grown
<1>5. StoredInv(i)'
  BY <1>1, <1>2, <1>4, StoredAfter DEF After, InAnchors
<1>6. CountInv(i)'
  <2>1. PICK r \in Own(i) : r.id = import[i].relation
    BY <1>1 DEF CompleteInv, Inv, LocalInv, MemberInv
  <2>2. Joined(i)' = Joined(i) \cup {r} /\ r \notin Joined(i)
    BY <1>2, <1>3, <2>1, JoinedAfterMember
  <2>3. /\ Count(Joined(i), 0, import[i].pos - 1)
        /\ import[i].pos \in DOMAIN import[i].anchors
    BY <1>1 DEF CompleteInv, StoryInv, DoneInv, CountInv, InAnchors, HandInv
  <2>4. Count(Joined(i)', 0 + 1, (import[i].pos - 1) + 1)
    <3>1. import[i].pos - 1 \in Nat
      BY Lengths
    <3>2. Count(Joined(i) \cup {r}, 0 + 1, (import[i].pos - 1) + 1)
      BY <2>2, <2>3, <3>1, CountMore
    <3> QED
      BY <2>2, <3>2
  <2>5. Count(Joined(i)', 0, (import[i].pos + 1) - 1)
    BY <2>4, Lengths DEF Count
  <2> QED
    BY <1>2, <2>3, <2>5, Lengths DEF CountInv, InAnchors, InRelations
<1>7. DoneInv(i)'
  BY <1>2, <1>5, <1>6 DEF DoneInv, HandInv, LinkedInv, InRelations
<1> QED
  BY <1>1, <1>2, <1>7, StepStory

LEMMA EndAnchorsStory ==
  ASSUME CompleteInv, Inv', NEW i \in Imports, EndAnchors(i)
  PROVE  OwnStory(i)
<1>1. /\ import[i].at = "anchors" /\ UNCHANGED tables
      /\ ~More(i, import[i].anchors)
      /\ import' = [import EXCEPT ![i].at = "relations", ![i].pos = 1]
  BY DEF EndAnchors, At
<1>2. /\ import'[i].at = "relations" /\ import'[i].pos = 1
      /\ import'[i].doc = import[i].doc /\ import'[i].anchors = import[i].anchors
      /\ import'[i].table = import[i].table
      /\ import'[i].bundle = import[i].bundle
      /\ import'[i].source = import[i].source /\ import'[i].dest = import[i].dest
      /\ import'[i].relation = import[i].relation
      /\ import'[i].repeats = import[i].repeats
  BY <1>1 DEF CompleteInv, Inv, CallsInv, Fields
<1>3. Grown /\ relations' = relations
  BY <1>1 DEF Grown, tables
<1>4. StoredInv(i)'
  BY <1>1, <1>2, <1>3, StoredAfter DEF After, InAnchors, InRelations
<1>5. CountInv(i)'
  <2>1. Joined(i)' = Joined(i)
    BY <1>2, <1>3, JoinedRests
  <2>2. /\ Count(Joined(i), 0, import[i].pos - 1)
        /\ import[i].pos = Len(import[i].anchors) + 1
    <3>1. /\ import[i].pos <= Len(import[i].anchors) + 1
          /\ Count(Joined(i), 0, import[i].pos - 1)
      BY <1>1 DEF CompleteInv, StoryInv, DoneInv, CountInv, InAnchors
    <3>2. ~(import[i].pos <= Len(import[i].anchors))
      BY <1>1 DEF More
    <3>3. import[i].pos \in Nat /\ Len(import[i].anchors) \in Nat
      BY Lengths
    <3> QED
      BY <3>1, <3>2, <3>3
  <2>3. Count(Joined(i), 0, 0 + Len(import[i].anchors))
    BY <2>2, Lengths DEF Count
  <2> QED
    BY <1>2, <2>1, <2>3, Lengths DEF CountInv, InAnchors, InRelations
<1>6. LinkedInv(i)'
  BY <1>2, Lengths DEF LinkedInv, InRelations
<1>7. DoneInv(i)'
  BY <1>2, <1>4, <1>5, <1>6 DEF DoneInv, HandInv
<1> QED
  BY <1>1, <1>2, <1>7, StepStory

\* Both in lookup_tbl and in the database, an end is found by its name.
LEMMA ResolvedByName ==
  ASSUME CompleteInv, NEW i \in Imports, NEW key \in Keys \cup {NoKey}, NEW t,
         NEW id \in Resolve(i, key, t)
  PROVE  key \in Keys /\ Holds(id, Tokens[key])
<1>1. CASE key \in DOMAIN import[i].table
  <2>1. id = import[i].table[key]
    BY <1>1 DEF Resolve
  <2>2. key \in Keys /\ Holds(import[i].table[key], Tokens[key])
    BY <1>1 DEF CompleteInv, Inv, LocalInv, TableInv, StoryInv, NamesInv
  <2> QED
    BY <2>1, <2>2
<1>2. CASE key \notin DOMAIN import[i].table
  <2>1. key # NoKey /\ id \in LookupObject(Tokens[key], t)
    BY <1>2 DEF Resolve
  <2> QED
    BY <2>1 DEF LookupObject, Holds
<1> QED
  BY <1>1, <1>2

\* The relations before the one at hand stay members.
LEMMA LinkedBefore ==
  ASSUME CompleteInv, NEW i \in Imports, Grown,
         import'[i].doc = import[i].doc, import'[i].anchors = import[i].anchors,
         import'[i].bundle = import[i].bundle, import'[i].pos = import[i].pos,
         import[i].at \in InRelations, import'[i].at \in InRelations
  PROVE  LinkedInv(i)'
<1>1. \A n \in DOMAIN import[i].doc.relations : n < import[i].pos => Linked(i, n)
  BY DEF CompleteInv, StoryInv, DoneInv, LinkedInv
<1>2. \A n : Linked(i, n) => Linked(i, n)'
  BY LinkedStays
<1> QED
  BY <1>1, <1>2 DEF LinkedInv, InRelations

LEMMA FindSourceStory ==
  ASSUME CompleteInv, Inv', NEW i \in Imports, FindSource(i)
  PROVE  OwnStory(i)
<1>1. /\ import[i].at = "relations" /\ UNCHANGED tables
      /\ More(i, import[i].doc.relations)
  BY DEF FindSource, At
<1>2. PICK id \in Resolve(i, Hand(i).source, EndTypes(Hand(i).type)[1]) :
        import' = [import EXCEPT ![i].at = "dest", ![i].source = id]
  BY DEF FindSource, Hand
<1>3. /\ import'[i].at = "dest" /\ import'[i].pos = import[i].pos
      /\ import'[i].doc = import[i].doc /\ import'[i].anchors = import[i].anchors
      /\ import'[i].table = import[i].table
      /\ import'[i].bundle = import[i].bundle
      /\ import'[i].source = id /\ import'[i].dest = import[i].dest
      /\ import'[i].relation = import[i].relation
      /\ import'[i].repeats = import[i].repeats
  BY <1>2 DEF CompleteInv, Inv, CallsInv, Fields
<1>4. Hand(i) \in Link
  BY <1>1, HandIsLink DEF CompleteInv
<1>5. Holds(id, Tokens[Hand(i).source])
  BY <1>2, <1>4, ResolvedByName DEF Link
<1>6. Grown /\ relations' = relations
  BY <1>1 DEF Grown, tables
<1>7. HandInv(i)'
  <2>1. \A n : Holds(id, n) => Holds(id, n)'
    BY <1>3, <1>6, FactsStay
  <2> QED
    BY <1>3, <1>5, <2>1 DEF HandInv, Hand, Item
<1>8. StoredInv(i)' /\ LinkedInv(i)'
  BY <1>1, <1>3, <1>6, StoredAfter, LinkedBefore DEF After, InRelations
<1>9. CountInv(i)'
  BY <1>1, <1>3, <1>6, JoinedRests DEF CompleteInv, StoryInv, DoneInv, CountInv,
     Count, InAnchors, InRelations
<1>10. DoneInv(i)'
  BY <1>7, <1>8, <1>9 DEF DoneInv
<1>11. id \in ObjectIds
  BY <1>5, HeldIds
<1> QED
  BY <1>1, <1>3, <1>10, <1>11, StepStory

LEMMA FindDestStory ==
  ASSUME CompleteInv, Inv', NEW i \in Imports, FindDest(i)
  PROVE  OwnStory(i)
<1>1. import[i].at = "dest" /\ UNCHANGED tables
  BY DEF FindDest, At
<1>2. PICK id \in Resolve(i, Hand(i).dest, EndTypes(Hand(i).type)[2]) :
        import' = [import EXCEPT ![i].at = "relate", ![i].dest = id]
  BY DEF FindDest, Hand
<1>3. /\ import'[i].at = "relate" /\ import'[i].pos = import[i].pos
      /\ import'[i].doc = import[i].doc /\ import'[i].anchors = import[i].anchors
      /\ import'[i].table = import[i].table
      /\ import'[i].bundle = import[i].bundle
      /\ import'[i].source = import[i].source /\ import'[i].dest = id
      /\ import'[i].relation = import[i].relation
      /\ import'[i].repeats = import[i].repeats
  BY <1>2 DEF CompleteInv, Inv, CallsInv, Fields
<1>4. Hand(i) \in Link
  BY <1>1, HandIsLink DEF CompleteInv
<1>5. Hand(i).dest \in Keys /\ Holds(id, Tokens[Hand(i).dest])
  BY <1>2, <1>4, ResolvedByName DEF Link
<1>6. Grown /\ relations' = relations
  BY <1>1 DEF Grown, tables
<1>7. HandInv(i)'
  <2>1. \A m, n : Holds(m, n) => Holds(m, n)'
    BY <1>3, <1>6, FactsStay
  <2>2. Holds(import[i].source, Tokens[Hand(i).source])
    BY <1>1 DEF CompleteInv, StoryInv, DoneInv, HandInv
  <2> QED
    BY <1>3, <1>5, <2>1, <2>2 DEF HandInv, Hand, Item
<1>8. StoredInv(i)' /\ LinkedInv(i)'
  BY <1>1, <1>3, <1>6, StoredAfter, LinkedBefore DEF After, InRelations
<1>9. CountInv(i)'
  BY <1>1, <1>3, <1>6, JoinedRests DEF CompleteInv, StoryInv, DoneInv, CountInv,
     Count, InAnchors, InRelations
<1>10. DoneInv(i)'
  BY <1>7, <1>8, <1>9 DEF DoneInv
<1>11. id \in ObjectIds
  BY <1>5, HeldIds
<1> QED
  BY <1>1, <1>3, <1>10, <1>11, StepStory

LEMMA RelateStory ==
  ASSUME CompleteInv, Inv', NEW i \in Imports, Relate(i)
  PROVE  OwnStory(i)
<1>1. /\ import[i].at = "relate" /\ Insert(i)
      /\ import' = [import EXCEPT ![i].at = "link", ![i].relation = nextRelation]
  BY DEF Relate, At
<1>2. /\ import'[i].at = "link" /\ import'[i].pos = import[i].pos
      /\ import'[i].doc = import[i].doc /\ import'[i].anchors = import[i].anchors
      /\ import'[i].table = import[i].table
      /\ import'[i].bundle = import[i].bundle
      /\ import'[i].source = import[i].source /\ import'[i].dest = import[i].dest
      /\ import'[i].relation = nextRelation
      /\ import'[i].repeats = import[i].repeats
  BY <1>1 DEF CompleteInv, Inv, CallsInv, Fields
<1>3. PICK r : /\ NewRelation(i, r) /\ r.type # "bundleRelation"
               /\ FromLink(i, r, import[i].pos)
  BY <1>1, InsertsOwn
<1>4. /\ Grown /\ nextRelation \in RelationIds'
      /\ r \in Own(i)' /\ r.id = nextRelation
  BY <1>3 DEF NewRelation, Grown, RelationIds, Own
<1>5. StoredInv(i)' /\ LinkedInv(i)'
  BY <1>1, <1>2, <1>4, StoredAfter, LinkedBefore DEF After, InRelations
<1>6. CountInv(i)'
  <2>1. import[i].relation = None
    BY <1>1 DEF CompleteInv, Inv, LocalInv, MemberInv
  <2>2. Joined(i)' = Joined(i)
    BY <1>2, <1>3, <2>1, JoinedAfterOwn
  <2> QED
    BY <1>1, <1>2, <2>2 DEF CompleteInv, StoryInv, DoneInv, CountInv, Count,
       InAnchors, InRelations
<1>7. HandInv(i)'
  <2>1. import[i].pos \in DOMAIN import[i].doc.relations
    BY <1>1, HandIsLink DEF CompleteInv
  <2>2. \A n : FromLink(i, r, n) => FromLink(i, r, n)'
    BY <1>2, <1>4, FactsStay
  <2> QED
    BY <1>2, <1>3, <1>4, <2>1, <2>2 DEF HandInv
<1>8. DoneInv(i)'
  BY <1>5, <1>6, <1>7 DEF DoneInv
<1> QED
  BY <1>1, <1>2, <1>4, <1>8, StepStory

LEMMA LinkRelationStory ==
  ASSUME CompleteInv, Inv', NEW i \in Imports, LinkRelation(i)
  PROVE  OwnStory(i)
<1>1. /\ import[i].at = "link" /\ Insert(i)
      /\ import' = [import EXCEPT ![i].at = "relations", ![i].pos = @ + 1,
           ![i].source = None, ![i].dest = None, ![i].relation = None]
  BY DEF LinkRelation, At
<1>2. /\ import'[i].at = "relations" /\ import'[i].pos = import[i].pos + 1
      /\ import'[i].doc = import[i].doc /\ import'[i].anchors = import[i].anchors
      /\ import'[i].table = import[i].table
      /\ import'[i].bundle = import[i].bundle
      /\ import'[i].source = None /\ import'[i].dest = None
      /\ import'[i].relation = None
      /\ import'[i].repeats = import[i].repeats
  BY <1>1 DEF CompleteInv, Inv, CallsInv, Fields
<1>3. PICK m : /\ NewRelation(i, m) /\ m.type = "bundleRelation"
               /\ m.from = import[i].bundle /\ m.to = import[i].relation
  BY <1>1, InsertsMember
<1>4. Grown
  BY <1>3 DEF NewRelation, Grown
<1>5. StoredInv(i)'
  BY <1>1, <1>2, <1>4, StoredAfter DEF After, InRelations
<1>6. /\ import[i].pos \in DOMAIN import[i].doc.relations
      /\ \E r \in Own(i) :
           r.id = import[i].relation /\ FromLink(i, r, import[i].pos)
  BY <1>1 DEF CompleteInv, StoryInv, DoneInv, HandInv
<1>7. PICK r \in Own(i) :
        r.id = import[i].relation /\ FromLink(i, r, import[i].pos)
  BY <1>6
<1>8. Joined(i)' = Joined(i) \cup {r} /\ r \notin Joined(i) /\ Member(i, r)'
  BY <1>2, <1>3, <1>7, JoinedAfterMember
<1>9. CountInv(i)'
  <2> DEFINE pos == import[i].pos
             anchors == Len(import[i].anchors)
  <2>1. Count(Joined(i), pos - 1, pos - 1 + anchors)
    BY <1>1 DEF CompleteInv, StoryInv, DoneInv, CountInv, InRelations
  <2>2. pos - 1 \in Nat /\ pos - 1 + anchors \in Nat
    BY Lengths
  <2>3. Count(Joined(i) \cup {r}, (pos - 1) + 1, (pos - 1 + anchors) + 1)
    BY <1>8, <2>1, <2>2, CountMore
  <2>4. /\ (pos - 1) + 1 = (pos + 1) - 1
        /\ (pos - 1 + anchors) + 1 = (pos + 1) - 1 + anchors
    <3>1. pos \in Nat /\ anchors \in Nat
      BY Lengths
    <3> QED
      BY <3>1
  <2>5. Count(Joined(i) \cup {r}, (pos + 1) - 1, (pos + 1) - 1 + anchors)
    BY <2>3, <2>4
  <2>6. pos + 1 <= Len(import[i].doc.relations) + 1
    BY <1>6, Lengths
  <2> QED
    BY <1>2, <1>8, <2>5, <2>6 DEF CountInv, InAnchors, InRelations
<1>10. LinkedInv(i)'
  <2>1. ASSUME NEW n \in DOMAIN import[i].doc.relations, n < import[i].pos + 1
        PROVE  Linked(i, n)'
    <3>1. n \in Nat /\ import[i].pos \in Nat
      BY Lengths
    <3>2. CASE n = import[i].pos
      <4>1. r \in Own(i)' /\ FromLink(i, r, n)'
        BY <1>2, <1>4, <1>7, <3>2, FactsStay
      <4> QED
        BY <1>8, <4>1 DEF Linked
    <3>3. CASE n < import[i].pos
      <4>1. Linked(i, n)
        BY <1>1, <3>3 DEF CompleteInv, StoryInv, DoneInv, LinkedInv, InRelations
      <4> QED
        BY <1>2, <1>4, <4>1, LinkedStays
    <3> QED
      BY <2>1, <3>1, <3>2, <3>3
  <2> QED
    BY <1>2, <2>1 DEF LinkedInv
<1>11. DoneInv(i)'
  BY <1>2, <1>5, <1>9, <1>10 DEF DoneInv, HandInv
<1> QED
  BY <1>1, <1>2, <1>11, StepStory

LEMMA EndRelationsStory ==
  ASSUME CompleteInv, Inv', NEW i \in Imports, EndRelations(i)
  PROVE  OwnStory(i)
<1>1. /\ import[i].at = "relations" /\ UNCHANGED tables
      /\ ~More(i, import[i].doc.relations)
      /\ import' = [import EXCEPT ![i].at = "ok"]
  BY DEF EndRelations, At
<1>2. /\ import'[i].at = "ok"
      /\ import'[i].doc = import[i].doc /\ import'[i].anchors = import[i].anchors
      /\ import'[i].table = import[i].table
      /\ import'[i].bundle = import[i].bundle
      /\ import'[i].source = import[i].source /\ import'[i].dest = import[i].dest
      /\ import'[i].relation = import[i].relation
      /\ import'[i].repeats = import[i].repeats
  BY <1>1 DEF CompleteInv, Inv, CallsInv, Fields
<1>3. Grown /\ relations' = relations
  BY <1>1 DEF Grown, tables
<1>4. StoredInv(i)'
  BY <1>1, <1>2, <1>3, StoredAfter DEF After, InRelations
<1>5. import[i].pos - 1 = Len(import[i].doc.relations)
  <2>1. import[i].pos <= Len(import[i].doc.relations) + 1
    BY <1>1 DEF CompleteInv, StoryInv, DoneInv, CountInv, InRelations
  <2>2. ~(import[i].pos <= Len(import[i].doc.relations))
    BY <1>1 DEF More
  <2>3. import[i].pos \in Nat /\ Len(import[i].doc.relations) \in Nat
    BY Lengths
  <2> QED
    BY <2>1, <2>2, <2>3
<1>6. CountInv(i)'
  <2>1. Joined(i)' = Joined(i)
    BY <1>2, <1>3, JoinedRests
  <2>2. Count(Joined(i), import[i].pos - 1,
              import[i].pos - 1 + Len(import[i].anchors))
    BY <1>1 DEF CompleteInv, StoryInv, DoneInv, CountInv, InRelations
  <2> QED
    BY <1>2, <1>5, <2>1, <2>2 DEF CountInv, InAnchors, InRelations
<1>7. LinkedInv(i)'
  <2>1. ASSUME NEW n \in DOMAIN import[i].doc.relations PROVE Linked(i, n)
    <3>1. n < import[i].pos
      BY <1>5, Lengths
    <3> QED
      BY <1>1, <3>1 DEF CompleteInv, StoryInv, DoneInv, LinkedInv, InRelations
  <2>2. \A n : Linked(i, n) => Linked(i, n)'
    BY <1>2, <1>3, LinkedStays
  <2> QED
    BY <1>2, <2>1, <2>2 DEF LinkedInv, InRelations
<1>8. DoneInv(i)'
  BY <1>2, <1>4, <1>6, <1>7 DEF DoneInv, HandInv
<1> QED
  BY <1>1, <1>2, <1>8, StepStory

\* An INSERT that is executed again adds a row, and no member.
LEMMA RepeatStory ==
  ASSUME CompleteInv, Inv', NEW i \in Imports, RepeatInsert(i)
  PROVE  OwnStory(i)
<1>1. /\ Insert(i) /\ import[i].repeats < MaxRepeats
      /\ import' = [import EXCEPT ![i].repeats = @ + 1]
  BY DEF RepeatInsert
<1>2. /\ Keeps(i) /\ import'[i].at = import[i].at
      /\ import'[i].pos = import[i].pos /\ import'[i].source = import[i].source
      /\ import'[i].dest = import[i].dest
      /\ import'[i].relation = import[i].relation
      /\ import'[i].repeats = import[i].repeats + 1
  BY <1>1 DEF CompleteInv, Inv, CallsInv, Fields, Keeps
<1>3. import'[i].repeats \in 0..MaxRepeats
  BY <1>1, <1>2, ImportAssumption DEF CompleteInv, StoryInv, ImportOK
<1>4. /\ TablesInv' /\ Grown /\ FitObjects(i) /\ FitRelations(i)
      /\ \A o \in objects' \ objects : o.maker = i
  BY <1>1, InsertFits
<1>5. Joined(i)' = Joined(i)
  <2>1. CASE import[i].at \in {"bundle", "objects"}
    <3>1. relations' = relations
      BY <1>1, <2>1, InsertsObject DEF NewObject
    <3> QED
      BY <1>2, <3>1, JoinedRests DEF Keeps
  <2>2. CASE import[i].at \in {"anchor", "relate"}
    <3>1. PICK r : NewRelation(i, r) /\ r.type # "bundleRelation"
      BY <1>1, <2>2, InsertsOwn
    <3> QED
      BY <1>2, <3>1, JoinedAfterOwn DEF Keeps
  <2>3. CASE import[i].at \in {"link", "linkAnchor"}
    <3>1. PICK m : /\ NewRelation(i, m) /\ m.type = "bundleRelation"
                   /\ m.from = import[i].bundle /\ m.to = import[i].relation
      BY <1>1, <2>3, InsertsMember
    <3> QED
      BY <1>2, <3>1, JoinedAfterMember DEF Keeps
  <2> QED
    BY <1>1, <2>1, <2>2, <2>3 DEF Insert, At
<1>6. import[i].at # "idle"
  BY <1>1 DEF Insert, At
<1>7. StoryInv(i)'
  BY <1>2, <1>3, <1>4, <1>5, <1>6, StoryStays
<1> QED
  BY <1>4, <1>7 DEF OwnStory

LEMMA FailStory ==
  ASSUME CompleteInv, Inv', NEW i \in Imports, ImportFails(i)
  PROVE  OwnStory(i)
<1>1. /\ Insert(i) \/ UNCHANGED tables
      /\ import' = [import EXCEPT ![i].at = "error"]
  BY DEF ImportFails
<1>2. /\ import'[i].at = "error"
      /\ import'[i].doc = import[i].doc /\ import'[i].anchors = import[i].anchors
      /\ import'[i].table = import[i].table
      /\ import'[i].source = import[i].source /\ import'[i].dest = import[i].dest
      /\ import'[i].relation = import[i].relation
      /\ import'[i].repeats = import[i].repeats
  BY <1>1 DEF CompleteInv, Inv, CallsInv, Fields
<1>3. DoneInv(i)'
  BY <1>2 DEF DoneInv, StoredInv, HandInv, LinkedInv, CountInv, InAnchors,
     InRelations
<1> QED
  BY <1>1, <1>2, <1>3, StepStory

LEMMA ImportStory ==
  ASSUME CompleteInv, Inv', NEW i \in Imports, ImportStep(i)
  PROVE  OwnStory(i)
BY BeginStory, CreateBundleStory, ImportPrefixesStory, ImportObjectStory,
   EndObjectsStory, LookupAnchorStory, SkipAnchorStory, RelateAnchorStory,
   LinkAnchorStory, EndAnchorsStory, FindSourceStory, FindDestStory,
   RelateStory, LinkRelationStory, EndRelationsStory, RepeatStory,
   FailStory DEF ImportStep

-----------------------------------------------------------------------------
(* The inductive invariant of the imports.                                 *)

LEMMA ImportComplete ==
  ASSUME CompleteInv, NEW i \in Imports, ImportStep(i)
  PROVE  CompleteInv'
<1>1. Inv' /\ OwnStep(i)
  BY ImportInv, ImportOwn DEF CompleteInv
<1>2. OwnStory(i)
  BY <1>1, ImportStory
<1>3. ASSUME NEW j \in Imports \ {i}
      PROVE  StoryInv(j)'
  <2>1. import'[j] = import[j] /\ Grown
    BY <1>1 DEF OwnStep, Grown
  <2>2. /\ \A o \in objects' \ objects : o.maker # j
        /\ \A r \in relations' \ relations : r.maker # j
    BY <1>1, <1>2 DEF OwnStep, OwnStory
  <2> QED
    BY <1>1, <2>1, <2>2, OthersStory
<1> QED
  BY <1>1, <1>2, <1>3 DEF OwnStory, CompleteInv

LEMMA CreateComplete ==
  ASSUME CompleteInv, NEW c \in Creators, CreateObject(c)
  PROVE  CompleteInv'
<1>1. PICK nt \in Created : InsertObject(nt[1], nt[2], c)
  BY DEF CreateObject
<1>2. nt[1] \in Stored /\ nt[2] \in ObjectTypes /\ c \in Makers /\ c \notin Imports
  BY DocumentsAssumption
<1>3. TablesInv'
  BY <1>1, <1>2, ObjectsGrow DEF CompleteInv, Inv
<1>4. Inv' /\ import' = import
  BY <1>1, OtherInv DEF CompleteInv, CreateObject
<1>5. /\ Grown /\ relations' = relations
      /\ \A o \in objects' \ objects : o.maker = c
  BY <1>1 DEF InsertObject, Grown
<1>6. ASSUME NEW i \in Imports
      PROVE  StoryInv(i)'
  BY <1>2, <1>4, <1>5, OthersStory
<1> QED
  BY <1>3, <1>4, <1>6 DEF CompleteInv

LEMMA QuietComplete ==
  ASSUME CompleteInv, UNCHANGED tables, import' = import
  PROVE  CompleteInv'
<1>1. TablesInv' /\ Inv'
  BY TablesRest, OtherInv DEF CompleteInv
<1>2. Grown /\ objects' = objects /\ relations' = relations
  BY DEF Grown, tables
<1>3. \A i \in Imports : StoryInv(i)'
  BY <1>1, <1>2, OthersStory
<1> QED
  BY <1>1, <1>3 DEF CompleteInv

LEMMA InitComplete == Init => CompleteInv
<1> SUFFICES ASSUME Init PROVE CompleteInv
  OBVIOUS
<1>1. /\ objects = {} /\ relations = {} /\ nextObject = 1 /\ nextRelation = 1
      /\ import = [i \in Imports |->
           [at |-> "idle", doc |-> [objects |-> <<>>, relations |-> <<>>],
            extern |-> FALSE, anchors |-> <<>>, pos |-> 1, bundle |-> None,
            table |-> <<>>, source |-> None, dest |-> None, relation |-> None,
            repeats |-> 0]]
  BY DEF Init, TablesInit, ImportInit
<1>2. TablesInv
  <2>1. ObjectIds = {} /\ RelationIds = {}
    BY <1>1 DEF ObjectIds, RelationIds
  <2>2. IsFiniteSet({}) /\ Cardinality({}) = 0
    BY FS_EmptySet
  <2>3. 1..(1 - 1) = {}
    OBVIOUS
  <2> QED
    BY <1>1, <2>1, <2>2, <2>3 DEF TablesInv, TablesOK
<1>3. ASSUME NEW i \in Imports
      PROVE  StoryInv(i)
  <2>1. /\ import[i].at = "idle" /\ import[i].anchors = <<>> /\ import[i].pos = 1
        /\ import[i].bundle = None /\ import[i].source = None
        /\ import[i].dest = None /\ import[i].relation = None
        /\ import[i].repeats = 0 /\ import[i].table = <<>>
    BY <1>1
  <2>2. By(i) = {} /\ Own(i) = {} /\ DOMAIN import[i].table = {}
    BY <1>1, <2>1 DEF By, Own
  <2>3. ImportOK(i)
    BY <2>1, <2>2, ImportAssumption DEF ImportOK, Labels
  <2>4. AnchorsInv(i) /\ NamesInv(i) /\ RowsOf(i)
    BY <2>1, <2>2 DEF AnchorsInv, NamesInv, RowsOf
  <2>5. DoneInv(i)
    BY <2>1, <2>2 DEF DoneInv, StoredInv, HandInv, LinkedInv, CountInv,
       InAnchors, InRelations
  <2> QED
    BY <2>3, <2>4, <2>5 DEF StoryInv
<1> QED
  BY <1>2, <1>3, InitInv DEF CompleteInv

\* What an import has done is in the tables, for each position it has come to.
THEOREM CompleteInvariance == Spec => []CompleteInv
<1>1. CompleteInv /\ [Next]_vars => CompleteInv'
  <2> SUFFICES ASSUME CompleteInv, [Next]_vars PROVE CompleteInv'
    OBVIOUS
  <2>1. ASSUME NEW i \in Imports, Import(i)
        PROVE  CompleteInv'
    BY <2>1, ImportComplete DEF Import
  <2>2. ASSUME NEW e \in Exports, Export(e)
        PROVE  CompleteInv'
    BY <2>2, ExportQuiet, QuietComplete
  <2>3. ASSUME NEW c \in Creators, CreateObject(c)
        PROVE  CompleteInv'
    BY <2>3, CreateComplete
  <2>4. CASE UNCHANGED vars
    BY <2>4, QuietComplete DEF vars
  <2> QED
    BY <2>1, <2>2, <2>3, <2>4 DEF Next
<1> QED
  BY InitComplete, <1>1, PTL DEF Spec

-----------------------------------------------------------------------------
(* What this means for the anchors, and for an import that is done.        *)

LEMMA NameAt ==
  ASSUME RowsInv, NEW id, NEW name, Holds(id, name)
  PROVE  ObjectAt(id) \in objects /\ ObjectAt(id).id = id /\ ObjectAt(id).name = name
<1>1. PICK o \in objects : o.id = id /\ o.name = name
  BY DEF Holds
<1>2. ObjectAt(id) \in objects /\ ObjectAt(id).id = id
  BY <1>1 DEF ObjectAt
<1> QED
  BY <1>1, <1>2 DEF RowsInv

\* import_document_json: what the anchors are looked up to be is an object of
\* the document, or a later one of the same name, although the lookup by name
\* is in a database that others add to.
THEOREM AnchorsAreOlder == Spec => []AnchorsComeLater
<1>1. CompleteInv => AnchorsComeLater
  <2> SUFFICES ASSUME CompleteInv, NEW i \in Imports, NEW r \in Own(i),
                      r.type = "alternateOf",
                      \A k \in DOMAIN import[i].doc.relations :
                        import[i].doc.relations[k].type # "alternateOf"
               PROVE  /\ r.to \in {import[i].anchors[k].id :
                                     k \in DOMAIN import[i].anchors}
                      /\ r.to < r.from
                      /\ \E o \in objects : /\ o.maker = i /\ o.id <= r.from
                                            /\ o.name = ObjectAt(r.from).name
    BY DEF AnchorsComeLater
  <2>1. RowsOf(i) /\ AnchorsInv(i) /\ RowsInv
    BY DEF CompleteInv, StoryInv, Inv
  <2>2. PICK k \in DOMAIN import[i].anchors : FromAnchor(i, r, k)
    BY <2>1 DEF RowsOf, FromLink
  <2> DEFINE name == Tokens[import[i].anchors[k].key]
  <2>3. r.to = import[i].anchors[k].id /\ Latest(i, r.from, name)
    BY <2>2 DEF FromAnchor
  <2>4. PICK o \in By(i) : o.id <= r.from /\ o.name = name
    BY <2>3 DEF Latest
  <2>5. o \in objects /\ o.maker = i /\ o.id \in Nat
    BY <2>1 DEF By, RowsInv
  <2>6. r.to < o.id /\ r.to \in Nat
    BY <2>1, <2>3 DEF AnchorsInv, ObjectIds, RowsInv
  <2>7. ObjectAt(r.from).name = name /\ r.from \in Nat
    BY <2>1, <2>3, NameAt DEF Latest, RowsInv
  <2> QED
    BY <2>3, <2>4, <2>5, <2>6, <2>7
<1> QED
  BY CompleteInvariance, <1>1, PTL

\* A relation of the document, as its names are in the database.
LEMMA ShapeOfLink ==
  ASSUME RowsInv, NEW i, NEW r, NEW n, FromLink(i, r, n)
  PROVE  Shape(r.type, ObjectAt(r.from).name, ObjectAt(r.to).name) =
           Shape(import[i].doc.relations[n].type,
                 Tokens[import[i].doc.relations[n].source],
                 Tokens[import[i].doc.relations[n].dest])
BY NameAt DEF FromLink

\* The members of a bundle are relations of the import that has made it.
LEMMA OwnMembers ==
  ASSUME Inv, NEW i \in Imports
  PROVE  BundleRelations(import[i].bundle) = {r \in Own(i) : Member(i, r)}
<1>1. ASSUME NEW r \in relations, Member(i, r)
      PROVE  r \in Own(i)
  <2>1. PICK m \in relations :
          m.type = "bundleRelation" /\ m.from = import[i].bundle /\ m.to = r.id
    BY <1>1 DEF Member
  <2>2. PICK s \in Own(i) : s.id = r.id
    BY <2>1, MembersOfMaker DEF MembersByMaker
  <2> QED
    BY <2>2 DEF Own, Inv, RowsInv
<1> QED
  BY <1>1 DEF BundleRelations, Member, Own

\* What is in the bundle of an import that is done, by type and names: all
\* relations of the document, and nothing else without anchors.
LEMMA ShapesOfMembers ==
  ASSUME CompleteInv, NEW i \in Imports, At(i, "ok")
  PROVE  LET shapes(rows) ==
               {Shape(r.type, ObjectAt(r.from).name, ObjectAt(r.to).name) :
                  r \in rows}
             members == BundleRelations(import[i].bundle)
         IN  /\ members \subseteq Own(i)
             /\ DocumentShapes(import[i].doc) \subseteq shapes(members)
             /\ import[i].anchors = <<>> =>
                  shapes(Own(i)) \subseteq DocumentShapes(import[i].doc)
<1> DEFINE doc == import[i].doc
           members == BundleRelations(import[i].bundle)
           shape(r) == Shape(r.type, ObjectAt(r.from).name, ObjectAt(r.to).name)
           wanted(n) == Shape(doc.relations[n].type, Tokens[doc.relations[n].source],
                              Tokens[doc.relations[n].dest])
<1>1. RowsOf(i) /\ LinkedInv(i) /\ RowsInv
  BY DEF CompleteInv, StoryInv, DoneInv, Inv
<1>2. \A r, n : FromLink(i, r, n) => shape(r) = wanted(n)
  BY <1>1, ShapeOfLink
<1>3. members = {r \in Own(i) : Member(i, r)}
  BY OwnMembers DEF CompleteInv
<1>4. \A n \in DOMAIN doc.relations : \E r \in members : shape(r) = wanted(n)
  <2> SUFFICES ASSUME NEW n \in DOMAIN doc.relations
               PROVE  \E r \in members : shape(r) = wanted(n)
    OBVIOUS
  <2>1. Linked(i, n)
    BY <1>1 DEF LinkedInv, At
  <2> QED
    BY <2>1, <1>2, <1>3 DEF Linked
<1>5. ASSUME import[i].anchors = <<>>, NEW r \in Own(i)
      PROVE  \E n \in DOMAIN doc.relations : shape(r) = wanted(n)
  <2>1. DOMAIN import[i].anchors = {}
    BY <1>5
  <2>2. PICK n \in DOMAIN doc.relations : FromLink(i, r, n)
    BY <1>1, <2>1 DEF RowsOf
  <2> QED
    BY <2>2, <1>2
<1>6. DocumentShapes(doc) = {wanted(n) : n \in DOMAIN doc.relations}
  BY DEF DocumentShapes
<1> HIDE DEF shape, wanted
<1>7. members \subseteq Own(i)
  BY <1>3
<1>8. {wanted(n) : n \in DOMAIN doc.relations} \subseteq {shape(r) : r \in members}
  BY <1>4
<1>9. import[i].anchors = <<>> =>
        {shape(r) : r \in Own(i)} \subseteq {wanted(n) : n \in DOMAIN doc.relations}
  BY <1>5
<1> QED
  BY <1>6, <1>7, <1>8, <1>9 DEF shape

LEMMA Surplus ==
  ASSUME NEW S, NEW n \in Nat, NEW m \in Nat, Count(S, n, n + m)
  PROVE  Cardinality(S) - n \in 0..m
BY FS_CardinalityType DEF Count

\* import_document_json answers CPL_OK only if each object and each relation of
\* the document is in the database, each relation is in the bundle once, and
\* nothing that the document and the anchors do not have is there, however many
\* others work on the same names and however many INSERTs were repeated.
THEOREM ImportsAreComplete == Spec => []ImportIsComplete
<1>1. CompleteInv => ImportIsComplete
  <2> SUFFICES ASSUME CompleteInv, NEW i \in Imports, At(i, "ok")
               PROVE
      LET doc == import[i].doc
          members == BundleRelations(import[i].bundle)
          shapes == {Shape(r.type, ObjectAt(r.from).name, ObjectAt(r.to).name) :
                       r \in Own(i)}
      IN  /\ {<<o.name, o.type>> : o \in {p \in objects : p.maker = i}} =
               {<<Tokens[doc.objects[k].key], doc.objects[k].type>> :
                  k \in DOMAIN doc.objects} \cup {<<BundleName, "bundle">>}
          /\ DocumentShapes(doc) \subseteq shapes
          /\ Cardinality(members) - Len(doc.relations) \in 0..Len(import[i].anchors)
          /\ import[i].anchors = <<>> => shapes = DocumentShapes(doc)
    BY DEF ImportIsComplete
  <2> DEFINE doc == import[i].doc
             members == BundleRelations(import[i].bundle)
             shape(r) == Shape(r.type, ObjectAt(r.from).name, ObjectAt(r.to).name)
             shapes == {shape(r) : r \in Own(i)}
             pair(k) == <<Tokens[doc.objects[k].key], doc.objects[k].type>>
  <2>1. RowsOf(i) /\ StoredInv(i) /\ CountInv(i) /\ AnchorsInv(i) /\ Inv
    BY DEF CompleteInv, StoryInv, DoneInv
  <2>2. {<<o.name, o.type>> : o \in By(i)} =
          {pair(k) : k \in DOMAIN doc.objects} \cup {<<BundleName, "bundle">>}
    <3>1. ASSUME NEW o \in By(i)
          PROVE  \/ <<o.name, o.type>> = <<BundleName, "bundle">>
                 \/ \E k \in DOMAIN doc.objects : <<o.name, o.type>> = pair(k)
      BY <2>1 DEF RowsOf, IsBundle, IsEntry
    <3>2. \E o \in By(i) : <<o.name, o.type>> = <<BundleName, "bundle">>
      BY <2>1 DEF StoredInv, At, IsBundle
    <3>3. \A k \in DOMAIN doc.objects :
            \E o \in By(i) : <<o.name, o.type>> = pair(k)
      BY <2>1 DEF StoredInv, At, IsEntry
    <3> HIDE DEF pair
    <3> QED
      BY <3>1, <3>2, <3>3
  <2>3. /\ members \subseteq Own(i)
        /\ DocumentShapes(doc) \subseteq {shape(r) : r \in members}
        /\ import[i].anchors = <<>> => shapes \subseteq DocumentShapes(doc)
    BY ShapesOfMembers
  <2>4. members = Joined(i)
    <3>1. import[i].relation = None
      BY <2>1 DEF Inv, LocalInv, MemberInv, At
    <3>2. \A r \in Own(i) : r.id # None
      BY <2>1, ImportAssumption DEF Inv, RowsInv, Own
    <3> QED
      BY <2>1, <3>1, <3>2, OwnMembers DEF Joined
  <2>5. Cardinality(members) - Len(doc.relations) \in 0..Len(import[i].anchors)
    <3>1. Len(doc.relations) \in Nat /\ Len(import[i].anchors) \in Nat
      BY <2>1 DEF Inv, CallsInv, Document, AnchorsInv
    <3>2. Count(members, Len(doc.relations), Len(doc.relations) + Len(import[i].anchors))
      BY <2>1, <2>4 DEF CountInv, At
    <3> HIDE DEF members, doc
    <3> QED
      BY <3>1, <3>2, Surplus
  <2>6. {p \in objects : p.maker = i} = By(i)
    BY DEF By
  <2>7. DocumentShapes(doc) \subseteq shapes
    BY <2>3
  <2> QED
    BY <2>2, <2>3, <2>5, <2>6, <2>7
<1> QED
  BY CompleteInvariance, <1>1, PTL

-----------------------------------------------------------------------------
(* The exports.  Once an import is done nothing changes what its bundle is *)
(* exported as, so an export that begins then may read it in two steps.    *)

Bundled(i) == BundleRelations(import[i].bundle)

\* What the export of i's bundle writes.
ObjectsWritten(i) ==
  {[key |-> FullName[o.name], type |-> o.type] :
     o \in {p \in Ends(import[i].bundle) : p.type # "bundle"}}

RelationsWritten(i) ==
  {[id |-> r.id, type |-> r.type, source |-> FullName[ObjectAt(r.from).name],
    dest |-> FullName[ObjectAt(r.to).name]] : r \in Bundled(i)}

\* How far export e has come with the bundle of i alone.
Exported(e, i) ==
  /\ export[e].pos = 1
  /\ export[e].at = "objects" => export[e].table = {} /\ export[e].objects = {}
  /\ export[e].at \in {"relations", "write", "ok"} =>
       /\ export[e].table = {o.id : o \in Ends(import[i].bundle)}
       /\ export[e].objects = ObjectsWritten(i)
  /\ export[e].at = "write" => export[e].rows = Bundled(i)
  /\ export[e].relations = IF export[e].at = "ok" THEN RelationsWritten(i) ELSE {}
  /\ export[e].wild = {}

ExportFields ==
  {"at", "bundles", "pos", "table", "rows", "objects", "relations", "wild"}

\* The variables of an export before it begins, and the bundles after that.
BeginsInv(e) ==
  /\ DOMAIN export[e] = ExportFields
  /\ export[e].pos \in Nat
  /\ export[e].at = "idle" =>
       /\ export[e].pos = 1 /\ export[e].table = {} /\ export[e].objects = {}
       /\ export[e].relations = {} /\ export[e].wild = {}
  /\ export[e].at # "idle" =>
       export[e].bundles \in Seq(Nat) /\ export[e].pos <= Len(export[e].bundles)

ExportInv(e) ==
  /\ ExportOK(e) /\ BeginsInv(e)
  /\ finished[e] \subseteq {i \in Imports : At(i, "ok")}
  /\ \A i \in finished[e] :
       /\ export[e].at \notin {"idle", "error"}
       /\ export[e].bundles = <<import[i].bundle>>
       => Exported(e, i)

ExportsInv ==
  /\ CompleteInv
  /\ export = [e \in Exports |-> export[e]]
  /\ finished = [e \in Exports |-> finished[e]]
  /\ \A e \in Exports : ExportInv(e)

-----------------------------------------------------------------------------
(* What is done stays.                                                     *)

LEMMA RowOf ==
  ASSUME RowsInv, NEW o \in objects
  PROVE  ObjectAt(o.id) = o
<1>1. ObjectAt(o.id) \in objects /\ ObjectAt(o.id).id = o.id
  BY DEF ObjectAt
<1> QED
  BY <1>1 DEF RowsInv

LEMMA RowAt ==
  ASSUME RowsInv, NEW id \in ObjectIds
  PROVE  ObjectAt(id) \in objects /\ ObjectAt(id).id = id
<1>1. PICK o \in objects : o.id = id
  BY DEF ObjectIds
<1> QED
  BY <1>1, RowOf

LEMMA MemberEnds ==
  ASSUME CompleteInv, NEW i \in Imports, NEW r \in Bundled(i)
  PROVE  r.from \in ObjectIds /\ r.to \in ObjectIds
<1>1. r \in Own(i)
  BY OwnMembers DEF CompleteInv, Bundled
<1> QED
  BY <1>1 DEF Own, CompleteInv, TablesInv, TablesOK

LEMMA EndsAreObjects ==
  ASSUME CompleteInv, NEW i \in Imports
  PROVE  BundleObjects(import[i].bundle) = Ends(import[i].bundle)
<1> DEFINE ids == UNION {{r.from, r.to} : r \in Bundled(i)}
<1>1. ids \subseteq ObjectIds
  BY MemberEnds
<1>2. Ends(import[i].bundle) = {ObjectAt(id) : id \in ids}
  BY DEF Ends, Bundled
<1>3. BundleObjects(import[i].bundle) = {o \in objects : o.id \in ids}
  BY DEF BundleObjects, Bundled
<1> HIDE DEF ids
<1>4. RowsInv
  BY DEF CompleteInv, Inv
<1>5. ASSUME NEW o \in objects, o.id \in ids
      PROVE  o \in {ObjectAt(id) : id \in ids}
  BY <1>4, <1>5, RowOf
<1>6. ASSUME NEW id \in ids
      PROVE  ObjectAt(id) \in objects /\ ObjectAt(id).id \in ids
  BY <1>1, <1>4, RowAt
<1> QED
  BY <1>2, <1>3, <1>5, <1>6

\* What is kept of an import that is done.
Settled(i) ==
  /\ import'[i] = import[i]
  /\ objects \subseteq objects' /\ relations \subseteq relations'
  /\ Bundled(i)' = Bundled(i)
  /\ Ends(import[i].bundle)' = Ends(import[i].bundle)
  /\ ObjectsWritten(i)' = ObjectsWritten(i)
  /\ RelationsWritten(i)' = RelationsWritten(i)

LEMMA DoneIsQuiet ==
  ASSUME NEW i, At(i, "ok")
  PROVE  ~ImportStep(i)
BY DEF ImportStep, At, BeginImport, CreateBundle, ImportPrefixes, ImportObject,
   EndObjects, LookupAnchor, SkipAnchor, RelateAnchor, LinkAnchor, EndAnchors,
   FindSource, FindDest, Relate, LinkRelation, EndRelations, RepeatInsert,
   Insert, ImportFails

LEMMA OthersWork ==
  ASSUME CompleteInv, Next, NEW i \in Imports, At(i, "ok")
  PROVE  /\ import'[i] = import[i]
         /\ objects \subseteq objects' /\ relations \subseteq relations'
         /\ \A r \in relations' \ relations : r.maker # i
<1>1. ASSUME NEW j \in Imports, Import(j)
      PROVE  /\ import'[i] = import[i] /\ Grown
             /\ \A r \in relations' \ relations : r.maker # i
  <2>1. j # i
    BY <1>1, DoneIsQuiet DEF Import
  <2>2. OwnStep(j)
    BY <1>1, ImportOwn DEF Import, CompleteInv
  <2> QED
    BY <2>1, <2>2 DEF OwnStep, Grown
<1>2. ASSUME NEW e \in Exports, Export(e)
      PROVE  UNCHANGED <<tables, import>>
  BY <1>2, ExportQuiet
<1>3. ASSUME NEW c \in Creators, CreateObject(c)
      PROVE  import' = import /\ relations' = relations /\ objects \subseteq objects'
  BY <1>3 DEF CreateObject, InsertObject
<1> QED
  BY <1>1, <1>2, <1>3 DEF Next, Grown, tables

MembersAreOwn ==
  \A i \in Imports :
    BundleRelations(import[i].bundle) = {r \in Own(i) : Member(i, r)}

LEMMA OwnMembersNext == Inv' => MembersAreOwn'
<1>1. Inv => MembersAreOwn
  BY OwnMembers DEF MembersAreOwn
<1> QED
  BY <1>1, PTL

LEMMA DoneSettles ==
  ASSUME CompleteInv, CompleteInv', [Next]_vars, NEW i \in Imports, At(i, "ok")
  PROVE  Settled(i)
<1>1. /\ import'[i] = import[i]
      /\ objects \subseteq objects' /\ relations \subseteq relations'
      /\ \A r \in relations' \ relations : r.maker # i
  BY OthersWork DEF vars, tables
<1>2. Own(i)' = Own(i)
  BY <1>1 DEF Own
<1>3. \A m \in relations' :
        m.type = "bundleRelation" /\ m.from = import[i].bundle => m \in relations
  BY <1>1, MembersOfMakerNext DEF MembersByMaker, CompleteInv
<1>4. \A r : Member(i, r)' <=> Member(i, r)
  BY <1>1, <1>3 DEF Member
<1>5. Bundled(i) = {r \in Own(i) : Member(i, r)}
  BY OwnMembers DEF CompleteInv, Bundled
<1>6. Bundled(i)' = {r \in Own(i)' : Member(i, r)'}
  BY OwnMembersNext DEF CompleteInv, MembersAreOwn, Bundled
<1>7. Bundled(i)' = Bundled(i)
  BY <1>2, <1>4, <1>5, <1>6
<1>8. ASSUME NEW id \in ObjectIds
      PROVE  ObjectAt(id)' = ObjectAt(id)
  <2>1. PICK o \in objects : o.id = id
    BY DEF ObjectIds
  <2>2. \A p \in objects' : p.id = id <=> p = o
    BY <1>1, <2>1 DEF CompleteInv, Inv, RowsInv
  <2>3. \A p \in objects : p.id = id <=> p = o
    BY <1>1, <2>2
  <2>4. ObjectAt(id)' = o
    BY <1>1, <2>1, <2>2 DEF ObjectAt
  <2>5. ObjectAt(id) = o
    BY <2>1, <2>3 DEF ObjectAt
  <2> QED
    BY <2>4, <2>5
<1>9. \A r \in Bundled(i) : r.from \in ObjectIds /\ r.to \in ObjectIds
  BY MemberEnds
<1>10. Ends(import[i].bundle)' = Ends(import[i].bundle)
  <2> DEFINE ids == UNION {{r.from, r.to} : r \in Bundled(i)}
  <2>1. ids \subseteq ObjectIds
    BY <1>9
  <2>2. Ends(import[i].bundle) = {ObjectAt(id) : id \in ids}
    BY DEF Ends, Bundled
  <2>3. Ends(import[i].bundle)' =
          {ObjectAt(id)' : id \in UNION {{r.from, r.to} : r \in Bundled(i)'}}
    BY DEF Ends, Bundled
  <2>4. Ends(import[i].bundle)' = {ObjectAt(id)' : id \in ids}
    BY <2>3, <1>7
  <2> HIDE DEF ids
  <2> QED
    BY <2>1, <2>2, <2>4, <1>8
<1>11. ObjectsWritten(i)' = ObjectsWritten(i)
  BY <1>1, <1>10 DEF ObjectsWritten
<1>12. RelationsWritten(i)' = RelationsWritten(i)
  BY <1>7, <1>8, <1>9 DEF RelationsWritten
<1> QED
  BY <1>1, <1>7, <1>10, <1>11, <1>12 DEF Settled

LEMMA TablesGrow ==
  ASSUME CompleteInv, [Next]_vars
  PROVE  objects \subseteq objects' /\ relations \subseteq relations'
<1>1. ASSUME NEW j \in Imports, Import(j)
      PROVE  objects \subseteq objects' /\ relations \subseteq relations'
  BY <1>1, ImportOwn DEF Import, CompleteInv, OwnStep
<1>2. ASSUME NEW e \in Exports, Export(e)
      PROVE  UNCHANGED tables
  BY <1>2, ExportQuiet
<1>3. ASSUME NEW c \in Creators, CreateObject(c)
      PROVE  relations' = relations /\ objects \subseteq objects'
  BY <1>3 DEF CreateObject, InsertObject
<1> QED
  BY <1>1, <1>2, <1>3 DEF Next, vars, tables

-----------------------------------------------------------------------------
(* The steps of an export.                                                 *)

\* What no step of another call takes from export e.
LEMMA ExportRests ==
  ASSUME ExportsInv, CompleteInv', [Next]_vars, NEW e \in Exports,
         export'[e] = export[e], finished'[e] = finished[e]
  PROVE  ExportInv(e)'
<1>1. ExportInv(e) /\ CompleteInv
  BY DEF ExportsInv
<1>2. \A i \in finished[e] : At(i, "ok") /\ Settled(i)
  BY <1>1, DoneSettles DEF ExportInv
<1>3. objects \subseteq objects' /\ relations \subseteq relations'
  BY <1>1, TablesGrow
<1>4. ExportOK(e)' /\ BeginsInv(e)'
  BY <1>1, <1>3 DEF ExportInv, ExportOK, BeginsInv, ObjectIds, ExportFields
<1>5. finished'[e] \subseteq {i \in Imports : At(i, "ok")'}
  BY <1>1, <1>2 DEF ExportInv, At, Settled
<1>6. ASSUME NEW i \in finished[e], export[e].at \notin {"idle", "error"},
             export[e].bundles = <<import[i].bundle>>
      PROVE  Exported(e, i)'
  BY <1>1, <1>2, <1>6 DEF ExportInv, Exported, Settled
<1>7. \A i \in finished[e] : import'[i] = import[i]
  BY <1>2 DEF Settled
<1> QED
  BY <1>4, <1>5, <1>6, <1>7 DEF ExportInv

\* The names of an id that is in the table of an export.
LEMMA NamedAt ==
  ASSUME RowsInv, NEW e, NEW id \in ObjectIds, id \in export[e].table
  PROVE  Named(e, id) = {FullName[ObjectAt(id).name]}
<1>1. ObjectAt(id) \in objects /\ ObjectAt(id).id = id
  BY RowAt
<1>2. {p \in objects : p.id = id} = {ObjectAt(id)}
  BY <1>1 DEF RowsInv
<1> QED
  BY <1>2 DEF Named

LEMMA BeginExportInv ==
  ASSUME ExportsInv, NEW e \in Exports, Export(e), BeginExport(e)
  PROVE  ExportInv(e)'
<1>1. ExportInv(e) /\ RowsInv /\ export[e].at = "idle"
  BY DEF ExportsInv, CompleteInv, Inv, BeginExport
<1>2. PICK b1, b2 \in {o.id : o \in {p \in objects : p.type = "bundle"}} :
        export' = [export EXCEPT ![e].at = "objects",
                     ![e].bundles = IF b1 = b2 THEN <<b1>> ELSE <<b1, b2>>]
  BY DEF BeginExport
<1>3. b1 \in Nat /\ b2 \in Nat
  BY <1>1 DEF RowsInv
<1>4. /\ DOMAIN export'[e] = ExportFields /\ export'[e].at = "objects"
      /\ export'[e].bundles = IF b1 = b2 THEN <<b1>> ELSE <<b1, b2>>
      /\ export'[e].pos = export[e].pos /\ export'[e].table = export[e].table
      /\ export'[e].rows = export[e].rows
      /\ export'[e].objects = export[e].objects
      /\ export'[e].relations = export[e].relations
      /\ export'[e].wild = export[e].wild
  BY <1>1, <1>2 DEF ExportsInv, ExportInv, BeginsInv, ExportFields
<1>5. /\ export'[e].pos = 1 /\ export'[e].table = {} /\ export'[e].objects = {}
      /\ export'[e].relations = {} /\ export'[e].wild = {}
  BY <1>1, <1>4 DEF ExportInv, BeginsInv
<1>6. export'[e].bundles \in Seq(Nat) /\ 1 <= Len(export'[e].bundles)
  BY <1>3, <1>4
<1>7. objects' = objects /\ relations' = relations /\ import' = import
  BY ExportQuiet DEF tables
<1>8. 1 \in DOMAIN export'[e].bundles
  BY <1>6
<1>9. ExportOK(e)'
  BY <1>1, <1>4, <1>5, <1>7, <1>8 DEF ExportInv, ExportOK, ObjectIds
<1>10. BeginsInv(e)'
  BY <1>4, <1>5, <1>6 DEF BeginsInv, ExportFields
<1>11. finished'[e] = {i \in Imports : At(i, "ok")}
  BY <1>1 DEF Export, ExportsInv
<1>12. finished'[e] \subseteq {i \in Imports : At(i, "ok")'}
  BY <1>7, <1>11 DEF At
<1>13. \A i : Exported(e, i)'
  BY <1>4, <1>5 DEF Exported
<1> QED
  BY <1>9, <1>10, <1>12, <1>13 DEF ExportInv

\* The other steps keep the bundles, and get further with them.
Further(e) ==
  /\ DOMAIN export'[e] = ExportFields
  /\ export'[e].bundles = export[e].bundles /\ export'[e].at # "idle"
  /\ finished'[e] = finished[e]

LEMMA FurtherInv ==
  ASSUME ExportsInv, NEW e \in Exports, Export(e), Further(e),
         ExportOK(e)', export'[e].pos \in Nat,
         export'[e].pos <= Len(export[e].bundles), export[e].at # "idle",
         \A i \in finished[e] :
           /\ export'[e].at # "error" /\ export[e].at # "error"
           /\ export[e].bundles = <<import[i].bundle>>
           => Exported(e, i)',
         export[e].at = "error" => export'[e].at = "error"
  PROVE  ExportInv(e)'
<1>1. ExportInv(e) /\ import' = import
  BY ExportQuiet DEF ExportsInv
<1>2. BeginsInv(e)'
  BY <1>1 DEF ExportInv, BeginsInv, Further, ExportFields
<1>3. finished'[e] \subseteq {i \in Imports : At(i, "ok")'}
  BY <1>1 DEF ExportInv, At, Further
<1> QED
  BY <1>1, <1>2, <1>3 DEF ExportInv, Further

LEMMA ExportObjectsInv ==
  ASSUME ExportsInv, NEW e \in Exports, Export(e), ExportObjects(e)
  PROVE  ExportInv(e)'
<1>1. ExportInv(e) /\ export[e].at = "objects"
  BY DEF ExportsInv, ExportObjects
<1>2. /\ DOMAIN export'[e] = ExportFields /\ export'[e].at = "relations"
      /\ export'[e].bundles = export[e].bundles
      /\ export'[e].pos = export[e].pos
      /\ export'[e].table =
           export[e].table \cup {o.id : o \in BundleObjects(Bundle(e))}
      /\ export'[e].rows = export[e].rows
      /\ export'[e].objects = export[e].objects \cup
           {[key |-> FullName[o.name], type |-> o.type] :
              o \in {p \in BundleObjects(Bundle(e)) : p.type # "bundle"}}
      /\ export'[e].relations = export[e].relations
      /\ export'[e].wild = export[e].wild
  BY <1>1 DEF ExportObjects, ExportsInv, ExportInv, BeginsInv, ExportFields
<1>3. objects' = objects /\ relations' = relations /\ import' = import
  BY ExportQuiet DEF tables
<1>4. finished'[e] = finished[e]
  BY <1>1 DEF Export, ExportsInv
<1>5. {o.id : o \in BundleObjects(Bundle(e))} \subseteq ObjectIds
  BY DEF BundleObjects, ObjectIds
<1>6. ObjectIds' = ObjectIds
  BY <1>3 DEF ObjectIds
<1>7. ExportOK(e)'
  BY <1>1, <1>2, <1>3, <1>5, <1>6 DEF ExportInv, ExportOK
<1>8. ASSUME NEW i \in finished[e], export[e].bundles = <<import[i].bundle>>
      PROVE  Exported(e, i)'
  <2>1. Exported(e, i) /\ i \in Imports
    BY <1>1, <1>8 DEF ExportInv
  <2>2. Bundle(e) = import[i].bundle
    BY <1>1, <1>8, <2>1 DEF Bundle, Exported
  <2>3. BundleObjects(Bundle(e)) = Ends(import[i].bundle)
    BY <2>1, <2>2, EndsAreObjects DEF ExportsInv
  <2>4. Ends(import[i].bundle)' = Ends(import[i].bundle)
    BY <1>3 DEF Ends, BundleRelations, ObjectAt
  <2>5. ObjectsWritten(i)' = ObjectsWritten(i)
    BY <1>3, <2>4 DEF ObjectsWritten
  <2>6. export'[e].table = {o.id : o \in Ends(import[i].bundle)}
    BY <1>1, <1>2, <2>1, <2>3 DEF Exported
  <2>7. export'[e].objects = ObjectsWritten(i)
    BY <1>1, <1>2, <2>1, <2>3 DEF Exported, ObjectsWritten
  <2> QED
    BY <1>1, <1>2, <1>3, <2>1, <2>4, <2>5, <2>6, <2>7 DEF Exported
<1>9. export[e].pos \in Nat /\ export[e].pos <= Len(export[e].bundles)
  BY <1>1 DEF ExportInv, BeginsInv
<1> QED
  BY <1>1, <1>2, <1>4, <1>7, <1>8, <1>9, FurtherInv DEF Further

LEMMA ExportRelationsInv ==
  ASSUME ExportsInv, NEW e \in Exports, Export(e), ExportRelations(e)
  PROVE  ExportInv(e)'
<1>1. ExportInv(e) /\ export[e].at = "relations"
  BY DEF ExportsInv, ExportRelations
<1>2. /\ DOMAIN export'[e] = ExportFields /\ export'[e].at = "write"
      /\ export'[e].bundles = export[e].bundles
      /\ export'[e].pos = export[e].pos /\ export'[e].table = export[e].table
      /\ export'[e].rows = BundleRelations(Bundle(e))
      /\ export'[e].objects = export[e].objects
      /\ export'[e].relations = export[e].relations
      /\ export'[e].wild = export[e].wild
  BY <1>1 DEF ExportRelations, ExportsInv, ExportInv, BeginsInv, ExportFields
<1>3. objects' = objects /\ relations' = relations /\ import' = import
  BY ExportQuiet DEF tables
<1>4. finished'[e] = finished[e]
  BY <1>1 DEF Export, ExportsInv
<1>5. ObjectIds' = ObjectIds /\ BundleRelations(Bundle(e)) \subseteq relations
  BY <1>3 DEF ObjectIds, BundleRelations
<1>6. ExportOK(e)'
  BY <1>1, <1>2, <1>3, <1>5 DEF ExportInv, ExportOK
<1>7. ASSUME NEW i \in finished[e], export[e].bundles = <<import[i].bundle>>
      PROVE  Exported(e, i)'
  <2>1. Exported(e, i)
    BY <1>1, <1>7 DEF ExportInv
  <2>2. Bundle(e) = import[i].bundle
    BY <1>1, <1>7, <2>1 DEF Bundle, Exported
  <2>3. Bundled(i)' = Bundled(i)
    BY <1>3 DEF Bundled, BundleRelations
  <2>4. Ends(import[i].bundle)' = Ends(import[i].bundle)
    BY <1>3 DEF Ends, BundleRelations, ObjectAt
  <2>5. ObjectsWritten(i)' = ObjectsWritten(i)
    BY <1>3, <2>4 DEF ObjectsWritten
  <2>6. export'[e].rows = Bundled(i)
    BY <1>2, <2>2 DEF Bundled
  <2> QED
    BY <1>1, <1>2, <1>3, <2>1, <2>3, <2>4, <2>5, <2>6 DEF Exported
<1>8. export[e].pos \in Nat /\ export[e].pos <= Len(export[e].bundles)
  BY <1>1 DEF ExportInv, BeginsInv
<1> QED
  BY <1>1, <1>2, <1>4, <1>6, <1>7, <1>8, FurtherInv DEF Further

\* The relations of a bundle all of whose ends are in the table.
LEMMA AllWritten ==
  ASSUME ExportsInv, NEW e, NEW i \in Imports,
         export[e].table = {o.id : o \in Ends(import[i].bundle)}
  PROVE  /\ UNION {Written(e, r) : r \in Bundled(i)} = RelationsWritten(i)
         /\ \A r \in Bundled(i) : ~FreesWild(e, r)
<1>1. CompleteInv /\ RowsInv
  BY DEF ExportsInv, CompleteInv, Inv
<1>2. ASSUME NEW r \in Bundled(i)
      PROVE  /\ r.from \in ObjectIds /\ r.to \in ObjectIds
             /\ r.from \in export[e].table /\ r.to \in export[e].table
  <2>1. r.from \in ObjectIds /\ r.to \in ObjectIds
    BY <1>1, MemberEnds
  <2>2. ObjectAt(r.from) \in Ends(import[i].bundle)
        /\ ObjectAt(r.to) \in Ends(import[i].bundle)
    BY DEF Ends, Bundled
  <2>3. ObjectAt(r.from).id = r.from /\ ObjectAt(r.to).id = r.to
    BY <1>1, <2>1, RowAt
  <2> QED
    BY <2>1, <2>2, <2>3
<1>3. ASSUME NEW r \in Bundled(i)
      PROVE  Written(e, r) =
               {[id |-> r.id, type |-> r.type,
                 source |-> FullName[ObjectAt(r.from).name],
                 dest |-> FullName[ObjectAt(r.to).name]]}
  <2>1. /\ Named(e, r.from) = {FullName[ObjectAt(r.from).name]}
        /\ Named(e, r.to) = {FullName[ObjectAt(r.to).name]}
    BY <1>1, <1>2, NamedAt
  <2> QED
    BY <2>1 DEF Written
<1>4. UNION {Written(e, r) : r \in Bundled(i)} = RelationsWritten(i)
  BY <1>3 DEF RelationsWritten
<1> QED
  BY <1>2, <1>4 DEF FreesWild

LEMMA WriteRelationsInv ==
  ASSUME ExportsInv, NEW e \in Exports, Export(e), WriteRelations(e)
  PROVE  ExportInv(e)'
<1>1. ExportInv(e) /\ export[e].at = "write"
  BY DEF ExportsInv, WriteRelations
<1>2. /\ DOMAIN export'[e] = ExportFields
      /\ export'[e].at = IF LastBundle(e) THEN "ok" ELSE "objects"
      /\ export'[e].bundles = export[e].bundles
      /\ export'[e].pos = IF LastBundle(e) THEN export[e].pos
                                           ELSE export[e].pos + 1
      /\ export'[e].table = export[e].table /\ export'[e].rows = {}
      /\ export'[e].objects = export[e].objects
      /\ export'[e].relations =
           export[e].relations \cup UNION {Written(e, r) : r \in export[e].rows}
      /\ export'[e].wild = export[e].wild \cup
           {r.id : r \in {q \in export[e].rows : FreesWild(e, q)}}
  BY <1>1 DEF WriteRelations, ExportsInv, ExportInv, BeginsInv, ExportFields
<1>3. objects' = objects /\ relations' = relations /\ import' = import
  BY ExportQuiet DEF tables
<1>4. finished'[e] = finished[e]
  BY <1>1 DEF Export, ExportsInv
<1>5. /\ export[e].bundles \in Seq(Nat) /\ export[e].pos \in DOMAIN export[e].bundles
      /\ export[e].pos \in Nat /\ export[e].pos <= Len(export[e].bundles)
  BY <1>1 DEF ExportInv, BeginsInv, ExportOK
<1>6. /\ export'[e].pos \in DOMAIN export[e].bundles /\ export'[e].pos \in Nat
      /\ export'[e].pos <= Len(export[e].bundles)
  BY <1>2, <1>5 DEF LastBundle
<1>7. ObjectIds' = ObjectIds
  BY <1>3 DEF ObjectIds
<1>8. ExportOK(e)'
  BY <1>1, <1>2, <1>3, <1>6, <1>7 DEF ExportInv, ExportOK
<1>9. ASSUME NEW i \in finished[e], export[e].bundles = <<import[i].bundle>>
      PROVE  Exported(e, i)'
  <2>1. Exported(e, i) /\ i \in Imports
    BY <1>1, <1>9 DEF ExportInv
  <2>2. LastBundle(e)
    BY <1>1, <1>9, <2>1 DEF LastBundle, Exported
  <2>3. Bundled(i)' = Bundled(i) /\ RelationsWritten(i)' = RelationsWritten(i)
    BY <1>3 DEF Bundled, BundleRelations, RelationsWritten, ObjectAt
  <2>4. Ends(import[i].bundle)' = Ends(import[i].bundle)
    BY <1>3 DEF Ends, BundleRelations, ObjectAt
  <2>5. ObjectsWritten(i)' = ObjectsWritten(i)
    BY <1>3, <2>4 DEF ObjectsWritten
  <2>6. /\ UNION {Written(e, r) : r \in export[e].rows} = RelationsWritten(i)
        /\ \A r \in export[e].rows : ~FreesWild(e, r)
    BY <1>1, <2>1, AllWritten DEF Exported
  <2>7. export'[e].relations = RelationsWritten(i) /\ export'[e].wild = {}
    BY <1>1, <1>2, <2>1, <2>6 DEF Exported
  <2> QED
    BY <1>1, <1>2, <1>3, <2>1, <2>2, <2>3, <2>4, <2>5, <2>7 DEF Exported
<1> QED
  BY <1>1, <1>2, <1>4, <1>6, <1>8, <1>9, FurtherInv DEF Further

LEMMA ExportFailsInv ==
  ASSUME ExportsInv, NEW e \in Exports, Export(e), ExportFails(e)
  PROVE  ExportInv(e)'
<1>1. ExportInv(e) /\ export[e].at \in {"objects", "relations", "write"}
  BY DEF ExportsInv, ExportFails
<1>2. /\ DOMAIN export'[e] = ExportFields /\ export'[e].at = "error"
      /\ export'[e].bundles = export[e].bundles
      /\ export'[e].pos = export[e].pos /\ export'[e].table = export[e].table
      /\ export'[e].rows = export[e].rows
  BY <1>1 DEF ExportFails, ExportsInv, ExportInv, BeginsInv, ExportFields
<1>3. finished'[e] = finished[e]
  BY <1>1 DEF Export, ExportsInv
<1>4. ExportOK(e)'
  BY <1>1, <1>2, ExportQuiet DEF ExportInv, ExportOK, ObjectIds, tables
<1>5. export[e].pos \in Nat /\ export[e].pos <= Len(export[e].bundles)
  BY <1>1 DEF ExportInv, BeginsInv
<1> QED
  BY <1>1, <1>2, <1>3, <1>4, <1>5, FurtherInv DEF Further

-----------------------------------------------------------------------------
(* The inductive invariant of the exports, and what it says.               *)

LEMMA ExportStepInv ==
  ASSUME ExportsInv, NEW e \in Exports, Export(e)
  PROVE  ExportInv(e)'
BY BeginExportInv, ExportObjectsInv, ExportRelationsInv, WriteRelationsInv,
   ExportFailsInv DEF Export, ExportStep

LEMMA ExportKeepsOthers ==
  ASSUME ExportsInv, NEW e \in Exports, Export(e)
  PROVE  /\ export' = [f \in Exports |-> export'[f]]
         /\ finished' = [f \in Exports |-> finished'[f]]
         /\ \A f \in Exports \ {e} :
              export'[f] = export[f] /\ finished'[f] = finished[f]
<1>1. \E v : export' = [export EXCEPT ![e] = v]
  BY DEF Export, ExportStep, BeginExport, ExportObjects, ExportRelations,
     WriteRelations, ExportFails
<1>2. \E v : finished' = [finished EXCEPT ![e] = v]
  <2>1. finished = [finished EXCEPT ![e] = finished[e]]
    BY DEF ExportsInv
  <2> QED
    BY <2>1 DEF Export
<1>3. DOMAIN export = Exports /\ DOMAIN finished = Exports
  BY DEF ExportsInv
<1> QED
  BY <1>1, <1>2, <1>3

LEMMA InitExports == Init => ExportsInv
<1> SUFFICES ASSUME Init PROVE ExportsInv
  OBVIOUS
<1>1. /\ export = [e \in Exports |->
           [at |-> "idle", bundles |-> <<>>, pos |-> 1, table |-> {},
            rows |-> {}, objects |-> {}, relations |-> {}, wild |-> {}]]
      /\ finished = [e \in Exports |-> {}]
  BY DEF Init, ExportInit
<1>2. \A e \in Exports : ExportInv(e)
  BY <1>1 DEF ExportInv, ExportOK, BeginsInv, ExportFields
<1> QED
  BY <1>1, <1>2, InitComplete DEF ExportsInv

\* Each export has of the bundle of an import that was done before it began
\* what the tables have, at each of its steps.
THEOREM ExportsInvariance == Spec => []ExportsInv
<1>1. ExportsInv /\ CompleteInv' /\ [Next]_vars => ExportsInv'
  <2> SUFFICES ASSUME ExportsInv, CompleteInv', [Next]_vars PROVE ExportsInv'
    OBVIOUS
  <2>1. ASSUME UNCHANGED <<export, finished>>
        PROVE  ExportsInv'
    <3>1. \A e \in Exports : ExportInv(e)'
      BY <2>1, ExportRests
    <3> QED
      BY <2>1, <3>1 DEF ExportsInv
  <2>2. ASSUME NEW e \in Exports, Export(e)
        PROVE  ExportsInv'
    <3>1. ExportInv(e)'
      BY <2>2, ExportStepInv
    <3>2. \A f \in Exports \ {e} : ExportInv(f)'
      BY <2>2, ExportKeepsOthers, ExportRests
    <3> QED
      BY <2>2, <3>1, <3>2, ExportKeepsOthers DEF ExportsInv
  <2>3. ASSUME NEW i \in Imports, Import(i)
        PROVE  ExportsInv'
    BY <2>1, <2>3 DEF Import
  <2>4. ASSUME NEW c \in Creators, CreateObject(c)
        PROVE  ExportsInv'
    BY <2>1, <2>4 DEF CreateObject
  <2>5. CASE UNCHANGED vars
    BY <2>1, <2>5 DEF vars
  <2> QED
    BY <2>2, <2>3, <2>4, <2>5 DEF Next
<1> QED
  BY CompleteInvariance, InitExports, <1>1, PTL DEF Spec

\* The ids that imports and exports keep are of rows that are in the tables,
\* the sequences number the rows without gaps, and an export stays within its
\* bundles.
THEOREM TypesAreRight == Spec => []TypeOK
<1>1. ExportsInv => TypeOK
  <2> SUFFICES ASSUME ExportsInv PROVE TypeOK
    OBVIOUS
  <2>1. TablesOK /\ \A i \in Imports : ImportOK(i)
    BY DEF ExportsInv, CompleteInv, TablesInv, StoryInv
  <2>2. \A e \in Exports : ExportOK(e) /\ finished[e] \subseteq Imports
    BY DEF ExportsInv, ExportInv
  <2>3. finished \in [Exports -> SUBSET Imports]
    BY <2>2 DEF ExportsInv
  <2> QED
    BY <2>1, <2>2, <2>3 DEF TypeOK
<1> QED
  BY ExportsInvariance, <1>1, PTL

\* export_bundle_json after import_document_json: what comes out is what went
\* in, whatever was imported, created and exported meanwhile, and although the
\* objects and the relations are read by two SELECTs.
THEOREM ExportsGiveBack == Spec => []RoundTrip
<1>1. ExportsInv => RoundTrip
  <2> SUFFICES ASSUME ExportsInv, NEW e \in Exports, NEW i \in Imports,
                      export[e].at = "ok",
                      export[e].bundles = <<import[i].bundle>>,
                      i \in finished[e]
               PROVE
      LET written == {Shape(r.type, r.source, r.dest) : r \in export[e].relations}
          wanted == {Shape(s.type, FullName[s.source], FullName[s.dest]) :
                       s \in DocumentShapes(import[i].doc)}
      IN  /\ wanted \subseteq written
          /\ import[i].anchors = <<>> => written = wanted
          /\ export[e].objects =
               {[key |-> FullName[o.name], type |-> o.type] :
                  o \in {p \in Ends(import[i].bundle) : p.type # "bundle"}}
          /\ export[e].wild = {}
    BY DEF RoundTrip
  <2>1. CompleteInv /\ ExportInv(e) /\ At(i, "ok") /\ Exported(e, i)
    BY DEF ExportsInv, ExportInv
  <2>2. /\ export[e].relations = RelationsWritten(i)
        /\ export[e].objects = ObjectsWritten(i) /\ export[e].wild = {}
    BY <2>1 DEF Exported
  <2> DEFINE shape(r) == Shape(r.type, ObjectAt(r.from).name, ObjectAt(r.to).name)
             named(s) == Shape(s.type, FullName[s.source], FullName[s.dest])
             written == {Shape(r.type, r.source, r.dest) : r \in export[e].relations}
             wanted == {named(s) : s \in DocumentShapes(import[i].doc)}
  <2>3. written = {named(shape(r)) : r \in Bundled(i)}
    <3> DEFINE row(r) == [id |-> r.id, type |-> r.type,
                          source |-> FullName[ObjectAt(r.from).name],
                          dest |-> FullName[ObjectAt(r.to).name]]
               names(w) == Shape(w.type, w.source, w.dest)
    <3>1. \A r : names(row(r)) = named(shape(r))
      BY DEF Shape
    <3>2. export[e].relations = {row(r) : r \in Bundled(i)}
      BY <2>2 DEF RelationsWritten
    <3>3. written = {names(w) : w \in export[e].relations}
      OBVIOUS
    <3> HIDE DEF row, names, named, shape, written
    <3> QED
      BY <3>1, <3>2, <3>3
  <2>4. /\ Bundled(i) \subseteq Own(i)
        /\ DocumentShapes(import[i].doc) \subseteq {shape(r) : r \in Bundled(i)}
        /\ import[i].anchors = <<>> =>
             {shape(r) : r \in Own(i)} \subseteq DocumentShapes(import[i].doc)
    BY <2>1, ShapesOfMembers DEF Bundled
  <2> HIDE DEF shape, named
  <2>5. wanted \subseteq written
    BY <2>3, <2>4
  <2>6. import[i].anchors = <<>> => written \subseteq wanted
    BY <2>3, <2>4
  <2> USE DEF named
  <2> QED
    BY <2>2, <2>5, <2>6 DEF ObjectsWritten
<1> QED
  BY ExportsInvariance, <1>1, PTL

-----------------------------------------------------------------------------
(* The refinement: an import publishes its document when it answers, and   *)
(* what the others do leaves that alone.                                   *)

\* What the relations of an import that is done are exported as.
PublishedWritten ==
  \A i : Published(i) =
    IF At(i, "ok") THEN {Shape(w.type, w.source, w.dest) : w \in RelationsWritten(i)}
    ELSE None

LEMMA PublishedIsWritten == PublishedWritten
<1> SUFFICES ASSUME NEW i
             PROVE  {Shape(r.type, FullName[ObjectAt(r.from).name],
                           FullName[ObjectAt(r.to).name]) : r \in Bundled(i)} =
                      {Shape(w.type, w.source, w.dest) : w \in RelationsWritten(i)}
  BY DEF PublishedWritten, Published, Bundled
<1> DEFINE row(r) == [id |-> r.id, type |-> r.type,
                      source |-> FullName[ObjectAt(r.from).name],
                      dest |-> FullName[ObjectAt(r.to).name]]
           shape(w) == Shape(w.type, w.source, w.dest)
           named(r) == Shape(r.type, FullName[ObjectAt(r.from).name],
                             FullName[ObjectAt(r.to).name])
<1>1. \A r : shape(row(r)) = named(r)
  BY DEF Shape
<1>2. RelationsWritten(i) = {row(r) : r \in Bundled(i)}
  BY DEF RelationsWritten
<1> HIDE DEF row, shape, named
<1>3. {shape(w) : w \in RelationsWritten(i)} = {named(r) : r \in Bundled(i)}
  BY <1>1, <1>2
<1> QED
  BY <1>3 DEF shape, named

LEMMA PublishedIsWrittenNext == PublishedWritten'
BY PublishedIsWritten, PTL

\* A document is published as a whole.
PublishedWhole ==
  \A i \in Imports :
    At(i, "ok") =>
      /\ Wanted(import[i].doc) \subseteq Published(i)
      /\ import[i].anchors = <<>> => Published(i) = Wanted(import[i].doc)

LEMMA PublishedIsWhole == CompleteInv => PublishedWhole
<1> SUFFICES ASSUME CompleteInv, NEW i \in Imports, At(i, "ok")
             PROVE  /\ Wanted(import[i].doc) \subseteq Published(i)
                    /\ import[i].anchors = <<>> =>
                         Published(i) = Wanted(import[i].doc)
  BY DEF PublishedWhole
<1> DEFINE links == import[i].doc.relations
           shape(r) == Shape(r.type, ObjectAt(r.from).name, ObjectAt(r.to).name)
           named(s) == Shape(s.type, FullName[s.source], FullName[s.dest])
           tokens(l) == Shape(l.type, Tokens[l.source], Tokens[l.dest])
<1>1. \A n \in DOMAIN links : links[n].dest # NoKey
  <2>1. LinkedInv(i)
    BY DEF CompleteInv, StoryInv, DoneInv
  <2> QED
    BY <2>1, ImportAssumption DEF LinkedInv, Linked, FromLink, At
<1>2. Wanted(import[i].doc) = {named(s) : s \in DocumentShapes(import[i].doc)}
  <2>1. {links[k] : k \in {n \in DOMAIN links : links[n].dest # NoKey}} =
          {links[k] : k \in DOMAIN links}
    BY <1>1
  <2>2. \A l : named(tokens(l)) =
          Shape(l.type, FullName[Tokens[l.source]], FullName[Tokens[l.dest]])
    BY DEF Shape
  <2>3. Wanted(import[i].doc) = {named(tokens(l)) : l \in {links[k] : k \in DOMAIN links}}
    <3> HIDE DEF named, tokens
    <3> QED
      BY <2>1, <2>2 DEF Wanted
  <2>4. DocumentShapes(import[i].doc) = {tokens(links[k]) : k \in DOMAIN links}
    BY DEF DocumentShapes
  <2> HIDE DEF named, tokens, links
  <2> QED
    BY <2>3, <2>4
<1>3. Published(i) = {named(shape(r)) : r \in Bundled(i)}
  <2>1. \A r : named(shape(r)) =
          Shape(r.type, FullName[ObjectAt(r.from).name], FullName[ObjectAt(r.to).name])
    BY DEF Shape
  <2> HIDE DEF named, shape
  <2> QED
    BY <2>1 DEF Published, Bundled
<1>4. /\ Bundled(i) \subseteq Own(i)
      /\ DocumentShapes(import[i].doc) \subseteq {shape(r) : r \in Bundled(i)}
      /\ import[i].anchors = <<>> =>
           {shape(r) : r \in Own(i)} \subseteq DocumentShapes(import[i].doc)
  BY ShapesOfMembers DEF Bundled
<1> HIDE DEF shape, named
<1> QED
  BY <1>2, <1>3, <1>4

LEMMA PublishedIsWholeNext == CompleteInv' => PublishedWhole'
BY PublishedIsWhole, PTL

\* What an import shows does not change by what others do,
LEMMA ImportShowsSame ==
  ASSUME CompleteInv, CompleteInv', [Next]_vars, NEW i \in Imports,
         import'[i] = import[i]
  PROVE  /\ Phase(import'[i].at) = Phase(import[i].at)
         /\ Asked(i)' = Asked(i) /\ Published(i)' = Published(i)
<1>1. Asked(i)' = Asked(i)
  BY DEF Asked, At, Wanted, Shape
<1>2. CASE At(i, "ok")
  <2>1. RelationsWritten(i)' = RelationsWritten(i) /\ At(i, "ok")'
    BY <1>2, DoneSettles DEF Settled, At
  <2>2. Published(i)' = {Shape(w.type, w.source, w.dest) : w \in RelationsWritten(i)'}
    BY <2>1, PublishedIsWrittenNext DEF PublishedWritten
  <2>3. Published(i) = {Shape(w.type, w.source, w.dest) : w \in RelationsWritten(i)}
    BY <1>2, PublishedIsWritten DEF PublishedWritten
  <2> QED
    BY <1>1, <2>1, <2>2, <2>3
<1>3. CASE ~At(i, "ok")
  BY <1>1, <1>3 DEF Published, At
<1> QED
  BY <1>2, <1>3

\* nor does what an export shows.
LEMMA ExportShowsSame ==
  ASSUME ExportsInv, CompleteInv', [Next]_vars, NEW e \in Exports,
         export'[e] = export[e], finished'[e] = finished[e]
  PROVE  /\ Phase(export'[e].at) = Phase(export[e].at)
         /\ Sources(e)' = Sources(e) /\ Answer(e)' = Answer(e)
<1>1. \A i \in finished[e] : import'[i] = import[i]
  BY DoneSettles DEF ExportsInv, ExportInv, Settled
<1>2. Sources(e)' = Sources(e)
  BY <1>1 DEF Sources
<1>3. Answer(e)' = Answer(e)
  BY DEF Answer, Shape
<1> QED
  BY <1>2, <1>3

\* A step of an import that has begun.
Goes(i) ==
  /\ import'[i].doc = import[i].doc /\ import'[i].anchors = import[i].anchors
  /\ Phase(import[i].at) = "running"
  /\ Phase(import'[i].at) # "idle"

LEMMA ImportGoes ==
  ASSUME Inv, NEW i \in Imports, ImportStep(i), ~BeginImport(i)
  PROVE  Goes(i)
<1>1. /\ import = [j \in Imports |-> import[j]] /\ DOMAIN import[i] = Fields
  BY DEF Inv, CallsInv
<1>2. CASE CreateBundle(i)
  BY <1>1, <1>2 DEF CreateBundle, At, Goes, Phase, Fields
<1>3. CASE ImportPrefixes(i)
  BY <1>1, <1>3 DEF ImportPrefixes, At, Goes, Phase, Fields
<1>4. CASE ImportObject(i)
  BY <1>1, <1>4 DEF ImportObject, At, Goes, Phase, Fields
<1>5. CASE EndObjects(i)
  BY <1>1, <1>5 DEF EndObjects, At, Goes, Phase, Fields
<1>6. CASE LookupAnchor(i)
  BY <1>1, <1>6 DEF LookupAnchor, At, Goes, Phase, Fields
<1>7. CASE SkipAnchor(i)
  BY <1>1, <1>7 DEF SkipAnchor, At, Goes, Phase, Fields
<1>8. CASE RelateAnchor(i)
  BY <1>1, <1>8 DEF RelateAnchor, At, Goes, Phase, Fields
<1>9. CASE LinkAnchor(i)
  BY <1>1, <1>9 DEF LinkAnchor, At, Goes, Phase, Fields
<1>10. CASE EndAnchors(i)
  BY <1>1, <1>10 DEF EndAnchors, At, Goes, Phase, Fields
<1>11. CASE FindSource(i)
  BY <1>1, <1>11 DEF FindSource, At, Goes, Phase, Fields
<1>12. CASE FindDest(i)
  BY <1>1, <1>12 DEF FindDest, At, Goes, Phase, Fields
<1>13. CASE Relate(i)
  BY <1>1, <1>13 DEF Relate, At, Goes, Phase, Fields
<1>14. CASE LinkRelation(i)
  BY <1>1, <1>14 DEF LinkRelation, At, Goes, Phase, Fields
<1>15. CASE EndRelations(i)
  BY <1>1, <1>15 DEF EndRelations, At, Goes, Phase, Fields
<1>16. CASE RepeatInsert(i)
  <2>1. import[i].at \notin {"idle", "ok", "error"}
    BY <1>16 DEF RepeatInsert, Insert, At
  <2> QED
    BY <1>1, <1>16, <2>1 DEF RepeatInsert, Goes, Phase, Fields
<1>17. CASE ImportFails(i)
  BY <1>1, <1>17 DEF ImportFails, Goes, Phase, Fields
<1> QED
  BY <1>2, <1>3, <1>4, <1>5, <1>6, <1>7, <1>8, <1>9, <1>10,
     <1>11, <1>12, <1>13, <1>14, <1>15, <1>16, <1>17 DEF ImportStep

LEMMA ImportMaps ==
  ASSUME ExportsInv, CompleteInv', NEW i \in Imports, Import(i)
  PROVE  Atomic!Next \/ UNCHANGED Atomic!vars
<1>1. CompleteInv /\ Inv /\ ImportStep(i) /\ [Next]_vars
  BY DEF ExportsInv, CompleteInv, Import, Next
<1>2. \A j \in Imports \ {i} : import'[j] = import[j]
  BY <1>1, ImportOwn DEF OwnStep
<1>3. \A j \in Imports \ {i} :
        /\ Phase(import'[j].at) = Phase(import[j].at)
        /\ Asked(j)' = Asked(j) /\ Published(j)' = Published(j)
  BY <1>1, <1>2, ImportShowsSame
<1>4. \A e \in Exports :
        /\ Phase(export'[e].at) = Phase(export[e].at)
        /\ Sources(e)' = Sources(e) /\ Answer(e)' = Answer(e)
  BY <1>1, ExportShowsSame DEF Import
<1>5. UNCHANGED Atomic!exports
  BY <1>4 DEF Atomic!exports
<1>6. CASE BeginImport(i)
  <2>1. PICK doc, extern, anchors :
          /\ doc \in Documents
          /\ import' = [import EXCEPT ![i].at = "bundle", ![i].doc = doc,
                          ![i].extern = extern, ![i].anchors = anchors]
    BY <1>6 DEF BeginImport
  <2>2. /\ import[i].at = "idle" /\ import'[i].at = "bundle"
        /\ import'[i].doc = doc /\ import'[i].anchors = anchors
    BY <1>1, <1>6, <2>1 DEF Inv, CallsInv, Fields, BeginImport, At
  <2>3. Asked(i)' = [relations |-> Wanted(doc), anchors |-> Len(anchors)]
    BY <2>2 DEF Asked, At, Wanted, Shape
  <2>4. Published(i)' = None /\ Published(i) = None
    BY <2>2 DEF Published, At
  <2>5. Phase(import[i].at) = "idle" /\ Phase(import'[i].at) = "running"
    BY <2>2 DEF Phase
  <2>6. Asked(i)' \in [relations : {Wanted(d) : d \in Documents}, anchors : Nat]
    <3>1. Len(anchors) \in Nat
      BY <2>2 DEF CompleteInv, StoryInv, AnchorsInv
    <3> QED
      BY <2>1, <2>3, <3>1
  <2>7. Atomic!BeginImport(i)
    BY <1>3, <1>5, <2>3, <2>4, <2>5, <2>6 DEF Atomic!BeginImport
  <2> QED
    BY <2>7 DEF Atomic!Next
<1>7. CASE ~BeginImport(i)
  <2>1. Goes(i)
    BY <1>1, <1>7, ImportGoes
  <2>2. import[i].at \notin {"idle", "ok", "error"} /\ import'[i].at # "idle"
    BY <2>1 DEF Goes, Phase
  <2>3. Asked(i) = [relations |-> Wanted(import[i].doc),
                    anchors |-> Len(import[i].anchors)]
    BY <2>2 DEF Asked, At
  <2>4. Asked(i)' = Asked(i)
    BY <2>1, <2>2, <2>3 DEF Goes, Asked, At, Wanted, Shape
  <2>5. Published(i) = None
    BY <2>2 DEF Published, At
  <2>6. CASE import'[i].at = "ok"
    <3>1. Wanted(import'[i].doc) \subseteq Published(i)'
          /\ (import'[i].anchors = <<>> => Published(i)' = Wanted(import'[i].doc))
      BY <2>6, PublishedIsWholeNext DEF PublishedWhole, At, Wanted, Shape
    <3>2. Wanted(import'[i].doc) = Wanted(import[i].doc)
      BY <2>1 DEF Goes
    <3>3. /\ Asked(i).relations \subseteq Published(i)'
          /\ Asked(i).anchors = 0 => Published(i)' = Asked(i).relations
      <4>1. Len(import[i].anchors) = 0 => import[i].anchors = <<>>
        BY <1>1 DEF CompleteInv, StoryInv, AnchorsInv
      <4> QED
        BY <2>1, <2>3, <3>1, <3>2, <4>1 DEF Goes
    <3>4. Phase(import[i].at) = "running" /\ Phase(import'[i].at) = "ok"
      BY <2>1, <2>6 DEF Goes, Phase
    <3>5. Atomic!Publish(i)
      BY <1>3, <1>5, <2>4, <3>3, <3>4 DEF Atomic!Publish
    <3> QED
      BY <3>5 DEF Atomic!Next
  <2>7. CASE import'[i].at = "error"
    <3>1. Published(i)' = None
      BY <2>7 DEF Published, At
    <3>2. Phase(import[i].at) = "running" /\ Phase(import'[i].at) = "error"
      BY <2>1, <2>7 DEF Goes, Phase
    <3>3. Atomic!FailImport(i)
      BY <1>3, <1>5, <2>4, <2>5, <3>1, <3>2 DEF Atomic!FailImport
    <3> QED
      BY <3>3 DEF Atomic!Next
  <2>8. CASE import'[i].at \notin {"ok", "error"}
    <3>1. Published(i)' = None
      BY <2>8 DEF Published, At
    <3>2. Phase(import'[i].at) = Phase(import[i].at)
      BY <2>2, <2>8 DEF Phase
    <3>3. UNCHANGED Atomic!imports
      BY <1>3, <2>4, <2>5, <3>1, <3>2 DEF Atomic!imports
    <3> QED
      BY <1>5, <3>3 DEF Atomic!vars
  <2> QED
    BY <2>6, <2>7, <2>8
<1> QED
  BY <1>6, <1>7

LEMMA ExportMaps ==
  ASSUME ExportsInv, ExportsInv', NEW e \in Exports, Export(e)
  PROVE  Atomic!Next \/ UNCHANGED Atomic!vars
<1>1. CompleteInv /\ CompleteInv' /\ [Next]_vars /\ ExportInv(e) /\ ExportInv(e)'
  BY DEF ExportsInv, Next
<1>2. import' = import /\ ExportStep(e)
  BY ExportQuiet DEF Export
<1>3. \A i \in Imports :
        /\ Phase(import'[i].at) = Phase(import[i].at)
        /\ Asked(i)' = Asked(i) /\ Published(i)' = Published(i)
  BY <1>1, <1>2, ImportShowsSame
<1>4. \A f \in Exports \ {e} :
        /\ Phase(export'[f].at) = Phase(export[f].at)
        /\ Sources(f)' = Sources(f) /\ Answer(f)' = Answer(f)
  BY <1>1, ExportKeepsOthers, ExportShowsSame
<1>5. UNCHANGED Atomic!imports
  BY <1>3 DEF Atomic!imports
<1>6. CASE BeginExport(e)
  <2>1. export[e].at = "idle" /\ export'[e].at = "objects"
    BY <1>1, <1>6 DEF BeginExport, ExportsInv, BeginsInv, ExportInv, ExportFields
  <2>2. finished'[e] = {i \in Imports : At(i, "ok")}
    BY <2>1 DEF Export, ExportsInv
  <2>3. Sources(e)' \in SUBSET {i \in Imports : At(i, "ok")}
    BY <2>2 DEF Sources
  <2>4. {i \in Imports : At(i, "ok")} \subseteq
          {i \in Imports : [j \in Imports |-> Phase(import[j].at)][i] = "ok"}
    BY DEF At, Phase
  <2>5. Answer(e)' = None /\ Answer(e) = None
    BY <2>1 DEF Answer
  <2>6. Phase(export[e].at) = "idle" /\ Phase(export'[e].at) = "running"
    BY <2>1 DEF Phase
  <2>7. Atomic!BeginExport(e)
    BY <1>4, <1>5, <2>3, <2>4, <2>5, <2>6 DEF Atomic!BeginExport
  <2> QED
    BY <2>7 DEF Atomic!Next
<1>7. CASE ~BeginExport(e)
  <2>1. /\ export[e].at \in {"objects", "relations", "write"}
        /\ export'[e].bundles = export[e].bundles
        /\ export'[e].at \in {"objects", "relations", "write", "ok", "error"}
    <3>1. export = [f \in Exports |-> export[f]] /\ DOMAIN export[e] = ExportFields
      BY <1>1 DEF ExportsInv, ExportInv, BeginsInv
    <3>2. CASE ExportObjects(e)
      BY <3>1, <3>2 DEF ExportObjects, ExportFields
    <3>3. CASE ExportRelations(e)
      BY <3>1, <3>3 DEF ExportRelations, ExportFields
    <3>4. CASE WriteRelations(e)
      BY <3>1, <3>4 DEF WriteRelations, ExportFields
    <3>5. CASE ExportFails(e)
      BY <3>1, <3>5 DEF ExportFails, ExportFields
    <3> QED
      BY <1>2, <1>7, <3>2, <3>3, <3>4, <3>5 DEF ExportStep
  <2>2. finished'[e] = finished[e]
    BY <2>1 DEF Export, ExportsInv
  <2>3. Sources(e)' = Sources(e)
    BY <1>2, <2>1, <2>2 DEF Sources
  <2>4. Phase(export[e].at) = "running" /\ Answer(e) = None
    BY <2>1 DEF Phase, Answer
  <2>5. CASE export'[e].at = "ok"
    <3>1. ASSUME NEW i \in Sources(e)
          PROVE  i \in Imports /\ Answer(e)' = Published(i)'
      <4>1. i \in finished'[e] /\ export'[e].bundles = <<import'[i].bundle>>
        BY <1>2, <2>1, <2>2 DEF Sources
      <4>2. Exported(e, i)' /\ At(i, "ok")' /\ i \in Imports
        BY <1>1, <2>5, <4>1 DEF ExportInv
      <4>3. Answer(e)' = {Shape(w.type, w.source, w.dest) : w \in RelationsWritten(i)'}
        BY <2>5, <4>2 DEF Answer, Exported, Shape
      <4> QED
        BY <4>2, <4>3, PublishedIsWrittenNext DEF PublishedWritten, Shape
    <3>2. \A i \in Sources(e) : i \in Imports /\ Answer(e)' = Published(i)
      BY <1>3, <3>1
    <3>3. Phase(export'[e].at) = "ok"
      BY <2>5 DEF Phase
    <3>4. Atomic!Answer(e)
      BY <1>4, <1>5, <2>3, <2>4, <3>2, <3>3 DEF Atomic!Answer
    <3> QED
      BY <3>4 DEF Atomic!Next
  <2>6. CASE export'[e].at = "error"
    <3>1. Phase(export'[e].at) = "error" /\ Answer(e)' = None
      BY <2>6 DEF Phase, Answer
    <3>2. Atomic!FailExport(e)
      BY <1>4, <1>5, <2>3, <2>4, <3>1 DEF Atomic!FailExport
    <3> QED
      BY <3>2 DEF Atomic!Next
  <2>7. CASE export'[e].at \notin {"ok", "error"}
    <3>1. Phase(export'[e].at) = "running" /\ Answer(e)' = None
      BY <2>1, <2>7 DEF Phase, Answer
    <3>2. UNCHANGED Atomic!exports
      BY <1>4, <2>3, <2>4, <3>1 DEF Atomic!exports
    <3> QED
      BY <1>5, <3>2 DEF Atomic!vars
  <2> QED
    BY <2>5, <2>6, <2>7
<1> QED
  BY <1>6, <1>7

\* A step that neither an import nor an export takes.
LEMMA QuietMaps ==
  ASSUME ExportsInv, CompleteInv', [Next]_vars, UNCHANGED <<import, export, finished>>
  PROVE  UNCHANGED Atomic!vars
<1>1. \A i \in Imports :
        /\ Phase(import'[i].at) = Phase(import[i].at)
        /\ Asked(i)' = Asked(i) /\ Published(i)' = Published(i)
  BY ImportShowsSame DEF ExportsInv
<1>2. \A e \in Exports :
        /\ Phase(export'[e].at) = Phase(export[e].at)
        /\ Sources(e)' = Sources(e) /\ Answer(e)' = Answer(e)
  BY ExportShowsSame
<1> QED
  BY <1>1, <1>2 DEF Atomic!vars, Atomic!imports, Atomic!exports

LEMMA InitMaps == Init => Atomic!Init
<1> SUFFICES ASSUME Init PROVE Atomic!Init
  OBVIOUS
<1>1. /\ \A i \in Imports : import[i].at = "idle"
      /\ \A e \in Exports : export[e].at = "idle" /\ finished[e] = {}
  BY DEF Init, ImportInit, ExportInit
<1>2. \A i \in Imports :
        Phase(import[i].at) = "idle" /\ Asked(i) = None /\ Published(i) = None
  BY <1>1 DEF Phase, Asked, Published, At
<1>3. \A e \in Exports :
        Phase(export[e].at) = "idle" /\ Sources(e) = {} /\ Answer(e) = None
  BY <1>1 DEF Phase, Sources, Answer
<1> QED
  BY <1>2, <1>3 DEF Atomic!Init

\* import_document_json and export_bundle_json implement the indivisible import
\* and export: the step that ends an import publishes the document, the one that
\* ends an export answers, and all others, those of cpl_create_object among
\* them, are stutters.
THEOREM DocumentsAreAtomic == Spec => IsAtomicDocuments
<1>1. ExportsInv /\ ExportsInv' /\ [Next]_vars => [Atomic!Next]_(Atomic!vars)
  <2> SUFFICES ASSUME ExportsInv, ExportsInv', [Next]_vars
               PROVE  Atomic!Next \/ UNCHANGED Atomic!vars
    OBVIOUS
  <2>1. CompleteInv'
    BY DEF ExportsInv
  <2>2. ASSUME NEW i \in Imports, Import(i)
        PROVE  Atomic!Next \/ UNCHANGED Atomic!vars
    BY <2>1, <2>2, ImportMaps
  <2>3. ASSUME NEW e \in Exports, Export(e)
        PROVE  Atomic!Next \/ UNCHANGED Atomic!vars
    BY <2>3, ExportMaps
  <2>4. ASSUME NEW c \in Creators, CreateObject(c)
        PROVE  UNCHANGED Atomic!vars
    BY <2>1, <2>4, QuietMaps DEF CreateObject
  <2>5. CASE UNCHANGED vars
    BY <2>1, <2>5, QuietMaps DEF vars
  <2> QED
    BY <2>2, <2>3, <2>4, <2>5 DEF Next
<1> QED
  BY InitMaps, <1>1, ExportsInvariance, PTL DEF Spec, IsAtomicDocuments, Atomic!Spec

=============================================================================
