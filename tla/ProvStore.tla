----------------------------- MODULE ProvStore -----------------------------
(***************************************************************************)
(* The provenance graph in the database: the tables cpl_objects and        *)
(* cpl_relations, and the statements of the ODBC backend on them.  Every   *)
(* statement is executed by itself, in autocommit mode, so each of the     *)
(* operators below is indivisible, and nothing larger is.                  *)
(*                                                                         *)
(* Membership in a bundle is a relation, too: of type bundleRelation, from *)
(* the bundle's object id to the id of the relation that is a member.      *)
(***************************************************************************)
EXTENDS Naturals

CONSTANTS
  Stored,  \* the <<prefix, name>> pairs of cpl_objects
  Makers,  \* history: the calls that add rows
  AnyType  \* CPL_NONE passed as a type

VARIABLES
  objects,      \* the rows of cpl_objects
  relations,    \* the rows of cpl_relations
  nextObject,   \* the sequence that numbers the objects
  nextRelation  \* the sequence that numbers the relations

tables == <<objects, relations, nextObject, nextRelation>>

ObjectTypes == {"entity", "activity", "agent", "bundle"}

EntityRelations == {"alternateOf", "derivedByInsertionFrom",
  "derivedByRemovalFrom", "hadMember", "hadDictionaryMember",
  "specializationOf", "wasDerivedFrom"}

RelationTypes == EntityRelations \cup
  {"wasInfluencedBy", "wasGeneratedBy", "wasInvalidatedBy",
   "wasAttributedTo", "used", "wasInformedBy", "wasStartedBy", "wasEndedBy",
   "hadPlan", "wasAssociatedWith", "actedOnBehalfOf", "inBundle",
   "bundleRelation"}

\* rdata_array: the types of the two ends, as the import looks them up.
EndTypes(type) ==
  CASE type \in EntityRelations -> <<"entity", "entity">>
    [] type \in {"wasGeneratedBy", "wasInvalidatedBy"} -> <<"entity", "activity">>
    [] type = "wasAttributedTo" -> <<"entity", "agent">>
    [] type \in {"used", "wasStartedBy", "wasEndedBy"} -> <<"activity", "entity">>
    [] type = "wasInformedBy" -> <<"activity", "activity">>
    [] type = "hadPlan" -> <<"agent", "entity">>
    [] type = "wasAssociatedWith" -> <<"activity", "agent">>
    [] type = "actedOnBehalfOf" -> <<"agent", "agent">>
    [] type = "inBundle" -> <<"bundle", "entity">>
    [] OTHER -> <<AnyType, AnyType>>

TablesInit ==
  /\ objects = {}
  /\ relations = {}
  /\ nextObject = 1
  /\ nextRelation = 1

\* INSERT INTO cpl_objects ... RETURNING id.
InsertObject(n, t, maker) ==
  /\ objects' = objects \cup
       {[id |-> nextObject, name |-> n, type |-> t, maker |-> maker]}
  /\ nextObject' = nextObject + 1
  /\ UNCHANGED <<relations, nextRelation>>

\* INSERT INTO cpl_relations ... RETURNING id: neither end is looked at.
InsertRelation(from, to, t, maker) ==
  /\ relations' = relations \cup
       {[id |-> nextRelation, from |-> from, to |-> to, type |-> t,
         maker |-> maker]}
  /\ nextRelation' = nextRelation + 1
  /\ UNCHANGED <<objects, nextObject>>

\* Faulty variant of LookupObject: the order is ascending.
LookupOldest(n, t) ==
  LET rows == {o \in objects : o.name = n /\ t \in {o.type, AnyType}}
  IN  {o.id : o \in {p \in rows : \A q \in rows : q.id >= p.id}}

\* SELECT ... ORDER BY creation_time DESC LIMIT 1: one id, or none.
LookupObject(n, t) ==
  LET rows == {o \in objects : o.name = n /\ t \in {o.type, AnyType}}
  IN  {o.id : o \in {p \in rows : \A q \in rows : q.id <= p.id}}

\* get_bundle_relations: a join without DISTINCT. A relation that is a member
\* twice is fetched twice, and here is one row.
BundleRelations(bundle) ==
  {r \in relations : \E member \in relations :
     member.from = bundle /\ member.type = "bundleRelation" /\ member.to = r.id}

\* Faulty variant of BundleObjects: the sources only.
BundleSources(bundle) ==
  {o \in objects : \E r \in BundleRelations(bundle) : o.id = r.from}

\* get_bundle_objects: the ends of the bundle's relations.
BundleObjects(bundle) ==
  {o \in objects : \E r \in BundleRelations(bundle) : o.id \in {r.from, r.to}}

=============================================================================
