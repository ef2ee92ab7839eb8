--------------------------- MODULE ImportDocument ---------------------------
(***************************************************************************)
(* import_document_json: a Prov-JSON document becomes a bundle.            *)
(*                                                                         *)
(* The bundle, each object, each relation and each membership is an INSERT *)
(* of its own.  The ids of the objects are kept in lookup_tbl, under the   *)
(* keys of the document.  The first failure ends the import, and nothing   *)
(* undoes what it has inserted ("Delete bundle?").  When the link breaks,  *)
(* an INSERT that the server has executed is executed once more.           *)
(*                                                                         *)
(* A document is the sequence of its objects and the sequence of its       *)
(* relations, in the order of the import.  What is malformed beyond a      *)
(* missing end fails like a statement does.  Properties and prefixes are   *)
(* not kept: their statements are those of other tables.                   *)
(***************************************************************************)
EXTENDS ProvStore, Sequences

CONSTANTS
  Imports,    \* the calls of import_document_json
  Keys,       \* the names of objects in documents: "prefix:name"
  NoKey,      \* the missing end of a relation
  Tokens,     \* name_to_tokens: the stored name of a key
  BundleName, \* the stored name of the bundles
  Documents,  \* the documents that are imported
  None,       \* no id
  MaxRepeats  \* bound: the INSERTs of an import that are executed again

VARIABLE
  import  \* import[i]: the arguments and the local variables of call i

Entry == [key : Keys, type : ObjectTypes \ {"bundle"}]
Link == [type : RelationTypes \ {"bundleRelation"},
         source : Keys, dest : Keys \cup {NoKey}]
Document == [objects : Seq(Entry), relations : Seq(Link)]

ASSUME ImportAssumption ==
  /\ Imports \subseteq Makers
  /\ NoKey \notin Keys
  /\ Tokens \in [Keys -> Stored \ {BundleName}]
  /\ BundleName \in Stored
  /\ Documents \subseteq Document
  /\ None \notin Nat
  /\ MaxRepeats \in Nat

ImportInit ==
  import = [i \in Imports |->
    [at |-> "idle", doc |-> [objects |-> <<>>, relations |-> <<>>],
     extern |-> FALSE, anchors |-> <<>>, pos |-> 1, bundle |-> None,
     table |-> <<>>, source |-> None, dest |-> None, relation |-> None,
     repeats |-> 0]]

\* Control is at the label.
At(i, label) == import[i].at = label

\* Faulty variant of More: the last item is left out.
MoreButLast(i, items) == import[i].pos < Len(items)

\* Has the loop at hand come to an item, and to which?
More(i, items) == import[i].pos <= Len(items)
Item(i, items) == items[import[i].pos]

-----------------------------------------------------------------------------
(* validate_json: the names and the relations between them form a DAG.     *)

\* The edges validate_json hands to boost::topological_sort.
Edges(doc) ==
  {<<r.source, r.dest>> :
     r \in {doc.relations[k] : k \in {n \in DOMAIN doc.relations :
                                        doc.relations[n].dest # NoKey}}}

\* Every set of nodes has one without a successor in the set: no back edge.
IsDag(edges) ==
  \A nodes \in SUBSET {e[1] : e \in edges} :
    nodes # {} => \E n \in nodes : \A e \in edges :
                    e[1] = n => e[2] \notin nodes

Validates(doc) == IsDag(Edges(doc))

-----------------------------------------------------------------------------
(* The steps of the import.                                                *)

\* The anchors: objects of the database, under the keys of the document they
\* are "identical" to.
AnchorLists(doc) ==
  {<<>>} \cup
  {<<[id |-> o.id, key |-> doc.objects[k].key]>> :
     o \in {p \in objects : p.type # "bundle"}, k \in DOMAIN doc.objects}

BeginImport(i) ==
  /\ At(i, "idle")
  /\ \E doc \in Documents, extern \in BOOLEAN : \E anchors \in AnchorLists(doc) :
       import' = [import EXCEPT ![i].at = "bundle", ![i].doc = doc,
                    ![i].extern = extern, ![i].anchors = anchors]
  /\ UNCHANGED tables

\* The INSERT the import has come to.
Insert(i) ==
  \/ /\ At(i, "bundle")
     /\ InsertObject(BundleName, "bundle", i)
  \/ /\ At(i, "objects") /\ More(i, import[i].doc.objects)
     /\ InsertObject(Tokens[Item(i, import[i].doc.objects).key],
                     Item(i, import[i].doc.objects).type, i)
  \/ /\ At(i, "anchor")
     /\ InsertRelation(import[i].source, Item(i, import[i].anchors).id,
                       "alternateOf", i)
  \/ /\ At(i, "relate")
     /\ InsertRelation(import[i].source, import[i].dest,
                       Item(i, import[i].doc.relations).type, i)
  \/ /\ import[i].at \in {"linkAnchor", "link"}
     /\ InsertRelation(import[i].bundle, import[i].relation, "bundleRelation", i)

CreateBundle(i) ==
  /\ At(i, "bundle")
  /\ Insert(i)
  /\ import' = [import EXCEPT ![i].at = "prefixes", ![i].bundle = nextObject]

\* import_bundle_prefixes_json.
ImportPrefixes(i) ==
  /\ At(i, "prefixes")
  /\ import' = [import EXCEPT ![i].at = "objects", ![i].pos = 1]
  /\ UNCHANGED tables

\* lookup_tbl.emplace: the first object of a key stays.
Emplace(table, key, id) ==
  [k \in DOMAIN table \cup {key} |->
     IF k \in DOMAIN table THEN table[k] ELSE id]

ImportObject(i) ==
  /\ At(i, "objects") /\ More(i, import[i].doc.objects)
  /\ Insert(i)
  /\ import' = [import EXCEPT
       ![i].table = Emplace(@, Item(i, import[i].doc.objects).key, nextObject),
       ![i].pos = @ + 1]

EndObjects(i) ==
  /\ At(i, "objects") /\ ~More(i, import[i].doc.objects)
  /\ import' = [import EXCEPT ![i].at = "anchors", ![i].pos = 1]
  /\ UNCHANGED tables

\* The anchor's key is looked up in the database, whatever the type.
LookupAnchor(i) ==
  /\ At(i, "anchors") /\ More(i, import[i].anchors)
  /\ \E id \in LookupObject(Tokens[Item(i, import[i].anchors).key], AnyType) :
       import' = [import EXCEPT ![i].at = "anchor", ![i].source = id]
  /\ UNCHANGED tables

\* The lookup of an anchor fails, for whatever reason: the anchor is skipped.
SkipAnchor(i) ==
  /\ At(i, "anchors") /\ More(i, import[i].anchors)
  /\ import' = [import EXCEPT ![i].pos = @ + 1]
  /\ UNCHANGED tables

RelateAnchor(i) ==
  /\ At(i, "anchor")
  /\ Insert(i)
  /\ import' = [import EXCEPT ![i].at = "linkAnchor",
                              ![i].relation = nextRelation]

LinkAnchor(i) ==
  /\ At(i, "linkAnchor")
  /\ Insert(i)
  /\ import' = [import EXCEPT ![i].at = "anchors", ![i].pos = @ + 1,
                              ![i].source = None, ![i].relation = None]

EndAnchors(i) ==
  /\ At(i, "anchors") /\ ~More(i, import[i].anchors)
  /\ import' = [import EXCEPT ![i].at = "relations", ![i].pos = 1]
  /\ UNCHANGED tables

\* Faulty variant of Resolve: the database is asked first.
ResolveInDatabase(i, key, type) ==
  IF key # NoKey /\ LookupObject(Tokens[key], type) # {}
  THEN LookupObject(Tokens[key], type)
  ELSE IF key \in DOMAIN import[i].table THEN {import[i].table[key]} ELSE {}

\* An end of a relation: an object of the document, or, with
\* CPL_J_EXTERN_OBJ, the latest one of the name and type in the database.
Resolve(i, key, type) ==
  IF key \in DOMAIN import[i].table THEN {import[i].table[key]}
  ELSE IF import[i].extern /\ key # NoKey THEN LookupObject(Tokens[key], type)
  ELSE {}

FindSource(i) ==
  /\ At(i, "relations") /\ More(i, import[i].doc.relations)
  /\ LET link == Item(i, import[i].doc.relations)
     IN  \E id \in Resolve(i, link.source, EndTypes(link.type)[1]) :
           import' = [import EXCEPT ![i].at = "dest", ![i].source = id]
  /\ UNCHANGED tables

FindDest(i) ==
  /\ At(i, "dest")
  /\ LET link == Item(i, import[i].doc.relations)
     IN  \E id \in Resolve(i, link.dest, EndTypes(link.type)[2]) :
           import' = [import EXCEPT ![i].at = "relate", ![i].dest = id]
  /\ UNCHANGED tables

Relate(i) ==
  /\ At(i, "relate")
  /\ Insert(i)
  /\ import' = [import EXCEPT ![i].at = "link", ![i].relation = nextRelation]

\* Faulty variant of LinkRelation: its result is not looked at.
LinkRelationUnchecked(i) ==
  /\ At(i, "link")
  /\ Insert(i) \/ UNCHANGED tables
  /\ import' = [import EXCEPT ![i].at = "relations", ![i].pos = @ + 1,
         ![i].source = None, ![i].dest = None, ![i].relation = None]

LinkRelation(i) ==
  /\ At(i, "link")
  /\ Insert(i)
  /\ import' = [import EXCEPT ![i].at = "relations", ![i].pos = @ + 1,
         ![i].source = None, ![i].dest = None, ![i].relation = None]

EndRelations(i) ==
  /\ At(i, "relations") /\ ~More(i, import[i].doc.relations)
  /\ import' = [import EXCEPT ![i].at = "ok"]
  /\ UNCHANGED tables

\* SQLSTATE 08S01, although the server has executed the INSERT: goto retry.
RepeatInsert(i) ==
  /\ import[i].repeats < MaxRepeats
  /\ Insert(i)
  /\ import' = [import EXCEPT ![i].repeats = @ + 1]

\* An end is missing, a statement fails (its row may be there), a debug
\* build's assertion fails, or the process dies.
ImportFails(i) ==
  /\ import[i].at \notin {"idle", "ok", "error"}
  /\ Insert(i) \/ UNCHANGED tables
  /\ import' = [import EXCEPT ![i].at = "error"]

ImportStep(i) ==
  \/ BeginImport(i) \/ CreateBundle(i) \/ ImportPrefixes(i)
  \/ ImportObject(i) \/ EndObjects(i)
  \/ LookupAnchor(i) \/ SkipAnchor(i) \/ RelateAnchor(i) \/ LinkAnchor(i)
  \/ EndAnchors(i)
  \/ FindSource(i) \/ FindDest(i) \/ Relate(i) \/ LinkRelation(i)
  \/ EndRelations(i)
  \/ RepeatInsert(i) \/ ImportFails(i)

=============================================================================
