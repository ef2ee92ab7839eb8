----------------------------- MODULE Documents -----------------------------
(***************************************************************************)
(* Imports and exports of documents, and callers of cpl_create_object,     *)
(* that work on one database at the same time.                             *)
(***************************************************************************)
EXTENDS ImportDocument, ExportBundle

CONSTANTS
  Creators,   \* the calls of cpl_create_object
  Created,    \* the <<name, type>> pairs they ask for
  MaxObjects  \* bound: the objects that creators bring the database to

VARIABLE
  finished  \* history: finished[e]: the imports done when export e began

vars == <<tables, import, export, finished>>

ASSUME DocumentsAssumption ==
  /\ Makers = Imports \cup Creators
  /\ Imports \cap Creators = {}
  /\ Created \subseteq Stored \X ObjectTypes
  /\ FullName \in [Stored -> Keys \cup {BundleName}]
  /\ \A n \in Stored : FullName[n] \in Keys => Tokens[FullName[n]] = n

Init ==
  /\ TablesInit
  /\ ImportInit
  /\ ExportInit
  /\ finished = [e \in Exports |-> {}]

Import(i) == ImportStep(i) /\ UNCHANGED <<export, finished>>

Export(e) ==
  /\ ExportStep(e)
  /\ finished' = IF export[e].at = "idle"
                 THEN [finished EXCEPT ![e] = {i \in Imports : At(i, "ok")}]
                 ELSE finished
  /\ UNCHANGED import

CreateObject(c) ==
  /\ nextObject <= MaxObjects
  /\ \E nt \in Created : InsertObject(nt[1], nt[2], c)
  /\ UNCHANGED <<import, export, finished>>

Next ==
  \/ \E i \in Imports : Import(i)
  \/ \E e \in Exports : Export(e)
  \/ \E c \in Creators : CreateObject(c)

Spec == Init /\ [][Next]_vars

-----------------------------------------------------------------------------
(* Properties.                                                             *)

Labels ==
  {"idle", "bundle", "prefixes", "objects", "anchors", "anchor", "linkAnchor",
   "relations", "dest", "relate", "link", "ok", "error"}

ObjectIds == {o.id : o \in objects}
RelationIds == {r.id : r \in relations}

\* The sequences number the rows without gaps, and what rows hold of ids is in
\* the tables.
TablesOK ==
  /\ \A o \in objects : o.name \in Stored /\ o.type \in ObjectTypes /\ o.maker \in Makers
  /\ \A r \in relations :
       /\ r.type \in RelationTypes /\ r.maker \in Makers
       /\ r.from \in ObjectIds
       /\ r.to \in IF r.type = "bundleRelation" THEN RelationIds ELSE ObjectIds
  /\ ObjectIds = 1..(nextObject - 1) /\ Cardinality(objects) = nextObject - 1
  /\ RelationIds = 1..(nextRelation - 1) /\ Cardinality(relations) = nextRelation - 1

ImportOK(i) ==
  /\ import[i].at \in Labels
  /\ import[i].pos \in Nat \ {0}
  /\ {import[i].bundle, import[i].source, import[i].dest} \subseteq
       ObjectIds \cup {None}
  /\ import[i].relation \in RelationIds \cup {None}
  /\ import[i].repeats \in 0..MaxRepeats
  /\ DOMAIN import[i].table \subseteq Keys
  /\ \A k \in DOMAIN import[i].table : import[i].table[k] \in ObjectIds

ExportOK(e) ==
  /\ export[e].at \in {"idle", "objects", "relations", "write", "ok", "error"}
  /\ export[e].at # "idle" => export[e].pos \in DOMAIN export[e].bundles
  /\ export[e].table \subseteq ObjectIds
  /\ export[e].rows \subseteq relations

\* Types, and the ids: what the calls keep of ids is in the tables, and an
\* export stays within its bundles.
TypeOK ==
  /\ TablesOK
  /\ \A i \in Imports : ImportOK(i)
  /\ \A e \in Exports : ExportOK(e)
  /\ finished \in [Exports -> SUBSET Imports]

\* The row of an id.
ObjectAt(id) == CHOOSE o \in objects : o.id = id

\* The rows that import i has added to cpl_relations for its document.
Own(i) == {r \in relations : r.maker = i /\ r.type # "bundleRelation"}

\* The names and the type of a relation, wherever it is.
Shape(type, source, dest) == [type |-> type, source |-> source, dest |-> dest]

DocumentShapes(doc) ==
  {Shape(doc.relations[k].type, Tokens[doc.relations[k].source],
         Tokens[doc.relations[k].dest]) : k \in DOMAIN doc.relations}

\* Imports of the same names do not mix: a relation of a document imported
\* without CPL_J_EXTERN_OBJ and without anchors joins two objects of that same
\* import, whatever else is in the database or gets there meanwhile.
ImportsStayApart ==
  \A i \in Imports :
    ~import[i].extern /\ import[i].anchors = <<>> =>
      \A r \in Own(i) : {ObjectAt(r.from).maker, ObjectAt(r.to).maker} = {i}

\* A relation that an import has added is a member of its bundle, but for one
\* with each broken link, and the last one of an import that is between the two
\* INSERTs or failed there; and whatever fails, the bundle has no member of
\* another import.
MembersOfBundle ==
  \A i \in Imports :
    import[i].bundle # None =>
      LET members == BundleRelations(import[i].bundle)
          last == IF import[i].at \in {"linkAnchor", "link", "error"} THEN 1 ELSE 0
      IN  /\ members \subseteq Own(i)
          /\ Cardinality(Own(i) \ members) <= import[i].repeats + last

\* An import that answers CPL_OK has stored the document, and nothing else:
\* each of its objects by name and type, and each of its relations between the
\* names it says, the relations to anchors coming on top.  However often the
\* link broke meanwhile, its bundle has each relation once.
ImportIsComplete ==
  \A i \in Imports :
    At(i, "ok") =>
      LET doc == import[i].doc
          members == BundleRelations(import[i].bundle)
          shapes == {Shape(r.type, ObjectAt(r.from).name, ObjectAt(r.to).name) :
                       r \in Own(i)}
      IN  /\ {<<o.name, o.type>> : o \in {p \in objects : p.maker = i}} =
               {<<Tokens[doc.objects[k].key], doc.objects[k].type>> :
                  k \in DOMAIN doc.objects} \cup {<<BundleName, "bundle">>}
          /\ DocumentShapes(doc) \subseteq shapes
          /\ Cardinality(members) - Len(doc.relations) \in 0..Len(import[i].anchors)
          /\ import[i].anchors = <<>> => shapes = DocumentShapes(doc)

\* A document that validate_json accepts stays acyclic: the relations in its
\* bundle form a DAG of object ids, if it is imported without anchors and no
\* object from outside the document comes in.
ValidStaysAcyclic ==
  \A i \in Imports :
    /\ Validates(import[i].doc)
    /\ ~import[i].extern
    /\ import[i].anchors = <<>>
    => IsDag({<<r.from, r.to>> : r \in Own(i)})

\* The ends of a bundle's relations.
Ends(bundle) ==
  {ObjectAt(id) : id \in UNION {{r.from, r.to} : r \in BundleRelations(bundle)}}

\* Exporting a bundle gives back the relations of the document it was imported
\* from, if the import was done before the export began, and no others if it
\* had no anchors; and the objects that are exported are the ends of the
\* relations, but for ends that are bundles, which CPL_J_EXTERN_OBJ and anchors
\* can bring in.
RoundTrip ==
  \A e \in Exports, i \in Imports :
    /\ export[e].at = "ok"
    /\ export[e].bundles = <<import[i].bundle>>
    /\ i \in finished[e]
    => LET written == {Shape(r.type, r.source, r.dest) : r \in export[e].relations}
           wanted == {Shape(s.type, FullName[s.source], FullName[s.dest]) :
                        s \in DocumentShapes(import[i].doc)}
       IN  /\ wanted \subseteq written
           /\ import[i].anchors = <<>> => written = wanted
           /\ export[e].objects =
                {[key |-> FullName[o.name], type |-> o.type] :
                   o \in {p \in Ends(import[i].bundle) : p.type # "bundle"}}
           /\ export[e].wild = {}

\* An anchor ("ID string pairs that match objects in the database with objects
\* in the document", cplxx.h:384-385) is looked up by name in the whole
\* database: what an import relates to it is an object of the document, or one
\* of the same name that somebody has created since, and never an object that
\* was there before, such as the anchor itself.
AnchorsComeLater ==
  \A i \in Imports :
    \A r \in Own(i) :
      /\ r.type = "alternateOf"
      /\ \A k \in DOMAIN import[i].doc.relations :
           import[i].doc.relations[k].type # "alternateOf"
      => /\ r.to \in {import[i].anchors[k].id : k \in DOMAIN import[i].anchors}
         /\ r.to < r.from
         /\ \E o \in objects : /\ o.maker = i /\ o.id <= r.from
                              /\ o.name = ObjectAt(r.from).name

\* cpl_free_object_info gets "the pointer to the object info structure"
\* (cpl.h:851).  Refuted by an export of a bundle that is growing.
FreesWhatItGot == \A e \in Exports : export[e].wild = {}

-----------------------------------------------------------------------------
(* The refinement of AtomicDocuments.                                      *)

\* A call that is neither idle nor done runs.
Phase(at) == IF at \in {"idle", "ok", "error"} THEN at ELSE "running"

\* The relations of a document with the names that exports give its objects;
\* none is stored whose end is missing.
Wanted(doc) ==
  {Shape(r.type, FullName[Tokens[r.source]], FullName[Tokens[r.dest]]) :
     r \in {doc.relations[k] : k \in {n \in DOMAIN doc.relations :
                                        doc.relations[n].dest # NoKey}}}

Asked(i) ==
  IF At(i, "idle") THEN None
  ELSE [relations |-> Wanted(import[i].doc), anchors |-> Len(import[i].anchors)]

\* The relations in the bundle of an import that is done.
Published(i) ==
  IF At(i, "ok")
  THEN {Shape(r.type, FullName[ObjectAt(r.from).name], FullName[ObjectAt(r.to).name]) :
          r \in BundleRelations(import[i].bundle)}
  ELSE None

Sources(e) == {i \in finished[e] : export[e].bundles = <<import[i].bundle>>}

Answer(e) ==
  IF export[e].at = "ok"
  THEN {Shape(r.type, r.source, r.dest) : r \in export[e].relations}
  ELSE None

Atomic == INSTANCE AtomicDocuments
  WITH Nothing   <- None,
       Requests  <- [relations : {Wanted(doc) : doc \in Documents}, anchors : Nat],
       importing <- [i \in Imports |-> Phase(import[i].at)],
       asked     <- [i \in Imports |-> Asked(i)],
       published <- [i \in Imports |-> Published(i)],
       exporting <- [e \in Exports |-> Phase(export[e].at)],
       sources   <- [e \in Exports |-> Sources(e)],
       answer    <- [e \in Exports |-> Answer(e)]

\* Imports and exports of whole documents: although import_document_json is
\* many INSERTs and export_bundle_json reads with two SELECTs, the relations of
\* a document are there at once, stay as they are, and come back.
IsAtomicDocuments == Atomic!Spec

=============================================================================
