---------------------------- MODULE ExportBundle ----------------------------
(***************************************************************************)
(* export_bundle_json: bundles become a Prov-JSON document.                *)
(*                                                                         *)
(* For each bundle one SELECT fetches the objects and another, later, the  *)
(* relations; lookup_tbl, from ids to names, is filled from the first and  *)
(* read for the second.  An id that is not in the table is asked for with  *)
(* cpl_get_object_info, whose result must be freed: is_from_info says that *)
(* there is one to free in from_info, and is set for to_info as well.      *)
(* The pointers are not initialized.  (Names and types of objects never    *)
(* change, so the table is the set of its ids.)                            *)
(***************************************************************************)
EXTENDS ProvStore, FiniteSets, Sequences

CONSTANTS
  Exports,   \* the calls of export_bundle_json
  FullName,  \* "prefix:name", or "name" where the prefix is empty
  ShortName  \* "name", what is written for an id that is not in the table

VARIABLE
  export  \* export[e]: the argument and the local variables of call e

ExportInit ==
  export = [e \in Exports |->
    [at |-> "idle", bundles |-> <<>>, pos |-> 1, table |-> {}, rows |-> {},
     objects |-> {}, relations |-> {}, wild |-> {}]]

\* Faulty variant of LastBundle: i <= bundles.size().
LastBundleTooLate(e) == export[e].pos > Len(export[e].bundles)

\* The loop over the bundles.
LastBundle(e) == export[e].pos = Len(export[e].bundles)
Bundle(e) == export[e].bundles[export[e].pos]

\* The bundles of the call: one, or two.
BeginExport(e) ==
  /\ export[e].at = "idle"
  /\ \E b1, b2 \in {o.id : o \in {p \in objects : p.type = "bundle"}} :
       export' = [export EXCEPT ![e].at = "objects",
                    ![e].bundles = IF b1 = b2 THEN <<b1>> ELSE <<b1, b2>>]
  /\ UNCHANGED tables

\* export_objects_json: an object that is a bundle gets no section.
ExportObjects(e) ==
  /\ export[e].at = "objects"
  /\ export' = [export EXCEPT
       ![e].at = "relations",
       ![e].table = @ \cup {o.id : o \in BundleObjects(Bundle(e))},
       ![e].objects = @ \cup
         {[key |-> FullName[o.name], type |-> o.type] :
            o \in {p \in BundleObjects(Bundle(e)) : p.type # "bundle"}}]
  /\ UNCHANGED tables

\* export_relations_json, its first SELECT.
ExportRelations(e) ==
  /\ export[e].at = "relations"
  /\ export' = [export EXCEPT ![e].at = "write",
                              ![e].rows = BundleRelations(Bundle(e))]
  /\ UNCHANGED tables

\* The name that is written for an id, if there is such an object.
Named(e, id) ==
  {IF id \in export[e].table THEN FullName[o.name] ELSE ShortName[o.name] :
     o \in {p \in objects : p.id = id}}

\* One relation of the document: type, and the names of its ends.
Written(e, r) ==
  {[id |-> r.id, type |-> r.type, source |-> s, dest |-> d] :
     s \in Named(e, r.from), d \in Named(e, r.to)}

\* from_info is freed, and only to_info has been assigned.
FreesWild(e, r) == r.from \in export[e].table /\ r.to \notin export[e].table

\* export_relations_json, the loop over what its SELECT has fetched.
WriteRelations(e) ==
  /\ export[e].at = "write"
  /\ \A r \in export[e].rows : Written(e, r) # {}
  /\ export' = [export EXCEPT
       ![e].at = IF LastBundle(e) THEN "ok" ELSE "objects",
       ![e].pos = IF LastBundle(e) THEN @ ELSE @ + 1,
       ![e].rows = {},
       ![e].relations = @ \cup UNION {Written(e, r) : r \in export[e].rows},
       ![e].wild = @ \cup {r.id : r \in {q \in export[e].rows : FreesWild(e, q)}}]
  /\ UNCHANGED tables

\* A statement fails, or an end of a relation is not in the database.
ExportFails(e) ==
  /\ export[e].at \in {"objects", "relations", "write"}
  /\ export' = [export EXCEPT ![e].at = "error"]
  /\ UNCHANGED tables

ExportStep(e) ==
  \/ BeginExport(e)
  \/ ExportObjects(e) \/ ExportRelations(e) \/ WriteRelations(e)
  \/ ExportFails(e)

=============================================================================
