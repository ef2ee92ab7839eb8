-------------------------- MODULE AtomicDocuments --------------------------
(***************************************************************************)
(* What import_document_json and export_bundle_json promise to each other: *)
(* an import publishes the relations of its document in one step, when it  *)
(* answers CPL_OK, and nothing changes them afterwards.  An export that    *)
(* begins later and asks for that bundle alone gives them back as they     *)
(* are.  What comes of an import that fails or is not done is not said.    *)
(***************************************************************************)

CONSTANTS
  Imports,   \* the calls of import_document_json
  Exports,   \* the calls of export_bundle_json
  Requests,  \* what imports are asked for: [relations, anchors]
  Nothing    \* no request, no relations, no answer

VARIABLES
  importing,  \* importing[i]: "idle", "running", "ok" or "error"
  asked,      \* asked[i]: the relations of i's document, the number of anchors
  published,  \* published[i]: the relations of the bundle that i has made
  exporting,  \* exporting[e]: "idle", "running", "ok" or "error"
  sources,    \* sources[e]: the import whose bundle e exports, if it was done
  answer      \* answer[e]: the relations that e has written

imports == <<importing, asked, published>>
exports == <<exporting, sources, answer>>
vars == <<imports, exports>>

Init ==
  /\ importing = [i \in Imports |-> "idle"]
  /\ asked = [i \in Imports |-> Nothing]
  /\ published = [i \in Imports |-> Nothing]
  /\ exporting = [e \in Exports |-> "idle"]
  /\ sources = [e \in Exports |-> {}]
  /\ answer = [e \in Exports |-> Nothing]

BeginImport(i) ==
  /\ importing[i] = "idle"
  /\ importing' = [importing EXCEPT ![i] = "running"]
  /\ asked'[i] \in Requests
  /\ asked' = [asked EXCEPT ![i] = asked'[i]]
  /\ UNCHANGED <<published, exports>>

\* The relations to anchors may come on top of those of the document.
Publish(i) ==
  /\ importing[i] = "running"
  /\ importing' = [importing EXCEPT ![i] = "ok"]
  /\ asked[i].relations \subseteq published'[i]
  /\ asked[i].anchors = 0 => published'[i] = asked[i].relations
  /\ published' = [published EXCEPT ![i] = published'[i]]
  /\ UNCHANGED <<asked, exports>>

FailImport(i) ==
  /\ importing[i] = "running"
  /\ importing' = [importing EXCEPT ![i] = "error"]
  /\ UNCHANGED <<asked, published, exports>>

\* The bundles are that of an import that is done, or any others.
BeginExport(e) ==
  /\ exporting[e] = "idle"
  /\ exporting' = [exporting EXCEPT ![e] = "running"]
  /\ \E done \in SUBSET {i \in Imports : importing[i] = "ok"} :
       sources' = [sources EXCEPT ![e] = done]
  /\ UNCHANGED <<answer, imports>>

Answer(e) ==
  /\ exporting[e] = "running"
  /\ exporting' = [exporting EXCEPT ![e] = "ok"]
  /\ \A i \in sources[e] : answer'[e] = published[i]
  /\ answer' = [answer EXCEPT ![e] = answer'[e]]
  /\ UNCHANGED <<sources, imports>>

FailExport(e) ==
  /\ exporting[e] = "running"
  /\ exporting' = [exporting EXCEPT ![e] = "error"]
  /\ UNCHANGED <<sources, answer, imports>>

Next ==
  \/ \E i \in Imports : BeginImport(i) \/ Publish(i) \/ FailImport(i)
  \/ \E e \in Exports : BeginExport(e) \/ Answer(e) \/ FailExport(e)

Spec == Init /\ [][Next]_vars

=============================================================================
