----------------------------- MODULE Properties -----------------------------
(***************************************************************************)
(* The properties of objects and relations, and the prefixes of bundles.   *)
(*                                                                         *)
(* They live in three tables of one shape, none with a unique key.  A rule *)
(* of each table turns an INSERT into nothing when a row of the same id,   *)
(* name and type is there already, and the caller is told CPL_OK.  The     *)
(* rule looks at the snapshot of its own statement, so that the test and   *)
(* the insertion are two steps of the server.                              *)
(*                                                                         *)
(* The writers are the callers of cpl_add_*_property and cpl_add_prefix,   *)
(* and the imports, which call them for one entry of a document after      *)
(* another.  The readers collect the properties of an object or a relation *)
(* for an export, list prefixes, or look objects up by a property.         *)
(*                                                                         *)
(* The environment: statements that fail, links that break with the        *)
(* statement committed or rolled back by the time it is executed again,    *)
(* and processes that end at any point.                                    *)
(***************************************************************************)
EXTENDS Naturals, Sequences, FiniteSets

CONSTANTS
  Writers,        \* the calls that add properties or prefixes
  Readers,        \* the calls that read them
  Objects,        \* ids of objects
  Relations,      \* ids of relations
  Bundles,        \* ids of the objects that are bundles
  DocKeys,        \* the names of properties in a document: "prefix:name"
  Tokens,         \* name_to_tokens: the stored name of a document's name
  FullName,       \* the document's name of a stored name
  Ends,           \* Ends[r]: what a document says of the ends of relation r
  Strings,        \* texts
  Cut,            \* Cut[s]: what a buffer one byte short of CPL_VALUE_LEN keeps
  TruthText,      \* TruthText[b]: std::to_string of a bool
  Exact,          \* 2^24: up to here a float holds every integer
  ObjectJobs,     \* the properties of an object, in documents
  RelationJobs,   \* the properties of a relation, in documents, but its ends
  PrefixJobs,     \* the prefixes of a document
  ObjectCalls,    \* the properties given to cpl_add_object_*_property
  RelationCalls,  \* the properties given to cpl_add_relation_*_property
  PrefixCalls,    \* the prefixes given to cpl_add_prefix
  Retries,        \* retries_left of SQL_START
  LinkFails,      \* can the link break?
  NoRequest       \* a writer that is not inside a call

Names == {Tokens[k] : k \in DocKeys}
Scalars == {"string", "numerical", "boolean"}
Kinds == Scalars \cup {"prefix"}

\* Integers stand for the numbers: bound: below 2 * Exact.
Numbers == 0..(2 * Exact)

\* What the column "value" may hold: text, and numbers and booleans as text.
Values == Strings \cup Numbers \cup {TruthText[b] : b \in BOOLEAN}

Items == Objects \cup Relations \cup Bundles

MapKeys == [item : Items, name : Names, kind : Kinds]

\* What a document says of a name; "other" is JSON that is no scalar.
DocValues(kind) ==
  IF kind = "numerical" THEN Numbers
  ELSE IF kind = "boolean" THEN BOOLEAN ELSE Strings

Entries == UNION {[key : DocKeys, kind : {kind}, value : DocValues(kind)] :
                    kind \in Kinds \cup {"other"}}

ASSUME ConstantsAssumption ==
  /\ Tokens \in [DocKeys -> Names]
  /\ FullName \in [Names -> DocKeys]
  /\ \A n \in Names : Tokens[FullName[n]] = n
  /\ Cut \in [Strings -> Strings]
  /\ TruthText[TRUE] # TruthText[FALSE]
  /\ Exact \in Nat /\ Exact % 4 = 0
  /\ ObjectJobs \subseteq Seq(Entries) /\ RelationJobs \subseteq Seq(Entries)
  /\ PrefixJobs \subseteq Seq(Entries)
  /\ ObjectCalls \cup RelationCalls \cup PrefixCalls \subseteq Entries
  /\ Ends \in [Relations -> Seq(Entries)]
  /\ \A r \in Relations : \A n \in DOMAIN Ends[r] : Ends[r][n].kind = "string"
  \* source_str and dest_str of a row of rdata_array differ.
  /\ \A r \in Relations : \A m, n \in DOMAIN Ends[r] :
       Ends[r][m].key = Ends[r][n].key => m = n
  \* Ids are told apart by the table they are in.
  /\ Objects \cap Relations = {} /\ Objects \cap Bundles = {}
  /\ Relations \cap Bundles = {}
  /\ Retries \in Nat
  /\ LinkFails \in BOOLEAN
  /\ NoRequest \notin [key : MapKeys, value : Values]

VARIABLES
  rows,    \* the rows of the three tables
  at,      \* at[w]: where writer w is
  job,     \* job[w]: what it adds, to which item, and for whom
  pos,     \* pos[w]: the entry of the job at hand
  ignored, \* ignored[w]: has the rule found a duplicate?
  retries, \* retries[w]: reconnections left to the INSERT
  answer,  \* answer[w]: what the last cpl_add_* returned
  fresh,   \* history: fresh[w]: had the key no row when the call began?
  lost,    \* history: lost[w]: the entries whose INSERT has failed
  export   \* export[e]: the state of reader e

vars == <<rows, at, job, pos, ignored, retries, answer, fresh, lost, export>>

NoJob == [mode |-> "none", item |-> "none", entries |-> <<>>]
NoExport ==
  [at |-> "string", item |-> "none", doc |-> [k \in {} |-> "none"], done |-> {}]

Init ==
  /\ rows = {}
  /\ at = [w \in Writers |-> "idle"]
  /\ job = [w \in Writers |-> NoJob]
  /\ pos = [w \in Writers |-> 1]
  /\ ignored = [w \in Writers |-> FALSE]
  /\ retries = [w \in Writers |-> 0]
  /\ answer = [w \in Writers |-> "none"]
  /\ fresh = [w \in Writers |-> FALSE]
  /\ lost = [w \in Writers |-> {}]
  /\ export = [e \in Readers |-> NoExport]

-----------------------------------------------------------------------------
(* Values on their way into the tables and out of them.                    *)

\* Faulty variant of Float: a bit fewer.
FloatTooShort(n) ==
  IF 2 * n <= Exact \/ n % 2 = 0 THEN n ELSE CHOOSE m \in {n - 1, n + 1} : m % 4 = 0

\* val_json.get<float>(): beyond Exact the nearest even number, ties to even.
Float(n) ==
  IF n <= Exact \/ n % 2 = 0 THEN n ELSE CHOOSE m \in {n - 1, n + 1} : m % 4 = 0

\* The text in the column; a caller of cpl_add_*_numerical_property passes a
\* double, which holds every number of the model.
Stored(kind, value, mode) ==
  IF kind = "boolean" THEN TruthText[value]
  ELSE IF kind = "numerical" /\ mode = "import" THEN Float(value) ELSE value

\* What the callback cpl_cb_collect_properties_vector makes of the text.
Collected(kind, text) ==
  IF kind = "boolean" THEN text = TruthText[TRUE]
  ELSE IF kind = "numerical" THEN text ELSE Cut[text]

-----------------------------------------------------------------------------
(* The writers.                                                            *)

More(w) == pos[w] <= Len(job[w].entries)
Entry(w) == job[w].entries[pos[w]]

\* The row that the INSERT at hand asks for; history: for which call, and at
\* which try.
Row(w) ==
  [item |-> job[w].item, name |-> Tokens[Entry(w).key], kind |-> Entry(w).kind,
   value |-> Stored(Entry(w).kind, Entry(w).value, job[w].mode),
   call |-> <<w, pos[w]>>, try |-> retries[w]]

Begin(w, mode, item, entries) ==
  /\ at[w] = "idle"
  /\ at' = [at EXCEPT ![w] = "next"]
  /\ job' = [job EXCEPT ![w] =
                [mode |-> mode, item |-> item, entries |-> entries]]
  /\ UNCHANGED <<rows, pos, ignored, retries, answer, fresh, lost, export>>

\* cpl_add_object_{string,numerical,boolean}_property.
CallAddObjectProperty(w) ==
  \E o \in Objects, e \in ObjectCalls : Begin(w, "call", o, <<e>>)

\* cpl_add_relation_{string,numerical,boolean}_property.
CallAddRelationProperty(w) ==
  \E r \in Relations, e \in RelationCalls : Begin(w, "call", r, <<e>>)

CallAddPrefix(w) ==
  \E b \in Bundles, e \in PrefixCalls : Begin(w, "call", b, <<e>>)

ImportObjectProperties(w) ==
  \E o \in Objects, doc \in ObjectJobs : Begin(w, "import", o, doc)

\* The test that is to leave the ends out compares the name of the relation
\* (it.key(), not it2.key()) and leaves out nothing.
ImportRelationProperties(w) ==
  \E r \in Relations, doc \in RelationJobs :
    Begin(w, "import", r, Ends[r] \o doc)

ImportPrefixes(w) ==
  \E b \in Bundles, doc \in PrefixJobs : Begin(w, "import", b, doc)

\* Faulty variants of SameKey: the value counts as well; the id does not.
SameKeyAndValue(r, s) ==
  r.item = s.item /\ r.name = s.name /\ r.kind = s.kind /\ r.value = s.value
SameNameAndKind(r, s) == r.name = s.name /\ r.kind = s.kind

\* The rules *_ignore_duplicate_inserts.
SameKey(r, s) == r.item = s.item /\ r.name = s.name /\ r.kind = s.kind

\* Faulty variant of Duplicate: there is no rule.
DuplicateNever(w) == FALSE

Duplicate(w) == \E r \in rows : SameKey(r, Row(w))

\* The INSERT of an entry of some kind is on its way to the server.
Execute(w, kinds) ==
  /\ at[w] = "next" /\ More(w)
  /\ Entry(w).kind \in kinds
  /\ at' = [at EXCEPT ![w] = "sent"]
  /\ retries' = [retries EXCEPT ![w] = Retries]
  /\ fresh' = [fresh EXCEPT ![w] = ~Duplicate(w)]
  /\ UNCHANGED <<rows, job, pos, ignored, answer, lost, export>>

AddObjectProperty(w) == job[w].item \in Objects /\ Execute(w, Scalars)

AddRelationProperty(w) == job[w].item \in Relations /\ Execute(w, Scalars)

AddPrefix(w) == job[w].item \in Bundles /\ Execute(w, {"prefix"})

\* The rule's EXISTS, on the snapshot of the INSERT.
CheckRule(w) ==
  /\ at[w] = "sent"
  /\ at' = [at EXCEPT ![w] = "checked"]
  /\ ignored' = [ignored EXCEPT ![w] = Duplicate(w)]
  /\ UNCHANGED <<rows, job, pos, retries, answer, fresh, lost, export>>

\* The server commits: a row, or, DO INSTEAD NOTHING, none.
Commit(w) ==
  /\ at[w] = "checked"
  /\ at' = [at EXCEPT ![w] = "stored"]
  /\ rows' = IF ignored[w] THEN rows ELSE rows \cup {Row(w)}
  /\ UNCHANGED <<job, pos, ignored, retries, answer, fresh, lost, export>>

InCall(w) == at[w] \in {"sent", "checked", "stored"}

\* The backend's function returns code, and its caller goes to the label.
Return(w, code, to) ==
  /\ InCall(w)
  /\ at' = [at EXCEPT ![w] = to]
  /\ pos' = [pos EXCEPT ![w] = @ + 1]
  /\ answer' = [answer EXCEPT ![w] = code]
  /\ ignored' = [ignored EXCEPT ![w] = FALSE]
  /\ retries' = [retries EXCEPT ![w] = 0]
  /\ fresh' = [fresh EXCEPT ![w] = FALSE]
  /\ lost' = IF code = "ok" THEN lost ELSE [lost EXCEPT ![w] = @ \cup {pos[w]}]
  /\ UNCHANGED <<rows, job, export>>

Succeed(w) == at[w] = "stored" /\ Return(w, "ok", "next")

\* Faulty variant of AfterError: the import of prefixes does not look at the
\* result, either.
AfterErrorGoOn(w) == IF job[w].mode = "import" THEN "next" ELSE "failed"

\* The import of properties does not look at the result.
AfterError(w) ==
  IF job[w].mode = "import" /\ job[w].item \notin Bundles THEN "next"
  ELSE "failed"

\* The statement fails; only a link that breaks loses the reply to a commit.
Fail(w) ==
  /\ at[w] = "stored" => LinkFails
  /\ Return(w, "error", AfterError(w))

\* Faulty variant of BreakLink: retries_left is not tested.
BreakLinkUntested(w) ==
  /\ LinkFails
  /\ InCall(w)
  /\ at' = [at EXCEPT ![w] = "sent"]
  /\ retries' = [retries EXCEPT ![w] = @ - 1]
  /\ UNCHANGED <<rows, job, pos, ignored, answer, fresh, lost, export>>

\* SQLSTATE 08S01: reconnect and goto retry; the server has committed the
\* statement, or never will.
BreakLink(w) ==
  /\ LinkFails
  /\ InCall(w)
  /\ retries[w] > 0
  /\ at' = [at EXCEPT ![w] = "sent"]
  /\ retries' = [retries EXCEPT ![w] = @ - 1]
  /\ ignored' = [ignored EXCEPT ![w] = FALSE]
  /\ UNCHANGED <<rows, job, pos, answer, fresh, lost, export>>

\* A JSON value of no supported type: CPL_E_INVALID_ARGUMENT.
Reject(w) ==
  /\ at[w] = "next" /\ More(w)
  /\ Entry(w).kind = "other"
  /\ at' = [at EXCEPT ![w] = "failed"]
  /\ UNCHANGED <<rows, job, pos, ignored, retries, answer, fresh, lost, export>>

Finish(w) ==
  /\ at[w] = "next" /\ ~More(w)
  /\ at' = [at EXCEPT ![w] = "ok"]
  /\ UNCHANGED <<rows, job, pos, ignored, retries, answer, fresh, lost, export>>

\* The process ends inside a call.
Die(w) == Return(w, "error", "failed")

Step(w) ==
  \/ AddObjectProperty(w) \/ AddRelationProperty(w) \/ AddPrefix(w)
  \/ CheckRule(w) \/ Commit(w) \/ Succeed(w) \/ Fail(w) \/ BreakLink(w)
  \/ Reject(w) \/ Finish(w)

Call(w) ==
  \/ CallAddObjectProperty(w) \/ CallAddRelationProperty(w) \/ CallAddPrefix(w)
  \/ ImportObjectProperties(w) \/ ImportRelationProperties(w)
  \/ ImportPrefixes(w)

-----------------------------------------------------------------------------
(* The readers.  Each SELECT is one step; its rows come in no given order. *)

\* get_object_properties, get_relation_properties and get_prefixes with no key
\* given: all of a kind.
Select(item, kind) == {r \in rows : r.item = item /\ r.kind = kind}

\* cpl_get_{object,relation}_{string,numerical,boolean}_properties of a name.
Listed(item, kind, name) == {r \in Select(item, kind) : r.name = name}

\* cpl_lookup_object_by_{string,numerical,boolean}_property.
ObjectsByProperty(name, kind, text) ==
  {r.item : r \in {s \in rows : s.item \in Objects /\ s.name = name
                                /\ s.kind = kind /\ s.value = text}}

\* document[name] = value for one row after another: the last one stays.
\* Any one may be the last of its name.
Merge(doc, last) ==
  [k \in DOMAIN doc \cup {FullName[r.name] : r \in last} |->
     IF \E r \in last : FullName[r.name] = k
     THEN LET r == CHOOSE s \in last : FullName[s.name] = k
          IN  [kind |-> r.kind, value |-> Collected(r.kind, r.value)]
     ELSE doc[k]]

LastOfEach(selected, last) ==
  /\ last \subseteq selected
  /\ \A r \in selected : \E s \in last : s.name = r.name
  /\ \A r, s \in last : r.name = s.name => r = s

\* The names of the ends, for a relation.
WithEnds(item, doc) ==
  IF item \notin Relations THEN doc
  ELSE LET named == {Ends[item][n] : n \in DOMAIN Ends[item]}
       IN  [k \in DOMAIN doc \cup {end.key : end \in named} |->
              IF \E end \in named : end.key = k
              THEN LET end == CHOOSE y \in named : y.key = k
                   IN  [kind |-> "string", value |-> end.value]
              ELSE doc[k]]

\* Faulty variant of Written: the ends come before the numerical properties.
WrittenEndsFirst(item, kind, doc, last) ==
  IF kind = "string" THEN WithEnds(item, Merge(doc, last)) ELSE Merge(doc, last)

\* What is written of the properties of a kind: the ends come last.
Written(item, kind, doc, last) ==
  IF kind = "boolean" THEN WithEnds(item, Merge(doc, last)) ELSE Merge(doc, last)

\* What follows the properties of a kind.
NextSection == [string |-> "numerical", numerical |-> "boolean", boolean |-> "ok"]

\* One SELECT, of the properties of one kind.
GetProperties(e, item) ==
  LET kind == export[e].at
  IN  /\ kind \in Scalars
      /\ kind # "string" => export[e].item = item
      /\ \E last \in SUBSET Select(item, kind) :
           /\ LastOfEach(Select(item, kind), last)
           /\ export' = [export EXCEPT ![e] =
                [at |-> NextSection[kind], item |-> item,
                 doc |-> Written(item, kind, export[e].doc, last),
                 done |-> IF kind = "string"
                          THEN {w \in Writers : at[w] = "ok" /\ job[w].item = item}
                          ELSE export[e].done]]
      /\ UNCHANGED <<rows, at, job, pos, ignored, retries, answer, fresh, lost>>

GetObjectProperties(e) == \E o \in Objects : GetProperties(e, o)

GetRelationProperties(e) == \E r \in Relations : GetProperties(e, r)

\* A SELECT fails: the export leaves nothing behind.
ExportFails(e) ==
  /\ export[e].at \in Scalars
  /\ export' = [export EXCEPT ![e] = NoExport]
  /\ UNCHANGED <<rows, at, job, pos, ignored, retries, answer, fresh, lost>>

Export(e) ==
  GetObjectProperties(e) \/ GetRelationProperties(e) \/ ExportFails(e)

Next ==
  \/ \E w \in Writers : Call(w) \/ Step(w) \/ Die(w)
  \/ \E e \in Readers : Export(e)

Spec == Init /\ [][Next]_vars

-----------------------------------------------------------------------------
(* Properties.                                                             *)

Jobs == [mode : {"call", "import"}, item : Items, entries : Seq(Entries)]

Rows == [item : Items, name : Names, kind : Kinds, value : Values,
         call : Writers \X (Nat \ {0}), try : 0..Retries]

TypeOK ==
  /\ rows \in SUBSET Rows
  /\ at \in [Writers -> {"idle", "next", "sent", "checked", "stored", "ok",
                         "failed"}]
  /\ job \in [Writers -> Jobs \cup {NoJob}]
  /\ pos \in [Writers -> Nat \ {0}]
  /\ ignored \in [Writers -> BOOLEAN]
  /\ retries \in [Writers -> 0..Retries]
  /\ answer \in [Writers -> {"none", "ok", "error"}]
  /\ fresh \in [Writers -> BOOLEAN]
  /\ \A w \in Writers : InCall(w) => More(w) /\ Entry(w).kind \in Kinds

\* A call adds no more than one row, however often a broken link makes the
\* backend execute its INSERT: the rules make the retry harmless, which it is
\* not for objects and relations.
OneRowPerCall == \A r, s \in rows : r.call = s.call => r = s

\* An import that answers CPL_OK has every entry of its document under its
\* name and kind but for those whose INSERT has failed unnoticed, and of the
\* prefixes, whose INSERTs it looks at, all of them.
ImportIsStored ==
  \A w \in Writers :
    at[w] = "ok" /\ job[w].mode = "import" =>
      /\ job[w].item \in Bundles => lost[w] = {}
      /\ \A p \in DOMAIN job[w].entries \ lost[w] :
           \E r \in rows :
             /\ r.item = job[w].item
             /\ r.name = Tokens[job[w].entries[p].key]
             /\ r.kind = job[w].entries[p].kind

\* What a float and the buffers of a SELECT hold as it is.
Exactly(entry) ==
  /\ entry.kind = "numerical" => entry.value <= Exact
  /\ entry.kind \in {"string", "prefix"} => Cut[entry.value] = entry.value

\* An entry of w's document that shares its stored name with no other one.
Alone(w, p) ==
  \A q \in DOMAIN job[w].entries \ {p} :
    Tokens[job[w].entries[q].key] # Tokens[job[w].entries[p].key]

\* w has imported all of its entries for an item that nobody else writes to.
Undisturbed(w) ==
  /\ at[w] = "ok" /\ job[w].mode = "import" /\ lost[w] = {}
  /\ \A v \in Writers \ {w} : job[v].item # job[w].item

\* A property that an import has stored comes back from a later export with
\* its name, its type and its value, unless the document has another property
\* of that stored name, or the value is a number beyond 2^24 or a text of
\* maximal length; whatever is imported for other items meanwhile.
PropertyRoundTrip ==
  \A e \in Readers, w \in Writers :
    /\ export[e].at = "ok"
    /\ w \in export[e].done
    /\ export[e].item = job[w].item
    /\ Undisturbed(w)
    => \A p \in DOMAIN job[w].entries :
         LET entry == job[w].entries[p]
             name == FullName[Tokens[entry.key]]
         IN  Alone(w, p) /\ Exactly(entry) =>
               /\ name \in DOMAIN export[e].doc
               /\ export[e].doc[name] = [kind |-> entry.kind, value |-> entry.value]

\* The ends of an exported relation are its ends, whatever properties of those
\* names anybody has given it: imports store the ends as properties as well.
EndsPrevail ==
  \A e \in Readers :
    export[e].at = "ok" /\ export[e].item \in Relations =>
      \A n \in DOMAIN Ends[export[e].item] :
        LET end == Ends[export[e].item][n]
        IN  export[e].doc[end.key] = [kind |-> "string", value |-> end.value]

\* Each property and prefix that an import has stored is what the getter of
\* its kind lists under its name, once and with the value of the document,
\* with the same exceptions; and its object is found by that value, for which
\* a long text is none: it is complete in the table.
Retrievable ==
  \A w \in Writers :
    Undisturbed(w) =>
      \A p \in DOMAIN job[w].entries :
        LET entry == job[w].entries[p]
            item == job[w].item
            name == Tokens[entry.key]
            listed == Listed(item, entry.kind, name)
        IN  Alone(w, p) =>
              /\ Cardinality(listed) = 1
              /\ Exactly(entry) =>
                   {Collected(r.kind, r.value) : r \in listed} = {entry.value}
              /\ item \in Objects /\ (entry.kind = "string" \/ Exactly(entry)) =>
                   item \in ObjectsByProperty(name, entry.kind,
                               Stored(entry.kind, entry.value, "call"))

\* The tables with their rules are the map they claim to be, although the
\* rule's test and the insertion are two steps, and calls are repeated.
Pair(r) == [key |-> [item |-> r.item, name |-> r.name, kind |-> r.kind],
            value |-> r.value]

Pairs == {Pair(r) : r \in rows}
Request(w) == IF InCall(w) THEN Pair(Row(w)) ELSE NoRequest
Requests == [w \in Writers |-> Request(w)]

Map == INSTANCE PropertyMap
  WITH Keys <- MapKeys, values <- Pairs, request <- Requests

IsPropertyMap == Map!Spec

=============================================================================
