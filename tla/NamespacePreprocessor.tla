------------------------ MODULE NamespacePreprocessor ------------------------
(***************************************************************************)
(* open62541_XMLPreprocessor.py: the nodeset documents given to the        *)
(* namespace compiler each number namespaces their own way.  Every         *)
(* document that is not about namespace 0 gets a number of its own (2, 3,  *)
(* ...), and its references are rewritten to those numbers.                *)
(*                                                                         *)
(* An id is a pair <<namespace, number>>.  A document is a record of       *)
(*   nodes   - its elements in order, each with an id and references,      *)
(*   aliases - its alias table, from names to ids,                         *)
(*   order   - the xmlns:sN attributes, from N to a URI,                   *)
(*   uris    - the sequence of its <NamespaceUris>.                        *)
(* A reference names its type by an alias.  Raw ids outside of references, *)
(* such as the fields of a definition, are never renumbered.               *)
(* Ids are text in the documents: "ns=2;i=5", and "i=5" in namespace 0.    *)
(***************************************************************************)
EXTENDS Integers, SequencesExt

CONSTANTS
  Inputs,  \* the command lines: records of documents, blacklists, ignore list
  None     \* no value

Ids == Int \X Int
Fields == [value : BOOLEAN, type : Ids \cup {None}]
References == [type : STRING, target : Ids, forward : BOOLEAN]
Elements == [id : Ids, class : STRING, name : STRING, refs : Seq(References),
             definition : {None} \cup Seq(Fields)]

(* What the XML parser hands over: see DataTypeEncoding for definitions.   *)
ASSUME InputsAssumption ==
  \A line \in Inputs :
    /\ line.docs \in Seq({line.docs[k] : k \in DOMAIN line.docs})
    /\ \A k \in DOMAIN line.docs :
         LET doc == line.docs[k]
         IN  /\ doc = [nodes |-> doc.nodes, aliases |-> doc.aliases,
                       order |-> doc.order, uris |-> doc.uris]
             /\ doc.nodes \in Seq(Elements)
ASSUME NoneAssumption == None \notin Ids

VARIABLES
  input,   \* the command line of this run
  phase,   \* the stage of generate_open62541CCode.py
  cursor,  \* how many documents or nodes the stage is done with
  docs,    \* preProcDocuments: records [was, doc], was an index into input.docs
  later,   \* revertToStochastic: the pairs <<document, namespace>> left open
  failed   \* None, or what raised

preVars == <<input, phase, cursor, docs, later, failed>>

(* The elements of s at some of its positions; those that Keep holds of,   *)
(* which is SelectSeq(s, Keep); the first occurrences of its elements.     *)
SelectAt(s, positions) ==
  LET kept[k \in 0..Len(s)] == IF k = 0 THEN <<>>
                               ELSE IF k \in positions THEN Append(kept[k - 1], s[k])
                               ELSE kept[k - 1]
  IN  kept[Len(s)]
SelectThose(s, Keep(_)) == SelectAt(s, {k \in DOMAIN s : Keep(s[k])})
Distinct(s) == SelectAt(s, {k \in DOMAIN s : \A j \in 1..(k - 1) : s[j] # s[k]})

Ns(id) == id[1]
ContainedIds(doc) == {doc.nodes[k].id : k \in DOMAIN doc.nodes}
ReferencesOf(doc) == FlattenSeq([k \in DOMAIN doc.nodes |-> doc.nodes[k].refs])

(* getNamespaceId: the namespace most nodes are in, the smallest of these. *)
NamespaceId(doc) ==
  LET used == {Ns(id) : id \in ContainedIds(doc)}
      Count(n) == Len(SelectSeq(doc.nodes, LAMBDA node : Ns(node.id) = n))
      most == {n \in used : \A m \in used : Count(m) <= Count(n)}
  IN  IF used = {} THEN 0 ELSE CHOOSE n \in most : \A m \in most : n <= m

(* getReferencedNamespaceUri.  A number one past the URIs reads past them. *)
UriRaises(doc, n) ==
  n \notin DOMAIN doc.order /\ Len(doc.uris) > 0 /\ n = Len(doc.uris) + 1
Uri(doc, n) ==
  CASE n \in DOMAIN doc.order -> doc.order[n]
    [] n \notin DOMAIN doc.order /\ n \in DOMAIN doc.uris -> doc.uris[n]
    [] OTHER -> ""

(* The namespaces in the domain of `to` get the numbers it gives them.     *)
Renumber(id, to) ==
  IF Ns(id) \in DOMAIN to THEN <<to[Ns(id)], id[2]>> ELSE id

(* reassignReferencedNamespaceId: every reference into a namespace.        *)
RenumberTarget(ref, to) == [ref EXCEPT !.target = Renumber(@, to)]
RenumberTargets(node, to) ==
  [node EXCEPT !.refs = [j \in DOMAIN @ |-> RenumberTarget(@[j], to)]]
ReassignReferenced(doc, to) ==
  [doc EXCEPT !.nodes = [k \in DOMAIN @ |-> RenumberTargets(@[k], to)]]

(* An alias is rewritten as text: "ns=1" is found in "ns=12;i=5" as well,  *)
(* of which only the first digits are replaced.                            *)
RenumberAlias(id, current, new) ==
  LET tails == {p \in {1, 10, 100, 1000, 10000} : Ns(id) \div p = current}
  IN  IF tails = {} THEN id
      ELSE LET p == CHOOSE q \in tails : TRUE
           IN  <<(new * p) + (Ns(id) % p), id[2]>>

(* Mutated form of the definition below. *)
ReassignContained(doc, current, new) ==
  LET to == [n \in {current} |-> new]
  IN  [doc EXCEPT !.nodes = [k \in DOMAIN @ |-> [@[k] EXCEPT !.id = Renumber(@, to)]],
                  !.aliases = [a \in DOMAIN @ |-> RenumberAlias(@[a], current, new)]]

(* reassignNamespaceId: the document's nodes and aliases too.  Ids compare *)
(* equal whatever they are, so references to nodes it lacks move as well.  *)
RenumberNode(node, to) == [RenumberTargets(node, to) EXCEPT !.id = Renumber(@, to)]
ReassignNamespaceId(doc, current, new) ==
  LET to == [n \in {current} |-> new]
  IN  [doc EXCEPT
         !.nodes = [k \in DOMAIN @ |-> RenumberNode(@[k], to)],
         !.aliases = [a \in DOMAIN @ |-> RenumberAlias(@[a], current, new)]]

(* getNamespaceDependencies: in the order of their first reference.        *)
Dependencies(doc) ==
  LET refs == ReferencesOf(doc)
  IN  Distinct([k \in DOMAIN refs |-> Ns(refs[k].target)])

PreInit ==
  /\ input \in Inputs
  /\ phase = "preprocess" /\ cursor = 0
  /\ docs = [k \in DOMAIN input.docs |-> [was |-> k, doc |-> input.docs[k]]]
  /\ later = <<>> /\ failed = None

Fail(cause) == failed' = cause /\ phase' = "failed"

(* preprocess_assignUniqueNsIds: documents of namespace 0 come first.      *)
AssignUniqueNsIds ==
  /\ phase = "preprocess"
  /\ \E zero \in {SelectThose(docs, LAMBDA d : NamespaceId(d.doc) = 0)},
        others \in {SelectThose(docs, LAMBDA d : NamespaceId(d.doc) # 0)} :
        docs' = zero \o
          [k \in DOMAIN others |->
             [others[k] EXCEPT !.doc = ReassignNamespaceId(@, NamespaceId(@), k + 1)]]
  /\ phase' = "models"
  /\ UNCHANGED <<input, cursor, later, failed>>

(* preprocess_linkDependantModels: a foreign namespace is the first        *)
(* document that calls itself, its number 1, by the same URI.              *)
ModelOf(uri) ==
  LET same == {k \in DOMAIN docs : Uri(docs[k].doc, 1) = uri}
  IN  IF same = {} THEN 0 ELSE CHOOSE k \in same : \A j \in same : k <= j

(* A number is written after "ns=", also the number 0.  No id of a node    *)
(* has the prefix "ns=0;": it stands for a namespace of its own.           *)
WrittenZero == -1
Written(n) == IF n = 0 THEN WrittenZero ELSE n

(* The foreign namespaces are told by the number the document has now: one *)
(* that became its own number is skipped.  A namespace that was just       *)
(* rewritten to the number of another one is rewritten again with it.      *)
Foreign(doc) == SelectSeq(Dependencies(doc),
                          LAMBDA n : n \notin {0, NamespaceId(doc)})
ModelNumber(doc, n) ==
  LET k == ModelOf(Uri(doc, n)) IN IF k = 0 THEN n ELSE Written(NamespaceId(docs[k].doc))
Rewritten(n, foreign, number) ==
  FoldLeft(LAMBDA m, j : IF m = foreign[j] THEN number[j] ELSE m,
           n, [j \in DOMAIN foreign |-> j])

LinkDependantModels ==
  LET k == cursor + 1
      doc == docs[k].doc
  IN  /\ phase = "models" /\ k \in DOMAIN docs
      /\ \E foreign \in {Foreign(doc)} :
         \E number \in {[j \in DOMAIN foreign |-> ModelNumber(doc, foreign[j])]},
            open \in {SelectSeq(foreign, LAMBDA n : ModelOf(Uri(doc, n)) = 0)} :
         \/ /\ \E j \in DOMAIN foreign : UriRaises(doc, foreign[j])
            /\ Fail("uri")
            /\ UNCHANGED <<cursor, docs, later>>
         \/ /\ \A j \in DOMAIN foreign : ~UriRaises(doc, foreign[j])
            /\ docs' = [docs EXCEPT ![k].doc =
                  ReassignReferenced(@,
                    [n \in ToSet(foreign) |-> Rewritten(n, foreign, number)])]
            /\ later' = later \o [j \in DOMAIN open |-> <<k, open[j]>>]
            /\ cursor' = k
            /\ UNCHANGED <<phase, failed>>
      /\ UNCHANGED input

(* The stochastic stage: a document that has a node some open reference    *)
(* would hit is a match, and the message about the best match multiplies   *)
(* that document by 100.  Without a match the references stay.             *)
Hits(ref, n, doc) ==
  Ns(ref.target) = n /\ <<NamespaceId(doc), ref.target[2]>> \in ContainedIds(doc)
MatchStochastically ==
  /\ phase = "models" /\ cursor = Len(docs)
  /\ IF \E o \in ToSet(later), d \in ToSet(docs) :
          \E ref \in ToSet(ReferencesOf(docs[o[1]].doc)) : Hits(ref, o[2], d.doc)
     THEN Fail("match") /\ UNCHANGED cursor
     ELSE phase' = "parse" /\ cursor' = 0 /\ UNCHANGED failed
  /\ UNCHANGED <<input, docs, later>>

PreNext == AssignUniqueNsIds \/ LinkDependantModels \/ MatchStochastically
-----------------------------------------------------------------------------
(* References keep their meaning: when the models are linked, a reference  *)
(* into the document's own namespace points into the number the document   *)
(* got, one into a foreign namespace into the number of the document with  *)
(* that URI, one into namespace 0 nowhere else.  A namespace without a URI *)
(* is that of the first document without one.  Holds only for documents    *)
(* whose numbers do not get in each other's way: whose new own number is   *)
(* none it used for others, and none of whose foreign namespaces is moved  *)
(* to a number it still uses for another.                                  *)
NumberOf(uri) == NamespaceId(docs[ModelOf(uri)].doc)
Undisturbed(old, own, new) ==
  LET used == {Ns(ref.target) : ref \in ToSet(ReferencesOf(old))} \ {0, own}
      known == {n \in used : ModelOf(Uri(old, n)) # 0}
  IN  /\ new \notin used
      /\ \A n \in known : \A m \in used \ {n} : NumberOf(Uri(old, n)) # m
Meaning(old, own, new, id) ==
  CASE Ns(id) = 0 -> id
    [] own # 0 /\ Ns(id) = own -> <<new, id[2]>>
    [] OTHER -> IF ModelOf(Uri(old, Ns(id))) = 0 THEN id
                ELSE <<Written(NumberOf(Uri(old, Ns(id)))), id[2]>>
MeaningKept ==
  phase = "parse" =>
    \A d \in ToSet(docs) :
      LET old == input.docs[d.was]
          own == NamespaceId(old)
          new == NamespaceId(d.doc)
      IN  Undisturbed(old, own, new) =>
            \A k \in DOMAIN old.nodes : \A j \in DOMAIN old.nodes[k].refs :
              d.doc.nodes[k].refs[j].target
                = Meaning(old, own, new, old.nodes[k].refs[j].target)
=============================================================================
