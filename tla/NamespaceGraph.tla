--------------------------- MODULE NamespaceGraph ---------------------------
(***************************************************************************)
(* ua_namespace.py and ua_node_types.py up to the linked graph: the        *)
(* documents' elements become nodes, blacklisted nodes are removed, the    *)
(* references are linked to nodes and what could not be linked is dropped. *)
(*                                                                         *)
(* A reference of a node is a record [source, type, target, forward]; None *)
(* stands for a type or target that is not a node.                         *)
(***************************************************************************)
EXTENDS NamespacePreprocessor

VARIABLES
  order,   \* opcua_namespace.nodes: the ids in the order of the node list
  node,    \* the nodes, by id: their element, its references linked
  aliases  \* opcua_namespace.aliases

graphVars == <<order, node, aliases>>

GraphInit == order = <<>> /\ node = <<>> /\ aliases = <<>>

Refs(n) == node[n].refs
AllRefs(ids) == FlattenSeq([k \in DOMAIN ids |-> Refs(ids[k])])

(* __cmp__ of two references: it leaves out whose references they are.     *)
Same(r, s) == r.type = s.type /\ r.target = s.target /\ r.forward = s.forward
HasSame(refs, r) == \E s \in ToSet(refs) : Same(r, s)
CountSame(refs, r) == Len(SelectSeq(refs, LAMBDA s : Same(r, s)))

(* parseXML for one document.  createNode: a node whose id there was       *)
(* before replaces that node, at the end of the list; the nodes have what  *)
(* their elements have.  buildAliasList keeps an alias's first id.         *)
LastOfIds(elements) ==
  SelectAt(elements, {k \in DOMAIN elements :
                        \A j \in (k + 1)..Len(elements) : elements[j].id # elements[k].id})

WithNodesOf(elements) ==
  LET Own(id) == {e \in ToSet(elements) : e.id = id}
  IN  [id \in DOMAIN node \cup {e.id : e \in ToSet(elements)} |->
         IF Own(id) # {} THEN CHOOSE e \in Own(id) : TRUE ELSE node[id]]
BuildAliasList(doc) == aliases' = aliases @@ doc.aliases

ParseDocument ==
  /\ phase = "parse" /\ cursor < Len(docs)
  /\ \E doc \in {docs[cursor + 1].doc} : \E new \in {LastOfIds(doc.nodes)} :
        /\ order' = SelectThose(order, LAMBDA n : n \notin ContainedIds(doc))
                      \o [k \in DOMAIN new |-> new[k].id]
        /\ node' = WithNodesOf(new)
        /\ BuildAliasList(doc)
  /\ cursor' = cursor + 1
  /\ UNCHANGED <<input, phase, docs, later, failed>>

(* A blacklist file is a record of its ids, a line each, and whether its   *)
(* last line ends.  A node is looked up by the stripped line, but removed  *)
(* by the line as read: only a last line without an end removes its node.  *)
RemoveBlacklisted ==
  LET removed == {Last(file.ids) : file \in
                    {f \in ToSet(input.blacklists) : f.ids # <<>> /\ ~f.newline}}
  IN  /\ phase = "parse" /\ cursor = Len(docs)
      /\ order' = SelectThose(order, LAMBDA n : n \notin removed)
      /\ node' = [n \in DOMAIN node \ removed |-> node[n]]
      /\ phase' = "link"
      /\ UNCHANGED <<input, cursor, docs, later, failed, aliases>>

(* linkOpenPointers: alias names and ids become nodes, found by the text   *)
(* of the id.  A reference that is not forward also gives its target the forward one, unless the target *)
(* has it; the inverse one stays where it is.                              *)
Link(n, ref) ==
  [source  |-> n,
   type    |-> IF ref.type \in DOMAIN aliases /\ aliases[ref.type] \in DOMAIN node
               THEN aliases[ref.type] ELSE None,
   target  |-> IF ref.target \in DOMAIN node THEN ref.target ELSE None,
   forward |-> ref.forward]
Inverted(r) == [source |-> r.target, type |-> r.type, target |-> r.source,
                forward |-> ~r.forward]
AddForward(refs, n, inverse) ==
  LET to == SelectThose(inverse, LAMBDA r : r.target = n)
      new == Distinct([k \in DOMAIN to |-> Inverted(to[k])])
  IN  refs \o SelectThose(new, LAMBDA r : ~HasSame(refs, r))

Linked(n) == [node[n] EXCEPT !.refs = [j \in DOMAIN @ |-> Link(n, @[j])]]
LinkOpenPointers ==
  \E graph \in {[n \in DOMAIN node |-> Linked(n)]} :
  \E refs \in {FlattenSeq([k \in DOMAIN order |-> graph[order[k]].refs])} :
  \E inverse \in {SelectThose(refs, LAMBDA r : ~r.forward /\ r.target # None)} :
      /\ phase = "link"
      /\ node' = [n \in DOMAIN node |->
                    [graph[n] EXCEPT !.refs = AddForward(@, n, inverse)]]
      /\ phase' = "sanitize"
      /\ UNCHANGED <<input, cursor, docs, later, failed, order, aliases>>

(* sanitize: drops references without type or target; nodes all stay.      *)
Sanitize ==
  /\ phase = "sanitize"
  /\ node' = [n \in DOMAIN node |->
                [node[n] EXCEPT !.refs =
                   SelectThose(@, LAMBDA r : r.type # None /\ r.target # None)]]
  /\ phase' = "encode" /\ cursor' = 0
  /\ UNCHANGED <<input, docs, later, failed, order, aliases>>

GraphNext == ParseDocument \/ RemoveBlacklisted \/ LinkOpenPointers \/ Sanitize
=============================================================================
