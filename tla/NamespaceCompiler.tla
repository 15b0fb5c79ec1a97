-------------------------- MODULE NamespaceCompiler --------------------------
(***************************************************************************)
(* generate_open62541CCode.py: turns nodeset documents into C code that    *)
(* creates the nodes and references of the generated namespace.  Composes  *)
(* preprocessing, the linked graph and the data type encodings, and adds   *)
(* the printing: printOpen62541Header of ua_namespace.py,                  *)
(* printOpen62541CCode of the nodes and open62541_MacroHelper.py.  What is *)
(* printed is a sequence of node creations and references.                 *)
(***************************************************************************)
EXTENDS DataTypeEncoding

VARIABLES
  reordered,  \* reorder: the nodes whose place in the new order is found
  types,      \* the reference types of namespace 0 left to bootstrap
  unprinted,  \* unPrintedNodes
  openRefs,   \* unPrintedRefs
  created,    \* the nodes created so far: records [node, parent, type]
  linked      \* the references created: with at, the nodes created by then

printVars == <<types, unprinted, openRefs, created, linked>>
vars == <<preVars, graphVars, encodingVars, reordered, printVars>>

PrintInit == /\ reordered = <<>> /\ types = <<>> /\ unprinted = {} /\ openRefs = <<>>
             /\ created = <<>> /\ linked = {}
Init == PreInit /\ GraphInit /\ EncodingInit /\ PrintInit

(* getSubTypesOf compares ids with an equality that always holds, and then *)
(* calls a method that does not exist: it raises if the type has forward   *)
(* references of any kind, and otherwise finds no subtypes.                *)
ByName(name) == SelectSeq(order, LAMBDA n : node[n].name = name)
IsTheFirst(n, name) == ByName(name) # <<>> /\ n = Head(ByName(name))
SubTypesRaise ==
  /\ ByName("HasSubtype") # <<>>
  /\ \E n \in DOMAIN node :
        /\ IsTheFirst(n, "HasTypeDefinition") \/ IsTheFirst(n, "HasSubtype")
        /\ \E r \in ToSet(Refs(n)) : r.forward

(* reorderNodesMinDependencies: a node waits for the nodes with forward    *)
(* references to it, and a lot longer if it has a type definition or a     *)
(* supertype, whether or not these are printed by then.                    *)
CountRefs(refs, Test(_)) == Len(SelectSeq(refs, Test))
Weight(n, left) ==
  LET IsTypeDefinition(r) == r.forward /\ IsTheFirst(r.type, "HasTypeDefinition")
      IsSupertype(r) == ~r.forward /\ IsTheFirst(r.type, "HasSubtype")
  IN  200 * CountRefs(Refs(n), IsTypeDefinition) + 100 * CountRefs(Refs(n), IsSupertype)
        + CountRefs(AllRefs(left), LAMBDA r : r.target = n /\ r.forward
                                                /\ ~IsTypeDefinition(r))
IsLightest(k, left) ==
  /\ \A j \in 1..(k - 1) : Weight(left[k], left) < Weight(left[j], left)
  /\ \A j \in (k + 1)..Len(left) : Weight(left[k], left) <= Weight(left[j], left)

(* The reference types of namespace 0 in the order of their first use.     *)
TypesOf(refs) == [k \in DOMAIN refs |-> refs[k].type]
TypesUsedOfUsers(refs) == SelectThose(Distinct(TypesOf(refs)), LAMBDA t : Ns(t) # 0)
TypesUsed(refs) == SelectThose(Distinct(TypesOf(refs)), LAMBDA t : Ns(t) = 0)

Reorder ==
  /\ phase = "encode" /\ stack = <<>> /\ cursor = Len(order)
  /\ ~SubTypesRaise
  /\ \E left \in {SelectThose(order, LAMBDA n : ~Contains(reordered, n))} :
     \E k \in DOMAIN left :
        IsLightest(k, left) /\ reordered' = Append(reordered, left[k])
  /\ UNCHANGED <<preVars, graphVars, encodingVars, printVars>>
RaiseInSubTypes ==
  /\ phase = "encode" /\ stack = <<>> /\ cursor = Len(order)
  /\ SubTypesRaise /\ Fail("subtype")
  /\ UNCHANGED <<input, cursor, docs, later, graphVars, encodingVars, reordered, printVars>>

BeginPrinting ==
  /\ phase = "encode" /\ stack = <<>> /\ cursor = Len(order)
  /\ Len(reordered) = Len(order) /\ ~SubTypesRaise
  /\ order' = reordered
  /\ unprinted' = ToSet(reordered) \ input.ignore
  /\ \E printed \in {SelectThose(reordered, LAMBDA n : n \notin input.ignore)} :
        openRefs' = AllRefs(printed)
  /\ \E refs \in {AllRefs(reordered)} : types' = TypesUsed(refs)
  /\ phase' = "print" /\ cursor' = 0
  /\ UNCHANGED <<input, docs, later, failed, node, aliases, encodingVars,
                 reordered, created, linked>>

(* getFirstParentNode: where the first reference that is not forward goes, *)
(* with the first reference of that node back.                             *)
FirstParent(n) ==
  LET inverse == SelectThose(Refs(n), LAMBDA r : ~r.forward)
  IN  IF inverse = <<>> THEN None ELSE Head(inverse).target
ParentRef(n) == Head(SelectThose(Refs(FirstParent(n)), LAMBDA r : r.target = n))

(* getCreateNodeNoBootstrap: a method takes its arguments along; their     *)
(* variables are never created.                                            *)
Arguments(m) ==
  IF node[m].class # "Method" THEN {}
  ELSE {r.target : r \in {s \in ToSet(Refs(m)) :
          /\ s.forward /\ node[s.target].class = "Variable"
          /\ node[s.target].name \in {"InputArguments", "OutputArguments"}}}

(* remove, for each of gone: takes the first equal one off the list.       *)
RemoveAllEqual(refs, gone) == SelectSeq(refs, LAMBDA r : ~HasSame(gone, r))
RemoveEach(refs, gone) ==
  SelectAt(refs, {k \in DOMAIN refs :
                    CountSame(SubSeq(refs, 1, k), refs[k]) > CountSame(gone, refs[k])})

(* The parent's reference is created with the node: it is no longer open,  *)
(* nor is any reference that equals the node's own one to its parent.      *)
HasParent(n) == FirstParent(n) # None /\ FirstParent(n) \notin unprinted
CreatedWith(n) == IF HasParent(n) THEN <<ParentRef(n)>> ELSE <<>>
LeadsBack(r, n, up) == Same(r, [Inverted(up) EXCEPT !.forward = FALSE]) /\ HasSame(Refs(n), r)
WithoutBacks(refs, n, ups) ==
  SelectThose(refs, LAMBDA r : \A up \in ToSet(ups) : ~LeadsBack(r, n, up))

(* printOpen62541CCode: creates the node, below its first parent if that   *)
(* exists, then its open references to nodes that exist, then the open     *)
(* references to it of nodes that exist.  Each takes the first equal one   *)
(* off the list of the open references.  The type definition handed to     *)
(* UA_Server_addXNode, which is not looked up among the created nodes, and *)
(* the removal of the default one afterwards are left out: the reference   *)
(* to the type definition is one of the node's own.                        *)
CreatedBelow(n) == [node |-> n, parent |-> FirstParent(n), type |-> ParentRef(n).type]
Bootstrapped(n) == [node |-> n, parent |-> None, type |-> None]
Creation(n) == IF HasParent(n) THEN CreatedBelow(n) ELSE Bootstrapped(n)
Emitted(r) == [source |-> r.source, type |-> r.type, target |-> r.target,
               forward |-> r.forward, at |-> Len(created) + 1]
UnprintedBeside(n) == IF HasParent(n) THEN unprinted \ Arguments(n) ELSE unprinted
CreateAndLink(n) ==
  \E left \in {UnprintedBeside(n)}, ups \in {CreatedWith(n)} :
  \E open \in {RemoveEach(openRefs, ups)} :
  \E refs \in {WithoutBacks(open, n, ups)} :
  \E own \in {SelectThose(Refs(n), LAMBDA r : r.target \notin left /\ HasSame(refs, r))} :
  \E rest \in {RemoveEach(refs, own)} :
  \E others \in {SelectThose(rest, LAMBDA r : r.target = n /\ r.source \notin left)} :
      IF \E r \in ToSet(own) : CountSame(own, r) > CountSame(refs, r)
      THEN Fail("remove") /\ UNCHANGED <<unprinted, openRefs, created, linked>>
      ELSE /\ created' = Append(created, Creation(n))
           /\ linked' = linked \cup {Emitted(r) : r \in ToSet(own) \cup ToSet(others)}
           /\ openRefs' = RemoveEach(rest, others)
           /\ unprinted' = left \ {n}
           /\ UNCHANGED <<phase, failed>>
PrintNodeAgain(n) == CreateAndLink(n)
PrintNode(n) ==
  IF n \in unprinted THEN CreateAndLink(n)
  ELSE UNCHANGED <<phase, failed, unprinted, openRefs, created, linked>>

(* printOpen62541Header: the reference types in use, then all nodes.  The  *)
(* references left over at the end are not printed: the condition for it   *)
(* asks for a target that is not created, and creates nothing else.        *)
PrintReferenceType ==
  /\ phase = "print" /\ types # <<>>
  /\ PrintNode(Head(types)) /\ types' = Tail(types)
  /\ UNCHANGED <<input, cursor, docs, later, graphVars, encodingVars, reordered>>
PrintNextNode ==
  /\ phase = "print" /\ types = <<>> /\ cursor < Len(order)
  /\ PrintNode(order[cursor + 1]) /\ cursor' = cursor + 1
  /\ UNCHANGED <<input, docs, later, types, graphVars, encodingVars, reordered>>
Finish ==
  /\ phase = "print" /\ types = <<>> /\ cursor = Len(order)
  /\ phase' = "done"
  /\ UNCHANGED <<input, cursor, docs, later, failed, graphVars, encodingVars, reordered,
                 printVars>>

Next ==
  \/ PreNext /\ UNCHANGED <<graphVars, encodingVars, reordered, printVars>>
  \/ GraphNext /\ UNCHANGED <<encodingVars, reordered, printVars>>
  \/ EncodingNext /\ UNCHANGED <<reordered, printVars>>
  \/ Reorder \/ RaiseInSubTypes \/ BeginPrinting \/ PrintReferenceType \/ PrintNextNode \/ Finish

Spec == Init /\ [][Next]_vars /\ WF_vars(Next)
-----------------------------------------------------------------------------
CreatedNodes == {created[k].node : k \in DOMAIN created}
Taken == UNION {Arguments(created[k].node) :
                  k \in {j \in DOMAIN created : created[j].parent # None}}

(* Every node is created once: nothing is created twice or against the     *)
(* ignore list, and in the end only ignored nodes and the arguments of     *)
(* methods created below a parent are missing.                             *)
NodesOnce ==
  /\ \A j, k \in DOMAIN created : created[j].node = created[k].node => j = k
  /\ CreatedNodes \cap input.ignore = {}
  /\ phase = "done" =>
       \A k \in DOMAIN order : order[k] \in input.ignore \cup CreatedNodes \cup Taken

(* A node exists for the generated code if it is ignored or created by it. *)
Exists(n, at) == n \in input.ignore \/ \E k \in 1..at : created[k].node = n

(* The order of the generated code: the parent a node is created below and *)
(* the ends of a reference exist by then, and so does the reference's type *)
(* if it is of namespace 0 and the reference is not one of a reference     *)
(* type, which are the first to be created.  Left out are a method's       *)
(* arguments, whose references are created without them, and reference     *)
(* types of other namespaces, which nothing puts first.  Types come first  *)
(* only if there are no other nodes among them: a reference whose type is  *)
(* an object has that object, and what hangs on it, created too early.     *)
TypesAreTypes ==
  \A n \in DOMAIN node : \A r \in ToSet(Refs(n)) :
    Ns(r.type) = 0 => node[r.type].class = "ReferenceType"
NeedsType(n, type) ==
  Ns(type) = 0 /\ node[n].class # "ReferenceType" /\ TypesAreTypes
ReferencesHaveEnds ==
  /\ \A k \in {j \in DOMAIN created : created[j].parent # None} :
       /\ created[k].parent \notin Taken => Exists(created[k].parent, k - 1)
       /\ NeedsType(created[k].node, created[k].type) => Exists(created[k].type, k - 1)
  /\ \A r \in linked :
       /\ {r.source, r.target} \cap Taken = {} =>
            Exists(r.source, r.at) /\ Exists(r.target, r.at)
       /\ NeedsType(r.source, r.type) => Exists(r.type, r.at)

(* What the C code connects: created references and parents, either way.   *)
Connected(source, type, target) ==
  \/ \E r \in linked : r.type = type /\ (IF r.forward THEN r.source = source /\ r.target = target
                                         ELSE r.source = target /\ r.target = source)
  \/ \E k \in DOMAIN created :
        created[k].node = target /\ created[k].parent = source /\ created[k].type = type

(* Every reference of a created node between different existing nodes is   *)
(* in the result, also if it is equal to that of another node, as the code *)
(* compares them without their source.  The equality loses references of a *)
(* second parent: of the type by which the child is created below its      *)
(* first one, or by which another child is below that second parent.       *)
HangsBelow(n, type) == FirstParent(n) # None /\ ParentRef(n).type = type
SecondParent(child, parent, type) ==
  /\ FirstParent(child) # parent
  /\ \/ HangsBelow(child, type)
     \/ \E n \in DOMAIN node : HangsBelow(n, type) /\ FirstParent(n) = parent
ReferencesArrive ==
  phase = "done" =>
    \A n \in CreatedNodes : \A r \in ToSet(Refs(n)) :
      LET source == IF r.forward THEN n ELSE r.target
          target == IF r.forward THEN r.target ELSE n
      IN  /\ r.target # n /\ r.target \in CreatedNodes \cup input.ignore
          /\ ~SecondParent(target, source, r.type)
          => Connected(source, r.type, target)

(* The compiler ends: data types that contain themselves do not keep it    *)
(* busy.                                                                   *)
Terminates == <>(phase \in {"done", "failed"})
=============================================================================
