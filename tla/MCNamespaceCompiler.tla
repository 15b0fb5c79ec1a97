------------------------ MODULE MCNamespaceCompiler ------------------------
(***************************************************************************)
(* Nodeset documents: a piece of namespace 0, usually ignored as the       *)
(* server has it, and user documents.  Each family of inputs varies what   *)
(* one stage of the compiler depends on.                                   *)
(***************************************************************************)
EXTENDS NamespaceCompiler

Element(id, class, name, refs, definition) ==
  [id |-> id, class |-> class, name |-> name, refs |-> refs, definition |-> definition]
Ref(type, target, forward) == [type |-> type, target |-> target, forward |-> forward]
Document(nodes, names, order_, uris) ==
  [nodes |-> nodes, order |-> order_, uris |-> uris,
   aliases |-> [a \in DOMAIN names |-> names[a]]]
Line(documents, ignored) ==
  [docs |-> documents, blacklists |-> <<>>, ignore |-> ignored]

Lines(ids, newline) == [ids |-> ids, newline |-> newline]

Component == <<0, 47>>
Organizes == <<0, 35>>
Subtype == <<0, 45>>
TypeDefinition == <<0, 40>>
Objects == <<0, 85>>
ObjectType == <<0, 58>>
Double == <<0, 11>>
Names == [component |-> Component, organizes |-> Organizes, subtype |-> Subtype,
          type |-> TypeDefinition]

Zero == <<Element(TypeDefinition, "ReferenceType", "HasTypeDefinition", <<>>, None),
          Element(Subtype, "ReferenceType", "HasSubtype", <<>>, None),
          Element(Component, "ReferenceType", "HasComponent", <<>>, None),
          Element(Organizes, "ReferenceType", "Organizes", <<>>, None),
          Element(Objects, "Object", "Objects", <<>>, None),
          Element(ObjectType, "ObjectType", "BaseObjectType", <<>>, None),
          Element(Double, "DataType", "Double", <<>>, None)>>
ZeroIds == {Zero[k].id : k \in DOMAIN Zero}
ZeroDoc == Document(Zero, Names, <<>>, <<>>)

(* Three nodes with every choice of references among them and to the       *)
(* server's nodes; one may be a method's argument.                         *)
A == <<2, 1>>
B == <<2, 2>>
C == <<2, 3>>
Typed == Ref("type", ObjectType, TRUE)
Below(p) == Ref("component", p, FALSE)
RefLists(others) ==
  {<<>>, <<Typed>>, <<Below(Objects), Typed>>, <<Ref("organizes", Objects, FALSE)>>}
    \cup {<<Below(p), Typed>> : p \in others}
    \cup {<<Ref("organizes", p, TRUE), Below(Objects)>> : p \in others}
    \cup {<<Below(p), Ref("organizes", Objects, FALSE)>> : p \in others}
GraphDoc(class, name, a, b, c) ==
  Document(<<Element(A, class, "A", a, None),
             Element(B, IF class = "Method" THEN "Variable" ELSE "Object", name, b, None),
             Element(C, "Object", "C", c, None)>>, Names, (1 :> "A"), <<>>)
Graphs ==
  {Line(<<ZeroDoc, GraphDoc(k[1], k[2], a, b, c)>>, ZeroIds) :
     k \in {<<"Object", "B">>, <<"Method", "InputArguments">>},
     a \in RefLists({B, C}), b \in RefLists({A, C}), c \in RefLists({A, B})}

(* Data types t, u and v of every form over each other.                    *)
T == <<2, 4>>
U == <<2, 5>>
V == <<2, 6>>
Value == [value |-> TRUE, type |-> None]
Neither == [value |-> FALSE, type |-> None]
OfType(t) == [value |-> FALSE, type |-> t]
Forms(types_) ==
  {<<None, <<>>>>, <<<<>>, <<>>>>}
    \cup {<<d, <<>>>> : d \in {<<Value>>, <<Neither>>, <<Value, Neither>>,
                               <<OfType(Double), Value>>, <<OfType(<<2, 9>>), OfType(U)>>}}
    \cup {<<None, <<Ref("subtype", t, FALSE)>>>> : t \in types_}
    \cup {<<<<OfType(t), OfType(u)>>, <<>>>> : t, u \in types_}
TypeDoc(t, u, v) ==
  Document(<<Element(T, "DataType", "T", t[2], t[1]),
             Element(U, "DataType", "U", u[2], u[1]),
             Element(V, "DataType", "V", v[2], v[1])>>, Names, (1 :> "A"), <<>>)
TypeGraphs ==
  {Line(<<ZeroDoc, TypeDoc(t, u, v)>>, ZeroIds) :
     t \in Forms({T, U, V}), u \in Forms({T, U, V}),
     v \in {<<None, <<>>>>, <<None, <<Ref("subtype", Double, FALSE)>>>>,
            <<<<OfType(T), OfType(Objects)>>, <<>>>>}}

(* Documents that call each other's namespaces by numbers of their own.    *)
Model(uri, numbers, targets) ==
  Document(<<Element(<<1, 1>>, "Object", uri,
               <<Below(Objects)>>
                 \o [k \in DOMAIN targets |-> Ref("component", targets[k], FALSE)], None)>>,
           Names, (1 :> uri) @@ numbers, <<>>)
Targets == {<<>>, <<<<2, 1>>>>, <<<<2, 1>>, <<3, 1>>>>, <<<<3, 1>>, <<2, 1>>>>,
            <<<<1, 1>>, <<2, 7>>>>, <<<<4, 1>>>>}
Numbers == {<<>>, (2 :> "A"), (2 :> "B") @@ (3 :> "A"), (2 :> "A") @@ (3 :> "B")}
Models ==
  {Line(<<Model("A", <<>>, <<>>), ZeroDoc, Model("B", n, s), Model("C", m, t)>>, ZeroIds) :
     n \in Numbers, m \in Numbers, s \in {<<>>, <<<<2, 1>>>>}, t \in Targets}
Fallback(uris, targets) == [Model("A", <<>>, targets) EXCEPT !.order = <<>>, !.uris = uris]

(* Odd documents: see the comment of each.                                 *)
Plain == GraphDoc("Object", "B", <<Below(Objects), Typed>>, <<Below(A), Typed>>,
                  <<Below(B), Typed>>)
Twice == <<Ref("organizes", C, TRUE), Ref("organizes", C, TRUE)>>
OwnType == Element(<<2, 8>>, "ReferenceType", "Owns",
                   <<Ref("subtype", Component, FALSE)>>, None)
Owning(refs) ==
  [GraphDoc("Object", "B", refs \o <<Ref("owns", C, TRUE)>>, <<>>, <<>>) EXCEPT
     !.nodes = Append(@, OwnType), !.aliases = [owns |-> <<2, 8>>] @@ @]
Subtyped == [Zero[3] EXCEPT !.refs = <<Ref("subtype", Organizes, FALSE)>>]
NamedZero == [ZeroDoc EXCEPT !.order = (1 :> "UA")]
Odd ==
  { (* namespace 0 is not ignored, and is bootstrapped *)
    Line(<<ZeroDoc, Plain>>, {}),
    (* blacklists, with and without an end of their last lines *)
    [Line(<<ZeroDoc, Plain>>, ZeroIds) EXCEPT !.blacklists = <<Lines(<<A, B>>, FALSE)>>],
    [Line(<<ZeroDoc, Plain>>, ZeroIds) EXCEPT !.blacklists = <<Lines(<<A, B>>, TRUE)>>],
    [Line(<<ZeroDoc, Plain>>, ZeroIds) EXCEPT
       !.blacklists = <<Lines(<<A>>, FALSE), Lines(<<>>, FALSE), Lines(<<C, B>>, FALSE)>>],
    (* a node defined twice *)
    Line(<<ZeroDoc, [Plain EXCEPT !.nodes = @ \o <<@[1]>>]>>, ZeroIds),
    (* an alias that is not defined *)
    Line(<<[ZeroDoc EXCEPT !.aliases = [component |-> Component]], [Plain EXCEPT !.aliases = <<>>]>>,
         ZeroIds),
    (* a reference type with a forward reference *)
    Line(<<[ZeroDoc EXCEPT !.nodes[2].refs = <<Ref("subtype", Component, TRUE)>>], Plain>>,
         ZeroIds),
    (* references given twice, and equal ones of another node *)
    Line(<<ZeroDoc, GraphDoc("Object", "B", Twice, <<Ref("organizes", C, TRUE)>>,
                             <<Ref("organizes", B, FALSE)>>)>>, ZeroIds),
    Line(<<ZeroDoc, GraphDoc("Object", "B", Twice \o <<Typed>>, <<Typed>>,
                             <<Ref("organizes", Objects, FALSE)>>)>>, ZeroIds),
    (* a reference type in use before the type of its own references exists *)
    Line(<<[ZeroDoc EXCEPT !.nodes = <<@[5], Subtyped>> \o [k \in 1..5 |-> @[<<1, 2, 4, 6, 7>>[k]]]],
           GraphDoc("Object", "B", <<Below(Objects)>>, <<Ref("organizes", Objects, FALSE)>>,
                    <<>>)>>, {}),
    (* numbers without a URI, of a node that is there and of one that is not *)
    Line(<<NamedZero, Model("B", <<>>, <<<<4, 1>>>>)>>, ZeroIds),
    Line(<<NamedZero, Model("B", <<>>, <<<<4, 7>>>>)>>, ZeroIds),
    (* one of namespace 0, which has that node *)
    Line(<<ZeroDoc, Model("B", <<>>, <<<<4, 85>>>>)>>, ZeroIds),
    (* an alias whose number begins with the document's own one *)
    Line(<<ZeroDoc, [Model("B", <<>>, <<>>) EXCEPT
                       !.aliases = [owns |-> <<10, 8>>] @@ @,
                       !.nodes[1].refs = @ \o <<Ref("owns", Objects, TRUE)>>]>>, ZeroIds),
    (* URIs without numbers, read and read past *)
    Line(<<ZeroDoc, Fallback(<<"A", "B">>, <<<<2, 1>>>>), Model("B", <<>>, <<>>)>>, ZeroIds),
    Line(<<ZeroDoc, Fallback(<<"A", "B">>, <<<<3, 1>>>>)>>, ZeroIds),
    Line(<<ZeroDoc, Fallback(<<>>, <<<<1, 1>>, <<1, 7>>>>)>>, ZeroIds),
    (* a reference type of its own, created before and after its use *)
    Line(<<ZeroDoc, Owning(<<Below(Objects), Typed>>)>>, ZeroIds),
    Line(<<ZeroDoc, Owning(<<>>)>>, ZeroIds) }

MCInputs == Graphs \cup TypeGraphs \cup Models \cup Odd
=============================================================================
