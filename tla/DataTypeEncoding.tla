-------------------------- MODULE DataTypeEncoding --------------------------
(***************************************************************************)
(* buildEncodingRules of ua_namespace.py and buildEncoding of the data     *)
(* types in ua_node_types.py: which data types values can be encoded for.  *)
(* buildEncoding follows a type's fields or its supertypes recursively.    *)
(* It marks a type as built, and as encodable until proved otherwise,      *)
(* before it recurses; that ends the recursion of types that contain       *)
(* themselves.  The recursion's frames are on an explicit stack.           *)
(*                                                                         *)
(* A definition is None or a sequence of fields [value, type]: whether the *)
(* field has a Value, and the id its DataType names, or None.              *)
(***************************************************************************)
EXTENDS NamespaceGraph

CONSTANT BuiltinNames  \* the browse names of the builtin types

VARIABLES
  encodable,  \* __encodable__ of the types with __encodingBuilt__
  stack       \* frames [type, at, seen] of the buildEncoding calls under way

encodingVars == <<encodable, stack>>

EncodingInit == encodable = <<>> /\ stack = <<>>

IsDataType(n) == n \in DOMAIN node /\ node[n].class = "DataType"
Definition(t) == node[t].definition
IsHasSubtype(r) == node[r.type].name = "HasSubtype"
Supertypes(t) ==
  SelectThose(Refs(t), LAMBDA r : IsHasSubtype(r) /\ ~r.forward /\ IsDataType(r.target))

(* A call of buildEncoding for a type that is not built yet.               *)
Built(t, value) ==
  [n \in DOMAIN encodable \cup {t} |-> IF n = t THEN value ELSE encodable[n]]
(* Mutated form: the type is not marked as built before the recursion.  A  *)
(* type met again repeats its own call, on a stack cut off to that call.   *)
EnterUnmarked(t) ==
  LET builtin == node[t].name \in BuiltinNames
      again == {k \in DOMAIN stack : stack[k].type = t}
      under == IF again = {} THEN stack
               ELSE SubSeq(stack, 1, (CHOOSE k \in again : TRUE) - 1)
  IN  /\ encodable' = IF builtin THEN Built(t, TRUE) ELSE encodable
      /\ stack' = IF builtin THEN stack
                  ELSE Append(under, [type |-> t, at |-> 0, seen |-> {}])
(* Mutated form: the type is taken as not encodable until it is proved to be. *)
EnterPessimistically(t) ==
  /\ encodable' = Built(t, node[t].name \in BuiltinNames)
  /\ stack' = IF node[t].name \in BuiltinNames THEN stack
              ELSE Append(stack, [type |-> t, at |-> 0, seen |-> {}])
Enter(t) ==
  /\ encodable' = Built(t, TRUE)
  /\ stack' = IF node[t].name \in BuiltinNames THEN stack
              ELSE Append(stack, [type |-> t, at |-> 0, seen |-> {}])
Frame == Last(stack)
Advance(seen) == stack' = Front(stack) \o <<[Frame EXCEPT !.at = @ + 1, !.seen = seen]>>
Return == stack' = Front(stack)
Unencodable == encodable' = [encodable EXCEPT ![Frame.type] = FALSE]

BuildNext ==
  LET n == order[cursor + 1]
  IN  /\ phase = "encode" /\ stack = <<>> /\ cursor < Len(order)
      /\ cursor' = cursor + 1
      /\ IF IsDataType(n) /\ n \notin DOMAIN encodable
         THEN Enter(n) ELSE UNCHANGED encodingVars
      /\ UNCHANGED <<phase, failed>>

(* A type without a definition: its supertypes, up to one that cannot be   *)
(* encoded.  Without any it cannot be encoded.                             *)
FollowSupertypes ==
  LET supers == Supertypes(Frame.type)
      super == supers[Frame.at + 1].target
  IN  /\ phase = "encode" /\ stack # <<>> /\ Definition(Frame.type) = None
      /\ \/ Frame.at = Len(supers) /\ Return
            /\ IF supers = <<>> THEN Unencodable ELSE UNCHANGED encodable
         \/ Frame.at < Len(supers)
            /\ IF super \notin DOMAIN encodable THEN Enter(super)
               ELSE IF encodable[super] THEN Advance({}) /\ UNCHANGED encodable
               ELSE Unencodable /\ Return
      /\ UNCHANGED <<phase, cursor, failed>>

(* A type with a definition: all fields have a Value and it is an          *)
(* enumeration, or all have a DataType and it is as encodable as these     *)
(* types; anything else ends the loop.  A DataType that is no node makes   *)
(* the type unencodable, and the loop goes on.                             *)
FollowFields ==
  LET fields == Definition(Frame.type)
      field == fields[Frame.at + 1]
      seen == Frame.seen \cup (IF field.value THEN {"value"} ELSE {})
                         \cup (IF field.type # None THEN {"type"} ELSE {})
  IN  /\ phase = "encode" /\ stack # <<>> /\ Definition(Frame.type) # None
      /\ \/ Frame.at = Len(fields) /\ Return /\ UNCHANGED <<encodable, phase, failed>>
         \/ /\ Frame.at < Len(fields) /\ Cardinality(seen) # 1
            /\ Unencodable /\ Return /\ UNCHANGED <<phase, failed>>
         \/ /\ Frame.at < Len(fields) /\ seen = {"value"}
            /\ Advance(seen) /\ UNCHANGED <<encodable, phase, failed>>
         \/ /\ Frame.at < Len(fields) /\ seen = {"type"}
            /\ field.type \notin DOMAIN node
            /\ Unencodable /\ Advance(seen) /\ UNCHANGED <<phase, failed>>
         \/ /\ Frame.at < Len(fields) /\ seen = {"type"}
            /\ field.type \in DOMAIN node /\ ~IsDataType(field.type)
            /\ Fail("field") /\ UNCHANGED encodingVars
         \/ /\ Frame.at < Len(fields) /\ seen = {"type"} /\ IsDataType(field.type)
            /\ IF field.type \notin DOMAIN encodable THEN Enter(field.type)
               ELSE IF encodable[field.type] THEN Advance(seen) /\ UNCHANGED encodable
               ELSE Unencodable /\ Return
            /\ UNCHANGED <<phase, failed>>
      /\ UNCHANGED cursor

EncodingNext ==
  /\ BuildNext \/ FollowSupertypes \/ FollowFields
  /\ UNCHANGED <<input, docs, later, graphVars>>
-----------------------------------------------------------------------------
DataTypes == {n \in DOMAIN node : IsDataType(n)}
Uses(t) ==
  IF node[t].name \in BuiltinNames THEN {}
  ELSE IF Definition(t) = None THEN {r.target : r \in ToSet(Supertypes(t))}
  ELSE {f.type : f \in ToSet(Definition(t))} \cap DataTypes
Enumeration(t) == \A f \in ToSet(Definition(t)) : f.type = None
HasBuiltinForm(t) ==
  \/ node[t].name \in BuiltinNames
  \/ Definition(t) = None /\ Supertypes(t) # <<>>
  \/ /\ Definition(t) # None
     /\ \/ Enumeration(t) /\ (Definition(t) = <<>> \/ Definition(t)[1].value)
        \/ \A f \in ToSet(Definition(t)) : ~f.value /\ f.type \in DataTypes
OnCycle(t) == \A S \in SUBSET DataTypes :
                (Uses(t) \subseteq S /\ \A u \in S : Uses(u) \subseteq S) => t \in S

(* What the docstring of the data types promises, in whatever order they   *)
(* are built: a type that does not contain itself can be encoded exactly   *)
(* if its own form is a builtin, an enumeration or a structure of types    *)
(* that can, or it inherits from such types.  A type that contains itself  *)
(* is answered for while it is being built, as encodable.                  *)
EncodableConverges ==
  phase \in {"print", "done"} =>
    \A t \in DataTypes :
      ~OnCycle(t) => encodable[t] = (HasBuiltinForm(t) /\ \A u \in Uses(t) : encodable[u])
=============================================================================
