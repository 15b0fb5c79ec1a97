----------------------- MODULE NamespaceCompilerProofs -----------------------
(***************************************************************************)
(* Three facts about the namespace compiler, for all documents: it creates *)
(* every node once (CompilerIInv), its answers to which data types can be  *)
(* encoded converge (EncodingIInv, from the first line on), and what it    *)
(* creates exists before it is used (LinkIInv, from the second line on).   *)
(* Each invariant holds initially and every stage preserves it.            *)
(***************************************************************************)
EXTENDS NamespaceCompiler, SequenceLemmas

Early == phase \notin {"print", "done", "failed"}
MissingOrHere == input.ignore \cup CreatedNodes \cup Taken

(* A node is either created, ignored, taken along or still to be printed,  *)
(* and none that was visited is still to be printed.                       *)
CompilerIInv ==
  /\ IsASequence(created) /\ IsASequence(reordered)
  /\ \A j, k \in DOMAIN created : created[j].node = created[k].node => j = k
  /\ CreatedNodes \cap (input.ignore \cup unprinted) = {}
  /\ unprinted \cap input.ignore = {}
  /\ Early => created = <<>> /\ unprinted = {}
  /\ phase = "print" =>
       /\ IsASequence(order) /\ cursor \in Nat
       /\ \A k \in DOMAIN order : order[k] \in MissingOrHere \cup unprinted
       /\ \A k \in DOMAIN order : k <= cursor => order[k] \notin unprinted
  /\ phase = "done" => \A k \in DOMAIN order : order[k] \in MissingOrHere

(* Initially nothing is created.                                           *)
LEMMA InitCompiler == Init => CompilerIInv
<1> SUFFICES ASSUME Init PROVE CompilerIInv
  OBVIOUS
<1>1. created = <<>> /\ reordered = <<>> /\ unprinted = {} /\ phase = "preprocess"
  BY DEF Init, PrintInit, PreInit
<1>2. IsASequence(<<>>)
  <2>1. <<>> \in Seq({})
    OBVIOUS
  <2> QED
    BY <2>1 DEF IsASequence
<1> QED
  BY <1>1, <1>2 DEF CompilerIInv, CreatedNodes, Early

(* The preprocessor (open62541_XMLPreprocessor.py) runs before the graph is*)
(* read and creates no node.                                               *)
LEMMA PreStages ==
  ASSUME PreNext
  PROVE  phase \in {"preprocess", "models"} /\ phase' \in {"models", "parse", "failed"}
         /\ input' = input
<1>1. CASE AssignUniqueNsIds
  BY <1>1 DEF AssignUniqueNsIds
<1>2. CASE LinkDependantModels
  BY <1>2 DEF LinkDependantModels, Fail
<1>3. CASE MatchStochastically
  BY <1>3 DEF MatchStochastically, Fail
<1> QED
  BY <1>1, <1>2, <1>3 DEF PreNext

(* Parsing, linking and sanitizing the graph create no node either.        *)
LEMMA GraphStages ==
  ASSUME GraphNext
  PROVE  /\ phase \in {"parse", "link", "sanitize"}
         /\ phase' \in {"parse", "link", "sanitize", "encode"}
         /\ input' = input
BY DEF GraphNext, ParseDocument, RemoveBlacklisted, LinkOpenPointers, Sanitize

(* Nor does the decision which data types can be encoded.                  *)
LEMMA EncodingStages ==
  ASSUME EncodingNext
  PROVE  phase = "encode" /\ phase' \in {"encode", "failed"} /\ input' = input
<1>1. CASE BuildNext
  BY <1>1 DEF BuildNext, EncodingNext
<1>2. CASE FollowSupertypes
  BY <1>2 DEF FollowSupertypes, EncodingNext
<1>3. CASE FollowFields
  BY <1>3 DEF FollowFields, EncodingNext, Fail
<1> QED
  BY <1>1, <1>2, <1>3 DEF EncodingNext

(* Printing a node creates it, below its parent or not, or nothing.        *)
LEMMA CreatesOnlyIt ==
  ASSUME NEW n, CreateAndLink(n)
  PROVE  \/ phase' = "failed" /\ UNCHANGED <<unprinted, created>>
         \/ /\ phase' = phase /\ created' = Append(created, Creation(n))
            /\ unprinted' = UnprintedBeside(n) \ {n}
<1>1. \/ Fail("remove") /\ UNCHANGED <<unprinted, created>>
      \/ /\ phase' = phase /\ created' = Append(created, Creation(n))
         /\ unprinted' = UnprintedBeside(n) \ {n}
  BY Zenon DEF CreateAndLink
<1> QED
  BY <1>1 DEF Fail

(* A node that is created is the last one created; nothing is un-created.  *)
LEMMA CreatesOneMore ==
  ASSUME NEW n, IsASequence(created), created' = Append(created, Creation(n)), UNCHANGED node
  PROVE  LET l == Len(created)
         IN  /\ IsASequence(created') /\ DOMAIN created = 1..l /\ l \in Nat
             /\ DOMAIN created' = 1..(l + 1)
             /\ \A k \in 1..l : created'[k] = created[k]
             /\ created'[l + 1] = Creation(n) /\ Creation(n).node = n
             /\ CreatedNodes' = CreatedNodes \cup {n}
             /\ Taken \subseteq Taken' /\ (HasParent(n) => Arguments(n) \subseteq Taken')
<1> DEFINE l == Len(created)
<1>1. /\ IsASequence(created') /\ DOMAIN created = 1..l /\ l \in Nat
      /\ DOMAIN created' = 1..(l + 1)
      /\ \A k \in 1..l : created'[k] = created[k]
      /\ created'[l + 1] = Creation(n)
  BY AppendIsASequence
<1>2. Creation(n).node = n /\ (HasParent(n) => Creation(n).parent # None)
  BY DEF Creation, CreatedBelow, Bootstrapped, HasParent
<1>3. CreatedNodes' = CreatedNodes \cup {n}
  BY <1>1, <1>2 DEF CreatedNodes
<1>4. Taken \subseteq Taken' /\ (HasParent(n) => Arguments(n) \subseteq Taken')
  <2> DEFINE Below == {j \in DOMAIN created : created[j].parent # None}
  <2>1. Taken = UNION {Arguments(created[k].node) : k \in Below}
    BY DEF Taken
  <2>2. Taken' = UNION {Arguments(created'[k].node) :
                          k \in {j \in DOMAIN created' : created'[j].parent # None}}
    BY DEF Taken, Arguments, Refs
  <2>3. \A k \in Below : /\ k \in DOMAIN created' /\ created'[k].parent # None
                        /\ created'[k].node = created[k].node
    BY <1>1
  <2>4. HasParent(n) => /\ l + 1 \in DOMAIN created' /\ created'[l + 1].parent # None
                        /\ created'[l + 1].node = n
    BY <1>1, <1>2
  <2> QED
    BY <2>1, <2>2, <2>3, <2>4
<1> QED
  BY <1>1, <1>2, <1>3, <1>4

(* Whatever of nodes was created, taken along or still to be printed is so *)
(* afterwards, and what was created or taken along remains so.             *)
LEMMA PrintNodeKeeps ==
  ASSUME CompilerIInv, phase = "print", NEW n, PrintNode(n),
         UNCHANGED <<input, node>>
  PROVE  /\ IsASequence(created)'
         /\ \A j, k \in DOMAIN created' : created'[j].node = created'[k].node => j = k
         /\ CreatedNodes' \cap (input.ignore \cup unprinted') = {}
         /\ unprinted' \subseteq unprinted /\ phase' \in {"print", "failed"}
         /\ phase' = "print" => n \notin unprinted'
         /\ MissingOrHere \cup unprinted \subseteq MissingOrHere' \cup unprinted'
<1>1. \A m : Arguments(m)' = Arguments(m)
  BY DEF Arguments, Refs
<1>2. CASE UNCHANGED <<created, unprinted>> /\ phase' = "failed"
  <2>1. CreatedNodes' = CreatedNodes /\ Taken' = Taken
    BY <1>1, <1>2 DEF CreatedNodes, Taken
  <2> QED
    BY <1>2, <2>1 DEF CompilerIInv, MissingOrHere, IsASequence
<1>3. CASE n \notin unprinted
  <2>1. UNCHANGED <<phase, unprinted, created>>
    BY <1>3 DEF PrintNode
  <2>2. CreatedNodes' = CreatedNodes /\ Taken' = Taken
    BY <1>1, <2>1 DEF CreatedNodes, Taken
  <2> QED
    BY <1>3, <2>1, <2>2 DEF CompilerIInv, MissingOrHere, IsASequence
<1>4. CASE /\ n \in unprinted /\ phase' = phase
           /\ created' = Append(created, Creation(n))
           /\ unprinted' = UnprintedBeside(n) \ {n}
  <2> DEFINE l == Len(created)
  <2>1. /\ IsASequence(created') /\ DOMAIN created = 1..l /\ l \in Nat
        /\ DOMAIN created' = 1..(l + 1)
        /\ \A k \in 1..l : created'[k] = created[k]
        /\ created'[l + 1] = Creation(n) /\ Creation(n).node = n
        /\ CreatedNodes' = CreatedNodes \cup {n}
        /\ Taken \subseteq Taken' /\ (HasParent(n) => Arguments(n) \subseteq Taken')
    BY <1>4, CreatesOneMore DEF CompilerIInv
  <2> HIDE DEF l
  <2>2. n \notin CreatedNodes /\ n \notin input.ignore
    BY <1>4 DEF CompilerIInv
  <2>3. ASSUME NEW j \in DOMAIN created', NEW k \in DOMAIN created',
               created'[j].node = created'[k].node
        PROVE  j = k
    <3>1. \A i \in 1..l : created'[i].node \in CreatedNodes
      BY <2>1 DEF CreatedNodes
    <3>2. \A i, h \in 1..l : created'[i].node = created'[h].node => i = h
      BY <2>1 DEF CompilerIInv
    <3>3. created'[l + 1].node = n
      BY <2>1
    <3> QED
      BY <2>1, <2>2, <2>3, <3>1, <3>2, <3>3
  <2>4. /\ unprinted' \subseteq unprinted \ {n}
        /\ unprinted \subseteq unprinted' \cup {n} \cup Taken'
    BY <1>4, <2>1 DEF UnprintedBeside
  <2>5. CreatedNodes' \cap (input.ignore \cup unprinted') = {}
    BY <2>1, <2>2, <2>4 DEF CompilerIInv
  <2>6. MissingOrHere \cup unprinted \subseteq MissingOrHere' \cup unprinted'
    BY <2>1, <2>4 DEF MissingOrHere
  <2>7. IsASequence(created)'
    BY <2>1 DEF IsASequence
  <2> QED
    BY <1>4, <2>3, <2>4, <2>5, <2>6, <2>7
<1> QED
  BY <1>2, <1>3, <1>4, CreatesOnlyIt DEF PrintNode

(* A step before printing that creates nothing preserves the invariant.    *)
LEMMA EarlySteps ==
  ASSUME CompilerIInv, Early, phase' \notin {"print", "done"},
         UNCHANGED <<input, created, unprinted>>, IsASequence(reordered)'
  PROVE  CompilerIInv'
BY DEF CompilerIInv, Early, IsASequence, CreatedNodes, MissingOrHere

(* reorderNodesMinDependencies puts nodes in order and creates none.       *)
LEMMA ReorderPreserves == ASSUME CompilerIInv, Reorder PROVE CompilerIInv'
<1>1. PICK x : reordered' = Append(reordered, x)
  BY Zenon DEF Reorder
<1>2. IsASequence(reordered)'
  BY <1>1, AppendIsASequence DEF CompilerIInv, IsASequence
<1>3. /\ phase = "encode" /\ phase' = "encode"
      /\ UNCHANGED <<input, created, unprinted>>
  BY DEF Reorder, preVars, printVars
<1> QED
  BY <1>2, <1>3, EarlySteps DEF Early

(* printOpen62541Header begins with all nodes that are not ignored.        *)
LEMMA BeginPrintingPreserves == ASSUME CompilerIInv, BeginPrinting PROVE CompilerIInv'
<1>1. /\ phase = "encode" /\ order' = reordered /\ phase' = "print" /\ cursor' = 0
      /\ unprinted' = ToSet(reordered) \ input.ignore
      /\ UNCHANGED <<input, created, reordered>>
  BY DEF BeginPrinting
<1>2. created' = <<>> /\ CreatedNodes' = {} /\ IsASequence(created)'
  BY <1>1 DEF CompilerIInv, Early, CreatedNodes, IsASequence
<1>3. IsASequence(order)' /\ IsASequence(reordered)'
  BY <1>1 DEF CompilerIInv, IsASequence
<1>4. \A k \in DOMAIN order' : order'[k] \in input.ignore \cup unprinted' /\ k \in Nat \ {0}
  <2>1. DOMAIN reordered \subseteq Nat \ {0}
    BY AppendIsASequence DEF CompilerIInv
  <2> QED
    BY <1>1, <2>1 DEF ToSet
<1> QED
  BY <1>1, <1>2, <1>3, <1>4 DEF CompilerIInv, MissingOrHere, Early

(* Printing a reference type or the next node takes that node off the nodes*)
(* still to be printed.                                                    *)
LEMMA PrintingPreserves ==
  ASSUME CompilerIInv, PrintReferenceType \/ PrintNextNode
  PROVE  CompilerIInv'
<1>1. CASE PrintReferenceType
  <2>1. /\ phase = "print" /\ PrintNode(Head(types))
        /\ UNCHANGED <<input, cursor, order, node, reordered>>
    BY <1>1 DEF PrintReferenceType, graphVars
  <2>2. PICK n : PrintNode(n)
    BY <2>1
  <2> QED
    BY <2>1, <2>2, PrintNodeKeeps DEF CompilerIInv, IsASequence, MissingOrHere, Early
<1>2. CASE PrintNextNode
  <2>1. /\ phase = "print" /\ PrintNode(order[cursor + 1]) /\ cursor' = cursor + 1
        /\ UNCHANGED <<input, order, node, reordered>>
    BY <1>2 DEF PrintNextNode, graphVars
  <2>2. PICK n : PrintNode(n) /\ n = order[cursor + 1]
    BY <2>1
  <2>3. DOMAIN order \subseteq Nat
    BY <2>1, AppendIsASequence DEF CompilerIInv
  <2> QED
    BY <2>1, <2>2, <2>3, PrintNodeKeeps
       DEF CompilerIInv, IsASequence, MissingOrHere, Early
<1> QED
  BY <1>1, <1>2

(* When the order is worked off no node is left to be printed.             *)
LEMMA FinishPreserves == ASSUME CompilerIInv, Finish PROVE CompilerIInv'
<1>1. /\ phase = "print" /\ cursor = Len(order) /\ phase' = "done"
      /\ UNCHANGED <<input, order, node, reordered, unprinted, created>>
  BY DEF Finish, graphVars, printVars
<1>2. \A k \in DOMAIN order : k <= cursor
  BY <1>1, AppendIsASequence DEF CompilerIInv
<1>3. CreatedNodes' = CreatedNodes /\ Taken' = Taken
  BY <1>1 DEF CreatedNodes, Taken, Arguments, Refs
<1> QED
  BY <1>1, <1>2, <1>3 DEF CompilerIInv, IsASequence, MissingOrHere, Early

(* A stuttering step preserves the inductive invariant.                    *)
LEMMA CompilerStutters == ASSUME CompilerIInv, UNCHANGED vars PROVE CompilerIInv'
<1>1. CreatedNodes' = CreatedNodes /\ Taken' = Taken
  BY DEF vars, graphVars, printVars, CreatedNodes, Taken, Arguments, Refs
<1> QED
  BY <1>1 DEF vars, preVars, graphVars, printVars, CompilerIInv, IsASequence,
              MissingOrHere, Early

(* Every reachable state satisfies the inductive invariant.                *)
THEOREM CompilerInvariant == Spec => []CompilerIInv
<1>1. ASSUME CompilerIInv, [Next]_vars PROVE CompilerIInv'
  <2>0. UNCHANGED reordered => IsASequence(reordered)'
    BY <1>1 DEF CompilerIInv, IsASequence
  <2>1. CASE PreNext /\ UNCHANGED <<graphVars, encodingVars, reordered, printVars>>
    BY <1>1, <2>0, <2>1, PreStages, EarlySteps DEF printVars, Early
  <2>2. CASE GraphNext /\ UNCHANGED <<encodingVars, reordered, printVars>>
    BY <1>1, <2>0, <2>2, GraphStages, EarlySteps DEF printVars, Early
  <2>3. CASE EncodingNext /\ UNCHANGED <<reordered, printVars>>
    BY <1>1, <2>0, <2>3, EncodingStages, EarlySteps DEF printVars, Early
  <2>4. CASE RaiseInSubTypes
    <3>1. /\ phase = "encode" /\ phase' = "failed"
          /\ UNCHANGED <<input, created, unprinted, reordered>>
      BY <2>4 DEF RaiseInSubTypes, Fail, printVars
    <3> QED
      BY <1>1, <2>0, <3>1, EarlySteps DEF Early
  <2> QED
    BY <1>1, <2>1, <2>2, <2>3, <2>4, ReorderPreserves, BeginPrintingPreserves,
       PrintingPreserves, FinishPreserves, CompilerStutters DEF Next
<1> QED
  BY <1>1, InitCompiler, PTL DEF Spec

(* Whatever documents, blacklist and ignore list the compiler is given,    *)
(* every node is created once or is missing for a reason.                  *)
THEOREM NodesAlwaysOnce == Spec => []NodesOnce
<1>1. CompilerIInv => NodesOnce
  BY DEF CompilerIInv, NodesOnce, MissingOrHere
<1> QED
  BY <1>1, CompilerInvariant, PTL
-----------------------------------------------------------------------------
(* The elements of a sequence at some positions are a sequence of just     *)
(* these elements.                                                         *)
LEMMA SelectAtLookup ==
  ASSUME NEW s, IsASequence(s), NEW positions
  PROVE  /\ IsASequence(SelectAt(s, positions))
         /\ ToSet(SelectAt(s, positions)) = {s[k] : k \in DOMAIN s \cap positions}
<1>1. PICK S : s \in Seq(S)
  BY DEF IsASequence
<1> DEFINE T == Seq(S)
           n == Len(s)
           step == [k \in 1..n |->
                      [t \in T |-> IF k \in positions THEN Append(t, s[k]) ELSE t]]
           Next_(h, k) == IF k = 0 THEN <<>>
                          ELSE IF k \in positions THEN Append(h[k - 1], s[k])
                          ELSE h[k - 1]
           Fits(h) == h = [k \in 0..n |-> Next_(h, k)]
           kept == CHOOSE h : Fits(h)
<1>2. n \in Nat /\ <<>> \in T /\ DOMAIN s = 1..n /\ \A k \in 1..n : s[k] \in S
  BY <1>1
<1>3. step \in [1..n -> [T -> T]]
  <2>1. ASSUME NEW k \in 1..n, NEW t \in T
        PROVE  (IF k \in positions THEN Append(t, s[k]) ELSE t) \in T
    BY <1>2
  <2> QED
    BY <2>1
<1> HIDE DEF step, T
<1>4. PICK g \in Steps(T, <<>>, step, n) : TRUE
  BY <1>2, <1>3, StepsExist
<1>5. /\ g \in [0..n -> T] /\ g[0] = <<>>
      /\ \A k \in 1..n : g[k] = IF k \in positions THEN Append(g[k - 1], s[k]) ELSE g[k - 1]
  <2>1. g \in [0..n -> T] /\ g[0] = <<>>
    BY DEF Steps
  <2>2. ASSUME NEW k \in 1..n
        PROVE  g[k] = IF k \in positions THEN Append(g[k - 1], s[k]) ELSE g[k - 1]
    <3>1. g[k] = step[k][g[k - 1]] /\ g[k - 1] \in T
      BY <1>2, <2>1 DEF Steps
    <3> QED
      BY <3>1 DEF step
  <2> QED
    BY <2>1, <2>2
<1> HIDE DEF n
<1>6. Fits(g)
  <2>1. ASSUME NEW k \in 0..n PROVE g[k] = Next_(g, k)
    <3>1. k = 0 \/ k \in 1..n
      BY <1>2
    <3> QED
      BY <1>5, <3>1
  <2> HIDE DEF Next_
  <2> QED
    BY <1>5, <2>1
<1>7. Fits(kept)
  BY <1>6
<1> HIDE DEF kept
<1> DEFINE H == {k \in Nat : k \in 0..n => kept[k] = g[k]}
<1>8. 0 \in H
  <2>1. kept[0] = Next_(kept, 0)
    BY <1>2, <1>7
  <2> QED
    BY <1>5, <2>1
<1>9. ASSUME NEW k \in Nat, k \in H PROVE k + 1 \in H
  <2> SUFFICES ASSUME k + 1 \in 0..n PROVE kept[k + 1] = g[k + 1]
    OBVIOUS
  <2>1. kept[k + 1] = Next_(kept, k + 1)
    BY <1>7
  <2>2. kept[k] = g[k] /\ (k + 1) - 1 = k /\ k + 1 # 0 /\ k + 1 \in 1..n
    BY <1>2, <1>9
  <2> QED
    BY <1>5, <2>1, <2>2
<1> HIDE DEF H
<1>10. kept[n] = g[n]
  <2>1. n \in H
    BY <1>2, <1>8, <1>9, Induction
  <2> QED
    BY <1>2, <2>1 DEF H
<1>11. SelectAt(s, positions) = g[n]
  BY <1>10 DEF SelectAt, kept, n
<1> DEFINE J == {k \in Nat : k \in 0..n =>
                   /\ g[k] \in T
                   /\ ToSet(g[k]) = {s[j] : j \in {i \in 1..n : i <= k /\ i \in positions}}}
<1>12. 0 \in J
  BY <1>2, <1>5 DEF ToSet
<1>13. ASSUME NEW k \in Nat, k \in J PROVE k + 1 \in J
  <2> SUFFICES ASSUME k + 1 \in 0..n
               PROVE  /\ g[k + 1] \in T
                      /\ ToSet(g[k + 1])
                           = {s[j] : j \in {i \in 1..n : i <= k + 1 /\ i \in positions}}
    OBVIOUS
  <2> DEFINE Before == {i \in 1..n : i <= k /\ i \in positions}
             Now == {i \in 1..n : i <= k + 1 /\ i \in positions}
  <2>1. /\ k + 1 \in 1..n /\ (k + 1) - 1 = k /\ g[k] \in T
        /\ ToSet(g[k]) = {s[j] : j \in Before}
    BY <1>2, <1>13
  <2>2. CASE k + 1 \notin positions
    <3>1. g[k + 1] = g[k]
      BY <1>5, <2>1, <2>2
    <3>2. Now = Before
      BY <1>2, <2>2
    <3> QED
      BY <2>1, <3>1, <3>2
  <2>3. CASE k + 1 \in positions
    <3>1. g[k + 1] = Append(g[k], s[k + 1]) /\ s[k + 1] \in S
      BY <1>2, <1>5, <2>1, <2>3
    <3>2. Now = Before \cup {k + 1}
      BY <1>2, <2>1, <2>3
    <3>3. {s[j] : j \in Now} = {s[j] : j \in Before} \cup {s[k + 1]}
      BY <3>2
    <3>4. /\ g[k + 1] \in T
          /\ DOMAIN g[k] = 1..Len(g[k]) /\ Len(g[k]) \in Nat
          /\ DOMAIN g[k + 1] = 1..(Len(g[k]) + 1)
          /\ \A j \in 1..Len(g[k]) : g[k + 1][j] = g[k][j]
          /\ g[k + 1][Len(g[k]) + 1] = s[k + 1]
      BY <2>1, <3>1, AppendProperties DEF T
    <3> DEFINE l == Len(g[k])
               a == g[k]
               b == g[k + 1]
    <3> HIDE DEF l, a, b
    <3>5. ToSet(b) = ToSet(a) \cup {s[k + 1]}
      <4>1. /\ DOMAIN a = 1..l /\ l \in Nat /\ DOMAIN b = 1..(l + 1)
            /\ \A j \in 1..l : b[j] = a[j]
            /\ b[l + 1] = s[k + 1]
        BY <3>4 DEF l, a, b
      <4>2. ToSet(a) = {b[j] : j \in 1..l} /\ ToSet(b) = {b[j] : j \in 1..(l + 1)}
        BY <4>1 DEF ToSet
      <4>3. 1..(l + 1) = 1..l \cup {l + 1}
        BY <4>1
      <4> QED
        BY <4>1, <4>2, <4>3
    <3> QED
      BY <2>1, <3>3, <3>4, <3>5 DEF a, b
  <2> QED
    BY <2>2, <2>3
<1> HIDE DEF J
<1>14. n \in J
  BY <1>2, <1>12, <1>13, Induction
<1>15. g[n] \in T /\ ToSet(g[n]) = {s[j] : j \in {i \in 1..n : i <= n /\ i \in positions}}
  BY <1>2, <1>14 DEF J
<1>16. {i \in 1..n : i <= n /\ i \in positions} = DOMAIN s \cap positions
  BY <1>2
<1> QED
  BY <1>11, <1>15, <1>16 DEF IsASequence, T

(* What is known of an element, of a node, and of the documents.           *)
ElementForm(e) ==
  /\ e = [id |-> e.id, class |-> e.class, name |-> e.name, refs |-> e.refs,
          definition |-> e.definition]
  /\ e.id \in Ids /\ IsASequence(e.refs) /\ e.definition \in {None} \cup Seq(Fields)
DocForm(doc) ==
  /\ doc = [nodes |-> doc.nodes, aliases |-> doc.aliases, order |-> doc.order,
            uris |-> doc.uris]
  /\ IsASequence(doc.nodes) /\ \A k \in DOMAIN doc.nodes : ElementForm(doc.nodes[k])
EntryForm(d) == d = [was |-> d.was, doc |-> d.doc] /\ DocForm(d.doc)
DocsForm == IsASequence(docs) /\ \A k \in DOMAIN docs : EntryForm(docs[k])

(* The documents as they are read.                                         *)
LEMMA ReadDocs == ASSUME PreInit PROVE DocsForm
<1>1. /\ input \in Inputs
      /\ docs = [k \in DOMAIN input.docs |-> [was |-> k, doc |-> input.docs[k]]]
  BY DEF PreInit
<1>2. /\ IsASequence(input.docs)
      /\ \A k \in DOMAIN input.docs :
           LET doc == input.docs[k]
           IN  /\ doc = [nodes |-> doc.nodes, aliases |-> doc.aliases,
                         order |-> doc.order, uris |-> doc.uris]
               /\ doc.nodes \in Seq(Elements)
  BY <1>1, InputsAssumption DEF IsASequence
<1>3. ASSUME NEW e \in Elements PROVE ElementForm(e)
  BY DEF Elements, ElementForm, IsASequence
<1>4. ASSUME NEW k \in DOMAIN input.docs PROVE DocForm(input.docs[k])
  <2> DEFINE doc == input.docs[k]
  <2>1. /\ doc = [nodes |-> doc.nodes, aliases |-> doc.aliases,
                  order |-> doc.order, uris |-> doc.uris]
        /\ doc.nodes \in Seq(Elements)
    BY <1>2
  <2> HIDE DEF doc
  <2>2. \A j \in DOMAIN doc.nodes : doc.nodes[j] \in Elements
    BY <2>1
  <2>3. DocForm(doc)
    BY <1>3, <2>1, <2>2 DEF DocForm, IsASequence
  <2> QED
    BY <2>3 DEF doc
<1>5. IsASequence(docs) /\ DOMAIN docs = DOMAIN input.docs
  BY <1>1, <1>2, MappedSequence
<1>6. ASSUME NEW k \in DOMAIN docs PROVE EntryForm(docs[k])
  <2>1. docs[k] = [was |-> k, doc |-> input.docs[k]] /\ k \in DOMAIN input.docs
    BY <1>1, <1>5
  <2> QED
    BY <1>4, <2>1 DEF EntryForm
<1> QED
  BY <1>5, <1>6 DEF DocsForm

(* Renumbering the targets of an element's references keeps its form.      *)
LEMMA RenumberTargetsForm ==
  ASSUME NEW e, ElementForm(e), NEW to
  PROVE  ElementForm(RenumberTargets(e, to))
<1> DEFINE refs == [j \in DOMAIN e.refs |-> RenumberTarget(e.refs[j], to)]
<1>1. IsASequence(refs)
  BY MappedSequence DEF ElementForm
<1>2. RenumberTargets(e, to) = [e EXCEPT !.refs = refs]
  BY DEF RenumberTargets
<1> HIDE DEF refs
<1>3. [e EXCEPT !.refs = refs]
        = [id |-> e.id, class |-> e.class, name |-> e.name, refs |-> refs,
           definition |-> e.definition]
  BY DEF ElementForm
<1> QED
  BY <1>1, <1>2, <1>3 DEF ElementForm

(* Renumbering an element itself keeps its form.                           *)
LEMMA RenumberIdForm ==
  ASSUME NEW e, ElementForm(e), NEW current, NEW new \in Int
  PROVE  LET to == [n \in {current} |-> new]
         IN  ElementForm(RenumberNode(e, to))
<1> DEFINE to == [n \in {current} |-> new]
           r == RenumberTargets(e, to)
<1>1. ElementForm(r)
  BY RenumberTargetsForm
<1>2. Renumber(r.id, to) \in Ids
  <2> HIDE DEF r
  <2>1. r.id \in Ids
    BY <1>1 DEF ElementForm
  <2>2. r.id[2] \in Int
    BY <2>1 DEF Ids
  <2>3. Ns(r.id) \in DOMAIN to => to[Ns(r.id)] = new
    OBVIOUS
  <2> HIDE DEF to
  <2> QED
    BY <2>1, <2>2, <2>3 DEF Renumber, Ids
<1> HIDE DEF r, to
<1>3. [r EXCEPT !.id = Renumber(@, to)]
        = [id |-> Renumber(r.id, to), class |-> r.class, name |-> r.name,
           refs |-> r.refs, definition |-> r.definition]
  BY <1>1 DEF ElementForm
<1>4. ElementForm([r EXCEPT !.id = Renumber(@, to)])
  BY <1>1, <1>2, <1>3 DEF ElementForm
<1> QED
  BY <1>4 DEF r, to, RenumberNode

(* The two ways in which a document's namespaces are renumbered.           *)
LEMMA NodesForm ==
  ASSUME NEW doc, DocForm(doc), NEW nodes, nodes = [k \in DOMAIN doc.nodes |-> nodes[k]],
         \A k \in DOMAIN doc.nodes : ElementForm(nodes[k])
  PROVE  DocForm([doc EXCEPT !.nodes = nodes])
<1>1. IsASequence(nodes) /\ DOMAIN nodes = DOMAIN doc.nodes
  BY MappedSequence DEF DocForm
<1>2. [doc EXCEPT !.nodes = nodes]
        = [nodes |-> nodes, aliases |-> doc.aliases, order |-> doc.order,
           uris |-> doc.uris]
  BY DEF DocForm
<1> QED
  BY <1>1, <1>2 DEF DocForm

(* reassignReferencedNamespaceId keeps a document's form.                  *)
LEMMA ReassignReferencedForm ==
  ASSUME NEW doc, DocForm(doc), NEW to
  PROVE  DocForm(ReassignReferenced(doc, to))
<1> DEFINE nodes == [k \in DOMAIN doc.nodes |-> RenumberTargets(doc.nodes[k], to)]
<1>1. ASSUME NEW k \in DOMAIN doc.nodes PROVE ElementForm(nodes[k])
  BY RenumberTargetsForm DEF DocForm
<1>2. DocForm([doc EXCEPT !.nodes = nodes])
  <2>1. nodes = [k \in DOMAIN doc.nodes |-> nodes[k]]
    OBVIOUS
  <2> HIDE DEF nodes
  <2> QED
    BY <1>1, <2>1, NodesForm
<1> QED
  BY <1>2 DEF ReassignReferenced

(* reassignNamespaceId keeps a document's form.                            *)
LEMMA ReassignNamespaceIdForm ==
  ASSUME NEW doc, DocForm(doc), NEW current, NEW new \in Int
  PROVE  DocForm(ReassignNamespaceId(doc, current, new))
<1> DEFINE to == [n \in {current} |-> new]
           nodes == [k \in DOMAIN doc.nodes |-> RenumberNode(doc.nodes[k], to)]
           names == [a \in DOMAIN doc.aliases |->
                       RenumberAlias(doc.aliases[a], current, new)]
           half == [doc EXCEPT !.nodes = nodes]
<1>1. ASSUME NEW k \in DOMAIN doc.nodes PROVE ElementForm(nodes[k])
  BY RenumberIdForm DEF DocForm
<1>2. nodes = [k \in DOMAIN doc.nodes |-> nodes[k]]
  OBVIOUS
<1>3. ReassignNamespaceId(doc, current, new)
        = [doc EXCEPT !.nodes = nodes, !.aliases = names]
  BY DEF ReassignNamespaceId
<1> HIDE DEF nodes, names
<1>4. DocForm(half)
  BY <1>1, <1>2, NodesForm
<1>5. /\ [doc EXCEPT !.nodes = nodes, !.aliases = names]
           = [nodes |-> nodes, aliases |-> names, order |-> doc.order, uris |-> doc.uris]
      /\ half.nodes = nodes
  <2>1. doc = [nodes |-> doc.nodes, aliases |-> doc.aliases, order |-> doc.order,
               uris |-> doc.uris]
    BY DEF DocForm
  <2>2. [doc EXCEPT !.nodes = nodes, !.aliases = names] = [half EXCEPT !.aliases = names]
    OBVIOUS
  <2>3. half = [nodes |-> nodes, aliases |-> doc.aliases, order |-> doc.order,
                uris |-> doc.uris]
    BY <2>1
  <2> HIDE DEF half
  <2> QED
    BY <2>2, <2>3
<1> HIDE DEF half
<1> QED
  BY <1>3, <1>4, <1>5 DEF DocForm

(* SelectThose keeps the elements it is asked for.                         *)
LEMMA SelectedIsASequence ==
  ASSUME NEW s, IsASequence(s), NEW positions
  PROVE  /\ IsASequence(SelectAt(s, positions))
         /\ \A i \in DOMAIN SelectAt(s, positions) :
              \E k \in DOMAIN s \cap positions : SelectAt(s, positions)[i] = s[k]
BY SelectAtLookup DEF ToSet

(* preprocess_assignUniqueNsIds keeps the form of the documents.           *)
LEMMA AssignedDocs == ASSUME DocsForm, AssignUniqueNsIds PROVE DocsForm'
<1> DEFINE at0 == {k \in DOMAIN docs : NamespaceId(docs[k].doc) = 0}
           at1 == {k \in DOMAIN docs : NamespaceId(docs[k].doc) # 0}
           zero == SelectAt(docs, at0)
           others == SelectAt(docs, at1)
           moved == [k \in DOMAIN others |->
                       [others[k] EXCEPT !.doc =
                          ReassignNamespaceId(@, NamespaceId(@), k + 1)]]
<1>1. docs' = zero \o moved
  BY Zenon DEF AssignUniqueNsIds, SelectThose
<1> HIDE DEF at0, at1
<1>2. IsASequence(docs) /\ \A k \in DOMAIN docs : EntryForm(docs[k])
  BY DEF DocsForm
<1>3. IsASequence(zero) /\ \A k \in DOMAIN zero : EntryForm(zero[k])
  <2>1. \A i \in DOMAIN zero : \E k \in DOMAIN docs : zero[i] = docs[k]
    BY <1>2, SelectedIsASequence
  <2>2. IsASequence(zero)
    BY <1>2, SelectedIsASequence
  <2> HIDE DEF zero
  <2> QED
    BY <1>2, <2>1, <2>2
<1>4. IsASequence(others) /\ \A k \in DOMAIN others : EntryForm(others[k])
  <2>1. \A i \in DOMAIN others : \E k \in DOMAIN docs : others[i] = docs[k]
    BY <1>2, SelectedIsASequence
  <2>2. IsASequence(others)
    BY <1>2, SelectedIsASequence
  <2> HIDE DEF others
  <2> QED
    BY <1>2, <2>1, <2>2
<1> HIDE DEF zero, others
<1>5. ASSUME NEW k \in DOMAIN others PROVE EntryForm(moved[k])
  <2> DEFINE d == others[k]
             new == ReassignNamespaceId(d.doc, NamespaceId(d.doc), k + 1)
  <2>1. EntryForm(d)
    BY <1>4
  <2>2. k + 1 \in Int
    BY <1>4, SequenceDomain
  <2>3. DocForm(new)
    BY <2>1, <2>2, ReassignNamespaceIdForm DEF EntryForm
  <2>4. moved[k] = [d EXCEPT !.doc = new]
    OBVIOUS
  <2> HIDE DEF d, new, moved
  <2>5. [d EXCEPT !.doc = new] = [was |-> d.was, doc |-> new]
    BY <2>1 DEF EntryForm
  <2> QED
    BY <2>3, <2>4, <2>5 DEF EntryForm
<1>6. IsASequence(moved) /\ DOMAIN moved = DOMAIN others
  BY <1>4, MappedSequence
<1> HIDE DEF moved
<1>7. /\ IsASequence(zero \o moved)
      /\ ToSet(zero \o moved) = ToSet(zero) \cup ToSet(moved)
  BY <1>3, <1>6, ConcatIsASequence
<1>8. \A d \in ToSet(zero) \cup ToSet(moved) : EntryForm(d)
  BY <1>3, <1>5, <1>6 DEF ToSet
<1>9. ASSUME NEW k \in DOMAIN (zero \o moved) PROVE EntryForm((zero \o moved)[k])
  BY <1>7, <1>8 DEF ToSet
<1>10. DocsForm' <=> /\ IsASequence(docs')
                     /\ \A k \in DOMAIN docs' : EntryForm(docs'[k])
  BY DEF DocsForm, EntryForm, DocForm, ElementForm, IsASequence
<1> QED
  BY <1>1, <1>7, <1>9, <1>10

(* preprocess_linkDependantModels keeps the form of the documents.         *)
LEMMA LinkedDocs == ASSUME DocsForm, LinkDependantModels PROVE DocsForm'
<1>1. DocsForm' <=> /\ IsASequence(docs')
                    /\ \A k \in DOMAIN docs' : EntryForm(docs'[k])
  BY DEF DocsForm, EntryForm, DocForm, ElementForm, IsASequence
<1>2. CASE docs' = docs
  BY <1>1, <1>2 DEF DocsForm
<1>3. CASE docs' # docs
  <2> DEFINE c == cursor + 1
  <2>1. PICK to : docs' = [docs EXCEPT ![c].doc = ReassignReferenced(@, to)]
    BY <1>3, Zenon DEF LinkDependantModels
  <2>2. c \in DOMAIN docs
    BY DEF LinkDependantModels
  <2> HIDE DEF c
  <2> DEFINE new == ReassignReferenced(docs[c].doc, to)
  <2>3. /\ IsASequence(docs) /\ \A k \in DOMAIN docs : EntryForm(docs[k])
    BY DEF DocsForm
  <2>4. docs' = [k \in DOMAIN docs |->
                   IF k = c THEN [docs[c] EXCEPT !.doc = new] ELSE docs[k]]
    <3>1. docs = [k \in DOMAIN docs |-> docs[k]]
      BY <2>3, SequenceDomain
    <3> QED
      BY <2>1, <3>1
  <2>5. EntryForm([docs[c] EXCEPT !.doc = new])
    <3>1. DocForm(new)
      BY <2>2, <2>3, ReassignReferencedForm DEF EntryForm
    <3> HIDE DEF new
    <3>2. [docs[c] EXCEPT !.doc = new] = [was |-> docs[c].was, doc |-> new]
      BY <2>2, <2>3 DEF EntryForm
    <3> QED
      BY <3>1, <3>2 DEF EntryForm
  <2>6. IsASequence(docs') /\ DOMAIN docs' = DOMAIN docs
    <3>1. docs' = [k \in DOMAIN docs |-> docs'[k]]
      BY <2>4
    <3> QED
      BY <2>3, <3>1, MappedSequence
  <2>7. \A k \in DOMAIN docs' : EntryForm(docs'[k])
    <3> HIDE DEF new
    <3> QED
      BY <2>3, <2>4, <2>5, <2>6
  <2> QED
    BY <1>1, <2>6, <2>7
<1> QED
  BY <1>2, <1>3

(* What is known of the linked graph.                                      *)
GraphForm ==
  /\ IsASequence(order) /\ DOMAIN node = ToSet(order)
  /\ \A n \in DOMAIN node : n \in Ids /\ ElementForm(node[n])

(* Every id of a document has a last element.                              *)
LEMMA LastElements ==
  ASSUME NEW doc, DocForm(doc)
  PROVE  LET new == LastOfIds(doc.nodes)
         IN  /\ IsASequence(new)
             /\ \A e \in ToSet(new) : ElementForm(e)
             /\ {e.id : e \in ToSet(new)} = ContainedIds(doc)
<1> DEFINE all == doc.nodes
           last == {k \in DOMAIN all : \A j \in (k + 1)..Len(all) : all[j].id # all[k].id}
           new == SelectAt(all, last)
<1>1. new = LastOfIds(doc.nodes)
  BY DEF LastOfIds
<1>2. /\ IsASequence(all) /\ \A k \in DOMAIN all : ElementForm(all[k])
      /\ DOMAIN all = 1..Len(all) /\ Len(all) \in Nat
  BY SequenceDomain DEF DocForm
<1>3. IsASequence(new) /\ ToSet(new) = {all[k] : k \in DOMAIN all \cap last}
  BY <1>2, SelectAtLookup
<1> HIDE DEF new
<1>4. ASSUME NEW k \in DOMAIN all PROVE \E l \in last : all[l].id = all[k].id
  <2> DEFINE T == {j \in DOMAIN all : all[j].id = all[k].id}
  <2>1. T \subseteq 0..Len(all) /\ T # {}
    BY <1>2
  <2>2. Max(T) \in T /\ \A j \in T : j <= Max(T)
    BY <1>2, <2>1, MaxIsGreatest
  <2>3. ASSUME NEW j \in (Max(T) + 1)..Len(all) PROVE all[j].id # all[Max(T)].id
    <3>1. j \in DOMAIN all /\ ~(j <= Max(T))
      BY <1>2, <2>1, <2>2
    <3>2. j \notin T
      BY <2>2, <3>1
    <3> QED
      BY <2>2, <3>1, <3>2
  <2>4. Max(T) \in last
    BY <2>2, <2>3
  <2> QED
    BY <2>2, <2>4
<1>5. {e.id : e \in ToSet(new)} = {all[k].id : k \in last}
  <2>1. DOMAIN all \cap last = last
    OBVIOUS
  <2>2. ToSet(new) = {all[k] : k \in last}
    BY <1>3, <2>1
  <2> HIDE DEF last
  <2> QED
    BY <2>2
<1>6. {all[k].id : k \in last} = {all[k].id : k \in DOMAIN all}
  <2>1. last \subseteq DOMAIN all
    OBVIOUS
  <2> HIDE DEF last
  <2> QED
    BY <1>4, <2>1
<1>7. \A e \in ToSet(new) : ElementForm(e)
  BY <1>2, <1>3
<1> QED
  BY <1>1, <1>3, <1>5, <1>6, <1>7 DEF ContainedIds

(* parseXML for one document keeps the form of the graph.                  *)
LEMMA ParsedGraph ==
  ASSUME GraphForm, DocsForm, cursor \in Nat, ParseDocument
  PROVE  GraphForm'
<1> DEFINE doc == docs[cursor + 1].doc
           new == LastOfIds(doc.nodes)
           kept == SelectAt(order, {k \in DOMAIN order : order[k] \notin ContainedIds(doc)})
           added == [k \in DOMAIN new |-> new[k].id]
           ids == {e.id : e \in ToSet(new)}
           Own(id) == {e \in ToSet(new) : e.id = id}
<1>1. /\ cursor < Len(docs)
      /\ order' = kept \o added
      /\ node' = [id \in DOMAIN node \cup ids |->
                    IF Own(id) # {} THEN CHOOSE e \in Own(id) : TRUE ELSE node[id]]
  <2>1. PICK d \in {doc} : \E m \in {LastOfIds(d.nodes)} :
          /\ order' = SelectAt(order, {k \in DOMAIN order : order[k] \notin ContainedIds(d)})
                         \o [k \in DOMAIN m |-> m[k].id]
          /\ node' = WithNodesOf(m)
    BY Zenon DEF ParseDocument, SelectThose
  <2>2. d = doc
    OBVIOUS
  <2> HIDE DEF doc
  <2>3. order' = kept \o added /\ node' = WithNodesOf(new)
    BY <2>1, <2>2
  <2>4. cursor < Len(docs)
    BY DEF ParseDocument
  <2> QED
    BY <2>3, <2>4, Zenon DEF WithNodesOf
<1>2. DocForm(doc)
  <2>1. cursor + 1 \in DOMAIN docs
    BY <1>1, SequenceDomain DEF DocsForm
  <2> QED
    BY <2>1 DEF DocsForm, EntryForm
<1> HIDE DEF doc
<1>3. /\ IsASequence(new) /\ \A e \in ToSet(new) : ElementForm(e)
      /\ ids = ContainedIds(doc)
  BY <1>2, LastElements
<1> HIDE DEF new
<1>4. IsASequence(kept) /\ ToSet(kept) = ToSet(order) \ ids
  <2>1. /\ IsASequence(kept)
        /\ ToSet(kept) = {order[k] : k \in DOMAIN order
                            \cap {k \in DOMAIN order : order[k] \notin ContainedIds(doc)}}
    BY SelectAtLookup DEF GraphForm
  <2> QED
    BY <1>3, <2>1 DEF ToSet
<1>5. IsASequence(added) /\ ToSet(added) = ids
  <2>1. IsASequence(added)
    BY <1>3, MappedSequence
  <2>2. ToSet(added) = {new[k].id : k \in DOMAIN new}
    BY DEF ToSet
  <2>3. ids = {new[k].id : k \in DOMAIN new}
    BY DEF ToSet
  <2> QED
    BY <2>1, <2>2, <2>3
<1> HIDE DEF kept, added
<1>6. IsASequence(order') /\ ToSet(order') = DOMAIN node \cup ids
  <2>1. ToSet(kept \o added) = ToSet(kept) \cup ToSet(added) /\ IsASequence(kept \o added)
    BY <1>4, <1>5, ConcatIsASequence
  <2> QED
    BY <1>1, <1>4, <1>5, <2>1 DEF GraphForm
<1>7. DOMAIN node' = DOMAIN node \cup ids
  BY <1>1
<1>8. ASSUME NEW n \in DOMAIN node \cup ids PROVE n \in Ids /\ ElementForm(node'[n])
  <2>1. CASE n \in ids
    <3>1. Own(n) # {}
      BY <2>1
    <3>2. node'[n] \in Own(n)
      BY <1>1, <3>1
    <3> QED
      BY <1>3, <3>2 DEF ElementForm
  <2>2. CASE n \notin ids
    <3>1. Own(n) = {}
      BY <2>2
    <3>2. node'[n] = node[n] /\ n \in DOMAIN node
      BY <1>1, <2>2, <3>1
    <3> QED
      BY <3>2 DEF GraphForm
  <2> QED
    BY <2>1, <2>2
<1>9. GraphForm' <=> /\ IsASequence(order') /\ DOMAIN node' = ToSet(order')
                     /\ \A n \in DOMAIN node' : n \in Ids /\ ElementForm(node'[n])
  BY DEF GraphForm, ElementForm, IsASequence, ToSet
<1> QED
  BY <1>6, <1>7, <1>8, <1>9

(* So does the removal of the nodes on the blacklist.                      *)
LEMMA BlacklistedGraph == ASSUME GraphForm, RemoveBlacklisted PROVE GraphForm'
<1>1. PICK removed :
        /\ order' = SelectThose(order, LAMBDA n : n \notin removed)
        /\ node' = [n \in DOMAIN node \ removed |-> node[n]]
  BY Zenon DEF RemoveBlacklisted
<1> DEFINE kept == SelectAt(order, {k \in DOMAIN order : order[k] \notin removed})
<1>2. order' = kept
  BY <1>1, Zenon DEF SelectThose
<1>3. IsASequence(kept) /\ ToSet(kept) = ToSet(order) \ removed
  <2>1. /\ IsASequence(kept)
        /\ ToSet(kept) = {order[k] : k \in DOMAIN order
                            \cap {k \in DOMAIN order : order[k] \notin removed}}
    BY SelectAtLookup DEF GraphForm
  <2> QED
    BY <2>1 DEF ToSet
<1>4. GraphForm' <=> /\ IsASequence(order') /\ DOMAIN node' = ToSet(order')
                     /\ \A n \in DOMAIN node' : n \in Ids /\ ElementForm(node'[n])
  BY DEF GraphForm, ElementForm, IsASequence, ToSet
<1> HIDE DEF kept
<1> QED
  BY <1>1, <1>2, <1>3, <1>4 DEF GraphForm

(* Linking and sanitizing replace the references of the nodes.             *)
LEMMA NewReferences ==
  ASSUME NEW e, ElementForm(e), NEW refs, IsASequence(refs)
  PROVE  ElementForm([e EXCEPT !.refs = refs]) /\ [e EXCEPT !.refs = refs].refs = refs
<1>1. [e EXCEPT !.refs = refs] = [id |-> e.id, class |-> e.class, name |-> e.name,
                                  refs |-> refs, definition |-> e.definition]
  BY DEF ElementForm
<1> QED
  BY <1>1 DEF ElementForm

(* sanitize keeps the form of the graph.                                   *)
LEMMA SanitizedGraph == ASSUME GraphForm, Sanitize PROVE GraphForm'
<1> DEFINE Kept(n) == SelectThose(node[n].refs, LAMBDA r : r.type # None /\ r.target # None)
<1>1. /\ node' = [n \in DOMAIN node |-> [node[n] EXCEPT !.refs = Kept(n)]]
      /\ order' = order
  BY Zenon DEF Sanitize
<1>2. ASSUME NEW n \in DOMAIN node PROVE IsASequence(Kept(n))
  <2>1. IsASequence(node[n].refs)
    BY DEF GraphForm, ElementForm
  <2> QED
    BY <2>1, SelectAtLookup, Zenon DEF SelectThose
<1> HIDE DEF Kept
<1>3. \A n \in DOMAIN node : ElementForm([node[n] EXCEPT !.refs = Kept(n)])
  BY <1>2, NewReferences DEF GraphForm
<1>4. GraphForm' <=> /\ IsASequence(order') /\ DOMAIN node' = ToSet(order')
                     /\ \A n \in DOMAIN node' : n \in Ids /\ ElementForm(node'[n])
  BY DEF GraphForm, ElementForm, IsASequence, ToSet
<1> QED
  BY <1>1, <1>3, <1>4 DEF GraphForm

(* The first occurrences of a sequence's elements are all of them.         *)
LEMMA DistinctContent ==
  ASSUME NEW s, IsASequence(s)
  PROVE  IsASequence(Distinct(s)) /\ ToSet(Distinct(s)) = ToSet(s)
<1> DEFINE P == {k \in DOMAIN s : \A j \in 1..(k - 1) : s[j] # s[k]}
<1>1. Distinct(s) = SelectAt(s, P)
  BY Zenon DEF Distinct
<1>2. IsASequence(Distinct(s)) /\ ToSet(Distinct(s)) = {s[k] : k \in DOMAIN s \cap P}
  BY <1>1, SelectAtLookup
<1>3. DOMAIN s = 1..Len(s) /\ Len(s) \in Nat
  BY SequenceDomain
<1>4. ASSUME NEW x \in ToSet(s) PROVE \E k \in P : s[k] = x
  <2> DEFINE T == {k \in DOMAIN s : s[k] = x}
  <2>1. T \subseteq Nat /\ T # {}
    BY <1>3 DEF ToSet
  <2>2. PICK m \in T : \A k \in T : m <= k
    BY <2>1, LeastElement
  <2>3. ASSUME NEW j \in 1..(m - 1) PROVE s[j] # s[m]
    <3>1. j \in DOMAIN s /\ ~(m <= j)
      BY <1>3, <2>1, <2>2
    <3> QED
      BY <2>2, <3>1
  <2> QED
    BY <2>2, <2>3
<1>5. P \subseteq DOMAIN s
  OBVIOUS
<1> HIDE DEF P
<1> QED
  BY <1>2, <1>4, <1>5 DEF ToSet

(* What a node gets of the references that are not forward.                *)
LEMMA AddForwardForm ==
  ASSUME NEW refs, IsASequence(refs), NEW n, NEW inverse, IsASequence(inverse)
  PROVE  LET all == AddForward(refs, n, inverse)
         IN  /\ IsASequence(all) /\ ToSet(refs) \subseteq ToSet(all)
             /\ \A r \in ToSet(all) \ ToSet(refs) :
                  \E i \in ToSet(inverse) : i.target = n /\ r = Inverted(i)
             /\ \A i \in ToSet(inverse) : i.target = n =>
                  \E r \in ToSet(all) : r.target = i.source /\ r.type = i.type
<1> DEFINE to == SelectThose(inverse, LAMBDA r : r.target = n)
           turned == [k \in DOMAIN to |-> Inverted(to[k])]
           new == Distinct(turned)
           more == SelectThose(new, LAMBDA r : ~HasSame(refs, r))
<1>1. IsASequence(to) /\ ToSet(to) = {i \in ToSet(inverse) : i.target = n}
  <2> DEFINE P == {k \in DOMAIN inverse : inverse[k].target = n}
  <2>1. to = SelectAt(inverse, P)
    BY Zenon DEF SelectThose
  <2> HIDE DEF to, P
  <2>2. IsASequence(to) /\ ToSet(to) = {inverse[k] : k \in DOMAIN inverse \cap P}
    BY <2>1, SelectAtLookup
  <2> QED
    BY <2>2 DEF ToSet, P
<1> HIDE DEF to
<1>2. IsASequence(turned) /\ ToSet(turned) = {Inverted(i) : i \in ToSet(to)}
  <2>1. IsASequence(turned)
    BY <1>1, MappedSequence
  <2> QED
    BY <2>1 DEF ToSet
<1> HIDE DEF turned
<1>3. IsASequence(new) /\ ToSet(new) = ToSet(turned)
  BY <1>2, DistinctContent
<1> HIDE DEF new
<1>4. IsASequence(more) /\ ToSet(more) = {r \in ToSet(new) : ~HasSame(refs, r)}
  <2> DEFINE P == {k \in DOMAIN new : ~HasSame(refs, new[k])}
  <2>1. more = SelectAt(new, P)
    BY Zenon DEF SelectThose
  <2> HIDE DEF more, P
  <2>2. IsASequence(more) /\ ToSet(more) = {new[k] : k \in DOMAIN new \cap P}
    BY <1>3, <2>1, SelectAtLookup
  <2> QED
    BY <2>2 DEF ToSet, P
<1>5. AddForward(refs, n, inverse) = refs \o more
  BY Zenon DEF AddForward, to, turned, new
<1> HIDE DEF more
<1>6. /\ IsASequence(refs \o more) /\ ToSet(refs \o more) = ToSet(refs) \cup ToSet(more)
  BY <1>4, ConcatIsASequence
<1>7. \A r \in ToSet(more) : \E i \in ToSet(inverse) : i.target = n /\ r = Inverted(i)
  BY <1>1, <1>2, <1>3, <1>4
<1>8. ASSUME NEW i \in ToSet(inverse), i.target = n
      PROVE  \E r \in ToSet(refs) \cup ToSet(more) : r.target = i.source /\ r.type = i.type
  <2>1. Inverted(i) \in ToSet(new)
    BY <1>1, <1>2, <1>3, <1>8
  <2>2. Inverted(i).target = i.source /\ Inverted(i).type = i.type
    BY DEF Inverted
  <2>3. CASE HasSame(refs, Inverted(i))
    BY <2>2, <2>3 DEF HasSame, Same
  <2>4. CASE ~HasSame(refs, Inverted(i))
    BY <1>4, <2>1, <2>2, <2>4
  <2> QED
    BY <2>3, <2>4
<1> QED
  BY <1>5, <1>6, <1>7, <1>8

(* The references as linkOpenPointers leaves them, and as sanitize does: a *)
(* node's own, between nodes, and where a reference that is not forward    *)
(* goes there is one back.                                                 *)
RefsLinked ==
  \A n \in DOMAIN node : \A r \in ToSet(Refs(n)) :
    /\ r.source = n /\ {r.type, r.target} \subseteq DOMAIN node \cup {None}
    /\ ~r.forward /\ r.target # None =>
         \E s \in ToSet(Refs(r.target)) : s.target = n /\ s.type = r.type
RefsWhole ==
  \A n \in DOMAIN node :
    /\ IsASequence(Refs(n))
    /\ \A r \in ToSet(Refs(n)) :
         /\ r.source = n /\ {r.type, r.target} \subseteq DOMAIN node
         /\ ~r.forward => \E s \in ToSet(Refs(r.target)) : s.target = n

(* linkOpenPointers keeps the form of the graph and links the references.   *)
LEMMA LinkedGraph ==
  ASSUME GraphForm, LinkOpenPointers
  PROVE  GraphForm' /\ RefsLinked'
<1> DEFINE graph == [n \in DOMAIN node |-> Linked(n)]
           refs == FlattenSeq([k \in DOMAIN order |-> graph[order[k]].refs])
           inverse == SelectThose(refs, LAMBDA r : ~r.forward /\ r.target # None)
           More(n) == AddForward(graph[n].refs, n, inverse)
<1>1. /\ node' = [n \in DOMAIN node |-> [graph[n] EXCEPT !.refs = More(n)]]
      /\ order' = order
  <2>1. PICK g \in {graph} : \E rr \in {FlattenSeq([k \in DOMAIN order |-> g[order[k]].refs])} :
          \E inv \in {SelectThose(rr, LAMBDA r : ~r.forward /\ r.target # None)} :
             /\ node' = [n \in DOMAIN node |->
                           [g[n] EXCEPT !.refs = AddForward(@, n, inv)]]
             /\ order' = order
    BY Zenon DEF LinkOpenPointers
  <2>2. PICK rr \in {FlattenSeq([k \in DOMAIN order |-> g[order[k]].refs])} :
          \E inv \in {SelectThose(rr, LAMBDA r : ~r.forward /\ r.target # None)} :
             /\ node' = [n \in DOMAIN node |->
                           [g[n] EXCEPT !.refs = AddForward(@, n, inv)]]
             /\ order' = order
    BY <2>1, Zenon
  <2>3. PICK inv \in {SelectThose(rr, LAMBDA r : ~r.forward /\ r.target # None)} :
             /\ node' = [n \in DOMAIN node |->
                           [g[n] EXCEPT !.refs = AddForward(@, n, inv)]]
             /\ order' = order
    BY <2>2, Zenon
  <2>4. g = graph /\ rr = refs /\ inv = inverse
    BY Zenon
  <2>5. node' = [n \in DOMAIN node |-> [g[n] EXCEPT !.refs = AddForward(g[n].refs, n, inv)]]
    BY <2>3
  <2> HIDE DEF graph, refs, inverse
  <2> QED
    BY <2>3, <2>4, <2>5
<1>2. ASSUME NEW n \in DOMAIN node
      PROVE  /\ ElementForm(graph[n])
             /\ \A r \in ToSet(graph[n].refs) :
                  r.source = n /\ {r.type, r.target} \subseteq DOMAIN node \cup {None}
  <2> DEFINE own == [j \in DOMAIN node[n].refs |-> Link(n, node[n].refs[j])]
  <2>1. ElementForm(node[n])
    BY DEF GraphForm
  <2>2. IsASequence(own)
    BY <2>1, MappedSequence DEF ElementForm
  <2>3. graph[n] = [node[n] EXCEPT !.refs = own]
    BY DEF Linked
  <2>4. ASSUME NEW j \in DOMAIN own
        PROVE  own[j].source = n /\ {own[j].type, own[j].target} \subseteq DOMAIN node \cup {None}
    BY DEF Link
  <2> HIDE DEF own, graph
  <2>5. ElementForm(graph[n]) /\ graph[n].refs = own
    BY <2>1, <2>2, <2>3, NewReferences
  <2> QED
    BY <2>4, <2>5 DEF ToSet
<1> HIDE DEF graph
<1>3. /\ IsASequence(refs)
      /\ ToSet(refs) = UNION {ToSet(graph[n].refs) : n \in DOMAIN node}
  <2> DEFINE ss == [k \in DOMAIN order |-> graph[order[k]].refs]
  <2>1. IsASequence(ss) /\ DOMAIN ss = DOMAIN order
    BY MappedSequence DEF GraphForm
  <2>2. ASSUME NEW k \in DOMAIN ss PROVE IsASequence(ss[k])
    <3>1. order[k] \in DOMAIN node
      BY <2>1 DEF GraphForm, ToSet
    <3> QED
      BY <1>2, <3>1 DEF ElementForm
  <2>3. {ToSet(ss[k]) : k \in DOMAIN ss} = {ToSet(graph[n].refs) : n \in DOMAIN node}
    BY DEF GraphForm, ToSet
  <2> HIDE DEF ss
  <2>4. /\ IsASequence(FlattenSeq(ss))
        /\ ToSet(FlattenSeq(ss)) = UNION {ToSet(ss[k]) : k \in DOMAIN ss}
    BY <2>1, <2>2, FlattenIsASequence, FlattenContent
  <2> QED
    BY <2>3, <2>4 DEF ss
<1> HIDE DEF refs
<1>4. /\ IsASequence(inverse)
      /\ ToSet(inverse) = {r \in ToSet(refs) : ~r.forward /\ r.target # None}
  <2> DEFINE P == {k \in DOMAIN refs : ~refs[k].forward /\ refs[k].target # None}
  <2>1. inverse = SelectAt(refs, P)
    BY Zenon DEF SelectThose
  <2> HIDE DEF inverse, P
  <2>2. IsASequence(inverse) /\ ToSet(inverse) = {refs[k] : k \in DOMAIN refs \cap P}
    BY <1>3, <2>1, SelectAtLookup
  <2> QED
    BY <2>2 DEF ToSet, P
<1> HIDE DEF inverse
<1>5. ASSUME NEW n \in DOMAIN node
      PROVE  /\ IsASequence(More(n))
             /\ \A r \in ToSet(More(n)) \ ToSet(graph[n].refs) :
                  \E i \in ToSet(inverse) : i.target = n /\ r = Inverted(i)
             /\ \A i \in ToSet(inverse) : i.target = n =>
                  \E r \in ToSet(More(n)) : r.target = i.source /\ r.type = i.type
  <2>1. IsASequence(graph[n].refs)
    BY <1>2 DEF ElementForm
  <2> QED
    BY <1>4, <2>1, AddForwardForm
<1> HIDE DEF More
<1>6. \A n \in DOMAIN node : /\ ElementForm([graph[n] EXCEPT !.refs = More(n)])
                             /\ [graph[n] EXCEPT !.refs = More(n)].refs = More(n)
  BY <1>2, <1>5, NewReferences
<1>7. GraphForm' <=> /\ IsASequence(order') /\ DOMAIN node' = ToSet(order')
                     /\ \A n \in DOMAIN node' : n \in Ids /\ ElementForm(node'[n])
  BY DEF GraphForm, ElementForm, IsASequence, ToSet
<1>8. ASSUME NEW n \in DOMAIN node, NEW r \in ToSet(More(n))
      PROVE  /\ r.source = n /\ {r.type, r.target} \subseteq DOMAIN node \cup {None}
             /\ ~r.forward /\ r.target # None =>
                  \E s \in ToSet(More(r.target)) : s.target = n /\ s.type = r.type
  <2>1. CASE r \in ToSet(graph[n].refs)
    <3>1. r.source = n /\ {r.type, r.target} \subseteq DOMAIN node \cup {None}
      BY <1>2, <2>1
    <3>2. ~r.forward /\ r.target # None => r \in ToSet(inverse) /\ r.target \in DOMAIN node
      BY <1>3, <1>4, <2>1, <3>1
    <3> QED
      BY <1>5, <3>1, <3>2
  <2>2. CASE r \notin ToSet(graph[n].refs)
    <3>1. PICK i \in ToSet(inverse) : i.target = n /\ r = Inverted(i)
      BY <1>5, <2>2
    <3>2. PICK m \in DOMAIN node : i \in ToSet(graph[m].refs)
      BY <1>3, <1>4
    <3>3. i.source = m /\ i.type \in DOMAIN node \cup {None} /\ ~i.forward
      BY <1>2, <1>4, <3>2
    <3>4. r.source = n /\ r.type = i.type /\ r.target = m /\ r.forward
      BY <3>1, <3>3 DEF Inverted
    <3> QED
      BY <3>3, <3>4
  <2> QED
    BY <2>1, <2>2
<1>9. RefsLinked'
  <2>1. DOMAIN node' = DOMAIN node /\ \A n \in DOMAIN node : Refs(n)' = More(n)
    BY <1>1, <1>6 DEF Refs
  <2>2. RefsLinked' <=>
          \A n \in DOMAIN node' : \A r \in ToSet(Refs(n)') :
            /\ r.source = n /\ {r.type, r.target} \subseteq DOMAIN node' \cup {None}
            /\ ~r.forward /\ r.target # None =>
                 \E s \in ToSet(Refs(r.target)') : s.target = n /\ s.type = r.type
    BY DEF RefsLinked, Refs, ToSet
  <2> QED
    <3> SUFFICES ASSUME NEW n \in DOMAIN node', NEW r \in ToSet(Refs(n)')
                 PROVE  /\ r.source = n /\ {r.type, r.target} \subseteq DOMAIN node' \cup {None}
                        /\ ~r.forward /\ r.target # None =>
                             \E s \in ToSet(Refs(r.target)') : s.target = n /\ s.type = r.type
      BY <2>2
    <3>1. n \in DOMAIN node /\ r \in ToSet(More(n))
      BY <2>1
    <3>2. /\ r.source = n /\ {r.type, r.target} \subseteq DOMAIN node \cup {None}
          /\ ~r.forward /\ r.target # None =>
                  \E s \in ToSet(More(r.target)) : s.target = n /\ s.type = r.type
      BY <1>8, <3>1
    <3>3. r.target # None => Refs(r.target)' = More(r.target)
      BY <2>1, <3>2
    <3> QED
      BY <2>1, <3>2, <3>3
<1> QED
  BY <1>1, <1>6, <1>7, <1>9 DEF GraphForm

(* Of a stack s and answers e: the types whose buildEncoding is under way, *)
(* and those for which it has returned.                                    *)
Building(s) == {s[i].type : i \in DOMAIN s}
Returned(s, e) == DOMAIN e \ Building(s)
Frames == [type : DataTypes, at : Nat, seen : SUBSET {"value", "type"}]

(* What a frame knows of the supertypes or the fields it has followed,     *)
(* given the types D that have returned.                                   *)
SuperFrame(f, e, D) ==
  /\ e[f.type]
  /\ ~OnCycle(f.type) =>
       \A k \in 1..f.at : LET u == Supertypes(f.type)[k].target IN u \in D /\ e[u]
FieldFrame(f, e, D) ==
  LET fields == Definition(f.type)
      Followed == {fields[k] : k \in 1..f.at}
  IN  /\ f.at <= Len(fields)
      /\ f.at = 0 => f.seen = {} /\ e[f.type]
      /\ f.at # 0 => f.seen \in {{"value"}, {"type"}}
      /\ f.seen = {"value"} =>
           e[f.type] /\ fields[1].value /\ \A d \in Followed : d.type = None
      /\ f.seen = {"type"} =>
           /\ fields[1].type # None
           /\ \A d \in Followed : ~d.value /\ (d.type \in DOMAIN node => IsDataType(d.type))
           /\ e[f.type] <=> \A d \in Followed : d.type \in DOMAIN node
           /\ ~OnCycle(f.type) =>
                \A d \in Followed : d.type \in DataTypes => d.type \in D /\ e[d.type]
FrameClaim(f, e, D) ==
  IF Definition(f.type) = None THEN SuperFrame(f, e, D) ELSE FieldFrame(f, e, D)

(* A type that does not contain itself is answered by types that have      *)
(* returned.                                                               *)
Answered(t, e, D) ==
  ~OnCycle(t) =>
    IF e[t] THEN HasBuiltinForm(t) /\ \A u \in Uses(t) : u \in D /\ e[u]
    ELSE ~HasBuiltinForm(t) \/ \E u \in Uses(t) : u \in D /\ ~e[u]

(* The stack is a chain of types without a builtin name, each used by the  *)
(* one before it.                                                          *)
Chain(s, e) ==
  /\ s \in Seq(Frames)
  /\ \A i \in DOMAIN s : s[i].type \in DOMAIN e /\ node[s[i].type].name \notin BuiltinNames
  /\ \A i, j \in DOMAIN s : s[i].type = s[j].type => i = j
  /\ \A i \in DOMAIN s : i + 1 \in DOMAIN s => s[i + 1].type \in Uses(s[i].type)
Claims(s, e) ==
  /\ e \in [DOMAIN e -> BOOLEAN] /\ DOMAIN e \subseteq DataTypes
  /\ Chain(s, e)
  /\ \A i \in DOMAIN s : FrameClaim(s[i], e, Returned(s, e))
  /\ \A t \in Returned(s, e) : Answered(t, e, Returned(s, e))

(* A type that is used by the one on top of the stack and is under way     *)
(* contains itself, and so does the one on top.                            *)
LEMMA ChainCycle ==
  ASSUME NEW s, NEW e, Chain(s, e), s # <<>>,
         NEW u \in Uses(Last(s).type), u \in Building(s)
  PROVE  OnCycle(Last(s).type)
<1> DEFINE n == Len(s)
           t == s[n].type
<1>1. n \in Nat \ {0} /\ DOMAIN s = 1..n /\ Last(s) = s[n]
  BY DEF Chain, Last
<1> SUFFICES ASSUME NEW S \in SUBSET DataTypes, Uses(t) \subseteq S,
                    \A v \in S : Uses(v) \subseteq S
             PROVE  t \in S
  BY <1>1, Zenon DEF OnCycle
<1>2. PICK i \in 1..n : s[i].type = u
  BY <1>1 DEF Building
<1> DEFINE H == {k \in Nat : i + k \in 1..n => s[i + k].type \in S}
<1> HIDE DEF n
<1>3. 0 \in H
  <2>1. u \in S
    BY <1>1 DEF t
  <2>2. i + 0 = i
    BY <1>2
  <2> QED
    BY <1>2, <2>1, <2>2
<1>4. ASSUME NEW k \in Nat, k \in H PROVE k + 1 \in H
  <2> SUFFICES ASSUME i + (k + 1) \in 1..n PROVE s[i + (k + 1)].type \in S
    OBVIOUS
  <2>1. i + k \in 1..n /\ (i + k) + 1 = i + (k + 1)
    BY <1>1, <1>2
  <2>2. s[i + k].type \in S
    BY <1>4, <2>1
  <2>3. s[(i + k) + 1].type \in Uses(s[i + k].type)
    BY <1>1, <2>1 DEF Chain
  <2> QED
    BY <2>1, <2>2, <2>3
<1> HIDE DEF H
<1>5. n - i \in Nat /\ i + (n - i) = n /\ n \in 1..n
  BY <1>1, <1>2
<1>6. n - i \in H
  BY <1>3, <1>4, <1>5, Induction
<1> QED
  BY <1>5, <1>6 DEF H

(* The frame on top of the stack and those below it.                       *)
LEMMA TopFrame ==
  ASSUME NEW S, NEW s \in Seq(S), s # <<>>
  PROVE  /\ Len(s) \in Nat \ {0} /\ DOMAIN s = 1..Len(s)
         /\ Last(s) = s[Len(s)] /\ Last(s) \in S
         /\ Front(s) \in Seq(S) /\ Len(Front(s)) = Len(s) - 1
         /\ DOMAIN Front(s) = 1..(Len(s) - 1)
         /\ \A i \in 1..(Len(s) - 1) : Front(s)[i] = s[i]
<1>1. Len(s) \in Nat \ {0} /\ DOMAIN s = 1..Len(s)
  OBVIOUS
<1>2. /\ Front(s) \in Seq(S) /\ Len(Front(s)) = Len(s) - 1
      /\ \A i \in 1..(Len(s) - 1) : Front(s)[i] = s[i]
  BY <1>1, SubSeqProperties DEF Front
<1> QED
  BY <1>1, <1>2 DEF Last

(* A sequence whose last element is replaced.                              *)
LEMMA ReplacedTop ==
  ASSUME NEW S, NEW s \in Seq(S), s # <<>>, NEW g \in S
  PROVE  /\ Front(s) \o <<g>> \in Seq(S) /\ DOMAIN (Front(s) \o <<g>>) = DOMAIN s
         /\ (Front(s) \o <<g>>)[Len(s)] = g
         /\ \A i \in 1..(Len(s) - 1) : (Front(s) \o <<g>>)[i] = s[i]
<1> DEFINE n == Len(s)
           a == Front(s)
           r == a \o <<g>>
<1>1. /\ n \in Nat \ {0} /\ DOMAIN s = 1..n /\ a \in Seq(S) /\ Len(a) = n - 1
      /\ \A i \in 1..(n - 1) : a[i] = s[i]
  BY TopFrame
<1>2. <<g>> \in Seq(S) /\ Len(<<g>>) = 1 /\ <<g>>[1] = g
  OBVIOUS
<1> HIDE DEF a, n
<1>3. /\ r \in Seq(S) /\ Len(r) = (n - 1) + 1
      /\ \A i \in 1..(n - 1) : r[i] = a[i]
      /\ \A i \in 1..1 : r[(n - 1) + i] = <<g>>[i]
  BY <1>1, <1>2, ConcatLookup
<1>4. DOMAIN r = 1..n /\ (n - 1) + 1 = n
  BY <1>1, <1>3
<1>5. r[n] = g
  BY <1>2, <1>3, <1>4
<1> QED
  BY <1>1, <1>3, <1>4, <1>5 DEF a, n

(* What a frame or an answer rests on is not taken back.                   *)
LEMMA FrameKept ==
  ASSUME NEW f, NEW e, NEW D, FrameClaim(f, e, D), NEW a, NEW B, D \subseteq B,
         \A u \in D : a[u] = e[u], a[f.type] = e[f.type]
  PROVE  FrameClaim(f, a, B)
<1>1. CASE Definition(f.type) = None
  <2>1. SuperFrame(f, e, D)
    BY <1>1 DEF FrameClaim
  <2>2. SuperFrame(f, a, B)
    BY <2>1 DEF SuperFrame
  <2> QED
    BY <1>1, <2>2 DEF FrameClaim
<1>2. CASE Definition(f.type) # None
  <2>1. FieldFrame(f, e, D)
    BY <1>2 DEF FrameClaim
  <2>2. FieldFrame(f, a, B)
    BY <2>1 DEF FieldFrame
  <2> QED
    BY <1>2, <2>2 DEF FrameClaim
<1> QED
  BY <1>1, <1>2

(* An answer rests on types that have returned, which keep theirs.         *)
LEMMA AnswerKept ==
  ASSUME NEW D, NEW t \in D, NEW e, Answered(t, e, D), NEW a, NEW B, D \subseteq B,
         \A u \in D : a[u] = e[u]
  PROVE  Answered(t, a, B)
BY DEF Answered

(* Enter puts a type on the stack, unless it has a builtin name: then it   *)
(* is answered at once.                                                    *)
With(e, t) == [n \in DOMAIN e \cup {t} |-> IF n = t THEN TRUE ELSE e[n]]
NewFrame(t) == [type |-> t, at |-> 0, seen |-> {}]

(* A type that is entered begins with nothing followed.                    *)
LEMMA EnteredFrame ==
  ASSUME NEW s, NEW e, Claims(s, e), NEW t \in DataTypes, t \notin DOMAIN e,
         node[t].name \notin BuiltinNames, s # <<>> => t \in Uses(Last(s).type),
         Definition(t) # None => Definition(t) \in Seq(Fields)
  PROVE  Claims(Append(s, NewFrame(t)), With(e, t))
<1> DEFINE a == With(e, t)
           f == NewFrame(t)
           r == Append(s, f)
           n == Len(s)
           D == Returned(s, e)
<1>1. /\ a \in [DOMAIN a -> BOOLEAN] /\ DOMAIN a = DOMAIN e \cup {t}
      /\ DOMAIN a \subseteq DataTypes /\ a[t] = TRUE
      /\ \A u \in DOMAIN e : a[u] = e[u]
  BY DEF With, Claims
<1> HIDE DEF a
<1>2. f \in Frames /\ f.type = t /\ f.at = 0 /\ f.seen = {}
  BY DEF NewFrame, Frames
<1> HIDE DEF f
<1>3. s \in Seq(Frames) /\ n \in Nat /\ DOMAIN s = 1..n /\ Chain(s, e)
  BY DEF Claims, Chain
<1>4. /\ r \in Seq(Frames) /\ DOMAIN r = 1..(n + 1) /\ r[n + 1] = f
      /\ \A i \in 1..n : r[i] = s[i]
  BY <1>2, <1>3, AppendProperties
<1> HIDE DEF r
<1>5. \A i \in 1..n : s[i].type \in DOMAIN e /\ s[i].type # t
  BY <1>3 DEF Chain
<1>6. Returned(r, a) = D
  <2>1. Building(r) = Building(s) \cup {t}
    <3>1. 1..(n + 1) = 1..n \cup {n + 1}
      BY <1>3
    <3> QED
      BY <1>2, <1>3, <1>4, <3>1 DEF Building
  <2> QED
    BY <1>1, <2>1 DEF Returned
<1>7. Chain(r, a)
  <2>1. \A i \in 1..(n + 1) : i \in 1..n \/ i = n + 1
    BY <1>3
  <2>2. \A i \in DOMAIN r : r[i].type \in DOMAIN a /\ node[r[i].type].name \notin BuiltinNames
    BY <1>1, <1>2, <1>3, <1>4, <2>1 DEF Chain
  <2>3. \A i, j \in DOMAIN r : r[i].type = r[j].type => i = j
    BY <1>2, <1>3, <1>4, <1>5, <2>1 DEF Chain
  <2>4. ASSUME NEW i \in DOMAIN r, i + 1 \in DOMAIN r PROVE r[i + 1].type \in Uses(r[i].type)
    <3>1. i \in 1..n /\ r[i] = s[i]
      BY <1>3, <1>4, <2>4
    <3>2. CASE i + 1 \in 1..n
      BY <1>3, <1>4, <3>1, <3>2 DEF Chain
    <3>3. CASE i + 1 = n + 1
      <4>1. i = n /\ s # <<>> /\ Last(s) = s[n]
        BY <1>3, <3>1, <3>3 DEF Last
      <4> QED
        BY <1>2, <1>4, <3>1, <3>3, <4>1
    <3> QED
      BY <1>3, <1>4, <2>1, <2>4, <3>2, <3>3
  <2> QED
    BY <1>4, <2>2, <2>3, <2>4 DEF Chain
<1>8. FrameClaim(f, a, D)
  <2>1. 1..f.at = {}
    BY <1>2
  <2>2. CASE Definition(t) = None
    <3>1. SuperFrame(f, a, D)
      BY <1>1, <1>2, <2>1 DEF SuperFrame
    <3> QED
      BY <1>2, <2>2, <3>1 DEF FrameClaim
  <2>3. CASE Definition(t) # None
    <3>1. Len(Definition(t)) \in Nat
      BY <2>3
    <3>2. {} \notin {{"value"}, {"type"}}
      OBVIOUS
    <3>3. FieldFrame(f, a, D)
      BY <1>1, <1>2, <3>1, <3>2 DEF FieldFrame
    <3> QED
      BY <1>2, <2>3, <3>3 DEF FrameClaim
  <2> QED
    BY <2>2, <2>3
<1>9. ASSUME NEW i \in DOMAIN r PROVE FrameClaim(r[i], a, D)
  <2>1. CASE i \in 1..n
    <3>1. FrameClaim(s[i], e, D)
      BY <1>3, <2>1 DEF Claims
    <3>2. \A u \in D : a[u] = e[u]
      BY <1>1 DEF Returned
    <3>3. a[s[i].type] = e[s[i].type]
      BY <1>1, <1>5, <2>1
    <3> QED
      BY <1>4, <2>1, <3>1, <3>2, <3>3, FrameKept
  <2>2. CASE i = n + 1
    BY <1>4, <1>8, <2>2
  <2> QED
    BY <1>3, <1>4, <2>1, <2>2
<1>10. ASSUME NEW u \in D PROVE Answered(u, a, D)
  BY <1>1, <1>10, AnswerKept DEF Claims, Returned
<1> QED
  BY <1>1, <1>6, <1>7, <1>9, <1>10 DEF Claims, a, f, r

(* A type with a builtin name has its answer at once.                      *)
LEMMA EnteredBuiltin ==
  ASSUME NEW s, NEW e, Claims(s, e), NEW t \in DataTypes, t \notin DOMAIN e,
         node[t].name \in BuiltinNames
  PROVE  Claims(s, With(e, t))
<1> DEFINE a == With(e, t)
           D == Returned(s, e)
           B == Returned(s, a)
<1>1. /\ a \in [DOMAIN a -> BOOLEAN] /\ DOMAIN a = DOMAIN e \cup {t}
      /\ DOMAIN a \subseteq DataTypes /\ a[t] = TRUE
      /\ \A u \in DOMAIN e : a[u] = e[u]
  BY DEF With, Claims
<1> HIDE DEF a
<1>2. B = D \cup {t} /\ \A u \in D : a[u] = e[u]
  <2>1. t \notin Building(s)
    BY DEF Building, Claims, Chain
  <2> QED
    BY <1>1, <2>1 DEF Returned
<1>3. Chain(s, a)
  BY <1>1 DEF Claims, Chain
<1>4. ASSUME NEW i \in DOMAIN s PROVE FrameClaim(s[i], a, B)
  <2>1. FrameClaim(s[i], e, D) /\ a[s[i].type] = e[s[i].type]
    BY <1>1 DEF Claims, Chain
  <2> QED
    BY <1>2, <2>1, FrameKept
<1>5. Answered(t, a, B)
  <2>1. HasBuiltinForm(t) /\ Uses(t) = {}
    BY DEF HasBuiltinForm, Uses
  <2> QED
    BY <1>1, <2>1 DEF Answered
<1>6. ASSUME NEW u \in D PROVE Answered(u, a, B)
  BY <1>2, <1>6, AnswerKept DEF Claims
<1> QED
  BY <1>1, <1>2, <1>3, <1>4, <1>5, <1>6 DEF Claims, a

(* A step of the frame on top, which may make its type unencodable.        *)
LEMMA AdvancedFrame ==
  ASSUME NEW s, NEW e, Claims(s, e), s # <<>>, NEW g \in Frames, g.type = Last(s).type,
         NEW a \in [DOMAIN e -> BOOLEAN], \A u \in DOMAIN e : u # g.type => a[u] = e[u],
         FrameClaim(g, a, Returned(s, e))
  PROVE  Claims(Front(s) \o <<g>>, a)
<1> DEFINE n == Len(s)
           r == Front(s) \o <<g>>
           D == Returned(s, e)
<1>1. s \in Seq(Frames) /\ Chain(s, e)
  BY DEF Claims, Chain
<1>2. n \in Nat \ {0} /\ DOMAIN s = 1..n /\ Last(s) = s[n]
  BY <1>1, TopFrame
<1>3. /\ r \in Seq(Frames) /\ DOMAIN r = 1..n /\ r[n] = g
      /\ \A i \in 1..(n - 1) : r[i] = s[i]
  <2>1. /\ r \in Seq(Frames) /\ DOMAIN r = DOMAIN s /\ r[Len(s)] = g
        /\ \A i \in 1..(Len(s) - 1) : r[i] = s[i]
    BY <1>1, ReplacedTop
  <2> HIDE DEF r
  <2> QED
    BY <1>2, <2>1
<1> HIDE DEF r, n
<1>4. \A i \in 1..n : i \in 1..(n - 1) \/ i = n
  BY <1>2
<1>5. \A i \in 1..n : r[i].type = s[i].type
  BY <1>2, <1>3, <1>4
<1>6. Chain(r, a)
  BY <1>1, <1>2, <1>3, <1>5 DEF Chain
<1>7. Returned(r, a) = D /\ \A u \in D : a[u] = e[u]
  <2>1. Building(r) = Building(s)
    BY <1>2, <1>3, <1>5 DEF Building
  <2>2. g.type \in Building(s)
    BY <1>2 DEF Building
  <2> QED
    BY <2>1, <2>2 DEF Returned
<1>8. ASSUME NEW i \in 1..n PROVE FrameClaim(r[i], a, D)
  <2>1. CASE i \in 1..(n - 1)
    <3>1. FrameClaim(s[i], e, D) /\ i # n /\ n \in 1..n
      BY <1>2, <2>1 DEF Claims
    <3>2. s[i].type # g.type /\ s[i].type \in DOMAIN e
      BY <1>1, <1>2, <3>1 DEF Chain
    <3>3. a[s[i].type] = e[s[i].type]
      BY <3>2
    <3> QED
      BY <1>3, <1>7, <2>1, <3>1, <3>3, FrameKept
  <2>2. CASE i = n
    BY <1>3, <2>2
  <2> QED
    BY <1>4, <2>1, <2>2
<1>9. ASSUME NEW u \in D PROVE Answered(u, a, D)
  BY <1>7, <1>9, AnswerKept DEF Claims
<1>10. DOMAIN a = DOMAIN e /\ DOMAIN e \subseteq DataTypes
  BY DEF Claims
<1> QED
  BY <1>3, <1>6, <1>7, <1>8, <1>9, <1>10 DEF Claims, r

(* The call on top returns: its type is answered.                          *)
LEMMA ReturnedFrame ==
  ASSUME NEW s, NEW e, Claims(s, e), s # <<>>, NEW t, t = Last(s).type,
         NEW a \in [DOMAIN e -> BOOLEAN], \A u \in DOMAIN e : u # t => a[u] = e[u],
         Answered(t, a, Returned(s, e) \cup {t})
  PROVE  Claims(Front(s), a)
<1> DEFINE n == Len(s)
           r == Front(s)
           D == Returned(s, e)
           B == Returned(r, a)
<1>1. s \in Seq(Frames) /\ Chain(s, e)
  BY DEF Claims, Chain
<1>2. /\ n \in Nat \ {0} /\ DOMAIN s = 1..n /\ Last(s) = s[n]
      /\ r \in Seq(Frames) /\ DOMAIN r = 1..(n - 1)
      /\ \A i \in 1..(n - 1) : r[i] = s[i]
  BY <1>1, TopFrame
<1> HIDE DEF r, n
<1>3. 1..n = 1..(n - 1) \cup {n} /\ n \notin 1..(n - 1) /\ n \in 1..n
  BY <1>2
<1>4. Chain(r, a)
  BY <1>1, <1>2, <1>3 DEF Chain
<1>5. t \in DOMAIN e /\ \A i \in 1..(n - 1) : s[i].type # t /\ s[i].type \in DOMAIN e
  BY <1>1, <1>2, <1>3 DEF Chain
<1>6. B = D \cup {t} /\ \A u \in D : a[u] = e[u]
  <2>1. Building(s) = Building(r) \cup {t} /\ t \notin Building(r)
    BY <1>2, <1>3, <1>5 DEF Building
  <2> QED
    BY <1>5, <2>1 DEF Returned
<1>7. ASSUME NEW i \in DOMAIN r PROVE FrameClaim(r[i], a, B)
  <2>1. FrameClaim(s[i], e, D) /\ r[i] = s[i] /\ a[s[i].type] = e[s[i].type]
    BY <1>2, <1>3, <1>5 DEF Claims
  <2>2. D \subseteq B /\ \A u \in D : a[u] = e[u]
    BY <1>6
  <2> HIDE DEF D, B
  <2> QED
    BY <2>1, <2>2, FrameKept
<1>8. ASSUME NEW u \in B PROVE Answered(u, a, B)
  <2>1. CASE u \in D
    <3>1. Answered(u, e, D)
      BY <2>1 DEF Claims
    <3> QED
      BY <1>6, <2>1, <3>1, AnswerKept
  <2>2. CASE u = t
    BY <1>6, <2>2
  <2> QED
    BY <1>6, <1>8, <2>1, <2>2
<1>9. DOMAIN a = DOMAIN e /\ DOMAIN e \subseteq DataTypes
  BY DEF Claims
<1> QED
  BY <1>4, <1>7, <1>8, <1>9 DEF Claims, r

(* What types use and whether they contain themselves does not change      *)
(* while the nodes stay, nor does what is claimed of a stack.              *)
LEMMA UsesStay ==
  ASSUME UNCHANGED node
  PROVE  /\ DataTypes' = DataTypes
         /\ \A t : /\ IsDataType(t)' <=> IsDataType(t)
                   /\ Definition(t)' = Definition(t) /\ Supertypes(t)' = Supertypes(t)
                   /\ Uses(t)' = Uses(t)
                   /\ OnCycle(t)' <=> OnCycle(t)
                   /\ HasBuiltinForm(t)' <=> HasBuiltinForm(t)
<1>1. \A t : IsDataType(t)' <=> IsDataType(t)
  BY DEF IsDataType
<1>2. \A t : Refs(t)' = Refs(t) /\ Definition(t)' = Definition(t)
  BY DEF Refs, Definition
<1>3. \A r : IsHasSubtype(r)' <=> IsHasSubtype(r)
  BY DEF IsHasSubtype
<1>4. DataTypes' = DataTypes
  BY <1>1 DEF DataTypes
<1>5. ASSUME NEW t PROVE Supertypes(t)' = Supertypes(t)
  <2> DEFINE P == {k \in DOMAIN Refs(t) : /\ IsHasSubtype(Refs(t)[k]) /\ ~Refs(t)[k].forward
                                         /\ IsDataType(Refs(t)[k].target)}
  <2>1. Supertypes(t) = SelectAt(Refs(t), P)
    BY Zenon DEF Supertypes, SelectThose
  <2>2. Supertypes(t)' = SelectAt(Refs(t)', P')
    BY Zenon DEF Supertypes, SelectThose
  <2>3. P' = P
    BY <1>1, <1>2, <1>3
  <2> QED
    BY <1>2, <2>1, <2>2, <2>3
<1>6. \A t : Uses(t)' = Uses(t)
  BY <1>2, <1>4, <1>5 DEF Uses
<1>7. \A t : OnCycle(t)' <=> OnCycle(t)
  BY <1>4, <1>6 DEF OnCycle
<1>8. \A t : Enumeration(t)' <=> Enumeration(t)
  BY <1>2 DEF Enumeration
<1>9. \A t : HasBuiltinForm(t)' <=> HasBuiltinForm(t)
  BY <1>2, <1>4, <1>5, <1>8 DEF HasBuiltinForm
<1> QED
  BY <1>1, <1>2, <1>4, <1>5, <1>6, <1>7, <1>9

(* What is claimed of a stack holds for the next state if the nodes stay.  *)
LEMMA ClaimsStay ==
  ASSUME UNCHANGED node, Claims(stack', encodable')
  PROVE  Claims(stack, encodable)'
<1>1. /\ DataTypes' = DataTypes
      /\ \A t : /\ IsDataType(t)' <=> IsDataType(t)
                /\ Definition(t)' = Definition(t) /\ Supertypes(t)' = Supertypes(t)
                /\ Uses(t)' = Uses(t)
                /\ OnCycle(t)' <=> OnCycle(t)
                /\ HasBuiltinForm(t)' <=> HasBuiltinForm(t)
  BY UsesStay
<1>2. Frames' = Frames
  BY <1>1 DEF Frames
<1>3. Chain(stack, encodable)'
  BY <1>1, <1>2 DEF Claims, Chain
<1>4. \A f, e, D : SuperFrame(f, e, D) <=> SuperFrame(f, e, D)'
  BY <1>1 DEF SuperFrame
<1>5. \A f, e, D : FieldFrame(f, e, D) <=> FieldFrame(f, e, D)'
  BY <1>1 DEF FieldFrame
<1>6. \A f, e, D : FrameClaim(f, e, D) <=> FrameClaim(f, e, D)'
  BY <1>1, <1>4, <1>5 DEF FrameClaim
<1>7. \A t, e, D : Answered(t, e, D) <=> Answered(t, e, D)'
  BY <1>1 DEF Answered
<1> QED
  BY <1>1, <1>3, <1>6, <1>7 DEF Claims, Returned, Building

(* A call of buildEncoding.                                                *)
LEMMA EnterStep ==
  ASSUME GraphForm, Claims(stack, encodable), NEW t \in DataTypes, t \notin DOMAIN encodable,
         stack # <<>> => t \in Uses(Last(stack).type), Enter(t)
  PROVE  Claims(stack', encodable')
<1>1. encodable' = With(encodable, t)
  BY DEF Enter, Built, With
<1>2. Definition(t) # None => Definition(t) \in Seq(Fields)
  BY DEF GraphForm, ElementForm, Definition, DataTypes
<1>3. CASE node[t].name \in BuiltinNames
  <2>1. stack' = stack
    BY <1>3 DEF Enter
  <2> QED
    BY <1>1, <1>3, <2>1, EnteredBuiltin
<1>4. CASE node[t].name \notin BuiltinNames
  <2>1. stack' = Append(stack, NewFrame(t))
    BY <1>4 DEF Enter, NewFrame
  <2> QED
    BY <1>1, <1>2, <1>4, <2>1, EnteredFrame
<1> QED
  BY <1>3, <1>4

(* The frame on top of the stack is one of a data type under way.          *)
LEMMA FrameOnTop ==
  ASSUME GraphForm, Claims(stack, encodable), stack # <<>>
  PROVE  /\ Frame = Last(stack) /\ Frame \in Frames /\ Frame.at \in Nat
         /\ Frame.type \in DataTypes /\ Frame.type \in DOMAIN encodable
         /\ Frame.type \in DOMAIN node
         /\ node[Frame.type].name \notin BuiltinNames
         /\ FrameClaim(Frame, encodable, Returned(stack, encodable))
         /\ encodable \in [DOMAIN encodable -> BOOLEAN]
         /\ \A u \in Uses(Frame.type) :
              u \in Building(stack) => OnCycle(Frame.type)
<1>1. stack \in Seq(Frames) /\ Chain(stack, encodable)
  BY DEF Claims, Chain
<1>2. Len(stack) \in DOMAIN stack /\ Frame = stack[Len(stack)] /\ Frame \in Frames
  BY <1>1, TopFrame DEF Frame
<1>3. Frame.type \in DataTypes /\ Frame.at \in Nat
  BY <1>2 DEF Frames
<1>4. \A u \in Uses(Frame.type) : u \in Building(stack) => OnCycle(Frame.type)
  BY <1>1, ChainCycle DEF Frame
<1> QED
  BY <1>1, <1>2, <1>3, <1>4 DEF Claims, Chain, DataTypes, Frame

(* Where the references to supertypes go.                                  *)
LEMMA SupertypesForm ==
  ASSUME GraphForm, NEW t \in DOMAIN node
  PROVE  /\ IsASequence(Supertypes(t))
         /\ \A k \in DOMAIN Supertypes(t) : Supertypes(t)[k].target \in DataTypes
         /\ node[t].name \notin BuiltinNames /\ Definition(t) = None =>
              Uses(t) = {Supertypes(t)[k].target : k \in DOMAIN Supertypes(t)}
<1> DEFINE P == {k \in DOMAIN Refs(t) : /\ IsHasSubtype(Refs(t)[k]) /\ ~Refs(t)[k].forward
                                       /\ IsDataType(Refs(t)[k].target)}
<1>1. Supertypes(t) = SelectAt(Refs(t), P)
  BY Zenon DEF Supertypes, SelectThose
<1>4. \A k \in P : Refs(t)[k].target \in DataTypes
  BY DEF DataTypes, IsDataType
<1> HIDE DEF P
<1>2. IsASequence(Refs(t))
  BY DEF GraphForm, ElementForm, Refs
<1>3. /\ IsASequence(SelectAt(Refs(t), P))
      /\ \A i \in DOMAIN SelectAt(Refs(t), P) :
           \E k \in DOMAIN Refs(t) \cap P : SelectAt(Refs(t), P)[i] = Refs(t)[k]
  BY <1>2, SelectedIsASequence
<1>5. ASSUME node[t].name \notin BuiltinNames, Definition(t) = None
      PROVE  Uses(t) = {Supertypes(t)[k].target : k \in DOMAIN Supertypes(t)}
  BY <1>5 DEF Uses, ToSet
<1> QED
  BY <1>1, <1>3, <1>4, <1>5

(* A call that returns without an encoding has its reason: the form of the *)
(* type, or a type that it uses.                                           *)
LEMMA ReturnUnencodable ==
  ASSUME GraphForm, Claims(stack, encodable), stack # <<>>, Unencodable, Return,
         \/ ~HasBuiltinForm(Frame.type)
         \/ \E u \in Uses(Frame.type) : u \in DOMAIN encodable /\ ~encodable[u]
  PROVE  Claims(stack', encodable')
<1> DEFINE t == Frame.type
           a == [encodable EXCEPT ![t] = FALSE]
           D == Returned(stack, encodable)
<1>1. /\ t = Last(stack).type /\ t \in DOMAIN encodable
      /\ encodable \in [DOMAIN encodable -> BOOLEAN]
      /\ \A u \in Uses(t) : u \in Building(stack) => OnCycle(t)
  BY FrameOnTop
<1>2. stack' = Front(stack) /\ encodable' = a
  BY DEF Return, Unencodable
<1>3. /\ a \in [DOMAIN encodable -> BOOLEAN] /\ ~a[t]
      /\ \A u \in DOMAIN encodable : u # t => a[u] = encodable[u]
  BY <1>1
<1> HIDE DEF a
<1>4. Answered(t, a, D \cup {t})
  <2>1. CASE ~HasBuiltinForm(t)
    BY <1>3, <2>1 DEF Answered
  <2>2. CASE \E u \in Uses(t) : u \in DOMAIN encodable /\ ~encodable[u]
    <3>1. PICK u \in Uses(t) : u \in DOMAIN encodable /\ ~encodable[u]
      BY <2>2
    <3>2. ~a[u]
      BY <1>3, <3>1
    <3>3. ~OnCycle(t) => u \in D
      BY <1>1, <3>1 DEF Returned
    <3> QED
      BY <1>3, <3>1, <3>2, <3>3 DEF Answered
  <2> QED
    BY <2>1, <2>2
<1> HIDE DEF t
<1>5. Claims(Front(stack), a)
  BY <1>1, <1>3, <1>4, ReturnedFrame
<1> QED
  BY <1>2, <1>5

(* A frame advances by one.                                                *)
LEMMA AdvanceStep ==
  ASSUME Frame \in Frames, NEW seen \in SUBSET {"value", "type"}, Advance(seen)
  PROVE  \E g \in Frames : /\ stack' = Front(stack) \o <<g>>
                           /\ g.type = Frame.type /\ g.at = Frame.at + 1 /\ g.seen = seen
<1> DEFINE f == Frame
           g == [f EXCEPT !.at = @ + 1, !.seen = seen]
<1>1. PICK t \in DataTypes, n \in Nat, old \in SUBSET {"value", "type"} :
        f = [type |-> t, at |-> n, seen |-> old]
  <2>1. /\ f = [type |-> f.type, at |-> f.at, seen |-> f.seen]
        /\ f.type \in DataTypes /\ f.at \in Nat /\ f.seen \in SUBSET {"value", "type"}
    BY DEF Frames
  <2> QED
    BY <2>1
<1>2. stack' = Front(stack) \o <<g>>
  BY DEF Advance
<1> HIDE DEF f
<1>3. g = [type |-> t, at |-> n + 1, seen |-> seen]
  <2> DEFINE h == [f EXCEPT !.at = f.at + 1]
  <2>1. g = [h EXCEPT !.seen = seen]
    OBVIOUS
  <2>2. f.at = n
    BY <1>1
  <2>3. h = [type |-> t, at |-> n + 1, seen |-> old]
    BY <1>1, <2>2
  <2> HIDE DEF h, g
  <2> QED
    BY <2>1, <2>3
<1> HIDE DEF g
<1>4. g \in Frames /\ g.type = f.type /\ g.at = f.at + 1 /\ g.seen = seen
  BY <1>1, <1>3 DEF Frames
<1> QED
  BY <1>2, <1>4 DEF f

(* buildEncoding of a type without a definition.                           *)
LEMMA FollowSupertypesStep ==
  ASSUME GraphForm, Claims(stack, encodable), FollowSupertypes
  PROVE  Claims(stack', encodable')
<1> DEFINE t == Frame.type
           supers == Supertypes(t)
           super == supers[Frame.at + 1].target
           D == Returned(stack, encodable)
<1>1. stack # <<>> /\ Definition(t) = None
  BY DEF FollowSupertypes
<1>2. /\ Frame = Last(stack) /\ Frame \in Frames /\ Frame.at \in Nat
      /\ t \in DataTypes /\ t \in DOMAIN encodable /\ t \in DOMAIN node
      /\ node[t].name \notin BuiltinNames
      /\ FrameClaim(Frame, encodable, D)
      /\ encodable \in [DOMAIN encodable -> BOOLEAN]
      /\ \A u \in Uses(t) : u \in Building(stack) => OnCycle(t)
  BY <1>1, FrameOnTop
<1>3. SuperFrame(Frame, encodable, D)
  BY <1>1, <1>2 DEF FrameClaim
<1>4. /\ IsASequence(supers) /\ \A k \in DOMAIN supers : supers[k].target \in DataTypes
      /\ Uses(t) = {supers[k].target : k \in DOMAIN supers}
      /\ DOMAIN supers = 1..Len(supers) /\ Len(supers) \in Nat
  BY <1>1, <1>2, SupertypesForm, SequenceDomain
<1>5. \/ Frame.at = Len(supers) /\ Return
         /\ IF supers = <<>> THEN Unencodable ELSE UNCHANGED encodable
      \/ Frame.at < Len(supers)
         /\ IF super \notin DOMAIN encodable THEN Enter(super)
            ELSE IF encodable[super] THEN Advance({}) /\ UNCHANGED encodable
            ELSE Unencodable /\ Return
  BY Zenon DEF FollowSupertypes
<1> HIDE DEF supers
<1>6. CASE Frame.at = Len(supers) /\ Return /\ supers = <<>> /\ Unencodable
  <2>1. ~HasBuiltinForm(t)
    BY <1>1, <1>2, <1>6 DEF HasBuiltinForm, supers
  <2> QED
    BY <1>1, <1>6, <2>1, ReturnUnencodable
<1>7. CASE Frame.at = Len(supers) /\ Return /\ supers # <<>> /\ UNCHANGED encodable
  <2>1. stack' = Front(stack) /\ encodable' = encodable
    BY <1>7 DEF Return
  <2>2. HasBuiltinForm(t)
    BY <1>1, <1>7 DEF HasBuiltinForm, supers
  <2>3. ~OnCycle(t) => \A u \in Uses(t) : u \in D /\ encodable[u]
    BY <1>3, <1>4, <1>7 DEF SuperFrame, supers
  <2>4. Answered(t, encodable, D \cup {t})
    BY <1>3, <2>2, <2>3 DEF Answered, SuperFrame
  <2> QED
    BY <1>1, <1>2, <2>1, <2>4, ReturnedFrame
<1>8. ASSUME Frame.at < Len(supers)
      PROVE  super \in Uses(t) /\ super \in DataTypes
  BY <1>2, <1>4, <1>8
<1>9. CASE Frame.at < Len(supers) /\ super \notin DOMAIN encodable /\ Enter(super)
  BY <1>1, <1>2, <1>8, <1>9, EnterStep
<1>10. CASE /\ Frame.at < Len(supers) /\ super \in DOMAIN encodable /\ encodable[super]
            /\ Advance({}) /\ UNCHANGED encodable
  <2>1. PICK g \in Frames : /\ stack' = Front(stack) \o <<g>>
                            /\ g.type = t /\ g.at = Frame.at + 1
    <3>1. {} \in SUBSET {"value", "type"}
      OBVIOUS
    <3> QED
      BY <1>2, <1>10, <3>1, AdvanceStep
  <2>3. ~OnCycle(t) => super \in D
    BY <1>2, <1>8, <1>10 DEF Returned
  <2>4. ASSUME ~OnCycle(t), NEW k \in 1..g.at
        PROVE  supers[k].target \in D /\ encodable[supers[k].target]
    <3>1. k \in 1..Frame.at \/ k = Frame.at + 1
      BY <1>2, <2>1
    <3> QED
      BY <1>3, <1>10, <2>3, <2>4, <3>1 DEF SuperFrame, supers
  <2>5. SuperFrame(g, encodable, D)
    BY <1>3, <2>1, <2>4 DEF SuperFrame, supers
  <2>6. FrameClaim(g, encodable, D)
    BY <1>1, <2>1, <2>5 DEF FrameClaim
  <2> QED
    BY <1>1, <1>2, <1>10, <2>1, <2>6, AdvancedFrame
<1>11. CASE /\ Frame.at < Len(supers) /\ super \in DOMAIN encodable /\ ~encodable[super]
            /\ Unencodable /\ Return
  BY <1>1, <1>8, <1>11, ReturnUnencodable
<1> QED
  BY <1>5, <1>6, <1>7, <1>9, <1>10, <1>11

(* The kinds of the fields of a definition.                                *)
LEMMA FieldForms ==
  ASSUME GraphForm, NEW t \in DataTypes, Definition(t) # None,
         node[t].name \notin BuiltinNames
  PROVE  /\ Definition(t) \in Seq(Fields)
         /\ DOMAIN Definition(t) = 1..Len(Definition(t)) /\ Len(Definition(t)) \in Nat
         /\ ToSet(Definition(t)) = {Definition(t)[k] : k \in 1..Len(Definition(t))}
         /\ None \notin DataTypes /\ DataTypes \subseteq DOMAIN node
         /\ \A u \in DOMAIN node : IsDataType(u) => u \in DataTypes
         /\ \A d \in ToSet(Definition(t)) : d.type \in DataTypes => d.type \in Uses(t)
         /\ \A u \in Uses(t) : u \in DataTypes
                               /\ \E d \in ToSet(Definition(t)) : u = d.type
         /\ HasBuiltinForm(t) <=>
              \/ /\ \A d \in ToSet(Definition(t)) : d.type = None
                 /\ Definition(t) = <<>> \/ Definition(t)[1].value
              \/ \A d \in ToSet(Definition(t)) : ~d.value /\ d.type \in DataTypes
<1>1. Definition(t) \in Seq(Fields)
  BY DEF GraphForm, ElementForm, Definition, DataTypes
<1>2. /\ DOMAIN Definition(t) = 1..Len(Definition(t)) /\ Len(Definition(t)) \in Nat
      /\ ToSet(Definition(t)) = {Definition(t)[k] : k \in 1..Len(Definition(t))}
  BY <1>1 DEF ToSet
<1>3. None \notin DOMAIN node
  BY NoneAssumption DEF GraphForm
<1>4. /\ None \notin DataTypes /\ DataTypes \subseteq DOMAIN node
      /\ \A u \in DOMAIN node : IsDataType(u) => u \in DataTypes
  BY <1>3 DEF DataTypes
<1>5. Uses(t) = {d.type : d \in ToSet(Definition(t))} \cap DataTypes
  BY Zenon DEF Uses
<1>6. HasBuiltinForm(t) <=>
        \/ /\ \A d \in ToSet(Definition(t)) : d.type = None
           /\ Definition(t) = <<>> \/ Definition(t)[1].value
        \/ \A d \in ToSet(Definition(t)) : ~d.value /\ d.type \in DataTypes
  BY Zenon DEF HasBuiltinForm, Enumeration
<1> QED
  BY <1>1, <1>2, <1>4, <1>5, <1>6

(* buildEncoding of a type with a definition.                              *)
LEMMA FollowFieldsStep ==
  ASSUME GraphForm, Claims(stack, encodable), FollowFields
  PROVE  Claims(stack', encodable') \/ phase' = "failed"
<1> DEFINE t == Frame.type
           fields == Definition(t)
           n == Len(fields)
           at == Frame.at
           field == fields[at + 1]
           seen == Frame.seen \cup (IF field.value THEN {"value"} ELSE {})
                              \cup (IF field.type # None THEN {"type"} ELSE {})
           D == Returned(stack, encodable)
           Followed == {fields[k] : k \in 1..at}
           e == encodable
<1>1. stack # <<>> /\ fields # None
  BY DEF FollowFields
<1>2. /\ Frame = Last(stack) /\ Frame \in Frames /\ at \in Nat
      /\ t \in DataTypes /\ t \in DOMAIN e /\ t \in DOMAIN node
      /\ node[t].name \notin BuiltinNames
      /\ FrameClaim(Frame, e, D)
      /\ e \in [DOMAIN e -> BOOLEAN]
      /\ \A u \in Uses(t) : u \in Building(stack) => OnCycle(t)
  BY <1>1, FrameOnTop
<1>3. FieldFrame(Frame, e, D)
  BY <1>1, <1>2 DEF FrameClaim
<1>4. \/ at = n /\ Return /\ UNCHANGED <<encodable, phase, failed>>
      \/ /\ at < n /\ Cardinality(seen) # 1 /\ Unencodable /\ Return
      \/ /\ at < n /\ seen = {"value"} /\ Advance(seen) /\ UNCHANGED <<encodable, phase, failed>>
      \/ /\ at < n /\ seen = {"type"} /\ field.type \notin DOMAIN node
         /\ Unencodable /\ Advance(seen)
      \/ Fail("field")
      \/ /\ at < n /\ seen = {"type"} /\ IsDataType(field.type)
         /\ IF field.type \notin DOMAIN encodable THEN Enter(field.type)
            ELSE IF encodable[field.type] THEN Advance(seen) /\ UNCHANGED encodable
            ELSE Unencodable /\ Return
  BY Zenon DEF FollowFields
<1>5. /\ fields \in Seq(Fields) /\ DOMAIN fields = 1..n /\ n \in Nat
      /\ ToSet(fields) = {fields[k] : k \in 1..n}
      /\ None \notin DataTypes /\ DataTypes \subseteq DOMAIN node
      /\ \A u \in DOMAIN node : IsDataType(u) => u \in DataTypes
      /\ \A d \in ToSet(fields) : d.type \in DataTypes => d.type \in Uses(t)
      /\ \A u \in Uses(t) : u \in DataTypes /\ \E d \in ToSet(fields) : u = d.type
      /\ HasBuiltinForm(t) <=>
           \/ /\ \A d \in ToSet(fields) : d.type = None
              /\ fields = <<>> \/ fields[1].value
           \/ \A d \in ToSet(fields) : ~d.value /\ d.type \in DataTypes
  BY <1>1, <1>2, FieldForms
<1>6. /\ at <= n
      /\ at = 0 => Frame.seen = {} /\ e[t]
      /\ at # 0 => Frame.seen \in {{"value"}, {"type"}}
      /\ Frame.seen = {"value"} =>
           e[t] /\ fields[1].value /\ \A d \in Followed : d.type = None
      /\ Frame.seen = {"type"} =>
           /\ fields[1].type # None
           /\ \A d \in Followed : ~d.value /\ (d.type \in DOMAIN node => IsDataType(d.type))
           /\ e[t] <=> \A d \in Followed : d.type \in DOMAIN node
           /\ ~OnCycle(t) => \A d \in Followed : d.type \in DataTypes => d.type \in D /\ e[d.type]
  BY <1>3, Zenon DEF FieldFrame
<1> HIDE DEF fields, D
<1>7. at = 0 \/ Frame.seen = {"value"} \/ Frame.seen = {"type"}
  BY <1>6
<1>8. ASSUME at < n
      PROVE  /\ at + 1 \in 1..n /\ field \in ToSet(fields) /\ 1 \in 1..n
             /\ fields[1] \in ToSet(fields) /\ fields # <<>>
             /\ {fields[k] : k \in 1..(at + 1)} = Followed \cup {field}
             /\ at = 0 => field = fields[1]
             /\ Followed \subseteq ToSet(fields)
  <2>1. at + 1 \in 1..n /\ 1 \in 1..n /\ 1..(at + 1) = 1..at \cup {at + 1} /\ 1..at \subseteq 1..n
    BY <1>2, <1>5, <1>8
  <2>2. field \in ToSet(fields) /\ fields[1] \in ToSet(fields) /\ fields # <<>>
    BY <1>5, <2>1
  <2>3. at = 0 => at + 1 = 1
    OBVIOUS
  <2>4. {fields[k] : k \in 1..(at + 1)} = Followed \cup {field}
    BY <2>1
  <2>5. Followed \subseteq ToSet(fields)
    BY <1>5, <2>1
  <2> QED
    BY <2>1, <2>2, <2>3, <2>4, <2>5
<1>9. /\ "value" \in seen <=> "value" \in Frame.seen \/ field.value
      /\ "type" \in seen <=> "type" \in Frame.seen \/ field.type # None
      /\ seen \subseteq {"value", "type"}
      /\ "value" # "type"
  BY <1>2 DEF Frames
<1> HIDE DEF seen, Followed, field
<1>10. CASE at = n /\ Return /\ UNCHANGED <<encodable, phase, failed>>
  <2>1. stack' = Front(stack) /\ encodable' = e
    BY <1>10 DEF Return
  <2>2. Followed = ToSet(fields)
    BY <1>5, <1>10 DEF Followed
  <2>3. Answered(t, e, D \cup {t})
    <3>1. CASE at = 0
      <4>1. fields = <<>> /\ ToSet(fields) = {}
        BY <1>5, <1>10, <3>1
      <4>2. HasBuiltinForm(t) /\ Uses(t) = {}
        BY <1>5, <4>1
      <4> QED
        BY <1>6, <3>1, <4>2 DEF Answered
    <3>2. CASE Frame.seen = {"value"}
      <4>1. e[t] /\ fields[1].value /\ \A d \in ToSet(fields) : d.type = None
        BY <1>6, <2>2, <3>2
      <4>2. HasBuiltinForm(t) /\ Uses(t) = {}
        BY <1>5, <4>1
      <4> QED
        BY <4>1, <4>2 DEF Answered
    <3>3. CASE Frame.seen = {"type"} /\ at # 0
      <4>1. /\ fields[1].type # None
            /\ \A d \in ToSet(fields) : ~d.value /\ (d.type \in DOMAIN node => IsDataType(d.type))
            /\ e[t] <=> \A d \in ToSet(fields) : d.type \in DOMAIN node
            /\ ~OnCycle(t) =>
                 \A d \in ToSet(fields) : d.type \in DataTypes => d.type \in D /\ e[d.type]
        BY <1>6, <2>2, <3>3
      <4>2. fields[1] \in ToSet(fields)
        BY <1>2, <1>5, <1>10, <3>3
      <4>3. CASE e[t]
        <5>1. \A d \in ToSet(fields) : ~d.value /\ d.type \in DataTypes
          BY <1>5, <4>1, <4>3
        <5>2. HasBuiltinForm(t)
          BY <1>5, <5>1
        <5>3. ~OnCycle(t) => \A u \in Uses(t) : u \in D /\ e[u]
          BY <1>5, <4>1
        <5> QED
          BY <4>3, <5>2, <5>3 DEF Answered
      <4>4. CASE ~e[t]
        <5>1. ~HasBuiltinForm(t)
          BY <1>5, <4>1, <4>2, <4>4
        <5> QED
          BY <4>4, <5>1 DEF Answered
      <4> QED
        BY <4>3, <4>4
    <3> QED
      BY <1>7, <3>1, <3>2, <3>3
  <2> HIDE DEF t
  <2>4. t = Last(stack).type
    BY <1>2 DEF t
  <2>5. Claims(Front(stack), e)
    BY <1>1, <1>2, <2>3, <2>4, ReturnedFrame DEF D
  <2> QED
    BY <2>1, <2>5
<1>11. CASE at < n /\ Cardinality(seen) # 1 /\ Unencodable /\ Return
  <2>1. seen = {} \/ seen = {"value", "type"}
    <3>1. Cardinality({"value"}) = 1 /\ Cardinality({"type"}) = 1
      BY FS_Singleton
    <3>2. seen # {"value"} /\ seen # {"type"}
      BY <1>11, <3>1
    <3> QED
      BY <1>9, <3>2
  <2>2. ~HasBuiltinForm(t)
    <3>1. CASE seen = {}
      <4>1. at = 0 /\ ~field.value /\ field.type = None
        BY <1>6, <1>7, <1>9, <3>1
      <4> QED
        BY <1>5, <1>8, <1>11, <4>1
    <3>2. CASE seen = {"value", "type"}
      <4>1. "value" \in Frame.seen => fields[1].value
        BY <1>6, <1>7, <1>9
      <4>2. "type" \in Frame.seen => fields[1].type # None
        BY <1>6, <1>7, <1>9
      <4>3. \E d \in ToSet(fields) : d.value
        BY <1>8, <1>9, <1>11, <3>2, <4>1
      <4>4. \E d \in ToSet(fields) : d.type # None
        BY <1>8, <1>9, <1>11, <3>2, <4>2
      <4> QED
        BY <1>5, <4>3, <4>4
    <3> QED
      BY <2>1, <3>1, <3>2
  <2> QED
    BY <1>1, <1>11, <2>2, ReturnUnencodable
<1>12. CASE at < n /\ seen = {"value"} /\ Advance(seen) /\ UNCHANGED <<encodable, phase, failed>>
  <2>1. PICK g \in Frames : /\ stack' = Front(stack) \o <<g>>
                            /\ g.type = t /\ g.at = at + 1 /\ g.seen = seen
    BY <1>2, <1>9, <1>12, AdvanceStep
  <2>2. /\ e[t] /\ fields[1].value /\ field.type = None
        /\ \A d \in Followed : d.type = None
    <3>1. field.type = None /\ (at = 0 => field.value) /\ Frame.seen # {"type"}
      BY <1>6, <1>9, <1>12
    <3>2. at = 0 => Followed = {}
      BY DEF Followed
    <3> QED
      BY <1>6, <1>7, <1>8, <1>12, <3>1, <3>2
  <2>3. FieldFrame(g, e, D)
    <3>1. {"value"} # {"type"} /\ g.seen = {"value"} /\ g.at # 0 /\ g.at <= n
      <4>1. at \in Nat /\ n \in Nat /\ at < n /\ g.at = at + 1
        BY <1>2, <1>5, <1>12, <2>1
      <4>2. g.at # 0 /\ g.at <= n
        BY <4>1
      <4>3. g.seen = {"value"}
        BY <1>12, <2>1, Zenon
      <4> QED
        BY <4>2, <4>3
    <3>2. \A d \in {fields[k] : k \in 1..g.at} : d.type = None
      BY <1>8, <1>12, <2>1, <2>2
    <3> QED
      BY <2>1, <2>2, <3>1, <3>2 DEF FieldFrame, fields
  <2>4. FrameClaim(g, e, D)
    BY <1>1, <2>1, <2>3 DEF FrameClaim, fields
  <2>5. Claims(Front(stack) \o <<g>>, e)
    BY <1>1, <1>2, <2>1, <2>4, AdvancedFrame DEF D
  <2> QED
    BY <1>12, <2>1, <2>5
<1>13. ASSUME at < n, seen = {"type"}
       PROVE  /\ fields[1].type # None /\ ~field.value
              /\ \A d \in Followed : ~d.value /\ (d.type \in DOMAIN node => IsDataType(d.type))
              /\ e[t] <=> \A d \in Followed : d.type \in DOMAIN node
              /\ ~OnCycle(t) =>
                   \A d \in Followed : d.type \in DataTypes => d.type \in D /\ e[d.type]
  <2>1. ~field.value /\ (at = 0 => field.type # None) /\ Frame.seen # {"value"}
    BY <1>6, <1>9, <1>13
  <2>2. at = 0 => Followed = {}
    BY DEF Followed
  <2> QED
    BY <1>6, <1>7, <1>8, <1>13, <2>1, <2>2
<1>14. CASE /\ at < n /\ seen = {"type"} /\ field.type \notin DOMAIN node
            /\ Unencodable /\ Advance(seen)
  <2> DEFINE a == [e EXCEPT ![t] = FALSE]
  <2>1. PICK g \in Frames : /\ stack' = Front(stack) \o <<g>>
                            /\ g.type = t /\ g.at = at + 1 /\ g.seen = seen
    BY <1>2, <1>9, <1>14, AdvanceStep
  <2>2. /\ encodable' = a /\ a \in [DOMAIN e -> BOOLEAN] /\ ~a[t]
        /\ \A u \in DOMAIN e : u # t => a[u] = e[u]
    BY <1>2, <1>14 DEF Unencodable
  <2> HIDE DEF a
  <2>3. \A u \in D : a[u] = e[u]
    <3>1. t \in Building(stack)
      BY <1>1, <1>2, TopFrame DEF Building, Claims, Chain
    <3> QED
      BY <2>2, <3>1 DEF D, Returned
  <2>4. FieldFrame(g, a, D)
    <3>1. {"value"} # {"type"} /\ g.seen = {"type"} /\ g.at # 0 /\ g.at <= n
      <4>1. at \in Nat /\ n \in Nat /\ at < n /\ g.at = at + 1
        BY <1>2, <1>5, <1>14, <2>1
      <4>2. g.at # 0 /\ g.at <= n
        BY <4>1
      <4>3. g.seen = {"type"}
        BY <1>14, <2>1, Zenon
      <4> QED
        BY <4>2, <4>3
    <3> DEFINE Now == {fields[k] : k \in 1..g.at}
    <3>2. Now = Followed \cup {field}
      BY <1>8, <1>14, <2>1
    <3>3. fields[1].type # None
      BY <1>13, <1>14
    <3>4. \A d \in Now : ~d.value /\ (d.type \in DOMAIN node => IsDataType(d.type))
      BY <1>13, <1>14, <3>2
    <3>5. a[g.type] <=> \A d \in Now : d.type \in DOMAIN node
      BY <1>14, <2>1, <2>2, <3>2
    <3>6. ~OnCycle(g.type) => \A d \in Now : d.type \in DataTypes => d.type \in D /\ a[d.type]
      BY <1>5, <1>13, <1>14, <2>1, <2>3, <3>2
    <3> QED
      BY <2>1, <3>1, <3>3, <3>4, <3>5, <3>6 DEF FieldFrame, fields
  <2>5. FrameClaim(g, a, D)
    BY <1>1, <2>1, <2>4 DEF FrameClaim, fields
  <2>6. Claims(Front(stack) \o <<g>>, a)
    BY <1>1, <1>2, <2>1, <2>2, <2>5, AdvancedFrame DEF D
  <2> QED
    BY <2>1, <2>2, <2>6
<1>15. ASSUME at < n, IsDataType(field.type)
       PROVE  field.type \in DataTypes /\ field.type \in DOMAIN node /\ field.type \in Uses(t)
  BY <1>5, <1>8, <1>15 DEF IsDataType
<1>16. CASE /\ at < n /\ seen = {"type"} /\ IsDataType(field.type)
            /\ field.type \notin DOMAIN encodable /\ Enter(field.type)
  <2>1. field.type \in DataTypes /\ (stack # <<>> => field.type \in Uses(Last(stack).type))
    BY <1>2, <1>15, <1>16
  <2> QED
    BY <1>16, <2>1, EnterStep
<1>17. CASE /\ at < n /\ seen = {"type"} /\ IsDataType(field.type)
            /\ field.type \in DOMAIN encodable /\ encodable[field.type]
            /\ Advance(seen) /\ UNCHANGED encodable
  <2>1. PICK g \in Frames : /\ stack' = Front(stack) \o <<g>>
                            /\ g.type = t /\ g.at = at + 1 /\ g.seen = seen
    BY <1>2, <1>9, <1>17, AdvanceStep
  <2>2. field.type \in DataTypes /\ field.type \in DOMAIN node /\ field.type \in Uses(t)
    BY <1>15, <1>17
  <2>3. ~OnCycle(t) => field.type \in D /\ e[field.type]
    BY <1>2, <1>17, <2>2 DEF D, Returned
  <2>4. FieldFrame(g, e, D)
    <3>1. {"value"} # {"type"} /\ g.seen = {"type"} /\ g.at # 0 /\ g.at <= n
      <4>1. at \in Nat /\ n \in Nat /\ at < n /\ g.at = at + 1
        BY <1>2, <1>5, <1>17, <2>1
      <4>2. g.at # 0 /\ g.at <= n
        BY <4>1
      <4>3. g.seen = {"type"}
        BY <1>17, <2>1, Zenon
      <4> QED
        BY <4>2, <4>3
    <3> DEFINE Now == {fields[k] : k \in 1..g.at}
    <3>2. Now = Followed \cup {field}
      BY <1>8, <1>17, <2>1
    <3>3. fields[1].type # None
      BY <1>13, <1>17
    <3>4. \A d \in Now : ~d.value /\ (d.type \in DOMAIN node => IsDataType(d.type))
      BY <1>13, <1>17, <3>2
    <3>5. e[g.type] <=> \A d \in Now : d.type \in DOMAIN node
      BY <1>13, <1>17, <2>1, <2>2, <3>2
    <3>6. ~OnCycle(g.type) => \A d \in Now : d.type \in DataTypes => d.type \in D /\ e[d.type]
      BY <1>13, <1>17, <2>1, <2>3, <3>2
    <3> QED
      BY <2>1, <3>1, <3>3, <3>4, <3>5, <3>6 DEF FieldFrame, fields
  <2>5. FrameClaim(g, e, D)
    BY <1>1, <2>1, <2>4 DEF FrameClaim, fields
  <2>6. Claims(Front(stack) \o <<g>>, e)
    BY <1>1, <1>2, <2>1, <2>5, AdvancedFrame DEF D
  <2> QED
    BY <1>17, <2>1, <2>6
<1>18. CASE /\ at < n /\ seen = {"type"} /\ IsDataType(field.type)
            /\ field.type \in DOMAIN encodable /\ ~encodable[field.type]
            /\ Unencodable /\ Return
  BY <1>1, <1>15, <1>18, ReturnUnencodable
<1>19. CASE Fail("field")
  BY <1>19 DEF Fail
<1> QED
  BY <1>4, <1>10, <1>11, <1>12, <1>14, <1>16, <1>17, <1>18, <1>19

(* The inductive invariant: the documents keep their form until they are   *)
(* read and the graph from then on, nothing is answered before the graph   *)
(* is linked, the stack and the answers are as claimed while they change,  *)
(* all data types that were visited are built, and in the end the answers  *)
(* converge.                                                               *)
BeforeEncoding == phase \in {"preprocess", "models", "parse", "link", "sanitize"}
Visited == \A k \in DOMAIN order :
             k <= cursor /\ IsDataType(order[k]) => order[k] \in DOMAIN encodable
EncodingIInv ==
  /\ cursor \in Nat
  /\ phase \in {"preprocess", "models", "parse"} => DocsForm
  /\ BeforeEncoding => GraphForm /\ stack = <<>> /\ encodable = <<>>
  /\ phase = "encode" => GraphForm /\ Claims(stack, encodable) /\ Visited
  /\ EncodableConverges

(* Initially there is no graph.                                            *)
LEMMA InitEncoding == Init => EncodingIInv
<1> SUFFICES ASSUME Init PROVE EncodingIInv
  OBVIOUS
<1>1. /\ cursor = 0 /\ phase = "preprocess" /\ PreInit
      /\ order = <<>> /\ node = <<>> /\ stack = <<>> /\ encodable = <<>>
  BY DEF Init, PreInit, GraphInit, EncodingInit
<1>2. GraphForm
  <2>1. <<>> \in Seq({}) /\ DOMAIN node = {} /\ ToSet(order) = {}
    BY <1>1 DEF ToSet
  <2> QED
    BY <1>1, <2>1 DEF GraphForm, IsASequence
<1> QED
  BY <1>1, <1>2, ReadDocs DEF EncodingIInv, EncodableConverges

(* The form of the graph depends on the nodes and their order alone.       *)
LEMMA GraphFormStays ==
  ASSUME GraphForm, UNCHANGED <<order, node>>
  PROVE  GraphForm'
BY DEF GraphForm, IsASequence, ElementForm

(* The preprocessor keeps the form of the documents and answers nothing.   *)
LEMMA PrePreservesEncoding ==
  ASSUME EncodingIInv, PreNext, UNCHANGED <<graphVars, encodingVars>>
  PROVE  EncodingIInv'
<1>1. /\ phase \in {"preprocess", "models"} /\ phase' \in {"models", "parse", "failed"}
      /\ UNCHANGED <<order, node, stack, encodable>>
  BY PreStages DEF graphVars, encodingVars
<1>2. DocsForm /\ GraphForm /\ stack = <<>> /\ encodable = <<>> /\ cursor \in Nat
  BY <1>1 DEF EncodingIInv, BeforeEncoding
<1>3. GraphForm'
  BY <1>1, <1>2, GraphFormStays
<1>4. DocsForm'
  <2>1. CASE MatchStochastically
    BY <1>2, <2>1 DEF MatchStochastically, DocsForm, EntryForm, DocForm, ElementForm, IsASequence
  <2> QED
    BY <1>2, <2>1, AssignedDocs, LinkedDocs DEF PreNext
<1>5. cursor' \in Nat
  <2>1. cursor' = cursor \/ cursor' = cursor + 1 \/ cursor' = 0
    BY Zenon DEF PreNext, AssignUniqueNsIds, LinkDependantModels, MatchStochastically
  <2> QED
    BY <1>2, <2>1
<1> QED
  BY <1>1, <1>2, <1>3, <1>4, <1>5 DEF EncodingIInv, BeforeEncoding, EncodableConverges

(* The stages of the graph keep its form and answer nothing.               *)
LEMMA GraphPreservesEncoding ==
  ASSUME EncodingIInv, GraphNext, UNCHANGED encodingVars
  PROVE  EncodingIInv'
<1>1. /\ phase \in {"parse", "link", "sanitize"}
      /\ phase' \in {"parse", "link", "sanitize", "encode"}
      /\ UNCHANGED <<stack, encodable>>
  BY GraphStages DEF encodingVars
<1>2. GraphForm /\ stack = <<>> /\ encodable = <<>> /\ cursor \in Nat
  BY <1>1 DEF EncodingIInv, BeforeEncoding
<1>3. CASE ParseDocument
  <2>1. phase = "parse" /\ phase' = "parse" /\ cursor' = cursor + 1 /\ docs' = docs
    BY <1>3 DEF ParseDocument
  <2>2. DocsForm /\ DocsForm'
    BY <2>1 DEF EncodingIInv, DocsForm, EntryForm, DocForm, ElementForm, IsASequence
  <2>3. GraphForm'
    BY <1>2, <1>3, <2>2, ParsedGraph
  <2> QED
    BY <1>1, <1>2, <2>1, <2>2, <2>3 DEF EncodingIInv, BeforeEncoding, EncodableConverges
<1>4. CASE RemoveBlacklisted
  <2>1. phase' = "link" /\ cursor' = cursor
    BY <1>4 DEF RemoveBlacklisted
  <2>2. GraphForm'
    BY <1>2, <1>4, BlacklistedGraph
  <2> QED
    BY <1>1, <1>2, <2>1, <2>2 DEF EncodingIInv, BeforeEncoding, EncodableConverges
<1>5. CASE LinkOpenPointers
  <2>1. phase' = "sanitize" /\ cursor' = cursor
    BY <1>5 DEF LinkOpenPointers
  <2>2. GraphForm'
    BY <1>2, <1>5, LinkedGraph
  <2> QED
    BY <1>1, <1>2, <2>1, <2>2 DEF EncodingIInv, BeforeEncoding, EncodableConverges
<1>6. CASE Sanitize
  <2>1. phase' = "encode" /\ cursor' = 0
    BY <1>6 DEF Sanitize
  <2>2. GraphForm'
    BY <1>2, <1>6, SanitizedGraph
  <2>3. Claims(stack, encodable)'
    <3>1. encodable' = <<>> /\ stack' = <<>> /\ DOMAIN <<>> = {}
      BY <1>1, <1>2
    <3>2. <<>> \in [{} -> BOOLEAN] /\ \A S : <<>> \in Seq(S)
      OBVIOUS
    <3> QED
      BY <3>1, <3>2 DEF Claims, Chain, Returned
  <2>4. Visited'
    <3>1. DOMAIN order' \subseteq Nat \ {0}
      BY <2>2, SequenceDomain DEF GraphForm
    <3> QED
      BY <2>1, <3>1 DEF Visited
  <2> QED
    BY <2>1, <2>2, <2>3, <2>4 DEF EncodingIInv, BeforeEncoding, EncodableConverges
<1> QED
  BY <1>3, <1>4, <1>5, <1>6 DEF GraphNext

(* buildEncodingRules visits the next node.                                *)
LEMMA BuildStep ==
  ASSUME EncodingIInv, BuildNext, UNCHANGED <<order, node>>
  PROVE  Claims(stack', encodable') /\ Visited' /\ cursor' \in Nat /\ phase' = "encode"
<1> DEFINE n == order[cursor + 1]
<1>1. /\ phase = "encode" /\ stack = <<>> /\ cursor < Len(order) /\ cursor' = cursor + 1
      /\ phase' = phase
  BY DEF BuildNext
<1>2. \/ IsDataType(n) /\ n \notin DOMAIN encodable /\ Enter(n)
      \/ ~(IsDataType(n) /\ n \notin DOMAIN encodable) /\ UNCHANGED <<encodable, stack>>
  BY Zenon DEF BuildNext, encodingVars
<1>3. /\ GraphForm /\ Claims(stack, encodable) /\ cursor \in Nat
      /\ \A k \in DOMAIN order :
           k <= cursor /\ IsDataType(order[k]) => order[k] \in DOMAIN encodable
  BY <1>1 DEF EncodingIInv, Visited
<1>4. /\ Claims(stack', encodable') /\ DOMAIN encodable \subseteq DOMAIN encodable'
      /\ IsDataType(n) => n \in DOMAIN encodable'
  <2>1. CASE IsDataType(n) /\ n \notin DOMAIN encodable /\ Enter(n)
    <3>1. n \in DataTypes
      BY <2>1 DEF DataTypes, IsDataType
    <3>2. Claims(stack', encodable')
      BY <1>1, <1>3, <2>1, <3>1, EnterStep
    <3>3. encodable' = Built(n, TRUE)
      BY <2>1, Zenon DEF Enter
    <3> HIDE DEF n
    <3> QED
      BY <3>2, <3>3 DEF Built
  <2>2. CASE ~(IsDataType(n) /\ n \notin DOMAIN encodable) /\ UNCHANGED <<encodable, stack>>
    BY <1>3, <2>2
  <2> QED
    BY <1>2, <2>1, <2>2
<1>5. DOMAIN order \subseteq Nat
  BY <1>3, SequenceDomain DEF GraphForm
<1>6. \A k : IsDataType(k)' <=> IsDataType(k)
  BY DEF IsDataType
<1>7. Visited'
  <2> SUFFICES ASSUME NEW k \in DOMAIN order, k <= cursor + 1, IsDataType(order[k])
               PROVE  order[k] \in DOMAIN encodable'
    BY <1>1, <1>6 DEF Visited
  <2>1. k <= cursor \/ k = cursor + 1
    BY <1>3, <1>5
  <2> QED
    BY <1>3, <1>4, <2>1
<1> QED
  BY <1>1, <1>3, <1>4, <1>7

(* buildEncoding forgets no type it was called for.                        *)
LEMMA BuiltStays ==
  ASSUME NEW e, encodable = e, FollowSupertypes \/ FollowFields
  PROVE  DOMAIN e \subseteq DOMAIN encodable' \/ phase' = "failed"
<1>1. Unencodable => DOMAIN encodable' = DOMAIN encodable
  BY DEF Unencodable
<1>2. \A t : Enter(t) => DOMAIN encodable \subseteq DOMAIN encodable'
  <2> SUFFICES ASSUME NEW t, Enter(t) PROVE DOMAIN encodable \subseteq DOMAIN encodable'
    OBVIOUS
  <2>1. encodable' = Built(t, TRUE)
    BY Zenon DEF Enter
  <2> QED
    BY <2>1 DEF Built
<1>3. CASE FollowSupertypes
  <2>1. (\E t : Enter(t)) \/ Unencodable \/ UNCHANGED encodable
    BY <1>3, Zenon DEF FollowSupertypes
  <2> QED
    BY <1>1, <1>2, <2>1
<1>4. CASE FollowFields
  <2>1. (\E t : Enter(t)) \/ Unencodable \/ UNCHANGED encodable \/ Fail("field")
    BY <1>4, Zenon DEF FollowFields
  <2> QED
    BY <1>1, <1>2, <2>1 DEF Fail
<1> QED
  BY <1>3, <1>4

(* buildEncodingRules and buildEncoding keep what is claimed of the stack. *)
LEMMA EncodingPreservesEncoding ==
  ASSUME EncodingIInv, EncodingNext
  PROVE  EncodingIInv'
<1>1. /\ phase = "encode" /\ phase' \in {"encode", "failed"} /\ UNCHANGED <<order, node>>
  BY EncodingStages DEF EncodingNext, graphVars
<1>2. GraphForm /\ GraphForm' /\ Claims(stack, encodable) /\ Visited /\ cursor \in Nat
  BY <1>1, GraphFormStays DEF EncodingIInv
<1>3. cursor' \in Nat
  BY <1>2 DEF EncodingNext, BuildNext, FollowSupertypes, FollowFields
<1>4. CASE phase' = "failed"
  BY <1>3, <1>4 DEF EncodingIInv, BeforeEncoding, EncodableConverges
<1>5. ASSUME phase' = "encode" PROVE Claims(stack', encodable') /\ Visited'
  <2>1. CASE BuildNext
    BY <1>1, <2>1, BuildStep
  <2>2. CASE FollowSupertypes \/ FollowFields
    <3>1. Claims(stack', encodable')
      BY <1>2, <1>5, <2>2, FollowSupertypesStep, FollowFieldsStep
    <3>2. DOMAIN encodable \subseteq DOMAIN encodable'
      BY <1>5, <2>2, BuiltStays
    <3>3. cursor' = cursor
      BY <2>2 DEF FollowSupertypes, FollowFields
    <3>4. \A k : IsDataType(k)' <=> IsDataType(k)
      BY <1>1 DEF IsDataType
    <3> QED
      BY <1>1, <1>2, <3>1, <3>2, <3>3, <3>4 DEF Visited
  <2> QED
    BY <2>1, <2>2 DEF EncodingNext
<1>6. CASE phase' = "encode"
  BY <1>1, <1>2, <1>3, <1>5, <1>6, ClaimsStay
     DEF EncodingIInv, BeforeEncoding, EncodableConverges
<1> QED
  BY <1>1, <1>4, <1>6

(* Once all nodes are visited and no call is under way, every data type    *)
(* has its answer.                                                         *)
LEMMA AnswersConverge ==
  ASSUME GraphForm, Claims(stack, encodable), Visited, cursor = Len(order), stack = <<>>,
         NEW t \in DataTypes, ~OnCycle(t)
  PROVE  encodable[t] = (HasBuiltinForm(t) /\ \A u \in Uses(t) : encodable[u])
<1>1. Building(stack) = {}
  BY DEF Building
<1>2. \A u \in DataTypes : u \in DOMAIN encodable
  <2> SUFFICES ASSUME NEW u \in DataTypes PROVE u \in DOMAIN encodable
    OBVIOUS
  <2>1. u \in ToSet(order) /\ IsDataType(u)
    BY DEF GraphForm, DataTypes
  <2>2. PICK k \in DOMAIN order : order[k] = u
    BY <2>1 DEF ToSet
  <2>3. k <= cursor
    BY <2>2, SequenceDomain DEF GraphForm
  <2> QED
    BY <2>1, <2>2, <2>3 DEF Visited
<1>3. /\ t \in DOMAIN encodable /\ encodable[t] \in BOOLEAN
      /\ Answered(t, encodable, DOMAIN encodable)
  BY <1>1, <1>2 DEF Claims, Returned
<1>4. HasBuiltinForm(t) \in BOOLEAN
  BY DEF HasBuiltinForm
<1> QED
  BY <1>3, <1>4, Zenon DEF Answered

(* What converged stays so: printing changes neither nodes nor answers.    *)
LEMMA PrintingPreservesEncoding ==
  ASSUME EncodingIInv, UNCHANGED <<node, encodable>>, cursor' \in Nat,
         phase \in {"print", "done"}, phase' \in {"print", "done", "failed"}
  PROVE  EncodingIInv'
<1>1. \A t \in DataTypes :
        ~OnCycle(t) => encodable[t] = (HasBuiltinForm(t) /\ \A u \in Uses(t) : encodable[u])
  BY DEF EncodingIInv, EncodableConverges
<1>2. EncodableConverges'
  BY <1>1, UsesStay DEF EncodableConverges
<1> QED
  BY <1>2 DEF EncodingIInv, BeforeEncoding

(* Printing a node ends the compiler or goes on.                           *)
LEMMA PrintNodePhase ==
  ASSUME NEW n, PrintNode(n), phase = "print"
  PROVE  phase' \in {"print", "failed"}
BY CreatesOnlyIt DEF PrintNode

(* Every reachable state satisfies the inductive invariant.                *)
THEOREM EncodingInvariant == Spec => []EncodingIInv
<1>1. ASSUME EncodingIInv, [Next]_vars PROVE EncodingIInv'
  <2>1. CASE PreNext /\ UNCHANGED <<graphVars, encodingVars, reordered, printVars>>
    BY <1>1, <2>1, PrePreservesEncoding
  <2>2. CASE GraphNext /\ UNCHANGED <<encodingVars, reordered, printVars>>
    BY <1>1, <2>2, GraphPreservesEncoding
  <2>3. CASE EncodingNext /\ UNCHANGED <<reordered, printVars>>
    BY <1>1, <2>3, EncodingPreservesEncoding
  <2>4. CASE Reorder
    <3>1. phase = "encode" /\ UNCHANGED <<phase, cursor, order, node, stack, encodable>>
      BY <2>4 DEF Reorder, preVars, graphVars, encodingVars
    <3>2. GraphForm' /\ Claims(stack, encodable)' /\ Visited'
      <4>1. GraphForm /\ Claims(stack', encodable') /\ Visited
        BY <1>1, <3>1 DEF EncodingIInv
      <4>2. \A k : IsDataType(k)' <=> IsDataType(k)
        BY <3>1 DEF IsDataType
      <4> QED
        BY <3>1, <4>1, <4>2, GraphFormStays, ClaimsStay DEF Visited
    <3> QED
      BY <1>1, <3>1, <3>2 DEF EncodingIInv, BeforeEncoding, EncodableConverges
  <2>5. CASE RaiseInSubTypes
    <3>1. phase' = "failed" /\ cursor' = cursor
      BY <2>5 DEF RaiseInSubTypes, Fail
    <3> QED
      BY <1>1, <3>1 DEF EncodingIInv, BeforeEncoding, EncodableConverges
  <2>6. CASE BeginPrinting
    <3>1. /\ phase = "encode" /\ stack = <<>> /\ cursor = Len(order)
          /\ phase' = "print" /\ cursor' = 0 /\ UNCHANGED <<node, encodable>>
      BY <2>6 DEF BeginPrinting, encodingVars
    <3>2. GraphForm /\ Claims(stack, encodable) /\ Visited
      BY <1>1, <3>1 DEF EncodingIInv
    <3>3. \A t \in DataTypes : ~OnCycle(t) =>
            encodable[t] = (HasBuiltinForm(t) /\ \A u \in Uses(t) : encodable[u])
      BY <3>1, <3>2, AnswersConverge
    <3>4. EncodableConverges'
      BY <3>1, <3>3, UsesStay DEF EncodableConverges
    <3> QED
      BY <3>1, <3>4 DEF EncodingIInv, BeforeEncoding
  <2>7. CASE PrintReferenceType
    <3>1. /\ phase = "print" /\ PrintNode(Head(types))
          /\ UNCHANGED <<cursor, node, encodable>>
      BY <2>7 DEF PrintReferenceType, graphVars, encodingVars
    <3>2. phase' \in {"print", "failed"}
      BY <3>1, PrintNodePhase
    <3> QED
      BY <1>1, <3>1, <3>2, PrintingPreservesEncoding DEF EncodingIInv
  <2>8. CASE PrintNextNode
    <3>1. /\ phase = "print" /\ PrintNode(order[cursor + 1]) /\ cursor' = cursor + 1
          /\ UNCHANGED <<node, encodable>>
      BY <2>8 DEF PrintNextNode, graphVars, encodingVars
    <3>2. phase' \in {"print", "failed"}
      BY <3>1, PrintNodePhase
    <3> QED
      BY <1>1, <3>1, <3>2, PrintingPreservesEncoding DEF EncodingIInv
  <2>9. CASE Finish
    <3>1. phase = "print" /\ phase' = "done" /\ UNCHANGED <<cursor, node, encodable>>
      BY <2>9 DEF Finish, graphVars, encodingVars
    <3> QED
      BY <1>1, <3>1, PrintingPreservesEncoding DEF EncodingIInv
  <2>10. CASE UNCHANGED vars
    <3>1. UNCHANGED <<phase, cursor, docs, order, node, stack, encodable>>
      BY <2>10 DEF vars, preVars, graphVars, encodingVars
    <3>2. phase \in {"preprocess", "models", "parse"} => DocsForm'
      BY <1>1, <3>1
         DEF EncodingIInv, DocsForm, EntryForm, DocForm, ElementForm, IsASequence
    <3>3. GraphForm => GraphForm'
      BY <3>1, GraphFormStays
    <3>4. Claims(stack, encodable) => Claims(stack, encodable)'
      BY <3>1, ClaimsStay
    <3>5. Visited => Visited'
      BY <3>1 DEF Visited, IsDataType
    <3>6. EncodableConverges'
      BY <1>1, <3>1, UsesStay DEF EncodingIInv, EncodableConverges
    <3> QED
      BY <1>1, <3>1, <3>2, <3>3, <3>4, <3>5, <3>6 DEF EncodingIInv, BeforeEncoding
  <2> QED
    BY <1>1, <2>1, <2>2, <2>3, <2>4, <2>5, <2>6, <2>7, <2>8, <2>9, <2>10 DEF Next
<1> QED
  BY <1>1, InitEncoding, PTL DEF Spec

(* Whatever documents the compiler is given and in whatever order they     *)
(* bring their data types: what buildEncoding answers for a type that does *)
(* not contain itself is what its own form and the types it uses say.      *)
THEOREM EncodableAlwaysConverges == Spec => []EncodableConverges
<1>1. EncodingIInv => EncodableConverges
  BY DEF EncodingIInv
<1> QED
  BY <1>1, EncodingInvariant, PTL
-----------------------------------------------------------------------------
(* The nodes in the new order: each once.                                  *)
ReorderedForm ==
  /\ IsASequence(reordered) /\ ToSet(reordered) \subseteq ToSet(order)
  /\ \A j, k \in DOMAIN reordered : reordered[j] = reordered[k] => j = k

(* While nodes are printed, the open references are references of nodes    *)
(* that are not ignored, and the reference types of namespace 0 in use     *)
(* come first: they are left to print or exist.                            *)
UsedTypes == {t \in {r.type : r \in UNION {ToSet(Refs(n)) : n \in DOMAIN node}} : Ns(t) = 0}
OpenRefsForm ==
  /\ IsASequence(openRefs)
  /\ \A r \in ToSet(openRefs) :
       r.source \in DOMAIN node \ input.ignore /\ r \in ToSet(Refs(r.source))
TypesFirst ==
  /\ IsASequence(types) /\ ToSet(types) \subseteq UsedTypes
  /\ TypesAreTypes =>
       /\ UsedTypes \subseteq ToSet(types) \cup input.ignore \cup CreatedNodes
       /\ types # <<>> => \A n \in CreatedNodes : node[n].class = "ReferenceType"
LinkedForm == \A r \in linked : r.at \in 1..Len(created)

(* The inductive invariant: what is known of the references in each stage, *)
(* and that those which are created have their ends.                       *)
LinkIInv ==
  /\ Early => linked = {}
  /\ BeforeEncoding => reordered = <<>>
  /\ phase = "sanitize" => RefsLinked
  /\ phase \in {"encode", "print"} => RefsWhole
  /\ phase = "encode" => ReorderedForm
  /\ phase = "print" => DOMAIN node = ToSet(order) /\ OpenRefsForm /\ TypesFirst
  /\ LinkedForm
  /\ ReferencesHaveEnds

(* sanitize leaves references between nodes.                               *)
LEMMA SanitizedRefs ==
  ASSUME GraphForm, RefsLinked, Sanitize
  PROVE  RefsWhole'
<1> DEFINE Kept(n) == SelectThose(node[n].refs, LAMBDA r : r.type # None /\ r.target # None)
<1>1. node' = [n \in DOMAIN node |-> [node[n] EXCEPT !.refs = Kept(n)]]
  BY Zenon DEF Sanitize
<1>2. ASSUME NEW n \in DOMAIN node
      PROVE  /\ IsASequence(Kept(n))
             /\ ToSet(Kept(n)) = {r \in ToSet(Refs(n)) : r.type # None /\ r.target # None}
  <2> DEFINE refs == node[n].refs
             P == {k \in DOMAIN refs : refs[k].type # None /\ refs[k].target # None}
  <2>1. IsASequence(refs)
    BY DEF GraphForm, ElementForm
  <2>2. Kept(n) = SelectAt(refs, P)
    BY Zenon DEF SelectThose
  <2> HIDE DEF P, Kept
  <2>3. IsASequence(Kept(n)) /\ ToSet(Kept(n)) = {refs[k] : k \in DOMAIN refs \cap P}
    BY <2>1, <2>2, SelectAtLookup
  <2> QED
    BY <2>3 DEF ToSet, P, Refs
<1> HIDE DEF Kept
<1>3. DOMAIN node' = DOMAIN node /\ \A n \in DOMAIN node : Refs(n)' = Kept(n)
  <2>1. \A n \in DOMAIN node : [node[n] EXCEPT !.refs = Kept(n)].refs = Kept(n)
    BY <1>2, NewReferences DEF GraphForm
  <2> QED
    BY <1>1, <2>1 DEF Refs
<1>4. None \notin DOMAIN node
  BY NoneAssumption DEF GraphForm
<1>5. ASSUME NEW n \in DOMAIN node, NEW r \in ToSet(Kept(n))
      PROVE  /\ r.source = n /\ {r.type, r.target} \subseteq DOMAIN node
             /\ ~r.forward => \E s \in ToSet(Kept(r.target)) : s.target = n
  <2>1. /\ r \in ToSet(Refs(n)) /\ r.type # None /\ r.target # None
    BY <1>2
  <2>2. /\ r.source = n /\ {r.type, r.target} \subseteq DOMAIN node
        /\ ~r.forward => \E s \in ToSet(Refs(r.target)) : s.target = n /\ s.type = r.type
    BY <2>1 DEF RefsLinked
  <2>3. ASSUME NEW s \in ToSet(Refs(r.target)), s.target = n, s.type = r.type
        PROVE  s \in ToSet(Kept(r.target))
    BY <1>2, <1>4, <2>1, <2>2, <2>3
  <2> QED
    BY <2>2, <2>3
<1>6. RefsWhole' <=>
        \A n \in DOMAIN node' :
          /\ IsASequence(Refs(n)')
          /\ \A r \in ToSet(Refs(n)') :
               /\ r.source = n /\ {r.type, r.target} \subseteq DOMAIN node'
               /\ ~r.forward => \E s \in ToSet(Refs(r.target)') : s.target = n
  BY DEF RefsWhole, Refs, ToSet, IsASequence
<1> QED
  BY <1>2, <1>3, <1>5, <1>6

(* What is selected from a sequence is of it.                              *)
LEMMA SelectAtSubset ==
  ASSUME NEW s, IsASequence(s), NEW positions
  PROVE  /\ IsASequence(SelectAt(s, positions))
         /\ ToSet(SelectAt(s, positions)) \subseteq ToSet(s)
BY SelectAtLookup DEF ToSet

(* The references of some nodes.                                           *)
LEMMA AllRefsContent ==
  ASSUME RefsWhole, NEW ids, IsASequence(ids), ToSet(ids) \subseteq DOMAIN node
  PROVE  /\ IsASequence(AllRefs(ids))
         /\ ToSet(AllRefs(ids)) = UNION {ToSet(Refs(n)) : n \in ToSet(ids)}
<1> DEFINE ss == [k \in DOMAIN ids |-> Refs(ids[k])]
<1>1. IsASequence(ss) /\ DOMAIN ss = DOMAIN ids
  BY MappedSequence
<1>2. \A k \in DOMAIN ss : IsASequence(ss[k])
  BY DEF RefsWhole, ToSet
<1>3. {ToSet(ss[k]) : k \in DOMAIN ss} = {ToSet(Refs(n)) : n \in ToSet(ids)}
  BY DEF ToSet
<1>4. AllRefs(ids) = FlattenSeq(ss)
  BY Zenon DEF AllRefs
<1> HIDE DEF ss
<1> QED
  BY <1>1, <1>2, <1>3, <1>4, FlattenIsASequence, FlattenContent

(* The reference types of namespace 0 among some references.               *)
LEMMA TypesUsedContent ==
  ASSUME NEW refs, IsASequence(refs)
  PROVE  /\ IsASequence(TypesUsed(refs))
         /\ ToSet(TypesUsed(refs)) = {t \in {r.type : r \in ToSet(refs)} : Ns(t) = 0}
<1> DEFINE all == Distinct(TypesOf(refs))
           P == {k \in DOMAIN all : Ns(all[k]) = 0}
<1>1. IsASequence(TypesOf(refs)) /\ ToSet(TypesOf(refs)) = {r.type : r \in ToSet(refs)}
  <2>1. IsASequence(TypesOf(refs))
    BY MappedSequence DEF TypesOf
  <2> QED
    BY <2>1 DEF TypesOf, ToSet
<1>2. IsASequence(all) /\ ToSet(all) = {r.type : r \in ToSet(refs)}
  BY <1>1, DistinctContent
<1>3. TypesUsed(refs) = SelectAt(all, P)
  BY Zenon DEF TypesUsed, SelectThose
<1> HIDE DEF all, P
<1>4. /\ IsASequence(TypesUsed(refs))
      /\ ToSet(TypesUsed(refs)) = {all[k] : k \in DOMAIN all \cap P}
  BY <1>2, <1>3, SelectAtLookup
<1> QED
  BY <1>2, <1>4 DEF ToSet, P

(* The node a node is created below and the reference by which it is.      *)
LEMMA ParentForm ==
  ASSUME RefsWhole, NEW n \in DOMAIN node, FirstParent(n) # None
  PROVE  /\ FirstParent(n) \in DOMAIN node
         /\ ParentRef(n) \in ToSet(Refs(FirstParent(n))) /\ ParentRef(n).target = n
<1> DEFINE up == SelectThose(Refs(n), LAMBDA r : ~r.forward)
           p == FirstParent(n)
           back == SelectThose(Refs(p), LAMBDA r : r.target = n)
<1>1. IsASequence(up) /\ ToSet(up) = {r \in ToSet(Refs(n)) : ~r.forward}
  <2> DEFINE P == {k \in DOMAIN Refs(n) : ~Refs(n)[k].forward}
  <2>1. up = SelectAt(Refs(n), P)
    BY Zenon DEF SelectThose
  <2> HIDE DEF up, P
  <2>2. IsASequence(up) /\ ToSet(up) = {Refs(n)[k] : k \in DOMAIN Refs(n) \cap P}
    BY <2>1, SelectAtLookup DEF RefsWhole
  <2> QED
    BY <2>2 DEF ToSet, P
<1>2. up # <<>> /\ p = Head(up).target
  BY Zenon DEF FirstParent
<1> HIDE DEF up, p
<1>3. Head(up) \in ToSet(up)
  <2>1. DOMAIN up = 1..Len(up) /\ Len(up) \in Nat /\ Head(up) = up[1]
    BY <1>1, <1>2 DEF IsASequence
  <2>2. Len(up) # 0
    BY <1>1, <1>2 DEF IsASequence
  <2> QED
    BY <2>1, <2>2 DEF ToSet
<1>4. p \in DOMAIN node /\ \E s \in ToSet(Refs(p)) : s.target = n
  BY <1>1, <1>2, <1>3 DEF RefsWhole
<1>5. IsASequence(back) /\ ToSet(back) = {r \in ToSet(Refs(p)) : r.target = n}
  <2> DEFINE P == {k \in DOMAIN Refs(p) : Refs(p)[k].target = n}
  <2>1. back = SelectAt(Refs(p), P)
    BY Zenon DEF SelectThose
  <2> HIDE DEF back, P
  <2>2. IsASequence(back) /\ ToSet(back) = {Refs(p)[k] : k \in DOMAIN Refs(p) \cap P}
    BY <1>4, <2>1, SelectAtLookup DEF RefsWhole
  <2> QED
    BY <2>2 DEF ToSet, P
<1>6. ParentRef(n) = Head(back)
  BY Zenon DEF ParentRef, p
<1> HIDE DEF back
<1>7. Head(back) \in ToSet(back)
  <2>1. back # <<>>
    BY <1>4, <1>5 DEF ToSet
  <2>2. DOMAIN back = 1..Len(back) /\ Len(back) \in Nat /\ Head(back) = back[1]
    BY <1>5, <2>1 DEF IsASequence
  <2>3. Len(back) # 0
    BY <1>5, <2>1 DEF IsASequence
  <2> QED
    BY <2>2, <2>3 DEF ToSet
<1> QED
  BY <1>4, <1>5, <1>6, <1>7 DEF p

(* Once all nodes are reordered the new order has the nodes of the old.    *)
LEMMA ReorderedAll ==
  ASSUME GraphForm, ReorderedForm, Len(reordered) = Len(order)
  PROVE  ToSet(reordered) = DOMAIN node
<1> DEFINE N == Len(order)
           T == ToSet(order)
<1>1. IsFiniteSet(T) /\ Cardinality(T) \in Nat /\ Cardinality(T) <= N
  <2>1. PICK S : order \in Seq(S)
    BY DEF GraphForm, IsASequence
  <2>2. T = Range(order)
    BY DEF Range, ToSet
  <2> QED
    BY <2>1, <2>2, RangeIsFinite
<1>2. DOMAIN reordered = 1..N /\ N \in Nat /\ reordered = [k \in 1..N |-> reordered[k]]
  BY SequenceDomain DEF ReorderedForm
<1>3. reordered \in Injection(1..N, T)
  <2>1. reordered \in [1..N -> T]
    BY <1>2 DEF ReorderedForm, ToSet
  <2> QED
    BY <1>2, <2>1 DEF ReorderedForm, Injection, IsInjective
<1>4. Cardinality(1..N) = N
  <2>1. Cardinality(1..N) = IF 1 > N THEN 0 ELSE N - 1 + 1
    BY <1>2, FS_Interval
  <2> QED
    BY <1>2, <2>1
<1> HIDE DEF N, T
<1>5. /\ Cardinality(1..N) <= Cardinality(T)
      /\ Cardinality(1..N) = Cardinality(T) <=> reordered \in Surjection(1..N, T)
  BY <1>1, <1>3, FS_Injection
<1>6. Cardinality(1..N) = Cardinality(T)
  BY <1>1, <1>2, <1>4, <1>5
<1>7. ToSet(reordered) = T
  BY <1>2, <1>5, <1>6 DEF Surjection, ToSet
<1> QED
  BY <1>7 DEF T, GraphForm

(* reorderNodesMinDependencies takes each node once.                       *)
LEMMA ReorderOnce ==
  ASSUME GraphForm, ReorderedForm, Reorder
  PROVE  ReorderedForm'
<1> DEFINE P == {k \in DOMAIN order : ~Contains(reordered, order[k])}
           rest == SelectAt(order, P)
<1>1. \E left \in {SelectThose(order, LAMBDA n : ~Contains(reordered, n))} :
        \E k \in DOMAIN left : reordered' = Append(reordered, left[k])
  BY Zenon DEF Reorder
<1>2. SelectThose(order, LAMBDA n : ~Contains(reordered, n)) = rest
  BY Zenon DEF SelectThose
<1>3. order' = order
  BY DEF Reorder, graphVars
<1> HIDE DEF rest, P
<1>4. PICK k \in DOMAIN rest : reordered' = Append(reordered, rest[k])
  BY <1>1, <1>2, Zenon
<1> DEFINE n == rest[k]
<1>5. n \in ToSet(order) /\ ~Contains(reordered, n)
  <2>1. ToSet(rest) = {order[i] : i \in DOMAIN order \cap P}
    BY SelectAtLookup DEF rest, GraphForm
  <2> QED
    BY <1>4, <2>1 DEF ToSet, P
<1> HIDE DEF n
<1>6. /\ IsASequence(reordered') /\ DOMAIN reordered = 1..Len(reordered)
      /\ Len(reordered) \in Nat /\ DOMAIN reordered' = 1..(Len(reordered) + 1)
      /\ \A i \in 1..Len(reordered) : reordered'[i] = reordered[i]
      /\ reordered'[Len(reordered) + 1] = n
  <2>1. reordered' = Append(reordered, n)
    BY <1>4 DEF n
  <2> QED
    BY <2>1, AppendIsASequence DEF ReorderedForm
<1>7. \A i \in 1..Len(reordered) : reordered[i] # n
  BY <1>5 DEF Contains
<1>8. ToSet(reordered') \subseteq ToSet(order')
  <2>1. ASSUME NEW i \in DOMAIN reordered' PROVE reordered'[i] \in ToSet(order)
    <3>1. CASE i = Len(reordered) + 1
      BY <1>5, <1>6, <3>1
    <3>2. CASE i \in 1..Len(reordered)
      <4>1. reordered[i] \in ToSet(reordered)
        BY <1>6, <3>2 DEF ToSet
      <4> QED
        BY <1>6, <3>2, <4>1 DEF ReorderedForm
    <3> QED
      BY <1>6, <2>1, <3>1, <3>2
  <2> QED
    BY <1>3, <2>1 DEF ToSet
<1>9. ASSUME NEW i \in DOMAIN reordered', NEW j \in DOMAIN reordered',
             reordered'[i] = reordered'[j]
      PROVE  i = j
  BY <1>6, <1>7, <1>9 DEF ReorderedForm
<1> QED
  BY <1>6, <1>8, <1>9 DEF ReorderedForm, IsASequence

(* The references printed with a node: its own, and open ones to it, the   *)
(* other end of which is not left to print.                                *)
LEMMA LinksOnlyTo ==
  ASSUME RefsWhole, OpenRefsForm, NEW n \in DOMAIN node, CreateAndLink(n)
  PROVE  /\ IsASequence(openRefs') /\ ToSet(openRefs') \subseteq ToSet(openRefs)
         /\ \/ UNCHANGED <<created, linked>>
            \/ /\ created' = Append(created, Creation(n))
               /\ \E new : /\ linked' = linked \cup {Emitted(r) : r \in new}
                          /\ \A r \in new :
                               \/ /\ r \in ToSet(Refs(n))
                                  /\ r.target \notin UnprintedBeside(n)
                               \/ /\ r \in ToSet(openRefs) /\ r.target = n
                                  /\ r.source \notin UnprintedBeside(n)
<1> DEFINE Step(refs, left, own, rest, others) ==
             IF \E r \in ToSet(own) : CountSame(own, r) > CountSame(refs, r)
             THEN Fail("remove") /\ UNCHANGED <<unprinted, openRefs, created, linked>>
             ELSE /\ created' = Append(created, Creation(n))
                  /\ linked' = linked \cup {Emitted(r) : r \in ToSet(own) \cup ToSet(others)}
                  /\ openRefs' = RemoveEach(rest, others)
                  /\ unprinted' = left \ {n}
                  /\ UNCHANGED <<phase, failed>>
<1>1. PICK left \in {UnprintedBeside(n)}, ups \in {CreatedWith(n)} :
        \E open \in {RemoveEach(openRefs, ups)} :
        \E refs \in {WithoutBacks(open, n, ups)} :
        \E own \in {SelectThose(Refs(n), LAMBDA r : r.target \notin left /\ HasSame(refs, r))} :
        \E rest \in {RemoveEach(refs, own)} :
        \E others \in {SelectThose(rest, LAMBDA r : r.target = n /\ r.source \notin left)} :
          Step(refs, left, own, rest, others)
  BY Zenon DEF CreateAndLink
<1> HIDE DEF Step
<1>2. PICK open \in {RemoveEach(openRefs, ups)} :
        \E refs \in {WithoutBacks(open, n, ups)} :
        \E own \in {SelectThose(Refs(n), LAMBDA r : r.target \notin left /\ HasSame(refs, r))} :
        \E rest \in {RemoveEach(refs, own)} :
        \E others \in {SelectThose(rest, LAMBDA r : r.target = n /\ r.source \notin left)} :
          Step(refs, left, own, rest, others)
  BY <1>1, Zenon
<1>3. PICK refs \in {WithoutBacks(open, n, ups)} :
        \E own \in {SelectThose(Refs(n), LAMBDA r : r.target \notin left /\ HasSame(refs, r))} :
        \E rest \in {RemoveEach(refs, own)} :
        \E others \in {SelectThose(rest, LAMBDA r : r.target = n /\ r.source \notin left)} :
          Step(refs, left, own, rest, others)
  BY <1>2, Zenon
<1>4. PICK own \in {SelectThose(Refs(n), LAMBDA r : r.target \notin left /\ HasSame(refs, r))} :
        \E rest \in {RemoveEach(refs, own)} :
        \E others \in {SelectThose(rest, LAMBDA r : r.target = n /\ r.source \notin left)} :
          Step(refs, left, own, rest, others)
  BY <1>3, Zenon
<1>5. PICK rest \in {RemoveEach(refs, own)} :
        \E others \in {SelectThose(rest, LAMBDA r : r.target = n /\ r.source \notin left)} :
          Step(refs, left, own, rest, others)
  BY <1>4, Zenon
<1>6. PICK others \in {SelectThose(rest, LAMBDA r : r.target = n /\ r.source \notin left)} :
          Step(refs, left, own, rest, others)
  BY <1>5, Zenon
<1>7. \/ UNCHANGED <<openRefs, created, linked>>
      \/ /\ created' = Append(created, Creation(n))
         /\ linked' = linked \cup {Emitted(r) : r \in ToSet(own) \cup ToSet(others)}
         /\ openRefs' = RemoveEach(rest, others)
  BY <1>6, Zenon DEF Step
<1>8. ASSUME NEW s, IsASequence(s), NEW gone
      PROVE  IsASequence(RemoveEach(s, gone)) /\ ToSet(RemoveEach(s, gone)) \subseteq ToSet(s)
  BY <1>8, SelectAtSubset, Zenon DEF RemoveEach
<1>9. IsASequence(refs) /\ ToSet(refs) \subseteq ToSet(openRefs)
  <2> DEFINE P == {k \in DOMAIN open : \A up \in ToSet(ups) : ~LeadsBack(open[k], n, up)}
  <2>1. refs = SelectAt(open, P)
    BY Zenon DEF WithoutBacks, SelectThose
  <2>2. IsASequence(open) /\ ToSet(open) \subseteq ToSet(openRefs)
    BY <1>8 DEF OpenRefsForm
  <2> HIDE DEF P
  <2> QED
    BY <2>1, <2>2, SelectAtSubset
<1>10. \A r \in ToSet(own) : r \in ToSet(Refs(n)) /\ r.target \notin left
  <2> DEFINE all == Refs(n)
             P == {k \in DOMAIN all : all[k].target \notin left /\ HasSame(refs, all[k])}
  <2>1. own = SelectAt(all, P)
    BY Zenon DEF SelectThose
  <2>2. IsASequence(all)
    BY DEF RefsWhole
  <2> HIDE DEF P, all
  <2>3. ToSet(own) = {all[k] : k \in DOMAIN all \cap P}
    BY <2>1, <2>2, SelectAtLookup
  <2> QED
    BY <2>3 DEF ToSet, P, all
<1>11. IsASequence(rest) /\ ToSet(rest) \subseteq ToSet(openRefs)
  BY <1>8, <1>9
<1>12. \A r \in ToSet(others) : r \in ToSet(openRefs) /\ r.target = n /\ r.source \notin left
  <2> DEFINE P == {k \in DOMAIN rest : rest[k].target = n /\ rest[k].source \notin left}
  <2>1. others = SelectAt(rest, P)
    BY Zenon DEF SelectThose
  <2> HIDE DEF P
  <2>2. ToSet(others) = {rest[k] : k \in DOMAIN rest \cap P}
    BY <1>11, <2>1, SelectAtLookup
  <2> QED
    BY <1>11, <2>2 DEF ToSet, P
<1>13. left = UnprintedBeside(n)
  OBVIOUS
<1>14. IsASequence(openRefs') /\ ToSet(openRefs') \subseteq ToSet(openRefs)
  <2>1. CASE openRefs' = RemoveEach(rest, others)
    BY <1>8, <1>11, <2>1
  <2>2. CASE openRefs' = openRefs
    BY <2>2 DEF OpenRefsForm
  <2> QED
    BY <1>7, <2>1, <2>2
<1> QED
  BY <1>7, <1>10, <1>12, <1>13, <1>14

(* While nodes are printed, every node is left to print, exists or is a    *)
(* method's argument.                                                      *)
LEMMA WhatIsPrinted ==
  ASSUME CompilerIInv, phase = "print", DOMAIN node = ToSet(order), NEW m \in DOMAIN node
  PROVE  /\ m \in input.ignore \cup CreatedNodes \cup Taken \cup unprinted
         /\ m \in input.ignore \cup CreatedNodes => Exists(m, Len(created))
<1>1. m \in MissingOrHere \cup unprinted
  BY DEF CompilerIInv, ToSet
<1>2. DOMAIN created = 1..Len(created)
  BY SequenceDomain DEF CompilerIInv
<1> QED
  BY <1>1, <1>2 DEF MissingOrHere, Exists, CreatedNodes

(* What a type needs to exist does not change with what is printed.        *)
LEMMA NeedsStay ==
  ASSUME UNCHANGED node
  PROVE  /\ TypesAreTypes' <=> TypesAreTypes
         /\ \A n, t : NeedsType(n, t)' <=> NeedsType(n, t)
<1>1. TypesAreTypes' <=> TypesAreTypes
  BY DEF TypesAreTypes, Refs, ToSet
<1> QED
  BY <1>1 DEF NeedsType

(* What is created after a step that creates nothing.                      *)
LEMMA CreatesNothing ==
  ASSUME ReferencesHaveEnds, LinkedForm, UNCHANGED <<input, node, created, linked>>
  PROVE  ReferencesHaveEnds' /\ LinkedForm' /\ CreatedNodes' = CreatedNodes
<1>1. Taken' = Taken
  BY DEF Taken, Arguments, Refs
<1>2. ReferencesHaveEnds'
  BY <1>1, NeedsStay DEF ReferencesHaveEnds, Exists
<1> QED
  BY <1>2 DEF LinkedForm, CreatedNodes

(* Printing a node: the ends of what is created exist.                     *)
LEMMA PrintNodeLinks ==
  ASSUME CompilerIInv, LinkIInv, phase = "print", NEW n \in DOMAIN node, PrintNode(n),
         UNCHANGED <<input, node, order>>,
         TypesAreTypes /\ types # <<>> => node[n].class = "ReferenceType"
  PROVE  ReferencesHaveEnds' /\ LinkedForm' /\ OpenRefsForm'
<1>1. /\ RefsWhole /\ OpenRefsForm /\ TypesFirst /\ LinkedForm /\ ReferencesHaveEnds
      /\ DOMAIN node = ToSet(order) /\ IsASequence(created)
  BY DEF LinkIInv, CompilerIInv
<1>2. Len(created) \in Nat /\ DOMAIN created = 1..Len(created)
  BY <1>1, SequenceDomain
<1>3. TypesAreTypes' <=> TypesAreTypes
  BY NeedsStay
<1> DEFINE Later(m, at) == m \in input.ignore \/ \E k \in 1..at : created'[k].node = m
<1>4. ReferencesHaveEnds' <=>
        /\ \A k \in DOMAIN created' : created'[k].parent # None =>
             /\ created'[k].parent \notin Taken' => Later(created'[k].parent, k - 1)
             /\ NeedsType(created'[k].node, created'[k].type) => Later(created'[k].type, k - 1)
        /\ \A r \in linked' :
             /\ {r.source, r.target} \cap Taken' = {} =>
                  Later(r.source, r.at) /\ Later(r.target, r.at)
             /\ NeedsType(r.source, r.type) => Later(r.type, r.at)
  BY <1>3 DEF ReferencesHaveEnds, Exists, NeedsType
<1>5. OpenRefsForm' <=>
        /\ IsASequence(openRefs')
        /\ \A r \in ToSet(openRefs') :
             r.source \in DOMAIN node \ input.ignore /\ r \in ToSet(Refs(r.source))
  BY DEF OpenRefsForm, IsASequence, ToSet, Refs
<1>6. CASE UNCHANGED <<openRefs, created, linked>>
  BY <1>1, <1>5, <1>6, CreatesNothing DEF OpenRefsForm
<1>7. CASE CreateAndLink(n)
  <2>0. PICK l : l = Len(created)
    OBVIOUS
  <2> DEFINE left == UnprintedBeside(n)
  <2>1. /\ IsASequence(openRefs') /\ ToSet(openRefs') \subseteq ToSet(openRefs)
        /\ \/ UNCHANGED <<created, linked>>
           \/ /\ created' = Append(created, Creation(n))
              /\ \E new : /\ linked' = linked \cup {Emitted(r) : r \in new}
                         /\ \A r \in new :
                              \/ r \in ToSet(Refs(n)) /\ r.target \notin left
                              \/ /\ r \in ToSet(openRefs) /\ r.target = n
                                 /\ r.source \notin left
    BY <1>1, <1>7, LinksOnlyTo
  <2>2. OpenRefsForm'
    BY <1>1, <1>5, <2>1 DEF OpenRefsForm
  <2>3. CASE UNCHANGED <<created, linked>>
    BY <1>1, <2>2, <2>3, CreatesNothing
  <2>4. CASE created' = Append(created, Creation(n))
    <3>1. PICK new : /\ linked' = linked \cup {Emitted(r) : r \in new}
                     /\ \A r \in new : \/ r \in ToSet(Refs(n)) /\ r.target \notin left
                                       \/ /\ r \in ToSet(openRefs) /\ r.target = n
                                          /\ r.source \notin left
      <4>1. created' # created
        <5>1. DOMAIN created' = 1..(Len(created) + 1)
          BY <1>1, <2>4, AppendIsASequence
        <5>2. Len(created) + 1 \in DOMAIN created' /\ Len(created) + 1 \notin DOMAIN created
          BY <1>2, <5>1
        <5> QED
          BY <5>2
      <4> QED
        BY <2>1, <4>1
    <3> HIDE DEF left
    <3>2. /\ IsASequence(created') /\ DOMAIN created = 1..l /\ l \in Nat
          /\ DOMAIN created' = 1..(l + 1)
          /\ \A k \in 1..l : created'[k] = created[k]
          /\ created'[l + 1] = Creation(n) /\ Creation(n).node = n
          /\ CreatedNodes' = CreatedNodes \cup {n}
          /\ Taken \subseteq Taken' /\ (HasParent(n) => Arguments(n) \subseteq Taken')
      BY <1>1, <2>0, <2>4, CreatesOneMore
    <3>3. ASSUME NEW m, NEW at \in Nat, at <= l, Exists(m, at) PROVE Later(m, at)
      BY <2>0, <3>2, <3>3 DEF Exists
    <3>4. ASSUME NEW m \in DOMAIN node, m \notin left
          PROVE  /\ m \in input.ignore \cup CreatedNodes \cup Taken'
                 /\ m \in input.ignore \cup CreatedNodes \cup Taken \cup Arguments(n)
      <4>1. m \in input.ignore \cup CreatedNodes \cup Taken \cup unprinted
        BY <1>1, WhatIsPrinted
      <4>2. m \in unprinted => HasParent(n) /\ m \in Arguments(n)
        BY <3>4 DEF left, UnprintedBeside
      <4> QED
        BY <3>2, <4>1, <4>2
    <3>5. ASSUME NEW m \in DOMAIN node, m \in input.ignore \cup CreatedNodes
          PROVE  Later(m, l)
      <4>1. Exists(m, l)
        BY <1>1, <2>0, <3>5, WhatIsPrinted
      <4> QED
        BY <3>2, <3>3, <4>1
    <3>6. Later(n, l + 1) /\ \A m : Later(m, l) => Later(m, l + 1)
      BY <2>0, <3>2
    <3>7. ASSUME NEW m \in DOMAIN node, NEW r \in ToSet(Refs(m)), NeedsType(m, r.type),
                 m \in input.ignore \/ m \in {n} \cup CreatedNodes \cup Taken \cup Arguments(n),
                 types = <<>> \/ m \notin input.ignore
          PROVE  Later(r.type, l)
      <4>1. r.type \in UsedTypes /\ TypesAreTypes /\ r.type \in DOMAIN node
        BY <1>1, <3>7 DEF UsedTypes, NeedsType, RefsWhole
      <4>2. CASE types = <<>>
        <5>1. ToSet(types) = {}
          BY <4>2 DEF ToSet
        <5>2. r.type \in input.ignore \cup CreatedNodes
          BY <1>1, <4>1, <5>1 DEF TypesFirst
        <5> QED
          BY <3>5, <4>1, <5>2
      <4>3. CASE types # <<>>
        <5>1. /\ \A c \in CreatedNodes : node[c].class = "ReferenceType"
              /\ node[n].class = "ReferenceType"
          BY <1>1, <4>1, <4>3 DEF TypesFirst
        <5>2. Taken = {} /\ Arguments(n) = {}
          <6>1. \A c \in CreatedNodes \cup {n} : Arguments(c) = {}
            BY <5>1 DEF Arguments
          <6> QED
            BY <6>1 DEF Taken, CreatedNodes
        <5>3. node[m].class = "ReferenceType"
          BY <3>7, <4>3, <5>1, <5>2
        <5> QED
          BY <3>7, <5>3 DEF NeedsType
      <4> QED
        BY <4>2, <4>3
    <3>8. ASSUME NEW k \in DOMAIN created', created'[k].parent # None
          PROVE  /\ created'[k].parent \notin Taken' => Later(created'[k].parent, k - 1)
                 /\ NeedsType(created'[k].node, created'[k].type) =>
                      Later(created'[k].type, k - 1)
      <4>1. CASE k \in 1..l
        <5>1. k - 1 \in Nat /\ k - 1 <= l /\ created'[k] = created[k] /\ k \in DOMAIN created
          BY <3>2, <4>1
        <5>2. /\ created[k].parent \notin Taken => Exists(created[k].parent, k - 1)
              /\ NeedsType(created[k].node, created[k].type) => Exists(created[k].type, k - 1)
          BY <1>1, <3>8, <5>1 DEF ReferencesHaveEnds
        <5> QED
          BY <3>2, <3>3, <5>1, <5>2
      <4>2. CASE k = l + 1
        <5> DEFINE p == FirstParent(n)
        <5>1. /\ HasParent(n) /\ p # None /\ p \notin unprinted
              /\ created'[k].parent = p /\ created'[k].node = n
              /\ created'[k].type = ParentRef(n).type /\ k - 1 = l
          BY <3>2, <3>8, <4>2 DEF Creation, CreatedBelow, Bootstrapped, HasParent
        <5>2. /\ p \in DOMAIN node /\ ParentRef(n) \in ToSet(Refs(p))
              /\ ParentRef(n).target = n
          BY <1>1, <5>1, ParentForm
        <5> HIDE DEF p
        <5>3. p \in input.ignore \cup CreatedNodes \cup Taken
          BY <1>1, <5>1, <5>2, WhatIsPrinted
        <5>4. p \notin Taken' => Later(p, l)
          BY <3>2, <3>5, <5>2, <5>3
        <5>5. NeedsType(n, ParentRef(n).type) => Later(ParentRef(n).type, l)
          <6>1. SUFFICES ASSUME NeedsType(n, ParentRef(n).type)
                         PROVE  Later(ParentRef(n).type, l)
            OBVIOUS
          <6>2. types = <<>>
            BY <6>1 DEF NeedsType
          <6>3. ParentRef(n).type \in UsedTypes /\ ParentRef(n).type \in DOMAIN node
            BY <1>1, <5>2, <6>1 DEF UsedTypes, NeedsType, RefsWhole
          <6>4. ToSet(types) = {} /\ TypesAreTypes
            BY <6>1, <6>2 DEF ToSet, NeedsType
          <6>5. ParentRef(n).type \in input.ignore \cup CreatedNodes
            BY <1>1, <6>3, <6>4 DEF TypesFirst
          <6> QED
            BY <3>5, <6>3, <6>5
        <5> QED
          BY <5>1, <5>4, <5>5
      <4> QED
        BY <3>2, <4>1, <4>2
    <3>9. ASSUME NEW r \in linked'
          PROVE  /\ r.at \in 1..(l + 1)
                 /\ {r.source, r.target} \cap Taken' = {} =>
                      Later(r.source, r.at) /\ Later(r.target, r.at)
                 /\ NeedsType(r.source, r.type) => Later(r.type, r.at)
      <4>1. CASE r \in linked
        <5>1. r.at \in 1..l
          BY <1>1, <2>0, <4>1 DEF LinkedForm
        <5>2. r.at \in 1..(l + 1) /\ r.at \in Nat /\ r.at <= l
          BY <3>2, <5>1
        <5>3. /\ {r.source, r.target} \cap Taken = {} =>
                   Exists(r.source, r.at) /\ Exists(r.target, r.at)
              /\ NeedsType(r.source, r.type) => Exists(r.type, r.at)
          BY <1>1, <4>1 DEF ReferencesHaveEnds
        <5> QED
          BY <3>2, <3>3, <5>2, <5>3
      <4>2. CASE r \notin linked
        <5>1. PICK s \in new : r = Emitted(s)
          BY <3>1, <4>2
        <5>2. /\ r.source = s.source /\ r.target = s.target /\ r.type = s.type
              /\ r.at = l + 1
          BY <2>0, <5>1 DEF Emitted
        <5>3. /\ s.source \in DOMAIN node /\ s \in ToSet(Refs(s.source))
              /\ s.target \in DOMAIN node
              /\ s.source # n => s.source \notin left /\ s.source \notin input.ignore
              /\ s.target # n => s.target \notin left
          BY <1>1, <3>1, <5>1 DEF RefsWhole, OpenRefsForm
        <5>4. ASSUME NEW m \in {s.source, s.target}, m \notin Taken'
              PROVE  Later(m, l + 1)
          <6>1. m \in DOMAIN node /\ (m # n => m \notin left)
            BY <5>3
          <6> QED
            BY <3>4, <3>5, <3>6, <5>4, <6>1
        <5>5. NeedsType(s.source, s.type) => Later(s.type, l + 1)
          <6>1. SUFFICES ASSUME NeedsType(s.source, s.type)
                         PROVE  Later(s.type, l)
            BY <3>6
          <6>2. \/ s.source \in input.ignore
                \/ s.source \in {n} \cup CreatedNodes \cup Taken \cup Arguments(n)
            BY <3>4, <5>3
          <6>3. types = <<>> \/ s.source \notin input.ignore
            <7>1. types # <<>> /\ s.source = n => node[s.source].class = "ReferenceType"
              BY <6>1 DEF NeedsType
            <7> QED
              BY <5>3, <6>1, <7>1 DEF NeedsType
          <6> QED
            BY <3>7, <5>3, <6>1, <6>2, <6>3
        <5>6. l + 1 \in 1..(l + 1)
          BY <3>2
        <5>7. {r.source, r.target} \cap Taken' = {} =>
                Later(r.source, l + 1) /\ Later(r.target, l + 1)
          BY <5>2, <5>4
        <5> HIDE DEF Later
        <5> QED
          BY <5>2, <5>5, <5>6, <5>7
      <4> QED
        BY <4>1, <4>2
    <3>10. ReferencesHaveEnds'
      BY <1>4, <3>8, <3>9
    <3>11. LinkedForm'
      <4>1. Len(created') = l + 1
        BY <2>4, <3>2, SequenceDomain
      <4> QED
        BY <3>9, <4>1 DEF LinkedForm
    <3> QED
      BY <2>2, <3>10, <3>11
  <2> QED
    BY <2>1, <2>3, <2>4
<1> QED
  BY <1>6, <1>7 DEF PrintNode

(* Before printing nothing is created.                                     *)
LEMMA EarlyLinks ==
  ASSUME CompilerIInv, LinkIInv, Early, UNCHANGED <<created, linked>>
  PROVE  ReferencesHaveEnds' /\ LinkedForm' /\ linked' = {}
<1>1. created' = <<>> /\ linked' = {}
  BY DEF CompilerIInv, LinkIInv
<1>2. DOMAIN created' = {}
  BY <1>1
<1> QED
  BY <1>1, <1>2 DEF ReferencesHaveEnds, LinkedForm

(* References between nodes remain so while the nodes stay.                *)
LEMMA RefsStay ==
  ASSUME UNCHANGED node
  PROVE  RefsWhole' <=> RefsWhole
BY DEF RefsWhole, Refs, IsASequence, ToSet

(* printOpen62541Header begins with the references of all nodes that are   *)
(* not ignored and the reference types in use.                             *)
LEMMA BeginPrintingLinks ==
  ASSUME CompilerIInv, EncodingIInv, LinkIInv, BeginPrinting
  PROVE  LinkIInv'
<1>1. /\ phase = "encode" /\ phase' = "print" /\ order' = reordered
      /\ Len(reordered) = Len(order) /\ UNCHANGED <<input, node, created, linked>>
      /\ openRefs' = AllRefs(SelectThose(reordered, LAMBDA n : n \notin input.ignore))
      /\ types' = TypesUsed(AllRefs(reordered))
  BY Zenon DEF BeginPrinting
<1>2. GraphForm /\ RefsWhole /\ ReorderedForm
  BY <1>1 DEF EncodingIInv, LinkIInv
<1>3. ToSet(reordered) = DOMAIN node
  BY <1>1, <1>2, ReorderedAll
<1>4. OpenRefsForm'
  <2> DEFINE P == {k \in DOMAIN reordered : reordered[k] \notin input.ignore}
             printed == SelectAt(reordered, P)
  <2>1. openRefs' = AllRefs(printed)
    BY <1>1, Zenon DEF SelectThose
  <2>2. IsASequence(printed) /\ ToSet(printed) = {reordered[k] : k \in DOMAIN reordered \cap P}
    BY <1>2, SelectAtLookup DEF ReorderedForm
  <2> HIDE DEF printed
  <2>3. ToSet(printed) = DOMAIN node \ input.ignore
    BY <1>3, <2>2 DEF ToSet
  <2>4. /\ IsASequence(AllRefs(printed))
        /\ ToSet(AllRefs(printed)) = UNION {ToSet(Refs(n)) : n \in DOMAIN node \ input.ignore}
    BY <1>2, <2>2, <2>3, AllRefsContent
  <2>5. OpenRefsForm' <=>
          /\ IsASequence(openRefs')
          /\ \A r \in ToSet(openRefs') :
               r.source \in DOMAIN node \ input.ignore /\ r \in ToSet(Refs(r.source))
    BY <1>1 DEF OpenRefsForm, IsASequence, ToSet, Refs
  <2> QED
    BY <1>2, <2>1, <2>4, <2>5 DEF RefsWhole
<1>5. UsedTypes' = UsedTypes
  BY <1>1 DEF UsedTypes, Refs, ToSet
<1>6. IsASequence(types') /\ ToSet(types') = UsedTypes
  <2>1. /\ IsASequence(AllRefs(reordered))
        /\ ToSet(AllRefs(reordered)) = UNION {ToSet(Refs(n)) : n \in DOMAIN node}
    BY <1>2, <1>3, AllRefsContent DEF ReorderedForm
  <2> QED
    BY <1>1, <2>1, TypesUsedContent DEF UsedTypes
<1>7. CreatedNodes' = {}
  BY <1>1 DEF CompilerIInv, Early, CreatedNodes
<1>8. TypesFirst'
  BY <1>5, <1>6, <1>7 DEF TypesFirst, IsASequence, ToSet
<1>9. ReferencesHaveEnds' /\ LinkedForm'
  BY <1>1, EarlyLinks DEF Early
<1>10. RefsWhole'
  BY <1>1, <1>2, RefsStay
<1>11. DOMAIN node' = ToSet(order)'
  BY <1>1, <1>3 DEF ToSet
<1> QED
  BY <1>1, <1>4, <1>8, <1>9, <1>10, <1>11 DEF LinkIInv, Early, BeforeEncoding

(* Printing creates the node, unless it fails or the node is not left to   *)
(* print.                                                                  *)
LEMMA PrintNodeCreates ==
  ASSUME CompilerIInv, NEW n, PrintNode(n), UNCHANGED node
  PROVE  /\ CreatedNodes \subseteq CreatedNodes' /\ CreatedNodes' \subseteq CreatedNodes \cup {n}
         /\ n \in unprinted => n \in CreatedNodes' \/ phase' = "failed"
<1>1. CASE UNCHANGED created /\ (n \in unprinted => phase' = "failed")
  BY <1>1 DEF CreatedNodes
<1>2. CASE created' = Append(created, Creation(n))
  BY <1>2, CreatesOneMore DEF CompilerIInv
<1> QED
  BY <1>1, <1>2, CreatesOnlyIt DEF PrintNode

(* Printing a reference type takes it off the types left to print.         *)
LEMMA ReferenceTypeLinks ==
  ASSUME CompilerIInv, LinkIInv, PrintReferenceType
  PROVE  LinkIInv'
<1> DEFINE t == Head(types)
<1>1. /\ phase = "print" /\ types # <<>> /\ PrintNode(t) /\ types' = Tail(types)
      /\ UNCHANGED <<input, node, order>>
  BY DEF PrintReferenceType, graphVars
<1>2. RefsWhole /\ TypesFirst /\ OpenRefsForm /\ DOMAIN node = ToSet(order)
  BY <1>1 DEF LinkIInv
<1>3. /\ IsASequence(Tail(types)) /\ t \in ToSet(types)
      /\ ToSet(types) = {t} \cup ToSet(Tail(types))
  <2>1. PICK S : types \in Seq(S)
    BY <1>2 DEF TypesFirst, IsASequence
  <2>2. /\ Tail(types) \in Seq(S) /\ Len(types) \in Nat \ {0} /\ DOMAIN types = 1..Len(types)
        /\ t = types[1] /\ Len(Tail(types)) = Len(types) - 1
        /\ DOMAIN Tail(types) = 1..(Len(types) - 1)
        /\ \A k \in 1..(Len(types) - 1) : Tail(types)[k] = types[k + 1]
    BY <1>1, <2>1
  <2> HIDE DEF t
  <2>3. t \in ToSet(types)
    BY <2>2 DEF ToSet
  <2>4. ASSUME NEW x \in ToSet(types), x # t PROVE x \in ToSet(Tail(types))
    <3>1. PICK k \in 1..Len(types) : x = types[k]
      BY <2>2 DEF ToSet
    <3>2. k # 1 /\ k - 1 \in 1..(Len(types) - 1)
      BY <2>2, <2>4, <3>1
    <3>3. Tail(types)[k - 1] = types[(k - 1) + 1] /\ (k - 1) + 1 = k
      BY <2>2, <3>2
    <3> QED
      BY <2>2, <3>1, <3>2, <3>3 DEF ToSet
  <2>5. ASSUME NEW k \in DOMAIN Tail(types) PROVE Tail(types)[k] \in ToSet(types)
    <3>1. k + 1 \in DOMAIN types /\ Tail(types)[k] = types[k + 1]
      BY <2>2
    <3> QED
      BY <3>1 DEF ToSet
  <2>6. ToSet(types) = {t} \cup ToSet(Tail(types))
    <3>1. ToSet(Tail(types)) \subseteq ToSet(types)
      BY <2>5 DEF ToSet
    <3> QED
      BY <2>3, <2>4, <3>1
  <2> QED
    BY <2>2, <2>3, <2>6 DEF IsASequence
<1> HIDE DEF t
<1>4. t \in UsedTypes /\ t \in DOMAIN node
      /\ (TypesAreTypes => node[t].class = "ReferenceType")
  BY <1>2, <1>3 DEF TypesFirst, UsedTypes, RefsWhole, TypesAreTypes
<1>5. ReferencesHaveEnds' /\ LinkedForm' /\ OpenRefsForm'
  BY <1>1, <1>4, PrintNodeLinks
<1>6. phase' \in {"print", "failed"}
  BY <1>1, PrintNodePhase
<1>7. phase' = "print" => TypesFirst'
  <2>1. SUFFICES ASSUME phase' = "print" PROVE TypesFirst'
    OBVIOUS
  <2>2. UsedTypes' = UsedTypes /\ (TypesAreTypes' <=> TypesAreTypes)
    BY <1>1, NeedsStay DEF UsedTypes, Refs, ToSet
  <2>3. /\ CreatedNodes \subseteq CreatedNodes' /\ CreatedNodes' \subseteq CreatedNodes \cup {t}
        /\ t \in unprinted => t \in CreatedNodes'
    BY <1>1, <2>1, PrintNodeCreates
  <2>4. ASSUME TypesAreTypes
        PROVE  /\ UsedTypes \subseteq ToSet(Tail(types)) \cup input.ignore \cup CreatedNodes'
               /\ \A n \in CreatedNodes' : node[n].class = "ReferenceType"
    <3>1. /\ UsedTypes \subseteq ToSet(types) \cup input.ignore \cup CreatedNodes
          /\ \A n \in CreatedNodes : node[n].class = "ReferenceType"
      BY <1>1, <1>2, <2>4 DEF TypesFirst
    <3>2. Taken = {}
      <4>1. \A n \in CreatedNodes : Arguments(n) = {}
        BY <3>1 DEF Arguments
      <4> QED
        BY <4>1 DEF Taken, CreatedNodes
    <3>3. t \in input.ignore \cup CreatedNodes \cup Taken \cup unprinted
      BY <1>1, <1>2, <1>4, WhatIsPrinted
    <3> QED
      BY <1>3, <1>4, <2>3, <2>4, <3>1, <3>2, <3>3
  <2>5. ToSet(Tail(types)) \subseteq UsedTypes
    BY <1>2, <1>3 DEF TypesFirst
  <2>6. TypesFirst' <=>
          /\ IsASequence(types') /\ ToSet(types') \subseteq UsedTypes'
          /\ TypesAreTypes' =>
               /\ UsedTypes' \subseteq ToSet(types') \cup input.ignore' \cup CreatedNodes'
               /\ types' # <<>> => \A n \in CreatedNodes' : node'[n].class = "ReferenceType"
    BY DEF TypesFirst, IsASequence, ToSet
  <2> QED
    BY <1>1, <1>3, <2>2, <2>4, <2>5, <2>6
<1>8. RefsWhole' /\ DOMAIN node' = ToSet(order)'
  BY <1>1, <1>2, RefsStay DEF ToSet
<1> QED
  BY <1>5, <1>6, <1>7, <1>8 DEF LinkIInv, Early, BeforeEncoding

(* The other nodes follow when no type is left.                            *)
LEMMA NextNodeLinks ==
  ASSUME CompilerIInv, LinkIInv, PrintNextNode
  PROVE  LinkIInv'
<1>1. /\ phase = "print" /\ types = <<>> /\ types' = types /\ cursor < Len(order)
      /\ PrintNode(order[cursor + 1]) /\ UNCHANGED <<input, node, order>>
  BY DEF PrintNextNode, graphVars
<1>2. RefsWhole /\ TypesFirst /\ OpenRefsForm /\ DOMAIN node = ToSet(order)
  BY <1>1 DEF LinkIInv
<1>3. PICK n \in DOMAIN node : PrintNode(n)
  <2>1. IsASequence(order) /\ cursor \in Nat
    BY <1>1 DEF CompilerIInv
  <2>2. cursor + 1 \in DOMAIN order
    BY <1>1, <2>1, SequenceDomain
  <2> QED
    BY <1>1, <1>2, <2>2 DEF ToSet
<1>4. ReferencesHaveEnds' /\ LinkedForm' /\ OpenRefsForm'
  BY <1>1, <1>3, PrintNodeLinks
<1>5. phase' \in {"print", "failed"}
  BY <1>1, <1>3, PrintNodePhase
<1>6. TypesFirst'
  <2>1. UsedTypes' = UsedTypes /\ (TypesAreTypes' <=> TypesAreTypes)
    BY <1>1, NeedsStay DEF UsedTypes, Refs, ToSet
  <2>2. CreatedNodes \subseteq CreatedNodes'
    BY <1>1, <1>3, PrintNodeCreates
  <2> QED
    BY <1>1, <1>2, <2>1, <2>2 DEF TypesFirst, IsASequence, ToSet
<1>7. RefsWhole' /\ DOMAIN node' = ToSet(order)'
  BY <1>1, <1>2, RefsStay DEF ToSet
<1> QED
  BY <1>4, <1>5, <1>6, <1>7 DEF LinkIInv, Early, BeforeEncoding

(* What is known of the references in each stage, in every reachable state.*)
THEOREM LinkInvariant == Spec => []LinkIInv
<1>1. Init => LinkIInv
  <2> SUFFICES ASSUME Init PROVE LinkIInv
    OBVIOUS
  <2>1. /\ phase = "preprocess" /\ reordered = <<>> /\ created = <<>> /\ linked = {}
    BY DEF Init, PreInit, PrintInit
  <2>2. DOMAIN created = {}
    BY <2>1
  <2> QED
    BY <2>1, <2>2 DEF LinkIInv, LinkedForm, ReferencesHaveEnds
<1>2. ASSUME CompilerIInv, EncodingIInv, LinkIInv, [Next]_vars PROVE LinkIInv'
  <2>1. CASE PreNext /\ UNCHANGED <<graphVars, encodingVars, reordered, printVars>>
    <3>1. /\ phase \in {"preprocess", "models"} /\ phase' \in {"models", "parse", "failed"}
          /\ UNCHANGED <<reordered, created, linked>>
      BY <2>1, PreStages DEF printVars
    <3>2. ReferencesHaveEnds' /\ LinkedForm' /\ linked' = {}
      BY <1>2, <3>1, EarlyLinks DEF Early
    <3> QED
      BY <1>2, <3>1, <3>2 DEF LinkIInv, BeforeEncoding
  <2>2. CASE GraphNext /\ UNCHANGED <<encodingVars, reordered, printVars>>
    <3>1. /\ phase \in {"parse", "link", "sanitize"}
          /\ phase' \in {"parse", "link", "sanitize", "encode"}
          /\ UNCHANGED <<reordered, created, linked>>
      BY <2>2, GraphStages DEF printVars
    <3>2. ReferencesHaveEnds' /\ LinkedForm' /\ linked' = {}
      BY <1>2, <3>1, EarlyLinks DEF Early
    <3>3. GraphForm /\ reordered' = <<>>
      BY <1>2, <3>1 DEF EncodingIInv, LinkIInv, BeforeEncoding
    <3>4. phase' = "sanitize" => RefsLinked'
      BY <2>2, <3>3, LinkedGraph
         DEF GraphNext, ParseDocument, RemoveBlacklisted, Sanitize
    <3>5. phase' = "encode" => RefsWhole'
      <4>1. phase' = "encode" => phase = "sanitize" /\ Sanitize
        BY <2>2 DEF GraphNext, ParseDocument, RemoveBlacklisted, LinkOpenPointers, Sanitize
      <4> QED
        BY <1>2, <3>3, <4>1, SanitizedRefs DEF LinkIInv
    <3>6. ReorderedForm'
      <4>1. <<>> \in Seq({}) /\ DOMAIN reordered' = {}
        BY <3>3
      <4> QED
        BY <3>3, <4>1 DEF ReorderedForm, IsASequence, ToSet
    <3> QED
      BY <3>1, <3>2, <3>3, <3>4, <3>5, <3>6 DEF LinkIInv
  <2>3. CASE EncodingNext /\ UNCHANGED <<reordered, printVars>>
    <3>1. /\ phase = "encode" /\ phase' \in {"encode", "failed"}
          /\ UNCHANGED <<node, order, reordered, created, linked>>
      BY <2>3, EncodingStages DEF EncodingNext, graphVars, printVars
    <3>2. ReferencesHaveEnds' /\ LinkedForm' /\ linked' = {}
      BY <1>2, <3>1, EarlyLinks DEF Early
    <3>3. RefsWhole' /\ ReorderedForm'
      BY <1>2, <3>1, RefsStay DEF LinkIInv, ReorderedForm, IsASequence, ToSet
    <3> QED
      BY <3>1, <3>2, <3>3 DEF LinkIInv, BeforeEncoding
  <2>4. CASE Reorder
    <3>1. /\ phase = "encode" /\ phase' = "encode"
          /\ UNCHANGED <<node, order, created, linked>>
      BY <2>4 DEF Reorder, preVars, graphVars, printVars
    <3>2. ReferencesHaveEnds' /\ LinkedForm' /\ linked' = {}
      BY <1>2, <3>1, EarlyLinks DEF Early
    <3>3. RefsWhole' /\ ReorderedForm'
      BY <1>2, <2>4, <3>1, RefsStay, ReorderOnce DEF LinkIInv, EncodingIInv
    <3> QED
      BY <3>1, <3>2, <3>3 DEF LinkIInv, BeforeEncoding
  <2>5. CASE RaiseInSubTypes
    <3>1. phase = "encode" /\ phase' = "failed" /\ UNCHANGED <<created, linked>>
      BY <2>5 DEF RaiseInSubTypes, Fail, printVars
    <3> QED
      BY <1>2, <3>1, EarlyLinks DEF LinkIInv, Early, BeforeEncoding
  <2>6. CASE Finish
    <3>1. phase = "print" /\ phase' = "done" /\ UNCHANGED <<input, node, created, linked>>
      BY <2>6 DEF Finish, graphVars, printVars
    <3> QED
      BY <1>2, <3>1, CreatesNothing DEF LinkIInv, Early, BeforeEncoding
  <2>7. CASE UNCHANGED vars
    <3>1. UNCHANGED <<input, phase, order, node, reordered, types, openRefs, created, linked>>
      BY <2>7 DEF vars, preVars, graphVars, printVars
    <3>2. ReferencesHaveEnds' /\ LinkedForm' /\ CreatedNodes' = CreatedNodes
      BY <1>2, <3>1, CreatesNothing DEF LinkIInv
    <3>3. /\ UsedTypes' = UsedTypes /\ (TypesAreTypes' <=> TypesAreTypes)
          /\ RefsWhole' <=> RefsWhole
      BY <3>1, NeedsStay, RefsStay DEF UsedTypes, Refs, ToSet
    <3>4. RefsLinked' <=> RefsLinked
      BY <3>1 DEF RefsLinked, Refs, ToSet
    <3>5. OpenRefsForm' <=> OpenRefsForm
      BY <3>1 DEF OpenRefsForm, Refs, ToSet, IsASequence
    <3>6. (ReorderedForm' <=> ReorderedForm) /\ (TypesFirst' <=> TypesFirst)
      BY <3>1, <3>2, <3>3 DEF ReorderedForm, TypesFirst, IsASequence, ToSet
    <3> QED
      BY <1>2, <3>1, <3>2, <3>3, <3>4, <3>5, <3>6 DEF LinkIInv, Early, BeforeEncoding, ToSet
  <2> QED
    BY <1>2, <2>1, <2>2, <2>3, <2>4, <2>5, <2>6, <2>7, BeginPrintingLinks,
       ReferenceTypeLinks, NextNodeLinks DEF Next
<1> QED
  BY <1>1, <1>2, CompilerInvariant, EncodingInvariant, PTL DEF Spec

(* Whatever documents, blacklist and ignore list the compiler is given:    *)
(* parents and the ends of references exist by the time the generated code *)
(* uses them, and so do the types of namespace 0 if all of these are       *)
(* reference types.                                                        *)
THEOREM ReferencesAlwaysHaveEnds == Spec => []ReferencesHaveEnds
<1>1. LinkIInv => ReferencesHaveEnds
  BY DEF LinkIInv
<1> QED
  BY <1>1, LinkInvariant, PTL
=============================================================================
