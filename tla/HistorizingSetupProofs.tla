----------------------- MODULE HistorizingSetupProofs -----------------------
(***************************************************************************)
(* HistorizedIsPolled and FirstSettingIsUsed hold for every mapping file,  *)
(* every tree of folders and every set of variables.  The two vectors are  *)
(* followed through the passes: while they are collected every node that   *)
(* is reached is mentioned, and its first mention has its first setting;   *)
(* erasing a later mention changes neither; when the passes are over each  *)
(* node is there once, and it is gone only if its setup is not defined.    *)
(***************************************************************************)
EXTENDS HistorizingSetup, SequenceLemmas

(* The children of a folder, given the variables below its subfolders.     *)
Step(h, f) ==
  FlattenSeq([k \in DOMAIN Contents[f] |->
    LET child == Contents[f][k]
    IN  (IF child \in Folders THEN h[child] ELSE <<>>)
        \o (IF IsVariable(child) THEN <<child>> ELSE <<>>)])

(* What is below a folder is a sequence of variables if what is below its  *)
(* subfolders is one.                                                      *)
LEMMA StepType ==
  ASSUME NEW h \in [Folders -> Seq(Nodes)], NEW f \in Folders
  PROVE  Step(h, f) \in Seq(Nodes)
<1> DEFINE part(k) == LET child == Contents[f][k]
                      IN  (IF child \in Folders THEN h[child] ELSE <<>>)
                          \o (IF IsVariable(child) THEN <<child>> ELSE <<>>)
           parts == [k \in DOMAIN Contents[f] |-> part(k)]
<1>1. Contents[f] \in Seq(Nodes \cup Folders)
  BY HistorizingAssumption
<1>2. ASSUME NEW k \in DOMAIN Contents[f] PROVE part(k) \in Seq(Nodes)
  <2> DEFINE child == Contents[f][k]
             a == IF child \in Folders THEN h[child] ELSE <<>>
             b == IF IsVariable(child) THEN <<child>> ELSE <<>>
  <2>1. a \in Seq(Nodes)
    OBVIOUS
  <2>2. b \in Seq(Nodes)
    BY DEF IsVariable
  <2> HIDE DEF a, b
  <2>3. a \o b \in Seq(Nodes)
    BY <2>1, <2>2
  <2> QED
    BY <2>3 DEF a, b
<1> HIDE DEF part
<1>3. parts \in Seq(Seq(Nodes))
  <2>1. DOMAIN Contents[f] = 1..Len(Contents[f]) /\ Len(Contents[f]) \in Nat
    BY <1>1
  <2> QED
    BY <1>2, <2>1
<1> HIDE DEF parts
<1>4. FlattenSeq(parts) \in Seq(Nodes)
  BY <1>3, FlattenType
<1> QED
  BY <1>4 DEF Step, parts, part

(* It depends on what is below the subfolders and on nothing else.         *)
LEMMA StepLocal ==
  ASSUME NEW g, NEW h, NEW f \in Folders,
         \A k \in DOMAIN Contents[f] :
           Contents[f][k] \in Folders => g[Contents[f][k]] = h[Contents[f][k]]
  PROVE  Step(g, f) = Step(h, f)
<1> DEFINE part(w, k) == LET child == Contents[f][k]
                      IN  (IF child \in Folders THEN w[child] ELSE <<>>)
                          \o (IF IsVariable(child) THEN <<child>> ELSE <<>>)
<1>1. \A k \in DOMAIN Contents[f] : part(g, k) = part(h, k)
  OBVIOUS
<1> HIDE DEF part
<1>2. [k \in DOMAIN Contents[f] |-> part(g, k)]
        = [k \in DOMAIN Contents[f] |-> part(h, k)]
  BY <1>1
<1> QED
  BY <1>2 DEF Step, part

(* The walk get_child_variables ends for every folder and gives variables: *)
(* the recursive function is defined since folders nest.  The walk taken n *)
(* times no longer changes for the folders of a level below n; and it is   *)
(* the function, which is therefore the only one.                          *)
LEMMA BelowIsSequence == Below \in [Folders -> Seq(Nodes)]
<1> DEFINE T == [Folders -> Seq(Nodes)]
           all(h) == [f \in Folders |-> Step(h, f)]
           step == [n \in Nat |-> [h \in T |-> all(h)]]
           n == Cardinality(Folders) + 1
<1>1. PICK level \in [Folders -> 0..Cardinality(Folders)] :
        \A f \in Folders : \A k \in DOMAIN Contents[f] :
          Contents[f][k] \in Folders => level[Contents[f][k]] < level[f]
  BY FoldersNest
<1>2. n \in Nat /\ \A f \in Folders : level[f] \in Nat /\ level[f] < n
  <2>1. Cardinality(Folders) \in Nat
    BY FoldersNest, FS_CardinalityType
  <2> QED
    BY <1>1, <2>1
<1> HIDE DEF n
<1>3. PICK g \in [Nat -> T] : \A k \in Nat \ {0} : g[k] = all(g[k - 1])
  <2> DEFINE base == [f \in Folders |-> <<>>]
  <2>1. base \in T
    OBVIOUS
  <2>2. step \in [Nat -> [T -> T]]
    BY StepType
  <2> HIDE DEF base, T, step
  <2>3. Recursion(T, base, step) # {}
    BY <2>1, <2>2, RecursionExists
  <2>4. PICK g \in [Nat -> T] : \A k \in Nat \ {0} : g[k] = step[k][g[k - 1]]
    BY <2>3 DEF Recursion
  <2>5. ASSUME NEW k \in Nat \ {0} PROVE g[k] = all(g[k - 1])
    <3>1. g[k - 1] \in T /\ k \in Nat
      OBVIOUS
    <3> QED
      BY <2>4, <3>1 DEF step
  <2> QED
    BY <2>5
<1> DEFINE Stable == {k \in Nat : \A f \in Folders :
                        level[f] < k => g[k + 1][f] = g[k][f]}
<1>4. 0 \in Stable
  BY <1>2
<1>5. ASSUME NEW k \in Nat, k \in Stable PROVE k + 1 \in Stable
  <2> SUFFICES ASSUME NEW f \in Folders, level[f] < k + 1
               PROVE  g[(k + 1) + 1][f] = g[k + 1][f]
    OBVIOUS
  <2>1. g[(k + 1) + 1] = all(g[k + 1]) /\ g[k + 1] = all(g[k])
    <3>1. g[(k + 1) + 1] = all(g[((k + 1) + 1) - 1])
      BY <1>3
    <3>2. g[k + 1] = all(g[(k + 1) - 1])
      BY <1>3
    <3>3. (k + 1) - 1 = k /\ ((k + 1) + 1) - 1 = k + 1
      OBVIOUS
    <3> QED
      BY <3>1, <3>2, <3>3
  <2>2. \A c \in Folders : level[c] < level[f] => g[k + 1][c] = g[k][c]
    BY <1>2, <1>5
  <2>3. Step(g[k + 1], f) = Step(g[k], f)
    BY <1>1, <2>2, StepLocal
  <2> QED
    BY <2>1, <2>3
<1> HIDE DEF Stable
<1>6. n \in Stable
  BY <1>2, <1>4, <1>5, Induction
<1> DEFINE h == g[n]
<1>7. h \in T /\ h = all(h)
  <2>1. g[n + 1] = all(g[n])
    <3>1. g[n + 1] = all(g[(n + 1) - 1]) /\ (n + 1) - 1 = n
      BY <1>2, <1>3
    <3> QED
      BY <3>1
  <2>2. \A f \in Folders : g[n + 1][f] = g[n][f]
    BY <1>2, <1>6 DEF Stable
  <2>3. g[n] \in T /\ g[n + 1] \in T
    BY <1>2
  <2>4. g[n + 1] = g[n]
    BY <2>2, <2>3
  <2> QED
    BY <2>1, <2>3, <2>4
<1> HIDE DEF h
<1>8. Below = all(Below)
  <2> DEFINE Fits(w) == w = all(w)
  <2>1. Fits(CHOOSE w : Fits(w))
    BY <1>7
  <2>2. Below = CHOOSE w : Fits(w)
    BY DEF Below, Step
  <2> QED
    BY <2>1, <2>2
<1> DEFINE Same == {k \in Nat : \A f \in Folders :
                      level[f] < k => Below[f] = h[f]}
<1>9. 0 \in Same
  BY <1>2
<1>10. ASSUME NEW k \in Nat, k \in Same PROVE k + 1 \in Same
  <2> SUFFICES ASSUME NEW f \in Folders, level[f] < k + 1
               PROVE  Below[f] = h[f]
    OBVIOUS
  <2>1. \A c \in Folders : level[c] < level[f] => Below[c] = h[c]
    BY <1>2, <1>10
  <2>2. Step(Below, f) = Step(h, f)
    BY <1>1, <2>1, StepLocal
  <2> QED
    BY <1>7, <1>8, <2>2
<1> HIDE DEF Same
<1>11. n \in Same
  BY <1>2, <1>9, <1>10, Induction
<1>12. \A f \in Folders : Below[f] = h[f]
  BY <1>2, <1>11 DEF Same
<1> QED
  BY <1>7, <1>8, <1>12

-----------------------------------------------------------------------------
(* What a node's first setting is, and how the vectors stand to it.        *)
FirstSetting(e, node) ==
  /\ e \in DOMAIN Stated /\ Reaches(Stated[e], node)
  /\ \A d \in 1..(e - 1) : ~Reaches(Stated[d], node)

FirstMention(k) == \A j \in 1..(k - 1) :
                     historizing_nodes[j] # historizing_nodes[k]

(* Every node that one of the first m settings reaches is mentioned.       *)
AllMentioned(m) ==
  \A e \in 1..m : \A node \in Nodes :
    Reaches(Stated[e], node) =>
      \E k \in 1..Len(historizing_nodes) : historizing_nodes[k] = node

(* The first mention of a node has its first setting.                      *)
FirstMentionsPreferred(m) ==
  \A k \in 1..Len(historizing_nodes) :
    FirstMention(k) =>
      \E e \in 1..m : /\ FirstSetting(e, historizing_nodes[k])
                      /\ historizing_setup[k] = Stated[e].setup

(* The settings that are missing from the vectors name nothing defined.    *)
MissingUndefined ==
  \A e \in DOMAIN Stated : \A node \in Nodes :
    FirstSetting(e, node) =>
      \/ \E k \in 1..Len(historizing_nodes) : historizing_nodes[k] = node
      \/ ~IsDefined(Stated[e].setup)

(* The first n nodes are mentioned once.                                   *)
OnceUpTo(n) ==
  \A a, b \in 1..Len(historizing_nodes) :
    a <= n /\ a < b => historizing_nodes[a] # historizing_nodes[b]

(* The setups accepted are the first complete ones of the first m.         *)
IsDefinition(j) ==
  /\ ~IsIncomplete(setupList[j])
  /\ \A d \in 1..(j - 1) :
       setupList[d].name = setupList[j].name => IsIncomplete(setupList[d])

Accepted(m) ==
  /\ \A k \in 1..Len(history) : \E j \in 1..m :
       history[k] = setupList[j] /\ IsDefinition(j)
  /\ \A j \in 1..m : ~IsIncomplete(setupList[j]) => IsDefined(setupList[j].name)
  /\ \A a, b \in 1..Len(history) : history[a].name = history[b].name => a = b

NothingRegistered ==
  historizing = {} /\ gathering = <<>> /\ polled = {}

RegisteredUpTo(n) ==
  /\ Len(gathering) = n
  /\ \A k \in 1..n : gathering[k] = [node |-> historizing_nodes[k],
                                     setup |-> SetupOf(historizing_setup[k])]
  /\ historizing = {historizing_nodes[k] : k \in 1..n} /\ polled = historizing

Phases == {"readConfig", "collect", "check", "remove", "register", "running"}

TypeOK ==
  /\ setupList \in Seq(Setup)
  /\ historyvariables \in Seq([id : Nodes, setup : STRING])
  /\ historyfolders \in Seq([id : Folders, setup : STRING])
  /\ mappingExceptions \in BOOLEAN /\ influxLoads \in BOOLEAN
  /\ history \in Seq(Setup) /\ influxClient \in BOOLEAN
  /\ phase \in Phases \cup {"aborted", "cleared"}
  /\ i \in Nat \ {0} /\ repeat \in BOOLEAN
  /\ historizing_nodes \in Seq(Nodes)
  /\ historizing \in SUBSET Nodes /\ polled \in SUBSET Nodes
  /\ phase # "cleared" => gathering \in Seq([node : Nodes, setup : Setup])
  /\ leaked \in Nat

(* The vectors are parallel as long as they are used.                      *)
VectorsParallel ==
  /\ historizing_setup \in Seq(STRING)
  /\ phase # "cleared" => Len(historizing_setup) = Len(historizing_nodes)

Reading ==
  /\ phase = "readConfig" =>
       /\ i <= Len(setupList) + 1 /\ Accepted(i - 1)
       /\ historizing_nodes = <<>>
  /\ phase \in Phases \ {"readConfig"} => Accepted(Len(setupList))
  /\ phase \in Phases \ {"register", "running"} => NothingRegistered

Collecting ==
  phase = "collect" => /\ i <= Len(Stated) + 1
                       /\ AllMentioned(i - 1) /\ FirstMentionsPreferred(i - 1)

Checking ==
  phase = "check" =>
    /\ AllMentioned(Len(Stated)) /\ FirstMentionsPreferred(Len(Stated))
    /\ ~repeat => OnceUpTo(i - 1)

Removing ==
  phase \in {"remove", "register", "running"} =>
    /\ OnceUpTo(Len(historizing_nodes))
    /\ FirstMentionsPreferred(Len(Stated)) /\ MissingUndefined
    /\ \A k \in 1..Len(historizing_nodes) :
         k < i \/ phase # "remove" => IsDefined(historizing_setup[k])

Registering ==
  /\ phase \in {"register", "running"} =>
       i <= Len(historizing_nodes) + 1 /\ RegisteredUpTo(i - 1)
  /\ phase = "running" => i = Len(historizing_nodes) + 1
  /\ leaked = 0

IInv == /\ TypeOK /\ VectorsParallel /\ Reading /\ Collecting
        /\ Checking /\ Removing /\ Registering

-----------------------------------------------------------------------------
(* The settings are one list of entries.                                   *)
LEMMA StatedType ==
  ASSUME TypeOK
  PROVE  /\ Stated \in Seq([id : Nodes \cup Folders, setup : STRING])
         /\ DOMAIN Stated = 1..Len(Stated) /\ Len(Stated) \in Nat
<1> DEFINE E == [id : Nodes \cup Folders, setup : STRING]
<1>1. [id : Nodes, setup : STRING] \subseteq E
      /\ [id : Folders, setup : STRING] \subseteq E
  OBVIOUS
<1> HIDE DEF E
<1>2. historyvariables \in Seq(E) /\ historyfolders \in Seq(E)
  BY <1>1, SeqMonotonic DEF TypeOK
<1>3. Stated \in Seq(E)
  BY <1>2 DEF Stated
<1> QED
  BY <1>3 DEF E

(* What an entry puts in the vectors are the nodes it reaches.             *)
LEMMA NamedIsReached ==
  ASSUME NEW entry \in [id : Nodes \cup Folders, setup : STRING]
  PROVE  /\ Named(entry) \in Seq(Nodes)
         /\ DOMAIN Named(entry) = 1..Len(Named(entry))
         /\ Len(Named(entry)) \in Nat
         /\ \A n \in 1..Len(Named(entry)) : Reaches(entry, Named(entry)[n])
         /\ \A node \in Nodes : Reaches(entry, node) =>
              \E n \in 1..Len(Named(entry)) : Named(entry)[n] = node
<1>1. Nodes \cap Folders = {} /\ Below \in [Folders -> Seq(Nodes)]
  BY HistorizingAssumption, BelowIsSequence
<1>2. CASE entry.id \notin Mapped
  BY <1>2 DEF Named, Reaches
<1>3. CASE entry.id \in Mapped /\ entry.id \in Folders
  <2> DEFINE s == Below[entry.id]
  <2>1. Named(entry) = s /\ s \in Seq(Nodes)
    BY <1>1, <1>3 DEF Named
  <2>2. \A node \in Nodes : Reaches(entry, node) <=> node \in Range(s)
    BY <1>1, <1>3 DEF Reaches
  <2> HIDE DEF s
  <2> QED
    BY <2>1, <2>2 DEF Range
<1>4. CASE entry.id \in Mapped /\ entry.id \notin Folders
  BY <1>4 DEF Named, Reaches
<1> QED
  BY <1>2, <1>3, <1>4

(* As long as the mapping file stays, so do the first settings.            *)
LEMMA FileFrame ==
  ASSUME UNCHANGED fileVars
  PROVE  /\ Stated' = Stated
         /\ \A e, node : FirstSetting(e, node)' <=> FirstSetting(e, node)
BY DEF fileVars, Stated, FirstSetting

(* As long as the setups stay, so does what they define.                   *)
LEMMA HistoryFrame ==
  ASSUME UNCHANGED fileVars, UNCHANGED configVars
  PROVE  /\ \A m : Accepted(m)' <=> Accepted(m)
         /\ \A name : (IsDefined(name)' <=> IsDefined(name))
                      /\ SetupOf(name)' = SetupOf(name)
BY DEF fileVars, configVars, Accepted, IsDefined, IsDefinition, IsIncomplete,
       SetupOf

(* As long as the vectors stay, so does what holds of them.                *)
LEMMA VectorFrame ==
  ASSUME UNCHANGED fileVars, UNCHANGED listVars
  PROVE  /\ \A m : AllMentioned(m)' <=> AllMentioned(m)
         /\ \A m : FirstMentionsPreferred(m)' <=> FirstMentionsPreferred(m)
         /\ \A m : OnceUpTo(m)' <=> OnceUpTo(m)
<1>1. Stated' = Stated
      /\ \A e, node : FirstSetting(e, node)' <=> FirstSetting(e, node)
  BY FileFrame
<1>2. historizing_nodes' = historizing_nodes /\ historizing_setup' = historizing_setup
  BY DEF listVars
<1>3. \A m : AllMentioned(m)' <=> AllMentioned(m)
  BY <1>1, <1>2 DEF AllMentioned
<1>4. \A m : FirstMentionsPreferred(m)' <=> FirstMentionsPreferred(m)
  BY <1>1, <1>2 DEF FirstMentionsPreferred, FirstMention
<1>5. \A m : OnceUpTo(m)' <=> OnceUpTo(m)
  BY <1>2 DEF OnceUpTo
<1> QED
  BY <1>3, <1>4, <1>5

(* The vectors after an element was erased from both.                      *)
LEMMA EraseElements ==
  ASSUME TypeOK, VectorsParallel, phase # "cleared",
         NEW d \in 1..Len(historizing_nodes), Erase(d)
  PROVE  /\ historizing_nodes' \in Seq(Nodes) /\ historizing_setup' \in Seq(STRING)
         /\ Len(historizing_nodes') = Len(historizing_nodes) - 1
         /\ Len(historizing_setup') = Len(historizing_nodes) - 1
         /\ Len(historizing_nodes) \in Nat
         /\ \A k \in 1..(Len(historizing_nodes) - 1) :
              /\ historizing_nodes'[k] = IF k < d THEN historizing_nodes[k]
                                         ELSE historizing_nodes[k + 1]
              /\ historizing_setup'[k] = IF k < d THEN historizing_setup[k]
                                         ELSE historizing_setup[k + 1]
<1>1. historizing_nodes \in Seq(Nodes) /\ historizing_setup \in Seq(STRING)
      /\ Len(historizing_setup) = Len(historizing_nodes)
      /\ Len(historizing_nodes) \in Nat
  BY DEF TypeOK, VectorsParallel
<1>2. historizing_nodes' = RemoveAt(historizing_nodes, d)
      /\ historizing_setup' = RemoveAt(historizing_setup, d)
  BY DEF Erase
<1>3. /\ RemoveAt(historizing_nodes, d) \in Seq(Nodes)
      /\ Len(RemoveAt(historizing_nodes, d)) = Len(historizing_nodes) - 1
      /\ \A k \in 1..(Len(historizing_nodes) - 1) :
           RemoveAt(historizing_nodes, d)[k] =
             IF k < d THEN historizing_nodes[k] ELSE historizing_nodes[k + 1]
  BY <1>1, RemoveAtProperties
<1>4. /\ RemoveAt(historizing_setup, d) \in Seq(STRING)
      /\ Len(RemoveAt(historizing_setup, d)) = Len(historizing_setup) - 1
      /\ \A k \in 1..(Len(historizing_setup) - 1) :
           RemoveAt(historizing_setup, d)[k] =
             IF k < d THEN historizing_setup[k] ELSE historizing_setup[k + 1]
  <2>1. d \in 1..Len(historizing_setup)
    BY <1>1
  <2> QED
    BY <1>1, <2>1, RemoveAtProperties
<1> QED
  BY <1>1, <1>2, <1>3, <1>4

-----------------------------------------------------------------------------
(* The invariant holds at the start.                                       *)
LEMMA InitEstablishes == Init => IInv
<1> SUFFICES ASSUME Init PROVE IInv
  OBVIOUS
<1>1. TypeOK
  <2>1. /\ setupList \in Seq(Setup)
        /\ historyvariables \in Seq([id : Nodes, setup : STRING])
        /\ historyfolders \in Seq([id : Folders, setup : STRING])
    BY HistorizingAssumption DEF Init
  <2>2. /\ history \in Seq(Setup) /\ historizing_nodes \in Seq(Nodes)
        /\ gathering \in Seq([node : Nodes, setup : Setup])
    BY DEF Init
  <2>3. /\ mappingExceptions \in BOOLEAN /\ influxLoads \in BOOLEAN
        /\ influxClient \in BOOLEAN /\ repeat \in BOOLEAN
        /\ phase \in Phases \cup {"aborted", "cleared"}
    BY DEF Init, Phases
  <2>4. /\ i \in Nat \ {0} /\ historizing \in SUBSET Nodes
        /\ polled \in SUBSET Nodes /\ leaked \in Nat
    BY DEF Init
  <2> QED
    BY <2>1, <2>2, <2>3, <2>4 DEF TypeOK
<1>2. VectorsParallel
  BY DEF Init, VectorsParallel
<1>3. Reading
  <2>1. Len(setupList) \in Nat
    BY <1>1 DEF TypeOK
  <2> QED
    BY <2>1 DEF Init, Reading, Accepted, NothingRegistered, Phases
<1>4. Collecting /\ Checking /\ Removing /\ Registering
  BY DEF Init, Collecting, Checking, Removing, Registering
<1> QED
  BY <1>1, <1>2, <1>3, <1>4 DEF IInv

(* readConfig accepts a setup or refuses it: the first complete definition *)
(* of each name is there.                                                  *)
LEMMA ReadSetupStep ==
  ASSUME IInv, ReadSetup
  PROVE  IInv'
<1> DEFINE e == setupList[i]
           refused == IsIncomplete(e) \/ IsDefined(e.name)
<1>1. /\ phase = "readConfig" /\ i \in 1..Len(setupList) /\ i \in Nat
      /\ Len(setupList) \in Nat /\ e \in Setup
      /\ history \in Seq(Setup) /\ Accepted(i - 1)
  BY DEF IInv, TypeOK, Reading, ReadSetup
<1>2. /\ history' = (IF refused THEN history ELSE Append(history, e))
      /\ phase' \in {"readConfig", "aborted"} /\ i' = i + 1
      /\ UNCHANGED <<fileVars, repeat, listVars, gatheringVars>>
  BY <1>1 DEF ReadSetup
<1> HIDE DEF e
<1>3. TypeOK'
  <2>1. history' \in Seq(Setup)
    BY <1>1, <1>2
  <2>2. influxClient' \in BOOLEAN
    BY <1>1 DEF IInv, TypeOK, ReadSetup, e, Setup
  <2> QED
    BY <1>1, <1>2, <2>1, <2>2 DEF IInv, TypeOK, Phases, fileVars, listVars,
       gatheringVars
<1>4. VectorsParallel'
  BY <1>1, <1>2 DEF IInv, VectorsParallel, listVars
<1> PICK m \in Nat : m = i
  BY <1>1
<1>9. /\ m \in 1..Len(setupList) /\ e = setupList[m] /\ Accepted(m - 1)
  BY <1>1 DEF e
<1>5. Accepted(m)'
  <2>1. \A j \in 1..(m - 1) : setupList'[j] = setupList[j]
        /\ (IsDefinition(j)' <=> IsDefinition(j))
    BY <1>2 DEF fileVars, IsDefinition, IsIncomplete
  <2>2. CASE refused
    <3>1. history' = history /\ setupList' = setupList
          /\ influxLoads' = influxLoads
      BY <1>2, <2>2 DEF fileVars
    <3>2. \A j \in 1..m : ~IsIncomplete(setupList[j]) => IsDefined(setupList[j].name)
      BY <1>9, <2>2 DEF Accepted
    <3>3. \A k \in 1..Len(history) : \E j \in 1..m :
            history[k] = setupList[j] /\ IsDefinition(j)
      BY <1>9 DEF Accepted
    <3> QED
      BY <1>9, <3>1, <3>2, <3>3
      DEF Accepted, IsDefinition, IsIncomplete, IsDefined
  <2>3. CASE ~refused
    <3>1. /\ history' = Append(history, e) /\ setupList' = setupList
          /\ influxLoads' = influxLoads
      BY <1>2, <2>3 DEF fileVars
    <3>2. /\ Len(history') = Len(history) + 1 /\ Len(history) \in Nat
          /\ history'[Len(history) + 1] = e
          /\ \A k \in 1..Len(history) : history'[k] = history[k]
          /\ DOMAIN history' = 1..(Len(history) + 1)
          /\ DOMAIN history = 1..Len(history)
      BY <1>1, <3>1
    <3>3. \A k \in 1..Len(history) : history[k].name # e.name
      BY <2>3, <3>2 DEF IsDefined
    <3>4. IsDefinition(m)
      <4>1. ASSUME NEW d \in 1..(m - 1), setupList[d].name = setupList[m].name
            PROVE  IsIncomplete(setupList[d])
        <5>1. ~IsDefined(setupList[d].name)
          BY <1>9, <2>3, <4>1
        <5> QED
          BY <1>9, <5>1 DEF Accepted
      <4> QED
        BY <1>9, <2>3, <4>1 DEF IsDefinition
    <3>5. ASSUME NEW k \in 1..Len(history')
          PROVE  \E j \in 1..m : history'[k] = setupList[j] /\ IsDefinition(j)
      <4>1. CASE k = Len(history) + 1
        BY <1>9, <3>2, <3>4, <4>1
      <4>2. CASE k # Len(history) + 1
        <5>1. k \in 1..Len(history)
          BY <3>2, <4>2
        <5>2. \E j \in 1..(m - 1) : history[k] = setupList[j] /\ IsDefinition(j)
          BY <1>9, <5>1 DEF Accepted
        <5> QED
          BY <1>9, <3>2, <5>1, <5>2
      <4> QED
        BY <4>1, <4>2
    <3>6. ASSUME NEW j \in 1..m, ~IsIncomplete(setupList[j])
          PROVE  \E k \in DOMAIN history' : history'[k].name = setupList[j].name
      <4>1. CASE j = m
        BY <1>9, <3>2, <4>1
      <4>2. CASE j # m
        <5>1. IsDefined(setupList[j].name)
          BY <1>9, <3>6, <4>2 DEF Accepted
        <5>2. PICK k \in 1..Len(history) : history[k].name = setupList[j].name
          BY <3>2, <5>1 DEF IsDefined
        <5> QED
          BY <3>2, <5>2
      <4> QED
        BY <4>1, <4>2
    <3>7. ASSUME NEW a \in 1..Len(history'), NEW b \in 1..Len(history'),
                 history'[a].name = history'[b].name
          PROVE  a = b
      <4>1. CASE a \in 1..Len(history) /\ b \in 1..Len(history)
        BY <1>9, <3>2, <3>7, <4>1 DEF Accepted
      <4>2. CASE a = Len(history) + 1 /\ b \in 1..Len(history)
        BY <3>2, <3>3, <3>7, <4>2
      <4>3. CASE b = Len(history) + 1 /\ a \in 1..Len(history)
        BY <3>2, <3>3, <3>7, <4>3
      <4> QED
        BY <3>2, <4>1, <4>2, <4>3
    <3>8. \A j : IsDefinition(j)' <=> IsDefinition(j)
      BY <3>1 DEF IsDefinition, IsIncomplete
    <3>9. \A k \in 1..Len(history') : \E j \in 1..m :
            history'[k] = setupList'[j] /\ IsDefinition(j)'
      BY <3>1, <3>5, <3>8
    <3>10. \A j \in 1..m : ~IsIncomplete(setupList[j]) =>
             \E k \in DOMAIN history' : history'[k].name = setupList'[j].name
      BY <3>1, <3>6
    <3>11. \A j \in 1..m : ~IsIncomplete(setupList[j])' => IsDefined(setupList[j].name)'
      BY <3>1, <3>10 DEF IsIncomplete, IsDefined
    <3> QED
      BY <3>7, <3>9, <3>11 DEF Accepted
  <2> QED
    BY <2>2, <2>3
<1>6. Reading'
  <2>1. i' - 1 = m /\ i' <= Len(setupList') + 1
    BY <1>1, <1>2 DEF fileVars
  <2>2. NothingRegistered'
    BY <1>1, <1>2 DEF IInv, Reading, NothingRegistered, gatheringVars, Phases
  <2>3. historizing_nodes' = <<>>
    BY <1>1, <1>2 DEF IInv, Reading, listVars
  <2> QED
    BY <1>2, <1>5, <2>1, <2>2, <2>3 DEF Reading, Phases
<1>7. Collecting' /\ Checking' /\ Removing'
  BY <1>2 DEF Collecting, Checking, Removing
<1>8. Registering'
  BY <1>2 DEF IInv, Registering, gatheringVars
<1> QED
  BY <1>3, <1>4, <1>6, <1>7, <1>8 DEF IInv

(* Nothing is collected yet.                                               *)
LEMMA StartCollectingStep ==
  ASSUME IInv, StartCollecting
  PROVE  IInv'
<1>1. /\ phase = "readConfig" /\ phase' = "collect" /\ i' = 1
      /\ i - 1 = Len(setupList) /\ historizing_nodes = <<>>
      /\ UNCHANGED <<fileVars, configVars, repeat, listVars, gatheringVars>>
  BY DEF IInv, TypeOK, Reading, StartCollecting
<1>2. TypeOK' /\ VectorsParallel'
  BY <1>1 DEF IInv, TypeOK, VectorsParallel, Phases, fileVars, configVars,
     listVars, gatheringVars
<1>3. Reading'
  <2>1. Accepted(Len(setupList)) /\ NothingRegistered
    BY <1>1 DEF IInv, Reading, Phases
  <2>2. Accepted(Len(setupList))' /\ NothingRegistered'
    BY <1>1, <2>1
    DEF Accepted, IsDefinition, IsIncomplete, IsDefined, NothingRegistered,
        fileVars, configVars, gatheringVars
  <2> QED
    BY <1>1, <2>2 DEF Reading, Phases
<1>4. Collecting'
  <2>1. Len(Stated') \in Nat
    BY <1>2, StatedType, FileFrame, StatedType, <1>1 DEF IInv
  <2>2. i' <= Len(Stated') + 1 /\ i' - 1 = 0
    BY <1>1, <2>1
  <2>3. AllMentioned(0)'
    BY DEF AllMentioned
  <2>4. FirstMentionsPreferred(0)'
    <3>1. historizing_nodes' = <<>>
      BY <1>1 DEF listVars
    <3> QED
      BY <3>1 DEF FirstMentionsPreferred
  <2> QED
    BY <2>2, <2>3, <2>4 DEF Collecting
<1>5. Checking' /\ Removing'
  BY <1>1 DEF Checking, Removing
<1>6. Registering'
  BY <1>1 DEF IInv, Registering, gatheringVars
<1> QED
  BY <1>2, <1>3, <1>4, <1>5, <1>6 DEF IInv

(* One entry more is collected: what it names is behind what the entries   *)
(* before it named, so a node's first mention is due to the first setting  *)
(* that reaches it.                                                        *)
LEMMA CollectEntryStep ==
  ASSUME IInv, CollectEntry
  PROVE  IInv'
<1> DEFINE entry == Stated[i]
           new == Named(entry)
           names == [n \in DOMAIN new |-> entry.setup]
           old == Len(historizing_nodes)
<1>1. Entries = Stated /\ TypeOK
  BY DEF Entries, Stated, IInv
<1>2. /\ phase = "collect" /\ phase' = phase /\ i \in 1..Len(Stated)
      /\ i' = i + 1 /\ historizing_nodes' = historizing_nodes \o new
      /\ historizing_setup' = historizing_setup \o names
      /\ UNCHANGED <<fileVars, configVars, repeat, gatheringVars>>
      /\ AllMentioned(i - 1) /\ FirstMentionsPreferred(i - 1)
  BY <1>1, StatedType DEF IInv, TypeOK, Collecting, CollectEntry
<1>3. /\ entry \in [id : Nodes \cup Folders, setup : STRING]
      /\ Len(Stated) \in Nat /\ DOMAIN Stated = 1..Len(Stated)
  <2> DEFINE E == [id : Nodes \cup Folders, setup : STRING]
  <2>1. /\ Stated \in Seq(E) /\ Len(Stated) \in Nat
        /\ DOMAIN Stated = 1..Len(Stated)
    BY <1>1, StatedType
  <2> HIDE DEF E
  <2>2. Stated[i] \in E
    BY <1>2, <2>1, ElementOfSeq
  <2> QED
    BY <2>1, <2>2 DEF E
<1> HIDE DEF entry
<1>4. /\ new \in Seq(Nodes) /\ DOMAIN new = 1..Len(new) /\ Len(new) \in Nat
      /\ \A n \in 1..Len(new) : Reaches(entry, new[n])
      /\ \A node \in Nodes : Reaches(entry, node) =>
           \E n \in 1..Len(new) : new[n] = node
  BY <1>3, NamedIsReached
<1> HIDE DEF new
<1>5. /\ names \in Seq(STRING) /\ Len(names) = Len(new)
      /\ \A n \in 1..Len(new) : names[n] = entry.setup
  BY <1>3, <1>4
<1> HIDE DEF names
<1>6. /\ historizing_nodes \in Seq(Nodes) /\ historizing_setup \in Seq(STRING)
      /\ Len(historizing_setup) = old
  BY <1>2 DEF IInv, TypeOK, VectorsParallel
<1>7. /\ historizing_nodes' \in Seq(Nodes)
      /\ Len(historizing_nodes') = old + Len(new) /\ old \in Nat
      /\ \A k \in 1..old : historizing_nodes'[k] = historizing_nodes[k]
      /\ \A n \in 1..Len(new) : historizing_nodes'[old + n] = new[n]
      /\ \A k \in 1..(old + Len(new)) : k \notin 1..old =>
           k - old \in 1..Len(new) /\ historizing_nodes'[k] = new[k - old]
  BY <1>2, <1>4, <1>6, ConcatLookup
<1>8. /\ historizing_setup' \in Seq(STRING)
      /\ Len(historizing_setup') = old + Len(new)
      /\ \A k \in 1..old : historizing_setup'[k] = historizing_setup[k]
      /\ \A k \in 1..(old + Len(new)) : k \notin 1..old =>
           historizing_setup'[k] = entry.setup
  <2>1. /\ historizing_setup \o names \in Seq(STRING)
        /\ Len(historizing_setup \o names) = old + Len(new)
        /\ \A k \in 1..old : (historizing_setup \o names)[k] = historizing_setup[k]
        /\ \A k \in 1..(old + Len(new)) : k \notin 1..old =>
             /\ k - old \in 1..Len(new)
             /\ (historizing_setup \o names)[k] = names[k - old]
    <3> DEFINE s == historizing_setup
    <3>1. /\ s \in Seq(STRING) /\ names \in Seq(STRING)
          /\ Len(s) = old /\ Len(names) = Len(new)
      BY <1>5, <1>6
    <3> HIDE DEF s, old
    <3>2. /\ s \o names \in Seq(STRING)
          /\ Len(s \o names) = Len(s) + Len(names)
          /\ \A k \in 1..Len(s) : (s \o names)[k] = s[k]
      BY <3>1, ConcatLookup
    <3>3. ASSUME NEW k \in 1..(Len(s) + Len(names)), k \notin 1..Len(s)
          PROVE  k - Len(s) \in 1..Len(names) /\ (s \o names)[k] = names[k - Len(s)]
      BY <3>1, <3>3, ConcatSecond
    <3> QED
      BY <3>1, <3>2, <3>3 DEF s
  <2> QED
    BY <1>2, <1>5, <2>1
<1> HIDE DEF old
<1>9. /\ Stated' = Stated
      /\ \A e, node : FirstSetting(e, node)' <=> FirstSetting(e, node)
  BY <1>2, FileFrame
<1>10. TypeOK' /\ VectorsParallel'
  BY <1>2, <1>7, <1>8
  DEF IInv, TypeOK, VectorsParallel, Phases, fileVars, configVars, gatheringVars
<1>11. Reading'
  <2>1. Accepted(Len(setupList)) /\ NothingRegistered
    BY <1>2 DEF IInv, Reading, Phases
  <2>2. Accepted(Len(setupList))' /\ NothingRegistered'
    BY <1>2, <2>1
    DEF Accepted, IsDefinition, IsIncomplete, IsDefined, NothingRegistered,
        fileVars, configVars, gatheringVars
  <2> QED
    BY <1>2, <2>2 DEF Reading, Phases
<1> PICK m \in Nat : m = i
  BY <1>2, <1>3
<1>12. AllMentioned(m)'
  <2> SUFFICES ASSUME NEW e \in 1..m, NEW node \in Nodes, Reaches(Stated[e], node)
               PROVE  \E k \in 1..Len(historizing_nodes') :
                        historizing_nodes'[k] = node
    BY <1>9 DEF AllMentioned
  <2>1. CASE e = i
    <3>1. PICK n \in 1..Len(new) : new[n] = node
      BY <1>4, <2>1 DEF entry
    <3>2. old + n \in 1..Len(historizing_nodes') /\ historizing_nodes'[old + n] = node
      BY <1>4, <1>7, <3>1
    <3> QED
      BY <3>2
  <2>2. CASE e # i
    <3>1. e \in 1..(i - 1)
      BY <1>2, <1>3, <2>2
    <3>2. PICK k \in 1..old : historizing_nodes[k] = node
      BY <1>2, <3>1 DEF AllMentioned, old
    <3> QED
      BY <1>4, <1>7, <3>2
  <2> QED
    BY <2>1, <2>2
<1>13. FirstMentionsPreferred(m)'
  <2> SUFFICES ASSUME NEW k \in 1..Len(historizing_nodes'),
                      \A j \in 1..(k - 1) :
                        historizing_nodes'[j] # historizing_nodes'[k]
               PROVE  \E e \in 1..m :
                        /\ FirstSetting(e, historizing_nodes'[k])
                        /\ historizing_setup'[k] = Stated[e].setup
    BY <1>9 DEF FirstMentionsPreferred, FirstMention
  <2>1. CASE k \in 1..old
    <3>1. FirstMention(k)
      BY <1>7, <2>1 DEF FirstMention
    <3>2. PICK e \in 1..(i - 1) : /\ FirstSetting(e, historizing_nodes[k])
                                  /\ historizing_setup[k] = Stated[e].setup
      BY <1>2, <2>1, <3>1 DEF FirstMentionsPreferred, old
    <3> QED
      <4>1. e \in 1..m
        BY <1>2, <1>3
      <4>2. /\ historizing_nodes'[k] = historizing_nodes[k]
            /\ historizing_setup'[k] = historizing_setup[k]
        BY <1>7, <1>8, <2>1
      <4> QED
        BY <3>2, <4>1, <4>2
  <2>2. CASE k \notin 1..old
    <3> DEFINE node == historizing_nodes'[k]
    <3>1. Reaches(entry, node) /\ node \in Nodes
      <4>1. k - old \in 1..Len(new) /\ node = new[k - old]
        BY <1>7, <2>2
      <4> QED
        BY <1>4, <4>1
    <3>2. \A j \in 1..old : historizing_nodes[j] # node
      BY <1>4, <1>7, <2>2
    <3> HIDE DEF node
    <3>3. \A e \in 1..(i - 1) : ~Reaches(Stated[e], node)
      BY <1>2, <3>1, <3>2 DEF AllMentioned, old
    <3>4. FirstSetting(i, node)
      BY <1>2, <1>3, <3>1, <3>3 DEF FirstSetting, entry
    <3>5. historizing_setup'[k] = Stated[i].setup
      BY <1>7, <1>8, <2>2 DEF entry
    <3> QED
      BY <1>2, <3>4, <3>5 DEF node
  <2> QED
    BY <2>1, <2>2
<1>14. Collecting'
  <2>1. i' - 1 = m /\ i' <= Len(Stated') + 1
    BY <1>2, <1>3, <1>9
  <2> QED
    BY <1>12, <1>13, <2>1 DEF Collecting
<1>15. Checking' /\ Removing'
  BY <1>2 DEF Checking, Removing
<1>16. Registering'
  BY <1>2 DEF IInv, Registering, gatheringVars
<1> QED
  BY <1>10, <1>11, <1>14, <1>15, <1>16 DEF IInv

(* Every entry is collected.                                               *)
LEMMA StartCheckingStep ==
  ASSUME IInv, StartChecking
  PROVE  IInv'
<1>1. /\ phase = "collect" /\ phase' = "check" /\ i' = 1
      /\ UNCHANGED <<fileVars, configVars, repeat, listVars, gatheringVars>>
  BY DEF StartChecking
<1>2. TypeOK' /\ VectorsParallel'
  BY <1>1 DEF IInv, TypeOK, VectorsParallel, Phases, fileVars, configVars,
     listVars, gatheringVars
<1>3. Accepted(Len(setupList)) /\ NothingRegistered
  BY <1>1 DEF IInv, Reading, Phases
<1>4. Reading'
  <2>1. Accepted(Len(setupList))' /\ NothingRegistered'
    BY <1>1, <1>3
    DEF Accepted, IsDefinition, IsIncomplete, IsDefined, NothingRegistered,
        fileVars, configVars, gatheringVars
  <2> QED
    BY <1>1, <2>1 DEF Reading, Phases
<1>5. Checking'
  <2>1. Len(Stated) = i - 1 /\ Len(Stated) \in Nat /\ Stated' = Stated
    <3>1. TypeOK /\ Entries = Stated
      BY DEF IInv, Entries, Stated
    <3> QED
      BY <1>1, <3>1, StatedType, FileFrame
      DEF IInv, Collecting, StartChecking, TypeOK
  <2> PICK m \in Nat : m = Len(Stated)
    BY <2>1
  <2>2. AllMentioned(m) /\ FirstMentionsPreferred(m)
    BY <1>1, <2>1 DEF IInv, Collecting
  <2>3. AllMentioned(m)' /\ FirstMentionsPreferred(m)'
    BY <1>1, <2>2, VectorFrame
  <2>4. OnceUpTo(0)'
    <3>1. \A a \in 1..Len(historizing_nodes') : ~(a <= 0)
      OBVIOUS
    <3> QED
      BY <3>1 DEF OnceUpTo
  <2> QED
    BY <1>1, <2>1, <2>3, <2>4 DEF Checking
<1>6. Collecting' /\ Removing'
  BY <1>1 DEF Collecting, Removing
<1>7. Registering'
  BY <1>1 DEF IInv, Registering, gatheringVars
<1> QED
  BY <1>2, <1>4, <1>5, <1>6, <1>7 DEF IInv

(* What an erased mention leaves when the node is mentioned elsewhere or   *)
(* first: the first mentions are still those that are preferred.           *)
LEMMA EraseKeepsPreferred ==
  ASSUME IInv, phase # "cleared", UNCHANGED fileVars,
         NEW d \in 1..Len(historizing_nodes), Erase(d), NEW m,
         FirstMentionsPreferred(m),
         \/ OnceUpTo(Len(historizing_nodes))
         \/ \E c \in 1..(d - 1) : historizing_nodes[c] = historizing_nodes[d]
  PROVE  FirstMentionsPreferred(m)'
<1> DEFINE n == Len(historizing_nodes)
<1>1. /\ n \in Nat /\ Len(historizing_nodes') = n - 1
      /\ \A k \in 1..(n - 1) :
           /\ historizing_nodes'[k] = IF k < d THEN historizing_nodes[k]
                                      ELSE historizing_nodes[k + 1]
           /\ historizing_setup'[k] = IF k < d THEN historizing_setup[k]
                                      ELSE historizing_setup[k + 1]
  BY EraseElements DEF IInv
<1>2. /\ Stated' = Stated
      /\ \A e, node : FirstSetting(e, node)' <=> FirstSetting(e, node)
  BY FileFrame
<1> SUFFICES ASSUME NEW k \in 1..(n - 1),
                    \A j \in 1..(k - 1) :
                      historizing_nodes'[j] # historizing_nodes'[k]
             PROVE  \E e \in 1..m :
                      /\ FirstSetting(e, historizing_nodes'[k])
                      /\ historizing_setup'[k] = Stated[e].setup
  BY <1>1, <1>2 DEF FirstMentionsPreferred, FirstMention
<1> HIDE DEF n
<1>3. PICK l \in 1..n : l = IF k < d THEN k ELSE k + 1
  <2>1. (IF k < d THEN k ELSE k + 1) \in 1..n
    BY <1>1
  <2> QED
    BY <2>1
<1>4. /\ historizing_nodes'[k] = historizing_nodes[l]
      /\ historizing_setup'[k] = historizing_setup[l]
  BY <1>1, <1>3
<1>5. FirstMention(l)
  <2> SUFFICES ASSUME NEW j \in 1..(l - 1),
                      historizing_nodes[j] = historizing_nodes[l]
               PROVE  FALSE
    BY DEF FirstMention
  <2>1. CASE j < d
    <3>1. j \in 1..(k - 1) /\ historizing_nodes'[j] = historizing_nodes[j]
      BY <1>1, <1>3, <2>1
    <3> QED
      BY <1>4, <3>1
  <2>2. CASE j > d
    <3>1. /\ j - 1 \in 1..(k - 1) /\ (j - 1) + 1 = j /\ ~(j - 1 < d)
          /\ j - 1 \in 1..(n - 1)
      BY <1>1, <1>3, <2>2
    <3>2. historizing_nodes'[j - 1] = historizing_nodes[j]
      BY <1>1, <3>1
    <3> QED
      BY <1>4, <3>1, <3>2
  <2>3. CASE j = d
    <3>1. CASE OnceUpTo(Len(historizing_nodes))
      <4>1. j \in 1..n /\ l \in 1..n /\ j <= n /\ j < l
        BY <1>1, <1>3
      <4> QED
        BY <3>1, <4>1 DEF OnceUpTo, n
    <3>2. CASE \E c \in 1..(d - 1) : historizing_nodes[c] = historizing_nodes[d]
      <4>1. PICK c \in 1..(d - 1) : historizing_nodes[c] = historizing_nodes[d]
        BY <3>2
      <4>2. c \in 1..(k - 1) /\ historizing_nodes'[c] = historizing_nodes[c]
        BY <1>1, <1>3, <2>3
      <4> QED
        BY <1>4, <2>3, <4>1, <4>2
    <3> QED
      BY <3>1, <3>2
  <2> QED
    BY <1>1, <1>3, <2>1, <2>2, <2>3
<1>6. PICK e \in 1..m : /\ FirstSetting(e, historizing_nodes[l])
                        /\ historizing_setup[l] = Stated[e].setup
  BY <1>5 DEF FirstMentionsPreferred, n
<1> QED
  BY <1>4, <1>6

(* A later mention of the node is erased, or there is none: every node     *)
(* stays mentioned, and a pass that erased nothing has looked at every     *)
(* node up to its index.                                                   *)
LEMMA CheckNodeStep ==
  ASSUME IInv, CheckNode
  PROVE  IInv'
<1> DEFINE n == Len(historizing_nodes)
<1>1. /\ phase = "check" /\ phase' = phase /\ i \in 1..n /\ i' = i + 1
      /\ n \in Nat
      /\ UNCHANGED <<fileVars, configVars, gatheringVars>>
  BY DEF IInv, TypeOK, CheckNode
<1>2. Accepted(Len(setupList)) /\ NothingRegistered
  BY <1>1 DEF IInv, Reading, Phases
<1>3. Reading'
  <2>1. Accepted(Len(setupList))' /\ NothingRegistered'
    BY <1>1, <1>2
    DEF Accepted, IsDefinition, IsIncomplete, IsDefined, NothingRegistered,
        fileVars, configVars, gatheringVars
  <2> QED
    BY <1>1, <2>1 DEF Reading, Phases
<1>4. Collecting' /\ Removing'
  BY <1>1 DEF Collecting, Removing
<1>5. Registering'
  BY <1>1 DEF IInv, Registering, gatheringVars
<1>6. /\ Stated' = Stated /\ Len(Stated) \in Nat
      /\ \A e, node : FirstSetting(e, node)' <=> FirstSetting(e, node)
  BY <1>1, FileFrame, StatedType DEF IInv
<1> PICK m \in Nat : m = Len(Stated)
  BY <1>6
<1> PICK w \in Nat : w = i
  BY <1>1
<1>7. /\ AllMentioned(m) /\ FirstMentionsPreferred(m)
      /\ ~repeat => OnceUpTo(w - 1)
  BY <1>1 DEF IInv, Checking
<1>8. CASE Duplicates(i) = {}
  <2>1. UNCHANGED listVars /\ repeat' = repeat
    BY <1>8 DEF CheckNode, listVars
  <2>2. TypeOK' /\ VectorsParallel'
    BY <1>1, <2>1 DEF IInv, TypeOK, VectorsParallel, Phases, fileVars,
       configVars, listVars, gatheringVars
  <2>3. AllMentioned(m)' /\ FirstMentionsPreferred(m)'
    BY <1>1, <1>7, <2>1, VectorFrame
  <2>4. ~repeat => OnceUpTo(w)
    <3> SUFFICES ASSUME ~repeat, NEW a \in 1..n, NEW b \in 1..n, a <= w, a < b
                 PROVE  historizing_nodes[a] # historizing_nodes[b]
      BY DEF OnceUpTo
    <3>1. CASE a = w
      BY <1>1, <1>8, <3>1 DEF Duplicates
    <3>2. CASE a # w
      <4>1. a <= w - 1
        BY <1>1, <3>2
      <4> QED
        BY <1>7, <4>1 DEF OnceUpTo
    <3> QED
      BY <3>1, <3>2
  <2>5. ~repeat' => OnceUpTo(w)'
    BY <1>1, <2>1, <2>4, VectorFrame
  <2>6. Checking'
    <3>1. i' - 1 = w /\ Len(Stated') = m
      BY <1>1, <1>6
    <3> QED
      BY <2>3, <2>5, <3>1 DEF Checking
  <2> QED
    BY <1>3, <1>4, <1>5, <2>2, <2>6 DEF IInv
<1>9. CASE Duplicates(i) # {}
  <2> PICK d \in Nat : d = Min(Duplicates(i))
    <3>1. Duplicates(i) \subseteq Nat
      BY <1>1 DEF Duplicates
    <3> QED
      BY <1>9, <3>1, MinIsLeast
  <2>1. /\ d \in 1..n /\ w \in 1..(d - 1)
        /\ historizing_nodes[w] = historizing_nodes[d]
    <3>1. Duplicates(i) \subseteq Nat
      BY <1>1 DEF Duplicates
    <3>2. d \in Duplicates(i)
      BY <1>9, <3>1, MinIsLeast
    <3> QED
      BY <1>1, <3>2 DEF Duplicates
  <2>2. Erase(d) /\ repeat' = TRUE
    BY <1>9 DEF CheckNode
  <2>3. /\ historizing_nodes' \in Seq(Nodes) /\ historizing_setup' \in Seq(STRING)
        /\ Len(historizing_nodes') = n - 1 /\ Len(historizing_setup') = n - 1
        /\ \A k \in 1..(n - 1) :
             historizing_nodes'[k] = IF k < d THEN historizing_nodes[k]
                                     ELSE historizing_nodes[k + 1]
    BY <1>1, <2>1, <2>2, EraseElements DEF IInv
  <2>4. TypeOK' /\ VectorsParallel'
    BY <1>1, <2>2, <2>3 DEF IInv, TypeOK, VectorsParallel, Phases, fileVars,
       configVars, gatheringVars
  <2>5. FirstMentionsPreferred(m)'
    <3>1. phase # "cleared" /\ UNCHANGED fileVars
      BY <1>1
    <3> QED
      BY <1>7, <2>1, <2>2, <3>1, EraseKeepsPreferred
  <2>6. AllMentioned(m)'
    <3> SUFFICES ASSUME NEW e \in 1..m, NEW node \in Nodes,
                        Reaches(Stated[e], node)
                 PROVE  \E k \in 1..Len(historizing_nodes') :
                          historizing_nodes'[k] = node
      BY <1>6 DEF AllMentioned
    <3>1. PICK k \in 1..n : historizing_nodes[k] = node
      BY <1>7 DEF AllMentioned
    <3> HIDE DEF n
    <3>2. CASE k < d
      <4>1. k \in 1..(n - 1) /\ historizing_nodes'[k] = node
        BY <1>1, <2>1, <2>3, <3>1, <3>2
      <4> QED
        BY <2>3, <4>1
    <3>3. CASE k = d
      <4>1. w \in 1..(n - 1) /\ w < d
        BY <1>1, <2>1
      <4>2. historizing_nodes'[w] = node
        BY <2>1, <2>3, <3>1, <3>3, <4>1
      <4> QED
        BY <2>3, <4>1, <4>2
    <3>4. CASE k > d
      <4>1. k - 1 \in 1..(n - 1) /\ ~(k - 1 < d) /\ (k - 1) + 1 = k
        BY <1>1, <2>1, <3>4
      <4>2. historizing_nodes'[k - 1] = node
        BY <2>3, <3>1, <4>1
      <4> QED
        BY <2>3, <4>1, <4>2
    <3> QED
      BY <1>1, <2>1, <3>2, <3>3, <3>4
  <2>7. Checking'
    BY <1>6, <2>2, <2>5, <2>6 DEF Checking
  <2> QED
    BY <1>3, <1>4, <1>5, <2>4, <2>7 DEF IInv
<1> QED
  BY <1>8, <1>9

(* The next pass, or the end of the last one: a pass that erased nothing   *)
(* leaves no node twice.                                                   *)
LEMMA CheckAgainStep ==
  ASSUME IInv, CheckAgain
  PROVE  IInv'
<1> DEFINE n == Len(historizing_nodes)
<1>1. /\ phase = "check" /\ phase' \in {"check", "remove"} /\ i' = 1
      /\ repeat' = FALSE
      /\ phase' = "remove" => ~repeat
      /\ i > n /\ i \in Nat /\ n \in Nat
      /\ UNCHANGED <<fileVars, configVars, listVars, gatheringVars>>
  BY DEF IInv, TypeOK, CheckAgain
<1>2. TypeOK' /\ VectorsParallel'
  <2>1. TypeOK /\ VectorsParallel /\ phase' \in Phases
        /\ phase # "cleared" /\ phase' # "cleared" /\ i' \in Nat \ {0}
        /\ repeat' \in BOOLEAN
    <3>1. phase' \in Phases /\ phase # "cleared" /\ phase' # "cleared"
      BY <1>1 DEF Phases
    <3>2. i' \in Nat \ {0}
      BY <1>1
    <3>3. repeat' \in BOOLEAN
      BY <1>1, Zenon
    <3> QED
      BY <3>1, <3>2, <3>3 DEF IInv
  <2> QED
    BY <1>1, <2>1 DEF TypeOK, VectorsParallel, fileVars, configVars,
       listVars, gatheringVars
<1>3. Reading'
  <2>1. Accepted(Len(setupList)) /\ NothingRegistered
    BY <1>1 DEF IInv, Reading, Phases
  <2>2. Accepted(Len(setupList))' /\ NothingRegistered'
    BY <1>1, <2>1
    DEF Accepted, IsDefinition, IsIncomplete, IsDefined, NothingRegistered,
        fileVars, configVars, gatheringVars
  <2> QED
    BY <1>1, <2>2 DEF Reading, Phases
<1>4. Collecting' /\ Registering'
  BY <1>1 DEF IInv, Collecting, Registering, gatheringVars
<1>5. Stated' = Stated /\ Len(Stated) \in Nat /\ DOMAIN Stated = 1..Len(Stated)
  BY <1>1, FileFrame, StatedType DEF IInv
<1> PICK m \in Nat : m = Len(Stated)
  BY <1>5
<1>6. /\ AllMentioned(m) /\ FirstMentionsPreferred(m)
      /\ ~repeat => OnceUpTo(i - 1)
  BY <1>1 DEF IInv, Checking
<1>7. AllMentioned(m)' /\ FirstMentionsPreferred(m)'
  BY <1>1, <1>6, VectorFrame
<1>8. Checking'
  <2>1. OnceUpTo(0)'
    <3>1. \A a \in 1..Len(historizing_nodes') : ~(a <= 0)
      OBVIOUS
    <3> QED
      BY <3>1 DEF OnceUpTo
  <2> QED
    BY <1>1, <1>5, <1>7, <2>1 DEF Checking
<1>9. Removing'
  <2> SUFFICES ASSUME phase' = "remove" PROVE Removing'
    BY <1>1 DEF Removing
  <2> PICK w \in Nat : w = n
    BY <1>1
  <2>1. OnceUpTo(w)
    BY <1>1, <1>6 DEF OnceUpTo
  <2>2. OnceUpTo(w)' /\ w = Len(historizing_nodes')
    BY <1>1, <2>1, VectorFrame DEF listVars
  <2>3. MissingUndefined'
    <3>1. \A e \in 1..m : \A node \in Nodes : FirstSetting(e, node) =>
            \E k \in 1..Len(historizing_nodes) : historizing_nodes[k] = node
      BY <1>6 DEF AllMentioned, FirstSetting
    <3>2. /\ historizing_nodes' = historizing_nodes
          /\ \A e, node : FirstSetting(e, node)' <=> FirstSetting(e, node)
      BY <1>1, FileFrame DEF listVars
    <3> QED
      BY <1>5, <3>1, <3>2 DEF MissingUndefined
  <2>4. \A k \in 1..Len(historizing_nodes') : ~(k < i')
    BY <1>1
  <2> QED
    BY <1>5, <1>7, <2>2, <2>3, <2>4 DEF Removing
<1> QED
  BY <1>2, <1>3, <1>4, <1>8, <1>9 DEF IInv

(* A node whose setup is missing is erased; the nodes before it are done,  *)
(* those behind it move up by one and are looked at next.                  *)
LEMMA RemoveNodeStep ==
  ASSUME IInv, RemoveNode
  PROVE  IInv'
<1> DEFINE n == Len(historizing_nodes)
<1>1. /\ phase = "remove" /\ phase' = phase /\ i \in Nat \ {0} /\ n \in Nat
      /\ Incomplete # {} /\ Erase(Min(Incomplete)) /\ i' = Min(Incomplete)
      /\ UNCHANGED <<fileVars, configVars, repeat, gatheringVars>>
  BY DEF IInv, TypeOK, RemoveNode
<1> PICK d \in Nat : d = Min(Incomplete)
  <2>1. Incomplete \subseteq Nat
    BY <1>1 DEF Incomplete
  <2> QED
    BY <1>1, <2>1, MinIsLeast
<1>2. /\ d \in i..n /\ ~IsDefined(historizing_setup[d])
      /\ \A k \in i..n : k < d => IsDefined(historizing_setup[k])
  <2>1. Incomplete \subseteq Nat
    BY <1>1 DEF Incomplete
  <2>2. d \in Incomplete /\ \A k \in Incomplete : d <= k
    BY <1>1, <2>1, MinIsLeast
  <2>3. /\ d \in i..n /\ ~IsDefined(historizing_setup[d])
    BY <1>1, <2>2 DEF Incomplete
  <2>4. ASSUME NEW k \in i..n, k < d PROVE IsDefined(historizing_setup[k])
    <3>1. k \in Nat /\ k \notin Incomplete
      BY <1>1, <2>2, <2>4
    <3> QED
      BY <3>1 DEF Incomplete
  <2> QED
    BY <2>3, <2>4
<1>3. Erase(d) /\ i' = d /\ d \in 1..n
  BY <1>1, <1>2
<1>4. /\ historizing_nodes' \in Seq(Nodes) /\ historizing_setup' \in Seq(STRING)
      /\ Len(historizing_nodes') = n - 1 /\ Len(historizing_setup') = n - 1
      /\ \A k \in 1..(n - 1) :
           /\ historizing_nodes'[k] = IF k < d THEN historizing_nodes[k]
                                      ELSE historizing_nodes[k + 1]
           /\ historizing_setup'[k] = IF k < d THEN historizing_setup[k]
                                      ELSE historizing_setup[k + 1]
  BY <1>1, <1>3, EraseElements DEF IInv
<1>5. TypeOK' /\ VectorsParallel'
  BY <1>1, <1>3, <1>4 DEF IInv, TypeOK, VectorsParallel, Phases, fileVars,
     configVars, gatheringVars
<1>6. Reading'
  <2>1. Accepted(Len(setupList)) /\ NothingRegistered
    BY <1>1 DEF IInv, Reading, Phases
  <2>2. Accepted(Len(setupList))' /\ NothingRegistered'
    BY <1>1, <2>1
    DEF Accepted, IsDefinition, IsIncomplete, IsDefined, NothingRegistered,
        fileVars, configVars, gatheringVars
  <2> QED
    BY <1>1, <2>2 DEF Reading, Phases
<1>7. Collecting' /\ Checking'
  BY <1>1 DEF Collecting, Checking
<1>8. Registering'
  BY <1>1 DEF IInv, Registering, gatheringVars
<1>9. /\ Stated' = Stated /\ Len(Stated) \in Nat
      /\ \A e, node : FirstSetting(e, node)' <=> FirstSetting(e, node)
      /\ \A name : IsDefined(name)' <=> IsDefined(name)
  BY <1>1, FileFrame, HistoryFrame, StatedType DEF IInv
<1> PICK m \in Nat : m = Len(Stated)
  BY <1>9
<1> PICK w \in Nat : w = n
  BY <1>1
<1>10. /\ OnceUpTo(w) /\ FirstMentionsPreferred(m) /\ MissingUndefined
       /\ \A k \in 1..w : k < i => IsDefined(historizing_setup[k])
  BY <1>1 DEF IInv, Removing
<1>11. FirstMentionsPreferred(m)'
  <2>1. phase # "cleared" /\ UNCHANGED fileVars
    BY <1>1
  <2> QED
    BY <1>3, <1>10, <2>1, EraseKeepsPreferred
<1> HIDE DEF n
<1>12. OnceUpTo(w - 1)'
  <2> SUFFICES ASSUME NEW a \in 1..(w - 1), NEW b \in 1..(w - 1), a < b
               PROVE  historizing_nodes'[a] # historizing_nodes'[b]
    BY <1>4 DEF OnceUpTo
  <2> DEFINE at(k) == IF k < d THEN k ELSE k + 1
  <2>1. at(a) \in 1..w /\ at(b) \in 1..w /\ at(a) < at(b) /\ at(a) <= w
    OBVIOUS
  <2>2. /\ historizing_nodes'[a] = historizing_nodes[at(a)]
        /\ historizing_nodes'[b] = historizing_nodes[at(b)]
    BY <1>4
  <2> HIDE DEF at
  <2> QED
    BY <1>10, <2>1, <2>2 DEF OnceUpTo, n
<1>13. MissingUndefined'
  <2> SUFFICES ASSUME NEW e \in DOMAIN Stated, NEW node \in Nodes,
                      FirstSetting(e, node), IsDefined(Stated[e].setup)
               PROVE  \E k \in 1..Len(historizing_nodes') :
                        historizing_nodes'[k] = node
    BY <1>9 DEF MissingUndefined
  <2>1. PICK k \in 1..w : historizing_nodes[k] = node
    BY <1>10 DEF MissingUndefined, n
  <2>2. CASE k < d
    <3>1. k \in 1..(w - 1) /\ historizing_nodes'[k] = node
      BY <1>3, <1>4, <2>1, <2>2
    <3> QED
      BY <1>4, <3>1
  <2>3. CASE k > d
    <3>1. k - 1 \in 1..(w - 1) /\ ~(k - 1 < d) /\ (k - 1) + 1 = k
      BY <1>3, <2>3
    <3>2. historizing_nodes'[k - 1] = node
      BY <1>4, <2>1, <3>1
    <3> QED
      BY <1>4, <3>1, <3>2
  <2>4. CASE k = d
    <3>1. FirstMention(d)
      BY <1>3, <1>10 DEF FirstMention, OnceUpTo, n
    <3>2. PICK f \in 1..m : /\ FirstSetting(f, node)
                            /\ historizing_setup[d] = Stated[f].setup
      BY <1>3, <1>10, <2>1, <2>4, <3>1 DEF FirstMentionsPreferred, n
    <3>3. e \in 1..m
      BY <1>5, <1>9, StatedType DEF IInv
    <3>4. f = e
      BY <3>2, <3>3 DEF FirstSetting
    <3> QED
      BY <1>2, <3>2, <3>4
  <2> QED
    BY <2>1, <2>2, <2>3, <2>4
<1>14. (\A k \in 1..(w - 1) : k < d => IsDefined(historizing_setup[k]))'
  <2> SUFFICES ASSUME NEW k \in 1..(w - 1), k < d
               PROVE  IsDefined(historizing_setup[k])
    <3>1. \A k \in 1..(w - 1) :
            k < d => historizing_setup'[k] = historizing_setup[k]
      BY <1>4
    <3>2. history' = history
      BY <1>1 DEF configVars
    <3> QED
      BY <3>1, <3>2 DEF IsDefined
  <2>1. CASE k < i
    BY <1>10, <2>1
  <2>2. CASE ~(k < i)
    BY <1>1, <1>2, <2>2 DEF n
  <2> QED
    BY <2>1, <2>2
<1>15. Removing'
  <2>1. Len(historizing_nodes') = w - 1 /\ Len(Stated') = m
    BY <1>4, <1>9
  <2> QED
    BY <1>1, <1>3, <1>11, <1>12, <1>13, <1>14, <2>1 DEF Removing
<1> QED
  BY <1>5, <1>6, <1>7, <1>8, <1>15 DEF IInv

(* No node without a setup is left.                                        *)
LEMMA StartRegisteringStep ==
  ASSUME IInv, StartRegistering
  PROVE  IInv'
<1> DEFINE n == Len(historizing_nodes)
<1>1. /\ phase = "remove" /\ phase' = "register" /\ i' = 1 /\ Incomplete = {}
      /\ i \in Nat \ {0} /\ n \in Nat
      /\ UNCHANGED <<fileVars, configVars, repeat, listVars, gatheringVars>>
  BY DEF IInv, TypeOK, StartRegistering
<1>2. TypeOK' /\ VectorsParallel'
  BY <1>1 DEF IInv, TypeOK, VectorsParallel, Phases, fileVars, configVars,
     listVars, gatheringVars
<1>3. Accepted(Len(setupList)) /\ NothingRegistered
  BY <1>1 DEF IInv, Reading, Phases
<1>4. Reading'
  <2>1. Accepted(Len(setupList))'
    BY <1>1, <1>3 DEF Accepted, IsDefinition, IsIncomplete, IsDefined,
       fileVars, configVars
  <2> QED
    BY <1>1, <2>1 DEF Reading, Phases
<1>5. Collecting' /\ Checking'
  BY <1>1 DEF Collecting, Checking
<1>6. /\ Stated' = Stated /\ Len(Stated) \in Nat
      /\ historizing_nodes' = historizing_nodes
      /\ \A e, node : FirstSetting(e, node)' <=> FirstSetting(e, node)
      /\ history' = history
  BY <1>1, FileFrame, StatedType DEF IInv, listVars, configVars
<1> PICK m \in Nat : m = Len(Stated)
  BY <1>6
<1> PICK w \in Nat : w = n
  BY <1>1
<1>7. /\ OnceUpTo(w) /\ FirstMentionsPreferred(m) /\ MissingUndefined
      /\ \A k \in 1..w : k < i => IsDefined(historizing_setup[k])
  BY <1>1 DEF IInv, Removing
<1>8. \A k \in 1..w : IsDefined(historizing_setup[k])
  BY <1>1, <1>7 DEF Incomplete
<1>9. Removing'
  <2>1. OnceUpTo(w)' /\ FirstMentionsPreferred(m)'
    BY <1>1, <1>7, VectorFrame
  <2>2. MissingUndefined'
    BY <1>6, <1>7 DEF MissingUndefined, IsDefined
  <2>3. (\A k \in 1..w : IsDefined(historizing_setup[k]))'
    BY <1>1, <1>6, <1>8 DEF IsDefined, listVars
  <2> QED
    BY <1>1, <1>6, <2>1, <2>2, <2>3 DEF Removing
<1>10. RegisteredUpTo(0)'
  BY <1>1, <1>3 DEF NothingRegistered, RegisteredUpTo, gatheringVars
<1>11. Registering'
  BY <1>1, <1>6, <1>10 DEF IInv, Registering, gatheringVars
<1> QED
  BY <1>2, <1>4, <1>5, <1>9, <1>11 DEF IInv

(* Once the vectors are final, only what is registered changes.            *)
LEMMA RemovingFrame ==
  ASSUME TypeOK, Removing, phase \in {"register", "running"},
         phase' \in {"register", "running"},
         UNCHANGED <<fileVars, configVars, listVars>>
  PROVE  Removing'
<1>1. /\ Stated' = Stated /\ Len(Stated) \in Nat
      /\ historizing_nodes' = historizing_nodes
      /\ \A e, node : FirstSetting(e, node)' <=> FirstSetting(e, node)
      /\ history' = history /\ historizing_setup' = historizing_setup
      /\ Len(historizing_nodes) \in Nat
  BY FileFrame, StatedType DEF TypeOK, listVars, configVars
<1> PICK m \in Nat : m = Len(Stated)
  BY <1>1
<1> PICK w \in Nat : w = Len(historizing_nodes)
  BY <1>1
<1>2. /\ OnceUpTo(w) /\ FirstMentionsPreferred(m) /\ MissingUndefined
      /\ \A k \in 1..w : IsDefined(historizing_setup[k])
  BY DEF Removing
<1>3. OnceUpTo(w)' /\ FirstMentionsPreferred(m)'
  BY <1>2, VectorFrame
<1>4. MissingUndefined'
  BY <1>1, <1>2 DEF MissingUndefined, IsDefined
<1>5. (\A k \in 1..w : IsDefined(historizing_setup[k]))'
  BY <1>1, <1>2 DEF IsDefined
<1> QED
  BY <1>1, <1>3, <1>4, <1>5 DEF Removing

(* A name that is defined has one of the accepted setups.                  *)
LEMMA SetupOfType ==
  ASSUME TypeOK, NEW name, IsDefined(name)
  PROVE  /\ SetupOf(name) \in Setup
         /\ \E k \in 1..Len(history) :
              history[k].name = name /\ SetupOf(name) = history[k]
<1> DEFINE K == {k \in DOMAIN history : history[k].name = name}
<1>1. DOMAIN history = 1..Len(history) /\ Len(history) \in Nat
      /\ history \in Seq(Setup)
  BY DEF TypeOK
<1>2. PICK k \in 1..Len(history) : history[k].name = name
  BY <1>1 DEF IsDefined
<1>3. K # {} /\ K \subseteq 0..Len(history) /\ K \subseteq 1..Len(history)
  BY <1>1, <1>2
<1>4. SetupOf(name) = history[Max(K)]
  BY DEF SetupOf
<1>5. \A j \in K : history[j].name = name
  OBVIOUS
<1> HIDE DEF K
<1>6. Max(K) \in K
  BY <1>1, <1>3, MaxIsGreatest
<1>7. Max(K) \in 1..Len(history) /\ history[Max(K)].name = name
  BY <1>3, <1>5, <1>6
<1>8. history[Max(K)] \in Setup
  BY <1>1, <1>7, ElementOfSeq
<1> QED
  BY <1>4, <1>7, <1>8

(* The gathering has room for the node and does not have it yet: the       *)
(* registration succeeds.                                                  *)
LEMMA RegisterNodeStep ==
  ASSUME IInv, RegisterNode
  PROVE  IInv'
<1> DEFINE n == Len(historizing_nodes)
<1>1. /\ phase = "register" /\ phase' = phase /\ i \in 1..n /\ i' = i + 1
      /\ n \in Nat /\ historizing_nodes \in Seq(Nodes)
      /\ gathering \in Seq([node : Nodes, setup : Setup])
      /\ UNCHANGED <<fileVars, configVars, repeat, listVars>>
      /\ historizing' = historizing \cup {historizing_nodes[i]}
  BY DEF IInv, TypeOK, RegisterNode
<1> PICK w \in Nat : w = i
  BY <1>1
<1>2. RegisteredUpTo(w - 1) /\ OnceUpTo(n) /\ leaked = 0
  BY <1>1 DEF IInv, Registering, Removing
<1>3. Registers(historizing_nodes[w])
  <2>1. Len(gathering) < n
    BY <1>1, <1>2 DEF RegisteredUpTo
  <2>2. ASSUME NEW k \in DOMAIN gathering
        PROVE  gathering[k].node # historizing_nodes[w]
    <3>1. k \in 1..(w - 1) /\ k \in 1..n /\ k <= n
      BY <1>1, <1>2 DEF RegisteredUpTo
    <3>2. gathering[k].node = historizing_nodes[k]
      <4>1. gathering[k] = [node |-> historizing_nodes[k],
                            setup |-> SetupOf(historizing_setup[k])]
        BY <1>2, <3>1 DEF RegisteredUpTo
      <4> QED
        BY <4>1
    <3> QED
      BY <1>1, <1>2, <3>1, <3>2 DEF OnceUpTo
  <2> QED
    BY <2>1, <2>2 DEF Registers
<1> DEFINE entry == [node |-> historizing_nodes[w],
                     setup |-> SetupOf(historizing_setup[w])]
<1>4. /\ gathering' = Append(gathering, entry) /\ leaked' = 0
      /\ polled' = polled \cup {historizing_nodes[w]}
      /\ historizing' = historizing \cup {historizing_nodes[w]}
  BY <1>1, <1>2, <1>3 DEF RegisterNode
<1>5. entry \in [node : Nodes, setup : Setup] /\ historizing_nodes[w] \in Nodes
  <2>1. IsDefined(historizing_setup[w]) /\ TypeOK
    BY <1>1 DEF IInv, Removing
  <2>2. SetupOf(historizing_setup[w]) \in Setup
    BY <2>1, SetupOfType
  <2> QED
    BY <1>1, <2>2
<1> HIDE DEF entry
<1>6. /\ gathering' \in Seq([node : Nodes, setup : Setup])
      /\ Len(gathering) = w - 1 /\ Len(gathering') = w
      /\ \A k \in 1..(w - 1) : gathering'[k] = gathering[k]
      /\ gathering'[w] = entry
  <2>1. Len(gathering) = w - 1
    BY <1>2 DEF RegisteredUpTo
  <2> QED
    BY <1>1, <1>4, <1>5, <2>1
<1>7. TypeOK' /\ VectorsParallel'
  BY <1>1, <1>4, <1>5, <1>6 DEF IInv, TypeOK, VectorsParallel, Phases,
     fileVars, configVars, listVars
<1>8. Reading'
  <2>1. Accepted(Len(setupList))
    BY <1>1 DEF IInv, Reading, Phases
  <2>2. Accepted(Len(setupList))'
    BY <1>1, <2>1 DEF Accepted, IsDefinition, IsIncomplete, IsDefined,
       fileVars, configVars
  <2> QED
    BY <1>1, <2>2 DEF Reading, Phases
<1>9. Collecting' /\ Checking'
  BY <1>1 DEF Collecting, Checking
<1>10. Removing'
  <2>1. TypeOK
    BY DEF IInv
  <2> QED
    BY <1>1, <2>1, RemovingFrame DEF IInv
<1>11. RegisteredUpTo(w)'
  <2>1. /\ historizing_nodes' = historizing_nodes
        /\ historizing_setup' = historizing_setup
        /\ \A name : SetupOf(name)' = SetupOf(name)
    BY <1>1, HistoryFrame DEF listVars
  <2>2. ASSUME NEW k \in 1..w
        PROVE  gathering'[k] = [node |-> historizing_nodes[k],
                                setup |-> SetupOf(historizing_setup[k])]
    <3>1. CASE k = w
      BY <1>6, <3>1 DEF entry
    <3>2. CASE k # w
      <4>1. k \in 1..(w - 1)
        BY <3>2
      <4> QED
        BY <1>2, <1>6, <4>1 DEF RegisteredUpTo
    <3> QED
      BY <3>1, <3>2
  <2>3. /\ historizing' = {historizing_nodes[k] : k \in 1..w}
        /\ polled' = historizing'
    <3>1. {historizing_nodes[k] : k \in 1..w} =
            {historizing_nodes[k] : k \in 1..(w - 1)} \cup {historizing_nodes[w]}
      BY <1>1
    <3> QED
      BY <1>2, <1>4, <3>1 DEF RegisteredUpTo
  <2>4. (\A k \in 1..w : gathering[k] = [node |-> historizing_nodes[k],
                                        setup |-> SetupOf(historizing_setup[k])])'
    <3>1. \A k \in 1..w : SetupOf(historizing_setup[k])' = SetupOf(historizing_setup[k])
      BY <1>1, <2>1 DEF SetupOf, IsDefined, configVars
    <3> QED
      BY <2>1, <2>2, <3>1
  <2> QED
    BY <1>6, <2>1, <2>3, <2>4 DEF RegisteredUpTo
<1>12. Registering'
  <2>1. i' - 1 = w /\ i' <= Len(historizing_nodes') + 1
    BY <1>1 DEF listVars
  <2> QED
    BY <1>1, <1>4, <1>11, <2>1 DEF Registering
<1> QED
  BY <1>7, <1>8, <1>9, <1>10, <1>12 DEF IInv

(* All nodes are registered.                                               *)
LEMMA RunStep ==
  ASSUME IInv, Run
  PROVE  IInv'
<1>1. /\ phase = "register" /\ phase' = "running" /\ i > Len(historizing_nodes)
      /\ i \in Nat /\ i <= Len(historizing_nodes) + 1
      /\ Len(historizing_nodes) \in Nat /\ RegisteredUpTo(i - 1) /\ TypeOK
      /\ UNCHANGED <<fileVars, configVars, i, repeat, listVars, gatheringVars>>
  BY DEF IInv, TypeOK, Registering, Run
<1>2. TypeOK' /\ VectorsParallel'
  BY <1>1 DEF IInv, TypeOK, VectorsParallel, Phases, fileVars, configVars,
     listVars, gatheringVars
<1>3. Reading'
  <2>1. Accepted(Len(setupList))
    BY <1>1 DEF IInv, Reading, Phases
  <2>2. Accepted(Len(setupList))'
    BY <1>1, <2>1 DEF Accepted, IsDefinition, IsIncomplete, IsDefined,
       fileVars, configVars
  <2> QED
    BY <1>1, <2>2 DEF Reading, Phases
<1>4. Collecting' /\ Checking'
  BY <1>1 DEF Collecting, Checking
<1>5. Removing'
  BY <1>1, RemovingFrame DEF IInv
<1>6. Registering'
  <2>1. RegisteredUpTo(i - 1)'
    BY <1>1 DEF RegisteredUpTo, SetupOf, IsDefined, listVars, configVars,
       gatheringVars
  <2> QED
    BY <1>1, <2>1 DEF IInv, Registering, listVars, gatheringVars
<1> QED
  BY <1>2, <1>3, <1>4, <1>5, <1>6 DEF IInv

(* Nothing is claimed of what clear_history leaves but its type.           *)
LEMMA ClearHistoryStep ==
  ASSUME IInv, ClearHistory
  PROVE  IInv'
<1>1. /\ phase' = "cleared" /\ historizing_setup' = <<>> /\ leaked' = leaked
      /\ polled' \subseteq polled
      /\ UNCHANGED <<fileVars, configVars, i, repeat, historizing_nodes,
                     historizing>>
  BY DEF ClearHistory, gatheringVars
<1>2. TypeOK' /\ VectorsParallel'
  BY <1>1 DEF IInv, TypeOK, VectorsParallel, Phases, fileVars, configVars
<1>3. Reading' /\ Collecting' /\ Checking' /\ Removing' /\ Registering'
  BY <1>1 DEF IInv, Reading, Collecting, Checking, Removing, Registering, Phases
<1> QED
  BY <1>2, <1>3 DEF IInv

(* A step that changes nothing.                                            *)
LEMMA StutteringStep ==
  ASSUME IInv, UNCHANGED vars
  PROVE  IInv'
<1>1. UNCHANGED <<setupList, historyvariables, historyfolders,
                  mappingExceptions, influxLoads, history, influxClient, phase,
                  i, repeat, historizing_nodes, historizing_setup, historizing,
                  gathering, polled, leaked>>
  BY DEF vars, fileVars, configVars, listVars, gatheringVars
<1>2. TypeOK' /\ VectorsParallel'
  BY <1>1 DEF IInv, TypeOK, VectorsParallel
<1>3. PICK m \in Int, n \in Nat, l \in Nat, c \in Nat :
        /\ m = i - 1 /\ n = Len(setupList) /\ l = Len(Stated)
        /\ c = Len(historizing_nodes)
  <2>1. /\ i - 1 \in Int /\ Len(setupList) \in Nat /\ Len(historizing_nodes) \in Nat
    BY LenProperties DEF IInv, TypeOK
  <2>2. Len(Stated) \in Nat
    BY StatedType DEF IInv
  <2> QED
    BY <2>1, <2>2
<1>4. /\ Stated' = Stated /\ \A k : AllMentioned(k)' <=> AllMentioned(k)
      /\ \A k : FirstMentionsPreferred(k)' <=> FirstMentionsPreferred(k)
      /\ \A k : OnceUpTo(k)' <=> OnceUpTo(k)
      /\ \A k : Accepted(k)' <=> Accepted(k)
      /\ \A name : IsDefined(name)' <=> IsDefined(name)
  BY FileFrame, VectorFrame, HistoryFrame DEF vars
<1>5. Reading'
  BY <1>1, <1>3, <1>4 DEF IInv, Reading, NothingRegistered
<1>6. Collecting' /\ Checking'
  BY <1>1, <1>3, <1>4 DEF IInv, Collecting, Checking
<1>7. MissingUndefined' <=> MissingUndefined
  BY <1>1, <1>4 DEF MissingUndefined, FirstSetting
<1>8. Removing'
  BY <1>1, <1>3, <1>4, <1>7 DEF IInv, Removing
<1>9. Registering'
  BY <1>1 DEF IInv, Registering, RegisteredUpTo, SetupOf, IsDefined
<1> QED
  BY <1>2, <1>5, <1>6, <1>8, <1>9 DEF IInv

-----------------------------------------------------------------------------
(* Every step keeps the invariant.                                         *)
LEMMA StepKeepsInvariant == IInv /\ [Next]_vars => IInv'
<1> SUFFICES ASSUME IInv, [Next]_vars PROVE IInv'
  OBVIOUS
<1>1. CASE ReadSetup
  BY <1>1, ReadSetupStep
<1>2. CASE StartCollecting
  BY <1>2, StartCollectingStep
<1>3. CASE CollectEntry
  BY <1>3, CollectEntryStep
<1>4. CASE StartChecking
  BY <1>4, StartCheckingStep
<1>5. CASE CheckNode
  BY <1>5, CheckNodeStep
<1>6. CASE CheckAgain
  BY <1>6, CheckAgainStep
<1>7. CASE RemoveNode
  BY <1>7, RemoveNodeStep
<1>8. CASE StartRegistering
  BY <1>8, StartRegisteringStep
<1>9. CASE RegisterNode
  BY <1>9, RegisterNodeStep
<1>10. CASE Run
  BY <1>10, RunStep
<1>11. CASE ClearHistory
  BY <1>11, ClearHistoryStep
<1>12. CASE Ended \/ UNCHANGED vars
  BY <1>12, StutteringStep DEF Ended
<1> QED
  BY <1>1, <1>2, <1>3, <1>4, <1>5, <1>6, <1>7, <1>8, <1>9, <1>10, <1>11, <1>12
  DEF Next

(* The invariant holds in every state.                                     *)
THEOREM HistorizingInvariant == Spec => []IInv
<1>1. Init => IInv
  BY InitEstablishes
<1>2. IInv /\ [Next]_vars => IInv'
  BY StepKeepsInvariant
<1> QED
  BY <1>1, <1>2, PTL DEF Spec

(* A node shown as historized is polled, whatever the mapping file and the *)
(* server's tree: no registration fails.                                   *)
THEOREM HistorizedAlwaysPolled == Spec => []HistorizedIsPolled
<1>1. IInv => HistorizedIsPolled
  <2> SUFFICES ASSUME IInv, phase = "running"
               PROVE  historizing = polled /\ leaked = 0
                      /\ polled = {g.node : g \in Range(gathering)}
    BY DEF HistorizedIsPolled
  <2> DEFINE n == i - 1
  <2>1. RegisteredUpTo(n) /\ n \in Nat /\ leaked = 0
        /\ DOMAIN gathering = 1..Len(gathering)
    BY DEF IInv, Registering, TypeOK
  <2>2. /\ DOMAIN gathering = 1..n /\ historizing = polled
        /\ polled = {historizing_nodes[k] : k \in 1..n}
        /\ \A k \in 1..n : gathering[k].node = historizing_nodes[k]
    BY <2>1 DEF RegisteredUpTo
  <2>3. {g.node : g \in Range(gathering)} = {historizing_nodes[k] : k \in 1..n}
    <3> HIDE DEF n
    <3>1. Range(gathering) = {gathering[k] : k \in 1..n}
      BY <2>2 DEF Range
    <3>2. ASSUME NEW k \in 1..n
          PROVE  historizing_nodes[k] \in {g.node : g \in Range(gathering)}
      BY <2>2, <3>1
    <3>3. ASSUME NEW g \in Range(gathering)
          PROVE  g.node \in {historizing_nodes[k] : k \in 1..n}
      BY <2>2, <3>1
    <3> QED
      BY <3>2, <3>3
  <2> QED
    BY <2>1, <2>2, <2>3
<1> QED
  BY <1>1, HistorizingInvariant, PTL

(* The setup that the accepted setups give a name is its first complete    *)
(* definition.                                                             *)
LEMMA SetupIsDefinition ==
  ASSUME TypeOK, Accepted(Len(setupList)), NEW name
  PROVE  /\ IsDefined(name) <=> Definitions(name) # {}
         /\ IsDefined(name) => SetupOf(name) = Definition(name)
<1> DEFINE D == Definitions(name)
<1>1. /\ DOMAIN setupList = 1..Len(setupList) /\ Len(setupList) \in Nat
      /\ DOMAIN history = 1..Len(history)
  BY DEF TypeOK
<1>2. \A k \in 1..Len(setupList) :
        k \in D <=> setupList[k].name = name /\ ~IsIncomplete(setupList[k])
  <2>1. influxLoads \in BOOLEAN /\ \A k \in 1..Len(setupList) :
          setupList[k].influx \in BOOLEAN /\ setupList[k].complete \in BOOLEAN
    <3>1. \A k \in 1..Len(setupList) : setupList[k] \in Setup
      BY ElementOfSeq DEF TypeOK
    <3> QED
      BY <3>1 DEF TypeOK, Setup
  <2> QED
    BY <1>1, <2>1 DEF Definitions, IsIncomplete
<1>3. D \subseteq 1..Len(setupList) /\ D \subseteq Nat
  BY <1>1 DEF Definitions
<1> HIDE DEF D
<1>4. D # {} => IsDefined(name)
  BY <1>2, <1>3 DEF Accepted
<1>5. ASSUME IsDefined(name)
      PROVE  D # {} /\ SetupOf(name) = setupList[Min(D)]
  <2>1. PICK k \in 1..Len(history) : /\ history[k].name = name
                                     /\ SetupOf(name) = history[k]
    BY <1>5, SetupOfType
  <2>2. PICK j \in 1..Len(setupList) : history[k] = setupList[j] /\ IsDefinition(j)
    BY <2>1 DEF Accepted
  <2>3. j \in D
    BY <1>2, <2>1, <2>2 DEF IsDefinition
  <2>4. Min(D) \in D /\ Min(D) <= j
    BY <1>3, <2>3, MinIsLeast
  <2>5. ASSUME Min(D) # j PROVE FALSE
    <3>1. Min(D) \in 1..(j - 1) /\ Min(D) \in 1..Len(setupList)
      <4>1. Min(D) \in 1..Len(setupList) /\ Min(D) \in Nat
        BY <1>3, <2>4
      <4> QED
        BY <1>1, <2>4, <2>5, <4>1
    <3>2. setupList[Min(D)].name = name /\ ~IsIncomplete(setupList[Min(D)])
      BY <1>2, <2>4, <3>1
    <3> QED
      BY <2>1, <2>2, <3>1, <3>2 DEF IsDefinition
  <2> QED
    BY <2>1, <2>2, <2>3, <2>5
<1> QED
  BY <1>4, <1>5 DEF D, Definition

(* The first setting that reaches a node is the one to be considered.      *)
LEMMA FirstSettingConsidered ==
  ASSUME TypeOK, NEW node \in Nodes
  PROVE  /\ \A e : FirstSetting(e, node) =>
              Settings(node) # {} /\ Considered(node) = Stated[e].setup
         /\ Settings(node) # {} => FirstSetting(Min(Settings(node)), node)
<1>1. DOMAIN Stated = 1..Len(Stated) /\ Len(Stated) \in Nat
  BY StatedType
<1>2. Settings(node) \subseteq Nat /\ Settings(node) \subseteq 1..Len(Stated)
  BY <1>1 DEF Settings
<1>3. ASSUME NEW e, FirstSetting(e, node)
      PROVE  Settings(node) # {} /\ Min(Settings(node)) = e
  <2>1. e \in Settings(node) /\ e \in 1..Len(Stated)
    BY <1>1, <1>3 DEF FirstSetting, Settings
  <2>2. \A d \in Settings(node) : ~(d < e)
    BY <1>1, <1>3, <2>1 DEF FirstSetting, Settings
  <2>3. Min(Settings(node)) \in Settings(node) /\ Min(Settings(node)) <= e
    BY <1>2, <2>1, MinIsLeast
  <2> QED
    BY <1>2, <2>1, <2>2, <2>3
<1>4. ASSUME Settings(node) # {}
      PROVE  FirstSetting(Min(Settings(node)), node)
  <2> PICK e \in 1..Len(Stated) : e = Min(Settings(node))
    BY <1>2, <1>4, MinIsLeast
  <2>1. e \in Settings(node) /\ \A d \in Settings(node) : e <= d
    BY <1>2, <1>4, MinIsLeast
  <2>2. \A d \in 1..(e - 1) : d \notin Settings(node) /\ d \in 1..Len(Stated)
    BY <1>1, <2>1
  <2>3. FirstSetting(e, node)
    BY <1>1, <2>1, <2>2 DEF FirstSetting, Settings
  <2> QED
    BY <2>3
<1> QED
  BY <1>3, <1>4 DEF Considered

(* Every variable is historized exactly as its first setting says.         *)
THEOREM FirstSettingAlwaysUsed == Spec => []FirstSettingIsUsed
<1>1. IInv => FirstSettingIsUsed
  <2> SUFFICES ASSUME IInv, phase = "running", NEW node \in Nodes
               PROVE  LET registered == {k \in DOMAIN gathering :
                                           gathering[k].node = node}
                      IN  IF Settings(node) = {}
                               \/ Definitions(Considered(node)) = {}
                          THEN registered = {}
                          ELSE \E k \in registered :
                                 /\ registered = {k}
                                 /\ gathering[k].setup =
                                      Definition(Considered(node))
    BY DEF FirstSettingIsUsed
  <2> DEFINE n == Len(historizing_nodes)
             registered == {k \in DOMAIN gathering : gathering[k].node = node}
  <2>1. /\ TypeOK /\ n \in Nat /\ n = i - 1 /\ RegisteredUpTo(i - 1)
        /\ OnceUpTo(n) /\ FirstMentionsPreferred(Len(Stated))
        /\ MissingUndefined /\ Accepted(Len(setupList))
        /\ \A k \in 1..n : IsDefined(historizing_setup[k])
    BY DEF IInv, TypeOK, Registering, Removing, Reading, Phases
  <2>2. /\ DOMAIN gathering = 1..n
        /\ \A k \in 1..n : /\ gathering[k].node = historizing_nodes[k]
                           /\ gathering[k].setup = SetupOf(historizing_setup[k])
    <3>1. DOMAIN gathering = 1..Len(gathering)
      BY DEF IInv, TypeOK
    <3>2. \A k \in 1..n : gathering[k] = [node |-> historizing_nodes[k],
                                         setup |-> SetupOf(historizing_setup[k])]
      BY <2>1 DEF RegisteredUpTo
    <3> QED
      BY <2>1, <3>1, <3>2 DEF RegisteredUpTo
  <2>3. ASSUME NEW k \in registered
        PROVE  /\ Settings(node) # {} /\ Definitions(Considered(node)) # {}
               /\ registered = {k}
               /\ gathering[k].setup = Definition(Considered(node))
    <3>1. k \in 1..n /\ historizing_nodes[k] = node
      BY <2>2
    <3>2. \A j \in registered : j \in 1..n /\ historizing_nodes[j] = node
      BY <2>2
    <3> HIDE DEF n, registered
    <3>3. registered = {k}
      <4>1. ASSUME NEW j \in registered PROVE j = k
        BY <2>1, <2>3, <3>1, <3>2 DEF OnceUpTo, n
      <4> QED
        BY <2>3, <4>1
    <3>4. FirstMention(k)
      BY <2>1, <3>1 DEF FirstMention, OnceUpTo, n
    <3>5. PICK e \in 1..Len(Stated) : /\ FirstSetting(e, node)
                                      /\ historizing_setup[k] = Stated[e].setup
      BY <2>1, <3>1, <3>4 DEF FirstMentionsPreferred, n
    <3>6. Settings(node) # {} /\ Considered(node) = historizing_setup[k]
      BY <2>1, <3>5, FirstSettingConsidered
    <3>7. IsDefined(Considered(node))
      BY <2>1, <3>1, <3>6
    <3>8. Definitions(Considered(node)) # {}
          /\ SetupOf(Considered(node)) = Definition(Considered(node))
      BY <2>1, <3>7, SetupIsDefinition
    <3> QED
      BY <2>2, <3>1, <3>3, <3>6, <3>8
  <2>4. ASSUME Settings(node) # {}, Definitions(Considered(node)) # {}
        PROVE  registered # {}
    <3>1. FirstSetting(Min(Settings(node)), node)
      BY <2>1, <2>4, FirstSettingConsidered
    <3>2. IsDefined(Considered(node))
      BY <2>1, <2>4, SetupIsDefinition
    <3>3. Min(Settings(node)) \in DOMAIN Stated
      BY <3>1 DEF FirstSetting
    <3>4. PICK k \in 1..n : historizing_nodes[k] = node
      BY <2>1, <3>1, <3>2, <3>3 DEF MissingUndefined, Considered
    <3> QED
      BY <2>2, <3>4
  <2> HIDE DEF registered
  <2>5. IF Settings(node) = {} \/ Definitions(Considered(node)) = {}
        THEN registered = {}
        ELSE \E k \in registered :
               /\ registered = {k}
               /\ gathering[k].setup = Definition(Considered(node))
    BY <2>3, <2>4
  <2> QED
    BY <2>5 DEF registered
<1> QED
  BY <1>1, HistorizingInvariant, PTL
=============================================================================
