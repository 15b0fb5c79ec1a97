----------------------- MODULE VariableMappingProofs ------------------------
(***************************************************************************)
(* What the constructor decides stays right through the whole mapping, for *)
(* any set of process variables and any mapping file: the variables that   *)
(* the application need not send have no node, those that an entry names   *)
(* have one, an id keeps its source, and every entry for a variable is     *)
(* carried out or its error is raised.  The proof needs nothing about the  *)
(* walk through a folder but that it copies nodes that are there.  That    *)
(* every node can be browsed needs more: where the walk puts its copies,   *)
(* and that it comes to finitely many folders.  That a folder shows all of *)
(* its source at the new place needs that the walk leaves nothing out and  *)
(* that no two things it copies meet under one name.                       *)
(***************************************************************************)
EXTENDS VariableMapping, SequenceLemmas, TLAPS

(* The constructor is through with its list when the entries are read.     *)
ImplicitComesFirst ==
  /\ file \in Files /\ i \in Nat \ {0}
  /\ pending \subseteq PVs
  /\ phase # "implicit" => pending = {}

(* Up to then a node's id is the name of the variable it stands for.       *)
NamesAreIds ==
  phase = "implicit" =>
    /\ DOMAIN variables \cap pending = {}
    /\ \A v \in DOMAIN variables : variables[v] = v

(* What can be browsed exists.                                             *)
ReferencedVariablesExist ==
  \A r \in references :
    r[2].class = "variable" => r[2].path \in DOMAIN variables

(* Every variable is mapped in its own place or left to the application.   *)
EachVariableDecided ==
  \A p \in PVs \ pending :
    IsMappable(p) => \/ p \in DOMAIN variables /\ variables[p] = p
                     \/ p \in unusedVariables

(* What is left to the application is named by no entry.                   *)
UnusedIsUnneeded ==
  /\ unusedVariables \cap pending = {}
  /\ unusedVariables \cap MappedSources = {}

MappingIInv == /\ ImplicitComesFirst
               /\ NamesAreIds
               /\ ReferencedVariablesExist
               /\ EachVariableDecided
               /\ UnusedIsUnneeded
               /\ UnusedIsUnmapped

-----------------------------------------------------------------------------
(* Initially there is no node.                                             *)
LEMMA InitMapping == Init => MappingIInv
BY DEF Init, MappingIInv, ImplicitComesFirst, NamesAreIds,
       ReferencedVariablesExist, EachVariableDecided, UnusedIsUnneeded,
       UnusedIsUnmapped, Range

(* The folders that are created on the way bring no variable.              *)
LEMMA WayBringsNoVariable ==
  ASSUME NEW path, NEW r \in WayReferences(path)
  PROVE  r[2].class = "folder"
BY DEF WayReferences, Folder

(* An error takes the list on or ends the mapping, and does nothing else.  *)
LEMMA RaiseGoesOn ==
  ASSUME Raise, i \in Nat \ {0}
  PROVE  /\ i' \in Nat \ {0}
         /\ phase' \in {phase, "aborted"}
BY DEF Raise

(* What the entries of a list may do: add nodes that stand for variables   *)
(* the application sends.                                                  *)
Grows == /\ phase # "implicit" /\ phase' # "implicit"
         /\ i' \in Nat \ {0}
         /\ UNCHANGED <<fileVars, pending, unusedVariables>>
         /\ DOMAIN variables \subseteq DOMAIN variables'
         /\ \A v \in DOMAIN variables : variables'[v] = variables[v]
         /\ \A v \in DOMAIN variables' : variables'[v] \notin unusedVariables
         /\ ReferencedVariablesExist'

(* It preserves the inductive invariant.                                   *)
LEMMA GrowingKeeps == MappingIInv /\ Grows => MappingIInv'
<1> SUFFICES ASSUME MappingIInv, Grows PROVE MappingIInv'
  OBVIOUS
<1> USE DEF MappingIInv, Grows, fileVars
<1>1. ImplicitComesFirst' /\ NamesAreIds'
  BY DEF ImplicitComesFirst, NamesAreIds
<1>2. EachVariableDecided'
  BY DEF EachVariableDecided, IsMappable, PVs
<1>3. UnusedIsUnneeded'
  BY DEF UnusedIsUnneeded, MappedSources, ListedSources
<1>4. UnusedIsUnmapped'
  BY DEF UnusedIsUnmapped, Range
<1> QED
  BY <1>1, <1>2, <1>3, <1>4

(* A variable is mapped in its place or left to the application, never     *)
(* both.                                                                   *)
LEMMA MapImplicitKeeps == MappingIInv /\ MapImplicit => MappingIInv'
<1> SUFFICES ASSUME MappingIInv, MapImplicit PROVE MappingIInv'
  OBVIOUS
<1>0. PICK p \in pending :
        /\ pending' = pending \ {p}
        /\ IF IsMappedImplicitly(p)
           THEN /\ folders' = WithFolders(Front(p))
                /\ variables' = WithVariable(p, p)
                /\ references' = references \cup WayReferences(Front(p))
                                   \cup {<<Front(p), Variable(p)>>}
           ELSE UNCHANGED <<folders, variables, references>>
        /\ unusedVariables' = IF IsMappable(p) /\ IsExcluded(p)
                              THEN unusedVariables \cup {p}
                              ELSE unusedVariables
  BY DEF MapImplicit
<1>1. /\ phase = "implicit" /\ p \in pending /\ p \in PVs
      /\ phase' = phase /\ i' = i /\ UNCHANGED fileVars
      /\ pending' = pending \ {p}
  BY <1>0 DEF MapImplicit, MappingIInv, ImplicitComesFirst
<1>2. /\ unusedVariables \cap pending = {} /\ p \notin DOMAIN variables
      /\ p \notin unusedVariables
  BY <1>1 DEF MappingIInv, UnusedIsUnneeded, NamesAreIds
<1>3. CASE IsMappedImplicitly(p)
  <2>1. /\ variables' = WithVariable(p, p)
        /\ references' = references \cup WayReferences(Front(p))
                           \cup {<<Front(p), Variable(p)>>}
    BY <1>0, <1>3
  <2>2. UNCHANGED unusedVariables
    BY <1>0, <1>3 DEF IsMappedImplicitly
  <2>3. /\ DOMAIN variables' = DOMAIN variables \cup {p}
        /\ variables'[p] = p
        /\ \A v \in DOMAIN variables : variables'[v] = variables[v]
    BY <2>1, <1>2 DEF WithVariable
  <2>4. ReferencedVariablesExist'
    <3> SUFFICES ASSUME NEW r \in references', r[2].class = "variable"
                 PROVE  r[2].path \in DOMAIN variables'
      BY DEF ReferencedVariablesExist
    <3>1. CASE r \in references
      BY <3>1, <2>3 DEF MappingIInv, ReferencedVariablesExist
    <3>2. CASE r \in WayReferences(Front(p))
      BY <3>2, WayBringsNoVariable
    <3>3. CASE r = <<Front(p), Variable(p)>>
      BY <3>3, <2>3 DEF Variable
    <3> QED
      BY <3>1, <3>2, <3>3, <2>1
  <2>5. ImplicitComesFirst'
    BY <1>1 DEF MappingIInv, ImplicitComesFirst, fileVars
  <2>6. NamesAreIds'
    BY <1>1, <2>3 DEF MappingIInv, NamesAreIds
  <2>7. EachVariableDecided'
    BY <1>1, <2>2, <2>3 DEF MappingIInv, EachVariableDecided, IsMappable, PVs
  <2>8. UnusedIsUnneeded'
    BY <1>1, <2>2
       DEF MappingIInv, UnusedIsUnneeded, MappedSources, ListedSources, fileVars
  <2>9. UnusedIsUnmapped'
    <3>1. \A v \in DOMAIN variables : variables[v] \notin unusedVariables
      BY DEF MappingIInv, UnusedIsUnmapped, Range
    <3>2. \A v \in DOMAIN variables' : variables'[v] \notin unusedVariables'
      BY <3>1, <1>2, <2>2, <2>3
    <3> QED
      BY <3>2 DEF UnusedIsUnmapped, Range
  <2> QED
    BY <2>4, <2>5, <2>6, <2>7, <2>8, <2>9 DEF MappingIInv
<1>4. CASE ~IsMappedImplicitly(p)
  <2>1. UNCHANGED <<variables, references>>
    BY <1>0, <1>4
  <2>2. unusedVariables' = IF IsMappable(p) /\ IsExcluded(p)
                           THEN unusedVariables \cup {p}
                           ELSE unusedVariables
    BY <1>0
  <2>3. IsMappable(p) => p \in unusedVariables' /\ p \notin MappedSources
    BY <1>4, <2>2 DEF IsMappedImplicitly, IsExcluded
  <2>4. ~IsMappable(p) => UNCHANGED unusedVariables
    BY <2>2
  <2>5. ImplicitComesFirst' /\ NamesAreIds' /\ ReferencedVariablesExist'
    BY <1>1, <2>1 DEF MappingIInv, ImplicitComesFirst, NamesAreIds,
                      ReferencedVariablesExist, fileVars
  <2>6. EachVariableDecided'
    BY <1>1, <2>1, <2>2, <2>3
       DEF MappingIInv, EachVariableDecided, IsMappable, PVs
  <2>7. UnusedIsUnneeded'
    <3>1. UNCHANGED MappedSources
      BY <1>1 DEF MappedSources, ListedSources, fileVars
    <3> QED
      BY <3>1, <1>1, <2>2, <2>3, <2>4 DEF MappingIInv, UnusedIsUnneeded
  <2>8. UnusedIsUnmapped'
    BY <1>1, <1>2, <2>1, <2>2
       DEF MappingIInv, UnusedIsUnmapped, NamesAreIds, Range
  <2> QED
    BY <2>5, <2>6, <2>7, <2>8 DEF MappingIInv
<1> QED
  BY <1>3, <1>4

(* The end of a list.                                                      *)
LEMMA EndPhaseKeeps == MappingIInv /\ EndPhase => MappingIInv'
<1> SUFFICES ASSUME MappingIInv, EndPhase PROVE MappingIInv'
  OBVIOUS
<1>1. /\ pending = {} /\ phase' # "implicit" /\ i' = 1
      /\ UNCHANGED <<fileVars, pending, nodeVars, unusedVariables>>
  BY DEF EndPhase, EndOf
<1> QED
  BY <1>1
     DEF MappingIInv, ImplicitComesFirst, NamesAreIds, ReferencedVariablesExist,
         EachVariableDecided, UnusedIsUnneeded, UnusedIsUnmapped, IsMappable,
         PVs, MappedSources, ListedSources, Range, fileVars, nodeVars

-----------------------------------------------------------------------------
(* What a folder shows exists, also when more folders were created.        *)
LEMMA ShownExists ==
  ASSUME ReferencedVariablesExist, NEW path, NEW f,
         NEW v \in VariablesIn(references \cup WayReferences(path), f)
  PROVE  v \in DOMAIN variables
<1>1. PICK r \in references \cup WayReferences(path) :
        r[2].class = "variable" /\ r[2].path = v
  BY DEF VariablesIn
<1>2. r \in references
  BY <1>1, WayBringsNoVariable
<1> QED
  BY <1>1, <1>2 DEF ReferencedVariablesExist

(* References from the target to all that the source folder shows.         *)
Links(refs, e, shown) ==
  {<<Target(e), Folder(c)>> : c \in FoldersIn(refs, e.source)}
    \cup {<<Target(e), Variable(v)>> :
            v \in VariablesIn(refs, e.source) \cap shown}

(* What a browse returns is there, and all that is there unless the limit  *)
(* cuts it off.                                                            *)
LEMMA BrowsedIsFound ==
  ASSUME NEW found, NEW returned \in Browsed(found)
  PROVE  /\ returned \subseteq found
         /\ Cardinality(found) <= MaxReferences => returned = found
BY DEF Browsed, kSubset

(* So the links are some of these, or all.                                 *)
LEMMA BrowsedAreLinks ==
  ASSUME NEW refs, NEW e, NEW shown, NEW links \in BrowsedLinks(refs, e, shown)
  PROVE  /\ links \subseteq Links(refs, e, shown)
         /\ Cardinality(FoldersIn(refs, e.source)) <= MaxReferences
              /\ Cardinality(VariablesIn(refs, e.source) \cap shown) <= MaxReferences
            => links = Links(refs, e, shown)
<1> DEFINE F == FoldersIn(refs, e.source)
           V == VariablesIn(refs, e.source) \cap shown
<1>1. PICK subfolders \in Browsed(F), nodes \in Browsed(V) :
        links = LinksTo(e, subfolders, nodes)
  BY DEF BrowsedLinks
<1>2. Links(refs, e, shown) = LinksTo(e, F, V)
  <2> DEFINE fs == {Folder(c) : c \in F}
             vs == {Variable(v) : v \in V}
  <2>1. ASSUME NEW r \in Links(refs, e, shown) PROVE r \in {Target(e)} \X (fs \cup vs)
    BY DEF Links
  <2>2. ASSUME NEW r \in {Target(e)} \X (fs \cup vs) PROVE r \in Links(refs, e, shown)
    <3>1. PICK x \in fs \cup vs : r = <<Target(e), x>>
      OBVIOUS
    <3>2. CASE x \in fs
      BY <3>1, <3>2 DEF Links
    <3>3. CASE x \in vs
      BY <3>1, <3>3 DEF Links
    <3> QED
      BY <3>2, <3>3
  <2> HIDE DEF fs, vs
  <2>3. Links(refs, e, shown) = {Target(e)} \X (fs \cup vs)
    BY <2>1, <2>2
  <2> QED
    BY <2>3 DEF LinksTo, fs, vs
<1>3. subfolders \subseteq F /\ nodes \subseteq V
  BY <1>1, BrowsedIsFound
<1>4. /\ Cardinality(F) <= MaxReferences => subfolders = F
      /\ Cardinality(V) <= MaxReferences => nodes = V
  BY <1>1, BrowsedIsFound
<1> HIDE DEF F, V
<1>5. links \subseteq Links(refs, e, shown)
  BY <1>1, <1>2, <1>3 DEF LinksTo
<1> QED
  BY <1>1, <1>2, <1>4, <1>5 DEF F, V

(* The links beside the copies lead to methods.                            *)
LEMMA LinksBesideCopies ==
  ASSUME NEW refs, NEW e,
         NEW links \in IF FoundMethod(refs, e.source)
                       THEN BrowsedLinks(refs, e, {v \in DOMAIN variables :
                                                     IsMethod(v)})
                       ELSE {{}}
  PROVE  links \subseteq Links(refs, e, {v \in DOMAIN variables : IsMethod(v)})
<1>1. PICK shown : shown = {v \in DOMAIN variables : IsMethod(v)}
  OBVIOUS
<1>2. links = {} \/ links \in BrowsedLinks(refs, e, shown)
  BY <1>1
<1>3. links \subseteq Links(refs, e, shown)
  BY <1>2, BrowsedAreLinks
<1> QED
  BY <1>1, <1>3

(* A link leads to a variable that exists.                                 *)
LEMMA LinkedExists ==
  ASSUME ReferencedVariablesExist, NEW path, NEW e, NEW shown,
         NEW r \in Links(references \cup WayReferences(path), e, shown),
         r[2].class = "variable"
  PROVE  r[2].path \in DOMAIN variables
<1>1. PICK v \in VariablesIn(references \cup WayReferences(path), e.source) :
        r = <<Target(e), Variable(v)>>
  BY DEF Links, Folder
<1> QED
  BY <1>1, ShownExists DEF Variable

(* Steps that leave the variables alone and bring references to variables  *)
(* that exist.                                                             *)
LEMMA ReferencesGrow ==
  ASSUME MappingIInv, phase # "implicit", phase' # "implicit",
         i' \in Nat \ {0}, UNCHANGED <<fileVars, pending, unusedVariables>>,
         UNCHANGED variables,
         \A r \in references' \ references :
           r[2].class = "variable" => r[2].path \in DOMAIN variables
  PROVE  Grows
<1>1. ReferencedVariablesExist'
  BY DEF MappingIInv, ReferencedVariablesExist
<1>2. \A v \in DOMAIN variables : variables[v] \notin unusedVariables
  BY DEF MappingIInv, UnusedIsUnmapped, Range
<1> QED
  BY <1>1, <1>2 DEF Grows

(* The copies of a folder stand for what stood in it.                      *)
LEMMA CopyFolderGrows ==
  ASSUME MappingIInv, NEW e, CopyFolder(e), phase = "folders",
         UNCHANGED <<fileVars, pending, unusedVariables>>
  PROVE  Grows
<1> DEFINE refs == references \cup WayReferences(Target(e))
<1>1. ReferencedVariablesExist /\ i \in Nat \ {0}
  BY DEF MappingIInv, ImplicitComesFirst
<1>2. i' = i + 1 /\ phase' = phase
  BY DEF CopyFolder, FolderDone
<1>3. PICK first \in Firsts(refs, e.source),
              links \in IF FoundMethod(refs, e.source)
                        THEN BrowsedLinks(refs, e, {v \in DOMAIN variables :
                                                      IsMethod(v)})
                        ELSE {{}} :
        LET copied == CopiedFolders(refs, e, first)
            new == {n \in CopiedVariables(refs, copied) :
                      n.id \notin DOMAIN variables}
        IN  /\ variables' =
                 [x \in DOMAIN variables \cup {n.id : n \in new} |->
                    IF x \in DOMAIN variables THEN variables[x]
                    ELSE (CHOOSE n \in new : n.id = x).source]
            /\ references' = refs
                 \cup {<<Front(pair.to), Folder(pair.to)>> : pair \in copied}
                 \cup {<<n.in, Variable(n.id)>> : n \in new} \cup links
  BY DEF CopyFolder
<1> DEFINE copied == CopiedFolders(refs, e, first)
           new == {n \in CopiedVariables(refs, copied) :
                     n.id \notin DOMAIN variables}
<1>4. \A n \in new : \E v \in DOMAIN variables : n.source = variables[v]
  <2> SUFFICES ASSUME NEW n \in new
               PROVE  \E v \in DOMAIN variables : n.source = variables[v]
    OBVIOUS
  <2>1. PICK pair \in copied : \E v \in VariablesIn(refs, pair.from) :
          n = [id |-> Append(pair.to, Last(v)), in |-> pair.to,
               source |-> variables[v]]
    BY DEF CopiedVariables
  <2>2. PICK v \in VariablesIn(refs, pair.from) : n.source = variables[v]
    BY <2>1
  <2>3. v \in DOMAIN variables
    BY <1>1, <2>2, ShownExists
  <2> QED
    BY <2>2, <2>3
<1> HIDE DEF copied
<1>5. \A v \in DOMAIN variables : variables[v] \notin unusedVariables
  BY DEF MappingIInv, UnusedIsUnmapped, Range
<1>6. /\ DOMAIN variables' = DOMAIN variables \cup {n.id : n \in new}
      /\ \A v \in DOMAIN variables : variables'[v] = variables[v]
  BY <1>3 DEF copied
<1>7. \A v \in DOMAIN variables' : variables'[v] \notin unusedVariables
  <2> SUFFICES ASSUME NEW v \in DOMAIN variables', v \notin DOMAIN variables
               PROVE  variables'[v] \notin unusedVariables
    BY <1>5, <1>6
  <2>1. PICK n \in new : n.id = v
    BY <1>6
  <2>2. variables'[v] = (CHOOSE m \in new : m.id = v).source
    BY <1>3, <1>6 DEF copied
  <2>3. (CHOOSE m \in new : m.id = v) \in new
    BY <2>1
  <2> QED
    BY <2>2, <2>3, <1>4, <1>5
<1>8. ReferencedVariablesExist'
  <2> SUFFICES ASSUME NEW r \in references', r[2].class = "variable"
               PROVE  r[2].path \in DOMAIN variables'
    BY DEF ReferencedVariablesExist
  <2>1. CASE r \in references
    BY <2>1, <1>1, <1>6 DEF ReferencedVariablesExist
  <2>2. CASE r \in WayReferences(Target(e))
    BY <2>2, WayBringsNoVariable
  <2>3. CASE r \in {<<Front(pair.to), Folder(pair.to)>> : pair \in copied}
    BY <2>3 DEF Folder
  <2>4. CASE r \in {<<n.in, Variable(n.id)>> : n \in new}
    <3>1. PICK n \in new : r = <<n.in, Variable(n.id)>>
      BY <2>4
    <3> QED
      BY <3>1, <1>6 DEF Variable
  <2>5. CASE r \in links
    <3>1. PICK shown : shown = {v \in DOMAIN variables : IsMethod(v)}
      OBVIOUS
    <3>2. r \in Links(refs, e, shown)
      BY <1>3, <2>5, <3>1, LinksBesideCopies
    <3> QED
      BY <3>2, <1>1, <1>6, LinkedExists
  <2> QED
    BY <1>3, <2>1, <2>2, <2>3, <2>4, <2>5 DEF copied
<1>9. /\ DOMAIN variables \subseteq DOMAIN variables'
      /\ i' \in Nat \ {0} /\ phase # "implicit" /\ phase' # "implicit"
  BY <1>1, <1>2, <1>6
<1> HIDE DEF new
<1> QED
  BY <1>6, <1>7, <1>8, <1>9 DEF Grows

(* One <folder> entry.                                                     *)
LEMMA MapFolderGrows == MappingIInv /\ MapFolder => Grows
<1> SUFFICES ASSUME MappingIInv, MapFolder PROVE Grows
  OBVIOUS
<1> DEFINE e == file.folders[i]
<1>1. /\ phase = "folders" /\ UNCHANGED <<fileVars, pending, unusedVariables>>
      /\ i \in Nat \ {0} /\ ReferencedVariablesExist
  BY DEF MapFolder, MappingIInv, ImplicitComesFirst
<1>2. \/ AbortForHistory(e) \/ SkipFolder(e)  \/ RefuseSource(e)
      \/ CreateFolder(e) \/ LinkFolder(e) \/ CopyFolder(e) \/ CopyForever(e)
  BY DEF MapFolder
<1> HIDE DEF e
<1>3. CASE AbortForHistory(e) \/ SkipFolder(e) \/ CopyForever(e)
  <2>1. UNCHANGED nodeVars /\ i' \in Nat \ {0} /\ phase' # "implicit"
    <3>1. CASE AbortForHistory(e)
      BY <1>1, <3>1, RaiseGoesOn DEF AbortForHistory
    <3>2. CASE SkipFolder(e)
      <4>1. UNCHANGED nodeVars /\ (Raise \/ FolderDone(e))
        BY <3>2, Zenon DEF SkipFolder
      <4> QED
        BY <1>1, <4>1, RaiseGoesOn DEF FolderDone
    <3>3. CASE CopyForever(e)
      BY <1>1, <3>3 DEF CopyForever
    <3> QED
      BY <1>3, <3>1, <3>2, <3>3
  <2> QED
    BY <1>1, <2>1, ReferencesGrow DEF nodeVars
<1>4. CASE RefuseSource(e)
  <2>1. /\ references' = references \cup WayReferences(e.destination)
        /\ UNCHANGED variables /\ i' \in Nat \ {0} /\ phase' # "implicit"
    BY <1>1, <1>4, RaiseGoesOn DEF RefuseSource
  <2> QED
    BY <1>1, <2>1, ReferencesGrow, WayBringsNoVariable
<1>5. CASE CreateFolder(e)
  <2>1. /\ references' = references \cup WayReferences(Target(e))
        /\ UNCHANGED variables /\ i' = i + 1 /\ phase' = phase
    BY <1>5 DEF CreateFolder, FolderDone
  <2> QED
    BY <1>1, <2>1, ReferencesGrow, WayBringsNoVariable
<1>6. CASE LinkFolder(e)
  <2> DEFINE refs == references \cup WayReferences(Target(e))
  <2>1. PICK links \in BrowsedLinks(refs, e, DOMAIN variables) :
          /\ references' = refs \cup links
          /\ UNCHANGED variables /\ i' = i + 1 /\ phase' = phase
    BY <1>6 DEF LinkFolder, FolderDone
  <2>2. ASSUME NEW r \in references' \ references, r[2].class = "variable"
        PROVE  r[2].path \in DOMAIN variables
    <3>1. r \in Links(refs, e, DOMAIN variables)
      <4>1. r \in links
        BY <2>1, <2>2, WayBringsNoVariable
      <4> QED
        BY <4>1, BrowsedAreLinks
    <3> QED
      BY <3>1, <2>2, <1>1, LinkedExists
  <2> HIDE DEF refs
  <2> QED
    BY <1>1, <2>1, <2>2, ReferencesGrow
<1>7. CASE CopyFolder(e)
  BY <1>1, <1>7, CopyFolderGrows
<1> QED
  BY <1>2, <1>3, <1>4, <1>5, <1>6, <1>7

(* One <process_variable> entry.                                           *)
LEMMA MapVariableGrows == MappingIInv /\ MapVariable => Grows
<1> SUFFICES ASSUME MappingIInv, MapVariable PROVE Grows
  OBVIOUS
<1> DEFINE e == file.variables[i]
<1>1. /\ phase = "variables" /\ UNCHANGED <<fileVars, pending, unusedVariables>>
      /\ i \in Nat \ {0} /\ ReferencedVariablesExist
  BY DEF MapVariable, MappingIInv, ImplicitComesFirst
<1>2. \/ RefuseVariable(e) \/ KeepOnlyHistory(e)
      \/ LinkVariable(e) \/ CopyVariable(e)
  BY DEF MapVariable
<1>3. e.source \in MappedSources
  <2>1. file.variables \in Seq([source : Seq(STRING), copy : Copies,
              destination : Seq(STRING), name : STRING, history : BOOLEAN])
    BY MappingAssumption DEF MappingIInv, ImplicitComesFirst
  <2>2. i \in DOMAIN file.variables
    BY <1>1, <2>1 DEF MapVariable
  <2> QED
    BY <2>2 DEF MappedSources, ListedSources
<1>4. \A v \in DOMAIN variables : variables[v] \notin unusedVariables
  BY DEF MappingIInv, UnusedIsUnmapped, Range
<1> HIDE DEF e
<1>5. CASE RefuseVariable(e) \/ KeepOnlyHistory(e)
  <2>1. UNCHANGED nodeVars /\ i' \in Nat \ {0} /\ phase' # "implicit"
    BY <1>1, <1>5, RaiseGoesOn DEF RefuseVariable, KeepOnlyHistory, Advance
  <2> QED
    BY <1>1, <2>1, ReferencesGrow DEF nodeVars
<1>6. CASE LinkVariable(e)
  <2>1. /\ references' = references \cup WayReferences(e.destination)
                           \cup {<<e.destination, Variable(e.source)>>}
        /\ UNCHANGED variables /\ i' = i + 1 /\ phase' = phase
        /\ e.source \in DOMAIN variables
    BY <1>6 DEF LinkVariable, Advance, VariableRefused
  <2>2. ASSUME NEW r \in references' \ references, r[2].class = "variable"
        PROVE  r[2].path \in DOMAIN variables
    BY <2>1, <2>2, WayBringsNoVariable DEF Variable
  <2> QED
    BY <1>1, <2>1, <2>2, ReferencesGrow
<1>7. CASE CopyVariable(e)
  <2>1. \/ /\ UNCHANGED variables
           /\ references' = references \cup WayReferences(e.destination)
           /\ phase' # "implicit" /\ i' \in Nat \ {0}
        \/ /\ CopyId(e) \notin DOMAIN variables
           /\ variables' = WithVariable(CopyId(e), e.source)
           /\ references' = references \cup WayReferences(e.destination)
                              \cup {<<e.destination, Variable(CopyId(e))>>}
           /\ i' = i + 1 /\ phase' = phase
    BY <1>1, <1>7, RaiseGoesOn DEF CopyVariable, Advance, IsTaken
  <2>2. CASE UNCHANGED variables /\ phase' # "implicit" /\ i' \in Nat \ {0}
             /\ references' = references \cup WayReferences(e.destination)
    BY <1>1, <2>2, ReferencesGrow, WayBringsNoVariable
  <2>3. CASE /\ CopyId(e) \notin DOMAIN variables
             /\ variables' = WithVariable(CopyId(e), e.source)
             /\ references' = references \cup WayReferences(e.destination)
                                \cup {<<e.destination, Variable(CopyId(e))>>}
             /\ i' = i + 1 /\ phase' = phase
    <3>1. /\ DOMAIN variables' = DOMAIN variables \cup {CopyId(e)}
          /\ variables'[CopyId(e)] = e.source
          /\ \A v \in DOMAIN variables : variables'[v] = variables[v]
      BY <2>3 DEF WithVariable
    <3>2. e.source \notin unusedVariables
      BY <1>3 DEF MappingIInv, UnusedIsUnneeded
    <3>3. \A v \in DOMAIN variables' : variables'[v] \notin unusedVariables
      BY <3>1, <3>2, <1>4
    <3>4. ReferencedVariablesExist'
      <4> SUFFICES ASSUME NEW r \in references', r[2].class = "variable"
                   PROVE  r[2].path \in DOMAIN variables'
        BY DEF ReferencedVariablesExist
      <4>1. CASE r \in references
        BY <4>1, <1>1, <3>1 DEF ReferencedVariablesExist
      <4>2. CASE r \in WayReferences(e.destination)
        BY <4>2, WayBringsNoVariable
      <4>3. CASE r = <<e.destination, Variable(CopyId(e))>>
        BY <4>3, <3>1 DEF Variable
      <4> QED
        BY <2>3, <4>1, <4>2, <4>3
    <3> QED
      BY <1>1, <2>3, <3>1, <3>3, <3>4 DEF Grows
  <2> QED
    BY <2>1, <2>2, <2>3
<1> QED
  BY <1>2, <1>5, <1>6, <1>7

(* One <additional_variable> entry.                                        *)
LEMMA AddVariableGrows == MappingIInv /\ AddVariable => Grows
<1> SUFFICES ASSUME MappingIInv, AddVariable PROVE Grows
  OBVIOUS
<1> DEFINE e == file.additional[i]
           id == Append(e.destination, e.name)
<1>1. /\ phase = "additional" /\ i \in Nat \ {0}
      /\ UNCHANGED <<fileVars, pending, unusedVariables>>
  BY DEF AddVariable, MappingIInv, ImplicitComesFirst
<1>2. \/ Raise /\ UNCHANGED nodeVars
      \/ /\ references' = references \cup WayReferences(e.destination)
                             \cup {<<e.destination, Additional(id)>>}
         /\ Advance /\ UNCHANGED variables
  BY DEF AddVariable
<1>3. UNCHANGED variables /\ i' \in Nat \ {0} /\ phase' # "implicit"
  BY <1>1, <1>2, RaiseGoesOn DEF Advance, nodeVars
<1>4. ASSUME NEW r \in references' \ references, r[2].class = "variable"
      PROVE  r[2].path \in DOMAIN variables
  BY <1>2, <1>4, WayBringsNoVariable DEF Additional, nodeVars
<1> QED
  BY <1>1, <1>3, <1>4, ReferencesGrow

-----------------------------------------------------------------------------
(* The inductive invariant holds in every reachable state.                 *)
THEOREM MappingInvariant == Spec => []MappingIInv
<1>1. ASSUME MappingIInv, [Next]_vars PROVE MappingIInv'
  <2>1. CASE MapImplicit
    BY <1>1, <2>1, MapImplicitKeeps
  <2>2. CASE MapFolder
    BY <1>1, <2>2, MapFolderGrows, GrowingKeeps
  <2>3. CASE MapVariable
    BY <1>1, <2>3, MapVariableGrows, GrowingKeeps
  <2>4. CASE AddVariable
    BY <1>1, <2>4, AddVariableGrows, GrowingKeeps
  <2>5. CASE EndPhase
    BY <1>1, <2>5, EndPhaseKeeps
  <2>6. CASE UNCHANGED vars
    BY <1>1, <2>6
       DEF MappingIInv, ImplicitComesFirst, NamesAreIds, ReferencedVariablesExist,
           EachVariableDecided, UnusedIsUnneeded, UnusedIsUnmapped, IsMappable,
           PVs, MappedSources, ListedSources, Range, vars, fileVars, nodeVars
  <2> QED
    BY <1>1, <2>1, <2>2, <2>3, <2>4, <2>5, <2>6 DEF Next
<1> QED
  BY <1>1, InitMapping, PTL DEF Spec

(* What the application is told not to send has no node: whatever is       *)
(* linked or copied, the exclusion in the constructor stays the last word. *)
THEOREM UnusedStaysUnmapped == Spec => []UnusedIsUnmapped
<1>1. MappingIInv => UnusedIsUnmapped
  BY DEF MappingIInv
<1> QED
  BY <1>1, MappingInvariant, PTL

(* The patterns never take away a variable that an entry names, and the    *)
(* warning about names that the manager lacks is never about another one.  *)
THEOREM KnownVariablesStayMapped == Spec => []KnownVariablesAreMapped
<1>1. MappingIInv => KnownVariablesAreMapped
  <2> SUFFICES ASSUME MappingIInv PROVE KnownVariablesAreMapped
    OBVIOUS
  <2>1. ASSUME phase # "implicit", NEW p \in MappedSources \cap PVs, IsMappable(p)
        PROVE  p \in DOMAIN variables /\ variables[p] = p
    BY <2>1 DEF MappingIInv, ImplicitComesFirst, EachVariableDecided,
                UnusedIsUnneeded
  <2>2. ASSUME phase = "mapped", NEW p \in NotMappable \cap PVs
        PROVE  ~IsMappable(p)
    BY <2>1, <2>2 DEF NotMappable, Range
  <2> QED
    BY <2>1, <2>2 DEF KnownVariablesAreMapped
<1> QED
  BY <1>1, MappingInvariant, PTL

(* No later mapping changes what an id stands for.                         *)
THEOREM IdsAlwaysKeepTheirSource == Spec => IdsKeepTheirSource
<1>1. ASSUME MappingIInv, [Next]_vars
      PROVE  [\A v \in DOMAIN variables :
                v \in DOMAIN variables' /\ variables'[v] = variables[v]]_vars
  <2>1. CASE MapImplicit
    <3>1. PICK p \in pending : variables' = WithVariable(p, p) \/ UNCHANGED variables
      BY <2>1 DEF MapImplicit
    <3>2. p \notin DOMAIN variables
      BY <1>1, <2>1 DEF MapImplicit, MappingIInv, NamesAreIds
    <3> QED
      BY <3>1, <3>2 DEF WithVariable
  <2>2. CASE MapFolder \/ MapVariable \/ AddVariable
    BY <1>1, <2>2, MapFolderGrows, MapVariableGrows, AddVariableGrows DEF Grows
  <2>3. CASE EndPhase
    BY <2>3 DEF EndPhase, EndOf, nodeVars
  <2> QED
    BY <1>1, <2>1, <2>2, <2>3 DEF Next
<1> QED
  BY <1>1, MappingInvariant, PTL DEF Spec, IdsKeepTheirSource

-----------------------------------------------------------------------------
(* The entries that the mapping is through with, and what holds of each.   *)
WorkedOff(list, this, later) ==
  {k \in DOMAIN list : (phase = this /\ k < i) \/ phase \in later}

WorkedFolders ==
  WorkedOff(file.folders, "folders", {"variables", "additional", "mapped"})
WorkedVariables ==
  WorkedOff(file.variables, "variables", {"additional", "mapped"})

VariableSettled(k) ==
  LET e == file.variables[k]
  IN  <<"variables", k>> \in refused \/ InPlace(e) \/ (e.history /\ Renames(e))

VariableHistoryKept(k) ==
  LET e == file.variables[k]
  IN  e.history /\ <<"variables", k>> \notin refused /\ e.name # ""
      => IF e.copy = "TRUE"
         THEN /\ CopyId(e) \in historyvariables \cap DOMAIN variables
              /\ variables[CopyId(e)] = e.source
         ELSE e.source \in historyvariables \cap DOMAIN variables

FolderHistoryKept(k) ==
  LET e == file.folders[k]
  IN  e.history /\ <<"folders", k>> \notin refused /\ e.name # ""
      => Target(e) \in historyfolders \cap folders

EntriesSettled ==
  /\ \A k \in WorkedVariables : VariableSettled(k) /\ VariableHistoryKept(k)
  /\ \A k \in WorkedFolders : FolderHistoryKept(k)

(* Nothing that an entry made or that was noted of it is taken back.       *)
NothingLost ==
  /\ UNCHANGED file
  /\ folders \subseteq folders'
  /\ DOMAIN variables \subseteq DOMAIN variables'
  /\ \A v \in DOMAIN variables : variables'[v] = variables[v]
  /\ references \subseteq references'
  /\ refused \subseteq refused'
  /\ historyfolders \subseteq historyfolders'
  /\ historyvariables \subseteq historyvariables'

(* So an entry that is settled stays it.                                   *)
LEMMA SettledStays ==
  ASSUME NothingLost
  PROVE  /\ \A k : VariableSettled(k) => VariableSettled(k)'
         /\ \A k : VariableHistoryKept(k) => VariableHistoryKept(k)'
         /\ \A k : FolderHistoryKept(k) => FolderHistoryKept(k)'
<1>1. ASSUME NEW k, VariableSettled(k) PROVE VariableSettled(k)'
  BY <1>1 DEF NothingLost, VariableSettled, InPlace, CopyId, Renames, NameOf
<1>2. ASSUME NEW k, VariableHistoryKept(k) PROVE VariableHistoryKept(k)'
  BY <1>2 DEF NothingLost, VariableHistoryKept, CopyId
<1>3. ASSUME NEW k, FolderHistoryKept(k) PROVE FolderHistoryKept(k)'
  BY <1>3 DEF NothingLost, FolderHistoryKept, Target
<1> QED
  BY <1>1, <1>2, <1>3

(* A step that goes through with the entry i of a list settles that entry. *)
LEMMA StepSettles ==
  ASSUME EntriesSettled, NothingLost,
         \A k \in WorkedVariables' \ WorkedVariables :
           VariableSettled(k)' /\ VariableHistoryKept(k)',
         \A k \in WorkedFolders' \ WorkedFolders : FolderHistoryKept(k)'
  PROVE  EntriesSettled'
<1>1. ASSUME NEW k \in WorkedVariables'
      PROVE  VariableSettled(k)' /\ VariableHistoryKept(k)'
  BY SettledStays DEF EntriesSettled
<1>2. ASSUME NEW k \in WorkedFolders' PROVE FolderHistoryKept(k)'
  BY SettledStays DEF EntriesSettled
<1> QED
  BY <1>1, <1>2 DEF EntriesSettled

(* The lists of a mapping file.                                            *)
LEMMA ListsOfFile ==
  ASSUME MappingIInv
  PROVE  /\ DOMAIN file.folders = 1..Len(file.folders)
         /\ DOMAIN file.variables = 1..Len(file.variables)
         /\ Len(file.folders) \in Nat /\ Len(file.variables) \in Nat
         /\ \A k \in DOMAIN file.folders :
              file.folders[k] \in [source : Seq(STRING), copy : Copies,
                destination : Seq(STRING), name : STRING, history : BOOLEAN,
                described : BOOLEAN]
         /\ \A k \in DOMAIN file.variables :
              file.variables[k] \in [source : Seq(STRING), copy : Copies,
                destination : Seq(STRING), name : STRING, history : BOOLEAN]
<1>1. file \in Files
  BY DEF MappingIInv, ImplicitComesFirst
<1> DEFINE V == [source : Seq(STRING), copy : Copies,
                 destination : Seq(STRING), name : STRING, history : BOOLEAN]
           F == [source : Seq(STRING), copy : Copies,
                 destination : Seq(STRING), name : STRING, history : BOOLEAN,
                 described : BOOLEAN]
<1>2. file.variables \in Seq(V) /\ file.folders \in Seq(F)
  BY <1>1, MappingAssumption
<1> HIDE DEF V, F
<1>3. /\ DOMAIN file.folders = 1..Len(file.folders)
      /\ DOMAIN file.variables = 1..Len(file.variables)
      /\ Len(file.folders) \in Nat /\ Len(file.variables) \in Nat
      /\ \A k \in DOMAIN file.folders : file.folders[k] \in F
      /\ \A k \in DOMAIN file.variables : file.variables[k] \in V
  BY <1>2
<1> QED
  BY <1>3 DEF V, F

(* A folder that is created with those on its way is there.                *)
LEMMA TargetCreated ==
  ASSUME NEW e, e.destination \in Seq(STRING), e.name \in STRING
  PROVE  /\ Target(e) \in WithFolders(Target(e))
         /\ CopyId(e) = IF e.name = "" THEN e.destination \o e.source
                        ELSE Target(e)
<1>1. /\ Target(e) \in Seq(STRING) /\ Len(Target(e)) \in 1..Len(Target(e))
      /\ SubSeq(Target(e), 1, Len(Target(e))) = Target(e)
      /\ Target(e) = e.destination \o <<e.name>>
  BY DEF Target
<1> QED
  BY <1>1 DEF WithFolders, Way, CopyId

(* The constructor and the end of a list.                                  *)
LEMMA BetweenListsSettled ==
  ASSUME MappingIInv, EntriesSettled, MapImplicit \/ EndPhase
  PROVE  EntriesSettled'
<1>1. CASE MapImplicit
  <2>1. phase' = "implicit"
    BY <1>1 DEF MapImplicit
  <2> QED
    BY <2>1 DEF EntriesSettled, WorkedFolders, WorkedVariables, WorkedOff
<1>2. CASE EndPhase
  <2>1. NothingLost
    BY <1>2 DEF EndPhase, EndOf, NothingLost, fileVars, nodeVars, historyVars
  <2>2. /\ i \in Nat \ {0} /\ i' = 1
        /\ \/ phase = "implicit" /\ phase' = "folders"
           \/ phase = "folders" /\ phase' = "variables" /\ i > Len(file.folders)
           \/ phase = "variables" /\ phase' = "additional"
                /\ i > Len(file.variables)
           \/ phase = "additional" /\ phase' = "mapped"
        /\ UNCHANGED file
    BY <1>2 DEF MappingIInv, ImplicitComesFirst, EndPhase, EndOf, fileVars
  <2>3. WorkedFolders' \subseteq WorkedFolders
    BY <2>2, ListsOfFile DEF WorkedFolders, WorkedOff
  <2>4. WorkedVariables' \subseteq WorkedVariables
    BY <2>2, ListsOfFile DEF WorkedVariables, WorkedOff
  <2> QED
    BY <2>1, <2>3, <2>4, StepSettles
<1> QED
  BY <1>1, <1>2

(* What happens to the place in the list and to the errors.                *)
LEMMA ErrorsAreKept ==
  ASSUME Raise \/ Advance
  PROVE  /\ refused \subseteq refused'
         /\ phase' = phase \/ phase' = "aborted"
         /\ phase' = phase => i' = i + 1 \/ phase = "aborted"
         /\ Raise => <<phase, i>> \in refused'
BY DEF Raise, Advance

(* One <folder> entry: with a name its history is that of the new folder,  *)
(* which every way to carry out the entry creates or finds.                *)
LEMMA FolderSettles ==
  ASSUME MappingIInv, EntriesSettled, MapFolder
  PROVE  EntriesSettled'
<1> DEFINE e == file.folders[i]
<1>1. /\ phase = "folders" /\ i \in DOMAIN file.folders /\ UNCHANGED fileVars
      /\ i \in Nat \ {0} /\ UNCHANGED historyvariables
  BY ListsOfFile DEF MapFolder, MappingIInv, ImplicitComesFirst
<1>2. /\ e.destination \in Seq(STRING) /\ e.name \in STRING
  BY <1>1, ListsOfFile
<1>3. \/ AbortForHistory(e)
      \/ /\ historyfolders' = historyfolders \cup FolderHistory(e)
         /\ \/ SkipFolder(e) \/ RefuseSource(e) \/ CreateFolder(e)
            \/ LinkFolder(e) \/ CopyFolder(e) \/ CopyForever(e)
  BY DEF MapFolder
<1>4. UNCHANGED file
  BY <1>1 DEF fileVars
<1>5. \/ Raise
      \/ /\ i' = i + 1 /\ phase' = phase /\ refused \subseteq refused'
         /\ Target(e) \in folders' \/ e.name = ""
         /\ historyfolders' = historyfolders \cup FolderHistory(e)
      \/ phase' = "endless" /\ UNCHANGED refused
  <2> HIDE DEF e
  <2>1. CASE SkipFolder(e)
    <3>1. \/ Raise
          \/ FolderDone(e) /\ UNCHANGED folders
               /\ (e.name = "" \/ OnlyDescribes(e))
      BY <2>1, Zenon DEF SkipFolder, nodeVars
    <3>2. CASE Raise
      BY <3>2
    <3>3. CASE /\ FolderDone(e) /\ UNCHANGED folders
               /\ e.name = "" \/ OnlyDescribes(e)
      <4>1. Target(e) \in folders' \/ e.name = ""
        BY <3>3, Zenon DEF OnlyDescribes
      <4>2. Raise \/ historyfolders' = historyfolders \cup FolderHistory(e)
        BY <1>3, Zenon DEF AbortForHistory, e
      <4>3. i' = i + 1 /\ phase' = phase /\ refused \subseteq refused'
        BY <3>3 DEF FolderDone
      <4> QED
        BY <4>1, <4>2, <4>3
    <3> QED
      BY <3>1, <3>2, <3>3
  <2>2. CASE RefuseSource(e) \/ AbortForHistory(e)
    BY <2>2 DEF RefuseSource, AbortForHistory
  <2>3. CASE /\ CreateFolder(e) \/ LinkFolder(e) \/ CopyFolder(e)
             /\ historyfolders' = historyfolders \cup FolderHistory(e)
    <3>1. FolderDone(e) /\ WithFolders(Target(e)) \subseteq folders'
      BY <2>3 DEF CreateFolder, LinkFolder, CopyFolder
    <3> QED
      BY <3>1, <2>3, <1>2, TargetCreated DEF FolderDone, e
  <2>4. CASE CopyForever(e)
    BY <2>4 DEF CopyForever
  <2> QED
    BY <1>3, <2>1, <2>2, <2>3, <2>4 DEF e
<1>6. folders \subseteq folders' /\ references \subseteq references'
  <2> HIDE DEF e
  <2>1. CASE AbortForHistory(e) \/ SkipFolder(e) \/ CopyForever(e)
    BY <2>1, Zenon DEF AbortForHistory, SkipFolder, CopyForever, nodeVars
  <2>2. CASE RefuseSource(e) \/ CreateFolder(e) \/ LinkFolder(e)
    BY <2>2 DEF RefuseSource, CreateFolder, LinkFolder, WithFolders
  <2>3. CASE CopyFolder(e)
    BY <2>3 DEF CopyFolder, WithFolders
  <2> QED
    BY <1>3, <2>1, <2>2, <2>3 DEF e
<1>7. historyfolders \subseteq historyfolders'
  BY <1>3 DEF AbortForHistory
<1>8. NothingLost
  BY <1>1, <1>4, <1>5, <1>6, <1>7, MapFolderGrows, ErrorsAreKept
     DEF NothingLost, Grows
<1>9. WorkedVariables' = {}
  BY <1>1, <1>5, ErrorsAreKept DEF WorkedVariables, WorkedOff
<1>10. ASSUME NEW k \in WorkedFolders' \ WorkedFolders
       PROVE  FolderHistoryKept(k)'
  <2>1. k = i /\ phase' = "folders"
    <3>1. (phase' = phase /\ i' = i + 1) \/ phase' \in {"aborted", "endless"}
      BY <1>1, <1>5, ErrorsAreKept
    <3> HIDE DEF e
    <3>2. k \in DOMAIN file.folders /\ phase' = "folders" /\ i' = i + 1
          /\ k < i' /\ ~(k < i)
      BY <1>1, <1>4, <3>1 DEF WorkedFolders, WorkedOff
    <3> QED
      BY <1>1, <3>2, ListsOfFile
  <2>2. CASE Raise
    BY <2>1, <2>2, <1>1, ErrorsAreKept DEF FolderHistoryKept
  <2>3. CASE /\ Target(e) \in folders' \/ e.name = ""
             /\ historyfolders' = historyfolders \cup FolderHistory(e)
    BY <2>1, <2>3, <1>4 DEF FolderHistoryKept, FolderHistory, Target
  <2> QED
    BY <2>1, <2>2, <2>3, <1>1, <1>5
<1> QED
  BY <1>8, <1>9, <1>10, StepSettles

(* One <process_variable> entry: it raises an error, only assigns a        *)
(* history, or leaves its node in the folder of its destination.           *)
LEMMA VariableSettles ==
  ASSUME MappingIInv, EntriesSettled, MapVariable
  PROVE  EntriesSettled'
<1> DEFINE e == file.variables[i]
<1>1. /\ phase = "variables" /\ i \in DOMAIN file.variables
      /\ i \in Nat \ {0} /\ UNCHANGED <<file, historyfolders>>
  BY ListsOfFile DEF MapVariable, MappingIInv, ImplicitComesFirst, fileVars
<1>2. /\ e.destination \in Seq(STRING) /\ e.name \in STRING
      /\ e.history \in BOOLEAN
  BY <1>1, ListsOfFile
<1>3. /\ historyvariables' = historyvariables \cup VariableHistory(e)
      /\ \/ RefuseVariable(e) \/ KeepOnlyHistory(e)
         \/ LinkVariable(e) \/ CopyVariable(e)
  BY DEF MapVariable
<1> HIDE DEF e
<1>4. /\ folders \subseteq folders' /\ references \subseteq references'
      /\ Raise \/ Advance \/ (phase' = "aborted" /\ UNCHANGED refused)
  BY <1>3 DEF RefuseVariable, KeepOnlyHistory, LinkVariable, CopyVariable,
              nodeVars, WithFolders
<1>5. NothingLost
  BY <1>1, <1>3, <1>4, MapVariableGrows, ErrorsAreKept DEF NothingLost, Grows
<1>6. WorkedFolders' \subseteq WorkedFolders
  BY <1>1, <1>4, ErrorsAreKept DEF WorkedFolders, WorkedOff
<1>7. ASSUME NEW k \in WorkedVariables' \ WorkedVariables
      PROVE  VariableSettled(k)' /\ VariableHistoryKept(k)'
  <2>1. k = i /\ phase' = "variables" /\ e = file'.variables[k]
    BY <1>1, <1>4, ErrorsAreKept, ListsOfFile DEF WorkedVariables, WorkedOff, e
  <2>2. CASE Raise
    BY <2>1, <2>2, <1>1, ErrorsAreKept DEF VariableSettled, VariableHistoryKept
  <2>3. e.source \in DOMAIN variables => e.source \in DOMAIN variables'
    BY <1>5 DEF NothingLost
  <2>4. CASE KeepOnlyHistory(e)
    <3>1. /\ e.copy # "TRUE" /\ e.source # Root /\ e.history /\ Renames(e)
          /\ e.source \in DOMAIN variables
      BY <2>4 DEF KeepOnlyHistory, VariableRefused, Renames
    <3> QED
      BY <3>1, <2>1, <2>3, <1>3
         DEF VariableSettled, VariableHistoryKept, VariableHistory, Renames,
             NameOf
  <2>5. CASE LinkVariable(e)
    <3>1. /\ e.copy # "TRUE" /\ e.source # Root /\ e.source \in DOMAIN variables
          /\ <<e.destination, Variable(e.source)>> \in references'
      BY <2>5 DEF LinkVariable, VariableRefused
    <3> QED
      BY <3>1, <2>1, <2>3, <1>3
         DEF VariableSettled, InPlace, VariableHistoryKept, VariableHistory
  <2>6. CASE CopyVariable(e) /\ ~Raise
    <3>1. e.copy = "TRUE" /\ variables' = WithVariable(CopyId(e), e.source)
      BY <2>6, <2>1 DEF CopyVariable
    <3>2. CopyId(e) \in DOMAIN variables' /\ variables'[CopyId(e)] = e.source
      BY <3>1 DEF WithVariable
    <3>3. e.history /\ e.name # "" => CopyId(e) \in historyvariables'
      <4>1. e.name # "" => CopyId(e) = Append(e.destination, e.name)
        BY <1>2, TargetCreated DEF Target
      <4> QED
        BY <4>1, <1>3 DEF VariableHistory
    <3> QED
      BY <3>1, <3>2, <3>3, <2>1
         DEF VariableSettled, InPlace, VariableHistoryKept, CopyId
  <2> QED
    BY <1>3, <2>2, <2>4, <2>5, <2>6 DEF RefuseVariable
<1> QED
  BY <1>5, <1>6, <1>7, StepSettles

(* One <additional_variable> entry.                                        *)
LEMMA AdditionalSettles ==
  ASSUME MappingIInv, EntriesSettled, AddVariable
  PROVE  EntriesSettled'
<1>1. /\ phase = "additional" /\ i \in Nat \ {0}
      /\ UNCHANGED <<file, historyfolders, historyvariables>>
      /\ Raise \/ Advance
      /\ folders \subseteq folders' /\ references \subseteq references'
  BY DEF AddVariable, MappingIInv, ImplicitComesFirst, fileVars, historyVars,
         nodeVars, WithFolders
<1>2. NothingLost
  BY <1>1, AddVariableGrows, ErrorsAreKept DEF NothingLost, Grows
<1>3. WorkedFolders' \subseteq WorkedFolders
  BY <1>1, ErrorsAreKept DEF WorkedFolders, WorkedOff
<1>4. WorkedVariables' \subseteq WorkedVariables
  BY <1>1, ErrorsAreKept DEF WorkedVariables, WorkedOff
<1> QED
  BY <1>2, <1>3, <1>4, StepSettles

(* The entries that are worked off are settled in every reachable state.   *)
THEOREM EntriesAlwaysSettled == Spec => []EntriesSettled
<1>1. Init => EntriesSettled
  BY DEF Init, EntriesSettled, WorkedFolders, WorkedVariables, WorkedOff
<1>2. ASSUME MappingIInv, EntriesSettled, [Next]_vars PROVE EntriesSettled'
  <2>1. CASE MapImplicit \/ EndPhase
    BY <1>2, <2>1, BetweenListsSettled
  <2>2. CASE MapFolder
    BY <1>2, <2>2, FolderSettles
  <2>3. CASE MapVariable
    BY <1>2, <2>3, VariableSettles
  <2>4. CASE AddVariable
    BY <1>2, <2>4, AdditionalSettles
  <2>5. CASE UNCHANGED vars
    <3>1. NothingLost
      BY <2>5 DEF NothingLost, vars, fileVars, nodeVars, historyVars
    <3>2. WorkedFolders' = WorkedFolders /\ WorkedVariables' = WorkedVariables
      BY <2>5 DEF WorkedFolders, WorkedVariables, WorkedOff, vars, fileVars
    <3> QED
      BY <1>2, <3>1, <3>2, StepSettles
  <2> QED
    BY <1>2, <2>1, <2>2, <2>3, <2>4, <2>5 DEF Next
<1> QED
  BY <1>1, <1>2, MappingInvariant, PTL DEF Spec

(* No entry for a process variable fails in silence (explicitVarMapping).  *)
THEOREM AlwaysMappedOrReported == Spec => []MappedOrReported
<1>1. EntriesSettled => MappedOrReported
  BY DEF EntriesSettled, MappedOrReported, WorkedVariables, WorkedOff,
         VariableSettled
<1> QED
  BY <1>1, EntriesAlwaysSettled, PTL

(* The ids noted for the history are ids of the nodes the entries made.    *)
THEOREM HistoryAlwaysReachesNode == Spec => []HistoryReachesNode
<1>1. EntriesSettled => HistoryReachesNode
  BY DEF EntriesSettled, HistoryReachesNode, WorkedVariables, WorkedFolders,
         WorkedOff, VariableHistoryKept, FolderHistoryKept
<1> QED
  BY <1>1, EntriesAlwaysSettled, PTL

-----------------------------------------------------------------------------

-----------------------------------------------------------------------------
(* Browsing.  Nodes are added with the folders on the way to them, so each *)
(* hangs where a client comes to it.  The paths of nodes are not empty: the *)
(* root folder is none of them.                                            *)
Paths == Seq(STRING) \ {Root}

(* The inductive invariant: every node can be browsed, and references are  *)
(* finitely many, so that the walk of deepCopyHierarchicalLayer ends.      *)
Browsable ==
  /\ folders \subseteq Paths /\ DOMAIN variables \subseteq Paths
  /\ additionalVariables \subseteq Paths
  /\ IsFiniteSet(references)
  /\ NodesBrowsable

(* The beginning of a path of so many segments is again a path.            *)
LEMMA InitialSegment ==
  ASSUME NEW S, NEW s \in Seq(S), NEW n \in 0..Len(s)
  PROVE  /\ SubSeq(s, 1, n) \in Seq(S) /\ Len(SubSeq(s, 1, n)) = n
         /\ SubSeq(s, 1, n) = [k \in 1..n |-> s[k]]
<1>1. n \in Nat /\ Len(s) \in Nat /\ n <= Len(s)
  OBVIOUS
<1>2. SubSeq(s, 1, n) = [k \in 1..n |-> s[k]]
  BY <1>1
<1>3. \A k \in 1..n : s[k] \in S
  BY <1>1, ElementOfSeq
<1>4. [k \in 1..n |-> s[k]] \in Seq(S) /\ Len([k \in 1..n |-> s[k]]) = n
  BY <1>1, <1>3
<1> QED
  BY <1>2, <1>4

(* The folder that a node hangs in by its id: a shorter path.              *)
LEMMA ParentOfPath ==
  ASSUME NEW path \in Paths
  PROVE  /\ Front(path) \in Seq(STRING) /\ Len(Front(path)) < Len(path)
         /\ Len(path) \in Nat \ {0} /\ Last(path) \in STRING
         /\ Front(path) = SubSeq(path, 1, Len(path) - 1)
<1>1. path \in Seq(STRING) /\ Len(path) \in Nat \ {0}
  BY EmptySeq DEF Paths, Root
<1>2. /\ SubSeq(path, 1, Len(path) - 1) \in Seq(STRING)
      /\ Len(SubSeq(path, 1, Len(path) - 1)) = Len(path) - 1
  <2>1. Len(path) - 1 \in 0..Len(path)
    BY <1>1
  <2> QED
    BY <1>1, <2>1, InitialSegment
<1>3. path[Len(path)] \in STRING
  BY <1>1, ElementOfSeq
<1> QED
  BY <1>1, <1>2, <1>3 DEF Front, Last

(* An element that is appended is the last, in front of it is what was.    *)
LEMMA FrontOfAppend ==
  ASSUME NEW S, NEW s \in Seq(S), NEW x \in S
  PROVE  /\ Append(s, x) \in Seq(S) /\ Append(s, x) # <<>>
         /\ Len(s) \in Nat /\ Len(s) < Len(Append(s, x))
         /\ Front(Append(s, x)) = s /\ Last(Append(s, x)) = x
<1> DEFINE t == Append(s, x)
<1>1. /\ t \in Seq(S) /\ t # <<>> /\ Len(t) = Len(s) + 1 /\ Len(s) \in Nat
      /\ \A k \in 1..Len(s) : t[k] = s[k]
      /\ t[Len(s) + 1] = x
  BY AppendProperties, LenProperties
<1> HIDE DEF t
<1>2. SubSeq(t, 1, Len(s)) = [k \in 1..Len(s) |-> t[k]]
  <2>1. Len(s) \in 0..Len(t)
    BY <1>1
  <2> QED
    BY <1>1, <2>1, InitialSegment
<1>3. s = [k \in 1..Len(s) |-> s[k]]
  OBVIOUS
<1>4. Front(t) = SubSeq(t, 1, Len(s))
  BY <1>1 DEF Front
<1>5. Front(t) = s
  BY <1>1, <1>2, <1>3, <1>4
<1>6. Len(s) < Len(t)
  BY <1>1
<1> QED
  BY <1>1, <1>5, <1>6 DEF Last, t

(* A name below a path: its node hangs in that path.                       *)
LEMMA ChildOfPath ==
  ASSUME NEW path \in Seq(STRING), NEW name \in STRING
  PROVE  /\ Append(path, name) \in Paths /\ Len(path) < Len(Append(path, name))
         /\ Front(Append(path, name)) = path
<1>1. /\ Append(path, name) \in Seq(STRING) /\ Append(path, name) # <<>>
      /\ Len(path) < Len(Append(path, name))
      /\ Front(Append(path, name)) = path
  BY FrontOfAppend
<1> QED
  BY <1>1, Zenon DEF Paths, Root

(* Of finitely many elements a function has finitely many values.          *)
LEMMA ImageIsFinite ==
  ASSUME NEW S, IsFiniteSet(S), NEW f
  PROVE  IsFiniteSet({f[x] : x \in S})
<1>1. [x \in S |-> f[x]] \in Surjection(S, {f[x] : x \in S})
  BY DEF Surjection
<1> QED
  BY <1>1, FS_Surjection

(* createFolderPath: the folders on the way to a path are there, and each  *)
(* that is created hangs in the one before it.                             *)
LEMMA WayIsBrowsable ==
  ASSUME folders \subseteq Paths, NEW path \in Seq(STRING)
  PROVE  /\ WithFolders(path) \subseteq Paths /\ folders \subseteq WithFolders(path)
         /\ path = Root \/ path \in WithFolders(path)
         /\ IsFiniteSet(WayReferences(path))
         /\ \A r \in WayReferences(path) :
              \E f \in WithFolders(path) :
                r = <<Front(f), Folder(f)>> /\ Front(f) \in WithFolders(path) \cup {Root}
         /\ \A f \in WithFolders(path) \ folders :
              /\ Front(f) \in WithFolders(path) \cup {Root}
              /\ <<Front(f), Folder(f)>> \in WayReferences(path)
<1>1. Len(path) \in Nat
  OBVIOUS
<1> DEFINE start == [k \in 0..Len(path) |-> SubSeq(path, 1, k)]
<1>2. ASSUME NEW k \in 1..Len(path)
      PROVE  start[k] \in Paths /\ Front(start[k]) = start[k - 1]
  <2>1. /\ k \in 0..Len(path) /\ k - 1 \in 0..Len(path) /\ k \in Nat
    BY <1>1
  <2>2. /\ SubSeq(path, 1, k) \in Seq(STRING) /\ Len(SubSeq(path, 1, k)) = k
        /\ \A j \in 1..k : SubSeq(path, 1, k)[j] = path[j]
    BY <1>1, <2>1
  <2>3. SubSeq(SubSeq(path, 1, k), 1, k - 1) = SubSeq(path, 1, k - 1)
    <3> DEFINE s == SubSeq(path, 1, k)
    <3>1. SubSeq(s, 1, k - 1) = [j \in 1..(k - 1) |-> s[j]]
      BY <2>1, <2>2
    <3>2. SubSeq(path, 1, k - 1) = [j \in 1..(k - 1) |-> path[j]]
      BY <1>1, <2>1
    <3> HIDE DEF s
    <3>3. \A j \in 1..(k - 1) : s[j] = path[j]
      BY <2>1, <2>2 DEF s
    <3> QED
      BY <3>1, <3>2, <3>3 DEF s
  <2>4. start[k] = SubSeq(path, 1, k) /\ start[k - 1] = SubSeq(path, 1, k - 1)
    BY <2>1
  <2>5. Front(SubSeq(path, 1, k)) = SubSeq(path, 1, k - 1)
    BY <2>2, <2>3 DEF Front
  <2>6. SubSeq(path, 1, k) # <<>>
    BY <2>1, <2>2
  <2> QED
    BY <2>2, <2>4, <2>5, <2>6 DEF Paths, Root
<1>3. start[0] = Root
  BY <1>1 DEF Root
<1>4. Way(path) = {start[k] : k \in 1..Len(path)}
  <2>1. \A k \in 1..Len(path) : start[k] = SubSeq(path, 1, k)
    BY <1>1
  <2> HIDE DEF start
  <2> QED
    BY <2>1 DEF Way
<1>5. path = Root \/ path \in Way(path)
  <2> SUFFICES ASSUME path # <<>> PROVE path \in Way(path)
    BY DEF Root
  <2>1. Len(path) \in 1..Len(path) /\ SubSeq(path, 1, Len(path)) = path
    BY EmptySeq
  <2> QED
    BY <2>1 DEF Way
<1> HIDE DEF start
<1>6. ASSUME NEW f \in Way(path)
      PROVE  f \in Paths /\ Front(f) \in Way(path) \cup {Root}
  <2>1. PICK k \in 1..Len(path) : f = start[k]
    BY <1>4
  <2>2. k - 1 = 0 \/ k - 1 \in 1..Len(path)
    BY <1>1
  <2> QED
    BY <1>2, <1>3, <1>4, <2>1, <2>2
<1>7. IsFiniteSet(Way(path))
  <2>1. IsFiniteSet(1..Len(path))
    BY <1>1, FS_Interval
  <2> QED
    BY <1>4, <2>1, ImageIsFinite
<1>8. IsFiniteSet(WayReferences(path))
  <2> DEFINE created == Way(path) \ folders
             link == [f \in created |-> <<Front(f), Folder(f)>>]
  <2>1. IsFiniteSet(created)
    BY <1>7, FS_Difference
  <2>2. WayReferences(path) = {link[f] : f \in created}
    BY DEF WayReferences
  <2> HIDE DEF created, link
  <2> QED
    BY <2>1, <2>2, ImageIsFinite
<1> QED
  BY <1>5, <1>6, <1>8 DEF WithFolders, WayReferences

(* Browsing stays possible when nodes are added and each is referenced.    *)
LEMMA BrowsingGrows ==
  ASSUME Browsable, folders \subseteq folders',
         DOMAIN variables \subseteq DOMAIN variables',
         additionalVariables \subseteq additionalVariables',
         references \subseteq references',
         folders' \subseteq Paths, DOMAIN variables' \subseteq Paths,
         additionalVariables' \subseteq Paths, IsFiniteSet(references'),
         \A r \in references' \ references :
           r \in (folders' \cup {Root}) \X Nodes',
         \A n \in Nodes' \ Nodes : \E f \in folders' \cup {Root} :
           Len(f) < Len(n.path) /\ <<f, n>> \in references'
  PROVE  Browsable'
<1>1. Nodes \subseteq Nodes'
  BY DEF Nodes
<1>2. references' \subseteq (folders' \cup {Root}) \X Nodes'
  <2>1. references \subseteq (folders \cup {Root}) \X Nodes
    BY DEF Browsable, NodesBrowsable
  <2>2. (folders \cup {Root}) \X Nodes \subseteq (folders' \cup {Root}) \X Nodes'
    BY <1>1
  <2> QED
    BY <2>1, <2>2
<1>3. ASSUME NEW n \in Nodes'
      PROVE  \E f \in folders' \cup {Root} :
               Len(f) < Len(n.path) /\ <<f, n>> \in references'
  <2>1. CASE n \in Nodes
    <3>1. PICK f \in folders \cup {Root} : Len(f) < Len(n.path) /\ <<f, n>> \in references
      BY <2>1 DEF Browsable, NodesBrowsable
    <3> QED
      BY <3>1
  <2> QED
    BY <2>1
<1> QED
  BY <1>2, <1>3 DEF Browsable, NodesBrowsable

(* So it does after the folders on a way were created, and references were *)
(* added that lead from existing folders to existing nodes.                *)
LEMMA WayKeepsBrowsable ==
  ASSUME Browsable, NEW path \in Seq(STRING), folders' = WithFolders(path),
         NEW X, IsFiniteSet(X),
         references' = references \cup WayReferences(path) \cup X,
         DOMAIN variables \subseteq DOMAIN variables', DOMAIN variables' \subseteq Paths,
         additionalVariables \subseteq additionalVariables',
         additionalVariables' \subseteq Paths,
         \A r \in X : r \in (folders' \cup {Root}) \X Nodes',
         \A n \in Nodes' \ Nodes : n.class # "folder" =>
           \E f \in folders' \cup {Root} : Len(f) < Len(n.path) /\ <<f, n>> \in X
  PROVE  Browsable'
<1>1. folders \subseteq Paths /\ IsFiniteSet(references)
  BY DEF Browsable
<1>2. /\ folders' \subseteq Paths /\ folders \subseteq folders'
      /\ IsFiniteSet(WayReferences(path))
      /\ \A r \in WayReferences(path) :
           \E f \in folders' :
             r = <<Front(f), Folder(f)>> /\ Front(f) \in folders' \cup {Root}
      /\ \A f \in folders' \ folders :
           /\ Front(f) \in folders' \cup {Root}
           /\ <<Front(f), Folder(f)>> \in WayReferences(path)
  BY <1>1, WayIsBrowsable
<1>3. IsFiniteSet(references')
  BY <1>1, <1>2, FS_Union
<1>4. ASSUME NEW r \in references' \ references
      PROVE  r \in (folders' \cup {Root}) \X Nodes'
  <2>1. CASE r \in WayReferences(path)
    <3>1. PICK f \in folders' :
            r = <<Front(f), Folder(f)>> /\ Front(f) \in folders' \cup {Root}
      BY <1>2, <2>1
    <3>2. Folder(f) \in Nodes'
      BY DEF Nodes
    <3> QED
      BY <3>1, <3>2
  <2> QED
    BY <2>1
<1>5. ASSUME NEW n \in Nodes' \ Nodes
      PROVE  \E f \in folders' \cup {Root} :
               Len(f) < Len(n.path) /\ <<f, n>> \in references'
  <2>1. CASE n.class = "folder"
    <3>1. PICK f \in folders' : n = Folder(f)
      BY <2>1 DEF Nodes, Variable, Additional
    <3>2. f \notin folders
      BY <3>1, <1>5 DEF Nodes
    <3>3. Front(f) \in folders' \cup {Root} /\ <<Front(f), Folder(f)>> \in references'
      BY <1>2, <3>2
    <3>4. Len(Front(f)) < Len(f) /\ n.path = f
      BY <1>2, <3>1, ParentOfPath DEF Folder
    <3> QED
      BY <3>1, <3>3, <3>4
  <2>2. CASE n.class # "folder"
    BY <1>5, <2>2
  <2> QED
    BY <2>1, <2>2
<1> QED
  BY <1>2, <1>3, <1>4, <1>5, BrowsingGrows

-----------------------------------------------------------------------------
(* What the walk of deepCopyHierarchicalLayer copies.  The definition is a *)
(* recursive function; facts about all its values are shown by the sets of *)
(* numbers of steps at which they hold.                                    *)

(* The entries of a walk: a folder and the place of its copy.              *)
Pairs == [from : Seq(STRING), to : Paths]

(* The folders and the variables that references lead to.                  *)
FolderNodes(refs) == {r[2].path : r \in {q \in refs : q[2].class = "folder"}}
VariableNodes(refs) == {r[2].path : r \in {q \in refs : q[2].class = "variable"}}

(* They are as finite as the references.                                   *)
LEMMA NodesAreFinite ==
  ASSUME NEW refs, IsFiniteSet(refs)
  PROVE  IsFiniteSet(FolderNodes(refs)) /\ IsFiniteSet(VariableNodes(refs))
<1> DEFINE f == [r \in refs |-> r[2].path]
<1>1. IsFiniteSet({f[r] : r \in refs})
  <2> HIDE DEF f
  <2> QED
    BY ImageIsFinite
<1>2. /\ FolderNodes(refs) \subseteq {f[r] : r \in refs}
      /\ VariableNodes(refs) \subseteq {f[r] : r \in refs}
  BY DEF FolderNodes, VariableNodes
<1> HIDE DEF f
<1> QED
  BY <1>1, <1>2, FS_Subset

(* One more step of the walk: it follows the first subfolder of each name. *)
CopiedIn(refs, first, f) ==
  {c \in FoldersIn(refs, f) :
     <<f, Last(c)>> \in DOMAIN first => first[<<f, Last(c)>>] = c}

Further(refs, first, S) ==
  S \cup UNION {{[from |-> c, to |-> Append(pair.to, Last(c))] :
                   c \in CopiedIn(refs, first, pair.from)} : pair \in S}

(* The walk goes on from the places it came to, as often as there are      *)
(* folders.                                                                *)
LEMMA WalkExists ==
  ASSUME NEW refs, NEW first, NEW e, e.source \in Seq(STRING), Target(e) \in Paths,
         FolderNodes(refs) \subseteq Paths,
         IsFiniteSet(refs)
  PROVE  \E g \in [Nat -> SUBSET Pairs] :
           /\ g[0] = {[from |-> e.source, to |-> Target(e)]}
           /\ \A k \in Nat \ {0} : g[k] = Further(refs, first, g[k - 1])
           /\ CopiedFolders(refs, e, first) = g[Cardinality({r[1] : r \in refs})]
<1> DEFINE base == {[from |-> e.source, to |-> Target(e)]}
           T == SUBSET Pairs
           step == [k \in Nat |-> [S \in T |-> Further(refs, first, S)]]
           n == Cardinality({r[1] : r \in refs})
<1>1. base \in T
  BY DEF Pairs
<1>2. ASSUME NEW S \in T PROVE Further(refs, first, S) \in T
  <2>1. ASSUME NEW pair \in S, NEW c \in CopiedIn(refs, first, pair.from)
        PROVE  [from |-> c, to |-> Append(pair.to, Last(c))] \in Pairs
    <3>1. c \in Paths
      BY <2>1 DEF CopiedIn, FoldersIn, FolderNodes
    <3>2. Last(c) \in STRING /\ c \in Seq(STRING)
      BY <3>1, ParentOfPath DEF Paths
    <3>3. pair.to \in Seq(STRING)
      BY DEF Pairs, Paths
    <3>4. Append(pair.to, Last(c)) \in Paths
      BY <3>2, <3>3, ChildOfPath
    <3> QED
      BY <3>2, <3>4 DEF Pairs
  <2> HIDE DEF Pairs
  <2> QED
    BY <2>1 DEF Further
<1>3. step \in [Nat -> [T -> T]]
  BY <1>2
<1>4. n \in Nat
  <2>1. IsFiniteSet({r[1] : r \in refs})
    <3> DEFINE f == [r \in refs |-> r[1]]
    <3>1. {r[1] : r \in refs} = {f[r] : r \in refs}
      OBVIOUS
    <3> HIDE DEF f
    <3>2. IsFiniteSet({f[r] : r \in refs})
      BY ImageIsFinite
    <3> QED
      BY <3>1, <3>2
  <2> QED
    BY <2>1, FS_CardinalityType
<1> HIDE DEF n, T, base
<1>5. PICK g \in [Nat -> T] :
        g[0] = base /\ \A k \in Nat \ {0} : g[k] = Further(refs, first, g[k - 1])
  <2> HIDE DEF step
  <2>1. Recursion(T, base, step) # {}
    BY <1>1, <1>3, RecursionExists
  <2>2. PICK g \in [Nat -> T] :
          g[0] = base /\ \A k \in Nat \ {0} : g[k] = step[k][g[k - 1]]
    BY <2>1 DEF Recursion
  <2>3. ASSUME NEW k \in Nat \ {0} PROVE g[k] = Further(refs, first, g[k - 1])
    <3>1. g[k - 1] \in T /\ k \in Nat
      OBVIOUS
    <3> QED
      BY <2>2, <3>1 DEF step
  <2> QED
    BY <2>2, <2>3
<1> DEFINE Fits(h) == h = [k \in Nat |-> IF k = 0 THEN base
                                          ELSE Further(refs, first, h[k - 1])]
           copied == CHOOSE h : Fits(h)
<1>6. Fits(g)
  <2>1. g = [k \in Nat |-> g[k]]
    OBVIOUS
  <2>2. \A k \in Nat : g[k] = IF k = 0 THEN base ELSE Further(refs, first, g[k - 1])
    BY <1>5
  <2> QED
    BY <2>1, <2>2
<1>7. Fits(copied)
  BY <1>6
<1>8. CopiedFolders(refs, e, first) = copied[n]
  BY DEF CopiedFolders, Further, CopiedIn, n, base
<1>9. copied \in [Nat -> T] /\ copied[0] = base
      /\ \A k \in Nat \ {0} : copied[k] = Further(refs, first, copied[k - 1])
  <2> HIDE DEF copied
  <2>1. /\ DOMAIN copied = Nat /\ copied = [k \in Nat |-> copied[k]]
        /\ copied[0] = base
        /\ \A k \in Nat \ {0} : copied[k] = Further(refs, first, copied[k - 1])
    BY <1>7
  <2> DEFINE H == {k \in Nat : copied[k] \in T}
  <2>2. 0 \in H
    BY <1>1, <2>1
  <2>3. \A k \in Nat : k \in H => k + 1 \in H
    <3> SUFFICES ASSUME NEW k \in Nat, k \in H PROVE copied[k + 1] \in T
      OBVIOUS
    <3>1. k + 1 \in Nat \ {0} /\ (k + 1) - 1 = k
      OBVIOUS
    <3>2. copied[k + 1] = Further(refs, first, copied[(k + 1) - 1])
      BY <2>1, <3>1
    <3>3. copied[k] \in T
      OBVIOUS
    <3> QED
      BY <1>2, <3>1, <3>2, <3>3
  <2> HIDE DEF H
  <2>4. \A k \in Nat : k \in H
    BY <2>2, <2>3, Induction
  <2> QED
    BY <2>1, <2>4 DEF H
<1> QED
  BY <1>8, <1>9 DEF T, base, n

(* Each copy is the target itself or in a folder that is copied before,    *)
(* and they are finitely many.                                             *)
LEMMA CopiesHang ==
  ASSUME NEW refs, NEW first, NEW e, e.source \in Seq(STRING), Target(e) \in Paths,
         FolderNodes(refs) \subseteq Paths, IsFiniteSet(refs),
         NEW copied, copied = CopiedFolders(refs, e, first)
  PROVE  /\ IsFiniteSet(copied) /\ copied \subseteq Pairs
         /\ \A pair \in copied :
              pair.to = Target(e) \/ \E p \in copied : Front(pair.to) = p.to
<1>1. PICK g \in [Nat -> SUBSET Pairs] :
        /\ g[0] = {[from |-> e.source, to |-> Target(e)]}
        /\ \A k \in Nat \ {0} : g[k] = Further(refs, first, g[k - 1])
        /\ CopiedFolders(refs, e, first) = g[Cardinality({r[1] : r \in refs})]
  BY WalkExists
<1> DEFINE Hangs(S) == \A pair \in S :
             pair.to = Target(e) \/ \E p \in S : Front(pair.to) = p.to
           H == {k \in Nat : IsFiniteSet(g[k]) /\ Hangs(g[k])}
<1>2. 0 \in H
  <2>1. IsFiniteSet({[from |-> e.source, to |-> Target(e)]})
    BY FS_Singleton
  <2>2. Hangs(g[0])
    BY <1>1
  <2> QED
    BY <1>1, <2>1, <2>2
<1>3. ASSUME NEW k \in Nat, k \in H PROVE k + 1 \in H
  <2> DEFINE S == g[k]
  <2>1. g[k + 1] = Further(refs, first, S)
    <3>1. k + 1 \in Nat \ {0} /\ (k + 1) - 1 = k
      OBVIOUS
    <3>2. g[k + 1] = Further(refs, first, g[(k + 1) - 1])
      BY <1>1, <3>1
    <3> QED
      BY <3>1, <3>2
  <2>2. IsFiniteSet(S) /\ Hangs(S) /\ S \in SUBSET Pairs
    BY <1>3
  <2> HIDE DEF S, H
  <2>3. S \subseteq Further(refs, first, S)
    BY DEF Further
  <2>4. ASSUME NEW pair \in Further(refs, first, S), pair \notin S
        PROVE  \E p \in S, c \in FolderNodes(refs) :
                 pair = [from |-> c, to |-> Append(p.to, Last(c))]
    <3>1. PICK p \in S : \E c \in CopiedIn(refs, first, p.from) :
            pair = [from |-> c, to |-> Append(p.to, Last(c))]
      BY <2>4 DEF Further
    <3> QED
      BY <3>1 DEF CopiedIn, FoldersIn, FolderNodes
  <2>5. IsFiniteSet(Further(refs, first, S))
    <3> DEFINE P == S \X FolderNodes(refs)
               f == [x \in P |-> [from |-> x[2], to |-> Append(x[1].to, Last(x[2]))]]
    <3>1. IsFiniteSet(FolderNodes(refs))
      BY NodesAreFinite
    <3>2. IsFiniteSet(P)
      BY <2>2, <3>1, FS_Product
    <3>3. Further(refs, first, S) \subseteq S \cup {f[x] : x \in P}
      <4> SUFFICES ASSUME NEW pair \in Further(refs, first, S), pair \notin S
                   PROVE  pair \in {f[x] : x \in P}
        OBVIOUS
      <4>1. PICK p \in S, c \in FolderNodes(refs) :
              pair = [from |-> c, to |-> Append(p.to, Last(c))]
        BY <2>4
      <4>2. <<p, c>> \in P /\ f[<<p, c>>] = pair
        BY <4>1
      <4> HIDE DEF f, P
      <4> QED
        BY <4>2
    <3> HIDE DEF f, P
    <3>4. IsFiniteSet({f[x] : x \in P})
      BY <3>2, ImageIsFinite
    <3>5. IsFiniteSet(S \cup {f[x] : x \in P})
      BY <2>2, <3>4, FS_Union
    <3> QED
      BY <3>3, <3>5, FS_Subset
  <2>6. Hangs(Further(refs, first, S))
    <3> SUFFICES ASSUME NEW pair \in Further(refs, first, S), pair.to # Target(e)
                 PROVE  \E p \in Further(refs, first, S) : Front(pair.to) = p.to
      OBVIOUS
    <3>1. CASE pair \in S
      BY <2>2, <2>3, <3>1
    <3>2. CASE pair \notin S
      <4>1. PICK p \in S, c \in FolderNodes(refs) :
              pair = [from |-> c, to |-> Append(p.to, Last(c))]
        BY <2>4, <3>2
      <4>2. p.to \in Seq(STRING)
        BY <2>2 DEF Pairs, Paths
      <4>3. Last(c) \in STRING
        <5>1. c \in Paths
          OBVIOUS
        <5> QED
          BY <5>1, ParentOfPath
      <4>4. Front(pair.to) = p.to
        BY <4>1, <4>2, <4>3, ChildOfPath
      <4> QED
        BY <2>3, <4>4
    <3> QED
      BY <3>1, <3>2
  <2> HIDE DEF Hangs
  <2> QED
    BY <2>1, <2>5, <2>6 DEF H
<1> HIDE DEF H
<1>4. \A k \in Nat : k \in H
  BY <1>2, <1>3, Induction
<1>5. Cardinality({r[1] : r \in refs}) \in Nat
  <2> DEFINE f == [r \in refs |-> r[1]]
  <2>1. {r[1] : r \in refs} = {f[r] : r \in refs}
    OBVIOUS
  <2> HIDE DEF f
  <2>2. IsFiniteSet({f[r] : r \in refs})
    BY ImageIsFinite
  <2> QED
    BY <2>1, <2>2, FS_CardinalityType
<1>6. PICK n \in Nat : n = Cardinality({r[1] : r \in refs})
  BY <1>5
<1>7. copied = g[n] /\ n \in H
  BY <1>1, <1>4, <1>6
<1> QED
  BY <1>7 DEF H

-----------------------------------------------------------------------------
(* The nodes that references lead to are there.                            *)
LEMMA ReferencedNodes ==
  ASSUME Browsable, NEW path \in Seq(STRING),
         NEW refs, refs = references \cup WayReferences(path)
  PROVE  /\ IsFiniteSet(refs)
         /\ FolderNodes(refs) \subseteq WithFolders(path)
         /\ FolderNodes(refs) \subseteq Paths
         /\ VariableNodes(refs) \subseteq DOMAIN variables
<1>1. /\ WithFolders(path) \subseteq Paths /\ folders \subseteq WithFolders(path)
      /\ IsFiniteSet(WayReferences(path))
      /\ \A r \in WayReferences(path) :
           \E f \in WithFolders(path) : r = <<Front(f), Folder(f)>>
  BY WayIsBrowsable DEF Browsable
<1>2. IsFiniteSet(refs)
  BY <1>1, FS_Union DEF Browsable
<1>3. \A r \in references : r[2] \in Nodes
  BY DEF Browsable, NodesBrowsable
<1>4. ASSUME NEW r \in refs, r[2].class = "folder"
      PROVE  r[2].path \in WithFolders(path)
  <2>1. CASE r \in references
    <3>1. PICK f \in folders : r[2] = Folder(f)
      BY <1>3, <1>4, <2>1 DEF Nodes, Folder, Variable, Additional
    <3> QED
      BY <1>1, <3>1 DEF Folder
  <2>2. CASE r \in WayReferences(path)
    BY <1>1, <2>2 DEF Folder
  <2> QED
    BY <2>1, <2>2
<1>5. ASSUME NEW r \in refs, r[2].class = "variable"
      PROVE  r[2].path \in DOMAIN variables
  <2>1. r \in references
    BY <1>1, <1>5 DEF Folder
  <2>2. PICK v \in DOMAIN variables : r[2] = Variable(v)
    BY <1>3, <1>5, <2>1 DEF Nodes, Folder, Variable, Additional
  <2> QED
    BY <2>2 DEF Variable
<1> QED
  BY <1>1, <1>2, <1>4, <1>5 DEF FolderNodes, VariableNodes

(* The links that a folder gets lead to nodes the references led to.       *)
LEMMA LinksAreBrowsable ==
  ASSUME NEW refs, IsFiniteSet(refs), NEW e, NEW shown
  PROVE  /\ IsFiniteSet(Links(refs, e, shown))
         /\ \A r \in Links(refs, e, shown) :
              \/ \E c \in FolderNodes(refs) : r = <<Target(e), Folder(c)>>
              \/ \E v \in VariableNodes(refs) : r = <<Target(e), Variable(v)>>
<1>1. ASSUME NEW r \in Links(refs, e, shown)
      PROVE  \/ \E c \in FolderNodes(refs) : r = <<Target(e), Folder(c)>>
             \/ \E v \in VariableNodes(refs) : r = <<Target(e), Variable(v)>>
  BY DEF Links, FoldersIn, VariablesIn, FolderNodes, VariableNodes
<1> DEFINE f == [c \in FolderNodes(refs) |-> <<Target(e), Folder(c)>>]
           g == [v \in VariableNodes(refs) |-> <<Target(e), Variable(v)>>]
           F == {f[c] : c \in FolderNodes(refs)}
           G == {g[v] : v \in VariableNodes(refs)}
<1>2. Links(refs, e, shown) \subseteq F \cup G
  BY <1>1
<1>3. IsFiniteSet(F) /\ IsFiniteSet(G)
  <2> HIDE DEF f, g
  <2> QED
    BY NodesAreFinite, ImageIsFinite
<1> HIDE DEF F, G
<1>4. IsFiniteSet(F \cup G)
  BY <1>3, FS_Union
<1> QED
  BY <1>1, <1>2, <1>4, FS_Subset

(* The constructor puts each variable into the folder its name says.       *)
LEMMA ImplicitIsBrowsable ==
  ASSUME MappingIInv, Browsable, MapImplicit
  PROVE  Browsable'
<1>0. PICK p \in pending :
        \/ UNCHANGED <<folders, variables, references>>
        \/ /\ folders' = WithFolders(Front(p))
           /\ variables' = WithVariable(p, p)
           /\ references' = references \cup WayReferences(Front(p))
                              \cup {<<Front(p), Variable(p)>>}
  BY DEF MapImplicit
<1>1. p \in PVs /\ additionalVariables' = additionalVariables
  BY DEF MapImplicit, MappingIInv, ImplicitComesFirst
<1>2. p \in Paths
  BY <1>1, MappingAssumption DEF Paths, Root
<1>3. CASE UNCHANGED <<folders, variables, references>>
  BY <1>1, <1>3 DEF Browsable, NodesBrowsable, Nodes
<1>4. CASE /\ folders' = WithFolders(Front(p))
           /\ variables' = WithVariable(p, p)
           /\ references' = references \cup WayReferences(Front(p))
                              \cup {<<Front(p), Variable(p)>>}
  <2>1. Front(p) \in Seq(STRING) /\ Len(Front(p)) < Len(p)
    BY <1>2, ParentOfPath
  <2>2. DOMAIN variables' = DOMAIN variables \cup {p}
    BY <1>4 DEF WithVariable
  <2>3. Front(p) \in folders' \cup {Root}
    BY <1>4, <2>1, WayIsBrowsable DEF Browsable
  <2>4. Variable(p) \in Nodes'
    BY <2>2 DEF Nodes
  <2>5. IsFiniteSet({<<Front(p), Variable(p)>>})
    BY FS_Singleton
  <2>6. ASSUME NEW n \in Nodes' \ Nodes, n.class # "folder"
        PROVE  \E f \in folders' \cup {Root} :
                 Len(f) < Len(n.path) /\ <<f, n>> \in {<<Front(p), Variable(p)>>}
    <3>1. n = Variable(p)
      BY <1>1, <2>2, <2>6 DEF Nodes, Folder
    <3> QED
      BY <2>1, <2>3, <3>1 DEF Variable
  <2>7. DOMAIN variables' \subseteq Paths /\ additionalVariables' \subseteq Paths
    BY <1>1, <1>2, <2>2 DEF Browsable
  <2>8. \A r \in {<<Front(p), Variable(p)>>} : r \in (folders' \cup {Root}) \X Nodes'
    BY <2>3, <2>4
  <2> QED
    BY <1>1, <1>4, <2>1, <2>2, <2>5, <2>6, <2>7, <2>8, WayKeepsBrowsable
<1> QED
  BY <1>0, <1>3, <1>4

(* Folders that are only created.                                          *)
LEMMA OnlyWayIsBrowsable ==
  ASSUME Browsable, NEW path \in Seq(STRING), folders' = WithFolders(path),
         references' = references \cup WayReferences(path),
         UNCHANGED <<variables, additionalVariables>>
  PROVE  Browsable'
<1>1. IsFiniteSet({}) /\ references' = references \cup WayReferences(path) \cup {}
  BY FS_EmptySet
<1>2. ASSUME NEW n \in Nodes' \ Nodes, n.class # "folder" PROVE FALSE
  BY <1>2 DEF Nodes, Folder
<1>3. DOMAIN variables' \subseteq Paths /\ additionalVariables' \subseteq Paths
  BY DEF Browsable
<1> QED
  BY <1>1, <1>2, <1>3, WayKeepsBrowsable

(* A <folder> entry that links what its source shows.                      *)
LEMMA LinkFolderIsBrowsable ==
  ASSUME Browsable, NEW e, Target(e) \in Paths, LinkFolder(e)
  PROVE  Browsable'
<1> DEFINE refs == references \cup WayReferences(Target(e))
<1>1. PICK links \in BrowsedLinks(refs, e, DOMAIN variables) :
        /\ folders' = WithFolders(Target(e)) /\ references' = refs \cup links
        /\ UNCHANGED <<variables, additionalVariables>>
  BY DEF LinkFolder
<1>2. Target(e) \in Seq(STRING) /\ Target(e) # Root
  BY DEF Paths
<1>3. /\ IsFiniteSet(refs) /\ FolderNodes(refs) \subseteq folders'
      /\ VariableNodes(refs) \subseteq DOMAIN variables
  BY <1>1, <1>2, ReferencedNodes
<1>4. Target(e) \in folders'
  BY <1>1, <1>2, WayIsBrowsable DEF Browsable
<1> HIDE DEF refs
<1>5. IsFiniteSet(links) /\ \A r \in links : r \in (folders' \cup {Root}) \X Nodes'
  <2> DEFINE X == Links(refs, e, DOMAIN variables)
  <2>0. links \subseteq X
    BY <1>1, BrowsedAreLinks
  <2>1. ASSUME NEW r \in X PROVE r \in (folders' \cup {Root}) \X Nodes'
    <3>1. CASE \E c \in FolderNodes(refs) : r = <<Target(e), Folder(c)>>
      <4>1. PICK c \in folders' : r = <<Target(e), Folder(c)>>
        BY <1>3, <3>1
      <4>2. Folder(c) \in Nodes'
        BY DEF Nodes
      <4> QED
        BY <1>4, <4>1, <4>2
    <3>2. CASE \E v \in VariableNodes(refs) : r = <<Target(e), Variable(v)>>
      <4>1. PICK v \in DOMAIN variables' : r = <<Target(e), Variable(v)>>
        BY <1>1, <1>3, <3>2
      <4>2. Variable(v) \in Nodes'
        BY DEF Nodes
      <4> QED
        BY <1>4, <4>1, <4>2
    <3> QED
      BY <1>3, <3>1, <3>2, LinksAreBrowsable
  <2>2. IsFiniteSet(X)
    BY <1>3, LinksAreBrowsable
  <2> QED
    BY <2>0, <2>1, <2>2, FS_Subset
<1>6. ASSUME NEW n \in Nodes' \ Nodes, n.class # "folder" PROVE FALSE
  BY <1>1, <1>6 DEF Nodes, Folder
<1>7. DOMAIN variables' \subseteq Paths /\ additionalVariables' \subseteq Paths
  BY <1>1 DEF Browsable
<1>8. references' = references \cup WayReferences(Target(e)) \cup links
  BY <1>1 DEF refs
<1> QED
  BY <1>1, <1>2, <1>5, <1>6, <1>7, <1>8, WayKeepsBrowsable

(* The copies of variables: each beside its fellows in a copied folder.    *)
LEMMA CopiesOfVariables ==
  ASSUME NEW refs, IsFiniteSet(refs), VariableNodes(refs) \subseteq Paths,
         NEW copied, IsFiniteSet(copied), copied \subseteq Pairs
  PROVE  /\ IsFiniteSet(CopiedVariables(refs, copied))
         /\ \A n \in CopiedVariables(refs, copied) :
              /\ \E pair \in copied : n.in = pair.to
              /\ n.id \in Paths /\ n.in \in Paths /\ Front(n.id) = n.in
<1> DEFINE P == copied \X VariableNodes(refs)
           f == [x \in P |-> [id |-> Append(x[1].to, Last(x[2])), in |-> x[1].to,
                              source |-> variables[x[2]]]]
<1>1. ASSUME NEW n \in CopiedVariables(refs, copied)
      PROVE  \E pair \in copied, v \in VariableNodes(refs) :
               n = [id |-> Append(pair.to, Last(v)), in |-> pair.to,
                    source |-> variables[v]]
  <2>1. PICK pair \in copied :
          n \in {[id |-> Append(pair.to, Last(v)), in |-> pair.to,
                  source |-> variables[v]] :
                   v \in {w \in VariablesIn(refs, pair.from) : ~IsMethod(w)}}
    BY DEF CopiedVariables
  <2>2. PICK v \in VariablesIn(refs, pair.from) :
          n = [id |-> Append(pair.to, Last(v)), in |-> pair.to,
               source |-> variables[v]]
    BY <2>1
  <2>3. v \in VariableNodes(refs)
    BY DEF VariablesIn, VariableNodes
  <2> QED
    BY <2>2, <2>3
<1>2. ASSUME NEW n \in CopiedVariables(refs, copied)
      PROVE  /\ \E pair \in copied : n.in = pair.to
             /\ n.id \in Paths /\ n.in \in Paths /\ Front(n.id) = n.in
  <2>1. PICK pair \in copied, v \in VariableNodes(refs) :
          n = [id |-> Append(pair.to, Last(v)), in |-> pair.to,
               source |-> variables[v]]
    BY <1>1
  <2>2. n.id = Append(pair.to, Last(v)) /\ n.in = pair.to
    BY <2>1
  <2>3. pair.to \in Seq(STRING) /\ pair.to \in Paths
    BY DEF Pairs, Paths
  <2>4. v \in Paths
    OBVIOUS
  <2>5. Last(v) \in STRING
    BY <2>4, ParentOfPath
  <2>6. Append(pair.to, Last(v)) \in Paths /\ Front(Append(pair.to, Last(v))) = pair.to
    BY <2>3, <2>5, ChildOfPath
  <2> QED
    BY <2>2, <2>3, <2>6
<1>3. IsFiniteSet(P)
  BY NodesAreFinite, FS_Product
<1>4. CopiedVariables(refs, copied) \subseteq {f[x] : x \in P}
  <2> SUFFICES ASSUME NEW n \in CopiedVariables(refs, copied)
               PROVE  n \in {f[x] : x \in P}
    OBVIOUS
  <2>1. PICK pair \in copied, v \in VariableNodes(refs) :
          n = [id |-> Append(pair.to, Last(v)), in |-> pair.to,
               source |-> variables[v]]
    BY <1>1
  <2>2. <<pair, v>> \in P
    OBVIOUS
  <2>3. f[<<pair, v>>] = n
    BY <2>1, <2>2
  <2> HIDE DEF f, P
  <2> QED
    BY <2>2, <2>3
<1> HIDE DEF f, P
<1>5. IsFiniteSet({f[x] : x \in P})
  BY <1>3, ImageIsFinite
<1> QED
  BY <1>2, <1>4, <1>5, FS_Subset

(* A <folder> entry that copies what is below its source: the copies hang  *)
(* in copies, up to the new folder, which hangs where its path says.       *)
LEMMA CopyFolderIsBrowsable ==
  ASSUME Browsable, NEW e, e.source \in Seq(STRING), Target(e) \in Paths,
         Target(e) \notin folders, CopyFolder(e)
  PROVE  Browsable'
<1> DEFINE refs == references \cup WayReferences(Target(e))
<1>1. PICK first \in Firsts(refs, e.source),
              links \in IF FoundMethod(refs, e.source)
                        THEN BrowsedLinks(refs, e, {v \in DOMAIN variables :
                                                      IsMethod(v)})
                        ELSE {{}} :
        LET copied == CopiedFolders(refs, e, first)
            new == {n \in CopiedVariables(refs, copied) :
                      n.id \notin DOMAIN variables}
        IN  /\ folders' = WithFolders(Target(e)) \cup {pair.to : pair \in copied}
            /\ variables' =
                 [x \in DOMAIN variables \cup {n.id : n \in new} |->
                    IF x \in DOMAIN variables THEN variables[x]
                    ELSE (CHOOSE n \in new : n.id = x).source]
            /\ references' = refs
                 \cup {<<Front(pair.to), Folder(pair.to)>> : pair \in copied}
                 \cup {<<n.in, Variable(n.id)>> : n \in new} \cup links
  BY DEF CopyFolder
<1>2. PICK copied : copied = CopiedFolders(refs, e, first)
  OBVIOUS
<1>3. PICK new :
        new = {n \in CopiedVariables(refs, copied) : n.id \notin DOMAIN variables}
  OBVIOUS
<1>4. PICK shown : shown = {v \in DOMAIN variables : IsMethod(v)}
  OBVIOUS
<1> DEFINE way == WayReferences(Target(e))
           FolderLinks == {<<Front(pair.to), Folder(pair.to)>> : pair \in copied}
           VariableLinks == {<<n.in, Variable(n.id)>> : n \in new}
<1>5. /\ folders' = WithFolders(Target(e)) \cup {pair.to : pair \in copied}
      /\ DOMAIN variables' = DOMAIN variables \cup {n.id : n \in new}
      /\ references' = refs \cup FolderLinks \cup VariableLinks \cup links
      /\ additionalVariables' = additionalVariables
  BY <1>1, <1>2, <1>3 DEF CopyFolder
<1>6. Target(e) \in Seq(STRING) /\ Target(e) # Root
  BY DEF Paths
<1>7. /\ IsFiniteSet(refs) /\ FolderNodes(refs) \subseteq WithFolders(Target(e))
      /\ FolderNodes(refs) \subseteq Paths
      /\ VariableNodes(refs) \subseteq DOMAIN variables
  BY <1>6, ReferencedNodes
<1>8. /\ WithFolders(Target(e)) \subseteq Paths
      /\ folders \subseteq WithFolders(Target(e))
      /\ Target(e) \in WithFolders(Target(e))
      /\ \A r \in way :
           \E f \in WithFolders(Target(e)) :
             r = <<Front(f), Folder(f)>> /\ Front(f) \in WithFolders(Target(e)) \cup {Root}
      /\ \A f \in WithFolders(Target(e)) \ folders :
           /\ Front(f) \in WithFolders(Target(e)) \cup {Root}
           /\ <<Front(f), Folder(f)>> \in way
  BY <1>6, WayIsBrowsable DEF Browsable
<1> HIDE DEF refs
<1>9. /\ IsFiniteSet(copied) /\ copied \subseteq Pairs
      /\ \A pair \in copied :
           pair.to = Target(e) \/ \E p \in copied : Front(pair.to) = p.to
  BY <1>2, <1>7, CopiesHang
<1>10. VariableNodes(refs) \subseteq Paths
  BY <1>7 DEF Browsable
<1>11. /\ IsFiniteSet(new)
       /\ \A n \in new : /\ \E pair \in copied : n.in = pair.to
                         /\ n.id \in Paths /\ n.in \in Paths /\ Front(n.id) = n.in
  <2>1. /\ IsFiniteSet(CopiedVariables(refs, copied))
        /\ \A n \in CopiedVariables(refs, copied) :
             /\ \E pair \in copied : n.in = pair.to
             /\ n.id \in Paths /\ n.in \in Paths /\ Front(n.id) = n.in
    BY <1>7, <1>9, <1>10, CopiesOfVariables
  <2>2. new \subseteq CopiedVariables(refs, copied)
    BY <1>3
  <2> QED
    BY <2>1, <2>2, FS_Subset
<1>12. IsFiniteSet(FolderLinks) /\ IsFiniteSet(VariableLinks)
  <2> DEFINE f == [pair \in copied |-> <<Front(pair.to), Folder(pair.to)>>]
             g == [n \in new |-> <<n.in, Variable(n.id)>>]
  <2>1. FolderLinks = {f[pair] : pair \in copied} /\ VariableLinks = {g[n] : n \in new}
    OBVIOUS
  <2> HIDE DEF f, g, FolderLinks, VariableLinks
  <2> QED
    BY <1>9, <1>11, <2>1, ImageIsFinite
<1>13. /\ IsFiniteSet(links)
       /\ \A r \in links :
            \/ \E c \in FolderNodes(refs) : r = <<Target(e), Folder(c)>>
            \/ \E v \in VariableNodes(refs) : r = <<Target(e), Variable(v)>>
  <2>1. links \subseteq Links(refs, e, shown)
    BY <1>1, <1>4, LinksBesideCopies
  <2>2. /\ IsFiniteSet(Links(refs, e, shown))
        /\ \A r \in Links(refs, e, shown) :
             \/ \E c \in FolderNodes(refs) : r = <<Target(e), Folder(c)>>
             \/ \E v \in VariableNodes(refs) : r = <<Target(e), Variable(v)>>
    BY <1>7, LinksAreBrowsable
  <2> QED
    BY <2>1, <2>2, FS_Subset
<1> HIDE DEF FolderLinks, VariableLinks, way
<1>14. IsFiniteSet(references')
  <2>1. IsFiniteSet(refs \cup FolderLinks)
    BY <1>7, <1>12, FS_Union
  <2>2. IsFiniteSet(refs \cup FolderLinks \cup VariableLinks)
    BY <1>12, <2>1, FS_Union
  <2> QED
    BY <1>5, <1>13, <2>2, FS_Union
<1>15. /\ folders \subseteq folders' /\ folders' \subseteq Paths
       /\ WithFolders(Target(e)) \subseteq folders'
       /\ \A pair \in copied : pair.to \in folders'
       /\ \A n \in new : n.in \in folders'
  <2>1. \A pair \in copied : pair.to \in folders' /\ pair.to \in Paths
    BY <1>5, <1>9 DEF Pairs
  <2>2. \A n \in new : n.in \in folders'
    BY <1>11, <2>1
  <2> QED
    BY <1>5, <1>8, <2>1, <2>2
<1>16. ASSUME NEW pair \in copied PROVE Front(pair.to) \in folders' \cup {Root}
  <2>1. CASE pair.to = Target(e)
    BY <1>8, <1>15, <2>1
  <2>2. CASE \E p \in copied : Front(pair.to) = p.to
    BY <1>15, <2>2
  <2> QED
    BY <1>9, <2>1, <2>2
<1>17. DOMAIN variables' \subseteq Paths /\ additionalVariables' \subseteq Paths
  BY <1>5, <1>11 DEF Browsable
<1>18. /\ \A f \in folders' : Folder(f) \in Nodes'
       /\ \A v \in DOMAIN variables' : Variable(v) \in Nodes'
  BY DEF Nodes
<1>19. ASSUME NEW r \in references' \ references
       PROVE  r \in (folders' \cup {Root}) \X Nodes'
  <2>1. CASE r \in way
    <3>1. PICK f \in WithFolders(Target(e)) :
            r = <<Front(f), Folder(f)>> /\ Front(f) \in WithFolders(Target(e)) \cup {Root}
      BY <1>8, <2>1
    <3> QED
      BY <1>15, <1>18, <3>1
  <2>2. CASE r \in FolderLinks
    <3>1. PICK pair \in copied : r = <<Front(pair.to), Folder(pair.to)>>
      BY <2>2 DEF FolderLinks
    <3> QED
      BY <1>15, <1>16, <1>18, <3>1
  <2>3. CASE r \in VariableLinks
    <3>1. PICK n \in new : r = <<n.in, Variable(n.id)>>
      BY <2>3 DEF VariableLinks
    <3>2. n.id \in DOMAIN variables'
      BY <1>5
    <3> QED
      BY <1>15, <1>18, <3>1, <3>2
  <2>4. CASE r \in links
    <3>1. CASE \E c \in FolderNodes(refs) : r = <<Target(e), Folder(c)>>
      BY <1>7, <1>8, <1>15, <1>18, <3>1
    <3>2. CASE \E v \in VariableNodes(refs) : r = <<Target(e), Variable(v)>>
      BY <1>5, <1>7, <1>8, <1>15, <1>18, <3>2
    <3> QED
      BY <1>13, <2>4, <3>1, <3>2
  <2> QED
    BY <1>5, <2>1, <2>2, <2>3, <2>4 DEF refs, way
<1>20. ASSUME NEW n \in Nodes' \ Nodes
       PROVE  \E f \in folders' \cup {Root} :
                Len(f) < Len(n.path) /\ <<f, n>> \in references'
  <2>1. \/ \E f \in folders' \ folders : n = Folder(f)
        \/ \E v \in DOMAIN variables' \ DOMAIN variables : n = Variable(v)
    BY <1>5, <1>20 DEF Nodes
  <2>2. CASE \E f \in folders' \ folders : n = Folder(f)
    <3>1. PICK f \in folders' \ folders : n = Folder(f)
      BY <2>2
    <3>2. Front(f) \in folders' \cup {Root} /\ <<Front(f), Folder(f)>> \in references'
      <4>1. CASE f \in WithFolders(Target(e))
        BY <1>5, <1>8, <1>15, <4>1 DEF refs, way
      <4>2. CASE f \notin WithFolders(Target(e))
        <5>1. PICK pair \in copied : f = pair.to
          BY <1>5, <4>2
        <5>2. <<Front(f), Folder(f)>> \in FolderLinks
          BY <5>1 DEF FolderLinks
        <5> QED
          BY <1>5, <1>16, <5>1, <5>2
      <4> QED
        BY <4>1, <4>2
    <3>3. f \in Paths
      BY <1>15
    <3>4. Len(Front(f)) < Len(f) /\ n.path = f
      BY <3>1, <3>3, ParentOfPath DEF Folder
    <3> QED
      BY <3>1, <3>2, <3>4
  <2>3. CASE \E v \in DOMAIN variables' \ DOMAIN variables : n = Variable(v)
    <3>1. PICK v \in DOMAIN variables' \ DOMAIN variables : n = Variable(v)
      BY <2>3
    <3>2. PICK x \in new : v = x.id
      BY <1>5, <3>1
    <3>3. x.in \in folders' /\ x.id \in Paths /\ Front(x.id) = x.in
      BY <1>11, <1>15
    <3>4. Len(x.in) < Len(x.id)
      BY <3>3, ParentOfPath
    <3>5. <<x.in, Variable(x.id)>> \in references'
      BY <1>5 DEF VariableLinks
    <3> QED
      BY <3>1, <3>2, <3>3, <3>4, <3>5 DEF Variable
  <2> QED
    BY <2>1, <2>2, <2>3
<1>21. /\ DOMAIN variables \subseteq DOMAIN variables' /\ references \subseteq references'
       /\ additionalVariables \subseteq additionalVariables'
  BY <1>5 DEF refs
<1> QED
  BY <1>14, <1>15, <1>17, <1>19, <1>20, <1>21, BrowsingGrows

(* Each way to carry out a <folder> entry (buildFolderStructure).          *)
LEMMA FolderIsBrowsable ==
  ASSUME MappingIInv, Browsable, MapFolder
  PROVE  Browsable'
<1> DEFINE e == file.folders[i]
<1>1. i \in DOMAIN file.folders
  BY ListsOfFile DEF MapFolder, MappingIInv, ImplicitComesFirst
<1>2. /\ e.source \in Seq(STRING) /\ e.destination \in Seq(STRING)
      /\ e.name \in STRING
  BY <1>1, ListsOfFile
<1>3. \/ AbortForHistory(e) \/ SkipFolder(e)
      \/ /\ Target(e) \notin folders
         /\ \/ RefuseSource(e) \/ CreateFolder(e) \/ LinkFolder(e)
            \/ CopyFolder(e) \/ CopyForever(e)
  BY DEF MapFolder, CreatesFolder
<1>4. Target(e) \in Paths
  BY <1>2, ChildOfPath DEF Target
<1> HIDE DEF e
<1>5. CASE AbortForHistory(e) \/ SkipFolder(e) \/ CopyForever(e)
  <2>1. UNCHANGED nodeVars
    BY <1>5, Zenon DEF AbortForHistory, SkipFolder, CopyForever
  <2> QED
    BY <2>1 DEF Browsable, NodesBrowsable, Nodes, nodeVars
<1>6. CASE RefuseSource(e)
  BY <1>2, <1>6, OnlyWayIsBrowsable DEF RefuseSource
<1>7. CASE CreateFolder(e)
  <2>1. Target(e) \in Seq(STRING)
    BY <1>4 DEF Paths
  <2> QED
    BY <1>7, <2>1, OnlyWayIsBrowsable DEF CreateFolder
<1>8. CASE LinkFolder(e)
  BY <1>4, <1>8, LinkFolderIsBrowsable
<1>9. CASE CopyFolder(e) /\ Target(e) \notin folders
  BY <1>2, <1>4, <1>9, CopyFolderIsBrowsable
<1> QED
  BY <1>3, <1>5, <1>6, <1>7, <1>8, <1>9

(* A node that is added to a folder, with the folders on the way to it.    *)
LEMMA AddedIsBrowsable ==
  ASSUME Browsable, NEW path \in Seq(STRING), NEW n,
         folders' = WithFolders(path),
         references' = references \cup WayReferences(path) \cup {<<path, n>>},
         DOMAIN variables \subseteq DOMAIN variables', DOMAIN variables' \subseteq Paths,
         additionalVariables \subseteq additionalVariables',
         additionalVariables' \subseteq Paths,
         n \in Nodes', Len(path) < Len(n.path) \/ n \in Nodes,
         \A m \in Nodes' \ Nodes : m.class = "folder" \/ m = n
  PROVE  Browsable'
<1>1. path \in folders' \cup {Root}
  BY WayIsBrowsable DEF Browsable
<1>2. IsFiniteSet({<<path, n>>})
  BY FS_Singleton
<1>3. \A r \in {<<path, n>>} : r \in (folders' \cup {Root}) \X Nodes'
  BY <1>1
<1>4. ASSUME NEW m \in Nodes' \ Nodes, m.class # "folder"
      PROVE  \E f \in folders' \cup {Root} :
               Len(f) < Len(m.path) /\ <<f, m>> \in {<<path, n>>}
  <2>1. m = n
    BY <1>4
  <2> QED
    BY <1>1, <2>1
<1> QED
  BY <1>2, <1>3, <1>4, WayKeepsBrowsable

(* Each way to carry out a <process_variable> entry (explicitVarMapping).  *)
LEMMA VariableIsBrowsable ==
  ASSUME MappingIInv, Browsable, MapVariable
  PROVE  Browsable'
<1> DEFINE e == file.variables[i]
<1>1. i \in DOMAIN file.variables
  BY ListsOfFile DEF MapVariable, MappingIInv, ImplicitComesFirst
<1>2. /\ e.source \in Seq(STRING) /\ e.destination \in Seq(STRING)
      /\ e.name \in STRING
  BY <1>1, ListsOfFile
<1>3. RefuseVariable(e) \/ KeepOnlyHistory(e) \/ LinkVariable(e) \/ CopyVariable(e)
  BY DEF MapVariable
<1> HIDE DEF e
<1>4. CASE RefuseVariable(e) \/ KeepOnlyHistory(e)
  BY <1>4 DEF RefuseVariable, KeepOnlyHistory, Browsable, NodesBrowsable,
              Nodes, nodeVars
<1>5. CASE LinkVariable(e)
  <2>1. /\ e.source \in DOMAIN variables
        /\ folders' = WithFolders(e.destination)
        /\ references' = references \cup WayReferences(e.destination)
                           \cup {<<e.destination, Variable(e.source)>>}
        /\ UNCHANGED <<variables, additionalVariables>>
    BY <1>5 DEF LinkVariable, VariableRefused
  <2>2. Variable(e.source) \in Nodes /\ Variable(e.source) \in Nodes'
    BY <2>1 DEF Nodes
  <2>3. \A m \in Nodes' \ Nodes : m.class = "folder"
    BY <2>1 DEF Nodes, Folder
  <2>4. DOMAIN variables' \subseteq Paths /\ additionalVariables' \subseteq Paths
    BY <2>1 DEF Browsable
  <2> QED
    BY <1>2, <2>1, <2>2, <2>3, <2>4, AddedIsBrowsable
<1>6. CASE CopyVariable(e)
  <2>1. /\ folders' = WithFolders(e.destination)
        /\ UNCHANGED additionalVariables
        /\ \/ /\ references' = references \cup WayReferences(e.destination)
              /\ UNCHANGED variables
           \/ /\ e.source \in PVs
              /\ variables' = WithVariable(CopyId(e), e.source)
              /\ references' = references \cup WayReferences(e.destination)
                                 \cup {<<e.destination, Variable(CopyId(e))>>}
    BY <1>6 DEF CopyVariable
  <2>2. CASE references' = references \cup WayReferences(e.destination)
               /\ UNCHANGED variables
    BY <1>2, <2>1, <2>2, OnlyWayIsBrowsable
  <2>3. CASE /\ e.source \in PVs
             /\ variables' = WithVariable(CopyId(e), e.source)
             /\ references' = references \cup WayReferences(e.destination)
                                \cup {<<e.destination, Variable(CopyId(e))>>}
    <3>1. PICK id : id = CopyId(e)
      OBVIOUS
    <3>2. PICK name \in Seq(STRING) :
            id = e.destination \o name /\ name # <<>>
      <4>1. CASE e.name = ""
        <5>1. e.source # <<>>
          BY <2>3, MappingAssumption
        <5> QED
          BY <1>2, <3>1, <4>1, <5>1 DEF CopyId
      <4>2. CASE e.name # ""
        <5>1. <<e.name>> \in Seq(STRING) /\ <<e.name>> # <<>>
          BY <1>2
        <5> QED
          BY <3>1, <4>2, <5>1 DEF CopyId
      <4> QED
        BY <4>1, <4>2
    <3>3. id \in Seq(STRING) /\ Len(e.destination) < Len(id) /\ id # <<>>
      <4>1. /\ e.destination \o name \in Seq(STRING)
            /\ Len(e.destination \o name) = Len(e.destination) + Len(name)
        BY <1>2, <3>2, ConcatProperties
      <4>2. Len(name) \in Nat /\ Len(name) # 0 /\ Len(e.destination) \in Nat
        BY <1>2, <3>2, EmptySeq, LenProperties
      <4>3. Len(id) # 0
        BY <3>2, <4>1, <4>2
      <4> QED
        BY <3>2, <4>1, <4>2, <4>3, EmptySeq
    <3>4. id \in Paths
      BY <3>3, Zenon DEF Paths, Root
    <3>5. DOMAIN variables' = DOMAIN variables \cup {id}
      BY <2>3, <3>1 DEF WithVariable
    <3>6. Variable(id) \in Nodes' /\ Variable(id).path = id
      BY <3>5 DEF Nodes, Variable
    <3>7. \A m \in Nodes' \ Nodes : m.class = "folder" \/ m = Variable(id)
      BY <2>1, <3>5 DEF Nodes, Folder
    <3>8. DOMAIN variables' \subseteq Paths /\ additionalVariables' \subseteq Paths
      BY <2>1, <3>4, <3>5 DEF Browsable
    <3> QED
      BY <1>2, <2>1, <2>3, <3>1, <3>3, <3>5, <3>6, <3>7, <3>8, AddedIsBrowsable
  <2> QED
    BY <2>1, <2>2, <2>3
<1> QED
  BY <1>3, <1>4, <1>5, <1>6

(* An <additional_variable> entry (addAdditionalVariables).                *)
LEMMA AdditionalIsBrowsable ==
  ASSUME MappingIInv, Browsable, AddVariable
  PROVE  Browsable'
<1> DEFINE e == file.additional[i]
           id == Append(e.destination, e.name)
           A == [destination : Seq(STRING), name : STRING]
<1>1. e.destination \in Seq(STRING) /\ e.name \in STRING
  <2>1. file \in Files /\ i \in Nat \ {0} /\ i <= Len(file.additional)
    BY DEF AddVariable, MappingIInv, ImplicitComesFirst
  <2>2. file.additional \in Seq(A)
    BY <2>1, MappingAssumption
  <2> HIDE DEF A
  <2>3. i \in 1..Len(file.additional)
    BY <2>1, <2>2
  <2>4. file.additional[i] \in A
    BY <2>2, <2>3, ElementOfSeq
  <2> QED
    BY <2>4 DEF A
<1>2. \/ UNCHANGED nodeVars
      \/ /\ additionalVariables' = additionalVariables \cup {id}
         /\ folders' = WithFolders(e.destination)
         /\ references' = references \cup WayReferences(e.destination)
                            \cup {<<e.destination, Additional(id)>>}
         /\ UNCHANGED variables
  BY DEF AddVariable
<1>3. id \in Paths /\ Len(e.destination) < Len(id)
  BY <1>1, ChildOfPath
<1> HIDE DEF e, id
<1>4. CASE UNCHANGED nodeVars
  BY <1>4 DEF Browsable, NodesBrowsable, Nodes, nodeVars
<1>5. CASE /\ additionalVariables' = additionalVariables \cup {id}
           /\ folders' = WithFolders(e.destination)
           /\ references' = references \cup WayReferences(e.destination)
                              \cup {<<e.destination, Additional(id)>>}
           /\ UNCHANGED variables
  <2>1. Additional(id) \in Nodes' /\ Additional(id).path = id
    BY <1>5 DEF Nodes, Additional
  <2>2. \A m \in Nodes' \ Nodes : m.class = "folder" \/ m = Additional(id)
    BY <1>5 DEF Nodes, Folder
  <2>3. DOMAIN variables' \subseteq Paths /\ additionalVariables' \subseteq Paths
    BY <1>3, <1>5 DEF Browsable
  <2> QED
    BY <1>1, <1>3, <1>5, <2>1, <2>2, <2>3, AddedIsBrowsable
<1> QED
  BY <1>2, <1>4, <1>5

(* The browsing invariant holds: in what the entries create, too, every    *)
(* node has its parent.                                                    *)
THEOREM BrowsableInvariant == Spec => []Browsable
<1>1. Init => Browsable
  <2>1. Init => /\ folders = {} /\ additionalVariables = {} /\ references = {}
                /\ DOMAIN variables = {}
    BY DEF Init
  <2> QED
    BY <2>1, FS_EmptySet DEF Browsable, NodesBrowsable, Nodes
<1>2. ASSUME MappingIInv, Browsable, [Next]_vars PROVE Browsable'
  <2>1. CASE MapImplicit
    BY <1>2, <2>1, ImplicitIsBrowsable
  <2>2. CASE MapFolder
    BY <1>2, <2>2, FolderIsBrowsable
  <2>3. CASE MapVariable
    BY <1>2, <2>3, VariableIsBrowsable
  <2>4. CASE AddVariable
    BY <1>2, <2>4, AdditionalIsBrowsable
  <2>5. CASE EndPhase \/ UNCHANGED vars
    <3>1. UNCHANGED nodeVars
      BY <2>5 DEF EndPhase, EndOf, vars, nodeVars
    <3> QED
      BY <1>2, <3>1 DEF Browsable, NodesBrowsable, Nodes, nodeVars
  <2> QED
    BY <1>2, <2>1, <2>2, <2>3, <2>4, <2>5 DEF Next
<1> QED
  BY <1>1, <1>2, MappingInvariant, PTL DEF Spec

(* Every node can be found by browsing from the root, whatever entries the *)
(* mapping file has (createUAFolder, mapSelfToNamespace, mapVoidInput,     *)
(* deepCopyHierarchicalLayer).                                             *)
THEOREM NodesAlwaysBrowsable == Spec => []NodesBrowsable
<1>1. Browsable => NodesBrowsable
  BY DEF Browsable
<1> QED
  BY <1>1, BrowsableInvariant, PTL

-----------------------------------------------------------------------------
(* What a client finds below a folder.  The number of steps is arbitrary   *)
(* here, so that one simulation serves a folder that is linked and one     *)
(* that is copied.                                                         *)

(* A step further from the ends of some ways.                              *)
Onward(refs, W) ==
  UNION {{<<c, Append(w[2], Last(c))>> : c \in FoldersIn(refs, w[1])} : w \in W}

(* What is found at the end of a way.                                      *)
AtEnd(refs, map, w) ==
  {<<Append(w[2], Last(v)), map[v]>> : v \in VariablesIn(refs, w[1])}

(* What is found at the ends of ways, W having those of each number of     *)
(* steps.                                                                  *)
Found(refs, map, W, steps) ==
  UNION {UNION {AtEnd(refs, map, w) : w \in W[n]} : n \in 0..steps}

(* The ways from a folder, by the number of their steps.                   *)
WaysFrom(refs, f, steps) ==
  {W \in [0..steps -> SUBSET (Seq(STRING) \X Seq(STRING))] :
     W[0] = {<<f, <<>>>>} /\ \A n \in 1..steps : W[n] = Onward(refs, W[n - 1])}

(* They are what the definition of Shown goes through.                     *)
LEMMA WaysExist ==
  ASSUME NEW refs, NEW map, NEW f \in Seq(STRING), NEW steps \in Nat,
         FolderNodes(refs) \subseteq Paths
  PROVE  \E W \in WaysFrom(refs, f, steps) :
           Shown(refs, map, f, steps) = Found(refs, map, W, steps)
<1> DEFINE T == SUBSET (Seq(STRING) \X Seq(STRING))
           base == {<<f, <<>>>>}
           step == [k \in 1..steps |-> [S \in T |-> Onward(refs, S)]]
<1>1. base \in T
  <2>1. <<>> \in Seq(STRING)
    OBVIOUS
  <2>2. <<f, <<>>>> \in Seq(STRING) \X Seq(STRING)
    BY <2>1
  <2> QED
    BY <2>2
<1>2. ASSUME NEW S \in T PROVE Onward(refs, S) \in T
  <2>1. ASSUME NEW w \in S, NEW c \in FoldersIn(refs, w[1])
        PROVE  <<c, Append(w[2], Last(c))>> \in Seq(STRING) \X Seq(STRING)
    <3>1. c \in Paths
      BY <2>1 DEF FoldersIn, FolderNodes
    <3>2. Last(c) \in STRING /\ c \in Seq(STRING)
      BY <3>1, ParentOfPath DEF Paths
    <3>3. w[2] \in Seq(STRING)
      OBVIOUS
    <3>4. Append(w[2], Last(c)) \in Seq(STRING)
      BY <3>2, <3>3
    <3> QED
      BY <3>2, <3>4
  <2> QED
    BY <2>1 DEF Onward
<1>3. step \in [1..steps -> [T -> T]]
  BY <1>2
<1> HIDE DEF base, T
<1>4. PICK g \in [0..steps -> T] :
        g[0] = base /\ \A k \in 1..steps : g[k] = Onward(refs, g[k - 1])
  <2> HIDE DEF step
  <2>1. Steps(T, base, step, steps) # {}
    BY <1>1, <1>3, StepsExist
  <2>2. PICK g \in [0..steps -> T] :
          g[0] = base /\ \A k \in 1..steps : g[k] = step[k][g[k - 1]]
    BY <2>1 DEF Steps
  <2>3. ASSUME NEW k \in 1..steps PROVE g[k] = Onward(refs, g[k - 1])
    <3>1. g[k - 1] \in T
      BY <2>2
    <3> QED
      BY <2>2, <3>1 DEF step
  <2> QED
    BY <2>2, <2>3
<1> DEFINE Fits(h) == h = [n \in 0..steps |-> IF n = 0 THEN base
                                               ELSE Onward(refs, h[n - 1])]
           Ways == CHOOSE h : Fits(h)
<1>5. Fits(g)
  <2>1. g = [n \in 0..steps |-> g[n]]
    OBVIOUS
  <2>2. \A n \in 0..steps : g[n] = IF n = 0 THEN base ELSE Onward(refs, g[n - 1])
    BY <1>4
  <2> QED
    BY <2>1, <2>2
<1>6. Fits(Ways)
  BY <1>5
<1>7. Shown(refs, map, f, steps) = Found(refs, map, Ways, steps)
  BY DEF Shown, Onward, AtEnd, Found, base
<1> HIDE DEF Ways
<1>8. /\ DOMAIN Ways = 0..steps /\ Ways = [n \in 0..steps |-> Ways[n]]
      /\ Ways[0] = base
      /\ \A n \in 1..steps : Ways[n] = Onward(refs, Ways[n - 1])
  BY <1>6
<1>9. Ways \in [0..steps -> T]
  <2> DEFINE H == {n \in Nat : n <= steps => Ways[n] \in T}
  <2>1. 0 \in H
    BY <1>1, <1>8
  <2>2. \A n \in Nat : n \in H => n + 1 \in H
    <3> SUFFICES ASSUME NEW n \in Nat, n \in H, n + 1 <= steps
                 PROVE  Ways[n + 1] \in T
      OBVIOUS
    <3>1. n + 1 \in 1..steps /\ (n + 1) - 1 = n /\ Ways[n] \in T
      OBVIOUS
    <3>2. Ways[n + 1] = Onward(refs, Ways[(n + 1) - 1])
      BY <1>8, <3>1
    <3> QED
      BY <1>2, <3>1, <3>2
  <2> HIDE DEF H
  <2>3. \A n \in Nat : n \in H
    BY <2>1, <2>2, Induction
  <2> QED
    BY <1>8, <2>3 DEF H
<1> QED
  BY <1>7, <1>8, <1>9 DEF T, base, WaysFrom

(* Two walks of which the second goes wherever the first does, in folders  *)
(* that R pairs: it does so in the beginning and after every step.         *)
InStep(R, A, B) == \A w \in A : \E x \in B : <<w[1], x[1]>> \in R /\ x[2] = w[2]
CarriesOn(refs, refs2, R) ==
  \A f, g : <<f, g>> \in R =>
    \A c \in FoldersIn(refs, f) : \E d \in FoldersIn(refs2, g) :
      Last(d) = Last(c) /\ <<c, d>> \in R

LEMMA InStepAtFirst ==
  ASSUME NEW R, NEW s, NEW t, <<s, t>> \in R
  PROVE  InStep(R, {<<s, <<>>>>}, {<<t, <<>>>>})
BY DEF InStep

LEMMA OnwardComesTo ==
  ASSUME NEW refs, NEW W, NEW y
  PROVE  y \in Onward(refs, W) <=>
           \E w \in W : \E c \in FoldersIn(refs, w[1]) : y = <<c, Append(w[2], Last(c))>>
BY DEF Onward

LEMMA InStepOnward ==
  ASSUME NEW refs, NEW refs2, NEW R, NEW A, NEW B, InStep(R, A, B), CarriesOn(refs, refs2, R)
  PROVE  InStep(R, Onward(refs, A), Onward(refs2, B))
<1> SUFFICES ASSUME NEW y \in Onward(refs, A)
             PROVE  \E x \in Onward(refs2, B) : <<y[1], x[1]>> \in R /\ x[2] = y[2]
  BY DEF InStep
<1>1. PICK w \in A : \E c \in FoldersIn(refs, w[1]) : y = <<c, Append(w[2], Last(c))>>
  BY OnwardComesTo
<1>2. PICK c \in FoldersIn(refs, w[1]) : y = <<c, Append(w[2], Last(c))>>
  BY <1>1
<1>3. PICK x \in B : <<w[1], x[1]>> \in R /\ x[2] = w[2]
  BY DEF InStep
<1>4. PICK d \in FoldersIn(refs2, x[1]) : Last(d) = Last(c) /\ <<c, d>> \in R
  BY <1>3 DEF CarriesOn
<1> DEFINE z == <<d, Append(x[2], Last(d))>>
<1>5. z \in Onward(refs2, B)
  BY <1>4, OnwardComesTo
<1>6. <<y[1], z[1]>> \in R /\ z[2] = y[2]
  BY <1>2, <1>3, <1>4
<1> QED
  BY <1>5, <1>6

(* A folder shows whatever a second one simulates.  R pairs folders of     *)
(* the first with folders of the second that show the same names.          *)
LEMMA ShownElsewhere ==
  ASSUME NEW refs, NEW map, NEW refs2, NEW map2, NEW steps \in Nat,
         FolderNodes(refs) \subseteq Paths, FolderNodes(refs2) \subseteq Paths,
         NEW s \in Seq(STRING), NEW t \in Seq(STRING), NEW R, <<s, t>> \in R,
         \A f, g : <<f, g>> \in R =>
           /\ \A c \in FoldersIn(refs, f) : \E d \in FoldersIn(refs2, g) :
                Last(d) = Last(c) /\ <<c, d>> \in R
           /\ \A v \in VariablesIn(refs, f) : \E u \in VariablesIn(refs2, g) :
                Last(u) = Last(v) /\ map2[u] = map[v]
  PROVE  Shown(refs, map, s, steps) \subseteq Shown(refs2, map2, t, steps)
<1>1. PICK V \in WaysFrom(refs, s, steps) :
        Shown(refs, map, s, steps) = Found(refs, map, V, steps)
  BY WaysExist
<1>2. PICK W \in WaysFrom(refs2, t, steps) :
        Shown(refs2, map2, t, steps) = Found(refs2, map2, W, steps)
  BY WaysExist
<1> DEFINE H == {n \in Nat : n <= steps => InStep(R, V[n], W[n])}
<1>3. 0 \in H
  <2>1. V[0] = {<<s, <<>>>>} /\ W[0] = {<<t, <<>>>>}
    BY DEF WaysFrom
  <2>2. InStep(R, {<<s, <<>>>>}, {<<t, <<>>>>})
    BY InStepAtFirst, Zenon
  <2>3. InStep(R, V[0], W[0])
    BY <2>1, <2>2, Zenon
  <2> QED
    BY <2>3
<1>4. ASSUME NEW n \in Nat, n \in H PROVE n + 1 \in H
  <2> SUFFICES ASSUME n + 1 <= steps PROVE InStep(R, V[n + 1], W[n + 1])
    OBVIOUS
  <2>1. InStep(R, V[n], W[n])
    <3>1. n <= steps
      OBVIOUS
    <3> QED
      BY <1>4, <3>1
  <2>2. V[n + 1] = Onward(refs, V[n]) /\ W[n + 1] = Onward(refs2, W[n])
    <3>1. n + 1 \in 1..steps /\ (n + 1) - 1 = n
      OBVIOUS
    <3>2. /\ V[n + 1] = Onward(refs, V[(n + 1) - 1])
          /\ W[n + 1] = Onward(refs2, W[(n + 1) - 1])
      BY <3>1 DEF WaysFrom
    <3> QED
      BY <3>1, <3>2
  <2>3. CarriesOn(refs, refs2, R)
    BY DEF CarriesOn
  <2>4. InStep(R, Onward(refs, V[n]), Onward(refs2, W[n]))
    BY <2>1, <2>3, InStepOnward, Zenon
  <2> QED
    BY <2>2, <2>4, Zenon
<1> HIDE DEF H
<1>5. \A n \in Nat : n \in H
  BY <1>3, <1>4, Induction
<1> SUFFICES ASSUME NEW n \in 0..steps, NEW w \in V[n],
                    NEW z, z \in AtEnd(refs, map, w)
             PROVE  z \in Shown(refs2, map2, t, steps)
  BY <1>1 DEF Found
<1>6. InStep(R, V[n], W[n])
  <2>1. n \in Nat /\ n <= steps /\ n \in H
    BY <1>5
  <2> QED
    BY <2>1 DEF H
<1>7. PICK x \in W[n] : <<w[1], x[1]>> \in R /\ x[2] = w[2]
  BY <1>6 DEF InStep
<1>8. PICK v \in VariablesIn(refs, w[1]) : z = <<Append(w[2], Last(v)), map[v]>>
  BY DEF AtEnd
<1>9. PICK u \in VariablesIn(refs2, x[1]) : Last(u) = Last(v) /\ map2[u] = map[v]
  BY <1>7
<1>10. z = <<Append(x[2], Last(u)), map2[u]>>
  BY <1>7, <1>8, <1>9
<1>11. z \in AtEnd(refs2, map2, x)
  BY <1>10 DEF AtEnd
<1> QED
  BY <1>2, <1>11 DEF Found

-----------------------------------------------------------------------------
(* What is below a folder.  The definition goes as many steps as there are *)
(* folders with references, and that is far enough.                        *)

Sources(refs) == {r[1] : r \in refs}

(* They are as finite as the references.                                   *)
LEMMA SourcesAreFinite ==
  ASSUME NEW refs, IsFiniteSet(refs)
  PROVE  IsFiniteSet(Sources(refs)) /\ Cardinality(Sources(refs)) \in Nat
<1> DEFINE f == [r \in refs |-> r[1]]
<1>1. Sources(refs) = {f[r] : r \in refs}
  BY DEF Sources
<1> HIDE DEF f
<1>2. IsFiniteSet({f[r] : r \in refs})
  BY ImageIsFinite
<1> QED
  BY <1>1, <1>2, FS_CardinalityType

(* A step further from some folders.                                       *)
Wider(refs, S) == S \cup UNION {FoldersIn(refs, g) : g \in S}

(* The folders that so many steps come to.                                 *)
Reach(refs, f) ==
  {g \in [Nat -> SUBSET FolderNodes(refs)] :
     g[0] = FoldersIn(refs, f) /\ \A k \in Nat \ {0} : g[k] = Wider(refs, g[k - 1])}

(* The definition of what is below goes through these steps.               *)
LEMMA BelowIsReached ==
  ASSUME NEW refs, NEW f
  PROVE  \E g \in Reach(refs, f) : Below(refs, f) = g[Cardinality(Sources(refs))]
<1> DEFINE T == SUBSET FolderNodes(refs)
           base == FoldersIn(refs, f)
           step == [k \in Nat |-> [S \in T |-> Wider(refs, S)]]
<1>1. \A g : FoldersIn(refs, g) \in T
  BY DEF FoldersIn, FolderNodes
<1>2. base \in T
  BY <1>1
<1>3. \A S \in T : Wider(refs, S) \in T
  BY <1>1 DEF Wider
<1>4. step \in [Nat -> [T -> T]]
  BY <1>3
<1> HIDE DEF base, T
<1>5. PICK g \in [Nat -> T] :
        g[0] = base /\ \A k \in Nat \ {0} : g[k] = Wider(refs, g[k - 1])
  <2> HIDE DEF step
  <2>1. Recursion(T, base, step) # {}
    BY <1>2, <1>4, RecursionExists
  <2>2. PICK g \in [Nat -> T] :
          g[0] = base /\ \A k \in Nat \ {0} : g[k] = step[k][g[k - 1]]
    BY <2>1 DEF Recursion
  <2>3. ASSUME NEW k \in Nat \ {0} PROVE g[k] = Wider(refs, g[k - 1])
    <3>1. g[k - 1] \in T /\ k \in Nat
      OBVIOUS
    <3> QED
      BY <2>2, <3>1 DEF step
  <2> QED
    BY <2>2, <2>3
<1> DEFINE Fits(h) == h = [k \in Nat |-> IF k = 0 THEN base ELSE Wider(refs, h[k - 1])]
           Reached == CHOOSE h : Fits(h)
<1>6. Fits(g)
  <2>1. g = [k \in Nat |-> g[k]]
    OBVIOUS
  <2>2. \A k \in Nat : g[k] = IF k = 0 THEN base ELSE Wider(refs, g[k - 1])
    BY <1>5
  <2> QED
    BY <2>1, <2>2
<1>7. Fits(Reached)
  BY <1>6
<1>8. Below(refs, f) = Reached[Cardinality(Sources(refs))]
  BY DEF Below, Wider, Sources, base
<1> HIDE DEF Reached
<1>9. /\ DOMAIN Reached = Nat /\ Reached = [k \in Nat |-> Reached[k]]
      /\ Reached[0] = base
      /\ \A k \in Nat \ {0} : Reached[k] = Wider(refs, Reached[k - 1])
  BY <1>7
<1>10. Reached \in [Nat -> T]
  <2> DEFINE H == {k \in Nat : Reached[k] \in T}
  <2>1. 0 \in H
    BY <1>2, <1>9
  <2>2. \A k \in Nat : k \in H => k + 1 \in H
    <3> SUFFICES ASSUME NEW k \in Nat, k \in H PROVE Reached[k + 1] \in T
      OBVIOUS
    <3>1. k + 1 \in Nat \ {0} /\ (k + 1) - 1 = k /\ Reached[k] \in T
      OBVIOUS
    <3>2. Reached[k + 1] = Wider(refs, Reached[(k + 1) - 1])
      BY <1>9, <3>1
    <3> QED
      BY <1>3, <3>1, <3>2
  <2> HIDE DEF H
  <2>3. \A k \in Nat : k \in H
    BY <2>1, <2>2, Induction
  <2> QED
    BY <1>9, <2>3 DEF H
<1> QED
  BY <1>8, <1>9, <1>10 DEF Reach, T, base

(* It has the subfolders of the folder and those of what it has: the walk  *)
(* that still finds a folder after so many steps would have gone through   *)
(* more folders than there are.                                            *)
LEMMA BelowIsClosed ==
  ASSUME NEW refs, IsFiniteSet(refs), NEW f
  PROVE  /\ Below(refs, f) \subseteq FolderNodes(refs)
         /\ FoldersIn(refs, f) \subseteq Below(refs, f)
         /\ \A g \in Below(refs, f) : FoldersIn(refs, g) \subseteq Below(refs, f)
<1> DEFINE S == Sources(refs)
           n == Cardinality(S)
<1>1. IsFiniteSet(S) /\ n \in Nat
  BY SourcesAreFinite
<1>2. PICK g \in Reach(refs, f) : Below(refs, f) = g[n]
  BY BelowIsReached
<1>3. /\ g \in [Nat -> SUBSET FolderNodes(refs)] /\ g[0] = FoldersIn(refs, f)
      /\ \A k \in Nat : g[k + 1] = Wider(refs, g[k])
  <2>1. /\ g \in [Nat -> SUBSET FolderNodes(refs)] /\ g[0] = FoldersIn(refs, f)
        /\ \A k \in Nat \ {0} : g[k] = Wider(refs, g[k - 1])
    BY DEF Reach
  <2>2. ASSUME NEW k \in Nat PROVE g[k + 1] = Wider(refs, g[k])
    <3>1. k + 1 \in Nat \ {0} /\ (k + 1) - 1 = k
      OBVIOUS
    <3>2. g[k + 1] = Wider(refs, g[(k + 1) - 1])
      BY <2>1, <3>1
    <3> QED
      BY <3>1, <3>2
  <2> QED
    BY <2>1, <2>2
<1> DEFINE IsClosed(X) == \A h \in X : FoldersIn(refs, h) \subseteq X
<1>4. \A h, c : c \in FoldersIn(refs, h) => h \in S
  BY DEF FoldersIn, Sources
<1> HIDE DEF S, n
<1> DEFINE K == {k \in Nat : \/ IsClosed(g[k])
                             \/ Cardinality(g[k] \cap S) > k}
<1>5. 0 \in K
  <2> SUFFICES ASSUME ~IsClosed(g[0]) PROVE Cardinality(g[0] \cap S) > 0
    OBVIOUS
  <2>1. g[0] \cap S # {}
    BY <1>4
  <2>2. IsFiniteSet(g[0] \cap S)
    BY <1>1, FS_Subset
  <2>3. Cardinality(g[0] \cap S) \in Nat /\ Cardinality(g[0] \cap S) # 0
    BY <2>1, <2>2, FS_EmptySet, FS_CardinalityType
  <2> QED
    BY <2>3
<1>6. ASSUME NEW k \in Nat, k \in K PROVE k + 1 \in K
  <2> DEFINE A == g[k] \cap S
             B == g[k + 1] \cap S
  <2> SUFFICES ASSUME ~IsClosed(g[k + 1]) PROVE Cardinality(B) > k + 1
    OBVIOUS
  <2>1. g[k + 1] = Wider(refs, g[k])
    BY <1>3
  <2>2. PICK h \in g[k + 1], c \in FolderNodes(refs) :
          c \in FoldersIn(refs, h) /\ c \notin g[k + 1]
    BY DEF FoldersIn, FolderNodes
  <2>3. h \in B /\ h \notin A
    <3>1. h \notin g[k]
      BY <2>1, <2>2 DEF Wider
    <3> QED
      BY <1>4, <2>2, <3>1
  <2>4. A \subseteq B
    BY <2>1 DEF Wider
  <2>5. ~IsClosed(g[k])
    BY <2>1, <2>2, <2>3, <1>4 DEF Wider
  <2>6. Cardinality(A) > k
    BY <1>6, <2>5
  <2>7. IsFiniteSet(A) /\ IsFiniteSet(B)
    BY <1>1, FS_Subset
  <2> HIDE DEF A, B
  <2>8. Cardinality(A) <= Cardinality(B) /\ Cardinality(A) # Cardinality(B)
    BY <2>3, <2>4, <2>7, FS_Subset
  <2>9. Cardinality(A) \in Nat /\ Cardinality(B) \in Nat
    BY <2>7, FS_CardinalityType
  <2> QED
    BY <2>6, <2>8, <2>9
<1> HIDE DEF K
<1>7. n \in K
  BY <1>1, <1>5, <1>6, Induction
<1>8. IsClosed(g[n])
  <2>1. IsFiniteSet(S) /\ g[n] \cap S \in SUBSET S
    BY <1>1
  <2>2. Cardinality(g[n] \cap S) <= n
    BY <2>1, FS_Subset DEF n
  <2>3. Cardinality(g[n] \cap S) \in Nat
    BY <2>1, FS_Subset, FS_CardinalityType
  <2> HIDE DEF IsClosed
  <2> QED
    BY <1>1, <1>7, <2>2, <2>3 DEF K
<1>9. FoldersIn(refs, f) \subseteq g[n]
  <2> DEFINE H == {k \in Nat : g[0] \subseteq g[k]}
  <2>1. 0 \in H
    OBVIOUS
  <2>2. \A k \in Nat : k \in H => k + 1 \in H
    BY <1>3 DEF Wider
  <2> HIDE DEF H
  <2>3. n \in H
    BY <1>1, <2>1, <2>2, Induction
  <2> QED
    BY <1>3, <2>3 DEF H
<1> QED
  BY <1>1, <1>2, <1>3, <1>8, <1>9

(* It is the least such set.                                               *)
LEMMA BelowIsLeast ==
  ASSUME NEW refs, IsFiniteSet(refs), NEW f, NEW B, FoldersIn(refs, f) \subseteq B,
         \A g \in B : FoldersIn(refs, g) \subseteq B
  PROVE  Below(refs, f) \subseteq B
<1>1. PICK g \in Reach(refs, f) : Below(refs, f) = g[Cardinality(Sources(refs))]
  BY BelowIsReached
<1>2. Cardinality(Sources(refs)) \in Nat
  BY SourcesAreFinite
<1> DEFINE H == {k \in Nat : g[k] \subseteq B}
<1>3. 0 \in H
  BY DEF Reach
<1>4. ASSUME NEW k \in Nat, k \in H PROVE k + 1 \in H
  <2>1. k + 1 \in Nat \ {0} /\ (k + 1) - 1 = k
    OBVIOUS
  <2>2. g[k + 1] = Wider(refs, g[(k + 1) - 1])
    BY <2>1 DEF Reach
  <2>3. g[k] \subseteq B
    BY <1>4
  <2>4. Wider(refs, g[k]) \subseteq B
    BY <2>3 DEF Wider
  <2> QED
    BY <2>1, <2>2, <2>4
<1> HIDE DEF H
<1>5. Cardinality(Sources(refs)) \in H
  BY <1>2, <1>3, <1>4, Induction
<1> QED
  BY <1>1, <1>5 DEF H

-----------------------------------------------------------------------------
(* Where the walk puts its copies.                                         *)

(* The beginnings of a beginning of a path begin the path.                 *)
LEMMA WayOfWay ==
  ASSUME NEW path \in Seq(STRING), NEW f \in Way(path)
  PROVE  f \in Seq(STRING) /\ Way(f) \subseteq Way(path) /\ Len(f) <= Len(path)
<1>1. PICK n \in 1..Len(path) : f = SubSeq(path, 1, n)
  BY DEF Way
<1>2. Len(path) \in Nat /\ n \in 0..Len(path) /\ n \in Nat
  OBVIOUS
<1>3. /\ f \in Seq(STRING) /\ Len(f) = n
      /\ f = [j \in 1..n |-> path[j]]
  BY <1>1, <1>2, InitialSegment
<1>4. ASSUME NEW k \in 1..Len(f) PROVE SubSeq(f, 1, k) \in Way(path)
  <2>1. k \in 0..Len(f) /\ k \in 0..Len(path) /\ k \in 1..Len(path)
    BY <1>2, <1>3
  <2>2. SubSeq(f, 1, k) = [j \in 1..k |-> f[j]]
    BY <1>3, <2>1, InitialSegment
  <2>3. SubSeq(path, 1, k) = [j \in 1..k |-> path[j]]
    BY <2>1, InitialSegment
  <2>4. \A j \in 1..k : f[j] = path[j]
    BY <1>3, <2>1
  <2>5. SubSeq(f, 1, k) = SubSeq(path, 1, k)
    BY <2>2, <2>3, <2>4
  <2> QED
    BY <2>1, <2>5 DEF Way
<1>5. Way(f) \subseteq Way(path)
  BY <1>4 DEF Way
<1> QED
  BY <1>2, <1>3, <1>5

(* A path is the last on its way.                                          *)
LEMMA PathOnItsWay ==
  ASSUME NEW path \in Paths
  PROVE  path \in Way(path)
<1>1. path \in Seq(STRING) /\ Len(path) \in 1..Len(path)
  BY ParentOfPath DEF Paths
<1>2. SubSeq(path, 1, Len(path)) = path
  BY <1>1
<1> QED
  BY <1>1, <1>2 DEF Way

(* The way to what is in a folder.                                         *)
LEMMA WayOfAppend ==
  ASSUME NEW S, NEW path \in Seq(S), NEW name \in S
  PROVE  Way(Append(path, name)) = Way(path) \cup {Append(path, name)}
<1> DEFINE t == Append(path, name)
           n == Len(path)
<1>1. /\ t \in Seq(S) /\ n \in Nat /\ Len(t) = n + 1
      /\ \A k \in 1..n : t[k] = path[k]
  BY AppendProperties, LenProperties
<1> HIDE DEF t
<1>2. SubSeq(t, 1, n + 1) = t
  BY <1>1
<1>3. ASSUME NEW k \in 1..n PROVE SubSeq(t, 1, k) = SubSeq(path, 1, k)
  <2>1. k \in 0..Len(t) /\ k \in 0..Len(path)
    BY <1>1
  <2>2. /\ SubSeq(t, 1, k) = [j \in 1..k |-> t[j]]
        /\ SubSeq(path, 1, k) = [j \in 1..k |-> path[j]]
    BY <1>1, <2>1, InitialSegment
  <2>3. \A j \in 1..k : t[j] = path[j]
    BY <1>1
  <2> QED
    BY <2>2, <2>3
<1>4. Way(t) = {SubSeq(t, 1, k) : k \in 1..(n + 1)}
  BY <1>1 DEF Way
<1>5. 1..(n + 1) = 1..n \cup {n + 1}
  BY <1>1
<1> HIDE DEF n
<1>6. Way(t) = {SubSeq(t, 1, k) : k \in 1..n} \cup {SubSeq(t, 1, n + 1)}
  BY <1>4, <1>5
<1>7. {SubSeq(t, 1, k) : k \in 1..n} = Way(path)
  BY <1>3 DEF Way, n
<1> QED
  BY <1>2, <1>6, <1>7 DEF t

(* Every walk from the source and its steps.                               *)
Walk(refs, first, e) ==
  {g \in [Nat -> SUBSET Pairs] :
     /\ g[0] = {[from |-> e.source, to |-> Target(e)]}
     /\ \A k \in Nat : g[k + 1] = Further(refs, first, g[k])}

(* The folders that are copied are those of a walk.                        *)
LEMMA CopiesOfWalk ==
  ASSUME NEW refs, NEW first, NEW e, e.source \in Seq(STRING), Target(e) \in Paths,
         FolderNodes(refs) \subseteq Paths, IsFiniteSet(refs)
  PROVE  \E g \in Walk(refs, first, e) :
           CopiedFolders(refs, e, first) = g[Cardinality(Sources(refs))]
<1>1. PICK g \in [Nat -> SUBSET Pairs] :
        /\ g[0] = {[from |-> e.source, to |-> Target(e)]}
        /\ \A k \in Nat \ {0} : g[k] = Further(refs, first, g[k - 1])
        /\ CopiedFolders(refs, e, first) = g[Cardinality({r[1] : r \in refs})]
  BY WalkExists
<1>2. ASSUME NEW k \in Nat PROVE g[k + 1] = Further(refs, first, g[k])
  <2>1. k + 1 \in Nat \ {0} /\ (k + 1) - 1 = k
    OBVIOUS
  <2>2. g[k + 1] = Further(refs, first, g[(k + 1) - 1])
    BY <1>1, <2>1
  <2> QED
    BY <2>1, <2>2
<1> QED
  BY <1>1, <1>2 DEF Walk, Sources

(* What a step of the walk adds: a copy in a copy.                         *)
LEMMA FurtherCopies ==
  ASSUME NEW refs, NEW first, NEW S, S \subseteq Pairs, FolderNodes(refs) \subseteq Paths,
         NEW pair \in Further(refs, first, S), pair \notin S
  PROVE  \E p \in S, c \in FolderNodes(refs) :
           /\ c \in CopiedIn(refs, first, p.from)
           /\ pair = [from |-> c, to |-> Append(p.to, Last(c))]
           /\ p.to \in Seq(STRING) /\ Last(c) \in STRING
           /\ Append(p.to, Last(c)) \in Paths /\ Front(Append(p.to, Last(c))) = p.to
           /\ Len(p.to) < Len(Append(p.to, Last(c)))
           /\ Last(Append(p.to, Last(c))) = Last(c)
<1>1. PICK p \in S : \E c \in CopiedIn(refs, first, p.from) :
        pair = [from |-> c, to |-> Append(p.to, Last(c))]
  BY DEF Further
<1>2. PICK c \in CopiedIn(refs, first, p.from) :
        pair = [from |-> c, to |-> Append(p.to, Last(c))]
  BY <1>1
<1>3. c \in FolderNodes(refs)
  BY DEF CopiedIn, FoldersIn, FolderNodes
<1>4. p.to \in Seq(STRING)
  BY DEF Pairs, Paths
<1>5. Last(c) \in STRING
  <2>1. c \in Paths
    BY <1>3
  <2> QED
    BY <2>1, ParentOfPath
<1>6. /\ Append(p.to, Last(c)) \in Paths /\ Front(Append(p.to, Last(c))) = p.to
      /\ Len(p.to) < Len(Append(p.to, Last(c)))
  BY <1>4, <1>5, ChildOfPath
<1>7. Last(Append(p.to, Last(c))) = Last(c)
  BY <1>4, <1>5, FrontOfAppend
<1> QED
  BY <1>2, <1>3, <1>4, <1>5, <1>6, <1>7

Places(copied) == {pair.to : pair \in copied}

(* Copies are below the new folder, with the folders on the way to them,   *)
(* and are those of the source and of what is below it.                    *)
LEMMA CopiesInPlace ==
  ASSUME NEW refs, NEW first, NEW e, e.source \in Seq(STRING), Target(e) \in Paths,
         FolderNodes(refs) \subseteq Paths, IsFiniteSet(refs),
         NEW copied, copied = CopiedFolders(refs, e, first)
  PROVE  /\ copied \subseteq Pairs
         /\ \E pair \in copied : pair.from = e.source /\ pair.to = Target(e)
         /\ \A pair \in copied :
              /\ Target(e) \in Way(pair.to)
              /\ Way(pair.to) \subseteq Way(Target(e)) \cup Places(copied)
              /\ pair.to = Target(e) => pair.from = e.source
              /\ pair.from \in {e.source} \cup Below(refs, e.source)
<1>1. PICK g \in Walk(refs, first, e) : copied = g[Cardinality(Sources(refs))]
  BY CopiesOfWalk
<1>2. Cardinality(Sources(refs)) \in Nat
  BY SourcesAreFinite
<1>3. /\ g \in [Nat -> SUBSET Pairs] /\ g[0] = {[from |-> e.source, to |-> Target(e)]}
      /\ \A k \in Nat : g[k + 1] = Further(refs, first, g[k])
  BY DEF Walk
<1> DEFINE Start == [from |-> e.source, to |-> Target(e)]
           InPlaceIn(S, pair) ==
             /\ Target(e) \in Way(pair.to)
             /\ Way(pair.to) \subseteq Way(Target(e)) \cup {p.to : p \in S}
             /\ pair = Start \/ Len(Target(e)) < Len(pair.to)
             /\ pair.from \in {e.source} \cup Below(refs, e.source)
           H == {k \in Nat : Start \in g[k] /\ \A pair \in g[k] : InPlaceIn(g[k], pair)}
<1>4. 0 \in H
  <2>1. Target(e) \in Way(Target(e))
    BY PathOnItsWay
  <2>2. Start.to = Target(e) /\ Start.from = e.source
    OBVIOUS
  <2>3. InPlaceIn(g[0], Start)
    BY <2>1, <2>2
  <2> HIDE DEF InPlaceIn, Start
  <2> QED
    BY <1>3, <2>3 DEF Start
<1>5. ASSUME NEW k \in Nat, k \in H PROVE k + 1 \in H
  <2> DEFINE S == g[k]
             N == g[k + 1]
  <2>1. S \subseteq Pairs /\ N = Further(refs, first, S) /\ S \subseteq N
    BY <1>3 DEF Further
  <2>2. Start \in S /\ \A pair \in S : InPlaceIn(S, pair)
    BY <1>5
  <2> HIDE DEF S, N, H, Start
  <2>3. ASSUME NEW pair \in S PROVE InPlaceIn(N, pair)
    <3>1. InPlaceIn(S, pair)
      BY <2>2
    <3> QED
      BY <2>1, <3>1
  <2>4. ASSUME NEW pair \in N, pair \notin S PROVE InPlaceIn(N, pair)
    <3>1. PICK p \in S, c \in FolderNodes(refs) :
            /\ c \in CopiedIn(refs, first, p.from)
            /\ pair = [from |-> c, to |-> Append(p.to, Last(c))]
            /\ p.to \in Seq(STRING) /\ Last(c) \in STRING
            /\ Append(p.to, Last(c)) \in Paths /\ Front(Append(p.to, Last(c))) = p.to
            /\ Len(p.to) < Len(Append(p.to, Last(c)))
      BY <2>1, <2>4, FurtherCopies
    <3>2. InPlaceIn(S, p)
      BY <2>2
    <3>3. Way(pair.to) = Way(p.to) \cup {pair.to} /\ pair.from = c
      BY <3>1, WayOfAppend
    <3>4. Target(e) \in Way(pair.to)
      BY <3>2, <3>3
    <3>5. Way(pair.to) \subseteq Way(Target(e)) \cup {q.to : q \in N}
      BY <2>1, <2>4, <3>2, <3>3
    <3>6. Len(Target(e)) < Len(pair.to)
      <4>1. Len(Target(e)) \in Nat /\ Len(p.to) \in Nat /\ Len(pair.to) \in Nat
        <5>1. Target(e) \in Seq(STRING) /\ pair.to \in Seq(STRING)
          BY <3>1 DEF Paths
        <5> QED
          BY <3>1, <5>1
      <4>2. Len(p.to) < Len(pair.to)
        BY <3>1
      <4>3. p = Start \/ Len(Target(e)) < Len(p.to)
        BY <3>2
      <4>4. p = Start => p.to = Target(e)
        BY DEF Start
      <4> QED
        BY <4>1, <4>2, <4>3, <4>4
    <3>7. pair.from \in Below(refs, e.source)
      <4>1. c \in FoldersIn(refs, p.from)
        BY <3>1 DEF CopiedIn
      <4>2. p.from \in {e.source} \cup Below(refs, e.source)
        BY <3>2
      <4> QED
        BY <3>3, <4>1, <4>2, BelowIsClosed
    <3> QED
      BY <3>4, <3>5, <3>6, <3>7
  <2> HIDE DEF InPlaceIn
  <2>5. Start \in N /\ \A pair \in N : InPlaceIn(N, pair)
    BY <2>1, <2>2, <2>3, <2>4
  <2> QED
    BY <2>5 DEF H, N
<1> HIDE DEF H
<1>6. Cardinality(Sources(refs)) \in H
  BY <1>2, <1>4, <1>5, Induction
<1> HIDE DEF Start
<1>7. Start \in copied /\ \A pair \in copied : InPlaceIn(copied, pair)
  BY <1>1, <1>6 DEF H
<1>8. copied \subseteq Pairs
  BY <1>1, <1>2, <1>3
<1>9. Start.from = e.source /\ Start.to = Target(e)
  BY DEF Start
<1>10. ASSUME NEW pair \in copied, pair.to = Target(e) PROVE pair.from = e.source
  <2>1. pair = Start \/ Len(Target(e)) < Len(pair.to)
    BY <1>7
  <2>2. Len(Target(e)) \in Nat
    BY ParentOfPath
  <2>3. pair = Start
    BY <1>10, <2>1, <2>2
  <2> QED
    BY <1>9, <2>3
<1> QED
  BY <1>7, <1>8, <1>9, <1>10 DEF Places

(* Of several subfolders with one name the walk copies only the first.     *)
LEMMA CopiedByName ==
  ASSUME NEW refs, IsFiniteSet(refs), NEW s, NEW first \in Firsts(refs, s),
         NEW f \in {s} \cup Below(refs, s),
         NEW c \in CopiedIn(refs, first, f), NEW d \in CopiedIn(refs, first, f),
         Last(c) = Last(d)
  PROVE  c = d
<1>1. c \in FoldersIn(refs, f) /\ d \in FoldersIn(refs, f)
  BY DEF CopiedIn
<1>2. DOMAIN first = Twins(refs, s)
  BY DEF Firsts
<1>3. CASE <<f, Last(c)>> \in DOMAIN first
  <2>1. first[<<f, Last(c)>>] = c /\ first[<<f, Last(d)>>] = d
    BY <1>3 DEF CopiedIn
  <2> QED
    BY <2>1
<1>4. CASE <<f, Last(c)>> \notin DOMAIN first
  <2> DEFINE A == {g \in FoldersIn(refs, f) : Last(g) = Last(c)}
  <2>1. c \in Below(refs, s)
    BY <1>1, BelowIsClosed
  <2>2. <<f, Last(c)>> \in ({s} \cup Below(refs, s)) \X {Last(g) : g \in Below(refs, s)}
    BY <2>1
  <2>3. ~(Cardinality(A) > 1)
    BY <1>2, <1>4, <2>2 DEF Twins
  <2>4. FoldersIn(refs, f) \subseteq FolderNodes(refs)
    BY DEF FoldersIn, FolderNodes
  <2>5. IsFiniteSet(A)
    BY <2>4, NodesAreFinite, FS_Subset
  <2>6. c \in A /\ d \in A
    BY <1>1
  <2> HIDE DEF A
  <2> SUFFICES ASSUME c # d PROVE FALSE
    OBVIOUS
  <2>7. IsFiniteSet({c}) /\ Cardinality({c}) = 1
    BY FS_Singleton
  <2>8. {c} \in SUBSET A /\ {c} # A
    BY <2>6
  <2>9. Cardinality({c}) <= Cardinality(A) /\ Cardinality(A) # Cardinality({c})
    BY <2>5, <2>8, FS_Subset
  <2>10. Cardinality(A) \in Nat
    BY <2>5, FS_CardinalityType
  <2> QED
    BY <2>3, <2>7, <2>9, <2>10
<1> QED
  BY <1>3, <1>4

(* So each copy is the copy of one folder.                                 *)
LEMMA CopiesOfOne ==
  ASSUME NEW refs, NEW e, e.source \in Seq(STRING), Target(e) \in Paths,
         NEW first \in Firsts(refs, e.source),
         FolderNodes(refs) \subseteq Paths, IsFiniteSet(refs),
         NEW copied, copied = CopiedFolders(refs, e, first)
  PROVE  \A p, q \in copied : p.to = q.to => p.from = q.from
<1>1. PICK g \in Walk(refs, first, e) : copied = g[Cardinality(Sources(refs))]
  BY CopiesOfWalk
<1>2. Cardinality(Sources(refs)) \in Nat
  BY SourcesAreFinite
<1>3. /\ g \in [Nat -> SUBSET Pairs] /\ g[0] = {[from |-> e.source, to |-> Target(e)]}
      /\ \A k \in Nat : g[k + 1] = Further(refs, first, g[k])
  BY DEF Walk
<1> DEFINE Start == [from |-> e.source, to |-> Target(e)]
           IsChild(S, a) == \E b \in S, c \in FolderNodes(refs) :
             /\ c \in CopiedIn(refs, first, b.from) /\ a.from = c
             /\ Front(a.to) = b.to /\ Last(a.to) = Last(c)
           Fits(S, a) == /\ a.from \in {e.source} \cup Below(refs, e.source)
                         /\ \/ a = Start
                            \/ Len(Target(e)) < Len(a.to) /\ IsChild(S, a)
           Unique(S) == \A a, b \in S : a.to = b.to => a.from = b.from
           H == {k \in Nat : (\A a \in g[k] : Fits(g[k], a)) /\ Unique(g[k])}
<1>4. 0 \in H
  <2>1. Fits(g[0], Start)
    OBVIOUS
  <2>2. Unique(g[0])
    BY <1>3
  <2> HIDE DEF Fits, Unique, Start
  <2> QED
    BY <1>3, <2>1, <2>2 DEF Start
<1>5. ASSUME NEW k \in Nat, k \in H PROVE k + 1 \in H
  <2> DEFINE S == g[k]
             N == g[k + 1]
  <2>1. S \subseteq Pairs /\ N = Further(refs, first, S) /\ S \subseteq N
    BY <1>3 DEF Further
  <2>2. (\A a \in S : Fits(S, a)) /\ Unique(S)
    BY <1>5
  <2> HIDE DEF S, N, H
  <2>3. ASSUME NEW a \in N
        PROVE  /\ a.from \in {e.source} \cup Below(refs, e.source)
               /\ a = Start \/ (Len(Target(e)) < Len(a.to) /\ IsChild(S, a))
    <3>1. CASE a \in S
      BY <2>2, <3>1
    <3>2. CASE a \notin S
      <4>1. PICK b \in S, c \in FolderNodes(refs) :
              /\ c \in CopiedIn(refs, first, b.from)
              /\ a = [from |-> c, to |-> Append(b.to, Last(c))]
              /\ b.to \in Seq(STRING) /\ Last(c) \in STRING
              /\ Append(b.to, Last(c)) \in Paths
              /\ Front(Append(b.to, Last(c))) = b.to
              /\ Len(b.to) < Len(Append(b.to, Last(c)))
              /\ Last(Append(b.to, Last(c))) = Last(c)
        BY <2>1, <3>2, FurtherCopies
      <4>2. IsChild(S, a)
        BY <4>1
      <4>3. Fits(S, b)
        BY <2>2
      <4>4. Len(Target(e)) < Len(a.to)
        <5>1. Len(Target(e)) \in Nat /\ Len(b.to) \in Nat /\ Len(a.to) \in Nat
          <6>1. Target(e) \in Seq(STRING) /\ a.to \in Seq(STRING)
            BY <4>1 DEF Paths
          <6> QED
            BY <4>1, <6>1
        <5>2. Len(b.to) < Len(a.to)
          BY <4>1
        <5>3. b.to = Target(e) \/ Len(Target(e)) < Len(b.to)
          BY <4>3
        <5> QED
          BY <5>1, <5>2, <5>3
      <4>5. a.from \in Below(refs, e.source)
        <5>1. c \in FoldersIn(refs, b.from) /\ a.from = c
          BY <4>1 DEF CopiedIn
        <5>2. b.from \in {e.source} \cup Below(refs, e.source)
          BY <4>3
        <5> QED
          BY <5>1, <5>2, BelowIsClosed
      <4> QED
        BY <4>2, <4>4, <4>5
    <3> QED
      BY <3>1, <3>2
  <2>4. ASSUME NEW a \in N, NEW b \in N, a.to = b.to PROVE a.from = b.from
    <3>1. Len(Target(e)) \in Nat /\ Start.to = Target(e) /\ Start.from = e.source
      BY ParentOfPath
    <3>2. CASE a = Start \/ b = Start
      <4>1. a = Start /\ b = Start
        BY <2>3, <2>4, <3>1, <3>2
      <4> QED
        BY <4>1
    <3>3. CASE a # Start /\ b # Start
      <4>1. IsChild(S, a) /\ IsChild(S, b)
        BY <2>3, <3>3
      <4>2. PICK a2 \in S, c \in FolderNodes(refs) :
              /\ c \in CopiedIn(refs, first, a2.from) /\ a.from = c
              /\ Front(a.to) = a2.to /\ Last(a.to) = Last(c)
        BY <4>1
      <4>3. PICK b2 \in S, d \in FolderNodes(refs) :
              /\ d \in CopiedIn(refs, first, b2.from) /\ b.from = d
              /\ Front(b.to) = b2.to /\ Last(b.to) = Last(d)
        BY <4>1
      <4>4. a2.from = b2.from /\ Last(c) = Last(d)
        BY <2>2, <2>4, <4>2, <4>3
      <4>5. a2.from \in {e.source} \cup Below(refs, e.source)
        BY <2>2
      <4>6. c = d
        BY <4>2, <4>3, <4>4, <4>5, CopiedByName
      <4> QED
        BY <4>2, <4>3, <4>6
    <3> QED
      BY <3>2, <3>3
  <2>5. \A a \in N : Fits(N, a)
    BY <2>1, <2>3
  <2>6. Unique(N)
    BY <2>4
  <2> HIDE DEF Fits, Unique
  <2> QED
    BY <2>5, <2>6 DEF H, N
<1> HIDE DEF H
<1>6. Cardinality(Sources(refs)) \in H
  BY <1>2, <1>4, <1>5, Induction
<1>7. Unique(copied)
  <2> HIDE DEF Unique, Fits
  <2> QED
    BY <1>1, <1>6 DEF H
<1> QED
  BY <1>7

(* A walk that does not go round in a circle copies all that it comes to:  *)
(* what a step still adds has above it as many folders as there were       *)
(* steps.                                                                  *)
LEMMA CopiesAreClosed ==
  ASSUME NEW refs, NEW first, NEW e, e.source \in Seq(STRING), Target(e) \in Paths,
         FolderNodes(refs) \subseteq Paths, IsFiniteSet(refs), ~IsEndless(refs, e),
         NEW copied, copied = CopiedFolders(refs, e, first),
         NEW p \in copied, NEW c \in CopiedIn(refs, first, p.from)
  PROVE  [from |-> c, to |-> Append(p.to, Last(c))] \in copied
<1> DEFINE S == Sources(refs)
           n == Cardinality(S)
           Above(f) == {h \in S : f \in Below(refs, h)}
           Visited == {e.source} \cup Below(refs, e.source)
<1>1. PICK g \in Walk(refs, first, e) : copied = g[n]
  BY CopiesOfWalk
<1>2. IsFiniteSet(S) /\ n \in Nat
  BY SourcesAreFinite
<1>3. /\ g \in [Nat -> SUBSET Pairs] /\ g[0] = {[from |-> e.source, to |-> Target(e)]}
      /\ \A k \in Nat : g[k + 1] = Further(refs, first, g[k])
  BY DEF Walk
<1>4. \A h, d : d \in FoldersIn(refs, h) => h \in S
  BY DEF FoldersIn, Sources
<1>5. \A f \in Visited : f \notin Below(refs, f)
  BY DEF IsEndless
<1>6. /\ \A f : FoldersIn(refs, f) \subseteq Below(refs, f)
      /\ \A f : \A h \in Below(refs, f) : FoldersIn(refs, h) \subseteq Below(refs, f)
  BY BelowIsClosed
<1>7. \A f : IsFiniteSet(Above(f)) /\ Cardinality(Above(f)) \in Nat
  BY <1>2, FS_Subset, FS_CardinalityType
<1> HIDE DEF S, n, Above, Visited
<1> DEFINE V == {k \in Nat : \A pair \in g[k] : pair.from \in Visited}
<1>8. 0 \in V
  BY <1>3 DEF Visited
<1>9. ASSUME NEW k \in Nat, k \in V PROVE k + 1 \in V
  <2>1. g[k + 1] = Further(refs, first, g[k]) /\ g[k] \subseteq Pairs
    BY <1>3
  <2>2. ASSUME NEW pair \in g[k + 1] PROVE pair.from \in Visited
    <3>1. CASE pair \in g[k]
      BY <1>9, <3>1
    <3>2. CASE pair \notin g[k]
      <4>1. PICK b \in g[k], d \in FolderNodes(refs) :
              d \in CopiedIn(refs, first, b.from) /\ pair.from = d
        BY <2>1, <3>2, FurtherCopies
      <4>2. b.from \in Visited /\ d \in FoldersIn(refs, b.from)
        BY <1>9, <4>1 DEF CopiedIn
      <4> QED
        BY <1>6, <4>1, <4>2 DEF Visited
    <3> QED
      BY <3>1, <3>2
  <2> QED
    BY <2>2
<1> HIDE DEF V
<1>10. \A k \in Nat : k \in V
  BY <1>8, <1>9, Induction
<1> DEFINE K == {k \in Nat : \A pair \in g[k + 1] :
                               pair \notin g[k] => Cardinality(Above(pair.from)) > k}
<1>11. ASSUME NEW k \in Nat, NEW pair \in g[k + 1], pair \notin g[k]
       PROVE  \E b \in g[k] :
                /\ b.from \in S /\ b.from \in Above(pair.from)
                /\ b.from \notin Above(b.from)
                /\ Above(b.from) \subseteq Above(pair.from)
                /\ pair \in Further(refs, first, {b})
  <2>1. g[k + 1] = Further(refs, first, g[k]) /\ g[k] \subseteq Pairs
    BY <1>3
  <2>2. PICK b \in g[k], d \in FolderNodes(refs) :
          /\ d \in CopiedIn(refs, first, b.from)
          /\ pair = [from |-> d, to |-> Append(b.to, Last(d))]
    BY <1>11, <2>1, FurtherCopies
  <2>3. d \in FoldersIn(refs, b.from) /\ pair.from = d
    BY <2>2 DEF CopiedIn
  <2>4. b.from \in Visited
    BY <1>10 DEF V
  <2>5. b.from \in S /\ b.from \in Above(pair.from) /\ b.from \notin Above(b.from)
    BY <1>4, <1>5, <1>6, <2>3, <2>4 DEF Above
  <2>6. Above(b.from) \subseteq Above(pair.from)
    BY <1>6, <2>3 DEF Above
  <2>7. pair \in Further(refs, first, {b})
    BY <2>2 DEF Further
  <2> QED
    BY <2>5, <2>6, <2>7
<1>12. 0 \in K
  <2> SUFFICES ASSUME NEW pair \in g[0 + 1], pair \notin g[0]
               PROVE  Cardinality(Above(pair.from)) > 0
    OBVIOUS
  <2>1. Above(pair.from) # {}
    BY <1>11
  <2>2. Cardinality(Above(pair.from)) # 0
    BY <1>7, <2>1, FS_EmptySet
  <2>3. Cardinality(Above(pair.from)) \in Nat
    BY <1>7
  <2> QED
    BY <2>2, <2>3
<1>13. ASSUME NEW k \in Nat, k \in K PROVE k + 1 \in K
  <2> SUFFICES ASSUME NEW m \in Nat, m = k + 1,
                      NEW pair \in g[m + 1], pair \notin g[m]
               PROVE  Cardinality(Above(pair.from)) > k + 1
    OBVIOUS
  <2>1. PICK b \in g[m] :
          /\ b.from \in S /\ b.from \in Above(pair.from)
          /\ b.from \notin Above(b.from)
          /\ Above(b.from) \subseteq Above(pair.from)
          /\ pair \in Further(refs, first, {b})
    BY <1>11
  <2>2. b \notin g[k]
    <3> SUFFICES ASSUME b \in g[k] PROVE pair \in g[m]
      OBVIOUS
    <3>1. g[k + 1] = Further(refs, first, g[k])
      BY <1>3
    <3>2. Further(refs, first, {b}) \subseteq Further(refs, first, g[k])
      BY DEF Further
    <3> QED
      BY <2>1, <3>1, <3>2
  <2>3. Cardinality(Above(b.from)) > k
    BY <1>13, <2>2
  <2> DEFINE A == Above(b.from)
             B == Above(pair.from)
  <2>4. A \in SUBSET B /\ A # B /\ IsFiniteSet(B)
    BY <1>7, <2>1
  <2>5. Cardinality(A) \in Nat /\ Cardinality(B) \in Nat
    BY <1>7
  <2> HIDE DEF A, B
  <2>6. Cardinality(A) <= Cardinality(B) /\ Cardinality(A) # Cardinality(B)
    BY <2>4, FS_Subset
  <2>7. Cardinality(A) > k
    BY <2>3 DEF A
  <2>8. Cardinality(B) > k + 1
    BY <2>5, <2>6, <2>7
  <2> QED
    BY <2>8 DEF B
<1> HIDE DEF K
<1>14. n \in K
  BY <1>2, <1>12, <1>13, Induction
<1> DEFINE pair == [from |-> c, to |-> Append(p.to, Last(c))]
<1> HIDE DEF pair
<1>15. pair \in g[n + 1]
  <2>1. g[n + 1] = Further(refs, first, g[n])
    BY <1>2, <1>3
  <2>2. pair \in {[from |-> d, to |-> Append(p.to, Last(d))] :
                    d \in CopiedIn(refs, first, p.from)}
    BY DEF pair
  <2>3. p \in g[n]
    BY <1>1
  <2> QED
    BY <2>1, <2>2, <2>3 DEF Further
<1>16. ~(Cardinality(Above(pair.from)) > n)
  <2>1. Above(pair.from) \in SUBSET S
    BY DEF Above
  <2>2. Cardinality(Above(pair.from)) <= n
    BY <1>2, <2>1, FS_Subset DEF n
  <2>3. Cardinality(Above(pair.from)) \in Nat
    BY <1>7
  <2> QED
    BY <1>2, <2>2, <2>3
<1>17. pair \in g[n]
  BY <1>14, <1>15, <1>16 DEF K
<1> QED
  BY <1>1, <1>17 DEF pair

-----------------------------------------------------------------------------
(* What tells the variables of a folder apart: a folder is there with all  *)
(* folders on its way; while folders are mapped, each node of a variable   *)
(* has its place in one of them, and no folder shows two under one name.   *)
FoldersHaveTheirWay == \A f \in folders : Way(f) \subseteq folders

VariablesHavePlaces ==
  phase \in {"implicit", "folders"} =>
    \A v \in DOMAIN variables : Front(v) \in folders \cup {Root}

NamesTellVariables ==
  phase \in {"implicit", "folders"} =>
    \A f \in folders \cup {Root} : \A v, w \in VariablesIn(references, f) :
      Last(v) = Last(w) => v = w

ShownInTheirPlace ==
  phase = "implicit" =>
    \A r \in references : r[2].class = "variable" => r[1] = Front(r[2].path)

FoldersIInv == /\ FoldersHaveTheirWay
               /\ VariablesHavePlaces
               /\ NamesTellVariables
               /\ ShownInTheirPlace

(* A path is its last segment in front of which is the rest.               *)
LEMMA PathByParts ==
  ASSUME NEW v \in Paths, NEW w \in Paths, Front(v) = Front(w), Last(v) = Last(w)
  PROVE  v = w
<1> DEFINE m == Len(v)
           n == Len(w)
<1>1. ASSUME NEW x \in Paths
      PROVE  /\ x \in Seq(STRING) /\ Len(x) \in Nat \ {0}
             /\ Len(Front(x)) = Len(x) - 1
             /\ Front(x) = [k \in 1..(Len(x) - 1) |-> x[k]]
  <2>1. /\ x \in Seq(STRING) /\ Len(x) \in Nat \ {0}
        /\ Front(x) = SubSeq(x, 1, Len(x) - 1)
    BY ParentOfPath DEF Paths
  <2>2. PICK k \in 0..Len(x) : k = Len(x) - 1
    BY <2>1
  <2>3. Len(SubSeq(x, 1, k)) = k /\ SubSeq(x, 1, k) = [l \in 1..k |-> x[l]]
    BY <2>1, InitialSegment
  <2> QED
    BY <2>1, <2>2, <2>3
<1>2. /\ v \in Seq(STRING) /\ w \in Seq(STRING)
      /\ m \in Nat \ {0} /\ n \in Nat \ {0}
  BY <1>1
<1>3. /\ Len(Front(v)) = m - 1 /\ Front(v) = [k \in 1..(m - 1) |-> v[k]]
      /\ Len(Front(w)) = n - 1 /\ Front(w) = [k \in 1..(n - 1) |-> w[k]]
  BY <1>1
<1>4. m = n
  BY <1>2, <1>3
<1>5. \A k \in 1..(m - 1) : v[k] = w[k]
  <2> SUFFICES ASSUME NEW k \in 1..(m - 1) PROVE v[k] = w[k]
    OBVIOUS
  <2>1. Front(v)[k] = v[k] /\ Front(w)[k] = w[k]
    BY <1>3, <1>4
  <2> QED
    BY <2>1
<1>6. v[m] = w[m]
  BY <1>4 DEF Last
<1>7. \A k \in 1..m : v[k] = w[k]
  BY <1>2, <1>5, <1>6
<1> QED
  BY <1>2, <1>4, <1>7

(* The folders on a way bring no variable and come with their own ways.    *)
LEMMA WayIsKept ==
  ASSUME NEW path \in Seq(STRING), FoldersHaveTheirWay
  PROVE  /\ \A f \in WithFolders(path) : Way(f) \subseteq WithFolders(path)
         /\ \A f : VariablesIn(references \cup WayReferences(path), f)
                     = VariablesIn(references, f)
<1>1. \A f \in Way(path) : Way(f) \subseteq Way(path)
  BY WayOfWay
<1>2. \A f \in WithFolders(path) : Way(f) \subseteq WithFolders(path)
  BY <1>1 DEF FoldersHaveTheirWay, WithFolders
<1>3. \A r \in WayReferences(path) : r[2].class # "variable"
  BY WayBringsNoVariable
<1> QED
  BY <1>2, <1>3 DEF VariablesIn

(* Only folders that are there show variables.                             *)
LEMMA ShownInFolders ==
  ASSUME Browsable, NEW f, NEW v \in VariablesIn(references, f)
  PROVE  f \in folders \cup {Root} /\ v \in DOMAIN variables /\ v \in Paths
<1>1. PICK r \in references : r[1] = f /\ r[2].class = "variable" /\ r[2].path = v
  BY DEF VariablesIn
<1>2. r[1] \in folders \cup {Root} /\ r[2] \in Nodes
  BY <1>1 DEF Browsable, NodesBrowsable
<1>3. v \in DOMAIN variables
  BY <1>1, <1>2 DEF Nodes, Folder, Variable, Additional
<1> QED
  BY <1>1, <1>2, <1>3 DEF Browsable

(* Folders that are only created leave the variables where they were.      *)
LEMMA OnlyWayKeepsPlaces ==
  ASSUME Browsable, FoldersIInv, phase = "folders", NEW path \in Seq(STRING),
         folders' = WithFolders(path),
         references' = references \cup WayReferences(path),
         UNCHANGED variables, phase' # "implicit"
  PROVE  FoldersIInv'
<1>1. /\ \A f \in WithFolders(path) : Way(f) \subseteq WithFolders(path)
      /\ \A f : VariablesIn(references', f) = VariablesIn(references, f)
  BY WayIsKept DEF FoldersIInv
<1>2. folders \subseteq folders'
  BY DEF WithFolders
<1>3. FoldersHaveTheirWay'
  BY <1>1 DEF FoldersHaveTheirWay
<1>4. VariablesHavePlaces'
  BY <1>2 DEF FoldersIInv, VariablesHavePlaces
<1>5. NamesTellVariables'
  <2> SUFFICES ASSUME NEW f, NEW v \in VariablesIn(references, f),
                      NEW w \in VariablesIn(references, f), Last(v) = Last(w)
               PROVE  v = w
    BY <1>1 DEF NamesTellVariables
  <2>1. f \in folders \cup {Root}
    BY ShownInFolders
  <2> QED
    BY <2>1 DEF FoldersIInv, NamesTellVariables
<1> QED
  BY <1>3, <1>4, <1>5 DEF FoldersIInv, ShownInTheirPlace

(* The constructor puts each variable in the place its name says.          *)
LEMMA ImplicitKeepsPlaces ==
  ASSUME MappingIInv, Browsable, Browsable', FoldersIInv, MapImplicit
  PROVE  FoldersIInv'
<1>3. PICK p \in pending :
        \/ UNCHANGED <<folders, variables, references>>
        \/ /\ folders' = WithFolders(Front(p))
           /\ variables' = WithVariable(p, p)
           /\ references' = references \cup WayReferences(Front(p))
                              \cup {<<Front(p), Variable(p)>>}
  BY DEF MapImplicit
<1>1. p \in PVs /\ phase = "implicit" /\ phase' = "implicit"
  BY DEF MapImplicit, MappingIInv, ImplicitComesFirst
<1>2. p \in Paths
  BY <1>1, MappingAssumption DEF Paths, Root
<1>4. Front(p) \in Seq(STRING) /\ folders \subseteq WithFolders(Front(p))
      /\ Front(p) \in WithFolders(Front(p)) \cup {Root}
  <2>1. Front(p) \in Seq(STRING)
    BY <1>2, ParentOfPath
  <2> QED
    BY <2>1, WayIsBrowsable DEF Browsable
<1>5. FoldersHaveTheirWay'
  <2>1. \A f \in WithFolders(Front(p)) : Way(f) \subseteq WithFolders(Front(p))
    BY <1>4, WayIsKept DEF FoldersIInv
  <2> QED
    BY <1>3, <2>1 DEF FoldersIInv, FoldersHaveTheirWay
<1>6. VariablesHavePlaces'
  <2>1. \A v \in DOMAIN variables : Front(v) \in folders \cup {Root}
    BY <1>1 DEF FoldersIInv, VariablesHavePlaces
  <2>2. CASE UNCHANGED <<folders, variables, references>>
    BY <2>1, <2>2 DEF VariablesHavePlaces
  <2>3. CASE folders' = WithFolders(Front(p)) /\ variables' = WithVariable(p, p)
    <3>1. DOMAIN variables' = DOMAIN variables \cup {p}
      BY <2>3 DEF WithVariable
    <3> QED
      BY <1>4, <2>1, <2>3, <3>1 DEF VariablesHavePlaces
  <2> QED
    BY <1>3, <2>2, <2>3
<1>7. ShownInTheirPlace'
  <2>1. \A r \in references : r[2].class = "variable" => r[1] = Front(r[2].path)
    BY <1>1 DEF FoldersIInv, ShownInTheirPlace
  <2>2. \A r \in WayReferences(Front(p)) : r[2].class # "variable"
    BY WayBringsNoVariable
  <2> QED
    BY <1>3, <2>1, <2>2 DEF ShownInTheirPlace, Variable
<1>8. NamesTellVariables'
  <2> SUFFICES ASSUME NEW f, NEW v \in VariablesIn(references', f),
                      NEW w \in VariablesIn(references', f), Last(v) = Last(w)
               PROVE  v = w
    BY DEF NamesTellVariables
  <2>1. Front(v) = f /\ Front(w) = f
    BY <1>1, <1>7 DEF ShownInTheirPlace, VariablesIn
  <2>2. v \in Paths /\ w \in Paths
    <3>1. \A r \in references' : r[2].class = "variable" => r[2].path \in Paths
      <4> SUFFICES ASSUME NEW r \in references', r[2].class = "variable"
                   PROVE  r[2].path \in Paths
        OBVIOUS
      <4>1. r[2] \in Nodes'
        BY DEF Browsable, NodesBrowsable
      <4>2. r[2].path \in DOMAIN variables'
        BY <4>1 DEF Nodes, Folder, Variable, Additional
      <4> QED
        BY <4>2 DEF Browsable
    <3> QED
      BY <3>1 DEF VariablesIn
  <2> QED
    BY <2>1, <2>2, PathByParts
<1> QED
  BY <1>5, <1>6, <1>7, <1>8 DEF FoldersIInv

(* A link shows in the new folder what its source shows.                   *)
LEMMA LinkKeepsPlaces ==
  ASSUME Browsable, FoldersIInv, phase = "folders", NEW e, Target(e) \in Paths,
         Target(e) \notin folders, LinkFolder(e)
  PROVE  FoldersIInv'
<1> DEFINE refs == references \cup WayReferences(Target(e))
           shown == VariablesIn(references, e.source)
<1>1. PICK links \in BrowsedLinks(refs, e, DOMAIN variables) :
        /\ folders' = WithFolders(Target(e)) /\ UNCHANGED variables
        /\ references' = refs \cup links /\ phase' = "folders"
  BY DEF LinkFolder, FolderDone
<1>2. Target(e) \in Seq(STRING) /\ Target(e) # Root
  BY DEF Paths
<1>3. /\ \A f \in WithFolders(Target(e)) : Way(f) \subseteq WithFolders(Target(e))
      /\ \A f : VariablesIn(refs, f) = VariablesIn(references, f)
  BY <1>2, WayIsKept DEF FoldersIInv
<1>4. folders \subseteq folders'
  BY <1>1 DEF WithFolders
<1> HIDE DEF refs
<1>5. ASSUME NEW f, NEW v \in VariablesIn(references', f)
      PROVE  IF f = Target(e) THEN v \in shown ELSE v \in VariablesIn(references, f)
  <2>1. PICK r \in references' : r[1] = f /\ r[2].class = "variable" /\ r[2].path = v
    BY DEF VariablesIn
  <2>2. CASE r \in refs
    <3>1. v \in VariablesIn(references, f)
      BY <1>3, <2>1, <2>2 DEF VariablesIn
    <3>2. f \in folders \cup {Root}
      BY <3>1, ShownInFolders
    <3> QED
      BY <1>2, <3>1, <3>2
  <2>3. CASE r \in links
    <3>0. r \in Links(refs, e, DOMAIN variables)
      BY <1>1, <2>3, BrowsedAreLinks
    <3>1. PICK u \in VariablesIn(refs, e.source) : r = <<Target(e), Variable(u)>>
      BY <2>1, <3>0 DEF Links, Folder
    <3> QED
      BY <1>3, <2>1, <3>1 DEF Variable
  <2> QED
    BY <1>1, <2>1, <2>2, <2>3
<1>6. ASSUME NEW f, NEW v \in VariablesIn(references, f),
             NEW w \in VariablesIn(references, f), Last(v) = Last(w)
      PROVE  v = w
  <2>1. f \in folders \cup {Root}
    BY ShownInFolders
  <2> QED
    BY <1>6, <2>1 DEF FoldersIInv, NamesTellVariables
<1> HIDE DEF shown
<1>7. NamesTellVariables'
  <2> SUFFICES ASSUME NEW f, NEW v \in VariablesIn(references', f),
                      NEW w \in VariablesIn(references', f), Last(v) = Last(w)
               PROVE  v = w
    BY DEF NamesTellVariables
  <2>1. CASE f = Target(e)
    BY <1>5, <1>6, <2>1 DEF shown
  <2>2. CASE f # Target(e)
    BY <1>5, <1>6, <2>2
  <2> QED
    BY <2>1, <2>2
<1>8. FoldersHaveTheirWay' /\ VariablesHavePlaces' /\ ShownInTheirPlace'
  BY <1>1, <1>3, <1>4
     DEF FoldersIInv, FoldersHaveTheirWay, VariablesHavePlaces, ShownInTheirPlace
<1> QED
  BY <1>7, <1>8 DEF FoldersIInv

(* The references once the way to the new folder is there.                 *)
WithWay(e) == references \cup WayReferences(Target(e))

(* A copy as it was made: nothing of it was there before, and each copied  *)
(* variable stands for what the one it was made of stands for.             *)
CopyMade(e, refs, copied, links) ==
  LET new == CopiedVariables(refs, copied)
  IN  /\ folders' = WithFolders(Target(e)) \cup {pair.to : pair \in copied}
      /\ DOMAIN variables' = DOMAIN variables \cup {n.id : n \in new}
      /\ \A v \in DOMAIN variables : variables'[v] = variables[v]
      /\ \A n \in new : variables'[n.id] = n.source
      /\ references' = refs
           \cup {<<Front(pair.to), Folder(pair.to)>> : pair \in copied}
           \cup {<<n.in, Variable(n.id)>> : n \in new} \cup links
      /\ \A pair \in copied : pair.to \notin folders \cup {Root}

(* The links that may come beside it.                                      *)
LinksOfCopy(refs, e) ==
  IF FoundMethod(refs, e.source)
  THEN BrowsedLinks(refs, e, {v \in DOMAIN variables : IsMethod(v)})
  ELSE {{}}

(* A <folder> entry that copies makes such a copy.                         *)
LEMMA CopyFolderMakes ==
  ASSUME Browsable, FoldersIInv, phase = "folders", NEW e, e.source \in Seq(STRING),
         Target(e) \in Paths, Target(e) \notin folders, CopyFolder(e)
  PROVE  \E first \in Firsts(WithWay(e), e.source),
            links \in LinksOfCopy(WithWay(e), e) :
           CopyMade(e, WithWay(e), CopiedFolders(WithWay(e), e, first), links)
<1> DEFINE refs == references \cup WayReferences(Target(e))
<1>1. PICK first \in Firsts(refs, e.source),
              links \in IF FoundMethod(refs, e.source)
                        THEN BrowsedLinks(refs, e, {v \in DOMAIN variables :
                                                      IsMethod(v)})
                        ELSE {{}} :
        LET copied == CopiedFolders(refs, e, first)
            new == {n \in CopiedVariables(refs, copied) :
                      n.id \notin DOMAIN variables}
        IN  /\ folders' = WithFolders(Target(e)) \cup {pair.to : pair \in copied}
            /\ variables' =
                 [x \in DOMAIN variables \cup {n.id : n \in new} |->
                    IF x \in DOMAIN variables THEN variables[x]
                    ELSE (CHOOSE n \in new : n.id = x).source]
            /\ references' = refs
                 \cup {<<Front(pair.to), Folder(pair.to)>> : pair \in copied}
                 \cup {<<n.in, Variable(n.id)>> : n \in new} \cup links
  BY DEF CopyFolder
<1>2. PICK copied : copied = CopiedFolders(refs, e, first)
  OBVIOUS
<1>3. PICK new :
        new = {n \in CopiedVariables(refs, copied) : n.id \notin DOMAIN variables}
  OBVIOUS
<1>4. Target(e) \in Seq(STRING) /\ Target(e) # Root
  BY DEF Paths
<1>5. /\ folders' = WithFolders(Target(e)) \cup {pair.to : pair \in copied}
      /\ variables' =
           [x \in DOMAIN variables \cup {n.id : n \in new} |->
              IF x \in DOMAIN variables THEN variables[x]
              ELSE (CHOOSE n \in new : n.id = x).source]
      /\ references' = refs
           \cup {<<Front(pair.to), Folder(pair.to)>> : pair \in copied}
           \cup {<<n.in, Variable(n.id)>> : n \in new} \cup links
  BY <1>1, <1>2, <1>3
<1>6. /\ IsFiniteSet(refs) /\ FolderNodes(refs) \subseteq Paths
  BY <1>4, ReferencedNodes
<1>7. \A f : VariablesIn(refs, f) = VariablesIn(references, f)
  BY <1>4, WayIsKept DEF FoldersIInv
<1> HIDE DEF refs
<1>8. /\ copied \subseteq Pairs
      /\ \A pair \in copied : Target(e) \in Way(pair.to)
      /\ \A p, q \in copied : p.to = q.to => p.from = q.from
  <2>1. copied \subseteq Pairs /\ \A pair \in copied : Target(e) \in Way(pair.to)
    BY <1>2, <1>6, CopiesInPlace
  <2>2. \A p, q \in copied : p.to = q.to => p.from = q.from
    BY <1>2, <1>6, CopiesOfOne
  <2> QED
    BY <2>1, <2>2
<1>9. ASSUME NEW pair \in copied PROVE pair.to \notin folders \cup {Root}
  <2>1. pair.to \in Paths
    BY <1>8 DEF Pairs
  <2>2. pair.to \notin folders
    BY <1>8 DEF FoldersIInv, FoldersHaveTheirWay
  <2> QED
    BY <2>1, <2>2 DEF Paths
<1>10. ASSUME NEW n \in CopiedVariables(refs, copied)
       PROVE  \E pair \in copied, v \in DOMAIN variables :
                /\ v \in VariablesIn(references, pair.from)
                /\ n.id = Append(pair.to, Last(v)) /\ n.source = variables[v]
                /\ Front(n.id) = pair.to /\ Last(n.id) = Last(v)
  <2>1. PICK pair \in copied : \E v \in VariablesIn(refs, pair.from) :
          n = [id |-> Append(pair.to, Last(v)), in |-> pair.to,
               source |-> variables[v]]
    BY DEF CopiedVariables
  <2>2. PICK v \in VariablesIn(refs, pair.from) :
          n = [id |-> Append(pair.to, Last(v)), in |-> pair.to,
               source |-> variables[v]]
    BY <2>1
  <2>3. v \in VariablesIn(references, pair.from)
    BY <1>7, <2>2
  <2>4. v \in DOMAIN variables /\ v \in Paths
    BY <2>3, ShownInFolders
  <2>5. pair.to \in Seq(STRING) /\ Last(v) \in STRING
    BY <1>8, <2>4, ParentOfPath DEF Pairs, Paths
  <2>6. /\ Front(Append(pair.to, Last(v))) = pair.to
        /\ Last(Append(pair.to, Last(v))) = Last(v)
    BY <2>5, FrontOfAppend
  <2> QED
    BY <2>2, <2>3, <2>4, <2>6
<1>11. new = CopiedVariables(refs, copied)
  <2> SUFFICES ASSUME NEW n \in CopiedVariables(refs, copied),
                      n.id \in DOMAIN variables
               PROVE  FALSE
    BY <1>3
  <2>1. PICK pair \in copied : Front(n.id) = pair.to
    BY <1>10
  <2>2. pair.to \in folders \cup {Root}
    BY <2>1 DEF FoldersIInv, VariablesHavePlaces
  <2> QED
    BY <1>9, <2>2
<1>12. \A n \in new : n.id \notin DOMAIN variables
  BY <1>3
<1>13. ASSUME NEW n \in new, NEW m \in new, n.id = m.id PROVE n.source = m.source
  <2>1. PICK p \in copied, v \in DOMAIN variables :
          /\ v \in VariablesIn(references, p.from) /\ n.source = variables[v]
          /\ Front(n.id) = p.to /\ Last(n.id) = Last(v)
    BY <1>10, <1>11
  <2>2. PICK q \in copied, w \in DOMAIN variables :
          /\ w \in VariablesIn(references, q.from) /\ m.source = variables[w]
          /\ Front(m.id) = q.to /\ Last(m.id) = Last(w)
    BY <1>10, <1>11
  <2>3. p.to = q.to /\ Last(v) = Last(w)
    BY <1>13, <2>1, <2>2
  <2>4. p.from = q.from
    BY <1>8, <2>3
  <2>5. p.from \in folders \cup {Root}
    BY <2>1, ShownInFolders
  <2>6. v = w
    BY <2>1, <2>2, <2>3, <2>4, <2>5 DEF FoldersIInv, NamesTellVariables
  <2> QED
    BY <2>1, <2>2, <2>6
<1>14. ASSUME NEW n \in new PROVE variables'[n.id] = n.source
  <2>1. n.id \in DOMAIN variables \cup {m.id : m \in new} /\ n.id \notin DOMAIN variables
    BY <1>12
  <2>2. variables'[n.id] = (CHOOSE m \in new : m.id = n.id).source
    BY <1>5, <2>1
  <2>3. /\ (CHOOSE m \in new : m.id = n.id) \in new
        /\ (CHOOSE m \in new : m.id = n.id).id = n.id
    OBVIOUS
  <2> QED
    BY <1>13, <2>2, <2>3
<1>15. /\ DOMAIN variables' = DOMAIN variables \cup {n.id : n \in new}
       /\ \A v \in DOMAIN variables : variables'[v] = variables[v]
  BY <1>5
<1>16. CopyMade(e, refs, copied, links)
  BY <1>5, <1>9, <1>11, <1>14, <1>15 DEF CopyMade
<1> QED
  BY <1>1, <1>2, <1>16 DEF WithWay, LinksOfCopy, refs

(* The copies are told apart as their originals are.                       *)
LEMMA CopyKeepsPlaces ==
  ASSUME Browsable, FoldersIInv, phase = "folders", NEW e, e.source \in Seq(STRING),
         Target(e) \in Paths, Target(e) \notin folders, CopyFolder(e)
  PROVE  FoldersIInv'
<1> DEFINE refs == WithWay(e)
<1>1. refs = references \cup WayReferences(Target(e))
  BY DEF WithWay
<1>2. PICK first \in Firsts(refs, e.source), links \in LinksOfCopy(refs, e) :
        CopyMade(e, refs, CopiedFolders(refs, e, first), links)
  BY CopyFolderMakes
<1> HIDE DEF refs
<1>3. PICK copied : copied = CopiedFolders(refs, e, first)
  OBVIOUS
<1>4. PICK new : new = CopiedVariables(refs, copied)
  OBVIOUS
<1>5. PICK shown : shown = VariablesIn(references, e.source)
  OBVIOUS
<1>6. phase' = "folders"
  BY DEF CopyFolder, FolderDone
<1>7. Target(e) \in Seq(STRING) /\ Target(e) # Root
  BY DEF Paths
<1>8. /\ IsFiniteSet(refs) /\ FolderNodes(refs) \subseteq Paths
      /\ VariableNodes(refs) \subseteq DOMAIN variables
  BY <1>1, <1>7, ReferencedNodes
<1>9. /\ \A f \in WithFolders(Target(e)) : Way(f) \subseteq WithFolders(Target(e))
      /\ \A f : VariablesIn(refs, f) = VariablesIn(references, f)
  BY <1>1, <1>7, WayIsKept DEF FoldersIInv
<1>10. /\ copied \subseteq Pairs
       /\ \A pair \in copied :
            /\ Way(pair.to) \subseteq Way(Target(e)) \cup Places(copied)
            /\ pair.to = Target(e) => pair.from = e.source
  BY <1>3, <1>8, CopiesInPlace
<1>11. /\ folders' = WithFolders(Target(e)) \cup {pair.to : pair \in copied}
       /\ DOMAIN variables' = DOMAIN variables \cup {n.id : n \in new}
       /\ references' = refs
            \cup {<<Front(pair.to), Folder(pair.to)>> : pair \in copied}
            \cup {<<n.in, Variable(n.id)>> : n \in new} \cup links
       /\ \A pair \in copied : pair.to \notin folders \cup {Root}
  BY <1>2, <1>3, <1>4 DEF CopyMade
<1>12. folders \subseteq folders' /\ Way(Target(e)) \subseteq folders'
  BY <1>11 DEF WithFolders
<1>13. FoldersHaveTheirWay'
  <2> SUFFICES ASSUME NEW f \in folders' PROVE Way(f) \subseteq folders'
    BY DEF FoldersHaveTheirWay
  <2>1. CASE f \in WithFolders(Target(e))
    BY <1>9, <1>11, <2>1
  <2>2. CASE \E pair \in copied : f = pair.to
    BY <1>10, <1>11, <1>12, <2>2 DEF Places
  <2> QED
    BY <1>11, <2>1, <2>2
<1>14. ASSUME NEW n \in new
       PROVE  \E pair \in copied, v \in DOMAIN variables :
                /\ v \in VariablesIn(references, pair.from) /\ ~IsMethod(v)
                /\ n.in = pair.to /\ Front(n.id) = pair.to
                /\ Last(n.id) = Last(v) /\ n.id \in Paths
  <2>1. PICK pair \in copied :
          \E v \in {w \in VariablesIn(refs, pair.from) : ~IsMethod(w)} :
            n = [id |-> Append(pair.to, Last(v)), in |-> pair.to,
                 source |-> variables[v]]
    BY <1>4 DEF CopiedVariables
  <2>2. PICK v \in VariablesIn(refs, pair.from) :
          /\ ~IsMethod(v)
          /\ n = [id |-> Append(pair.to, Last(v)), in |-> pair.to,
                  source |-> variables[v]]
    BY <2>1
  <2>3. v \in VariablesIn(references, pair.from)
    BY <1>9
  <2>4. v \in DOMAIN variables /\ v \in Paths
    BY <2>3, ShownInFolders
  <2>5. pair.to \in Seq(STRING) /\ Last(v) \in STRING
    BY <1>10, <2>4, ParentOfPath DEF Pairs, Paths
  <2>6. /\ Append(pair.to, Last(v)) \in Paths
        /\ Front(Append(pair.to, Last(v))) = pair.to
        /\ Last(Append(pair.to, Last(v))) = Last(v)
    BY <2>5, ChildOfPath, FrontOfAppend
  <2> QED
    BY <2>2, <2>3, <2>4, <2>6
<1>15. ASSUME NEW n \in new, n.in = Target(e)
       PROVE  \E v \in shown : ~IsMethod(v) /\ Last(n.id) = Last(v)
  <2>1. PICK pair \in copied, v \in DOMAIN variables :
          /\ v \in VariablesIn(references, pair.from) /\ ~IsMethod(v)
          /\ n.in = pair.to /\ Last(n.id) = Last(v)
    BY <1>14
  <2>2. pair.from = e.source
    BY <1>10, <1>15, <2>1
  <2> QED
    BY <1>5, <2>1, <2>2
<1>16. ASSUME NEW f, NEW v \in VariablesIn(references', f)
       PROVE  \/ v \in VariablesIn(references, f) /\ f \in folders \cup {Root}
              \/ /\ f \notin folders \cup {Root}
                 /\ \E n \in new : n.in = f /\ n.id = v
              \/ /\ f = Target(e) /\ v \in shown /\ IsMethod(v)
  <2>1. PICK r \in references' : r[1] = f /\ r[2].class = "variable" /\ r[2].path = v
    BY DEF VariablesIn
  <2>2. CASE r \in refs
    <3>1. v \in VariablesIn(refs, f)
      BY <2>1, <2>2 DEF VariablesIn
    <3>2. v \in VariablesIn(references, f)
      BY <1>9, <3>1
    <3> QED
      BY <3>2, ShownInFolders
  <2>3. CASE r \in {<<Front(pair.to), Folder(pair.to)>> : pair \in copied}
    BY <2>1, <2>3 DEF Folder
  <2>4. CASE r \in {<<n.in, Variable(n.id)>> : n \in new}
    <3>1. PICK n \in new : r = <<n.in, Variable(n.id)>>
      BY <2>4
    <3>2. n.in = f /\ n.id = v
      BY <2>1, <3>1 DEF Variable
    <3>3. PICK pair \in copied : n.in = pair.to
      BY <1>14
    <3> QED
      BY <1>11, <3>2, <3>3
  <2>5. CASE r \in links
    <3>0. r \in Links(refs, e, {w \in DOMAIN variables : IsMethod(w)})
      BY <1>2, <2>5, LinksBesideCopies DEF LinksOfCopy
    <3>1. PICK u \in VariablesIn(refs, e.source) :
            IsMethod(u) /\ r = <<Target(e), Variable(u)>>
      BY <2>1, <3>0 DEF Links, Folder
    <3>2. f = Target(e) /\ v = u
      BY <2>1, <3>1 DEF Variable
    <3> QED
      BY <1>5, <1>9, <3>1, <3>2
  <2> QED
    BY <1>11, <2>2, <2>3, <2>4, <2>5
<1>17. ASSUME NEW f \in folders \cup {Root}, NEW v \in VariablesIn(references, f),
              NEW w \in VariablesIn(references, f), Last(v) = Last(w)
       PROVE  v = w
  BY <1>17 DEF FoldersIInv, NamesTellVariables
<1>18. ASSUME NEW v \in shown, NEW w \in shown, Last(v) = Last(w) PROVE v = w
  <2>1. e.source \in folders \cup {Root}
    BY <1>5, ShownInFolders
  <2> QED
    BY <1>5, <1>17, <1>18, <2>1
<1>19. ASSUME NEW n \in new, NEW m \in new, n.in = m.in, Last(n.id) = Last(m.id)
       PROVE  n.id = m.id
  <2>1. n.id \in Paths /\ Front(n.id) = n.in
    BY <1>14
  <2>2. m.id \in Paths /\ Front(m.id) = m.in
    BY <1>14
  <2> QED
    BY <1>19, <2>1, <2>2, PathByParts
<1>20. ASSUME NEW n \in new, NEW w \in shown, n.in = Target(e), IsMethod(w),
              Last(n.id) = Last(w)
       PROVE  FALSE
  <2>1. PICK v \in shown : ~IsMethod(v) /\ Last(n.id) = Last(v)
    BY <1>15, <1>20
  <2> QED
    BY <1>18, <1>20, <2>1
<1>21. NamesTellVariables'
  <2> SUFFICES ASSUME NEW f, NEW v \in VariablesIn(references', f),
                      NEW w \in VariablesIn(references', f), Last(v) = Last(w)
               PROVE  v = w
    BY DEF NamesTellVariables
  <2>1. CASE f \in folders \cup {Root}
    <3>1. v \in VariablesIn(references, f) /\ w \in VariablesIn(references, f)
      BY <1>7, <1>16, <2>1
    <3> QED
      BY <1>17, <2>1, <3>1
  <2>2. CASE f \notin folders \cup {Root}
    <3>1. ASSUME NEW x \in VariablesIn(references', f)
          PROVE  \/ \E n \in new : n.in = f /\ n.id = x
                 \/ f = Target(e) /\ x \in shown /\ IsMethod(x)
      BY <1>16, <2>2
    <3>2. CASE \E n \in new : n.in = f /\ n.id = v
      <4>1. PICK n \in new : n.in = f /\ n.id = v
        BY <3>2
      <4>2. CASE \E m \in new : m.in = f /\ m.id = w
        BY <1>19, <4>1, <4>2
      <4>3. CASE f = Target(e) /\ w \in shown /\ IsMethod(w)
        BY <1>20, <4>1, <4>3
      <4> QED
        BY <3>1, <4>2, <4>3
    <3>3. CASE f = Target(e) /\ v \in shown /\ IsMethod(v)
      <4>1. CASE \E m \in new : m.in = f /\ m.id = w
        BY <1>20, <3>3, <4>1
      <4>2. CASE f = Target(e) /\ w \in shown /\ IsMethod(w)
        BY <1>18, <3>3, <4>2
      <4> QED
        BY <3>1, <4>1, <4>2
    <3> QED
      BY <3>1, <3>2, <3>3
  <2> QED
    BY <2>1, <2>2
<1>22. VariablesHavePlaces'
  <2> SUFFICES ASSUME NEW v \in DOMAIN variables' PROVE Front(v) \in folders' \cup {Root}
    BY DEF VariablesHavePlaces
  <2>1. CASE v \in DOMAIN variables
    BY <1>12, <2>1 DEF FoldersIInv, VariablesHavePlaces
  <2>2. CASE \E n \in new : v = n.id
    <3>1. PICK n \in new : v = n.id
      BY <2>2
    <3>2. PICK pair \in copied : Front(n.id) = pair.to
      BY <1>14
    <3> QED
      BY <1>11, <3>1, <3>2
  <2> QED
    BY <1>11, <2>1, <2>2
<1>23. ShownInTheirPlace'
  BY <1>6 DEF ShownInTheirPlace
<1> QED
  BY <1>13, <1>21, <1>22, <1>23 DEF FoldersIInv

(* Each way to carry out a <folder> entry (buildFolderStructure).          *)
LEMMA FolderKeepsPlaces ==
  ASSUME MappingIInv, Browsable, FoldersIInv, MapFolder
  PROVE  FoldersIInv'
<1> DEFINE e == file.folders[i]
<1>1. i \in DOMAIN file.folders /\ phase = "folders"
  BY ListsOfFile DEF MapFolder, MappingIInv, ImplicitComesFirst
<1>2. /\ e.source \in Seq(STRING) /\ e.destination \in Seq(STRING)
      /\ e.name \in STRING
  BY <1>1, ListsOfFile
<1>3. \/ AbortForHistory(e) \/ SkipFolder(e) \/ CopyForever(e)
      \/ /\ Target(e) \notin folders
         /\ \/ RefuseSource(e) \/ CreateFolder(e) \/ LinkFolder(e) \/ CopyFolder(e)
  BY DEF MapFolder, CreatesFolder
<1>4. Target(e) \in Paths /\ Target(e) \in Seq(STRING)
  BY <1>2, ChildOfPath DEF Target, Paths
<1> HIDE DEF e
<1>5. CASE AbortForHistory(e) \/ SkipFolder(e) \/ CopyForever(e)
  <2>1. UNCHANGED nodeVars
    BY <1>5, Zenon DEF AbortForHistory, SkipFolder, CopyForever
  <2>2. phase' # "implicit"
    BY <1>1, <1>5 DEF AbortForHistory, SkipFolder, CopyForever, Raise, FolderDone
  <2> QED
    BY <1>1, <2>1, <2>2
       DEF FoldersIInv, FoldersHaveTheirWay, VariablesHavePlaces,
           NamesTellVariables, ShownInTheirPlace, VariablesIn, nodeVars
<1>6. CASE RefuseSource(e)
  <2>1. phase' # "implicit"
    BY <1>1, <1>6 DEF RefuseSource, Raise
  <2> QED
    BY <1>1, <1>2, <1>6, <2>1, OnlyWayKeepsPlaces DEF RefuseSource
<1>7. CASE CreateFolder(e)
  <2>1. phase' # "implicit"
    BY <1>1, <1>7 DEF CreateFolder, FolderDone
  <2> QED
    BY <1>1, <1>4, <1>7, <2>1, OnlyWayKeepsPlaces DEF CreateFolder
<1>8. CASE LinkFolder(e) /\ Target(e) \notin folders
  BY <1>1, <1>4, <1>8, LinkKeepsPlaces
<1>9. CASE CopyFolder(e) /\ Target(e) \notin folders
  BY <1>1, <1>2, <1>4, <1>9, CopyKeepsPlaces
<1> QED
  BY <1>3, <1>5, <1>6, <1>7, <1>8, <1>9

(* After the folders only the ways to the destinations are created.        *)
LEMMA LaterKeepsPlaces ==
  ASSUME MappingIInv, FoldersIInv, MapVariable \/ AddVariable
  PROVE  FoldersIInv'
<1> DEFINE A == [destination : Seq(STRING), name : STRING]
<1>1. phase' \notin {"implicit", "folders"}
  <2>1. CASE MapVariable
    <3>1. phase = "variables" /\ phase' \in {phase, "aborted"}
      BY <2>1 DEF MapVariable, RefuseVariable, KeepOnlyHistory, LinkVariable,
                  CopyVariable, Raise, Advance
    <3> QED
      BY <3>1
  <2>2. CASE AddVariable
    <3>1. phase = "additional" /\ phase' \in {phase, "aborted"}
      BY <2>2 DEF AddVariable, Raise, Advance
    <3> QED
      BY <3>1
  <2> QED
    BY <2>1, <2>2
<1>2. \/ UNCHANGED folders
      \/ \E path \in Seq(STRING) : folders' = WithFolders(path)
  <2>1. CASE MapVariable
    <3> DEFINE e == file.variables[i]
    <3>1. i \in DOMAIN file.variables
      BY <2>1, ListsOfFile DEF MapVariable, MappingIInv, ImplicitComesFirst
    <3>2. e.destination \in Seq(STRING)
      BY <3>1, ListsOfFile
    <3>3. RefuseVariable(e) \/ KeepOnlyHistory(e) \/ LinkVariable(e) \/ CopyVariable(e)
      BY <2>1 DEF MapVariable
    <3> HIDE DEF e
    <3> QED
      BY <3>2, <3>3
         DEF RefuseVariable, KeepOnlyHistory, LinkVariable, CopyVariable, nodeVars
  <2>2. CASE AddVariable
    <3> DEFINE e == file.additional[i]
    <3>1. file \in Files /\ i \in Nat \ {0} /\ i <= Len(file.additional)
      BY <2>2 DEF AddVariable, MappingIInv, ImplicitComesFirst
    <3>2. file.additional \in Seq(A)
      BY <3>1, MappingAssumption
    <3> HIDE DEF A
    <3>3. e \in A
      <4>1. i \in 1..Len(file.additional)
        BY <3>1, <3>2
      <4> QED
        BY <3>2, <4>1, ElementOfSeq
    <3>4. e.destination \in Seq(STRING)
      BY <3>3 DEF A
    <3>5. UNCHANGED folders \/ folders' = WithFolders(e.destination)
      BY <2>2 DEF AddVariable, nodeVars
    <3> QED
      BY <3>4, <3>5
  <2> QED
    BY <2>1, <2>2
<1>3. FoldersHaveTheirWay'
  <2>1. CASE UNCHANGED folders
    BY <2>1 DEF FoldersIInv, FoldersHaveTheirWay
  <2>2. ASSUME NEW path \in Seq(STRING), folders' = WithFolders(path)
        PROVE  FoldersHaveTheirWay'
    BY <2>2, WayIsKept DEF FoldersIInv, FoldersHaveTheirWay
  <2> QED
    BY <1>2, <2>1, <2>2
<1> QED
  BY <1>1, <1>3
     DEF FoldersIInv, VariablesHavePlaces, NamesTellVariables, ShownInTheirPlace

(* The folders keep what tells their variables apart.                      *)
THEOREM FoldersInvariant == Spec => []FoldersIInv
<1>1. Init => FoldersIInv
  <2> SUFFICES ASSUME Init PROVE FoldersIInv
    OBVIOUS
  <2>1. folders = {} /\ references = {} /\ DOMAIN variables = {}
    BY DEF Init
  <2>2. \A f : VariablesIn(references, f) = {}
    BY <2>1 DEF VariablesIn
  <2> QED
    BY <2>1, <2>2 DEF FoldersIInv, FoldersHaveTheirWay, VariablesHavePlaces,
                      NamesTellVariables, ShownInTheirPlace
<1>2. ASSUME MappingIInv, Browsable, Browsable', FoldersIInv, [Next]_vars
      PROVE  FoldersIInv'
  <2>1. CASE MapImplicit
    BY <1>2, <2>1, ImplicitKeepsPlaces
  <2>2. CASE MapFolder
    BY <1>2, <2>2, FolderKeepsPlaces
  <2>3. CASE MapVariable \/ AddVariable
    BY <1>2, <2>3, LaterKeepsPlaces
  <2>4. CASE EndPhase
    <3>1. /\ UNCHANGED nodeVars /\ phase' # "implicit"
          /\ phase' = "folders" => phase = "implicit"
      BY <2>4 DEF EndPhase, EndOf
    <3> QED
      BY <1>2, <3>1
         DEF FoldersIInv, FoldersHaveTheirWay, VariablesHavePlaces,
             NamesTellVariables, ShownInTheirPlace, VariablesIn, nodeVars
  <2>5. CASE UNCHANGED vars
    BY <1>2, <2>5
       DEF FoldersIInv, FoldersHaveTheirWay, VariablesHavePlaces,
           NamesTellVariables, ShownInTheirPlace, VariablesIn, nodeVars, vars
  <2> QED
    BY <1>2, <2>1, <2>2, <2>3, <2>4, <2>5 DEF Next
<1> QED
  BY <1>1, <1>2, MappingInvariant, BrowsableInvariant, PTL DEF Spec

-----------------------------------------------------------------------------
(* What references lead to as a folder has a path.                         *)
LEMMA FoldersArePaths ==
  ASSUME Browsable, Browsable'
  PROVE  FolderNodes(references) \subseteq Paths /\ FolderNodes(references') \subseteq Paths
<1>1. ASSUME NEW r \in references, r[2].class = "folder" PROVE r[2].path \in Paths
  <2>1. r[2] \in Nodes
    BY DEF Browsable, NodesBrowsable
  <2>2. r[2].path \in folders
    BY <1>1, <2>1 DEF Nodes, Folder, Variable, Additional
  <2> QED
    BY <2>2 DEF Browsable
<1>2. ASSUME NEW r \in references', r[2].class = "folder" PROVE r[2].path \in Paths
  <2>1. r[2] \in Nodes'
    BY DEF Browsable, NodesBrowsable
  <2>2. r[2].path \in folders'
    BY <1>2, <2>1 DEF Nodes, Folder, Variable, Additional
  <2> QED
    BY <2>2 DEF Browsable
<1> QED
  BY <1>1, <1>2 DEF FolderNodes

(* A folder that has the subfolders of another and stands for its          *)
(* variables shows all that the other shows: what is deeper is the same.   *)
LEMMA LinkedShowsAll ==
  ASSUME Browsable, Browsable', NEW s \in Seq(STRING), NEW t \in Seq(STRING),
         NEW steps \in Nat, references \subseteq references',
         \A v \in DOMAIN variables : variables'[v] = variables[v],
         FoldersIn(references, s) \subseteq FoldersIn(references', t),
         \A v \in VariablesIn(references, s) : \E u \in VariablesIn(references', t) :
           Last(u) = Last(v) /\ variables'[u] = variables[v]
  PROVE  Shown(references, variables, s, steps)
           \subseteq Shown(references', variables', t, steps)
<1> DEFINE R == {<<s, t>>} \cup {<<f, f>> : f \in FolderNodes(references)}
<1>1. /\ FolderNodes(references) \subseteq Paths
      /\ FolderNodes(references') \subseteq Paths
  BY FoldersArePaths
<1>2. \A f : /\ FoldersIn(references, f) \subseteq FolderNodes(references)
             /\ FoldersIn(references, f) \subseteq FoldersIn(references', f)
             /\ VariablesIn(references, f) \subseteq VariablesIn(references', f)
  BY DEF FoldersIn, VariablesIn, FolderNodes
<1>3. ASSUME NEW f, NEW g, <<f, g>> \in R
      PROVE  /\ \A c \in FoldersIn(references, f) : \E d \in FoldersIn(references', g) :
                  Last(d) = Last(c) /\ <<c, d>> \in R
             /\ \A v \in VariablesIn(references, f) :
                  \E u \in VariablesIn(references', g) :
                    Last(u) = Last(v) /\ variables'[u] = variables[v]
  <2>1. CASE f = s /\ g = t
    BY <1>2, <2>1
  <2>2. CASE f = g
    <3>1. \A v \in VariablesIn(references, f) : variables'[v] = variables[v]
      BY ShownInFolders
    <3> QED
      BY <1>2, <2>2, <3>1
  <2> QED
    BY <1>3, <2>1, <2>2
<1>4. <<s, t>> \in R
  OBVIOUS
<1> HIDE DEF R
<1> QED
  BY <1>1, <1>3, <1>4, ShownElsewhere

(* Where the browses return everything, all is linked.                     *)
LEMMA AllLinksAreBrowsed ==
  ASSUME NEW refs, IsFiniteSet(refs), NEW e, NEW shown,
         NEW links \in BrowsedLinks(refs, e, shown),
         Cardinality(FoldersIn(refs, e.source)) <= MaxReferences,
         Cardinality(VariablesIn(refs, e.source)) <= MaxReferences
  PROVE  links = Links(refs, e, shown)
<1> DEFINE V == VariablesIn(refs, e.source)
<1>1. V \subseteq VariableNodes(refs)
  BY DEF VariablesIn, VariableNodes
<1>2. IsFiniteSet(V)
  BY <1>1, NodesAreFinite, FS_Subset
<1> HIDE DEF V
<1>3. /\ IsFiniteSet(V \cap shown) /\ Cardinality(V \cap shown) <= Cardinality(V)
      /\ Cardinality(V) \in Nat /\ Cardinality(V \cap shown) \in Nat
  <2>1. V \cap shown \subseteq V
    OBVIOUS
  <2>2. IsFiniteSet(V \cap shown) /\ Cardinality(V \cap shown) <= Cardinality(V)
    BY <1>2, <2>1, FS_Subset
  <2> QED
    BY <1>2, <2>2, FS_CardinalityType
<1>4. Cardinality(V \cap shown) <= MaxReferences
  <2>1. Cardinality(V) <= MaxReferences /\ MaxReferences \in Nat
    BY MappingAssumption DEF V
  <2> QED
    BY <1>3, <2>1
<1> QED
  BY <1>4, BrowsedAreLinks DEF V

(* References to what the source shows do this (addFolder...Reference).    *)
LEMMA LinkShowsAll ==
  ASSUME Browsable, Browsable', FoldersIInv, NEW e, e.source \in Seq(STRING),
         Target(e) \in Paths, LinkFolder(e), LinksReachAll(WithWay(e), e),
         NEW steps \in Nat
  PROVE  Shown(references, variables, e.source, steps)
           \subseteq Shown(references', variables', Target(e), steps)
<1> DEFINE refs == WithWay(e)
<1>1. /\ references' = refs \cup Links(refs, e, DOMAIN variables)
      /\ UNCHANGED variables
  <2>1. PICK links \in BrowsedLinks(refs, e, DOMAIN variables) :
          references' = refs \cup links /\ UNCHANGED variables
    BY DEF LinkFolder, WithWay
  <2>2. IsFiniteSet(refs) /\ e.copy # "TRUE"
    BY ReferencedNodes DEF WithWay, Paths, LinkFolder
  <2>3. links = Links(refs, e, DOMAIN variables)
    BY <2>2, AllLinksAreBrowsed DEF LinksReachAll
  <2> QED
    BY <2>1, <2>3
<1>2. /\ references \subseteq refs /\ Target(e) \in Seq(STRING)
      /\ \A f : VariablesIn(refs, f) = VariablesIn(references, f)
  BY WayIsKept DEF WithWay, Paths, FoldersIInv
<1>3. \A c \in FoldersIn(references, e.source) : c \in FoldersIn(references', Target(e))
  <2> SUFFICES ASSUME NEW c \in FoldersIn(references, e.source)
               PROVE  c \in FoldersIn(references', Target(e))
    OBVIOUS
  <2>1. c \in FoldersIn(refs, e.source)
    BY <1>2 DEF FoldersIn
  <2>2. <<Target(e), Folder(c)>> \in references'
    BY <1>1, <2>1 DEF Links
  <2> QED
    BY <2>2 DEF FoldersIn, Folder
<1>4. \A v \in VariablesIn(references, e.source) : v \in VariablesIn(references', Target(e))
  <2> SUFFICES ASSUME NEW v \in VariablesIn(references, e.source)
               PROVE  v \in VariablesIn(references', Target(e))
    OBVIOUS
  <2>1. v \in VariablesIn(refs, e.source) /\ v \in DOMAIN variables
    BY <1>2, ShownInFolders
  <2>2. <<Target(e), Variable(v)>> \in references'
    BY <1>1, <2>1 DEF Links
  <2> QED
    BY <2>2 DEF VariablesIn, Variable
<1> HIDE DEF refs
<1> QED
  BY <1>1, <1>2, <1>3, <1>4, LinkedShowsAll

(* The walk does not meet the new folders on the way to its copy, for from *)
(* them it would come to the copy: nothing below the source changes.       *)
LEMMA SourceStaysApart ==
  ASSUME Browsable, FoldersIInv, NEW e, e.source \in Seq(STRING),
         Target(e) \in Paths, ~IsEndless(WithWay(e), e)
  PROVE  /\ \A f \in {e.source} \cup Below(WithWay(e), e.source) :
              FoldersIn(WithWay(e), f) = FoldersIn(references, f)
         /\ Twins(WithWay(e), e.source) = Twins(references, e.source)
<1> DEFINE refs == WithWay(e)
           s == e.source
           t == Target(e)
           n == Len(t)
<1>1. t \in Seq(STRING) /\ n \in Nat \ {0}
  BY ParentOfPath DEF Paths
<1>2. /\ references \subseteq refs /\ IsFiniteSet(refs) /\ IsFiniteSet(references)
      /\ \A f \in Way(t) \ folders : <<Front(f), Folder(f)>> \in refs
      /\ \A r \in refs \ references : \E f \in Way(t) \ folders : r[2] = Folder(f)
  <2>1. IsFiniteSet(refs) /\ IsFiniteSet(references)
    BY <1>1, ReferencedNodes DEF WithWay, Browsable
  <2> QED
    BY <2>1 DEF WithWay, WayReferences
<1>3. t \notin Below(refs, s)
  BY DEF IsEndless
<1>4. /\ \A f : FoldersIn(references, f) \subseteq FoldersIn(refs, f)
      /\ \A f : FoldersIn(refs, f) \subseteq Below(refs, f)
      /\ \A f : \A g \in Below(refs, f) : FoldersIn(refs, g) \subseteq Below(refs, f)
      /\ \A f : FoldersIn(references, f) \subseteq Below(references, f)
      /\ \A f : \A g \in Below(references, f) :
           FoldersIn(references, g) \subseteq Below(references, f)
  <2>1. \A f : FoldersIn(references, f) \subseteq FoldersIn(refs, f)
    BY <1>2 DEF FoldersIn
  <2> HIDE DEF refs
  <2> QED
    BY <1>2, <2>1, BelowIsClosed
<1> HIDE DEF refs, s, t, n
<1>5. ASSUME NEW c \in Way(t) \ folders PROVE c \notin Below(refs, s)
  <2> SUFFICES ASSUME c \in Below(refs, s) PROVE FALSE
    OBVIOUS
  <2>1. PICK k \in 1..n : c = SubSeq(t, 1, k)
    BY DEF Way, n
  <2> DEFINE H == {m \in Nat : k <= m /\ m <= n => SubSeq(t, 1, m) \in Below(refs, s)}
  <2>2. 0 \in H
    OBVIOUS
  <2>3. ASSUME NEW m \in Nat, m \in H PROVE m + 1 \in H
    <3> SUFFICES ASSUME NEW l \in Nat, l = m + 1, k <= l, l <= n
                 PROVE  SubSeq(t, 1, l) \in Below(refs, s)
      BY <1>1
    <3>1. CASE l = k
      BY <2>1, <3>1
    <3>2. CASE l # k
      <4>1. m \in 0..n /\ l \in 0..n /\ l \in 1..n /\ k <= m /\ m <= n
            /\ k \in 1..l /\ m = l - 1
        BY <1>1, <3>2
      <4>2. PICK g : g = SubSeq(t, 1, m)
        OBVIOUS
      <4>3. PICK h : h = SubSeq(t, 1, l)
        OBVIOUS
      <4>4. g \in Below(refs, s)
        BY <2>3, <4>1, <4>2
      <4>5. /\ Len(h) = l /\ h = [x \in 1..l |-> t[x]] /\ h \in Seq(STRING)
            /\ g = [x \in 1..m |-> t[x]]
        BY <1>1, <4>1, <4>2, <4>3, InitialSegment DEF n
      <4>6. h \in Way(t)
        BY <4>1, <4>3 DEF Way, n
      <4>7. c \in Way(h)
        <5>1. SubSeq(h, 1, k) = [x \in 1..k |-> h[x]]
          <6>1. k \in 0..Len(h)
            BY <4>1, <4>5
          <6> QED
            BY <4>5, <6>1, InitialSegment
        <5>2. c = [x \in 1..k |-> t[x]]
          <6>1. k \in 0..Len(t)
            BY <1>1 DEF n
          <6> QED
            BY <1>1, <2>1, <6>1, InitialSegment
        <5>3. \A x \in 1..k : h[x] = t[x]
          BY <4>1, <4>5
        <5>4. SubSeq(h, 1, k) = c
          BY <5>1, <5>2, <5>3
        <5> QED
          BY <4>1, <4>5, <5>4 DEF Way
      <4>8. h \notin folders
        BY <4>7 DEF FoldersIInv, FoldersHaveTheirWay
      <4>9. Front(h) = g
        <5>1. h \in Paths
          BY <4>1, <4>5, EmptySeq DEF Paths, Root
        <5>2. Front(h) = SubSeq(h, 1, m)
          BY <4>1, <4>5, <5>1, ParentOfPath
        <5>3. SubSeq(h, 1, m) = [x \in 1..m |-> h[x]]
          <6>1. m \in 0..Len(h)
            BY <4>1, <4>5
          <6> QED
            BY <4>5, <6>1, InitialSegment
        <5>4. \A x \in 1..m : h[x] = t[x]
          BY <4>1, <4>5
        <5> QED
          BY <4>5, <5>2, <5>3, <5>4
      <4>10. <<g, Folder(h)>> \in refs
        BY <1>2, <4>6, <4>8, <4>9
      <4>11. h \in FoldersIn(refs, g)
        BY <4>10 DEF FoldersIn, Folder
      <4> QED
        BY <1>4, <4>3, <4>4, <4>11
    <3> QED
      BY <3>1, <3>2
  <2> HIDE DEF H
  <2>4. n \in H
    BY <1>1, <2>2, <2>3, Induction
  <2>5. SubSeq(t, 1, n) \in Below(refs, s)
    BY <1>1, <2>4 DEF H
  <2>6. SubSeq(t, 1, n) = t
    BY <1>1 DEF n
  <2> QED
    BY <1>3, <2>5, <2>6
<1>6. ASSUME NEW f \in {s} \cup Below(refs, s)
      PROVE  FoldersIn(refs, f) = FoldersIn(references, f)
  <2> SUFFICES ASSUME NEW c \in FoldersIn(refs, f) PROVE c \in FoldersIn(references, f)
    BY <1>4
  <2>1. c \in Below(refs, s)
    BY <1>4
  <2>2. PICK r \in refs : r[1] = f /\ r[2].class = "folder" /\ r[2].path = c
    BY DEF FoldersIn
  <2>3. r \in references
    <3> SUFFICES ASSUME r \in refs \ references PROVE FALSE
      BY <2>2
    <3>1. PICK g \in Way(t) \ folders : r[2] = Folder(g)
      BY <1>2
    <3>2. g = c
      BY <2>2, <3>1 DEF Folder
    <3> QED
      BY <1>5, <2>1, <3>1, <3>2
  <2> QED
    BY <2>2, <2>3 DEF FoldersIn
<1>7. Below(refs, s) = Below(references, s)
  <2>1. Below(references, s) \subseteq Below(refs, s)
    <3>1. FoldersIn(references, s) \subseteq Below(refs, s)
      BY <1>4
    <3>2. \A g \in Below(refs, s) : FoldersIn(references, g) \subseteq Below(refs, s)
      BY <1>4
    <3> QED
      BY <1>2, <3>1, <3>2, BelowIsLeast
  <2> DEFINE B == Below(references, s)
  <2>2. FoldersIn(refs, s) \subseteq B
    BY <1>4, <1>6
  <2>3. \A g \in B : FoldersIn(refs, g) \subseteq B
    BY <1>4, <1>6, <2>1
  <2> HIDE DEF B
  <2>4. Below(refs, s) \subseteq B
    BY <1>2, <2>2, <2>3, BelowIsLeast
  <2> QED
    BY <2>1, <2>4 DEF B
<1>8. Twins(refs, s) = Twins(references, s)
  <2> DEFINE C(rs, x) == {g \in FoldersIn(rs, x[1]) : Last(g) = x[2]}
             D == ({s} \cup Below(refs, s)) \X {Last(g) : g \in Below(refs, s)}
  <2>1. /\ Twins(refs, s) = {x \in D : Cardinality(C(refs, x)) > 1}
        /\ Twins(references, s) = {x \in D : Cardinality(C(references, x)) > 1}
    BY <1>7 DEF Twins
  <2>2. \A x \in D : C(refs, x) = C(references, x)
    BY <1>6
  <2> HIDE DEF C, D
  <2> QED
    BY <2>1, <2>2
<1> QED
  BY <1>6, <1>8 DEF refs, s

(* A copy shows what its source shows, the methods where they were         *)
(* (deepCopyHierarchicalLayer).                                            *)
LEMMA CopyShowsAll ==
  ASSUME Browsable, Browsable', FoldersIInv, phase = "folders",
         NEW e, e.source \in Seq(STRING), Target(e) \in Paths,
         Target(e) \notin folders, CopyFolder(e), Twins(references, e.source) = {},
         LinksReachAll(WithWay(e), e),
         NEW steps \in Nat
  PROVE  Shown(references, variables, e.source, steps)
           \subseteq Shown(references', variables', Target(e), steps)
<1> DEFINE refs == WithWay(e)
           s == e.source
           t == Target(e)
<1>1. ~IsEndless(refs, e)
  BY DEF CopyFolder, WithWay
<1>2. PICK first \in Firsts(refs, s), links \in LinksOfCopy(refs, e) :
        CopyMade(e, refs, CopiedFolders(refs, e, first), links)
  BY CopyFolderMakes
<1>3. PICK copied : copied = CopiedFolders(refs, e, first)
  OBVIOUS
<1>4. t \in Seq(STRING) /\ references \subseteq refs
      /\ \A f : VariablesIn(refs, f) = VariablesIn(references, f)
  BY WayIsKept DEF Paths, WithWay, FoldersIInv
<1>5. IsFiniteSet(refs) /\ FolderNodes(refs) \subseteq Paths
  BY <1>4, ReferencedNodes DEF WithWay
<1>6. /\ \A f \in {s} \cup Below(refs, s) : FoldersIn(refs, f) = FoldersIn(references, f)
      /\ Twins(refs, s) = {}
  BY <1>1, SourceStaysApart
<1>7. /\ copied \subseteq Pairs
      /\ \E pair \in copied : pair.from = s /\ pair.to = t
      /\ \A pair \in copied : pair.from \in {s} \cup Below(refs, s)
  <2> HIDE DEF refs
  <2> QED
    BY <1>3, <1>5, CopiesInPlace
<1>8. /\ \A v \in DOMAIN variables : variables'[v] = variables[v]
      /\ \A n \in CopiedVariables(refs, copied) : variables'[n.id] = n.source
      /\ references' = refs
           \cup {<<Front(pair.to), Folder(pair.to)>> : pair \in copied}
           \cup {<<n.in, Variable(n.id)>> : n \in CopiedVariables(refs, copied)}
           \cup links
  BY <1>2, <1>3 DEF CopyMade
<1>9. DOMAIN first = {}
  BY <1>6 DEF Firsts
<1>10. /\ FolderNodes(references) \subseteq Paths
       /\ FolderNodes(references') \subseteq Paths
  BY FoldersArePaths
<1> HIDE DEF refs, s, t
<1>11. ASSUME NEW p \in copied, NEW c \in FoldersIn(references, p.from)
       PROVE  \E q \in copied : /\ q.from = c /\ Last(q.to) = Last(c)
                                /\ q.to \in FoldersIn(references', p.to)
  <2>1. c \in FoldersIn(refs, p.from)
    BY <1>6, <1>7
  <2>2. c \in CopiedIn(refs, first, p.from)
    BY <1>9, <2>1 DEF CopiedIn
  <2>3. PICK q : q = [from |-> c, to |-> Append(p.to, Last(c))]
    OBVIOUS
  <2>4. q \in copied
    BY <1>1, <1>3, <1>5, <2>2, <2>3, CopiesAreClosed DEF s, t
  <2>5. Front(q.to) = p.to /\ Last(q.to) = Last(c)
    <3>1. c \in Paths /\ p.to \in Seq(STRING)
      BY <1>7, <1>10 DEF FoldersIn, FolderNodes, Pairs, Paths
    <3>2. Last(c) \in STRING
      BY <3>1, ParentOfPath
    <3> QED
      BY <2>3, <3>1, <3>2, FrontOfAppend
  <2>6. <<p.to, Folder(q.to)>> \in references'
    BY <1>8, <2>4, <2>5
  <2>7. q.to \in FoldersIn(references', p.to)
    BY <2>6 DEF FoldersIn, Folder
  <2> QED
    BY <2>3, <2>4, <2>5, <2>7
<1>12. ASSUME NEW p \in copied, NEW v \in VariablesIn(references, p.from), ~IsMethod(v)
       PROVE  \E u \in VariablesIn(references', p.to) :
                Last(u) = Last(v) /\ variables'[u] = variables[v]
  <2>1. PICK n : n = [id |-> Append(p.to, Last(v)), in |-> p.to,
                      source |-> variables[v]]
    OBVIOUS
  <2>2. n \in CopiedVariables(refs, copied)
    <3>1. v \in {w \in VariablesIn(refs, p.from) : ~IsMethod(w)}
      BY <1>4, <1>12
    <3>2. n \in {[id |-> Append(p.to, Last(w)), in |-> p.to, source |-> variables[w]] :
                  w \in {w \in VariablesIn(refs, p.from) : ~IsMethod(w)}}
      BY <2>1, <3>1
    <3> QED
      BY <3>2 DEF CopiedVariables
  <2>3. <<p.to, Variable(n.id)>> \in references' /\ variables'[n.id] = variables[v]
    <3>1. n.in = p.to /\ n.source = variables[v]
      BY <2>1
    <3>2. <<n.in, Variable(n.id)>> \in references'
      BY <1>8, <2>2
    <3>3. variables'[n.id] = n.source
      BY <1>8, <2>2
    <3> QED
      BY <3>1, <3>2, <3>3
  <2>4. Last(n.id) = Last(v)
    <3>1. v \in Paths /\ p.to \in Seq(STRING)
      BY <1>7, ShownInFolders DEF Pairs, Paths
    <3>2. Last(v) \in STRING
      BY <3>1, ParentOfPath
    <3> QED
      BY <2>1, <3>1, <3>2, FrontOfAppend
  <2>5. n.id \in VariablesIn(references', p.to)
    BY <2>3 DEF VariablesIn, Variable
  <2> QED
    BY <2>3, <2>4, <2>5
<1>13. CASE FoundMethod(refs, s)
  <2>1. Links(refs, e, {v \in DOMAIN variables : IsMethod(v)}) \subseteq references'
    <3>1. PICK methods : methods = {v \in DOMAIN variables : IsMethod(v)}
      OBVIOUS
    <3>2. links \in BrowsedLinks(refs, e, methods)
      BY <1>2, <1>13, <3>1 DEF LinksOfCopy, s
    <3>3. /\ Cardinality(FoldersIn(refs, e.source)) <= MaxReferences
          /\ Cardinality(VariablesIn(refs, e.source)) <= MaxReferences
      BY <1>13 DEF LinksReachAll, refs, s
    <3>4. links = Links(refs, e, methods)
      BY <1>5, <3>2, <3>3, AllLinksAreBrowsed
    <3> QED
      BY <1>8, <3>1, <3>4
  <2>2. \A c \in FoldersIn(references, s) : c \in FoldersIn(references', t)
    <3> SUFFICES ASSUME NEW c \in FoldersIn(references, s)
                 PROVE  c \in FoldersIn(references', t)
      OBVIOUS
    <3>1. c \in FoldersIn(refs, s)
      BY <1>6
    <3>2. <<t, Folder(c)>> \in references'
      BY <2>1, <3>1 DEF Links, s, t
    <3> QED
      BY <3>2 DEF FoldersIn, Folder
  <2>3. ASSUME NEW v \in VariablesIn(references, s)
        PROVE  \E u \in VariablesIn(references', t) :
                 Last(u) = Last(v) /\ variables'[u] = variables[v]
    <3>1. CASE IsMethod(v)
      <4>1. v \in DOMAIN variables /\ v \in VariablesIn(refs, s)
        BY <1>4, ShownInFolders
      <4>2. <<t, Variable(v)>> \in references'
        BY <2>1, <3>1, <4>1 DEF Links, s, t
      <4>3. v \in VariablesIn(references', t)
        BY <4>2 DEF VariablesIn, Variable
      <4> QED
        BY <1>8, <4>1, <4>3
    <3>2. CASE ~IsMethod(v)
      BY <1>7, <1>12, <3>2
    <3> QED
      BY <3>1, <3>2
  <2>4. references \subseteq references' /\ s \in Seq(STRING)
    BY <1>4, <1>8 DEF s
  <2>5. Shown(references, variables, s, steps)
          \subseteq Shown(references', variables', t, steps)
    BY <1>4, <1>8, <2>2, <2>3, <2>4, LinkedShowsAll
  <2> QED
    BY <2>5 DEF s, t
<1>14. CASE ~FoundMethod(refs, s)
  <2> DEFINE R == {<<p.from, p.to>> : p \in copied}
  <2>1. <<s, t>> \in R /\ s \in Seq(STRING)
    BY <1>7 DEF s
  <2>2. ASSUME NEW f, NEW g, <<f, g>> \in R
        PROVE  /\ \A c \in FoldersIn(references, f) :
                    \E d \in FoldersIn(references', g) :
                      Last(d) = Last(c) /\ <<c, d>> \in R
               /\ \A v \in VariablesIn(references, f) :
                    \E u \in VariablesIn(references', g) :
                      Last(u) = Last(v) /\ variables'[u] = variables[v]
    <3>1. PICK p \in copied : f = p.from /\ g = p.to
      BY <2>2
    <3>2. ASSUME NEW v \in VariablesIn(references, f) PROVE ~IsMethod(v)
      BY <1>4, <1>7, <1>14, <3>1 DEF FoundMethod
    <3>3. ASSUME NEW c \in FoldersIn(references, f)
          PROVE  \E d \in FoldersIn(references', g) : Last(d) = Last(c) /\ <<c, d>> \in R
      <4>1. c \in FoldersIn(references, p.from)
        BY <3>1
      <4>2. PICK q \in copied : /\ q.from = c /\ Last(q.to) = Last(c)
                                /\ q.to \in FoldersIn(references', p.to)
        BY <1>11, <4>1, Zenon
      <4>3. <<c, q.to>> \in R
        BY <4>2
      <4> QED
        BY <3>1, <4>2, <4>3, Zenon
    <3>4. ASSUME NEW v \in VariablesIn(references, f)
          PROVE  \E u \in VariablesIn(references', g) :
                   Last(u) = Last(v) /\ variables'[u] = variables[v]
      <4>1. v \in VariablesIn(references, p.from) /\ ~IsMethod(v)
        BY <3>1, <3>2, Zenon
      <4>2. \E u \in VariablesIn(references', p.to) :
              Last(u) = Last(v) /\ variables'[u] = variables[v]
        BY <1>12, <4>1, Zenon
      <4> QED
        BY <3>1, <4>2, Zenon
    <3> QED
      BY <3>3, <3>4, Zenon
  <2> HIDE DEF R
  <2>3. Shown(references, variables, s, steps)
          \subseteq Shown(references', variables', t, steps)
    BY <1>4, <1>10, <2>1, <2>2, ShownElsewhere
  <2> QED
    BY <2>3 DEF s, t
<1> QED
  BY <1>13, <1>14

(* The entry that is worked off.                                           *)
LEMMA EntryOfFolder ==
  ASSUME MappingIInv, MapFolder
  PROVE  /\ file.folders[i].source \in Seq(STRING)
         /\ file.folders[i].destination \in Seq(STRING)
         /\ file.folders[i].name \in STRING
<1>1. i \in DOMAIN file.folders
  BY ListsOfFile DEF MapFolder, MappingIInv, ImplicitComesFirst
<1> QED
  BY <1>1, ListsOfFile

(* A <folder> entry that is carried out without an error makes all of its  *)
(* source visible at the new place, to any depth, in any tree of folders   *)
(* and links whose source has no twins and shows no more than one browse   *)
(* returns, or is copied and has no methods (buildFolderStructure).        *)
THEOREM WholeFolderAlwaysVisible == Spec => WholeFolderVisible
<1>1. ASSUME MappingIInv, Browsable, Browsable', FoldersIInv, [Next]_vars
      PROVE  [phase = "folders" /\ phase' = phase /\ i' > i =>
                LET e == file.folders[i]
                IN  e.source # Root /\ <<phase, i>> \notin refused'
                      /\ e.name # "" /\ Twins(references, e.source) = {}
                      /\ LinksReachAll(references \cup WayReferences(Target(e)), e)
                    => Shown(references, variables, e.source, 3)
                         \subseteq Shown(references', variables', Target(e), 3)]_vars
  <2> DEFINE e == file.folders[i]
  <2> SUFFICES ASSUME Next, phase = "folders", phase' = phase, i' > i,
                      e.source # Root, <<phase, i>> \notin refused', e.name # "",
                      Twins(references, e.source) = {},
                      LinksReachAll(WithWay(e), e)
               PROVE  Shown(references, variables, e.source, 3)
                        \subseteq Shown(references', variables', Target(e), 3)
    BY <1>1 DEF WithWay
  <2>1. MapFolder
    BY DEF Next, MapImplicit, MapVariable, AddVariable, EndPhase, EndOf
  <2>2. /\ e.source \in Seq(STRING) /\ e.destination \in Seq(STRING)
        /\ e.name \in STRING
    BY <1>1, <2>1, EntryOfFolder
  <2>3. \/ AbortForHistory(e) \/ SkipFolder(e)
        \/ /\ Target(e) \notin folders
           /\ \/ RefuseSource(e) \/ CreateFolder(e) \/ LinkFolder(e)
              \/ CopyFolder(e) \/ CopyForever(e)
    BY <2>1 DEF MapFolder, CreatesFolder
  <2>4. Target(e) \in Paths
    BY <2>2, ChildOfPath DEF Target
  <2> HIDE DEF e
  <2>5. ~AbortForHistory(e) /\ ~SkipFolder(e) /\ ~RefuseSource(e)
        /\ ~CreateFolder(e) /\ ~CopyForever(e)
    BY DEF AbortForHistory, SkipFolder, OnlyDescribes, RefuseSource, CreateFolder,
           CopyForever, Raise
  <2>6. CASE LinkFolder(e)
    BY <1>1, <2>2, <2>4, <2>6, LinkShowsAll
  <2>7. CASE CopyFolder(e) /\ Target(e) \notin folders
    BY <1>1, <2>2, <2>4, <2>7, CopyShowsAll
  <2> QED
    BY <2>3, <2>5, <2>6, <2>7
<1> QED
  BY <1>1, MappingInvariant, BrowsableInvariant, FoldersInvariant, PTL
     DEF Spec, WholeFolderVisible
=============================================================================
