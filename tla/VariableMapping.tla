-------------------------- MODULE VariableMapping --------------------------
(***************************************************************************)
(* How the mapping file turns the process variables of the application     *)
(* into nodes of the server.  The constructor of the adapter maps every    *)
(* process variable that is not excluded to the place its name says; then  *)
(* applyMapping goes through the <folder>, the <process_variable> and the  *)
(* <additional_variable> entries.                                          *)
(*                                                                         *)
(* A name, a destination and the id of a node are paths: sequences of      *)
(* segments, the root folder the empty one.  Ids of folders, variables     *)
(* and additional variables differ by their suffix, here by the class of   *)
(* the node.  Left out: units and descriptions, display names, the         *)
(* attribute unrollPath and separators other than "/".                     *)
(***************************************************************************)
EXTENDS Integers, SequencesExt

CONSTANTS
  Kind,    \* of each process variable of the application, by its name
  Begins,  \* pairs of segments: the first is the beginning of the second
  Values,  \* pairs of segments: the second is the first with "Value" behind
  MaxReferences,  \* how many references a browse returns, 1000 in the code
  Files    \* mapping files

PVs == DOMAIN Kind
Copies == {"", "TRUE", "FALSE"}

ASSUME MappingAssumption ==
  /\ MaxReferences \in Nat \ {0}
  /\ \A p \in PVs : /\ p \in Seq(STRING) /\ p # <<>>
                    /\ Kind[p] \in {"value", "method", "event", "voidArray"}
  /\ \A file \in Files :
       /\ file.variables \in Seq([source : Seq(STRING), copy : Copies,
            destination : Seq(STRING), name : STRING, history : BOOLEAN])
       /\ file.folders \in Seq([source : Seq(STRING), copy : Copies,
            destination : Seq(STRING), name : STRING, history : BOOLEAN,
            described : BOOLEAN])
       /\ file.additional \in Seq([destination : Seq(STRING), name : STRING])
       /\ \A e \in file.exclude :
            /\ e.kind \in {"directory", "greedy", "direct"}
            /\ e.path \in Seq(STRING)

VARIABLES
  file,               \* the mapping file: exclude, folders, variables, ...
  mappingExceptions,  \* is an error in the mapping file fatal
  phase,              \* the step of the mapping
  pending,            \* process variables the constructor has not come to
  i,                  \* the entry that is next
  folders,            \* folderVector: the folders created
  variables,          \* the nodes of process variables and what they stand for
  additionalVariables,
  references,         \* <<folder, node>>
  unusedVariables,
  historyfolders, historyvariables,  \* ids that shall have a history
  refused             \* ghost: <<list, index>> of the entries with an error

fileVars == <<file, mappingExceptions>>
nodeVars == <<folders, variables, additionalVariables, references>>
historyVars == <<historyfolders, historyvariables>>
vars == <<fileVars, phase, pending, i, nodeVars, unusedVariables, historyVars,
          refused>>

Root == <<>>
Folder(path) == [class |-> "folder", path |-> path]
Variable(path) == [class |-> "variable", path |-> path]
Additional(path) == [class |-> "additional", path |-> path]

Init ==
  /\ file \in Files /\ mappingExceptions \in BOOLEAN
  /\ phase = "implicit" /\ pending = PVs /\ i = 1
  /\ folders = {} /\ variables = <<>> /\ additionalVariables = {}
  /\ references = {}
  /\ unusedVariables = {} /\ refused = {}
  /\ historyfolders = {} /\ historyvariables = {}

-----------------------------------------------------------------------------
(* The constructor.                                                        *)

(* Voids the application writes become events, arrays of voids nothing.    *)
IsMappable(p) == Kind[p] \in {"value", "method"}

InDirectory(p, directory) ==
  /\ Len(directory) < Len(p)
  /\ SubSeq(p, 1, Len(directory)) = directory

(* rfind(directory) == 0: the name begins with it and has it nowhere else. *)
MatchesDirectory(p, directory) ==
  /\ InDirectory(p, directory)
  /\ \A k \in 2..Len(p) : ~InDirectory(SubSeq(p, k, Len(p)), directory)

(* The text of the name begins with the text of the prefix.                *)
MatchesPrefix(p, prefix) ==
  /\ prefix # <<>> /\ Len(prefix) <= Len(p)
  /\ SubSeq(p, 1, Len(prefix) - 1) = Front(prefix)
  /\ \/ p[Len(prefix)] = Last(prefix)
     \/ <<Last(prefix), p[Len(prefix)]>> \in Begins

ListedSources(list) == {list[k].source : k \in DOMAIN list}
MappedSources == ListedSources(file.variables)
FoldersWithHistory ==
  {e.source : e \in {f \in Range(file.folders) : f.history /\ f.source # <<>>}}

(* Mutated form of the definition below. *)
IsExcludedThoughMapped(p) ==
  \E e \in file.exclude :
    \/ e.kind = "directory" /\ MatchesDirectory(p, e.path)
    \/ e.kind = "greedy" /\ MatchesPrefix(p, e.path)
    \/ e.kind = "direct" /\ p = e.path /\ p \notin MappedSources

(* What an entry maps is not excluded; a directory pattern also spares the *)
(* folders with a history.  The other two patterns compare the name        *)
(* without its leading "/" to the folder with it, which is never equal.    *)
IsExcluded(p) ==
  \E e \in file.exclude :
    /\ p \notin MappedSources
    /\ \/ /\ e.kind = "directory" /\ MatchesDirectory(p, e.path)
          /\ \A f \in FoldersWithHistory : ~MatchesPrefix(p, f)
       \/ e.kind = "greedy" /\ MatchesPrefix(p, e.path)
       \/ e.kind = "direct" /\ p = e.path

(* Mutated form of the definition below. *)
WayOfLast(path) == {path} \ {Root}

(* createFolderPath: the folders on the way to a path that are missing.    *)
Way(path) == {SubSeq(path, 1, k) : k \in 1..Len(path)}
WithFolders(path) == folders \cup Way(path)

WayReferences(path) ==
  {<<Front(f), Folder(f)>> : f \in Way(path) \ folders}

(* Mutated form of the definition below. *)
IsMappedThoughExcluded(p) == IsMappable(p)

IsMappedImplicitly(p) == IsMappable(p) /\ ~IsExcluded(p)

(* A further node that stands for a process variable.                      *)
WithVariable(id, source) ==
  [x \in DOMAIN variables \cup {id} |->
     IF x = id THEN source ELSE variables[x]]

(* implicitVarMapping for one process variable of the manager's list, or   *)
(* the decision that the application need not send it.                     *)
MapImplicit ==
  /\ phase = "implicit"
  /\ \E p \in pending :
       /\ pending' = pending \ {p}
       /\ IF IsMappedImplicitly(p)
          THEN /\ folders' = WithFolders(Front(p))
               /\ variables' = WithVariable(p, p)
               /\ references' = references \cup WayReferences(Front(p))
                                  \cup {<<Front(p), Variable(p)>>}
          ELSE UNCHANGED <<folders, variables, references>>
       /\ unusedVariables' = IF IsMappable(p) /\ IsExcluded(p)
                             THEN unusedVariables \cup {p}
                             ELSE unusedVariables
  /\ UNCHANGED <<fileVars, phase, i, additionalVariables, historyVars, refused>>

-----------------------------------------------------------------------------
(* The end of one list is the beginning of the next.                       *)
EndOf(list, this, next) ==
  /\ phase = this /\ pending = {} /\ i > Len(list)
  /\ phase' = next /\ i' = 1
  /\ UNCHANGED <<fileVars, pending, nodeVars, unusedVariables, historyVars,
                 refused>>

EndPhase == \/ EndOf(<<>>, "implicit", "folders")
            \/ EndOf(file.folders, "folders", "variables")
            \/ EndOf(file.variables, "variables", "additional")
            \/ EndOf(file.additional, "additional", "mapped")

(* raiseError: the entry is passed over, or the mapping ends.              *)
Raise == /\ refused' = refused \cup {<<phase, i>>}
         /\ IF mappingExceptions THEN phase' = "aborted" /\ UNCHANGED i
                                 ELSE i' = i + 1 /\ UNCHANGED phase

Advance == i' = i + 1 /\ UNCHANGED <<phase, refused>>

-----------------------------------------------------------------------------
(* buildFolderStructure.                                                   *)

Target(e) == Append(e.destination, e.name)

FolderHistory(e) ==
  IF ~e.history THEN {}
  ELSE IF e.name # "" THEN {Target(e)}
  ELSE IF e.copy # "TRUE" /\ e.source # Root THEN {e.source} ELSE {}

(* The history attribute alone is wrong; the entry is still worked off.    *)
HistoryRefused(e) ==
  e.history /\ (e.source = Root \/ (e.name = "" /\ e.copy = "TRUE"))

FolderDone(e) ==
  /\ i' = i + 1 /\ UNCHANGED phase
  /\ refused' = IF HistoryRefused(e) THEN refused \cup {<<phase, i>>}
                ELSE refused

OnlyDescribes(e) == Target(e) \in folders /\ e.source = Root /\ e.described

FolderRefused(e) ==
  \/ e.name = "" /\ ~e.history
  \/ e.name # "" /\ Target(e) \in folders /\ ~OnlyDescribes(e)
  \/ e.name # "" /\ Target(e) \notin folders
       /\ e.copy # "" /\ e.source = Root

(* The folders of the destination are there before the source is looked    *)
(* for.                                                                    *)
SourceMissing(e) ==
  /\ e.source # Root
  /\ e.source = Target(e) \/ e.source \notin WithFolders(e.destination)

FoldersIn(refs, f) ==
  {r[2].path : r \in {q \in refs : q[1] = f /\ q[2].class = "folder"}}
VariablesIn(refs, f) ==
  {r[2].path : r \in {q \in refs : q[1] = f /\ q[2].class = "variable"}}

(* The folders that a walk from f comes to.                                *)
Below(refs, f) ==
  LET Reached[n \in Nat] ==
        IF n = 0 THEN FoldersIn(refs, f)
        ELSE Reached[n - 1]
               \cup UNION {FoldersIn(refs, g) : g \in Reached[n - 1]}
  IN  Reached[Cardinality({r[1] : r \in refs})]

IsMethod(v) == Kind[variables[v]] = "method"

(* Mutated form of a definition below. *)
FoundMethodInLayer(refs, source) ==
  \E v \in VariablesIn(refs, source) : IsMethod(v)

(* UA_Server_browse with a limit: what is beyond it waits for a browse     *)
(* with the continuation point, which the code does not make.  Which ones  *)
(* these are is up to the server.                                          *)
Browsed(found) == IF Cardinality(found) <= MaxReferences THEN {found}
                  ELSE kSubset(MaxReferences, found)

LinksTo(e, subfolders, nodes) ==
  {Target(e)} \X ({Folder(c) : c \in subfolders} \cup {Variable(v) : v \in nodes})

(* References from the target to what two browses of the source folder     *)
(* return, one for its subfolders and one for the nodes in it.             *)
BrowsedLinks(refs, e, shown) ==
  {LinksTo(e, subfolders, nodes) :
     subfolders \in Browsed(FoldersIn(refs, e.source)),
     nodes \in Browsed(VariablesIn(refs, e.source) \cap shown)}

(* The result of deepCopyHierarchicalLayer.                                *)
FoundMethod(refs, source) ==
  \E f \in {source} \cup Below(refs, source) :
    \E v \in VariablesIn(refs, f) : IsMethod(v)

(* Which of several subfolders of one name the walk meets first.           *)
Twins(refs, f) ==
  {t \in ({f} \cup Below(refs, f)) \X {Last(g) : g \in Below(refs, f)} :
     Cardinality({g \in FoldersIn(refs, t[1]) : Last(g) = t[2]}) > 1}
Firsts(refs, f) ==
  {first \in [Twins(refs, f) -> Below(refs, f)] :
     \A t \in Twins(refs, f) :
       first[t] \in FoldersIn(refs, t[1]) /\ Last(first[t]) = t[2]}

(* deepCopyHierarchicalLayer: each folder with its copy.  createFolder     *)
(* returns nothing for a folder that exists, so the contents of the second *)
(* of two subfolders with one name are copied nowhere.                     *)
CopiedFolders(refs, e, first) ==
  LET CopiedIn(f) == {c \in FoldersIn(refs, f) :
                        <<f, Last(c)>> \in DOMAIN first
                          => first[<<f, Last(c)>>] = c}
      Copied[n \in Nat] ==
        IF n = 0 THEN {[from |-> e.source, to |-> Target(e)]}
        ELSE Copied[n - 1] \cup UNION {
               {[from |-> c, to |-> Append(pair.to, Last(c))] :
                  c \in CopiedIn(pair.from)} : pair \in Copied[n - 1]}
  IN  Copied[Cardinality({r[1] : r \in refs})]

CopiedVariables(refs, copied) ==
  UNION {{[id |-> Append(pair.to, Last(v)), in |-> pair.to,
           source |-> variables[v]] :
            v \in {w \in VariablesIn(refs, pair.from) : ~IsMethod(w)}}
         : pair \in copied}

(* The walk meets the copy it makes, or goes round in a circle of links.   *)
IsEndless(refs, e) ==
  \/ Target(e) \in Below(refs, e.source)
  \/ \E f \in {e.source} \cup Below(refs, e.source) : f \in Below(refs, f)

-----------------------------------------------------------------------------
AbortForHistory(e) ==
  /\ mappingExceptions /\ HistoryRefused(e)
  /\ Raise
  /\ UNCHANGED <<nodeVars, historyfolders>>

(* Nothing to create; of a wrong history attribute only a message is left. *)
SkipFolder(e) ==
  /\ \/ FolderRefused(e) /\ Raise
     \/ /\ e.name = "" \/ OnlyDescribes(e)
        /\ ~FolderRefused(e) /\ FolderDone(e)
  /\ UNCHANGED nodeVars

RefuseSource(e) ==
  /\ SourceMissing(e) /\ Raise
  /\ folders' = WithFolders(e.destination)
  /\ references' = references \cup WayReferences(e.destination)
  /\ UNCHANGED <<variables, additionalVariables>>

CreateFolder(e) ==
  /\ e.source = Root /\ FolderDone(e)
  /\ folders' = WithFolders(Target(e))
  /\ references' = references \cup WayReferences(Target(e))
  /\ UNCHANGED <<variables, additionalVariables>>

LinkFolder(e) ==
  /\ e.source # Root /\ ~SourceMissing(e) /\ e.copy # "TRUE" /\ FolderDone(e)
  /\ folders' = WithFolders(Target(e))
  /\ LET refs == references \cup WayReferences(Target(e))
     IN  \E links \in BrowsedLinks(refs, e, DOMAIN variables) :
           references' = refs \cup links
  /\ UNCHANGED <<variables, additionalVariables>>

(* Methods are not copied: with a method anywhere below the source, its    *)
(* subfolders and its own methods are linked beside the copies.            *)
CopyFolder(e) ==
  /\ e.source # Root /\ ~SourceMissing(e) /\ e.copy = "TRUE"
  /\ LET refs == references \cup WayReferences(Target(e))
     IN  /\ ~IsEndless(refs, e) /\ FolderDone(e)
         /\ \E first \in Firsts(refs, e.source),
               links \in IF FoundMethod(refs, e.source)
                         THEN BrowsedLinks(refs, e, {v \in DOMAIN variables :
                                                       IsMethod(v)})
                         ELSE {{}} :
              LET copied == CopiedFolders(refs, e, first)
                  new == {n \in CopiedVariables(refs, copied) :
                            n.id \notin DOMAIN variables}
              IN  /\ folders' = WithFolders(Target(e))
                                  \cup {pair.to : pair \in copied}
                  /\ variables' =
                       [x \in DOMAIN variables \cup {n.id : n \in new} |->
                          IF x \in DOMAIN variables THEN variables[x]
                          ELSE (CHOOSE n \in new : n.id = x).source]
                  /\ references' = refs
                       \cup {<<Front(pair.to), Folder(pair.to)>> : pair \in copied}
                       \cup {<<n.in, Variable(n.id)>> : n \in new} \cup links
  /\ UNCHANGED additionalVariables

CopyForever(e) ==
  /\ e.source # Root /\ ~SourceMissing(e) /\ e.copy = "TRUE"
  /\ IsEndless(references \cup WayReferences(Target(e)), e)
  /\ phase' = "endless"
  /\ UNCHANGED <<i, nodeVars, refused>>

CreatesFolder(e) ==
  /\ e.name # "" /\ Target(e) \notin folders /\ ~FolderRefused(e)

(* One <folder> entry.                                                     *)
MapFolder ==
  /\ phase = "folders" /\ i <= Len(file.folders)
  /\ LET e == file.folders[i]
     IN  \/ AbortForHistory(e)
         \/ /\ ~(mappingExceptions /\ HistoryRefused(e))
            /\ historyfolders' = historyfolders \cup FolderHistory(e)
            /\ \/ SkipFolder(e)
               \/ CreatesFolder(e) /\ RefuseSource(e)
               \/ CreatesFolder(e) /\ CreateFolder(e)
               \/ CreatesFolder(e) /\ LinkFolder(e)
               \/ CreatesFolder(e) /\ CopyFolder(e)
               \/ CreatesFolder(e) /\ CopyForever(e)
  /\ UNCHANGED <<fileVars, pending, unusedVariables, historyvariables>>

-----------------------------------------------------------------------------
(* explicitVarMapping.                                                     *)

(* With a history and no copy, a missing name is the source's whole name.  *)
NameOf(e) == IF e.name # "" THEN <<e.name>>
             ELSE IF e.history /\ e.copy # "TRUE" THEN e.source ELSE <<>>

(* Mutated form of the definition below. *)
VariableHistoryOfSource(e) ==
  IF e.history /\ e.source # Root THEN {e.source} ELSE {}

VariableHistory(e) ==
  IF e.history
  THEN (IF e.name # "" THEN {Append(e.destination, e.name)} ELSE {})
         \cup (IF e.source # Root /\ e.copy # "TRUE" THEN {e.source} ELSE {})
  ELSE {}

IsOwnPlace(e) == /\ e.destination # Root /\ NameOf(e) # <<>>
                 /\ e.destination \o NameOf(e) = e.source

(* An update of unit or description looks for its variable below the node  *)
(* of the folder's path without the suffix that ids of folders have: it    *)
(* never finds it.                                                         *)
UpdateRefused(e) == IsOwnPlace(e) /\ e.copy = "FALSE"

(* A link keeps the name of its source.                                    *)
Renames(e) == /\ e.copy # "TRUE" /\ e.source # Root /\ NameOf(e) # <<>>
              /\ NameOf(e) # <<Last(e.source)>>

(* Mutated form of the definition below. *)
VariableRefusedUnlessRenamed(e) ==
  \/ e.source = Root
  \/ UpdateRefused(e)
  \/ e.source \notin DOMAIN variables
  \/ IsOwnPlace(e) /\ e.copy = "TRUE"

VariableRefused(e) ==
  \/ e.source = Root
  \/ UpdateRefused(e)
  \/ e.source \notin DOMAIN variables
  \/ IsOwnPlace(e) /\ e.copy = "TRUE"
  \/ Renames(e) /\ ~e.history

RefuseVariable(e) == VariableRefused(e) /\ Raise /\ UNCHANGED nodeVars

KeepOnlyHistory(e) ==
  /\ ~VariableRefused(e) /\ Renames(e)
  /\ Advance /\ UNCHANGED nodeVars

LinkVariable(e) ==
  /\ ~VariableRefused(e) /\ ~Renames(e) /\ e.copy # "TRUE"
  /\ folders' = WithFolders(e.destination)
  /\ references' = references \cup WayReferences(e.destination)
                     \cup {<<e.destination, Variable(e.source)>>}
  /\ Advance /\ UNCHANGED <<variables, additionalVariables>>

CopyId(e) == e.destination \o (IF e.name = "" THEN e.source ELSE <<e.name>>)

(* Mutated form of the definition below. *)
IsTakenByFolder(id) == id \in folders

IsTaken(id) == id \in DOMAIN variables

(* The source may be a node that an earlier entry made; the manager throws *)
(* for a name it does not know, and nothing catches that.                  *)
CopyVariable(e) ==
  /\ ~VariableRefused(e) /\ e.copy = "TRUE"
  /\ folders' = WithFolders(e.destination)
  /\ IF e.source \notin PVs
     THEN /\ phase' = "aborted"
          /\ references' = references \cup WayReferences(e.destination)
          /\ UNCHANGED <<i, refused, variables>>
     ELSE IF IsTaken(CopyId(e))
     THEN /\ references' = references \cup WayReferences(e.destination)
          /\ Raise /\ UNCHANGED variables
     ELSE /\ variables' = WithVariable(CopyId(e), e.source)
          /\ references' = references \cup WayReferences(e.destination)
                             \cup {<<e.destination, Variable(CopyId(e))>>}
          /\ Advance
  /\ UNCHANGED additionalVariables

(* One <process_variable> entry.                                           *)
MapVariable ==
  /\ phase = "variables" /\ i <= Len(file.variables)
  /\ LET e == file.variables[i]
     IN  /\ historyvariables' = historyvariables \cup VariableHistory(e)
         /\ \/ RefuseVariable(e)
            \/ KeepOnlyHistory(e)
            \/ LinkVariable(e)
            \/ CopyVariable(e)
  /\ UNCHANGED <<fileVars, pending, unusedVariables, historyfolders>>

-----------------------------------------------------------------------------
(* addAdditionalVariables.  A process variable of the same name is looked  *)
(* for under an id that only one named <name>Value has.                    *)
MeetsVariable(e) ==
  \E v \in DOMAIN variables :
    Front(v) = e.destination /\ <<e.name, Last(v)>> \in Values

AddVariable ==
  /\ phase = "additional" /\ i <= Len(file.additional)
  /\ LET e == file.additional[i]
         id == Append(e.destination, e.name)
     IN  IF e.name = "" \/ id \in additionalVariables \/ MeetsVariable(e)
         THEN Raise /\ UNCHANGED nodeVars
         ELSE /\ additionalVariables' = additionalVariables \cup {id}
              /\ folders' = WithFolders(e.destination)
              /\ references' = references \cup WayReferences(e.destination)
                                 \cup {<<e.destination, Additional(id)>>}
              /\ Advance /\ UNCHANGED variables
  /\ UNCHANGED <<fileVars, pending, unusedVariables, historyVars>>

Next == MapImplicit \/ MapFolder \/ MapVariable \/ AddVariable \/ EndPhase

Spec == Init /\ [][Next]_vars

(* getAllNotMappableVariablesNames: the names the constructor warns about. *)
NotMappable ==
  {p \in MappedSources : /\ p \notin Range(variables)
                         /\ p \notin historyvariables}

-----------------------------------------------------------------------------
(* Properties.                                                             *)

Nodes == {Folder(f) : f \in folders} \cup {Variable(v) : v \in DOMAIN variables}
           \cup {Additional(v) : v \in additionalVariables}

(* Every node can be browsed: what is referenced is there, and what is     *)
(* there is referenced from a folder whose own path is shorter             *)
(* (createUAFolder, mapSelfToNamespace, mapVoidInput): a node that only    *)
(* pointed to itself or to what hangs below it could not be found.         *)
NodesBrowsable ==
  /\ references \subseteq (folders \cup {Root}) \X Nodes
  /\ \A n \in Nodes : \E f \in folders \cup {Root} :
       Len(f) < Len(n.path) /\ <<f, n>> \in references

(* A variable the application is told not to send is shown by no node,     *)
(* whatever the entries link and copy: its clients would read an old value *)
(* for ever (unusedVariables in csa_opcua_adapter, optimiseUnmapped...).   *)
UnusedIsUnmapped == Range(variables) \cap unusedVariables = {}

(* The exclusion by pattern and the explicit mapping agree: when the       *)
(* entries are worked off, every variable one of them names as its source  *)
(* is there, and none that the manager knows is reported as not mappable.  *)
KnownVariablesAreMapped ==
  /\ phase = "variables" =>
       \A p \in MappedSources \cap PVs : IsMappable(p) => p \in DOMAIN variables
  /\ phase = "mapped" => \A p \in NotMappable \cap PVs : ~IsMappable(p)

(* An id that clients may have stored goes on standing for the same        *)
(* process variable, whatever is mapped to its place later.                *)
IdsKeepTheirSource ==
  [][\A v \in DOMAIN variables :
       v \in DOMAIN variables' /\ variables'[v] = variables[v]]_vars

(* What a client finds below a folder in so many steps: the names on the   *)
(* way and the process variable.                                           *)
Shown(refs, map, f, steps) ==
  LET Ways[n \in 0..steps] ==
        IF n = 0 THEN {<<f, <<>>>>}
        ELSE UNION {{<<c, Append(w[2], Last(c))>> : c \in FoldersIn(refs, w[1])}
                    : w \in Ways[n - 1]}
  IN  UNION {UNION {{<<Append(w[2], Last(v)), map[v]>> :
                       v \in VariablesIn(refs, w[1])} : w \in Ways[n]}
             : n \in 0..steps}

(* Does a link reach everything: a folder that shows more than one browse  *)
(* returns is linked in part, without an error.  A copy is only concerned  *)
(* where methods have it linked as well; its own walk has no limit.        *)
LinksReachAll(refs, e) ==
  \/ e.copy = "TRUE" /\ ~FoundMethod(refs, e.source)
  \/ /\ Cardinality(FoldersIn(refs, e.source)) <= MaxReferences
     /\ Cardinality(VariablesIn(refs, e.source)) <= MaxReferences

(* A folder entry with a source makes all of it visible at the new place,  *)
(* each variable and method on its old way, whether nodes are linked,      *)
(* copied or, where methods forbid the copy, both (buildFolderStructure).  *)
(* It is not so below subfolders that have the same name, and not for a    *)
(* folder that shows more than one browse returns.                         *)
WholeFolderVisible ==
  [][phase = "folders" /\ phase' = phase /\ i' > i =>
       LET e == file.folders[i]
       IN  e.source # Root /\ <<phase, i>> \notin refused'
             /\ e.name # "" /\ Twins(references, e.source) = {}
             /\ LinksReachAll(references \cup WayReferences(Target(e)), e)
           => Shown(references, variables, e.source, 3)
                \subseteq Shown(references', variables', Target(e), 3)]_vars

(* Is the entry carried out: the copy stands for its source, or the        *)
(* source's own node is in the folder of the destination.                  *)
InPlace(e) ==
  IF e.copy = "TRUE"
  THEN CopyId(e) \in DOMAIN variables /\ variables[CopyId(e)] = e.source
  ELSE <<e.destination, Variable(e.source)>> \in references

(* Of no entry is the failure silent: it is in place at the end, or an     *)
(* error was raised for it, or it only assigns a history.                  *)
MappedOrReported ==
  phase = "mapped" =>
    \A k \in DOMAIN file.variables :
      LET e == file.variables[k]
      IN  <<"variables", k>> \in refused \/ InPlace(e) \/ (e.history /\ Renames(e))

(* The ids that are kept for the history name what the entry made: the     *)
(* strings are put together before the node is, in another place of the    *)
(* code, and by other rules.                                               *)
HistoryReachesNode ==
  phase = "mapped" =>
    /\ \A k \in DOMAIN file.variables :
         LET e == file.variables[k]
         IN  e.history /\ <<"variables", k>> \notin refused /\ e.name # ""
             => IF e.copy = "TRUE"
                THEN /\ CopyId(e) \in historyvariables \cap DOMAIN variables
                     /\ variables[CopyId(e)] = e.source
                ELSE e.source \in historyvariables \cap DOMAIN variables
    /\ \A k \in DOMAIN file.folders :
         LET e == file.folders[k]
         IN  e.history /\ <<"folders", k>> \notin refused /\ e.name # ""
             => Target(e) \in historyfolders \cap folders
=============================================================================
