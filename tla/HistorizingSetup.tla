-------------------------- MODULE HistorizingSetup --------------------------
(***************************************************************************)
(* Which variables are historized, and with which setup.  The mapping file *)
(* defines setups by name and assigns them to variables and to folders.    *)
(* readConfig collects the setups; when the server thread starts, the      *)
(* nodes and the names of their setups are put in two vectors that the     *)
(* code keeps parallel by hand, duplicates and nodes without a setup are   *)
(* removed, and what is left is registered with the gathering.             *)
(***************************************************************************)
EXTENDS Integers, SequencesExt

CONSTANTS
  Nodes, Folders,  \* node ids of variables and of folders
  Mapped,          \* those that exist in the server
  Contents,        \* what a folder organizes: variables and folders
  SetupLists, VariableLists, FolderLists  \* what a mapping file may say

(* A <setup>: its name, whether it uses InfluxDB, whether its other        *)
(* parameters are there.                                                   *)
Setup == [name : STRING, influx : BOOLEAN, complete : BOOLEAN]

ASSUME HistorizingAssumption ==
  /\ Mapped \subseteq Nodes \cup Folders /\ Nodes \cap Folders = {}
  /\ Contents \in [Folders -> Seq(Nodes \cup Folders)]
  /\ SetupLists \subseteq Seq(Setup)
  /\ VariableLists \subseteq Seq([id : Nodes, setup : STRING])
  /\ FolderLists \subseteq Seq([id : Folders, setup : STRING])

(* No folder is below itself: the walk below a folder would not end.       *)
ASSUME FoldersNest ==
  /\ IsFiniteSet(Folders)
  /\ \E level \in [Folders -> 0..Cardinality(Folders)] :
       \A f \in Folders : \A k \in DOMAIN Contents[f] :
         Contents[f][k] \in Folders => level[Contents[f][k]] < level[f]

VARIABLES
  setupList, historyvariables, historyfolders,  \* the mapping file
  mappingExceptions,  \* is an error in the mapping file fatal
  influxLoads,        \* can influx_config.xml be loaded
  history,            \* the setups accepted so far
  influxClient,       \* is there an Influx client
  phase,              \* the function that runs
  i, repeat,          \* its loop index and its flag
  historizing_nodes, historizing_setup,  \* the two vectors
  historizing,        \* nodes with the attributes Historizing and HistoryRead
  gathering,          \* nodes registered and the setups they have
  polled,             \* nodes the gathering polls
  leaked              \* ghost: backends made for nodes not registered

fileVars == <<setupList, historyvariables, historyfolders, mappingExceptions,
              influxLoads>>
configVars == <<history, influxClient>>
listVars == <<historizing_nodes, historizing_setup>>
gatheringVars == <<historizing, gathering, polled, leaked>>
vars == <<fileVars, configVars, phase, i, repeat, listVars, gatheringVars>>

Init ==
  /\ setupList \in SetupLists
  /\ historyvariables \in VariableLists /\ historyfolders \in FolderLists
  /\ mappingExceptions \in BOOLEAN /\ influxLoads \in BOOLEAN
  /\ history = <<>> /\ influxClient = FALSE
  /\ phase = "readConfig" /\ i = 1 /\ repeat = FALSE
  /\ historizing_nodes = <<>> /\ historizing_setup = <<>>
  /\ historizing = {} /\ gathering = <<>> /\ polled = {} /\ leaked = 0

IsDefined(name) == \E k \in DOMAIN history : history[k].name = name

-----------------------------------------------------------------------------

IsIncomplete(e) == ~e.complete \/ (e.influx /\ ~influxLoads)

(* readConfig comes to a <setup>.  The client is made before anything else *)
(* is known to be wrong with the setup; an incomplete or second definition *)
(* of a name is an error, which ends the program if errors are fatal.      *)
ReadSetup ==
  /\ phase = "readConfig" /\ i <= Len(setupList)
  /\ LET e == setupList[i]
         refused == IsIncomplete(e) \/ IsDefined(e.name)
     IN  /\ influxClient' = (influxClient \/ (e.influx /\ influxLoads))
         /\ history' = IF refused THEN history ELSE Append(history, e)
         /\ phase' = IF mappingExceptions /\ refused THEN "aborted"
                     ELSE phase
  /\ i' = i + 1
  /\ UNCHANGED <<fileVars, repeat, listVars, gatheringVars>>

IsVariable(child) == child \in Nodes

(* get_child_variables: the variables of nested folders and of the folder, *)
(* in the order of the references.                                         *)
Below[f \in Folders] ==
  FlattenSeq([k \in DOMAIN Contents[f] |->
    LET child == Contents[f][k]
    IN  (IF child \in Folders THEN Below[child] ELSE <<>>)
        \o (IF IsVariable(child) THEN <<child>> ELSE <<>>)])

StartCollecting ==
  /\ phase = "readConfig" /\ i > Len(setupList)
  /\ phase' = "collect" /\ i' = 1
  /\ UNCHANGED <<fileVars, configVars, repeat, listVars, gatheringVars>>

(* Mutated form of the definition below. *)
EntriesFoldersFirst == historyfolders \o historyvariables

(* add_variable_historizing goes first, then add_folder_historizing.       *)
Entries == historyvariables \o historyfolders

(* What one entry names; what is not in the server is passed over.         *)
Named(entry) ==
  IF entry.id \notin Mapped THEN <<>>
  ELSE IF entry.id \in Folders THEN Below[entry.id] ELSE <<entry.id>>

(* One turn of the loop of either.                                         *)
CollectEntry ==
  /\ phase = "collect" /\ i <= Len(Entries)
  /\ LET entry == Entries[i]
     IN  /\ historizing_nodes' = historizing_nodes \o Named(entry)
         /\ historizing_setup' =
              historizing_setup \o [n \in DOMAIN Named(entry) |-> entry.setup]
  /\ i' = i + 1
  /\ UNCHANGED <<fileVars, configVars, phase, repeat, gatheringVars>>

StartChecking ==
  /\ phase = "collect" /\ i > Len(Entries)
  /\ phase' = "check" /\ i' = 1
  /\ UNCHANGED <<fileVars, configVars, repeat, listVars, gatheringVars>>

(* Mutated forms of the definitions below. *)
DuplicatesNextOnly(k) ==
  {j \in {k + 1} \cap DOMAIN historizing_nodes :
     historizing_nodes[j] = historizing_nodes[k]}
CheckAgainWithoutReset ==
  /\ phase = "check" /\ i > Len(historizing_nodes)
  /\ phase' = IF repeat THEN "check" ELSE "remove"
  /\ i' = 1
  /\ UNCHANGED <<fileVars, configVars, repeat, listVars, gatheringVars>>

(* check_historizing_nodes, one turn of the loop over i: the first later   *)
(* mention of the node is erased from both vectors.                        *)
Duplicates(k) == {j \in (k + 1)..Len(historizing_nodes) :
                    historizing_nodes[j] = historizing_nodes[k]}

Erase(k) ==
  /\ historizing_nodes' = RemoveAt(historizing_nodes, k)
  /\ historizing_setup' = RemoveAt(historizing_setup, k)

CheckNode ==
  /\ phase = "check" /\ i <= Len(historizing_nodes)
  /\ IF Duplicates(i) = {}
     THEN UNCHANGED <<historizing_nodes, historizing_setup, repeat>>
     ELSE Erase(Min(Duplicates(i))) /\ repeat' = TRUE
  /\ i' = i + 1
  /\ UNCHANGED <<fileVars, configVars, phase, gatheringVars>>

(* The end of a pass: another one if it erased something.                  *)
CheckAgain ==
  /\ phase = "check" /\ i > Len(historizing_nodes)
  /\ phase' = IF repeat THEN "check" ELSE "remove"
  /\ i' = 1 /\ repeat' = FALSE
  /\ UNCHANGED <<fileVars, configVars, listVars, gatheringVars>>

(* remove_nodes_with_incomplete_historizing_setup: each pass goes on where *)
(* the last one removed a node.                                            *)
Incomplete == {k \in i..Len(historizing_nodes) :
                 ~IsDefined(historizing_setup[k])}

RemoveNode ==
  /\ phase = "remove" /\ Incomplete # {}
  /\ Erase(Min(Incomplete)) /\ i' = Min(Incomplete)
  /\ UNCHANGED <<fileVars, configVars, phase, repeat, gatheringVars>>

StartRegistering ==
  /\ phase = "remove" /\ Incomplete = {}
  /\ phase' = "register" /\ i' = 1
  /\ UNCHANGED <<fileVars, configVars, repeat, listVars, gatheringVars>>

(* The setup a name stands for: the last entry with the name, or what an   *)
(* AdapterHistorySetup is when nothing is assigned to it.                  *)
DefaultSetup == [name |-> "", influx |-> FALSE, complete |-> TRUE]
SetupOf(name) ==
  IF IsDefined(name)
  THEN history[Max({k \in DOMAIN history : history[k].name = name})]
  ELSE DefaultSetup

(* The gathering of open62541 has room for as many nodes as there were     *)
(* when it was made and takes each node once.                              *)
Registers(node) ==
  /\ Len(gathering) < Len(historizing_nodes)
  /\ \A k \in DOMAIN gathering : gathering[k].node # node

(* add_historizing_nodes, one turn of its loop.  A failed registration is  *)
(* logged; nothing is polled then and the new backend is lost.             *)
RegisterNode ==
  /\ phase = "register" /\ i <= Len(historizing_nodes)
  /\ LET node == historizing_nodes[i]
     IN  /\ historizing' = historizing \cup {node}
         /\ IF Registers(node)
            THEN /\ gathering' = Append(gathering,
                      [node |-> node, setup |-> SetupOf(historizing_setup[i])])
                 /\ polled' = polled \cup {node}
                 /\ UNCHANGED leaked
            ELSE leaked' = leaked + 1 /\ UNCHANGED <<gathering, polled>>
  /\ i' = i + 1
  /\ UNCHANGED <<fileVars, configVars, phase, repeat, listVars>>

Run ==
  /\ phase = "register" /\ i > Len(historizing_nodes)
  /\ phase' = "running"
  /\ UNCHANGED <<fileVars, configVars, i, repeat, listVars, gatheringVars>>

ClearedNodes == Range(historizing_nodes)

(* clear_history, when the server has shut down.  The backends go with     *)
(* their nodes.                                                            *)
ClearHistory ==
  /\ phase = "running"
  /\ polled' = polled \ ClearedNodes
  /\ gathering' = SelectSeq(gathering, LAMBDA entry :
                              entry.node \notin ClearedNodes)
  /\ historizing_setup' = <<>>
  /\ phase' = "cleared"
  /\ UNCHANGED <<fileVars, configVars, i, repeat, historizing_nodes,
                 historizing, leaked>>

Ended == phase \in {"aborted", "cleared"} /\ UNCHANGED vars

Next == \/ ReadSetup \/ StartCollecting \/ CollectEntry \/ StartChecking
        \/ CheckNode \/ CheckAgain \/ RemoveNode \/ StartRegistering
        \/ RegisterNode \/ Run \/ ClearHistory \/ Ended

Spec == Init /\ [][Next]_vars

(* The functions run on one thread without waiting for anything; the       *)
(* server is shut down at some time.                                       *)
FairSpec == Spec /\ WF_vars(Next)

-----------------------------------------------------------------------------
(* Properties.                                                             *)

(* What the mapping file says of nodes, the preferred first: "The first    *)
(* folder/process_variable setting in the mapping file is considered";     *)
(* "process_variable settings are preferred over folder settings"          *)
(* (node_historizing.cpp:144).                                             *)
Stated == historyvariables \o historyfolders

Reaches(entry, node) ==
  /\ entry.id \in Mapped
  /\ entry.id = node \/ (entry.id \in Folders /\ node \in Range(Below[entry.id]))

Settings(node) == {k \in DOMAIN Stated : Reaches(Stated[k], node)}
Considered(node) == Stated[Min(Settings(node))].setup

(* The definition of a setup: the first complete one with its name.        *)
Definitions(name) ==
  {k \in DOMAIN setupList : /\ setupList[k].name = name
                            /\ setupList[k].complete
                            /\ setupList[k].influx => influxLoads}
Definition(name) == setupList[Min(Definitions(name))]

(* When the server runs, a node is registered exactly once with the        *)
(* definition of its first setting's setup, and not at all if it has no    *)
(* setting or its first setting names a setup that is not defined.         *)
FirstSettingIsUsed ==
  phase = "running" => \A node \in Nodes :
    LET registered == {k \in DOMAIN gathering : gathering[k].node = node}
    IN  IF Settings(node) = {} \/ Definitions(Considered(node)) = {}
        THEN registered = {}
        ELSE \E k \in registered :
               /\ registered = {k}
               /\ gathering[k].setup = Definition(Considered(node))

(* A node shown as historized is polled: no registration fails because a   *)
(* node is there twice, and no backend is lost.                            *)
HistorizedIsPolled ==
  phase = "running" =>
    historizing = polled /\ polled = {g.node : g \in Range(gathering)}
    /\ leaked = 0

(* The passes that repeat until nothing is left to erase come to an end.   *)
SetupEnds == <>(phase \in {"aborted", "running"})

=============================================================================
