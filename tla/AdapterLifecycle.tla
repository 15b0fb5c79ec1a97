-------------------------- MODULE AdapterLifecycle ---------------------------
(***************************************************************************)
(* The threads of csa_opcua_adapter: its owner, who calls start, stop and  *)
(* the destructor; the adapter thread, which runs ua_uaadapter's           *)
(* workerThread; and the detached void observer thread, which turns        *)
(* updates of Void process variables into OPC UA events.  They share the   *)
(* OPC UA server and the flags running and workerFinished.                 *)
(***************************************************************************)
EXTENDS Naturals

CONSTANTS MaxStarts,   \* bound: calls of start
          MaxUpdates   \* bound: updates of Void variables not yet read

ASSUME LifecycleAssumption == MaxStarts \in Nat /\ MaxUpdates \in Nat \ {0}

(* What the mapping file and the application decide before the start: are  *)
(* there Void variables to observe, is the Influx client's health to be    *)
(* monitored, is the server to register with a discovery server.           *)
Setups == [voids : BOOLEAN, health : BOOLEAN, registerLDS : BOOLEAN]

VARIABLES
  config,          \* a member of Setups
  owner,           \* where the owner of the csa_opcua_adapter is
  destroying,      \* is it in the destructor
  adapterThread,   \* where the adapter thread is, "none" if not joinable
  running,         \* ua_uaadapter::running
  workerFinished,
  server,          \* the state of the OPC UA server
  healthNodes,     \* the server has the InfluxHealth object
  healthCallback,  \* healthNodesAdded_: the repeated callback is registered
  voidEventType,   \* the server has the VoidEventType
  observer,        \* where the void observer thread is
  updates,         \* updates of Void variables the observer has not read
  (* Only observed. *)
  starts,          \* calls of start
  lateEvents       \* events the observer took up after workerFinished

ownerVars == <<owner, destroying, starts>>
adapterVars == <<adapterThread, running, server, healthNodes, healthCallback>>
observerVars == <<observer, updates, lateEvents>>
lifecycleVars == <<config, ownerVars, adapterVars, workerFinished,
                   voidEventType, observerVars>>

LifecycleInit ==
  /\ config \in Setups
  /\ owner = "idle" /\ destroying = FALSE /\ starts = 0
  /\ adapterThread = "none" /\ running = FALSE /\ workerFinished = FALSE
  /\ server = "created" /\ healthNodes = FALSE /\ healthCallback = FALSE
  /\ voidEventType = FALSE
  /\ observer = "none" /\ updates = 0 /\ lateEvents = 0

(* An exception nobody catches has left a thread: std::terminate has ended *)
(* the program, with all its threads.                                      *)
Terminated == observer = "terminated"

-----------------------------------------------------------------------------
(***************************************************************************)
(* The owner.                                                              *)
(***************************************************************************)

(* start: a new adapter thread, unless there is one.                       *)
Start ==
  /\ ~Terminated
  /\ owner = "idle" /\ server # "deleted"
  /\ starts < MaxStarts
  /\ starts' = starts + 1
  /\ adapterThread' = IF adapterThread = "none" THEN "history"
                                                ELSE adapterThread
  /\ owner' = IF config.voids THEN "addType" ELSE "idle"
  /\ UNCHANGED <<config, destroying, running, server, healthNodes,
                 healthCallback, workerFinished, voidEventType, observerVars>>

(* start goes on while the adapter thread runs: add_void_event_type throws *)
(* if the server has the type already, which ends the call.                *)
AddVoidEventType ==
  /\ owner = "addType"
  /\ owner' = IF voidEventType THEN "idle" ELSE "observe"
  /\ voidEventType' = TRUE
  /\ UNCHANGED <<config, destroying, starts, adapterVars, workerFinished,
                 observerVars>>

StartVoidObserver ==
  /\ owner = "observe"
  /\ observer' = "test"
  /\ owner' = "idle"
  /\ UNCHANGED <<config, destroying, starts, adapterVars, workerFinished,
                 voidEventType, updates, lateEvents>>

(* stop: the test of joinable and running = false.  The destructor calls   *)
(* stop too.  The observer thread was detached: it is never joined.        *)
StopOrDestroy(inDestructor) ==
  /\ ~Terminated
  /\ owner = "idle" /\ server # "deleted"
  /\ destroying' = inDestructor
  /\ \/ /\ adapterThread # "none"
        /\ running' = FALSE
        /\ owner' = "join"
     \/ /\ adapterThread = "none"
        /\ owner' = IF inDestructor THEN "delete" ELSE "idle"
        /\ UNCHANGED running
  /\ UNCHANGED <<config, starts, adapterThread, server, healthNodes,
                 healthCallback, workerFinished, voidEventType, observerVars>>

(* Mutated form of the definition below: a stop that does not wait. *)
JoinAdapterThreadAtOnce ==
  /\ owner = "join"
  /\ owner' = "finish"
  /\ UNCHANGED <<config, destroying, starts, adapterVars, workerFinished,
                 voidEventType, observerVars>>

JoinAdapterThread ==
  /\ owner = "join"
  /\ adapterThread = "ended"
  /\ adapterThread' = "none"
  /\ owner' = "finish"
  /\ UNCHANGED <<config, destroying, starts, running, server, healthNodes,
                 healthCallback, workerFinished, voidEventType, observerVars>>

SetWorkerFinished ==
  /\ owner = "finish"
  /\ workerFinished' = TRUE
  /\ owner' = IF destroying THEN "delete" ELSE "idle"
  /\ UNCHANGED <<config, destroying, starts, adapterVars, voidEventType,
                 observerVars>>

(* The members are destroyed: ~ua_uaadapter deletes the server.            *)
DeleteServer ==
  /\ owner = "delete"
  /\ server' = "deleted"
  /\ owner' = "gone"
  /\ UNCHANGED <<config, destroying, starts, adapterThread, running,
                 healthNodes, healthCallback, workerFinished, voidEventType,
                 observerVars>>

(* The steps that finish a call the owner has begun. *)
OwnerGoesOn ==
  /\ ~Terminated
  /\ \/ AddVoidEventType \/ StartVoidObserver
     \/ JoinAdapterThread \/ SetWorkerFinished \/ DeleteServer

-----------------------------------------------------------------------------
(***************************************************************************)
(* The adapter thread: ua_uaadapter::workerThread.                         *)
(***************************************************************************)
AddHistorizingNodes ==
  /\ adapterThread = "history"
  /\ adapterThread' = "health"
  /\ UNCHANGED <<config, ownerVars, running, server, healthNodes,
                 healthCallback, workerFinished, voidEventType, observerVars>>

(* addHealthMonitoringNodes: it returns early, without the callback, if    *)
(* the InfluxHealth object exists.                                         *)
AddHealthMonitoringNodes ==
  /\ adapterThread = "health"
  /\ healthNodes' = (healthNodes \/ config.health)
  /\ healthCallback' = (healthCallback \/ (config.health /\ ~healthNodes))
  /\ adapterThread' = "startup"
  /\ UNCHANGED <<config, ownerVars, running, server, workerFinished,
                 voidEventType, observerVars>>

RunStartup ==
  /\ adapterThread = "startup"
  /\ server' = "started"
  /\ adapterThread' = "enable"
  /\ UNCHANGED <<config, ownerVars, running, healthNodes, healthCallback,
                 workerFinished, voidEventType, observerVars>>

SetRunning ==
  /\ adapterThread = "enable"
  /\ running' = TRUE
  /\ adapterThread' = "test"
  /\ UNCHANGED <<config, ownerVars, server, healthNodes, healthCallback,
                 workerFinished, voidEventType, observerVars>>

(* Mutated form: a loop without condition. *)
KeepsIteratingForever == TRUE

(* The condition of the loop. *)
KeepsIterating == running

TestRunning ==
  /\ adapterThread = "test"
  /\ adapterThread' = IF KeepsIterating THEN "iterate" ELSE "unhook"
  /\ UNCHANGED <<config, ownerVars, running, server, healthNodes,
                 healthCallback, workerFinished, voidEventType, observerVars>>

(* One iteration, with its registration: updateInfluxHealth may run and    *)
(* remove its own callback.                                                *)
RunIterate ==
  /\ adapterThread = "iterate"
  /\ healthCallback' \in {healthCallback, FALSE}
  /\ adapterThread' = "test"
  /\ UNCHANGED <<config, ownerVars, running, server, healthNodes,
                 workerFinished, voidEventType, observerVars>>

(* Mutated form: the callback outlives the loop. *)
KeepHealthNodesCallback ==
  /\ adapterThread = "unhook"
  /\ adapterThread' = IF config.registerLDS THEN "deregister" ELSE "shutdown"
  /\ UNCHANGED <<config, ownerVars, running, server, healthNodes,
                 healthCallback, workerFinished, voidEventType, observerVars>>

RemoveHealthNodesCallback ==
  /\ adapterThread = "unhook"
  /\ healthCallback' = FALSE
  /\ adapterThread' = IF config.registerLDS THEN "deregister" ELSE "shutdown"
  /\ UNCHANGED <<config, ownerVars, running, server, healthNodes,
                 workerFinished, voidEventType, observerVars>>

(* The deregistration, which iterates the server for two more seconds.     *)
DeregisterDiscovery ==
  /\ adapterThread = "deregister"
  /\ adapterThread' = "shutdown"
  /\ UNCHANGED <<config, ownerVars, running, server, healthNodes,
                 healthCallback, workerFinished, voidEventType, observerVars>>

RunShutdown ==
  /\ adapterThread = "shutdown"
  /\ server' = "shutdown"
  /\ adapterThread' = "clear"
  /\ UNCHANGED <<config, ownerVars, running, healthNodes, healthCallback,
                 workerFinished, voidEventType, observerVars>>

ClearHistory ==
  /\ adapterThread = "clear"
  /\ adapterThread' = "ended"
  /\ UNCHANGED <<config, ownerVars, running, server, healthNodes,
                 healthCallback, workerFinished, voidEventType, observerVars>>

AdapterThread ==
  /\ ~Terminated
  /\ \/ AddHistorizingNodes \/ AddHealthMonitoringNodes \/ RunStartup
     \/ SetRunning \/ TestRunning \/ RunIterate
     \/ RemoveHealthNodesCallback \/ DeregisterDiscovery
     \/ RunShutdown \/ ClearHistory

-----------------------------------------------------------------------------
(***************************************************************************)
(* The void observer thread: updateLoop.                                   *)
(***************************************************************************)

(* The application's threads update Void variables at any time. *)
UpdateVoid ==
  /\ ~Terminated
  /\ config.voids
  /\ updates < MaxUpdates
  /\ updates' = updates + 1
  /\ UNCHANGED <<config, ownerVars, adapterVars, workerFinished,
                 voidEventType, observer, lateEvents>>

(* Mutated form of the definition below: a loop without condition. *)
ObserverReadsOn ==
  /\ observer = "test"
  /\ observer' = "read"
  /\ UNCHANGED <<config, ownerVars, adapterVars, workerFinished,
                 voidEventType, updates, lateEvents>>

TestWorkerFinished ==
  /\ observer = "test"
  /\ observer' = IF workerFinished THEN "ended" ELSE "read"
  /\ UNCHANGED <<config, ownerVars, adapterVars, workerFinished,
                 voidEventType, updates, lateEvents>>

(* readAny blocks until a variable is updated. *)
ReadAny ==
  /\ observer = "read"
  /\ updates > 0
  /\ updates' = updates - 1
  /\ observer' = "fire"
  /\ lateEvents' = IF workerFinished THEN lateEvents + 1 ELSE lateEvents
  /\ UNCHANGED <<config, ownerVars, adapterVars, workerFinished,
                 voidEventType>>

(* fireVoidEvent on a server that exists; what it does to a deleted one is *)
(* undefined, and the thread is taken to stay where it is.                 *)
FireVoidEvent ==
  /\ observer = "fire"
  /\ server # "deleted"
  /\ observer' = "test"
  /\ UNCHANGED <<config, ownerVars, adapterVars, workerFinished,
                 voidEventType, updates, lateEvents>>

(* A field or the event cannot be created: fireVoidEvent throws a          *)
(* std::logic_error, updateLoop catches only the interruption of a thread, *)
(* and the exception leaves the thread.                                    *)
FireVoidEventThrows ==
  /\ observer = "fire"
  /\ server # "deleted"
  /\ observer' = "terminated"
  /\ UNCHANGED <<config, ownerVars, adapterVars, workerFinished,
                 voidEventType, updates, lateEvents>>

VoidObserver ==
  TestWorkerFinished \/ ReadAny \/ FireVoidEvent \/ FireVoidEventThrows

-----------------------------------------------------------------------------
(* Nobody calls the adapter any more once it is destroyed or the program   *)
(* terminated.                                                             *)
OwnerGone == (owner = "gone" \/ Terminated) /\ UNCHANGED lifecycleVars

LifecycleNext ==
  \/ Start \/ StopOrDestroy(FALSE) \/ StopOrDestroy(TRUE) \/ OwnerGoesOn
  \/ AdapterThread
  \/ UpdateVoid \/ VoidObserver
  \/ OwnerGone

LifecycleSpec == LifecycleInit /\ [][LifecycleNext]_lifecycleVars

(* The threads run on whenever they can, and a call of the owner that has  *)
(* begun goes on.  Nothing forces a call or an update to happen.           *)
LifecycleFairSpec ==
  /\ LifecycleSpec
  /\ WF_lifecycleVars(OwnerGoesOn)
  /\ WF_lifecycleVars(AdapterThread)
  /\ WF_lifecycleVars(VoidObserver)

-----------------------------------------------------------------------------
(***************************************************************************)
(* Properties.                                                             *)
(***************************************************************************)
LoopStates == {"test", "iterate"}
AdapterThreadStates ==
  LoopStates \cup {"none", "history", "health", "startup", "enable",
                   "unhook", "deregister", "shutdown", "clear", "ended"}

(* The types of the variables. *)
LifecycleTypeOK ==
  /\ config \in Setups
  /\ owner \in {"idle", "addType", "observe", "join", "finish", "delete",
                "gone"}
  /\ destroying \in BOOLEAN
  /\ adapterThread \in AdapterThreadStates
  /\ running \in BOOLEAN /\ workerFinished \in BOOLEAN
  /\ server \in {"created", "started", "shutdown", "deleted"}
  /\ healthNodes \in BOOLEAN /\ healthCallback \in BOOLEAN
  /\ voidEventType \in BOOLEAN
  /\ observer \in {"none", "test", "read", "fire", "ended", "terminated"}
  /\ updates \in 0 .. MaxUpdates
  /\ starts \in 0 .. MaxStarts /\ lateEvents \in Nat

(* Whatever the order of start, stop and the destructor, the server is     *)
(* deleted only when no adapter thread is left, and iterated only between  *)
(* its startup and its shutdown.                                           *)
ServerOutlivesWorker ==
  /\ adapterThread # "none" => server # "deleted"
  /\ adapterThread \in LoopStates \cup {"enable", "unhook", "deregister",
                                        "shutdown"}
       => server = "started"

(* The server never holds the health callback, which uses the Influx       *)
(* client, while it shuts down or is deleted, also after several starts.   *)
CallbackEndsWithLoop ==
  healthCallback =>
    adapterThread \in LoopStates \cup {"startup", "enable", "unhook"}

(* After the adapter thread was joined the observer takes up at most one   *)
(* more update: the one readAny was waiting for.                           *)
AtMostOneLateEvent == lateEvents <= 1

(* What makes these invariants inductive: past the join the owner has no   *)
(* thread, only its last step deletes the server; there is one observer,   *)
(* which takes up nothing late until it has read with the flag set.        *)
OwnerHasNoThread ==
  /\ owner = "join" => adapterThread # "none"
  /\ owner \in {"finish", "delete", "gone"} => adapterThread = "none"
  /\ server = "deleted" => owner = "gone"

OneObserver ==
  /\ owner = "observe" => observer = "none"
  /\ observer # "none" \/ owner = "observe" => voidEventType

NothingLateYet ==
  ~workerFinished \/ observer \in {"none", "read"} => lateEvents = 0

LifecycleIInv ==
  /\ LifecycleTypeOK /\ ServerOutlivesWorker /\ CallbackEndsWithLoop
  /\ AtMostOneLateEvent
  /\ OwnerHasNoThread /\ OneObserver /\ NothingLateYet

(* A stop whose running = false meets the adapter thread in its loop, as   *)
(* when the caller waited for running first, returns, unless an event that *)
(* cannot be fired terminates the program before.                          *)
StopReturnsFromLoop ==
  owner = "join" /\ ~running /\ adapterThread \in LoopStates
    ~> owner # "join" \/ Terminated

=============================================================================
