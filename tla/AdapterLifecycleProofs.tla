----------------------- MODULE AdapterLifecycleProofs ------------------------
(***************************************************************************)
(* The safety of AdapterLifecycle for every number of starts and updates:  *)
(* LifecycleIInv holds initially and every step of the owner, the adapter  *)
(* thread and the observer preserves it.  Then the program that uses the   *)
(* adapter: every step of OpcUaApplication is one of AdapterLifecycle or   *)
(* leaves the adapter alone, so all of this holds for the program too, and *)
(* its end is clean.                                                       *)
(***************************************************************************)
EXTENDS OpcUaApplication, TLAPS

(* Every initial state satisfies the inductive invariant.                  *)
LEMMA InitLifecycle == LifecycleInit => LifecycleIInv
<1> SUFFICES ASSUME LifecycleInit PROVE LifecycleIInv
  OBVIOUS
<1> USE DEF LifecycleInit
<1>1. /\ destroying \in BOOLEAN /\ running \in BOOLEAN
      /\ workerFinished \in BOOLEAN /\ healthNodes \in BOOLEAN
      /\ healthCallback \in BOOLEAN /\ voidEventType \in BOOLEAN
  BY Zenon
<1>2. 0 \in 0 .. MaxUpdates /\ 0 \in 0 .. MaxStarts /\ 0 \in Nat
  BY LifecycleAssumption
<1>3. LifecycleTypeOK
  BY <1>1, <1>2, Zenon DEF LifecycleTypeOK, AdapterThreadStates, LoopStates
<1> QED
  BY <1>3 DEF LifecycleIInv, LoopStates, ServerOutlivesWorker,
              CallbackEndsWithLoop, AtMostOneLateEvent, OwnerHasNoThread,
              OneObserver, NothingLateYet

(* The steps of the owner - start, stop and the destructor - preserve the  *)
(* inductive invariant.                                                    *)
LEMMA OwnerPreserves ==
  ASSUME LifecycleIInv,
         \/ Start \/ OwnerGoesOn
         \/ StopOrDestroy(FALSE) \/ StopOrDestroy(TRUE)
  PROVE  LifecycleIInv'
<1> USE LifecycleAssumption
    DEF LifecycleIInv, LifecycleTypeOK, AdapterThreadStates, LoopStates,
        ServerOutlivesWorker, CallbackEndsWithLoop, AtMostOneLateEvent,
        OwnerHasNoThread, OneObserver, NothingLateYet,
        ownerVars, adapterVars, observerVars
<1>1. CASE Start
  BY <1>1 DEF Start
<1>2. CASE StopOrDestroy(FALSE) \/ StopOrDestroy(TRUE)
  <2>1. /\ destroying' \in BOOLEAN /\ running' \in BOOLEAN
    BY <1>2, Zenon DEF StopOrDestroy
  <2>2. /\ owner = "idle"
        /\ \/ adapterThread # "none" /\ owner' = "join"
           \/ adapterThread = "none" /\ owner' \in {"delete", "idle"}
        /\ UNCHANGED <<config, starts, adapterThread, server, healthNodes,
                       healthCallback, workerFinished, voidEventType,
                       observerVars>>
    BY <1>2, Zenon DEF StopOrDestroy
  <2> QED
    BY <2>1, <2>2
<1>3. CASE AddVoidEventType
  BY <1>3 DEF AddVoidEventType
<1>4. CASE StartVoidObserver
  BY <1>4 DEF StartVoidObserver
<1>5. CASE JoinAdapterThread
  BY <1>5 DEF JoinAdapterThread
<1>6. CASE SetWorkerFinished
  BY <1>6 DEF SetWorkerFinished
<1>7. CASE DeleteServer
  BY <1>7 DEF DeleteServer
<1> QED
  BY <1>1, <1>2, <1>3, <1>4, <1>5, <1>6, <1>7 DEF OwnerGoesOn

(* The steps of the adapter thread preserve the inductive invariant.       *)
LEMMA AdapterThreadPreserves ==
  ASSUME LifecycleIInv, AdapterThread
  PROVE  LifecycleIInv'
<1> USE LifecycleAssumption
    DEF LifecycleIInv, LifecycleTypeOK, AdapterThreadStates, LoopStates,
        ServerOutlivesWorker, CallbackEndsWithLoop, AtMostOneLateEvent,
        OwnerHasNoThread, OneObserver, NothingLateYet,
        ownerVars, adapterVars, observerVars
<1>1. CASE AddHistorizingNodes
  BY <1>1 DEF AddHistorizingNodes
<1>2. CASE AddHealthMonitoringNodes
  BY <1>2 DEF AddHealthMonitoringNodes, Setups
<1>3. CASE RunStartup
  BY <1>3 DEF RunStartup
<1>4. CASE SetRunning
  BY <1>4 DEF SetRunning
<1>5. CASE TestRunning
  BY <1>5 DEF TestRunning, KeepsIterating
<1>6. CASE RunIterate
  BY <1>6 DEF RunIterate
<1>7. CASE RemoveHealthNodesCallback
  BY <1>7 DEF RemoveHealthNodesCallback
<1>8. CASE DeregisterDiscovery
  BY <1>8 DEF DeregisterDiscovery
<1>9. CASE RunShutdown
  BY <1>9 DEF RunShutdown
<1>10. CASE ClearHistory
  BY <1>10 DEF ClearHistory
<1> QED
  BY <1>1, <1>2, <1>3, <1>4, <1>5, <1>6, <1>7, <1>8, <1>9, <1>10
     DEF AdapterThread

(* The steps of the observer and the updates it reads preserve the         *)
(* inductive invariant.                                                    *)
LEMMA ObserverPreserves ==
  ASSUME LifecycleIInv, UpdateVoid \/ VoidObserver
  PROVE  LifecycleIInv'
<1> USE LifecycleAssumption
    DEF LifecycleIInv, LifecycleTypeOK, AdapterThreadStates, LoopStates,
        ServerOutlivesWorker, CallbackEndsWithLoop, AtMostOneLateEvent,
        OwnerHasNoThread, OneObserver, NothingLateYet,
        ownerVars, adapterVars, observerVars
<1>1. CASE UpdateVoid
  BY <1>1 DEF UpdateVoid
<1>2. CASE TestWorkerFinished
  BY <1>2 DEF TestWorkerFinished
<1>3. CASE ReadAny
  BY <1>3 DEF ReadAny
<1>4. CASE FireVoidEvent
  BY <1>4 DEF FireVoidEvent
<1>5. CASE FireVoidEventThrows
  BY <1>5 DEF FireVoidEventThrows
<1> QED
  BY <1>1, <1>2, <1>3, <1>4, <1>5 DEF VoidObserver

(* A stuttering step preserves the inductive invariant.                    *)
LEMMA LifecycleStutters ==
  ASSUME LifecycleIInv, UNCHANGED lifecycleVars
  PROVE  LifecycleIInv'
BY DEF LifecycleIInv, LifecycleTypeOK, AdapterThreadStates, LoopStates,
       ServerOutlivesWorker, CallbackEndsWithLoop, AtMostOneLateEvent,
       OwnerHasNoThread, OneObserver, NothingLateYet,
       lifecycleVars, ownerVars, adapterVars, observerVars

(* Every reachable state satisfies the inductive invariant.                *)
THEOREM LifecycleInvariant == LifecycleSpec => []LifecycleIInv
<1>1. ASSUME LifecycleIInv, [LifecycleNext]_lifecycleVars
      PROVE  LifecycleIInv'
  BY <1>1, OwnerPreserves, AdapterThreadPreserves, ObserverPreserves,
     LifecycleStutters DEF LifecycleNext, OwnerGone
<1> QED
  BY <1>1, InitLifecycle, PTL DEF LifecycleSpec

(* The variables have their types.                                         *)
THEOREM LifecycleTypeCorrect == LifecycleSpec => []LifecycleTypeOK
BY LifecycleInvariant, PTL DEF LifecycleIInv

(* However start, stop and the destructor are called, the adapter thread   *)
(* never uses a server that is deleted or not started.                     *)
THEOREM ServerAlwaysOutlivesWorker == LifecycleSpec => []ServerOutlivesWorker
BY LifecycleInvariant, PTL DEF LifecycleIInv

(* The repeated health callback never outlives the server's loop.          *)
THEOREM CallbackAlwaysEndsWithLoop == LifecycleSpec => []CallbackEndsWithLoop
BY LifecycleInvariant, PTL DEF LifecycleIInv

(* After the join, the observer takes up at most one more update.          *)
THEOREM LateEventOnce == LifecycleSpec => []AtMostOneLateEvent
BY LifecycleInvariant, PTL DEF LifecycleIInv

-----------------------------------------------------------------------------
(* The program.                                                            *)

(* main uses the adapter as its owner may: every behaviour of the program  *)
(* is one of the adapter with some owner (csa_opcua_application.cpp).      *)
THEOREM ApplicationImplementsLifecycle == ApplicationSpec => LifecycleSpec
<1>1. ApplicationInit => LifecycleInit
  BY DEF ApplicationInit
<1>2. ASSUME [ApplicationNext]_applicationVars
      PROVE  [LifecycleNext]_lifecycleVars
  <2>1. CASE MainThread
    <3>1. CASE MainStarts
      BY <3>1 DEF MainStarts, LifecycleNext
    <3>2. CASE MainStops \/ MainDestroys
      BY <3>2 DEF MainStops, MainDestroys, LifecycleNext
    <3>3. CASE OwnerGoesOn
      BY <3>3 DEF LifecycleNext
    <3>4. CASE \/ Unblock \/ TestTerminate \/ FallAsleep \/ SleepEnds
               \/ ShutDownApplication
      BY <3>4 DEF Unblock, TestTerminate, FallAsleep, SleepEnds,
                  ShutDownApplication
    <3> QED
      BY <2>1, <3>1, <3>2, <3>3, <3>4 DEF MainThread
  <2>2. CASE OtherThreads
    BY <2>2 DEF OtherThreads, LifecycleNext
  <2>3. CASE Terminate \/ Interrupt \/ Exited \/ UNCHANGED applicationVars
    BY <2>3 DEF Terminate, Interrupt, Exited, applicationVars
  <2> QED
    BY <1>2, <2>1, <2>2, <2>3 DEF ApplicationNext
<1> QED
  BY <1>1, <1>2, PTL DEF ApplicationSpec, LifecycleSpec

(* Where the adapter is when main is at each of its calls: main begins the *)
(* next one only when the one before has returned, stop has joined the     *)
(* thread before the destructor looks for it, and nothing destroys the     *)
(* adapter before.                                                         *)
MainCallsInTurn ==
  /\ main \in {"setup", "starting", "test", "fallAsleep", "sleep", "stop",
               "destroy", "application", "exited"}
  /\ main \in {"setup", "test", "fallAsleep", "sleep", "stop"} => owner = "idle"
  /\ main = "setup" => adapterThread = "none"
  /\ main = "starting" => owner \in {"addType", "observe", "idle"}
  /\ main = "destroy" => \/ owner \in {"join", "finish"}
                         \/ owner = "idle" /\ adapterThread = "none"
  /\ main = "application" => owner \in {"delete", "gone"}
  /\ main = "exited" => owner = "gone"
  /\ main \notin {"application", "exited"} => ~destroying

(* A signal is never forgotten: its handler has run and set the flag, or   *)
(* it waits for the end of the block.                                      *)
SignalKept ==
  /\ delivered \in BOOLEAN /\ intPending \in BOOLEAN /\ intBlocked \in BOOLEAN
  /\ delivered = terminateMain
  /\ intPending = TRUE => intBlocked = TRUE
  /\ main \in {"setup", "starting"} => intBlocked = TRUE
  /\ main \notin {"setup", "starting"} => intBlocked = FALSE
  /\ main \in {"stop", "destroy", "application", "exited"} =>
       terminateMain = TRUE

(* When the program exits the server is deleted, no adapter thread runs on *)
(* it and it holds no callback (main, ~csa_opcua_adapter, ~ua_uaadapter).  *)
ExitsClean ==
  main = "exited" =>
    server = "deleted" /\ adapterThread = "none" /\ ~healthCallback

(* The server is deleted when the owner's last call has returned.          *)
GoneIsDeleted == owner = "gone" => server = "deleted"

ApplicationIInv == MainCallsInTurn /\ SignalKept /\ GoneIsDeleted

(* Initially main has made no call and there was no signal.                *)
LEMMA InitApplication == ApplicationInit => ApplicationIInv
BY DEF ApplicationInit, LifecycleInit, ApplicationIInv, MainCallsInTurn,
       SignalKept, GoneIsDeleted

(* The steps of main.                                                      *)
LEMMA MainKeepsTurn ==
  ASSUME LifecycleIInv, ApplicationIInv, MainThread
  PROVE  ApplicationIInv'
<1> USE DEF ApplicationIInv, MainCallsInTurn, SignalKept, GoneIsDeleted
<1>1. CASE MainStarts
  BY <1>1 DEF MainStarts, Start
<1>2. CASE Unblock
  <2>1. /\ owner = "idle" /\ main = "starting" /\ main' = "test"
        /\ UNCHANGED <<owner, destroying, adapterThread, server>>
    BY <1>2 DEF Unblock, lifecycleVars, ownerVars, adapterVars
  <2>2. MainCallsInTurn' /\ GoneIsDeleted'
    BY <2>1
  <2>3. /\ delivered' = (delivered \/ intPending) /\ delivered' = terminateMain'
        /\ delivered' \in BOOLEAN
    BY <1>2, Zenon DEF Unblock
  <2>4. intPending' = FALSE /\ intBlocked' = FALSE
    BY <1>2 DEF Unblock
  <2>5. SignalKept'
    BY <2>1, <2>3, <2>4
  <2> QED
    BY <2>2, <2>5
<1>3. CASE TestTerminate \/ FallAsleep \/ SleepEnds
  <2>1. /\ UNCHANGED <<owner, destroying, adapterThread, server>>
        /\ UNCHANGED <<terminateMain, intBlocked, intPending, delivered>>
        /\ main \in {"test", "fallAsleep", "sleep"}
    BY <1>3 DEF TestTerminate, FallAsleep, SleepEnds, lifecycleVars,
                ownerVars, adapterVars
  <2>2. CASE TestTerminate /\ terminateMain = TRUE
    BY <2>1, <2>2 DEF TestTerminate
  <2>3. CASE TestTerminate /\ terminateMain = FALSE
    BY <2>1, <2>3 DEF TestTerminate
  <2>4. CASE FallAsleep \/ SleepEnds
    BY <2>1, <2>4 DEF FallAsleep, SleepEnds
  <2> QED
    BY <1>3, <2>2, <2>3, <2>4
<1>4. CASE MainStops
  BY <1>4 DEF MainStops, StopOrDestroy
<1>5. CASE MainDestroys
  BY <1>5 DEF MainDestroys, StopOrDestroy
<1>6. CASE ShutDownApplication
  BY <1>6 DEF ShutDownApplication, lifecycleVars, ownerVars, adapterVars
<1>7. CASE OwnerGoesOn /\ UNCHANGED mainVars
  <2>1. UNCHANGED <<main, terminateMain, intBlocked, intPending, delivered>>
    BY <1>7 DEF mainVars
  <2>2. CASE AddVoidEventType \/ StartVoidObserver
    BY <2>1, <2>2 DEF AddVoidEventType, StartVoidObserver, adapterVars
  <2>3. CASE JoinAdapterThread
    BY <2>1, <2>3 DEF JoinAdapterThread
  <2>4. CASE SetWorkerFinished
    BY <2>1, <2>4 DEF SetWorkerFinished, adapterVars, LifecycleIInv,
                      OwnerHasNoThread
  <2>5. CASE DeleteServer
    BY <2>1, <2>5 DEF DeleteServer
  <2> QED
    BY <1>7, <2>2, <2>3, <2>4, <2>5 DEF OwnerGoesOn
<1> QED
  BY <1>1, <1>2, <1>3, <1>4, <1>5, <1>6, <1>7 DEF MainThread

(* The steps of the other threads.                                         *)
LEMMA OthersKeepTurn ==
  ASSUME LifecycleIInv, ApplicationIInv, OtherThreads
  PROVE  ApplicationIInv'
<1>1. UNCHANGED <<main, terminateMain, intBlocked, intPending, delivered>>
  BY DEF OtherThreads, mainVars
<1>2. /\ UNCHANGED <<owner, destroying>>
      /\ adapterThread = "none" => adapterThread' = "none"
      /\ server' = server \/ adapterThread # "none"
  <2>1. CASE AdapterThread
    BY <2>1 DEF AdapterThread, AddHistorizingNodes, AddHealthMonitoringNodes,
         RunStartup, SetRunning, TestRunning, RunIterate,
         RemoveHealthNodesCallback, DeregisterDiscovery, RunShutdown,
         ClearHistory, ownerVars
  <2>2. CASE UpdateVoid \/ VoidObserver
    BY <2>2 DEF UpdateVoid, VoidObserver, TestWorkerFinished, ReadAny,
                FireVoidEvent, FireVoidEventThrows, ownerVars, adapterVars
  <2> QED
    BY <2>1, <2>2 DEF OtherThreads
<1>3. owner = "gone" => adapterThread = "none"
  BY DEF LifecycleIInv, OwnerHasNoThread
<1> QED
  BY <1>1, <1>2, <1>3
     DEF ApplicationIInv, MainCallsInTurn, SignalKept, GoneIsDeleted

(* A signal, wherever main is.                                             *)
LEMMA SignalsKeepTurn ==
  ASSUME ApplicationIInv, Terminate \/ Interrupt \/ UNCHANGED applicationVars
  PROVE  ApplicationIInv'
<1>1. UNCHANGED <<owner, destroying, adapterThread, server>>
  BY DEF Terminate, Interrupt, applicationVars, lifecycleVars, ownerVars,
         adapterVars
<1>2. CASE Terminate
  BY <1>1, <1>2 DEF Terminate, SigHandler, ApplicationIInv, MainCallsInTurn,
                    SignalKept, GoneIsDeleted
<1>3. CASE Interrupt
  <2>1. CASE intBlocked /\ intPending' = TRUE
               /\ UNCHANGED <<main, terminateMain, delivered, intBlocked>>
    BY <1>1, <2>1 DEF ApplicationIInv, MainCallsInTurn, SignalKept,
                      GoneIsDeleted
  <2>2. CASE SigHandler /\ UNCHANGED <<intPending, intBlocked>>
    BY <1>1, <2>2 DEF SigHandler, ApplicationIInv, MainCallsInTurn,
                      SignalKept, GoneIsDeleted
  <2> QED
    BY <1>3, <2>1, <2>2 DEF Interrupt
<1>4. CASE UNCHANGED applicationVars
  BY <1>1, <1>4 DEF applicationVars, mainVars, ApplicationIInv,
                    MainCallsInTurn, SignalKept, GoneIsDeleted
<1> QED
  BY <1>2, <1>3, <1>4

(* Every reachable state of the program satisfies both invariants: those   *)
(* of the adapter come with the refinement.                                *)
THEOREM ApplicationInvariant ==
  ApplicationSpec => [](LifecycleIInv /\ ApplicationIInv)
<1>1. ApplicationSpec => []LifecycleIInv
  BY ApplicationImplementsLifecycle, LifecycleInvariant, PTL
<1>2. ASSUME LifecycleIInv, ApplicationIInv, [ApplicationNext]_applicationVars
      PROVE  ApplicationIInv'
  BY <1>2, MainKeepsTurn, OthersKeepTurn, SignalsKeepTurn
     DEF ApplicationNext, Exited
<1> QED
  BY <1>1, <1>2, InitApplication, PTL DEF ApplicationSpec

(* The program exits with everything taken down.                           *)
THEOREM ProgramExitsClean == ApplicationSpec => []ExitsClean
<1>1. LifecycleIInv /\ ApplicationIInv => ExitsClean
  BY DEF LifecycleIInv, ApplicationIInv, MainCallsInTurn, GoneIsDeleted,
         ExitsClean, OwnerHasNoThread, CallbackEndsWithLoop, LoopStates
<1> QED
  BY <1>1, ApplicationInvariant, PTL
=============================================================================
