--------------------------- MODULE OpcUaApplication --------------------------
(***************************************************************************)
(* The program csa_opcua_application.cpp builds: main sets the application *)
(* up, starts the adapter, sleeps until a signal arrives and takes         *)
(* everything down.  SIGINT is blocked until start has returned; SIGTERM   *)
(* never is.                                                               *)
(***************************************************************************)
EXTENDS AdapterLifecycle

VARIABLES
  main,            \* where main is
  terminateMain,
  intBlocked,      \* SIGINT is blocked
  intPending,      \* a SIGINT waits for the end of the block
  delivered        \* the handler has run; bound: it runs once

mainVars == <<main, terminateMain, intBlocked, intPending, delivered>>
applicationVars == <<lifecycleVars, mainVars>>

ApplicationInit ==
  /\ LifecycleInit
  /\ main = "setup"
  /\ terminateMain = FALSE /\ delivered = FALSE
  /\ intBlocked = TRUE /\ intPending = FALSE

-----------------------------------------------------------------------------
(***************************************************************************)
(* Signals.  The handler runs in the main thread: it sets the flag, and    *)
(* ends the sleep if main is in it.                                        *)
(***************************************************************************)
SigHandler ==
  /\ terminateMain' = TRUE
  /\ delivered' = TRUE
  /\ main' = IF main = "sleep" THEN "test" ELSE main

Terminate ==
  /\ ~Terminated
  /\ ~delivered /\ main # "exited"
  /\ SigHandler
  /\ UNCHANGED <<lifecycleVars, intBlocked, intPending>>

Interrupt ==
  /\ ~Terminated
  /\ ~delivered /\ ~intPending /\ main # "exited"
  /\ \/ /\ intBlocked
        /\ intPending' = TRUE
        /\ UNCHANGED <<main, terminateMain, delivered>>
     \/ /\ ~intBlocked
        /\ SigHandler
        /\ UNCHANGED intPending
  /\ UNCHANGED <<lifecycleVars, intBlocked>>

-----------------------------------------------------------------------------
(***************************************************************************)
(* main.                                                                   *)
(***************************************************************************)

(* Everything up to the call of start, with the call itself. *)
MainStarts ==
  /\ main = "setup"
  /\ Start
  /\ main' = "starting"
  /\ UNCHANGED <<terminateMain, intBlocked, intPending, delivered>>

(* start has returned: SIGINT is unblocked, a pending one is delivered.    *)
Unblock ==
  /\ main = "starting" /\ owner = "idle"
  /\ intBlocked' = FALSE
  /\ intPending' = FALSE
  /\ terminateMain' = (terminateMain \/ intPending)
  /\ delivered' = (delivered \/ intPending)
  /\ main' = "test"
  /\ UNCHANGED lifecycleVars

(* The condition of the loop; the call of sleep is a step of its own.      *)
TestTerminate ==
  /\ main = "test"
  /\ main' = IF terminateMain THEN "stop" ELSE "fallAsleep"
  /\ UNCHANGED <<lifecycleVars, terminateMain, intBlocked, intPending,
                 delivered>>

FallAsleep ==
  /\ main = "fallAsleep"
  /\ main' = "sleep"
  /\ UNCHANGED <<lifecycleVars, terminateMain, intBlocked, intPending,
                 delivered>>

(* Mutated form: a sleep that only a signal ends. *)
SleepUntilSignal == FALSE /\ UNCHANGED applicationVars

(* The hour of sleep is over. *)
SleepEnds ==
  /\ main = "sleep"
  /\ main' = "test"
  /\ UNCHANGED <<lifecycleVars, terminateMain, intBlocked, intPending,
                 delivered>>

MainStops ==
  /\ main = "stop"
  /\ StopOrDestroy(FALSE)
  /\ main' = "destroy"
  /\ UNCHANGED <<terminateMain, intBlocked, intPending, delivered>>

MainDestroys ==
  /\ main = "destroy"
  /\ StopOrDestroy(TRUE)
  /\ main' = "application"
  /\ UNCHANGED <<terminateMain, intBlocked, intPending, delivered>>

(* ApplicationBase::shutdown ends the threads of the application, and main *)
(* returns.                                                                *)
ShutDownApplication ==
  /\ main = "application" /\ owner = "gone"
  /\ main' = "exited"
  /\ UNCHANGED <<lifecycleVars, terminateMain, intBlocked, intPending,
                 delivered>>

MainThread ==
  /\ ~Terminated
  /\ \/ MainStarts \/ Unblock \/ TestTerminate \/ FallAsleep \/ SleepEnds
     \/ MainStops \/ MainDestroys \/ ShutDownApplication
     \/ OwnerGoesOn /\ UNCHANGED mainVars

(* The application's threads run from before start until shutdown.         *)
OtherThreads ==
  /\ main # "exited"
  /\ \/ AdapterThread
     \/ main # "setup" /\ UpdateVoid
     \/ VoidObserver
  /\ UNCHANGED mainVars

Exited == (main = "exited" \/ Terminated) /\ UNCHANGED applicationVars

ApplicationNext ==
  MainThread \/ OtherThreads \/ Terminate \/ Interrupt \/ Exited

ApplicationSpec == ApplicationInit /\ [][ApplicationNext]_applicationVars

(* Every thread runs on whenever it can.  Nobody has to send a signal.     *)
ApplicationFairSpec ==
  /\ ApplicationSpec
  /\ WF_applicationVars(MainThread)
  /\ WF_applicationVars(AdapterThread /\ UNCHANGED mainVars)
  /\ WF_applicationVars(VoidObserver /\ UNCHANGED mainVars)

-----------------------------------------------------------------------------
(***************************************************************************)
(* Properties.                                                             *)
(***************************************************************************)

(* Every SIGINT and SIGTERM, whenever it arrives, brings main to its stop, *)
(* unless an uncaught exception of the observer terminates the program.    *)
SignalReachesStop ==
  terminateMain \/ intPending ~>
    main \in {"stop", "destroy", "application", "exited"} \/ Terminated

(* The comment in main: SIGINT is blocked "until the OPC UA Adapter is     *)
(* running.  So the adapter is in a consistent state when we shut it       *)
(* down."  So a program that has begun to stop exits, or an uncaught       *)
(* exception of the observer terminates it.                                *)
StopBegunExits == main = "stop" ~> main = "exited" \/ Terminated

=============================================================================
