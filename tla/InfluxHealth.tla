----------------------------- MODULE InfluxHealth ----------------------------
(***************************************************************************)
(* The health nodes of the batching client (the object InfluxHealth) and   *)
(* the repeated callback that refreshes them.  The callback runs on the    *)
(* thread of the OPC UA server, which also makes every call of writePoint  *)
(* and every history read; it races with the write worker, whose atomics   *)
(* it reads one after the other.                                           *)
(***************************************************************************)
EXTENDS InfluxClient

VARIABLES
  update,          \* where the server thread is in updateInfluxHealth
  stats,           \* the local InfluxWriteStats of updateInfluxHealth
  nodes,           \* the values of the health nodes
  healthNodesAdded,\* is the repeated callback registered
  serverEnded      \* workerThread has left the server loop

healthVars == <<update, stats, nodes, healthNodesAdded, serverEnded>>
allVars == <<vars, healthVars>>

NoStats == [queuedPoints |-> 0, pointsWritten |-> 0, pointsDropped |-> 0,
            batchWriteFailures |-> 0, retryAttempts |-> 0, errorCode |-> 0,
            fundamentalError |-> FALSE]

(* addHealthMonitoringNodes has made the nodes and updated them once,      *)
(* before the server started and any point was written.                    *)
HealthInit ==
  /\ Init
  /\ update = "idle" /\ stats = NoStats
  /\ nodes = [stats |-> NoStats, fundamentalError |-> FALSE,
              asyncErrorActive |-> FALSE, lastAsyncError |-> FALSE]
  /\ healthNodesAdded = TRUE /\ serverEnded = FALSE

ServerIdle == update = "idle" /\ \A w \in Writers : writer[w] = "idle"

-----------------------------------------------------------------------------
(* The timer is due.  getWriteStats takes the queue size under the lock    *)
(* and then loads the counters.                                            *)
BeginUpdate ==
  /\ ServerIdle /\ healthNodesAdded /\ ~serverEnded
  /\ stats' = [stats EXCEPT !.queuedPoints = Len(writeQueue),
                            !.pointsWritten = pointsWritten,
                            !.pointsDropped = pointsDropped,
                            !.batchWriteFailures = batchWriteFailures,
                            !.retryAttempts = retryAttempts]
  /\ update' = "errorCode"
  /\ UNCHANGED <<vars, nodes, healthNodesAdded, serverEnded>>

LoadErrorCode ==
  /\ update = "errorCode"
  /\ stats' = [stats EXCEPT !.errorCode = errorCode]
  /\ update' = "fundamental"
  /\ UNCHANGED <<vars, nodes, healthNodesAdded, serverEnded>>

LoadFundamentalError ==
  /\ update = "fundamental"
  /\ stats' = [stats EXCEPT !.fundamentalError = fundamentalErrorOccurred]
  /\ update' = "nodes"
  /\ UNCHANGED <<vars, nodes, healthNodesAdded, serverEnded>>

(* The statistics go to their nodes; the node FundamentalError takes the   *)
(* flag as it is now.                                                      *)
WriteNodes ==
  /\ update = "nodes"
  /\ nodes' = [nodes EXCEPT !.stats = stats,
                            !.fundamentalError = fundamentalErrorOccurred]
  /\ update' = "async"
  /\ UNCHANGED <<vars, stats, healthNodesAdded, serverEnded>>

(* Mutated form: the node is raised but never lowered. *)
WriteAsyncErrorActiveOnly ==
  /\ update = "async"
  /\ nodes' = [nodes EXCEPT !.asyncErrorActive = @ \/ asyncWriteError]
  /\ update' = "text"
  /\ UNCHANGED <<vars, stats, healthNodesAdded, serverEnded>>

WriteAsyncErrorActive ==
  /\ update = "async"
  /\ nodes' = [nodes EXCEPT !.asyncErrorActive = asyncWriteError]
  /\ update' = "text"
  /\ UNCHANGED <<vars, stats, healthNodesAdded, serverEnded>>

(* The text is read again, under its mutex: it may have been cleared.      *)
WriteLastAsyncError ==
  /\ update = "text"
  /\ nodes' = [nodes EXCEPT !.lastAsyncError =
                 nodes.asyncErrorActive /\ asyncWriteError]
  /\ update' = "diagnose"
  /\ UNCHANGED <<vars, stats, healthNodesAdded, serverEnded>>

(* Mutated form: the live flag decides instead of the statistics. *)
EndsUpdatesByLiveFlag == fundamentalErrorOccurred

(* Does this update end the updates? *)
EndsUpdates == stats.fundamentalError

Diagnose ==
  /\ update = "diagnose"
  /\ update' = "idle"
  /\ \/ /\ EndsUpdates
        /\ healthNodesAdded' = FALSE
     \/ /\ ~EndsUpdates
        /\ UNCHANGED healthNodesAdded
  /\ UNCHANGED <<vars, stats, nodes, serverEnded>>

Update == \/ BeginUpdate \/ LoadErrorCode \/ LoadFundamentalError
          \/ WriteNodes \/ WriteAsyncErrorActive \/ WriteLastAsyncError
          \/ Diagnose

-----------------------------------------------------------------------------
(* workerThread leaves its loop and removes the callback.                  *)
EndServer ==
  /\ ServerIdle /\ ~serverEnded
  /\ serverEnded' = TRUE
  /\ healthNodesAdded' = FALSE
  /\ UNCHANGED <<vars, update, stats, nodes>>

(* The server thread writes and reads history between two callbacks.       *)
ServerWrites(w) ==
  /\ update = "idle" /\ ~serverEnded
  /\ WritePoint(w)
  /\ UNCHANGED healthVars

ServerReads ==
  /\ ServerIdle /\ ~serverEnded
  /\ ReadFails
  /\ UNCHANGED healthVars

WorkerStep == Worker /\ UNCHANGED healthVars

Destruction ==
  /\ serverEnded
  /\ StopWorker \/ JoinWorker \/ Destroyed
  /\ UNCHANGED healthVars

HealthNext ==
  \/ Update \/ EndServer \/ ServerReads \/ WorkerStep \/ Destruction
  \/ \E w \in Writers : ServerWrites(w)

(* The server keeps iterating: the timer fires again and again, the worker *)
(* runs; nothing forces the server to end.                                 *)
HealthSpec ==
  /\ HealthInit /\ [][HealthNext]_allVars
  /\ WF_allVars(WorkerStep) /\ WF_allVars(Update)
  /\ \A w \in Writers : WF_allVars(ServerWrites(w) /\ writer[w] # "idle")

-----------------------------------------------------------------------------

NodesCurrent ==
  nodes = [stats |-> [queuedPoints |-> Len(writeQueue),
                      pointsWritten |-> pointsWritten,
                      pointsDropped |-> pointsDropped,
                      batchWriteFailures |-> batchWriteFailures,
                      retryAttempts |-> retryAttempts,
                      errorCode |-> errorCode,
                      fundamentalError |-> fundamentalErrorOccurred],
           fundamentalError |-> fundamentalErrorOccurred,
           asyncErrorActive |-> asyncWriteError,
           lastAsyncError |-> asyncWriteError]

(* Without a fundamental error the nodes catch up with the client and,     *)
(* once writers and worker have come to rest, show its state.              *)
NodesCatchUp ==
  <>[](NodesCurrent \/ fundamentalErrorOccurred \/ serverEnded)

(* A fundamental error reaches its node, unless the server ends.           *)
FundamentalErrorReported ==
  fundamentalErrorOccurred ~> nodes.fundamentalError \/ serverEnded

(* The updates do not end before the reader of the nodes is told why: the  *)
(* callback is removed only when the server ends or when the node          *)
(* FundamentalError already shows the error, although the worker may set   *)
(* the flag between any two of the loads of one update.                    *)
UpdatesEndReported ==
  ~healthNodesAdded => serverEnded \/ nodes.fundamentalError

=============================================================================
