---------------------------- MODULE BatchDatagen ----------------------------
(***************************************************************************)
(* The batch data generator.  Each execution of a state machine creates an *)
(* EMR cluster, generates data on it and terminates it.  A rule and a      *)
(* custom resource start executions.  When the stack is deleted, another   *)
(* custom resource stops the running executions and terminates the         *)
(* clusters it finds, while CloudFormation deletes the rule and the state  *)
(* machine and executions come and go.                                     *)
(***************************************************************************)
EXTENDS Integers, FiniteSets

CONSTANTS
    Executions,  \* executions of the state machine that may be started
    Trigger      \* the one that the custom resource starts

ASSUME DatagenAssumption == Trigger \in Executions

VARIABLES
    state,       \* the state each execution is in, or how it has ended
    emr,         \* the cluster of each execution
    id,          \* whether $.Emr.Cluster.Id is in its input
    iterator,    \* batch_iterator in the configuration table
    resources,   \* of the stack, those that there are
    deleting,    \* whether CloudFormation deletes the stack
    handler,     \* where the custom resource's handler is
    toStop,      \* the executions it has still to stop
    toTerminate, \* the clusters it has still to terminate
    late         \* history: the executions started since it listed them

executionVars == <<state, emr, id, iterator>>
handlerVars   == <<handler, toStop, toTerminate>>
stackVars     == <<resources, deleting>>
vars == <<executionVars, handlerVars, stackVars, late>>

Steps == {"configure", "create", "add", "update", "terminate", "terminateError"}

\* "error": an error that no Catch takes; "failed": the state StepFailure.
Ends == {"succeeded", "failed", "error", "timedOut", "aborted"}

\* The states of a cluster for which the handler asks.
ClusterStates == {"STARTING", "RUNNING", "WAITING"}

Live(x) == emr[x] \in {"STARTING", "RUNNING", "WAITING"}

Running(x) == state[x] \in Steps
-----------------------------------------------------------------------------
Init ==
    /\ state = [x \in Executions |-> "new"]
    /\ emr = [x \in Executions |-> "none"]
    /\ id = [x \in Executions |-> FALSE]
    /\ iterator = 0
    /\ resources = {"rule", "machine"}
    /\ deleting = FALSE
    /\ handler = "idle"
    /\ toStop = {} /\ toTerminate = {} /\ late = {}

\* The state machine, from one state to the next; it takes no step once it has
\* been deleted.
Go(x, from, to) ==
    /\ state[x] = from /\ "machine" \in resources
    /\ state' = [state EXCEPT ![x] = to]

Start(x) ==
    /\ Go(x, "new", "configure")
    /\ late' = late \cup {x}
    /\ UNCHANGED <<emr, id, iterator, handlerVars, stackVars>>

\* Every half hour.
RuleFires(x) == "rule" \in resources /\ x # Trigger /\ Start(x)

\* The custom resource StepFunctionsTrigger, once the state machine exists.
TriggerStarts == ~deleting /\ Start(Trigger)

\* The handler only reads the iterator, and the window that it computes is
\* data: the machine goes on, and requests a cluster on entering the next state.
Configure(x) ==
    /\ Go(x, "configure", "create")
    /\ emr' = [emr EXCEPT ![x] = "STARTING"]
    /\ UNCHANGED <<id, iterator, handlerVars, stackVars, late>>

\* A handler that raises, or a cluster that is not accepted: the Catch goes to
\* a state that asks for an id which is not there.
ConfigureFails(x) ==
    /\ Go(x, "configure", "terminateError")
    /\ UNCHANGED <<emr, id, iterator, handlerVars, stackVars, late>>

\* The task waits for the cluster to be up.
CreateCluster(x) ==
    /\ Go(x, "create", "add")
    /\ emr[x] = "WAITING"
    /\ id' = [id EXCEPT ![x] = TRUE]
    /\ UNCHANGED <<emr, iterator, handlerVars, stackVars, late>>

\* The task fails, for the cluster's sake or while it waits for it.
CreateClusterFails(x) ==
    /\ Go(x, "create", "terminateError")
    /\ UNCHANGED <<emr, id, iterator, handlerVars, stackVars, late>>

\* addStep.sync: the cluster runs the step.
AddStep(x) ==
    /\ Go(x, "add", "update")
    /\ emr[x] = "RUNNING"
    /\ emr' = [emr EXCEPT ![x] = "WAITING"]
    /\ UNCHANGED <<id, iterator, handlerVars, stackVars, late>>

\* Mutant of AddStepFails: the error is not caught but ends the execution as a
\* failure that has been dealt with.
AddStepFailsUncaught(x) ==
    /\ Go(x, "add", "failed")
    /\ UNCHANGED <<emr, id, iterator, handlerVars, stackVars, late>>

\* Catch States.ALL.
AddStepFails(x) ==
    /\ Go(x, "add", "terminateError")
    /\ UNCHANGED <<emr, id, iterator, handlerVars, stackVars, late>>

UpdateIterator(x) ==
    /\ Go(x, "update", "terminate")
    /\ iterator' = iterator + 1
    /\ UNCHANGED <<emr, id, handlerVars, stackVars, late>>

\* Both termination tasks wait until the cluster has terminated.
Terminate(x, from, to) ==
    /\ id[x]
    /\ Go(x, from, to)
    /\ emr' = [emr EXCEPT ![x] = "TERMINATED"]
    /\ UNCHANGED <<id, iterator, handlerVars, stackVars, late>>

TerminateCluster(x)      == Terminate(x, "terminate", "succeeded")
TerminateClusterError(x) == Terminate(x, "terminateError", "failed")

\* The states without a Catch: any error ends the execution.  So it does where
\* the termination finds no id.
EndsInError(x) ==
    /\ \E from \in {"update", "terminate", "terminateError"} : Go(x, from, "error")
    /\ UNCHANGED <<emr, id, iterator, handlerVars, stackVars, late>>

\* What becomes of a cluster when the execution that waits for it is stopped:
\* Step Functions cancels a creation if it can.
Cancelled(x) ==
    IF state[x] = "create" THEN {emr[x], "TERMINATED"} ELSE {emr[x]}

End(x, how) ==
    /\ Running(x)
    /\ state' = [state EXCEPT ![x] = how]
    /\ \E c \in Cancelled(x) : emr' = [emr EXCEPT ![x] = c]

\* Mutant of TimeOut: a task ends only when its cluster is up.
TimeOutUp(x) ==
    /\ "machine" \in resources
    /\ emr[x] = "WAITING"
    /\ End(x, "timedOut")
    /\ UNCHANGED <<id, iterator, handlerVars, stackVars, late>>

\* After 30 minutes.
TimeOut(x) ==
    /\ "machine" \in resources
    /\ End(x, "timedOut")
    /\ UNCHANGED <<id, iterator, handlerVars, stackVars, late>>

\* The executions of a state machine that has been deleted end.
Abort(x) ==
    /\ "machine" \notin resources
    /\ End(x, "aborted")
    /\ UNCHANGED <<id, iterator, handlerVars, stackVars, late>>
-----------------------------------------------------------------------------
(***************************************************************************)
(* EMR: a cluster comes up, takes a step, and may terminate by itself.     *)
(***************************************************************************)
ClusterUp(x) ==
    /\ emr[x] = "STARTING"
    /\ emr' = [emr EXCEPT ![x] = "WAITING"]
    /\ UNCHANGED <<state, id, iterator, handlerVars, stackVars, late>>

StepRuns(x) ==
    /\ emr[x] = "WAITING" /\ state[x] = "add"
    /\ emr' = [emr EXCEPT ![x] = "RUNNING"]
    /\ UNCHANGED <<state, id, iterator, handlerVars, stackVars, late>>

ClusterDies(x) ==
    /\ Live(x)
    /\ emr' = [emr EXCEPT ![x] = "TERMINATED"]
    /\ UNCHANGED <<state, id, iterator, handlerVars, stackVars, late>>
-----------------------------------------------------------------------------
(***************************************************************************)
(* The deletion of the stack.  The rule goes before the state machine that *)
(* it names; the custom resource names neither, so its handler runs at any *)
(* time.                                                                   *)
(***************************************************************************)
DeleteStack ==
    /\ ~deleting
    /\ deleting' = TRUE
    /\ UNCHANGED <<executionVars, handlerVars, resources, late>>

DeleteRule ==
    /\ deleting /\ "rule" \in resources
    /\ resources' = resources \ {"rule"}
    /\ UNCHANGED <<executionVars, handlerVars, deleting, late>>

\* Mutant of DeleteMachine: the rule does not name the state machine.
DeleteMachineFirst ==
    /\ deleting /\ "machine" \in resources
    /\ resources' = resources \ {"machine"}
    /\ UNCHANGED <<executionVars, handlerVars, deleting, late>>

DeleteMachine ==
    /\ deleting /\ resources = {"machine"}
    /\ resources' = {}
    /\ UNCHANGED <<executionVars, handlerVars, deleting, late>>

\* list_state_machines and list_executions.
ListExecutions ==
    /\ deleting /\ handler = "idle"
    /\ toStop' = IF "machine" \in resources THEN {x \in Executions : Running(x)} ELSE {}
    /\ late' = {}
    /\ handler' = "stopping"
    /\ UNCHANGED <<executionVars, toTerminate, stackVars>>

\* stop_execution; one that has ended stays as it is.
StopExecution(x) ==
    /\ handler = "stopping" /\ x \in toStop
    /\ toStop' = toStop \ {x}
    /\ \/ End(x, "aborted")
       \/ ~Running(x) /\ UNCHANGED <<state, emr>>
    /\ UNCHANGED <<id, iterator, handler, toTerminate, stackVars, late>>

\* Mutant of ListClusters: it does not wait for the executions to be stopped.
ListClustersAtOnce ==
    /\ handler = "stopping"
    /\ toTerminate' = {x \in Executions : emr[x] \in ClusterStates}
    /\ handler' = "terminating"
    /\ UNCHANGED <<executionVars, toStop, stackVars, late>>

\* list_clusters.
ListClusters ==
    /\ handler = "stopping" /\ toStop = {}
    /\ toTerminate' = {x \in Executions : emr[x] \in ClusterStates}
    /\ handler' = "terminating"
    /\ UNCHANGED <<executionVars, toStop, stackVars, late>>

\* terminate_job_flows.
TerminateJobFlow(x) ==
    /\ handler = "terminating" /\ x \in toTerminate
    /\ toTerminate' = toTerminate \ {x}
    /\ emr' = [emr EXCEPT ![x] = "TERMINATED"]
    /\ UNCHANGED <<state, id, iterator, handler, toStop, stackVars, late>>

Answer ==
    /\ handler = "terminating" /\ toTerminate = {}
    /\ handler' = "SUCCESS"
    /\ UNCHANGED <<executionVars, toStop, toTerminate, stackVars, late>>

\* Any call raises, the deletion of the stack fails, and is tried again.
HandlerRaises ==
    /\ handler \in {"stopping", "terminating"}
    /\ handler' = "idle"
    /\ toStop' = {} /\ toTerminate' = {}
    /\ UNCHANGED <<executionVars, stackVars, late>>

Execute(x) ==
    \/ Configure(x) \/ ConfigureFails(x)
    \/ CreateCluster(x) \/ CreateClusterFails(x)
    \/ AddStep(x) \/ AddStepFails(x)
    \/ UpdateIterator(x)
    \/ TerminateCluster(x) \/ TerminateClusterError(x) \/ EndsInError(x)

Emr(x) == ClusterUp(x) \/ StepRuns(x) \/ ClusterDies(x)

Handle ==
    \/ ListExecutions \/ ListClusters \/ Answer
    \/ \E x \in Executions : StopExecution(x) \/ TerminateJobFlow(x)

Next ==
    \/ TriggerStarts
    \/ \E x \in Executions :
          RuleFires(x) \/ Execute(x) \/ TimeOut(x) \/ Abort(x) \/ Emr(x)
    \/ DeleteStack \/ DeleteRule \/ DeleteMachine
    \/ Handle \/ HandlerRaises

Spec == Init /\ [][Next]_vars

\* The timeout of the state machine passes, and CloudFormation and Step
\* Functions go on with a deletion; nothing else need happen.
FairSpec ==
    /\ Spec
    /\ \A x \in Executions : WF_vars(TimeOut(x)) /\ WF_vars(Abort(x))
    /\ WF_vars(DeleteRule) /\ WF_vars(DeleteMachine)
-----------------------------------------------------------------------------
\* Every variable keeps to the values the code can give it.
TypeOK ==
    /\ state \in [Executions -> Steps \cup Ends \cup {"new"}]
    /\ emr \in [Executions -> {"none", "STARTING", "RUNNING", "WAITING", "TERMINATED"}]
    /\ id \in [Executions -> BOOLEAN]
    /\ iterator \in Nat
    /\ resources \in {{"rule", "machine"}, {"machine"}, {}}
    /\ deleting \in BOOLEAN
    /\ handler \in {"idle", "stopping", "terminating", "SUCCESS"}
    /\ toStop \subseteq Executions /\ toTerminate \subseteq Executions
    /\ late \subseteq Executions

\* A cluster outlives its execution only if that was timed out, stopped, or
\* ended by an error of a state without a Catch: on every other path, success
\* or StepFailure, it has been terminated first.
NoClusterLeftBehind ==
    \A x \in Executions :
        Live(x) => Running(x) \/ state[x] \in {"error", "timedOut", "aborted"}

\* Once the handler has answered, no cluster is left of any execution that was
\* started before it listed them, wherever that was: the handler stops those it
\* lists before it lists the clusters, and those it cannot list cannot go on.
CleanDeletion ==
    handler = "SUCCESS" => \A x \in Executions : Live(x) => x \in late

\* A cluster does not stay up for good: it terminates, or its execution ends in
\* one of the ways that leave it to the handler, although a cluster may never
\* come up, a step may never end, and the stack may be deleted at any time.
ClusterEnds ==
    \A x \in Executions :
        Live(x) ~> ~Live(x) \/ state[x] \in {"error", "timedOut", "aborted"}
=============================================================================
