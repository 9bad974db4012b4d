------------------------ MODULE BatchDatagen_proofs ------------------------
(***************************************************************************)
(* Proofs about BatchDatagen, for any set of executions: type correctness, *)
(* that a cluster outlives its execution only where the code leaves it to  *)
(* the handler, and that the handler's answer is true.                     *)
(***************************************************************************)
EXTENDS BatchDatagen, TLAPS

\* While the handler stops executions: those that still run it has listed, or
\* they cannot take another step.
StoppingInv ==
    handler = "stopping" =>
        \A x \in Executions \ late : Running(x) => x \in toStop \/ "machine" \notin resources

\* After that none can take another step, and so none can request a cluster
\* that the handler has not listed.
TerminatingInv ==
    handler \in {"terminating", "SUCCESS"} =>
        \A x \in Executions \ late :
            /\ Running(x) => "machine" \notin resources
            /\ Live(x) => handler = "terminating" /\ x \in toTerminate

IInv == TypeOK /\ NoClusterLeftBehind /\ StoppingInv /\ TerminatingInv

\* The steps of the deletion of the stack.
Stack == DeleteStack \/ DeleteRule \/ DeleteMachine
-----------------------------------------------------------------------------
\* The invariant holds at first.
LEMMA InitIInv == Init => IInv
PROOF
<1> SUFFICES ASSUME Init PROVE IInv
  OBVIOUS
<1>1. TypeOK
  BY DEF Init, TypeOK
<1>2. NoClusterLeftBehind
  BY DEF Init, NoClusterLeftBehind, Live
<1>3. StoppingInv /\ TerminatingInv
  BY DEF Init, StoppingInv, TerminatingInv
<1> QED BY <1>1, <1>2, <1>3 DEF IInv

\* Every step keeps the variables to their types.
LEMMA NextTypeOK == TypeOK /\ Next => TypeOK'
PROOF
<1> SUFFICES ASSUME TypeOK, Next PROVE TypeOK'
  OBVIOUS
<1> USE DEF TypeOK, Steps, Ends, Go, Running, executionVars, handlerVars, stackVars
<1>1. ASSUME NEW x \in Executions, RuleFires(x) \/ Start(x)
      PROVE  TypeOK'
  BY <1>1 DEF RuleFires, Start
<1>2. ASSUME NEW x \in Executions, Execute(x)
      PROVE  TypeOK'
  <2>1. CASE Configure(x) \/ ConfigureFails(x)
    BY <2>1 DEF Configure, ConfigureFails
  <2>2. CASE CreateCluster(x) \/ CreateClusterFails(x)
    BY <2>2 DEF CreateCluster, CreateClusterFails
  <2>3. CASE AddStep(x) \/ AddStepFails(x)
    BY <2>3 DEF AddStep, AddStepFails
  <2>4. CASE UpdateIterator(x)
    BY <2>4 DEF UpdateIterator
  <2>5. CASE TerminateCluster(x) \/ TerminateClusterError(x)
    BY <2>5 DEF TerminateCluster, TerminateClusterError, Terminate
  <2>6. CASE EndsInError(x)
    BY <2>6 DEF EndsInError
  <2> QED BY <1>2, <2>1, <2>2, <2>3, <2>4, <2>5, <2>6 DEF Execute
<1>3. ASSUME NEW x \in Executions, TimeOut(x) \/ Abort(x)
      PROVE  TypeOK'
  BY <1>3 DEF TimeOut, Abort, End, Cancelled
<1>4. ASSUME NEW x \in Executions, Emr(x)
      PROVE  TypeOK'
  BY <1>4 DEF Emr, ClusterUp, StepRuns, ClusterDies
<1>5. CASE Stack
  BY <1>5 DEF Stack, DeleteStack, DeleteRule, DeleteMachine
<1>6. CASE ListExecutions \/ ListClusters \/ Answer \/ HandlerRaises
  BY <1>6 DEF ListExecutions, ListClusters, Answer, HandlerRaises
<1>7. ASSUME NEW x \in Executions, StopExecution(x) \/ TerminateJobFlow(x)
      PROVE  TypeOK'
  BY <1>7 DEF StopExecution, TerminateJobFlow, End, Cancelled
<1> QED
  BY <1>1, <1>2, <1>3, <1>4, <1>5, <1>6, <1>7, DatagenAssumption
  DEF Next, TriggerStarts, Stack, Handle

\* A cluster comes with its execution, and goes before it, save where the
\* execution ends by an error, the timeout or the handler.
LEMMA NextNoClusterLeftBehind == TypeOK /\ NoClusterLeftBehind /\ Next => NoClusterLeftBehind'
PROOF
<1> SUFFICES ASSUME TypeOK, NoClusterLeftBehind, Next PROVE NoClusterLeftBehind'
  OBVIOUS
<1> USE DEF TypeOK, NoClusterLeftBehind, Live, Running, Steps, Go,
            executionVars, handlerVars, stackVars
<1>1. ASSUME NEW x \in Executions, RuleFires(x) \/ Start(x)
      PROVE  NoClusterLeftBehind'
  BY <1>1 DEF RuleFires, Start
<1>2. ASSUME NEW x \in Executions, Execute(x)
      PROVE  NoClusterLeftBehind'
  <2>1. CASE Configure(x) \/ ConfigureFails(x)
    BY <2>1 DEF Configure, ConfigureFails
  <2>2. CASE CreateCluster(x) \/ CreateClusterFails(x)
    BY <2>2 DEF CreateCluster, CreateClusterFails
  <2>3. CASE AddStep(x) \/ AddStepFails(x)
    BY <2>3 DEF AddStep, AddStepFails
  <2>4. CASE UpdateIterator(x)
    BY <2>4 DEF UpdateIterator
  <2>5. CASE TerminateCluster(x) \/ TerminateClusterError(x)
    BY <2>5 DEF TerminateCluster, TerminateClusterError, Terminate
  <2>6. CASE EndsInError(x)
    BY <2>6 DEF EndsInError
  <2> QED BY <1>2, <2>1, <2>2, <2>3, <2>4, <2>5, <2>6 DEF Execute
<1>3. ASSUME NEW x \in Executions, TimeOut(x) \/ Abort(x)
      PROVE  NoClusterLeftBehind'
  BY <1>3 DEF TimeOut, Abort, End, Cancelled
<1>4. ASSUME NEW x \in Executions, Emr(x)
      PROVE  NoClusterLeftBehind'
  BY <1>4 DEF Emr, ClusterUp, StepRuns, ClusterDies
<1>5. CASE Stack
  BY <1>5 DEF Stack, DeleteStack, DeleteRule, DeleteMachine
<1>6. CASE ListExecutions \/ ListClusters \/ Answer \/ HandlerRaises
  BY <1>6 DEF ListExecutions, ListClusters, Answer, HandlerRaises
<1>7. ASSUME NEW x \in Executions, StopExecution(x) \/ TerminateJobFlow(x)
      PROVE  NoClusterLeftBehind'
  BY <1>7 DEF StopExecution, TerminateJobFlow, End, Cancelled
<1> QED
  BY <1>1, <1>2, <1>3, <1>4, <1>5, <1>6, <1>7, DatagenAssumption
  DEF Next, TriggerStarts, Stack, Handle

\* An execution that starts while the handler is at work is late.  The others
\* are stopped, or have lost their state machine, before it lists the clusters.
LEMMA NextHandlerInv ==
    TypeOK /\ StoppingInv /\ TerminatingInv /\ Next => StoppingInv' /\ TerminatingInv'
PROOF
<1> SUFFICES ASSUME TypeOK, StoppingInv, TerminatingInv, Next
             PROVE  StoppingInv' /\ TerminatingInv'
  OBVIOUS
<1> USE DEF TypeOK, StoppingInv, TerminatingInv, Live, Running, Steps, Go,
            executionVars, handlerVars, stackVars
<1>1. ASSUME NEW x \in Executions, RuleFires(x) \/ Start(x)
      PROVE  StoppingInv' /\ TerminatingInv'
  BY <1>1 DEF RuleFires, Start
<1>2. ASSUME NEW x \in Executions, Execute(x)
      PROVE  StoppingInv' /\ TerminatingInv'
  <2>1. CASE Configure(x) \/ ConfigureFails(x)
    BY <2>1 DEF Configure, ConfigureFails
  <2>2. CASE CreateCluster(x) \/ CreateClusterFails(x)
    BY <2>2 DEF CreateCluster, CreateClusterFails
  <2>3. CASE AddStep(x) \/ AddStepFails(x)
    BY <2>3 DEF AddStep, AddStepFails
  <2>4. CASE UpdateIterator(x)
    BY <2>4 DEF UpdateIterator
  <2>5. CASE TerminateCluster(x) \/ TerminateClusterError(x)
    BY <2>5 DEF TerminateCluster, TerminateClusterError, Terminate
  <2>6. CASE EndsInError(x)
    BY <2>6 DEF EndsInError
  <2> QED BY <1>2, <2>1, <2>2, <2>3, <2>4, <2>5, <2>6 DEF Execute
<1>3. ASSUME NEW x \in Executions, TimeOut(x) \/ Abort(x)
      PROVE  StoppingInv' /\ TerminatingInv'
  BY <1>3 DEF TimeOut, Abort, End, Cancelled
<1>4. ASSUME NEW x \in Executions, Emr(x)
      PROVE  StoppingInv' /\ TerminatingInv'
  BY <1>4 DEF Emr, ClusterUp, StepRuns, ClusterDies
<1>5. CASE Stack
  BY <1>5 DEF Stack, DeleteStack, DeleteRule, DeleteMachine
<1>6. CASE ListExecutions \/ ListClusters \/ Answer \/ HandlerRaises
  BY <1>6 DEF ListExecutions, ListClusters, Answer, HandlerRaises, ClusterStates
<1>7. ASSUME NEW x \in Executions, StopExecution(x) \/ TerminateJobFlow(x)
      PROVE  StoppingInv' /\ TerminatingInv'
  BY <1>7 DEF StopExecution, TerminateJobFlow, End, Cancelled
<1> QED
  BY <1>1, <1>2, <1>3, <1>4, <1>5, <1>6, <1>7, DatagenAssumption
  DEF Next, TriggerStarts, Stack, Handle

\* The invariant holds in every state of every behaviour.
THEOREM Invariance == Spec => []IInv
PROOF
<1>1. IInv /\ Next => IInv'
  BY NextTypeOK, NextNoClusterLeftBehind, NextHandlerInv DEF IInv
<1>2. IInv /\ UNCHANGED vars => IInv'
  BY DEF IInv, TypeOK, NoClusterLeftBehind, StoppingInv, TerminatingInv, Live, Running,
         vars, executionVars, handlerVars, stackVars
<1> QED BY InitIInv, <1>1, <1>2, PTL DEF Spec
-----------------------------------------------------------------------------
\* The variables keep to the values that the state machine and the handler give them.
THEOREM TypeCorrect == Spec => []TypeOK
<1>1. IInv => TypeOK
  BY DEF IInv
<1> QED BY Invariance, <1>1, PTL

\* On success and on StepFailure the cluster has been terminated.
THEOREM NoneLeftBehind == Spec => []NoClusterLeftBehind
<1>1. IInv => NoClusterLeftBehind
  BY DEF IInv
<1> QED BY Invariance, <1>1, PTL

\* When the handler has answered, only a late execution may have a cluster,
\* however the stack's deletion and the executions interleave with its calls.
THEOREM DeletionIsClean == Spec => []CleanDeletion
<1>1. IInv => CleanDeletion
  BY DEF IInv, CleanDeletion, TerminatingInv
<1> QED BY Invariance, <1>1, PTL
=============================================================================
