----------------------- MODULE StreamingSetup_proofs -----------------------
(***************************************************************************)
(* Proofs about StreamingSetup, for any number of polls: type correctness, *)
(* that no document is in an index without the template's mapping, and     *)
(* that a stack that is complete works.                                    *)
(***************************************************************************)
EXTENDS StreamingSetup, TLAPS

\* What the bootstrap lambda has put is in the domain or was refused, as long as
\* there is a domain; and the alias comes with the last of it.
PutInv ==
    /\ "domain" \in made =>
          \A k \in 1 .. 6 : k < put => Requests[k] \in es \cup refused
    /\ "domain" \in made /\ put = 7 /\ refused = {} => alias
    /\ stack = "creating" /\ "domain" \notin made => put = 0

\* The role that lets the application write comes after the template.
RoleInv == "delivery_role" \in es => "template" \in es \cup refused

StackInv ==
    /\ stack = "complete" => made = Resources /\ put = 7 /\ fix = "done"
    /\ fix = "done" => pool = "group"
    /\ stack \in {"creating", "complete"} /\ "start" \in made =>
          app = "running" /\ "app" \in made

IInv == TypeOK /\ PutInv /\ RoleInv /\ NoUnmappedDocument /\ StackInv

\* The six requests, in their order.
LEMMA RequestsFacts ==
    /\ Len(Requests) = 6 /\ DOMAIN Requests = 1 .. 6
    /\ Requests[1] = "template" /\ Requests[2] = "delivery_role"
    /\ Requests[3] = "role_mapping" /\ Requests[4] = "log_delivery"
    /\ Requests[5] = "rollover_policy" /\ Requests[6] = "ara-sales-1"
BY DEF Requests

\* Any of them may be refused.
LEMMA RequestsRefusable == \A k \in 1 .. 6 : Requests[k] \in Refusable
BY RequestsFacts DEF Refusable, ToSet

USE DEF lambdaVars, esVars
-----------------------------------------------------------------------------
\* The invariant holds at first.
LEMMA InitIInv == Init => IInv
PROOF
<1> SUFFICES ASSUME Init PROVE IInv
  OBVIOUS
<1>1. TypeOK
  <2>1. 0 \in 0 .. Len(Requests) + 1 /\ 0 \in 0 .. MaxPolls /\ 0 \in 0 .. 2
    BY RequestsFacts, SetupAssumption
  <2>2. {} \subseteq Resources /\ {} \subseteq Refusable /\ {} \subseteq {"ara-sales-1", "ara-write"}
    OBVIOUS
  <2>3. alias \in BOOLEAN
    BY DEF Init
  <2>4. /\ stack \in {"creating", "complete", "deleting", "failed", "deleted"}
        /\ fix \in {"none", "polling", "done", "failed"}
        /\ pool \in {"authenticated", "group"} /\ app \in {"none", "ready", "running"}
    BY DEF Init
  <2> QED BY <2>1, <2>2, <2>3, <2>4 DEF Init, TypeOK
<1>2. PutInv /\ RoleInv /\ NoUnmappedDocument /\ StackInv
  BY DEF Init, PutInv, RoleInv, NoUnmappedDocument, StackInv
<1> QED BY <1>1, <1>2 DEF IInv

\* A request of the lambda.
LEMMA PutToEsIInv == IInv /\ PutToEs => IInv'
PROOF
<1> SUFFICES ASSUME IInv, PutToEs PROVE IInv'
  OBVIOUS
<1> DEFINE r == Requests[put]
<1>1. /\ put \in 1 .. 6 /\ put' = put + 1 /\ "domain" \in made
      /\ es' \subseteq es \cup {r} /\ es \subseteq es'
      /\ refused' \subseteq refused \cup {r} /\ refused \subseteq refused'
      /\ r \in es' \cup refused'
      /\ UNCHANGED <<stack, made, docs, fix, polls, clients, pool, app>>
  BY RequestsFacts DEF PutToEs, Bootstrapping
<1>2. \/ alias' = alias /\ (put = 6 => r \in refused')
      \/ alias' = alias /\ put # 6
      \/ alias' = ("template" \in es) /\ put = 6
  BY <1>1, RequestsFacts DEF PutToEs, Bootstrapping
<1>3. \A k \in 1 .. 6 : k < put => Requests[k] \in es \cup refused
  BY <1>1 DEF IInv, PutInv
<1>4. TypeOK'
  <2>1. alias' \in BOOLEAN
    <3>1. alias \in BOOLEAN
      BY DEF IInv, TypeOK
    <3>2. CASE alias' = alias
      BY <3>1, <3>2
    <3>3. CASE alias' = ("template" \in es)
      BY <3>3
    <3> QED BY <1>2, <3>2, <3>3
  <2>2. es' \subseteq Refusable /\ refused' \subseteq Refusable
    BY <1>1, RequestsRefusable DEF IInv, TypeOK
  <2>3. put' \in 0 .. Len(Requests) + 1
    BY <1>1, RequestsFacts
  <2> QED BY <1>1, <2>1, <2>2, <2>3 DEF IInv, TypeOK
<1>5. PutInv'
  <2>1. \A k \in 1 .. 6 : k < put' => Requests[k] \in es' \cup refused'
    BY <1>1, <1>3
  <2>2. ASSUME put' = 7, refused' = {}
        PROVE  alias'
    <3>1. put = 6 /\ refused = {} /\ "template" \in es
      BY <1>1, <1>3, <2>2, RequestsFacts
    <3>2. alias' = ("template" \in es)
      BY <1>2, <2>2, <3>1
    <3> QED BY <3>1, <3>2
  <2> QED BY <2>1, <2>2, <1>1 DEF PutInv
<1>6. RoleInv'
  BY <1>1, <1>3, RequestsFacts DEF RoleInv, IInv
<1>7. NoUnmappedDocument'
  BY <1>1 DEF NoUnmappedDocument, IInv
<1>8. StackInv'
  BY <1>1 DEF StackInv, IInv
<1> QED BY <1>4, <1>5, <1>6, <1>7, <1>8 DEF IInv

\* The steps of the two lambdas keep the invariant.
LEMMA LambdaIInv ==
    ASSUME IInv, InvokeBootstrap \/ BootstrapRaises \/ CognitoFix \/ RegisterClient
    PROVE  IInv'
PROOF
<1> USE RequestsFacts, SetupAssumption
    DEF IInv, TypeOK, PutInv, RoleInv, NoUnmappedDocument, StackInv, Resources
<1>1. CASE InvokeBootstrap
  BY <1>1 DEF InvokeBootstrap, Make
<1>2. CASE BootstrapRaises
  BY <1>2 DEF BootstrapRaises, Bootstrapping, RollBack
<1>3. CASE InvokeCognitoFix
  BY <1>3 DEF InvokeCognitoFix, Make
<1>4. CASE UpdateIdentityPool
  BY <1>4 DEF UpdateIdentityPool
<1>5. CASE PollAgain
  BY <1>5 DEF PollAgain
<1>6. CASE GiveUp
  BY <1>6 DEF GiveUp, RollBack
<1>7. CASE RegisterClient
  BY <1>7 DEF RegisterClient
<1> QED BY <1>1, <1>2, <1>3, <1>4, <1>5, <1>6, <1>7 DEF CognitoFix

\* So do those of the domain and the application.
LEMMA ApplicationIInv ==
    ASSUME IInv, CreateDomain \/ CreateApp \/ StartApplication \/ IndexSale
    PROVE  IInv'
PROOF
<1> USE RequestsFacts, SetupAssumption
    DEF IInv, TypeOK, PutInv, RoleInv, NoUnmappedDocument, StackInv, Resources
<1>1. CASE CreateDomain
  BY <1>1 DEF CreateDomain, Make
<1>2. CASE CreateApp
  BY <1>2 DEF CreateApp, Make
<1>3. CASE StartApplication
  BY <1>3 DEF StartApplication, Make, RollBack
<1>4. CASE IndexSale
  BY <1>4 DEF IndexSale, Permitted
<1> QED BY <1>1, <1>2, <1>3, <1>4

\* So do the completion, the deletion and its retries.
LEMMA StackIInv ==
    ASSUME IInv, Complete \/ Destroy \/ Delete
    PROVE  IInv'
PROOF
<1> USE RequestsFacts, SetupAssumption
    DEF IInv, TypeOK, PutInv, RoleInv, NoUnmappedDocument, StackInv, Resources
<1>1. CASE Complete
  BY <1>1 DEF Complete
<1>2. CASE Destroy
  BY <1>2 DEF Destroy
<1>3. CASE StopApplication
  BY <1>3 DEF StopApplication, Unmake
<1>4. CASE StopRefused
  BY <1>4 DEF StopRefused
<1>5. CASE DeleteApp
  BY <1>5 DEF DeleteApp, Unmake
<1>6. CASE DeleteLambdaResource
  BY <1>6 DEF DeleteLambdaResource, Unmake
<1>7. CASE DeleteDomain
  BY <1>7 DEF DeleteDomain, Unmake
<1>8. CASE Deleted
  BY <1>8 DEF Deleted
<1> QED BY <1>1, <1>2, <1>3, <1>4, <1>5, <1>6, <1>7, <1>8 DEF Delete

\* The invariant holds in every state of every behaviour.
THEOREM Invariance == Spec => []IInv
PROOF
<1>1. IInv /\ Next => IInv'
  BY PutToEsIInv, LambdaIInv, ApplicationIInv, StackIInv DEF Next, Bootstrap
<1>2. IInv /\ UNCHANGED vars => IInv'
  BY DEF IInv, TypeOK, PutInv, RoleInv, NoUnmappedDocument, StackInv, vars
<1> QED BY InitIInv, <1>1, <1>2, PTL DEF Spec
-----------------------------------------------------------------------------
\* The variables keep to the values that CloudFormation and the lambdas give them.
THEOREM TypeCorrect == Spec => []TypeOK
<1>1. IInv => TypeOK
  BY DEF IInv
<1> QED BY Invariance, <1>1, PTL

\* However early the application runs, it writes no document into an index of
\* the alias's name, but for a template that was refused.
THEOREM DocumentsMapped == Spec => []NoUnmappedDocument
<1>1. IInv => NoUnmappedDocument
  BY DEF IInv
<1> QED BY Invariance, <1>1, PTL

\* In a complete stack the identity pool is closed, and the application runs and
\* may write to the alias if the domain has refused nothing.
THEOREM CompleteWorks == Spec => []CompleteIsReady
<1>1. IInv => CompleteIsReady
  BY RequestsFacts DEF IInv, PutInv, StackInv, CompleteIsReady, Permitted, Resources
<1> QED BY Invariance, <1>1, PTL
=============================================================================
