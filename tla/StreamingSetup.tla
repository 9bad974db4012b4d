--------------------------- MODULE StreamingSetup ---------------------------
(***************************************************************************)
(* The creation and deletion of the streaming module's stack: the          *)
(* Elasticsearch domain, the lambda that registers the template, the roles *)
(* and the first index in it, the lambda that closes the identity pool,    *)
(* and the Flink application, which writes to the domain as soon as it     *)
(* runs.  Only the domain orders the three: the application may start      *)
(* before, while or after the lambdas run.                                 *)
(***************************************************************************)
EXTENDS Integers, Sequences, SequencesExt

CONSTANT MaxPolls  \* of the list of user pool clients: 83

ASSUME SetupAssumption == MaxPolls \in Nat \ {0}

Resources == {"domain", "bootstrap", "cognito", "app", "start"}

\* Mutant of Requests: the roles are registered before the template.
RequestsRolesFirst ==
    <<"delivery_role", "role_mapping", "log_delivery", "rollover_policy",
      "template", "ara-sales-1">>

\* Mutant of Requests: the first index is left to the application.
RequestsNoIndex ==
    <<"template", "delivery_role", "role_mapping", "log_delivery", "rollover_policy">>

\* What lambda_handler puts, in this order.
Requests ==
    <<"template", "delivery_role", "role_mapping", "log_delivery", "rollover_policy",
      "ara-sales-1">>

VARIABLES
    stack,    \* the state of the stack
    made,     \* the resources that CloudFormation has created or tried to
    es,       \* what is registered in the domain
    alias,    \* whether the first index has the template's alias ara-write
    docs,     \* the indices with documents of the application
    put,      \* the bootstrap lambda: its next request; 0 when it does not run
    refused,  \* history: the requests of the lambda that were refused
    fix,      \* the Cognito lambda
    polls,    \* how often it has asked
    clients,  \* the clients AWSElasticsearch... of the user pool
    pool,     \* for whom the identity pool has a role
    app       \* the application

lambdaVars == <<put, refused, fix, polls, clients, pool>>
esVars == <<es, alias, docs>>
vars == <<stack, made, esVars, lambdaVars, app>>

Init ==
    /\ stack = "creating"
    /\ made = {} /\ es = {} /\ alias = FALSE /\ docs = {}
    /\ put = 0 /\ refused = {}
    /\ fix = "none" /\ polls = 0 /\ clients = 0
    /\ pool = "authenticated"
    /\ app = "none"

Make(r, needed) ==
    /\ stack = "creating"
    /\ r \notin made /\ needed \subseteq made
    /\ made' = made \cup {r}

CreateDomain ==
    /\ Make("domain", {})
    /\ UNCHANGED <<stack, esVars, lambdaVars, app>>

\* A domain with Cognito registers a client with the user pool in its own time.
RegisterClient ==
    /\ "domain" \in made /\ clients < 2
    /\ clients' = clients + 1
    /\ UNCHANGED <<stack, made, esVars, put, refused, fix, polls, pool, app>>
-----------------------------------------------------------------------------
InvokeBootstrap ==
    /\ Make("bootstrap", {"domain"})
    /\ put' = 1
    /\ UNCHANGED <<stack, esVars, refused, fix, polls, clients, pool, app>>

Bootstrapping == put \in DOMAIN Requests

\* The domain refuses a mapping for a role that it does not have, and an index
\* whose alias is the name of an index.
Acceptable(r) ==
    /\ r = "role_mapping" => "delivery_role" \in es
    /\ r = "ara-sales-1" => ~("template" \in es /\ "ara-write" \in docs)

\* put_to_es logs the answer, whatever it says, and the lambda goes on.
PutToEs ==
    LET r == Requests[put] IN
    /\ Bootstrapping /\ "domain" \in made
    /\ \/ /\ Acceptable(r)
          /\ es' = es \cup {r}
          /\ alias' = IF r = "ara-sales-1" THEN "template" \in es ELSE alias
          /\ refused' = refused
       \/ /\ refused' = refused \cup {r}
          /\ UNCHANGED <<es, alias>>
    /\ put' = put + 1
    /\ UNCHANGED <<stack, made, docs, fix, polls, clients, pool, app>>

\* An error in the creation rolls it back.
RollBack == stack' = IF stack = "creating" THEN "deleting" ELSE stack

\* No answer, no role to assume, or the timeout.
BootstrapRaises ==
    /\ Bootstrapping
    /\ put' = 0
    /\ RollBack
    /\ UNCHANGED <<made, esVars, refused, fix, polls, clients, pool, app>>
-----------------------------------------------------------------------------
InvokeCognitoFix ==
    /\ Make("cognito", {"domain"})
    /\ fix' = "polling"
    /\ UNCHANGED <<stack, esVars, put, refused, polls, clients, pool, app>>

\* One client is needed: with none or several, find_auth_provider has nothing.
FindAuthProvider == clients = 1

UpdateIdentityPool ==
    /\ fix = "polling" /\ polls < MaxPolls /\ FindAuthProvider
    /\ pool' = "group"
    /\ fix' = "done"
    /\ UNCHANGED <<stack, made, esVars, put, refused, polls, clients, app>>

\* Mutant of PollAgain: one poll too many.
PollOnceMore ==
    /\ fix = "polling" /\ polls <= MaxPolls /\ ~FindAuthProvider
    /\ polls' = polls + 1
    /\ UNCHANGED <<stack, made, esVars, put, refused, fix, clients, pool, app>>

PollAgain ==
    /\ fix = "polling" /\ polls < MaxPolls /\ ~FindAuthProvider
    /\ polls' = polls + 1
    /\ UNCHANGED <<stack, made, esVars, put, refused, fix, clients, pool, app>>

\* Mutant of GiveUp: the loop has no else branch.
GiveUpQuietly ==
    /\ fix = "polling" /\ polls = MaxPolls
    /\ fix' = "done"
    /\ UNCHANGED <<stack, made, esVars, put, refused, polls, clients, pool, app>>

GiveUp ==
    /\ fix = "polling" /\ polls = MaxPolls
    /\ fix' = "failed"
    /\ RollBack
    /\ UNCHANGED <<made, esVars, put, refused, polls, clients, pool, app>>
-----------------------------------------------------------------------------
\* The application names the domain's endpoint.
CreateApp ==
    /\ Make("app", {"domain"})
    /\ app' = "ready"
    /\ UNCHANGED <<stack, esVars, lambdaVars>>

\* startApplication, or its failure.
StartApplication ==
    /\ Make("start", {"app"})
    /\ \/ app' = "running" /\ stack' = stack
       \/ app' = app /\ RollBack
    /\ UNCHANGED <<esVars, lambdaVars>>

\* The role of the application is mapped to a role with the rights on ara-*.
Permitted == {"delivery_role", "role_mapping"} \subseteq es

\* A bulk request names ara-write: the alias, if there is one, or an index of
\* this name, which the domain creates, unless a template gives it an alias of
\* its own name.  A request that is not accepted makes the job fail, restart and
\* send it again.
IndexSale ==
    /\ app = "running" /\ "domain" \in made /\ Permitted
    /\ alias \/ "template" \notin es
    /\ docs' = docs \cup {IF alias THEN "ara-sales-1" ELSE "ara-write"}
    /\ UNCHANGED <<stack, made, es, alias, lambdaVars, app>>
-----------------------------------------------------------------------------
Complete ==
    /\ stack = "creating" /\ made = Resources
    /\ put = Len(Requests) + 1 /\ fix = "done"
    /\ stack' = "complete"
    /\ UNCHANGED <<made, esVars, lambdaVars, app>>

\* Destroy a stack that is complete, or whose deletion has failed.
Destroy ==
    /\ stack \in {"complete", "failed"}
    /\ stack' = "deleting"
    /\ UNCHANGED <<made, esVars, lambdaVars, app>>

\* What depends on a resource goes before it.
Unmake(r, dependent) ==
    /\ stack = "deleting"
    /\ r \in made /\ made \cap dependent = {}
    /\ made' = made \ {r}

\* stopApplication; it is refused for an application that has not started.
StopApplication ==
    /\ Unmake("start", {}) /\ app = "running"
    /\ app' = "ready"
    /\ UNCHANGED <<stack, esVars, lambdaVars>>

StopRefused ==
    /\ stack = "deleting" /\ "start" \in made /\ app # "running"
    /\ stack' = "failed"
    /\ UNCHANGED <<made, esVars, lambdaVars, app>>

DeleteApp ==
    /\ Unmake("app", {"start"})
    /\ app' = "none"
    /\ UNCHANGED <<stack, esVars, lambdaVars>>

\* Both lambdas do nothing on deletion.
DeleteLambdaResource ==
    /\ \E r \in {"bootstrap", "cognito"} : Unmake(r, {})
    /\ UNCHANGED <<stack, esVars, lambdaVars, app>>

DeleteDomain ==
    /\ Unmake("domain", {"bootstrap", "cognito", "app"})
    /\ es' = {} /\ alias' = FALSE /\ docs' = {}
    /\ UNCHANGED <<stack, lambdaVars, app>>

Deleted ==
    /\ stack = "deleting" /\ made = {}
    /\ stack' = "deleted"
    /\ UNCHANGED <<made, esVars, lambdaVars, app>>

Bootstrap == InvokeBootstrap \/ PutToEs \/ BootstrapRaises
CognitoFix == InvokeCognitoFix \/ UpdateIdentityPool \/ PollAgain \/ GiveUp
Delete == StopApplication \/ StopRefused \/ DeleteApp \/ DeleteLambdaResource
          \/ DeleteDomain \/ Deleted

Next ==
    \/ CreateDomain \/ RegisterClient \/ Bootstrap \/ CognitoFix
    \/ CreateApp \/ StartApplication \/ IndexSale
    \/ Complete \/ Destroy \/ Delete

\* CloudFormation and the lambdas go on, and so does a running application.
Spec ==
    /\ Init /\ [][Next]_vars
    /\ WF_vars(Bootstrap) /\ WF_vars(CognitoFix) /\ WF_vars(IndexSale) /\ WF_vars(Delete)
-----------------------------------------------------------------------------
Refusable == ToSet(Requests)

\* Every variable keeps to the values the code can give it.
TypeOK ==
    /\ stack \in {"creating", "complete", "deleting", "failed", "deleted"}
    /\ made \subseteq Resources
    /\ es \subseteq Refusable /\ refused \subseteq Refusable
    /\ alias \in BOOLEAN
    /\ docs \subseteq {"ara-sales-1", "ara-write"}
    /\ put \in 0 .. Len(Requests) + 1
    /\ fix \in {"none", "polling", "done", "failed"}
    /\ polls \in 0 .. MaxPolls /\ clients \in 0 .. 2
    /\ pool \in {"authenticated", "group"}
    /\ app \in {"none", "ready", "running"}

\* A document is in an index with the template's mapping, although the
\* application runs before the index is there: it gets the rights to write only
\* after the template.  (A template that was refused is the exception.)
NoUnmappedDocument == "ara-write" \in docs => "template" \in refused

\* When the stack is complete the identity pool gives no role to a user without
\* a group, and the application can write, if nothing was refused.
CompleteIsReady ==
    stack = "complete" =>
        /\ pool = "group"
        /\ refused = {} => app = "running" /\ Permitted /\ alias

\* What the application sends is indexed some time after it has started, for
\* the first sales are sent again until the lambda has done its work.
SalesIndexed ==
    app = "running" ~> docs # {} \/ refused # {} \/ stack = "deleting"
=============================================================================
