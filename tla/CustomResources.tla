-------------------------- MODULE CustomResources --------------------------
(***************************************************************************)
(* The custom resources of the core library that start something and wait  *)
(* for it: a Glue crawler, an Athena query, an EMR managed endpoint and a  *)
(* tag of an Auto Scaling group.  CloudFormation sends a request, the CDK  *)
(* provider calls the handler's on_event once and is_complete until it     *)
(* answers, raises or has taken too long.  A failed creation is rolled     *)
(* back by a deletion, a failed update by an update with the old           *)
(* properties; and whatever an update has replaced is deleted after it.    *)
(***************************************************************************)
EXTENDS Integers, FiniteSets

CONSTANT MaxWork  \* bound on the physical ids that are ever handed out

ASSUME WorkAssumption == MaxWork \in Nat \ {0}

Ids == 1 .. MaxWork
None == 0
Kinds == {"crawler", "query", "endpoint", "tag"}

VARIABLES
    kind,     \* which of the four the resource is; never changes
    stack,    \* the state of the resource in CloudFormation
    event,    \* the request that CloudFormation waits for, or "none"
    waiting,  \* whether on_event has returned, and is_complete is polled
    id,       \* the physical id that CloudFormation has
    new,      \* the one of the request
    replaced, \* the ids that CloudFormation has still to clean up
    work,     \* what each id stands for, as the service sees it
    last,     \* the status of the crawler's last crawl
    raised,   \* history: a call of a service raised, or the polling took too long
    left      \* history: the ids that a clean-up has failed for

vars == <<kind, stack, event, waiting, id, new, replaced, work, last, raised, left>>

\* The states of the four services in common terms: what works and may end, what
\* has ended well, and what has not.
Active == {"RUNNING", "STOPPING"}
Well   == {"SUCCEEDED", "ACTIVE"}
Badly  == {"FAILED", "CANCELLED", "WITH_ERRORS"}
Gone   == {"none", "TERMINATED"}

Init ==
    /\ kind \in Kinds
    /\ stack = "none" /\ event = "none" /\ waiting = FALSE
    /\ id = None /\ new = None /\ replaced = {}
    /\ work = [n \in Ids |-> "none"]
    /\ last \in IF kind = "crawler" THEN {"none", "SUCCEEDED", "FAILED"} ELSE {"none"}
    /\ raised = FALSE /\ left = {}

Unused == {n \in Ids : work[n] = "none"}
-----------------------------------------------------------------------------
(***************************************************************************)
(* The handlers' on_event, as what the service has done when it returns:   *)
(* the id it returns and the new state of the work.                        *)
(***************************************************************************)

\* A crawler has its name as its id.  It cannot be started while it runs.
CrawlerCreate ==
    IF work[1] \in Active THEN {} ELSE {[id |-> 1, work |-> [work EXCEPT ![1] = "RUNNING"]]}

\* Mutant of CrawlerUpdate: it returns no id.
CrawlerUpdateNoId == {[id |-> None, work |-> work]}

CrawlerUpdate == {[id |-> 1, work |-> work]}

\* CrawlerNotRunningException is ignored; a crawler that is stopping raises
\* another.
CrawlerDelete ==
    IF work[1] = "STOPPING" THEN {}
    ELSE {[id |-> 1, work |-> [work EXCEPT ![1] = IF @ = "RUNNING" THEN "STOPPING" ELSE @]]}

\* A query has a new id for each execution, and is not stopped.
QueryCreate == {[id |-> n, work |-> [work EXCEPT ![n] = "RUNNING"]] : n \in Unused}
QueryDelete(n) == {[id |-> n, work |-> work]}

\* So has an endpoint, which is deleted once; the call is accepted as long as it
\* is there.
EndpointCreate == {[id |-> n, work |-> [work EXCEPT ![n] = "RUNNING"]] : n \in Unused}
EndpointDelete(n) ==
    {[id |-> n, work |-> [work EXCEPT ![n] = IF @ \in Active \cup Well THEN "STOPPING" ELSE @]]}

\* A tag has the name of the group and its key as its id, and is there at once;
\* an update keeps the key or takes another.
TagCreate ==
    {[id |-> n, work |-> [work EXCEPT ![n] = "ACTIVE"]] :
        n \in IF event = "UndoUpdate" THEN {id} ELSE Ids}
TagDelete(n) == {[id |-> n, work |-> [work EXCEPT ![n] = "TERMINATED"]]}

OnCreate ==
    CASE kind = "crawler"  -> CrawlerCreate
      [] kind = "query"    -> QueryCreate
      [] kind = "endpoint" -> EndpointCreate
      [] kind = "tag"      -> TagCreate

\* For all but the crawler an update is a creation.
OnUpdate == IF kind = "crawler" THEN CrawlerUpdate ELSE OnCreate

OnDelete(n) ==
    CASE kind = "crawler"  -> CrawlerDelete
      [] kind = "query"    -> QueryDelete(n)
      [] kind = "endpoint" -> EndpointDelete(n)
      [] kind = "tag"      -> TagDelete(n)

OnEvent ==
    CASE event = "Create" -> OnCreate
      [] event \in {"Update", "UndoUpdate"} -> OnUpdate
      [] event \in {"Delete", "Cleanup"} -> OnDelete(new)
-----------------------------------------------------------------------------
(***************************************************************************)
(* The handlers' is_complete: "yes", "no", or "raise".                     *)
(***************************************************************************)

\* A READY crawler is judged by its last crawl, whatever the request was.  It
\* may not have started the one that it was asked for.
CrawlerComplete ==
    LET ready == IF last = "none" THEN "no" ELSE IF last = "SUCCEEDED" THEN "yes" ELSE "raise"
    IN  CASE work[1] = "RUNNING"  -> IF event = "Create" THEN {"no", ready} ELSE {"no"}
          [] work[1] = "STOPPING" -> {"no"}
          [] OTHER                -> {ready}

\* Mutant of QueryComplete: a query that has been cancelled has completed.
QueryCompleteCancelled ==
    IF work[new] = "RUNNING" THEN {"no"}
    ELSE IF work[new] \in {"SUCCEEDED", "CANCELLED"} THEN {"yes"} ELSE {"raise"}

\* The same for a deletion.
QueryComplete ==
    IF work[new] = "RUNNING" THEN {"no"}
    ELSE IF work[new] = "SUCCEEDED" THEN {"yes"} ELSE {"raise"}

\* Mutant of EndpointComplete: it does not look at the kind of request.
EndpointCompleteAnyRequest ==
    IF work[new] = "ACTIVE" THEN {"yes"}
    ELSE IF work[new] \in {"TERMINATED", "WITH_ERRORS", "STOPPING"} THEN {"raise"} ELSE {"no"}

\* The state and the kind of request together: what has ended with errors is
\* neither created nor deleted.
EndpointComplete ==
    IF event \in {"Delete", "Cleanup"}
    THEN IF work[new] = "TERMINATED" THEN {"yes"}
         ELSE IF work[new] = "WITH_ERRORS" THEN {"raise"} ELSE {"no"}
    ELSE IF work[new] = "ACTIVE" THEN {"yes"}
         ELSE IF work[new] \in {"TERMINATED", "WITH_ERRORS", "STOPPING"} THEN {"raise"} ELSE {"no"}

\* The tag has no is_complete.
IsComplete ==
    CASE kind = "crawler"  -> CrawlerComplete
      [] kind = "query"    -> QueryComplete
      [] kind = "endpoint" -> EndpointComplete
      [] kind = "tag"      -> {"yes"}
-----------------------------------------------------------------------------
(***************************************************************************)
(* CloudFormation and the provider.                                        *)
(***************************************************************************)
Send(e, n) == event' = e /\ waiting' = FALSE /\ new' = n

Request(e) ==
    /\ event = "none" /\ replaced = {}
    /\ \/ e = "Create" /\ stack = "none" /\ Send(e, None)
       \/ e = "Update" /\ stack = "created" /\ Send(e, None)
       \/ e = "Delete" /\ stack \in {"created", "deleteFailed"} /\ Send(e, id)
    /\ UNCHANGED <<kind, stack, id, replaced, work, last, raised, left>>

CleanUp(n) ==
    /\ event = "none" /\ n \in replaced
    /\ Send("Cleanup", n)
    /\ UNCHANGED <<kind, stack, id, replaced, work, last, raised, left>>

Call ==
    /\ event # "none" /\ ~waiting
    /\ \E answer \in OnEvent : new' = answer.id /\ work' = answer.work
    /\ waiting' = TRUE
    /\ UNCHANGED <<kind, stack, event, id, replaced, last, raised, left>>

Done == event' = "none" /\ waiting' = FALSE /\ new' = None

\* Mutant of Succeed: what an update has replaced is left to itself.
SucceedForgets ==
    /\ Done
    /\ CASE event \in {"Create", "Update", "UndoUpdate"} ->
              stack' = "created" /\ id' = new /\ replaced' = replaced
         [] event = "Delete" -> stack' = "deleted" /\ id' = None /\ replaced' = replaced
         [] event = "Cleanup" -> replaced' = replaced \ {new} /\ UNCHANGED <<stack, id>>
    /\ UNCHANGED <<kind, work, last, raised, left>>

Succeed ==
    /\ Done
    /\ CASE event \in {"Create", "Update", "UndoUpdate"} ->
              /\ stack' = "created" /\ id' = new
              /\ replaced' = (replaced \cup {id}) \ {new, None}
         [] event = "Delete" -> stack' = "deleted" /\ id' = None /\ replaced' = replaced
         [] event = "Cleanup" -> replaced' = replaced \ {new} /\ UNCHANGED <<stack, id>>
    /\ UNCHANGED <<kind, work, last, raised, left>>

\* A creation is rolled back by a deletion, if it has got as far as an id; the
\* clean-up after an update is tried once.
FailRequest ==
    /\ CASE event = "Create" ->
              /\ id' = new /\ replaced' = replaced /\ left' = left
              /\ IF new = None THEN stack' = "deleted" /\ Done
                 ELSE stack' = stack /\ Send("Delete", new)
         [] event = "Update" ->
              /\ replaced' = (replaced \cup {new}) \ {id, None}
              /\ Send("UndoUpdate", None)
              /\ UNCHANGED <<stack, id, left>>
         [] event = "UndoUpdate" ->
              /\ stack' = "undoFailed" /\ Done
              /\ replaced' = {} /\ left' = left \cup ((replaced \cup {new}) \ {id, None})
              /\ UNCHANGED id
         [] event = "Delete" -> stack' = "deleteFailed" /\ Done /\ UNCHANGED <<id, replaced, left>>
         [] event = "Cleanup" ->
              /\ replaced' = replaced \ {new} /\ left' = left \cup {new} /\ Done
              /\ UNCHANGED <<stack, id>>
    /\ UNCHANGED <<kind, work, last>>

Poll ==
    /\ event # "none" /\ waiting
    /\ \/ "yes" \in IsComplete /\ Succeed
       \/ "raise" \in IsComplete /\ FailRequest /\ raised' = raised

\* A call of a service raises, or is_complete has said no for too long.
Raise ==
    /\ event # "none"
    /\ waiting => "no" \in IsComplete
    /\ FailRequest
    /\ raised' = TRUE
-----------------------------------------------------------------------------
(***************************************************************************)
(* The services.                                                           *)
(***************************************************************************)
WorkEnds(n, how) ==
    /\ work' = [work EXCEPT ![n] = how]
    /\ last' = IF kind = "crawler" THEN how ELSE last
    /\ UNCHANGED <<kind, stack, event, waiting, id, new, replaced, raised, left>>

RunEnds(n) ==
    /\ work[n] = "RUNNING"
    /\ \E how \in IF kind = "endpoint" THEN {"ACTIVE", "WITH_ERRORS"}
                  ELSE {"SUCCEEDED", "FAILED", "CANCELLED"} : WorkEnds(n, how)

StopEnds(n) ==
    /\ work[n] = "STOPPING"
    /\ \E how \in IF kind = "endpoint" THEN {"TERMINATED", "WITH_ERRORS"} ELSE {"CANCELLED"} :
          WorkEnds(n, how)

EndpointBreaks(n) == kind = "endpoint" /\ work[n] = "ACTIVE" /\ WorkEnds(n, "WITH_ERRORS")

Next ==
    \/ \E e \in {"Create", "Update", "Delete"} : Request(e)
    \/ \E n \in Ids : CleanUp(n) \/ RunEnds(n) \/ StopEnds(n) \/ EndpointBreaks(n)
    \/ Call \/ Poll \/ Raise

Spec == Init /\ [][Next]_vars
-----------------------------------------------------------------------------
Statuses == Active \cup Well \cup Badly \cup Gone

\* Every variable keeps to the values the code can give it.
TypeOK ==
    /\ kind \in Kinds
    /\ stack \in {"none", "created", "deleted", "deleteFailed", "undoFailed"}
    /\ event \in {"none", "Create", "Update", "UndoUpdate", "Delete", "Cleanup"}
    /\ waiting \in BOOLEAN /\ raised \in BOOLEAN
    /\ id \in Ids \cup {None} /\ new \in Ids \cup {None}
    /\ replaced \subseteq Ids /\ left \subseteq Ids
    /\ work \in [Ids -> Statuses]
    /\ last \in {"none", "SUCCEEDED", "FAILED", "CANCELLED"}
    /\ event = "none" => ~waiting /\ new = None
    /\ waiting \/ event \in {"Delete", "Cleanup"} => new # None
    /\ stack = "created" => id # None

Settled == event = "none" /\ replaced = {} /\ stack \in {"created", "deleted"}

\* Between requests nothing is there, running or set but what the resource
\* stands for, through any updates, failures and roll-backs, save what a
\* clean-up has failed to delete.
NothingLeftBehind ==
    Settled => \A n \in Ids :
        \/ n \in left \cup {id}
        \/ work[n] \in Gone \cup Badly
        \/ kind \in {"crawler", "query"} /\ work[n] \notin Active

\* A creation or update completes only with its work done: the handler never
\* takes another request's answer for its own.  For a crawler there is an answer
\* of an earlier crawl.
CompletesWithItsWork ==
    [][Poll /\ event \in {"Create", "Update", "UndoUpdate"} /\ event' = "none" /\ stack' = "created" =>
          IF kind = "crawler" THEN last = "SUCCEEDED" ELSE work[new] \in Well]_vars

\* When no call has raised, a deletion fails only since the work had failed: for
\* what has not worked cannot be deleted either.
BlockedByFailedWork ==
    stack = "deleteFailed" /\ event = "none" /\ ~raised =>
        IF kind = "crawler" THEN last # "SUCCEEDED" ELSE work[id] \in Badly
=============================================================================
