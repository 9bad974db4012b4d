----------------------- MODULE CustomResources_proofs -----------------------
(***************************************************************************)
(* Proofs about CustomResources, for any number of physical ids: type      *)
(* correctness, that requests leave nothing behind but what a clean-up has *)
(* failed for, that they complete with their work, and what blocks a       *)
(* deletion.                                                               *)
(***************************************************************************)
EXTENDS CustomResources, TLAPS

Makes    == {"Create", "Update", "UndoUpdate"}
Unmakes  == {"Delete", "Cleanup"}

\* Which ids CloudFormation has at each stage of a request.
IdInv ==
    /\ event \in Makes /\ ~waiting => new = None
    /\ event = "Delete" => new = id
    /\ event = "Cleanup" => new \in replaced /\ stack # "none"
    /\ event = "Delete" \/ stack = "deleteFailed" => replaced = {}
    /\ event \in {"Update", "UndoUpdate"} => stack = "created"
    /\ event = "Create" => stack = "none"
    /\ event \in {"none", "Create"} /\ stack = "none" => id = None /\ replaced = {}
    /\ stack \in {"created", "deleteFailed"} => id # None

\* What the work of each kind of resource can be.
WorkInv ==
    /\ kind = "crawler" =>
          /\ id \in {None, 1} /\ new \in {None, 1} /\ replaced = {}
          /\ \A n \in Ids \ {1} : work[n] = "none"
    /\ kind = "query" =>
          /\ \A n \in Ids : work[n] \in {"none", "RUNNING", "SUCCEEDED", "FAILED", "CANCELLED"}
          /\ \A n \in ({id, new} \cup replaced) \ {None} : work[n] # "none"
    /\ kind = "tag" /\ waiting =>
          work[new] = IF event \in Unmakes THEN "TERMINATED" ELSE "ACTIVE"

\* Nothing is there, running or set for the id.
Quiet(n) == work[n] \in Gone \cup Badly \/ (kind \in {"crawler", "query"} /\ work[n] \notin Active)

\* Whatever is there is known to CloudFormation, or was given up.
CoverInv == \A n \in Ids : n \in left \cup {id, new} \cup replaced \/ Quiet(n)

\* A deletion that has failed by no call stays with what it failed for.
BlockedInv ==
    stack = "deleteFailed" /\ event = "none" /\ ~raised =>
        IF kind = "crawler" THEN last # "SUCCEEDED" /\ work[1] \notin Active
        ELSE work[id] \in Badly

IInv == TypeOK /\ IdInv /\ WorkInv /\ CoverInv /\ BlockedInv

USE WorkAssumption DEF None, Ids, Makes, Unmakes
-----------------------------------------------------------------------------
(***************************************************************************)
(* The handlers.                                                           *)
(***************************************************************************)

\* What on_event has done when it returns: it touches the work of the id that it
\* returns and no other, and a deletion returns the id that it was given.
LEMMA OnEventAnswers ==
    ASSUME TypeOK, IdInv, WorkInv, event # "none", ~waiting, NEW a \in OnEvent
    PROVE  /\ a.id \in Ids /\ a.work \in [Ids -> Statuses]
           /\ \A n \in Ids \ {a.id} : a.work[n] = work[n]
           /\ event \in Unmakes => a.id = new
           /\ kind = "crawler" => a.id = 1
           /\ kind = "query" =>
                 /\ a.work[a.id] \in {"none", "RUNNING", "SUCCEEDED", "FAILED", "CANCELLED"}
                 /\ a.work[a.id] # "none"
           /\ kind = "tag" =>
                 a.work[a.id] = IF event \in Unmakes THEN "TERMINATED" ELSE "ACTIVE"
PROOF
<1>a. 1 \in Ids /\ kind \in Kinds /\ work \in [Ids -> Statuses]
      /\ event \in Makes \cup Unmakes
      /\ (event \in Unmakes => new \in Ids) /\ (event = "UndoUpdate" => id \in Ids)
  BY WorkAssumption DEF TypeOK, IdInv, Ids
<1>b. /\ event = "Create" => OnEvent = OnCreate
      /\ event \in {"Update", "UndoUpdate"} => OnEvent = OnUpdate
      /\ event \in Unmakes => OnEvent = OnDelete(new)
  BY <1>a DEF OnEvent
<1> DEFINE Answer(n, w) ==
               /\ a = [id |-> n, work |-> [work EXCEPT ![n] = w]]
               /\ w \in Statuses
               /\ event \in Unmakes => n = new
               /\ kind = "crawler" => n = 1
               /\ kind = "query" => w \in {"RUNNING", "SUCCEEDED", "FAILED", "CANCELLED"}
               /\ kind = "tag" => w = IF event \in Unmakes THEN "TERMINATED" ELSE "ACTIVE"
<1>c. \A n \in Ids : work[n] \in Statuses /\ work = [work EXCEPT ![n] = work[n]]
  BY <1>a
<1> USE DEF Statuses, Active, Well, Badly, Gone
<1>1. CASE kind = "crawler"
  <2>1. /\ event = "Create" => a \in CrawlerCreate
        /\ event \in {"Update", "UndoUpdate"} => a \in CrawlerUpdate
        /\ event \in Unmakes => a \in CrawlerDelete /\ new = 1
    BY <1>1, <1>a, <1>b DEF OnCreate, OnUpdate, OnDelete, WorkInv
  <2>2. CASE event = "Create"
    <3>1. Answer(1, "RUNNING")
      BY <1>1, <2>1, <2>2 DEF CrawlerCreate
    <3> QED BY <1>a, <3>1
  <2>3. CASE event \in {"Update", "UndoUpdate"}
    <3>1. Answer(1, work[1])
      BY <1>1, <1>a, <1>c, <2>1, <2>3 DEF CrawlerUpdate
    <3> QED BY <1>a, <3>1
  <2>4. CASE event \in Unmakes
    <3>1. Answer(1, IF work[1] = "RUNNING" THEN "STOPPING" ELSE work[1])
      BY <1>1, <1>a, <1>c, <2>1, <2>4 DEF CrawlerDelete
    <3> QED BY <1>a, <3>1
  <2> QED BY <1>a, <2>2, <2>3, <2>4
<1>2. CASE kind = "query"
  <2>1. CASE event \in Makes
    <3>1. PICK n \in Ids : Answer(n, "RUNNING")
      BY <1>2, <1>b, <2>1 DEF OnCreate, OnUpdate, QueryCreate, Unused
    <3> QED BY <1>a, <3>1
  <2>2. CASE event \in Unmakes
    <3>1. work[new] \in {"RUNNING", "SUCCEEDED", "FAILED", "CANCELLED"}
      BY <1>2, <1>a, <2>2 DEF WorkInv
    <3>2. Answer(new, work[new])
      BY <1>2, <1>a, <1>b, <1>c, <2>2, <3>1 DEF OnDelete, QueryDelete
    <3> QED BY <1>a, <2>2, <3>2
  <2> QED BY <1>a, <2>1, <2>2
<1>3. CASE kind = "endpoint"
  <2>1. CASE event \in Makes
    <3>1. PICK n \in Ids : Answer(n, "RUNNING")
      BY <1>3, <1>b, <2>1 DEF OnCreate, OnUpdate, EndpointCreate, Unused
    <3> QED BY <1>a, <1>3, <3>1
  <2>2. CASE event \in Unmakes
    <3>1. Answer(new, IF work[new] \in Active \cup Well THEN "STOPPING" ELSE work[new])
      BY <1>3, <1>a, <1>b, <1>c, <2>2 DEF OnDelete, EndpointDelete
    <3> QED BY <1>a, <1>3, <2>2, <3>1
  <2> QED BY <1>a, <2>1, <2>2
<1>4. CASE kind = "tag"
  <2>1. CASE event \in Makes
    <3>1. PICK n \in Ids : Answer(n, "ACTIVE")
      BY <1>4, <1>a, <1>b, <2>1 DEF OnCreate, OnUpdate, TagCreate
    <3> QED BY <1>a, <1>4, <3>1
  <2>2. CASE event \in Unmakes
    <3>1. Answer(new, "TERMINATED")
      BY <1>4, <1>b, <2>2 DEF OnDelete, TagDelete
    <3> QED BY <1>a, <1>4, <2>2, <3>1
  <2> QED BY <1>a, <2>1, <2>2
<1> QED BY <1>a, <1>1, <1>2, <1>3, <1>4 DEF Kinds

\* What is_complete says: of a creation or update, that it works; of a deletion,
\* that it is quiet, or why it is not.
LEMMA IsCompleteAnswers ==
    ASSUME TypeOK, WorkInv, event # "none", waiting
    PROVE  /\ "yes" \in IsComplete /\ event \in Makes =>
                 IF kind = "crawler" THEN last = "SUCCEEDED" ELSE work[new] \in Well
           /\ "yes" \in IsComplete /\ event \in Unmakes => Quiet(new)
           /\ "raise" \in IsComplete /\ event \in Unmakes =>
                 IF kind = "crawler" THEN last # "SUCCEEDED" /\ work[1] \notin Active
                 ELSE work[new] \in Badly
PROOF
<1>a. /\ new \in Ids /\ kind \in Kinds /\ work[new] \in Statuses
      /\ event \in Makes \cup Unmakes /\ ~(event \in Makes /\ event \in Unmakes)
      /\ last \in {"none", "SUCCEEDED", "FAILED", "CANCELLED"}
  BY DEF TypeOK
<1> USE <1>a DEF IsComplete, Quiet, Statuses, Active, Well, Badly, Gone
<1>1. CASE kind = "crawler"
  BY <1>1 DEF CrawlerComplete, WorkInv
<1>2. CASE kind = "query"
  BY <1>2 DEF QueryComplete, WorkInv
<1>3. CASE kind = "endpoint"
  BY <1>3 DEF EndpointComplete
<1>4. CASE kind = "tag"
  BY <1>4 DEF WorkInv
<1> QED BY <1>1, <1>2, <1>3, <1>4 DEF Kinds
-----------------------------------------------------------------------------
(***************************************************************************)
(* The invariant.                                                          *)
(***************************************************************************)
LEMMA InitIInv == Init => IInv
PROOF
<1> SUFFICES ASSUME Init PROVE IInv
  OBVIOUS
<1>1. TypeOK
  BY DEF Init, TypeOK, Statuses, Gone
<1>2. IdInv /\ WorkInv /\ CoverInv /\ BlockedInv
  BY DEF Init, IdInv, WorkInv, CoverInv, BlockedInv, Quiet, Gone
<1> QED BY <1>1, <1>2 DEF IInv

\* A request of CloudFormation keeps the invariant.
LEMMA SendIInv ==
    ASSUME IInv, (\E e \in {"Create", "Update", "Delete"} : Request(e)) \/ (\E n \in Ids : CleanUp(n))
    PROVE  IInv'
PROOF
<1> USE DEF IInv, TypeOK, IdInv, WorkInv, CoverInv, BlockedInv, Quiet, Send
<1>1. CASE Request("Create")
  BY <1>1 DEF Request
<1>2. CASE Request("Update")
  BY <1>2 DEF Request
<1>3. CASE Request("Delete")
  <2>1. TypeOK'
    BY <1>3 DEF Request
  <2>2. IdInv'
    BY <1>3 DEF Request
  <2>3. WorkInv'
    BY <1>3 DEF Request
  <2>4. CoverInv'
    BY <1>3 DEF Request
  <2>5. BlockedInv'
    BY <1>3 DEF Request
  <2> QED BY <2>1, <2>2, <2>3, <2>4, <2>5
<1>4. ASSUME NEW n \in Ids, CleanUp(n)
      PROVE  IInv'
  <2>1. TypeOK'
    <3>1. n \in Ids \cup {None} /\ n # None
      OBVIOUS
    <3>2. /\ event' = "Cleanup" /\ waiting' = FALSE /\ new' = n
          /\ UNCHANGED <<kind, stack, id, replaced, work, last, raised, left>>
      BY <1>4 DEF CleanUp
    <3> QED BY <3>1, <3>2
  <2>2. IdInv'
    BY <1>4 DEF CleanUp
  <2>3. WorkInv'
    BY <1>4 DEF CleanUp
  <2>4. CoverInv'
    BY <1>4 DEF CleanUp
  <2>5. BlockedInv'
    BY <1>4 DEF CleanUp
  <2> QED BY <2>1, <2>2, <2>3, <2>4, <2>5
<1> QED BY <1>1, <1>2, <1>3, <1>4

\* So does a call of on_event.
LEMMA CallIInv == IInv /\ Call => IInv'
PROOF
<1> SUFFICES ASSUME IInv, Call PROVE IInv'
  OBVIOUS
<1>1. PICK a \in OnEvent : new' = a.id /\ work' = a.work
  BY DEF Call
<1>2. /\ a.id \in Ids /\ a.work \in [Ids -> Statuses]
      /\ \A n \in Ids \ {a.id} : a.work[n] = work[n]
      /\ event \in Unmakes => a.id = new
      /\ kind = "crawler" => a.id = 1
      /\ kind = "query" =>
            /\ a.work[a.id] \in {"none", "RUNNING", "SUCCEEDED", "FAILED", "CANCELLED"}
            /\ a.work[a.id] # "none"
      /\ kind = "tag" =>
            a.work[a.id] = IF event \in Unmakes THEN "TERMINATED" ELSE "ACTIVE"
  BY OnEventAnswers DEF IInv, Call
<1>3. /\ event # "none" /\ ~waiting /\ waiting' = TRUE
      /\ UNCHANGED <<kind, stack, event, id, replaced, last, raised, left>>
  BY DEF Call
<1>4. TypeOK'
  BY <1>1, <1>2, <1>3 DEF IInv, TypeOK, Ids
<1>5. IdInv'
  BY <1>1, <1>2, <1>3 DEF IInv, IdInv
<1>6. WorkInv'
  BY <1>1, <1>2, <1>3 DEF IInv, TypeOK, IdInv, WorkInv
<1>7. CoverInv'
  BY <1>1, <1>2, <1>3 DEF IInv, TypeOK, IdInv, CoverInv, Quiet
<1>8. BlockedInv'
  BY <1>3 DEF BlockedInv
<1> QED BY <1>4, <1>5, <1>6, <1>7, <1>8 DEF IInv

\* So does an answer of is_complete that the work is done.
LEMMA SucceedIInv ==
    ASSUME IInv, event # "none", waiting, "yes" \in IsComplete, Succeed
    PROVE  IInv'
PROOF
<1>1. event \in Unmakes => Quiet(new)
  BY IsCompleteAnswers DEF IInv
<1>2. new # None
  BY DEF IInv, TypeOK
<1> USE <1>1, <1>2 DEF IInv, TypeOK, IdInv, WorkInv, CoverInv, BlockedInv, Quiet, Succeed, Done
<1>3. CASE event \in Makes
  <2>1. TypeOK'
    BY <1>3
  <2>2. IdInv'
    BY <1>3
  <2>3. WorkInv'
    BY <1>3
  <2>4. CoverInv'
    BY <1>3
  <2>5. BlockedInv'
    BY <1>3
  <2> QED BY <2>1, <2>2, <2>3, <2>4, <2>5
<1>4. CASE event = "Delete"
  BY <1>4
<1>5. CASE event = "Cleanup"
  <2>1. TypeOK'
    BY <1>5
  <2>2. IdInv'
    BY <1>5
  <2>3. WorkInv'
    BY <1>5
  <2>4. CoverInv'
    BY <1>5
  <2>5. BlockedInv'
    BY <1>5
  <2> QED BY <2>1, <2>2, <2>3, <2>4, <2>5
<1> QED BY <1>3, <1>4, <1>5

\* So does a request that fails, by a call that raises or by is_complete.
LEMMA FailIInv ==
    ASSUME IInv, event # "none", FailRequest,
           \/ raised' = TRUE
           \/ waiting /\ "raise" \in IsComplete /\ raised' = raised
    PROVE  IInv'
PROOF
<1>1. raised' \in BOOLEAN
  BY DEF IInv, TypeOK
<1>2. event \in Unmakes /\ ~raised' =>
          IF kind = "crawler" THEN last # "SUCCEEDED" /\ work[1] \notin Active
          ELSE work[new] \in Badly
  BY IsCompleteAnswers DEF IInv
<1> USE <1>1, <1>2
    DEF IInv, TypeOK, IdInv, WorkInv, CoverInv, BlockedInv, Quiet, FailRequest, Done, Send
<1>3. CASE event = "Create"
  <2>1. TypeOK'
    BY <1>3
  <2>2. IdInv'
    BY <1>3
  <2>3. WorkInv'
    BY <1>3
  <2>4. CoverInv'
    BY <1>3
  <2>5. BlockedInv'
    BY <1>3
  <2> QED BY <2>1, <2>2, <2>3, <2>4, <2>5
<1>4. CASE event = "Update"
  BY <1>4
<1>5. CASE event = "UndoUpdate"
  BY <1>5
<1>6. CASE event = "Delete"
  BY <1>6
<1>7. CASE event = "Cleanup"
  <2>1. TypeOK'
    BY <1>7
  <2>2. IdInv'
    BY <1>7
  <2>3. WorkInv'
    BY <1>7
  <2>4. CoverInv'
    BY <1>7
  <2>5. BlockedInv'
    BY <1>7
  <2> QED BY <2>1, <2>2, <2>3, <2>4, <2>5
<1> QED BY <1>3, <1>4, <1>5, <1>6, <1>7

\* So does what the services do meanwhile.
LEMMA WorkEndsIInv ==
    ASSUME IInv, NEW n \in Ids, RunEnds(n) \/ StopEnds(n) \/ EndpointBreaks(n)
    PROVE  IInv'
PROOF
<1> USE DEF IInv, TypeOK, IdInv, WorkInv, CoverInv, BlockedInv, Quiet, WorkEnds,
            Statuses, Active, Well, Badly, Gone
<1>1. CASE RunEnds(n)
  BY <1>1 DEF RunEnds
<1>2. CASE StopEnds(n)
  BY <1>2 DEF StopEnds
<1>3. CASE EndpointBreaks(n)
  BY <1>3 DEF EndpointBreaks
<1> QED BY <1>1, <1>2, <1>3

\* The invariant holds in every state of every behaviour.
THEOREM Invariance == Spec => []IInv
PROOF
<1>1. IInv /\ Poll => IInv'
  BY SucceedIInv, FailIInv DEF Poll
<1>2. IInv /\ Raise => IInv'
  BY FailIInv DEF Raise
<1>3. IInv /\ Next => IInv'
  BY <1>1, <1>2, SendIInv, CallIInv, WorkEndsIInv DEF Next
<1>4. IInv /\ UNCHANGED vars => IInv'
  BY DEF IInv, TypeOK, IdInv, WorkInv, CoverInv, BlockedInv, Quiet, vars
<1> QED BY InitIInv, <1>3, <1>4, PTL DEF Spec
-----------------------------------------------------------------------------
\* The variables keep to the values that the requests and the services give them.
THEOREM TypeCorrect == Spec => []TypeOK
<1>1. IInv => TypeOK
  BY DEF IInv
<1> QED BY Invariance, <1>1, PTL

\* Between requests there is nothing but what the resource stands for.
THEOREM NothingIsLeft == Spec => []NothingLeftBehind
<1>1. IInv => NothingLeftBehind
  BY DEF IInv, TypeOK, CoverInv, Quiet, NothingLeftBehind, Settled
<1> QED BY Invariance, <1>1, PTL

\* Only failed work keeps a deletion from succeeding when no call has raised.
THEOREM OnlyFailedWorkBlocks == Spec => []BlockedByFailedWork
<1>1. IInv => BlockedByFailedWork
  BY DEF IInv, BlockedInv, BlockedByFailedWork
<1> QED BY Invariance, <1>1, PTL

\* A request completes by a poll only with its work done.
THEOREM CompletionsAreTrue == Spec => CompletesWithItsWork
<1>1. IInv /\ [Next]_vars =>
      [Poll /\ event \in {"Create", "Update", "UndoUpdate"} /\ event' = "none" /\ stack' = "created" =>
          IF kind = "crawler" THEN last = "SUCCEEDED" ELSE work[new] \in Well]_vars
  <2> SUFFICES ASSUME IInv, Poll, event \in Makes, event' = "none", stack' = "created"
               PROVE  IF kind = "crawler" THEN last = "SUCCEEDED" ELSE work[new] \in Well
    OBVIOUS
  <2>1. ~FailRequest
    BY DEF FailRequest, Done, Send
  <2> QED BY <2>1, IsCompleteAnswers DEF IInv, Poll
<1> QED BY Invariance, <1>1, PTL DEF Spec, CompletesWithItsWork
=============================================================================
