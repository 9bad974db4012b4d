--------------------------- MODULE StackTeardown ---------------------------
(***************************************************************************)
(* The deletion of the whole stack: the batch data generator with the      *)
(* Foundations on which it builds, that is, with the bucket for the logs.  *)
(* EMR clusters and a CloudTrail trail write to the bucket.  It can be     *)
(* deleted only when it is empty, so a custom resource empties it before.  *)
(***************************************************************************)
EXTENDS BatchDatagen

VARIABLES
    logs,     \* the bucket: "empty", "used" or "deleted"
    emptier,  \* whether there still is the custom resource EmptyBucket
    trail,    \* whether there still is the trail
    writer    \* history: who has written after the bucket was emptied

bucketVars == <<logs, emptier, trail, writer>>
allVars == <<vars, bucketVars>>

TInit == Init /\ logs = "empty" /\ emptier = TRUE /\ trail = TRUE /\ writer = {}

Write(w) ==
    /\ logs # "deleted"
    /\ logs' = "used"
    /\ writer' = IF emptier THEN writer ELSE writer \cup {w}
    /\ UNCHANGED <<vars, emptier, trail>>

\* log_uri: a cluster writes its logs as long as it is up.
WriteLog(x) == Live(x) /\ Write(x)

\* The trail reports what happens in the bucket with the audited data.
WriteTrail == trail /\ Write("trail")

\* The Foundations go after everything that builds on them.
FoundationsGo == deleting /\ resources = {} /\ handler = "SUCCESS"

\* Mutant of EmptyBucket: the bucket is emptied as soon as the deletion starts.
EmptyBucketEarly ==
    /\ deleting /\ emptier
    /\ logs' = "empty"
    /\ emptier' = FALSE
    /\ UNCHANGED <<vars, trail, writer>>

\* Deleting the custom resource empties the bucket.  If the handler raises, it
\* stays, and the deletion is tried again.
EmptyBucket ==
    /\ FoundationsGo /\ emptier
    /\ logs' = "empty"
    /\ emptier' = FALSE
    /\ UNCHANGED <<vars, trail, writer>>

\* The trail names the bucket, so it goes first, but in no order with EmptyBucket.
DeleteTrail ==
    /\ FoundationsGo /\ trail
    /\ trail' = FALSE
    /\ UNCHANGED <<vars, logs, emptier, writer>>

\* Refused as long as the bucket is not empty.
DeleteBucket ==
    /\ FoundationsGo /\ ~emptier /\ ~trail /\ logs = "empty"
    /\ logs' = "deleted"
    /\ UNCHANGED <<vars, emptier, trail, writer>>

TNext ==
    \/ Next /\ UNCHANGED bucketVars
    \/ \E x \in Executions : WriteLog(x)
    \/ WriteTrail \/ EmptyBucket \/ DeleteTrail \/ DeleteBucket

\* FairSpec, and CloudFormation, or whoever repeats cdk destroy, goes on.
TSpec ==
    /\ TInit /\ [][TNext]_allVars
    /\ \A x \in Executions :
          WF_allVars(TimeOut(x) /\ UNCHANGED bucketVars) /\ WF_allVars(Abort(x) /\ UNCHANGED bucketVars)
    /\ WF_allVars(DeleteRule /\ UNCHANGED bucketVars)
    /\ WF_allVars(DeleteMachine /\ UNCHANGED bucketVars)
    /\ WF_allVars(EmptyBucket) /\ WF_allVars(DeleteTrail) /\ WF_allVars(DeleteBucket)
-----------------------------------------------------------------------------
\* When the generator has been deleted the bucket follows, whatever clusters there
\* were: it is not emptied too early, nor kept from it but by the trail, or by the
\* cluster of an execution that was started while the stack was being deleted.
BucketFollows ==
    FoundationsGo ~> logs = "deleted" \/ writer \cap (late \cup {"trail"}) # {}
=============================================================================
