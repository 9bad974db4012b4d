----------------------------- MODULE StreamFeed -----------------------------
(***************************************************************************)
(* The stream data generator.  Executions of a state machine run a step on *)
(* an EMR cluster; the step writes CSV files to a bucket; each new file is *)
(* announced to a lambda, which puts its rows on a Kinesis stream and      *)
(* deletes the file.  S3 announces a file at least once, and Lambda calls  *)
(* a function that raises again.                                           *)
(***************************************************************************)
EXTENDS Integers, FiniteSets

CONSTANTS
    Executions,   \* executions of the state machine that may be started
    Trigger,      \* the one that the custom resource starts
    Files,        \* the files that the steps write
    Writer,       \* the execution whose step writes a file
    Directory,    \* where it writes it: "sale", "customer" or "address"
    Rows,         \* the number of rows of a file
    ChunkSize,    \* rows in one request: 500
    Deliveries,   \* announcements of one file
    MaxAttempts   \* calls of the lambda for an announcement: one and two retries

ASSUME FeedAssumption ==
    /\ Trigger \in Executions
    /\ Writer \in [Files -> Executions]
    /\ Directory \in [Files -> {"sale", "customer", "address"}]
    /\ Rows \in [Files -> Nat]
    /\ ChunkSize \in Nat \ {0}
    /\ 1 \in Deliveries /\ MaxAttempts \in Nat \ {0}

\* The three lambdas: the names for which they are called, and their streams.
SaleGenerator     == [prefix |-> "sale", stream |-> "web_sale"]
CustomerGenerator == [prefix |-> "customer", stream |-> "web_customer"]
AddressGenerator  == [prefix |-> "address", stream |-> "web_customer_address"]
Generators == {SaleGenerator, CustomerGenerator, AddressGenerator}
Streams == {"web_sale", "web_customer", "web_customer_address"}

GeneratorOf(f) == CHOOSE g \in Generators : g.prefix = Directory[f]

Records == UNION {{f} \X (1 .. Rows[f]) : f \in Files}

VARIABLES
    state,     \* the state each execution is in, or how it has ended
    step,      \* its step on the cluster
    cluster,   \* whether the cluster is up
    iterator,  \* stream_iterator in the configuration table
    file,      \* each file: "none", "stored" or "deleted"
    call,      \* the lambda for each announcement of a file
    stream,    \* the records that the streams have accepted
    refused    \* those that they have refused, in an answer nobody reads

generatorVars == <<state, step, cluster, iterator>>
feedVars == <<file, call, stream, refused>>
vars == <<generatorVars, feedVars>>

Calls == [at : {"none", "queued", "sending", "done", "dropped"},
          attempt : 0 .. MaxAttempts, sent : Nat]

NoCall == [at |-> "none", attempt |-> 0, sent |-> 0]

Init ==
    /\ state = [x \in Executions |-> "new"]
    /\ step = [x \in Executions |-> "none"]
    /\ cluster = TRUE
    /\ iterator = 0
    /\ file = [f \in Files |-> "none"]
    /\ call = [f \in Files |-> [n \in Deliveries |-> NoCall]]
    /\ stream = [s \in Streams |-> {}]
    /\ refused = {}
-----------------------------------------------------------------------------
Go(x, from, to) == state[x] = from /\ state' = [state EXCEPT ![x] = to]

\* The rule passes the id of the cluster, the custom resource passes nothing.
HasClusterId(x) == x # Trigger

Start(x) ==
    /\ Go(x, "new", "configure")
    /\ UNCHANGED <<step, cluster, iterator, feedVars>>

Configure(x) ==
    /\ Go(x, "configure", "add")
    /\ UNCHANGED <<step, cluster, iterator, feedVars>>

\* On entering the state.
AddStep(x) ==
    /\ state[x] = "add" /\ step[x] = "none"
    /\ HasClusterId(x) /\ cluster
    /\ step' = [step EXCEPT ![x] = "running"]
    /\ UNCHANGED <<state, cluster, iterator, feedVars>>

\* addStep.sync waits for the step, which has written all its files.
StepDone(x) ==
    /\ step[x] = "running"
    /\ \A f \in Files : Writer[f] = x => file[f] # "none"
    /\ step' = [step EXCEPT ![x] = "completed"]
    /\ Go(x, "add", "update")
    /\ UNCHANGED <<cluster, iterator, feedVars>>

UpdateIterator(x) ==
    /\ Go(x, "update", "succeeded")
    /\ iterator' = iterator + 1
    /\ UNCHANGED <<step, cluster, feedVars>>

\* No state has a Catch.  An execution also fails after 30 minutes; its step
\* runs on.
Fail(x) ==
    /\ \E from \in {"configure", "add", "update"} : Go(x, from, "failed")
    /\ UNCHANGED <<step, cluster, iterator, feedVars>>

\* A step fails, by itself or with its cluster, which nothing starts again.
StepFails(x) ==
    /\ step[x] = "running"
    /\ step' = [step EXCEPT ![x] = "failed"]
    /\ cluster' \in {cluster, FALSE}
    /\ UNCHANGED <<state, iterator, feedVars>>

\* A step writes a file, and S3 announces it.
WriteFile(f) ==
    /\ step[Writer[f]] = "running" /\ cluster
    /\ file[f] = "none"
    /\ file' = [file EXCEPT ![f] = "stored"]
    /\ call' = [call EXCEPT ![f][1].at = "queued"]
    /\ UNCHANGED <<generatorVars, stream, refused>>
-----------------------------------------------------------------------------
\* S3 announces the file once more.
AnnounceAgain(f, n) ==
    /\ file[f] # "none" /\ call[f][n].at = "none"
    /\ call' = [call EXCEPT ![f][n].at = "queued"]
    /\ UNCHANGED <<generatorVars, file, stream, refused>>

\* get_object: from here on the lambda has the whole file.
GetObject(f, n) ==
    /\ call[f][n].at = "queued" /\ file[f] = "stored"
    /\ call' = [call EXCEPT ![f][n] = [at |-> "sending", attempt |-> @.attempt + 1, sent |-> 0]]
    /\ UNCHANGED <<generatorVars, file, stream, refused>>

\* Mutant of NextRows: whole chunks only.
NextRowsWhole(f, sent) ==
    {i \in 1 .. Rows[f] : sent < i /\ i <= sent + ChunkSize /\ sent + ChunkSize <= Rows[f]}

\* The rows of the next request: a chunk, or what remains of the file.
NextRows(f, sent) == {i \in 1 .. Rows[f] : sent < i /\ i <= sent + ChunkSize}

\* put_records for the next rows, of which the stream takes some.
Put(f, n, taken) ==
    LET rows == NextRows(f, call[f][n].sent) IN
    /\ call[f][n].at = "sending" /\ rows # {}
    /\ stream' = [stream EXCEPT ![GeneratorOf(f).stream] = @ \cup {<<f, i>> : i \in taken}]

\* The answer is ignored, with what it says of rows that were refused.
PutRecords(f, n) ==
    LET rows == NextRows(f, call[f][n].sent) IN
    \E taken \in SUBSET rows :
        /\ Put(f, n, taken)
        /\ refused' = refused \cup {<<f, i>> : i \in rows \ taken}
        /\ call' = [call EXCEPT ![f][n].sent = @ + Cardinality(rows)]
        /\ UNCHANGED <<generatorVars, file>>

\* delete_object, which does not mind an object that is not there.
DeleteObject(f, n) ==
    /\ call[f][n].at = "sending" /\ NextRows(f, call[f][n].sent) = {}
    /\ file' = [file EXCEPT ![f] = "deleted"]
    /\ call' = [call EXCEPT ![f][n] = [NoCall EXCEPT !.at = "done"]]
    /\ UNCHANGED <<generatorVars, stream, refused>>

\* Mutant of Retry: there is no limit.
RetryForever(c) == [NoCall EXCEPT !.at = "queued"]

\* Mutant of Retry: one call too many.
RetryOnceMore(c) ==
    IF c.attempt <= MaxAttempts THEN [c EXCEPT !.at = "queued", !.sent = 0]
    ELSE [NoCall EXCEPT !.at = "dropped"]

\* After an exception Lambda calls the function again, up to the limit, from the
\* start of the file.
Retry(c) ==
    IF c.attempt < MaxAttempts THEN [c EXCEPT !.at = "queued", !.sent = 0]
    ELSE [NoCall EXCEPT !.at = "dropped"]

\* The lambda raises or runs into its timeout before a request or after it.
Raise(f, n) ==
    /\ call[f][n].at = "sending"
    /\ \/ stream' = stream
       \/ Put(f, n, NextRows(f, call[f][n].sent))
    /\ call' = [call EXCEPT ![f][n] = Retry(@)]
    /\ UNCHANGED <<generatorVars, file, refused>>

\* It raises since another call for the file has deleted it.
NoSuchKey(f, n) ==
    /\ call[f][n].at = "queued" /\ file[f] = "deleted"
    /\ call' = [call EXCEPT ![f][n] = Retry([call[f][n] EXCEPT !.attempt = @ + 1])]
    /\ UNCHANGED <<generatorVars, file, stream, refused>>

Invoke(f, n) ==
    GetObject(f, n) \/ PutRecords(f, n) \/ DeleteObject(f, n) \/ Raise(f, n) \/ NoSuchKey(f, n)

Next ==
    \/ \E x \in Executions :
          \/ Start(x) \/ Configure(x) \/ AddStep(x) \/ StepDone(x)
          \/ UpdateIterator(x) \/ Fail(x) \/ StepFails(x)
    \/ \E f \in Files :
          \/ WriteFile(f)
          \/ \E n \in Deliveries : AnnounceAgain(f, n) \/ Invoke(f, n)

\* Lambda calls what is queued, and a call ends, one way or another.
FairSpec ==
    Init /\ [][Next]_vars /\ \A f \in Files, n \in Deliveries : WF_vars(Invoke(f, n))
Spec == Init /\ [][Next]_vars
-----------------------------------------------------------------------------
\* Every variable keeps to the values the code can give it.
TypeOK ==
    /\ state \in [Executions -> {"new", "configure", "add", "update", "succeeded", "failed"}]
    /\ step \in [Executions -> {"none", "running", "completed", "failed"}]
    /\ cluster \in BOOLEAN
    /\ iterator \in Nat
    /\ file \in [Files -> {"none", "stored", "deleted"}]
    /\ call \in [Files -> [Deliveries -> Calls]]
    /\ stream \in [Streams -> SUBSET Records]
    /\ refused \subseteq Records

\* The stream from which the streaming application reads the rows of a directory.
StreamOf == [sale |-> "web_sale", customer |-> "web_customer",
             address |-> "web_customer_address"]

\* A file is deleted only when each of its rows is in the stream of its kind or
\* was refused, whichever calls for it were repeated, overlapped or raised
\* half-way, whatever number of rows it has, and though the directories, the
\* prefixes and the streams are named in different programs.
DeletedWasSent ==
    \A r \in Records :
        file[r[1]] = "deleted" => r \in stream[StreamOf[Directory[r[1]]]] \cup refused

\* No file is forgotten: it is deleted, or its last call has raised too often.
FileLeaves ==
    \A f \in Files :
        file[f] = "stored" ~> \/ file[f] = "deleted"
                              \/ call[f][1].at = "dropped"
=============================================================================
