---------------------------- MODULE BatchReplay ----------------------------
(***************************************************************************)
(* The BatchReplayer construct: an EventBridge cron rule starts a Step     *)
(* Functions execution, find-file-paths lists the dataset files of the     *)
(* window, a Map state invokes write-in-batch once per file, in parallel,  *)
(* and every invocation writes its rows to the sink bucket in parts.       *)
(*                                                                         *)
(* All times are in seconds, as in the code.  A trigger time is the        *)
(* "time" of the EventBridge event (a whole minute); dataset times are the *)
(* times recorded in the prepared dataset, Offset seconds earlier.         *)
(***************************************************************************)
EXTENDS Integers, FiniteSets

CONSTANTS
    Frequency,    \* BatchReplayerProps.frequency, seconds
    Offset,       \* PreparedDataset.offset, seconds
    Files,        \* the rows of the manifest, by position
    FileStart,    \* the manifest's "start" column
    Rows,         \* the rows of all dataset files, by position
    RowFile,      \* the file a row is in
    RowTime,      \* its dateTimeColumnToFilter
    RowSize,      \* its size in a CSV file, bytes
    HeaderSize,   \* size of the CSV header, bytes
    FileMaxSize,  \* outputFileMaxSizeInBytes, as passed to write-in-batch
    Executions,   \* the executions EventBridge starts
    TriggerTime,  \* the event time each of them gets: equal for duplicates
    MaxAttempts   \* 1 + retries of retryOnServiceExceptions (7 in the code)

\* Minutes between two cron firings of an hour: minute `0/ceil(frequency/60)`.
CronStep == (Frequency + 59) \div 60

\* The rule fires in the minutes 0, CronStep, 2*CronStep, ... of every hour.
CronFires(t) == t % 60 = 0 /\ ((t \div 60) % 60) % CronStep = 0

ASSUME BatchAssumption ==
    /\ Frequency \in Nat \ {0} /\ Offset \in Nat
    /\ Files \subseteq Nat /\ IsFiniteSet(Files)
    /\ Rows \subseteq Nat /\ IsFiniteSet(Rows)
    /\ FileStart \in [Files -> Nat]
    /\ RowFile \in [Rows -> Files]
    /\ RowTime \in [Rows -> Nat]
    /\ RowSize \in [Rows -> Nat \ {0}]
    /\ HeaderSize \in Nat /\ FileMaxSize \in Nat
    /\ TriggerTime \in [Executions -> Nat]
    /\ \A e \in Executions : CronFires(TriggerTime[e])
    /\ MaxAttempts \in Nat \ {0}

VARIABLES
    phase,        \* state of each execution
    attempt,      \* invocations the Map state has made for an item
    returned,     \* items whose task state has succeeded
    running,      \* live invocations of write-in-batch, awaited or not
    wrote,        \* parts each live invocation has written
    sink          \* the objects under the sink path

vars == <<phase, attempt, returned, running, wrote, sink>>

Attempts    == 1 .. MaxAttempts
Items       == Executions \X Files
Invocations == Executions \X Files \X Attempts
Phases      == {"scheduled", "finding", "mapping", "succeeded", "failed"}
-----------------------------------------------------------------------------
(***************************************************************************)
(* The window of a trigger, [trigger - offset, trigger - offset +          *)
(* frequency), as both lambdas compute it, and what they select with it.   *)
(***************************************************************************)

StartTime(t) == t - Offset
EndTime(t)   == StartTime(t) + Frequency

\* Mutant of Between: pandas' default, inclusive='both'.
BetweenInclusive(t, x) == StartTime(t) <= x /\ x <= EndTime(t)

\* Series.between(start, end, inclusive='left').
Between(t, x) == StartTime(t) <= x /\ x < EndTime(t)

\* The manifest rows whose start lies in the window.
RetrieveDfManifest(t) == {f \in Files : Between(t, FileStart[f])}

\* Order after sort_values(by='start').  Ties keep one order, the same for
\* every run over one manifest; file position stands for it.
Precedes(f, g) == FileStart[f] < FileStart[g] \/ (FileStart[f] = FileStart[g] /\ f < g)

\* $$.Map.Item.Index of file f, which write-in-batch gets as outputFileIndex.
OutputFileIndex(t, f) == Cardinality({g \in RetrieveDfManifest(t) : Precedes(g, f)})

\* The rows of file f that write-in-batch keeps.
FilterRowsByDatetime(t, f) == {r \in Rows : RowFile[r] = f /\ Between(t, RowTime[r])}
-----------------------------------------------------------------------------
(***************************************************************************)
(* Splitting the kept rows into output files.                              *)
(***************************************************************************)

\* Position of row r among the rows R, in file order.
Position(R, r) == Cardinality({s \in R : s < r})

\* How many rows fit in a file, judging by the size of the first row.
RowPerFile(R) ==
    LET first == CHOOSE r \in R : \A s \in R : r <= s
    IN  (FileMaxSize - HeaderSize) \div RowSize[first]

\* Mutant of CalculateNoOfFiles: the last, incomplete file is forgotten.
CalculateNoOfFilesRoundedDown(R) == Cardinality(R) \div RowPerFile(R)

\* calculate_no_of_files; only called, and only defined, for a non-empty R
\* of which at least one row fits (it raises otherwise).
CalculateNoOfFiles(R) ==
    (Cardinality(R) + RowPerFile(R) - 1) \div RowPerFile(R)

\* np.array_split(df, n): the first len % n parts hold one row more.
PartStart(len, n, k) ==
    LET extra == len % n
    IN  k * (len \div n) + (IF k < extra THEN k ELSE extra)

PartRows(R, n, k) ==
    {r \in R : /\ PartStart(Cardinality(R), n, k) <= Position(R, r)
               /\ Position(R, r) < PartStart(Cardinality(R), n, k + 1)}

\* No row fits: calculate_no_of_files divides by zero, or array_split is
\* asked for a non-positive number of parts.  Either way the handler raises.
CannotSplit(R) == R # {} /\ RowPerFile(R) <= 0
-----------------------------------------------------------------------------
(***************************************************************************)
(* What an invocation for an item <<e, f>> works on: the same for every    *)
(* attempt, since dataset, manifest and trigger do not change.             *)
(***************************************************************************)

Listed == [e \in Executions |-> RetrieveDfManifest(TriggerTime[e])]

Batch == [i \in Items |-> FilterRowsByDatetime(TriggerTime[i[1]], i[2])]

\* The objects write-in-batch puts: none for an empty batch, and none when it
\* raises before it writes.
NoOfParts ==
    [i \in Items |-> IF Batch[i] = {} \/ CannotSplit(Batch[i])
                       THEN 0 ELSE CalculateNoOfFiles(Batch[i])]

\* df_split.
Parts ==
    [i \in Items |-> [k \in 0 .. NoOfParts[i] - 1 |->
                         PartRows(Batch[i], NoOfParts[i], k)]]

\* Mutant of Index: counts from the file before.
IndexOffByOne == [i \in Items |-> OutputFileIndex(TriggerTime[i[1]], i[2]) - 1]

Index == [i \in Items |-> OutputFileIndex(TriggerTime[i[1]], i[2])]

\* Mutant of OutputPath: write_all does not number its files.
OutputPathUnnumbered(i, k) ==
    [ingestion_start |-> TriggerTime[i[1]], index |-> Index[i], part |-> 0]

\* .../ingestion_start=<t>/ingestion_end=<t + Frequency>/<index>-<part>.csv;
\* the adjusted times are start_time + offset = t and end_time + offset.
OutputPath(i, k) ==
    [ingestion_start |-> TriggerTime[i[1]], index |-> Index[i], part |-> k]

\* s3.to_csv: an object of the same key is replaced.
PutObject(path, rows) ==
    {o \in sink : o.path # path} \cup {[path |-> path, rows |-> rows]}
-----------------------------------------------------------------------------
Init ==
    /\ phase = [e \in Executions |-> "scheduled"]
    /\ attempt = [i \in Items |-> 0]
    /\ returned = {}
    /\ running = {}
    /\ wrote = [v \in Invocations |-> 0]
    /\ sink = {}

\* EventBridge delivers an event to the state machine, possibly late, and
\* possibly again: executions with the same TriggerTime.
StartExecution(e) ==
    /\ phase[e] = "scheduled"
    /\ phase' = [phase EXCEPT ![e] = "finding"]
    /\ UNCHANGED <<attempt, returned, running, wrote, sink>>

\* find-file-paths returns; the Map state starts over RetrieveDfManifest.
FindFilePaths(e) ==
    /\ phase[e] = "finding"
    /\ phase' = [phase EXCEPT ![e] = "mapping"]
    /\ UNCHANGED <<attempt, returned, running, wrote, sink>>

\* One iteration of the Map state starts: there is no limit on how many run.
InvokeWriteInBatch(e, f) ==
    /\ phase[e] = "mapping"
    /\ f \in Listed[e]
    /\ attempt[<<e, f>>] = 0
    /\ attempt' = [attempt EXCEPT ![<<e, f>>] = 1]
    /\ running' = running \cup {<<e, f, 1>>}
    /\ UNCHANGED <<phase, returned, wrote, sink>>

\* The invocation answers with a service exception and is retried.  The one
\* it replaces is dead, or its answer was lost and it runs on unobserved.
RetryOnServiceException(e, f) ==
    LET a == attempt[<<e, f>>] IN
    /\ phase[e] = "mapping"
    /\ a \in 1 .. MaxAttempts - 1
    /\ <<e, f>> \notin returned
    /\ attempt' = [attempt EXCEPT ![<<e, f>>] = a + 1]
    /\ \/ /\ running' = running \cup {<<e, f, a + 1>>}
          /\ UNCHANGED wrote
       \/ /\ running' = (running \ {<<e, f, a>>}) \cup {<<e, f, a + 1>>}
          /\ wrote' = [wrote EXCEPT ![<<e, f, a>>] = 0]
    /\ UNCHANGED <<phase, returned, sink>>

\* write_all puts the next part.
WritePart(e, f, a) ==
    LET i == <<e, f>>
        k == wrote[<<e, f, a>>]
    IN
    /\ <<e, f, a>> \in running
    /\ k < NoOfParts[i]
    /\ sink' = PutObject(OutputPath(i, k), Parts[i][k])
    /\ wrote' = [wrote EXCEPT ![<<e, f, a>>] = k + 1]
    /\ UNCHANGED <<phase, attempt, returned, running>>

\* Mutant of Awaited: only the first invocation's answer is taken.
AwaitedFirst(e, f, a) == phase[e] = "mapping" /\ a = 1

\* Step Functions still waits for this attempt.
Awaited(e, f, a) == phase[e] = "mapping" /\ attempt[<<e, f>>] = a

\* The handler returns.  An answer nobody waits for is lost.
ReturnFromWriteInBatch(e, f, a) ==
    /\ <<e, f, a>> \in running
    /\ ~CannotSplit(Batch[<<e, f>>])
    /\ wrote[<<e, f, a>>] = NoOfParts[<<e, f>>]
    /\ running' = running \ {<<e, f, a>>}
    /\ wrote' = [wrote EXCEPT ![<<e, f, a>>] = 0]
    /\ returned' = IF Awaited(e, f, a) THEN returned \cup {<<e, f>>} ELSE returned
    /\ UNCHANGED <<phase, attempt, sink>>

\* The handler raises or hits its 15 minutes: not a service exception, so not
\* retried, and nothing catches it: the Map state and the execution fail, while
\* the other invocations run on.
RaiseInWriteInBatch(e, f, a) ==
    /\ <<e, f, a>> \in running
    /\ running' = running \ {<<e, f, a>>}
    /\ wrote' = [wrote EXCEPT ![<<e, f, a>>] = 0]
    /\ phase' = IF Awaited(e, f, a) THEN [phase EXCEPT ![e] = "failed"] ELSE phase
    /\ UNCHANGED <<attempt, returned, sink>>

\* Mutant of CompleteMap: the tasks do not wait for the lambda's answer.
CompleteMapUnanswered(e) ==
    /\ phase[e] = "mapping"
    /\ \A f \in Listed[e] : attempt[<<e, f>>] > 0
    /\ phase' = [phase EXCEPT ![e] = "succeeded"]
    /\ UNCHANGED <<attempt, returned, running, wrote, sink>>

\* Every iteration has succeeded; so has, at once, a Map over no file.
CompleteMap(e) ==
    /\ phase[e] = "mapping"
    /\ \A f \in Listed[e] : <<e, f>> \in returned
    /\ phase' = [phase EXCEPT ![e] = "succeeded"]
    /\ UNCHANGED <<attempt, returned, running, wrote, sink>>

\* The execution's 20 minutes are over, find-file-paths failed, or the retries
\* of a service exception are exhausted.  Invocations run on.
FailExecution(e) ==
    /\ phase[e] \in {"finding", "mapping"}
    /\ phase' = [phase EXCEPT ![e] = "failed"]
    /\ UNCHANGED <<attempt, returned, running, wrote, sink>>

Next ==
    \E e \in Executions :
        \/ StartExecution(e)
        \/ FindFilePaths(e)
        \/ CompleteMap(e)
        \/ FailExecution(e)
        \/ \E f \in Files :
              \/ InvokeWriteInBatch(e, f)
              \/ RetryOnServiceException(e, f)
              \/ \E a \in Attempts :
                    \/ WritePart(e, f, a)
                    \/ ReturnFromWriteInBatch(e, f, a)
                    \/ RaiseInWriteInBatch(e, f, a)

Spec == Init /\ [][Next]_vars

(***************************************************************************)
(* Fairness: EventBridge delivers every event, Step Functions advances     *)
(* every execution, a live invocation runs on.  Nothing says that a        *)
(* failure happens, except that a handler which cannot split must raise.   *)
(* Attempts and parts are bounded, so every behaviour takes finitely many  *)
(* steps and fairness of all progress together is that of each part.       *)
(***************************************************************************)

\* What Step Functions does of itself.
StatesLanguageStep(e) ==
    \/ StartExecution(e)
    \/ FindFilePaths(e)
    \/ CompleteMap(e)
    \/ \E f \in Files : InvokeWriteInBatch(e, f)

\* What a live invocation does of itself.
HandlerStep(e, f, a) ==
    \/ WritePart(e, f, a)
    \/ ReturnFromWriteInBatch(e, f, a)
    \/ CannotSplit(Batch[<<e, f>>]) /\ RaiseInWriteInBatch(e, f, a)

Progress ==
    \/ \E e \in Executions : StatesLanguageStep(e)
    \/ \E v \in running : HandlerStep(v[1], v[2], v[3])

FairSpec == Spec /\ WF_vars(Progress)
-----------------------------------------------------------------------------
Paths == [ingestion_start : Nat, index : Nat, part : Nat]

\* Every variable keeps to the values the code can give it.
TypeOK ==
    /\ phase \in [Executions -> Phases]
    /\ attempt \in [Items -> 0 .. MaxAttempts]
    /\ returned \subseteq Items
    /\ running \subseteq Invocations
    /\ wrote \in [Invocations -> Nat]
    /\ sink \subseteq [path : Paths, rows : SUBSET Rows]

\* No row of the dataset is in two objects of the sink, whatever events are
\* delivered twice, whatever invocations are retried and whatever executions
\* overlap.  (It takes a CronStep that divides the hour: see the README.)
NoDuplicateRow ==
    \A o1, o2 \in sink : o1 # o2 => o1.rows \cap o2.rows = {}

\* An execution succeeds only when every row that the window selects from the
\* files it listed is in the sink, under the window's own partition.
SucceededReplaysItsFiles ==
    \A e \in Executions : phase[e] = "succeeded" =>
        \A f \in Listed[e] : \A r \in Batch[<<e, f>>] :
            \E o \in sink : /\ o.path.ingestion_start = TriggerTime[e]
                           /\ r \in o.rows

\* Readers of the sink never see an object change or vanish once it is there,
\* although retries, duplicates and unobserved invocations write it again.
StableObjects == [][sink \subseteq sink']_sink

\* While no row is larger than the first of its batch, on which write-in-batch
\* sizes its output, no object exceeds the maximal size, even if all its rows are
\* as large as the largest of them.
ObjectSizeBounded ==
    \A e \in Executions : \A f \in Listed[e] :
        LET R == Batch[<<e, f>>] IN
        (\E first \in R : \A r \in R : first <= r /\ RowSize[r] <= RowSize[first]) =>
            \A o \in sink : o.path = OutputPath(<<e, f>>, o.path.part) =>
                \A r \in o.rows : HeaderSize + Cardinality(o.rows) * RowSize[r] <= FileMaxSize

\* A Map state, once started, always ends: with the last item, at once when
\* there is none, or with the first failure.
MapEnds ==
    \A e \in Executions : phase[e] = "mapping" ~> phase[e] \in {"succeeded", "failed"}
-----------------------------------------------------------------------------
(***************************************************************************)
(* What the documentation and the comments say and the code does not do.   *)
(***************************************************************************)

\* "Replay the data in that period" (batch-replayer.ts, frequency): a
\* successful execution replays every row of the dataset in its window.
PeriodIsReplayed ==
    \A e \in Executions : phase[e] = "succeeded" =>
        \A r \in Rows : Between(TriggerTime[e], RowTime[r]) =>
            \E o \in sink : r \in o.rows
=============================================================================
