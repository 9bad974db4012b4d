----------------------------- MODULE CleanLayer -----------------------------
(***************************************************************************)
(* The clean layer.  A schedule starts a crawler of the raw bucket, whose  *)
(* success starts a Glue job for each entity.  A job reads the objects     *)
(* that its bookmark does not have, and writes their rows to the clean     *)
(* table of the entity: upserted by a key in a Hudi table, or appended in  *)
(* parquet.  It commits its bookmark at the end.  A job may fail at any    *)
(* point; it is not retried, but runs again with the next workflow run.    *)
(***************************************************************************)
EXTENDS Integers, FiniteSets

CONSTANTS
    HudiEntities,    \* entities whose clean table is a Hudi table
    ParquetEntities, \* entities whose clean table is in parquet
    Objects,         \* objects of the raw bucket, of one row each
    Entity,          \* the entity each object belongs to
    Key,             \* the value of its primary key
    Time,            \* that of its datetime column
    MaxFailures      \* bound on the failures of the jobs of an entity

Entities == HudiEntities \cup ParquetEntities

ASSUME EntitiesAssumption == HudiEntities \cap ParquetEntities = {}
ASSUME ObjectsAssumption ==
    /\ Entity \in [Objects -> Entities]
    /\ Time \in [Objects -> Nat]
    /\ MaxFailures \in Nat

Of(e) == {o \in Objects : Entity[o] = e}
HudiObjects    == {o \in Objects : Entity[o] \in HudiEntities}
ParquetObjects == {o \in Objects : Entity[o] \in ParquetEntities}

VARIABLES
    landed,     \* the objects in the raw bucket
    tables,     \* the entities with a table in the raw database
    crawler,    \* whether the crawler runs
    pc,         \* where the job of each entity is
    batch,      \* the objects it has read; none when it does not run
    bookmark,   \* the objects that it has not to read again
    table,      \* the Hudi tables: the objects whose rows are in them
    copies,     \* the parquet tables: how often they have each object's row
    catalogued, \* the entities with a table in the clean database
    failures,   \* how often the job of each entity has failed
    wiped,      \* history: Hudi entities overwritten although catalogued
    overtaken   \* history: objects that landed after a newer one of their key

rawVars   == <<landed, tables, crawler, overtaken>>
cleanVars == <<table, copies, catalogued>>
vars == <<rawVars, pc, batch, bookmark, cleanVars, failures, wiped>>

SameKey(o, p) == Entity[o] = Entity[p] /\ Key[o] = Key[p]
-----------------------------------------------------------------------------
Init ==
    /\ landed = {} /\ tables = {} /\ crawler = "ready"
    /\ pc = [e \in Entities |-> "idle"]
    /\ batch = [e \in Entities |-> {}]
    /\ bookmark = [e \in Entities |-> {}]
    /\ table = {} /\ copies = [o \in ParquetObjects |-> 0] /\ catalogued = {}
    /\ failures = [e \in Entities |-> 0]
    /\ wiped = {} /\ overtaken = {}

Land(o) ==
    /\ o \notin landed
    /\ landed' = landed \cup {o}
    /\ overtaken' = IF \E p \in landed : SameKey(o, p) /\ Time[p] > Time[o]
                    THEN overtaken \cup {o} ELSE overtaken
    /\ UNCHANGED <<tables, crawler, pc, batch, bookmark, cleanVars, failures, wiped>>

\* Every half hour.  The crawler is not started while it runs.
Schedule ==
    /\ crawler = "ready"
    /\ crawler' = "running"
    /\ UNCHANGED <<landed, tables, overtaken, pc, batch, bookmark, cleanVars, failures, wiped>>

\* Mutant of CrawlSucceeds: only the jobs of new tables are started.
CrawlSucceedsNew ==
    /\ crawler = "running"
    /\ crawler' = "ready"
    /\ tables' = tables \cup {Entity[o] : o \in landed}
    /\ pc' = [e \in Entities |-> IF pc[e] = "idle" /\ e \notin tables THEN "read" ELSE pc[e]]
    /\ UNCHANGED <<landed, overtaken, batch, bookmark, cleanVars, failures, wiped>>

\* Success of the crawler starts all the jobs, save those that run already.
CrawlSucceeds ==
    /\ crawler = "running"
    /\ crawler' = "ready"
    /\ tables' = tables \cup {Entity[o] : o \in landed}
    /\ pc' = [e \in Entities |-> IF pc[e] = "idle" THEN "read" ELSE pc[e]]
    /\ UNCHANGED <<landed, overtaken, batch, bookmark, cleanVars, failures, wiped>>

CrawlFails ==
    /\ crawler = "running"
    /\ crawler' = "ready"
    /\ UNCHANGED <<landed, tables, overtaken, pc, batch, bookmark, cleanVars, failures, wiped>>

\* Mutant of Unread: the bookmark of the job is not enabled.
UnreadAll(e) == landed \cap Of(e)

\* create_dynamic_frame.from_catalog, with the job's bookmark.
Unread(e) == (landed \cap Of(e)) \ bookmark[e]

\* Mutant of Read: it goes on with nothing to read.
ReadOn(e) ==
    /\ pc[e] = "read" /\ e \in tables
    /\ batch' = [batch EXCEPT ![e] = Unread(e)]
    /\ pc' = [pc EXCEPT ![e] = IF e \in HudiEntities THEN "check" ELSE "write"]
    /\ UNCHANGED <<rawVars, bookmark, cleanVars, failures, wiped>>

\* With nothing to read the job terminates early.
Read(e) ==
    /\ pc[e] = "read" /\ e \in tables
    /\ batch' = [batch EXCEPT ![e] = Unread(e)]
    /\ pc' = [pc EXCEPT ![e] = IF Unread(e) = {} THEN "idle"
                               ELSE IF e \in HudiEntities THEN "check" ELSE "write"]
    /\ UNCHANGED <<rawVars, bookmark, cleanVars, failures, wiped>>

\* The job's process ends.
End(e) == pc' = [pc EXCEPT ![e] = "idle"] /\ batch' = [batch EXCEPT ![e] = {}]

\* get_table.  Any ClientError leaves isTableExists False: that the table does
\* not exist, and every other.
CheckTable(e) ==
    /\ pc[e] = "check"
    /\ \/ /\ e \in catalogued
          /\ pc' = [pc EXCEPT ![e] = "append"] /\ wiped' = wiped
       \/ /\ pc' = [pc EXCEPT ![e] = "overwrite"]
          /\ wiped' = IF e \in catalogued THEN wiped \cup {e} ELSE wiped
    /\ UNCHANGED <<rawVars, batch, bookmark, cleanVars, failures>>

\* Mutant of Precombined: no precombine field.
PrecombinedNot(b) == CHOOSE c \in SUBSET b :
    /\ \A o \in b : \E p \in c : SameKey(o, p)
    /\ \A o, p \in c : SameKey(o, p) => o = p
    /\ \A o \in c, p \in b : SameKey(o, p) => Time[o] <= Time[p]

\* Of the rows with one key the one with the greatest datetime is written.
Precombined(b) == {o \in b : \A p \in b : SameKey(o, p) => Time[p] <= Time[o]}

\* A row replaces the one with its key in the table.
Upsert(t, b) == {o \in t : ~\E p \in b : SameKey(o, p)} \cup Precombined(b)

\* Mode Append: Hudi commits all of it or nothing.
Append(e) ==
    /\ pc[e] = "append"
    /\ table' = Upsert(table, batch[e])
    /\ pc' = [pc EXCEPT ![e] = "sync"]
    /\ UNCHANGED <<rawVars, batch, bookmark, copies, catalogued, failures, wiped>>

\* Mode Overwrite first deletes the table's path.
Overwrite(e) ==
    /\ pc[e] = "overwrite"
    /\ table' = table \ Of(e)
    /\ pc' = [pc EXCEPT ![e] = "append"]
    /\ UNCHANGED <<rawVars, batch, bookmark, copies, catalogued, failures, wiped>>

\* Parquet: writeFrame writes one object after the other.
WriteFrame(e, rest) ==
    /\ pc[e] = "write" /\ rest \subseteq batch[e] /\ rest # batch[e]
    /\ copies' = [o \in ParquetObjects |-> copies[o] + IF o \in batch[e] \ rest THEN 1 ELSE 0]
    /\ IF rest = {}
       THEN pc' = [pc EXCEPT ![e] = "sync"] /\ UNCHANGED <<batch, failures>>
       ELSE failures[e] < MaxFailures /\ failures' = [failures EXCEPT ![e] = @ + 1] /\ End(e)
    /\ UNCHANGED <<rawVars, bookmark, table, catalogued, wiped>>

\* hive_sync, or enableUpdateCatalog.
SyncCatalogue(e) ==
    /\ pc[e] = "sync"
    /\ catalogued' = catalogued \cup {e}
    /\ pc' = [pc EXCEPT ![e] = "commit"]
    /\ UNCHANGED <<rawVars, batch, bookmark, table, copies, failures, wiped>>

\* Mutant of Commit: what has landed meanwhile is taken for processed.
CommitLanded(e) ==
    /\ pc[e] = "commit"
    /\ bookmark' = [bookmark EXCEPT ![e] = landed \cap Of(e)]
    /\ End(e)
    /\ UNCHANGED <<rawVars, cleanVars, failures, wiped>>

\* job.commit().
Commit(e) ==
    /\ pc[e] = "commit"
    /\ bookmark' = [bookmark EXCEPT ![e] = @ \cup batch[e]]
    /\ End(e)
    /\ UNCHANGED <<rawVars, cleanVars, failures, wiped>>

\* The job fails; it does for sure when the raw table is not there.
Fail(e) ==
    /\ pc[e] # "idle"
    /\ IF pc[e] = "read" /\ e \notin tables THEN failures' = failures
       ELSE failures[e] < MaxFailures /\ failures' = [failures EXCEPT ![e] = @ + 1]
    /\ End(e)
    /\ UNCHANGED <<rawVars, bookmark, cleanVars, wiped>>

Job(e) ==
    \/ Read(e) \/ CheckTable(e) \/ Append(e) \/ Overwrite(e)
    \/ \E rest \in SUBSET batch[e] : WriteFrame(e, rest)
    \/ SyncCatalogue(e) \/ Commit(e)

Next ==
    \/ \E o \in Objects : Land(o)
    \/ Schedule \/ CrawlSucceeds \/ CrawlFails
    \/ \E e \in Entities : Job(e) \/ Fail(e)

\* The schedule goes on, and the crawler succeeds now and then; a job that has
\* been started goes on to its end, one without a table to its failure.
Spec ==
    /\ Init /\ [][Next]_vars
    /\ WF_vars(Schedule) /\ SF_vars(CrawlSucceeds)
    /\ \A e \in Entities :
          /\ WF_vars(Job(e))
          /\ WF_vars(Fail(e) /\ failures' = failures)
-----------------------------------------------------------------------------
\* Every variable keeps to the values the code can give it.
TypeOK ==
    /\ landed \subseteq Objects /\ tables \subseteq Entities
    /\ crawler \in {"ready", "running"}
    /\ pc \in [Entities ->
                 {"idle", "read", "check", "append", "overwrite", "write", "sync", "commit"}]
    /\ batch \in [Entities -> SUBSET landed]
    /\ bookmark \in [Entities -> SUBSET landed]
    /\ \A e \in Entities : batch[e] \cup bookmark[e] \subseteq Of(e)
    /\ table \subseteq HudiObjects \cap landed
    /\ \A e \in Entities : pc[e] \in {"idle", "read"} <=> batch[e] = {}
    /\ copies \in [ParquetObjects -> Nat]
    /\ catalogued \subseteq Entities
    /\ failures \in [Entities -> 0 .. MaxFailures]
    /\ wiped \subseteq HudiEntities /\ overtaken \subseteq landed

\* A key that has been processed stays in its table, and every row in parquet,
\* over any failures, also one after which the data is there and the catalogue
\* does not know it: for what such a table is overwritten without has not been
\* committed.  But any error of get_table empties a table.
ProcessedIsKept ==
    \A e \in Entities, o \in Objects :
        o \in bookmark[e] =>
            IF e \in HudiEntities THEN e \in wiped \/ \E p \in table : SameKey(o, p)
            ELSE copies[o] >= 1

\* The newest row of a key is the one that is kept, as long as they land in order.
NewestIsKept ==
    \A e \in HudiEntities, o \in Objects :
        o \in bookmark[e] /\ (\A p \in overtaken : ~SameKey(o, p)) =>
            \A p \in table : SameKey(o, p) => Time[o] <= Time[p]

\* A row is in parquet more than once only by as many failures of its job.
CopiesByFailure == \A o \in ParquetObjects : copies[o] <= 1 + failures[Entity[o]]

\* Whatever lands is processed in the end, after finitely many failures.
LandedIsProcessed == <>[](landed \subseteq UNION {bookmark[e] : e \in Entities})
=============================================================================
