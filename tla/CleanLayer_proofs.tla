------------------------- MODULE CleanLayer_proofs -------------------------
(***************************************************************************)
(* Proofs about CleanLayer, for any entities, objects, keys, times and     *)
(* number of failures: type correctness, that what has been processed is   *)
(* kept, in its newest version, and in parquet once and once more for each *)
(* failure at most, and that readers of a Hudi table never miss a key they *)
(* have seen.                                                              *)
(***************************************************************************)
EXTENDS CleanLayer, FiniteSetTheorems, WellFoundedInduction, TLAPS

(***************************************************************************)
(* The inductive invariant.                                                *)
(***************************************************************************)

\* The rows of the batch have been written, but not yet committed.
Written(e) == pc[e] \in {"sync", "commit"}

InTable(o) == \E p \in table : SameKey(o, p)

\* Only jobs of Hudi entities look for the table, and only those of parquet
\* entities write without; a batch has nothing that has been processed.
JobInv ==
    /\ IsFiniteSet(landed)
    /\ \A e \in Entities :
          /\ pc[e] \in {"check", "append", "overwrite"} => e \in HudiEntities
          /\ pc[e] = "write" => e \in ParquetEntities
          /\ batch[e] \cap bookmark[e] = {}

\* What has been processed is in the table, which the catalogue then knows, and
\* so is what has been written and not committed.
TableInv ==
    \A e \in HudiEntities :
        /\ pc[e] = "commit" => e \in catalogued
        /\ pc[e] = "overwrite" /\ e \in catalogued => e \in wiped
        /\ bookmark[e] # {} => e \in catalogued
        /\ \A o \in bookmark[e] : e \in wiped \/ InTable(o)
        /\ Written(e) => \A o \in batch[e] : InTable(o)

\* A row that has not been processed is there only since its job has failed.
CopiesOf(o) ==
    IF o \in bookmark[Entity[o]] \/ (Written(Entity[o]) /\ o \in batch[Entity[o]])
    THEN 1 <= copies[o] /\ copies[o] <= 1 + failures[Entity[o]]
    ELSE copies[o] <= failures[Entity[o]]

CopiesInv == \A o \in ParquetObjects : CopiesOf(o)

\* No row of the key has landed after a newer one.
InOrder(o) == \A p \in overtaken : ~SameKey(o, p)

\* Rows that land in order are processed in order: o, which the job of e has at
\* least read, is not newer than p of the same key that is behind it.
Ordered(e, o, p) ==
    /\ o \in bookmark[e] /\ p \notin bookmark[e] => Time[o] <= Time[p]
    /\ p \notin bookmark[e] \cup batch[e] => Time[o] <= Time[p]
    /\ p \in table /\ (o \in bookmark[e] \/ Written(e)) => Time[o] <= Time[p]

OrderInv ==
    \A e \in HudiEntities : \A o \in bookmark[e] \cup batch[e], p \in landed :
        SameKey(o, p) /\ InOrder(o) => Ordered(e, o, p)

IInv == TypeOK /\ JobInv /\ TableInv /\ CopiesInv /\ OrderInv
-----------------------------------------------------------------------------
(***************************************************************************)
(* The operators.                                                          *)
(***************************************************************************)

\* A finite set of objects has one with the greatest datetime: one after which a
\* minimal set of others comes.
LEMMA NewestExists ==
    ASSUME NEW b \in SUBSET Objects, IsFiniteSet(b), b # {}
    PROVE  \E p \in b : \A q \in b : Time[q] <= Time[p]
PROOF
<1> DEFINE Later(p) == {q \in b : Time[p] < Time[q]}
           Laters == {Later(p) : p \in b}
<1>1. Laters \subseteq FiniteSubsetsOf(b) /\ Laters # {}
  <2>1. \A p \in b : Later(p) \subseteq b /\ IsFiniteSet(Later(p))
    <3> SUFFICES ASSUME NEW p \in b PROVE IsFiniteSet(Later(p))
      OBVIOUS
    <3>1. Later(p) \subseteq b
      OBVIOUS
    <3> HIDE DEF Later
    <3> QED BY <3>1, FS_Subset
  <2> HIDE DEF Later
  <2> QED BY <2>1 DEF FiniteSubsetsOf
<1>2. \E n \in Laters : \A m \in Laters : ~(<<m, n>> \in StrictSubsetOrdering(b))
  <2> HIDE DEF Laters
  <2> QED BY <1>1, FS_StrictSubsetOrderingWellFounded, WFMin
<1>3. PICK p \in b : \A m \in Laters : ~(<<m, Later(p)>> \in StrictSubsetOrdering(b))
  BY <1>2
<1>4. ASSUME NEW q \in b, ~(Time[q] <= Time[p])
      PROVE  FALSE
  <2>1. q \in Later(p) /\ q \notin Later(q) /\ Later(q) \subseteq Later(p)
    BY <1>4, ObjectsAssumption
  <2>2. Later(q) \in Laters
    OBVIOUS
  <2>3. <<Later(q), Later(p)>> \in StrictSubsetOrdering(b)
    <3>1. Later(q) \subseteq b /\ Later(p) \subseteq b
      OBVIOUS
    <3> HIDE DEF Later
    <3> QED BY <2>1, <3>1 DEF StrictSubsetOrdering
  <2> QED BY <2>2, <2>3, <1>3
<1> QED BY <1>3, <1>4

\* To have one key is an equivalence between objects.
LEMMA SameKeyEquivalence ==
    ASSUME NEW o, NEW p, NEW q
    PROVE  /\ SameKey(o, o)
           /\ SameKey(o, p) => SameKey(p, o)
           /\ SameKey(o, p) /\ SameKey(p, q) => SameKey(o, q)
BY DEF SameKey

\* Precombining keeps a row of each key.
LEMMA PrecombinedKeepsKeys ==
    ASSUME NEW b \in SUBSET Objects, IsFiniteSet(b), NEW o \in b
    PROVE  \E p \in Precombined(b) : SameKey(o, p)
PROOF
<1> DEFINE k == {p \in b : SameKey(o, p)}
<1>1. k \in SUBSET Objects /\ IsFiniteSet(k) /\ k # {}
  <2>1. o \in k
    BY SameKeyEquivalence
  <2> QED BY <2>1, FS_Subset
<1>2. PICK p \in k : \A q \in k : Time[q] <= Time[p]
  <2> HIDE DEF k
  <2> QED BY <1>1, NewestExists
<1>3. p \in Precombined(b)
  BY <1>2 DEF Precombined, SameKey
<1> QED BY <1>2, <1>3

\* Upserting loses no key, brings those of the batch, and leaves of these only
\* the newest rows of the batch.
LEMMA UpsertKeys ==
    ASSUME NEW t \in SUBSET Objects, NEW b \in SUBSET Objects, IsFiniteSet(b)
    PROVE  /\ Upsert(t, b) \subseteq t \cup b
           /\ \A o \in t \cup b : \E p \in Upsert(t, b) : SameKey(o, p)
           /\ \A o \in b, p \in Upsert(t, b) :
                 SameKey(o, p) => p \in b /\ Time[o] <= Time[p]
PROOF
<1>1. Precombined(b) \subseteq b
  BY DEF Precombined
<1>2. Upsert(t, b) \subseteq t \cup b
  BY <1>1 DEF Upsert
<1>3. ASSUME NEW o \in t \cup b
      PROVE  \E p \in Upsert(t, b) : SameKey(o, p)
  <2>1. CASE \E p \in b : SameKey(o, p)
    <3>1. PICK p \in b : SameKey(o, p)
      BY <2>1
    <3>2. PICK q \in Precombined(b) : SameKey(p, q)
      BY PrecombinedKeepsKeys
    <3> QED BY <3>1, <3>2, SameKeyEquivalence DEF Upsert
  <2>2. CASE ~\E p \in b : SameKey(o, p)
    BY <2>2, SameKeyEquivalence DEF Upsert
  <2> QED BY <2>1, <2>2
<1>4. ASSUME NEW o \in b, NEW p \in Upsert(t, b), SameKey(o, p)
      PROVE  p \in b /\ Time[o] <= Time[p]
  BY <1>4, SameKeyEquivalence DEF Upsert, Precombined
<1> QED BY <1>2, <1>3, <1>4
-----------------------------------------------------------------------------
(***************************************************************************)
(* The invariant holds initially and every step preserves it.              *)
(***************************************************************************)

\* The invariant holds at first.
LEMMA InitIInv == Init => IInv
PROOF
<1> SUFFICES ASSUME Init PROVE IInv
  OBVIOUS
<1>1. TypeOK
  BY ObjectsAssumption DEF Init, TypeOK
<1>2. JobInv
  BY FS_EmptySet DEF Init, JobInv
<1>3. TableInv
  BY DEF Init, TableInv, Entities, Written
<1>4. CopiesInv
  <2>1. \A o \in ParquetObjects : Entity[o] \in Entities
    BY ObjectsAssumption DEF ParquetObjects
  <2> QED BY <2>1 DEF Init, CopiesInv, CopiesOf, Written
<1>5. OrderInv
  BY DEF Init, OrderInv, Entities
<1> QED BY <1>1, <1>2, <1>3, <1>4, <1>5 DEF IInv

\* Type correctness: only the job of a Hudi entity touches a Hudi table.
LEMMA NextTypeOK == TypeOK /\ JobInv /\ Next => TypeOK'
PROOF
<1> SUFFICES ASSUME TypeOK, JobInv, Next PROVE TypeOK'
  OBVIOUS
<1> USE DEF TypeOK, rawVars, cleanVars
<1>1. CASE \E o \in Objects : Land(o)
  BY <1>1 DEF Land
<1>2. CASE Schedule \/ CrawlFails
  BY <1>2 DEF Schedule, CrawlFails
<1>3. CASE CrawlSucceeds
  BY <1>3, ObjectsAssumption DEF CrawlSucceeds
<1>4. ASSUME NEW e \in Entities, Read(e)
      PROVE  TypeOK'
  BY <1>4 DEF Read, Unread, Of
<1>5. ASSUME NEW e \in Entities, CheckTable(e)
      PROVE  TypeOK'
  BY <1>5 DEF CheckTable, JobInv
<1>6. ASSUME NEW e \in Entities, Append(e)
      PROVE  TypeOK'
  BY <1>6 DEF Append, Upsert, Precombined, JobInv, HudiObjects, Of
<1>7. ASSUME NEW e \in Entities, Overwrite(e)
      PROVE  TypeOK'
  BY <1>7 DEF Overwrite
<1>8. ASSUME NEW e \in Entities, NEW rest \in SUBSET batch[e], WriteFrame(e, rest)
      PROVE  TypeOK'
  BY <1>8, ObjectsAssumption DEF WriteFrame, End
<1>9. ASSUME NEW e \in Entities, SyncCatalogue(e)
      PROVE  TypeOK'
  BY <1>9 DEF SyncCatalogue
<1>10. ASSUME NEW e \in Entities, Commit(e)
       PROVE  TypeOK'
  BY <1>10 DEF Commit, End
<1>11. ASSUME NEW e \in Entities, Fail(e)
       PROVE  TypeOK'
  BY <1>11, ObjectsAssumption DEF Fail, End
<1> QED
  BY <1>1, <1>2, <1>3, <1>4, <1>5, <1>6, <1>7, <1>8, <1>9, <1>10, <1>11 DEF Next, Job
\* Every step keeps what is known of a job at each of its places.
LEMMA NextJobInv == TypeOK /\ JobInv /\ Next => JobInv'
PROOF
<1> SUFFICES ASSUME TypeOK, JobInv, Next PROVE JobInv'
  OBVIOUS
<1> USE DEF TypeOK, JobInv, rawVars, cleanVars
<1>1. CASE \E o \in Objects : Land(o)
  BY <1>1, FS_AddElement DEF Land
<1>2. CASE Schedule \/ CrawlFails
  BY <1>2 DEF Schedule, CrawlFails
<1>3. CASE CrawlSucceeds
  BY <1>3 DEF CrawlSucceeds
<1>4. ASSUME NEW e \in Entities, Read(e)
      PROVE  JobInv'
  BY <1>4 DEF Read, Unread, Entities
<1>5. ASSUME NEW e \in Entities, CheckTable(e)
      PROVE  JobInv'
  BY <1>5 DEF CheckTable
<1>6. ASSUME NEW e \in Entities, Append(e)
      PROVE  JobInv'
  BY <1>6 DEF Append
<1>7. ASSUME NEW e \in Entities, Overwrite(e)
      PROVE  JobInv'
  BY <1>7 DEF Overwrite
<1>8. ASSUME NEW e \in Entities, NEW rest \in SUBSET batch[e], WriteFrame(e, rest)
      PROVE  JobInv'
  BY <1>8 DEF WriteFrame, End
<1>9. ASSUME NEW e \in Entities, SyncCatalogue(e)
      PROVE  JobInv'
  BY <1>9 DEF SyncCatalogue
<1>10. ASSUME NEW e \in Entities, Commit(e)
       PROVE  JobInv'
  BY <1>10 DEF Commit, End
<1>11. ASSUME NEW e \in Entities, Fail(e)
       PROVE  JobInv'
  BY <1>11 DEF Fail, End
<1> QED
  BY <1>1, <1>2, <1>3, <1>4, <1>5, <1>6, <1>7, <1>8, <1>9, <1>10, <1>11 DEF Next, Job

\* An upsert of one entity's batch loses no key, and an overwriting empties only
\* a table that the catalogue does not know, or that counts as wiped.
LEMMA NextTableInv == TypeOK /\ JobInv /\ TableInv /\ Next => TableInv'
PROOF
<1> SUFFICES ASSUME TypeOK, JobInv, TableInv, Next PROVE TableInv'
  OBVIOUS
<1> USE DEF TypeOK, TableInv, rawVars, cleanVars, Written, Entities
<1>1. CASE \E o \in Objects : Land(o)
  BY <1>1 DEF Land, InTable
<1>2. CASE Schedule \/ CrawlFails
  BY <1>2 DEF Schedule, CrawlFails, InTable
<1>3. CASE CrawlSucceeds
  BY <1>3 DEF CrawlSucceeds, InTable
<1>4. ASSUME NEW e \in Entities, Read(e)
      PROVE  TableInv'
  BY <1>4 DEF Read, InTable
<1>5. ASSUME NEW e \in Entities, CheckTable(e)
      PROVE  TableInv'
  BY <1>5 DEF CheckTable, InTable
<1>6. ASSUME NEW e \in Entities, Append(e)
      PROVE  TableInv'
  <2>1. table \in SUBSET Objects /\ batch[e] \in SUBSET Objects /\ IsFiniteSet(batch[e])
    BY FS_Subset DEF JobInv, HudiObjects
  <2>2. \A o \in table \cup batch[e] : \E p \in table' : SameKey(o, p)
    BY <2>1, UpsertKeys, <1>6 DEF Append
  <2>3. \A o : InTable(o) => InTable(o)'
    BY <2>2, SameKeyEquivalence DEF InTable
  <2>4. \A o \in batch[e] : InTable(o)'
    BY <2>2 DEF InTable
  <2>5. /\ pc' = [pc EXCEPT ![e] = "sync"]
        /\ UNCHANGED <<batch, bookmark, catalogued, wiped>>
    BY <1>6 DEF Append
  <2> HIDE DEF InTable
  <2> QED BY <2>3, <2>4, <2>5
<1>7. ASSUME NEW e \in Entities, Overwrite(e)
      PROVE  TableInv'
  <2>1. e \in HudiEntities /\ (bookmark[e] # {} => e \in wiped)
    BY <1>7 DEF Overwrite, JobInv
  <2>2. ASSUME NEW f \in HudiEntities, NEW o \in Of(f), f # e, InTable(o)
        PROVE  InTable(o)'
    BY <2>2, <1>7 DEF Overwrite, InTable, SameKey, Of
  <2>3. /\ pc[e] = "overwrite" /\ pc' = [pc EXCEPT ![e] = "append"]
        /\ UNCHANGED <<batch, bookmark, catalogued, wiped>>
    BY <1>7 DEF Overwrite
  <2> HIDE DEF InTable
  <2> QED BY <2>1, <2>2, <2>3
<1>8. ASSUME NEW e \in Entities, NEW rest \in SUBSET batch[e], WriteFrame(e, rest)
      PROVE  TableInv'
  BY <1>8, EntitiesAssumption DEF WriteFrame, End, JobInv, InTable
<1>9. ASSUME NEW e \in Entities, SyncCatalogue(e)
      PROVE  TableInv'
  BY <1>9 DEF SyncCatalogue, InTable
<1>10. ASSUME NEW e \in Entities, Commit(e)
       PROVE  TableInv'
  BY <1>10 DEF Commit, End, InTable
<1>11. ASSUME NEW e \in Entities, Fail(e)
       PROVE  TableInv'
  BY <1>11 DEF Fail, End, InTable
<1> QED
  BY <1>1, <1>2, <1>3, <1>4, <1>5, <1>6, <1>7, <1>8, <1>9, <1>10, <1>11 DEF Next, Job
\* A step of another job, or of no job, leaves what is said of an entity's job.
LEMMA NextCopiesInv == TypeOK /\ JobInv /\ CopiesInv /\ Next => CopiesInv'
PROOF
<1> SUFFICES ASSUME TypeOK, JobInv, CopiesInv, Next,
                    NEW o \in ParquetObjects
             PROVE  CopiesOf(o)'
  BY DEF CopiesInv
<1> DEFINE d == Entity[o]
<1>a. /\ o \in Objects /\ d \in ParquetEntities /\ d \in Entities /\ d \notin HudiEntities
  BY ObjectsAssumption, EntitiesAssumption DEF ParquetObjects, Entities
<1>b. /\ copies[o] \in Nat /\ failures[d] \in Nat /\ failures \in [Entities -> 0 .. MaxFailures]
      /\ batch[d] \cap bookmark[d] = {}
      /\ CopiesOf(o)
  BY <1>a, ObjectsAssumption DEF TypeOK, JobInv, CopiesInv
<1> USE <1>a, <1>b DEF rawVars, cleanVars, Written, CopiesOf
<1>1. CASE \E x \in Objects : Land(x)
  BY <1>1 DEF Land
<1>2. CASE Schedule \/ CrawlFails
  BY <1>2 DEF Schedule, CrawlFails
<1>3. CASE CrawlSucceeds
  BY <1>3 DEF CrawlSucceeds, TypeOK
<1>4. ASSUME NEW e \in Entities, Read(e)
      PROVE  CopiesOf(o)'
  BY <1>4 DEF Read, TypeOK, Unread
<1>5. ASSUME NEW e \in Entities, CheckTable(e)
      PROVE  CopiesOf(o)'
  BY <1>5 DEF CheckTable, TypeOK
<1>6. ASSUME NEW e \in Entities, Append(e)
      PROVE  CopiesOf(o)'
  BY <1>6 DEF Append, TypeOK, JobInv
<1>7. ASSUME NEW e \in Entities, Overwrite(e)
      PROVE  CopiesOf(o)'
  BY <1>7 DEF Overwrite, TypeOK
<1>8. ASSUME NEW e \in Entities, NEW rest \in SUBSET batch[e], WriteFrame(e, rest)
      PROVE  CopiesOf(o)'
  BY <1>8 DEF WriteFrame, End, TypeOK, Of
<1>9. ASSUME NEW e \in Entities, SyncCatalogue(e)
      PROVE  CopiesOf(o)'
  BY <1>9 DEF SyncCatalogue, TypeOK
<1>10. ASSUME NEW e \in Entities, Commit(e)
       PROVE  CopiesOf(o)'
  BY <1>10 DEF Commit, End, TypeOK
<1>11. ASSUME NEW e \in Entities, Fail(e)
       PROVE  CopiesOf(o)'
  BY <1>11 DEF Fail, End, TypeOK
<1> QED
  BY <1>1, <1>2, <1>3, <1>4, <1>5, <1>6, <1>7, <1>8, <1>9, <1>10, <1>11 DEF Next, Job


\* What lands late counts as overtaken; a job reads all that has landed; and an
\* upsert leaves none but the newest rows of what it has read.
LEMMA NextOrderInv == TypeOK /\ JobInv /\ OrderInv /\ Next => OrderInv'
PROOF
<1> SUFFICES ASSUME TypeOK, JobInv, OrderInv, Next,
                    NEW e \in HudiEntities,
                    NEW o \in (bookmark[e] \cup batch[e])', NEW p \in landed',
                    SameKey(o, p), InOrder(o)'
             PROVE  Ordered(e, o, p)'
  BY DEF OrderInv, SameKey
<1>a. /\ Time \in [Objects -> Nat] /\ e \in Entities
      /\ overtaken \subseteq overtaken' => InOrder(o)
  BY ObjectsAssumption DEF InOrder, Entities
<1>b. o \in bookmark[e] \cup batch[e] /\ p \in landed /\ InOrder(o) => Ordered(e, o, p)
  BY DEF OrderInv
<1>c. o \in Objects /\ p \in Objects /\ Time[o] \in Nat /\ Time[p] \in Nat
  <2>1. TypeOK'
    BY NextTypeOK
  <2> QED BY <1>a, <2>1 DEF TypeOK
<1> USE <1>a, <1>b, <1>c DEF rawVars, cleanVars, Written, Ordered
<1>1. ASSUME NEW x \in Objects, Land(x)
      PROVE  Ordered(e, o, p)'
  BY <1>1 DEF Land, InOrder, TypeOK, SameKey
<1>2. CASE Schedule \/ CrawlFails
  BY <1>2 DEF Schedule, CrawlFails
<1>3. CASE CrawlSucceeds
  BY <1>3 DEF CrawlSucceeds, TypeOK
<1>4. ASSUME NEW f \in Entities, Read(f)
      PROVE  Ordered(e, o, p)'
  BY <1>4 DEF Read, Unread, TypeOK, Of, SameKey
<1>5. ASSUME NEW f \in Entities, CheckTable(f)
      PROVE  Ordered(e, o, p)'
  BY <1>5 DEF CheckTable, TypeOK
<1>6. ASSUME NEW f \in Entities, Append(f)
      PROVE  Ordered(e, o, p)'
  <2>1. table \in SUBSET Objects /\ batch[f] \in SUBSET Objects /\ IsFiniteSet(batch[f])
    BY FS_Subset DEF JobInv, HudiObjects, TypeOK
  <2>2. /\ table' \subseteq table \cup batch[f]
        /\ \A q \in batch[f], r \in table' : SameKey(q, r) => r \in batch[f] /\ Time[q] <= Time[r]
    BY <2>1, UpsertKeys, <1>6 DEF Append
  <2>3. /\ pc[f] = "append" /\ pc' = [pc EXCEPT ![f] = "sync"]
        /\ UNCHANGED <<batch, bookmark, landed, overtaken>>
    BY <1>6 DEF Append, rawVars
  <2>4. o \in bookmark[e] \cup batch[e] /\ Ordered(e, o, p)
    BY <2>3
  <2>5. f # e => p \notin batch[f] /\ (Written(e)' <=> Written(e))
    BY <2>3, <2>4 DEF TypeOK, Of, SameKey
  <2>6. f = e /\ p \in batch[f] => p \notin bookmark[e]
    BY DEF JobInv
  <2> QED BY <2>2, <2>3, <2>4, <2>5, <2>6
<1>7. ASSUME NEW f \in Entities, Overwrite(f)
      PROVE  Ordered(e, o, p)'
  BY <1>7 DEF Overwrite, TypeOK
<1>8. ASSUME NEW f \in Entities, NEW rest \in SUBSET batch[f], WriteFrame(f, rest)
      PROVE  Ordered(e, o, p)'
  BY <1>8, EntitiesAssumption DEF WriteFrame, End, TypeOK, JobInv
<1>9. ASSUME NEW f \in Entities, SyncCatalogue(f)
      PROVE  Ordered(e, o, p)'
  BY <1>9 DEF SyncCatalogue, TypeOK
<1>10. ASSUME NEW f \in Entities, Commit(f)
       PROVE  Ordered(e, o, p)'
  BY <1>10 DEF Commit, End, TypeOK
<1>11. ASSUME NEW f \in Entities, Fail(f)
       PROVE  Ordered(e, o, p)'
  BY <1>11 DEF Fail, End, TypeOK
<1> QED
  BY <1>1, <1>2, <1>3, <1>4, <1>5, <1>6, <1>7, <1>8, <1>9, <1>10, <1>11 DEF Next, Job

\* So does a step that changes nothing.
LEMMA StutterIInv == IInv /\ UNCHANGED vars => IInv'
BY DEF IInv, vars, rawVars, cleanVars, TypeOK, JobInv, TableInv, CopiesInv, CopiesOf,
       OrderInv, Ordered, InOrder, Written, InTable

\* The invariant holds in every state of every behaviour.
THEOREM Invariance == Spec => []IInv
PROOF
<1>1. IInv /\ [Next]_vars => IInv'
  BY NextTypeOK, NextJobInv, NextTableInv, NextCopiesInv, NextOrderInv, StutterIInv DEF IInv
<1> QED BY InitIInv, <1>1, PTL DEF Spec
-----------------------------------------------------------------------------
(***************************************************************************)
(* What follows from it.                                                   *)
(***************************************************************************)

\* The variables keep to the values that the jobs can give them.
THEOREM TypeCorrect == Spec => []TypeOK
<1>1. IInv => TypeOK
  BY DEF IInv
<1> QED BY Invariance, <1>1, PTL

\* A committed key stays in its Hudi table, and a committed row in parquet, over
\* any failures, unless an error of get_table has emptied the table.
THEOREM ProcessedKept == Spec => []ProcessedIsKept
<1>1. IInv => ProcessedIsKept
  <2> SUFFICES ASSUME IInv, NEW e \in Entities, NEW o \in Objects, o \in bookmark[e]
               PROVE  IF e \in HudiEntities THEN e \in wiped \/ InTable(o) ELSE copies[o] >= 1
    BY DEF ProcessedIsKept, InTable
  <2>1. CASE e \in HudiEntities
    BY <2>1 DEF IInv, TableInv
  <2>2. CASE e \notin HudiEntities
    <3>1. o \in ParquetObjects /\ Entity[o] = e
      BY <2>2 DEF IInv, TypeOK, Of, ParquetObjects, Entities
    <3>2. CopiesOf(o) /\ copies[o] \in Nat
      BY <3>1 DEF IInv, CopiesInv, TypeOK
    <3> QED BY <2>2, <3>1, <3>2 DEF CopiesOf
  <2> QED BY <2>1, <2>2
<1> QED BY Invariance, <1>1, PTL

\* Upserts keep the newest row of a key whose rows have landed in order.
THEOREM NewestKept == Spec => []NewestIsKept
<1>1. IInv => NewestIsKept
  BY DEF IInv, NewestIsKept, OrderInv, Ordered, InOrder, TypeOK
<1> QED BY Invariance, <1>1, PTL

\* A row is appended to parquet again only after a failure of its job.
THEOREM CopiesBounded == Spec => []CopiesByFailure
<1>1. IInv => CopiesByFailure
  <2> SUFFICES ASSUME IInv, NEW o \in ParquetObjects
               PROVE  copies[o] <= 1 + failures[Entity[o]]
    BY DEF CopiesByFailure
  <2>1. CopiesOf(o) /\ copies[o] \in Nat /\ failures[Entity[o]] \in Nat
    BY ObjectsAssumption DEF IInv, CopiesInv, TypeOK, ParquetObjects
  <2> QED BY <2>1 DEF CopiesOf
<1> QED BY Invariance, <1>1, PTL
-----------------------------------------------------------------------------
(***************************************************************************)
(* What a reader of the clean tables sees while jobs write them.           *)
(***************************************************************************)

\* What a reader of the catalogue finds in the Hudi tables.
Visible == {o \in table : Entity[o] \in catalogued}

\* A reader, as the warehouse load is, always finds the keys it has found before, in
\* no older row if they land in order, though a job's rows are there before they
\* count as processed, and may be written again by the next run or, if the job failed
\* before the catalogue knew the table, deleted.  But any error of get_table empties a
\* table.
VisibleRowsStay ==
    [][\A o \in Visible :
          \/ Entity[o] \in wiped'
          \/ \E p \in Visible' : SameKey(o, p) /\ (InOrder(o)' => Time[o] <= Time[p])]_vars

\* From when it has read its batch, a job has or has had every row of its table.
ReadInv ==
    \A e \in Entities : \A o \in table \cap Of(e) :
        pc[e] \notin {"idle", "read"} => o \in bookmark[e] \cup batch[e]

\* Every step keeps this: a job reads all that has landed and is not processed.
LEMMA NextReadInv == TypeOK /\ JobInv /\ ReadInv /\ [Next]_vars => ReadInv'
PROOF
<1> SUFFICES ASSUME TypeOK, JobInv, ReadInv, [Next]_vars,
                    NEW e \in Entities, NEW o \in table' \cap Of(e), pc'[e] \notin {"idle", "read"}
             PROVE  o \in bookmark'[e] \cup batch'[e]
  BY DEF ReadInv, Of
<1> USE DEF TypeOK, rawVars, cleanVars
<1>a. o \in table /\ pc[e] \notin {"idle", "read"} => o \in bookmark[e] \cup batch[e]
  BY DEF ReadInv
<1>1. CASE \E x \in Objects : Land(x)
  BY <1>a, <1>1 DEF Land
<1>2. CASE Schedule \/ CrawlFails
  BY <1>a, <1>2 DEF Schedule, CrawlFails
<1>3. CASE CrawlSucceeds
  BY <1>a, <1>3 DEF CrawlSucceeds
<1>4. ASSUME NEW f \in Entities, Read(f)
      PROVE  o \in bookmark'[e] \cup batch'[e]
  BY <1>a, <1>4 DEF Read, Unread
<1>5. ASSUME NEW f \in Entities, CheckTable(f)
      PROVE  o \in bookmark'[e] \cup batch'[e]
  BY <1>a, <1>5 DEF CheckTable
<1>6. ASSUME NEW f \in Entities, Append(f)
      PROVE  o \in bookmark'[e] \cup batch'[e]
  <2>1. table' \subseteq table \cup batch[f] /\ batch' = batch /\ bookmark' = bookmark
    BY <1>6 DEF Append, Upsert, Precombined
  <2>2. o \in batch[f] => f = e
    BY DEF Of
  <2>3. pc[e] \notin {"idle", "read"}
    BY <1>6 DEF Append
  <2> QED BY <1>a, <2>1, <2>2, <2>3
<1>7. ASSUME NEW f \in Entities, Overwrite(f)
      PROVE  o \in bookmark'[e] \cup batch'[e]
  BY <1>a, <1>7 DEF Overwrite
<1>8. ASSUME NEW f \in Entities, NEW rest \in SUBSET batch[f], WriteFrame(f, rest)
      PROVE  o \in bookmark'[e] \cup batch'[e]
  BY <1>a, <1>8 DEF WriteFrame, End
<1>9. ASSUME NEW f \in Entities, SyncCatalogue(f)
      PROVE  o \in bookmark'[e] \cup batch'[e]
  BY <1>a, <1>9 DEF SyncCatalogue
<1>10. ASSUME NEW f \in Entities, Commit(f) \/ Fail(f)
       PROVE  o \in bookmark'[e] \cup batch'[e]
  BY <1>a, <1>10 DEF Commit, Fail, End
<1>11. CASE UNCHANGED vars
  BY <1>a, <1>11 DEF vars
<1> QED
  BY <1>1, <1>2, <1>3, <1>4, <1>5, <1>6, <1>7, <1>8, <1>9, <1>10, <1>11 DEF Next, Job

\* The steps that write: an upsert replaces a row by a newer one of its key, and only
\* a table that readers do not see, or that counts as wiped, is deleted.
LEMMA StepKeepsRows ==
    ASSUME IInv, ReadInv, [Next]_vars, NEW o \in Visible, Entity[o] \notin wiped'
    PROVE  \E p \in Visible' : SameKey(o, p) /\ (InOrder(o)' => Time[o] <= Time[p])
PROOF
<1> DEFINE d == Entity[o]
<1>1. /\ o \in table /\ o \in landed /\ o \in Objects /\ d \in HudiEntities /\ d \in Entities
      /\ o \in Of(d) /\ d \in catalogued
  BY ObjectsAssumption DEF Visible, IInv, TypeOK, HudiObjects, Of, Entities
<1>2. Time[o] \in Nat /\ Time[o] <= Time[o] /\ SameKey(o, o)
  BY <1>1, ObjectsAssumption DEF SameKey
<1>3. catalogued \subseteq catalogued'
  BY DEF Next, Job, Land, Schedule, CrawlSucceeds, CrawlFails, Read, CheckTable, Append,
         Overwrite, WriteFrame, SyncCatalogue, Commit, Fail, vars, cleanVars
<1>4. CASE o \in table'
  BY <1>1, <1>2, <1>3, <1>4 DEF Visible
<1>5. ASSUME NEW e \in Entities, Append(e), o \notin table'
      PROVE  \E p \in Visible' : SameKey(o, p) /\ (InOrder(o)' => Time[o] <= Time[p])
  <2>1. /\ table' = Upsert(table, batch[e]) /\ overtaken' = overtaken /\ pc[e] = "append"
        /\ catalogued' = catalogued
    BY <1>5 DEF Append, rawVars
  <2>2. /\ batch[e] \in SUBSET Objects /\ IsFiniteSet(batch[e]) /\ batch[e] \subseteq Of(e)
        /\ batch[e] \subseteq landed
    BY FS_Subset DEF IInv, TypeOK, JobInv
  <2>3. PICK b \in batch[e] : SameKey(o, b)
    BY <1>1, <1>5, <2>1 DEF Upsert
  <2>4. PICK p \in Precombined(batch[e]) : SameKey(b, p)
    BY <2>2, <2>3, PrecombinedKeepsKeys
  <2>5. p \in batch[e] /\ p \in table' /\ SameKey(o, p) /\ e = d
    BY <2>1, <2>2, <2>3, <2>4 DEF Upsert, Precombined, SameKey, Of
  <2>6. p \in Visible'
    BY <1>1, <2>1, <2>5 DEF Visible, SameKey
  <2>7. ASSUME InOrder(o)
        PROVE  Time[o] <= Time[p]
    <3>1. o \in bookmark[e] \cup batch[e]
      BY <1>1, <2>1, <2>5 DEF ReadInv
    <3>2. CASE o \in batch[e]
      BY <2>4, <2>5, <3>2, SameKeyEquivalence DEF Precombined
    <3>3. CASE o \in bookmark[e]
      <4>1. p \notin bookmark[e] /\ p \in landed
        BY <2>2, <2>5 DEF IInv, JobInv
      <4>2. Ordered(e, o, p)
        BY <1>1, <2>5, <2>7, <3>3, <4>1 DEF IInv, OrderInv
      <4> QED BY <3>3, <4>1, <4>2 DEF Ordered
    <3> QED BY <3>1, <3>2, <3>3
  <2> QED BY <2>1, <2>5, <2>6, <2>7 DEF InOrder
<1>6. ASSUME NEW e \in Entities, Overwrite(e), o \notin table'
      PROVE  FALSE
  <2>1. e = d /\ pc[e] = "overwrite" /\ wiped' = wiped
    BY <1>1, <1>6 DEF Overwrite, Of
  <2> QED BY <1>1, <2>1 DEF IInv, TableInv
<1>7. ASSUME ~\E e \in Entities : Append(e) \/ Overwrite(e)
      PROVE  table' = table
  BY <1>7 DEF Next, Job, Land, Schedule, CrawlSucceeds, CrawlFails, Read, CheckTable,
              WriteFrame, SyncCatalogue, Commit, Fail, vars, cleanVars
<1> QED BY <1>1, <1>4, <1>5, <1>6, <1>7

\* What a reader of the catalogue has found of a key it finds again, in no older row.
THEOREM RowsStayVisible == Spec => VisibleRowsStay
PROOF
<1>1. Init => ReadInv
  BY DEF Init, ReadInv
<1>2. IInv /\ ReadInv /\ [Next]_vars => ReadInv'
  BY NextReadInv DEF IInv
<1>3. IInv /\ ReadInv /\ [Next]_vars =>
         [\A o \in Visible :
             \/ Entity[o] \in wiped'
             \/ \E p \in Visible' : SameKey(o, p) /\ (InOrder(o)' => Time[o] <= Time[p])]_vars
  BY StepKeepsRows
<1> QED BY <1>1, <1>2, <1>3, Invariance, PTL DEF Spec, VisibleRowsStay
=============================================================================
