------------------------- MODULE StreamFeed_proofs -------------------------
(***************************************************************************)
(* Proofs about StreamFeed, for any executions and files, numbers of rows, *)
(* sizes of a chunk, repeated announcements and attempts: type correctness,*)
(* and that no file is deleted before all its rows were sent.              *)
(***************************************************************************)
EXTENDS StreamFeed, FiniteSetTheorems, TLAPS

\* The first k rows of a file are in its stream, or were refused.
SentUpTo(f, k) ==
    \A i \in 1 .. Rows[f] :
        i <= k => <<f, i>> \in stream[GeneratorOf(f).stream] \cup refused

\* A call that waits has an attempt left, there is none for a file that is not
\* there, and one that sends has sent the rows that it counts.
CallInv ==
    \A f \in Files, n \in Deliveries :
        /\ call[f][n].at \in {"none", "queued"} => call[f][n].attempt < MaxAttempts
        /\ file[f] = "none" => call[f][n].at = "none"
        /\ call[f][n].at = "sending" => SentUpTo(f, call[f][n].sent)

DeletedInv == \A f \in Files : file[f] = "deleted" => SentUpTo(f, Rows[f])

IInv == TypeOK /\ CallInv /\ DeletedInv

USE DEF Calls

Execute(x) ==
    Start(x) \/ Configure(x) \/ AddStep(x) \/ StepDone(x)
    \/ UpdateIterator(x) \/ Fail(x) \/ StepFails(x)
-----------------------------------------------------------------------------
(***************************************************************************)
(* The operators.                                                          *)
(***************************************************************************)

\* The names of prefixes, directories and streams agree.
LEMMA GeneratorsAgree ==
    ASSUME NEW f \in Files
    PROVE  GeneratorOf(f).stream = StreamOf[Directory[f]] /\ GeneratorOf(f).stream \in Streams
PROOF
<1>1. Directory[f] \in {"sale", "customer", "address"}
  BY FeedAssumption
<1>2. \E g \in Generators : g.prefix = Directory[f]
  BY <1>1 DEF Generators, SaleGenerator, CustomerGenerator, AddressGenerator
<1>3. GeneratorOf(f) \in Generators /\ GeneratorOf(f).prefix = Directory[f]
  BY <1>2 DEF GeneratorOf
<1> QED
  BY <1>1, <1>3
  DEF Generators, SaleGenerator, CustomerGenerator, AddressGenerator, StreamOf, Streams

\* The next request has the rows that follow, as many as are counted for it.
LEMMA NextRowsCounted ==
    ASSUME NEW f \in Files, NEW sent \in Nat
    PROVE  /\ Cardinality(NextRows(f, sent)) \in Nat
           /\ \A i \in 1 .. Rows[f] :
                 i <= sent + Cardinality(NextRows(f, sent)) => i <= sent \/ i \in NextRows(f, sent)
           /\ NextRows(f, sent) = {} => \A i \in 1 .. Rows[f] : i <= sent
PROOF
<1> DEFINE last == IF sent + ChunkSize <= Rows[f] THEN sent + ChunkSize ELSE Rows[f]
<1>a. Rows[f] \in Nat /\ ChunkSize \in Nat \ {0}
  BY FeedAssumption
<1>1. NextRows(f, sent) = (sent + 1) .. last
  BY <1>a DEF NextRows
<1>2. sent + 1 \in Int /\ last \in Int
  BY <1>a
<1>3. Cardinality(NextRows(f, sent)) = IF sent + 1 > last THEN 0 ELSE last - (sent + 1) + 1
  <2> HIDE DEF last
  <2> QED BY <1>1, <1>2, FS_Interval
<1>4. ASSUME NextRows(f, sent) = {}, NEW i \in 1 .. Rows[f], ~(i <= sent)
      PROVE  FALSE
  <2>1. sent + 1 \in NextRows(f, sent)
    BY <1>a, <1>4 DEF NextRows
  <2> QED BY <2>1, <1>4
<1> QED BY <1>a, <1>1, <1>3, <1>4
-----------------------------------------------------------------------------
\* The invariant holds at first.
LEMMA InitIInv == Init => IInv
PROOF
<1> SUFFICES ASSUME Init PROVE IInv
  OBVIOUS
<1>1. TypeOK
  BY FeedAssumption DEF Init, TypeOK, NoCall
<1>2. CallInv /\ DeletedInv
  BY FeedAssumption DEF Init, CallInv, DeletedInv, NoCall
<1> QED BY <1>1, <1>2 DEF IInv

\* An execution touches neither the files nor the streams.
LEMMA ExecuteIInv ==
    ASSUME IInv, NEW x \in Executions, Execute(x)
    PROVE  IInv'
PROOF
<1>1. UNCHANGED feedVars
  BY DEF Execute, Start, Configure, AddStep, StepDone, UpdateIterator, Fail, StepFails
<1>2. TypeOK'
  <2> USE <1>1 DEF IInv, TypeOK, feedVars, Go
  <2>1. CASE Start(x) \/ Configure(x)
    BY <2>1 DEF Start, Configure
  <2>2. CASE AddStep(x)
    BY <2>2 DEF AddStep
  <2>3. CASE StepDone(x)
    BY <2>3 DEF StepDone
  <2>4. CASE UpdateIterator(x)
    BY <2>4 DEF UpdateIterator
  <2>5. CASE Fail(x)
    BY <2>5 DEF Fail
  <2>6. CASE StepFails(x)
    BY <2>6 DEF StepFails
  <2> QED BY <2>1, <2>2, <2>3, <2>4, <2>5, <2>6 DEF Execute
<1> QED BY <1>1, <1>2 DEF IInv, CallInv, DeletedInv, SentUpTo, feedVars

\* What is in a stream stays there.
LEMMA SentStays ==
    ASSUME TypeOK, NEW f \in Files, NEW k, SentUpTo(f, k),
           \A s \in Streams : stream[s] \subseteq stream'[s], refused \subseteq refused'
    PROVE  SentUpTo(f, k)'
BY GeneratorsAgree DEF SentUpTo
\* A step that changes one call, of one file, and forgets nothing that was sent.
LEMMA OneCallIInv ==
    ASSUME IInv, NEW f \in Files, NEW n \in Deliveries,
           NEW c, call' = [call EXCEPT ![f][n] = c],
           c \in Calls,
           c.at = "queued" => c.attempt < MaxAttempts,
           c.at # "none",
           NEW d \in {"stored", "deleted"}, file' = [file EXCEPT ![f] = d],
           \A s \in Streams : stream[s] \subseteq stream'[s], refused \subseteq refused',
           stream' \in [Streams -> SUBSET Records], refused' \subseteq Records,
           UNCHANGED generatorVars,
           c.at = "sending" => SentUpTo(f, c.sent)',
           d = "deleted" => SentUpTo(f, Rows[f])'
    PROVE  IInv'
PROOF
<1>1. TypeOK'
  BY DEF IInv, TypeOK, generatorVars
<1>2. CallInv'
  <2> SUFFICES ASSUME NEW g \in Files, NEW m \in Deliveries
               PROVE  /\ call'[g][m].at \in {"none", "queued"} => call'[g][m].attempt < MaxAttempts
                      /\ file'[g] = "none" => call'[g][m].at = "none"
                      /\ call'[g][m].at = "sending" => SentUpTo(g, call[g][m].sent)'
    BY DEF CallInv
  <2>1. CASE g = f /\ m = n
    BY <2>1 DEF IInv, TypeOK
  <2>2. CASE ~(g = f /\ m = n)
    <3>1. call'[g][m] = call[g][m]
      BY <2>2 DEF IInv, TypeOK
    <3>2. file'[g] = "none" => file[g] = "none"
      BY DEF IInv, TypeOK
    <3> QED BY <3>1, <3>2, SentStays DEF IInv, CallInv
  <2> QED BY <2>1, <2>2
<1>3. DeletedInv'
  <2> SUFFICES ASSUME NEW g \in Files, file'[g] = "deleted"
               PROVE  SentUpTo(g, Rows[g])'
    BY FeedAssumption DEF DeletedInv
  <2>1. CASE g = f
    BY <2>1 DEF IInv, TypeOK
  <2>2. CASE g # f
    BY <2>2, SentStays DEF IInv, TypeOK, DeletedInv
  <2> QED BY <2>1, <2>2
<1> QED BY <1>1, <1>2, <1>3 DEF IInv

\* What is put is accepted by the right stream, or refused.
LEMMA PutSends ==
    ASSUME IInv, NEW f \in Files, NEW n \in Deliveries,
           NEW taken \in SUBSET NextRows(f, call[f][n].sent), Put(f, n, taken)
    PROVE  /\ \A s \in Streams : stream[s] \subseteq stream'[s]
           /\ stream' \in [Streams -> SUBSET Records]
           /\ \A i \in taken : <<f, i>> \in stream'[GeneratorOf(f).stream]
           /\ file[f] = "stored" \/ file[f] = "deleted"
PROOF
<1>1. \A i \in taken : <<f, i>> \in Records
  BY DEF NextRows, Records
<1> QED BY <1>1, GeneratorsAgree DEF Put, IInv, TypeOK, CallInv

\* One call of the lambda: what it counts as sent, and the file that it deletes.
LEMMA InvokeIInv ==
    ASSUME IInv, NEW f \in Files, NEW n \in Deliveries, Invoke(f, n)
    PROVE  IInv'
PROOF
<1>c. PICK c : c = call[f][n]
  OBVIOUS
<1>a. /\ c \in Calls
      /\ MaxAttempts \in Nat \ {0}
      /\ c.at \in {"none", "queued"} => c.attempt < MaxAttempts
      /\ c.at \in {"queued", "sending"} => file[f] \in {"stored", "deleted"}
      /\ c.at = "sending" => SentUpTo(f, c.sent)
      /\ file = [file EXCEPT ![f] = file[f]]
      /\ stream \in [Streams -> SUBSET Records] /\ refused \subseteq Records
  BY FeedAssumption, <1>c DEF IInv, TypeOK, CallInv
<1>b. ASSUME NEW b \in Calls
      PROVE  /\ Retry(b) \in Calls
             /\ Retry(b).at \in {"queued", "dropped"}
             /\ Retry(b).at = "queued" => Retry(b).attempt < MaxAttempts
  <2>1. CASE b.attempt < MaxAttempts
    BY <2>1, FeedAssumption DEF Retry
  <2>2. CASE ~(b.attempt < MaxAttempts)
    <3>1. Retry(b) = [at |-> "dropped", attempt |-> 0, sent |-> 0]
      BY <2>2 DEF Retry, NoCall
    <3> QED BY <3>1, FeedAssumption
  <2> QED BY <2>1, <2>2
<1>1. CASE GetObject(f, n)
  <2> DEFINE d == [at |-> "sending", attempt |-> c.attempt + 1, sent |-> 0]
  <2>1. call' = [call EXCEPT ![f][n] = d]
    BY <1>1, <1>c DEF GetObject
  <2>2. SentUpTo(f, 0)'
    BY FeedAssumption DEF SentUpTo
  <2>3. UNCHANGED <<generatorVars, file, stream, refused>>
    BY <1>1, <1>c DEF GetObject
  <2>4. c.at = "queued"
    BY <1>1, <1>c DEF GetObject
  <2>5. d \in Calls
    BY <1>a, <2>4
  <2>6. d.at = "sending" /\ d.sent = 0
    OBVIOUS
  <2>7. file[f] = "deleted" => SentUpTo(f, Rows[f])'
    BY <2>3, SentStays DEF IInv, DeletedInv
  <2> HIDE DEF d
  <2> QED BY <1>a, <2>1, <2>2, <2>3, <2>4, <2>5, <2>6, <2>7, OneCallIInv
<1>2. CASE PutRecords(f, n)
  <2> DEFINE rows == NextRows(f, c.sent)
             d == [c EXCEPT !.sent = @ + Cardinality(rows)]
  <2>1. PICK taken \in SUBSET rows :
            /\ Put(f, n, taken)
            /\ refused' = refused \cup {<<f, i>> : i \in rows \ taken}
            /\ call' = [call EXCEPT ![f][n].sent = @ + Cardinality(rows)]
            /\ UNCHANGED <<generatorVars, file>>
    BY <1>2, <1>c DEF PutRecords
  <2>2. /\ Cardinality(rows) \in Nat
        /\ \A i \in 1 .. Rows[f] : i <= c.sent + Cardinality(rows) => i <= c.sent \/ i \in rows
    BY <1>a, NextRowsCounted
  <2>3. call' = [call EXCEPT ![f][n] = d]
    BY <2>1, <1>c DEF IInv, TypeOK
  <2>4. c.at = "sending"
    BY <2>1, <1>c DEF Put
  <2>5. /\ \A s \in Streams : stream[s] \subseteq stream'[s]
        /\ stream' \in [Streams -> SUBSET Records]
        /\ \A i \in taken : <<f, i>> \in stream'[GeneratorOf(f).stream]
    BY <2>1, <1>c, PutSends
  <2>6. refused \subseteq refused' /\ refused' \subseteq Records
    BY <1>a, <2>1 DEF NextRows, Records
  <2>7. SentUpTo(f, c.sent)'
    BY <1>a, <2>4, <2>5, <2>6, SentStays DEF IInv
  <2>8. SentUpTo(f, d.sent)'
    BY <1>a, <2>1, <2>2, <2>5, <2>7 DEF SentUpTo
  <2>9. /\ d \in Calls
        /\ d.at = "sending"
    BY <1>a, <2>2, <2>4
  <2>10. file[f] = "deleted" => SentUpTo(f, Rows[f])'
    BY <2>5, <2>6, SentStays DEF IInv, DeletedInv
  <2> HIDE DEF d, rows
  <2> QED BY <1>a, <2>1, <2>3, <2>4, <2>5, <2>6, <2>8, <2>9, <2>10, OneCallIInv
<1>3. CASE DeleteObject(f, n)
  <2> DEFINE d == [NoCall EXCEPT !.at = "done"]
  <2>1. /\ call' = [call EXCEPT ![f][n] = d] /\ file' = [file EXCEPT ![f] = "deleted"]
        /\ c.at = "sending" /\ NextRows(f, c.sent) = {}
        /\ UNCHANGED <<generatorVars, stream, refused>>
    BY <1>3, <1>c DEF DeleteObject
  <2>2. SentUpTo(f, Rows[f])'
    BY <1>a, <2>1, NextRowsCounted DEF SentUpTo
  <2>3. /\ d \in Calls
        /\ d.at = "done"
    BY <1>a DEF NoCall
  <2> HIDE DEF d
  <2> QED BY <1>a, <2>1, <2>2, <2>3, OneCallIInv
<1>4. CASE Raise(f, n)
  <2>1. /\ call' = [call EXCEPT ![f][n] = Retry(c)]
        /\ c.at = "sending" /\ UNCHANGED <<generatorVars, file, refused>>
    BY <1>4, <1>c DEF Raise
  <2>2. (\A s \in Streams : stream[s] \subseteq stream'[s]) /\ stream' \in [Streams -> SUBSET Records]
    BY <1>4, <1>a, <1>c, PutSends DEF Raise
  <2>3. file[f] = "deleted" => SentUpTo(f, Rows[f])'
    BY <2>1, <2>2, SentStays DEF IInv, DeletedInv
  <2> QED BY <1>a, <1>b, <2>1, <2>2, <2>3, OneCallIInv
<1>5. CASE NoSuchKey(f, n)
  <2> DEFINE b == [c EXCEPT !.attempt = @ + 1]
  <2>1. /\ call' = [call EXCEPT ![f][n] = Retry(b)]
        /\ c.at = "queued" /\ UNCHANGED <<generatorVars, file, stream, refused>>
    <3>1. b = [call[f][n] EXCEPT !.attempt = @ + 1]
      BY <1>c
    <3> HIDE DEF b
    <3> QED BY <1>5, <1>c, <3>1 DEF NoSuchKey
  <2>2. b \in Calls
    BY <1>a, <2>1
  <2>3. file[f] = "deleted" => SentUpTo(f, Rows[f])'
    BY <2>1, SentStays DEF IInv, DeletedInv
  <2> HIDE DEF b
  <2> QED BY <1>a, <1>b, <2>1, <2>2, <2>3, OneCallIInv
<1> QED BY <1>1, <1>2, <1>3, <1>4, <1>5 DEF Invoke
\* Every step keeps it.
LEMMA NextIInv == IInv /\ Next => IInv'
PROOF
<1> SUFFICES ASSUME IInv, Next PROVE IInv'
  OBVIOUS
<1>1. CASE \E x \in Executions : Execute(x)
  BY <1>1, ExecuteIInv
<1>2. ASSUME NEW f \in Files, WriteFile(f)
      PROVE  IInv'
  <2>1. 1 \in Deliveries /\ call[f][1].attempt < MaxAttempts
    BY <1>2, FeedAssumption DEF WriteFile, IInv, CallInv
  <2> QED
    BY <1>2, <2>1, SentStays DEF WriteFile, IInv, TypeOK, CallInv, DeletedInv, generatorVars
<1>3. ASSUME NEW f \in Files, NEW n \in Deliveries, AnnounceAgain(f, n)
      PROVE  IInv'
  <2>1. PICK c : c = [call[f][n] EXCEPT !.at = "queued"]
    OBVIOUS
  <2>2. /\ call' = [call EXCEPT ![f][n] = c]
        /\ UNCHANGED <<generatorVars, file, stream, refused>>
    BY <1>3, <2>1 DEF AnnounceAgain, IInv, TypeOK
  <2>3. /\ c \in Calls
        /\ c.at = "queued" /\ c.attempt < MaxAttempts
        /\ file[f] \in {"stored", "deleted"} /\ file = [file EXCEPT ![f] = file[f]]
    <3>1. /\ call[f][n] \in Calls
          /\ call[f][n].attempt < MaxAttempts
      BY <1>3 DEF AnnounceAgain, IInv, TypeOK, CallInv
    <3>2. file[f] \in {"stored", "deleted"} /\ file = [file EXCEPT ![f] = file[f]]
      BY <1>3 DEF AnnounceAgain, IInv, TypeOK
    <3> QED BY <3>1, <3>2, <2>1
  <2>4. file[f] = "deleted" => SentUpTo(f, Rows[f])'
    BY <2>2, SentStays DEF IInv, DeletedInv
  <2> QED BY <2>2, <2>3, <2>4, OneCallIInv DEF IInv, TypeOK
<1>4. CASE \E f \in Files, n \in Deliveries : Invoke(f, n)
  BY <1>4, InvokeIInv
<1> QED BY <1>1, <1>2, <1>3, <1>4 DEF Next, Execute

\* The invariant holds in every state of every behaviour.
THEOREM Invariance == Spec => []IInv
PROOF
<1>1. IInv /\ UNCHANGED vars => IInv'
  BY DEF IInv, TypeOK, CallInv, DeletedInv, SentUpTo, vars, generatorVars, feedVars
<1> QED BY InitIInv, NextIInv, <1>1, PTL DEF Spec
-----------------------------------------------------------------------------
\* The variables keep to the values that the executions and the lambda give them.
THEOREM TypeCorrect == Spec => []TypeOK
<1>1. IInv => TypeOK
  BY DEF IInv
<1> QED BY Invariance, <1>1, PTL

\* A file is deleted only after each of its rows was taken by its stream or
\* refused, in whatever chunks and over whatever repeated and failed calls.
THEOREM SentBeforeDeleted == Spec => []DeletedWasSent
<1>1. IInv => DeletedWasSent
  <2> SUFFICES ASSUME IInv, NEW r \in Records, file[r[1]] = "deleted"
               PROVE  r \in stream[StreamOf[Directory[r[1]]]] \cup refused
    BY DEF DeletedWasSent
  <2>1. PICK f \in Files : r \in {f} \X (1 .. Rows[f])
    BY DEF Records
  <2>2. r = <<f, r[2]>> /\ r[1] = f /\ r[2] \in 1 .. Rows[f]
    BY <2>1
  <2>3. SentUpTo(f, Rows[f]) /\ r[2] <= Rows[f]
    BY <2>2, FeedAssumption DEF IInv, DeletedInv
  <2> QED BY <2>2, <2>3, GeneratorsAgree DEF SentUpTo
<1> QED BY Invariance, <1>1, PTL
=============================================================================
