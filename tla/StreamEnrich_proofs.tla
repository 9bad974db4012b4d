------------------------ MODULE StreamEnrich_proofs ------------------------
(***************************************************************************)
(* Proofs about StreamEnrich, for any events, keys and number of failures: *)
(* type correctness, exactly once up to S3, no sale stranded behind its    *)
(* partner, at least once to Elasticsearch, and that the application       *)
(* implements DenormalizedSales.                                           *)
(***************************************************************************)
EXTENDS StreamEnrich, FiniteSetTheorems, TLAPS

(***************************************************************************)
(* The inductive invariant.  A checkpoint must be as good a state to go on *)
(* from as the job's own, so what holds of the job is asked of both.       *)
(***************************************************************************)

\* The joins before joiner j.
Before == [bill  |-> {},
           ship  |-> {"bill"},
           item  |-> {"bill", "ship"},
           promo |-> {"bill", "ship", "item"}]

\* The joins a sale at place p has behind it.
JoinsDone(p) == IF p[1] \in {"inbox", "buffered"} THEN Before[p[2]] ELSE Joiners

\* Join j of sale r has been made, with the right partner.
JoinMade(j, r) ==
    IF KeyOf(j, r.sale) = NoValue THEN r.with[j] = NoValue
                                  ELSE RefMatches(j, KeyOf(j, r.sale), r.with[j])

\* Sale r has been through the joins done, and through no other.
Joined(done, r) ==
    \A j \in Joiners : IF j \in done THEN JoinMade(j, r) ELSE r.with[j] = NoValue

SalesJoined(at) == \A p \in Places : \A r \in at[p] : Joined(JoinsDone(p), r)

\* The state of CustomerAddressJoiner is under the right key.
SlotsMatch(jb) ==
    \A a \in Addresses :
        /\ jb.customerState[a] # NoValue => CustomerAddress[jb.customerState[a]] = a
        /\ jb.addressState[a] # NoValue => AddressId[jb.addressState[a]] = a

\* So is what the joiners have seen.
RefsMatch(jb) ==
    /\ \A j \in {"bill", "ship"} : \A v \in jb.customersTo[j] : CustomerMatches(v)
    /\ \A j \in Joiners, k \in Keys :
          jb.ref[j][k] # NoValue => RefMatches(j, k, jb.ref[j][k])

\* NoneStranded, for sales that have a key.
WaitWithKey(jb) ==
    \A j \in Joiners : \A r \in jb.buffered[j] :
        /\ KeyOf(j, r.sale) # NoValue
        /\ jb.ref[j][KeyOf(j, r.sale)] = NoValue

StateMatches(jb) == SlotsMatch(jb) /\ RefsMatch(jb) /\ WaitWithKey(jb)

JobOK(jb, pending, committed) ==
    /\ StateMatches(jb)
    /\ SalesJoined(Held(jb, pending, committed))
    /\ HeldOnce(jb, pending, committed)

\* What is pending in S3 is in Elasticsearch or on its way there.
SinksAgree ==
    /\ esBuffer \subseteq s3Pending
    /\ \A r \in s3Pending : r \in esBuffer \/ esDocs[r.sale] > 0
    /\ CommittedIsIndexed

IInv ==
    /\ TypeOK
    /\ JobOK(job, s3Pending, s3Committed)
    /\ checkpoint # NoValue => JobOK(checkpoint, {}, s3Committed)
    /\ checkpoint = NoValue => s3Committed = {}
    /\ SinksAgree
-----------------------------------------------------------------------------
(***************************************************************************)
(* Where records go.                                                       *)
(***************************************************************************)

\* Where a joiner's output is held.
Dest(j) == IF j = "promo" THEN <<"pending", "s3">> ELSE <<"inbox", NextJoiner[j]>>

\* Place q has X now.
Placed(new, at, q, X) == \A p \in Places : new[p] = IF p = q THEN X ELSE at[p]

\* Sales rs have come to place q, have left it, or have moved as es.
Added(new, at, q, rs) ==
    \A p \in Places : new[p] = IF p = q THEN at[p] \cup rs ELSE at[p]

Removed(new, at, q, rs) ==
    \A p \in Places : new[p] = IF p = q THEN at[p] \ rs ELSE at[p]

Moved(new, at, from, rs, to, es) ==
    \A p \in Places : new[p] = IF p = from THEN at[p] \ rs
                               ELSE IF p = to THEN at[p] \cup es
                               ELSE at[p]

\* The sales X wait in joiner j, and the others where they were.
WaitIn(nb, jb, j, X) ==
    /\ nb.salesTo = jb.salesTo
    /\ \A i \in Joiners : nb.buffered[i] = IF i = j THEN X ELSE jb.buffered[i]

\* The key by which a joiner finds the partner of a sale, if it has one.
LEMMA KeyOfType ==
    ASSUME NEW j \in Joiners, NEW s \in Sales
    PROVE  KeyOf(j, s) \in Keys \cup {NoValue}
BY RetailAssumption DEF KeyOf, Keys, Joiners

\* Where a joiner sends a sale, and which joiners it has passed there.
LEMMA DestFacts ==
    ASSUME NEW j \in Joiners
    PROVE  /\ Dest(j) \in Places
           /\ JoinsDone(Dest(j)) = Before[j] \cup {j}
           /\ j \notin Before[j]
           /\ Dest(j) # <<"buffered", j>>
           /\ Dest(j) # <<"inbox", j>>
           /\ <<"buffered", j>> \in Places
           /\ <<"inbox", j>> \in Places
           /\ JoinsDone(<<"buffered", j>>) = Before[j]
           /\ JoinsDone(<<"inbox", j>>) = Before[j]
BY DEF Dest, Joiners, NextJoiner, Places, JoinsDone, Before

\* Each place holds sales.
LEMMA HeldType ==
    ASSUME NEW jb \in Jobs,
           NEW pending \in SUBSET EnrichedSales, NEW committed \in SUBSET EnrichedSales
    PROVE  Held(jb, pending, committed) \in [Places -> SUBSET EnrichedSales]
BY DEF Held, Places, Jobs

\* A job without a checkpoint starts as a job.
LEMMA NewJobType ==
    ASSUME NEW skip \in SUBSET Events
    PROVE  NewJob(skip) \in Jobs
BY DEF NewJob, Jobs

\* The places are the inboxes, the waiting lists, and the two in S3.
LEMMA PlaceCases ==
    ASSUME NEW p \in Places
    PROVE  \/ \E j \in Joiners : p = <<"inbox", j>>
           \/ \E j \in Joiners : p = <<"buffered", j>>
           \/ p = <<"pending", "s3">>
           \/ p = <<"committed", "s3">>
BY DEF Places

\* What each of the places holds.
LEMMA HeldAt ==
    ASSUME NEW jb, NEW pending, NEW committed
    PROVE  /\ \A j \in Joiners :
                 /\ Held(jb, pending, committed)[<<"inbox", j>>] = jb.salesTo[j]
                 /\ Held(jb, pending, committed)[<<"buffered", j>>] = jb.buffered[j]
           /\ Held(jb, pending, committed)[<<"pending", "s3">>] = pending
           /\ Held(jb, pending, committed)[<<"committed", "s3">>] = committed
BY DEF Held, Places

\* More or fewer sales in the buffer of one joiner.
LEMMA HeldWaiting ==
    ASSUME NEW jb, NEW nb, NEW j \in Joiners, NEW pending, NEW committed, NEW X,
           WaitIn(nb, jb, j, X)
    PROVE  Placed(Held(nb, pending, committed), Held(jb, pending, committed),
                  <<"buffered", j>>, X)
<1>. SUFFICES ASSUME NEW p \in Places
              PROVE  Held(nb, pending, committed)[p] =
                       IF p = <<"buffered", j>> THEN X ELSE Held(jb, pending, committed)[p]
  BY DEF Placed
<1>. DEFINE H0 == Held(jb, pending, committed)
            H1 == Held(nb, pending, committed)
<1>1. /\ \A i \in Joiners : H0[<<"inbox", i>>] = jb.salesTo[i] /\ H0[<<"buffered", i>>] = jb.buffered[i]
      /\ H0[<<"pending", "s3">>] = pending /\ H0[<<"committed", "s3">>] = committed
  BY HeldAt
<1>2. /\ \A i \in Joiners : H1[<<"inbox", i>>] = nb.salesTo[i] /\ H1[<<"buffered", i>>] = nb.buffered[i]
      /\ H1[<<"pending", "s3">>] = pending /\ H1[<<"committed", "s3">>] = committed
  BY HeldAt
<1>. HIDE DEF H0, H1
<1>3. CASE p = <<"pending", "s3">> \/ p = <<"committed", "s3">>
  <2>1. H0[p] = H1[p] /\ p # <<"buffered", j>>
    BY <1>1, <1>2, <1>3
  <2>. QED  BY <2>1 DEF H0, H1
<1>4. CASE \E i \in Joiners : p = <<"inbox", i>>
  <2>1. PICK i \in Joiners : p = <<"inbox", i>>
    BY <1>4
  <2>2. H0[p] = jb.salesTo[i] /\ H1[p] = jb.salesTo[i] /\ p # <<"buffered", j>>
    BY <1>1, <1>2, <2>1 DEF WaitIn
  <2>. QED  BY <2>2 DEF H0, H1
<1>5. CASE \E i \in Joiners : p = <<"buffered", i>>
  <2>1. PICK i \in Joiners : p = <<"buffered", i>>
    BY <1>5
  <2>2. H0[p] = jb.buffered[i] /\ H1[p] = nb.buffered[i] /\ (p = <<"buffered", j>> <=> i = j)
    BY <1>1, <1>2, <2>1
  <2>3. H1[p] = IF i = j THEN X ELSE jb.buffered[i]
    BY <2>2 DEF WaitIn
  <2>4. H1[p] = IF p = <<"buffered", j>> THEN X ELSE H0[p]
    BY <2>2, <2>3
  <2>. QED  BY <2>4 DEF H0, H1
<1>6. H1[p] = IF p = <<"buffered", j>> THEN X ELSE H0[p]
  BY <1>3, <1>4, <1>5, PlaceCases DEF H0, H1
<1>. QED  BY <1>6 DEF H0, H1

\* Collect adds its records to the place Dest(j), and changes nothing else of
\* the job.
LEMMA CollectEffect ==
    ASSUME NEW jb \in Jobs, NEW j \in Joiners, NEW rs \in SUBSET EnrichedSales,
           s3Pending \in SUBSET EnrichedSales, s3Committed \in SUBSET EnrichedSales,
           Collect(j, rs, jb)
    PROVE  /\ job' \in Jobs
           /\ job' = [jb EXCEPT !.salesTo = job'.salesTo]
           /\ Added(Held(job', s3Pending', s3Committed), Held(jb, s3Pending, s3Committed),
                    Dest(j), rs)
           /\ s3Pending' \in SUBSET EnrichedSales
           /\ \/ esBuffer' = esBuffer \cup rs /\ s3Pending' = s3Pending \cup rs
              \/ esBuffer' = esBuffer /\ s3Pending' = s3Pending
<1>1. CASE j = "promo"
  <2>1. job' = jb /\ s3Pending' = s3Pending \cup rs /\ esBuffer' = esBuffer \cup rs
    BY <1>1 DEF Collect
  <2>2. Dest(j) = <<"pending", "s3">>
    BY <1>1 DEF Dest
  <2>. DEFINE H0 == Held(jb, s3Pending, s3Committed)
              H1 == Held(jb, s3Pending', s3Committed)
  <2>5. /\ \A i \in Joiners : H0[<<"inbox", i>>] = jb.salesTo[i] /\ H0[<<"buffered", i>>] = jb.buffered[i]
        /\ H0[<<"pending", "s3">>] = s3Pending /\ H0[<<"committed", "s3">>] = s3Committed
    BY HeldAt
  <2>6. /\ \A i \in Joiners : H1[<<"inbox", i>>] = jb.salesTo[i] /\ H1[<<"buffered", i>>] = jb.buffered[i]
        /\ H1[<<"pending", "s3">>] = s3Pending' /\ H1[<<"committed", "s3">>] = s3Committed
    BY HeldAt
  <2>. HIDE DEF H0, H1
  <2>3. ASSUME NEW p \in Places
        PROVE  H1[p] = IF p = Dest(j) THEN H0[p] \cup rs ELSE H0[p]
    <3>1. CASE p = <<"pending", "s3">>
      BY <2>1, <2>2, <2>5, <2>6, <3>1
    <3>2. CASE p = <<"committed", "s3">>
      BY <2>2, <2>5, <2>6, <3>2
    <3>3. CASE \E i \in Joiners : p = <<"inbox", i>>
      <4>1. PICK i \in Joiners : p = <<"inbox", i>>
        BY <3>3
      <4>2. p # Dest(j)
        BY <4>1, <2>2
      <4>3. H0[p] = jb.salesTo[i] /\ H1[p] = jb.salesTo[i]
        BY <4>1, <2>5, <2>6
      <4>. QED  BY <4>2, <4>3
    <3>4. CASE \E i \in Joiners : p = <<"buffered", i>>
      <4>1. PICK i \in Joiners : p = <<"buffered", i>>
        BY <3>4
      <4>2. p # Dest(j)
        BY <4>1, <2>2
      <4>3. H0[p] = jb.buffered[i] /\ H1[p] = jb.buffered[i]
        BY <4>1, <2>5, <2>6
      <4>. QED  BY <4>2, <4>3
    <3>. QED  BY <3>1, <3>2, <3>3, <3>4, PlaceCases
  <2>4. jb = [jb EXCEPT !.salesTo = jb.salesTo]
    BY DEF Jobs
  <2>7. Added(H1, H0, Dest(j), rs)
    BY <2>3 DEF Added
  <2>. QED  BY <2>1, <2>4, <2>7 DEF H0, H1
<1>2. CASE j # "promo"
  <2>1. job' = [jb EXCEPT !.salesTo[NextJoiner[j]] = @ \cup rs]
    BY <1>2 DEF Collect
  <2>2. s3Pending' = s3Pending /\ esBuffer' = esBuffer
    BY <1>2 DEF Collect
  <2>3. NextJoiner[j] \in Joiners /\ Dest(j) = <<"inbox", NextJoiner[j]>>
    BY <1>2 DEF NextJoiner, Joiners, Dest
  <2>4. /\ job' \in Jobs
        /\ job'.buffered = jb.buffered
        /\ job'.salesTo = [jb.salesTo EXCEPT ![NextJoiner[j]] = @ \cup rs]
        /\ job' = [jb EXCEPT !.salesTo = job'.salesTo]
    BY <2>1, <2>3 DEF Jobs
  <2>5. \A i \in Joiners :
          job'.salesTo[i] = IF i = NextJoiner[j] THEN jb.salesTo[i] \cup rs ELSE jb.salesTo[i]
    BY <2>3, <2>4 DEF Jobs
  <2>. DEFINE H0 == Held(jb, s3Pending, s3Committed)
              H1 == Held(job', s3Pending, s3Committed)
  <2>7. /\ \A i \in Joiners : H0[<<"inbox", i>>] = jb.salesTo[i] /\ H0[<<"buffered", i>>] = jb.buffered[i]
        /\ H0[<<"pending", "s3">>] = s3Pending /\ H0[<<"committed", "s3">>] = s3Committed
    BY HeldAt
  <2>8. /\ \A i \in Joiners : H1[<<"inbox", i>>] = job'.salesTo[i] /\ H1[<<"buffered", i>>] = job'.buffered[i]
        /\ H1[<<"pending", "s3">>] = s3Pending /\ H1[<<"committed", "s3">>] = s3Committed
    BY HeldAt
  <2>. HIDE DEF H0, H1
  <2>6. ASSUME NEW p \in Places
        PROVE  H1[p] = IF p = Dest(j) THEN H0[p] \cup rs ELSE H0[p]
    <3>1. CASE p = <<"pending", "s3">> \/ p = <<"committed", "s3">>
      BY <2>3, <2>7, <2>8, <3>1
    <3>2. CASE \E i \in Joiners : p = <<"inbox", i>>
      <4>1. PICK i \in Joiners : p = <<"inbox", i>>
        BY <3>2
      <4>2. p = Dest(j) <=> i = NextJoiner[j]
        BY <4>1, <2>3
      <4>3. H0[p] = jb.salesTo[i] /\ H1[p] = job'.salesTo[i]
        BY <4>1, <2>7, <2>8
      <4>. QED  BY <2>5, <4>2, <4>3
    <3>3. CASE \E i \in Joiners : p = <<"buffered", i>>
      <4>1. PICK i \in Joiners : p = <<"buffered", i>>
        BY <3>3
      <4>2. p # Dest(j)
        BY <4>1, <2>3
      <4>3. H0[p] = jb.buffered[i] /\ H1[p] = jb.buffered[i]
        BY <4>1, <2>4, <2>7, <2>8
      <4>. QED  BY <4>2, <4>3
    <3>. QED  BY <3>1, <3>2, <3>3, PlaceCases
  <2>9. Added(H1, H0, Dest(j), rs)
    BY <2>6 DEF Added
  <2>. QED  BY <2>2, <2>4, <2>9 DEF H0, H1
<1>. QED  BY <1>1, <1>2
-----------------------------------------------------------------------------
(***************************************************************************)
(* Moving sales between places keeps each of them in one place.            *)
(***************************************************************************)

\* What it means that sales are held once, in a form for the provers.
LEMMA OnceMeans ==
    ASSUME NEW at, NEW S
    PROVE  Once(at, S) <=>
             /\ \A p \in Places : \A r \in at[p] : r.sale \in S
             /\ \A s \in S : \E p \in Places : \E r \in at[p] : r.sale = s
             /\ \A p1, p2 \in Places : \A r1 \in at[p1], r2 \in at[p2] :
                   r1.sale = r2.sale => p1 = p2 /\ r1 = r2
BY DEF Once

\* A record taken from its place leaves the other sales held once.
LEMMA OnceRemove ==
    ASSUME NEW at, NEW new, NEW S, Once(at, S),
           NEW from \in Places, NEW r \in at[from],
           Removed(new, at, from, {r})
    PROVE  Once(new, S \ {r.sale})
<1>a. \A p \in Places : \A q \in at[p] : q.sale \in S
  BY OnceMeans
<1>b. \A s \in S : \E p \in Places : \E q \in at[p] : q.sale = s
  BY OnceMeans
<1>c. \A p1, p2 \in Places : \A r1 \in at[p1], r2 \in at[p2] :
        r1.sale = r2.sale => p1 = p2 /\ r1 = r2
  BY OnceMeans
<1>d. ASSUME NEW p \in Places, NEW q \in new[p]
      PROVE  q \in at[p] /\ (p = from => q # r)
  <2>1. CASE p = from
    BY <2>1 DEF Removed
  <2>2. CASE p # from
    BY <2>2 DEF Removed
  <2>. QED  BY <2>1, <2>2
<1>1. ASSUME NEW p \in Places, NEW q \in new[p]
      PROVE  q.sale \in S \ {r.sale}
  <2>1. q \in at[p] /\ (p = from => q # r)
    BY <1>d
  <2>. QED  BY <2>1, <1>a, <1>c
<1>2. ASSUME NEW s \in S \ {r.sale}
      PROVE  \E p \in Places : \E q \in new[p] : q.sale = s
  <2>1. PICK p \in Places : \E q \in at[p] : q.sale = s
    BY <1>b
  <2>9. PICK q \in at[p] : q.sale = s
    BY <2>1
  <2>2. q \in new[p]
    BY <2>9 DEF Removed
  <2>. QED  BY <2>9, <2>2
<1>3. \A p1, p2 \in Places : \A r1 \in new[p1], r2 \in new[p2] :
        r1.sale = r2.sale => p1 = p2 /\ r1 = r2
  BY <1>c, <1>d
<1>. QED  BY <1>1, <1>2, <1>3, OnceMeans

\* A record put where its sale was missing leaves all sales held once.
LEMMA OnceAdd ==
    ASSUME NEW at, NEW new, NEW S, NEW r, Once(at, S \ {r.sale}), r.sale \in S,
           NEW to \in Places, Added(new, at, to, {r})
    PROVE  Once(new, S)
<1>a. \A p \in Places : \A q \in at[p] : q.sale \in S \ {r.sale}
  BY OnceMeans
<1>b. \A s \in S \ {r.sale} : \E p \in Places : \E q \in at[p] : q.sale = s
  BY OnceMeans
<1>c. \A p1, p2 \in Places : \A r1 \in at[p1], r2 \in at[p2] :
        r1.sale = r2.sale => p1 = p2 /\ r1 = r2
  BY OnceMeans
<1>1. \A p \in Places : \A q \in new[p] : q.sale \in S
  BY <1>a DEF Added
<1>2. ASSUME NEW s \in S
      PROVE  \E p \in Places : \E q \in new[p] : q.sale = s
  <2>1. CASE s = r.sale
    BY <2>1 DEF Added
  <2>2. CASE s # r.sale
    <3>1. PICK p \in Places : \E q \in at[p] : q.sale = s
      BY <1>b, <2>2
    <3>9. PICK q \in at[p] : q.sale = s
      BY <3>1
    <3>2. q \in new[p]
      BY <3>9 DEF Added
    <3>. QED  BY <3>9, <3>2
  <2>. QED  BY <2>1, <2>2
<1>3. ASSUME NEW p1 \in Places, NEW p2 \in Places, NEW r1 \in new[p1], NEW r2 \in new[p2],
             r1.sale = r2.sale
      PROVE  p1 = p2 /\ r1 = r2
  <2>1. \/ r1 \in at[p1] /\ r2 \in at[p2]
        \/ p1 = to /\ r1 = r /\ r2 \in at[p2]
        \/ p2 = to /\ r2 = r /\ r1 \in at[p1]
        \/ p1 = to /\ r1 = r /\ p2 = to /\ r2 = r
    BY DEF Added
  <2>2. \A p \in Places : \A q \in at[p] : q.sale # r.sale
    BY <1>a
  <2>. QED  BY <1>3, <1>c, <2>1, <2>2
<1>. QED  BY <1>1, <1>2, <1>3, OnceMeans

\* The sales M move; on the way, each may be enriched.
LEMMA OnceMove ==
    ASSUME NEW at, NEW new, NEW S, Once(at, S),
           NEW from \in Places, NEW to \in Places, from # to,
           NEW M \in SUBSET at[from], NEW g, \A r \in M : g[r].sale = r.sale,
           Moved(new, at, from, M, to, {g[r] : r \in M})
    PROVE  Once(new, S)
<1>a. \A p \in Places : \A q \in at[p] : q.sale \in S
  BY OnceMeans
<1>b. \A s \in S : \E p \in Places : \E q \in at[p] : q.sale = s
  BY OnceMeans
<1>c. \A p1, p2 \in Places : \A r1 \in at[p1], r2 \in at[p2] :
        r1.sale = r2.sale => p1 = p2 /\ r1 = r2
  BY OnceMeans
<1>1. ASSUME NEW p \in Places, NEW q \in new[p]
      PROVE  \/ p = to /\ \E r \in M : q = g[r]
             \/ q \in at[p] /\ (p = from => q \notin M)
  <2>1. CASE p = from
    <3>1. new[p] = at[p] \ M
      BY <2>1 DEF Moved
    <3>. QED  BY <3>1
  <2>2. CASE p = to
    <3>1. new[p] = at[p] \cup {g[r] : r \in M}
      BY <2>2 DEF Moved
    <3>. QED  BY <2>2, <3>1
  <2>3. CASE p # from /\ p # to
    <3>1. new[p] = at[p]
      BY <2>3 DEF Moved
    <3>. QED  BY <2>3, <3>1
  <2>. QED  BY <2>1, <2>2, <2>3
<1>2. ASSUME NEW p \in Places, NEW q \in new[p]
      PROVE  q.sale \in S
  BY <1>1, <1>2, <1>a
<1>3. ASSUME NEW s \in S
      PROVE  \E p \in Places : \E q \in new[p] : q.sale = s
  <2>1. PICK p \in Places : \E q \in at[p] : q.sale = s
    BY <1>b
  <2>9. PICK r \in at[p] : r.sale = s
    BY <2>1
  <2>2. CASE p = from /\ r \in M
    <3>1. g[r] \in new[to] /\ g[r].sale = s
      BY <2>9, <2>2 DEF Moved
    <3>. QED  BY <3>1
  <2>3. CASE ~(p = from /\ r \in M)
    <3>1. r \in new[p]
      BY <2>9, <2>3 DEF Moved
    <3>. QED  BY <2>9, <3>1
  <2>. QED  BY <2>2, <2>3
<1>4. ASSUME NEW p1 \in Places, NEW p2 \in Places, NEW r1 \in new[p1], NEW r2 \in new[p2],
             r1.sale = r2.sale
      PROVE  p1 = p2 /\ r1 = r2
  <2>1. CASE p1 = to /\ (\E r \in M : r1 = g[r]) /\ p2 = to /\ (\E r \in M : r2 = g[r])
    BY <1>4, <1>c, <2>1
  <2>2. CASE p1 = to /\ (\E r \in M : r1 = g[r]) /\ r2 \in at[p2] /\ (p2 = from => r2 \notin M)
    BY <1>4, <1>c, <2>2
  <2>3. CASE r1 \in at[p1] /\ (p1 = from => r1 \notin M) /\ p2 = to /\ (\E r \in M : r2 = g[r])
    BY <1>4, <1>c, <2>3
  <2>4. CASE r1 \in at[p1] /\ r2 \in at[p2]
    BY <1>4, <1>c, <2>4
  <2>. QED  BY <1>1, <2>1, <2>2, <2>3, <2>4
<1>. QED  BY <1>2, <1>3, <1>4, OnceMeans
-----------------------------------------------------------------------------
(***************************************************************************)
(* The operators of the job.                                               *)
(***************************************************************************)

\* A sale that is joined has the right partner and keeps those it had.
LEMMA EnrichOK ==
    ASSUME NEW j \in Joiners, NEW r \in EnrichedSales, NEW v \in Refs,
           KeyOf(j, r.sale) # NoValue, RefMatches(j, KeyOf(j, r.sale), v),
           Joined(Before[j], r)
    PROVE  /\ Enrich(j, r, v) \in EnrichedSales
           /\ Enrich(j, r, v).sale = r.sale
           /\ Joined(Before[j] \cup {j}, Enrich(j, r, v))
<1>. DEFINE e == Enrich(j, r, v)
<1>1. e \in EnrichedSales /\ e.sale = r.sale /\ e.with = [r.with EXCEPT ![j] = v]
  BY DEF Enrich, EnrichedSales
<1>2. e.with[j] = v /\ \A i \in Joiners : i # j => e.with[i] = r.with[i]
  BY <1>1 DEF EnrichedSales
<1>. HIDE DEF e
<1>3. JoinMade(j, e)
  BY <1>1, <1>2 DEF JoinMade
<1>4. ASSUME NEW i \in Joiners
      PROVE  IF i \in Before[j] \cup {j} THEN JoinMade(i, e) ELSE e.with[i] = NoValue
  <2>1. CASE i = j
    BY <1>3, <2>1
  <2>2. CASE i # j
    BY <1>1, <1>2, <2>2 DEF Joined, JoinMade
  <2>. QED  BY <2>1, <2>2
<1>5. Joined(Before[j] \cup {j}, e)
  BY <1>4 DEF Joined
<1>. QED  BY <1>1, <1>5 DEF e

\* A sale without a key passes the joiner as it is.
LEMMA PassOK ==
    ASSUME NEW j \in Joiners, NEW r \in EnrichedSales,
           KeyOf(j, r.sale) = NoValue, Joined(Before[j], r)
    PROVE  Joined(Before[j] \cup {j}, r)
<1>1. j \notin Before[j]
  BY DestFacts
<1>2. JoinMade(j, r)
  BY <1>1 DEF JoinMade, Joined
<1>. QED  BY <1>2 DEF Joined

\* Only these fields matter for StateMatches.
LEMMA StateMatchesSame ==
    ASSUME NEW jb, NEW nb, StateMatches(jb),
           nb.customerState = jb.customerState, nb.addressState = jb.addressState,
           nb.customersTo = jb.customersTo, nb.ref = jb.ref, nb.buffered = jb.buffered
    PROVE  StateMatches(nb)
BY DEF StateMatches, SlotsMatch, RefsMatch, WaitWithKey

\* Putting a record somewhere keeps the invariant of the places.
LEMMA AddedOK ==
    ASSUME NEW at, NEW new, NEW S, NEW r, NEW to \in Places,
           SalesJoined(at), Once(at, S \ {r.sale}), r.sale \in S,
           Joined(JoinsDone(to), r),
           Added(new, at, to, {r})
    PROVE  SalesJoined(new) /\ Once(new, S)
<1>1. Once(new, S)
  BY OnceAdd
<1>2. ASSUME NEW p \in Places, NEW q \in new[p]
      PROVE  Joined(JoinsDone(p), q)
  <2>1. CASE p = to
    <3>1. new[p] = at[p] \cup {r}
      BY <2>1 DEF Added
    <3>. QED  BY <2>1, <3>1 DEF SalesJoined
  <2>2. CASE p # to
    <3>1. new[p] = at[p]
      BY <2>2 DEF Added
    <3>. QED  BY <3>1 DEF SalesJoined
  <2>. QED  BY <2>1, <2>2
<1>. QED  BY <1>1, <1>2 DEF SalesJoined

\* A sale that is nowhere but in the hands of joiner j is somewhere after its
\* processElement1.
LEMMA ProcessSaleOK ==
    ASSUME NEW j \in Joiners, NEW r \in EnrichedSales, NEW jb \in Jobs,
           s3Pending \in SUBSET EnrichedSales, s3Committed \in SUBSET EnrichedSales,
           StateMatches(jb),
           SalesJoined(Held(jb, s3Pending, s3Committed)),
           Once(Held(jb, s3Pending, s3Committed), (jb.read \cap Sales) \ {r.sale}),
           r.sale \in jb.read,
           Joined(Before[j], r),
           ProcessSale(j, r, jb)
    PROVE  /\ job' \in Jobs
           /\ s3Pending' \in SUBSET EnrichedSales
           /\ JobOK(job', s3Pending', s3Committed)
           /\ \E rs \in SUBSET EnrichedSales :
                 esBuffer' = esBuffer \cup rs /\ s3Pending' = s3Pending \cup rs
<1>. DEFINE k == KeyOf(j, r.sale)
            H == Held(jb, s3Pending, s3Committed)
            S == jb.read \cap Sales
<1>1. r.sale \in S
  BY DEF EnrichedSales
<1>2. ASSUME NEW e \in EnrichedSales, e.sale = r.sale, Joined(Before[j] \cup {j}, e),
             Collect(j, {e}, jb)
      PROVE  /\ job' \in Jobs
             /\ s3Pending' \in SUBSET EnrichedSales
             /\ JobOK(job', s3Pending', s3Committed)
             /\ \E rs \in SUBSET EnrichedSales :
                   esBuffer' = esBuffer \cup rs /\ s3Pending' = s3Pending \cup rs
  <2>1. /\ job' \in Jobs
        /\ job' = [jb EXCEPT !.salesTo = job'.salesTo]
        /\ Added(Held(job', s3Pending', s3Committed), H, Dest(j), {e})
        /\ s3Pending' \in SUBSET EnrichedSales
        /\ \/ esBuffer' = esBuffer \cup {e} /\ s3Pending' = s3Pending \cup {e}
           \/ esBuffer' = esBuffer /\ s3Pending' = s3Pending
    BY <1>2, CollectEffect
  <2>2. /\ job'.customerState = jb.customerState /\ job'.addressState = jb.addressState
        /\ job'.customersTo = jb.customersTo /\ job'.ref = jb.ref
        /\ job'.buffered = jb.buffered /\ job'.read = jb.read
    BY <2>1 DEF Jobs
  <2>3. StateMatches(job')
    BY <2>2, StateMatchesSame
  <2>4. Dest(j) \in Places /\ Joined(JoinsDone(Dest(j)), e)
    BY <1>2, DestFacts
  <2>5. SalesJoined(Held(job', s3Pending', s3Committed)) /\ Once(Held(job', s3Pending', s3Committed), S)
    <3>. HIDE DEF H, S
    <3>1. SalesJoined(H) /\ Once(H, S \ {e.sale}) /\ e.sale \in S
      BY <1>1, <1>2 DEF H, S
    <3>. QED  BY <2>1, <2>4, <3>1, AddedOK
  <2>6. JobOK(job', s3Pending', s3Committed)
    BY <2>2, <2>3, <2>5 DEF JobOK, HeldOnce
  <2>7. \E rs \in SUBSET EnrichedSales :
           esBuffer' = esBuffer \cup rs /\ s3Pending' = s3Pending \cup rs
    <3>1. CASE esBuffer' = esBuffer \cup {e} /\ s3Pending' = s3Pending \cup {e}
      BY <3>1
    <3>2. CASE esBuffer' = esBuffer /\ s3Pending' = s3Pending
      <4>1. esBuffer' = esBuffer \cup {} /\ s3Pending' = s3Pending \cup {}
        BY <3>2
      <4>. QED  BY <4>1
    <3>. QED  BY <2>1, <3>1, <3>2
  <2>. QED  BY <2>1, <2>6, <2>7
<1>3. CASE k = NoValue /\ Collect(j, {r}, jb)
  BY <1>2, <1>3, PassOK
<1>4. CASE k # NoValue /\ jb.ref[j][k] # NoValue /\ Collect(j, {Enrich(j, r, jb.ref[j][k])}, jb)
  <2>1. k \in Keys
    BY <1>4, KeyOfType DEF EnrichedSales
  <2>2. jb.ref[j][k] \in Refs
    BY <1>4, <2>1 DEF Jobs
  <2>3. RefMatches(j, k, jb.ref[j][k])
    BY <1>4, <2>1 DEF StateMatches, RefsMatch
  <2>. QED  BY <1>2, <1>4, <2>2, <2>3, EnrichOK
<1>5. CASE /\ k # NoValue /\ jb.ref[j][k] = NoValue
           /\ Collect(j, {}, [jb EXCEPT !.buffered[j] = @ \cup {r}])
  <2>. DEFINE wb == [jb EXCEPT !.buffered[j] = @ \cup {r}]
  <2>1. /\ wb \in Jobs
        /\ wb.read = jb.read /\ wb.ref = jb.ref
        /\ wb.customerState = jb.customerState /\ wb.addressState = jb.addressState
        /\ wb.customersTo = jb.customersTo
        /\ WaitIn(wb, jb, j, jb.buffered[j] \cup {r})
    BY DEF Jobs, WaitIn
  <2>. HIDE DEF wb
  <2>2. /\ job' \in Jobs
        /\ job' = [wb EXCEPT !.salesTo = job'.salesTo]
        /\ Added(Held(job', s3Pending', s3Committed), Held(wb, s3Pending, s3Committed),
                 Dest(j), {})
        /\ s3Pending' \in SUBSET EnrichedSales
        /\ \/ esBuffer' = esBuffer \cup {} /\ s3Pending' = s3Pending \cup {}
           \/ esBuffer' = esBuffer /\ s3Pending' = s3Pending
    <3>1. Collect(j, {}, wb) /\ {} \in SUBSET EnrichedSales
      BY <1>5 DEF wb
    <3>. QED  BY <2>1, <3>1, CollectEffect
  <2>3. /\ job'.customerState = jb.customerState /\ job'.addressState = jb.addressState
        /\ job'.customersTo = jb.customersTo /\ job'.ref = jb.ref
        /\ job'.buffered = wb.buffered /\ job'.read = jb.read
    BY <2>1, <2>2 DEF Jobs
  <2>4. StateMatches(job')
    <3>1. SlotsMatch(job') /\ RefsMatch(job')
      BY <2>3 DEF StateMatches, SlotsMatch, RefsMatch
    <3>2. WaitWithKey(job')
      <4>. SUFFICES ASSUME NEW i \in Joiners, NEW q \in wb.buffered[i]
                    PROVE  /\ KeyOf(i, q.sale) # NoValue
                           /\ jb.ref[i][KeyOf(i, q.sale)] = NoValue
        BY <2>3 DEF WaitWithKey
      <4>1. q \in jb.buffered[i] \/ (i = j /\ q = r)
        BY <2>1 DEF WaitIn
      <4>. QED  BY <1>5, <4>1 DEF StateMatches, WaitWithKey
    <3>. QED  BY <3>1, <3>2 DEF StateMatches
  <2>5. Added(Held(job', s3Pending', s3Committed), H, <<"buffered", j>>, {r})
    <3>1. \A p \in Places : Held(job', s3Pending', s3Committed)[p] = Held(wb, s3Pending, s3Committed)[p]
      BY <2>2 DEF Added
    <3>2. Placed(Held(wb, s3Pending, s3Committed), H, <<"buffered", j>>, jb.buffered[j] \cup {r})
      <4>1. WaitIn(wb, jb, j, jb.buffered[j] \cup {r})
        BY <2>1
      <4>. QED  BY <4>1, HeldWaiting
    <3>3. H[<<"buffered", j>>] = jb.buffered[j]
      BY DestFacts DEF Held
    <3>. HIDE DEF H
    <3>. QED  BY <3>1, <3>2, <3>3 DEF Added, Placed
  <2>6. SalesJoined(Held(job', s3Pending', s3Committed)) /\ Once(Held(job', s3Pending', s3Committed), S)
    <3>. HIDE DEF H, S
    <3>1. SalesJoined(H) /\ Once(H, S \ {r.sale}) /\ r.sale \in S
      BY <1>1 DEF H, S
    <3>2. <<"buffered", j>> \in Places /\ Joined(JoinsDone(<<"buffered", j>>), r)
      BY DestFacts
    <3>. QED  BY <2>5, <3>1, <3>2, AddedOK
  <2>7. JobOK(job', s3Pending', s3Committed)
    BY <2>3, <2>4, <2>6 DEF JobOK, HeldOnce
  <2>8. esBuffer' = esBuffer \cup {} /\ s3Pending' = s3Pending \cup {}
    BY <2>2
  <2>. QED  BY <2>2, <2>7, <2>8
<1>. QED  BY <1>3, <1>4, <1>5 DEF ProcessSale

\* So does moving records from one place to another.
LEMMA MovedOK ==
    ASSUME NEW at, NEW new, NEW S, NEW from \in Places, NEW to \in Places, from # to,
           SalesJoined(at), Once(at, S),
           NEW M \in SUBSET at[from], NEW g,
           \A r \in M : g[r].sale = r.sale /\ Joined(JoinsDone(to), g[r]),
           NEW es, es = {g[r] : r \in M},
           Moved(new, at, from, M, to, es)
    PROVE  SalesJoined(new) /\ Once(new, S)
<1>0. Moved(new, at, from, M, to, {g[r] : r \in M})
  OBVIOUS
<1>1. Once(new, S)
  <2>1. \A r \in M : g[r].sale = r.sale
    OBVIOUS
  <2>. QED  BY <1>0, <2>1, OnceMove
<1>2. ASSUME NEW p \in Places, NEW q \in new[p]
      PROVE  Joined(JoinsDone(p), q)
  <2>1. CASE p = from
    <3>1. new[p] = at[p] \ M
      BY <2>1 DEF Moved
    <3>. QED  BY <3>1 DEF SalesJoined
  <2>2. CASE p = to
    <3>1. new[p] = at[p] \cup es
      BY <2>2 DEF Moved
    <3>. QED  BY <2>2, <3>1 DEF SalesJoined
  <2>3. CASE p # from /\ p # to
    <3>1. new[p] = at[p]
      BY <2>3 DEF Moved
    <3>. QED  BY <3>1 DEF SalesJoined
  <2>. QED  BY <2>1, <2>2, <2>3
<1>. QED  BY <1>1, <1>2 DEF SalesJoined

\* What joiner j has held back for v goes on, enriched, and nothing else moves.
LEMMA ProcessRefOK ==
    ASSUME NEW j \in Joiners, NEW k \in Keys, NEW v \in Refs, NEW jb \in Jobs,
           s3Pending \in SUBSET EnrichedSales, s3Committed \in SUBSET EnrichedSales,
           JobOK(jb, s3Pending, s3Committed),
           RefMatches(j, k, v),
           ProcessRef(j, k, v, jb)
    PROVE  /\ job' \in Jobs
           /\ s3Pending' \in SUBSET EnrichedSales
           /\ JobOK(job', s3Pending', s3Committed)
           /\ \E rs \in SUBSET EnrichedSales :
                 esBuffer' = esBuffer \cup rs /\ s3Pending' = s3Pending \cup rs
<1>. DEFINE waiting == {r \in jb.buffered[j] : KeyOf(j, r.sale) = k}
            es == {Enrich(j, r, v) : r \in waiting}
            g == [r \in waiting |-> Enrich(j, r, v)]
            wb == [jb EXCEPT !.ref[j][k] = v, !.buffered[j] = @ \ waiting]
            H == Held(jb, s3Pending, s3Committed)
            S == jb.read \cap Sales
<1>1. /\ wb \in Jobs
      /\ wb.read = jb.read
      /\ wb.customerState = jb.customerState /\ wb.addressState = jb.addressState
      /\ wb.customersTo = jb.customersTo
      /\ WaitIn(wb, jb, j, jb.buffered[j] \ waiting)
      /\ \A i \in Joiners, x \in Keys :
            wb.ref[i][x] = IF i = j /\ x = k THEN v ELSE jb.ref[i][x]
  BY DEF Jobs, WaitIn
<1>2. Collect(j, es, wb)
  BY DEF ProcessRef
<1>3. H[<<"buffered", j>>] = jb.buffered[j]
  BY DestFacts DEF Held
<1>4. SalesJoined(H) /\ Once(H, S) /\ StateMatches(jb)
  BY DEF JobOK, HeldOnce
<1>5. waiting \in SUBSET EnrichedSales /\ waiting \in SUBSET H[<<"buffered", j>>]
  BY <1>3 DEF Jobs
<1>6. ASSUME NEW r \in waiting
      PROVE  /\ Enrich(j, r, v) \in EnrichedSales
             /\ Enrich(j, r, v).sale = r.sale
             /\ Joined(JoinsDone(Dest(j)), Enrich(j, r, v))
  <2>1. r \in EnrichedSales /\ r \in jb.buffered[j] /\ KeyOf(j, r.sale) = k
    BY <1>5
  <2>2. Joined(Before[j], r)
    BY <1>3, <1>4, <2>1, DestFacts DEF SalesJoined
  <2>3. k # NoValue
    BY NoValueAssumption DEF Keys
  <2>4. KeyOf(j, r.sale) # NoValue /\ RefMatches(j, KeyOf(j, r.sale), v)
    BY <2>1, <2>3
  <2>5. /\ Enrich(j, r, v) \in EnrichedSales
        /\ Enrich(j, r, v).sale = r.sale
        /\ Joined(Before[j] \cup {j}, Enrich(j, r, v))
    BY <2>1, <2>2, <2>4, EnrichOK
  <2>6. JoinsDone(Dest(j)) = Before[j] \cup {j}
    BY DestFacts
  <2>. QED  BY <2>5, <2>6
<1>7. es \in SUBSET EnrichedSales
  BY <1>6
<1>8. es = {g[r] : r \in waiting}
  OBVIOUS
<1>9. \A r \in waiting : g[r].sale = r.sale /\ Joined(JoinsDone(Dest(j)), g[r])
  BY <1>6
<1>. HIDE DEF wb, es, g
<1>10. /\ job' \in Jobs
       /\ job' = [wb EXCEPT !.salesTo = job'.salesTo]
       /\ Added(Held(job', s3Pending', s3Committed), Held(wb, s3Pending, s3Committed),
                Dest(j), es)
       /\ s3Pending' \in SUBSET EnrichedSales
       /\ \/ esBuffer' = esBuffer \cup es /\ s3Pending' = s3Pending \cup es
          \/ esBuffer' = esBuffer /\ s3Pending' = s3Pending
  BY <1>1, <1>2, <1>7, CollectEffect
<1>11. /\ job'.customerState = jb.customerState /\ job'.addressState = jb.addressState
       /\ job'.customersTo = jb.customersTo /\ job'.ref = wb.ref
       /\ job'.buffered = wb.buffered /\ job'.read = jb.read
  BY <1>1, <1>10 DEF Jobs
<1>12. Moved(Held(job', s3Pending', s3Committed), H, <<"buffered", j>>, waiting, Dest(j), es)
  <2>1. Placed(Held(wb, s3Pending, s3Committed), H, <<"buffered", j>>, jb.buffered[j] \ waiting)
    <3>1. WaitIn(wb, jb, j, jb.buffered[j] \ waiting)
      BY <1>1
    <3>. HIDE DEF waiting
    <3>. QED  BY <3>1, HeldWaiting
  <2>2. Dest(j) # <<"buffered", j>>
    BY DestFacts
  <2>. HIDE DEF H, waiting
  <2>. QED  BY <1>3, <1>10, <2>1, <2>2 DEF Moved, Added, Placed
<1>13. SalesJoined(Held(job', s3Pending', s3Committed)) /\ Once(Held(job', s3Pending', s3Committed), S)
  <2>1. <<"buffered", j>> \in Places /\ Dest(j) \in Places /\ <<"buffered", j>> # Dest(j)
    BY DestFacts
  <2>. HIDE DEF H, S, waiting
  <2>. QED  BY <1>4, <1>5, <1>8, <1>9, <1>12, <2>1, MovedOK
<1>14. StateMatches(job')
  <2>1. SlotsMatch(job')
    BY <1>4, <1>11 DEF StateMatches, SlotsMatch
  <2>2. RefsMatch(job')
    <3>1. \A i \in {"bill", "ship"} : \A w \in job'.customersTo[i] : CustomerMatches(w)
      BY <1>4, <1>11 DEF StateMatches, RefsMatch
    <3>2. ASSUME NEW i \in Joiners, NEW x \in Keys, job'.ref[i][x] # NoValue
          PROVE  RefMatches(i, x, job'.ref[i][x])
      <4>1. CASE i = j /\ x = k
        BY <1>1, <1>11, <4>1
      <4>2. CASE ~(i = j /\ x = k)
        BY <1>1, <1>4, <1>11, <3>2, <4>2 DEF StateMatches, RefsMatch
      <4>. QED  BY <4>1, <4>2
    <3>. QED  BY <3>1, <3>2 DEF RefsMatch
  <2>3. WaitWithKey(job')
    <3>. SUFFICES ASSUME NEW i \in Joiners, NEW q \in wb.buffered[i]
                  PROVE  /\ KeyOf(i, q.sale) # NoValue
                         /\ wb.ref[i][KeyOf(i, q.sale)] = NoValue
      BY <1>11 DEF WaitWithKey
    <3>1. q \in jb.buffered[i] /\ (i = j => KeyOf(i, q.sale) # k)
      BY <1>1 DEF WaitIn
    <3>2. KeyOf(i, q.sale) # NoValue /\ jb.ref[i][KeyOf(i, q.sale)] = NoValue
      BY <1>4, <3>1 DEF StateMatches, WaitWithKey
    <3>3. KeyOf(i, q.sale) \in Keys
      BY <3>1, <3>2, KeyOfType DEF Jobs, EnrichedSales
    <3>. QED  BY <1>1, <3>1, <3>2, <3>3
  <2>. QED  BY <2>1, <2>2, <2>3 DEF StateMatches
<1>15. JobOK(job', s3Pending', s3Committed)
  BY <1>11, <1>13, <1>14 DEF JobOK, HeldOnce
<1>16. \E rs \in SUBSET EnrichedSales :
          esBuffer' = esBuffer \cup rs /\ s3Pending' = s3Pending \cup rs
  <2>1. CASE esBuffer' = esBuffer \cup es /\ s3Pending' = s3Pending \cup es
    BY <1>7, <2>1
  <2>2. CASE esBuffer' = esBuffer /\ s3Pending' = s3Pending
    <3>1. esBuffer' = esBuffer \cup {} /\ s3Pending' = s3Pending \cup {}
      BY <2>2
    <3>. QED  BY <3>1
  <2>. QED  BY <1>10, <2>1, <2>2
<1>. QED  BY <1>10, <1>15, <1>16
-----------------------------------------------------------------------------
(***************************************************************************)
(* The steps preserve the invariant.                                       *)
(***************************************************************************)

\* A job without a checkpoint satisfies the invariant of a job.
LEMMA NewJobOK ==
    ASSUME NEW skip \in SUBSET Events
    PROVE  JobOK(NewJob(skip), {}, {})
<1>1. \A p \in Places : Held(NewJob(skip), {}, {})[p] = {}
  BY DEF Held, NewJob, Places
<1>2. SalesJoined(Held(NewJob(skip), {}, {}))
  BY <1>1 DEF SalesJoined
<1>3. Once(Held(NewJob(skip), {}, {}), {})
  BY <1>1, OnceMeans
<1>4. HeldOnce(NewJob(skip), {}, {})
  <2>1. NewJob(skip).read \cap Sales = {}
    BY DEF NewJob
  <2>. QED  BY <1>3, <2>1 DEF HeldOnce
<1>5. StateMatches(NewJob(skip))
  BY DEF StateMatches, SlotsMatch, RefsMatch, WaitWithKey, NewJob, Keys
<1>. QED  BY <1>2, <1>4, <1>5 DEF JobOK

\* The invariant holds at first.
LEMMA InitOK ==
    ASSUME Init
    PROVE  IInv
<1>1. job = NewJob({}) /\ job \in Jobs /\ checkpoint = NoValue
  BY NewJobType DEF Init
<1>2. JobOK(job, s3Pending, s3Committed)
  BY <1>1, NewJobOK DEF Init
<1>3. TypeOK
  BY <1>1, MaxFailuresAssumption DEF Init, TypeOK
<1>4. SinksAgree
  BY DEF Init, SinksAgree, CommittedIsIndexed
<1>. QED  BY <1>1, <1>2, <1>3, <1>4 DEF IInv, Init

\* Enough for an operator's step to preserve the invariant.
LEMMA RecordsOK ==
    ASSUME IInv,
           job' \in Jobs, JobOK(job', s3Pending', s3Committed),
           \E rs \in SUBSET EnrichedSales :
              esBuffer' = esBuffer \cup rs /\ s3Pending' = s3Pending \cup rs,
           UNCHANGED <<checkpoint, failures, esDocs, s3Committed>>
    PROVE  IInv'
<1>1. PICK rs \in SUBSET EnrichedSales :
         esBuffer' = esBuffer \cup rs /\ s3Pending' = s3Pending \cup rs
  OBVIOUS
<1>2. TypeOK'
  BY <1>1 DEF IInv, TypeOK
<1>3. SinksAgree'
  BY <1>1 DEF IInv, SinksAgree, CommittedIsIndexed
<1>. QED  BY <1>2, <1>3 DEF IInv

\* Changes on the customers' side of the job.
LEMMA CustomerSideOK ==
    ASSUME NEW jb, NEW nb, NEW pending, NEW committed,
           JobOK(jb, pending, committed),
           nb.salesTo = jb.salesTo, nb.buffered = jb.buffered, nb.ref = jb.ref,
           nb.read \cap Sales = jb.read \cap Sales,
           SlotsMatch(nb),
           \A j \in {"bill", "ship"} : \A v \in nb.customersTo[j] : CustomerMatches(v)
    PROVE  JobOK(nb, pending, committed)
<1>1. Held(nb, pending, committed) = Held(jb, pending, committed)
  BY DEF Held
<1>2. HeldOnce(nb, pending, committed) /\ SalesJoined(Held(nb, pending, committed))
  BY <1>1 DEF JobOK, HeldOnce
<1>3. RefsMatch(nb) /\ WaitWithKey(nb)
  BY DEF JobOK, StateMatches, RefsMatch, WaitWithKey
<1>. QED  BY <1>2, <1>3 DEF JobOK, StateMatches

\* Reading a customer event keeps the invariant.
LEMMA ReadCustomerOK ==
    ASSUME IInv, NEW c \in CustomerEvents, ReadCustomer(c)
    PROVE  IInv'
<1>. DEFINE a == CustomerAddress[c]
<1>1. job \in Jobs /\ JobOK(job, s3Pending, s3Committed)
  BY DEF IInv, TypeOK
<1>2. /\ a \in Addresses /\ c \in Events /\ c # NoValue
      /\ SlotsMatch(job)
      /\ \A j \in {"bill", "ship"} : \A v \in job.customersTo[j] : CustomerMatches(v)
  BY <1>1, RetailAssumption, NoValueAssumption DEF Events, JobOK, StateMatches, RefsMatch
<1>3. c \notin Sales
  BY SalesAreSales
<1>4. job' \in Jobs /\ JobOK(job', s3Pending, s3Committed)
  <2>1. CASE job.addressState[a] = NoValue /\ job' = [Read(c) EXCEPT !.customerState[a] = c]
    <3>1. /\ job' \in Jobs
          /\ job'.salesTo = job.salesTo /\ job'.buffered = job.buffered /\ job'.ref = job.ref
          /\ job'.customersTo = job.customersTo /\ job'.addressState = job.addressState
          /\ job'.read = job.read \cup {c}
          /\ \A b \in Addresses : job'.customerState[b] = IF b = a THEN c ELSE job.customerState[b]
      BY <1>1, <1>2, <2>1 DEF Read, Jobs
    <3>2. SlotsMatch(job')
      BY <1>2, <3>1 DEF SlotsMatch
    <3>3. job'.read \cap Sales = job.read \cap Sales
      BY <1>3, <3>1
    <3>. QED  BY <1>1, <1>2, <3>1, <3>2, <3>3, CustomerSideOK
  <2>2. CASE /\ job.addressState[a] # NoValue
             /\ CollectCustomer([customer |-> c, address |-> job.addressState[a]],
                                [Read(c) EXCEPT !.addressState[a] = NoValue])
    <3>. DEFINE v == [customer |-> c, address |-> job.addressState[a]]
    <3>0. v \in EnrichedCustomers /\ CustomerMatches(v)
      <4>1. job.addressState[a] \in AddressEvents
        BY <1>1, <1>2, <2>2 DEF Jobs
      <4>2. AddressId[job.addressState[a]] = a
        BY <1>2, <2>2 DEF SlotsMatch
      <4>. QED  BY <4>1, <4>2 DEF EnrichedCustomers, CustomerMatches
    <3>1. /\ job' \in Jobs
          /\ job'.salesTo = job.salesTo /\ job'.buffered = job.buffered /\ job'.ref = job.ref
          /\ job'.customerState = job.customerState
          /\ job'.customersTo = [j \in {"bill", "ship"} |-> job.customersTo[j] \cup {v}]
          /\ job'.read = job.read \cup {c}
          /\ \A b \in Addresses : job'.addressState[b] = IF b = a THEN NoValue ELSE job.addressState[b]
      <4>. HIDE DEF a
      <4>. QED  BY <1>1, <1>2, <2>2, <3>0 DEF Read, CollectCustomer, Jobs
    <3>2. SlotsMatch(job')
      BY <1>2, <3>1 DEF SlotsMatch
    <3>3. job'.read \cap Sales = job.read \cap Sales
      BY <1>3, <3>1
    <3>4. \A j \in {"bill", "ship"} : \A w \in job'.customersTo[j] : CustomerMatches(w)
      BY <1>2, <3>0, <3>1
    <3>. QED  BY <1>1, <3>1, <3>2, <3>3, <3>4, CustomerSideOK
  <2>. QED  BY <2>1, <2>2 DEF ReadCustomer
<1>5. /\ UNCHANGED <<checkpoint, failures, esDocs, s3Committed>>
      /\ s3Pending' = s3Pending /\ esBuffer' = esBuffer \cup {} /\ s3Pending' = s3Pending \cup {}
  BY DEF ReadCustomer
<1>6. \E rs \in SUBSET EnrichedSales :
         esBuffer' = esBuffer \cup rs /\ s3Pending' = s3Pending \cup rs
  BY <1>5
<1>. QED  BY <1>4, <1>5, <1>6, RecordsOK

\* Reading an address event keeps it.
LEMMA ReadAddressOK ==
    ASSUME IInv, NEW x \in AddressEvents, ReadAddress(x)
    PROVE  IInv'
<1>. DEFINE a == AddressId[x]
<1>1. job \in Jobs /\ JobOK(job, s3Pending, s3Committed)
  BY DEF IInv, TypeOK
<1>2. /\ a \in Addresses /\ x \in Events /\ x # NoValue
      /\ SlotsMatch(job)
      /\ \A j \in {"bill", "ship"} : \A v \in job.customersTo[j] : CustomerMatches(v)
  BY <1>1, RetailAssumption, NoValueAssumption DEF Events, JobOK, StateMatches, RefsMatch
<1>3. x \notin Sales
  BY SalesAreSales
<1>4. job' \in Jobs /\ JobOK(job', s3Pending, s3Committed)
  <2>1. CASE job.customerState[a] = NoValue /\ job' = [Read(x) EXCEPT !.addressState[a] = x]
    <3>1. /\ job' \in Jobs
          /\ job'.salesTo = job.salesTo /\ job'.buffered = job.buffered /\ job'.ref = job.ref
          /\ job'.customersTo = job.customersTo /\ job'.customerState = job.customerState
          /\ job'.read = job.read \cup {x}
          /\ \A b \in Addresses : job'.addressState[b] = IF b = a THEN x ELSE job.addressState[b]
      BY <1>1, <1>2, <2>1 DEF Read, Jobs
    <3>2. SlotsMatch(job')
      BY <1>2, <3>1 DEF SlotsMatch
    <3>3. job'.read \cap Sales = job.read \cap Sales
      BY <1>3, <3>1
    <3>. QED  BY <1>1, <1>2, <3>1, <3>2, <3>3, CustomerSideOK
  <2>2. CASE /\ job.customerState[a] # NoValue
             /\ CollectCustomer([customer |-> job.customerState[a], address |-> x],
                                [Read(x) EXCEPT !.customerState[a] = NoValue])
    <3>. DEFINE v == [customer |-> job.customerState[a], address |-> x]
    <3>0. v \in EnrichedCustomers /\ CustomerMatches(v)
      <4>1. job.customerState[a] \in CustomerEvents
        BY <1>1, <1>2, <2>2 DEF Jobs
      <4>2. CustomerAddress[job.customerState[a]] = a
        BY <1>2, <2>2 DEF SlotsMatch
      <4>. QED  BY <4>1, <4>2 DEF EnrichedCustomers, CustomerMatches
    <3>1. /\ job' \in Jobs
          /\ job'.salesTo = job.salesTo /\ job'.buffered = job.buffered /\ job'.ref = job.ref
          /\ job'.addressState = job.addressState
          /\ job'.customersTo = [j \in {"bill", "ship"} |-> job.customersTo[j] \cup {v}]
          /\ job'.read = job.read \cup {x}
          /\ \A b \in Addresses : job'.customerState[b] = IF b = a THEN NoValue ELSE job.customerState[b]
      <4>. HIDE DEF a
      <4>. QED  BY <1>1, <1>2, <2>2, <3>0 DEF Read, CollectCustomer, Jobs
    <3>2. SlotsMatch(job')
      BY <1>2, <3>1 DEF SlotsMatch
    <3>3. job'.read \cap Sales = job.read \cap Sales
      BY <1>3, <3>1
    <3>4. \A j \in {"bill", "ship"} : \A w \in job'.customersTo[j] : CustomerMatches(w)
      BY <1>2, <3>0, <3>1
    <3>. QED  BY <1>1, <3>1, <3>2, <3>3, <3>4, CustomerSideOK
  <2>. QED  BY <2>1, <2>2 DEF ReadAddress
<1>5. /\ UNCHANGED <<checkpoint, failures, esDocs, s3Committed>>
      /\ s3Pending' = s3Pending /\ esBuffer' = esBuffer \cup {} /\ s3Pending' = s3Pending \cup {}
  BY DEF ReadAddress
<1>6. \E rs \in SUBSET EnrichedSales :
         esBuffer' = esBuffer \cup rs /\ s3Pending' = s3Pending \cup rs
  BY <1>5
<1>. QED  BY <1>4, <1>5, <1>6, RecordsOK

\* Reading a sale keeps it.
LEMMA ReadSaleOK ==
    ASSUME IInv, NEW s \in Sales, ReadSale(s)
    PROVE  IInv'
<1>. DEFINE r == [sale |-> s, with |-> [j \in Joiners |-> NoValue]]
            jb == Read(s)
<1>1. job \in Jobs /\ JobOK(job, s3Pending, s3Committed) /\ s \notin job.read
  BY DEF IInv, TypeOK, ReadSale, Unread
<1>2. /\ jb \in Jobs /\ jb.read = job.read \cup {s}
      /\ jb.customerState = job.customerState /\ jb.addressState = job.addressState
      /\ jb.customersTo = job.customersTo /\ jb.ref = job.ref
      /\ jb.buffered = job.buffered /\ jb.salesTo = job.salesTo
  BY <1>1 DEF Read, Jobs, Events
<1>3. r \in EnrichedSales /\ r.sale = s
  BY DEF EnrichedSales
<1>4. "bill" \in Joiners /\ Joined(Before["bill"], r)
  BY DEF Joiners, Before, Joined
<1>5. ProcessSale("bill", r, jb)
  BY DEF ReadSale
<1>6. UNCHANGED <<checkpoint, failures, esDocs, s3Committed>>
  BY DEF ReadSale
<1>. HIDE DEF r, jb
<1>7. StateMatches(jb)
  BY <1>1, <1>2, StateMatchesSame DEF JobOK
<1>8. Held(jb, s3Pending, s3Committed) = Held(job, s3Pending, s3Committed)
  BY <1>2 DEF Held
<1>9. (jb.read \cap Sales) \ {r.sale} = job.read \cap Sales
  BY <1>1, <1>2, <1>3
<1>10. /\ SalesJoined(Held(jb, s3Pending, s3Committed))
       /\ Once(Held(jb, s3Pending, s3Committed), (jb.read \cap Sales) \ {r.sale})
  BY <1>1, <1>8, <1>9 DEF JobOK, HeldOnce
<1>11. s3Pending \in SUBSET EnrichedSales /\ s3Committed \in SUBSET EnrichedSales
  BY DEF IInv, TypeOK
<1>12. r.sale \in jb.read
  BY <1>2, <1>3
<1>13. /\ job' \in Jobs
       /\ JobOK(job', s3Pending', s3Committed)
       /\ \E rs \in SUBSET EnrichedSales :
             esBuffer' = esBuffer \cup rs /\ s3Pending' = s3Pending \cup rs
  BY <1>2, <1>3, <1>4, <1>5, <1>7, <1>10, <1>11, <1>12, ProcessSaleOK
<1>. QED  BY <1>6, <1>13, RecordsOK

\* Joining a sale with a partner, or letting it wait, keeps it.
LEMMA JoinSaleOK ==
    ASSUME IInv, NEW j \in Joiners, NEW r \in job.salesTo[j], JoinSale(j, r)
    PROVE  IInv'
<1>. DEFINE jb == [job EXCEPT !.salesTo[j] = @ \ {r}]
            H == Held(job, s3Pending, s3Committed)
            N == Held(jb, s3Pending, s3Committed)
            S == job.read \cap Sales
<1>1. job \in Jobs /\ JobOK(job, s3Pending, s3Committed)
  BY DEF IInv, TypeOK
<1>2. /\ jb \in Jobs /\ jb.read = job.read
      /\ jb.customerState = job.customerState /\ jb.addressState = job.addressState
      /\ jb.customersTo = job.customersTo /\ jb.ref = job.ref
      /\ jb.buffered = job.buffered
      /\ \A i \in Joiners : jb.salesTo[i] = IF i = j THEN job.salesTo[i] \ {r} ELSE job.salesTo[i]
  BY <1>1 DEF Jobs
<1>3. r \in EnrichedSales
  BY <1>1 DEF Jobs
<1>4. ProcessSale(j, r, jb)
  BY DEF JoinSale
<1>5. UNCHANGED <<checkpoint, failures, esDocs, s3Committed>>
  BY DEF JoinSale
<1>. HIDE DEF jb
<1>6. StateMatches(jb)
  BY <1>1, <1>2, StateMatchesSame DEF JobOK
<1>7. SalesJoined(H) /\ Once(H, S)
  BY <1>1 DEF JobOK, HeldOnce
<1>8. r \in H[<<"inbox", j>>]
  BY DestFacts DEF Held
<1>9. Removed(N, H, <<"inbox", j>>, {r})
  <2>1. /\ \A i \in Joiners : H[<<"inbox", i>>] = job.salesTo[i] /\ H[<<"buffered", i>>] = job.buffered[i]
        /\ H[<<"pending", "s3">>] = s3Pending /\ H[<<"committed", "s3">>] = s3Committed
    BY HeldAt
  <2>2. /\ \A i \in Joiners : N[<<"inbox", i>>] = jb.salesTo[i] /\ N[<<"buffered", i>>] = jb.buffered[i]
        /\ N[<<"pending", "s3">>] = s3Pending /\ N[<<"committed", "s3">>] = s3Committed
    BY HeldAt
  <2>. HIDE DEF H, N
  <2>3. ASSUME NEW p \in Places
        PROVE  N[p] = IF p = <<"inbox", j>> THEN H[p] \ {r} ELSE H[p]
    <3>1. CASE p = <<"pending", "s3">> \/ p = <<"committed", "s3">>
      BY <2>1, <2>2, <3>1
    <3>2. CASE \E i \in Joiners : p = <<"inbox", i>>
      <4>1. PICK i \in Joiners : p = <<"inbox", i>>
        BY <3>2
      <4>2. H[p] = job.salesTo[i] /\ N[p] = jb.salesTo[i] /\ (p = <<"inbox", j>> <=> i = j)
        BY <2>1, <2>2, <4>1
      <4>. QED  BY <1>2, <4>2
    <3>3. CASE \E i \in Joiners : p = <<"buffered", i>>
      <4>1. PICK i \in Joiners : p = <<"buffered", i>>
        BY <3>3
      <4>2. H[p] = job.buffered[i] /\ N[p] = jb.buffered[i] /\ p # <<"inbox", j>>
        BY <2>1, <2>2, <4>1
      <4>. QED  BY <1>2, <4>2
    <3>. QED  BY <3>1, <3>2, <3>3, PlaceCases
  <2>. QED  BY <2>3 DEF Removed
<1>. HIDE DEF H, N, S
<1>10. <<"inbox", j>> \in Places /\ JoinsDone(<<"inbox", j>>) = Before[j]
  BY DestFacts
<1>11. Joined(Before[j], r)
  BY <1>7, <1>8, <1>10 DEF SalesJoined
<1>12. Once(N, S \ {r.sale})
  BY <1>7, <1>8, <1>9, <1>10, OnceRemove
<1>13. SalesJoined(N)
  <2>. SUFFICES ASSUME NEW p \in Places, NEW q \in N[p]
                PROVE  q \in H[p]
    BY <1>7 DEF SalesJoined
  <2>1. CASE p = <<"inbox", j>>
    BY <1>9, <2>1 DEF Removed
  <2>2. CASE p # <<"inbox", j>>
    BY <1>9, <2>2 DEF Removed
  <2>. QED  BY <2>1, <2>2
<1>14. r.sale \in jb.read
  BY <1>2, <1>7, <1>8, <1>10, OnceMeans DEF S
<1>15. s3Pending \in SUBSET EnrichedSales /\ s3Committed \in SUBSET EnrichedSales
  BY DEF IInv, TypeOK
<1>16. /\ SalesJoined(Held(jb, s3Pending, s3Committed))
       /\ Once(Held(jb, s3Pending, s3Committed), (jb.read \cap Sales) \ {r.sale})
  BY <1>2, <1>12, <1>13 DEF N, S
<1>17. /\ job' \in Jobs
       /\ JobOK(job', s3Pending', s3Committed)
       /\ \E rs \in SUBSET EnrichedSales :
             esBuffer' = esBuffer \cup rs /\ s3Pending' = s3Pending \cup rs
  BY <1>2, <1>3, <1>4, <1>6, <1>11, <1>14, <1>15, <1>16, ProcessSaleOK
<1>. QED  BY <1>5, <1>17, RecordsOK

\* A customer that arrives at a sale join keeps it.
LEMMA JoinCustomerOK ==
    ASSUME IInv, NEW j \in {"bill", "ship"}, NEW v \in job.customersTo[j], JoinCustomer(j, v)
    PROVE  IInv'
<1>. DEFINE jb == [job EXCEPT !.customersTo[j] = @ \ {v}]
<1>1. job \in Jobs /\ JobOK(job, s3Pending, s3Committed)
  BY DEF IInv, TypeOK
<1>2. /\ jb \in Jobs /\ jb.read = job.read
      /\ jb.customerState = job.customerState /\ jb.addressState = job.addressState
      /\ jb.ref = job.ref /\ jb.buffered = job.buffered /\ jb.salesTo = job.salesTo
      /\ \A i \in {"bill", "ship"} : jb.customersTo[i] \subseteq job.customersTo[i]
  BY <1>1 DEF Jobs
<1>3. ProcessRef(j, CustomerId[v.customer], v, jb)
  BY DEF JoinCustomer
<1>4. UNCHANGED <<checkpoint, failures, esDocs, s3Committed>>
  BY DEF JoinCustomer
<1>. HIDE DEF jb
<1>5. SlotsMatch(jb)
  BY <1>1, <1>2 DEF JobOK, StateMatches, SlotsMatch
<1>6. \A i \in {"bill", "ship"} : \A w \in jb.customersTo[i] : CustomerMatches(w)
  BY <1>1, <1>2 DEF JobOK, StateMatches, RefsMatch
<1>7. JobOK(jb, s3Pending, s3Committed)
  BY <1>1, <1>2, <1>5, <1>6, CustomerSideOK
<1>8. v \in EnrichedCustomers /\ CustomerMatches(v)
  BY <1>1 DEF Jobs, JobOK, StateMatches, RefsMatch
<1>9. /\ j \in Joiners /\ CustomerId[v.customer] \in Keys /\ v \in Refs
      /\ RefMatches(j, CustomerId[v.customer], v)
  BY <1>8, RetailAssumption DEF Joiners, Keys, Refs, RefMatches, EnrichedCustomers
<1>10. s3Pending \in SUBSET EnrichedSales /\ s3Committed \in SUBSET EnrichedSales
  BY DEF IInv, TypeOK
<1>11. /\ job' \in Jobs
       /\ JobOK(job', s3Pending', s3Committed)
       /\ \E rs \in SUBSET EnrichedSales :
             esBuffer' = esBuffer \cup rs /\ s3Pending' = s3Pending \cup rs
  BY <1>2, <1>3, <1>7, <1>9, <1>10, ProcessRefOK
<1>. QED  BY <1>4, <1>11, RecordsOK

\* An item or promo that is read from its file keeps it.
LEMMA ReadFileOK ==
    ASSUME IInv, NEW j \in {"item", "promo"}, NEW k \in Items \cup Promos,
           ProcessRef(j, k, k, job), UNCHANGED <<checkpoint, failures, esDocs, s3Committed>>
    PROVE  IInv'
<1>1. job \in Jobs /\ JobOK(job, s3Pending, s3Committed)
  BY DEF IInv, TypeOK
<1>2. j \in Joiners /\ k \in Keys /\ k \in Refs /\ RefMatches(j, k, k)
  BY DEF Joiners, Keys, Refs, RefMatches
<1>3. s3Pending \in SUBSET EnrichedSales /\ s3Committed \in SUBSET EnrichedSales
  BY DEF IInv, TypeOK
<1>4. /\ job' \in Jobs
      /\ JobOK(job', s3Pending', s3Committed)
      /\ \E rs \in SUBSET EnrichedSales :
            esBuffer' = esBuffer \cup rs /\ s3Pending' = s3Pending \cup rs
  BY <1>1, <1>2, <1>3, ProcessRefOK
<1>. QED  BY <1>4, RecordsOK

\* What is sent is indexed, and nothing disappears from Elasticsearch.
LEMMA IndexedOK ==
    ASSUME TypeOK, NEW rs \in SUBSET EnrichedSales,
           \A q1, q2 \in rs : q1.sale = q2.sale => q1 = q2
    PROVE  /\ Indexed(rs) \in [Sales -> Nat]
           /\ \A s \in Sales : Indexed(rs)[s] >= esDocs[s]
           /\ \A r \in rs : Indexed(rs)[r.sale] > 0
<1>. DEFINE count == [s \in Sales |-> Cardinality({r \in rs : r.sale = s})]
<1>1. ASSUME NEW s \in Sales
      PROVE  count[s] \in Nat /\ ((\E r \in rs : r.sale = s) => count[s] = 1)
  <2>1. CASE \E r \in rs : r.sale = s
    <3>1. PICK r \in rs : r.sale = s
      BY <2>1
    <3>2. {q \in rs : q.sale = s} = {r}
      BY <3>1
    <3>3. Cardinality({r}) = 1
      BY FS_Singleton
    <3>4. Cardinality({q \in rs : q.sale = s}) = 1
      BY <3>2, <3>3
    <3>. QED  BY <3>4
  <2>2. CASE ~ \E r \in rs : r.sale = s
    <3>1. {q \in rs : q.sale = s} = {}
      BY <2>2
    <3>2. Cardinality({q \in rs : q.sale = s}) = 0
      BY <3>1, FS_EmptySet
    <3>. QED  BY <2>2, <3>2
  <2>. QED  BY <2>1, <2>2
<1>2. \A s \in Sales : esDocs[s] \in Nat
  BY DEF TypeOK
<1>. DEFINE I == [s \in Sales |-> esDocs[s] + count[s]]
<1>3. I = Indexed(rs)
  BY DEF Indexed
<1>. HIDE DEF count
<1>4. I \in [Sales -> Nat] /\ \A s \in Sales : I[s] >= esDocs[s]
  BY <1>1, <1>2
<1>5. ASSUME NEW r \in rs
      PROVE  I[r.sale] > 0
  <2>1. r.sale \in Sales
    BY DEF EnrichedSales
  <2>2. count[r.sale] = 1
    BY <1>1, <2>1
  <2>. QED  BY <1>2, <2>1, <2>2
<1>. HIDE DEF I
<1>. QED  BY <1>3, <1>4, <1>5

\* One version of each sale is pending in S3.
LEMMA PendingUnique ==
    ASSUME IInv
    PROVE  \A q1, q2 \in s3Pending : q1.sale = q2.sale => q1 = q2
<1>. DEFINE H == Held(job, s3Pending, s3Committed)
<1>1. H[<<"pending", "s3">>] = s3Pending /\ <<"pending", "s3">> \in Places
  BY DEF Held, Places
<1>2. Once(H, job.read \cap Sales)
  BY DEF IInv, JobOK, HeldOnce
<1>. HIDE DEF H
<1>. QED  BY <1>1, <1>2, OnceMeans

\* A bulk request to Elasticsearch keeps it.
LEMMA SendBulkOK ==
    ASSUME IInv, SendBulk
    PROVE  IInv'
<1>1. PICK rs \in SUBSET esBuffer : esDocs' = Indexed(rs) /\ esBuffer' = esBuffer \ rs
  BY DEF SendBulk
<1>2. UNCHANGED <<job, checkpoint, failures, s3Pending, s3Committed>>
  BY DEF SendBulk
<1>3. TypeOK /\ SinksAgree
  BY DEF IInv
<1>4. rs \in SUBSET EnrichedSales /\ \A q1, q2 \in rs : q1.sale = q2.sale => q1 = q2
  BY <1>3, PendingUnique DEF TypeOK, SinksAgree
<1>5. /\ esDocs' \in [Sales -> Nat]
      /\ \A s \in Sales : esDocs'[s] >= esDocs[s]
      /\ \A r \in rs : esDocs'[r.sale] > 0
  BY <1>1, <1>3, <1>4, IndexedOK
<1>6. TypeOK'
  BY <1>1, <1>2, <1>3, <1>5 DEF TypeOK
<1>7. \A r \in EnrichedSales : esDocs[r.sale] > 0 => esDocs'[r.sale] > 0
  BY <1>3, <1>5 DEF TypeOK, EnrichedSales
<1>8. SinksAgree'
  <2>1. esBuffer' \subseteq s3Pending'
    BY <1>1, <1>2, <1>3 DEF SinksAgree
  <2>2. ASSUME NEW r \in s3Pending'
        PROVE  r \in esBuffer' \/ esDocs'[r.sale] > 0
    <3>1. r \in EnrichedSales /\ (r \in esBuffer \/ esDocs[r.sale] > 0)
      BY <1>2, <1>3 DEF TypeOK, SinksAgree
    <3>. QED  BY <1>1, <1>5, <1>7, <3>1
  <2>3. CommittedIsIndexed'
    BY <1>2, <1>3, <1>7 DEF TypeOK, SinksAgree, CommittedIsIndexed
  <2>. QED  BY <2>1, <2>2, <2>3 DEF SinksAgree
<1>. QED  BY <1>2, <1>6, <1>8 DEF IInv

\* A checkpoint, which finishes the part files, keeps it.
LEMMA CompleteCheckpointOK ==
    ASSUME IInv, CompleteCheckpoint
    PROVE  IInv'
<1>1. /\ job' = job /\ checkpoint' = job /\ failures' = failures
      /\ esDocs' = Indexed(esBuffer) /\ esBuffer' = {}
      /\ s3Committed' = s3Committed \cup s3Pending /\ s3Pending' = {}
  BY DEF CompleteCheckpoint
<1>2. TypeOK /\ SinksAgree /\ JobOK(job, s3Pending, s3Committed)
  BY DEF IInv
<1>3. esBuffer \in SUBSET EnrichedSales /\ \A q1, q2 \in esBuffer : q1.sale = q2.sale => q1 = q2
  BY <1>2, PendingUnique DEF TypeOK, SinksAgree
<1>4. /\ esDocs' \in [Sales -> Nat]
      /\ \A s \in Sales : esDocs'[s] >= esDocs[s]
      /\ \A r \in esBuffer : esDocs'[r.sale] > 0
  BY <1>1, <1>2, <1>3, IndexedOK
<1>5. TypeOK'
  BY <1>1, <1>2, <1>4 DEF TypeOK
<1>6. SinksAgree'
  <2>1. \A r \in EnrichedSales : esDocs[r.sale] > 0 => esDocs'[r.sale] > 0
    BY <1>2, <1>4 DEF TypeOK, EnrichedSales
  <2>2. ASSUME NEW r \in s3Committed'
        PROVE  esDocs'[r.sale] > 0
    <3>1. CASE r \in s3Committed
      BY <1>2, <2>1, <3>1 DEF TypeOK, SinksAgree, CommittedIsIndexed
    <3>2. CASE r \in s3Pending
      BY <1>2, <1>4, <2>1, <3>2 DEF TypeOK, SinksAgree
    <3>. QED  BY <1>1, <2>2, <3>1, <3>2
  <2>3. CommittedIsIndexed'
    BY <2>2 DEF CommittedIsIndexed
  <2>. QED  BY <1>1, <2>3 DEF SinksAgree
<1>. DEFINE H == Held(job, s3Pending, s3Committed)
            N == Held(job, {}, s3Committed \cup s3Pending)
            S == job.read \cap Sales
            from == <<"pending", "s3">>
            to == <<"committed", "s3">>
            g == [r \in s3Pending |-> r]
<1>7. SalesJoined(N) /\ Once(N, S)
  <2>1. SalesJoined(H) /\ Once(H, S)
    BY <1>2 DEF JobOK, HeldOnce
  <2>2. /\ from \in Places /\ to \in Places /\ from # to
        /\ H[from] = s3Pending /\ H[to] = s3Committed
        /\ N[from] = {} /\ N[to] = s3Committed \cup s3Pending
    BY DEF Held, Places
  <2>3. JoinsDone(from) = Joiners /\ JoinsDone(to) = Joiners
    BY DEF JoinsDone
  <2>4. ASSUME NEW p \in Places, p # from, p # to
        PROVE  N[p] = H[p]
    <3>1. CASE \E i \in Joiners : p = <<"inbox", i>>
      <4>1. PICK i \in Joiners : p = <<"inbox", i>>
        BY <3>1
      <4>. QED  BY <4>1 DEF Held
    <3>2. CASE \E i \in Joiners : p = <<"buffered", i>>
      <4>1. PICK i \in Joiners : p = <<"buffered", i>>
        BY <3>2
      <4>. QED  BY <4>1 DEF Held
    <3>. QED  BY <2>4, <3>1, <3>2, PlaceCases
  <2>5. {g[r] : r \in s3Pending} = s3Pending
    OBVIOUS
  <2>. HIDE DEF H, N, S, from, to
  <2>6. Moved(N, H, from, s3Pending, to, s3Pending)
    BY <2>2, <2>4 DEF Moved
  <2>7. \A r \in s3Pending : g[r].sale = r.sale /\ Joined(JoinsDone(to), g[r])
    BY <2>1, <2>2, <2>3 DEF SalesJoined
  <2>8. s3Pending \in SUBSET H[from]
    BY <2>2
  <2>. HIDE DEF g
  <2>. QED  BY <2>1, <2>2, <2>5, <2>6, <2>7, <2>8, MovedOK
<1>8. JobOK(job, {}, s3Committed \cup s3Pending)
  BY <1>2, <1>7 DEF JobOK, HeldOnce
<1>9. job # NoValue
  BY <1>2, NoValueIsNoJob DEF TypeOK
<1>10. JobOK(job', s3Pending', s3Committed') /\ JobOK(checkpoint', {}, s3Committed')
  BY <1>1, <1>8
<1>. QED  BY <1>1, <1>5, <1>6, <1>9, <1>10 DEF IInv

\* A restart, from a checkpoint or without one, keeps it.
LEMMA RestartOK ==
    ASSUME IInv, Restart
    PROVE  IInv'
<1>1. /\ failures < MaxFailures /\ failures' = failures + 1
      /\ esBuffer' = {} /\ s3Pending' = {}
      /\ UNCHANGED <<checkpoint, esDocs, s3Committed>>
  BY DEF Restart
<1>2. TypeOK /\ SinksAgree
  BY DEF IInv
<1>3. SinksAgree'
  BY <1>1, <1>2 DEF SinksAgree, CommittedIsIndexed
<1>4. job' \in Jobs /\ JobOK(job', {}, s3Committed)
  <2>1. CASE checkpoint # NoValue /\ job' = checkpoint
    BY <1>2, <2>1 DEF IInv, TypeOK
  <2>2. CASE /\ checkpoint = NoValue
             /\ \E more \in SUBSET Unread : job' = NewJob(job.skipped \cup job.read \cup more)
    <3>1. PICK more \in SUBSET Unread : job' = NewJob(job.skipped \cup job.read \cup more)
      BY <2>2
    <3>2. job.skipped \cup job.read \cup more \in SUBSET Events
      BY <1>2 DEF TypeOK, Jobs, Unread
    <3>3. s3Committed = {}
      BY <2>2 DEF IInv
    <3>. QED  BY <3>1, <3>2, <3>3, NewJobType, NewJobOK
  <2>. QED  BY <2>1, <2>2 DEF Restart
<1>5. TypeOK'
  BY <1>1, <1>2, <1>4, MaxFailuresAssumption DEF TypeOK
<1>. QED  BY <1>1, <1>3, <1>4, <1>5 DEF IInv

\* Every step keeps the invariant.
LEMMA StepOK ==
    ASSUME IInv, [Next]_vars
    PROVE  IInv'
<1>1. ASSUME NEW c \in CustomerEvents, ReadCustomer(c)
      PROVE  IInv'
  BY <1>1, ReadCustomerOK
<1>2. ASSUME NEW x \in AddressEvents, ReadAddress(x)
      PROVE  IInv'
  BY <1>2, ReadAddressOK
<1>3. ASSUME NEW s \in Sales, ReadSale(s)
      PROVE  IInv'
  BY <1>3, ReadSaleOK
<1>4. ASSUME NEW j \in Joiners, NEW r \in job.salesTo[j], JoinSale(j, r)
      PROVE  IInv'
  BY <1>4, JoinSaleOK
<1>5. ASSUME NEW j \in {"bill", "ship"}, NEW v \in job.customersTo[j], JoinCustomer(j, v)
      PROVE  IInv'
  BY <1>5, JoinCustomerOK
<1>6. ASSUME NEW i \in Items, ReadItem(i)
      PROVE  IInv'
  <2>1. ProcessRef("item", i, i, job) /\ UNCHANGED <<checkpoint, failures, esDocs, s3Committed>>
    BY <1>6 DEF ReadItem
  <2>2. "item" \in {"item", "promo"} /\ i \in Items \cup Promos
    OBVIOUS
  <2>. QED  BY <2>1, <2>2, ReadFileOK
<1>7. ASSUME NEW p \in Promos, ReadPromo(p)
      PROVE  IInv'
  <2>1. ProcessRef("promo", p, p, job) /\ UNCHANGED <<checkpoint, failures, esDocs, s3Committed>>
    BY <1>7 DEF ReadPromo
  <2>2. "promo" \in {"item", "promo"} /\ p \in Items \cup Promos
    OBVIOUS
  <2>. QED  BY <2>1, <2>2, ReadFileOK
<1>8. CASE SendBulk
  BY <1>8, SendBulkOK
<1>9. CASE CompleteCheckpoint
  BY <1>9, CompleteCheckpointOK
<1>10. CASE Restart
  BY <1>10, RestartOK
<1>11. CASE UNCHANGED vars
  BY <1>11 DEF IInv, vars, TypeOK, SinksAgree, CommittedIsIndexed
<1>. QED  BY <1>1, <1>2, <1>3, <1>4, <1>5, <1>6, <1>7, <1>8, <1>9, <1>10, <1>11
          DEF Next, Process
-----------------------------------------------------------------------------
(***************************************************************************)
(* The theorems.                                                           *)
(***************************************************************************)

\* The invariant holds in every state the application reaches.
THEOREM Invariance == Spec => []IInv
<1>1. Init => IInv
  BY InitOK
<1>2. IInv /\ [Next]_vars => IInv'
  BY StepOK
<1>. QED  BY <1>1, <1>2, PTL DEF Spec

\* Types: every variable keeps to the values the code can give it.
THEOREM TypeCorrect == Spec => []TypeOK
<1>1. IInv => TypeOK
  BY DEF IInv
<1>. QED  BY <1>1, Invariance, PTL

\* Exactly once up to S3: no order of records and no restart from a checkpoint
\* loses a sale the job has read, or has it in two places or two versions.
THEOREM ExactlyOnce == Spec => []NoSaleLostOrDuplicated
<1>1. IInv => NoSaleLostOrDuplicated
  BY DEF IInv, JobOK, NoSaleLostOrDuplicated
<1>. QED  BY <1>1, Invariance, PTL

\* A joiner that holds back a sale has not seen the sale's partner.
THEOREM Unstranded == Spec => []NoStrandedSale
<1>1. IInv => NoStrandedSale
  BY DEF IInv, JobOK, StateMatches, WaitWithKey, NoStrandedSale, NoneStranded
<1>. QED  BY <1>1, Invariance, PTL

\* At least once to Elasticsearch: no sale is in a finished file of S3 without
\* a document in Elasticsearch.
THEOREM AtLeastOnce == Spec => []CommittedIsIndexed
<1>1. IInv => CommittedIsIndexed
  BY DEF IInv, SinksAgree
<1>. QED  BY <1>1, Invariance, PTL

\* What has passed every join is denormalised.
LEMMA DoneIsDenormalized ==
    ASSUME NEW r, Joined(Joiners, r)
    PROVE  Denormalized(r)
BY DEF Joined, JoinMade, Denormalized

\* The promise is about the same sales.
LEMMA SamePromise ==
    /\ Promise!EnrichedSales = EnrichedSales
    /\ \A r : Promise!Denormalized(r) <=> Denormalized(r)
<1>1. Promise!EnrichedSales = EnrichedSales
  BY DEF Promise!EnrichedSales, EnrichedSales, Promise!Joiners, Joiners, Promise!Refs, Refs,
         Promise!EnrichedCustomers, EnrichedCustomers
<1>2. ASSUME NEW r
      PROVE  Promise!Denormalized(r) <=> Denormalized(r)
  BY DEF Promise!Denormalized, Denormalized, Promise!Joiners, Joiners, Promise!KeyOf, KeyOf,
         Promise!RefMatches, RefMatches, Promise!CustomerMatches, CustomerMatches,
         Promise!EnrichedCustomers, EnrichedCustomers
<1>. QED  BY <1>1, <1>2

\* The application implements DenormalizedSales: S3 receives denormalised
\* sales, each once, and keeps them.
THEOREM Implements == Spec => DeliversDenormalizedSales
<1>1. Init => Promise!Init
  BY DEF Init, Promise!Init
<1>2. ASSUME IInv, IInv', [Next]_vars
      PROVE  [Promise!Deliver]_s3Committed
  <2>1. CASE CompleteCheckpoint
    <3>1. s3Committed' = s3Committed \cup s3Pending
      BY <2>1 DEF CompleteCheckpoint
    <3>2. ASSUME NEW r \in s3Committed' \ s3Committed
          PROVE  r \in EnrichedSales /\ Denormalized(r)
      <4>1. r \in s3Pending /\ r \in EnrichedSales
        BY <1>2, <3>1 DEF IInv, TypeOK
      <4>2. r \in Held(job, s3Pending, s3Committed)[<<"pending", "s3">>]
        BY <4>1 DEF Held, Places
      <4>3. Joined(JoinsDone(<<"pending", "s3">>), r)
        BY <1>2, <4>2 DEF IInv, JobOK, SalesJoined, Places
      <4>4. Joined(Joiners, r)
        BY <4>3 DEF JoinsDone
      <4>. QED  BY <4>1, <4>4, DoneIsDenormalized
    <3>3. \A r1, r2 \in s3Committed' : r1.sale = r2.sale => r1 = r2
      <4>. DEFINE H == Held(job', s3Pending', s3Committed')
      <4>1. H[<<"committed", "s3">>] = s3Committed' /\ <<"committed", "s3">> \in Places
        BY DEF Held, Places
      <4>2. Once(H, job'.read \cap Sales)
        BY <1>2 DEF IInv, JobOK, HeldOnce
      <4>. HIDE DEF H
      <4>. QED  BY <4>1, <4>2, OnceMeans
    <3>. QED  BY <3>1, <3>2, <3>3, SamePromise DEF Promise!Deliver
  <2>2. CASE ~CompleteCheckpoint
    <3>1. s3Committed' = s3Committed
      BY <1>2, <2>2
      DEF Next, Process, vars, Restart, SendBulk, ReadCustomer, ReadAddress, ReadSale,
          JoinSale, JoinCustomer, ReadItem, ReadPromo
    <3>. QED  BY <3>1
  <2>. QED  BY <2>1, <2>2
<1>. QED  BY <1>1, <1>2, Invariance, PTL DEF Spec, DeliversDenormalizedSales, Promise!Spec
=============================================================================
