---------------------------- MODULE StreamEnrich ----------------------------
(***************************************************************************)
(* The Flink application of the streaming module.  Customers are joined    *)
(* with addresses; sales are joined with the billing customer, the         *)
(* shipping customer, the item and the promo, and go to Elasticsearch and  *)
(* to S3.  Flink takes checkpoints, and after a failure restarts the job   *)
(* from the last one.                                                      *)
(*                                                                         *)
(* What Flink itself does (sources, network, checkpoints, sinks) is not in *)
(* the repository: it is modelled from how the application uses it.  What  *)
(* is on its way to an operator is in a set, so any record may overtake    *)
(* any other.  Flink keeps the order of two records between the same two   *)
(* subtasks; the model allows more, and nothing below depends on an order. *)
(***************************************************************************)
EXTENDS RetailSales, Naturals, FiniteSets

CONSTANT MaxFailures   \* bound on the failures of the job

ASSUME MaxFailuresAssumption == MaxFailures \in Nat

VARIABLES
    job,         \* the job's state, all that a checkpoint contains
    checkpoint,  \* the last completed checkpoint, or NoValue
    failures,    \* how often the job has failed
    esBuffer,    \* index requests the Elasticsearch sink has not sent yet
    esDocs,      \* documents Elasticsearch has, per sale
    s3Pending,   \* sales in part files that are not finished
    s3Committed  \* sales in finished part files

vars == <<job, checkpoint, failures, esBuffer, esDocs, s3Pending, s3Committed>>

Events == Sales \cup CustomerEvents \cup AddressEvents

Jobs ==
    [read          : SUBSET Events,   \* consumed from Kinesis
     skipped       : SUBSET Events,   \* before the source's start position
     customerState : [Addresses -> CustomerEvents \cup {NoValue}],
     addressState  : [Addresses -> AddressEvents \cup {NoValue}],
     customersTo   : [{"bill", "ship"} -> SUBSET EnrichedCustomers],
     salesTo       : [Joiners -> SUBSET EnrichedSales],
     ref           : [Joiners -> [Keys -> Refs \cup {NoValue}]],
     buffered      : [Joiners -> SUBSET EnrichedSales]]

ASSUME NoValueIsNoJob == NoValue \notin Jobs

\* A job that starts with empty state and past the events in skip.
NewJob(skip) ==
    [read          |-> {},
     skipped       |-> skip,
     customerState |-> [a \in Addresses |-> NoValue],
     addressState  |-> [a \in Addresses |-> NoValue],
     customersTo   |-> [j \in {"bill", "ship"} |-> {}],
     salesTo       |-> [j \in Joiners |-> {}],
     ref           |-> [j \in Joiners |-> [k \in Keys |-> NoValue]],
     buffered      |-> [j \in Joiners |-> {}]]

Init ==
    /\ job = NewJob({})
    /\ checkpoint = NoValue
    /\ failures = 0
    /\ esBuffer = {}
    /\ esDocs = [s \in Sales |-> 0]
    /\ s3Pending = {}
    /\ s3Committed = {}
-----------------------------------------------------------------------------
(***************************************************************************)
(* The operators.  processElement1 gets a sale, processElement2 what it is *)
(* joined with; each runs alone on the state of its key.                   *)
(***************************************************************************)

NextJoiner == [bill |-> "ship", ship |-> "item", item |-> "promo"]

\* Mutant of Enrich: the shipping join calls setBillCustomer.
EnrichBill(j, r, v) == [r EXCEPT !.with[IF j = "ship" THEN "bill" ELSE j] = v]

Enrich(j, r, v) == [r EXCEPT !.with[j] = v]

\* What joiner j collects, in a job that is jb otherwise: to the next joiner,
\* or from the last one to both sinks.
Collect(j, rs, jb) ==
    IF j = "promo"
    THEN /\ job' = jb
         /\ esBuffer' = esBuffer \cup rs
         /\ s3Pending' = s3Pending \cup rs
    ELSE /\ job' = [jb EXCEPT !.salesTo[NextJoiner[j]] = @ \cup rs]
         /\ UNCHANGED <<esBuffer, s3Pending>>

\* Mutant of ProcessSale: waits for a promo, even if the sale has none.
ProcessSaleWaits(j, r, jb) ==
    LET k == KeyOf(j, r.sale) IN
    \/ /\ k # NoValue => jb.ref[j][k] = NoValue
       /\ Collect(j, {}, [jb EXCEPT !.buffered[j] = @ \cup {r}])
    \/ /\ k # NoValue /\ jb.ref[j][k] # NoValue
       /\ Collect(j, {Enrich(j, r, jb.ref[j][k])}, jb)

\* processElement1: a sale without promo passes through, a sale whose partner
\* has not been seen waits, any other is enriched.
ProcessSale(j, r, jb) ==
    LET k == KeyOf(j, r.sale) IN
    \/ k = NoValue /\ Collect(j, {r}, jb)
    \/ /\ k # NoValue /\ jb.ref[j][k] = NoValue
       /\ Collect(j, {}, [jb EXCEPT !.buffered[j] = @ \cup {r}])
    \/ /\ k # NoValue /\ jb.ref[j][k] # NoValue
       /\ Collect(j, {Enrich(j, r, jb.ref[j][k])}, jb)

\* Mutant of ProcessRef: the list of sales is not cleared.
ProcessRefKeeps(j, k, v, jb) ==
    LET waiting == {r \in jb.buffered[j] : KeyOf(j, r.sale) = k} IN
    Collect(j, {Enrich(j, r, v) : r \in waiting}, [jb EXCEPT !.ref[j][k] = v])

\* Mutant of ProcessRef: enriches the sales to come, not those that wait.
ProcessRefFuture(j, k, v, jb) == Collect(j, {}, [jb EXCEPT !.ref[j][k] = v])

\* processElement2: replace what the key is joined with, and enrich the sales
\* that wait for it.
ProcessRef(j, k, v, jb) ==
    LET waiting == {r \in jb.buffered[j] : KeyOf(j, r.sale) = k} IN
    Collect(j, {Enrich(j, r, v) : r \in waiting},
            [jb EXCEPT !.ref[j][k] = v, !.buffered[j] = @ \ waiting])

\* Mutant of CollectCustomer: the customer goes out without its address.
CollectCustomerBare(v, jb) ==
    job' = [jb EXCEPT !.customersTo = [j \in {"bill", "ship"} |-> @[j] \cup {v.customer}]]

\* CustomerAddressJoiner collects a customer: both customer joins get it.
CollectCustomer(v, jb) ==
    job' = [jb EXCEPT !.customersTo = [j \in {"bill", "ship"} |-> @[j] \cup {v}]]

-----------------------------------------------------------------------------
Unread == Events \ (job.read \cup job.skipped)

Read(e) == [job EXCEPT !.read = @ \cup {e}]

\* A customer from Kinesis reaches CustomerAddressJoiner.processElement1.
ReadCustomer(c) ==
    LET a == CustomerAddress[c] IN
    /\ c \in Unread
    /\ \/ /\ job.addressState[a] = NoValue
          /\ job' = [Read(c) EXCEPT !.customerState[a] = c]
       \/ /\ job.addressState[a] # NoValue
          /\ CollectCustomer([customer |-> c, address |-> job.addressState[a]],
                             [Read(c) EXCEPT !.addressState[a] = NoValue])
    /\ UNCHANGED <<checkpoint, failures, esBuffer, esDocs, s3Pending, s3Committed>>

\* An address from Kinesis reaches CustomerAddressJoiner.processElement2.
ReadAddress(x) ==
    LET a == AddressId[x] IN
    /\ x \in Unread
    /\ \/ /\ job.customerState[a] = NoValue
          /\ job' = [Read(x) EXCEPT !.addressState[a] = x]
       \/ /\ job.customerState[a] # NoValue
          /\ CollectCustomer([customer |-> job.customerState[a], address |-> x],
                             [Read(x) EXCEPT !.customerState[a] = NoValue])
    /\ UNCHANGED <<checkpoint, failures, esBuffer, esDocs, s3Pending, s3Committed>>

\* A sale from Kinesis reaches the billing join.
ReadSale(s) ==
    /\ s \in Unread
    /\ ProcessSale("bill", [sale |-> s, with |-> [j \in Joiners |-> NoValue]], Read(s))
    /\ UNCHANGED <<checkpoint, failures, esDocs, s3Committed>>

\* A sale reaches one of the other joins.
JoinSale(j, r) ==
    /\ r \in job.salesTo[j]
    /\ ProcessSale(j, r, [job EXCEPT !.salesTo[j] = @ \ {r}])
    /\ UNCHANGED <<checkpoint, failures, esDocs, s3Committed>>

\* A customer with its address reaches the billing or the shipping join.
JoinCustomer(j, v) ==
    /\ v \in job.customersTo[j]
    /\ ProcessRef(j, CustomerId[v.customer], v, [job EXCEPT !.customersTo[j] = @ \ {v}])
    /\ UNCHANGED <<checkpoint, failures, esDocs, s3Committed>>

\* A line of the item file reaches the item join; a file is read again, as a
\* whole, whenever it has been modified (PROCESS_CONTINUOUSLY).
ReadItem(i) ==
    /\ ProcessRef("item", i, i, job)
    /\ UNCHANGED <<checkpoint, failures, esDocs, s3Committed>>

\* The same for the promo file.
ReadPromo(p) ==
    /\ ProcessRef("promo", p, p, job)
    /\ UNCHANGED <<checkpoint, failures, esDocs, s3Committed>>
-----------------------------------------------------------------------------
(***************************************************************************)
(* The sinks and the checkpoints.                                          *)
(***************************************************************************)

\* The documents after Elasticsearch has indexed the requests rs.  They name
\* no document id, so each adds a document.
Indexed(rs) ==
    [s \in Sales |-> esDocs[s] + Cardinality({r \in rs : r.sale = s})]

\* A bulk request; which requests it takes depends on time and size.
SendBulk ==
    /\ \E rs \in SUBSET esBuffer :
          /\ rs # {}
          /\ esDocs' = Indexed(rs)
          /\ esBuffer' = esBuffer \ rs
    /\ UNCHANGED <<job, checkpoint, failures, s3Pending, s3Committed>>

\* Mutant of CompleteCheckpoint: disableFlushOnCheckpoint().
CompleteCheckpointUnflushed ==
    /\ checkpoint' = job
    /\ s3Committed' = s3Committed \cup s3Pending
    /\ s3Pending' = {}
    /\ UNCHANGED <<job, failures, esBuffer, esDocs>>

\* A checkpoint completes: the Elasticsearch sink has sent all its requests
\* and the S3 sink finishes its part files.  If the job fails in between, the
\* S3 sink finishes them when it restarts from this checkpoint.
CompleteCheckpoint ==
    /\ checkpoint' = job
    /\ esDocs' = Indexed(esBuffer)
    /\ esBuffer' = {}
    /\ s3Committed' = s3Committed \cup s3Pending
    /\ s3Pending' = {}
    /\ UNCHANGED <<job, failures>>

\* The job fails and restarts: from the last checkpoint, or, before there is
\* one, empty and from the end of the streams (the Kinesis source starts from
\* LATEST unless it is told otherwise).
Restart ==
    /\ failures < MaxFailures
    /\ failures' = failures + 1
    /\ \/ checkpoint # NoValue /\ job' = checkpoint
       \/ /\ checkpoint = NoValue
          /\ \E more \in SUBSET Unread : job' = NewJob(job.skipped \cup job.read \cup more)
    /\ esBuffer' = {}
    /\ s3Pending' = {}
    /\ UNCHANGED <<checkpoint, esDocs, s3Committed>>

\* What the job does as long as it runs.
Process ==
    \/ \E c \in CustomerEvents : ReadCustomer(c)
    \/ \E x \in AddressEvents : ReadAddress(x)
    \/ \E s \in Sales : ReadSale(s)
    \/ \E j \in Joiners : \E r \in job.salesTo[j] : JoinSale(j, r)
    \/ \E j \in {"bill", "ship"} : \E v \in job.customersTo[j] : JoinCustomer(j, v)
    \/ \E i \in Items : ReadItem(i)
    \/ \E p \in Promos : ReadPromo(p)
    \/ SendBulk
    \/ CompleteCheckpoint

Next == Process \/ Restart

Spec == Init /\ [][Next]_vars

(***************************************************************************)
(* Fairness: the job runs on, the files are there, checkpoints complete.   *)
(* Failures are bounded and each other step moves a record or reads one, so *)
(* a behaviour has finitely many steps that change the state, and fairness *)
(* of all together is that of each.                                        *)
(***************************************************************************)
FairSpec == Spec /\ WF_vars(Process)
-----------------------------------------------------------------------------
\* Every variable keeps to the values the code can give it.
TypeOK ==
    /\ job \in Jobs
    /\ checkpoint \in Jobs \cup {NoValue}
    /\ failures \in 0 .. MaxFailures
    /\ esBuffer \subseteq EnrichedSales
    /\ esDocs \in [Sales -> Nat]
    /\ s3Pending \subseteq EnrichedSales
    /\ s3Committed \subseteq EnrichedSales

\* Where a sale the job has read can be.
Places == ({"inbox", "buffered"} \X Joiners) \cup {<<"pending", "s3">>, <<"committed", "s3">>}

\* What is there, in a job jb with the sales pending and committed in S3.
Held(jb, pending, committed) ==
    [p \in Places |-> CASE p[1] = "inbox"     -> jb.salesTo[p[2]]
                        [] p[1] = "buffered"  -> jb.buffered[p[2]]
                        [] p[1] = "pending"   -> pending
                        [] OTHER              -> committed]

\* Each of the sales S, and no other sale, is in one place, in one version.
Once(at, S) ==
    /\ S = {r.sale : r \in UNION {at[p] : p \in Places}}
    /\ \A p1, p2 \in Places : \A r1 \in at[p1], r2 \in at[p2] :
          r1.sale = r2.sale => p1 = p2 /\ r1 = r2

HeldOnce(jb, pending, committed) ==
    Once(Held(jb, pending, committed), jb.read \cap Sales)

\* Exactly once up to the S3 sink: each sale the job has read is in one place,
\* in one version: on its way, waiting in a joiner, or in S3; whatever order
\* customers, addresses, sales and files come in, and whenever the job fails.
NoSaleLostOrDuplicated == HeldOnce(job, s3Pending, s3Committed)

\* A sale only waits for what its joiner has not seen: no order of sale and
\* partner, and no restart, leaves a sale behind its partner.
NoneStranded(jb) ==
    \A j \in Joiners : \A r \in jb.buffered[j] : jb.ref[j][KeyOf(j, r.sale)] = NoValue

NoStrandedSale == NoneStranded(job)

\* At least once to Elasticsearch: what S3 has, Elasticsearch has too.
CommittedIsIndexed == \A r \in s3Committed : esDocs[r.sale] > 0

\* S3 receives denormalised sales only, each once and for good.
Promise == INSTANCE DenormalizedSales WITH delivered <- s3Committed

DeliversDenormalizedSales == Promise!Spec

\* A sale that a checkpoint contains, with its two customers seen by then, is
\* in S3 at last: no failure undoes that.
CheckpointedSaleDelivered ==
    \A s \in Sales :
        /\ checkpoint # NoValue
        /\ s \in checkpoint.read
        /\ checkpoint.ref["bill"][BillCustomerId[s]] # NoValue
        /\ checkpoint.ref["ship"][ShipCustomerId[s]] # NoValue
        ~> \E r \in s3Committed : r.sale = s
-----------------------------------------------------------------------------
(***************************************************************************)
(* What the documentation and the comments say and the code does not do.   *)
(***************************************************************************)

\* "No need to keep the state active" (CustomerAddressJoiner.java, where it
\* clears the address it has joined): no later customer waits for an address
\* that has been read.
WaitingCustomerIsJoined ==
    \A c \in CustomerEvents :
        /\ job.customerState[CustomerAddress[c]] = c
        /\ \E x \in AddressEvents : x \in job.read /\ AddressId[x] = CustomerAddress[c]
        ~> job.customerState[CustomerAddress[c]] # c
=============================================================================
