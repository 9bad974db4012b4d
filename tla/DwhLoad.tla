------------------------------ MODULE DwhLoad ------------------------------
(***************************************************************************)
(* The incremental load of the data warehouse.  Glue jobs write customers, *)
(* addresses and sales to the clean layer of the data lake; a state        *)
(* machine calls sp_run_incremental_load in Redshift, which loads          *)
(* customer_dim (a slowly changing dimension of type 2 in the address) and *)
(* then sale_fact, both from high-watermarks.                              *)
(*                                                                         *)
(* TRUNCATE commits, so a call is three transactions: up to the TRUNCATE   *)
(* of wrk_customer_dim, up to that of wrk_sale_fact, and the rest.         *)
(* Redshift's isolation is serializable: calls that overlap interleave by  *)
(* whole transactions, save for what they read from the clean layer, which *)
(* is outside; and Redshift may abort any of them.                         *)
(***************************************************************************)
EXTENDS Integers, FiniteSets

CONSTANTS
    CustomerEvents,  \* rows for store_customer, one per change of a customer
    AddressEvents,   \* rows for store_customer_address; they differ in content
    Sales,           \* rows for store_sale
    Run,             \* the run of its table's Glue job that writes a row
    Time,            \* customer_datetime, address_datetime, sale_datetime
    Customers, Addresses,
    CustomerId,      \* the customer of a customer event or a sale
    AddressOf,       \* the address of a customer event or an address event
    EndOfTime,       \* 31/12/2999
    Unknown,         \* NVL's value for an address that is not there
    Loads,           \* calls of sp_run_incremental_load, in the order of submission
    MaxRunning       \* bound on the calls that run at the same time (with more than
                     \* two the updates may not be determined: UpdatesUnambiguous)

Tables == {"customer", "address", "sale"}
Rows(t) == CASE t = "customer" -> CustomerEvents
             [] t = "address"  -> AddressEvents
             [] t = "sale"     -> Sales

ASSUME DwhAssumption ==
    /\ \A t \in Tables : IsFiniteSet(Rows(t))
    /\ Run \in [CustomerEvents \cup AddressEvents \cup Sales -> Nat \ {0}]
    /\ Time \in [CustomerEvents \cup AddressEvents \cup Sales -> 1 .. EndOfTime - 1]
    /\ CustomerId \in [CustomerEvents \cup Sales -> Customers]
    /\ AddressOf \in [CustomerEvents \cup AddressEvents -> Addresses]
    /\ Unknown \notin AddressEvents
    /\ EndOfTime \in Nat /\ Loads \subseteq Nat /\ MaxRunning \in Nat
    \* A run reads one row for a key at most.
    /\ \A e1, e2 \in CustomerEvents :
          CustomerId[e1] = CustomerId[e2] /\ Run[e1] = Run[e2] => e1 = e2
    /\ \A x1, x2 \in AddressEvents :
          AddressOf[x1] = AddressOf[x2] /\ Run[x1] = Run[x2] => x1 = x2

VARIABLES
    runs,          \* the runs each Glue job has committed: the clean layer
    at,            \* where each call is
    mark,          \* its local variables
    highWatermark, \* dw_incremental_dates
    wrkCustomers,  \* wrk_customer_dim
    wrkSales,      \* wrk_sale_fact
    customerDim,   \* customer_dim, without the unknown record
    saleFact,      \* sale_fact
    overlapped     \* history: whether a call was started while another ran

tableVars == <<wrkCustomers, wrkSales, customerDim, saleFact>>
vars == <<runs, at, mark, highWatermark, tableVars, overlapped>>

Steps == {"scheduled", "truncate", "customers", "sales", "finished", "failed"}
Running == {l \in Loads : at[l] \in {"truncate", "customers", "sales"}}

UnknownKey == -1
-----------------------------------------------------------------------------
(***************************************************************************)
(* The clean layer.  The customer and address tables are Hudi tables: a    *)
(* row replaces the row of the same key.  etl_processing_datetime is when  *)
(* the writing run started; a job has one run at a time, so the number of  *)
(* the run stands for it.                                                  *)
(***************************************************************************)

Written(t) == {r \in Rows(t) : Run[r] <= runs[t]}

\* Of the rows of each key, the last written.
Latest(rows, key) ==
    {r \in rows : \A q \in rows : key[q] = key[r] => Run[q] <= Run[r]}

StoreCustomer        == Latest(Written("customer"), CustomerId)
StoreCustomerAddress == Latest(Written("address"), AddressOf)

\* Mutant of MaxOf: another value for an empty table.
MaxOfEmpty(S) == IF S = {} THEN -1 ELSE CHOOSE m \in S : \A n \in S : n <= m

\* MAX(etl_processing_datetime); 0 when the table is empty.
MaxOf(S) == IF S = {} THEN 0 ELSE CHOOSE m \in S : \A n \in S : n <= m

\* The LEFT OUTER JOIN of customers with addresses.
AddressesOf(e) ==
    LET known == {x \in StoreCustomerAddress : AddressOf[x] = AddressOf[e]}
    IN  IF known = {} THEN {Unknown} ELSE known

\* address_datetime: NVL gives an unknown address a time before all others.
AddressTime(x) == IF x = Unknown THEN 0 ELSE Time[x]
-----------------------------------------------------------------------------
(***************************************************************************)
(* sp_load_customer_dim on a dimension D and the rows W of the work table. *)
(* A version carries the customer event of its type 1 columns and the      *)
(* address event of its type 2 columns.                                    *)
(***************************************************************************)

\* Mutant of SelectedCustomers: a new address alone does not select a customer.
SelectedCustomersOnly(l) ==
    {w \in [load : {l}, event : StoreCustomer, address : AddressEvents \cup {Unknown}] :
        w.address \in AddressesOf(w.event) /\ Run[w.event] > mark[l].customerStart}

\* Rows of both tables newer than what the last load has seen.
SelectedCustomers(l) ==
    {w \in [load : {l}, event : StoreCustomer, address : AddressEvents \cup {Unknown}] :
        /\ w.address \in AddressesOf(w.event)
        /\ \/ Run[w.event] > mark[l].customerStart
           \/ w.address # Unknown /\ Run[w.address] > mark[l].addressStart}

VersionsOf(D, c) == {v \in D : CustomerId[v.event] = c}

Matches(v, w) == CustomerId[v.event] = CustomerId[w.event]

\* GENERATED BY DEFAULT AS IDENTITY: a new key for each row of S.
Numbered(D, S) ==
    LET number == CHOOSE n \in [S -> 1 .. Cardinality(S)] :
                     \A s1, s2 \in S : n[s1] = n[s2] => s1 = s2
    IN  {[key |-> Cardinality(D) + number[s], event |-> s.row.event,
          address |-> s.row.address, from |-> s.from,
          to |-> EndOfTime, current |-> TRUE] : s \in S}

\* Customers that are not in the dimension: their first version starts with
\* the customer.
InsertNew(D, W) ==
    D \cup Numbered(D, {[row |-> w, from |-> Time[w.event]] :
                           w \in {u \in W : VersionsOf(D, CustomerId[u.event]) = {}}})

\* SCD type 1: every version of a customer gets its attributes.  An UPDATE that
\* finds several rows for a version takes any: see UpdatesUnambiguous.
Changes(W, v) == {w.event : w \in {u \in W : Matches(v, u) /\ v.event # u.event}}

UpdateType1(D, W) ==
    {[v EXCEPT !.event = IF Changes(W, v) = {} THEN @ ELSE CHOOSE e \in Changes(W, v) : TRUE] :
        v \in D}

\* The row with the latest scd_start_date of its customer.
MostRecent(D, v) == \A u \in VersionsOf(D, CustomerId[v.event]) : u.from <= v.from

\* SCD type 2: the rows with another address than a most recent version.
Moves(D, W, v) == {w \in W : Matches(v, w) /\ MostRecent(D, v) /\ v.address # w.address}

\* Such a version ends with the address of the row.
ClosePrior(D, W) ==
    LET ends(v) == {AddressTime(w.address) : w \in Moves(D, W, v)}
    IN  {IF Moves(D, W, v) = {} THEN v
         ELSE [v EXCEPT !.to = CHOOSE t \in ends(v) : TRUE, !.current = FALSE] : v \in D}

\* A new version starts with it, one for each pair of row and version.
InsertVersion(D, W) ==
    D \cup Numbered(D, UNION {{[row |-> w, from |-> AddressTime(w.address), prior |-> v.key] :
                                  w \in Moves(D, W, v)} : v \in D})

\* Mutant of LoadDimension: closes a version after it inserts the next one.
LoadDimensionSwapped(D, W) ==
    LET typed1 == UpdateType1(InsertNew(D, W), W)
    IN  ClosePrior(InsertVersion(typed1, W), W)

LoadDimension(D, W) ==
    LET typed1 == UpdateType1(InsertNew(D, W), W)
    IN  InsertVersion(ClosePrior(typed1, W), W)

\* Mutant of SelectedSales: the end of a version belongs to it.
SelectedSalesInclusive(l) ==
    LET keys(s) == {v.key : v \in {u \in VersionsOf(customerDim, CustomerId[s]) :
                                      u.from <= Time[s] /\ Time[s] <= u.to}}
    IN  UNION {{[load |-> l, sale |-> s, customerKey |-> k] :
                   k \in IF keys(s) = {} THEN {UnknownKey} ELSE keys(s)} :
               s \in {r \in Written("sale") : Time[r] > mark[l].saleStart}}

\* The sales after the last one loaded, with the version in force at the time
\* of the sale: none, one or, by the join, several.
SelectedSales(l) ==
    LET keys(s) == {v.key : v \in {u \in VersionsOf(customerDim, CustomerId[s]) :
                                      u.from <= Time[s] /\ Time[s] < u.to}}
    IN  UNION {{[load |-> l, sale |-> s, customerKey |-> k] :
                   k \in IF keys(s) = {} THEN {UnknownKey} ELSE keys(s)} :
               s \in {r \in Written("sale") : Time[r] > mark[l].saleStart}}
-----------------------------------------------------------------------------
NoMarks == [customerStart |-> 0, customerEnd |-> 0,
            addressStart |-> 0, addressEnd |-> 0, saleStart |-> 0]

Init ==
    /\ runs = [t \in Tables |-> 0]
    /\ at = [l \in Loads |-> "scheduled"]
    /\ mark = [l \in Loads |-> NoMarks]
    /\ highWatermark = [t \in Tables |-> 0]
    /\ wrkCustomers = {}
    /\ wrkSales = {}
    /\ customerDim = {}
    /\ saleFact = {}
    /\ overlapped = FALSE

\* The next run of a Glue job commits its rows.
CommitRun(t) ==
    /\ \E r \in Rows(t) : Run[r] > runs[t]
    /\ runs' = [runs EXCEPT ![t] = @ + 1]
    /\ UNCHANGED <<at, mark, highWatermark, tableVars, overlapped>>

\* Mutant of StartLoad: the new mark is stored at once, and TRUNCATE commits it.
StartLoadStored(l) ==
    /\ at[l] = "scheduled"
    /\ \A k \in Loads : k < l => at[k] # "scheduled"
    /\ Cardinality(Running) < MaxRunning
    /\ mark' = [mark EXCEPT ![l].customerStart = highWatermark["customer"],
                            ![l].addressStart  = highWatermark["address"],
                            ![l].customerEnd   = MaxOf({Run[e] : e \in StoreCustomer})]
    /\ highWatermark' = [highWatermark EXCEPT !["customer"] = mark'[l].customerEnd]
    /\ at' = [at EXCEPT ![l] = "truncate"]
    /\ overlapped' = (overlapped \/ Running # {})
    /\ UNCHANGED <<runs, tableVars>>

\* The loader submits the call and Redshift starts it: it reads the marks of
\* the last load and the new one for the customers.  Another call may be
\* running: one that outlived the timeout of its execution, or that a retry of
\* the Submit task has submitted again.
StartLoad(l) ==
    /\ at[l] = "scheduled"
    /\ \A k \in Loads : k < l => at[k] # "scheduled"
    /\ Cardinality(Running) < MaxRunning
    /\ mark' = [mark EXCEPT ![l].customerStart = highWatermark["customer"],
                            ![l].addressStart  = highWatermark["address"],
                            ![l].customerEnd   = MaxOf({Run[e] : e \in StoreCustomer})]
    /\ at' = [at EXCEPT ![l] = "truncate"]
    /\ overlapped' = (overlapped \/ Running # {})
    /\ UNCHANGED <<runs, highWatermark, tableVars>>

\* Mutant of TruncateWork: the rows of the last load stay.
TruncateWorkNothing(l) ==
    /\ at[l] = "truncate"
    /\ mark' = [mark EXCEPT ![l].addressEnd = MaxOf({Run[x] : x \in StoreCustomerAddress})]
    /\ at' = [at EXCEPT ![l] = "customers"]
    /\ UNCHANGED <<runs, highWatermark, tableVars, overlapped>>

\* The new mark for the addresses; the work table is emptied.
TruncateWork(l) ==
    /\ at[l] = "truncate"
    /\ mark' = [mark EXCEPT ![l].addressEnd = MaxOf({Run[x] : x \in StoreCustomerAddress})]
    /\ wrkCustomers' = {}
    /\ at' = [at EXCEPT ![l] = "customers"]
    /\ UNCHANGED <<runs, highWatermark, wrkSales, customerDim, saleFact, overlapped>>

\* MAX over an empty table is NULL, and the old mark stays.
NewMark(old, end) == IF end = 0 THEN old ELSE end

\* The second transaction: the dimension and its marks; sp_load_sale_fact reads
\* its mark and empties its work table.
LoadCustomerDim(l) ==
    LET W == wrkCustomers \cup SelectedCustomers(l) IN
    /\ at[l] = "customers"
    /\ wrkCustomers' = W
    /\ customerDim' = LoadDimension(customerDim, W)
    /\ highWatermark' =
          [highWatermark EXCEPT !["customer"] = NewMark(@, mark[l].customerEnd),
                                !["address"]  = NewMark(@, mark[l].addressEnd)]
    /\ mark' = [mark EXCEPT ![l].saleStart = highWatermark["sale"]]
    /\ wrkSales' = {}
    /\ at' = [at EXCEPT ![l] = "sales"]
    /\ UNCHANGED <<runs, saleFact, overlapped>>

\* Mutant of LoadSaleFact: the fact table is replaced, not merged into.
LoadSaleFactReplaces(l) ==
    LET F == wrkSales \cup SelectedSales(l) IN
    /\ at[l] = "sales"
    /\ wrkSales' = F
    /\ saleFact' = F
    /\ highWatermark' =
          [highWatermark EXCEPT !["sale"] = NewMark(@, MaxOf({Time[r.sale] : r \in F}))]
    /\ at' = [at EXCEPT ![l] = "finished"]
    /\ mark' = [mark EXCEPT ![l] = NoMarks]
    /\ UNCHANGED <<runs, wrkCustomers, customerDim, overlapped>>

\* The third: merge the sales into the fact table, and keep the latest sold_date
\* as the mark.
LoadSaleFact(l) ==
    LET W == wrkSales \cup SelectedSales(l)
        F == {r \in saleFact : \A w \in W : w.sale # r.sale} \cup W
    IN
    /\ at[l] = "sales"
    /\ wrkSales' = W
    /\ saleFact' = F
    /\ highWatermark' =
          [highWatermark EXCEPT !["sale"] = NewMark(@, MaxOf({Time[r.sale] : r \in F}))]
    /\ at' = [at EXCEPT ![l] = "finished"]
    /\ mark' = [mark EXCEPT ![l] = NoMarks]
    /\ UNCHANGED <<runs, wrkCustomers, customerDim, overlapped>>

\* The call fails or is aborted: its open transaction is rolled back.
Fail(l) ==
    /\ l \in Running
    /\ at' = [at EXCEPT ![l] = "failed"]
    /\ mark' = [mark EXCEPT ![l] = NoMarks]
    /\ UNCHANGED <<runs, highWatermark, tableVars, overlapped>>

Next ==
    \/ \E t \in Tables : CommitRun(t)
    \/ \E l \in Loads :
          \/ StartLoad(l)
          \/ TruncateWork(l)
          \/ LoadCustomerDim(l)
          \/ LoadSaleFact(l)
          \/ Fail(l)

Spec == Init /\ [][Next]_vars
-----------------------------------------------------------------------------
Versions == [key : Nat, event : CustomerEvents, address : AddressEvents \cup {Unknown},
             from : 0 .. EndOfTime, to : 0 .. EndOfTime, current : BOOLEAN]
SaleRows == [load : Loads, sale : Sales, customerKey : Nat \cup {UnknownKey}]
Marks == [customerStart : Nat, customerEnd : Nat, addressStart : Nat,
          addressEnd : Nat, saleStart : 0 .. EndOfTime]

\* Every variable keeps to the values the code can give it.
TypeOK ==
    /\ runs \in [Tables -> Nat]
    /\ at \in [Loads -> Steps]
    /\ mark \in [Loads -> Marks]
    /\ highWatermark \in [Tables -> Nat]
    /\ wrkCustomers \subseteq [load : Loads, event : CustomerEvents,
                               address : AddressEvents \cup {Unknown}]
    /\ wrkSales \subseteq SaleRows
    /\ customerDim \subseteq Versions
    /\ saleFact \subseteq SaleRows
    /\ overlapped \in BOOLEAN

\* What the marks say has been loaded has been: all versions of a customer have
\* the attributes of its row in the clean layer, if the mark has passed that
\* row, whichever runs commit between the statements of a load, and whichever
\* loads fail or overlap.
NoCustomerSkipped ==
    \A e \in StoreCustomer : Run[e] <= highWatermark["customer"] =>
        /\ VersionsOf(customerDim, CustomerId[e]) # {}
        /\ \A v \in VersionsOf(customerDim, CustomerId[e]) : v.event = e

\* The same for addresses: the current version of a customer has the address
\* the clean layer gives it, once both marks have passed the two rows.
NoAddressSkipped ==
    \A e \in StoreCustomer, x \in StoreCustomerAddress :
        /\ Run[e] <= highWatermark["customer"]
        /\ AddressOf[e] = AddressOf[x] /\ Run[x] <= highWatermark["address"]
        => \E v \in VersionsOf(customerDim, CustomerId[e]) : v.current /\ v.address = x

\* The versions of a customer follow one another without gap or overlap, up to
\* the current one, which is in force for good.  (As long as a customer's
\* addresses are younger than the customer and come in the order of their
\* times.)
VersionsInSequence ==
    \A v \in customerDim :
        /\ v.from < v.to
        /\ v.current <=> v.to = EndOfTime
        /\ v.current \/ \E u \in VersionsOf(customerDim, CustomerId[v.event]) : u.from = v.to
        /\ \A u \in VersionsOf(customerDim, CustomerId[v.event]) :
              u.key # v.key => u.to <= v.from \/ v.to <= u.from

\* Whenever a load gets to its updates, they find one row for a version at most,
\* or several that agree: what they do is determined, although the work table
\* may hold the rows of another load too.  (As long as no call overlaps another, or
\* two run at a time at most and addresses come in the order of their times: what the
\* other call has loaded then has nothing more to say.)
UpdatesUnambiguous ==
    \A l \in Loads : at[l] = "customers" =>
        LET W == wrkCustomers \cup SelectedCustomers(l)
            D == UpdateType1(InsertNew(customerDim, W), W)
        IN  /\ \A v \in customerDim : Cardinality(Changes(W, v)) <= 1
            /\ \A v \in D : Cardinality({w.address : w \in Moves(D, W, v)}) <= 1

\* The mark for the sales never passes a sale that is in the clean layer and
\* not in the fact table.  (As long as sales come in the order of their times.)
NoSaleSkipped ==
    \A s \in Written("sale") :
        Time[s] <= highWatermark["sale"] => \E r \in saleFact : r.sale = s

\* A sale is in the fact table once, however often loads fail and are repeated,
\* also one at the very time a version of its customer starts.  It takes that
\* calls have not overlapped, and that the versions of a customer do not either,
\* for the join with customer_dim multiplies a sale.
NoDuplicateSale ==
    ~overlapped => \A r1, r2 \in saleFact : r1.sale = r2.sale => r1 = r2
-----------------------------------------------------------------------------
(***************************************************************************)
(* What the documentation says and the code does not do in general.        *)
(***************************************************************************)

\* "On SCD2 change: 'N' on existing record, 'Y' on new record"
\* (source-to-target-mapping.md, scd_current_flag).
OneCurrentVersion ==
    \A v1, v2 \in customerDim :
        v1.current /\ v2.current /\ CustomerId[v1.event] = CustomerId[v2.event] => v1 = v2
=============================================================================
