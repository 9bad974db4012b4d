--------------------------- MODULE DwhLoad_proofs ---------------------------
(***************************************************************************)
(* Proofs about DwhLoad, for any rows, runs and calls: type correctness;   *)
(* that no sale is skipped nor loaded twice; and about the customer        *)
(* dimension, whichever calls fail: that no customer and no address is     *)
(* skipped, that the versions of a customer follow one another, and that   *)
(* the updates have one outcome.  Two calls may run at a time if addresses *)
(* come in the order of their times.  The dimension keeps its history, and *)
(* the sales refer to it, in any case.                                     *)
(***************************************************************************)
EXTENDS DwhLoad, FiniteSetTheorems, FunctionTheorems, WellFoundedInduction, TLAPS

(***************************************************************************)
(* Finite sets.                                                            *)
(***************************************************************************)

\* The image of a finite set under a function is finite.
LEMMA ImageFinite ==
    ASSUME NEW S, IsFiniteSet(S), NEW f, DOMAIN f = S, f = [x \in S |-> f[x]]
    PROVE  IsFiniteSet({f[x] : x \in S})
PROOF
<1> DEFINE T == {f[x] : x \in S}
<1>1. f \in [S -> T]
  OBVIOUS
<1>2. f \in Surjection(S, T)
  BY <1>1 DEF Surjection
<1>3. IsFiniteSet(T)
  <2> HIDE DEF T
  <2> QED BY <1>2, FS_Surjection
<1> QED BY <1>3

\* An injective function keeps the number of elements of a finite set.
LEMMA ImageCardinality ==
    ASSUME NEW S, IsFiniteSet(S), NEW f, DOMAIN f = S, f = [x \in S |-> f[x]],
           \A x, y \in S : f[x] = f[y] => x = y
    PROVE  Cardinality({f[x] : x \in S}) = Cardinality(S)
PROOF
<1> DEFINE T == {f[x] : x \in S}
<1>1. f \in [S -> T]
  OBVIOUS
<1>2. f \in Surjection(S, T)
  BY <1>1 DEF Surjection
<1>3. f \in Injection(S, T)
  <2> HIDE DEF T
  <2> QED BY <1>1 DEF Injection, IsInjective
<1>4. Cardinality(T) = Cardinality(S)
  <2> HIDE DEF T
  <2> QED BY <1>2, <1>3, FS_Surjection
<1> QED BY <1>4

\* The rows of a finite set can be numbered.
LEMMA NumberExists ==
    ASSUME NEW S, IsFiniteSet(S)
    PROVE  \E n \in [S -> 1 .. Cardinality(S)] : \A s1, s2 \in S : n[s1] = n[s2] => s1 = s2
PROOF
<1>1. ExistsBijection(S, 1 .. Cardinality(S))
  BY FS_CardinalityType, Fun_ExistsBijSymmetric
<1>2. PICK n : n \in Bijection(S, 1 .. Cardinality(S))
  BY <1>1 DEF ExistsBijection
<1>3. n \in [S -> 1 .. Cardinality(S)] /\ \A s1, s2 \in S : n[s1] = n[s2] => s1 = s2
  BY <1>2, Fun_BijectionProperties
<1> QED BY <1>3

\* A finite set of naturals that is not empty has a greatest element.
LEMMA GreatestExists ==
    ASSUME NEW R \in SUBSET Nat, IsFiniteSet(R), R # {}
    PROVE  \E r \in R : \A s \in R : s <= r
PROOF
<1> DEFINE Above(r) == {s \in R : r < s}
           Aboves == {Above(r) : r \in R}
<1>1. Aboves \subseteq FiniteSubsetsOf(R) /\ Aboves # {}
  <2>1. \A r \in R : Above(r) \subseteq R /\ IsFiniteSet(Above(r))
    <3> SUFFICES ASSUME NEW r \in R PROVE Above(r) \subseteq R /\ IsFiniteSet(Above(r))
      OBVIOUS
    <3>1. Above(r) \subseteq R
      OBVIOUS
    <3> HIDE DEF Above
    <3> QED BY <3>1, FS_Subset
  <2> HIDE DEF Above
  <2> QED BY <2>1 DEF FiniteSubsetsOf
<1>2. \E n \in Aboves : \A m \in Aboves : ~(<<m, n>> \in StrictSubsetOrdering(R))
  <2> HIDE DEF Aboves
  <2> QED BY <1>1, FS_StrictSubsetOrderingWellFounded, WFMin
<1>3. PICK r \in R : \A m \in Aboves : ~(<<m, Above(r)>> \in StrictSubsetOrdering(R))
  BY <1>2
<1>4. ASSUME NEW s \in R, ~(s <= r)
      PROVE  FALSE
  <2>1. s \in Above(r) /\ s \notin Above(s) /\ Above(s) \subseteq Above(r)
    <3>1. r \in Nat /\ s \in Nat /\ r < s /\ ~(s < s)
      BY <1>4
    <3>2. \A q \in R : s < q => r < q
      BY <3>1
    <3> QED BY <3>1, <3>2
  <2>2. Above(s) \in Aboves
    OBVIOUS
  <2>3. <<Above(s), Above(r)>> \in StrictSubsetOrdering(R)
    <3>1. Above(s) \subseteq R /\ Above(r) \subseteq R
      OBVIOUS
    <3> HIDE DEF Above
    <3> QED BY <2>1, <3>1 DEF StrictSubsetOrdering
  <2> QED BY <2>2, <2>3, <1>3
<1> QED BY <1>3, <1>4

\* MAX of values up to n.
LEMMA MaxOfBounds ==
    ASSUME NEW S, NEW n \in Nat, S \subseteq 0 .. n
    PROVE  /\ MaxOf(S) \in 0 .. n
           /\ S # {} => MaxOf(S) \in S
           /\ \A s \in S : s <= MaxOf(S)
PROOF
<1>1. CASE S = {}
  BY <1>1 DEF MaxOf
<1>2. CASE S # {}
  <2>1. IsFiniteSet(S) /\ S \in SUBSET Nat
    <3>1. IsFiniteSet(0 .. n)
      BY FS_Interval
    <3>2. IsFiniteSet(S)
      BY <3>1, FS_Subset
    <3> QED BY <3>2
  <2>2. \E m \in S : \A s \in S : s <= m
    BY <1>2, <2>1, GreatestExists
  <2>3. MaxOf(S) = CHOOSE m \in S : \A s \in S : s <= m
    BY <1>2 DEF MaxOf
  <2> QED BY <2>2, <2>3
<1> QED BY <1>1, <1>2

(***************************************************************************)
(* The clean layer.                                                        *)
(***************************************************************************)

\* The assumptions on the rows of the raw tables, by table.
LEMMA RowsFacts ==
    /\ Rows("customer") = CustomerEvents /\ Rows("address") = AddressEvents /\ Rows("sale") = Sales
    /\ IsFiniteSet(CustomerEvents) /\ IsFiniteSet(AddressEvents) /\ IsFiniteSet(Sales)
    /\ \A r \in CustomerEvents \cup AddressEvents \cup Sales :
          Run[r] \in Nat \ {0} /\ Time[r] \in Nat /\ 0 < Time[r] /\ Time[r] < EndOfTime
    /\ \A r \in CustomerEvents \cup Sales : CustomerId[r] \in Customers
    /\ EndOfTime \in Nat
    /\ Unknown \notin AddressEvents
PROOF
<1>1. Rows("customer") = CustomerEvents /\ Rows("address") = AddressEvents /\ Rows("sale") = Sales
  BY DEF Rows
<1>2. {"customer", "address", "sale"} = Tables
  BY DEF Tables
<1>3. IsFiniteSet(CustomerEvents) /\ IsFiniteSet(AddressEvents) /\ IsFiniteSet(Sales)
  BY <1>1, <1>2, DwhAssumption
<1> QED BY <1>1, <1>3, DwhAssumption

\* The tables of the clean layer hold raw rows, the Hudi ones one for a key.
LEMMA StoreFacts ==
    /\ StoreCustomer \subseteq Written("customer") /\ Written("customer") \subseteq CustomerEvents
    /\ StoreCustomerAddress \subseteq Written("address") /\ Written("address") \subseteq AddressEvents
    /\ Written("sale") \subseteq Sales
    /\ \A e \in CustomerEvents, f \in StoreCustomer :
          e \in StoreCustomer /\ CustomerId[e] = CustomerId[f] => e = f
    /\ \A x, y \in StoreCustomerAddress : AddressOf[x] = AddressOf[y] => x = y
PROOF
<1>1. /\ StoreCustomer \subseteq Written("customer") /\ Written("customer") \subseteq CustomerEvents
      /\ StoreCustomerAddress \subseteq Written("address") /\ Written("address") \subseteq AddressEvents
      /\ Written("sale") \subseteq Sales
  BY RowsFacts DEF StoreCustomer, StoreCustomerAddress, Latest, Written
<1>2. ASSUME NEW e \in StoreCustomer, NEW f \in StoreCustomer, CustomerId[e] = CustomerId[f]
      PROVE  e = f
  <2>1. Run[e] <= Run[f] /\ Run[f] <= Run[e]
    BY <1>2 DEF StoreCustomer, Latest
  <2>2. e \in CustomerEvents /\ f \in CustomerEvents
    BY <1>1
  <2>3. Run[e] = Run[f]
    <3>1. Run[e] \in Nat /\ Run[f] \in Nat
      BY <2>2, RowsFacts
    <3> QED BY <2>1, <3>1
  <2> QED BY <1>2, <2>2, <2>3, DwhAssumption
<1>3. ASSUME NEW x \in StoreCustomerAddress, NEW y \in StoreCustomerAddress, AddressOf[x] = AddressOf[y]
      PROVE  x = y
  <2>1. Run[x] <= Run[y] /\ Run[y] <= Run[x]
    BY <1>3 DEF StoreCustomerAddress, Latest
  <2>2. x \in AddressEvents /\ y \in AddressEvents
    BY <1>1
  <2>3. Run[x] = Run[y]
    <3>1. Run[x] \in Nat /\ Run[y] \in Nat
      BY <2>2, RowsFacts
    <3> QED BY <2>1, <3>1
  <2> QED BY <1>3, <2>2, <2>3, DwhAssumption
<1> QED BY <1>1, <1>2, <1>3
-----------------------------------------------------------------------------
(***************************************************************************)
(* Loading the dimension.                                                  *)
(***************************************************************************)

WorkRows == [load : Loads, event : CustomerEvents, address : AddressEvents \cup {Unknown}]

\* What Numbered makes of the rows it inserts.
Inserts == [row : WorkRows, from : 0 .. EndOfTime]

\* An address has a time, also the unknown one.
LEMMA AddressTimeType ==
    ASSUME NEW x \in AddressEvents \cup {Unknown}
    PROVE  AddressTime(x) \in 0 .. EndOfTime
BY RowsFacts DEF AddressTime

\* Numbered adds, for each row it is given, one version, that is current.
LEMMA NumberedFacts ==
    ASSUME NEW D, IsFiniteSet(D), NEW S, IsFiniteSet(S),
           \A s \in S : s.row \in WorkRows /\ s.from \in 0 .. EndOfTime
    PROVE  /\ Numbered(D, S) \subseteq Versions
           /\ IsFiniteSet(Numbered(D, S))
           /\ \A v \in Numbered(D, S) : \E s \in S : v.event = s.row.event /\ v.address = s.row.address
           /\ \A s \in S : \E v \in Numbered(D, S) : v.event = s.row.event
PROOF
<1> DEFINE isNumber(n) == \A s1, s2 \in S : n[s1] = n[s2] => s1 = s2
           number == CHOOSE n \in [S -> 1 .. Cardinality(S)] : isNumber(n)
           version == [s \in S |->
               [key |-> Cardinality(D) + number[s], event |-> s.row.event,
                address |-> s.row.address, from |-> s.from, to |-> EndOfTime, current |-> TRUE]]
<1>1. \E n \in [S -> 1 .. Cardinality(S)] : isNumber(n)
  BY NumberExists
<1>2. number \in [S -> 1 .. Cardinality(S)]
  <2> HIDE DEF isNumber
  <2> QED BY <1>1
<1>3. Numbered(D, S) = {version[s] : s \in S}
  BY DEF Numbered
<1>4. Cardinality(D) \in Nat /\ Cardinality(S) \in Nat
  BY FS_CardinalityType
<1> HIDE DEF number
<1>5. \A s \in S : version[s] \in Versions
  <2> SUFFICES ASSUME NEW s \in S PROVE version[s] \in Versions
    OBVIOUS
  <2>1. Cardinality(D) + number[s] \in Nat
    BY <1>2, <1>4
  <2>2. s.row.event \in CustomerEvents /\ s.row.address \in AddressEvents \cup {Unknown}
    BY DEF WorkRows
  <2>3. EndOfTime \in 0 .. EndOfTime
    BY RowsFacts
  <2> QED BY <2>1, <2>2, <2>3 DEF Versions
<1>6. \A s \in S : version[s].event = s.row.event /\ version[s].address = s.row.address
  OBVIOUS
<1>7. DOMAIN version = S /\ version = [s \in S |-> version[s]]
  OBVIOUS
<1> HIDE DEF version
<1>8. IsFiniteSet({version[s] : s \in S})
  BY <1>7, ImageFinite
<1> QED BY <1>3, <1>5, <1>6, <1>8

\* InsertNew only adds versions, those of rows of customers there are none of.
LEMMA InsertNewFacts ==
    ASSUME NEW D, D \subseteq Versions, IsFiniteSet(D),
           NEW W, W \subseteq WorkRows, IsFiniteSet(W)
    PROVE  /\ InsertNew(D, W) \subseteq Versions
           /\ IsFiniteSet(InsertNew(D, W))
           /\ D \subseteq InsertNew(D, W)
           /\ \A v \in InsertNew(D, W) \ D : \E w \in W : v.event = w.event
           /\ \A w \in W : VersionsOf(InsertNew(D, W), CustomerId[w.event]) # {}
PROOF
<1> DEFINE U == {u \in W : VersionsOf(D, CustomerId[u.event]) = {}}
           first == [w \in U |-> [row |-> w, from |-> Time[w.event]]]
           S == {[row |-> w, from |-> Time[w.event]] : w \in U}
<1>1. IsFiniteSet(S)
  <2>1. IsFiniteSet(U)
    BY FS_Subset
  <2>2. S = {first[w] : w \in U}
    OBVIOUS
  <2>3. DOMAIN first = U /\ first = [w \in U |-> first[w]]
    OBVIOUS
  <2> HIDE DEF first, U
  <2> QED BY <2>1, <2>2, <2>3, ImageFinite
<1>2. \A s \in S : s.row \in U /\ s.row \in WorkRows /\ s.from \in 0 .. EndOfTime
  <2> SUFFICES ASSUME NEW w \in U
               PROVE  w \in WorkRows /\ Time[w.event] \in 0 .. EndOfTime
    OBVIOUS
  <2>1. w \in WorkRows /\ w.event \in CustomerEvents
    BY DEF WorkRows
  <2>2. Time[w.event] \in Nat /\ Time[w.event] < EndOfTime /\ EndOfTime \in Nat
    BY <2>1, RowsFacts
  <2> QED BY <2>1, <2>2
<1>3. InsertNew(D, W) = D \cup Numbered(D, S)
  BY DEF InsertNew
<1>4. \A w \in U : \E s \in S : s.row = w
  <2> SUFFICES ASSUME NEW w \in U PROVE \E s \in S : s.row = w
    OBVIOUS
  <2>1. [row |-> w, from |-> Time[w.event]] \in S
    OBVIOUS
  <2> QED BY <2>1
<1>5. U \subseteq W /\ \A w \in W \ U : VersionsOf(D, CustomerId[w.event]) # {}
  OBVIOUS
<1> HIDE DEF S, U
<1>6. /\ Numbered(D, S) \subseteq Versions
      /\ IsFiniteSet(Numbered(D, S))
      /\ \A v \in Numbered(D, S) : \E s \in S : v.event = s.row.event /\ v.address = s.row.address
      /\ \A s \in S : \E v \in Numbered(D, S) : v.event = s.row.event
  BY <1>1, <1>2, NumberedFacts
<1>7. IsFiniteSet(D \cup Numbered(D, S))
  BY <1>6, FS_Union
<1>8. \A v \in Numbered(D, S) : \E w \in W : v.event = w.event
  BY <1>2, <1>5, <1>6
<1>9. ASSUME NEW w \in W
      PROVE  VersionsOf(InsertNew(D, W), CustomerId[w.event]) # {}
  <2>1. CASE w \in U
    <3>1. PICK v \in Numbered(D, S) : v.event = w.event
      BY <1>4, <1>6, <2>1
    <3> QED BY <1>3, <3>1 DEF VersionsOf
  <2>2. CASE w \notin U
    BY <1>3, <1>5, <2>2 DEF VersionsOf
  <2> QED BY <2>1, <2>2
<1> QED BY <1>3, <1>6, <1>7, <1>8, <1>9

\* Every version stays of its customer and gets an event of a row, or keeps its own.
LEMMA UpdateType1Facts ==
    ASSUME NEW D, D \subseteq Versions, IsFiniteSet(D), NEW W, W \subseteq WorkRows
    PROVE  /\ UpdateType1(D, W) \subseteq Versions
           /\ IsFiniteSet(UpdateType1(D, W))
           /\ \A v \in UpdateType1(D, W) : \E u \in D :
                 /\ CustomerId[v.event] = CustomerId[u.event]
                 /\ IF Changes(W, u) = {} THEN v.event = u.event ELSE v.event \in Changes(W, u)
           /\ \A u \in D : \E v \in UpdateType1(D, W) : CustomerId[v.event] = CustomerId[u.event]
PROOF
<1> DEFINE event(v) == IF Changes(W, v) = {} THEN v.event ELSE CHOOSE e \in Changes(W, v) : TRUE
           typed == [v \in D |-> [v EXCEPT !.event = event(v)]]
<1>1. UpdateType1(D, W) = {typed[v] : v \in D}
  BY DEF UpdateType1
<1>2. ASSUME NEW v \in D
      PROVE  /\ event(v) \in CustomerEvents /\ CustomerId[event(v)] = CustomerId[v.event]
             /\ IF Changes(W, v) = {} THEN event(v) = v.event ELSE event(v) \in Changes(W, v)
  <2>1. Changes(W, v) # {} => event(v) \in Changes(W, v)
    OBVIOUS
  <2>2. \A e \in Changes(W, v) : e \in CustomerEvents /\ CustomerId[e] = CustomerId[v.event]
    BY DEF Changes, Matches, WorkRows
  <2>3. v.event \in CustomerEvents
    BY DEF Versions
  <2> QED BY <2>1, <2>2, <2>3
<1> HIDE DEF event
<1>3. \A v \in D : typed[v] \in Versions /\ typed[v].event = event(v)
  BY <1>2 DEF Versions
<1>4. IsFiniteSet({typed[v] : v \in D})
  <2>1. DOMAIN typed = D /\ typed = [v \in D |-> typed[v]]
    OBVIOUS
  <2> HIDE DEF typed
  <2> QED BY <2>1, ImageFinite
<1> HIDE DEF typed
<1> QED BY <1>1, <1>2, <1>3, <1>4

\* Closing versions leaves their events alone.
LEMMA ClosePriorFacts ==
    ASSUME NEW D, D \subseteq Versions, IsFiniteSet(D), NEW W, W \subseteq WorkRows
    PROVE  /\ ClosePrior(D, W) \subseteq Versions
           /\ IsFiniteSet(ClosePrior(D, W))
           /\ \A v \in ClosePrior(D, W) : \E u \in D : v.event = u.event
           /\ \A u \in D : \E v \in ClosePrior(D, W) : v.event = u.event
PROOF
<1> DEFINE ends(v) == {AddressTime(w.address) : w \in Moves(D, W, v)}
           end(v) == CHOOSE t \in ends(v) : TRUE
           closed == [v \in D |-> IF Moves(D, W, v) = {} THEN v
                                  ELSE [v EXCEPT !.to = end(v), !.current = FALSE]]
<1>1. ClosePrior(D, W) = {closed[v] : v \in D}
  BY DEF ClosePrior
<1>2. ASSUME NEW v \in D, Moves(D, W, v) # {}
      PROVE  end(v) \in 0 .. EndOfTime
  <2>1. end(v) \in ends(v)
    BY <1>2
  <2>2. \A w \in Moves(D, W, v) : w.address \in AddressEvents \cup {Unknown}
    BY DEF Moves, WorkRows
  <2> QED BY <2>1, <2>2, AddressTimeType
<1> HIDE DEF end
<1>3. \A v \in D : closed[v] \in Versions /\ closed[v].event = v.event
  BY <1>2 DEF Versions
<1>4. IsFiniteSet({closed[v] : v \in D})
  <2>1. DOMAIN closed = D /\ closed = [v \in D |-> closed[v]]
    OBVIOUS
  <2> HIDE DEF closed
  <2> QED BY <2>1, ImageFinite
<1> HIDE DEF closed
<1> QED BY <1>1, <1>3, <1>4

\* InsertVersion only adds versions, those of rows.
LEMMA InsertVersionFacts ==
    ASSUME NEW D, D \subseteq Versions, IsFiniteSet(D),
           NEW W, W \subseteq WorkRows, IsFiniteSet(W)
    PROVE  /\ InsertVersion(D, W) \subseteq Versions
           /\ IsFiniteSet(InsertVersion(D, W))
           /\ D \subseteq InsertVersion(D, W)
           /\ \A v \in InsertVersion(D, W) \ D : \E w \in W : v.event = w.event
PROOF
<1> DEFINE next(w, v) == [row |-> w, from |-> AddressTime(w.address), prior |-> v.key]
           nexts == [p \in W \X D |-> next(p[1], p[2])]
           N == {nexts[p] : p \in W \X D}
           S == UNION {{next(w, v) : w \in Moves(D, W, v)} : v \in D}
<1>1. IsFiniteSet(N)
  <2>1. IsFiniteSet(W \X D)
    BY FS_Product
  <2>2. DOMAIN nexts = W \X D /\ nexts = [p \in W \X D |-> nexts[p]]
    OBVIOUS
  <2> HIDE DEF nexts
  <2> QED BY <2>1, <2>2, ImageFinite
<1>2. S \subseteq N
  <2>1. ASSUME NEW v \in D, NEW w \in Moves(D, W, v)
        PROVE  next(w, v) \in N
    <3>1. w \in W
      BY DEF Moves
    <3>2. <<w, v>> \in W \X D /\ nexts[<<w, v>>] = next(w, v)
      BY <3>1
    <3> HIDE DEF nexts, next
    <3> QED BY <3>2
  <2>2. \A s \in S : \E v \in D : \E w \in Moves(D, W, v) : s = next(w, v)
    <3> HIDE DEF next
    <3> QED OBVIOUS
  <2> HIDE DEF N, S, next
  <2> QED BY <2>1, <2>2
<1>3. IsFiniteSet(S)
  <2> HIDE DEF S, N
  <2> QED BY <1>1, <1>2, FS_Subset
<1>4. \A s \in S : s.row \in W /\ s.row \in WorkRows /\ s.from \in 0 .. EndOfTime
  <2> SUFFICES ASSUME NEW v \in D, NEW w \in Moves(D, W, v)
               PROVE  w \in W /\ w \in WorkRows /\ AddressTime(w.address) \in 0 .. EndOfTime
    OBVIOUS
  <2>1. w \in W /\ w \in WorkRows
    BY DEF Moves
  <2>2. w.address \in AddressEvents \cup {Unknown}
    BY <2>1 DEF WorkRows
  <2> QED BY <2>1, <2>2, AddressTimeType
<1>5. InsertVersion(D, W) = D \cup Numbered(D, S)
  BY DEF InsertVersion
<1> HIDE DEF S
<1>6. /\ Numbered(D, S) \subseteq Versions
      /\ IsFiniteSet(Numbered(D, S))
      /\ \A v \in Numbered(D, S) : \E s \in S : v.event = s.row.event /\ v.address = s.row.address
  BY <1>3, <1>4, NumberedFacts
<1>7. IsFiniteSet(D \cup Numbered(D, S))
  BY <1>6, FS_Union
<1>8. \A v \in Numbered(D, S) : \E w \in W : v.event = w.event
  BY <1>4, <1>6
<1> QED BY <1>5, <1>6, <1>7, <1>8

\* The five statements on customer_dim make versions out of versions, and
\* finitely many out of finitely many.
LEMMA LoadDimensionType ==
    ASSUME NEW D, D \subseteq Versions, IsFiniteSet(D),
           NEW W, W \subseteq WorkRows, IsFiniteSet(W)
    PROVE  LoadDimension(D, W) \subseteq Versions /\ IsFiniteSet(LoadDimension(D, W))
PROOF
<1>1. InsertNew(D, W) \subseteq Versions /\ IsFiniteSet(InsertNew(D, W))
  BY InsertNewFacts
<1>2. PICK T : T = UpdateType1(InsertNew(D, W), W)
  OBVIOUS
<1>3. T \subseteq Versions /\ IsFiniteSet(T)
  BY <1>1, <1>2, UpdateType1Facts
<1>4. ClosePrior(T, W) \subseteq Versions /\ IsFiniteSet(ClosePrior(T, W))
  BY <1>3, ClosePriorFacts
<1>5. LoadDimension(D, W) = InsertVersion(ClosePrior(T, W), W)
  BY <1>2 DEF LoadDimension
<1> QED BY <1>4, <1>5, InsertVersionFacts

\* Two rows of one customer carry one event.
Agree(W) == \A w1, w2 \in W : CustomerId[w1.event] = CustomerId[w2.event] => w1.event = w2.event

\* After a load every version of a customer with a row carries the row's event,
\* and every other version the event it had.
LEMMA LoadDimensionEvents ==
    ASSUME NEW D, D \subseteq Versions, IsFiniteSet(D),
           NEW W, W \subseteq WorkRows, IsFiniteSet(W), Agree(W)
    PROVE  /\ \A v \in LoadDimension(D, W), w \in W :
                 CustomerId[v.event] = CustomerId[w.event] => v.event = w.event
           /\ \A w \in W : VersionsOf(LoadDimension(D, W), CustomerId[w.event]) # {}
           /\ \A v \in LoadDimension(D, W) :
                 (\E w \in W : v.event = w.event) \/ (\E u \in D : v.event = u.event)
           /\ \A u \in D : VersionsOf(LoadDimension(D, W), CustomerId[u.event]) # {}
PROOF
<1>1. PICK N : N = InsertNew(D, W)
  OBVIOUS
<1>2. /\ N \subseteq Versions /\ IsFiniteSet(N) /\ D \subseteq N
      /\ \A v \in N \ D : \E w \in W : v.event = w.event
      /\ \A w \in W : VersionsOf(N, CustomerId[w.event]) # {}
  BY <1>1, InsertNewFacts
<1>3. PICK T : T = UpdateType1(N, W)
  OBVIOUS
<1>4. /\ T \subseteq Versions /\ IsFiniteSet(T)
      /\ \A v \in T : \E u \in N :
            /\ CustomerId[v.event] = CustomerId[u.event]
            /\ IF Changes(W, u) = {} THEN v.event = u.event ELSE v.event \in Changes(W, u)
      /\ \A u \in N : \E v \in T : CustomerId[v.event] = CustomerId[u.event]
  <2>1. /\ UpdateType1(N, W) \subseteq Versions
        /\ IsFiniteSet(UpdateType1(N, W))
        /\ \A v \in UpdateType1(N, W) : \E u \in N :
              /\ CustomerId[v.event] = CustomerId[u.event]
              /\ IF Changes(W, u) = {} THEN v.event = u.event ELSE v.event \in Changes(W, u)
        /\ \A u \in N : \E v \in UpdateType1(N, W) : CustomerId[v.event] = CustomerId[u.event]
    BY <1>2, UpdateType1Facts
  <2> QED BY <1>3, <2>1
<1>5. PICK C : C = ClosePrior(T, W)
  OBVIOUS
<1>6. /\ C \subseteq Versions /\ IsFiniteSet(C)
      /\ \A v \in C : \E u \in T : v.event = u.event
      /\ \A u \in T : \E v \in C : v.event = u.event
  BY <1>4, <1>5, ClosePriorFacts
<1>7. PICK L : L = LoadDimension(D, W)
  OBVIOUS
<1>8. L = InsertVersion(C, W)
  BY <1>1, <1>3, <1>5, <1>7 DEF LoadDimension
<1>9. C \subseteq L /\ \A v \in L \ C : \E w \in W : v.event = w.event
  BY <1>6, <1>8, InsertVersionFacts
<1>10. ASSUME NEW v \in T, NEW w \in W, CustomerId[v.event] = CustomerId[w.event]
       PROVE  v.event = w.event
  <2>1. PICK u \in N : /\ CustomerId[v.event] = CustomerId[u.event]
                       /\ IF Changes(W, u) = {} THEN v.event = u.event
                                                ELSE v.event \in Changes(W, u)
    BY <1>4
  <2>2. CASE Changes(W, u) = {}
    BY <1>10, <2>1, <2>2 DEF Changes, Matches
  <2>3. CASE Changes(W, u) # {}
    <3>1. PICK x \in W : v.event = x.event
      BY <2>1, <2>3 DEF Changes
    <3> QED BY <1>10, <3>1 DEF Agree
  <2> QED BY <2>2, <2>3
<1>11. \A v \in L, w \in W : CustomerId[v.event] = CustomerId[w.event] => v.event = w.event
  <2>1. \A v \in C, w \in W : CustomerId[v.event] = CustomerId[w.event] => v.event = w.event
    BY <1>6, <1>10
  <2>2. \A v \in L \ C, w \in W : CustomerId[v.event] = CustomerId[w.event] => v.event = w.event
    BY <1>9 DEF Agree
  <2> QED BY <2>1, <2>2
<1>12. \A u \in N : \E v \in L : CustomerId[v.event] = CustomerId[u.event]
  <2> SUFFICES ASSUME NEW u \in N PROVE \E v \in L : CustomerId[v.event] = CustomerId[u.event]
    OBVIOUS
  <2>1. PICK t \in T : CustomerId[t.event] = CustomerId[u.event]
    BY <1>4
  <2>2. PICK v \in C : v.event = t.event
    BY <1>6
  <2> QED BY <1>9, <2>1, <2>2
<1>13. \A v \in L : (\E w \in W : v.event = w.event) \/ (\E u \in D : v.event = u.event)
  <2>1. ASSUME NEW t \in T
        PROVE  (\E w \in W : t.event = w.event) \/ (\E u \in D : t.event = u.event)
    <3>1. PICK u \in N : IF Changes(W, u) = {} THEN t.event = u.event
                                              ELSE t.event \in Changes(W, u)
      BY <1>4
    <3>2. CASE Changes(W, u) = {}
      BY <1>2, <3>1, <3>2
    <3>3. CASE Changes(W, u) # {}
      BY <3>1, <3>3 DEF Changes
    <3> QED BY <3>2, <3>3
  <2>2. \A v \in C : (\E w \in W : v.event = w.event) \/ (\E u \in D : v.event = u.event)
    BY <1>6, <2>1
  <2> QED BY <1>9, <2>2
<1>14. \A w \in W : VersionsOf(L, CustomerId[w.event]) # {}
  <2> SUFFICES ASSUME NEW w \in W PROVE VersionsOf(L, CustomerId[w.event]) # {}
    OBVIOUS
  <2>1. PICK u \in N : CustomerId[u.event] = CustomerId[w.event]
    BY <1>2 DEF VersionsOf
  <2>2. PICK v \in L : CustomerId[v.event] = CustomerId[u.event]
    BY <1>12
  <2> QED BY <2>1, <2>2 DEF VersionsOf
<1>15. \A u \in D : VersionsOf(L, CustomerId[u.event]) # {}
  BY <1>2, <1>12 DEF VersionsOf
<1> QED BY <1>7, <1>11, <1>13, <1>14, <1>15

(***************************************************************************)
(* The rows a load selects.                                                *)
(***************************************************************************)

\* The work table has each customer event of a run after the mark, and no
\* row that is not in the clean layer.
LEMMA SelectedCustomersFacts ==
    ASSUME NEW l \in Loads
    PROVE  /\ SelectedCustomers(l) \subseteq WorkRows
           /\ IsFiniteSet(SelectedCustomers(l))
           /\ \A w \in SelectedCustomers(l) : w.event \in StoreCustomer
           /\ \A e \in StoreCustomer : Run[e] > mark[l].customerStart =>
                 \E w \in SelectedCustomers(l) : w.event = e
PROOF
<1> DEFINE P == CustomerEvents \X (AddressEvents \cup {Unknown})
           row == [p \in P |-> [load |-> l, event |-> p[1], address |-> p[2]]]
<1>1. IsFiniteSet({row[p] : p \in P})
  <2>1. IsFiniteSet(AddressEvents \cup {Unknown})
    BY RowsFacts, FS_AddElement
  <2>2. IsFiniteSet(P)
    BY <2>1, RowsFacts, FS_Product
  <2>3. DOMAIN row = P /\ row = [p \in P |-> row[p]]
    OBVIOUS
  <2> HIDE DEF row, P
  <2> QED BY <2>2, <2>3, ImageFinite
<1>2. SelectedCustomers(l) \subseteq {row[p] : p \in P}
  <2> SUFFICES ASSUME NEW w \in SelectedCustomers(l) PROVE \E p \in P : w = row[p]
    OBVIOUS
  <2>1. w \in [load : {l}, event : StoreCustomer, address : AddressEvents \cup {Unknown}]
    BY DEF SelectedCustomers
  <2>2. w.event \in CustomerEvents /\ w.address \in AddressEvents \cup {Unknown}
    BY <2>1, StoreFacts
  <2>3. <<w.event, w.address>> \in P /\ row[<<w.event, w.address>>] = w
    BY <2>1, <2>2
  <2> HIDE DEF row, P
  <2> QED BY <2>3
<1>3. IsFiniteSet(SelectedCustomers(l))
  <2> HIDE DEF row, P
  <2> QED BY <1>1, <1>2, FS_Subset
<1>4. /\ SelectedCustomers(l) \subseteq WorkRows
      /\ \A w \in SelectedCustomers(l) : w.event \in StoreCustomer
  BY StoreFacts DEF SelectedCustomers, WorkRows
<1>5. ASSUME NEW e \in StoreCustomer, Run[e] > mark[l].customerStart
      PROVE  \E w \in SelectedCustomers(l) : w.event = e
  <2>1. PICK x \in AddressEvents \cup {Unknown} : x \in AddressesOf(e)
    BY StoreFacts DEF AddressesOf
  <2> DEFINE w == [load |-> l, event |-> e, address |-> x]
  <2>2. w \in SelectedCustomers(l)
    BY <1>5, <2>1 DEF SelectedCustomers
  <2> QED BY <2>2
<1> QED BY <1>3, <1>4, <1>5

\* One row of a customer is selected.
LEMMA OneRowOfCustomer ==
    ASSUME NEW l \in Loads, NEW w1 \in SelectedCustomers(l), NEW w2 \in SelectedCustomers(l),
           CustomerId[w1.event] = CustomerId[w2.event]
    PROVE  w1 = w2
PROOF
<1>1. /\ w1 \in [load : {l}, event : StoreCustomer, address : AddressEvents \cup {Unknown}]
      /\ w2 \in [load : {l}, event : StoreCustomer, address : AddressEvents \cup {Unknown}]
      /\ w1.address \in AddressesOf(w1.event) /\ w2.address \in AddressesOf(w2.event)
  BY DEF SelectedCustomers
<1>2. w1.event = w2.event
  BY <1>1, StoreFacts
<1>3. w1.address = w2.address
  BY <1>1, <1>2, StoreFacts DEF AddressesOf
<1> QED BY <1>1, <1>2, <1>3

\* Rows of one customer in what a call selects say the same.
LEMMA SelectedAgree ==
    ASSUME NEW l \in Loads
    PROVE  Agree(SelectedCustomers(l))
BY OneRowOfCustomer DEF Agree

\* The work table has each sale after the mark, and none that is not in the
\* clean layer.
LEMMA SelectedSalesFacts ==
    ASSUME NEW l \in Loads, customerDim \subseteq Versions
    PROVE  /\ SelectedSales(l) \subseteq SaleRows
           /\ \A r \in SelectedSales(l) : r.sale \in Written("sale")
           /\ \A s \in Written("sale") : Time[s] > mark[l].saleStart =>
                 \E r \in SelectedSales(l) : r.sale = s
PROOF
<1> DEFINE keys(s) == {v.key : v \in {u \in VersionsOf(customerDim, CustomerId[s]) :
                                      u.from <= Time[s] /\ Time[s] < u.to}}
           keysOf(s) == IF keys(s) = {} THEN {UnknownKey} ELSE keys(s)
           selected == {r \in Written("sale") : Time[r] > mark[l].saleStart}
<1>1. ASSUME NEW s
      PROVE  keysOf(s) \subseteq Nat \cup {UnknownKey} /\ keysOf(s) # {}
  BY DEF VersionsOf, Versions
<1> HIDE DEF keys
<1>2. SelectedSales(l) = UNION {{[load |-> l, sale |-> s, customerKey |-> k] : k \in keysOf(s)} :
                                   s \in selected}
  BY DEF SelectedSales, keys
<1> HIDE DEF keysOf
<1>3. \A r \in SelectedSales(l) : \E s \in selected : \E k \in keysOf(s) :
          r = [load |-> l, sale |-> s, customerKey |-> k]
  BY <1>2
<1>4. \A s \in selected : \A k \in keysOf(s) :
          [load |-> l, sale |-> s, customerKey |-> k] \in SelectedSales(l)
  BY <1>2
<1>5. selected \subseteq Written("sale") /\ selected \subseteq Sales
  BY StoreFacts
<1>6. ASSUME NEW s \in selected
      PROVE  \E r \in SelectedSales(l) : r.sale = s
  <2>1. PICK k \in keysOf(s) : TRUE
    BY <1>1
  <2>2. [load |-> l, sale |-> s, customerKey |-> k] \in SelectedSales(l)
    BY <1>4
  <2> QED BY <2>2
<1>7. ASSUME NEW r \in SelectedSales(l)
      PROVE  r \in SaleRows /\ r.sale \in Written("sale")
  <2>1. PICK s \in selected : \E k \in keysOf(s) : r = [load |-> l, sale |-> s, customerKey |-> k]
    BY <1>3
  <2>2. PICK k \in keysOf(s) : r = [load |-> l, sale |-> s, customerKey |-> k]
    BY <2>1
  <2>3. k \in Nat \cup {UnknownKey}
    BY <1>1
  <2> HIDE DEF selected
  <2> QED BY <1>5, <2>2, <2>3 DEF SaleRows
<1> QED BY <1>6, <1>7
-----------------------------------------------------------------------------
(***************************************************************************)
(* Types, with what the keys of the dimension need: finite sets.           *)
(***************************************************************************)

TypeInv ==
    /\ TypeOK
    /\ IsFiniteSet(wrkCustomers) /\ IsFiniteSet(customerDim)
    /\ highWatermark["sale"] \in 0 .. EndOfTime

\* The mark a load reads is MAX over the runs committed.
LEMMA MaxOfRuns ==
    ASSUME TypeOK
    PROVE  /\ MaxOf({Run[e] : e \in StoreCustomer}) \in 0 .. runs["customer"]
           /\ MaxOf({Run[x] : x \in StoreCustomerAddress}) \in 0 .. runs["address"]
PROOF
<1>1. runs["customer"] \in Nat /\ runs["address"] \in Nat
  BY DEF TypeOK, Tables
<1>2. {Run[e] : e \in StoreCustomer} \subseteq 0 .. runs["customer"]
  <2> SUFFICES ASSUME NEW e \in StoreCustomer PROVE Run[e] \in 0 .. runs["customer"]
    OBVIOUS
  <2>1. e \in CustomerEvents /\ Run[e] <= runs["customer"]
    BY StoreFacts DEF Written
  <2> QED BY <1>1, <2>1, RowsFacts
<1>3. {Run[x] : x \in StoreCustomerAddress} \subseteq 0 .. runs["address"]
  <2> SUFFICES ASSUME NEW x \in StoreCustomerAddress PROVE Run[x] \in 0 .. runs["address"]
    OBVIOUS
  <2>1. x \in AddressEvents /\ Run[x] <= runs["address"]
    BY StoreFacts DEF Written
  <2> QED BY <1>1, <2>1, RowsFacts
<1> QED BY <1>1, <1>2, <1>3, MaxOfBounds

\* The mark it leaves for the sales.
LEMMA MaxOfTimes ==
    ASSUME NEW F, F \subseteq SaleRows
    PROVE  /\ MaxOf({Time[r.sale] : r \in F}) \in 0 .. EndOfTime
           /\ F # {} => \E r \in F : MaxOf({Time[q.sale] : q \in F}) = Time[r.sale]
           /\ \A r \in F : Time[r.sale] <= MaxOf({Time[q.sale] : q \in F})
PROOF
<1> DEFINE T == {Time[r.sale] : r \in F}
<1>1. T \subseteq 0 .. EndOfTime /\ EndOfTime \in Nat
  <2> SUFFICES ASSUME NEW r \in F PROVE Time[r.sale] \in 0 .. EndOfTime /\ EndOfTime \in Nat
    BY RowsFacts
  <2>1. r.sale \in Sales
    BY DEF SaleRows
  <2> QED BY <2>1, RowsFacts
<1>2. /\ MaxOf(T) \in 0 .. EndOfTime
      /\ T # {} => MaxOf(T) \in T
      /\ \A t \in T : t <= MaxOf(T)
  <2> HIDE DEF T
  <2> QED BY <1>1, MaxOfBounds
<1> QED BY <1>2

\* The types hold at first.
LEMMA InitTypeInv == Init => TypeInv
PROOF
<1> SUFFICES ASSUME Init PROVE TypeInv
  OBVIOUS
<1>1. TypeOK
  <2>1. NoMarks \in Marks
    BY RowsFacts DEF NoMarks, Marks
  <2>2. mark \in [Loads -> Marks] /\ at \in [Loads -> Steps]
    BY <2>1 DEF Init, Steps
  <2>3. runs \in [Tables -> Nat] /\ highWatermark \in [Tables -> Nat]
    BY DEF Init
  <2> QED BY <2>2, <2>3 DEF Init, TypeOK
<1>2. IsFiniteSet(wrkCustomers) /\ IsFiniteSet(customerDim)
  BY FS_EmptySet DEF Init
<1>3. highWatermark["sale"] \in 0 .. EndOfTime
  BY RowsFacts DEF Init, Tables
<1> QED BY <1>1, <1>2, <1>3 DEF TypeInv

\* What both calls that read marks share.
LEMMA MarkTypes ==
    ASSUME TypeInv, NEW l \in Loads
    PROVE  /\ mark[l] \in Marks /\ NoMarks \in Marks
           /\ highWatermark["customer"] \in Nat /\ highWatermark["address"] \in Nat
           /\ highWatermark["sale"] \in 0 .. EndOfTime
           /\ runs["customer"] \in Nat
PROOF
<1>1. EndOfTime \in Nat
  BY RowsFacts
<1> QED BY <1>1 DEF TypeInv, TypeOK, Tables, NoMarks, Marks

\* StartLoad keeps the types.
LEMMA StartType ==
    ASSUME TypeInv, NEW l \in Loads, StartLoad(l)
    PROVE  TypeInv'
PROOF
<1>1. PICK m \in 0 .. runs["customer"] : m = MaxOf({Run[e] : e \in StoreCustomer})
  BY MaxOfRuns DEF TypeInv
<1>2. mark' \in [Loads -> Marks]
  <2>1. [mark[l] EXCEPT !.customerStart = highWatermark["customer"],
                        !.addressStart = highWatermark["address"], !.customerEnd = m] \in Marks
    <3>1. m \in Nat
      BY MarkTypes
    <3> QED BY <3>1, MarkTypes DEF Marks
  <2>2. mark' = [mark EXCEPT ![l] =
           [mark[l] EXCEPT !.customerStart = highWatermark["customer"],
                           !.addressStart = highWatermark["address"], !.customerEnd = m]]
    BY <1>1 DEF StartLoad, TypeInv, TypeOK
  <2>3. mark \in [Loads -> Marks]
    BY DEF TypeInv, TypeOK
  <2> QED BY <2>1, <2>2, <2>3
<1>3. at' \in [Loads -> Steps] /\ overlapped' \in BOOLEAN
  BY DEF StartLoad, TypeInv, TypeOK, Steps
<1> QED BY <1>2, <1>3 DEF StartLoad, TypeInv, TypeOK, tableVars

\* TruncateWork keeps them.
LEMMA TruncateType ==
    ASSUME TypeInv, NEW l \in Loads, TruncateWork(l)
    PROVE  TypeInv'
PROOF
<1>1. PICK m \in 0 .. runs["address"] : m = MaxOf({Run[x] : x \in StoreCustomerAddress})
  BY MaxOfRuns DEF TypeInv
<1>2. mark' \in [Loads -> Marks]
  <2>1. m \in Nat
    BY DEF TypeInv, TypeOK, Tables
  <2>2. [mark[l] EXCEPT !.addressEnd = m] \in Marks
    BY <2>1, MarkTypes DEF Marks
  <2>3. mark' = [mark EXCEPT ![l] = [mark[l] EXCEPT !.addressEnd = m]]
    BY <1>1 DEF TruncateWork, TypeInv, TypeOK
  <2>4. mark \in [Loads -> Marks]
    BY DEF TypeInv, TypeOK
  <2> QED BY <2>2, <2>3, <2>4
<1>3. at' \in [Loads -> Steps] /\ IsFiniteSet(wrkCustomers')
  BY FS_EmptySet DEF TruncateWork, TypeInv, TypeOK, Steps
<1> QED BY <1>2, <1>3 DEF TruncateWork, TypeInv, TypeOK

\* LoadCustomerDim keeps them.
LEMMA CustomersType ==
    ASSUME TypeInv, NEW l \in Loads, LoadCustomerDim(l)
    PROVE  TypeInv'
PROOF
<1> DEFINE W == wrkCustomers \cup SelectedCustomers(l)
<1>1. W \subseteq WorkRows /\ IsFiniteSet(W)
  <2>1. wrkCustomers \subseteq WorkRows
    BY DEF TypeInv, TypeOK, WorkRows
  <2> QED BY <2>1, SelectedCustomersFacts, FS_Union DEF TypeInv
<1>2. wrkCustomers' = W /\ customerDim' = LoadDimension(customerDim, W)
  BY DEF LoadCustomerDim
<1>3. customerDim' \subseteq Versions /\ IsFiniteSet(customerDim')
  <2> HIDE DEF W
  <2> QED BY <1>1, <1>2, LoadDimensionType DEF TypeInv, TypeOK
<1>4. mark' \in [Loads -> Marks]
  <2>1. [mark[l] EXCEPT !.saleStart = highWatermark["sale"]] \in Marks
    BY MarkTypes DEF Marks
  <2>2. mark' = [mark EXCEPT ![l] = [mark[l] EXCEPT !.saleStart = highWatermark["sale"]]]
    BY DEF LoadCustomerDim, TypeInv, TypeOK
  <2>3. mark \in [Loads -> Marks]
    BY DEF TypeInv, TypeOK
  <2> QED BY <2>1, <2>2, <2>3
<1>5. highWatermark' \in [Tables -> Nat] /\ highWatermark'["sale"] = highWatermark["sale"]
  <2>1. mark[l].customerEnd \in Nat /\ mark[l].addressEnd \in Nat
    BY MarkTypes DEF Marks
  <2>2. highWatermark \in [Tables -> Nat]
    BY DEF TypeInv, TypeOK
  <2> QED BY <2>1, <2>2 DEF LoadCustomerDim, NewMark, Tables
<1>6. /\ at' \in [Loads -> Steps] /\ wrkSales' = {}
      /\ runs' = runs /\ saleFact' = saleFact /\ overlapped' = overlapped
  BY DEF LoadCustomerDim, TypeInv, TypeOK, Steps
<1> HIDE DEF W
<1> QED BY <1>1, <1>2, <1>3, <1>4, <1>5, <1>6 DEF TypeInv, TypeOK, WorkRows

\* The sales that LoadSaleFact leaves in the fact table.
LEMMA LoadedSales ==
    ASSUME TypeInv, NEW l \in Loads, LoadSaleFact(l)
    PROVE  /\ wrkSales' = wrkSales \cup SelectedSales(l)
           /\ wrkSales' \subseteq SaleRows /\ saleFact' \subseteq SaleRows
           /\ saleFact' \subseteq saleFact \cup wrkSales' /\ wrkSales' \subseteq saleFact'
           /\ \A r \in saleFact : \E q \in saleFact' : q.sale = r.sale
           /\ highWatermark' = [highWatermark EXCEPT !["sale"] =
                                   NewMark(@, MaxOf({Time[r.sale] : r \in saleFact'}))]
PROOF
<1> DEFINE W == wrkSales \cup SelectedSales(l)
           F == {r \in saleFact : \A w \in W : w.sale # r.sale} \cup W
<1>1. wrkSales' = W /\ saleFact' = F
  BY DEF LoadSaleFact
<1>2. highWatermark' = [highWatermark EXCEPT !["sale"] =
                          NewMark(@, MaxOf({Time[r.sale] : r \in saleFact'}))]
  BY DEF LoadSaleFact
<1>3. W \subseteq SaleRows
  BY SelectedSalesFacts DEF TypeInv, TypeOK
<1>4. F \subseteq SaleRows
  BY <1>3 DEF TypeInv, TypeOK
<1>5. \A r \in saleFact : \E q \in F : q.sale = r.sale
  OBVIOUS
<1> QED BY <1>1, <1>2, <1>3, <1>4, <1>5

\* LoadSaleFact keeps them.
LEMMA SalesType ==
    ASSUME TypeInv, NEW l \in Loads, LoadSaleFact(l)
    PROVE  TypeInv'
PROOF
<1>1. PICK m \in 0 .. EndOfTime : m = MaxOf({Time[r.sale] : r \in saleFact'})
  BY LoadedSales, MaxOfTimes
<1>2. highWatermark' \in [Tables -> Nat] /\ highWatermark'["sale"] \in 0 .. EndOfTime
  <2>1. highWatermark' = [highWatermark EXCEPT !["sale"] = NewMark(@, m)]
    BY <1>1, LoadedSales
  <2>2. highWatermark \in [Tables -> Nat] /\ highWatermark["sale"] \in 0 .. EndOfTime
    BY DEF TypeInv, TypeOK
  <2> QED BY <2>1, <2>2 DEF NewMark, Tables
<1>3. mark' \in [Loads -> Marks]
  <2>1. mark' = [mark EXCEPT ![l] = NoMarks]
    BY DEF LoadSaleFact
  <2> QED BY <2>1, MarkTypes DEF TypeInv, TypeOK
<1>4. /\ at' \in [Loads -> Steps] /\ runs' = runs /\ overlapped' = overlapped
      /\ wrkCustomers' = wrkCustomers /\ customerDim' = customerDim
  BY DEF LoadSaleFact, TypeInv, TypeOK, Steps
<1> QED BY <1>2, <1>3, <1>4, LoadedSales DEF TypeInv, TypeOK

\* Every step keeps them.
LEMMA NextTypeInv == TypeInv /\ [Next]_vars => TypeInv'
PROOF
<1> SUFFICES ASSUME TypeInv, [Next]_vars PROVE TypeInv'
  OBVIOUS
<1>1. ASSUME NEW t \in Tables, CommitRun(t)
      PROVE  TypeInv'
  BY <1>1 DEF CommitRun, TypeInv, TypeOK, tableVars
<1>2. ASSUME NEW l \in Loads, Fail(l)
      PROVE  TypeInv'
  <2>1. mark' \in [Loads -> Marks]
    BY <1>2, MarkTypes DEF Fail, TypeInv, TypeOK
  <2>2. at' \in [Loads -> Steps]
    BY <1>2 DEF Fail, TypeInv, TypeOK, Steps
  <2> QED BY <1>2, <2>1, <2>2 DEF Fail, TypeInv, TypeOK, tableVars
<1>3. CASE UNCHANGED vars
  BY <1>3 DEF vars, tableVars, TypeInv, TypeOK
<1> QED BY <1>1, <1>2, <1>3, StartType, TruncateType, CustomersType, SalesType DEF Next

\* The types hold in every state of every behaviour.
THEOREM TypeInvariance == Spec => []TypeInv
PROOF
<1> QED BY InitTypeInv, NextTypeInv, PTL DEF Spec

\* Every variable keeps to the values the code can give it.
THEOREM TypeCorrect == Spec => []TypeOK
PROOF
<1>1. TypeInv => TypeOK
  BY DEF TypeInv
<1> QED BY <1>1, TypeInvariance, PTL
-----------------------------------------------------------------------------
(***************************************************************************)
(* The sales.  The mark is the time of a sale that has been loaded, and a  *)
(* call reads it before it selects: a sale that is not above the mark of   *)
(* the call is in the fact table already.                                  *)
(***************************************************************************)

\* A later run brings later sales.
SalesInOrder == \A s, r \in Sales : Run[s] < Run[r] => Time[s] < Time[r]

SaleInv ==
    /\ \A r \in saleFact \cup wrkSales : r.sale \in Written("sale")
    /\ highWatermark["sale"] = 0 \/ \E r \in saleFact : Time[r.sale] = highWatermark["sale"]
    /\ \A l \in Loads : at[l] = "sales" => mark[l].saleStart <= highWatermark["sale"]
    /\ NoSaleSkipped

\* A sale that a Glue run commits is after every mark, for sales come in the
\* order of their times.
LEMMA CommitSaleInv ==
    ASSUME SalesInOrder, TypeInv, SaleInv, NEW t \in Tables, CommitRun(t)
    PROVE  SaleInv'
PROOF
<1>1. /\ runs["sale"] \in Nat /\ runs'["sale"] \in Nat /\ runs["sale"] <= runs'["sale"]
      /\ UNCHANGED <<at, mark, highWatermark, wrkSales, saleFact>>
  BY DEF CommitRun, TypeInv, TypeOK, Tables, tableVars
<1>2. \A s \in Sales : Run[s] \in Nat /\ Time[s] \in Nat /\ 0 < Time[s]
  BY RowsFacts
<1>3. \A s : s \in Written("sale") <=> s \in Sales /\ Run[s] <= runs["sale"]
  BY RowsFacts DEF Written
<1>4. \A s : s \in Written("sale")' <=> s \in Sales /\ Run[s] <= runs'["sale"]
  BY RowsFacts DEF Written
<1>5. Written("sale") \subseteq Written("sale")'
  <2> SUFFICES ASSUME NEW s \in Written("sale") PROVE s \in Written("sale")'
    OBVIOUS
  <2>1. s \in Sales /\ Run[s] <= runs["sale"] /\ Run[s] \in Nat
    BY <1>2, <1>3
  <2> QED BY <1>1, <1>4, <2>1
<1>6. ASSUME NEW s \in Written("sale")', Time[s] <= highWatermark["sale"]
      PROVE  s \in Written("sale")
  <2>1. s \in Sales /\ Run[s] \in Nat /\ Time[s] \in Nat /\ 0 < Time[s]
    BY <1>2, <1>4
  <2>2. highWatermark["sale"] \in Nat
    BY DEF TypeInv, TypeOK, Tables
  <2>3. PICK r \in saleFact : Time[r.sale] = highWatermark["sale"]
    BY <1>6, <2>1, <2>2 DEF SaleInv
  <2>4. r.sale \in Sales /\ Run[r.sale] \in Nat /\ Run[r.sale] <= runs["sale"]
    BY <1>2, <1>3 DEF SaleInv
  <2>5. ~(Run[r.sale] < Run[s])
    BY <1>6, <2>1, <2>2, <2>3, <2>4 DEF SalesInOrder
  <2> QED BY <1>1, <1>3, <2>1, <2>4, <2>5
<1>7. NoSaleSkipped'
  <2>1. \A s \in Written("sale")' : Time[s] <= highWatermark["sale"] => \E r \in saleFact : r.sale = s
    BY <1>6 DEF SaleInv, NoSaleSkipped
  <2> QED BY <1>1, <2>1 DEF NoSaleSkipped
<1> QED BY <1>1, <1>5, <1>7 DEF SaleInv

\* A new mark is not past a sale that has not been loaded.
LEMMA LoadSaleInv ==
    ASSUME TypeInv, SaleInv, NEW l \in Loads, LoadSaleFact(l)
    PROVE  SaleInv'
PROOF
<1>1. PICK M : M = MaxOf({Time[r.sale] : r \in saleFact'})
  OBVIOUS
<1>2. /\ M \in Nat
      /\ saleFact' # {} => \E r \in saleFact' : M = Time[r.sale]
      /\ \A r \in saleFact' : Time[r.sale] <= M
  <2>1. EndOfTime \in Nat
    BY RowsFacts
  <2>2. saleFact' \subseteq SaleRows
    BY LoadedSales
  <2>3. MaxOf({Time[r.sale] : r \in saleFact'}) \in 0 .. EndOfTime
    BY <2>2, MaxOfTimes
  <2>4. saleFact' # {} => \E r \in saleFact' : MaxOf({Time[q.sale] : q \in saleFact'}) = Time[r.sale]
    BY <2>2, MaxOfTimes
  <2>5. \A r \in saleFact' : Time[r.sale] <= MaxOf({Time[q.sale] : q \in saleFact'})
    BY <2>2, MaxOfTimes
  <2>6. M \in Nat
    BY <1>1, <2>1, <2>3
  <2>7. saleFact' # {} => \E r \in saleFact' : M = Time[r.sale]
    BY <1>1, <2>4
  <2>8. \A r \in saleFact' : Time[r.sale] <= M
    BY <1>1, <2>5
  <2> QED BY <2>6, <2>7, <2>8
<1>3. PICK old \in Nat, new \in Nat : old = highWatermark["sale"] /\ new = highWatermark'["sale"]
  BY NextTypeInv DEF Next, TypeInv, TypeOK, Tables
<1>4. new = IF M = 0 THEN old ELSE M
  BY <1>1, <1>3, LoadedSales DEF NewMark, TypeInv, TypeOK, Tables
<1>5. at[l] = "sales" /\ runs' = runs /\ at' = [at EXCEPT ![l] = "finished"]
      /\ mark' = [mark EXCEPT ![l] = NoMarks]
  BY DEF LoadSaleFact
<1>6. Written("sale")' = Written("sale")
  BY <1>5 DEF Written, Rows
<1>7. \A r \in saleFact' \cup wrkSales' : r.sale \in Written("sale")
  BY LoadedSales, SelectedSalesFacts DEF SaleInv, TypeInv, TypeOK
<1>8. \A r \in saleFact' : r.sale \in Sales /\ Time[r.sale] \in Nat /\ 0 < Time[r.sale]
  BY <1>7, StoreFacts, RowsFacts
<1>9. old <= new
  <2>1. CASE old = 0
    BY <1>3, <2>1
  <2>2. CASE old # 0
    <3>1. PICK r \in saleFact : Time[r.sale] = old
      BY <1>3, <2>2 DEF SaleInv
    <3>2. PICK q \in saleFact' : q.sale = r.sale
      BY LoadedSales
    <3> QED BY <1>2, <1>4, <3>1, <3>2
  <2> QED BY <2>1, <2>2
<1>10. new = 0 \/ \E r \in saleFact' : Time[r.sale] = new
  <2>1. CASE M = 0
    <3>1. saleFact' = {}
      BY <1>2, <1>8, <2>1
    <3>2. saleFact = {}
      BY <3>1, LoadedSales
    <3> QED BY <1>3, <1>4, <2>1, <3>2 DEF SaleInv
  <2>2. CASE M # 0
    <3>1. {Time[r.sale] : r \in saleFact'} # {}
      BY <1>1, <2>2 DEF MaxOf
    <3> QED BY <1>2, <1>4, <2>2, <3>1
  <2> QED BY <2>1, <2>2
<1>11. ASSUME NEW k \in Loads, at'[k] = "sales"
       PROVE  mark'[k].saleStart <= new
  <2>1. k # l /\ at[k] = "sales" /\ mark'[k] = mark[k]
    BY <1>5, <1>11 DEF TypeInv, TypeOK
  <2>2. mark[k].saleStart <= old /\ mark[k].saleStart \in 0 .. EndOfTime
    BY <1>3, <2>1 DEF SaleInv, TypeInv, TypeOK, Marks
  <2> QED BY <1>9, <2>1, <2>2, RowsFacts
<1>12. ASSUME NEW s \in Written("sale"), Time[s] <= new
       PROVE  \E r \in saleFact' : r.sale = s
  <2>1. Time[s] \in Nat
    BY StoreFacts, RowsFacts
  <2>2. mark[l].saleStart \in Nat /\ mark[l].saleStart <= old
    BY <1>3, <1>5, RowsFacts DEF SaleInv, TypeInv, TypeOK, Marks
  <2>3. CASE Time[s] > mark[l].saleStart
    <3>1. PICK r \in SelectedSales(l) : r.sale = s
      BY <2>3, SelectedSalesFacts DEF TypeInv, TypeOK
    <3> QED BY <3>1, LoadedSales
  <2>4. CASE Time[s] <= mark[l].saleStart
    <3>1. Time[s] <= old
      BY <2>1, <2>2, <2>4
    <3>2. PICK r \in saleFact : r.sale = s
      BY <1>3, <3>1 DEF SaleInv, NoSaleSkipped
    <3> QED BY <3>2, LoadedSales
  <2> QED BY <2>1, <2>2, <2>3, <2>4
<1>13. NoSaleSkipped'
  BY <1>3, <1>6, <1>12 DEF NoSaleSkipped
<1> QED BY <1>3, <1>6, <1>7, <1>10, <1>11, <1>13 DEF SaleInv

\* Every step keeps the invariant of the sales.
LEMMA NextSaleInv ==
    ASSUME SalesInOrder, TypeInv, SaleInv, [Next]_vars
    PROVE  SaleInv'
PROOF
<1>1. ASSUME UNCHANGED <<runs, wrkSales, saleFact>>, highWatermark'["sale"] = highWatermark["sale"],
             \A l \in Loads : at'[l] = "sales" => mark'[l].saleStart <= highWatermark["sale"]
      PROVE  SaleInv'
  BY <1>1 DEF SaleInv, NoSaleSkipped, Written, Rows
<1>2. ASSUME NEW l \in Loads, StartLoad(l) \/ TruncateWork(l) \/ Fail(l)
      PROVE  SaleInv'
  <2>1. \A k \in Loads : at'[k] = "sales" => at[k] = "sales" /\ k # l
    BY <1>2 DEF StartLoad, TruncateWork, Fail, TypeInv, TypeOK
  <2>2. \A k \in Loads \ {l} : mark'[k] = mark[k]
    BY <1>2 DEF StartLoad, TruncateWork, Fail, TypeInv, TypeOK
  <2>3. UNCHANGED <<runs, wrkSales, saleFact, highWatermark>>
    BY <1>2 DEF StartLoad, TruncateWork, Fail, tableVars
  <2> QED BY <1>1, <2>1, <2>2, <2>3 DEF SaleInv
<1>3. ASSUME NEW l \in Loads, LoadCustomerDim(l)
      PROVE  SaleInv'
  <2>1. /\ UNCHANGED <<runs, saleFact>> /\ wrkSales' = {}
        /\ highWatermark'["sale"] = highWatermark["sale"]
    BY <1>3 DEF LoadCustomerDim, TypeInv, TypeOK, Tables
  <2>2. ASSUME NEW k \in Loads, at'[k] = "sales"
        PROVE  mark'[k].saleStart <= highWatermark["sale"]
    <3>1. mark' = [mark EXCEPT ![l] = [mark[l] EXCEPT !.saleStart = highWatermark["sale"]]]
      BY <1>3 DEF LoadCustomerDim, TypeInv, TypeOK
    <3>2. CASE k = l
      <4>1. mark'[k].saleStart = highWatermark["sale"] /\ highWatermark["sale"] \in Nat
        BY <3>1, <3>2 DEF TypeInv, TypeOK, Marks, Tables
      <4> QED BY <4>1
    <3>3. CASE k # l
      <4>1. mark'[k] = mark[k] /\ at[k] = "sales"
        BY <1>3, <2>2, <3>1, <3>3 DEF LoadCustomerDim, TypeInv, TypeOK
      <4> QED BY <4>1 DEF SaleInv
    <3> QED BY <3>2, <3>3
  <2>3. Written("sale")' = Written("sale")
    BY <2>1 DEF Written, Rows
  <2> QED BY <2>1, <2>2, <2>3 DEF SaleInv, NoSaleSkipped
<1>4. CASE UNCHANGED vars
  <2>1. UNCHANGED <<runs, wrkSales, saleFact, highWatermark, at, mark>>
    BY <1>4 DEF vars, tableVars
  <2> QED BY <1>1, <2>1 DEF SaleInv
<1> QED BY <1>2, <1>3, <1>4, CommitSaleInv, LoadSaleInv DEF Next

\* No sale is skipped, while sales come in the order of their times, however many
\* calls overlap or fail.
THEOREM SalesNotSkipped == ASSUME SalesInOrder PROVE Spec => []NoSaleSkipped
PROOF
<1>1. Init => SaleInv
  <2> SUFFICES ASSUME Init PROVE SaleInv
    OBVIOUS
  <2>1. /\ runs["sale"] = 0 /\ highWatermark["sale"] = 0 /\ saleFact = {} /\ wrkSales = {}
        /\ \A l \in Loads : at[l] = "scheduled"
    BY DEF Init, Tables
  <2>2. \A s \in Sales : Run[s] \in Nat \ {0}
    BY RowsFacts
  <2>3. Written("sale") = {}
    BY <2>1, <2>2, RowsFacts DEF Written
  <2> QED BY <2>1, <2>3 DEF SaleInv, NoSaleSkipped
<1>2. TypeInv /\ SaleInv /\ [Next]_vars => SaleInv'
  BY NextSaleInv
<1>3. SaleInv => NoSaleSkipped
  BY DEF SaleInv
<1> QED BY <1>1, <1>2, <1>3, TypeInvariance, PTL DEF Spec
-----------------------------------------------------------------------------
(***************************************************************************)
(* The customers, when calls do not overlap.  A call that selects rows     *)
(* finds the work table empty and the mark where it read it, so the rows   *)
(* it does not select are those whose customers are loaded already.        *)
(***************************************************************************)

CustomerInv ==
    /\ \A l, k \in Running : l = k
    /\ \A l \in Loads : at[l] = "customers" => wrkCustomers = {}
    /\ \A l \in Loads : at[l] \in {"truncate", "customers"} =>
          /\ mark[l].customerStart = highWatermark["customer"]
          /\ mark[l].customerEnd <= runs["customer"]
    /\ highWatermark["customer"] <= runs["customer"]
    /\ NoCustomerSkipped

\* A call that starts alone takes as its new mark the last run that it may read.
LEMMA StartCustomerInv ==
    ASSUME TypeInv, CustomerInv, NEW l \in Loads, StartLoad(l), Running = {}
    PROVE  CustomerInv'
PROOF
<1>1. PICK m \in 0 .. runs["customer"] : m = MaxOf({Run[e] : e \in StoreCustomer})
  BY MaxOfRuns DEF TypeInv
<1>2. /\ UNCHANGED <<runs, highWatermark, wrkCustomers, customerDim>>
      /\ at' = [at EXCEPT ![l] = "truncate"]
  BY DEF StartLoad, tableVars
<1>3. \A k \in Loads : at[k] \notin {"truncate", "customers", "sales"}
  BY DEF Running
<1>4. \A k \in Loads : at'[k] \in {"truncate", "customers", "sales"} => k = l
  BY <1>2, <1>3 DEF TypeInv, TypeOK
<1>5. at'[l] = "truncate"
  BY <1>2 DEF TypeInv, TypeOK
<1>6. mark'[l].customerStart = highWatermark["customer"] /\ mark'[l].customerEnd = m
  BY <1>1 DEF StartLoad, TypeInv, TypeOK, Marks
<1>7. m <= runs["customer"]
  BY MarkTypes
<1>8. NoCustomerSkipped'
  BY <1>2 DEF CustomerInv, NoCustomerSkipped, StoreCustomer, Latest, Written, VersionsOf, Rows
<1>9. \A j, k \in Running' : j = k
  BY <1>4 DEF Running
<1> QED BY <1>2, <1>4, <1>5, <1>6, <1>7, <1>8, <1>9 DEF CustomerInv

\* TRUNCATE leaves a work table that agrees with anything.
LEMMA TruncateCustomerInv ==
    ASSUME TypeInv, CustomerInv, NEW l \in Loads, TruncateWork(l)
    PROVE  CustomerInv'
PROOF
<1>1. PICK m : m = MaxOf({Run[x] : x \in StoreCustomerAddress})
  OBVIOUS
<1>2. /\ UNCHANGED <<runs, highWatermark, customerDim>> /\ wrkCustomers' = {}
      /\ at' = [at EXCEPT ![l] = "customers"] /\ at[l] = "truncate"
      /\ mark' = [mark EXCEPT ![l] = [mark[l] EXCEPT !.addressEnd = m]]
  BY <1>1 DEF TruncateWork, TypeInv, TypeOK
<1>3. \A k \in Loads : /\ mark'[k].customerStart = mark[k].customerStart
                       /\ mark'[k].customerEnd = mark[k].customerEnd
  BY <1>2 DEF TypeInv, TypeOK, Marks
<1>4. Running' = Running
  BY <1>2 DEF Running, TypeInv, TypeOK
<1>5. \A k \in Loads : at'[k] \in {"truncate", "customers"} => at[k] \in {"truncate", "customers"}
  BY <1>2 DEF TypeInv, TypeOK
<1>6. NoCustomerSkipped'
  BY <1>2 DEF CustomerInv, NoCustomerSkipped, StoreCustomer, Latest, Written, VersionsOf, Rows
<1> QED BY <1>2, <1>3, <1>4, <1>5, <1>6 DEF CustomerInv

\* A Glue run is after every mark that has been taken.
LEMMA CommitCustomerInv ==
    ASSUME TypeInv, CustomerInv, NEW t \in Tables, CommitRun(t)
    PROVE  CustomerInv'
PROOF
<1>1. PICK now \in Nat, next \in Nat :
         now = runs["customer"] /\ next = runs'["customer"] /\ now <= next
  BY DEF CommitRun, TypeInv, TypeOK, Tables
<1>2. UNCHANGED <<at, mark, highWatermark, wrkCustomers, customerDim>>
  BY DEF CommitRun, tableVars
<1>3. PICK seen \in Nat : seen = highWatermark["customer"] /\ seen <= now
  BY <1>1, MarkTypes DEF CustomerInv, TypeInv, TypeOK, Tables
<1>4. ASSUME NEW e \in StoreCustomer', Run[e] <= seen
      PROVE  e \in StoreCustomer
  <2>1. \A q : /\ q \in Written("customer") <=> q \in CustomerEvents /\ Run[q] <= now
               /\ q \in Written("customer")' <=> q \in CustomerEvents /\ Run[q] <= next
    BY <1>1, RowsFacts DEF Written
  <2>2. e \in Written("customer")' /\ \A q \in Written("customer")' : CustomerId[q] = CustomerId[e] => Run[q] <= Run[e]
    BY <1>4 DEF StoreCustomer, Latest
  <2>3. e \in Written("customer")
    BY <1>3, <1>4, <2>1, <2>2, RowsFacts
  <2>4. Written("customer") \subseteq Written("customer")'
    <3> SUFFICES ASSUME NEW q \in Written("customer") PROVE q \in Written("customer")'
      OBVIOUS
    <3>1. q \in CustomerEvents /\ Run[q] <= now /\ Run[q] \in Nat
      BY <2>1, RowsFacts
    <3> QED BY <1>1, <2>1, <3>1
  <2> QED BY <2>2, <2>3, <2>4 DEF StoreCustomer, Latest
<1>5. NoCustomerSkipped'
  BY <1>2, <1>3, <1>4 DEF CustomerInv, NoCustomerSkipped, VersionsOf
<1>6. ASSUME NEW l \in Loads, at[l] \in {"truncate", "customers"}
      PROVE  mark[l].customerEnd <= next
  <2>1. mark[l].customerEnd <= now /\ mark[l].customerEnd \in Nat
    BY <1>1, <1>6 DEF CustomerInv, TypeInv, TypeOK, Marks
  <2> QED BY <1>1, <2>1
<1>7. seen <= next
  BY <1>1, <1>3
<1> QED BY <1>1, <1>2, <1>3, <1>5, <1>6, <1>7 DEF CustomerInv, Running

\* A call stores its mark with the rows up to it.
LEMMA LoadCustomerInv ==
    ASSUME TypeInv, CustomerInv, NEW l \in Loads, LoadCustomerDim(l)
    PROVE  CustomerInv'
PROOF
<1>1. PICK W : W = SelectedCustomers(l)
  OBVIOUS
<1>2. PICK D : D = LoadDimension(customerDim, W)
  OBVIOUS
<1>3. at[l] = "customers" /\ wrkCustomers = {}
  BY DEF LoadCustomerDim, CustomerInv
<1>4. /\ customerDim' = D /\ runs' = runs
      /\ at' = [at EXCEPT ![l] = "sales"]
  <2>1. wrkCustomers \cup SelectedCustomers(l) = W
    BY <1>1, <1>3
  <2> QED BY <1>2, <2>1 DEF LoadCustomerDim
<1>5. /\ W \subseteq WorkRows /\ IsFiniteSet(W) /\ Agree(W)
      /\ \A w \in W : w.event \in StoreCustomer
      /\ \A e \in StoreCustomer : Run[e] > mark[l].customerStart => \E w \in W : w.event = e
  BY <1>1, SelectedCustomersFacts, SelectedAgree
<1>6. /\ \A v \in D, w \in W : CustomerId[v.event] = CustomerId[w.event] => v.event = w.event
      /\ \A w \in W : VersionsOf(D, CustomerId[w.event]) # {}
      /\ \A v \in D : (\E w \in W : v.event = w.event) \/ (\E u \in customerDim : v.event = u.event)
      /\ \A u \in customerDim : VersionsOf(D, CustomerId[u.event]) # {}
  BY <1>2, <1>5, LoadDimensionEvents DEF TypeInv, TypeOK
<1>7. PICK seen \in Nat : seen = highWatermark["customer"] /\ seen = mark[l].customerStart
  BY <1>3, MarkTypes DEF CustomerInv
<1>8. ASSUME NEW e \in StoreCustomer
      PROVE  /\ VersionsOf(D, CustomerId[e]) # {}
             /\ \A v \in VersionsOf(D, CustomerId[e]) : v.event = e
  <2>1. CASE \E w \in W : w.event = e
    BY <1>6, <2>1 DEF VersionsOf
  <2>2. CASE ~\E w \in W : w.event = e
    <3>1. Run[e] <= seen
      BY <1>5, <1>7, <2>2, StoreFacts, RowsFacts
    <3>2. /\ VersionsOf(customerDim, CustomerId[e]) # {}
          /\ \A v \in VersionsOf(customerDim, CustomerId[e]) : v.event = e
      BY <1>7, <3>1 DEF CustomerInv, NoCustomerSkipped
    <3>3. VersionsOf(D, CustomerId[e]) # {}
      BY <1>6, <3>2 DEF VersionsOf
    <3>4. ASSUME NEW v \in VersionsOf(D, CustomerId[e])
          PROVE  v.event = e
      <4>1. v \in D /\ CustomerId[v.event] = CustomerId[e]
        BY DEF VersionsOf
      <4>2. CASE \E w \in W : v.event = w.event
        BY <1>5, <4>1, <4>2, StoreFacts
      <4>3. CASE \E u \in customerDim : v.event = u.event
        BY <3>2, <4>1, <4>3 DEF VersionsOf
      <4> QED BY <1>6, <4>1, <4>2, <4>3
    <3> QED BY <3>3, <3>4
  <2> QED BY <2>1, <2>2
<1>9. NoCustomerSkipped'
  <2>1. StoreCustomer' = StoreCustomer
    BY <1>4 DEF StoreCustomer, Latest, Written, Rows
  <2> QED BY <1>4, <1>8, <2>1 DEF NoCustomerSkipped, VersionsOf
<1>10. Running' = Running /\ l \in Running
  BY <1>3, <1>4 DEF Running, TypeInv, TypeOK
<1>11. \A k \in Loads : at'[k] \notin {"truncate", "customers"}
  <2> SUFFICES ASSUME NEW k \in Loads, at'[k] \in {"truncate", "customers"} PROVE FALSE
    OBVIOUS
  <2>1. k = l
    BY <1>10 DEF Running, CustomerInv
  <2> QED BY <1>4, <2>1 DEF TypeInv, TypeOK
<1>12. highWatermark'["customer"] <= runs["customer"]
  <2>1. highWatermark'["customer"] = NewMark(highWatermark["customer"], mark[l].customerEnd)
    BY DEF LoadCustomerDim, TypeInv, TypeOK, Tables
  <2>2. mark[l].customerEnd <= runs["customer"] /\ highWatermark["customer"] <= runs["customer"]
    BY <1>3 DEF CustomerInv
  <2> QED BY <2>1, <2>2 DEF NewMark
<1> QED BY <1>4, <1>9, <1>10, <1>11, <1>12 DEF CustomerInv

\* Every step keeps the invariant of the customers, while no call overlaps another.
LEMMA NextCustomerInv ==
    ASSUME TypeInv, ~overlapped => CustomerInv, [Next]_vars, ~overlapped'
    PROVE  CustomerInv'
PROOF
<1>0. CustomerInv /\ \A l \in Loads : StartLoad(l) => Running = {}
  <2>1. overlapped \in BOOLEAN /\ (overlapped => overlapped')
    BY DEF Next, CommitRun, StartLoad, TruncateWork, LoadCustomerDim, LoadSaleFact, Fail, vars,
           TypeInv, TypeOK
  <2>2. \A l \in Loads : StartLoad(l) => overlapped' = (overlapped \/ Running # {})
    BY DEF StartLoad
  <2> QED BY <2>1, <2>2
<1>1. ASSUME UNCHANGED <<runs, wrkCustomers, customerDim>>,
             highWatermark'["customer"] = highWatermark["customer"],
             Running' \subseteq Running,
             \A k \in Loads : at'[k] \in {"truncate", "customers"} =>
                                 at'[k] = at[k] /\ mark'[k] = mark[k]
      PROVE  CustomerInv'
  <2>1. NoCustomerSkipped'
    BY <1>0, <1>1 DEF CustomerInv, NoCustomerSkipped, StoreCustomer, Latest, Written, VersionsOf, Rows
  <2>2. \A j, k \in Running' : j = k
    BY <1>0, <1>1 DEF CustomerInv
  <2> QED BY <1>0, <1>1, <2>1, <2>2 DEF CustomerInv
<1>2. ASSUME NEW l \in Loads, LoadSaleFact(l) \/ Fail(l)
      PROVE  CustomerInv'
  <2>1. UNCHANGED <<runs, wrkCustomers, customerDim>>
        /\ highWatermark'["customer"] = highWatermark["customer"]
    BY <1>2 DEF LoadSaleFact, Fail, tableVars, TypeInv, TypeOK, Tables
  <2>2. \A k \in Loads : at'[k] \in {"truncate", "customers", "sales"} =>
                            at'[k] = at[k] /\ mark'[k] = mark[k]
    BY <1>2 DEF LoadSaleFact, Fail, TypeInv, TypeOK
  <2>3. Running' \subseteq Running
    BY <2>2 DEF Running
  <2> QED BY <1>1, <2>1, <2>2, <2>3
<1>3. CASE UNCHANGED vars
  <2>1. UNCHANGED <<runs, wrkCustomers, customerDim, highWatermark, at, mark>>
    BY <1>3 DEF vars, tableVars
  <2> QED BY <1>1, <2>1 DEF Running
<1> QED BY <1>0, <1>2, <1>3, CommitCustomerInv, StartCustomerInv, TruncateCustomerInv, LoadCustomerInv
     DEF Next

\* The invariant of the customers holds as long as no call has overlapped another.
THEOREM CustomerInvariance == Spec => [](~overlapped => CustomerInv)
PROOF
<1>1. Init => CustomerInv
  <2> SUFFICES ASSUME Init PROVE CustomerInv
    OBVIOUS
  <2>1. /\ runs["customer"] = 0 /\ highWatermark["customer"] = 0
        /\ \A l \in Loads : at[l] = "scheduled"
    BY DEF Init, Tables
  <2>2. \A e \in CustomerEvents : Run[e] \in Nat \ {0}
    BY RowsFacts
  <2>3. StoreCustomer = {}
    BY <2>1, <2>2, RowsFacts DEF StoreCustomer, Latest, Written
  <2> QED BY <2>1, <2>3 DEF CustomerInv, NoCustomerSkipped, Running
<1>2. TypeInv /\ (~overlapped => CustomerInv) /\ [Next]_vars => (~overlapped => CustomerInv)'
  BY NextCustomerInv
<1> QED BY <1>1, <1>2, TypeInvariance, PTL DEF Spec

\* No customer is skipped, whichever runs commit while a load runs and
\* whichever loads fail, as long as no load has overlapped another.
THEOREM CustomersNotSkipped == Spec => [](~overlapped => NoCustomerSkipped)
PROOF
<1>1. CustomerInv => NoCustomerSkipped
  BY DEF CustomerInv
<1> QED BY <1>1, CustomerInvariance, PTL

\* A set whose members are all the same has at most one.
LEMMA AtMostOne ==
    ASSUME NEW S, \A x, y \in S : x = y
    PROVE  Cardinality(S) <= 1
PROOF
<1>1. CASE S = {}
  BY <1>1, FS_EmptySet
<1>2. CASE S # {}
  <2>1. PICK x : S = {x}
    BY <1>2
  <2> QED BY <2>1, FS_Singleton
<1> QED BY <1>1, <1>2

\* What the updates do is determined, as long as no load has overlapped another: a
\* load selects one row for a customer at most.
THEOREM UpdatesDetermined == Spec => [](~overlapped => UpdatesUnambiguous)
PROOF
<1>1. CustomerInv => UpdatesUnambiguous
  <2> SUFFICES ASSUME CustomerInv, NEW l \in Loads, at[l] = "customers",
                      NEW W, W = wrkCustomers \cup SelectedCustomers(l), NEW D
               PROVE  /\ \A v \in customerDim : Cardinality(Changes(W, v)) <= 1
                      /\ \A v \in D : Cardinality({w.address : w \in Moves(D, W, v)}) <= 1
    BY DEF UpdatesUnambiguous
  <2>1. W = SelectedCustomers(l)
    BY DEF CustomerInv
  <2>2. ASSUME NEW v, NEW w1 \in W, NEW w2 \in W, Matches(v, w1), Matches(v, w2)
        PROVE  w1 = w2
    BY <2>1, <2>2, OneRowOfCustomer DEF Matches
  <2>3. ASSUME NEW v \in customerDim
        PROVE  Cardinality(Changes(W, v)) <= 1
    <3>1. \A x, y \in Changes(W, v) : x = y
      BY <2>2 DEF Changes
    <3> QED BY <3>1, AtMostOne
  <2>4. ASSUME NEW v \in D
        PROVE  Cardinality({w.address : w \in Moves(D, W, v)}) <= 1
    <3>1. \A x, y \in {w.address : w \in Moves(D, W, v)} : x = y
      BY <2>2 DEF Moves
    <3> QED BY <3>1, AtMostOne
  <2> QED BY <2>3, <2>4
<1> QED BY <1>1, CustomerInvariance, PTL
-----------------------------------------------------------------------------
(***************************************************************************)
(* The dimension, when addresses come in order: the versions of a customer *)
(* follow one another, and one of them is current.                         *)
(***************************************************************************)

\* A customer keeps its address, the row of which may change: a later run brings
\* a later row.
AddressesInOrder ==
    /\ \A e, f \in CustomerEvents : CustomerId[e] = CustomerId[f] => AddressOf[e] = AddressOf[f]
    /\ \A x, y \in AddressEvents :
          AddressOf[x] = AddressOf[y] /\ Run[x] < Run[y] => Time[x] < Time[y]

\* A row of an address that is still to come is younger than the customers there.
AddressesYounger ==
    \A e \in Written("customer"), x \in AddressEvents \ Written("address") :
        AddressOf[e] = AddressOf[x] => Time[e] < Time[x]

\* Each version has a key of its own, and the next key is free.
Keyed(D) ==
    /\ \A v \in D : v.key \in 1 .. Cardinality(D)
    /\ \A u, v \in D : u.key = v.key => u = v

\* VersionsInSequence of a dimension D.
Sequence(D) ==
    \A v \in D :
        /\ v.from < v.to
        /\ v.current <=> v.to = EndOfTime
        /\ v.current \/ \E u \in VersionsOf(D, CustomerId[v.event]) : u.from = v.to
        /\ \A u \in VersionsOf(D, CustomerId[v.event]) :
              u.key # v.key => u.to <= v.from \/ v.to <= u.from

\* A version has a row of the address of its customer, and starts before the later
\* rows of that address; its customer has a current version.
Dated(D) ==
    \A v \in D :
        /\ v.address # Unknown => /\ v.address \in Written("address")
                                  /\ AddressOf[v.address] = AddressOf[v.event]
        /\ \A x \in AddressEvents :
              /\ AddressOf[x] = AddressOf[v.event]
              /\ v.address = Unknown \/ Run[v.address] < Run[x]
              => v.from < Time[x]
        /\ \E u \in VersionsOf(D, CustomerId[v.event]) : u.current

Good(D) == D \subseteq Versions /\ IsFiniteSet(D) /\ Keyed(D) /\ Sequence(D) /\ Dated(D)

\* What a load selects: rows of the clean layer, one for a customer.
Selection(S) ==
    /\ S \subseteq WorkRows /\ IsFiniteSet(S)
    /\ \A w \in S : w.event \in StoreCustomer /\ w.address \in AddressesOf(w.event)
    /\ \A w1, w2 \in S : CustomerId[w1.event] = CustomerId[w2.event] => w1 = w2

\* The work of a load is a selection.
LEMMA SelectedIsSelection ==
    ASSUME NEW l \in Loads
    PROVE  Selection(SelectedCustomers(l))
PROOF
<1>1. \A w \in SelectedCustomers(l) : w.address \in AddressesOf(w.event)
  BY DEF SelectedCustomers
<1> QED BY <1>1, SelectedCustomersFacts, OneRowOfCustomer DEF Selection

\* The version v that Numbered makes of a row s.
MadeOf(v, s) ==
    /\ v.event = s.row.event /\ v.address = s.row.address /\ v.from = s.from
    /\ v.to = EndOfTime /\ v.current = TRUE

\* The function f gives each row of S the version of N that is made of it.
Makes(f, S, N) == N = {f[s] : s \in S} /\ \A s \in S : MadeOf(f[s], s)

\* Numbered makes one version of each row of S, under keys that D does not have.
LEMMA NumberedKeys ==
    ASSUME NEW D, D \subseteq Versions, IsFiniteSet(D), Keyed(D), NEW S, IsFiniteSet(S)
    PROVE  /\ Keyed(D \cup Numbered(D, S))
           /\ \A v \in Numbered(D, S), u \in D : v.key # u.key
           /\ \E f \in [S -> Numbered(D, S)] : Makes(f, S, Numbered(D, S))
PROOF
<1> DEFINE isNumber(n) == \A s1, s2 \in S : n[s1] = n[s2] => s1 = s2
           number == CHOOSE n \in [S -> 1 .. Cardinality(S)] : isNumber(n)
           f == [s \in S |->
               [key |-> Cardinality(D) + number[s], event |-> s.row.event,
                address |-> s.row.address, from |-> s.from, to |-> EndOfTime, current |-> TRUE]]
           N == {f[s] : s \in S}
<1>1. \E n \in [S -> 1 .. Cardinality(S)] : isNumber(n)
  BY NumberExists
<1>2. number \in [S -> 1 .. Cardinality(S)] /\ isNumber(number)
  <2> HIDE DEF isNumber
  <2> QED BY <1>1
<1>3. Numbered(D, S) = N
  BY DEF Numbered
<1>4. PICK d \in Nat, c \in Nat : d = Cardinality(D) /\ c = Cardinality(S)
  BY FS_CardinalityType
<1> HIDE DEF number
<1>5. \A s \in S : f[s].key = d + number[s] /\ number[s] \in 1 .. c /\ MadeOf(f[s], s)
  BY <1>2, <1>4 DEF MadeOf
<1>6. \A s, r \in S : f[s].key = f[r].key => s = r
  <2> SUFFICES ASSUME NEW s \in S, NEW r \in S, f[s].key = f[r].key PROVE s = r
    OBVIOUS
  <2>1. number[s] = number[r]
    BY <1>4, <1>5
  <2> QED BY <1>2, <2>1
<1>7. Cardinality(N) = c /\ IsFiniteSet(N)
  <2>1. DOMAIN f = S /\ f = [s \in S |-> f[s]]
    OBVIOUS
  <2> HIDE DEF f
  <2> QED BY <1>4, <1>6, <2>1, ImageCardinality, ImageFinite
<1>8. \A v \in N : v.key \in d + 1 .. d + c
  <2> SUFFICES ASSUME NEW s \in S PROVE f[s].key \in d + 1 .. d + c
    OBVIOUS
  <2> HIDE DEF f
  <2> QED BY <1>4, <1>5
<1>9. \A v \in D : v.key \in 1 .. d
  BY <1>4 DEF Keyed
<1> HIDE DEF f
<1>10. \A v \in N, u \in D : v.key # u.key
  BY <1>4, <1>8, <1>9
<1>11. D \cap N = {}
  <2> HIDE DEF N
  <2> QED BY <1>10
<1>12. Cardinality(D \cup N) = d + c
  <2> HIDE DEF N
  <2>1. Cardinality(D \cup N) = Cardinality(D) + Cardinality(N) - Cardinality(D \cap N)
    BY <1>7, FS_Union
  <2>2. Cardinality(D \cap N) = 0
    BY <1>11, FS_EmptySet
  <2> QED BY <1>4, <1>7, <2>1, <2>2
<1>13. \A u, v \in N : u.key = v.key => u = v
  BY <1>6
<1>14. f \in [S -> N]
  <2>1. f = [s \in S |-> f[s]]
    BY DEF f
  <2> QED BY <2>1
<1>15. Keyed(D \cup N)
  <2>1. \A v \in D \cup N : v.key \in 1 .. d + c
    <3> HIDE DEF N
    <3> QED BY <1>4, <1>8, <1>9
  <2>2. \A u, v \in D : u.key = v.key => u = v
    BY DEF Keyed
  <2> HIDE DEF N
  <2> QED BY <1>10, <1>12, <1>13, <2>1, <2>2 DEF Keyed
<1>16. \E g \in [S -> N] : Makes(g, S, N)
  BY <1>5, <1>14 DEF Makes
<1> HIDE DEF N
<1> QED BY <1>3, <1>10, <1>15, <1>16

\* The clean layer has a row for the address of every written row, and it is not
\* older in runs.
LEMMA StoreHasLatest ==
    ASSUME runs["address"] \in Nat, NEW x \in Written("address")
    PROVE  \E y \in StoreCustomerAddress : AddressOf[y] = AddressOf[x] /\ Run[x] <= Run[y]
PROOF
<1> DEFINE R == {y \in Written("address") : AddressOf[y] = AddressOf[x]}
           T == {Run[y] : y \in R}
<1>1. T \subseteq 0 .. runs["address"] /\ T # {}
  <2>1. x \in R
    OBVIOUS
  <2>2. \A y \in R : Run[y] \in 0 .. runs["address"]
    <3> SUFFICES ASSUME NEW y \in R PROVE Run[y] \in 0 .. runs["address"]
      OBVIOUS
    <3>1. y \in AddressEvents /\ Run[y] <= runs["address"]
      BY StoreFacts DEF Written
    <3> QED BY <3>1, RowsFacts
  <2> QED BY <2>1, <2>2
<1>2. PICK m \in T : \A t \in T : t <= m
  <2> HIDE DEF T
  <2> QED BY <1>1, MaxOfBounds
<1>3. PICK y \in R : Run[y] = m
  OBVIOUS
<1>4. \A q \in R : Run[q] <= Run[y]
  BY <1>2, <1>3
<1>5. y \in StoreCustomerAddress
  BY <1>4 DEF StoreCustomerAddress, Latest
<1>6. Run[x] <= Run[y]
  BY <1>4
<1> QED BY <1>5, <1>6

\* The address of a selected row is the latest of its address, or unknown, when
\* no row of it has been written.
LEMMA AddressesOfFacts ==
    ASSUME runs["address"] \in Nat, NEW e \in CustomerEvents, NEW x \in AddressesOf(e)
    PROVE  /\ x # Unknown => x \in StoreCustomerAddress /\ AddressOf[x] = AddressOf[e]
           /\ \A y \in Written("address") : AddressOf[y] = AddressOf[e] =>
                 x # Unknown /\ Run[y] <= Run[x] /\ (y # x => Run[y] < Run[x])
PROOF
<1>1. ASSUME NEW y \in Written("address"), AddressOf[y] = AddressOf[e]
      PROVE  \E z \in StoreCustomerAddress : AddressOf[z] = AddressOf[e]
  BY <1>1, StoreHasLatest
<1>2. x # Unknown => x \in StoreCustomerAddress /\ AddressOf[x] = AddressOf[e]
  BY DEF AddressesOf
<1>3. ASSUME NEW y \in Written("address"), AddressOf[y] = AddressOf[e]
      PROVE  x # Unknown /\ Run[y] <= Run[x] /\ (y # x => Run[y] < Run[x])
  <2>1. x # Unknown
    <3>1. Unknown \notin StoreCustomerAddress
      BY StoreFacts, RowsFacts
    <3> QED BY <1>1, <1>3, <3>1 DEF AddressesOf
  <2>2. Run[y] <= Run[x]
    BY <1>2, <1>3, <2>1 DEF StoreCustomerAddress, Latest
  <2>3. x \in AddressEvents /\ y \in AddressEvents
    BY <1>2, <2>1, StoreFacts
  <2>4. y # x => Run[y] # Run[x]
    BY <1>2, <1>3, <2>1, <2>3, DwhAssumption
  <2>5. Run[x] \in Nat /\ Run[y] \in Nat
    BY <2>3, RowsFacts
  <2> QED BY <2>1, <2>2, <2>4, <2>5
<1> QED BY <1>2, <1>3

\* In a good dimension the current version of a customer is the one that starts
\* last, and the others end before it starts.
LEMMA CurrentIsMostRecent ==
    ASSUME NEW D, Good(D), NEW v \in D
    PROVE  /\ MostRecent(D, v) <=> v.current
           /\ v.current => \A u \in VersionsOf(D, CustomerId[v.event]) :
                 u = v \/ (~u.current /\ u.to <= v.from)
PROOF
<1>1. \A u \in D : u.from \in Nat /\ u.to \in Nat /\ u.to <= EndOfTime /\ u.current \in BOOLEAN
  <2>1. EndOfTime \in Nat
    BY RowsFacts
  <2> QED BY <2>1 DEF Good, Versions
<1>2. EndOfTime \in Nat
  BY RowsFacts
<1>3. ASSUME v.current, NEW u \in VersionsOf(D, CustomerId[v.event]), u # v
      PROVE  ~u.current /\ u.to <= v.from /\ u.from <= v.from
  <2>1. u \in D /\ u.key # v.key /\ v.to = EndOfTime /\ u.from < u.to
    BY <1>3 DEF VersionsOf, Good, Keyed, Sequence
  <2>2. u.to <= v.from \/ v.to <= u.from
    BY <1>3, <2>1 DEF Good, Sequence
  <2>3. u.to <= v.from
    BY <1>1, <1>2, <2>1, <2>2
  <2>4. v.from < EndOfTime
    BY <2>1 DEF Good, Sequence
  <2>5. u.to # EndOfTime
    BY <1>1, <1>2, <2>1, <2>3, <2>4
  <2>6. ~u.current
    BY <2>1, <2>5 DEF Good, Sequence
  <2> QED BY <1>1, <2>1, <2>3, <2>6
<1>4. ASSUME v.current
      PROVE  MostRecent(D, v)
  <2> SUFFICES ASSUME NEW u \in VersionsOf(D, CustomerId[v.event]) PROVE u.from <= v.from
    BY DEF MostRecent
  <2>1. CASE u = v
    BY <1>1, <2>1
  <2>2. CASE u # v
    BY <1>3, <1>4, <2>2
  <2> QED BY <2>1, <2>2
<1>5. ASSUME MostRecent(D, v), ~v.current
      PROVE  FALSE
  <2>1. PICK u \in VersionsOf(D, CustomerId[v.event]) : u.from = v.to
    BY <1>5 DEF Good, Sequence
  <2>2. u \in D /\ u.from <= v.from /\ v.from < v.to
    BY <1>5, <2>1 DEF MostRecent, VersionsOf, Good, Sequence
  <2> QED BY <1>1, <2>1, <2>2
<1>6. v.current \in BOOLEAN
  BY <1>1
<1>7. MostRecent(D, v) <=> v.current
  BY <1>4, <1>5
<1> QED BY <1>3, <1>7

\* InsertNew gives the customers that have no version a first one, and leaves a
\* good dimension.
LEMMA InsertNewGood ==
    ASSUME runs["address"] \in Nat, AddressesYounger, NEW D, Good(D), NEW S, Selection(S)
    PROVE  /\ Good(InsertNew(D, S))
           /\ D \subseteq InsertNew(D, S)
           /\ \A v \in InsertNew(D, S) \ D : VersionsOf(D, CustomerId[v.event]) = {}
PROOF
<1> DEFINE U == {u \in S : VersionsOf(D, CustomerId[u.event]) = {}}
           R == {[row |-> w, from |-> Time[w.event]] : w \in U}
<1>1. PICK N : N = InsertNew(D, S)
  OBVIOUS
<1>2. N \subseteq Versions /\ IsFiniteSet(N) /\ D \subseteq N
  BY <1>1, InsertNewFacts DEF Good, Selection
<1>3. N = D \cup Numbered(D, R)
  BY <1>1 DEF InsertNew
<1>4. IsFiniteSet(R)
  <2> DEFINE first == [w \in U |-> [row |-> w, from |-> Time[w.event]]]
  <2>1. IsFiniteSet(U)
    BY FS_Subset DEF Selection
  <2>2. R = {first[w] : w \in U} /\ DOMAIN first = U /\ first = [w \in U |-> first[w]]
    OBVIOUS
  <2> HIDE DEF first, U, R
  <2> QED BY <2>1, <2>2, ImageFinite
<1>5. \A r \in R : r.row \in U /\ r = [row |-> r.row, from |-> Time[r.row.event]]
  OBVIOUS
<1>6. \A w \in U : w \in S /\ VersionsOf(D, CustomerId[w.event]) = {}
  OBVIOUS
<1> HIDE DEF U, R
<1>7. /\ Keyed(N)
      /\ \E f \in [R -> Numbered(D, R)] : Makes(f, R, Numbered(D, R))
  BY <1>3, <1>4, NumberedKeys DEF Good
<1>8. PICK f \in [R -> Numbered(D, R)] :
            Numbered(D, R) = {f[r] : r \in R} /\ \A r \in R : MadeOf(f[r], r)
  BY <1>7 DEF Makes
<1>9. ASSUME NEW v \in Numbered(D, R)
      PROVE  \E w \in U : /\ v.event = w.event /\ v.address = w.address /\ v.from = Time[w.event]
                          /\ v.to = EndOfTime /\ v.current = TRUE
                          /\ v = f[[row |-> w, from |-> Time[w.event]]]
  <2>1. PICK r \in R : v = f[r]
    BY <1>8
  <2>2. MadeOf(v, r) /\ r.row \in U /\ r = [row |-> r.row, from |-> Time[r.row.event]]
    BY <1>5, <1>8, <2>1
  <2>3. r.from = Time[r.row.event]
    BY <2>2
  <2> QED BY <2>1, <2>2, <2>3 DEF MadeOf
<1>10. ASSUME NEW v \in Numbered(D, R), NEW u \in VersionsOf(N, CustomerId[v.event])
       PROVE  u = v
  <2>1. PICK w \in U : v.event = w.event /\ v = f[[row |-> w, from |-> Time[w.event]]]
    BY <1>9
  <2>2. u \in Numbered(D, R) /\ CustomerId[u.event] = CustomerId[v.event]
    BY <1>3, <1>6, <2>1 DEF VersionsOf
  <2>3. PICK x \in U : u.event = x.event /\ u = f[[row |-> x, from |-> Time[x.event]]]
    BY <1>9, <2>2
  <2>4. w = x
    BY <1>6, <2>1, <2>2, <2>3 DEF Selection
  <2> QED BY <2>1, <2>3, <2>4
<1>11. ASSUME NEW v \in D
       PROVE  VersionsOf(N, CustomerId[v.event]) = VersionsOf(D, CustomerId[v.event])
  <2>1. v \in N
    BY <1>2
  <2>2. ASSUME NEW u \in Numbered(D, R)
        PROVE  CustomerId[u.event] # CustomerId[v.event]
    <3>1. PICK w \in U : u.event = w.event
      BY <1>9
    <3> QED BY <1>6, <3>1 DEF VersionsOf
  <2> QED BY <1>3, <2>2 DEF VersionsOf
<1>12. Sequence(N)
  <2> SUFFICES ASSUME NEW v \in N
               PROVE  /\ v.from < v.to
                      /\ v.current <=> v.to = EndOfTime
                      /\ v.current \/ \E u \in VersionsOf(N, CustomerId[v.event]) : u.from = v.to
                      /\ \A u \in VersionsOf(N, CustomerId[v.event]) :
                            u.key # v.key => u.to <= v.from \/ v.to <= u.from
    BY DEF Sequence
  <2>1. CASE v \in D
    BY <1>11, <2>1 DEF Good, Sequence
  <2>2. CASE v \in Numbered(D, R)
    <3>1. PICK w \in U : v.event = w.event /\ v.from = Time[w.event] /\ v.to = EndOfTime /\ v.current = TRUE
      BY <1>9, <2>2
    <3>2. w.event \in CustomerEvents
      BY <1>6 DEF Selection, WorkRows
    <3>3. v.from < v.to
      BY <3>1, <3>2, RowsFacts
    <3> QED BY <1>10, <2>2, <3>1, <3>3
  <2> QED BY <1>3, <2>1, <2>2
<1>13. Dated(N)
  <2>1. ASSUME NEW v \in N
        PROVE  /\ v.address # Unknown => /\ v.address \in Written("address")
                                         /\ AddressOf[v.address] = AddressOf[v.event]
               /\ \A x \in AddressEvents :
                     /\ AddressOf[x] = AddressOf[v.event]
                     /\ v.address = Unknown \/ Run[v.address] < Run[x]
                     => v.from < Time[x]
               /\ \E u \in VersionsOf(N, CustomerId[v.event]) : u.current
    <3>1. CASE v \in D
      BY <1>11, <3>1 DEF Good, Dated
    <3>2. CASE v \in Numbered(D, R)
      <4>1. PICK w \in U : /\ v.event = w.event /\ v.address = w.address
                           /\ v.from = Time[w.event] /\ v.current = TRUE
        BY <1>9, <3>2
      <4>2. w.event \in StoreCustomer /\ w.event \in CustomerEvents /\ w.address \in AddressesOf(w.event)
        BY <1>6 DEF Selection, WorkRows
      <4>3. /\ w.address # Unknown => w.address \in Written("address") /\ AddressOf[w.address] = AddressOf[w.event]
            /\ \A y \in Written("address") : AddressOf[y] = AddressOf[w.event] =>
                  w.address # Unknown /\ Run[y] <= Run[w.address]
        BY <4>2, AddressesOfFacts, StoreFacts
      <4>4. ASSUME NEW x \in AddressEvents, AddressOf[x] = AddressOf[w.event],
                   w.address = Unknown \/ Run[w.address] < Run[x]
            PROVE  Time[w.event] < Time[x]
        <5>1. x \notin Written("address")
          <6>1. Run[x] \in Nat /\ (w.address # Unknown => Run[w.address] \in Nat)
            BY <4>3, StoreFacts, RowsFacts
          <6> QED BY <4>3, <4>4, <6>1
        <5>2. w.event \in Written("customer")
          BY <4>2, StoreFacts
        <5> QED BY <4>4, <5>1, <5>2 DEF AddressesYounger
      <4>5. v \in VersionsOf(N, CustomerId[v.event])
        BY DEF VersionsOf
      <4> QED BY <4>1, <4>3, <4>4, <4>5
    <3> QED BY <1>3, <3>1, <3>2
  <2> QED BY <2>1 DEF Dated
<1>14. \A v \in N \ D : VersionsOf(D, CustomerId[v.event]) = {}
  BY <1>3, <1>6, <1>9
<1> QED BY <1>1, <1>2, <1>7, <1>12, <1>13, <1>14 DEF Good

\* Versions that differ in the type 1 columns, of one customer.
SameVersion(u, v) ==
    /\ u.key = v.key /\ u.address = v.address /\ u.from = v.from /\ u.to = v.to
    /\ u.current = v.current /\ CustomerId[u.event] = CustomerId[v.event]

\* UpdateType1 changes nothing but the type 1 columns.
LEMMA UpdateType1Same ==
    ASSUME NEW D, D \subseteq Versions, NEW W, W \subseteq WorkRows
    PROVE  \E g \in [D -> UpdateType1(D, W)] :
              UpdateType1(D, W) = {g[v] : v \in D} /\ \A v \in D : SameVersion(g[v], v)
PROOF
<1> DEFINE event(v) == IF Changes(W, v) = {} THEN v.event ELSE CHOOSE e \in Changes(W, v) : TRUE
           g == [v \in D |-> [v EXCEPT !.event = event(v)]]
<1>1. UpdateType1(D, W) = {g[v] : v \in D}
  BY DEF UpdateType1
<1>2. ASSUME NEW v \in D
      PROVE  CustomerId[event(v)] = CustomerId[v.event]
  <2>1. Changes(W, v) # {} => event(v) \in Changes(W, v)
    OBVIOUS
  <2>2. \A e \in Changes(W, v) : CustomerId[e] = CustomerId[v.event]
    BY DEF Changes, Matches
  <2> QED BY <2>1, <2>2
<1> HIDE DEF event
<1>3. \A v \in D : SameVersion(g[v], v)
  BY <1>2 DEF Versions, SameVersion
<1>4. g \in [D -> {g[v] : v \in D}]
  OBVIOUS
<1> HIDE DEF g
<1> QED BY <1>1, <1>3, <1>4

\* A version keeps its place among those of its customer when the type 1 columns change.
LEMMA UpdateType1Good ==
    ASSUME AddressesInOrder, NEW D, Good(D), NEW W, W \subseteq WorkRows
    PROVE  Good(UpdateType1(D, W))
PROOF
<1>1. PICK T : T = UpdateType1(D, W)
  OBVIOUS
<1>2. PICK g \in [D -> T] : T = {g[v] : v \in D} /\ \A v \in D : SameVersion(g[v], v)
  BY <1>1, UpdateType1Same DEF Good
<1>3. T \subseteq Versions /\ IsFiniteSet(T)
  BY <1>1, UpdateType1Facts DEF Good
<1>4. Keyed(T)
  <2>1. \A u, v \in D : g[u] = g[v] => u = v
    BY <1>2 DEF SameVersion, Good, Keyed
  <2>2. Cardinality({g[v] : v \in D}) = Cardinality(D)
    <3>1. DOMAIN g = D /\ g = [v \in D |-> g[v]]
      OBVIOUS
    <3> QED BY <2>1, <3>1, ImageCardinality DEF Good
  <2>3. Cardinality(T) = Cardinality(D)
    BY <1>2, <2>2
  <2>4. \A v \in D : g[v].key = v.key
    BY <1>2 DEF SameVersion
  <2>5. \A v \in D : g[v].key \in 1 .. Cardinality(T)
    BY <2>3, <2>4 DEF Good, Keyed
  <2>6. \A u, v \in D : g[u].key = g[v].key => u = v
    BY <2>4 DEF Good, Keyed
  <2>7. \A t \in T : \E v \in D : t = g[v]
    BY <1>2
  <2>8. \A t \in T : t.key \in 1 .. Cardinality(T)
    BY <2>5, <2>7
  <2>9. \A t, x \in T : t.key = x.key => t = x
    BY <2>6, <2>7
  <2> QED BY <2>8, <2>9 DEF Keyed
<1>5. ASSUME NEW v \in D, NEW u \in VersionsOf(D, CustomerId[v.event])
      PROVE  g[u] \in VersionsOf(T, CustomerId[g[v].event]) /\ SameVersion(g[u], u)
  BY <1>2 DEF VersionsOf, SameVersion
<1>6. ASSUME NEW v \in D, NEW t \in VersionsOf(T, CustomerId[g[v].event])
      PROVE  \E u \in VersionsOf(D, CustomerId[v.event]) : t = g[u] /\ SameVersion(t, u)
  BY <1>2 DEF VersionsOf, SameVersion
<1>7. Sequence(T)
  <2>1. ASSUME NEW v \in D, NEW t, t = g[v]
        PROVE  /\ t.from < t.to
               /\ t.current <=> t.to = EndOfTime
               /\ t.current \/ \E u \in VersionsOf(T, CustomerId[t.event]) : u.from = t.to
               /\ \A u \in VersionsOf(T, CustomerId[t.event]) :
                     u.key # t.key => u.to <= t.from \/ t.to <= u.from
    <3>1. /\ v.from < v.to
          /\ v.current <=> v.to = EndOfTime
          /\ v.current \/ \E u \in VersionsOf(D, CustomerId[v.event]) : u.from = v.to
          /\ \A u \in VersionsOf(D, CustomerId[v.event]) :
                u.key # v.key => u.to <= v.from \/ v.to <= u.from
      BY DEF Good, Sequence
    <3>2. SameVersion(t, v)
      BY <1>2, <2>1
    <3>3. t.from < t.to /\ (t.current <=> t.to = EndOfTime)
      BY <3>1, <3>2 DEF SameVersion
    <3>4. t.current \/ \E u \in VersionsOf(T, CustomerId[t.event]) : u.from = t.to
      <4>1. CASE v.current
        BY <3>2, <4>1 DEF SameVersion
      <4>2. CASE ~v.current
        <5>1. PICK u \in VersionsOf(D, CustomerId[v.event]) : u.from = v.to
          BY <3>1, <4>2
        <5>2. g[u] \in VersionsOf(T, CustomerId[t.event]) /\ SameVersion(g[u], u)
          BY <1>5, <2>1
        <5> QED BY <3>2, <5>1, <5>2 DEF SameVersion
      <4> QED BY <4>1, <4>2
    <3>5. ASSUME NEW x \in VersionsOf(T, CustomerId[t.event]), x.key # t.key
          PROVE  x.to <= t.from \/ t.to <= x.from
      <4>1. PICK u \in VersionsOf(D, CustomerId[v.event]) : SameVersion(x, u)
        BY <1>6, <2>1
      <4> QED BY <3>1, <3>2, <3>5, <4>1 DEF SameVersion
    <3> QED BY <3>3, <3>4, <3>5
  <2> QED BY <1>2, <2>1 DEF Sequence
<1>8. Dated(T)
  <2>1. ASSUME NEW v \in D, NEW t, t = g[v]
        PROVE  /\ t.address # Unknown => /\ t.address \in Written("address")
                                         /\ AddressOf[t.address] = AddressOf[t.event]
               /\ \A x \in AddressEvents :
                     /\ AddressOf[x] = AddressOf[t.event]
                     /\ t.address = Unknown \/ Run[t.address] < Run[x]
                     => t.from < Time[x]
               /\ \E u \in VersionsOf(T, CustomerId[t.event]) : u.current
    <3>1. SameVersion(t, v) /\ t \in T
      BY <1>2, <2>1
    <3>2. AddressOf[t.event] = AddressOf[v.event]
      <4>1. t.event \in CustomerEvents /\ v.event \in CustomerEvents
        BY <1>3, <3>1 DEF Good, Versions
      <4> QED BY <3>1, <4>1 DEF SameVersion, AddressesInOrder
    <3>3. PICK u \in VersionsOf(D, CustomerId[v.event]) : u.current
      BY DEF Good, Dated
    <3>4. g[u] \in VersionsOf(T, CustomerId[t.event]) /\ g[u].current
      BY <1>5, <2>1, <3>3 DEF SameVersion
    <3>5. /\ t.address # Unknown => /\ t.address \in Written("address")
                                    /\ AddressOf[t.address] = AddressOf[t.event]
          /\ \A x \in AddressEvents :
                /\ AddressOf[x] = AddressOf[t.event]
                /\ t.address = Unknown \/ Run[t.address] < Run[x]
                => t.from < Time[x]
      BY <3>1, <3>2 DEF SameVersion, Good, Dated
    <3> QED BY <3>4, <3>5
  <2> QED BY <1>2, <2>1 DEF Dated
<1> QED BY <1>1, <1>3, <1>4, <1>7, <1>8 DEF Good

\* A current version moves to a row of a later time.
LEMMA MoveTime ==
    ASSUME AddressesInOrder, runs["address"] \in Nat, NEW D, Good(D), NEW S, Selection(S),
           NEW v \in D, NEW w \in Moves(D, S, v)
    PROVE  /\ v.current /\ w \in S /\ CustomerId[v.event] = CustomerId[w.event]
           /\ w.address \in Written("address") /\ AddressOf[w.address] = AddressOf[w.event]
           /\ AddressTime(w.address) = Time[w.address]
           /\ v.from < Time[w.address] /\ Time[w.address] < EndOfTime
PROOF
<1>1. w \in S /\ CustomerId[v.event] = CustomerId[w.event] /\ MostRecent(D, v) /\ v.address # w.address
  BY DEF Moves, Matches
<1>2. v.current
  BY <1>1, CurrentIsMostRecent
<1>3. v.event \in CustomerEvents /\ w.event \in CustomerEvents /\ w.address \in AddressesOf(w.event)
  BY <1>1 DEF Good, Versions, Selection, WorkRows
<1>4. AddressOf[v.event] = AddressOf[w.event]
  BY <1>1, <1>3 DEF AddressesInOrder
<1>5. /\ w.address # Unknown => w.address \in StoreCustomerAddress /\ AddressOf[w.address] = AddressOf[w.event]
      /\ \A y \in Written("address") : AddressOf[y] = AddressOf[w.event] =>
            w.address # Unknown /\ Run[y] <= Run[w.address] /\ (y # w.address => Run[y] < Run[w.address])
  BY <1>3, AddressesOfFacts
<1>6. /\ v.address # Unknown => v.address \in Written("address") /\ AddressOf[v.address] = AddressOf[v.event]
      /\ \A x \in AddressEvents :
            /\ AddressOf[x] = AddressOf[v.event]
            /\ v.address = Unknown \/ Run[v.address] < Run[x]
            => v.from < Time[x]
  BY DEF Good, Dated
<1>7. w.address # Unknown
  BY <1>1, <1>4, <1>5, <1>6
<1>8. w.address \in Written("address") /\ w.address \in AddressEvents
  BY <1>5, <1>7, StoreFacts
<1>9. v.address = Unknown \/ Run[v.address] < Run[w.address]
  BY <1>1, <1>4, <1>5, <1>6
<1>10. v.from < Time[w.address]
  BY <1>4, <1>5, <1>6, <1>7, <1>8, <1>9
<1>11. AddressTime(w.address) = Time[w.address]
  BY <1>7 DEF AddressTime
<1>12. Time[w.address] < EndOfTime
  BY <1>8, RowsFacts
<1> QED BY <1>1, <1>2, <1>5, <1>7, <1>8, <1>10, <1>11, <1>12

\* The version u is v, perhaps closed.
SameStart(u, v) ==
    u.key = v.key /\ u.event = v.event /\ u.address = v.address /\ u.from = v.from

\* The function h closes the versions of T that move by S, and leaves the others.
Closes(h, T, S, C) ==
    /\ C = {h[v] : v \in T}
    /\ \A v \in T :
          /\ SameStart(h[v], v)
          /\ MostRecent(C, h[v]) <=> MostRecent(T, v)
          /\ Moves(C, S, h[v]) = Moves(T, S, v)
          /\ Moves(T, S, v) = {} => h[v] = v
          /\ \A w \in Moves(T, S, v) : h[v].to = Time[w.address] /\ h[v].current = FALSE

\* ClosePrior closes the versions that move, each with the time of the one row it
\* moves to, and they are still the ones that move.
LEMMA ClosePriorVersions ==
    ASSUME AddressesInOrder, runs["address"] \in Nat, NEW T, Good(T), NEW S, Selection(S),
           NEW C, C = ClosePrior(T, S)
    PROVE  \E h \in [T -> C] : Closes(h, T, S, C)
PROOF
<1> DEFINE ends(v) == {AddressTime(w.address) : w \in Moves(T, S, v)}
           end(v) == CHOOSE t \in ends(v) : TRUE
           h == [v \in T |-> IF Moves(T, S, v) = {} THEN v
                             ELSE [v EXCEPT !.to = end(v), !.current = FALSE]]
<1>2. C = {h[v] : v \in T}
  BY DEF ClosePrior
<1>3. ASSUME NEW v \in T, NEW w \in Moves(T, S, v)
      PROVE  end(v) = Time[w.address]
  <2>1. \A x \in Moves(T, S, v) : x = w
    BY MoveTime DEF Selection
  <2>2. ends(v) = {AddressTime(w.address)}
    BY <2>1
  <2>3. AddressTime(w.address) = Time[w.address]
    BY MoveTime
  <2> QED BY <2>2, <2>3
<1> HIDE DEF end
<1>5. ASSUME NEW v \in T
      PROVE  /\ SameStart(h[v], v)
             /\ Moves(T, S, v) = {} => h[v] = v
             /\ \A w \in Moves(T, S, v) : h[v].to = Time[w.address] /\ h[v].current = FALSE
  <2>1. CASE Moves(T, S, v) = {}
    BY <2>1 DEF SameStart
  <2>2. CASE Moves(T, S, v) # {}
    <3>1. h[v] = [v EXCEPT !.to = end(v), !.current = FALSE]
      BY <2>2
    <3>2. v \in Versions
      BY DEF Good
    <3>3. SameStart(h[v], v)
      BY <3>1, <3>2 DEF Versions, SameStart
    <3>4. h[v].to = end(v) /\ h[v].current = FALSE
      BY <3>1, <3>2 DEF Versions
    <3> HIDE DEF h
    <3> QED BY <1>3, <2>2, <3>3, <3>4
  <2> QED BY <2>1, <2>2
<1>6. h \in [T -> C]
  BY <1>2
<1> HIDE DEF h
<1>7. ASSUME NEW v \in T
      PROVE  MostRecent(C, h[v]) <=> MostRecent(T, v)
  <2>1. ASSUME NEW u \in VersionsOf(T, CustomerId[v.event])
        PROVE  h[u] \in VersionsOf(C, CustomerId[h[v].event]) /\ h[u].from = u.from
    BY <1>2, <1>5 DEF VersionsOf, SameStart
  <2>2. ASSUME NEW c \in VersionsOf(C, CustomerId[h[v].event])
        PROVE  \E u \in VersionsOf(T, CustomerId[v.event]) : c.from = u.from
    <3>1. PICK u \in T : c = h[u]
      BY <1>2 DEF VersionsOf
    <3>2. c.event = u.event /\ c.from = u.from /\ h[v].event = v.event
      BY <1>5, <3>1 DEF SameStart
    <3> QED BY <3>2 DEF VersionsOf
  <2>3. h[v].from = v.from
    BY <1>5 DEF SameStart
  <2> QED BY <2>1, <2>2, <2>3 DEF MostRecent
<1>8. ASSUME NEW v \in T
      PROVE  Moves(C, S, h[v]) = Moves(T, S, v)
  <2>1. h[v].event = v.event /\ h[v].address = v.address
    BY <1>5 DEF SameStart
  <2> QED BY <1>7, <2>1 DEF Moves, Matches
<1> QED BY <1>2, <1>5, <1>6, <1>7, <1>8 DEF Closes

\* The version z that a load makes of a row w that a version moves to.
MovedTo(z, w) ==
    /\ z.event = w.event /\ z.address = w.address /\ z.from = Time[w.address]
    /\ z.to = EndOfTime /\ z.current = TRUE

\* InsertVersion makes one version for each that moves.
LEMMA InsertedVersions ==
    ASSUME AddressesInOrder, runs["address"] \in Nat, NEW T, Good(T), NEW S, Selection(S),
           NEW C, C = ClosePrior(T, S), NEW L, L = InsertVersion(C, S)
    PROVE      /\ C \subseteq L /\ Keyed(C) /\ Keyed(L)
               /\ \A z \in L \ C : \E v \in T : \E w \in Moves(T, S, v) : MovedTo(z, w)
               /\ \A v \in T : \A w \in Moves(T, S, v) : \E z \in L \ C : MovedTo(z, w)
               /\ \A y, z \in L \ C : CustomerId[y.event] = CustomerId[z.event] => y = z
PROOF
<1>1. PICK h \in [T -> C] : Closes(h, T, S, C)
  BY ClosePriorVersions
<1>2. /\ C = {h[v] : v \in T}
      /\ \A v \in T :
            /\ SameStart(h[v], v)
            /\ Moves(C, S, h[v]) = Moves(T, S, v)
            /\ Moves(T, S, v) = {} => h[v] = v
            /\ \A w \in Moves(T, S, v) : h[v].to = Time[w.address] /\ h[v].current = FALSE
  BY <1>1 DEF Closes
<1>3. C \subseteq Versions /\ IsFiniteSet(C)
  BY ClosePriorFacts DEF Good, Selection
<1>4. \A v \in T : h[v].key = v.key
  BY <1>2 DEF SameStart
<1>5. Keyed(C)
  <2>1. \A u, v \in T : h[u].key = h[v].key => u = v
    BY <1>4 DEF Good, Keyed
  <2>2. Cardinality(C) = Cardinality(T)
    <3>1. DOMAIN h = T /\ h = [v \in T |-> h[v]]
      OBVIOUS
    <3>2. Cardinality({h[v] : v \in T}) = Cardinality(T)
      BY <2>1, <3>1, ImageCardinality DEF Good
    <3> QED BY <1>2, <3>2
  <2>3. \A c \in C : \E v \in T : c = h[v]
    BY <1>2
  <2>4. \A c \in C : c.key \in 1 .. Cardinality(C)
    BY <1>4, <2>2, <2>3 DEF Good, Keyed
  <2>5. \A b, c \in C : b.key = c.key => b = c
    BY <2>1, <2>3
  <2> QED BY <2>4, <2>5 DEF Keyed
<1> DEFINE next(w, c) == [row |-> w, from |-> AddressTime(w.address), prior |-> c.key]
           R == UNION {{next(w, c) : w \in Moves(C, S, c)} : c \in C}
<1>7. L = C \cup Numbered(C, R)
  BY DEF InsertVersion
<1>8. IsFiniteSet(R)
  <2> DEFINE P == S \X C
             nexts == [p \in P |-> next(p[1], p[2])]
             N == {nexts[p] : p \in P}
  <2>1. IsFiniteSet(P)
    BY <1>3, FS_Product DEF Selection
  <2>2. IsFiniteSet(N)
    <3>1. DOMAIN nexts = P /\ nexts = [p \in P |-> nexts[p]]
      OBVIOUS
    <3> HIDE DEF nexts, P
    <3> QED BY <2>1, <3>1, ImageFinite
  <2>3. R \subseteq N
    <3>1. ASSUME NEW c \in C, NEW w \in Moves(C, S, c)
          PROVE  next(w, c) \in N
      <4>1. <<w, c>> \in P /\ nexts[<<w, c>>] = next(w, c)
        BY DEF Moves
      <4> HIDE DEF nexts, next, P
      <4> QED BY <4>1
    <3>2. \A r \in R : \E c \in C : \E w \in Moves(C, S, c) : r = next(w, c)
      <4> HIDE DEF next
      <4> QED OBVIOUS
    <3> HIDE DEF R, N, next
    <3> QED BY <3>1, <3>2
  <2> HIDE DEF R, N
  <2> QED BY <2>2, <2>3, FS_Subset
<1>9. \A r \in R : \E v \in T : \E w \in Moves(T, S, v) : r = next(w, h[v])
  <2>1. \A r \in R : \E c \in C : \E w \in Moves(C, S, c) : r = next(w, c)
    <3> HIDE DEF next
    <3> QED OBVIOUS
  <2> HIDE DEF R, next
  <2> SUFFICES ASSUME NEW r \in R PROVE \E v \in T : \E w \in Moves(T, S, v) : r = next(w, h[v])
    OBVIOUS
  <2>2. PICK c \in C : \E w \in Moves(C, S, c) : r = next(w, c)
    BY <2>1
  <2>3. PICK v \in T : c = h[v]
    BY <1>2
  <2>4. Moves(C, S, c) = Moves(T, S, v)
    BY <1>2, <2>3
  <2> QED BY <2>2, <2>3, <2>4
<1>10. \A v \in T : \A w \in Moves(T, S, v) : next(w, h[v]) \in R
  <2>1. \A c \in C : \A w \in Moves(C, S, c) : next(w, c) \in R
    <3> HIDE DEF next
    <3> QED OBVIOUS
  <2> HIDE DEF R, next
  <2> QED BY <1>2, <2>1
<1> HIDE DEF R
<1>6. PICK f \in [R -> Numbered(C, R)] : Makes(f, R, Numbered(C, R))
  BY <1>3, <1>5, <1>8, NumberedKeys
<1>11. Numbered(C, R) = {f[r] : r \in R} /\ \A r \in R : MadeOf(f[r], r)
  BY <1>6 DEF Makes
<1>12. Keyed(L) /\ L \ C = Numbered(C, R)
  <2>1. Keyed(L) /\ \A v \in Numbered(C, R), c \in C : v.key # c.key
    BY <1>3, <1>5, <1>7, <1>8, NumberedKeys
  <2> QED BY <1>7, <2>1
<1>13. ASSUME NEW v \in T, NEW w \in Moves(T, S, v)
       PROVE  MovedTo(f[next(w, h[v])], w)
  <2>1. MadeOf(f[next(w, h[v])], next(w, h[v]))
    <3> HIDE DEF next
    <3> QED BY <1>10, <1>11
  <2>2. AddressTime(w.address) = Time[w.address]
    BY MoveTime
  <2> QED BY <2>1, <2>2 DEF MadeOf, MovedTo
<1>14. \A z \in L \ C : \E v \in T : \E w \in Moves(T, S, v) : z = f[next(w, h[v])]
  <2> HIDE DEF next
  <2> QED BY <1>9, <1>11, <1>12
<1>15. \A v \in T : \A w \in Moves(T, S, v) : f[next(w, h[v])] \in L \ C
  <2> HIDE DEF next
  <2> QED BY <1>10, <1>11, <1>12
<1> HIDE DEF next
<1>16. ASSUME NEW y \in L \ C, NEW z \in L \ C, CustomerId[y.event] = CustomerId[z.event]
       PROVE  y = z
  <2>1. PICK u \in T : \E x \in Moves(T, S, u) : y = f[next(x, h[u])]
    BY <1>14
  <2>2. PICK x \in Moves(T, S, u) : y = f[next(x, h[u])]
    BY <2>1
  <2>3. PICK v \in T : \E w \in Moves(T, S, v) : z = f[next(w, h[v])]
    BY <1>14
  <2>4. PICK w \in Moves(T, S, v) : z = f[next(w, h[v])]
    BY <2>3
  <2>5. y.event = x.event /\ z.event = w.event
    BY <1>13, <2>2, <2>4 DEF MovedTo
  <2>6. /\ u.current /\ v.current /\ x \in S /\ w \in S
        /\ CustomerId[u.event] = CustomerId[x.event] /\ CustomerId[v.event] = CustomerId[w.event]
    BY MoveTime
  <2>7. x = w
    BY <1>16, <2>5, <2>6 DEF Selection
  <2>8. u = v
    <3>1. u \in VersionsOf(T, CustomerId[v.event])
      BY <2>6, <2>7 DEF VersionsOf
    <3> QED BY <2>6, <3>1, CurrentIsMostRecent
  <2> QED BY <2>2, <2>4, <2>7, <2>8
<1> QED BY <1>5, <1>7, <1>12, <1>13, <1>14, <1>15, <1>16

\* ClosePrior and InsertVersion leave a good dimension: a version that is closed ends
\* where the one that is made of the row starts, after all others of the customer.
LEMMA MovedGood ==
    ASSUME AddressesInOrder, runs["address"] \in Nat, NEW T, Good(T), NEW S, Selection(S),
           NEW C, C = ClosePrior(T, S), NEW L, L = InsertVersion(C, S)
    PROVE  /\ Good(L)
           /\ \A v \in T : (\A w \in S : CustomerId[w.event] # CustomerId[v.event]) => v \in L
           /\ \A z \in L : (\A w \in S : CustomerId[w.event] # CustomerId[z.event]) => z \in T
           /\ \A v \in T, w \in S : CustomerId[v.event] = CustomerId[w.event] =>
                 \E z \in VersionsOf(L, CustomerId[w.event]) : z.current /\ z.address = w.address
PROOF
<1>1. PICK h \in [T -> C] : Closes(h, T, S, C)
  BY ClosePriorVersions
<1>2. /\ C = {h[v] : v \in T}
      /\ \A v \in T :
            /\ h[v].key = v.key /\ h[v].event = v.event /\ h[v].address = v.address /\ h[v].from = v.from
            /\ Moves(T, S, v) = {} => h[v] = v
            /\ \A w \in Moves(T, S, v) : h[v].to = Time[w.address] /\ h[v].current = FALSE
  BY <1>1 DEF Closes, SameStart
<1>3. /\ C \subseteq L /\ Keyed(C) /\ Keyed(L)
      /\ \A z \in L \ C : \E v \in T : \E w \in Moves(T, S, v) : MovedTo(z, w)
      /\ \A v \in T : \A w \in Moves(T, S, v) : \E z \in L \ C : MovedTo(z, w)
      /\ \A y, z \in L \ C : CustomerId[y.event] = CustomerId[z.event] => y = z
  BY InsertedVersions
<1>4. L \subseteq Versions /\ IsFiniteSet(L)
  <2>1. C \subseteq Versions /\ IsFiniteSet(C)
    BY ClosePriorFacts DEF Good, Selection
  <2> QED BY <2>1, InsertVersionFacts DEF Selection
<1>5. ASSUME NEW v \in T, NEW w \in Moves(T, S, v)
      PROVE  /\ v.current /\ w \in S /\ CustomerId[v.event] = CustomerId[w.event]
             /\ w.address \in Written("address") /\ AddressOf[w.address] = AddressOf[w.event]
             /\ v.from < Time[w.address] /\ Time[w.address] < EndOfTime /\ Time[w.address] \in Nat
  <2>1. /\ v.current /\ w \in S /\ CustomerId[v.event] = CustomerId[w.event]
        /\ w.address \in Written("address") /\ AddressOf[w.address] = AddressOf[w.event]
        /\ v.from < Time[w.address] /\ Time[w.address] < EndOfTime
    BY MoveTime
  <2>2. Time[w.address] \in Nat
    BY <2>1, StoreFacts, RowsFacts
  <2> QED BY <2>1, <2>2
<1>6. ASSUME NEW v \in T, NEW u \in T, CustomerId[u.event] = CustomerId[v.event], v.current, u # v
      PROVE  ~u.current /\ u.to <= v.from /\ Moves(T, S, u) = {} /\ h[u] = u
  <2>1. ~u.current /\ u.to <= v.from
    <3>1. u \in VersionsOf(T, CustomerId[v.event])
      BY <1>6 DEF VersionsOf
    <3> QED BY <1>6, <3>1, CurrentIsMostRecent
  <2>2. Moves(T, S, u) = {}
    BY <1>5, <2>1
  <2> QED BY <1>2, <2>1, <2>2
<1>7. \A v \in T : /\ v.from \in Nat /\ v.to \in Nat /\ v.current \in BOOLEAN /\ v.from < v.to
                   /\ (v.current <=> v.to = EndOfTime) /\ v.to <= EndOfTime
  <2>1. EndOfTime \in Nat
    BY RowsFacts
  <2>2. \A v \in T : v.from < v.to /\ (v.current <=> v.to = EndOfTime)
    BY DEF Good, Sequence
  <2>3. \A v \in T : v.from \in Nat /\ v.to \in Nat /\ v.current \in BOOLEAN /\ v.to <= EndOfTime
    BY <2>1 DEF Good, Versions
  <2> QED BY <2>2, <2>3
<1>8. EndOfTime \in Nat
  BY RowsFacts
<1>9. \A z \in C : \E v \in T : z = h[v]
  BY <1>2
<1>10. \A v \in T : h[v] \in L /\ h[v] \in C
  BY <1>3
\* The three kinds of versions: kept, closed and new.
<1>11. ASSUME NEW z \in L
       PROVE  \/ z \in T /\ Moves(T, S, z) = {} /\ h[z] = z
              \/ \E v \in T : \E w \in Moves(T, S, v) : z = h[v]
              \/ z \in L \ C /\ \E v \in T : \E w \in Moves(T, S, v) : MovedTo(z, w)
  <2>1. CASE z \in L \ C
    BY <1>3, <2>1
  <2>2. CASE z \in C
    <3>1. PICK v \in T : z = h[v]
      BY <1>9, <2>2
    <3> QED BY <1>2, <3>1
  <2> QED BY <2>1, <2>2
<1>12. ASSUME NEW z \in T, Moves(T, S, z) = {}, h[z] = z
       PROVE  /\ z.from < z.to
              /\ z.current <=> z.to = EndOfTime
              /\ z.current \/ \E u \in VersionsOf(L, CustomerId[z.event]) : u.from = z.to
              /\ \A u \in VersionsOf(L, CustomerId[z.event]) :
                    u.key # z.key => u.to <= z.from \/ z.to <= u.from
  <2>1. ASSUME ~z.current
        PROVE  \E u \in VersionsOf(L, CustomerId[z.event]) : u.from = z.to
    <3>1. PICK u \in VersionsOf(T, CustomerId[z.event]) : u.from = z.to
      BY <2>1 DEF Good, Sequence
    <3>2. h[u].from = z.to /\ h[u] \in VersionsOf(L, CustomerId[z.event])
      BY <1>2, <1>10, <3>1 DEF VersionsOf
    <3> QED BY <3>2
  <2>2. ASSUME NEW u \in VersionsOf(L, CustomerId[z.event]), u.key # z.key
        PROVE  u.to <= z.from \/ z.to <= u.from
    <3>1. u \in L /\ CustomerId[u.event] = CustomerId[z.event]
      BY DEF VersionsOf
    <3>2. CASE u \in T
      BY <2>2, <3>1, <3>2 DEF Good, Sequence, VersionsOf
    <3>3. ASSUME NEW v \in T, NEW w \in Moves(T, S, v), u = h[v] \/ MovedTo(u, w)
          PROVE  z.to <= u.from
      <4>1. CustomerId[v.event] = CustomerId[z.event] /\ v.current
        <5>1. CustomerId[v.event] = CustomerId[w.event] /\ v.current
          BY <1>5
        <5>2. u.event = v.event \/ u.event = w.event
          BY <1>2, <3>3 DEF MovedTo
        <5> QED BY <3>1, <5>1, <5>2
      <4>2. z # v
        BY <1>12
      <4>3. z.to <= v.from
        BY <1>6, <4>1, <4>2
      <4>4. u.from = v.from \/ (u.from = Time[w.address] /\ v.from < Time[w.address])
        BY <1>2, <1>5, <3>3 DEF MovedTo
      <4>5. Time[w.address] \in Nat
        BY <1>5
      <4> QED BY <1>7, <4>3, <4>4, <4>5
    <3> QED BY <1>11, <3>1, <3>2, <3>3
  <2> QED BY <1>7, <2>1, <2>2
<1>13. ASSUME NEW v \in T, NEW w \in Moves(T, S, v), NEW z, z = h[v]
       PROVE  /\ z.from < z.to
              /\ z.current <=> z.to = EndOfTime
              /\ z.current \/ \E u \in VersionsOf(L, CustomerId[z.event]) : u.from = z.to
              /\ \A u \in VersionsOf(L, CustomerId[z.event]) :
                    u.key # z.key => u.to <= z.from \/ z.to <= u.from
  <2>1. /\ z.key = v.key /\ z.event = v.event /\ z.from = v.from
        /\ z.to = Time[w.address] /\ z.current = FALSE
    BY <1>2, <1>13
  <2>2. /\ v.current /\ CustomerId[v.event] = CustomerId[w.event] /\ w \in S
        /\ v.from < Time[w.address] /\ Time[w.address] < EndOfTime /\ Time[w.address] \in Nat
    BY <1>5
  <2>3. PICK n \in L \ C : MovedTo(n, w)
    BY <1>3
  <2>4. n \in VersionsOf(L, CustomerId[z.event]) /\ n.from = z.to
    BY <2>1, <2>2, <2>3 DEF MovedTo, VersionsOf
  <2>5. ASSUME NEW u \in VersionsOf(L, CustomerId[z.event]), u.key # z.key
        PROVE  u.to <= z.from \/ z.to <= u.from
    <3>1. u \in L /\ CustomerId[u.event] = CustomerId[v.event]
      BY <2>1 DEF VersionsOf
    <3>2. CASE u \in T
      <4>1. u # v
        BY <2>1, <2>5
      <4> QED BY <1>6, <2>1, <2>2, <3>1, <3>2, <4>1
    <3>3. ASSUME NEW t \in T, NEW x \in Moves(T, S, t), u = h[t]
          PROVE  FALSE
      <4>1. t.current /\ u.event = t.event /\ u.key = t.key
        BY <1>2, <1>5, <3>3
      <4>2. t = v
        BY <1>6, <2>2, <3>1, <4>1
      <4> QED BY <2>1, <2>5, <4>1, <4>2
    <3>4. CASE u \in L \ C
      <4>1. u = n
        BY <1>3, <2>1, <2>4, <3>1, <3>4 DEF VersionsOf
      <4> QED BY <2>1, <2>2, <2>4, <4>1
    <3> QED BY <1>11, <3>1, <3>2, <3>3, <3>4
  <2> QED BY <2>1, <2>2, <2>4, <2>5
<1>14. ASSUME NEW v \in T, NEW w \in Moves(T, S, v), NEW z \in L \ C, MovedTo(z, w)
       PROVE  /\ z.from < z.to
              /\ z.current <=> z.to = EndOfTime
              /\ z.current \/ \E u \in VersionsOf(L, CustomerId[z.event]) : u.from = z.to
              /\ \A u \in VersionsOf(L, CustomerId[z.event]) :
                    u.key # z.key => u.to <= z.from \/ z.to <= u.from
  <2>1. z.event = w.event /\ z.from = Time[w.address] /\ z.to = EndOfTime /\ z.current = TRUE
    BY <1>14 DEF MovedTo
  <2>2. /\ v.current /\ CustomerId[v.event] = CustomerId[w.event]
        /\ v.from < Time[w.address] /\ Time[w.address] < EndOfTime /\ Time[w.address] \in Nat
    BY <1>5
  <2>3. ASSUME NEW u \in VersionsOf(L, CustomerId[z.event]), u.key # z.key
        PROVE  u.to <= z.from \/ z.to <= u.from
    <3>1. u \in L /\ CustomerId[u.event] = CustomerId[v.event]
      BY <2>1, <2>2 DEF VersionsOf
    <3>2. ASSUME u \in T, Moves(T, S, u) = {}
          PROVE  u.to <= z.from
      <4>1. u # v
        BY <3>2
      <4>2. u.to <= v.from
        BY <1>6, <2>2, <3>1, <3>2, <4>1
      <4> QED BY <1>7, <2>1, <2>2, <3>2, <4>2
    <3>3. ASSUME NEW t \in T, NEW x \in Moves(T, S, t), u = h[t]
          PROVE  u.to <= z.from
      <4>1. t.current /\ u.event = t.event /\ u.to = Time[x.address]
        BY <1>2, <1>5, <3>3
      <4>2. t = v
        BY <1>6, <2>2, <3>1, <4>1
      <4>3. x = w
        BY <1>5, <4>2 DEF Selection
      <4> QED BY <2>1, <2>2, <4>1, <4>3
    <3>4. CASE u \in L \ C
      <4>1. CustomerId[u.event] = CustomerId[z.event]
        BY DEF VersionsOf
      <4> QED BY <1>3, <2>3, <3>4, <4>1
    <3> QED BY <1>11, <3>1, <3>2, <3>3, <3>4
  <2> QED BY <2>1, <2>2, <2>3
<1>15. Sequence(L)
  <2> SUFFICES ASSUME NEW z \in L
               PROVE  /\ z.from < z.to
                      /\ z.current <=> z.to = EndOfTime
                      /\ z.current \/ \E u \in VersionsOf(L, CustomerId[z.event]) : u.from = z.to
                      /\ \A u \in VersionsOf(L, CustomerId[z.event]) :
                            u.key # z.key => u.to <= z.from \/ z.to <= u.from
    BY DEF Sequence
  <2> QED BY <1>11, <1>12, <1>13, <1>14
<1>16. ASSUME NEW v \in T
       PROVE  \E u \in VersionsOf(L, CustomerId[v.event]) : u.current
  <2>1. PICK t \in VersionsOf(T, CustomerId[v.event]) : t.current
    BY DEF Good, Dated
  <2>2. t \in T /\ CustomerId[t.event] = CustomerId[v.event]
    BY DEF VersionsOf
  <2>3. CASE Moves(T, S, t) = {}
    BY <1>2, <1>10, <2>1, <2>2, <2>3 DEF VersionsOf
  <2>4. CASE Moves(T, S, t) # {}
    <3>1. PICK w \in Moves(T, S, t) : TRUE
      BY <2>4
    <3>2. PICK z \in L \ C : MovedTo(z, w)
      BY <1>3, <2>2, <3>1
    <3>3. CustomerId[t.event] = CustomerId[w.event]
      BY <1>5, <2>2, <3>1
    <3> QED BY <2>2, <3>2, <3>3 DEF MovedTo, VersionsOf
  <2> QED BY <2>3, <2>4
<1>17. Dated(L)
  <2>1. ASSUME NEW v \in T, NEW z, z.event = v.event, z.address = v.address, z.from = v.from
        PROVE  /\ z.address # Unknown => /\ z.address \in Written("address")
                                         /\ AddressOf[z.address] = AddressOf[z.event]
               /\ \A x \in AddressEvents :
                     /\ AddressOf[x] = AddressOf[z.event]
                     /\ z.address = Unknown \/ Run[z.address] < Run[x]
                     => z.from < Time[x]
               /\ \E u \in VersionsOf(L, CustomerId[z.event]) : u.current
    BY <1>16, <2>1 DEF Good, Dated
  <2>2. ASSUME NEW v \in T, NEW w \in Moves(T, S, v), NEW z \in L, MovedTo(z, w)
        PROVE  /\ z.address # Unknown => /\ z.address \in Written("address")
                                         /\ AddressOf[z.address] = AddressOf[z.event]
               /\ \A x \in AddressEvents :
                     /\ AddressOf[x] = AddressOf[z.event]
                     /\ z.address = Unknown \/ Run[z.address] < Run[x]
                     => z.from < Time[x]
               /\ \E u \in VersionsOf(L, CustomerId[z.event]) : u.current
    <3>1. z.event = w.event /\ z.address = w.address /\ z.from = Time[w.address] /\ z.current = TRUE
      BY <2>2 DEF MovedTo
    <3>2. /\ w.address \in Written("address") /\ AddressOf[w.address] = AddressOf[w.event]
          /\ w.address \in AddressEvents /\ w.address # Unknown
      BY <1>5, StoreFacts, RowsFacts
    <3>3. \A x \in AddressEvents :
             AddressOf[x] = AddressOf[w.event] /\ Run[w.address] < Run[x] => Time[w.address] < Time[x]
      BY <3>2 DEF AddressesInOrder
    <3>4. z \in VersionsOf(L, CustomerId[z.event])
      BY DEF VersionsOf
    <3> QED BY <3>1, <3>2, <3>3, <3>4
  <2>3. \A z \in L : \/ \E v \in T : z.event = v.event /\ z.address = v.address /\ z.from = v.from
                     \/ \E v \in T : \E w \in Moves(T, S, v) : MovedTo(z, w)
    BY <1>2, <1>11
  <2> SUFFICES ASSUME NEW z \in L
               PROVE  /\ z.address # Unknown => /\ z.address \in Written("address")
                                                /\ AddressOf[z.address] = AddressOf[z.event]
                      /\ \A x \in AddressEvents :
                            /\ AddressOf[x] = AddressOf[z.event]
                            /\ z.address = Unknown \/ Run[z.address] < Run[x]
                            => z.from < Time[x]
                      /\ \E u \in VersionsOf(L, CustomerId[z.event]) : u.current
    BY DEF Dated
  <2> QED BY <2>1, <2>2, <2>3
<1>18. ASSUME NEW v \in T, \A w \in S : CustomerId[w.event] # CustomerId[v.event]
       PROVE  v \in L
  <2>1. Moves(T, S, v) = {}
    BY <1>5, <1>18
  <2> QED BY <1>2, <1>10, <2>1
<1>19. ASSUME NEW z \in L, \A w \in S : CustomerId[w.event] # CustomerId[z.event]
       PROVE  z \in T
  <2>1. ASSUME NEW v \in T, NEW w \in Moves(T, S, v), z = h[v] \/ MovedTo(z, w)
        PROVE  FALSE
    <3>1. CustomerId[v.event] = CustomerId[w.event] /\ w \in S
      BY <1>5
    <3>2. z.event = v.event \/ z.event = w.event
      BY <1>2, <2>1 DEF MovedTo
    <3> QED BY <1>19, <3>1, <3>2
  <2> QED BY <1>11, <2>1
<1>20. ASSUME NEW v \in T, NEW w \in S, CustomerId[v.event] = CustomerId[w.event]
       PROVE  \E z \in VersionsOf(L, CustomerId[w.event]) : z.current /\ z.address = w.address
  <2>1. PICK t \in VersionsOf(T, CustomerId[v.event]) : t.current
    BY DEF Good, Dated
  <2>2. t \in T /\ CustomerId[t.event] = CustomerId[w.event] /\ MostRecent(T, t)
    BY <1>20, <2>1, CurrentIsMostRecent DEF VersionsOf
  <2>3. CASE t.address = w.address
    <3>1. Moves(T, S, t) = {}
      <4> SUFFICES ASSUME NEW x \in Moves(T, S, t) PROVE FALSE
        OBVIOUS
      <4>1. x \in S /\ CustomerId[t.event] = CustomerId[x.event] /\ t.address # x.address
        BY DEF Moves, Matches
      <4>2. x = w
        BY <2>2, <4>1 DEF Selection
      <4> QED BY <2>3, <4>1, <4>2
    <3>2. t \in VersionsOf(L, CustomerId[w.event])
      BY <1>2, <1>10, <2>2, <3>1 DEF VersionsOf
    <3> QED BY <2>1, <2>3, <3>2
  <2>4. CASE t.address # w.address
    <3>1. w \in Moves(T, S, t)
      BY <2>2, <2>4 DEF Moves, Matches
    <3>2. PICK z \in L \ C : MovedTo(z, w)
      BY <1>3, <2>2, <3>1
    <3> QED BY <3>2 DEF MovedTo, VersionsOf
  <2> QED BY <2>3, <2>4
<1> QED BY <1>3, <1>4, <1>15, <1>17, <1>18, <1>19, <1>20 DEF Good

\* Rows that a load of D has nothing to do for.
Redundant(V, D) ==
    \A w \in V :
        /\ VersionsOf(D, CustomerId[w.event]) # {}
        /\ \A v \in VersionsOf(D, CustomerId[w.event]) :
              v.event = w.event /\ (v.current => v.address = w.address)

\* UpdateType1 leaves the versions of customers without a row.
LEMMA UpdateType1Leaves ==
    ASSUME NEW D, Good(D), NEW W, W \subseteq WorkRows
    PROVE  /\ \A v \in D : (\A w \in W : CustomerId[w.event] # CustomerId[v.event]) =>
                 v \in UpdateType1(D, W)
           /\ \A z \in UpdateType1(D, W) :
                 (\A w \in W : CustomerId[w.event] # CustomerId[z.event]) => z \in D
PROOF
<1> DEFINE event(v) == IF Changes(W, v) = {} THEN v.event ELSE CHOOSE e \in Changes(W, v) : TRUE
           typed(v) == [v EXCEPT !.event = event(v)]
<1>1. UpdateType1(D, W) = {typed(v) : v \in D}
  BY DEF UpdateType1
<1>2. ASSUME NEW v \in D, \A w \in W : CustomerId[w.event] # CustomerId[v.event]
      PROVE  typed(v) = v
  <2>1. Changes(W, v) = {}
    BY <1>2 DEF Changes, Matches
  <2>2. event(v) = v.event
    BY <2>1
  <2> HIDE DEF event
  <2> QED BY <2>2 DEF Good, Versions
<1>3. ASSUME NEW v \in D
      PROVE  CustomerId[typed(v).event] = CustomerId[v.event]
  <2>1. Changes(W, v) # {} => event(v) \in Changes(W, v)
    OBVIOUS
  <2>2. \A e \in Changes(W, v) : CustomerId[e] = CustomerId[v.event]
    BY DEF Changes, Matches
  <2>3. CustomerId[event(v)] = CustomerId[v.event]
    BY <2>1, <2>2
  <2> HIDE DEF event
  <2> QED BY <2>3 DEF Good, Versions
<1> HIDE DEF typed
<1>4. \A v \in D : typed(v) \in UpdateType1(D, W)
  BY <1>1
<1>5. \A z \in UpdateType1(D, W) : \E v \in D : z = typed(v)
  BY <1>1
<1> QED BY <1>2, <1>3, <1>4, <1>5

\* A load leaves a good dimension, in which the customers it has rows of are up to
\* date and the others are as they were.
LEMMA LoadDimensionGood ==
    ASSUME AddressesInOrder, AddressesYounger, runs["address"] \in Nat,
           NEW D, Good(D), NEW S, Selection(S), NEW L, L = LoadDimension(D, S)
    PROVE  /\ Good(L)
           /\ Redundant(S, L)
           /\ \A w \in S : \E z \in VersionsOf(L, CustomerId[w.event]) :
                 z.current /\ z.address = w.address
           /\ \A c \in Customers : (\A w \in S : CustomerId[w.event] # c) =>
                 VersionsOf(L, c) = VersionsOf(D, c)
PROOF
<1>1. PICK N : N = InsertNew(D, S)
  OBVIOUS
<1>2. PICK T : T = UpdateType1(N, S)
  OBVIOUS
<1>3. PICK C : C = ClosePrior(T, S)
  OBVIOUS
<1>4. L = InsertVersion(C, S)
  BY <1>1, <1>2, <1>3 DEF LoadDimension
<1>5. S \subseteq WorkRows /\ IsFiniteSet(S) /\ D \subseteq Versions /\ IsFiniteSet(D) /\ Agree(S)
  BY DEF Selection, Good, Agree
<1>6. Good(N) /\ D \subseteq N
  BY <1>1, InsertNewGood
<1>7. /\ \A v \in N \ D : \E w \in S : v.event = w.event
      /\ \A w \in S : VersionsOf(N, CustomerId[w.event]) # {}
  BY <1>1, <1>5, InsertNewFacts
<1>8. Good(T)
  BY <1>2, <1>5, <1>6, UpdateType1Good
<1>9. /\ \A v \in N : (\A w \in S : CustomerId[w.event] # CustomerId[v.event]) => v \in T
      /\ \A z \in T : (\A w \in S : CustomerId[w.event] # CustomerId[z.event]) => z \in N
  BY <1>2, <1>5, <1>6, UpdateType1Leaves
<1>10. \A u \in N : \E v \in T : CustomerId[v.event] = CustomerId[u.event]
  BY <1>2, <1>5, <1>6, UpdateType1Facts DEF Good
<1>11. /\ Good(L)
       /\ \A v \in T : (\A w \in S : CustomerId[w.event] # CustomerId[v.event]) => v \in L
       /\ \A z \in L : (\A w \in S : CustomerId[w.event] # CustomerId[z.event]) => z \in T
       /\ \A v \in T, w \in S : CustomerId[v.event] = CustomerId[w.event] =>
             \E z \in VersionsOf(L, CustomerId[w.event]) : z.current /\ z.address = w.address
  BY <1>3, <1>4, <1>8, MovedGood
<1>12. ASSUME NEW w \in S
       PROVE  \E z \in VersionsOf(L, CustomerId[w.event]) : z.current /\ z.address = w.address
  <2>1. PICK u \in N : CustomerId[u.event] = CustomerId[w.event]
    BY <1>7 DEF VersionsOf
  <2>2. PICK v \in T : CustomerId[v.event] = CustomerId[u.event]
    BY <1>10
  <2> QED BY <1>11, <2>1, <2>2
<1>13. ASSUME NEW c, \A w \in S : CustomerId[w.event] # c
       PROVE  VersionsOf(L, c) = VersionsOf(D, c)
  <2>1. \A v \in D : CustomerId[v.event] = c => v \in L
    BY <1>6, <1>9, <1>11, <1>13
  <2>2. \A z \in L : CustomerId[z.event] = c => z \in D
    BY <1>7, <1>9, <1>11, <1>13
  <2> QED BY <2>1, <2>2 DEF VersionsOf
<1>14. \A v \in L, w \in S : CustomerId[v.event] = CustomerId[w.event] => v.event = w.event
  BY <1>5, LoadDimensionEvents
<1>15. Redundant(S, L)
  <2> SUFFICES ASSUME NEW w \in S, NEW v \in VersionsOf(L, CustomerId[w.event])
               PROVE  v.event = w.event /\ (v.current => v.address = w.address)
    BY <1>12 DEF Redundant
  <2>1. v \in L /\ CustomerId[v.event] = CustomerId[w.event]
    BY DEF VersionsOf
  <2>2. PICK z \in VersionsOf(L, CustomerId[w.event]) : z.current /\ z.address = w.address
    BY <1>12
  <2>3. v.current => v = z
    <3>1. v \in VersionsOf(L, CustomerId[z.event]) /\ z \in L
      BY <2>1, <2>2 DEF VersionsOf
    <3> QED BY <1>11, <2>2, <3>1, CurrentIsMostRecent
  <2> QED BY <1>14, <2>1, <2>2, <2>3
<1> QED BY <1>11, <1>12, <1>13, <1>15

\* Redundant rows in the work table change neither what the updates do nor the result.
LEMMA RedundantRows ==
    ASSUME AddressesInOrder, AddressesYounger, runs["address"] \in Nat,
           NEW D, Good(D), NEW S, Selection(S), NEW V, V \subseteq WorkRows, Redundant(V, D),
           NEW T, T = UpdateType1(InsertNew(D, S), S)
    PROVE  /\ \A v \in D : Changes(V \cup S, v) = Changes(S, v)
           /\ T = UpdateType1(InsertNew(D, V \cup S), V \cup S)
           /\ \A v \in T : Moves(T, V \cup S, v) = Moves(T, S, v)
           /\ LoadDimension(D, V \cup S) = LoadDimension(D, S)
PROOF
<1> DEFINE W == V \cup S
<1>1. PICK N : N = InsertNew(D, S)
  OBVIOUS
<1>2. S \subseteq WorkRows /\ W \subseteq WorkRows
  BY DEF Selection
<1>3. N = InsertNew(D, W)
  <2> DEFINE U(X) == {u \in X : VersionsOf(D, CustomerId[u.event]) = {}}
  <2>1. U(W) = U(S)
    BY DEF Redundant
  <2>2. /\ InsertNew(D, S) = D \cup Numbered(D, {[row |-> w, from |-> Time[w.event]] : w \in U(S)})
        /\ InsertNew(D, W) = D \cup Numbered(D, {[row |-> w, from |-> Time[w.event]] : w \in U(W)})
    BY DEF InsertNew
  <2> HIDE DEF U, W
  <2> QED BY <1>1, <2>1, <2>2
<1>4. Good(N) /\ D \subseteq N /\ \A v \in N \ D : VersionsOf(D, CustomerId[v.event]) = {}
  BY <1>1, InsertNewGood
<1>5. ASSUME NEW v \in N, NEW u \in V, CustomerId[v.event] = CustomerId[u.event]
      PROVE  v.event = u.event /\ (v.current => v.address = u.address)
  <2>1. v \in D
    BY <1>4, <1>5 DEF Redundant
  <2> QED BY <1>5, <2>1 DEF Redundant, VersionsOf
<1>6. \A v \in N : Changes(W, v) = Changes(S, v)
  BY <1>5 DEF Changes, Matches
<1> HIDE DEF W
<1>7. T = UpdateType1(N, W)
  <2> DEFINE typed(X, v) ==
        [v EXCEPT !.event = IF Changes(X, v) = {} THEN v.event ELSE CHOOSE e \in Changes(X, v) : TRUE]
  <2>1. /\ UpdateType1(N, S) = {typed(S, v) : v \in N}
        /\ UpdateType1(N, W) = {typed(W, v) : v \in N}
    BY DEF UpdateType1
  <2>2. \A v \in N : typed(S, v) = typed(W, v)
    BY <1>6
  <2> HIDE DEF typed
  <2> QED BY <1>1, <2>1, <2>2
<1>8. Good(T)
  BY <1>1, <1>2, <1>4, UpdateType1Good
<1>9. ASSUME NEW v \in T, NEW u \in V, CustomerId[v.event] = CustomerId[u.event], v.current
      PROVE  v.address = u.address
  <2>1. T = UpdateType1(N, S)
    BY <1>1
  <2>2. PICK g \in [N -> T] : T = {g[x] : x \in N} /\ \A x \in N : SameVersion(g[x], x)
    BY <1>2, <1>4, <2>1, UpdateType1Same DEF Good
  <2>3. PICK x \in N : v = g[x]
    BY <2>2
  <2>4. SameVersion(v, x)
    BY <2>2, <2>3
  <2> QED BY <1>5, <1>9, <2>4 DEF SameVersion
<1>10. ASSUME NEW v \in T
       PROVE  Moves(T, W, v) = Moves(T, S, v)
  <2>1. \A u \in V : ~(Matches(v, u) /\ MostRecent(T, v) /\ v.address # u.address)
    BY <1>8, <1>9, CurrentIsMostRecent DEF Matches
  <2> QED BY <2>1 DEF Moves, W
<1>11. PICK C : C = ClosePrior(T, S)
  OBVIOUS
<1>12. C = ClosePrior(T, W)
  <2> DEFINE closed(M, v) ==
        IF M = {} THEN v
        ELSE [v EXCEPT !.to = CHOOSE t \in {AddressTime(w.address) : w \in M} : TRUE, !.current = FALSE]
  <2>1. /\ ClosePrior(T, S) = {closed(Moves(T, S, v), v) : v \in T}
        /\ ClosePrior(T, W) = {closed(Moves(T, W, v), v) : v \in T}
    BY DEF ClosePrior
  <2> HIDE DEF closed
  <2>2. {closed(Moves(T, S, v), v) : v \in T} = {closed(Moves(T, W, v), v) : v \in T}
    BY <1>10
  <2> QED BY <1>11, <2>1, <2>2
<1>13. ASSUME NEW c \in C
       PROVE  Moves(C, W, c) = Moves(C, S, c)
  <2>1. PICK h \in [T -> C] : Closes(h, T, S, C)
    BY <1>8, <1>11, ClosePriorVersions
  <2>2. PICK v \in T : c = h[v]
    BY <2>1 DEF Closes
  <2>3. c.event = v.event /\ c.address = v.address /\ (MostRecent(C, c) <=> MostRecent(T, v))
    BY <2>1, <2>2 DEF Closes, SameStart
  <2>4. \A u \in V : ~(Matches(c, u) /\ MostRecent(C, c) /\ c.address # u.address)
    BY <1>8, <1>9, <2>3, CurrentIsMostRecent DEF Matches
  <2> QED BY <2>4 DEF Moves, W
<1>14. InsertVersion(C, W) = InsertVersion(C, S)
  <2> DEFINE nexts(X, c) == {[row |-> w, from |-> AddressTime(w.address), prior |-> c.key] :
                                w \in Moves(C, X, c)}
  <2>1. /\ InsertVersion(C, S) = C \cup Numbered(C, UNION {nexts(S, c) : c \in C})
        /\ InsertVersion(C, W) = C \cup Numbered(C, UNION {nexts(W, c) : c \in C})
    BY DEF InsertVersion
  <2>2. \A c \in C : nexts(S, c) = nexts(W, c)
    BY <1>13
  <2> HIDE DEF nexts
  <2>3. {nexts(S, c) : c \in C} = {nexts(W, c) : c \in C}
    BY <2>2
  <2> QED BY <2>1, <2>3
<1>15. LoadDimension(D, W) = InsertVersion(C, W) /\ LoadDimension(D, S) = InsertVersion(C, S)
  BY <1>1, <1>3, <1>7, <1>11, <1>12 DEF LoadDimension
<1> QED BY <1>1, <1>3, <1>4, <1>6, <1>7, <1>10, <1>14, <1>15 DEF W

-----------------------------------------------------------------------------
(***************************************************************************)
(* The dimension in every state, when calls do not overlap or two run at a *)
(* time at most.  Then the rows that a load finds in the work table are    *)
(* those of the one call it overlaps, which has loaded them: they have     *)
(* nothing more to say, and what the load does is what it would do alone.  *)
(***************************************************************************)

Few == ~overlapped \/ MaxRunning <= 2

\* What is promised of the rows up to the marks mc and ma: the customers are in the
\* dimension with their attributes, and their current version has the address.
Passed(D, mc, ma) ==
    \A e \in StoreCustomer : Run[e] <= mc =>
        /\ VersionsOf(D, CustomerId[e]) # {}
        /\ \A v \in VersionsOf(D, CustomerId[e]) : v.event = e
        /\ \A x \in StoreCustomerAddress : AddressOf[e] = AddressOf[x] /\ Run[x] <= ma =>
              \E v \in VersionsOf(D, CustomerId[e]) : v.current /\ v.address = x

\* The marks of a call have been reached by the Glue jobs, and those it starts from
\* have been loaded.
MarkInv(l) ==
    /\ mark[l].customerStart <= runs["customer"] /\ mark[l].addressStart <= runs["address"]
    /\ mark[l].customerEnd <= runs["customer"]
    /\ at[l] = "customers" => mark[l].addressEnd <= runs["address"]
    /\ Passed(customerDim, mark[l].customerStart, mark[l].addressStart)

\* So have those that are stored.
WatermarkInv ==
    /\ highWatermark["customer"] <= runs["customer"] /\ highWatermark["address"] <= runs["address"]
    /\ Passed(customerDim, highWatermark["customer"], highWatermark["address"])

RunningInv ==
    /\ IsFiniteSet(Running)
    /\ \A i, j, k \in Running : i = j \/ j = k \/ i = k
    /\ ~overlapped => \A i, j \in Running : i = j

WorkInv ==
    /\ \A l, k \in Loads : at[l] = "customers" /\ at[k] = "customers" => l = k \/ wrkCustomers = {}
    /\ (\E l \in Loads : at[l] = "customers") => Redundant(wrkCustomers, customerDim)

DimInv ==
    /\ RunningInv
    /\ WorkInv
    /\ Good(customerDim)
    /\ WatermarkInv
    /\ \A l \in Loads : at[l] \in {"truncate", "customers"} => MarkInv(l)

\* Loading what a call selects loads every row of the clean layer: what it does not
\* select was loaded before the call started.
LEMMA LoadPasses ==
    ASSUME AddressesInOrder, AddressesYounger, TypeInv, DimInv, NEW l \in Loads, at[l] = "customers",
           NEW L, L = LoadDimension(customerDim, wrkCustomers \cup SelectedCustomers(l)),
           NEW mc, NEW ma
    PROVE  /\ Good(L)
           /\ Redundant(SelectedCustomers(l), L)
           /\ Passed(L, mc, ma)
PROOF
<1>1. PICK S : S = SelectedCustomers(l)
  OBVIOUS
<1>2. Selection(S)
  BY <1>1, SelectedIsSelection
<1>3. runs["address"] \in Nat
  BY DEF TypeInv, TypeOK, Tables
<1>4. wrkCustomers \subseteq WorkRows
  BY DEF TypeInv, TypeOK, WorkRows
<1>5. Good(customerDim) /\ Redundant(wrkCustomers, customerDim)
  BY DEF DimInv, WorkInv
<1>6. L = LoadDimension(customerDim, S)
  <2>1. PICK T : T = UpdateType1(InsertNew(customerDim, S), S)
    OBVIOUS
  <2>2. LoadDimension(customerDim, wrkCustomers \cup S) = LoadDimension(customerDim, S)
    BY <1>2, <1>3, <1>4, <1>5, <2>1, RedundantRows
  <2> QED BY <1>1, <2>2
<1>7. /\ Good(L)
      /\ Redundant(S, L)
      /\ \A w \in S : \E z \in VersionsOf(L, CustomerId[w.event]) :
            z.current /\ z.address = w.address
      /\ \A c \in Customers : (\A w \in S : CustomerId[w.event] # c) =>
            VersionsOf(L, c) = VersionsOf(customerDim, c)
  <2>1. Good(L) /\ Redundant(S, L)
    BY <1>2, <1>3, <1>5, <1>6, LoadDimensionGood
  <2>2. \A w \in S : \E z \in VersionsOf(L, CustomerId[w.event]) :
           z.current /\ z.address = w.address
    BY <1>2, <1>3, <1>5, <1>6, LoadDimensionGood
  <2>3. \A c \in Customers : (\A w \in S : CustomerId[w.event] # c) =>
           VersionsOf(L, c) = VersionsOf(customerDim, c)
    BY <1>2, <1>3, <1>5, <1>6, LoadDimensionGood
  <2> QED BY <2>1, <2>2, <2>3
<1>8. Passed(customerDim, mark[l].customerStart, mark[l].addressStart)
  BY DEF DimInv, MarkInv
<1>9. mark[l].customerStart \in Nat /\ mark[l].addressStart \in Nat
  BY MarkTypes DEF Marks
<1>10. \A x, y \in StoreCustomerAddress : AddressOf[x] = AddressOf[y] => x = y
  BY StoreFacts
<1>11. ASSUME NEW e \in StoreCustomer
       PROVE  /\ VersionsOf(L, CustomerId[e]) # {}
              /\ \A v \in VersionsOf(L, CustomerId[e]) : v.event = e
              /\ \A x \in StoreCustomerAddress : AddressOf[e] = AddressOf[x] =>
                    \E v \in VersionsOf(L, CustomerId[e]) : v.current /\ v.address = x
  <2>1. e \in CustomerEvents /\ CustomerId[e] \in Customers /\ Run[e] \in Nat
    BY StoreFacts, RowsFacts
  <2>2. CASE \E w \in S : w.event = e
    <3>1. PICK w \in S : w.event = e
      BY <2>2
    <3>2. /\ VersionsOf(L, CustomerId[e]) # {}
          /\ \A v \in VersionsOf(L, CustomerId[e]) : v.event = e
      BY <1>7, <3>1 DEF Redundant
    <3>3. PICK z \in VersionsOf(L, CustomerId[e]) : z.current /\ z.address = w.address
      BY <1>7, <3>1
    <3>4. ASSUME NEW x \in StoreCustomerAddress, AddressOf[e] = AddressOf[x]
          PROVE  w.address = x
      <4>1. w.address \in AddressesOf(e)
        BY <1>2, <3>1 DEF Selection
      <4> QED BY <1>10, <3>4, <4>1 DEF AddressesOf
    <3> QED BY <3>2, <3>3, <3>4
  <2>3. CASE ~\E w \in S : w.event = e
    <3>1. VersionsOf(L, CustomerId[e]) = VersionsOf(customerDim, CustomerId[e])
      <4>1. \A w \in S : CustomerId[w.event] # CustomerId[e]
        BY <1>2, <2>3, StoreFacts DEF Selection
      <4> QED BY <1>7, <2>1, <4>1
    <3>2. Run[e] <= mark[l].customerStart
      BY <1>1, <1>9, <2>1, <2>3, SelectedCustomersFacts
    <3>3. ASSUME NEW x \in StoreCustomerAddress, AddressOf[e] = AddressOf[x]
          PROVE  Run[x] <= mark[l].addressStart
      <4>1. x \in AddressEvents /\ Run[x] \in Nat /\ x # Unknown
        BY StoreFacts, RowsFacts
      <4>2. x \in AddressesOf(e)
        BY <3>3 DEF AddressesOf
      <4>3. CASE Run[x] > mark[l].addressStart
        <5>1. [load |-> l, event |-> e, address |-> x] \in SelectedCustomers(l)
          BY <4>1, <4>2, <4>3 DEF SelectedCustomers
        <5> QED BY <1>1, <2>3, <5>1
      <4> QED BY <1>9, <4>1, <4>3
    <3> QED BY <1>8, <3>1, <3>2, <3>3 DEF Passed
  <2> QED BY <2>2, <2>3
<1>12. Passed(L, mc, ma)
  BY <1>11 DEF Passed
<1> QED BY <1>1, <1>7, <1>12

\* What a run of a Glue job adds is after every mark.
LEMMA CommitPassed ==
    ASSUME TypeInv, NEW t \in Tables, CommitRun(t), NEW D, NEW mc \in Nat, NEW ma \in Nat,
           mc <= runs["customer"], ma <= runs["address"], Passed(D, mc, ma)
    PROVE  Passed(D, mc, ma)'
PROOF
<1>1. /\ runs["customer"] \in Nat /\ runs'["customer"] \in Nat /\ runs["customer"] <= runs'["customer"]
      /\ runs["address"] \in Nat /\ runs'["address"] \in Nat /\ runs["address"] <= runs'["address"]
  BY DEF CommitRun, TypeInv, TypeOK, Tables
<1>2. /\ \A q : q \in Written("customer") <=> q \in CustomerEvents /\ Run[q] <= runs["customer"]
      /\ \A q : q \in Written("customer")' <=> q \in CustomerEvents /\ Run[q] <= runs'["customer"]
      /\ \A q : q \in Written("address") <=> q \in AddressEvents /\ Run[q] <= runs["address"]
      /\ \A q : q \in Written("address")' <=> q \in AddressEvents /\ Run[q] <= runs'["address"]
  BY RowsFacts DEF Written
<1>3. \A q \in CustomerEvents \cup AddressEvents : Run[q] \in Nat
  BY RowsFacts
<1>4. Written("customer") \subseteq Written("customer")' /\ Written("address") \subseteq Written("address")'
  BY <1>1, <1>2, <1>3
<1>5. ASSUME NEW e \in StoreCustomer', Run[e] <= mc
      PROVE  e \in StoreCustomer
  <2>1. e \in Written("customer")'
        /\ \A q \in Written("customer")' : CustomerId[q] = CustomerId[e] => Run[q] <= Run[e]
    BY DEF StoreCustomer, Latest
  <2>2. e \in Written("customer")
    BY <1>1, <1>2, <1>3, <1>5, <2>1
  <2> QED BY <1>4, <2>1, <2>2 DEF StoreCustomer, Latest
<1>6. ASSUME NEW x \in StoreCustomerAddress', Run[x] <= ma
      PROVE  x \in StoreCustomerAddress
  <2>1. x \in Written("address")'
        /\ \A q \in Written("address")' : AddressOf[q] = AddressOf[x] => Run[q] <= Run[x]
    BY DEF StoreCustomerAddress, Latest
  <2>2. x \in Written("address")
    BY <1>1, <1>2, <1>3, <1>6, <2>1
  <2> QED BY <1>4, <2>1, <2>2 DEF StoreCustomerAddress, Latest
<1> QED BY <1>5, <1>6 DEF Passed, VersionsOf

\* It leaves the invariant, for it only adds rows.
LEMMA CommitDimInv ==
    ASSUME TypeInv, DimInv, NEW t \in Tables, CommitRun(t)
    PROVE  DimInv'
PROOF
<1>1. UNCHANGED <<at, mark, highWatermark, wrkCustomers, customerDim, overlapped>>
  BY DEF CommitRun, tableVars
<1>2. PICK nc \in Nat, na \in Nat, c \in Nat, a \in Nat :
         /\ nc = runs["customer"] /\ na = runs["address"]
         /\ c = runs'["customer"] /\ a = runs'["address"] /\ nc <= c /\ na <= a
  BY DEF CommitRun, TypeInv, TypeOK, Tables
<1>3. Good(customerDim)'
  <2>1. Written("address") \subseteq Written("address")'
    <3>1. /\ \A q : q \in Written("address") <=> q \in AddressEvents /\ Run[q] <= na
          /\ \A q : q \in Written("address")' <=> q \in AddressEvents /\ Run[q] <= a
      BY <1>2, RowsFacts DEF Written
    <3>2. \A q \in AddressEvents : Run[q] \in Nat
      BY RowsFacts
    <3> QED BY <1>2, <3>1, <3>2
  <2>2. Dated(customerDim)'
    BY <1>1, <2>1 DEF DimInv, Good, Dated, VersionsOf
  <2> QED BY <1>1, <2>2 DEF DimInv, Good, Keyed, Sequence, VersionsOf
<1>4. WatermarkInv'
  <2>1. PICK mc \in Nat, ma \in Nat : mc = highWatermark["customer"] /\ ma = highWatermark["address"]
    BY DEF TypeInv, TypeOK, Tables
  <2>2. mc <= nc /\ ma <= na /\ Passed(customerDim, mc, ma)
    BY <1>2, <2>1 DEF DimInv, WatermarkInv
  <2>3. PICK D : D = customerDim
    OBVIOUS
  <2>4. Passed(D, mc, ma)'
    BY <1>2, <2>2, <2>3, CommitPassed
  <2>5. Passed(customerDim, highWatermark["customer"], highWatermark["address"])'
    BY <1>1, <2>1, <2>3, <2>4 DEF Passed
  <2> QED BY <1>1, <1>2, <2>1, <2>2, <2>5 DEF WatermarkInv
<1>5. ASSUME NEW l \in Loads, at[l] \in {"truncate", "customers"}
      PROVE  MarkInv(l)'
  <2>1. PICK mc \in Nat, ma \in Nat, ec \in Nat, ea \in Nat :
           /\ mc = mark[l].customerStart /\ ma = mark[l].addressStart
           /\ ec = mark[l].customerEnd /\ ea = mark[l].addressEnd
    BY MarkTypes DEF Marks
  <2>2. mc <= nc /\ ma <= na /\ ec <= nc /\ (at[l] = "customers" => ea <= na)
        /\ Passed(customerDim, mc, ma)
    BY <1>2, <1>5, <2>1 DEF DimInv, MarkInv
  <2>3. PICK D : D = customerDim
    OBVIOUS
  <2>4. Passed(D, mc, ma)'
    BY <1>2, <2>2, <2>3, CommitPassed
  <2>5. Passed(customerDim, mark[l].customerStart, mark[l].addressStart)'
    BY <1>1, <2>1, <2>3, <2>4 DEF Passed
  <2> QED BY <1>1, <1>2, <2>1, <2>2, <2>5 DEF MarkInv
<1>6. RunningInv' /\ WorkInv'
  BY <1>1 DEF DimInv, RunningInv, WorkInv, Running, Redundant, VersionsOf
<1> QED BY <1>1, <1>3, <1>4, <1>5, <1>6 DEF DimInv

\* What the steps share that leave the dimension and the clean layer alone.
LEMMA SameDim ==
    ASSUME DimInv, UNCHANGED <<runs, customerDim>>,
           highWatermark'["customer"] = highWatermark["customer"],
           highWatermark'["address"] = highWatermark["address"]
    PROVE  Good(customerDim)' /\ WatermarkInv'
PROOF
<1>1. Written("address")' = Written("address") /\ Written("customer")' = Written("customer")
  BY DEF Written, Rows
<1>2. StoreCustomer' = StoreCustomer /\ StoreCustomerAddress' = StoreCustomerAddress
  BY <1>1 DEF StoreCustomer, StoreCustomerAddress, Latest
<1>3. Good(customerDim)'
  BY <1>1 DEF DimInv, Good, Keyed, Sequence, Dated, VersionsOf
<1>4. WatermarkInv'
  BY <1>2 DEF DimInv, WatermarkInv, Passed, VersionsOf
<1> QED BY <1>3, <1>4

\* With those steps the promise for given marks stays.
LEMMA SamePassed ==
    ASSUME UNCHANGED <<runs, customerDim>>, NEW mc, NEW ma, Passed(customerDim, mc, ma)
    PROVE  Passed(customerDim, mc, ma)'
PROOF
<1>1. Written("address")' = Written("address") /\ Written("customer")' = Written("customer")
  BY DEF Written, Rows
<1>2. StoreCustomer' = StoreCustomer /\ StoreCustomerAddress' = StoreCustomerAddress
  BY <1>1 DEF StoreCustomer, StoreCustomerAddress, Latest
<1> QED BY <1>2 DEF Passed, VersionsOf

\* A call that starts is alone, or the second of two.
LEMMA StartRunning ==
    ASSUME TypeInv, RunningInv, NEW l \in Loads, StartLoad(l), Few'
    PROVE  RunningInv' /\ \A k \in Loads : at'[k] = at[k] \/ k = l
PROOF
<1>1. /\ at' = [at EXCEPT ![l] = "truncate"] /\ overlapped' = (overlapped \/ Running # {})
      /\ Cardinality(Running) < MaxRunning
  BY DEF StartLoad
<1>2. Running' \subseteq Running \cup {l} /\ \A k \in Loads : at'[k] = at[k] \/ k = l
  BY <1>1 DEF Running, TypeInv, TypeOK
<1>3. IsFiniteSet(Running')
  <2>1. IsFiniteSet(Running \cup {l})
    BY FS_AddElement DEF RunningInv
  <2> QED BY <1>2, <2>1, FS_Subset
<1>4. ~overlapped' => Running = {}
  BY <1>1
<1>5. \A i, j \in Running : i = j
  <2>1. CASE ~overlapped'
    BY <1>4, <2>1
  <2>2. CASE MaxRunning <= 2
    <3> SUFFICES ASSUME NEW i \in Running, NEW j \in Running, i # j PROVE FALSE
      OBVIOUS
    <3>1. IsFiniteSet({i}) /\ Cardinality({i}) = 1
      BY FS_Singleton
    <3>2. Cardinality({i} \cup {j}) = 2
      BY <3>1, FS_AddElement
    <3>3. Cardinality({i} \cup {j}) <= Cardinality(Running) /\ Cardinality(Running) \in Nat
      <4>1. {i} \cup {j} \in SUBSET Running
        OBVIOUS
      <4> QED BY <4>1, FS_Subset, FS_CardinalityType DEF RunningInv
    <3>4. MaxRunning \in Nat
      BY DwhAssumption
    <3> QED BY <1>1, <2>2, <3>2, <3>3, <3>4
  <2> QED BY <2>1, <2>2 DEF Few
<1>6. \A i, j, k \in Running' : i = j \/ j = k \/ i = k
  BY <1>2, <1>5
<1>7. ~overlapped' => \A i, j \in Running' : i = j
  BY <1>2, <1>4
<1> QED BY <1>2, <1>3, <1>6, <1>7 DEF RunningInv

\* A call starts from the stored marks, and takes as its new mark the last run that it
\* may read.
LEMMA StartDimInv ==
    ASSUME TypeInv, DimInv, NEW l \in Loads, StartLoad(l), Few'
    PROVE  DimInv'
PROOF
<1>1. PICK m \in 0 .. runs["customer"] : m = MaxOf({Run[e] : e \in StoreCustomer})
  BY MaxOfRuns DEF TypeInv
<1>2. /\ UNCHANGED <<runs, highWatermark, wrkCustomers, customerDim>>
      /\ at' = [at EXCEPT ![l] = "truncate"]
      /\ mark' = [mark EXCEPT ![l] =
            [mark[l] EXCEPT !.customerStart = highWatermark["customer"],
                            !.addressStart = highWatermark["address"], !.customerEnd = m]]
  BY <1>1 DEF StartLoad, tableVars, TypeInv, TypeOK
<1>3. RunningInv' /\ \A k \in Loads : at'[k] = at[k] \/ k = l
  BY StartRunning DEF DimInv
<1>4. Good(customerDim)' /\ WatermarkInv'
  BY <1>2, SameDim
<1>5. \A k \in Loads : at'[k] = "customers" => at[k] = "customers"
  BY <1>2, <1>3 DEF TypeInv, TypeOK
<1>6. WorkInv'
  BY <1>2, <1>5 DEF DimInv, WorkInv, Redundant, VersionsOf
<1>7. MarkInv(l)'
  <2>1. /\ mark'[l].customerStart = highWatermark["customer"]
        /\ mark'[l].addressStart = highWatermark["address"]
        /\ mark'[l].customerEnd = m /\ at'[l] = "truncate"
    BY <1>2 DEF TypeInv, TypeOK, Marks
  <2>3. m <= runs["customer"]
    BY MarkTypes
  <2> QED BY <1>2, <1>4, <2>1, <2>3 DEF MarkInv, WatermarkInv
<1>8. ASSUME NEW k \in Loads, k # l, at'[k] \in {"truncate", "customers"}
      PROVE  MarkInv(k)'
  <2>1. MarkInv(k) /\ mark'[k] = mark[k]
    BY <1>2, <1>3, <1>8 DEF DimInv, TypeInv, TypeOK
  <2>2. at'[k] = at[k]
    BY <1>3, <1>8
  <2>3. Passed(customerDim, mark[k].customerStart, mark[k].addressStart)'
    <3>1. PICK mc, ma : mc = mark[k].customerStart /\ ma = mark[k].addressStart
      OBVIOUS
    <3>2. Passed(customerDim, mc, ma)'
      BY <1>2, <2>1, <3>1, SamePassed DEF MarkInv
    <3> QED BY <2>1, <3>1, <3>2 DEF Passed
  <2> QED BY <1>2, <2>1, <2>2, <2>3 DEF MarkInv
<1> QED BY <1>3, <1>4, <1>6, <1>7, <1>8 DEF DimInv

\* What a call keeps that does not change its marks.
LEMMA SameMark ==
    ASSUME UNCHANGED <<runs, customerDim>>, NEW l \in Loads, MarkInv(l),
           mark'[l] = mark[l], at'[l] = at[l]
    PROVE  MarkInv(l)'
PROOF
<1>1. PICK mc, ma : mc = mark[l].customerStart /\ ma = mark[l].addressStart
  OBVIOUS
<1>2. Passed(customerDim, mc, ma)'
  BY <1>1, SamePassed DEF MarkInv
<1>3. Passed(customerDim, mark[l].customerStart, mark[l].addressStart)'
  BY <1>1, <1>2 DEF Passed
<1> QED BY <1>3 DEF MarkInv

\* TRUNCATE leaves a work table that has nothing to say.
LEMMA TruncateDimInv ==
    ASSUME TypeInv, DimInv, NEW l \in Loads, TruncateWork(l)
    PROVE  DimInv'
PROOF
<1>1. PICK m \in 0 .. runs["address"] : m = MaxOf({Run[x] : x \in StoreCustomerAddress})
  BY MaxOfRuns DEF TypeInv
<1>2. /\ UNCHANGED <<runs, highWatermark, customerDim, overlapped>> /\ wrkCustomers' = {}
      /\ at' = [at EXCEPT ![l] = "customers"] /\ at[l] = "truncate"
      /\ mark' = [mark EXCEPT ![l] = [mark[l] EXCEPT !.addressEnd = m]]
  BY <1>1 DEF TruncateWork, TypeInv, TypeOK
<1>3. \A k \in Loads : k # l => at'[k] = at[k] /\ mark'[k] = mark[k]
  BY <1>2 DEF TypeInv, TypeOK
<1>4. Running' = Running
  BY <1>2 DEF Running, TypeInv, TypeOK
<1>5. RunningInv'
  BY <1>2, <1>4 DEF DimInv, RunningInv
<1>6. Good(customerDim)' /\ WatermarkInv'
  BY <1>2, SameDim
<1>7. WorkInv'
  BY <1>2 DEF WorkInv, Redundant
<1>8. MarkInv(l)'
  <2>1. /\ mark'[l].customerStart = mark[l].customerStart /\ mark'[l].addressStart = mark[l].addressStart
        /\ mark'[l].customerEnd = mark[l].customerEnd /\ mark'[l].addressEnd = m
    BY <1>2 DEF TypeInv, TypeOK, Marks
  <2>2. MarkInv(l)
    BY <1>2 DEF DimInv
  <2>3. m <= runs["address"]
    BY DEF TypeInv, TypeOK, Tables
  <2>4. Passed(customerDim, mark[l].customerStart, mark[l].addressStart)'
    <3>1. PICK mc, ma : mc = mark[l].customerStart /\ ma = mark[l].addressStart
      OBVIOUS
    <3>2. Passed(customerDim, mc, ma)'
      BY <1>2, <2>2, <3>1, SamePassed DEF MarkInv
    <3> QED BY <2>1, <3>1, <3>2 DEF Passed
  <2> QED BY <1>2, <2>1, <2>2, <2>3, <2>4 DEF MarkInv
<1>9. ASSUME NEW k \in Loads, k # l, at'[k] \in {"truncate", "customers"}
      PROVE  MarkInv(k)'
  BY <1>2, <1>3, <1>9, SameMark DEF DimInv
<1> QED BY <1>5, <1>6, <1>7, <1>8, <1>9 DEF DimInv

\* A load leaves a dimension that has every row up to the marks it stores, and
\* nothing for the one call that it may overlap.
LEMMA LoadDimInv ==
    ASSUME AddressesInOrder, AddressesYounger, TypeInv, DimInv, NEW l \in Loads, LoadCustomerDim(l)
    PROVE  DimInv'
PROOF
<1>1. PICK L : L = LoadDimension(customerDim, wrkCustomers \cup SelectedCustomers(l))
  OBVIOUS
<1>2. /\ at[l] = "customers" /\ at' = [at EXCEPT ![l] = "sales"]
      /\ customerDim' = L /\ wrkCustomers' = wrkCustomers \cup SelectedCustomers(l)
      /\ UNCHANGED <<runs, overlapped>>
      /\ mark' = [mark EXCEPT ![l] = [mark[l] EXCEPT !.saleStart = highWatermark["sale"]]]
  BY <1>1 DEF LoadCustomerDim, TypeInv, TypeOK
<1>3. Good(L) /\ Redundant(SelectedCustomers(l), L)
  BY <1>1, <1>2, LoadPasses
<1>4. \A mc, ma : Passed(L, mc, ma)
  BY <1>1, <1>2, LoadPasses
<1>5. Written("address")' = Written("address") /\ Written("customer")' = Written("customer")
  BY <1>2 DEF Written, Rows
<1>6. StoreCustomer' = StoreCustomer /\ StoreCustomerAddress' = StoreCustomerAddress
  BY <1>5 DEF StoreCustomer, StoreCustomerAddress, Latest
<1>7. Good(customerDim)'
  BY <1>2, <1>3, <1>5 DEF Good, Keyed, Sequence, Dated, VersionsOf
<1>8. ASSUME NEW mc, NEW ma
      PROVE  Passed(customerDim, mc, ma)'
  BY <1>2, <1>4, <1>6 DEF Passed, VersionsOf
<1>9. \A k \in Loads : k # l => at'[k] = at[k] /\ mark'[k] = mark[k]
  BY <1>2 DEF TypeInv, TypeOK
<1>10. Running' = Running /\ l \in Running /\ at'[l] = "sales"
  BY <1>2 DEF Running, TypeInv, TypeOK
<1>11. RunningInv'
  BY <1>2, <1>10 DEF DimInv, RunningInv
<1>12. \A k \in Loads : at'[k] = "customers" => k # l /\ at[k] = "customers" /\ k \in Running
  BY <1>9, <1>10 DEF Running
<1>13. WorkInv'
  <2>1. ASSUME NEW j \in Loads, NEW k \in Loads, at'[j] = "customers", at'[k] = "customers"
        PROVE  j = k
    BY <1>10, <1>12, <2>1 DEF DimInv, RunningInv
  <2>2. ASSUME NEW k \in Loads, at'[k] = "customers"
        PROVE  Redundant(wrkCustomers, customerDim)'
    <3>1. wrkCustomers = {}
      BY <1>2, <1>12, <2>2 DEF DimInv, WorkInv
    <3>2. wrkCustomers' = SelectedCustomers(l)
      BY <1>2, <3>1
    <3> QED BY <1>2, <1>3, <3>2 DEF Redundant, VersionsOf
  <2> QED BY <2>1, <2>2 DEF WorkInv
<1>14. WatermarkInv'
  <2>1. /\ highWatermark'["customer"] = NewMark(highWatermark["customer"], mark[l].customerEnd)
        /\ highWatermark'["address"] = NewMark(highWatermark["address"], mark[l].addressEnd)
    BY DEF LoadCustomerDim, TypeInv, TypeOK, Tables
  <2>2. /\ mark[l].customerEnd <= runs["customer"] /\ mark[l].addressEnd <= runs["address"]
        /\ highWatermark["customer"] <= runs["customer"] /\ highWatermark["address"] <= runs["address"]
    BY <1>2 DEF DimInv, MarkInv, WatermarkInv
  <2>3. PICK mc, ma : mc = highWatermark'["customer"] /\ ma = highWatermark'["address"]
    OBVIOUS
  <2>4. Passed(customerDim, highWatermark["customer"], highWatermark["address"])'
    BY <1>8, <2>3 DEF Passed
  <2> QED BY <1>2, <2>1, <2>2, <2>4 DEF WatermarkInv, NewMark
<1>15. ASSUME NEW k \in Loads, at'[k] \in {"truncate", "customers"}
       PROVE  MarkInv(k)'
  <2>1. k # l /\ at'[k] = at[k] /\ mark'[k] = mark[k] /\ MarkInv(k)
    BY <1>9, <1>10, <1>15 DEF DimInv
  <2>2. PICK mc, ma : mc = mark'[k].customerStart /\ ma = mark'[k].addressStart
    OBVIOUS
  <2>3. Passed(customerDim, mark[k].customerStart, mark[k].addressStart)'
    BY <1>8, <2>2 DEF Passed
  <2> QED BY <1>2, <2>1, <2>3 DEF MarkInv
<1> QED BY <1>7, <1>11, <1>13, <1>14, <1>15 DEF DimInv

\* Every step keeps the invariant of the dimension.
LEMMA NextDimInv ==
    ASSUME AddressesInOrder, AddressesYounger, TypeInv, Few => DimInv, [Next]_vars
    PROVE  Few' => DimInv'
PROOF
<1> SUFFICES ASSUME Few' PROVE DimInv'
  OBVIOUS
<1>1. overlapped \in BOOLEAN /\ (overlapped => overlapped')
  BY DEF Next, CommitRun, StartLoad, TruncateWork, LoadCustomerDim, LoadSaleFact, Fail, vars,
         TypeInv, TypeOK
<1>2. DimInv
  BY <1>1 DEF Few
<1>3. ASSUME UNCHANGED <<runs, customerDim, wrkCustomers, overlapped>>,
             highWatermark'["customer"] = highWatermark["customer"],
             highWatermark'["address"] = highWatermark["address"],
             Running' \subseteq Running,
             \A k \in Loads : at'[k] \in {"truncate", "customers"} =>
                                 at'[k] = at[k] /\ mark'[k] = mark[k]
      PROVE  DimInv'
  <2>1. Good(customerDim)' /\ WatermarkInv'
    BY <1>2, <1>3, SameDim
  <2>2. RunningInv'
    BY <1>2, <1>3, FS_Subset DEF DimInv, RunningInv
  <2>3. WorkInv'
    BY <1>2, <1>3 DEF DimInv, WorkInv, Redundant, VersionsOf
  <2>4. \A k \in Loads : at'[k] \in {"truncate", "customers"} => MarkInv(k)'
    BY <1>2, <1>3, SameMark DEF DimInv
  <2> QED BY <2>1, <2>2, <2>3, <2>4 DEF DimInv
<1>4. ASSUME NEW l \in Loads, LoadSaleFact(l) \/ Fail(l)
      PROVE  DimInv'
  <2>1. UNCHANGED <<runs, customerDim, wrkCustomers, overlapped>>
    BY <1>4 DEF LoadSaleFact, Fail, tableVars
  <2>2. /\ highWatermark'["customer"] = highWatermark["customer"]
        /\ highWatermark'["address"] = highWatermark["address"]
    BY <1>4 DEF LoadSaleFact, Fail, TypeInv, TypeOK, Tables
  <2>3. \A k \in Loads : at'[k] \in {"truncate", "customers", "sales"} =>
                            at'[k] = at[k] /\ mark'[k] = mark[k]
    BY <1>4 DEF LoadSaleFact, Fail, TypeInv, TypeOK
  <2>4. Running' \subseteq Running
    BY <2>3 DEF Running
  <2> QED BY <1>3, <2>1, <2>2, <2>3, <2>4
<1>5. CASE UNCHANGED vars
  <2>1. UNCHANGED <<runs, customerDim, highWatermark, wrkCustomers, overlapped, at, mark>>
    BY <1>5 DEF vars, tableVars
  <2> QED BY <1>3, <2>1 DEF Running
<1> QED BY <1>2, <1>4, <1>5, CommitDimInv, StartDimInv, TruncateDimInv, LoadDimInv DEF Next

\* The invariant of the dimension holds in every state of every behaviour in which
\* addresses come in order.
THEOREM DimInvariance ==
    ASSUME AddressesInOrder
    PROVE  Spec /\ []AddressesYounger => [](Few => DimInv)
PROOF
<1>1. Init => DimInv
  <2> SUFFICES ASSUME Init PROVE DimInv
    OBVIOUS
  <2>1. /\ runs["customer"] = 0 /\ runs["address"] = 0
        /\ highWatermark["customer"] = 0 /\ highWatermark["address"] = 0
        /\ customerDim = {} /\ \A l \in Loads : at[l] = "scheduled"
    BY DEF Init, Tables
  <2>2. StoreCustomer = {}
    BY <2>1, RowsFacts DEF StoreCustomer, Latest, Written
  <2>3. Good(customerDim)
    BY <2>1, FS_EmptySet DEF Good, Keyed, Sequence, Dated
  <2>4. Running = {}
    BY <2>1 DEF Running
  <2>5. RunningInv /\ WorkInv
    BY <2>1, <2>4, FS_EmptySet DEF RunningInv, WorkInv
  <2>6. WatermarkInv
    BY <2>1, <2>2 DEF WatermarkInv, Passed
  <2> QED BY <2>1, <2>3, <2>5, <2>6 DEF DimInv
<1>2. TypeInv /\ AddressesYounger /\ (Few => DimInv) /\ [Next]_vars => (Few => DimInv)'
  BY NextDimInv
<1> QED BY <1>1, <1>2, TypeInvariance, PTL DEF Spec

\* The versions of a customer follow one another without gap or overlap, when no two
\* calls overlap or two run at a time at most, and addresses come in order.
THEOREM VersionsFollow ==
    ASSUME AddressesInOrder
    PROVE  Spec /\ []AddressesYounger => [](Few => VersionsInSequence)
PROOF
<1>1. DimInv => VersionsInSequence
  BY DEF DimInv, Good, Sequence, VersionsInSequence
<1> QED BY <1>1, DimInvariance, PTL

\* No address is skipped, nor a customer, when two calls run at a time at most,
\* whichever runs commit between their statements and whichever of them fail.
THEOREM AddressesNotSkipped ==
    ASSUME AddressesInOrder
    PROVE  Spec /\ []AddressesYounger => [](Few => NoAddressSkipped /\ NoCustomerSkipped)
PROOF
<1>1. DimInv => NoAddressSkipped /\ NoCustomerSkipped
  BY DEF DimInv, WatermarkInv, Passed, NoAddressSkipped, NoCustomerSkipped
<1> QED BY <1>1, DimInvariance, PTL

\* What the updates do is determined, when two calls run at a time at most: the rows of
\* the other call in the work table are redundant.
THEOREM UpdatesDeterminedOverlapping ==
    ASSUME AddressesInOrder
    PROVE  Spec /\ []AddressesYounger => [](Few => UpdatesUnambiguous)
PROOF
<1>1. TypeInv /\ DimInv /\ AddressesYounger => UpdatesUnambiguous
  <2> SUFFICES ASSUME TypeInv, DimInv, AddressesYounger, NEW l \in Loads, at[l] = "customers",
                      NEW V, V = wrkCustomers, NEW S, S = SelectedCustomers(l),
                      NEW T, T = UpdateType1(InsertNew(customerDim, V \cup S), V \cup S)
               PROVE  /\ \A v \in customerDim : Cardinality(Changes(V \cup S, v)) <= 1
                      /\ \A v \in T : Cardinality({w.address : w \in Moves(T, V \cup S, v)}) <= 1
    BY DEF UpdatesUnambiguous
  <2>1. Selection(S) /\ runs["address"] \in Nat /\ V \subseteq WorkRows
    BY SelectedIsSelection DEF TypeInv, TypeOK, Tables, WorkRows
  <2>2. Good(customerDim) /\ Redundant(V, customerDim)
    BY DEF DimInv, WorkInv
  <2>3. PICK U : U = UpdateType1(InsertNew(customerDim, S), S)
    OBVIOUS
  <2>4. /\ \A v \in customerDim : Changes(V \cup S, v) = Changes(S, v)
        /\ U = UpdateType1(InsertNew(customerDim, V \cup S), V \cup S)
        /\ \A v \in U : Moves(U, V \cup S, v) = Moves(U, S, v)
    BY <2>1, <2>2, <2>3, RedundantRows
  <2>5. ASSUME NEW v \in customerDim
        PROVE  Cardinality(Changes(V \cup S, v)) <= 1
    <3>1. \A x, y \in Changes(S, v) : x = y
      BY <2>1 DEF Changes, Matches, Selection
    <3> QED BY <2>4, <3>1, AtMostOne
  <2>6. ASSUME NEW v \in T
        PROVE  Cardinality({w.address : w \in Moves(T, V \cup S, v)}) <= 1
    <3>1. \A x, y \in Moves(T, S, v) : x = y
      BY <2>1 DEF Moves, Matches, Selection
    <3>2. Moves(T, V \cup S, v) = Moves(T, S, v)
      BY <2>4
    <3>3. \A x, y \in {w.address : w \in Moves(T, V \cup S, v)} : x = y
      BY <3>1, <3>2
    <3> QED BY <3>3, AtMostOne
  <2> QED BY <2>5, <2>6
<1> QED BY <1>1, DimInvariance, TypeInvariance, PTL
-----------------------------------------------------------------------------
(***************************************************************************)
(* A sale is loaded once, when calls do not overlap: the versions of a     *)
(* customer do not overlap either, and no other call leaves sales in the   *)
(* work table.                                                             *)
(***************************************************************************)

SaleOnceInv ==
    ~overlapped =>
        /\ \A l \in Loads : at[l] = "sales" => wrkSales = {}
        /\ \A r1, r2 \in saleFact : r1.sale = r2.sale => r1 = r2

\* A sale that a call selects is there once: one version of its customer is in force at
\* a time at most.
LEMMA SelectedSalesOnce ==
    ASSUME Good(customerDim), NEW l \in Loads,
           NEW r \in SelectedSales(l), NEW q \in SelectedSales(l), r.sale = q.sale
    PROVE  r = q
PROOF
<1> DEFINE inForce(s) == {u \in VersionsOf(customerDim, CustomerId[s]) :
                             u.from <= Time[s] /\ Time[s] < u.to}
           keys(s) == {v.key : v \in inForce(s)}
           keysOf(s) == IF keys(s) = {} THEN {UnknownKey} ELSE keys(s)
           selected == {s \in Written("sale") : Time[s] > mark[l].saleStart}
<1>1. SelectedSales(l) = UNION {{[load |-> l, sale |-> s, customerKey |-> k] : k \in keysOf(s)} :
                                   s \in selected}
  BY DEF SelectedSales
<1>2. ASSUME NEW s \in selected
      PROVE  \A j, k \in keysOf(s) : j = k
  <2>1. s \in Sales /\ Time[s] \in Nat
    BY StoreFacts, RowsFacts
  <2>2. ASSUME NEW u \in inForce(s), NEW v \in inForce(s)
        PROVE  u.key = v.key
    <3>1. /\ u \in customerDim /\ v \in customerDim
          /\ u \in VersionsOf(customerDim, CustomerId[v.event])
          /\ u.from <= Time[s] /\ Time[s] < u.to /\ v.from <= Time[s] /\ Time[s] < v.to
      BY DEF VersionsOf
    <3>2. u.from \in Nat /\ u.to \in Nat /\ v.from \in Nat /\ v.to \in Nat
      BY <3>1, RowsFacts DEF Good, Versions
    <3>3. u.key # v.key => u.to <= v.from \/ v.to <= u.from
      BY <3>1 DEF Good, Sequence
    <3> QED BY <2>1, <3>1, <3>2, <3>3
  <2>3. \A j, k \in keys(s) : j = k
    <3> HIDE DEF inForce
    <3> QED BY <2>2
  <2> HIDE DEF keys
  <2> QED BY <2>3
<1> HIDE DEF keysOf, selected
<1>3. \A p \in SelectedSales(l) : \E s \in selected : \E k \in keysOf(s) :
          p = [load |-> l, sale |-> s, customerKey |-> k]
  BY <1>1
<1>4. PICK s \in selected : \E k \in keysOf(s) : r = [load |-> l, sale |-> s, customerKey |-> k]
  BY <1>3
<1>5. PICK k \in keysOf(s) : r = [load |-> l, sale |-> s, customerKey |-> k]
  BY <1>4
<1>6. PICK t \in selected : \E j \in keysOf(t) : q = [load |-> l, sale |-> t, customerKey |-> j]
  BY <1>3
<1>7. PICK j \in keysOf(t) : q = [load |-> l, sale |-> t, customerKey |-> j]
  BY <1>6
<1>8. s = t
  BY <1>5, <1>7
<1>9. j = k
  BY <1>2, <1>8
<1> QED BY <1>5, <1>7, <1>8, <1>9

\* Every step keeps a sale from being loaded twice.
LEMMA NextSaleOnce ==
    ASSUME TypeInv, Few => DimInv, SaleOnceInv, [Next]_vars
    PROVE  SaleOnceInv'
PROOF
<1> SUFFICES ASSUME ~overlapped'
             PROVE  /\ \A l \in Loads : at'[l] = "sales" => wrkSales' = {}
                    /\ \A r1, r2 \in saleFact' : r1.sale = r2.sale => r1 = r2
  BY DEF SaleOnceInv
<1>1. ~overlapped
  BY DEF Next, CommitRun, StartLoad, TruncateWork, LoadCustomerDim, LoadSaleFact, Fail, vars
<1>2. /\ \A l \in Loads : at[l] = "sales" => wrkSales = {}
      /\ \A r1, r2 \in saleFact : r1.sale = r2.sale => r1 = r2
      /\ \A i, j \in Running : i = j
      /\ Good(customerDim)
  BY <1>1 DEF SaleOnceInv, Few, DimInv, RunningInv
<1>3. ASSUME UNCHANGED <<wrkSales, saleFact>>, \A l \in Loads : at'[l] = "sales" => at[l] = "sales"
      PROVE  /\ \A l \in Loads : at'[l] = "sales" => wrkSales' = {}
             /\ \A r1, r2 \in saleFact' : r1.sale = r2.sale => r1 = r2
  BY <1>2, <1>3
<1>4. ASSUME NEW l \in Loads, StartLoad(l) \/ TruncateWork(l) \/ Fail(l)
      PROVE  /\ \A k \in Loads : at'[k] = "sales" => wrkSales' = {}
             /\ \A r1, r2 \in saleFact' : r1.sale = r2.sale => r1 = r2
  <2>1. UNCHANGED <<wrkSales, saleFact>>
    BY <1>4 DEF StartLoad, TruncateWork, Fail, tableVars
  <2>2. \A k \in Loads : at'[k] = "sales" => at[k] = "sales"
    BY <1>4 DEF StartLoad, TruncateWork, Fail, TypeInv, TypeOK
  <2> QED BY <1>3, <2>1, <2>2
<1>5. ASSUME NEW t \in Tables, CommitRun(t)
      PROVE  /\ \A k \in Loads : at'[k] = "sales" => wrkSales' = {}
             /\ \A r1, r2 \in saleFact' : r1.sale = r2.sale => r1 = r2
  BY <1>3, <1>5 DEF CommitRun, tableVars
<1>6. ASSUME NEW l \in Loads, LoadCustomerDim(l)
      PROVE  /\ \A k \in Loads : at'[k] = "sales" => wrkSales' = {}
             /\ \A r1, r2 \in saleFact' : r1.sale = r2.sale => r1 = r2
  BY <1>2, <1>6 DEF LoadCustomerDim
<1>7. ASSUME NEW l \in Loads, LoadSaleFact(l)
      PROVE  /\ \A k \in Loads : at'[k] = "sales" => wrkSales' = {}
             /\ \A r1, r2 \in saleFact' : r1.sale = r2.sale => r1 = r2
  <2>1. at[l] = "sales" /\ at' = [at EXCEPT ![l] = "finished"]
    BY <1>7 DEF LoadSaleFact
  <2>2. ASSUME NEW k \in Loads, at'[k] = "sales"
        PROVE  FALSE
    <3>1. k # l /\ k \in Running /\ l \in Running
      BY <2>1, <2>2 DEF Running, TypeInv, TypeOK
    <3> QED BY <1>2, <3>1
  <2>3. PICK W : W = SelectedSales(l)
    OBVIOUS
  <2>4. saleFact' = {r \in saleFact : \A w \in W : w.sale # r.sale} \cup W
    <3>1. wrkSales \cup SelectedSales(l) = W
      BY <1>2, <2>1, <2>3
    <3> QED BY <1>7, <3>1 DEF LoadSaleFact
  <2>5. \A r, q \in W : r.sale = q.sale => r = q
    BY <1>2, <2>3, SelectedSalesOnce
  <2>6. \A r1, r2 \in saleFact' : r1.sale = r2.sale => r1 = r2
    BY <1>2, <2>4, <2>5
  <2> QED BY <2>2, <2>6
<1>8. CASE UNCHANGED vars
  BY <1>3, <1>8 DEF vars, tableVars
<1> QED BY <1>4, <1>5, <1>6, <1>7, <1>8 DEF Next

\* A sale is in the fact table once, when calls do not overlap and addresses come in
\* order, however often loads fail and are repeated.
THEOREM SalesLoadedOnce ==
    ASSUME AddressesInOrder
    PROVE  Spec /\ []AddressesYounger => []NoDuplicateSale
PROOF
<1>1. Init => SaleOnceInv
  BY DEF Init, SaleOnceInv
<1>2. TypeInv /\ (Few => DimInv) /\ SaleOnceInv /\ [Next]_vars => SaleOnceInv'
  BY NextSaleOnce
<1>3. SaleOnceInv => NoDuplicateSale
  BY DEF SaleOnceInv, NoDuplicateSale
<1> QED BY <1>1, <1>2, <1>3, TypeInvariance, DimInvariance, PTL DEF Spec
-----------------------------------------------------------------------------
(***************************************************************************)
(* The history that the dimension keeps, and the sales that refer to it:   *)
(* for any number of calls at a time and any order of rows.                *)
(***************************************************************************)

\* u is the version v, possibly with other type 1 columns, and closed.
Kept(u, v) ==
    /\ u.key = v.key /\ CustomerId[u.event] = CustomerId[v.event]
    /\ u.from = v.from /\ u.address = v.address

\* No load removes a version, gives it another key, start or address, or makes it
\* another customer's.
VersionsStay == [][\A v \in customerDim : \E u \in customerDim' : Kept(u, v)]_vars

\* The sale is of the customer of the one version that has its key, and not before that
\* version.
Refers(r, D) ==
    r.customerKey # UnknownKey =>
        \E v \in D :
            /\ v.key = r.customerKey /\ CustomerId[v.event] = CustomerId[r.sale]
            /\ v.from <= Time[r.sale]
            /\ \A u \in D : u.key = r.customerKey => u = v

\* Every key in the fact table refers to one version, the sale's customer's.  Keys that
\* an identity column has given out are all that relates the two tables, which the
\* calls write in different transactions.
SalesRefer == \A r \in saleFact : Refers(r, customerDim)

\* So do the keys in the work table, which the next load may find there.
ReferInv == Keyed(customerDim) /\ \A r \in saleFact \cup wrkSales : Refers(r, customerDim)

\* Statements that change versions one by one keep the keys.
LEMMA ChangedKeys ==
    ASSUME NEW D, D \subseteq Versions, IsFiniteSet(D), Keyed(D), NEW f, DOMAIN f = D,
           f = [v \in D |-> f[v]], \A v \in D : f[v].key = v.key
    PROVE  Keyed({f[v] : v \in D})
PROOF
<1> DEFINE T == {f[v] : v \in D}
<1>1. \A u, v \in D : u.key = v.key => u = v
  BY DEF Keyed
<1>2. Cardinality(T) = Cardinality(D)
  BY <1>1, ImageCardinality
<1>3. \A t \in T : t.key \in 1 .. Cardinality(D)
  BY DEF Keyed
<1>4. \A s, t \in T : s.key = t.key => s = t
  BY <1>1
<1>5. Keyed(T)
  <2> HIDE DEF T
  <2> QED BY <1>2, <1>3, <1>4 DEF Keyed
<1> QED BY <1>5

\* UpdateType1 changes nothing but the event, to one of the same customer.
LEMMA UpdateType1Keeps ==
    ASSUME NEW D, D \subseteq Versions, IsFiniteSet(D), Keyed(D), NEW W, W \subseteq WorkRows
    PROVE  /\ Keyed(UpdateType1(D, W))
           /\ \A v \in D : \E u \in UpdateType1(D, W) : Kept(u, v)
PROOF
<1>1. PICK g \in [D -> UpdateType1(D, W)] :
         UpdateType1(D, W) = {g[v] : v \in D} /\ \A v \in D : SameVersion(g[v], v)
  BY UpdateType1Same
<1>2. \A v \in D : g[v].key = v.key /\ Kept(g[v], v)
  BY <1>1 DEF SameVersion, Kept
<1>3. Keyed({g[v] : v \in D})
  BY <1>1, <1>2, ChangedKeys
<1> QED BY <1>1, <1>2, <1>3

\* ClosePrior changes nothing but the end.
LEMMA ClosePriorKeeps ==
    ASSUME NEW D, D \subseteq Versions, IsFiniteSet(D), Keyed(D), NEW W, W \subseteq WorkRows
    PROVE  /\ Keyed(ClosePrior(D, W))
           /\ \A v \in D : \E u \in ClosePrior(D, W) : Kept(u, v)
PROOF
<1> DEFINE ends(v) == {AddressTime(w.address) : w \in Moves(D, W, v)}
           end(v) == CHOOSE t \in ends(v) : TRUE
           h == [v \in D |-> IF Moves(D, W, v) = {} THEN v
                             ELSE [v EXCEPT !.to = end(v), !.current = FALSE]]
<1>1. ClosePrior(D, W) = {h[v] : v \in D}
  BY DEF ClosePrior
<1> HIDE DEF end
<1>2. \A v \in D : Kept(h[v], v)
  BY DEF Versions, Kept
<1>3. DOMAIN h = D /\ h = [v \in D |-> h[v]]
  OBVIOUS
<1> HIDE DEF h
<1>4. \A v \in D : h[v].key = v.key
  BY <1>2 DEF Kept
<1> QED BY <1>1, <1>2, <1>3, <1>4, ChangedKeys

\* The statements that insert give out free keys.
LEMMA InsertsKeep ==
    ASSUME NEW D, D \subseteq Versions, IsFiniteSet(D), Keyed(D),
           NEW W, W \subseteq WorkRows, IsFiniteSet(W)
    PROVE  Keyed(InsertNew(D, W)) /\ Keyed(InsertVersion(D, W))
PROOF
<1>1. Keyed(InsertNew(D, W))
  <2> DEFINE U == {u \in W : VersionsOf(D, CustomerId[u.event]) = {}}
             first == [w \in U |-> [row |-> w, from |-> Time[w.event]]]
             S == {first[w] : w \in U}
  <2>1. IsFiniteSet(U)
    BY FS_Subset
  <2>2. DOMAIN first = U /\ first = [w \in U |-> first[w]]
    OBVIOUS
  <2>3. InsertNew(D, W) = D \cup Numbered(D, S)
    BY DEF InsertNew
  <2> HIDE DEF first, U
  <2>4. IsFiniteSet(S)
    BY <2>1, <2>2, ImageFinite
  <2> HIDE DEF S
  <2> QED BY <2>3, <2>4, NumberedKeys
<1>2. Keyed(InsertVersion(D, W))
  <2> DEFINE next(w, v) == [row |-> w, from |-> AddressTime(w.address), prior |-> v.key]
             nexts == [p \in W \X D |-> next(p[1], p[2])]
             N == {nexts[p] : p \in W \X D}
             S == UNION {{next(w, v) : w \in Moves(D, W, v)} : v \in D}
  <2>1. InsertVersion(D, W) = D \cup Numbered(D, S)
    BY DEF InsertVersion
  <2>2. IsFiniteSet(N)
    <3>1. IsFiniteSet(W \X D)
      BY FS_Product
    <3>2. DOMAIN nexts = W \X D /\ nexts = [p \in W \X D |-> nexts[p]]
      OBVIOUS
    <3> HIDE DEF nexts
    <3> QED BY <3>1, <3>2, ImageFinite
  <2>3. S \subseteq N
    <3>1. \A v \in D : \A w \in Moves(D, W, v) : <<w, v>> \in W \X D /\ nexts[<<w, v>>] = next(w, v)
      BY DEF Moves
    <3>2. \A s \in S : \E v \in D : \E w \in Moves(D, W, v) : s = next(w, v)
      <4> HIDE DEF next
      <4> QED OBVIOUS
    <3> HIDE DEF nexts, next, S
    <3> QED BY <3>1, <3>2
  <2>4. IsFiniteSet(S)
    <3> HIDE DEF S, N
    <3> QED BY <2>2, <2>3, FS_Subset
  <2> HIDE DEF S
  <2> QED BY <2>1, <2>4, NumberedKeys
<1> QED BY <1>1, <1>2

\* So a load keeps the versions and the keys.
LEMMA LoadDimensionKeeps ==
    ASSUME NEW D, D \subseteq Versions, IsFiniteSet(D), Keyed(D),
           NEW W, W \subseteq WorkRows, IsFiniteSet(W)
    PROVE  /\ Keyed(LoadDimension(D, W))
           /\ \A v \in D : \E u \in LoadDimension(D, W) : Kept(u, v)
PROOF
<1>1. PICK N : N = InsertNew(D, W)
  OBVIOUS
<1>2. PICK T : T = UpdateType1(N, W)
  OBVIOUS
<1>3. PICK C : C = ClosePrior(T, W)
  OBVIOUS
<1>4. LoadDimension(D, W) = InsertVersion(C, W)
  BY <1>1, <1>2, <1>3 DEF LoadDimension
<1>5. N \subseteq Versions /\ IsFiniteSet(N) /\ D \subseteq N /\ Keyed(N)
  BY <1>1, InsertNewFacts, InsertsKeep
<1>6. T \subseteq Versions /\ IsFiniteSet(T)
  BY <1>2, <1>5, UpdateType1Facts
<1>7. Keyed(T) /\ \A v \in N : \E u \in T : Kept(u, v)
  BY <1>2, <1>5, UpdateType1Keeps
<1>8. C \subseteq Versions /\ IsFiniteSet(C)
  BY <1>3, <1>6, ClosePriorFacts
<1>9. Keyed(C) /\ \A v \in T : \E u \in C : Kept(u, v)
  BY <1>3, <1>6, <1>7, ClosePriorKeeps
<1>10. C \subseteq InsertVersion(C, W) /\ Keyed(InsertVersion(C, W))
  BY <1>8, <1>9, InsertVersionFacts, InsertsKeep
<1>11. ASSUME NEW v \in D
       PROVE  \E u \in InsertVersion(C, W) : Kept(u, v)
  <2>1. PICK t \in T : Kept(t, v)
    BY <1>5, <1>7
  <2>2. PICK c \in C : Kept(c, t)
    BY <1>9
  <2> QED BY <1>10, <2>1, <2>2 DEF Kept
<1> QED BY <1>4, <1>10, <1>11

\* A reference stays when the versions and the keys do.
LEMMA RefersStays ==
    ASSUME NEW D, NEW L, Keyed(L), \A v \in D : \E u \in L : Kept(u, v), NEW r, Refers(r, D)
    PROVE  Refers(r, L)
PROOF
<1> SUFFICES ASSUME r.customerKey # UnknownKey
             PROVE  Refers(r, L)
  BY DEF Refers
<1>1. PICK v \in D : /\ v.key = r.customerKey /\ CustomerId[v.event] = CustomerId[r.sale]
                     /\ v.from <= Time[r.sale]
  BY DEF Refers
<1>2. PICK u \in L : Kept(u, v)
  OBVIOUS
<1>3. \A t \in L : t.key = u.key => t = u
  BY DEF Keyed
<1> QED BY <1>1, <1>2, <1>3 DEF Refers, Kept

\* What a load of the sales selects refers to the dimension as it is.
LEMMA SelectedRefer ==
    ASSUME Keyed(customerDim), NEW l \in Loads, NEW r \in SelectedSales(l)
    PROVE  Refers(r, customerDim)
PROOF
<1> DEFINE keys(s) == {v.key : v \in {u \in VersionsOf(customerDim, CustomerId[s]) :
                                         u.from <= Time[s] /\ Time[s] < u.to}}
<1>1. PICK s \in Written("sale") :
         \E k \in IF keys(s) = {} THEN {UnknownKey} ELSE keys(s) :
            r = [load |-> l, sale |-> s, customerKey |-> k]
  BY DEF SelectedSales
<1>2. PICK k : r.sale = s /\ r.customerKey = k /\ (k # UnknownKey => k \in keys(s))
  BY <1>1
<1>4. ASSUME k # UnknownKey
      PROVE  \E v \in customerDim : /\ v.key = k /\ CustomerId[v.event] = CustomerId[s]
                                    /\ v.from <= Time[s]
  BY <1>2, <1>4 DEF VersionsOf
<1>5. \A u, v \in customerDim : u.key = v.key => u = v
  BY DEF Keyed
<1> QED BY <1>2, <1>4, <1>5 DEF Refers

\* A load keeps the versions, and all that refers to them.
LEMMA LoadReferInv ==
    ASSUME TypeInv, ReferInv, NEW l \in Loads, LoadCustomerDim(l)
    PROVE  ReferInv' /\ \A v \in customerDim : \E u \in customerDim' : Kept(u, v)
PROOF
<1> DEFINE W == wrkCustomers \cup SelectedCustomers(l)
<1>1. W \subseteq WorkRows /\ IsFiniteSet(W)
  <2>1. wrkCustomers \subseteq WorkRows
    BY DEF TypeInv, TypeOK, WorkRows
  <2> QED BY <2>1, SelectedCustomersFacts, FS_Union DEF TypeInv
<1>2. customerDim' = LoadDimension(customerDim, W) /\ wrkSales' = {} /\ saleFact' = saleFact
  BY DEF LoadCustomerDim
<1>3. customerDim \subseteq Versions /\ IsFiniteSet(customerDim) /\ Keyed(customerDim)
  BY DEF TypeInv, TypeOK, ReferInv
<1> HIDE DEF W
<1>4. Keyed(customerDim') /\ \A v \in customerDim : \E u \in customerDim' : Kept(u, v)
  BY <1>1, <1>2, <1>3, LoadDimensionKeeps
<1>5. \A r \in saleFact : Refers(r, customerDim')
  BY <1>4, RefersStays DEF ReferInv
<1> QED BY <1>2, <1>4, <1>5 DEF ReferInv

\* Every step does.
LEMMA NextReferInv ==
    ASSUME TypeInv, ReferInv, [Next]_vars
    PROVE  ReferInv' /\ \A v \in customerDim : \E u \in customerDim' : Kept(u, v)
PROOF
<1>1. \A v \in customerDim : Kept(v, v)
  BY DEF Kept
<1>2. ASSUME UNCHANGED customerDim, saleFact' \cup wrkSales' \subseteq saleFact \cup wrkSales
      PROVE  ReferInv' /\ \A v \in customerDim : \E u \in customerDim' : Kept(u, v)
  BY <1>1, <1>2 DEF ReferInv
<1>3. ASSUME NEW l \in Loads, LoadSaleFact(l)
      PROVE  ReferInv' /\ \A v \in customerDim : \E u \in customerDim' : Kept(u, v)
  <2>1. customerDim' = customerDim
    BY <1>3 DEF LoadSaleFact
  <2>2. wrkSales' = wrkSales \cup SelectedSales(l) /\ saleFact' \subseteq saleFact \cup wrkSales'
    BY <1>3, LoadedSales
  <2>3. \A r \in SelectedSales(l) : Refers(r, customerDim)
    BY SelectedRefer DEF ReferInv
  <2> QED BY <1>1, <2>1, <2>2, <2>3 DEF ReferInv
<1>4. ASSUME NEW t \in Tables, CommitRun(t)
      PROVE  UNCHANGED <<customerDim, saleFact, wrkSales>>
  BY <1>4 DEF CommitRun, tableVars
<1>5. ASSUME NEW l \in Loads, StartLoad(l) \/ TruncateWork(l) \/ Fail(l)
      PROVE  UNCHANGED <<customerDim, saleFact, wrkSales>>
  BY <1>5 DEF StartLoad, TruncateWork, Fail, tableVars
<1>6. CASE UNCHANGED vars
  BY <1>2, <1>6 DEF vars, tableVars
<1> QED BY <1>2, <1>3, <1>4, <1>5, <1>6, LoadReferInv DEF Next

\* The invariant of the references holds in every state of every behaviour.
THEOREM ReferInvariance == Spec => []ReferInv
PROOF
<1>1. Init => ReferInv
  BY DEF Init, ReferInv, Keyed
<1>2. TypeInv /\ ReferInv /\ [Next]_vars => ReferInv'
  BY NextReferInv
<1> QED BY <1>1, <1>2, TypeInvariance, PTL DEF Spec

\* Every key in the fact table is of one version, of the sale's customer and not later
\* than the sale, however many calls overlap or fail and in whatever order rows come.
THEOREM SalesReferToVersions == Spec => []SalesRefer
PROOF
<1>1. ReferInv => SalesRefer
  BY DEF ReferInv, SalesRefer
<1> QED BY <1>1, ReferInvariance, PTL

\* The dimension keeps its history.
THEOREM HistoryStays == Spec => VersionsStay
PROOF
<1>1. TypeInv /\ ReferInv /\ [Next]_vars =>
         [\A v \in customerDim : \E u \in customerDim' : Kept(u, v)]_vars
  BY NextReferInv
<1> QED BY <1>1, TypeInvariance, ReferInvariance, PTL DEF Spec, VersionsStay

\* A version that has been closed stays closed, with the same end.
ClosedVersionsStay ==
    [][Few => \A v \in customerDim : ~v.current =>
          \E u \in customerDim' : Kept(u, v) /\ u.to = v.to /\ ~u.current]_vars

\* A load closes none but current versions.
LEMMA LoadKeepsClosed ==
    ASSUME AddressesInOrder, AddressesYounger, TypeInv, DimInv,
           NEW l \in Loads, LoadCustomerDim(l), NEW v \in customerDim, ~v.current
    PROVE  \E u \in customerDim' : Kept(u, v) /\ u.to = v.to /\ ~u.current
PROOF
<1>1. PICK S : S = SelectedCustomers(l)
  OBVIOUS
<1>2. PICK N : N = InsertNew(customerDim, S)
  OBVIOUS
<1>3. PICK T : T = UpdateType1(N, S)
  OBVIOUS
<1>4. Selection(S) /\ S \subseteq WorkRows
  BY <1>1, SelectedIsSelection DEF Selection
<1>5. /\ runs["address"] \in Nat /\ wrkCustomers \subseteq WorkRows
      /\ Good(customerDim) /\ Redundant(wrkCustomers, customerDim)
  BY DEF LoadCustomerDim, TypeInv, TypeOK, Tables, WorkRows, DimInv, WorkInv
<1>6. customerDim' = InsertVersion(ClosePrior(T, S), S)
  <2>1. LoadDimension(customerDim, wrkCustomers \cup S) = LoadDimension(customerDim, S)
    BY <1>2, <1>3, <1>4, <1>5, RedundantRows
  <2>2. LoadDimension(customerDim, S) = InsertVersion(ClosePrior(T, S), S)
    BY <1>2, <1>3 DEF LoadDimension
  <2> QED BY <1>1, <2>1, <2>2 DEF LoadCustomerDim
<1>7. Good(N) /\ v \in N
  BY <1>2, <1>4, <1>5, InsertNewGood DEF InsertNew
<1>8. Good(T)
  BY <1>3, <1>4, <1>7, UpdateType1Good
<1>9. PICK t \in T : SameVersion(t, v)
  BY <1>3, <1>4, <1>7, UpdateType1Same DEF Good
<1>10. ~t.current
  BY <1>9 DEF SameVersion
<1>11. Moves(T, S, t) = {}
  BY <1>8, <1>10, CurrentIsMostRecent DEF Moves
<1>12. t \in ClosePrior(T, S)
  BY <1>11 DEF ClosePrior
<1>13. t \in customerDim'
  BY <1>6, <1>12 DEF InsertVersion
<1>14. Kept(t, v) /\ t.to = v.to
  BY <1>9 DEF SameVersion, Kept
<1> QED BY <1>10, <1>13, <1>14

\* A load opens no version that has been closed, nor moves its end, when two calls run at a
\* time at most and addresses come in order.
THEOREM HistoryIsClosed ==
    ASSUME AddressesInOrder
    PROVE  Spec /\ []AddressesYounger => ClosedVersionsStay
PROOF
<1>1. ASSUME TypeInv, AddressesYounger, Few => DimInv, [Next]_vars, Few,
             NEW v \in customerDim, ~v.current
      PROVE  \E u \in customerDim' : Kept(u, v) /\ u.to = v.to /\ ~u.current
  <2>1. CASE \E l \in Loads : LoadCustomerDim(l)
    BY <1>1, <2>1, LoadKeepsClosed
  <2>2. CASE ~\E l \in Loads : LoadCustomerDim(l)
    <3>1. customerDim' = customerDim
      BY <1>1, <2>2 DEF Next, CommitRun, StartLoad, TruncateWork, LoadSaleFact, Fail, vars, tableVars
    <3> QED BY <1>1, <3>1 DEF Kept
  <2> QED BY <2>1, <2>2
<1>2. TypeInv /\ AddressesYounger /\ (Few => DimInv) /\ [Next]_vars =>
         [Few => \A v \in customerDim : ~v.current =>
             \E u \in customerDim' : Kept(u, v) /\ u.to = v.to /\ ~u.current]_vars
  BY <1>1
<1> QED BY <1>2, TypeInvariance, DimInvariance, PTL DEF Spec, ClosedVersionsStay
=============================================================================
