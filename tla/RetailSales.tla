---------------------------- MODULE RetailSales ----------------------------
(***************************************************************************)
(* The events and reference data of the streaming module, and what it      *)
(* means for a sale to be denormalised: shared by DenormalizedSales, which *)
(* says what the Flink application promises, and StreamEnrich, which says  *)
(* how it works.                                                           *)
(***************************************************************************)
CONSTANTS
    Sales,           \* sale events
    CustomerEvents,  \* customer events: creations and updates
    AddressEvents,   \* address events
    Customers,       \* customer ids
    Addresses,       \* address ids
    Items,           \* the items of the item file
    Promos,          \* the promos of the promo file
    CustomerId,      \* the customer a customer event is about
    CustomerAddress, \* the address id it refers to
    AddressId,       \* the address an address event is about
    BillCustomerId,  \* the keys of a sale
    ShipCustomerId,
    ItemId,
    PromoId,         \* NoValue for a sale without promo
    NoValue          \* Java's null

ASSUME RetailAssumption ==
    /\ CustomerId \in [CustomerEvents -> Customers]
    /\ CustomerAddress \in [CustomerEvents -> Addresses]
    /\ AddressId \in [AddressEvents -> Addresses]
    /\ BillCustomerId \in [Sales -> Customers]
    /\ ShipCustomerId \in [Sales -> Customers]
    /\ ItemId \in [Sales -> Items]
    /\ PromoId \in [Sales -> Promos \cup {NoValue}]

\* A customer with its address: Customer after CustomerAddressJoiner.enrich.
EnrichedCustomers == [customer : CustomerEvents, address : AddressEvents]

ASSUME NoValueAssumption ==
    /\ NoValue \notin Customers \cup Items \cup Promos \cup EnrichedCustomers
    /\ NoValue \notin CustomerEvents \cup AddressEvents

ASSUME SalesAreSales == Sales \cap (CustomerEvents \cup AddressEvents) = {}

\* The joins a sale goes through, in this order.
Joiners == {"bill", "ship", "item", "promo"}

\* What the joiners attach to a sale, and what they key it by.
Refs == EnrichedCustomers \cup Items \cup Promos
Keys == Customers \cup Items \cup Promos

\* A sale with the fields the joiners have set so far: Sale.java.
EnrichedSales == [sale : Sales, with : [Joiners -> Refs \cup {NoValue}]]

\* The field each connected stream is partitioned by (keyBy).
KeyOf(j, s) ==
    CASE j = "bill"  -> BillCustomerId[s]
      [] j = "ship"  -> ShipCustomerId[s]
      [] j = "item"  -> ItemId[s]
      [] j = "promo" -> PromoId[s]

\* A customer is joined with an event of the address it refers to.
CustomerMatches(v) ==
    v \in EnrichedCustomers /\ CustomerAddress[v.customer] = AddressId[v.address]

\* v is what joiner j may attach to a sale whose key is k.
RefMatches(j, k, v) ==
    IF j \in {"bill", "ship"} THEN CustomerMatches(v) /\ CustomerId[v.customer] = k
                              ELSE v = k

\* Every join has been made, with the right partner; only a sale without
\* promo has none.
Denormalized(r) ==
    \A j \in Joiners :
        IF KeyOf(j, r.sale) = NoValue THEN r.with[j] = NoValue
                                      ELSE RefMatches(j, KeyOf(j, r.sale), r.with[j])
=============================================================================
