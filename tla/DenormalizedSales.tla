------------------------- MODULE DenormalizedSales -------------------------
(***************************************************************************)
(* What the Flink application promises to the readers of the curated       *)
(* bucket: denormalised sales appear there, in batches, each sale once and *)
(* for good.                                                               *)
(***************************************************************************)
EXTENDS RetailSales

VARIABLE delivered    \* the sales in finished files of the bucket

Init == delivered = {}

Deliver ==
    /\ delivered \subseteq delivered'
    /\ \A r \in delivered' \ delivered : r \in EnrichedSales /\ Denormalized(r)
    /\ \A r1, r2 \in delivered' : r1.sale = r2.sale => r1 = r2

Spec == Init /\ [][Deliver]_delivered
=============================================================================
