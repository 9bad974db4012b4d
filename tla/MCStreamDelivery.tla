-------------------------- MODULE MCStreamDelivery --------------------------
(***************************************************************************)
(* StreamEnrich with a sale that is billed to one customer, shipped to     *)
(* another, and has no promo.  The customers share an address, so each     *)
(* join with it takes an address event.                                    *)
(***************************************************************************)
EXTENDS StreamEnrich, TLC

CONSTANTS s1, c1, c2, x1, x2, k1, k2, a1, i1, p1

MCCustomerId      == (c1 :> k1) @@ (c2 :> k2)
MCCustomerAddress == (c1 :> a1) @@ (c2 :> a1)
MCAddressId       == (x1 :> a1) @@ (x2 :> a1)
MCBillCustomerId  == s1 :> k1
MCShipCustomerId  == s1 :> k2
MCItemId          == s1 :> i1
MCPromoId         == s1 :> NoValue
=============================================================================
