--------------------------- MODULE MCStreamEnrich ---------------------------
(***************************************************************************)
(* StreamEnrich with two sales of one customer, one with a promo and one   *)
(* without; two events of the customer compete for one address event.      *)
(***************************************************************************)
EXTENDS StreamEnrich, TLC

CONSTANTS s1, s2, c1, c2, x1, k1, a1, i1, p1

MCCustomerId      == (c1 :> k1) @@ (c2 :> k1)
MCCustomerAddress == (c1 :> a1) @@ (c2 :> a1)
MCAddressId       == x1 :> a1
MCBillCustomerId  == (s1 :> k1) @@ (s2 :> k1)
MCShipCustomerId  == (s1 :> k1) @@ (s2 :> k1)
MCItemId          == (s1 :> i1) @@ (s2 :> i1)
MCPromoId         == (s1 :> p1) @@ (s2 :> NoValue)
=============================================================================
