----------------------------- MODULE MCDwhLoad -----------------------------
(***************************************************************************)
(* DwhLoad with a customer that comes before its address, is updated, and  *)
(* moves, and with two sales, one at the very time of an address; all      *)
(* rows come in the order of their times.                                  *)
(***************************************************************************)
EXTENDS DwhLoad, TLC

CONSTANTS e1, e2, x1, x2, s1, s2, c1, a1

MCRun  == (e1 :> 1) @@ (e2 :> 2) @@ (x1 :> 1) @@ (x2 :> 2) @@ (s1 :> 1) @@ (s2 :> 2)
MCTime == (e1 :> 1) @@ (e2 :> 2) @@ (x1 :> 3) @@ (x2 :> 5) @@ (s1 :> 3) @@ (s2 :> 6)

MCCustomerId == [r \in {e1, e2, s1, s2} |-> c1]
MCAddressOf  == [r \in {e1, e2, x1, x2} |-> a1]
=============================================================================
