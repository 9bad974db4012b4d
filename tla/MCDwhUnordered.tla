--------------------------- MODULE MCDwhUnordered ---------------------------
(***************************************************************************)
(* DwhLoad with a customer that is younger than its address, and a sale    *)
(* that comes after a later one.                                           *)
(***************************************************************************)
EXTENDS DwhLoad, TLC

CONSTANTS e1, e2, x1, x2, s1, s2, c1, a1

MCRun  == (e1 :> 1) @@ (e2 :> 2) @@ (x1 :> 1) @@ (x2 :> 2) @@ (s1 :> 1) @@ (s2 :> 2)
MCTime == (e1 :> 2) @@ (e2 :> 3) @@ (x1 :> 1) @@ (x2 :> 5) @@ (s1 :> 6) @@ (s2 :> 4)

MCCustomerId == [r \in {e1, e2, s1, s2} |-> c1]
MCAddressOf  == [r \in {e1, e2, x1, x2} |-> a1]
=============================================================================
