---------------------------- MODULE MCCleanLayer ----------------------------
(***************************************************************************)
(* CleanLayer for TLC: a customer with two events and another with one, in *)
(* the Hudi table, and two sales in parquet.                                *)
(***************************************************************************)
EXTENDS CleanLayer, TLC

CONSTANTS customer, sale, c1, c2, d1, s1, s2

MCEntity == c1 :> customer @@ c2 :> customer @@ d1 :> customer @@ s1 :> sale @@ s2 :> sale
MCKey    == c1 :> "c" @@ c2 :> "c" @@ d1 :> "d" @@ s1 :> "s1" @@ s2 :> "s2"
MCTime   == c1 :> 1 @@ c2 :> 2 @@ d1 :> 1 @@ s1 :> 1 @@ s2 :> 1
=============================================================================
