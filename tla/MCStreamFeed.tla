---------------------------- MODULE MCStreamFeed ----------------------------
(***************************************************************************)
(* StreamFeed with a file of a chunk and a row more, announced twice, and  *)
(* two calls of the lambda for each announcement.  Files have no step in   *)
(* common but the end of the step that writes them.  The execution of the  *)
(* custom resource writes none.                                            *)
(***************************************************************************)
EXTENDS StreamFeed, TLC

CONSTANTS x1, x2, f1

MCWriter    == f1 :> x2
MCDirectory == f1 :> "customer"
MCRows      == f1 :> 3
=============================================================================
