------------------------- MODULE MCCustomResources -------------------------
(***************************************************************************)
(* CustomResources for TLC.  With four ids an endpoint is created, updated *)
(* with a failure, rolled back and updated once more.                      *)
(***************************************************************************)
EXTENDS CustomResources
=============================================================================
