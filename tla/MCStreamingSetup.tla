-------------------------- MODULE MCStreamingSetup --------------------------
(***************************************************************************)
(* StreamingSetup for TLC.  With two polls the client is there before the  *)
(* first, between the two, or too late, and a second one follows at any    *)
(* time.                                                                   *)
(***************************************************************************)
EXTENDS StreamingSetup
=============================================================================
