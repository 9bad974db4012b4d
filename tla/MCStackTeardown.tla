-------------------------- MODULE MCStackTeardown --------------------------
(***************************************************************************)
(* StackTeardown, and with it BatchDatagen, with the execution that the    *)
(* custom resource starts and one that the rule starts, before, between or *)
(* after the steps of the first and those of the deletion.                 *)
(***************************************************************************)
EXTENDS StackTeardown

CONSTANTS x1, x2
=============================================================================
