------------------------- MODULE MCBatchReplayEnds -------------------------
(***************************************************************************)
(* BatchReplay over three windows, each with one file that is special to   *)
(* write-in-batch: file 1, in the window [2480, 2600) of e1, needs two     *)
(* parts, file 2, in the window [2600, 2720) of e2, has a row that does    *)
(* not fit in an object, and file 3, in the window [2720, 2840) of e3, has *)
(* rows past its window only.  A row of file 1 lies in the window of e3.    *)
(***************************************************************************)
EXTENDS BatchReplay, TLC

CONSTANTS e1, e2, e3

MCExecutions  == {e1, e2, e3}
MCTriggerTime == (e1 :> 3480) @@ (e2 :> 3600) @@ (e3 :> 3720)

MCFrequency   == 120
MCOffset      == 1000
MCHeaderSize  == 10
MCFileMaxSize == 35
MCMaxAttempts == 2

MCFiles     == 1 .. 3
MCFileStart == <<2480, 2600, 2800>>
MCRows      == 1 .. 6
MCRowFile   == <<1, 1, 1, 2, 3, 1>>
MCRowTime   == <<2480, 2500, 2599, 2600, 2840, 2720>>
MCRowSize   == <<10, 10, 10, 30, 10, 10>>
=============================================================================
