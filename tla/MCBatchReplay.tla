--------------------------- MODULE MCBatchReplay ---------------------------
(***************************************************************************)
(* BatchReplay over two adjacent windows around a full hour: frequency 120 *)
(* gives a cron step of 2 minutes; the triggers 3480 (minute 58) and 3600  *)
(* (minute 0) have the windows [2480, 2600) and [2600, 2720).  Two         *)
(* executions get the first event, one the second.                         *)
(***************************************************************************)
EXTENDS BatchReplay, TLC

CONSTANTS e1, e2, e3

MCExecutions  == {e1, e2, e3}
MCTriggerTime == (e1 :> 3480) @@ (e2 :> 3480) @@ (e3 :> 3600)

MCFrequency   == 120
MCOffset      == 1000
MCHeaderSize  == 10
MCFileMaxSize == 35
MCMaxAttempts == 2

\* File 1: three rows and two parts, the last row at the window's last second.
\* File 2 starts with the second window: one part, and a row past the window.
MCFiles     == 1 .. 2
MCFileStart == <<2480, 2600>>
MCRows      == 1 .. 5
MCRowFile   == <<1, 1, 1, 2, 2>>
MCRowTime   == <<2480, 2500, 2599, 2600, 2720>>
MCRowSize   == [r \in MCRows |-> 10]
=============================================================================
