----------------------------- MODULE MCEdfServer -----------------------------
(* Two servers that fill the pCPU, with 2/4 and 1/2 of it.  RTDS starts    *)
(* where a period of both begins, so that each completes one by MaxTime.   *)
EXTENDS EdfServer

CONSTANTS t1, t2

MCThread == {t1, t2}
MCPeriod == [t \in MCThread |-> IF t = t1 THEN 4 ELSE 2]
MCBudget == [t \in MCThread |-> IF t = t1 THEN 2 ELSE 1]
MCBootTime == [rtds |-> 4, cbs |-> 6]
==============================================================================
