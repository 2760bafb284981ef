----------------------------- MODULE MCSmpCall ------------------------------
(* Instances of SmpCall for TLC.                                           *)
EXTENDS SmpCall, TLC

MCPcpu == 0 .. 3

(* Caller 0 calls the other active pCPUs (the DDB and shell masks), caller *)
(* 2 pCPU 1, itself and a pCPU that is not active (the PMU mask).          *)
MCMasks == (0 :> {{1, 2}}) @@ (1 :> {}) @@ (2 :> {{1, 2, 3}}) @@ (3 :> {})
=============================================================================
