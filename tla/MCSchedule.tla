----------------------------- MODULE MCSchedule -----------------------------
(* Instances of Schedule for TLC.                                          *)
EXTENDS Schedule, TLC

CONSTANTS t1, t2, vm1, vm2

MCThread == {t1, t2}
MCVm == {vm1, vm2}
MCVmOf == (t1 :> vm1) @@ (t2 :> vm2)

MCThread1 == {t1}
MCVmOf1 == t1 :> vm1
=============================================================================
