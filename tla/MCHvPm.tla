-------------------------------- MODULE MCHvPm --------------------------------
(***************************************************************************)
(* Two instances of HvPm and one of HostSuspend for TLC in one state       *)
(* space: the constants of the configuration are those of one VM of two    *)
(* vCPUs and three hooks, suspended with the system or by itself, and of   *)
(* the platform entry with two APs, up to two times; Pair is two VMs of    *)
(* one vCPU each, of which one is suspended while the other runs.  A       *)
(* behaviour is one of the three.                                          *)
(***************************************************************************)
EXTENDS HvPm, HostSuspend

VARIABLE scenario

MCVmOf1 == <<1, 1>>
MCVmOf2 == <<1, 2>>

Pair == INSTANCE HvPm WITH VmOf <- MCVmOf2, Policy <- {}, NHook <- 2

One == scenario = "one"
Two == scenario = "two"

MCvars == <<vars, hostvars, scenario>>

MCInit ==
    /\ HostInit
    /\ \/ scenario \in {"one", "host"} /\ Init
       \/ Two /\ Pair!Init

MCNext ==
    /\ UNCHANGED scenario
    /\ \/ One /\ Next /\ UNCHANGED hostvars
       \/ Two /\ Pair!Next /\ UNCHANGED hostvars
       \/ scenario = "host" /\ HostNext /\ UNCHANGED vars

MCBspRuns ==
    /\ \/ One /\ BspRuns
       \/ Two /\ Pair!BspRuns
    /\ UNCHANGED <<hostvars, scenario>>
MCMakeSystemSuspendRequest ==
    /\ One \/ Two
    /\ MakeSystemSuspendRequest
    /\ UNCHANGED <<hostvars, scenario>>

(* HvPm's fairness; HostSuspend has none.                                  *)
MCSpec ==
    /\ MCInit /\ [][MCNext]_MCvars
    /\ WF_MCvars(MCBspRuns) /\ WF_MCvars(MCMakeSystemSuspendRequest)

-----------------------------------------------------------------------------
(* HvPm's properties that depend on which vCPU is whose, in both of its    *)
(* scenarios.                                                              *)
(*                                                                         *)
(* Device retention starts only after every vCPU of the required VMs has   *)
(* switched out, and ends before any of them can run again.                *)
MCRetainedMeansOff == IF Two THEN Pair!RetainedMeansOff ELSE RetainedMeansOff

(* I/O of a VM is let through again only when every device hook has been   *)
(* undone and every vCPU of the VM thawed.                                 *)
MCUngatedMeansRestored == IF Two THEN Pair!UngatedMeansRestored ELSE UngatedMeansRestored
=============================================================================
