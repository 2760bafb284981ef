---------------------------- MODULE MCVmRecovery ----------------------------
(***************************************************************************)
(* Two instances of VmRecovery for TLC in one state space: the VM of the   *)
(* configuration, whose only vCPU is its boot vCPU, with two recoveries    *)
(* and the fairness its liveness needs, and Pair, a VM of two vCPUs with   *)
(* one recovery.                                                           *)
(***************************************************************************)
EXTENDS VmRecovery

Pair == INSTANCE VmRecovery WITH Vcpu <- {Bsp, Bsp + 1}, RESTART_MAX <- 1

IsSingle == DOMAIN vcpu = Vcpu

MCInit == Init \/ Pair!Init
MCNext == \/ IsSingle /\ Next
          \/ ~IsSingle /\ Pair!Next

MCSpec ==
    /\ MCInit /\ [][MCNext]_vars
    /\ WF_vars(IsSingle /\ IdleStep) /\ WF_vars(IsSingle /\ IdleReport)
    /\ WF_vars(IsSingle /\ WdtStep) /\ WF_vars(IsSingle /\ WdtWake)
    /\ WF_vars(IsSingle /\ RecoveryExpires)

-----------------------------------------------------------------------------
(* Every recovery of the single-vCPU VM ends, whether or not its vCPU      *)
(* acknowledges and whatever happens to the restart, unless a suspend      *)
(* stops the watchdog.                                                     *)
MCRecoveryEnds ==
    IsSingle /\ e.restart_pending ~> ~e.restart_pending \/ e.pm_suspended

(* Its topology bit is given back.                                         *)
MCTopologyReturned == IsSingle /\ topo ~> ~topo
=============================================================================
