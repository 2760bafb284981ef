-------------------------- MODULE VmRecoveryProofs --------------------------
(***************************************************************************)
(* Theorems about VmRecovery, for any set of vCPUs and any restart limit.  *)
(*                                                                         *)
(* The argument.  IInv is inductive.  Its parts follow the three owners of *)
(* the entry: the watchdog thread, whose place in the scan says what the   *)
(* recovery is (WdtInv); the chain request bit, idle thread, report, which *)
(* hands one completion on and never holds two (OwnerInv); and the guest   *)
(* instance, of which the recovery has seen a launch and a kick (SeenInv). *)
(* VmInv and OffInv are what the lifecycle promises them.                  *)
(***************************************************************************)
EXTENDS VmRecovery, TLAPS

(* A pending recovery is in one of its states, and no other is.            *)
EntryInv == e.restart_pending <=> e.recovery_state # "IDLE"

(* vm_wdt_reset() never finds the VM powered off when it runs, so a        *)
(* restart neither forgets a pending recovery nor its count.               *)
OffInv == vm.state = "POWERED_OFF" => vm.phase \in {"OFF", "FAILED"}

(* Pausing or destroying the VM leaves no vCPU that can run.               *)
VmInv == /\ vm.state = "PAUSED" => \A c \in Vcpu : vcpu[c] \in {"PAUSED", "OFFLINE"}
         /\ vm.state = "POWERED_OFF" => \A c \in Vcpu : vcpu[c] = "OFFLINE"

(* Where the watchdog thread is, the recovery it read is still there.      *)
WdtInv == /\ wdt = "claim" => ~e.restart_pending
          /\ wdt \in {"quiesce", "begin"} => e.recovery_state = "QUIESCING"
          /\ wdt = "queue" => e.recovery_state = "RESETTING" /\ ~e.reset_complete

(* The request bit, the idle thread and the report own the completion one  *)
(* after the other, and the topology bit covers the first two.             *)
OwnerInv == /\ request.wdt => request.reset /\ idle.pc = "none" /\ idle.report = "none"
            /\ idle.pc # "none" /\ idle.owned => idle.report = "none"
            /\ idle.pc # "none" => request.reset
            /\ request.reset => topo

(* The restart of the pending recovery has succeeded, as the idle thread,  *)
(* its report or the entry says.                                           *)
Relaunched == \/ idle.pc = "end" /\ idle.owned /\ idle.ok
              \/ idle.report = "ok"
              \/ e.recovery_state = "RESETTING" /\ e.reset_complete /\ e.reset_ok
              \/ e.recovery_state = "VERIFYING"

(* The recovery counts as verified only what happened after its claim.     *)
SeenInv == /\ seen = "launched" => ~e.heartbeat_started
           /\ Relaunched => seen # "none"

IInv == /\ TypeOK /\ EntryInv /\ RestartBounded /\ OffInv /\ VmInv
        /\ WdtInv /\ OwnerInv /\ OwnedCompletion /\ SeenInv

-----------------------------------------------------------------------------
(* The values the lifecycle steps assign to the VM, its vCPUs and their    *)
(* threads.                                                                *)
LEMMA VcpuTypes ==
    ASSUME TypeOK
    PROVE  /\ PausedVcpu \in [Vcpu -> VcpuState]
           /\ StoppedThread \in [Vcpu -> VcpuThread]
           /\ AsleepThread \in [Vcpu -> VcpuThread]
           /\ \A vc \in [Vcpu -> VcpuState] : ResetVcpu(vc) \in [Vcpu -> VcpuState]
BY DEF TypeOK, PausedVcpu, StoppedThread, AsleepThread, ResetVcpu, VcpuState, VcpuThread

(* The VM records the lifecycle operations leave behind are VM records.    *)
LEMMA VmTypes ==
    ASSUME TypeOK
    PROVE  /\ Started \in VmRecord
           /\ Created \in VmRecord
           /\ Failed \in VmRecord
           /\ [Created EXCEPT !.state = "RUNNING", !.phase = "RUNNING"] \in VmRecord
           /\ \A s \in VmState, p \in VmPhase : [vm EXCEPT !.state = s, !.phase = p] \in VmRecord
           /\ \A p \in VmPhase, r \in BOOLEAN :
                 [vm EXCEPT !.phase = p, !.reset_valid = r] \in VmRecord
BY Zenon DEF TypeOK, VmRecord, VmState, VmPhase, Started, Created, Failed

(* launch_vcpu() of a vCPU of the VM.                                      *)
LEMMA LaunchTypes ==
    ASSUME TypeOK, NEW c \in Vcpu,
           NEW vc \in [Vcpu -> VcpuState], NEW th \in [Vcpu -> VcpuThread],
           Launch(c, vc, th)
    PROVE  /\ vcpu' \in [Vcpu -> VcpuState]
           /\ thr' \in [Vcpu -> VcpuThread]
           /\ slot' \in [Vcpu -> Slot]
BY DEF TypeOK, Launch, VcpuState, VcpuThread, Slot

(* What vm_wdt_reset() and the two ends of a recovery leave in the entry.  *)
LEMMA EntryTypes ==
    ASSUME TypeOK
    PROVE  /\ ResetEntry \in WdtEntry
           /\ EndRecovery \in WdtEntry
           /\ StartVerification \in WdtEntry
<1>1. NoEntry \in WdtEntry
  BY DEF NoEntry, WdtEntry, Recovery
<1>2. ResetEntry \in WdtEntry
  BY <1>1, Zenon DEF TypeOK, ResetEntry, WdtEntry
<1>3. e.restart_count + 1 \in Nat
  BY DEF TypeOK, WdtEntry
<1>4. EndRecovery \in WdtEntry
  BY <1>3, Zenon DEF TypeOK, EndRecovery, WdtEntry, Recovery
<1>5. StartVerification \in WdtEntry
  <2>1. [e EXCEPT !.recovery_state = "VERIFYING", !.reset_complete = FALSE,
                  !.reset_ok = FALSE, !.expired = FALSE] \in WdtEntry
    BY Zenon DEF TypeOK, WdtEntry, Recovery
  <2> QED BY <1>4, <2>1 DEF StartVerification
<1> QED BY <1>2, <1>4, <1>5

(* Every step keeps the types.                                             *)
LEMMA TypeStep == TypeOK /\ [Next]_vars => TypeOK'
<1> SUFFICES ASSUME TypeOK, [Next]_vars PROVE TypeOK'
  OBVIOUS
<1> USE DEF TypeOK, lifecycle, queue
<1>1. CASE StartVm
  <2>1. vm_wdt_reset /\ Launch(Bsp, vcpu, thr) /\ vm' = Started
    BY <1>1 DEF StartVm
  <2> QED BY <1>1, <2>1, VmRecoveryConstants, VmTypes, LaunchTypes, EntryTypes
      , Zenon DEF StartVm, See, vm_wdt_reset
<1>2. CASE PauseVm
  <2>1. vm' \in VmRecord
    BY <1>2, Zenon DEF PauseVm, VmRecord, VmState, VmPhase
  <2> QED BY <1>2, <2>1, VcpuTypes DEF PauseVm
<1>3. CASE ResetVm
  BY <1>3, VcpuTypes, VmTypes, Zenon DEF ResetVm
<1>4. CASE DestroyVm
  <2>1. vm' \in VmRecord
    BY <1>4, Zenon DEF DestroyVm, VmRecord, VmState, VmPhase
  <2>2. vcpu' \in [Vcpu -> VcpuState]
    BY <1>4 DEF DestroyVm, VcpuState
  <2> QED BY <1>4, <2>1, <2>2, EntryTypes DEF DestroyVm, vm_wdt_reset
<1>5. CASE CreateVm
  <2>1. vm' \in VmRecord
    <3>1. [vm EXCEPT !.phase = "FAILED", !.reset_valid = FALSE] \in VmRecord
      BY VmTypes, Zenon DEF VmPhase
    <3> QED BY <1>5, <3>1, VmTypes, Zenon DEF CreateVm
  <2>2. vcpu' \in [Vcpu -> VcpuState]
    BY <1>5 DEF CreateVm, VcpuState
  <2> QED BY <1>5, <2>1, <2>2 DEF CreateVm
<1>6. CASE ShellRestart
  <2>1. vm' \in VmRecord
    BY <1>6, Zenon DEF ShellRestart, VmRecord, VmPhase, make_reset_vm_request_internal
  <2>2. request' \in Request
    BY <1>6 DEF ShellRestart, Request, make_reset_vm_request_internal
  <2> QED BY <1>6, <2>1, <2>2 DEF ShellRestart, make_reset_vm_request_internal
<1>7. CASE IdleTake
  <2>1. idle' \in IdleRecord
    BY <1>7, Zenon DEF IdleTake, IdleRecord, Request
  <2>2. request' \in Request
    BY <1>7, Zenon DEF IdleTake, Request
  <2> QED BY <1>7, <2>1, <2>2 DEF IdleTake
<1>8. CASE IdleRestart
  <2>1. idle' \in IdleRecord
    BY <1>8, Zenon DEF IdleRestart, IdleRecord
  <2> QED BY <1>8, <2>1, VmRecoveryConstants, VmTypes, VcpuTypes, LaunchTypes, EntryTypes
      , Zenon DEF IdleRestart, restart_vm_locked, vm_wdt_reset, See
<1>9. CASE IdleEnd
  <2>1. idle' \in IdleRecord
    BY <1>9, Zenon DEF IdleEnd, IdleRecord, Idled
  <2>2. request' \in Request
    BY <1>9, Zenon DEF IdleEnd, Request
  <2> QED BY <1>9, <2>1, <2>2, Zenon DEF IdleEnd
<1>10. CASE IdleReport
  <2>1. idle' \in IdleRecord
    BY <1>10 DEF IdleReport, IdleRecord
  <2>2. e' \in WdtEntry
    BY <1>10, Zenon DEF IdleReport, WdtEntry
  <2> QED BY <1>10, <2>1, <2>2 DEF IdleReport
<1>11. CASE WdtWake
  BY <1>11 DEF WdtWake, WdtPlace
<1>12. CASE WdtScan
  BY <1>12 DEF WdtScan, WdtPlace
<1>13. CASE WdtClaim
  <2>1. e' \in WdtEntry
    <3>1. [e EXCEPT !.restart_pending = TRUE, !.recovery_state = "QUIESCING",
                    !.reset_complete = FALSE, !.reset_ok = FALSE,
                    !.expired = FALSE] \in WdtEntry
      BY Zenon DEF WdtEntry, Recovery
    <3> QED BY <1>13, <3>1 DEF WdtClaim
  <2>2. slot' \in [Vcpu -> Slot]
    BY <1>13 DEF WdtClaim, Slot
  <2> QED BY <1>13, <2>1, <2>2 DEF WdtClaim, See, WdtPlace
<1>14. CASE WdtProcess
  BY <1>14, EntryTypes DEF WdtProcess, See, WdtPlace
<1>15. CASE WdtQuiesce
  <2>1. vm' \in VmRecord
    BY <1>15, Zenon DEF WdtQuiesce, VmRecord, VmState, VmPhase
  <2>2. thr' \in [Vcpu -> VcpuThread]
    BY <1>15, VcpuTypes DEF WdtQuiesce
  <2>3. slot' \in [Vcpu -> Slot]
    BY <1>15 DEF WdtQuiesce, Slot
  <2>4. wdt' \in WdtPlace
    BY <1>15 DEF WdtQuiesce, WdtPlace
  <2> QED BY <1>15, <2>1, <2>2, <2>3, <2>4, VcpuTypes DEF WdtQuiesce
<1>16. CASE WdtBegin
  <2>1. e' \in WdtEntry
    BY <1>16, Zenon DEF WdtBegin, WdtEntry, Recovery
  <2> QED BY <1>16, <2>1 DEF WdtBegin, WdtPlace
<1>17. CASE WdtQueue
  <2>1. vm' \in VmRecord
    BY <1>17, Zenon DEF WdtQueue, VmRecord, VmPhase, make_reset_vm_request_internal
  <2>2. request' \in Request
    <3>1. [reset |-> TRUE, wdt |-> TRUE] \in Request
      BY DEF Request
    <3> QED BY <1>17, <3>1, Zenon DEF WdtQueue, make_reset_vm_request_internal
  <2> QED BY <1>17, <2>1, <2>2, Zenon DEF WdtQueue, make_reset_vm_request_internal, WdtPlace
<1>18. CASE WdtFail
  BY <1>18, EntryTypes DEF WdtFail, See, WdtPlace
<1>19. ASSUME NEW c \in Vcpu, Kick(c) PROVE TypeOK'
  <2>1. e' \in WdtEntry
    <3>1. \A x \in WdtEntry : [x EXCEPT !.heartbeat_started = TRUE, !.late = FALSE] \in WdtEntry
      BY Zenon DEF WdtEntry
    <3> QED BY <1>19, <3>1, EntryTypes, Zenon DEF Kick
  <2> QED BY <1>19, <2>1 DEF Kick, See
<1>20. ASSUME NEW c \in Vcpu, CpuOff(c) PROVE TypeOK'
  <2>1. vcpu' \in [Vcpu -> VcpuState]
    BY <1>20 DEF CpuOff, VcpuState
  <2>2. thr' \in [Vcpu -> VcpuThread]
    BY <1>20 DEF CpuOff, VcpuThread
  <2> QED BY <1>20, <2>1, <2>2 DEF CpuOff
<1>21. ASSUME NEW c \in Vcpu, FaultingExit(c) PROVE TypeOK'
  <2>1. vcpu' \in [Vcpu -> VcpuState]
    BY <1>21 DEF FaultingExit, VcpuState, PauseSelf
  <2>2. thr' \in [Vcpu -> VcpuThread]
    BY <1>21 DEF FaultingExit, VcpuThread, PauseSelf
  <2> QED BY <1>21, <2>1, <2>2 DEF FaultingExit
<1>22. ASSUME NEW c \in Vcpu, SystemReset(c) PROVE TypeOK'
  <2>1. vcpu' \in [Vcpu -> VcpuState]
    BY <1>22 DEF SystemReset, VcpuState, PauseSelf
  <2>2. thr' \in [Vcpu -> VcpuThread]
    BY <1>22 DEF SystemReset, VcpuThread, PauseSelf
  <2>3. vm' \in VmRecord
    BY <1>22, Zenon DEF SystemReset, VmRecord, VmPhase, make_reset_vm_request_internal
  <2>4. request' \in Request
    BY <1>22 DEF SystemReset, Request, make_reset_vm_request_internal
  <2> QED BY <1>22, <2>1, <2>2, <2>3, <2>4 DEF SystemReset, make_reset_vm_request_internal
<1>23. ASSUME NEW c \in Vcpu, SwitchOut(c) PROVE TypeOK'
  <2>1. thr' \in [Vcpu -> VcpuThread]
    BY <1>23 DEF SwitchOut, VcpuThread
  <2> QED BY <1>23, <2>1 DEF SwitchOut
<1>24. ASSUME NEW c \in Vcpu, Ack(c) PROVE TypeOK'
  <2>1. slot' \in [Vcpu -> Slot]
    BY <1>24 DEF Ack, Slot
  <2> QED BY <1>24, <2>1 DEF Ack
<1>25. ASSUME NEW c \in Vcpu, NEW d \in Vcpu, CpuOn(c, d) PROVE TypeOK'
  BY <1>25, LaunchTypes DEF CpuOn
<1>26. ASSUME NEW scope \in {"system", "vm"}, PmBegin(scope) PROVE TypeOK'
  <2>1. pm' \in PmRecord
    BY <1>26 DEF PmBegin, PmRecord
  <2> QED BY <1>26, <2>1 DEF PmBegin
<1>27. CASE PmFreeze
  <2>1. pm' \in PmRecord
    BY <1>27, Zenon DEF PmFreeze, PmRecord
  <2> QED BY <1>27, <2>1 DEF PmFreeze
<1>28. CASE PmEnd
  <2>1. pm' \in PmRecord
    BY <1>28 DEF PmEnd, PmRecord
  <2> QED BY <1>28, <2>1 DEF PmEnd
<1>29. CASE PmSuspendWdt
  <2>1. e' \in WdtEntry
    BY <1>29, Zenon DEF PmSuspendWdt, WdtEntry
  <2> QED BY <1>29, <2>1 DEF PmSuspendWdt
<1>30. CASE PmResumeWdt
  <2>1. e' \in WdtEntry
    BY <1>30, Zenon DEF PmResumeWdt, WdtEntry
  <2> QED BY <1>30, <2>1 DEF PmResumeWdt
<1>31. CASE HeartbeatLate
  <2>1. e' \in WdtEntry
    BY <1>31, Zenon DEF HeartbeatLate, WdtEntry
  <2> QED BY <1>31, <2>1 DEF HeartbeatLate
<1>32. CASE RecoveryExpires
  <2>1. e' \in WdtEntry
    BY <1>32, Zenon DEF RecoveryExpires, WdtEntry
  <2> QED BY <1>32, <2>1 DEF RecoveryExpires
<1>33. CASE UNCHANGED vars
  BY <1>33 DEF vars
<1> QED
  BY Zenon, <1>1, <1>2, <1>3, <1>4, <1>5, <1>6, <1>7, <1>8, <1>9, <1>10, <1>11,
     <1>12, <1>13, <1>14, <1>15, <1>16, <1>17, <1>18, <1>19, <1>20, <1>21,
     <1>22, <1>23, <1>24, <1>25, <1>26, <1>27, <1>28, <1>29, <1>30, <1>31,
     <1>32, <1>33
     DEF Next, IdleStep, WdtStep

-----------------------------------------------------------------------------
(* restart_vm_locked() commits one of three lifecycles.                    *)
LEMMA RestartOutcomes ==
    ASSUME TypeOK, VmInv, IdleRestart, ~UNCHANGED <<vm, vcpu>>
    PROVE  \/ /\ vm' = Failed
              /\ vcpu' = PausedVcpu \/ (vm.state \notin {"RUNNING", "CREATED"} /\ vcpu' = vcpu)
           \/ vm' = Created
           \/ vm' = [Created EXCEPT !.state = "RUNNING", !.phase = "RUNNING"]
BY DEF IdleRestart, restart_vm_locked, lifecycle

(* Every step keeps what the lifecycle says of the vCPUs.                  *)
LEMMA LifecycleStep ==
    TypeOK /\ OffInv /\ VmInv /\ [Next]_vars => OffInv' /\ VmInv'
<1> SUFFICES ASSUME TypeOK, OffInv, VmInv, [Next]_vars PROVE OffInv' /\ VmInv'
  OBVIOUS
<1>0. /\ vm.state \in VmState /\ vm.phase \in VmPhase
      /\ \A s, p, r : /\ [vm EXCEPT !.state = s, !.phase = p].state = s
                      /\ [vm EXCEPT !.state = s, !.phase = p].phase = p
                      /\ [vm EXCEPT !.phase = p, !.reset_valid = r].state = vm.state
                      /\ [vm EXCEPT !.phase = p, !.reset_valid = r].phase = p
  BY DEF TypeOK, VmRecord
<1>1. CASE UNCHANGED <<vm, vcpu>>
  BY <1>1 DEF OffInv, VmInv
<1>2. CASE StartVm
  BY <1>2 DEF StartVm, Started, OffInv, VmInv
<1>3. CASE PauseVm
  BY <1>0, <1>3 DEF PauseVm, PausedVcpu, OffInv, VmInv
<1>4. CASE ResetVm
  BY <1>4 DEF ResetVm, Created, Failed, OffInv, VmInv
<1>5. CASE DestroyVm
  BY <1>0, <1>5 DEF DestroyVm, OffInv, VmInv
<1>6. CASE CreateVm
  <2>1. CASE vm' = Created
    BY <2>1 DEF Created, OffInv, VmInv
  <2>2. CASE vm' = [vm EXCEPT !.phase = "FAILED", !.reset_valid = FALSE]
    <3>1. vm'.state = "POWERED_OFF" /\ vm'.phase = "FAILED"
      BY <1>0, <1>6, <2>2 DEF CreateVm
    <3> QED BY <1>6, <3>1 DEF CreateVm, Created, OffInv, VmInv
  <2> QED BY <1>6, <2>1, <2>2 DEF CreateVm
<1>7. CASE ShellRestart
  BY <1>0, <1>7 DEF ShellRestart, make_reset_vm_request_internal, CanQueue, OffInv, VmInv
<1>8. CASE IdleRestart
  <2>1. CASE vm' = Failed /\ vcpu' = PausedVcpu
    BY <2>1 DEF Failed, PausedVcpu, OffInv, VmInv
  <2>2. CASE vm' = Failed /\ vm.state \notin {"RUNNING", "CREATED"} /\ vcpu' = vcpu
    BY <1>0, <2>2 DEF Failed, VmState, OffInv, VmInv
  <2>3. CASE vm' = Created
    BY <2>3 DEF Created, OffInv, VmInv
  <2>4. CASE vm' = [Created EXCEPT !.state = "RUNNING", !.phase = "RUNNING"]
    BY <2>4 DEF Created, OffInv, VmInv
  <2> QED BY <1>1, <1>8, <2>1, <2>2, <2>3, <2>4, RestartOutcomes
<1>9. CASE WdtQuiesce
  <2>1. CASE vm.state \in {"RUNNING", "CREATED"}
    <3>1. vcpu' = PausedVcpu /\ vm'.state \in {"RUNNING", "CREATED", "PAUSED"}
      BY <1>9, <2>1, Zenon DEF WdtQuiesce, TypeOK, VmRecord
    <3> QED BY <3>1 DEF PausedVcpu, OffInv, VmInv
  <2>2. CASE vm.state \notin {"RUNNING", "CREATED"}
    BY <1>1, <1>9, <2>2 DEF WdtQuiesce, lifecycle
  <2> QED BY <2>1, <2>2
<1>10. CASE WdtQueue
  <2>1. CASE make_reset_vm_request_internal(TRUE)
    BY <1>0, <1>10, <2>1 DEF WdtQueue, make_reset_vm_request_internal, CanQueue, OffInv, VmInv
  <2>2. CASE UNCHANGED vm
    BY <1>1, <1>10, <2>2 DEF WdtQueue
  <2> QED BY <1>10, <2>1, <2>2, Zenon DEF WdtQueue
<1>11. ASSUME NEW c \in Vcpu, CpuOff(c) PROVE OffInv' /\ VmInv'
  BY <1>11 DEF CpuOff, OffInv, VmInv
<1>12. ASSUME NEW c \in Vcpu, FaultingExit(c) PROVE OffInv' /\ VmInv'
  BY <1>12 DEF FaultingExit, PauseSelf, OffInv, VmInv, TypeOK
<1>13. ASSUME NEW c \in Vcpu, SystemReset(c) PROVE OffInv' /\ VmInv'
  BY <1>0, <1>13 DEF SystemReset, PauseSelf, make_reset_vm_request_internal, CanQueue,
                     OffInv, VmInv, TypeOK
<1>14. ASSUME NEW c \in Vcpu, NEW d \in Vcpu, CpuOn(c, d) PROVE OffInv' /\ VmInv'
  BY <1>14 DEF CpuOn, Launch, OffInv, VmInv
<1>15. ASSUME NEW c \in Vcpu, Kick(c) \/ SwitchOut(c) \/ Ack(c) PROVE UNCHANGED <<vm, vcpu>>
  BY <1>15 DEF Kick, SwitchOut, Ack, lifecycle
<1>16. ASSUME IdleTake \/ IdleEnd \/ IdleReport PROVE UNCHANGED <<vm, vcpu>>
  BY <1>16 DEF IdleTake, IdleEnd, IdleReport, lifecycle
<1>17. ASSUME WdtWake \/ WdtScan \/ WdtClaim \/ WdtProcess \/ WdtBegin \/ WdtFail
       PROVE  UNCHANGED <<vm, vcpu>>
  BY <1>17 DEF WdtWake, WdtScan, WdtClaim, WdtProcess, WdtBegin, WdtFail, lifecycle
<1>18. ASSUME \/ \E scope \in {"system", "vm"} : PmBegin(scope)
              \/ PmFreeze \/ PmSuspendWdt \/ PmResumeWdt \/ PmEnd
              \/ HeartbeatLate \/ RecoveryExpires \/ UNCHANGED vars
       PROVE  UNCHANGED <<vm, vcpu>>
  BY <1>18 DEF PmBegin, PmFreeze, PmSuspendWdt, PmResumeWdt, PmEnd, HeartbeatLate,
               RecoveryExpires, lifecycle, vars
<1> QED
  BY <1>1, <1>2, <1>3, <1>4, <1>5, <1>6, <1>7, <1>8, <1>9, <1>10, <1>11, <1>12, <1>13,
     <1>14, <1>15, <1>16, <1>17, <1>18
     DEF Next, IdleStep, WdtStep

-----------------------------------------------------------------------------
(* The fields of the entry that a recovery is made of.                     *)
Same == /\ e'.restart_pending = e.restart_pending
        /\ e'.recovery_state = e.recovery_state
        /\ e'.reset_complete = e.reset_complete
        /\ e'.reset_ok = e.reset_ok
        /\ e'.restart_count = e.restart_count

(* vm_wdt_reset() of a VM that is not powered off keeps the recovery.      *)
LEMMA ResetKeepsRecovery ==
    ASSUME TypeOK, vm.state # "POWERED_OFF", vm_wdt_reset
    PROVE  Same /\ ~e'.heartbeat_started
BY DEF TypeOK, WdtEntry, vm_wdt_reset, ResetEntry, Same

(* restart_vm_locked() is only called for a VM that is not powered off.    *)
LEMMA RestartKeepsRecovery ==
    ASSUME TypeOK, OffInv, IdleRestart
    PROVE  \/ UNCHANGED <<e, seen>> /\ ~idle'.ok
           \/ /\ Same /\ ~e'.heartbeat_started
              /\ See("launched")
<1>1. PICK ok \in BOOLEAN :
         /\ idle' = [idle EXCEPT !.pc = "end", !.ok = ok]
         /\ IF vm.phase = "QUIESCING" /\ vm.reset_valid
            THEN restart_vm_locked(ok)
            ELSE ~ok /\ UNCHANGED <<lifecycle, e, seen>>
  BY Zenon DEF IdleRestart
<1>2. idle'.ok = ok
  BY <1>1 DEF TypeOK, IdleRecord
<1>3. CASE ok
  <2>1. vm.state # "POWERED_OFF"
    BY <1>1, <1>3, Zenon DEF OffInv
  <2>2. vm_wdt_reset /\ See("launched")
    BY <1>1, <1>3 DEF restart_vm_locked
  <2> QED BY <2>1, <2>2, ResetKeepsRecovery
<1>4. CASE ~ok
  BY <1>1, <1>2, <1>4 DEF restart_vm_locked
<1> QED BY <1>3, <1>4

(* vm_wdt_complete_recovery() counts the recovery it ends.                 *)
LEMMA EndRecoveryFields ==
    ASSUME TypeOK
    PROVE  /\ EndRecovery.restart_pending = FALSE
           /\ EndRecovery.recovery_state = "IDLE"
           /\ EndRecovery.reset_complete = FALSE
           /\ EndRecovery.restart_count = e.restart_count + 1
           /\ EndRecovery.heartbeat_started = e.heartbeat_started
BY DEF TypeOK, WdtEntry, EndRecovery

RecoveryInv == /\ EntryInv /\ RestartBounded /\ WdtInv /\ OwnerInv
               /\ OwnedCompletion /\ SeenInv

(* The fields of the recovery entry, the idle worker and the request have  *)
(* their types.                                                            *)
LEMMA FieldTypes ==
    ASSUME TypeOK
    PROVE  /\ e.restart_pending \in BOOLEAN /\ e.reset_complete \in BOOLEAN
           /\ e.reset_ok \in BOOLEAN /\ e.heartbeat_started \in BOOLEAN
           /\ e.recovery_state \in Recovery /\ e.restart_count \in Nat
           /\ idle.owned \in BOOLEAN /\ idle.ok \in BOOLEAN
           /\ idle.pc \in {"none", "restart", "end"}
           /\ idle.report \in {"none", "ok", "failed"}
           /\ request.reset \in BOOLEAN /\ request.wdt \in BOOLEAN
<1>1. /\ e.restart_pending \in BOOLEAN /\ e.reset_complete \in BOOLEAN
      /\ e.reset_ok \in BOOLEAN /\ e.heartbeat_started \in BOOLEAN
      /\ e.recovery_state \in Recovery /\ e.restart_count \in Nat
  BY DEF TypeOK, WdtEntry
<1>2. /\ idle.owned \in BOOLEAN /\ idle.ok \in BOOLEAN
      /\ idle.pc \in {"none", "restart", "end"}
      /\ idle.report \in {"none", "ok", "failed"}
  BY DEF TypeOK, IdleRecord
<1>3. request.reset \in BOOLEAN /\ request.wdt \in BOOLEAN
  BY DEF TypeOK, Request
<1> QED BY <1>1, <1>2, <1>3

(* A step that keeps the recovery and the completion keeps what is said    *)
(* about them, provided that a launch clears the heartbeat.                *)
LEMMA SameRecovery ==
    ASSUME TypeOK, RecoveryInv, Same, UNCHANGED <<request, topo, idle, wdt>>,
           \/ seen' = seen /\ (e'.heartbeat_started => e.heartbeat_started)
           \/ See("launched") /\ ~e'.heartbeat_started
    PROVE  RecoveryInv'
<1> USE FieldTypes DEF RecoveryInv, Same
<1>1. EntryInv' /\ RestartBounded' /\ WdtInv'
  BY DEF EntryInv, RestartBounded, WdtInv
<1>2. OwnerInv' /\ OwnedCompletion'
  BY DEF OwnerInv, OwnedCompletion
<1>3. SeenInv'
  BY DEF SeenInv, Relaunched, See, EntryInv, OwnedCompletion
<1> QED BY <1>1, <1>2, <1>3

(* The idle thread's three steps and its report hand the completion on.    *)
LEMMA IdleKeepsRecovery ==
    ASSUME TypeOK, OffInv, RecoveryInv,
           IdleTake \/ IdleRestart \/ IdleEnd \/ IdleReport
    PROVE  RecoveryInv'
<1> USE FieldTypes DEF RecoveryInv
<1>1. CASE IdleTake
  <2>1. /\ idle.pc = "none" /\ request.reset
        /\ idle'.pc = "restart" /\ idle'.owned = request.wdt
        /\ idle'.report = idle.report /\ idle'.ok = idle.ok
        /\ request'.reset = request.reset /\ request'.wdt = FALSE
        /\ UNCHANGED <<topo, e, wdt, seen>>
    BY <1>1, Zenon DEF IdleTake, TypeOK, IdleRecord, Request
  <2>2. OwnerInv' /\ OwnedCompletion'
    BY <2>1 DEF OwnerInv, OwnedCompletion
  <2>3. EntryInv' /\ RestartBounded' /\ WdtInv' /\ SeenInv'
    BY <2>1 DEF EntryInv, RestartBounded, WdtInv, SeenInv, Relaunched
  <2> QED BY <2>2, <2>3
<1>2. CASE IdleRestart
  <2>1. /\ idle.pc = "restart" /\ idle'.pc = "end" /\ idle'.owned = idle.owned
        /\ idle'.report = idle.report /\ idle'.ok \in BOOLEAN
        /\ UNCHANGED <<request, topo, wdt>>
    BY <1>2, Zenon DEF IdleRestart, TypeOK, IdleRecord
  <2>2. OwnerInv'
    BY <2>1 DEF OwnerInv
  <2>3. CASE UNCHANGED <<e, seen>> /\ ~idle'.ok
    BY <2>1, <2>2, <2>3 DEF EntryInv, RestartBounded, WdtInv, SeenInv, Relaunched, OwnedCompletion
  <2>4. CASE Same /\ ~e'.heartbeat_started /\ See("launched")
    <3>1. EntryInv' /\ RestartBounded' /\ WdtInv' /\ OwnedCompletion'
      BY <2>1, <2>4 DEF EntryInv, RestartBounded, WdtInv, OwnedCompletion, Same
    <3>2. SeenInv'
      BY <2>1, <2>4, <3>1 DEF SeenInv, Relaunched, See, EntryInv, OwnedCompletion, OwnerInv, Same
    <3> QED BY <2>2, <3>1, <3>2
  <2> QED BY <1>2, <2>3, <2>4, RestartKeepsRecovery
<1>3. CASE IdleEnd
  <2>1. /\ idle.pc = "end" /\ idle'.pc = "none"
        /\ idle.owned => idle'.report = (IF idle.ok THEN "ok" ELSE "failed")
        /\ ~idle.owned => idle'.report = idle.report
        /\ request'.reset = FALSE /\ request'.wdt = request.wdt
        /\ UNCHANGED <<e, wdt, seen>>
    BY <1>3 DEF IdleEnd, Idled, TypeOK, IdleRecord, Request
  <2>2. OwnerInv' /\ OwnedCompletion'
    BY <2>1 DEF OwnerInv, OwnedCompletion
  <2>3. EntryInv' /\ RestartBounded' /\ WdtInv'
    BY <2>1 DEF EntryInv, RestartBounded, WdtInv
  <2>4. SeenInv'
    <3>1. idle'.report = "ok" => (idle.owned /\ idle.ok) \/ idle.report = "ok"
      BY <2>1
    <3>2. e' = e /\ seen' = seen /\ idle'.pc # "end"
      BY <2>1
    <3> QED BY <2>1, <3>1, <3>2 DEF SeenInv, Relaunched
  <2> QED BY <2>2, <2>3, <2>4
<1>4. CASE IdleReport
  <2>1. /\ idle.report # "none" /\ idle'.report = "none"
        /\ idle'.pc = idle.pc /\ idle'.owned = idle.owned /\ idle'.ok = idle.ok
        /\ UNCHANGED <<request, topo, wdt, seen>>
    BY <1>4 DEF IdleReport, TypeOK, IdleRecord
  <2>2. e.restart_pending /\ e.recovery_state = "RESETTING" /\ wdt \notin {"queue", "fail"}
    BY <2>1 DEF OwnedCompletion
  <2>3. /\ e'.restart_pending = e.restart_pending /\ e'.recovery_state = e.recovery_state
        /\ e'.reset_ok = (idle.report = "ok") /\ e'.reset_complete = TRUE
        /\ e'.restart_count = e.restart_count
        /\ e'.heartbeat_started = e.heartbeat_started
    BY <1>4, <2>1, <2>2, Zenon DEF IdleReport, OwnedCompletion, TypeOK, WdtEntry
  <2>4. OwnerInv' /\ OwnedCompletion'
    BY <2>1 DEF OwnerInv, OwnedCompletion
  <2>5. EntryInv' /\ RestartBounded' /\ WdtInv'
    BY <2>1, <2>2, <2>3 DEF EntryInv, RestartBounded, WdtInv
  <2>6. SeenInv'
    BY <2>1, <2>2, <2>3 DEF SeenInv, Relaunched, OwnerInv
  <2> QED BY <2>4, <2>5, <2>6
<1> QED BY <1>1, <1>2, <1>3, <1>4

(* The watchdog thread's steps.  It ends a recovery only when no           *)
(* completion of it is outstanding.                                        *)
LEMMA WdtKeepsRecovery ==
    ASSUME TypeOK, RecoveryInv, WdtWake \/ WdtStep
    PROVE  RecoveryInv'
<1> USE FieldTypes DEF RecoveryInv
<1>1. CASE WdtWake \/ WdtScan
  <2>1. UNCHANGED <<request, topo, idle, e, seen>>
    BY <1>1 DEF WdtWake, WdtScan, queue
  <2>2. wdt' \in {"scan", "asleep", "process"} \/ (wdt' = "claim" /\ ~e.restart_pending)
    BY <1>1 DEF WdtWake, WdtScan
  <2>3. EntryInv' /\ RestartBounded' /\ WdtInv'
    BY <2>1, <2>2 DEF EntryInv, RestartBounded, WdtInv
  <2>4. OwnerInv' /\ OwnedCompletion' /\ SeenInv'
    BY <2>1, <2>2 DEF OwnerInv, OwnedCompletion, SeenInv, Relaunched
  <2> QED BY <2>3, <2>4
<1>2. CASE WdtClaim
  <2>1. UNCHANGED <<request, topo, idle>> /\ wdt = "claim" /\ ~e.restart_pending
    BY <1>2 DEF WdtClaim, queue, WdtInv
  <2>2. CASE UNCHANGED e /\ wdt' = "asleep"
    <3>1. seen' = "none"
      BY <1>2, <2>1, <2>2 DEF WdtClaim, See
    <3>2. EntryInv' /\ RestartBounded' /\ WdtInv' /\ OwnerInv' /\ OwnedCompletion'
      BY <2>1, <2>2 DEF EntryInv, RestartBounded, WdtInv, OwnerInv, OwnedCompletion
    <3>3. ~Relaunched'
      BY <2>1, <2>2 DEF Relaunched, EntryInv, OwnedCompletion
    <3> QED BY <3>1, <3>2, <3>3 DEF SeenInv
  <2>3. CASE /\ e.restart_count < RESTART_MAX /\ wdt' = "process"
             /\ e' = [e EXCEPT !.restart_pending = TRUE, !.recovery_state = "QUIESCING",
                               !.reset_complete = FALSE, !.reset_ok = FALSE,
                               !.expired = FALSE]
    <3>1. /\ e'.restart_pending = TRUE /\ e'.recovery_state = "QUIESCING"
          /\ e'.restart_count = e.restart_count
      BY <2>3 DEF TypeOK, WdtEntry
    <3>2. seen' = "none"
      BY <1>2, <2>1 DEF WdtClaim, See
    <3>3. EntryInv' /\ RestartBounded' /\ WdtInv' /\ OwnerInv'
      BY <2>1, <2>3, <3>1, VmRecoveryConstants DEF EntryInv, RestartBounded, WdtInv, OwnerInv
    <3>4. OwnedCompletion' /\ ~Relaunched'
      BY <2>1, <2>3, <3>1 DEF OwnedCompletion, Relaunched
    <3> QED BY <3>2, <3>3, <3>4 DEF SeenInv
  <2> QED BY <1>2, <2>2, <2>3 DEF WdtClaim
<1>3. CASE WdtProcess
  <2>1. UNCHANGED <<request, topo, idle>> /\ wdt = "process" /\ See(seen)
    BY <1>3 DEF WdtProcess, queue
  <2>2. CASE UNCHANGED e
    <3>1. \/ wdt' = "asleep"
          \/ wdt' = "quiesce" /\ e.recovery_state = "QUIESCING"
          \/ wdt' = "fail" /\ (e.recovery_state # "RESETTING" \/ e.reset_complete)
      BY <1>3, <2>2 DEF WdtProcess
    <3>2. EntryInv' /\ RestartBounded' /\ WdtInv' /\ OwnerInv' /\ OwnedCompletion'
      BY <2>1, <2>2, <3>1 DEF EntryInv, RestartBounded, WdtInv, OwnerInv, OwnedCompletion
    <3>3. SeenInv'
      BY <2>1, <2>2 DEF SeenInv, Relaunched, See, EntryInv, OwnedCompletion
    <3> QED BY <3>2, <3>3
  <2>3. CASE /\ e.recovery_state = "RESETTING" /\ e.reset_complete /\ e.reset_ok
             /\ e' = StartVerification /\ wdt' = "asleep"
    <3>1. CASE e.heartbeat_started
      <4>1. /\ e'.restart_pending = FALSE /\ e'.recovery_state = "IDLE"
            /\ e'.restart_count = e.restart_count + 1
        BY <2>3, <3>1, EndRecoveryFields, Zenon DEF StartVerification
      <4>2. ~Relaunched' /\ OwnedCompletion' /\ OwnerInv'
        BY <2>1, <2>3, <4>1 DEF Relaunched, OwnedCompletion, OwnerInv
      <4>3. EntryInv' /\ RestartBounded' /\ WdtInv'
        BY <2>3, <4>1, VmRecoveryConstants DEF EntryInv, RestartBounded, WdtInv
      <4>4. seen' = "none"
        BY <2>1, <4>1 DEF See
      <4> QED BY <4>2, <4>3, <4>4 DEF SeenInv
    <3>2. CASE ~e.heartbeat_started
      <4>1. /\ e'.restart_pending = e.restart_pending /\ e'.recovery_state = "VERIFYING"
            /\ e'.restart_count = e.restart_count /\ e'.heartbeat_started = FALSE
        BY <2>3, <3>2 DEF StartVerification, TypeOK, WdtEntry
      <4>2. OwnedCompletion' /\ OwnerInv'
        BY <2>1, <2>3 DEF OwnedCompletion, OwnerInv
      <4>3. EntryInv' /\ RestartBounded' /\ WdtInv'
        BY <2>3, <4>1 DEF EntryInv, RestartBounded, WdtInv
      <4>4. seen' = seen /\ seen # "none"
        BY <2>1, <2>3, <4>1 DEF See, SeenInv, Relaunched, EntryInv
      <4> QED BY <4>1, <4>2, <4>3, <4>4 DEF SeenInv
    <3> QED BY <3>1, <3>2
  <2> QED BY <1>3, <2>2, <2>3 DEF WdtProcess
<1>4. CASE WdtQuiesce
  <2>1. /\ UNCHANGED <<request, topo, idle, e, seen>> /\ e.recovery_state = "QUIESCING"
        /\ wdt' \in {"begin", "fail", "asleep"}
    BY <1>4 DEF WdtQuiesce, queue, WdtInv
  <2>2. EntryInv' /\ RestartBounded' /\ WdtInv'
    BY <2>1 DEF EntryInv, RestartBounded, WdtInv
  <2>3. OwnerInv' /\ OwnedCompletion' /\ SeenInv'
    BY <2>1 DEF OwnerInv, OwnedCompletion, SeenInv, Relaunched
  <2> QED BY <2>2, <2>3
<1>5. CASE WdtBegin
  <2>1. UNCHANGED <<request, topo, idle, seen>> /\ e.recovery_state = "QUIESCING"
    BY <1>5 DEF WdtBegin, queue, WdtInv
  <2>2. /\ e'.restart_pending = e.restart_pending /\ e'.recovery_state = "RESETTING"
        /\ e'.reset_complete = FALSE /\ e'.restart_count = e.restart_count
        /\ e'.heartbeat_started = e.heartbeat_started /\ wdt' = "queue"
    BY <1>5, <2>1, Zenon DEF WdtBegin, EntryInv, TypeOK, WdtEntry
  <2>3. EntryInv' /\ RestartBounded' /\ WdtInv'
    BY <2>1, <2>2 DEF EntryInv, RestartBounded, WdtInv
  <2>4. OwnerInv' /\ OwnedCompletion' /\ SeenInv'
    BY <2>1, <2>2 DEF OwnerInv, OwnedCompletion, SeenInv, Relaunched
  <2> QED BY <2>3, <2>4
<1>6. CASE WdtQueue
  <2>1. /\ UNCHANGED <<idle, e, seen>> /\ wdt = "queue" /\ wdt' \in {"asleep", "fail"}
        /\ e.recovery_state = "RESETTING" /\ ~e.reset_complete
        /\ idle.report = "none" /\ ~request.wdt /\ ~(idle.pc # "none" /\ idle.owned)
    BY <1>6, Zenon DEF WdtQueue, WdtInv, OwnedCompletion
  <2>2. EntryInv' /\ RestartBounded' /\ WdtInv' /\ SeenInv'
    BY <2>1 DEF EntryInv, RestartBounded, WdtInv, SeenInv, Relaunched
  <2>3. CASE wdt' = "fail" /\ UNCHANGED <<topo, request>>
    BY <2>1, <2>2, <2>3 DEF OwnerInv, OwnedCompletion
  <2>4. CASE make_reset_vm_request_internal(TRUE) /\ wdt' = "asleep"
    <3>1. ~topo /\ topo' = TRUE /\ request'.reset = TRUE /\ request'.wdt = TRUE
      BY <2>4 DEF make_reset_vm_request_internal, CanQueue, TopologyFree
    <3> QED BY <2>1, <2>2, <2>4, <3>1 DEF OwnerInv, OwnedCompletion, EntryInv
  <2> QED BY <1>6, <2>3, <2>4, Zenon DEF WdtQueue
<1>7. CASE WdtFail
  <2>1. /\ UNCHANGED <<request, topo, idle>> /\ wdt = "fail" /\ wdt' = "asleep" /\ See(seen)
        /\ idle.report = "none" /\ ~request.wdt /\ ~(idle.pc # "none" /\ idle.owned)
    BY <1>7 DEF WdtFail, queue, OwnedCompletion
  <2>2. /\ e'.restart_pending = FALSE /\ e'.recovery_state = "IDLE"
        /\ \/ e.restart_pending /\ e'.restart_count = e.restart_count + 1
           \/ e'.restart_count = e.restart_count
    BY <1>7, EndRecoveryFields, Zenon DEF WdtFail, EntryInv
  <2>3. EntryInv' /\ RestartBounded' /\ WdtInv'
    BY <2>1, <2>2, VmRecoveryConstants DEF EntryInv, RestartBounded, WdtInv
  <2>4. OwnerInv' /\ OwnedCompletion' /\ ~Relaunched'
    BY <2>1, <2>2 DEF OwnerInv, OwnedCompletion, Relaunched
  <2>5. seen' = "none"
    BY <2>1, <2>2 DEF See
  <2> QED BY <2>3, <2>4, <2>5 DEF SeenInv
<1> QED BY <1>1, <1>2, <1>3, <1>4, <1>5, <1>6, <1>7 DEF WdtStep

(* The guest's heartbeat.                                                  *)
LEMMA KickKeepsRecovery ==
    ASSUME TypeOK, RecoveryInv, NEW c \in Vcpu, Kick(c)
    PROVE  RecoveryInv'
<1> USE FieldTypes DEF RecoveryInv
<1>1. /\ UNCHANGED <<request, topo, idle, wdt>>
      /\ See(IF seen = "launched" THEN "kicked" ELSE seen)
  BY DEF Kick, queue
<1>2. CASE e.recovery_state = "VERIFYING"
  <2>1. EndRecovery \in WdtEntry
    BY EntryTypes
  <2>2. e' = [EndRecovery EXCEPT !.heartbeat_started = TRUE, !.late = FALSE]
    BY <1>2, Zenon DEF Kick, EntryInv
  <2>3. /\ e'.restart_pending = FALSE /\ e'.recovery_state = "IDLE"
        /\ e'.restart_count = e.restart_count + 1
    BY <2>1, <2>2, EndRecoveryFields, Zenon DEF WdtEntry
  <2>4. EntryInv' /\ RestartBounded' /\ WdtInv'
    BY <1>1, <1>2, <2>3, VmRecoveryConstants DEF EntryInv, RestartBounded, WdtInv
  <2>5. OwnerInv' /\ OwnedCompletion' /\ ~Relaunched'
    BY <1>1, <1>2, <2>3 DEF OwnerInv, OwnedCompletion, Relaunched
  <2>6. seen' = "none"
    BY <1>1, <2>3 DEF See
  <2> QED BY <2>4, <2>5, <2>6 DEF SeenInv
<1>3. CASE e.recovery_state # "VERIFYING"
  <2>1. e' = [e EXCEPT !.heartbeat_started = TRUE, !.late = FALSE]
    BY <1>3 DEF Kick
  <2>2. Same
    BY <2>1 DEF Same, TypeOK, WdtEntry
  <2>3. EntryInv' /\ RestartBounded' /\ WdtInv' /\ OwnerInv' /\ OwnedCompletion'
    BY <1>1, <2>2 DEF EntryInv, RestartBounded, WdtInv, OwnerInv, OwnedCompletion, Same
  <2>4. seen' # "launched"
    BY <1>1 DEF See
  <2>5. Relaunched' => Relaunched /\ e'.restart_pending
    BY <1>1, <2>2 DEF Relaunched, Same, EntryInv, OwnedCompletion
  <2>6. Relaunched' => seen' # "none"
    BY <1>1, <2>5 DEF See, SeenInv
  <2> QED BY <2>3, <2>4, <2>6 DEF SeenInv
<1> QED BY <1>2, <1>3

(* Every step keeps what the recovery stage says of the queue, the worker  *)
(* and the completion.                                                     *)
LEMMA RecoveryStep ==
    TypeOK /\ OffInv /\ RecoveryInv /\ [Next]_vars => RecoveryInv'
<1> SUFFICES ASSUME TypeOK, OffInv, RecoveryInv, [Next]_vars PROVE RecoveryInv'
  OBVIOUS
<1>1. ASSUME UNCHANGED <<request, topo, idle, e, wdt, seen>> PROVE RecoveryInv'
  BY <1>1 DEF RecoveryInv, EntryInv, RestartBounded, WdtInv, OwnerInv, OwnedCompletion,
              SeenInv, Relaunched
<1>2. CASE StartVm
  BY <1>2, ResetKeepsRecovery, SameRecovery DEF StartVm, queue
<1>3. CASE DestroyVm
  BY <1>3, ResetKeepsRecovery, SameRecovery DEF DestroyVm, queue
<1>4. CASE PauseVm \/ ResetVm \/ CreateVm
  BY <1>1, <1>4 DEF PauseVm, ResetVm, CreateVm, queue
<1>5. ASSUME make_reset_vm_request_internal(FALSE), UNCHANGED <<idle, e, wdt, seen>>
      PROVE  RecoveryInv'
  <2>1. ~topo /\ topo' = TRUE /\ request'.reset = TRUE /\ request'.wdt = FALSE
    BY <1>5 DEF make_reset_vm_request_internal, CanQueue, TopologyFree
  <2>2. OwnerInv' /\ OwnedCompletion'
    BY <1>5, <2>1, FieldTypes DEF RecoveryInv, OwnerInv, OwnedCompletion
  <2>3. EntryInv' /\ RestartBounded' /\ WdtInv' /\ SeenInv'
    BY <1>5 DEF RecoveryInv, EntryInv, RestartBounded, WdtInv, SeenInv, Relaunched
  <2> QED BY <2>2, <2>3 DEF RecoveryInv
<1>6. CASE ShellRestart
  BY <1>5, <1>6 DEF ShellRestart
<1>7. CASE IdleStep \/ IdleReport
  BY <1>7, IdleKeepsRecovery DEF IdleStep
<1>8. CASE WdtWake \/ WdtStep
  BY <1>8, WdtKeepsRecovery
<1>9. ASSUME NEW c \in Vcpu, Kick(c) PROVE RecoveryInv'
  BY <1>9, KickKeepsRecovery
<1>10. ASSUME NEW c \in Vcpu, SystemReset(c) PROVE RecoveryInv'
  BY <1>5, <1>10 DEF SystemReset
<1>11. ASSUME NEW c \in Vcpu,
              \/ CpuOff(c) \/ FaultingExit(c) \/ SwitchOut(c) \/ Ack(c)
              \/ \E d \in Vcpu : CpuOn(c, d)
       PROVE  RecoveryInv'
  BY <1>1, <1>11 DEF CpuOff, FaultingExit, SwitchOut, Ack, CpuOn, queue
<1>12. CASE (\E scope \in {"system", "vm"} : PmBegin(scope)) \/ PmFreeze \/ PmEnd
  BY <1>1, <1>12 DEF PmBegin, PmFreeze, PmEnd, queue
<1>13. CASE PmSuspendWdt \/ PmResumeWdt \/ HeartbeatLate \/ RecoveryExpires
  <2>1. Same /\ e'.heartbeat_started = e.heartbeat_started
    BY <1>13 DEF PmSuspendWdt, PmResumeWdt, HeartbeatLate, RecoveryExpires, Same,
                 TypeOK, WdtEntry
  <2>2. UNCHANGED <<request, topo, idle, wdt, seen>>
    BY <1>13 DEF PmSuspendWdt, PmResumeWdt, HeartbeatLate, RecoveryExpires, queue
  <2> QED BY <2>1, <2>2, SameRecovery
<1>14. CASE UNCHANGED vars
  BY <1>1, <1>14 DEF vars, queue
<1> QED
  BY <1>2, <1>3, <1>4, <1>6, <1>7, <1>8, <1>9, <1>10, <1>11, <1>12, <1>13, <1>14 DEF Next

(* The invariant holds of a VM that has never been recovered.              *)
LEMMA InvInit == Init => IInv
<1> SUFFICES ASSUME Init PROVE IInv
  OBVIOUS
<1>1. vm \in VmRecord /\ vcpu \in [Vcpu -> VcpuState] /\ thr \in [Vcpu -> VcpuThread]
  BY DEF Init, VmRecord, VmState, VmPhase, VcpuState, VcpuThread
<1>2. slot \in [Vcpu -> Slot] /\ request \in Request /\ idle \in IdleRecord
  BY DEF Init, Slot, Request, IdleRecord
<1>3. e \in WdtEntry /\ wdt \in WdtPlace /\ pm \in PmRecord
  BY DEF Init, NoEntry, WdtEntry, Recovery, WdtPlace, PmRecord
<1>4. TypeOK
  BY <1>1, <1>2, <1>3, Zenon DEF TypeOK, Init
<1>5. OffInv /\ VmInv
  BY DEF Init, OffInv, VmInv
<1>6. EntryInv /\ RestartBounded /\ WdtInv
  BY VmRecoveryConstants DEF Init, NoEntry, EntryInv, RestartBounded, WdtInv
<1>7. OwnerInv /\ OwnedCompletion /\ SeenInv
  BY DEF Init, NoEntry, OwnerInv, OwnedCompletion, SeenInv, Relaunched
<1> QED BY <1>4, <1>5, <1>6, <1>7 DEF IInv

(* Every reachable state of the monitored VM satisfies the inductive       *)
(* invariant.                                                              *)
THEOREM RecoveryInvariant == Spec => []IInv
<1>1. Init => IInv
  BY InvInit
<1>2. IInv /\ [Next]_vars => IInv'
  BY TypeStep, LifecycleStep, RecoveryStep DEF IInv, RecoveryInv
<1> QED BY <1>1, <1>2, PTL DEF Spec

(* CONFIG_VM_WDT_RESTART_MAX bounds the recoveries, for every value of it: *)
(* vm_wdt_claim_restart() tests the count, and the watchdog thread and a   *)
(* kick never count the same recovery twice.                               *)
THEOREM RestartBoundedHolds == Spec => []RestartBounded
<1>1. IInv => RestartBounded
  BY DEF IInv
<1> QED BY <1>1, RecoveryInvariant, PTL

(* vm_wdt_restart_complete() always reports into the recovery that queued  *)
(* the restart, however requests of the shell, of the guest and of the     *)
(* Service VM interleave with it.                                          *)
THEOREM OwnedCompletionHolds == Spec => []OwnedCompletion
<1>1. IInv => OwnedCompletion
  BY DEF IInv
<1> QED BY <1>1, RecoveryInvariant, PTL

(* reset_vm() and restart_vm_locked() rebuild no vCPU while another is     *)
(* left on its pCPU, and create_vm() finds only vCPUs that destroy_vm()    *)
(* took offline.                                                           *)
THEOREM ResetIsQuietHolds == Spec => ResetIsQuiet
<1> DEFINE Quiet == (\E c \in DOMAIN vcpu : vcpu[c] \notin {"INIT", "OFFLINE"} /\ vcpu'[c] = "INIT")
                       => \A d \in DOMAIN vcpu : thr[d] = "BLOCKED" \/ vcpu[d] = "RUNNING"
<1>1. IInv /\ [Next]_vars => [Quiet]_vars
  <2> SUFFICES ASSUME IInv, Next,
                      NEW c \in Vcpu, vcpu[c] \notin {"INIT", "OFFLINE"}, vcpu'[c] = "INIT",
                      NEW d \in Vcpu
               PROVE  thr[d] = "BLOCKED" \/ vcpu[d] = "RUNNING"
    BY DEF IInv, TypeOK
  <2>0. TypeOK /\ VmInv
    BY DEF IInv
  <2>1. CASE UNCHANGED vcpu
    BY <2>1
  <2>2. CASE StartVm
    BY <2>0, <2>2, VmRecoveryConstants DEF StartVm, Launch, TypeOK
  <2>3. CASE PauseVm
    BY <2>0, <2>3 DEF PauseVm, PausedVcpu
  <2>4. CASE ResetVm
    BY <2>4 DEF ResetVm, MayReset
  <2>5. CASE DestroyVm
    BY <2>0, <2>5 DEF DestroyVm
  <2>6. CASE CreateVm
    BY <2>0, <2>6 DEF CreateVm, VmInv
  <2>7. CASE IdleRestart
    <3>1. PICK ok \in BOOLEAN : restart_vm_locked(ok) \/ UNCHANGED vcpu
      BY <2>7 DEF IdleRestart, lifecycle
    <3>2. CASE vm.state \in {"RUNNING", "CREATED"}
      <4>1. MayReset(StoppedThread) \/ vcpu' = PausedVcpu \/ UNCHANGED vcpu
        BY <3>1, <3>2 DEF restart_vm_locked
      <4> QED BY <4>1 DEF MayReset, StoppedThread, PausedVcpu
    <3>3. CASE vm.state \notin {"RUNNING", "CREATED"}
      <4>1. MayReset(thr) \/ UNCHANGED vcpu
        BY <3>1, <3>3 DEF restart_vm_locked
      <4> QED BY <4>1 DEF MayReset
    <3> QED BY <3>2, <3>3
  <2>8. CASE WdtQuiesce
    BY <2>8 DEF WdtQuiesce, PausedVcpu, lifecycle
  <2>9. ASSUME NEW i \in Vcpu,
               \/ CpuOff(i) \/ FaultingExit(i) \/ SystemReset(i)
               \/ \E j \in Vcpu : CpuOn(i, j)
        PROVE  thr[d] = "BLOCKED" \/ vcpu[d] = "RUNNING"
    BY <2>0, <2>9, Zenon DEF CpuOff, FaultingExit, SystemReset, PauseSelf, CpuOn, Launch, TypeOK
  <2>10. CASE \/ ShellRestart \/ IdleTake \/ IdleEnd \/ IdleReport \/ WdtWake \/ WdtScan
              \/ WdtClaim \/ WdtProcess \/ WdtBegin \/ WdtQueue \/ WdtFail
              \/ \E i \in Vcpu : Kick(i) \/ SwitchOut(i) \/ Ack(i)
    BY <2>1, <2>10, Zenon DEF ShellRestart, IdleTake, IdleEnd, IdleReport, WdtWake, WdtScan,
                       WdtClaim, WdtProcess, WdtBegin, WdtQueue, WdtFail, Kick, SwitchOut,
                       Ack, lifecycle
  <2>11. CASE \/ \E scope \in {"system", "vm"} : PmBegin(scope)
              \/ PmFreeze \/ PmSuspendWdt \/ PmResumeWdt \/ PmEnd
              \/ HeartbeatLate \/ RecoveryExpires
    BY <2>1, <2>11 DEF PmBegin, PmFreeze, PmSuspendWdt, PmResumeWdt, PmEnd, HeartbeatLate,
                       RecoveryExpires, lifecycle
  <2> QED BY <2>2, <2>3, <2>4, <2>5, <2>6, <2>7, <2>8, <2>9, <2>10, <2>11
             DEF Next, IdleStep, WdtStep
<1> QED BY <1>1, RecoveryInvariant, PTL DEF Spec, ResetIsQuiet

(* Three steps count a recovery, each once: the watchdog thread giving up, *)
(* the watchdog thread finding that the new instance has kicked already,   *)
(* and the kick of a recovery that is being verified.                      *)
LEMMA CountStep ==
    ASSUME IInv, [Next]_vars
    PROVE  \/ e'.restart_count = e.restart_count
           \/ /\ e'.restart_count = e.restart_count + 1
              /\ \/ wdt = "fail" /\ wdt' = "asleep"
                 \/ e.recovery_state = "RESETTING" /\ e.reset_complete /\ e.reset_ok
                       /\ e.heartbeat_started
                 \/ e.recovery_state = "VERIFYING" /\ wdt' = wdt
<1> DEFINE Counts == \/ e'.restart_count = e.restart_count
                     \/ /\ e'.restart_count = e.restart_count + 1
                        /\ \/ wdt = "fail" /\ wdt' = "asleep"
                           \/ e.recovery_state = "RESETTING" /\ e.reset_complete /\ e.reset_ok
                                 /\ e.heartbeat_started
                           \/ e.recovery_state = "VERIFYING" /\ wdt' = wdt
<1>0. TypeOK /\ OffInv
  BY DEF IInv
<1>1. CASE UNCHANGED e
  BY <1>1
<1>2. CASE StartVm \/ DestroyVm
  BY <1>0, <1>2, ResetKeepsRecovery DEF StartVm, DestroyVm, Same
<1>3. CASE IdleRestart
  BY <1>0, <1>1, <1>3, RestartKeepsRecovery DEF Same
<1>4. CASE IdleReport
  BY <1>0, <1>4 DEF IdleReport, TypeOK, WdtEntry
<1>5. CASE WdtClaim \/ WdtBegin
  BY <1>0, <1>5, Zenon DEF WdtClaim, WdtBegin, TypeOK, WdtEntry
<1>6. CASE WdtProcess
  <2>1. CASE e' = StartVerification /\ ~e.heartbeat_started
    BY <1>0, <2>1 DEF StartVerification, TypeOK, WdtEntry
  <2>2. CASE /\ e.recovery_state = "RESETTING" /\ e.reset_complete /\ e.reset_ok
             /\ e' = StartVerification /\ e.heartbeat_started
    BY <1>0, <2>2, EndRecoveryFields DEF StartVerification
  <2> QED BY <1>1, <1>6, <2>1, <2>2 DEF WdtProcess
<1>7. CASE WdtFail
  BY <1>0, <1>7, EndRecoveryFields DEF WdtFail
<1>8. ASSUME NEW c \in Vcpu, Kick(c) PROVE Counts
  <2>1. CASE e.recovery_state = "VERIFYING" /\ e.restart_pending
    <3>1. e' = [EndRecovery EXCEPT !.heartbeat_started = TRUE, !.late = FALSE] /\ wdt' = wdt
      BY <1>8, <2>1 DEF Kick
    <3>2. e'.restart_count = EndRecovery.restart_count
      BY <1>0, <3>1, EntryTypes DEF WdtEntry
    <3> QED BY <1>0, <2>1, <3>1, <3>2, EndRecoveryFields
  <2>2. CASE ~(e.recovery_state = "VERIFYING" /\ e.restart_pending)
    <3>1. e' = [e EXCEPT !.heartbeat_started = TRUE, !.late = FALSE]
      BY <1>8, <2>2, Zenon DEF Kick
    <3> QED BY <1>0, <3>1 DEF TypeOK, WdtEntry
  <2> QED BY <2>1, <2>2
<1>9. CASE PmSuspendWdt \/ PmResumeWdt \/ HeartbeatLate \/ RecoveryExpires
  BY <1>0, <1>9 DEF PmSuspendWdt, PmResumeWdt, HeartbeatLate, RecoveryExpires, TypeOK, WdtEntry
<1>10. ASSUME \/ PauseVm \/ ResetVm \/ CreateVm \/ ShellRestart \/ IdleTake \/ IdleEnd
              \/ WdtWake \/ WdtScan \/ WdtQuiesce \/ WdtQueue \/ UNCHANGED vars
       PROVE  UNCHANGED e
  BY <1>10, Zenon DEF PauseVm, ResetVm, CreateVm, ShellRestart, IdleTake, IdleEnd, WdtWake, WdtScan,
               WdtQuiesce, WdtQueue, vars
<1>11. ASSUME \/ \E c \in Vcpu : \/ CpuOff(c) \/ FaultingExit(c) \/ SystemReset(c)
                                 \/ SwitchOut(c) \/ Ack(c) \/ \E d \in Vcpu : CpuOn(c, d)
              \/ \E scope \in {"system", "vm"} : PmBegin(scope)
              \/ PmFreeze \/ PmEnd
       PROVE  UNCHANGED e
  BY <1>11, Zenon DEF CpuOff, FaultingExit, SystemReset, SwitchOut, Ack, CpuOn, PmBegin, PmFreeze,
               PmEnd
<1>12. Counts
  BY <1>1, <1>2, <1>3, <1>4, <1>5, <1>6, <1>7, <1>8, <1>9, <1>10, <1>11
     DEF Next, IdleStep, WdtStep
<1> QED BY <1>12

(* A recovery that ends otherwise than by vm_wdt_complete_recovery(false)  *)
(* relaunched the VM after its claim, and the guest kicked after that: the *)
(* heartbeat flag that vm_wdt_start_verification() reads was cleared by    *)
(* the vm_wdt_reset() of the launch.                                       *)
THEOREM SuccessMeansAliveHolds == Spec => SuccessMeansAlive
<1> DEFINE Alive == e'.restart_count > e.restart_count /\ ~(wdt = "fail" /\ wdt' = "asleep")
                       => seen = "kicked" \/ (seen = "launched" /\ wdt' = wdt)
<1>1. IInv /\ [Next]_vars => [Alive]_vars
  <2> SUFFICES ASSUME IInv, [Next]_vars PROVE Alive
    OBVIOUS
  <2>1. e.restart_count \in Nat /\ seen \in {"none", "launched", "kicked"}
    BY FieldTypes DEF IInv, TypeOK
  <2>2. Relaunched => seen # "none"
    BY DEF IInv, SeenInv
  <2>3. seen = "launched" => ~e.heartbeat_started
    BY DEF IInv, SeenInv
  <2>4. CASE e'.restart_count = e.restart_count
    BY <2>1, <2>4
  <2>5. CASE wdt = "fail" /\ wdt' = "asleep"
    BY <2>5
  <2>6. CASE e.recovery_state = "RESETTING" /\ e.reset_complete /\ e.reset_ok /\ e.heartbeat_started
    BY <2>1, <2>2, <2>3, <2>6 DEF Relaunched
  <2>7. CASE e.recovery_state = "VERIFYING" /\ wdt' = wdt
    BY <2>1, <2>2, <2>7 DEF Relaunched
  <2> QED BY <2>4, <2>5, <2>6, <2>7, CountStep
<1> QED BY <1>1, RecoveryInvariant, PTL DEF Spec, SuccessMeansAlive

(* The count of recoveries never drops: not over a restart, and not over   *)
(* destroy_vm() and create_vm() either, although vm_wdt_reset() means to   *)
(* clear the history of a destroyed VM.  destroy_vm() calls it before it   *)
(* commits the state and start_vm() when the VM is CREATED, so its test    *)
(* for a powered-off VM never succeeds.                                    *)
RestartCountKept == [][e'.restart_count >= e.restart_count]_vars

(* Nothing resets the count that vm_wdt_claim_restart() compares with the  *)
(* limit, whatever is done to the VM.                                      *)
THEOREM RestartCountKeptHolds == Spec => RestartCountKept
<1>1. IInv /\ [Next]_vars => [e'.restart_count >= e.restart_count]_vars
  <2> SUFFICES ASSUME IInv, [Next]_vars PROVE e'.restart_count >= e.restart_count
    OBVIOUS
  <2>1. e.restart_count \in Nat
    BY FieldTypes DEF IInv
  <2> QED BY <2>1, CountStep
<1> QED BY <1>1, RecoveryInvariant, PTL DEF Spec, RestartCountKept
=============================================================================
