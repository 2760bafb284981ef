---------------------------- MODULE VmRecovery ----------------------------
(***************************************************************************)
(* One monitored VM: its lifecycle (core/vm.c), its vCPUs (core/vcpu.c)    *)
(* and its watchdog recovery (core/vm_wdt.c).                              *)
(*                                                                         *)
(* The watchdog thread of pCPU 0, the idle thread of the VM's boot pCPU    *)
(* that performs queued resets, the Service VM's lifecycle hypercalls, the *)
(* guest's own PSCI calls and heartbeats and the suspend transaction       *)
(* interleave.  A critical section of vm_wdt_lock, of the VM's state lock  *)
(* or of pm_transaction.lock is one step.                                  *)
(*                                                                         *)
(* Clocks are abstracted to the comparisons the code makes: e.late says    *)
(* that the heartbeat is older than the timeout, e.expired that            *)
(* recovery_start_tsc is.  Generations are only ever compared for          *)
(* equality: reset_valid says that reset_generation equals the lifecycle   *)
(* generation, and a quiesce slot is "old" when its generation is not that *)
(* of the current recovery.                                                *)
(***************************************************************************)
EXTENDS Integers

CONSTANTS
    Vcpu,         \* the vCPUs of the VM, each on a pCPU of its own
    Bsp,          \* the one that start_vm() launches
    RESTART_MAX   \* CONFIG_VM_WDT_RESTART_MAX

ASSUME VmRecoveryConstants == Bsp \in Vcpu /\ RESTART_MAX \in Nat \ {0}

VARIABLES
    vm,       \* state and lifecycle of struct acrn_vm
    vcpu,     \* state of each vCPU
    thr,      \* its thread: BLOCKED, AWAKE, or BLOCKING when it was told to sleep
              \* and its host stack is still on the pCPU
    slot,     \* its quiesce slot
    request,  \* the VM's bits in reset_vm_bitmap and wdt_reset_vm_bitmap
    topo,     \* the VM's bit in topology_change_vm_mask
    idle,     \* reset_vm_from_idle(), its locals and the report it owes the watchdog
    e,        \* vm_wdt_entries[] of the VM
    wdt,      \* where the watchdog thread is in its scan
    pm,       \* scope of the suspend transaction, and whether the VM is frozen
    seen      \* history: what the VM did since the recovery was claimed

lifecycle == <<vm, vcpu, thr, slot>>
queue     == <<request, topo, idle>>
vars      == <<lifecycle, queue, e, wdt, pm, seen>>

VmState   == {"POWERED_OFF", "CREATED", "RUNNING", "PAUSED"}
VmPhase   == {"OFF", "CREATED", "RUNNING", "QUIESCING", "FAILED"}
VcpuState == {"OFFLINE", "INIT", "RUNNING", "PAUSED", "POWERED_OFF"}
Recovery  == {"IDLE", "QUIESCING", "RESETTING", "VERIFYING"}

VmRecord == [state : VmState, phase : VmPhase, reset_valid : BOOLEAN]
VcpuThread == {"BLOCKED", "AWAKE", "BLOCKING"}
Slot     == {"none", "old", "asked", "acked"}
Request  == [reset : BOOLEAN, wdt : BOOLEAN]
IdleRecord == [pc : {"none", "restart", "end"}, owned : BOOLEAN, ok : BOOLEAN,
               report : {"none", "ok", "failed"}]
WdtEntry == [restart_pending : BOOLEAN, recovery_state : Recovery,
             reset_complete : BOOLEAN, reset_ok : BOOLEAN, restart_count : Nat,
             heartbeat_started : BOOLEAN, pm_suspended : BOOLEAN,
             late : BOOLEAN, expired : BOOLEAN]
WdtPlace == {"asleep", "scan", "claim", "process", "quiesce", "begin", "queue", "fail"}
PmRecord == [scope : {"none", "system", "vm"}, frozen : BOOLEAN]

TypeOK ==
    /\ vm \in VmRecord
    /\ vcpu \in [Vcpu -> VcpuState]
    /\ thr \in [Vcpu -> VcpuThread]
    /\ slot \in [Vcpu -> Slot]
    /\ request \in Request
    /\ topo \in BOOLEAN
    /\ idle \in IdleRecord
    /\ e \in WdtEntry
    /\ wdt \in WdtPlace
    /\ pm \in PmRecord
    /\ seen \in {"none", "launched", "kicked"}

NoEntry == [restart_pending |-> FALSE, recovery_state |-> "IDLE",
            reset_complete |-> FALSE, reset_ok |-> FALSE,
            restart_count |-> 0, heartbeat_started |-> FALSE, pm_suspended |-> FALSE,
            late |-> FALSE, expired |-> FALSE]

(* A VM that create_vm() has built and nobody has started.                 *)
Init ==
    /\ vm = [state |-> "CREATED", phase |-> "CREATED", reset_valid |-> FALSE]
    /\ vcpu = [c \in Vcpu |-> "INIT"]
    /\ thr = [c \in Vcpu |-> "BLOCKED"]
    /\ slot = [c \in Vcpu |-> "none"]
    /\ request = [reset |-> FALSE, wdt |-> FALSE]
    /\ topo = FALSE
    /\ idle = [pc |-> "none", owned |-> FALSE, ok |-> FALSE, report |-> "none"]
    /\ e = NoEntry
    /\ wdt = "asleep"
    /\ pm = [scope |-> "none", frozen |-> FALSE]
    /\ seen = "none"

-----------------------------------------------------------------------------
(* vCPUs.  Live(c): c still executes, in the guest or in an exit handler.  *)
Live(c)      == thr[c] # "BLOCKED" /\ ~pm.frozen
PausedVcpu   == [c \in Vcpu |-> IF vcpu[c] = "OFFLINE" THEN "OFFLINE" ELSE "PAUSED"]
AsleepThread == [c \in Vcpu |-> IF thr[c] = "AWAKE"
                                THEN IF pm.frozen THEN "BLOCKED" ELSE "BLOCKING"
                                ELSE thr[c]]

(* pause_vcpu_sync() for every vCPU: it waits for the ones that ran, and   *)
(* takes a vCPU that is PAUSED already as it is.                           *)
StoppedThread == [c \in Vcpu |-> IF vcpu[c] = "RUNNING" THEN "BLOCKED" ELSE thr[c]]

(* launch_vcpu(c) with the vCPU states vc, threads th and slots.           *)
Launch(c, vc, th) ==
    /\ vcpu' = [vc EXCEPT ![c] = "RUNNING"]
    /\ thr' = [th EXCEPT ![c] = "AWAKE"]
    /\ slot' = [slot EXCEPT ![c] = "none"]

(* Mutant: a restart keeps the heartbeat of the instance it replaces.      *)
MutResetEntryKeepsHeartbeat ==
    LET kept == IF vm.state = "POWERED_OFF" THEN NoEntry ELSE e
    IN  [kept EXCEPT !.pm_suspended = FALSE, !.late = FALSE]

(* vm_wdt_reset().                                                         *)
ResetEntry ==
    LET kept == IF vm.state = "POWERED_OFF" THEN NoEntry ELSE e
    IN  [kept EXCEPT !.heartbeat_started = FALSE, !.pm_suspended = FALSE,
                     !.late = FALSE]

vm_wdt_reset == e' = ResetEntry

(* The history, which is kept while a recovery is pending.                 *)
See(what) == seen' = IF e'.restart_pending THEN what ELSE "none"

-----------------------------------------------------------------------------
(* Lifecycle.  Each runs under the VM's state lock.                        *)

(* Mutant: reset_thread_data() checks the freeze gate only.                *)
MutMayResetUnblocked(th) == ~pm.frozen /\ th \in [Vcpu -> {"BLOCKED", "AWAKE", "BLOCKING"}]

(* reset_thread_data() of every vCPU accepts.                              *)
MayReset(th) == ~pm.frozen /\ \A c \in Vcpu : th[c] = "BLOCKED"

Started == [vm EXCEPT !.state = "RUNNING", !.phase = "RUNNING"]
Created == [state |-> "CREATED", phase |-> "CREATED", reset_valid |-> FALSE]
Failed  == [state |-> "PAUSED", phase |-> "FAILED", reset_valid |-> FALSE]

ResetVcpu(vc) == [c \in Vcpu |-> IF vc[c] = "PAUSED" THEN "INIT" ELSE vc[c]]

(* start_vm(), from hcall_start_vm().                                      *)
StartVm ==
    /\ vm.state = "CREATED" /\ vm.phase = "CREATED" /\ vcpu[Bsp] = "INIT"
    /\ vm_wdt_reset
    /\ Launch(Bsp, vcpu, thr)
    /\ vm' = Started
    /\ See("launched")
    /\ UNCHANGED <<queue, wdt, pm>>

(* pause_vm(), from hcall_pause_vm().                                      *)
PauseVm ==
    /\ vm.state \in {"RUNNING", "CREATED"}
    /\ vcpu' = PausedVcpu /\ thr' = StoppedThread
    /\ vm' = [vm EXCEPT !.state = "PAUSED", !.phase = "QUIESCING"]
    /\ UNCHANGED <<slot, queue, e, wdt, pm, seen>>

(* reset_vm(), from hcall_reset_vm().  arch_reset_vm() may fail.           *)
ResetVm ==
    /\ vm.state = "PAUSED"
    /\ \/ /\ MayReset(thr)
          /\ vm' = Created /\ vcpu' = ResetVcpu(vcpu)
       \/ vm' = Failed /\ UNCHANGED vcpu
    /\ UNCHANGED <<thr, slot, queue, e, wdt, pm, seen>>

(* destroy_vm(), from hcall_destroy_vm().                                  *)
DestroyVm ==
    /\ vm.state = "PAUSED"
    /\ vm_wdt_reset
    /\ vcpu' = [c \in Vcpu |-> IF vcpu[c] \in {"INIT", "PAUSED"} THEN "OFFLINE" ELSE vcpu[c]]
    /\ vm' = [vm EXCEPT !.state = "POWERED_OFF", !.phase = "OFF"]
    /\ UNCHANGED <<thr, slot, queue, wdt, pm, seen>>

(* create_vm(), from hcall_create_vm().  A thread that was still on its    *)
(* pCPU when the VM was destroyed is there until it switches out.          *)
CreateVm ==
    /\ vm.state = "POWERED_OFF"
    /\ \/ vm' = Created /\ vcpu' = [c \in Vcpu |-> "INIT"]
       \/ /\ vm' = [vm EXCEPT !.phase = "FAILED", !.reset_valid = FALSE]
          /\ vcpu' = [c \in Vcpu |-> "OFFLINE"]
    /\ UNCHANGED <<thr, slot, queue, e, wdt, pm, seen>>

-----------------------------------------------------------------------------
(* Queued restarts.  make_reset_vm_request_internal() takes the topology   *)
(* bit, which reset_vm_from_idle() gives back.                             *)
TopologyFree == ~topo /\ pm.scope = "none"
CanQueue == TopologyFree /\ vm.state # "POWERED_OFF"
                         /\ vm.phase \in {"RUNNING", "CREATED", "QUIESCING"}

make_reset_vm_request_internal(owned) ==
    /\ CanQueue
    /\ topo' = TRUE
    /\ vm' = [vm EXCEPT !.phase = "QUIESCING", !.reset_valid = TRUE]
    /\ request' = [reset |-> TRUE, wdt |-> owned]

(* request_vm_cold_restart(), from the shell.                              *)
ShellRestart ==
    /\ make_reset_vm_request_internal(FALSE)
    /\ UNCHANGED <<vcpu, thr, slot, idle, e, wdt, pm, seen>>

(* Mutant: the owner bit is tested and not cleared.                        *)
MutIdleTakeKeepsOwner ==
    /\ idle.pc = "none" /\ request.reset
    /\ idle' = [idle EXCEPT !.pc = "restart", !.owned = request.wdt]
    /\ UNCHANGED <<lifecycle, request, topo, e, wdt, pm, seen>>

IdleTake ==
    /\ idle.pc = "none" /\ request.reset
    /\ idle' = [idle EXCEPT !.pc = "restart", !.owned = request.wdt]
    /\ request' = [request EXCEPT !.wdt = FALSE]
    /\ UNCHANGED <<lifecycle, topo, e, wdt, pm, seen>>

(* restart_vm_locked(): pause, reset, reload, start, each of which may     *)
(* stop the sequence.                                                      *)
restart_vm_locked(ok) ==
    LET pause == vm.state \in {"RUNNING", "CREATED"}
        vc == IF pause THEN PausedVcpu ELSE vcpu
        th == IF pause THEN StoppedThread ELSE thr
    IN  \/ /\ ~ok
           /\ vm' = Failed /\ vcpu' = vc /\ thr' = th
           /\ UNCHANGED <<slot, e, seen>>
        \/ /\ ~ok /\ MayReset(th)
           /\ vm' = Created /\ vcpu' = ResetVcpu(vc) /\ thr' = th
           /\ UNCHANGED <<slot, e, seen>>
        \/ /\ ok /\ MayReset(th)
           /\ vm_wdt_reset
           /\ Launch(Bsp, ResetVcpu(vc), th)
           /\ vm' = [Created EXCEPT !.state = "RUNNING", !.phase = "RUNNING"]
           /\ See("launched")

IdleRestart ==
    /\ idle.pc = "restart"
    /\ \E ok \in BOOLEAN :
          /\ idle' = [idle EXCEPT !.pc = "end", !.ok = ok]
          /\ IF vm.phase = "QUIESCING" /\ vm.reset_valid
             THEN restart_vm_locked(ok)
             ELSE ~ok /\ UNCHANGED <<lifecycle, e, seen>>
    /\ UNCHANGED <<request, topo, wdt, pm>>

Idled == [idle EXCEPT !.pc = "none", !.owned = FALSE, !.ok = FALSE,
                      !.report = IF ~idle.owned THEN @ ELSE IF idle.ok THEN "ok" ELSE "failed"]

(* Mutant: the topology bit is given back only after a successful restart. *)
MutIdleEndOnSuccess ==
    /\ idle.pc = "end"
    /\ request' = [request EXCEPT !.reset = FALSE]
    /\ topo' = ~idle.ok
    /\ idle' = Idled
    /\ UNCHANGED <<lifecycle, e, wdt, pm, seen>>

IdleEnd ==
    /\ idle.pc = "end"
    /\ request' = [request EXCEPT !.reset = FALSE]
    /\ topo' = FALSE
    /\ idle' = Idled
    /\ UNCHANGED <<lifecycle, e, wdt, pm, seen>>

(* Mutant: a failed restart is not reported.                               *)
MutIdleReportSuccess ==
    /\ idle.report # "none"
    /\ idle' = [idle EXCEPT !.report = "none"]
    /\ e' = IF e.restart_pending /\ e.recovery_state = "RESETTING" /\ ~e.reset_complete
                  /\ idle.report = "ok"
            THEN [e EXCEPT !.reset_ok = TRUE, !.reset_complete = TRUE]
            ELSE e
    /\ UNCHANGED <<lifecycle, request, topo, wdt, pm, seen>>

(* vm_wdt_restart_complete().  The next request may be on another pCPU,    *)
(* whose idle thread does not wait for the report.                         *)
IdleReport ==
    /\ idle.report # "none"
    /\ idle' = [idle EXCEPT !.report = "none"]
    /\ e' = IF e.restart_pending /\ e.recovery_state = "RESETTING" /\ ~e.reset_complete
            THEN [e EXCEPT !.reset_ok = idle.report = "ok", !.reset_complete = TRUE]
            ELSE e
    /\ UNCHANGED <<lifecycle, request, topo, wdt, pm, seen>>

IdleStep == IdleTake \/ IdleRestart \/ IdleEnd

-----------------------------------------------------------------------------
(* The watchdog thread: vm_wdt_check_timeouts() for this VM.               *)
EndRecovery ==
    [e EXCEPT !.restart_pending = FALSE, !.recovery_state = "IDLE",
              !.reset_complete = FALSE, !.reset_ok = FALSE,
              !.restart_count = @ + 1, !.expired = FALSE]

(* The periodic and the recovery timers wake the thread.                   *)
WdtWake ==
    /\ wdt = "asleep" /\ ~(pm.scope = "system" /\ e.pm_suspended)
    /\ wdt' = "scan"
    /\ UNCHANGED <<lifecycle, queue, e, pm, seen>>

WdtScan ==
    /\ wdt = "scan"
    /\ wdt' = IF e.pm_suspended THEN "asleep"
              ELSE IF e.restart_pending THEN "process"
              ELSE IF vm.state = "RUNNING" /\ e.late THEN "claim" ELSE "asleep"
    /\ UNCHANGED <<lifecycle, queue, e, pm, seen>>

(* vm_wdt_claim_restart(): a new generation, so every earlier quiesce      *)
(* request and acknowledgement is stale.                                   *)
WdtClaim ==
    /\ wdt = "claim"
    /\ IF ~e.restart_pending /\ e.restart_count < RESTART_MAX /\ e.late
       THEN /\ e' = [e EXCEPT !.restart_pending = TRUE, !.recovery_state = "QUIESCING",
                              !.reset_complete = FALSE, !.reset_ok = FALSE,
                              !.expired = FALSE]
            /\ slot' = [c \in Vcpu |-> IF slot[c] = "none" THEN "none" ELSE "old"]
            /\ wdt' = "process"
       ELSE wdt' = "asleep" /\ UNCHANGED <<e, slot>>
    /\ See("none")
    /\ UNCHANGED <<vm, vcpu, thr, queue, pm>>

(* vm_wdt_start_verification(): the new instance may have kicked already.  *)
StartVerification ==
    IF e.heartbeat_started THEN EndRecovery
    ELSE [e EXCEPT !.recovery_state = "VERIFYING", !.reset_complete = FALSE,
                   !.reset_ok = FALSE, !.expired = FALSE]

(* vm_wdt_process_recovery() reads the recovery state and branches on it.  *)
WdtProcess ==
    /\ wdt = "process"
    /\ \/ /\ e.recovery_state = "QUIESCING"
          /\ wdt' = IF vm.state = "RUNNING" THEN "quiesce" ELSE "fail"
          /\ UNCHANGED e
       \/ /\ e.recovery_state = "RESETTING"
          /\ IF e.reset_complete /\ e.reset_ok
             THEN e' = StartVerification /\ wdt' = "asleep"
             ELSE wdt' = (IF e.reset_complete THEN "fail" ELSE "asleep") /\ UNCHANGED e
       \/ /\ e.recovery_state = "VERIFYING"
          /\ wdt' = IF e.expired THEN "fail" ELSE "asleep"
          /\ UNCHANGED e
       \/ /\ e.recovery_state = "IDLE"
          /\ wdt' = "asleep"
          /\ UNCHANGED e
    /\ See(seen)
    /\ UNCHANGED <<lifecycle, queue, pm>>

(* pause_vm_async() and vm_wdt_update_quiesce(): ask every vCPU, go on     *)
(* when all of them have acknowledged this generation.                     *)
WdtQuiesce ==
    LET acked(c) == vcpu[c] = "PAUSED" /\ slot[c] = "acked"
        pause    == vm.state \in {"RUNNING", "CREATED"}
        done     == vm.state = "PAUSED" \/ (pause /\ \A c \in Vcpu : acked(c))
    IN  /\ wdt = "quiesce"
        /\ IF pause
           THEN /\ vcpu' = PausedVcpu
                /\ thr' = [c \in Vcpu |-> IF acked(c) THEN thr[c] ELSE AsleepThread[c]]
                /\ slot' = [c \in Vcpu |-> IF acked(c) THEN slot[c] ELSE "asked"]
                /\ vm' = [vm EXCEPT !.state = IF done THEN "PAUSED" ELSE @,
                                    !.reset_valid = @ /\ vm.phase # "RUNNING",
                                    !.phase = IF done \/ @ = "RUNNING" THEN "QUIESCING" ELSE @]
           ELSE UNCHANGED lifecycle
        /\ wdt' = IF done THEN "begin" ELSE IF e.expired THEN "fail" ELSE "asleep"
        /\ UNCHANGED <<queue, e, pm, seen>>

(* vm_wdt_begin_reset().                                                   *)
WdtBegin ==
    /\ wdt = "begin"
    /\ IF e.restart_pending /\ e.recovery_state = "QUIESCING"
       THEN /\ e' = [e EXCEPT !.recovery_state = "RESETTING", !.expired = FALSE,
                              !.reset_complete = FALSE, !.reset_ok = FALSE]
            /\ wdt' = "queue"
       ELSE wdt' = "asleep" /\ UNCHANGED e
    /\ UNCHANGED <<lifecycle, queue, pm, seen>>

(* request_vm_wdt_restart().                                               *)
WdtQueue ==
    /\ wdt = "queue"
    /\ \/ make_reset_vm_request_internal(TRUE) /\ wdt' = "asleep"
       \/ ~CanQueue /\ wdt' = "fail" /\ UNCHANGED <<vm, topo, request>>
    /\ UNCHANGED <<vcpu, thr, slot, idle, e, pm, seen>>

(* Mutant: the recovery is ended without testing that it is pending.       *)
MutWdtFailUnchecked ==
    /\ wdt = "fail"
    /\ e' = EndRecovery
    /\ wdt' = "asleep"
    /\ See(seen)
    /\ UNCHANGED <<lifecycle, queue, pm>>

(* vm_wdt_complete_recovery(false).                                        *)
WdtFail ==
    /\ wdt = "fail"
    /\ e' = IF e.restart_pending THEN EndRecovery ELSE e
    /\ wdt' = "asleep"
    /\ See(seen)
    /\ UNCHANGED <<lifecycle, queue, pm>>

WdtStep == WdtScan \/ WdtClaim \/ WdtProcess \/ WdtQuiesce \/ WdtBegin \/ WdtQueue \/ WdtFail

-----------------------------------------------------------------------------
(* The guest.                                                              *)

(* vm_wdt_kick(): the heartbeat, which ends a recovery being verified.     *)
Kick(c) ==
    /\ Live(c)
    /\ LET verified == e.restart_pending /\ e.recovery_state = "VERIFYING"
       IN  e' = [(IF verified THEN EndRecovery ELSE e)
                     EXCEPT !.heartbeat_started = TRUE, !.late = FALSE]
    /\ See(IF seen = "launched" THEN "kicked" ELSE seen)
    /\ UNCHANGED <<lifecycle, queue, wdt, pm>>

(* PSCI CPU_ON.                                                            *)
CpuOn(c, d) ==
    /\ Live(c) /\ TopologyFree
    /\ vcpu[d] \in {"INIT", "POWERED_OFF"}
    /\ Launch(d, vcpu, thr)
    /\ UNCHANGED <<vm, queue, e, wdt, pm, seen>>

(* PSCI CPU_OFF and SYSTEM_OFF: poweroff_vcpu() of the caller.             *)
CpuOff(c) ==
    /\ Live(c) /\ TopologyFree /\ vcpu[c] = "RUNNING"
    /\ vcpu' = [vcpu EXCEPT ![c] = "POWERED_OFF"]
    /\ thr' = [thr EXCEPT ![c] = "BLOCKING"]
    /\ UNCHANGED <<vm, slot, queue, e, wdt, pm, seen>>

(* An exit the hypervisor cannot handle, or PSCI SYSTEM_RESET once the     *)
(* reset is queued, pauses the vCPU that took it.                          *)
PauseSelf(c) ==
    /\ Live(c) /\ vcpu[c] # "OFFLINE"
    /\ vcpu' = [vcpu EXCEPT ![c] = "PAUSED"]
    /\ thr' = [thr EXCEPT ![c] = "BLOCKING"]

FaultingExit(c) ==
    /\ PauseSelf(c)
    /\ UNCHANGED <<vm, slot, queue, e, wdt, pm, seen>>

SystemReset(c) ==
    /\ PauseSelf(c)
    /\ make_reset_vm_request_internal(FALSE)
    /\ UNCHANGED <<slot, idle, e, wdt, pm, seen>>

(* schedule() on the vCPU's pCPU, and the acknowledgement of its idle      *)
(* thread.                                                                 *)
SwitchOut(c) ==
    /\ thr[c] = "BLOCKING" /\ ~pm.frozen
    /\ thr' = [thr EXCEPT ![c] = "BLOCKED"]
    /\ UNCHANGED <<vm, vcpu, slot, queue, e, wdt, pm, seen>>

Ack(c) ==
    /\ slot[c] = "asked" /\ ~Live(c)
    /\ slot' = [slot EXCEPT ![c] = "acked"]
    /\ UNCHANGED <<vm, vcpu, thr, queue, e, wdt, pm, seen>>

-----------------------------------------------------------------------------
(* The suspend transaction (module HvPm), as far as the VM sees it.  Its   *)
(* steps run on the idle thread of pCPU 0, which the watchdog thread       *)
(* shares and never yields in the middle of a scan.  While the entry is    *)
(* suspended its clocks stand still: resume moves their bases by the time  *)
(* slept.                                                                  *)
PmBegin(scope) ==
    /\ TopologyFree /\ vm.state = "RUNNING"
    /\ pm' = [pm EXCEPT !.scope = scope]
    /\ UNCHANGED <<lifecycle, queue, e, wdt, seen>>

PmFreeze ==
    /\ pm.scope # "none" /\ ~pm.frozen /\ wdt = "asleep"
    /\ \A c \in Vcpu : thr[c] # "BLOCKING"
    /\ pm' = [pm EXCEPT !.frozen = TRUE]
    /\ UNCHANGED <<lifecycle, queue, e, wdt, seen>>

(* vm_wdt_pm_suspend(), and vm_wdt_pm_suspend_vm() which refuses while a   *)
(* recovery is pending and so aborts the transaction.                      *)
PmSuspendWdt ==
    /\ pm.frozen /\ ~e.pm_suspended /\ wdt = "asleep"
    /\ ~(pm.scope = "vm" /\ e.restart_pending)
    /\ e' = [e EXCEPT !.pm_suspended = TRUE]
    /\ UNCHANGED <<lifecycle, queue, wdt, pm, seen>>

(* vm_wdt_pm_resume() and vm_wdt_pm_resume_vm().                           *)
PmResumeWdt ==
    /\ e.pm_suspended /\ wdt = "asleep"
    /\ e' = [e EXCEPT !.pm_suspended = FALSE]
    /\ UNCHANGED <<lifecycle, queue, wdt, pm, seen>>

PmEnd ==
    /\ pm.scope # "none" /\ ~e.pm_suspended /\ wdt = "asleep"
    /\ pm' = [scope |-> "none", frozen |-> FALSE]
    /\ UNCHANGED <<lifecycle, queue, e, wdt, seen>>

HeartbeatLate ==
    /\ ~e.late /\ ~e.pm_suspended /\ vm.state = "RUNNING"
    /\ e' = [e EXCEPT !.late = TRUE]
    /\ UNCHANGED <<lifecycle, queue, wdt, pm, seen>>

RecoveryExpires ==
    /\ ~e.expired /\ ~e.pm_suspended /\ e.recovery_state \in {"QUIESCING", "VERIFYING"}
    /\ e' = [e EXCEPT !.expired = TRUE]
    /\ UNCHANGED <<lifecycle, queue, wdt, pm, seen>>

-----------------------------------------------------------------------------
Next ==
    \/ StartVm \/ PauseVm \/ ResetVm \/ DestroyVm \/ CreateVm \/ ShellRestart
    \/ IdleStep \/ IdleReport \/ WdtWake \/ WdtStep
    \/ \E c \in Vcpu : \/ Kick(c) \/ CpuOff(c) \/ FaultingExit(c) \/ SystemReset(c)
                       \/ SwitchOut(c) \/ Ack(c)
                       \/ \E d \in Vcpu : CpuOn(c, d)
    \/ \E scope \in {"system", "vm"} : PmBegin(scope)
    \/ PmFreeze \/ PmSuspendWdt \/ PmResumeWdt \/ PmEnd
    \/ HeartbeatLate \/ RecoveryExpires

Spec == Init /\ [][Next]_vars

(* The watchdog thread and the boot pCPU's idle thread run when they have  *)
(* work, and while the system is not suspended time passes: the periodic   *)
(* timer fires and deadlines expire.                                       *)
FairSpec ==
    /\ Spec
    /\ WF_vars(IdleStep) /\ WF_vars(IdleReport) /\ WF_vars(WdtStep)
    /\ WF_vars(WdtWake) /\ WF_vars(RecoveryExpires)

-----------------------------------------------------------------------------
(* CONFIG_VM_WDT_RESTART_MAX bounds the recoveries of the VM, the one      *)
(* being processed included: each claimed recovery is counted once,        *)
(* whichever of the watchdog thread and a guest kick ends it.              *)
RestartBounded ==
    e.restart_count + (IF e.restart_pending THEN 1 ELSE 0) <= RESTART_MAX

(* A restart that the watchdog owns is reported into the recovery that     *)
(* queued it: while the owner bit is set or the idle thread still owes the *)
(* report, that recovery is resetting and has no completion yet.           *)
OwnedCompletion ==
    request.wdt \/ (idle.pc # "none" /\ idle.owned) \/ idle.report # "none"
       => /\ e.restart_pending /\ e.recovery_state = "RESETTING" /\ ~e.reset_complete
          /\ wdt \notin {"queue", "fail"}

(* reset_vm() rebuilds the vCPUs only when none is left on a pCPU.  Those   *)
(* that run are waited for by pause_vm(); the ones that are PAUSED or       *)
(* powered off already, by a fault, by the guest or by a recovery that      *)
(* timed out, must have switched out.                                       *)
ResetIsQuiet ==
    [][(\E c \in DOMAIN vcpu : vcpu[c] \notin {"INIT", "OFFLINE"} /\ vcpu'[c] = "INIT")
         => \A d \in DOMAIN vcpu : thr[d] = "BLOCKED" \/ vcpu[d] = "RUNNING"]_vars

(* A recovery counted as a success relaunched the VM after it was claimed, *)
(* and the guest kicked after that launch: a heartbeat of the hung         *)
(* instance verifies nothing.                                              *)
SuccessMeansAlive ==
    [][e'.restart_count > e.restart_count /\ ~(wdt = "fail" /\ wdt' = "asleep")
         => seen = "kicked" \/ (seen = "launched" /\ wdt' = wdt)]_vars

(* Every recovery ends, whether or not the vCPUs acknowledge and whatever  *)
(* happens to its restart, unless a suspend stops the watchdog.            *)
RecoveryEnds == e.restart_pending ~> ~e.restart_pending \/ e.pm_suspended

(* The topology bit is given back.                                         *)
TopologyReturned == topo ~> ~topo
=============================================================================
