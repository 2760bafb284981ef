-------------------------------- MODULE HvPm --------------------------------
(***************************************************************************)
(* The suspend-to-RAM transaction of core/pm.c.  Callers on any pCPU open, *)
(* resume or abort a transaction and record wake sources; the idle thread  *)
(* of the boot pCPU alone drives it: prepare hooks, freezing of the vCPU   *)
(* threads of the required VMs, suspend hooks, platform entry, reverse     *)
(* hooks, thaw.  Each hook call, each vCPU gated or thawed and each        *)
(* critical section of pm_transaction.lock is one step.                    *)
(*                                                                         *)
(* The scheduler is what module Schedule promises of freeze_thread,        *)
(* thaw_thread and is_thread_frozen; the hooks (sdk/bsp/pm.c) either       *)
(* succeed or fail without retaining anything.                             *)
(***************************************************************************)
EXTENDS Integers, FiniteSets

CONSTANTS
    NVcpu,        \* vCPUs are 1..NVcpu, in the order the loops visit them
    VmOf,         \* VM of each vCPU, non-decreasing
    Policy,       \* policy_required_vm_mask: the VMs a system suspend takes; {}
                  \* when none is ever requested
    NHook,        \* hooks are 1..NHook, sorted by priority
    PrepareHook,  \* the hooks with a prepare callback; the others suspend
    WdtHook,      \* the watchdog's hook
    MaxEpoch,     \* bound: transactions opened
    MaxOwed       \* bound: callers between their update and their request

Vcpu == 1..NVcpu
Hook == 1..NHook
Vm   == {VmOf[v] : v \in Vcpu}

ASSUME HvPmConstants ==
    /\ NVcpu \in Nat \ {0} /\ NHook \in Nat /\ MaxEpoch \in Nat /\ MaxOwed \in Nat
    /\ \A v, w \in Vcpu : v <= w => VmOf[v] <= VmOf[w]
    /\ Policy \subseteq Vm /\ PrepareHook \subseteq Hook /\ WdtHook \in Hook

VARIABLES
    pm,        \* pm_transaction.data
    rec,       \* the per-VM vCPU masks of pm_transaction.data.vm[]
    owed,      \* callers that still have to call make_system_suspend_request
    need,      \* NEED_SYSTEM_SUSPEND of the boot pCPU
    late,      \* epoch remembered by a caller about to call hv_pm_abort, or 0
    bsp,       \* where the boot pCPU's idle thread is in the transaction
    vmstate,   \* vm->state
    vcpu,      \* vcpu->state
    thread,    \* scheduler view of the vCPU threads: on a pCPU, awake, gates
    due,       \* history: would the thread be awake had it never been frozen
    broken     \* history: a restore callback or the host restore has failed

vars == <<pm, rec, owed, need, late, bsp, vmstate, vcpu, thread, due, broken>>
envVars == <<vmstate, vcpu, due>>

PmStates == {"RUNNING", "PREPARING", "FREEZING_HOST", "SUSPENDED",
             "RESTORING_HOST", "ABORTING", "FAILED"}
NoMasks == [gated |-> {}, frozen |-> {}, wake_owned |-> {}]
Idle == [pc |-> "idle", idx |-> 0, abort |-> FALSE, err |-> FALSE]

Vcpus(m) == {v \in Vcpu : VmOf[v] = m}
Boot(m) == CHOOSE v \in Vcpus(m) : \A w \in Vcpus(m) : v <= w

Init ==
    /\ pm = [state |-> "RUNNING", epoch |-> 0, scope |-> "NONE", required |-> {},
             completed |-> {}, wake |-> FALSE, io_gated |-> {}, topology |-> {}]
    /\ rec = NoMasks
    /\ owed = 0 /\ need = FALSE /\ late = 0 /\ broken = FALSE
    /\ bsp = Idle
    /\ vmstate = [m \in Vm |-> "RUNNING"]
    /\ vcpu = [v \in Vcpu |-> IF v = Boot(VmOf[v]) THEN "RUNNING" ELSE "OFF"]
    /\ due = [v \in Vcpu |-> v = Boot(VmOf[v])]
    /\ thread = [v \in Vcpu |-> [on |-> FALSE, awake |-> v = Boot(VmOf[v]),
                                 freeze_epoch |-> 0, deferred |-> FALSE,
                                 quiesce |-> FALSE]]

-----------------------------------------------------------------------------
(* hv_pm_transition_locked and the hook bits. *)

Transition(s) == pm' = [pm EXCEPT !.state = s]
SetHookCompleted(i) == pm' = [pm EXCEPT !.completed = @ \cup {i}]
ClearHookCompleted(i) == pm' = [pm EXCEPT !.completed = @ \ {i}]

(* Callers. *)

Owe == owed < MaxOwed /\ owed' = owed + 1

\* make_system_suspend_request, a step of its own after the caller's update
MakeSystemSuspendRequest ==
    /\ owed > 0
    /\ owed' = owed - 1
    /\ need' = TRUE
    /\ UNCHANGED <<pm, rec, late, bsp, envVars, thread, broken>>

\* the checks of both requests and hv_pm_reset_epoch_locked
Open(scope, required) ==
    /\ pm.epoch < MaxEpoch
    /\ pm.state = "RUNNING"
    /\ pm.topology = {}
    /\ \A m \in required : vmstate[m] = "RUNNING"
    /\ pm' = [pm EXCEPT !.state = "PREPARING", !.epoch = @ + 1, !.scope = scope,
                        !.required = required, !.completed = {}, !.wake = FALSE,
                        !.io_gated = required]
    /\ rec' = NoMasks
    /\ Owe
    /\ UNCHANGED <<need, late, bsp, envVars, thread, broken>>

RequestSuspend == Policy # {} /\ Open("SYSTEM", Policy)
RequestVmSuspend(m) == Open("VM", {m})

RequestVmResume(m) ==
    /\ pm.scope = "VM" /\ pm.required = {m}
    /\ pm.state = "SUSPENDED"
    /\ Transition("RESTORING_HOST")
    /\ Owe
    /\ UNCHANGED <<rec, need, late, bsp, envVars, thread, broken>>

\* bsp_pm_abort reads the epoch, then calls hv_pm_abort with it
BspPmAbort ==
    /\ late = 0 /\ pm.epoch # 0
    /\ late' = pm.epoch
    /\ UNCHANGED <<pm, rec, owed, need, bsp, envVars, thread, broken>>

\* hv_pm_record_wake up to its unlock; outside SUSPENDED it goes on to abort
RecordWake ==
    /\ pm.scope = "SYSTEM" /\ pm.state \notin {"RUNNING", "FAILED"}
    /\ late = 0
    /\ pm' = [pm EXCEPT !.wake = TRUE]
    /\ late' = IF pm.state = "SUSPENDED" THEN 0 ELSE pm.epoch
    /\ UNCHANGED <<rec, owed, need, bsp, envVars, thread, broken>>

Abortable == late = pm.epoch /\ pm.state \notin {"RUNNING", "FAILED"}

\* Mutant: the abort is published and nobody asked to act on it
MutHvPmAbortUnserved ==
    /\ late # 0
    /\ late' = 0
    /\ IF Abortable THEN Transition("ABORTING") ELSE UNCHANGED pm
    /\ UNCHANGED <<rec, owed, need, bsp, envVars, thread, broken>>

HvPmAbort ==
    /\ late # 0
    /\ late' = 0
    /\ \/ /\ Abortable
          /\ Transition("ABORTING")
          /\ Owe
       \/ ~Abortable /\ UNCHANGED <<pm, owed>>
    /\ UNCHANGED <<rec, need, bsp, envVars, thread, broken>>

-----------------------------------------------------------------------------
(* Topology changes, which the PM gate keeps apart from transactions.      *)

\* Mutant: the gate does not look at the transaction's state
MutBeginTopologyUngated(m) ==
    /\ m \notin pm.topology
    /\ pm' = [pm EXCEPT !.topology = @ \cup {m}]
    /\ UNCHANGED <<rec, owed, need, late, bsp, envVars, thread, broken>>

BeginTopology(m) ==
    /\ pm.state = "RUNNING" /\ m \notin pm.topology
    /\ pm' = [pm EXCEPT !.topology = @ \cup {m}]
    /\ UNCHANGED <<rec, owed, need, late, bsp, envVars, thread, broken>>

EndTopology(m) ==
    /\ m \in pm.topology
    /\ pm' = [pm EXCEPT !.topology = @ \ {m}]
    /\ UNCHANGED <<rec, owed, need, late, bsp, envVars, thread, broken>>

\* a lifecycle change of v: its state, and a wake or a sleep of its thread
SetVcpu(v, s, wake) ==
    /\ vcpu' = [vcpu EXCEPT ![v] = s]
    /\ due' = [due EXCEPT ![v] = wake]
    /\ thread' = [thread EXCEPT ![v] =
                    IF @.freeze_epoch = 0 THEN [@ EXCEPT !.awake = wake]
                    ELSE [@ EXCEPT !.deferred = thread[v].deferred \/ wake]]
    /\ UNCHANGED <<pm, rec, owed, need, late, bsp, vmstate, broken>>

\* PSCI CPU_ON by another vCPU of the VM, between begin and end
CpuOn(v) ==
    /\ VmOf[v] \in pm.topology /\ vmstate[VmOf[v]] = "RUNNING"
    /\ vcpu[v] = "OFF" /\ ~thread[v].on
    /\ SetVcpu(v, "RUNNING", TRUE)

\* PSCI CPU_OFF by the vCPU itself, between begin and end
CpuOff(v) ==
    /\ VmOf[v] \in pm.topology
    /\ vcpu[v] = "RUNNING" /\ thread[v].on /\ thread[v].awake
    /\ SetVcpu(v, "OFF", FALSE)

\* the watchdog is suspended by its hook, for all VMs or for the target
WdtRuns(m) == WdtHook \in pm.completed => pm.scope = "VM" /\ m \notin pm.required

\* request_vcpu_quiesce: pause the vCPU and gate its wakes
WdtQuiesce(v) ==
    /\ WdtRuns(VmOf[v]) /\ vmstate[VmOf[v]] = "RUNNING" /\ ~thread[v].quiesce
    /\ vcpu' = [vcpu EXCEPT ![v] = "PAUSED"]
    /\ due' = [due EXCEPT ![v] = FALSE]
    /\ thread' = [thread EXCEPT ![v].awake = FALSE, ![v].quiesce = TRUE]
    /\ UNCHANGED <<pm, rec, owed, need, late, bsp, vmstate, broken>>

\* every acknowledgement is in: pause_vm_async commits VM_PAUSED
WdtPauseVm(m) ==
    /\ WdtRuns(m) /\ vmstate[m] = "RUNNING"
    /\ \A v \in Vcpus(m) : thread[v].quiesce /\ ~thread[v].on
    /\ vmstate' = [vmstate EXCEPT ![m] = "PAUSED"]
    /\ UNCHANGED <<pm, rec, owed, need, late, bsp, vcpu, thread, due, broken>>

\* the queued restart, between begin and end, launches the boot vCPU
RestartVm(m) ==
    /\ m \in pm.topology /\ vmstate[m] = "PAUSED"
    /\ \A v \in Vcpus(m) : thread[v].freeze_epoch = 0 /\ ~thread[v].on
    /\ vmstate' = [vmstate EXCEPT ![m] = "RUNNING"]
    /\ vcpu' = [v \in Vcpu |-> IF VmOf[v] # m THEN vcpu[v]
                               ELSE IF v = Boot(m) THEN "RUNNING" ELSE "OFF"]
    /\ due' = [v \in Vcpu |-> IF VmOf[v] # m THEN due[v] ELSE v = Boot(m)]
    /\ thread' = [v \in Vcpu |-> IF VmOf[v] # m THEN thread[v]
                     ELSE [thread[v] EXCEPT !.awake = v = Boot(m), !.quiesce = FALSE]]
    /\ UNCHANGED <<pm, rec, owed, need, late, bsp, broken>>

-----------------------------------------------------------------------------
(* Scheduler: what freeze_thread leaves visible to PM. *)

SwitchIn(v) ==
    /\ thread[v].awake /\ ~thread[v].on
    /\ thread' = [thread EXCEPT ![v].on = TRUE]
    /\ UNCHANGED <<pm, rec, owed, need, late, bsp, envVars, broken>>

SwitchOut(v) ==
    /\ thread[v].on /\ ~thread[v].awake
    /\ thread' = [thread EXCEPT ![v].on = FALSE]
    /\ UNCHANGED <<pm, rec, owed, need, late, bsp, envVars, broken>>

\* the vCPU blocks on an event, or finds itself not RUNNING in its run loop
Sleep(v) ==
    /\ thread[v].on /\ thread[v].awake
    /\ thread' = [thread EXCEPT ![v].awake = FALSE]
    /\ due' = [due EXCEPT ![v] = FALSE]
    /\ UNCHANGED <<pm, rec, owed, need, late, bsp, vmstate, vcpu, broken>>

\* an interrupt wakes the vCPU: deferred while frozen
Wake(v) ==
    /\ vcpu[v] = "RUNNING" /\ ~due[v] /\ ~thread[v].quiesce
    /\ due' = [due EXCEPT ![v] = TRUE]
    /\ thread' = [thread EXCEPT ![v] =
                    IF @.freeze_epoch # 0 THEN [@ EXCEPT !.deferred = TRUE]
                    ELSE [@ EXCEPT !.awake = TRUE]]
    /\ UNCHANGED <<pm, rec, owed, need, late, bsp, vmstate, vcpu, broken>>

-----------------------------------------------------------------------------
(* The boot pCPU's idle thread. *)

Goto(pc, i) == bsp' = [bsp EXCEPT !.pc = pc, !.idx = i]

Quiet == UNCHANGED <<owed, late, envVars>>

\* Mutant: an error is final, no rollback is tried
MutRollbackGivesUp ==
    /\ Transition("FAILED")
    /\ bsp' = Idle

\* hv_pm_rollback_from_idle, up to the reverse walk of the abort callbacks
Rollback ==
    /\ IF pm.state = "RUNNING" THEN UNCHANGED pm ELSE Transition("ABORTING")
    /\ bsp' = [pc |-> "reverse", idx |-> NHook, abort |-> TRUE, err |-> FALSE]

\* hv_pm_fail_epoch
FailEpoch ==
    /\ Transition("FAILED")
    /\ bsp' = Idle

Process ==
    /\ bsp.pc = "idle" /\ need
    /\ need' = FALSE
    /\ \/ pm.state \in {"ABORTING", "RESTORING_HOST"}
          /\ bsp' = [Idle EXCEPT !.pc = "reverse", !.idx = NHook,
                                 !.abort = (pm.state = "ABORTING")]
       \/ pm.state = "PREPARING" /\ bsp' = [Idle EXCEPT !.pc = "prepare", !.idx = 1]
       \/ pm.state \notin {"ABORTING", "RESTORING_HOST", "PREPARING"} /\ UNCHANGED bsp
    /\ UNCHANGED <<pm, rec, thread, broken>> /\ Quiet

\* hv_pm_run_forward: one callback; its success is recorded, its failure rolls back
Forward(pc, hooks) ==
    /\ bsp.pc = pc /\ bsp.idx <= NHook
    /\ \/ bsp.idx \notin hooks /\ Goto(pc, bsp.idx + 1) /\ UNCHANGED pm
       \/ /\ bsp.idx \in hooks
          /\ SetHookCompleted(bsp.idx)
          /\ Goto(pc, bsp.idx + 1)
       \/ bsp.idx \in hooks /\ Rollback
    /\ UNCHANGED <<rec, need, thread, broken>> /\ Quiet

RunPrepare == Forward("prepare", PrepareHook)
RunSuspend == Forward("suspend", Hook \ PrepareHook)

PrepareDone ==
    /\ bsp.pc = "prepare" /\ bsp.idx > NHook
    /\ \/ /\ pm.state = "PREPARING"
          /\ Transition("FREEZING_HOST")
          /\ Goto("gate", 1)
       \/ pm.state # "PREPARING" /\ Rollback
    /\ UNCHANGED <<rec, need, thread, broken>> /\ Quiet

\* Mutant: the wake_owned mask is overwritten for each vCPU
MutFreezeThreadForgetsWake(v) ==
    /\ thread[v].freeze_epoch = 0
    /\ thread' = [thread EXCEPT ![v].freeze_epoch = pm.epoch, ![v].awake = FALSE]
    /\ rec' = [rec EXCEPT !.gated = @ \cup {v},
                          !.wake_owned = IF thread[v].awake THEN {v} ELSE @]

\* freeze_thread and the masks hv_pm_publish_vcpu_masks records of it
FreezeThread(v) ==
    /\ thread[v].freeze_epoch = 0
    /\ thread' = [thread EXCEPT ![v].freeze_epoch = pm.epoch, ![v].awake = FALSE]
    /\ rec' = [rec EXCEPT !.gated = @ \cup {v},
                          !.wake_owned = IF thread[v].awake THEN @ \cup {v} ELSE @]

\* hv_pm_gate_vm: the state checks at the VM's first vCPU, then each vCPU
GateVcpu ==
    LET v == bsp.idx
        refused == \/ vcpu[v] = "PAUSED"
                   \/ /\ v = Boot(VmOf[v])
                      /\ \/ vmstate[VmOf[v]] # "RUNNING"
                         \/ pm.state # "FREEZING_HOST"
    IN  /\ bsp.pc = "gate" /\ v <= NVcpu
        /\ \/ /\ VmOf[v] \notin pm.required
              /\ Goto("gate", v + 1) /\ UNCHANGED <<pm, rec, thread>>
           \/ /\ VmOf[v] \in pm.required /\ ~refused
              /\ FreezeThread(v)
              /\ Goto("gate", v + 1) /\ UNCHANGED pm
           \/ /\ VmOf[v] \in pm.required /\ refused
              /\ Rollback /\ UNCHANGED <<rec, thread>>
        /\ UNCHANGED <<need, broken>> /\ Quiet

\* is_thread_frozen: gated under this epoch, blocked and not current
IsThreadFrozen(v) == thread[v].freeze_epoch = pm.epoch /\ ~thread[v].on /\ ~thread[v].awake

\* Mutant: retention starts without waiting for the switch-outs
MutPollFrozenHasty ==
    /\ bsp.pc = "gate" /\ bsp.idx > NVcpu
    /\ rec' = [rec EXCEPT !.frozen = rec.gated]
    /\ \/ pm.state = "FREEZING_HOST" /\ Goto("suspend", 1) /\ UNCHANGED pm
       \/ pm.state # "FREEZING_HOST" /\ Rollback
    /\ UNCHANGED <<need, thread, broken>> /\ Quiet

\* one pass of the polling loop of hv_pm_freeze_guests; the deadline may expire
PollFrozen ==
    LET frozen == {v \in rec.gated : IsThreadFrozen(v)}
    IN  /\ bsp.pc = "gate" /\ bsp.idx > NVcpu
        /\ \/ pm.state # "FREEZING_HOST" /\ Rollback /\ UNCHANGED rec
           \/ /\ pm.state = "FREEZING_HOST" /\ frozen = rec.gated
              /\ rec' = [rec EXCEPT !.frozen = frozen]
              /\ Goto("suspend", 1) /\ UNCHANGED pm
           \/ /\ pm.state = "FREEZING_HOST" /\ frozen # rec.gated
              /\ rec' = [rec EXCEPT !.frozen = frozen]
              /\ Rollback
        /\ UNCHANGED <<need, thread, broken>> /\ Quiet

\* the state and wake checks, separate from the transition that follows them
SuspendDone ==
    /\ bsp.pc = "suspend" /\ bsp.idx > NHook
    /\ \/ pm.state = "FREEZING_HOST" /\ ~pm.wake /\ Goto("commit", 0) /\ UNCHANGED pm
       \/ (pm.state # "FREEZING_HOST" \/ pm.wake) /\ Rollback
    /\ UNCHANGED <<rec, need, thread, broken>> /\ Quiet

Commit ==
    /\ bsp.pc = "commit"
    /\ \/ /\ pm.state = "FREEZING_HOST"
          /\ Transition("SUSPENDED")
          /\ bsp' = IF pm.scope = "VM" THEN Idle ELSE [Idle EXCEPT !.pc = "enter"]
       \/ pm.state # "FREEZING_HOST" /\ Rollback
    /\ UNCHANGED <<rec, need, thread, broken>> /\ Quiet

\* platform_pm_enter checks the state, then sleeps
PlatformPmEnter ==
    /\ bsp.pc = "enter"
    /\ \/ pm.state = "SUSPENDED" /\ Goto("asleep", 0) /\ UNCHANGED pm
       \/ pm.state # "SUSPENDED" /\ FailEpoch
    /\ UNCHANGED <<rec, need, thread, broken>> /\ Quiet

\* and returns success, an error with the host restored, or an unrestored host
PlatformWake ==
    /\ bsp.pc = "asleep"
    /\ \/ Goto("woken", 0) /\ UNCHANGED <<pm, broken>>
       \/ Rollback /\ UNCHANGED broken
       \/ FailEpoch /\ broken' = TRUE
    /\ UNCHANGED <<rec, need, thread>> /\ Quiet

Restore ==
    /\ bsp.pc = "woken"
    /\ \/ /\ pm.state = "SUSPENDED"
          /\ Transition("RESTORING_HOST")
          /\ bsp' = [Idle EXCEPT !.pc = "reverse", !.idx = NHook]
       \/ pm.state # "SUSPENDED" /\ FailEpoch
    /\ UNCHANGED <<rec, need, thread, broken>> /\ Quiet

\* hv_pm_run_reverse: every completed hook, last first; a failure keeps its bit
RunReverse ==
    /\ bsp.pc = "reverse" /\ bsp.idx > 0
    /\ \/ bsp.idx \notin pm.completed /\ Goto("reverse", bsp.idx - 1)
          /\ UNCHANGED <<pm, broken>>
       \/ /\ bsp.idx \in pm.completed
          /\ ClearHookCompleted(bsp.idx)
          /\ Goto("reverse", bsp.idx - 1) /\ UNCHANGED broken
       \/ /\ bsp.idx \in pm.completed
          /\ bsp' = [bsp EXCEPT !.idx = @ - 1, !.err = TRUE]
          /\ broken' = TRUE /\ UNCHANGED pm
    /\ UNCHANGED <<rec, need, thread>> /\ Quiet

\* what hv_pm_thaw_guests demands on the restore path before thawing anything
ProvenFrozen ==
    /\ \A m \in pm.required : vmstate[m] = "RUNNING"
    /\ rec.frozen = rec.gated
    /\ \A v \in rec.frozen : IsThreadFrozen(v)

\* Mutant: the I/O gate is cleared before the vCPUs are thawed
MutStartThawUngated ==
    /\ bsp.pc = "reverse" /\ bsp.idx = 0 /\ ~bsp.err
    /\ pm' = [pm EXCEPT !.io_gated = {}]
    /\ Goto("thaw", 1)
    /\ UNCHANGED <<rec, need, thread, broken>> /\ Quiet

\* Mutant: a failed reverse callback does not keep the guests frozen
MutStartThawAnyway ==
    /\ bsp.pc = "reverse" /\ bsp.idx = 0
    /\ Goto("thaw", 1)
    /\ UNCHANGED <<pm, rec, need, thread, broken>> /\ Quiet

StartThaw ==
    /\ bsp.pc = "reverse" /\ bsp.idx = 0
    /\ \/ ~bsp.err /\ (bsp.abort \/ ProvenFrozen) /\ Goto("thaw", 1) /\ UNCHANGED <<pm, broken>>
       \/ bsp.err /\ FailEpoch /\ UNCHANGED broken
       \/ ~bsp.err /\ ~bsp.abort /\ ~ProvenFrozen /\ FailEpoch /\ broken' = TRUE
    /\ UNCHANGED <<rec, need, thread>> /\ Quiet

\* thaw_thread replays an owned or a deferred wake
ThawVcpu ==
    LET v == bsp.idx
    IN  /\ bsp.pc = "thaw" /\ v <= NVcpu
        /\ \/ v \notin rec.gated /\ Goto("thaw", v + 1) /\ UNCHANGED <<pm, thread, broken>>
           \/ /\ v \in rec.gated /\ thread[v].freeze_epoch = pm.epoch
              /\ thread' = [thread EXCEPT ![v] =
                    [@ EXCEPT !.freeze_epoch = 0, !.deferred = FALSE,
                              !.awake = v \in rec.wake_owned \/ thread[v].deferred]]
              /\ Goto("thaw", v + 1) /\ UNCHANGED <<pm, broken>>
        /\ UNCHANGED <<rec, need>> /\ Quiet

\* the I/O gate is cleared and hv_pm_complete_running publishes PM_RUNNING
Complete ==
    /\ bsp.pc = "thaw" /\ bsp.idx > NVcpu
    /\ pm' = [pm EXCEPT !.state = "RUNNING", !.scope = "NONE", !.required = {},
                        !.completed = {}, !.io_gated = {}]
    /\ bsp' = Idle
    /\ UNCHANGED <<rec, need, thread, broken>> /\ Quiet

Bsp == \/ Process \/ RunPrepare \/ PrepareDone \/ GateVcpu \/ PollFrozen
       \/ RunSuspend \/ SuspendDone \/ Commit \/ PlatformPmEnter \/ PlatformWake
       \/ Restore \/ RunReverse \/ StartThaw \/ ThawVcpu \/ Complete

Callers ==
    \/ RequestSuspend \/ BspPmAbort \/ RecordWake \/ HvPmAbort
    \/ \E m \in Vm : \/ RequestVmSuspend(m) \/ RequestVmResume(m)
                     \/ BeginTopology(m) \/ EndTopology(m)
                     \/ WdtPauseVm(m) \/ RestartVm(m)

Threads == \E v \in Vcpu : \/ SwitchIn(v) \/ SwitchOut(v) \/ Sleep(v) \/ Wake(v)
                           \/ CpuOn(v) \/ CpuOff(v) \/ WdtQuiesce(v)

Next == Callers \/ MakeSystemSuspendRequest \/ Bsp \/ Threads

Spec == Init /\ [][Next]_vars

(* The idle thread keeps running until its transaction returns: it holds   *)
(* no lock across steps and waits only with a deadline.  A caller that has *)
(* updated the transaction goes on to its request.  Platform wake is left  *)
(* without fairness: a suspended system may sleep for ever.                *)
BspRuns == Bsp /\ bsp.pc # "asleep"
FairSpec == Spec /\ WF_vars(BspRuns) /\ WF_vars(MakeSystemSuspendRequest)

-----------------------------------------------------------------------------
PmData == [state : PmStates, epoch : 0..MaxEpoch, scope : {"NONE", "SYSTEM", "VM"},
           required : SUBSET Vm, completed : SUBSET Hook, wake : BOOLEAN,
           io_gated : SUBSET Vm, topology : SUBSET Vm]
Masks == [gated : SUBSET Vcpu, frozen : SUBSET Vcpu, wake_owned : SUBSET Vcpu]
Place == {"idle", "prepare", "gate", "suspend", "commit", "enter", "asleep", "woken",
          "reverse", "thaw"}
BspPlace == [pc : Place, idx : Nat, abort : BOOLEAN, err : BOOLEAN]
ThreadView == [on : BOOLEAN, awake : BOOLEAN, freeze_epoch : 0..MaxEpoch,
               deferred : BOOLEAN, quiesce : BOOLEAN]

(* Every component of the transaction, its masks and the thread view is in *)
(* its range; the completed mask names registered hooks only.              *)
TypeOK ==
    /\ pm \in PmData /\ rec \in Masks /\ bsp \in BspPlace
    /\ owed \in 0..MaxOwed /\ need \in BOOLEAN /\ late \in 0..MaxEpoch
    /\ vmstate \in [Vm -> {"RUNNING", "PAUSED"}]
    /\ vcpu \in [Vcpu -> {"OFF", "RUNNING", "PAUSED"}]
    /\ thread \in [Vcpu -> ThreadView]
    /\ due \in [Vcpu -> BOOLEAN] /\ broken \in BOOLEAN

(* Device retention starts only after every vCPU of the required VMs has   *)
(* switched out, and ends before any of them can run again.                *)
RetainedMeansOff ==
    pm.completed \ PrepareHook # {} =>
        \A v \in Vcpu : VmOf[v] \in pm.required => IsThreadFrozen(v)

(* I/O of a VM is let through again only when every device hook of the     *)
(* transaction has been undone and every vCPU of the VM thawed.            *)
UngatedMeansRestored ==
    \A m \in Vm \ pm.io_gated :
        /\ m \in pm.required => pm.completed = {}
        /\ \A v \in Vcpus(m) : thread[v].freeze_epoch = 0

(* A transaction whose restore failed, or that is failed for any other     *)
(* reason, ends in PM_FAILED with its guests frozen and their I/O gated.   *)
FailClosed ==
    pm.state = "FAILED" \/ (broken /\ bsp.pc = "idle") =>
        /\ pm.state = "FAILED"
        /\ pm.required \subseteq pm.io_gated
        /\ \A v \in rec.gated : thread[v].freeze_epoch = pm.epoch

(* The transaction is invisible to a running guest: once its vCPU is       *)
(* thawed it is awake exactly if it was awake or woken before or during    *)
(* the freeze, however the transaction ended.                              *)
GuestTransparent ==
    \A v \in Vcpu : thread[v].freeze_epoch = 0 /\ vcpu[v] = "RUNNING"
                        => (thread[v].awake <=> due[v])

(* No VM changes its topology while a transaction is open.                 *)
TopologyExcluded == pm.state # "RUNNING" => pm.topology = {}

(* An aborted transaction does not hang: the boot pCPU brings it back to   *)
(* PM_RUNNING or to PM_FAILED, wherever the abort found it, unless the     *)
(* platform sleeps by then: it need not wake.                              *)
AbortServed ==
    pm.state = "ABORTING" ~> pm.state \in {"RUNNING", "FAILED"} \/ bsp.pc = "asleep"

(* PM_FAILED means that a rollback or restore could not prove the restored *)
(* isolation: a hook, a thread or the host was not restored.  The code has *)
(* one other way in: an abort accepted in PM_SUSPENDED makes the platform  *)
(* entry, or the return from it, fail without a rollback having been tried.*)
FailsOnlyIfUnproven ==
    pm.state # "FAILED" /\ pm'.state = "FAILED"
        => broken' \/ (pm.state = "ABORTING" /\ bsp.pc \in {"enter", "woken"})
FailedOnlyIfUnproven == [][FailsOnlyIfUnproven]_vars
=============================================================================
