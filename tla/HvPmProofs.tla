----------------------------- MODULE HvPmProofs -----------------------------
(***************************************************************************)
(* Theorems about HvPm, for any vCPUs, VMs, hooks and policy and any       *)
(* number of transactions and callers.                                     *)
(*                                                                         *)
(* The argument.  The masks of the transaction say which threads carry a   *)
(* freeze gate, wherever the boot pCPU is (ThreadInv, MaskInv), the place  *)
(* of the boot pCPU bounds the state and what has been retained            *)
(* (StateInv, GateInv, ReverseInv), and for a frozen thread wake_owned and *)
(* deferred together hold the wake it is due (WakeInv).  Between           *)
(* transactions no thread is frozen, and only then is the topology open to *)
(* change (OpenInv).                                                       *)
(***************************************************************************)
EXTENDS HvPm, TLAPS

Active == pm.state # "RUNNING"
Required == {v \in Vcpu : VmOf[v] \in pm.required}

(* hv_pm_reset_epoch_locked() and hv_pm_complete_running() bracket it.     *)
OpenInv ==
    IF Active
    THEN pm.topology = {} /\ pm.epoch # 0 /\ pm.io_gated = pm.required
    ELSE pm.required = {} /\ pm.completed = {}

(* Where the boot pCPU is bounds the state others may have moved.          *)
StateInv ==
    /\ bsp.pc # "idle" => pm.state \notin {"RUNNING", "FAILED"}
    /\ bsp.pc = "prepare" => pm.state \in {"PREPARING", "ABORTING"}
    /\ bsp.pc \in {"gate", "suspend", "commit"} => pm.state \in {"FREEZING_HOST", "ABORTING"}
    /\ bsp.pc \in {"enter", "asleep", "woken"} =>
           pm.state \in {"SUSPENDED", "ABORTING"} /\ pm.scope # "VM"

(* Before the freeze is complete no device is retained, and the gated      *)
(* vCPUs are those the loop of hv_pm_gate_vm() has passed.                 *)
GateInv ==
    /\ bsp.pc = "idle" /\ pm.state = "PREPARING" => rec.gated = {} /\ pm.completed = {}
    /\ bsp.pc = "prepare" => rec.gated = {} /\ pm.completed \subseteq PrepareHook
    /\ bsp.pc = "gate" => /\ bsp.idx > 0 /\ rec.gated = {v \in Required : v < bsp.idx}
                          /\ pm.completed \subseteq PrepareHook

(* hv_pm_run_reverse() undoes what it passes, or has failed.               *)
ReverseInv ==
    /\ bsp.pc = "reverse" /\ ~bsp.err => pm.completed \subseteq 1..bsp.idx
    /\ bsp.pc = "thaw" => pm.completed = {}

(* From the end of hv_pm_freeze_guests() until the last device is back,    *)
(* every required vCPU is gated and has been seen off its pCPU.            *)
Retaining == bsp.pc \in {"suspend", "commit"} \/ pm.completed \ PrepareHook # {}
RetainInv ==
    Retaining => /\ Active /\ ~(bsp.pc = "thaw")
                 /\ rec.frozen = rec.gated /\ rec.gated = Required
OffInv(v) == Retaining /\ v \in rec.gated => ~thread[v].on

(* A failure of the reverse walk is remembered to its end.                 *)
BrokenInv ==
    /\ broken => pm.state = "FAILED" \/ (bsp.pc = "reverse" /\ bsp.err)
    /\ bsp.pc = "reverse" /\ bsp.err => broken

MaskInv ==
    /\ rec.frozen \subseteq rec.gated /\ rec.wake_owned \subseteq rec.gated
    /\ Active => rec.gated \subseteq Required

Thawed(v) == bsp.pc = "thaw" /\ v < bsp.idx

ThreadInv(v) ==
    /\ thread[v].freeze_epoch # 0 =>
           /\ Active /\ v \in rec.gated /\ thread[v].freeze_epoch = pm.epoch
           /\ ~thread[v].awake
    /\ Active /\ v \in rec.gated /\ ~Thawed(v) => thread[v].freeze_epoch = pm.epoch
    /\ Thawed(v) => thread[v].freeze_epoch = 0
    /\ thread[v].freeze_epoch = 0 => ~thread[v].deferred

WakeInv(v) ==
    vcpu[v] = "RUNNING" =>
        (due[v] <=> IF thread[v].freeze_epoch = 0 THEN thread[v].awake
                    ELSE v \in rec.wake_owned \/ thread[v].deferred)

IInv ==
    /\ TypeOK /\ OpenInv /\ StateInv /\ GateInv /\ ReverseInv
    /\ RetainInv /\ BrokenInv /\ MaskInv
    /\ \A v \in Vcpu : ThreadInv(v) /\ OffInv(v)
    /\ \A v \in Vcpu : WakeInv(v)

-----------------------------------------------------------------------------
(* What a step may do: something the transaction does not notice, or one   *)
(* of the operations of core/pm.c.                                         *)
transaction == <<pm, rec, bsp, broken>>
Scope == {"SYSTEM", "VM"}
Env == \/ Threads \/ BspPmAbort \/ MakeSystemSuspendRequest
       \/ \E m \in Vm : WdtPauseVm(m) \/ RestartVm(m)
       \/ UNCHANGED vars

(* Every step is one of the environment's, of a caller of the PM           *)
(* interface, or of the boot pCPU.                                         *)
LEMMA Steps ==
    ASSUME [Next]_vars
    PROVE  \/ Env
           \/ \E s \in Scope, r \in SUBSET Vm : Open(s, r)
           \/ \E m \in Vm : RequestVmResume(m) \/ BeginTopology(m) \/ EndTopology(m)
           \/ RecordWake \/ HvPmAbort \/ Bsp
<1>1. CASE RequestSuspend
  BY <1>1, HvPmConstants DEF RequestSuspend, Scope
<1>2. ASSUME NEW m \in Vm, RequestVmSuspend(m)
      PROVE  \E s \in Scope, r \in SUBSET Vm : Open(s, r)
  BY <1>2 DEF RequestVmSuspend, Scope
<1> QED BY <1>1, <1>2 DEF Next, Callers, Env

(* Guests, the scheduler, the watchdog and the restart path leave the      *)
(* transaction alone.                                                      *)
LEMMA EnvKeeps == ASSUME Env PROVE UNCHANGED transaction
<1>1. CASE Threads
  BY <1>1 DEF Threads, SwitchIn, SwitchOut, Sleep, Wake, CpuOn, CpuOff, WdtQuiesce, SetVcpu,
     transaction
<1>2. CASE ~Threads
  BY <1>2, Zenon DEF Env, BspPmAbort, MakeSystemSuspendRequest, WdtPauseVm, RestartVm,
     vars, transaction
<1> QED BY <1>1, <1>2

(* The operations on pm_transaction.data, field by field.                  *)
SameEpoch == /\ pm'.epoch = pm.epoch /\ pm'.scope = pm.scope /\ pm'.required = pm.required
             /\ pm'.io_gated = pm.io_gated

(* hv_pm_transition_locked() changes the state and nothing else of the     *)
(* epoch.                                                                  *)
LEMMA Transitions ==
    ASSUME pm \in PmData, NEW s, Transition(s)
    PROVE  /\ SameEpoch /\ pm'.topology = pm.topology
           /\ pm'.state = s /\ pm'.completed = pm.completed
BY DEF PmData, Transition, SameEpoch

(* Setting or clearing the bit of a hook changes that bit only.            *)
LEMMA HookBits ==
    ASSUME pm \in PmData, NEW i
    PROVE  /\ SetHookCompleted(i) \/ ClearHookCompleted(i) =>
                  SameEpoch /\ pm'.topology = pm.topology /\ pm'.state = pm.state
           /\ SetHookCompleted(i) => pm'.completed = pm.completed \cup {i}
           /\ ClearHookCompleted(i) => pm'.completed = pm.completed \ {i}
BY DEF PmData, SetHookCompleted, ClearHookCompleted, SameEpoch

(* hv_pm_record_wake() leaves what the invariant speaks of alone.          *)
LEMMA Wakes ==
    ASSUME pm \in PmData, RecordWake
    PROVE  /\ SameEpoch /\ pm'.topology = pm.topology
           /\ pm'.state = pm.state /\ pm'.completed = pm.completed
           /\ UNCHANGED <<rec, bsp, broken, envVars, thread>>
BY DEF PmData, RecordWake, SameEpoch

(* The topology calls change the topology mask only, and begin no change   *)
(* while a transaction is open.                                            *)
LEMMA Topologies ==
    ASSUME pm \in PmData, NEW m, BeginTopology(m) \/ EndTopology(m)
    PROVE  /\ SameEpoch /\ pm'.state = pm.state /\ pm'.completed = pm.completed
           /\ pm.state # "RUNNING" => pm'.topology \subseteq pm.topology
           /\ UNCHANGED <<rec, bsp, broken, envVars, thread>>
BY DEF PmData, BeginTopology, EndTopology, SameEpoch

(* What a request that opens a transaction leaves behind.                  *)
LEMMA Opens ==
    ASSUME pm \in PmData, NEW s, NEW r, Open(s, r)
    PROVE  /\ pm.state = "RUNNING" /\ pm'.state = "PREPARING"
           /\ pm'.epoch = pm.epoch + 1 /\ pm'.required = r /\ pm'.io_gated = r
           /\ pm.topology = {} /\ pm'.topology = {} /\ pm'.completed = {} /\ pm'.scope = s
           /\ rec'.gated = {} /\ rec'.frozen = {} /\ rec'.wake_owned = {}
           /\ pm'.epoch # 0 /\ UNCHANGED <<bsp, broken, envVars, thread>>
<1>1. pm.epoch \in Nat
  BY HvPmConstants DEF PmData
<1> QED BY <1>1 DEF PmData, Open, NoMasks

(* hv_pm_complete_running() closes the transaction after the last thaw.    *)
LEMMA Completes ==
    ASSUME pm \in PmData, Complete
    PROVE  /\ pm'.state = "RUNNING" /\ pm'.required = {} /\ pm'.completed = {}
           /\ pm'.io_gated = {} /\ pm'.epoch = pm.epoch /\ pm'.topology = pm.topology
           /\ bsp.pc = "thaw" /\ bsp.idx > NVcpu /\ bsp'.pc = "idle"
           /\ UNCHANGED <<rec, broken, envVars, thread>>
BY DEF PmData, Complete, Idle, Quiet

(* The places of the boot pCPU.                                            *)
LEMMA Gotos ==
    ASSUME bsp \in BspPlace, NEW pc, NEW i, Goto(pc, i)
    PROVE  bsp'.pc = pc /\ bsp'.idx = i /\ bsp'.abort = bsp.abort /\ bsp'.err = bsp.err
BY DEF BspPlace, Goto

(* A hook that fails turns the boot pCPU back one hook, with the error     *)
(* noted.                                                                  *)
LEMMA HookFails ==
    ASSUME bsp \in BspPlace, bsp' = [bsp EXCEPT !.idx = @ - 1, !.err = TRUE]
    PROVE  bsp'.pc = bsp.pc /\ bsp'.idx = bsp.idx - 1 /\ bsp'.abort = bsp.abort /\ bsp'.err
BY DEF BspPlace

(* hv_pm_rollback_from_idle() starts undoing at the last hook.             *)
LEMMA Rollbacks ==
    ASSUME pm \in PmData, Rollback, pm.state # "RUNNING"
    PROVE  /\ SameEpoch /\ pm'.topology = pm.topology
           /\ pm'.state = "ABORTING" /\ pm'.completed = pm.completed
           /\ bsp'.pc = "reverse" /\ bsp'.idx = NHook /\ ~bsp'.err
BY Transitions DEF Rollback

(* hv_pm_fail_epoch() publishes PM_FAILED and undoes nothing.              *)
LEMMA Fails ==
    ASSUME pm \in PmData, FailEpoch
    PROVE  /\ SameEpoch /\ pm'.topology = pm.topology
           /\ pm'.state = "FAILED" /\ pm'.completed = pm.completed
           /\ bsp'.pc = "idle" /\ ~bsp'.err
BY Transitions DEF FailEpoch, Idle

(* Where hv_pm_process_from_idle() and the restore take the boot pCPU.     *)
LEMMA Starts ==
    /\ Process => /\ bsp.pc = "idle"
                  /\ \/ UNCHANGED bsp /\ pm.state # "PREPARING"
                     \/ /\ pm.state \in {"ABORTING", "RESTORING_HOST"}
                        /\ bsp'.pc = "reverse" /\ bsp'.idx = NHook /\ ~bsp'.err
                     \/ /\ pm.state = "PREPARING"
                        /\ bsp'.pc = "prepare" /\ bsp'.idx = 1 /\ ~bsp'.err
    /\ Restore /\ pm.state = "SUSPENDED" =>
           bsp'.pc = "reverse" /\ bsp'.idx = NHook /\ ~bsp'.err
BY Zenon DEF Process, Restore, FailEpoch, Idle

(* The masks.                                                              *)
LEMMA Freezes ==
    ASSUME rec \in Masks, NEW v, FreezeThread(v)
    PROVE  /\ rec'.gated = rec.gated \cup {v} /\ rec'.frozen = rec.frozen
           /\ \A w : w \in rec'.wake_owned <=>
                       w \in rec.wake_owned \/ (w = v /\ thread[v].awake)
BY DEF Masks, FreezeThread

(* The freeze poll either rolls back or has found every gated thread off   *)
(* its pCPU.                                                               *)
LEMMA Polls ==
    ASSUME rec \in Masks, PollFrozen
    PROVE  /\ rec'.gated = rec.gated /\ rec'.wake_owned = rec.wake_owned
           /\ rec'.frozen = rec.frozen \/ rec'.frozen \subseteq rec.gated
           /\ \/ Rollback
              \/ /\ rec'.frozen = rec.gated /\ Goto("suspend", 1) /\ UNCHANGED pm
                 /\ \A v \in rec.gated : ~thread[v].on
BY Zenon DEF Masks, PollFrozen, IsThreadFrozen

(* hv_pm_gate_vm() passes a vCPU, freezes it or gives up.                  *)
LEMMA Gates ==
    ASSUME GateVcpu
    PROVE  /\ bsp.pc = "gate" /\ bsp.idx <= NVcpu /\ UNCHANGED broken
           /\ \/ /\ VmOf[bsp.idx] \notin pm.required
                 /\ Goto("gate", bsp.idx + 1) /\ UNCHANGED <<pm, rec, thread>>
              \/ /\ VmOf[bsp.idx] \in pm.required /\ FreezeThread(bsp.idx)
                 /\ Goto("gate", bsp.idx + 1) /\ UNCHANGED pm
              \/ Rollback /\ UNCHANGED <<rec, thread>>
BY DEF GateVcpu

(* What the threads do by themselves, in a state the freeze allows.        *)
LEMMA ThreadMoves ==
    ASSUME TypeOK, Env, NEW v \in Vcpu
    PROVE  /\ thread'[v].freeze_epoch = thread[v].freeze_epoch
           /\ thread'[v].awake => thread[v].awake \/ thread[v].freeze_epoch = 0
           /\ thread[v].freeze_epoch = 0 /\ thread'[v].deferred => thread[v].deferred
           /\ thread'[v].on => thread[v].on \/ thread[v].awake
<1>0. thread \in [Vcpu -> ThreadView]
  BY DEF TypeOK
<1> USE DEF ThreadView
<1>1. ASSUME NEW w \in Vcpu, SwitchIn(w) \/ SwitchOut(w) \/ Sleep(w) \/ WdtQuiesce(w)
      PROVE  /\ thread'[v].freeze_epoch = thread[v].freeze_epoch
             /\ thread'[v].awake => thread[v].awake
             /\ thread'[v].deferred = thread[v].deferred
             /\ thread'[v].on => thread[v].on \/ thread[v].awake
  BY <1>0, <1>1 DEF SwitchIn, SwitchOut, Sleep, WdtQuiesce
<1>2. ASSUME NEW w \in Vcpu, Wake(w) \/ CpuOn(w) \/ CpuOff(w)
      PROVE  /\ thread'[v].freeze_epoch = thread[v].freeze_epoch
             /\ thread'[v].awake => thread[v].awake \/ thread[v].freeze_epoch = 0
             /\ thread[v].freeze_epoch = 0 => thread'[v].deferred = thread[v].deferred
             /\ thread'[v].on = thread[v].on
  BY <1>0, <1>2 DEF Wake, CpuOn, CpuOff, SetVcpu
<1>3. ASSUME NEW m \in Vm, RestartVm(m)
      PROVE  /\ thread'[v].freeze_epoch = thread[v].freeze_epoch
             /\ thread'[v].awake => thread[v].awake \/ thread[v].freeze_epoch = 0
             /\ thread'[v].deferred = thread[v].deferred
             /\ thread'[v].on = thread[v].on
  BY <1>0, <1>3, Zenon DEF RestartVm, Vcpus
<1>4. ASSUME BspPmAbort \/ MakeSystemSuspendRequest \/ UNCHANGED vars
             \/ \E m \in Vm : WdtPauseVm(m)
      PROVE  thread' = thread
  BY <1>4 DEF BspPmAbort, MakeSystemSuspendRequest, vars, WdtPauseVm
<1> QED BY <1>1, <1>2, <1>3, <1>4 DEF Env, Threads

(* thaw_thread() of the vCPU the loop is at.                               *)
LEMMA Thaws ==
    ASSUME TypeOK, ThawVcpu
    PROVE  /\ bsp.pc = "thaw" /\ Goto("thaw", bsp.idx + 1) /\ UNCHANGED <<pm, rec, envVars>>
           /\ \A w \in Vcpu : w # bsp.idx => thread'[w] = thread[w]
           /\ bsp.idx \notin rec.gated => thread' = thread
           /\ bsp.idx \in rec.gated =>
                  /\ thread'[bsp.idx].freeze_epoch = 0 /\ ~thread'[bsp.idx].deferred
                  /\ thread'[bsp.idx].on = thread[bsp.idx].on
                  /\ thread'[bsp.idx].awake <=>
                         bsp.idx \in rec.wake_owned \/ thread[bsp.idx].deferred
<1>1. thread \in [Vcpu -> ThreadView] /\ rec.gated \subseteq Vcpu
  BY DEF TypeOK, Masks
<1>2. bsp.pc = "thaw" /\ Goto("thaw", bsp.idx + 1) /\ UNCHANGED <<pm, rec, envVars>>
  BY DEF ThawVcpu, Quiet
<1>3. CASE bsp.idx \notin rec.gated
  BY <1>2, <1>3 DEF ThawVcpu
<1>4. CASE bsp.idx \in rec.gated
  <2> DEFINE w == bsp.idx
  <2>1. w \in Vcpu /\ thread[w] \in ThreadView
    BY <1>1, <1>4
  <2>2. thread' = [thread EXCEPT ![w] =
                      [thread[w] EXCEPT !.freeze_epoch = 0, !.deferred = FALSE,
                                        !.awake = w \in rec.wake_owned \/ thread[w].deferred]]
    BY <1>4 DEF ThawVcpu
  <2> HIDE DEF w
  <2>3. /\ \A x \in Vcpu : x # w => thread'[x] = thread[x]
        /\ thread'[w] = [thread[w] EXCEPT !.freeze_epoch = 0, !.deferred = FALSE,
                                          !.awake = w \in rec.wake_owned \/ thread[w].deferred]
    BY <1>1, <2>1, <2>2
  <2>4. /\ thread'[w].freeze_epoch = 0 /\ ~thread'[w].deferred
        /\ thread'[w].on = thread[w].on
        /\ thread'[w].awake <=> w \in rec.wake_owned \/ thread[w].deferred
    BY <2>1, <2>3, Zenon DEF ThreadView
  <2> QED BY <1>2, <1>4, <2>3, <2>4 DEF w
<1> QED BY <1>3, <1>4

(* freeze_thread() of the vCPU the loop is at.                             *)
LEMMA FrozenThread ==
    ASSUME TypeOK, NEW v \in Vcpu, FreezeThread(v)
    PROVE  /\ \A w \in Vcpu : w # v => thread'[w] = thread[w]
           /\ thread[v].freeze_epoch = 0 /\ thread'[v].freeze_epoch = pm.epoch
           /\ ~thread'[v].awake
           /\ thread'[v].on = thread[v].on /\ thread'[v].deferred = thread[v].deferred
BY DEF TypeOK, ThreadView, FreezeThread

(* Sleeps, wakes and lifecycle changes keep due and the wake in step.      *)
LEMMA WakeMoves ==
    ASSUME TypeOK, Env, NEW v \in Vcpu, ThreadInv(v), WakeInv(v) PROVE WakeInv(v)'
<1>0. /\ thread \in [Vcpu -> ThreadView] /\ vcpu \in [Vcpu -> {"OFF", "RUNNING", "PAUSED"}]
      /\ due \in [Vcpu -> BOOLEAN]
  BY DEF TypeOK
<1>r. rec' = rec
  BY EnvKeeps DEF transaction
<1> USE <1>0, <1>r DEF WakeInv, ThreadView
<1>1. ASSUME NEW w \in Vcpu, SwitchIn(w) \/ SwitchOut(w) PROVE WakeInv(v)'
  BY <1>1 DEF SwitchIn, SwitchOut, envVars
<1>2. ASSUME NEW w \in Vcpu, Sleep(w) PROVE WakeInv(v)'
  BY <1>2 DEF Sleep, ThreadInv
<1>3. ASSUME NEW w \in Vcpu, Wake(w) PROVE WakeInv(v)'
  BY <1>3 DEF Wake
<1>4. ASSUME NEW w \in Vcpu, CpuOn(w) PROVE WakeInv(v)'
  BY <1>4, Zenon DEF CpuOn, SetVcpu
<1>5. ASSUME NEW w \in Vcpu, CpuOff(w) PROVE WakeInv(v)'
  BY <1>5 DEF CpuOff, SetVcpu
<1>6. ASSUME NEW w \in Vcpu, WdtQuiesce(w) PROVE WakeInv(v)'
  BY <1>6 DEF WdtQuiesce
<1>7. ASSUME NEW m \in Vm, RestartVm(m) PROVE WakeInv(v)'
  BY <1>7, Zenon DEF RestartVm, Vcpus
<1>8. ASSUME \/ BspPmAbort \/ MakeSystemSuspendRequest \/ UNCHANGED vars
             \/ \E m \in Vm : WdtPauseVm(m)
      PROVE  WakeInv(v)'
  BY <1>8 DEF BspPmAbort, MakeSystemSuspendRequest, vars, WdtPauseVm, envVars
<1> QED BY <1>1, <1>2, <1>3, <1>4, <1>5, <1>6, <1>7, <1>8 DEF Env, Threads

-----------------------------------------------------------------------------
(* Type correctness.                                                       *)
LEMMA PmTypes ==
    ASSUME pm \in PmData
    PROVE  /\ \A s \in PmStates : Transition(s) => pm' \in PmData
           /\ \A i \in Hook : SetHookCompleted(i) => pm' \in PmData
           /\ \A i : ClearHookCompleted(i) => pm' \in PmData
<1>1. ASSUME NEW s \in PmStates, Transition(s) PROVE pm' \in PmData
  BY <1>1 DEF PmData, Transition
<1>2. ASSUME NEW i \in Hook, SetHookCompleted(i) PROVE pm' \in PmData
  BY <1>2 DEF PmData, SetHookCompleted
<1>3. ASSUME NEW i, ClearHookCompleted(i) PROVE pm' \in PmData
  BY <1>3 DEF PmData, ClearHookCompleted
<1> QED BY <1>1, <1>2, <1>3

(* The places the boot pCPU goes to are places.                            *)
LEMMA BspTypes ==
    ASSUME bsp \in BspPlace
    PROVE  /\ \A pc \in Place, i \in Nat : Goto(pc, i) => bsp' \in BspPlace
           /\ Idle \in BspPlace
           /\ \A pc \in Place, i \in Nat, a \in BOOLEAN :
                 [pc |-> pc, idx |-> i, abort |-> a, err |-> FALSE] \in BspPlace
<1>1. ASSUME NEW pc \in Place, NEW i \in Nat, Goto(pc, i) PROVE bsp' \in BspPlace
  BY <1>1, Zenon DEF BspPlace, Goto
<1> QED BY <1>1 DEF BspPlace, Idle, Place

(* The rollback and the failure of an epoch keep the types.                *)
LEMMA RollbackTypes ==
    ASSUME pm \in PmData, bsp \in BspPlace, Rollback \/ FailEpoch
    PROVE  pm' \in PmData /\ bsp' \in BspPlace
<1>1. "ABORTING" \in PmStates /\ "FAILED" \in PmStates /\ "reverse" \in Place /\ NHook \in Nat
  BY HvPmConstants DEF PmStates, Place
<1>2. pm' \in PmData
  BY <1>1, PmTypes DEF Rollback, FailEpoch
<1>3. bsp' \in BspPlace
  BY <1>1, BspTypes, Zenon DEF Rollback, FailEpoch
<1> QED BY <1>2, <1>3

(* Every step keeps the type of the transaction.                           *)
LEMMA PmStep ==
    ASSUME TypeOK, [Next]_vars PROVE pm' \in PmData
<1> USE DEF SameEpoch
<1>0. pm \in PmData /\ bsp \in BspPlace /\ bsp.idx \in Nat /\ NHook \in Nat
  BY HvPmConstants DEF TypeOK, BspPlace
<1>1. CASE Env
  BY <1>1, <1>0, EnvKeeps DEF transaction
<1>2. ASSUME NEW s \in Scope, NEW r \in SUBSET Vm, Open(s, r) PROVE pm' \in PmData
  <2>1. pm.epoch + 1 \in 0..MaxEpoch
    BY <1>2, <1>0, HvPmConstants DEF Open, PmData
  <2>2. "PREPARING" \in PmStates /\ s \in {"NONE", "SYSTEM", "VM"}
    BY DEF PmStates, Scope
  <2> QED BY <1>2, <1>0, <2>1, <2>2, Zenon DEF Open, PmData
<1>3. ASSUME NEW m \in Vm, RequestVmResume(m) PROVE pm' \in PmData
  BY <1>3, <1>0, PmTypes DEF RequestVmResume, PmStates
<1>4. ASSUME NEW m \in Vm, BeginTopology(m) PROVE pm' \in PmData
  BY <1>4, <1>0 DEF BeginTopology, PmData
<1>5. ASSUME NEW m \in Vm, EndTopology(m) PROVE pm' \in PmData
  BY <1>5, <1>0 DEF EndTopology, PmData
<1>6. CASE RecordWake
  BY <1>6, <1>0, Zenon DEF PmData, RecordWake
<1>7. CASE HvPmAbort
  BY <1>7, <1>0, PmTypes DEF HvPmAbort, PmStates
<1>8. CASE Process
  BY <1>8, <1>0 DEF Process
<1>9. CASE RunPrepare
  BY <1>9, <1>0, PmTypes, RollbackTypes, HvPmConstants DEF RunPrepare, Forward
<1>10. CASE PrepareDone
  BY <1>10, <1>0, PmTypes, RollbackTypes DEF PrepareDone, PmStates
<1>11. CASE GateVcpu
  BY <1>11, <1>0, Gates, RollbackTypes DEF GateVcpu
<1>12. CASE PollFrozen
  BY <1>12, <1>0, RollbackTypes DEF PollFrozen
<1>13. CASE RunSuspend
  BY <1>13, <1>0, PmTypes, RollbackTypes DEF RunSuspend, Forward
<1>14. CASE SuspendDone
  BY <1>14, <1>0, RollbackTypes DEF SuspendDone
<1>15. CASE Commit
  BY <1>15, <1>0, PmTypes, RollbackTypes DEF Commit, PmStates
<1>16. CASE PlatformPmEnter
  BY <1>16, <1>0, RollbackTypes DEF PlatformPmEnter
<1>17. CASE PlatformWake
  BY <1>17, <1>0, RollbackTypes DEF PlatformWake
<1>18. CASE Restore
  BY <1>18, <1>0, PmTypes, RollbackTypes DEF Restore, PmStates
<1>19. CASE RunReverse
  BY <1>19, <1>0, PmTypes DEF RunReverse
<1>20. CASE StartThaw
  BY <1>20, <1>0, RollbackTypes DEF StartThaw
<1>21. CASE ThawVcpu
  BY <1>21, <1>0 DEF ThawVcpu
<1>22. CASE Complete
  BY <1>22, <1>0, Zenon DEF PmData, PmStates, Complete
<1> QED
  BY Steps, <1>1, <1>2, <1>3, <1>4, <1>5, <1>6, <1>7, <1>8, <1>9, <1>10, <1>11, <1>12,
     <1>13, <1>14, <1>15, <1>16, <1>17, <1>18, <1>19, <1>20, <1>21, <1>22 DEF Bsp

(* Every step keeps the type of the boot pCPU's place.                     *)
LEMMA BspStep ==
    ASSUME TypeOK, [Next]_vars PROVE bsp' \in BspPlace
<1> USE DEF Place
<1>0. pm \in PmData /\ bsp \in BspPlace /\ bsp.idx \in Nat /\ NHook \in Nat
  BY HvPmConstants DEF TypeOK, BspPlace
<1>1. CASE Env
  BY <1>1, <1>0, EnvKeeps DEF transaction
<1>2. ASSUME NEW s \in Scope, NEW r \in SUBSET Vm, Open(s, r) PROVE bsp' \in BspPlace
  BY <1>2, <1>0, Opens
<1>3. ASSUME NEW m \in Vm, RequestVmResume(m) PROVE bsp' \in BspPlace
  BY <1>3, <1>0 DEF RequestVmResume
<1>4. ASSUME NEW m \in Vm, BeginTopology(m) PROVE bsp' \in BspPlace
  BY <1>4, <1>0 DEF BeginTopology
<1>5. ASSUME NEW m \in Vm, EndTopology(m) PROVE bsp' \in BspPlace
  BY <1>5, <1>0 DEF EndTopology
<1>6. CASE RecordWake
  BY <1>6, <1>0 DEF RecordWake
<1>7. CASE HvPmAbort
  BY <1>7, <1>0 DEF HvPmAbort
<1>8. CASE Process
  <2>1. CASE bsp' = [Idle EXCEPT !.pc = "reverse", !.idx = NHook,
                                 !.abort = (pm.state = "ABORTING")]
    <3> DEFINE a == pm.state = "ABORTING"
    <3>1. a \in BOOLEAN
      OBVIOUS
    <3>2. bsp' = [pc |-> "reverse", idx |-> NHook, abort |-> a, err |-> FALSE]
      BY <2>1, Zenon DEF Idle
    <3> HIDE DEF a
    <3> QED BY <1>0, <3>1, <3>2, BspTypes
  <2>2. CASE bsp' = [Idle EXCEPT !.pc = "prepare", !.idx = 1]
    BY <2>2, Zenon DEF Idle, BspPlace
  <2> QED BY <1>8, <1>0, <2>1, <2>2 DEF Process
<1>9. CASE RunPrepare
  BY <1>9, <1>0, BspTypes, RollbackTypes DEF RunPrepare, Forward
<1>10. CASE PrepareDone
  BY <1>10, <1>0, BspTypes, RollbackTypes DEF PrepareDone
<1>11. CASE GateVcpu
  BY <1>11, <1>0, Gates, BspTypes, RollbackTypes DEF GateVcpu
<1>12. CASE PollFrozen
  BY <1>12, <1>0, BspTypes, RollbackTypes DEF PollFrozen
<1>13. CASE RunSuspend
  BY <1>13, <1>0, BspTypes, RollbackTypes DEF RunSuspend, Forward
<1>14. CASE SuspendDone
  BY <1>14, <1>0, BspTypes, RollbackTypes DEF SuspendDone
<1>15. CASE Commit
  <2>1. CASE bsp' = IF pm.scope = "VM" THEN Idle ELSE [Idle EXCEPT !.pc = "enter"]
    BY <2>1, Zenon DEF Idle, BspPlace
  <2> QED BY <1>15, <1>0, <2>1, RollbackTypes DEF Commit
<1>16. CASE PlatformPmEnter
  BY <1>16, <1>0, BspTypes, RollbackTypes DEF PlatformPmEnter
<1>17. CASE PlatformWake
  BY <1>17, <1>0, BspTypes, RollbackTypes DEF PlatformWake
<1>18. CASE Restore
  BY <1>18, <1>0, BspTypes, RollbackTypes, Zenon DEF Restore, Idle
<1>19. CASE RunReverse
  <2>1. bsp.idx - 1 \in Nat
    BY <1>19, <1>0 DEF RunReverse
  <2>2. CASE bsp' = [bsp EXCEPT !.idx = @ - 1, !.err = TRUE]
    BY <1>0, <2>1, <2>2, Zenon DEF BspPlace
  <2> QED BY <1>19, <1>0, <2>1, <2>2, BspTypes DEF RunReverse
<1>20. CASE StartThaw
  BY <1>20, <1>0, BspTypes, RollbackTypes DEF StartThaw
<1>21. CASE ThawVcpu
  BY <1>21, <1>0, BspTypes DEF ThawVcpu
<1>22. CASE Complete
  BY <1>22, <1>0, BspTypes DEF Complete
<1> QED
  BY Steps, <1>1, <1>2, <1>3, <1>4, <1>5, <1>6, <1>7, <1>8, <1>9, <1>10, <1>11, <1>12,
     <1>13, <1>14, <1>15, <1>16, <1>17, <1>18, <1>19, <1>20, <1>21, <1>22 DEF Bsp

(* What the boot pCPU's steps leave alone.                                 *)
LEMMA BspKeeps ==
    ASSUME Bsp
    PROVE  /\ UNCHANGED rec \/ GateVcpu \/ PollFrozen
           /\ UNCHANGED thread \/ GateVcpu \/ ThawVcpu
           /\ need' = need \/ need' = FALSE
           /\ broken' = broken \/ broken' = TRUE
           /\ UNCHANGED <<owed, late, envVars>>
<1>1. CASE Process \/ PrepareDone \/ SuspendDone \/ Commit
  BY <1>1 DEF Process, PrepareDone, SuspendDone, Commit, Quiet
<1>2. CASE RunPrepare \/ RunSuspend
  BY <1>2 DEF RunPrepare, RunSuspend, Forward, Quiet
<1>3. CASE PlatformPmEnter \/ PlatformWake \/ Restore
  BY <1>3 DEF PlatformPmEnter, PlatformWake, Restore, Quiet
<1>4. CASE RunReverse \/ StartThaw \/ Complete
  BY <1>4 DEF RunReverse, StartThaw, Complete, Quiet
<1>5. CASE GateVcpu \/ PollFrozen \/ ThawVcpu
  BY <1>5 DEF GateVcpu, PollFrozen, ThawVcpu, Quiet
<1> QED BY <1>1, <1>2, <1>3, <1>4, <1>5, Zenon DEF Bsp

(* The masks name vCPUs only.                                              *)
LEMMA RecStep ==
    ASSUME TypeOK, GateInv, [Next]_vars PROVE rec' \in Masks
<1>0. rec \in Masks /\ bsp.idx \in Nat
  BY DEF TypeOK, BspPlace
<1>1. ASSUME NEW s, NEW r, Open(s, r) PROVE rec' \in Masks
  BY <1>1 DEF Open, NoMasks, Masks
<1>2. CASE GateVcpu
  <2>1. bsp.idx \in Vcpu
    BY <1>0, <1>2, Gates DEF GateInv, Vcpu
  <2>2. CASE FreezeThread(bsp.idx)
    <3>1. rec' = [rec EXCEPT !.gated = @ \cup {bsp.idx}, !.wake_owned = @ \cup {bsp.idx}]
          \/ rec' = [rec EXCEPT !.gated = @ \cup {bsp.idx}, !.wake_owned = @]
      BY <2>2, Zenon DEF FreezeThread
    <3> QED BY <1>0, <2>1, <3>1, Zenon DEF Masks
  <2> QED BY <1>0, <1>2, <2>2, Gates
<1>3. CASE PollFrozen
  <2> DEFINE frozen == {v \in rec.gated : IsThreadFrozen(v)}
  <2>1. rec' = rec \/ rec' = [rec EXCEPT !.frozen = frozen]
    BY <1>3 DEF PollFrozen
  <2>2. frozen \subseteq rec.gated
    OBVIOUS
  <2> HIDE DEF frozen
  <2> QED BY <1>0, <2>1, <2>2 DEF Masks
<1>4. ASSUME NEW m \in Vm, RequestVmResume(m) \/ BeginTopology(m) \/ EndTopology(m)
      PROVE  rec' \in Masks
  BY <1>0, <1>4 DEF RequestVmResume, BeginTopology, EndTopology
<1>5. CASE Env \/ RecordWake \/ HvPmAbort
  BY <1>0, <1>5, EnvKeeps DEF transaction, RecordWake, HvPmAbort
<1> QED BY <1>0, <1>1, <1>2, <1>3, <1>4, <1>5, Steps, BspKeeps, Zenon

(* The scheduler's view of each thread.                                    *)
LEMMA ViewStep ==
    ASSUME TypeOK, GateInv, [Next]_vars PROVE thread' \in [Vcpu -> ThreadView]
<1>0. thread \in [Vcpu -> ThreadView] /\ bsp.idx \in Nat /\ pm.epoch \in 0..MaxEpoch
      /\ rec.gated \subseteq Vcpu /\ 0 \in 0..MaxEpoch
  BY HvPmConstants DEF TypeOK, BspPlace, PmData, Masks
<1>1. ASSUME NEW v \in Vcpu, SwitchIn(v) \/ SwitchOut(v) \/ Sleep(v) \/ WdtQuiesce(v)
      PROVE  thread' \in [Vcpu -> ThreadView]
  <2>1. CASE SwitchIn(v)
    BY <1>0, <2>1, Zenon DEF SwitchIn, ThreadView
  <2>2. CASE SwitchOut(v)
    BY <1>0, <2>2, Zenon DEF SwitchOut, ThreadView
  <2>3. CASE Sleep(v)
    BY <1>0, <2>3, Zenon DEF Sleep, ThreadView
  <2>4. CASE WdtQuiesce(v)
    BY <1>0, <2>4 DEF WdtQuiesce, ThreadView
  <2> QED BY <1>1, <2>1, <2>2, <2>3, <2>4
<1>2. ASSUME NEW v \in Vcpu, Wake(v) PROVE thread' \in [Vcpu -> ThreadView]
  BY <1>0, <1>2, Zenon DEF Wake, ThreadView
<1>3. ASSUME NEW v \in Vcpu, CpuOn(v) \/ CpuOff(v) PROVE thread' \in [Vcpu -> ThreadView]
  <2>1. ASSUME NEW s, NEW wake \in BOOLEAN, SetVcpu(v, s, wake)
        PROVE  thread' \in [Vcpu -> ThreadView]
    <3> DEFINE a == [thread[v] EXCEPT !.awake = wake]
               d == [thread[v] EXCEPT !.deferred = thread[v].deferred \/ wake]
    <3>1. thread[v] \in ThreadView
      BY <1>0
    <3>2. a \in ThreadView /\ d \in ThreadView
      BY <2>1, <3>1 DEF ThreadView
    <3>3. thread' = [thread EXCEPT ![v] = IF thread[v].freeze_epoch = 0 THEN a ELSE d]
      BY <2>1 DEF SetVcpu
    <3> HIDE DEF a, d
    <3> QED BY <1>0, <3>2, <3>3
  <2> QED BY <1>3, <2>1, Zenon DEF CpuOn, CpuOff
<1>4. ASSUME NEW m \in Vm, RestartVm(m) PROVE thread' \in [Vcpu -> ThreadView]
  <2>1. \A v \in Vcpu : (v = Boot(m)) \in BOOLEAN
    OBVIOUS
  <2>2. \A v \in Vcpu : thread[v] \in ThreadView
    BY <1>0
  <2>3. \A v \in Vcpu : [thread[v] EXCEPT !.awake = v = Boot(m), !.quiesce = FALSE] \in ThreadView
    BY <2>1, <2>2, Zenon DEF ThreadView
  <2> QED BY <1>4, <2>2, <2>3, Zenon DEF RestartVm
<1>5. CASE GateVcpu
  <2>1. bsp.idx \in Vcpu
    BY <1>0, <1>5, Gates DEF GateInv, Vcpu
  <2>2. CASE FreezeThread(bsp.idx)
    BY <1>0, <2>1, <2>2 DEF FreezeThread, ThreadView
  <2> QED BY <1>0, <1>5, <2>2, Gates
<1>6. CASE ThawVcpu
  <2> DEFINE w == bsp.idx \in rec.wake_owned \/ thread[bsp.idx].deferred
  <2>1. CASE bsp.idx \in rec.gated
    <3>1. thread' = [thread EXCEPT ![bsp.idx] =
                       [@ EXCEPT !.freeze_epoch = 0, !.deferred = FALSE, !.awake = w]]
      BY <1>6, <2>1 DEF ThawVcpu
    <3>2. w \in BOOLEAN
      OBVIOUS
    <3> HIDE DEF w
    <3>3. thread[bsp.idx] \in ThreadView
      BY <1>0, <2>1
    <3>4. [thread[bsp.idx] EXCEPT !.freeze_epoch = 0, !.deferred = FALSE, !.awake = w]
              \in ThreadView
      BY <1>0, <3>2, <3>3, Zenon DEF ThreadView
    <3> QED BY <1>0, <3>1, <3>4, Zenon
  <2>2. CASE bsp.idx \notin rec.gated
    BY <1>0, <1>6, <2>2, Thaws
  <2> QED BY <2>1, <2>2
<1>7. ASSUME \/ RecordWake \/ HvPmAbort \/ BspPmAbort \/ MakeSystemSuspendRequest
             \/ \E m \in Vm : WdtPauseVm(m) \/ RequestVmResume(m) \/ BeginTopology(m)
                              \/ EndTopology(m)
             \/ \E s \in Scope, r \in SUBSET Vm : Open(s, r)
             \/ UNCHANGED vars
      PROVE  UNCHANGED thread
  BY <1>7, Zenon DEF RecordWake, HvPmAbort, BspPmAbort, MakeSystemSuspendRequest, WdtPauseVm,
     RequestVmResume, BeginTopology, EndTopology, Open, vars
<1> QED BY <1>0, <1>1, <1>2, <1>3, <1>4, <1>5, <1>6, <1>7, Steps, BspKeeps, Zenon DEF Env, Threads

(* The lifecycle states, and what they make due.                           *)
LEMMA LifeStep ==
    ASSUME TypeOK, [Next]_vars
    PROVE  /\ vmstate' \in [Vm -> {"RUNNING", "PAUSED"}]
           /\ vcpu' \in [Vcpu -> {"OFF", "RUNNING", "PAUSED"}]
           /\ due' \in [Vcpu -> BOOLEAN]
<1>0. /\ vmstate \in [Vm -> {"RUNNING", "PAUSED"}]
      /\ vcpu \in [Vcpu -> {"OFF", "RUNNING", "PAUSED"}] /\ due \in [Vcpu -> BOOLEAN]
  BY DEF TypeOK
<1>1. ASSUME NEW v \in Vcpu, Sleep(v) \/ WdtQuiesce(v) \/ Wake(v) \/ CpuOn(v) \/ CpuOff(v)
      PROVE  /\ UNCHANGED vmstate
             /\ vcpu' \in [Vcpu -> {"OFF", "RUNNING", "PAUSED"}]
             /\ due' \in [Vcpu -> BOOLEAN]
  BY <1>0, <1>1, Zenon DEF Sleep, WdtQuiesce, Wake, CpuOn, CpuOff, SetVcpu
<1>2. ASSUME NEW m \in Vm, RestartVm(m)
      PROVE  /\ vmstate' \in [Vm -> {"RUNNING", "PAUSED"}]
             /\ vcpu' \in [Vcpu -> {"OFF", "RUNNING", "PAUSED"}]
             /\ due' \in [Vcpu -> BOOLEAN]
  BY <1>0, <1>2, Zenon DEF RestartVm
<1>3. ASSUME NEW m \in Vm, WdtPauseVm(m)
      PROVE  vmstate' \in [Vm -> {"RUNNING", "PAUSED"}] /\ UNCHANGED <<vcpu, due>>
  BY <1>0, <1>3 DEF WdtPauseVm
<1>4. ASSUME \/ RecordWake \/ HvPmAbort \/ BspPmAbort \/ MakeSystemSuspendRequest
             \/ \E m \in Vm : RequestVmResume(m) \/ BeginTopology(m) \/ EndTopology(m)
             \/ \E s \in Scope, r \in SUBSET Vm : Open(s, r)
             \/ \E v \in Vcpu : SwitchIn(v) \/ SwitchOut(v)
             \/ UNCHANGED vars
      PROVE  UNCHANGED envVars
  BY <1>4, Zenon DEF RecordWake, HvPmAbort, BspPmAbort, MakeSystemSuspendRequest, SwitchIn,
     RequestVmResume, BeginTopology, EndTopology, Open, SwitchOut, vars, envVars
<1> QED BY <1>0, <1>1, <1>2, <1>3, <1>4, Steps, BspKeeps, Zenon DEF Env, Threads, envVars

(* The requests on their way to the boot pCPU, and the history variable.   *)
LEMMA RequestStep ==
    ASSUME TypeOK, [Next]_vars
    PROVE  owed' \in 0..MaxOwed /\ need' \in BOOLEAN /\ late' \in 0..MaxEpoch /\ broken' \in BOOLEAN
<1>0. /\ owed \in 0..MaxOwed /\ need \in BOOLEAN /\ late \in 0..MaxEpoch /\ broken \in BOOLEAN
      /\ pm.epoch \in 0..MaxEpoch /\ 0 \in 0..MaxEpoch /\ MaxOwed \in Nat
  BY HvPmConstants DEF TypeOK, PmData
<1>1. ASSUME \/ \E s \in Scope, r \in SUBSET Vm : Open(s, r)
             \/ \E m \in Vm : RequestVmResume(m)
      PROVE  Owe /\ UNCHANGED <<need, late, broken>>
  BY <1>1, Zenon DEF Open, RequestVmResume
<1>2. ASSUME Owe PROVE owed' \in 0..MaxOwed
  BY <1>0, <1>2 DEF Owe
<1>3. CASE HvPmAbort
  <2>1. (Owe \/ owed' = owed) /\ late' = 0 /\ UNCHANGED <<need, broken>>
    BY <1>3 DEF HvPmAbort
  <2> QED BY <1>0, <1>2, <2>1
<1>4. CASE MakeSystemSuspendRequest
  BY <1>0, <1>4 DEF MakeSystemSuspendRequest
<1>5. CASE RecordWake \/ BspPmAbort
  BY <1>0, <1>5 DEF RecordWake, BspPmAbort
<1>6. ASSUME NEW m \in Vm, BeginTopology(m) \/ EndTopology(m) \/ WdtPauseVm(m) \/ RestartVm(m)
      PROVE  UNCHANGED <<owed, need, late, broken>>
  BY <1>6, Zenon DEF BeginTopology, EndTopology, WdtPauseVm, RestartVm
<1>7. CASE Threads \/ UNCHANGED vars
  BY <1>0, <1>7, Zenon DEF Threads, SwitchIn, SwitchOut, Sleep, Wake, CpuOn, CpuOff, WdtQuiesce,
     SetVcpu, vars
<1>8. CASE Bsp
  BY <1>0, <1>8, BspKeeps, Zenon
<1> QED BY <1>0, <1>1, <1>2, <1>3, <1>4, <1>5, <1>6, <1>7, <1>8, Steps DEF Env

(* Every step keeps the types.                                             *)
LEMMA TypeStep ==
    ASSUME TypeOK, GateInv, [Next]_vars PROVE TypeOK'
<1>1. pm' \in PmData /\ rec' \in Masks /\ bsp' \in BspPlace
  BY PmStep, RecStep, BspStep
<1>2. thread' \in [Vcpu -> ThreadView]
  BY ViewStep
<1> QED BY <1>1, <1>2, LifeStep, RequestStep DEF TypeOK

-----------------------------------------------------------------------------
(* The steps sorted by what they do to the transaction, the place of the   *)
(* boot pCPU and the threads: the invariants look no further.              *)

Kept  == SameEpoch /\ pm'.topology = pm.topology
Still == UNCHANGED <<rec, thread, broken, envVars>>

\* hv_pm_reset_epoch_locked
Begins ==
    /\ pm.state = "RUNNING" /\ pm'.state = "PREPARING" /\ pm'.epoch # 0
    /\ pm'.io_gated = pm'.required /\ pm'.topology = {} /\ pm'.completed = {}
    /\ rec'.gated = {} /\ rec'.frozen = {} /\ rec'.wake_owned = {}
    /\ UNCHANGED <<bsp, thread, broken, envVars>>

\* a caller that resumes, aborts, records a wake or changes the topology
Asks ==
    /\ SameEpoch /\ pm'.completed = pm.completed /\ UNCHANGED bsp /\ Still
    /\ pm.state # "RUNNING" => pm'.topology \subseteq pm.topology
    /\ \/ pm'.state = pm.state
       \/ pm.state = "SUSPENDED" /\ pm.scope = "VM" /\ pm'.state = "RESTORING_HOST"
       \/ pm.state \notin {"RUNNING", "FAILED"} /\ pm'.state = "ABORTING"

\* the walk back through the hooks begins
TurnsBack ==
    /\ Kept /\ pm'.completed = pm.completed
    /\ pm.state \notin {"RUNNING", "FAILED"} /\ pm'.state \in {"ABORTING", "RESTORING_HOST"}
    /\ bsp.pc \notin {"reverse", "thaw"}
    /\ bsp'.pc = "reverse" /\ bsp'.idx = NHook /\ ~bsp'.err
    /\ rec'.gated = rec.gated /\ rec'.wake_owned = rec.wake_owned
    /\ rec'.frozen = rec.frozen \/ (bsp.pc = "gate" /\ rec'.frozen \subseteq rec.gated)
    /\ UNCHANGED <<thread, broken, envVars>>

\* hv_pm_fail_epoch
GivesUp ==
    /\ Kept /\ pm'.completed = pm.completed
    /\ pm.state \notin {"RUNNING", "FAILED"} /\ pm'.state = "FAILED"
    /\ bsp.pc # "thaw" /\ bsp'.pc = "idle" /\ UNCHANGED <<rec, thread, envVars>>
    /\ \/ broken'
       \/ bsp.pc \in {"enter", "woken"} /\ pm.state # "SUSPENDED"
       \/ bsp.pc = "reverse" /\ bsp.err /\ UNCHANGED broken

\* hv_pm_run_forward, one callback
RunsHook ==
    /\ Kept /\ pm'.state = pm.state /\ Still
    /\ bsp.pc \in {"prepare", "suspend"} /\ bsp'.pc = bsp.pc
    /\ bsp.pc = "prepare" /\ pm.completed \subseteq PrepareHook
           => pm'.completed \subseteq PrepareHook

\* from one phase of the transaction to the next
Advances ==
    /\ Kept /\ pm'.completed = pm.completed /\ Still
    /\ \/ /\ bsp.pc = "idle" /\ bsp'.pc = "prepare"
          /\ pm.state = "PREPARING" /\ pm'.state = pm.state
       \/ /\ bsp.pc = "prepare" /\ bsp'.pc = "gate" /\ bsp'.idx = 1
          /\ pm'.state = "FREEZING_HOST"
       \/ /\ bsp.pc = "suspend" /\ bsp'.pc = "commit"
          /\ pm'.state = pm.state
       \/ /\ bsp.pc = "commit" /\ bsp'.pc \in {"idle", "enter"}
          /\ pm'.state = "SUSPENDED" /\ (bsp'.pc = "enter" => pm.scope # "VM")
       \/ /\ bsp.pc = "enter" /\ bsp'.pc = "asleep" /\ pm'.state = pm.state
       \/ /\ bsp.pc = "asleep" /\ bsp'.pc = "woken" /\ pm'.state = pm.state

\* hv_pm_gate_vm at a vCPU that is not concerned, and at one that is
PassesVcpu ==
    /\ bsp.pc = "gate" /\ bsp.idx <= NVcpu /\ bsp'.pc = "gate" /\ bsp'.idx = bsp.idx + 1
    /\ VmOf[bsp.idx] \notin pm.required /\ UNCHANGED pm /\ Still
FreezesVcpu ==
    /\ bsp.pc = "gate" /\ bsp.idx <= NVcpu /\ bsp'.pc = "gate" /\ bsp'.idx = bsp.idx + 1
    /\ VmOf[bsp.idx] \in pm.required /\ FreezeThread(bsp.idx)
    /\ UNCHANGED <<pm, broken, envVars>>

\* the poll of hv_pm_freeze_guests that finds every gated thread frozen
SeesFrozen ==
    /\ bsp.pc = "gate" /\ bsp.idx > NVcpu /\ bsp'.pc = "suspend"
    /\ rec'.gated = rec.gated /\ rec'.wake_owned = rec.wake_owned /\ rec'.frozen = rec.gated
    /\ \A v \in rec.gated : ~thread[v].on
    /\ UNCHANGED <<pm, thread, broken, envVars>>

\* hv_pm_run_reverse, one callback
Undoes ==
    /\ Kept /\ pm'.state = pm.state /\ UNCHANGED <<rec, thread, envVars>>
    /\ bsp.pc = "reverse" /\ bsp.idx > 0 /\ bsp'.pc = "reverse" /\ bsp'.idx = bsp.idx - 1
    /\ pm'.completed \subseteq pm.completed
    /\ \/ bsp'.err /\ broken'
       \/ /\ (bsp'.err <=> bsp.err) /\ UNCHANGED broken
          /\ pm'.completed = pm.completed \ {bsp.idx}

\* hv_pm_thaw_guests: its start, one vCPU, and its end
StartsThaw ==
    /\ bsp.pc = "reverse" /\ bsp.idx = 0 /\ ~bsp.err /\ bsp'.pc = "thaw" /\ bsp'.idx = 1
    /\ UNCHANGED pm /\ Still
ThawsVcpu == ThawVcpu /\ bsp.pc = "thaw" /\ bsp'.pc = "thaw" /\ bsp'.idx = bsp.idx + 1
             /\ UNCHANGED <<pm, rec, broken, envVars>>
Ends ==
    /\ bsp.pc = "thaw" /\ bsp.idx > NVcpu /\ bsp'.pc = "idle"
    /\ pm'.state = "RUNNING" /\ pm'.required = {} /\ pm'.completed = {} /\ Still

(* Every step is of one of these kinds.                                    *)
LEMMA Moves ==
    ASSUME TypeOK, StateInv, [Next]_vars
    PROVE  \/ Env \/ Begins \/ Asks \/ TurnsBack \/ GivesUp \/ RunsHook \/ Advances
           \/ PassesVcpu \/ FreezesVcpu \/ SeesFrozen \/ Undoes \/ StartsThaw \/ ThawsVcpu
           \/ Ends
<1>0. pm \in PmData /\ bsp \in BspPlace /\ rec \in Masks
  BY DEF TypeOK
<1>s. bsp.pc # "idle" => pm.state \notin {"RUNNING", "FAILED"}
  BY DEF StateInv
<1>r. ASSUME Rollback, bsp.pc \notin {"idle", "reverse", "thaw"}, Still PROVE TurnsBack
  BY <1>0, <1>s, <1>r, Rollbacks DEF TurnsBack, Kept, Still
<1>f. ASSUME FailEpoch, bsp.pc \notin {"idle", "thaw"}, UNCHANGED <<rec, thread, envVars>>,
             \/ broken'
             \/ bsp.pc \in {"enter", "woken"} /\ pm.state # "SUSPENDED"
             \/ bsp.pc = "reverse" /\ bsp.err /\ UNCHANGED broken
      PROVE  GivesUp
  BY <1>0, <1>s, <1>f, Fails DEF GivesUp, Kept
<1>1. ASSUME NEW s \in Scope, NEW r \in SUBSET Vm, Open(s, r) PROVE Begins
  BY <1>0, <1>1, Opens DEF Begins
<1>2. ASSUME NEW m \in Vm, RequestVmResume(m) PROVE Asks
  BY <1>0, <1>2, Transitions DEF RequestVmResume, Asks, Still
<1>3. ASSUME NEW m \in Vm, BeginTopology(m) \/ EndTopology(m) PROVE Asks
  BY <1>0, <1>3, Topologies DEF Asks, Still
<1>4. CASE RecordWake
  BY <1>0, <1>4, Wakes DEF Asks, Still
<1>5. CASE HvPmAbort
  BY <1>0, <1>5, Transitions DEF HvPmAbort, Abortable, Asks, Still, SameEpoch
<1>6. CASE Process
  <2>1. UNCHANGED pm /\ Still
    BY <1>6 DEF Process, Quiet, Still
  <2> QED BY <1>6, <2>1, Starts DEF Asks, TurnsBack, Advances, Kept, SameEpoch, Still
<1>7. ASSUME NEW pc \in {"prepare", "suspend"}, NEW hooks, Forward(pc, hooks),
             pc = "prepare" => hooks = PrepareHook
      PROVE  RunsHook \/ TurnsBack
  <2>1. bsp.pc = pc /\ Still
    BY <1>7 DEF Forward, Quiet, Still
  <2>2. CASE Goto(pc, bsp.idx + 1) /\ UNCHANGED pm
    BY <1>0, <2>1, <2>2, Gotos DEF RunsHook, Kept, SameEpoch
  <2>3. CASE bsp.idx \in hooks /\ SetHookCompleted(bsp.idx) /\ Goto(pc, bsp.idx + 1)
    BY <1>0, <1>7, <2>1, <2>3, Gotos, HookBits DEF RunsHook, Kept
  <2> QED BY <1>7, <1>r, <2>1, <2>2, <2>3 DEF Forward
<1>8. CASE RunPrepare \/ RunSuspend
  BY <1>7, <1>8 DEF RunPrepare, RunSuspend
<1>9. CASE PrepareDone
  <2>1. bsp.pc = "prepare" /\ Still
    BY <1>9 DEF PrepareDone, Quiet, Still
  <2> QED BY <1>0, <1>9, <1>r, <2>1, Transitions, Gotos DEF PrepareDone, Advances, Kept
<1>10. CASE GateVcpu
  <2>1. UNCHANGED envVars
    BY <1>10 DEF GateVcpu, Quiet
  <2>2. CASE Goto("gate", bsp.idx + 1)
    <3>1. bsp'.pc = "gate" /\ bsp'.idx = bsp.idx + 1
      BY <1>0, <2>2, Gotos
    <3>2. ~Rollback
      BY <3>1 DEF Rollback
    <3> QED BY <1>10, <2>1, <3>1, <3>2, Gates DEF PassesVcpu, FreezesVcpu, Still
  <2> QED BY <1>10, <1>r, <2>1, <2>2, Gates DEF Still
<1>11. CASE PollFrozen
  <2>1. bsp.pc = "gate" /\ bsp.idx > NVcpu /\ UNCHANGED <<thread, broken, envVars>>
    BY <1>11 DEF PollFrozen, Quiet
  <2>2. CASE Rollback
    BY <1>0, <1>s, <1>11, <2>1, <2>2, Rollbacks, Polls DEF TurnsBack, Kept
  <2> QED BY <1>0, <1>11, <2>1, <2>2, Polls, Gotos DEF SeesFrozen
<1>12. CASE SuspendDone
  <2>1. bsp.pc = "suspend" /\ Still
    BY <1>12 DEF SuspendDone, Quiet, Still
  <2> QED BY <1>0, <1>12, <1>r, <2>1, Gotos DEF SuspendDone, Advances, Kept, SameEpoch
<1>13. CASE Commit
  <2>1. bsp.pc = "commit" /\ Still
    BY <1>13 DEF Commit, Quiet, Still
  <2> QED BY <1>0, <1>13, <1>r, <2>1, Transitions DEF Commit, Advances, Kept, Idle
<1>14. CASE PlatformPmEnter
  <2>1. bsp.pc = "enter" /\ Still
    BY <1>14 DEF PlatformPmEnter, Quiet, Still
  <2> QED BY <1>0, <1>14, <1>f, <2>1, Gotos DEF PlatformPmEnter, Advances, Kept, SameEpoch, Still
<1>15. CASE PlatformWake
  <2>1. bsp.pc = "asleep" /\ UNCHANGED <<rec, thread, envVars>>
    BY <1>15 DEF PlatformWake, Quiet
  <2> QED BY <1>0, <1>15, <1>r, <1>f, <2>1, Gotos
             DEF PlatformWake, Advances, Kept, SameEpoch, Still
<1>16. CASE Restore
  <2>1. bsp.pc = "woken" /\ Still
    BY <1>16 DEF Restore, Quiet, Still
  <2> QED BY <1>0, <1>16, <1>f, <2>1, Transitions, Starts DEF Restore, TurnsBack, Kept, Still
<1>17. CASE RunReverse
  <2>1. bsp.pc = "reverse" /\ bsp.idx > 0 /\ UNCHANGED <<rec, thread, envVars>>
    BY <1>17 DEF RunReverse, Quiet
  <2>2. CASE bsp.idx \notin pm.completed
    BY <1>0, <1>17, <2>1, <2>2, Gotos DEF RunReverse, Undoes, Kept, SameEpoch
  <2>3. CASE ClearHookCompleted(bsp.idx) /\ Goto("reverse", bsp.idx - 1) /\ UNCHANGED broken
    BY <1>0, <2>1, <2>3, Gotos, HookBits DEF Undoes, Kept
  <2>4. CASE bsp' = [bsp EXCEPT !.idx = @ - 1, !.err = TRUE] /\ broken' = TRUE /\ UNCHANGED pm
    BY <1>0, <2>1, <2>4, HookFails DEF Undoes, Kept, SameEpoch
  <2> QED BY <1>17, <2>2, <2>3, <2>4, Zenon DEF RunReverse
<1>18. CASE StartThaw
  <2>1. bsp.pc = "reverse" /\ bsp.idx = 0 /\ UNCHANGED <<rec, thread, envVars>>
    BY <1>18 DEF StartThaw, Quiet
  <2> QED BY <1>0, <1>18, <1>f, <2>1, Gotos DEF StartThaw, StartsThaw, Still
<1>19. CASE ThawVcpu
  <2>1. UNCHANGED broken
    BY <1>19 DEF ThawVcpu
  <2> QED BY <1>0, <1>19, <2>1, Thaws, Gotos DEF ThawsVcpu
<1>20. CASE Complete
  BY <1>0, <1>20, Completes DEF Ends, Still
<1> QED
  BY Steps, <1>1, <1>2, <1>3, <1>4, <1>5, <1>6, <1>8, <1>9, <1>10, <1>11, <1>12, <1>13, <1>14,
     <1>15, <1>16, <1>17, <1>18, <1>19, <1>20, Zenon DEF Bsp

-----------------------------------------------------------------------------
(* Each conjunct of the invariant over these kinds of step.                *)

(* A transaction is opened over an idle topology with the I/O of its VMs   *)
(* gated, and stays so until hv_pm_complete_running().                     *)
LEMMA OpenStep ==
    ASSUME TypeOK, OpenInv, StateInv, [Next]_vars PROVE OpenInv'
<1> USE DEF OpenInv, Active, Kept, SameEpoch
<1>1. CASE Env
  BY <1>1, EnvKeeps DEF transaction
<1>2. CASE Begins \/ Ends
  BY <1>2 DEF Begins, Ends
<1>3. CASE Asks
  BY <1>3 DEF Asks
<1>4. CASE TurnsBack \/ GivesUp
  BY <1>4 DEF TurnsBack, GivesUp
<1>5. CASE RunsHook \/ Undoes
  BY <1>5 DEF RunsHook, Undoes, StateInv
<1>6. CASE Advances
  BY <1>6 DEF Advances, StateInv
<1>7. CASE PassesVcpu \/ FreezesVcpu \/ SeesFrozen \/ StartsThaw \/ ThawsVcpu
  BY <1>7 DEF PassesVcpu, FreezesVcpu, SeesFrozen, StartsThaw, ThawsVcpu
<1> QED BY <1>1, <1>2, <1>3, <1>4, <1>5, <1>6, <1>7, Moves, Zenon

(* What others may do to the state while the boot pCPU is at a place.      *)
LEMMA StateStep ==
    ASSUME TypeOK, StateInv, [Next]_vars PROVE StateInv'
<1> USE DEF StateInv, Kept, SameEpoch
<1>1. CASE Env
  BY <1>1, EnvKeeps DEF transaction
<1>2. CASE Begins \/ Ends
  BY <1>2 DEF Begins, Ends
<1>3. CASE Asks
  BY <1>3 DEF Asks
<1>4. CASE TurnsBack \/ GivesUp
  BY <1>4 DEF TurnsBack, GivesUp
<1>5. CASE RunsHook \/ Undoes
  BY <1>5 DEF RunsHook, Undoes
<1>6. CASE Advances
  BY <1>6 DEF Advances
<1>7. CASE PassesVcpu \/ FreezesVcpu \/ SeesFrozen \/ StartsThaw \/ ThawsVcpu
  BY <1>7 DEF PassesVcpu, FreezesVcpu, SeesFrozen, StartsThaw, ThawsVcpu
<1> QED BY <1>1, <1>2, <1>3, <1>4, <1>5, <1>6, <1>7, Moves

(* A failed reverse callback is never forgotten before PM_FAILED.          *)
LEMMA BrokenStep ==
    ASSUME TypeOK, StateInv, BrokenInv, [Next]_vars PROVE BrokenInv'
<1> USE DEF BrokenInv
<1>1. CASE Env
  BY <1>1, EnvKeeps DEF transaction
<1>2. CASE Begins \/ Ends
  BY <1>2 DEF Begins, Ends, Still, StateInv
<1>3. CASE Asks
  BY <1>3 DEF Asks, Still
<1>4. CASE TurnsBack \/ GivesUp
  BY <1>4 DEF TurnsBack, GivesUp
<1>5. CASE RunsHook \/ Undoes
  BY <1>5 DEF RunsHook, Undoes, Still
<1>6. CASE Advances
  BY <1>6 DEF Advances, Still, StateInv
<1>7. CASE PassesVcpu \/ FreezesVcpu \/ SeesFrozen \/ StartsThaw \/ ThawsVcpu
  BY <1>7 DEF PassesVcpu, FreezesVcpu, SeesFrozen, StartsThaw, ThawsVcpu, Still
<1> QED BY <1>1, <1>2, <1>3, <1>4, <1>5, <1>6, <1>7, Moves

(* Only vCPUs of the required VMs are gated, and only gated ones are       *)
(* recorded as frozen or as owed a wake.                                   *)
LEMMA MaskStep ==
    ASSUME TypeOK, StateInv, OpenInv, GateInv, MaskInv, [Next]_vars PROVE MaskInv'
<1> USE DEF MaskInv, Active, Required, Kept, SameEpoch
<1>1. CASE Env
  BY <1>1, EnvKeeps DEF transaction
<1>2. CASE Begins \/ Ends
  BY <1>2 DEF Begins, Ends, Still
<1>3. CASE Asks
  BY <1>3 DEF Asks, Still
<1>4. CASE TurnsBack \/ GivesUp
  BY <1>4 DEF TurnsBack, GivesUp
<1>5. CASE RunsHook \/ Undoes
  BY <1>5 DEF RunsHook, Undoes, Still
<1>6. CASE Advances
  BY <1>6 DEF Advances, Still, StateInv
<1>7. CASE PassesVcpu \/ SeesFrozen \/ StartsThaw \/ ThawsVcpu
  BY <1>7 DEF PassesVcpu, SeesFrozen, StartsThaw, ThawsVcpu, Still
<1>8. CASE FreezesVcpu
  <2>1. bsp.idx \in Vcpu /\ rec \in Masks
    BY <1>8 DEF FreezesVcpu, GateInv, Vcpu, TypeOK, BspPlace
  <2>2. /\ rec'.gated = rec.gated \cup {bsp.idx} /\ rec'.frozen = rec.frozen
        /\ rec'.wake_owned \subseteq rec.wake_owned \cup {bsp.idx}
    BY <1>8, <2>1, Freezes DEF FreezesVcpu
  <2> QED BY <1>8, <2>1, <2>2 DEF FreezesVcpu
<1> QED BY <1>1, <1>2, <1>3, <1>4, <1>5, <1>6, <1>7, <1>8, Moves

(* The gate loop: no device is retained, and it has gated what it passed.  *)
LEMMA GateStep ==
    ASSUME TypeOK, StateInv, GateInv, [Next]_vars PROVE GateInv'
<1> USE DEF GateInv, Kept, SameEpoch
<1>1. CASE Env
  BY <1>1, EnvKeeps DEF transaction, Required
<1>2. CASE Begins \/ Ends
  BY <1>2 DEF Begins, Ends, StateInv
<1>3. CASE Asks
  BY <1>3 DEF Asks, Still, Required
<1>4. CASE TurnsBack \/ GivesUp
  BY <1>4 DEF TurnsBack, GivesUp
<1>5. CASE RunsHook \/ Undoes
  BY <1>5 DEF RunsHook, Undoes, Still
<1>6. CASE Advances
  <2>1. {v \in Required' : v < 1} = {}
    BY DEF Required, Vcpu
  <2> QED BY <1>6, <2>1 DEF Advances, Still
<1>7. CASE SeesFrozen \/ StartsThaw \/ ThawsVcpu
  BY <1>7 DEF SeesFrozen, StartsThaw, ThawsVcpu
<1>8. CASE PassesVcpu \/ FreezesVcpu
  <2>0. /\ bsp.pc = "gate" /\ bsp'.pc = "gate" /\ bsp'.idx = bsp.idx + 1 /\ UNCHANGED pm
        /\ bsp.idx \in Nat /\ bsp.idx > 0 /\ bsp.idx <= NVcpu /\ Required' = Required
    BY <1>8 DEF PassesVcpu, FreezesVcpu, TypeOK, BspPlace, Required
  <2>1. bsp.idx \in Vcpu /\ rec \in Masks
    BY <2>0 DEF Vcpu, TypeOK
  <2>2. \A v \in Vcpu : v < bsp.idx + 1 <=> v < bsp.idx \/ v = bsp.idx
    BY <2>0 DEF Vcpu
  <2>3. CASE PassesVcpu
    <3>1. {v \in Required : v < bsp.idx + 1} = {v \in Required : v < bsp.idx}
      BY <2>2, <2>3 DEF Required, PassesVcpu
    <3> QED BY <2>0, <2>3, <3>1 DEF PassesVcpu, Still
  <2>4. CASE FreezesVcpu
    <3>1. {v \in Required : v < bsp.idx + 1} = {v \in Required : v < bsp.idx} \cup {bsp.idx}
      BY <2>1, <2>2, <2>4 DEF Required, FreezesVcpu
    <3>2. rec'.gated = rec.gated \cup {bsp.idx}
      BY <2>1, <2>4, Freezes DEF FreezesVcpu
    <3> QED BY <2>0, <3>1, <3>2
  <2> QED BY <1>8, <2>3, <2>4
<1> QED BY <1>1, <1>2, <1>3, <1>4, <1>5, <1>6, <1>7, <1>8, Moves

(* The reverse walk: unless it has failed, what it passed is undone.       *)
LEMMA ReverseStep ==
    ASSUME TypeOK, ReverseInv, StateInv, [Next]_vars PROVE ReverseInv'
<1> USE DEF ReverseInv, Kept, SameEpoch
<1>0. pm.completed \subseteq 1..NHook /\ NHook \in Nat /\ bsp.idx \in Nat
  BY HvPmConstants DEF TypeOK, PmData, Hook, BspPlace
<1>1. CASE Env
  BY <1>1, EnvKeeps DEF transaction
<1>2. CASE Begins \/ Ends
  BY <1>2 DEF Begins, Ends, StateInv
<1>3. CASE Asks
  BY <1>3 DEF Asks
<1>4. CASE TurnsBack \/ GivesUp
  BY <1>0, <1>4 DEF TurnsBack, GivesUp
<1>5. CASE RunsHook \/ Advances
  BY <1>5 DEF RunsHook, Advances
<1>6. CASE Undoes
  BY <1>0, <1>6 DEF Undoes
<1>7. CASE PassesVcpu \/ FreezesVcpu \/ SeesFrozen \/ ThawsVcpu
  BY <1>7 DEF PassesVcpu, FreezesVcpu, SeesFrozen, ThawsVcpu
<1>8. CASE StartsThaw
  BY <1>0, <1>8 DEF StartsThaw
<1> QED BY <1>1, <1>2, <1>3, <1>4, <1>5, <1>6, <1>7, <1>8, Moves

(* Retention begins with every required vCPU gated and seen off, and is    *)
(* over when the thaw begins.                                              *)
LEMMA RetainStep ==
    ASSUME TypeOK, OpenInv, StateInv, GateInv, ReverseInv, RetainInv, ReverseInv',
           [Next]_vars
    PROVE  RetainInv'
<1> USE DEF RetainInv, Retaining, Active, Kept, SameEpoch
<1>1. CASE Env
  BY <1>1, EnvKeeps DEF transaction, Required
<1>2. CASE Begins \/ Ends
  BY <1>2 DEF Begins, Ends, StateInv
<1>3. CASE Asks
  BY <1>3 DEF Asks, Still, Required
<1>4. CASE TurnsBack
  BY <1>4 DEF TurnsBack, GateInv, Required
<1>5. CASE GivesUp
  BY <1>5 DEF GivesUp, Required
<1>6. CASE RunsHook
  BY <1>6 DEF RunsHook, GateInv, Still, Required
<1>7. CASE Undoes
  BY <1>7 DEF Undoes, Required
<1>8. CASE Advances
  BY <1>8 DEF Advances, Still, Required
<1>9. CASE PassesVcpu \/ FreezesVcpu
  BY <1>9 DEF PassesVcpu, FreezesVcpu, GateInv
<1>10. CASE SeesFrozen
  <2>1. \A v \in Vcpu : v < bsp.idx
    BY <1>10, HvPmConstants DEF SeesFrozen, Vcpu, TypeOK, BspPlace
  <2>2. rec.gated = Required
    BY <1>10, <2>1 DEF SeesFrozen, GateInv, Required
  <2> QED BY <1>10, <2>2 DEF SeesFrozen, StateInv, Required
<1>11. CASE StartsThaw \/ ThawsVcpu
  BY <1>11 DEF StartsThaw, ThawsVcpu, ReverseInv
<1> QED
  BY <1>1, <1>2, <1>3, <1>4, <1>5, <1>6, <1>7, <1>8, <1>9, <1>10, <1>11, Moves

(* The freeze epoch of a thread against the masks of the transaction.      *)
LEMMA ThreadStep ==
    ASSUME TypeOK, OpenInv, StateInv, GateInv, MaskInv, [Next]_vars,
           NEW v \in Vcpu, ThreadInv(v)
    PROVE  ThreadInv(v)'
<1> USE DEF ThreadInv, Thawed, Active, Kept, SameEpoch
<1>0. v \in Nat /\ 1 <= v /\ v <= NVcpu /\ NVcpu \in Nat /\ bsp.idx \in Nat
  BY HvPmConstants DEF Vcpu, TypeOK, BspPlace
<1>1. CASE Env
  BY <1>1, EnvKeeps, ThreadMoves DEF transaction
<1>2. CASE Begins
  BY <1>2 DEF Begins, StateInv
<1>3. CASE Ends
  <2>1. v < bsp.idx
    BY <1>0, <1>3 DEF Ends
  <2> QED BY <1>3, <2>1 DEF Ends, Still
<1>4. CASE Asks
  BY <1>4 DEF Asks, Still
<1>5. CASE TurnsBack \/ GivesUp
  BY <1>5 DEF TurnsBack, GivesUp
<1>6. CASE RunsHook \/ Undoes
  BY <1>6 DEF RunsHook, Undoes, Still
<1>7. CASE Advances
  BY <1>7 DEF Advances, Still, StateInv
<1>8. CASE PassesVcpu \/ SeesFrozen
  BY <1>8 DEF PassesVcpu, SeesFrozen, Still
<1>9. CASE FreezesVcpu
  <2>1. bsp.idx \in Vcpu /\ bsp.pc = "gate" /\ pm.state # "RUNNING" /\ rec \in Masks
    BY <1>0, <1>9 DEF FreezesVcpu, GateInv, StateInv, Vcpu, TypeOK
  <2>2. bsp'.pc = "gate" /\ UNCHANGED pm /\ rec'.gated = rec.gated \cup {bsp.idx}
    BY <1>9, <2>1, Freezes DEF FreezesVcpu
  <2>3. CASE v = bsp.idx
    BY <1>9, <2>1, <2>2, <2>3, FrozenThread DEF FreezesVcpu
  <2>4. CASE v # bsp.idx
    BY <1>9, <2>1, <2>2, <2>4, FrozenThread DEF FreezesVcpu
  <2> QED BY <2>3, <2>4
<1>10. CASE StartsThaw
  BY <1>0, <1>10 DEF StartsThaw, Still
<1>11. CASE ThawsVcpu
  <2>1. v < bsp.idx + 1 <=> v < bsp.idx \/ v = bsp.idx
    BY <1>0
  <2>2. bsp.pc = "thaw" /\ bsp'.pc = "thaw" /\ bsp'.idx = bsp.idx + 1 /\ UNCHANGED <<pm, rec>>
    BY <1>11 DEF ThawsVcpu
  <2>3. CASE v = bsp.idx /\ v \in rec.gated
    BY <1>11, <2>1, <2>2, <2>3, Thaws DEF ThawsVcpu
  <2>4. CASE v # bsp.idx \/ v \notin rec.gated
    <3>1. thread'[v] = thread[v]
      BY <1>11, <2>4, Thaws DEF ThawsVcpu
    <3> QED BY <2>1, <2>2, <2>4, <3>1
  <2> QED BY <2>3, <2>4
<1> QED
  BY <1>1, <1>2, <1>3, <1>4, <1>5, <1>6, <1>7, <1>8, <1>9, <1>10, <1>11, Moves, Zenon

(* While devices are retained a gated thread stays off its pCPU: it is     *)
(* asleep under a freeze epoch, so nothing can switch to it.               *)
LEMMA OffStep ==
    ASSUME TypeOK, OpenInv, StateInv, GateInv, ReverseInv, RetainInv, ReverseInv',
           [Next]_vars, NEW v \in Vcpu, ThreadInv(v), OffInv(v)
    PROVE  OffInv(v)'
<1> USE DEF OffInv, Retaining
<1>1. CASE Env
  BY <1>1, EnvKeeps, ThreadMoves DEF transaction, ThreadInv, RetainInv, OpenInv, Thawed, Active
<1>2. CASE Begins \/ Ends
  BY <1>2 DEF Begins, Ends, StateInv
<1>3. CASE Asks
  BY <1>3 DEF Asks, Still
<1>4. CASE TurnsBack \/ GivesUp
  BY <1>4 DEF TurnsBack, GivesUp
<1>5. CASE RunsHook
  BY <1>5 DEF RunsHook, GateInv, Still
<1>6. CASE Undoes
  BY <1>6 DEF Undoes
<1>7. CASE Advances
  BY <1>7 DEF Advances, Still
<1>8. CASE PassesVcpu \/ FreezesVcpu
  BY <1>8 DEF PassesVcpu, FreezesVcpu, GateInv
<1>9. CASE SeesFrozen
  BY <1>9 DEF SeesFrozen
<1>10. CASE StartsThaw \/ ThawsVcpu
  BY <1>10 DEF StartsThaw, ThawsVcpu, ReverseInv
<1> QED BY <1>1, <1>2, <1>3, <1>4, <1>5, <1>6, <1>7, <1>8, <1>9, <1>10, Moves

(* The wake a running vCPU is due is in its thread, or held by the freeze. *)
LEMMA WakeStep ==
    ASSUME TypeOK, OpenInv, StateInv, GateInv, MaskInv, [Next]_vars,
           NEW v \in Vcpu, ThreadInv(v), WakeInv(v)
    PROVE  WakeInv(v)'
<1>1. CASE Env
  BY <1>1, WakeMoves
<1>2. CASE Begins
  BY <1>2 DEF Begins, WakeInv, ThreadInv, Active, envVars
<1>3. CASE Asks \/ RunsHook \/ Advances \/ PassesVcpu \/ StartsThaw \/ Ends
  <2>1. Still
    BY <1>3 DEF Asks, RunsHook, Advances, PassesVcpu, StartsThaw, Ends
  <2> QED BY <2>1 DEF Still, WakeInv, envVars
<1>4. CASE TurnsBack \/ GivesUp \/ SeesFrozen \/ Undoes
  <2>1. rec'.wake_owned = rec.wake_owned /\ UNCHANGED <<thread, envVars>>
    BY <1>4 DEF TurnsBack, GivesUp, SeesFrozen, Undoes
  <2> QED BY <2>1 DEF WakeInv, envVars
<1>5. CASE FreezesVcpu
  <2>1. bsp.idx \in Vcpu /\ rec \in Masks /\ UNCHANGED envVars /\ FreezeThread(bsp.idx)
    BY <1>5 DEF FreezesVcpu, GateInv, Vcpu, TypeOK, BspPlace
  <2>2. CASE v = bsp.idx
    <3>1. v \notin rec.wake_owned /\ pm.epoch # 0
      <4>1. bsp.pc = "gate" /\ bsp.idx \in Nat
        BY <1>5 DEF FreezesVcpu, TypeOK, BspPlace
      <4> QED BY <2>2, <4>1 DEF MaskInv, GateInv, OpenInv, Active, StateInv
    <3>2. thread[v].freeze_epoch = 0 /\ thread'[v].freeze_epoch # 0
      BY <2>1, <2>2, <3>1, FrozenThread
    <3>3. ~thread'[v].deferred
      BY <2>1, <2>2, <3>2, FrozenThread DEF ThreadInv
    <3>4. v \in rec'.wake_owned <=> thread[v].awake
      BY <2>1, <2>2, <3>1, Freezes
    <3> QED BY <2>1, <3>2, <3>3, <3>4 DEF WakeInv, envVars
  <2>3. CASE v # bsp.idx
    <3>1. thread'[v] = thread[v]
      BY <2>1, <2>3, FrozenThread
    <3>2. v \in rec'.wake_owned <=> v \in rec.wake_owned
      BY <2>1, <2>3, Freezes
    <3> QED BY <2>1, <3>1, <3>2 DEF WakeInv, envVars
  <2> QED BY <2>2, <2>3
<1>6. CASE ThawsVcpu
  <2>1. ThawVcpu /\ bsp.pc = "thaw" /\ UNCHANGED <<rec, envVars>>
    BY <1>6 DEF ThawsVcpu
  <2>2. CASE v = bsp.idx /\ v \in rec.gated
    <3>1. thread[v].freeze_epoch # 0
      BY <2>1, <2>2 DEF ThawVcpu, OpenInv, Active, StateInv
    <3> QED BY <2>1, <2>2, <3>1, Thaws DEF WakeInv, envVars
  <2>3. CASE v # bsp.idx \/ v \notin rec.gated
    <3>1. thread'[v] = thread[v]
      BY <2>1, <2>3, Thaws
    <3> QED BY <2>1, <3>1 DEF WakeInv, envVars
  <2> QED BY <2>2, <2>3
<1> QED BY <1>1, <1>2, <1>3, <1>4, <1>5, <1>6, Moves

(* In the initial state nothing is frozen, and a boot vCPU is awake as due.*)
LEMMA InitIInv == Init => IInv
<1> SUFFICES ASSUME Init PROVE IInv
  OBVIOUS
<1>1. /\ pm.state = "RUNNING" /\ pm.completed = {} /\ pm.required = {} /\ pm.topology = {}
      /\ bsp.pc = "idle" /\ ~broken
      /\ rec.gated = {} /\ rec.frozen = {} /\ rec.wake_owned = {}
  BY DEF Init, NoMasks, Idle
<1>2. \A v \in Vcpu : /\ thread[v].freeze_epoch = 0 /\ ~thread[v].deferred
                      /\ thread[v].awake = due[v]
  BY DEF Init
<1>3. pm \in PmData
  BY HvPmConstants DEF Init, PmData, PmStates
<1>4. rec \in Masks /\ bsp \in BspPlace
  BY Zenon DEF Init, NoMasks, Masks, Idle, BspPlace, Place
<1>5. thread \in [Vcpu -> ThreadView] /\ due \in [Vcpu -> BOOLEAN]
  <2>1. \A v \in Vcpu : (v = Boot(VmOf[v])) \in BOOLEAN
    OBVIOUS
  <2>2. 0 \in 0..MaxEpoch
    BY HvPmConstants
  <2> QED BY <2>1, <2>2 DEF Init, ThreadView
<1>6. /\ vmstate \in [Vm -> {"RUNNING", "PAUSED"}]
      /\ vcpu \in [Vcpu -> {"OFF", "RUNNING", "PAUSED"}]
  BY DEF Init
<1>7. owed \in 0..MaxOwed /\ need \in BOOLEAN /\ late \in 0..MaxEpoch /\ broken \in BOOLEAN
  <2>1. owed = 0 /\ late = 0
    BY DEF Init
  <2>2. need \in BOOLEAN /\ broken \in BOOLEAN
    BY Zenon DEF Init
  <2>3. owed \in 0..MaxOwed /\ late \in 0..MaxEpoch
    BY <2>1, HvPmConstants
  <2> QED BY <2>2, <2>3, Zenon
<1>8. TypeOK
  BY <1>3, <1>4, <1>5, <1>6, <1>7 DEF TypeOK
<1>9. OpenInv /\ StateInv /\ GateInv /\ ReverseInv /\ RetainInv /\ BrokenInv /\ MaskInv
  BY <1>1 DEF OpenInv, Active, StateInv, GateInv, ReverseInv, RetainInv, Retaining, BrokenInv,
     MaskInv
<1>10. ASSUME NEW v \in Vcpu PROVE ThreadInv(v) /\ OffInv(v) /\ WakeInv(v)
  BY <1>1, <1>2 DEF ThreadInv, Active, Thawed, OffInv, WakeInv
<1> QED BY <1>8, <1>9, <1>10 DEF IInv

(* Every step keeps it.                                                    *)
LEMMA NextIInv == ASSUME IInv, [Next]_vars PROVE IInv'
<1>0. /\ TypeOK /\ OpenInv /\ StateInv /\ GateInv /\ ReverseInv /\ RetainInv /\ BrokenInv
      /\ MaskInv
  BY DEF IInv
<1>1. TypeOK'
  BY <1>0, TypeStep
<1>2. OpenInv' /\ StateInv' /\ GateInv' /\ BrokenInv' /\ MaskInv'
  BY <1>0, OpenStep, StateStep, GateStep, BrokenStep, MaskStep
<1>3. ReverseInv'
  BY <1>0, ReverseStep
<1>4. RetainInv'
  BY <1>0, <1>3, RetainStep
<1>5. ASSUME NEW v \in Vcpu PROVE ThreadInv(v)' /\ OffInv(v)' /\ WakeInv(v)'
  <2>1. ThreadInv(v) /\ OffInv(v) /\ WakeInv(v)
    BY DEF IInv
  <2> QED BY <1>0, <1>3, <2>1, ThreadStep, OffStep, WakeStep
<1> QED BY <1>1, <1>2, <1>3, <1>4, <1>5 DEF IInv

(* The transaction's invariant holds in every reachable state.             *)
THEOREM HvPmInvariant == Spec => []IInv
<1>1. IInv /\ [Next]_vars => IInv'
  BY NextIInv
<1> QED BY InitIInv, <1>1, PTL DEF Spec

(* hv_pm_begin_vm_topology_change() and the two suspend requests exclude   *)
(* each other: no VM changes its topology while a transaction is open.     *)
THEOREM TopologyExcludedHolds == Spec => []TopologyExcluded
<1>1. IInv => TopologyExcluded
  BY DEF IInv, OpenInv, Active, TopologyExcluded
<1> QED BY <1>1, HvPmInvariant, PTL

(* A failed transaction keeps its guests frozen and their I/O gated.       *)
THEOREM FailClosedHolds == Spec => []FailClosed
<1>1. IInv => FailClosed
  <2> SUFFICES ASSUME IInv, pm.state = "FAILED" \/ (broken /\ bsp.pc = "idle")
               PROVE  /\ pm.state = "FAILED" /\ pm.required \subseteq pm.io_gated
                      /\ \A v \in rec.gated : thread[v].freeze_epoch = pm.epoch
    BY DEF FailClosed
  <2>1. pm.state = "FAILED" /\ Active
    BY DEF IInv, BrokenInv, Active
  <2>2. pm.required \subseteq pm.io_gated
    BY <2>1 DEF IInv, OpenInv
  <2>3. bsp.pc # "thaw"
    BY <2>1 DEF IInv, StateInv
  <2>4. rec.gated \subseteq Vcpu
    BY DEF IInv, TypeOK, Masks
  <2>5. \A v \in rec.gated : thread[v].freeze_epoch = pm.epoch
    BY <2>1, <2>3, <2>4 DEF IInv, ThreadInv, Thawed
  <2> QED BY <2>1, <2>2, <2>5
<1> QED BY <1>1, HvPmInvariant, PTL

(* thaw_thread() replays exactly the wakes the freeze held back: a thawed  *)
(* vCPU is awake as if it had never been frozen.                           *)
THEOREM GuestTransparentHolds == Spec => []GuestTransparent
<1>1. IInv => GuestTransparent
  BY DEF IInv, WakeInv, GuestTransparent
<1> QED BY <1>1, HvPmInvariant, PTL

(* The hooks that retain devices run only behind hv_pm_freeze_guests() and *)
(* are undone before hv_pm_thaw_guests(): while any is completed, every    *)
(* vCPU of a required VM is off its pCPU and cannot be scheduled.          *)
THEOREM RetainedMeansOffHolds == Spec => []RetainedMeansOff
<1>1. IInv => RetainedMeansOff
  <2> SUFFICES ASSUME IInv, pm.completed \ PrepareHook # {}, NEW v \in Vcpu,
                      VmOf[v] \in pm.required
               PROVE  IsThreadFrozen(v)
    BY DEF RetainedMeansOff
  <2>1. Retaining
    BY DEF Retaining
  <2>2. Active /\ bsp.pc # "thaw" /\ v \in rec.gated /\ pm.epoch # 0
    BY <2>1 DEF IInv, RetainInv, Required, OpenInv
  <2>3. thread[v].freeze_epoch = pm.epoch /\ ~thread[v].awake
    BY <2>2 DEF IInv, ThreadInv, Thawed
  <2>4. ~thread[v].on
    BY <2>1, <2>2 DEF IInv, OffInv
  <2> QED BY <2>3, <2>4 DEF IsThreadFrozen
<1> QED BY <1>1, HvPmInvariant, PTL

(* hv_pm_complete_running() opens the I/O gate of a VM only when each of   *)
(* its vCPUs is thawed and each hook of the transaction undone.            *)
THEOREM UngatedMeansRestoredHolds == Spec => []UngatedMeansRestored
<1>1. IInv => UngatedMeansRestored
  <2> SUFFICES ASSUME IInv, NEW m \in Vm \ pm.io_gated
               PROVE  /\ m \in pm.required => pm.completed = {}
                      /\ \A v \in Vcpus(m) : thread[v].freeze_epoch = 0
    BY DEF UngatedMeansRestored
  <2>1. m \notin pm.required
    BY DEF IInv, OpenInv
  <2>2. ASSUME NEW v \in Vcpus(m) PROVE thread[v].freeze_epoch = 0
    <3>1. v \in Vcpu /\ VmOf[v] = m
      BY DEF Vcpus
    <3>2. Active => v \notin rec.gated
      BY <2>1, <3>1 DEF IInv, MaskInv, Required
    <3> QED BY <3>1, <3>2 DEF IInv, ThreadInv
  <2> QED BY <2>1, <2>2
<1> QED BY <1>1, HvPmInvariant, PTL

(* hv_pm_fail_epoch() is reached only when something was not restored, or  *)
(* when an abort overtook the platform entry of a published suspend.       *)
THEOREM FailedOnlyIfUnprovenHolds == Spec => FailedOnlyIfUnproven
<1>1. ASSUME IInv, [Next]_vars PROVE [FailsOnlyIfUnproven]_vars
  <2> SUFFICES ASSUME pm.state # "FAILED", pm'.state = "FAILED"
               PROVE  broken' \/ (pm.state = "ABORTING" /\ bsp.pc \in {"enter", "woken"})
    BY DEF FailsOnlyIfUnproven
  <2>0. TypeOK /\ StateInv /\ BrokenInv
    BY <1>1 DEF IInv
  <2>1. CASE GivesUp
    BY <2>0, <2>1 DEF GivesUp, StateInv, BrokenInv
  <2>2. ASSUME Env PROVE FALSE
    BY <2>2, EnvKeeps DEF transaction
  <2>3. ASSUME Begins \/ Asks \/ TurnsBack \/ RunsHook \/ Undoes \/ Ends PROVE FALSE
    BY <2>3 DEF Begins, Asks, TurnsBack, RunsHook, Undoes, Ends
  <2>4. ASSUME Advances PROVE FALSE
    BY <2>4 DEF Advances
  <2>5. ASSUME PassesVcpu \/ FreezesVcpu \/ SeesFrozen \/ StartsThaw \/ ThawsVcpu PROVE FALSE
    BY <2>5 DEF PassesVcpu, FreezesVcpu, SeesFrozen, StartsThaw, ThawsVcpu
  <2> QED BY <1>1, <2>0, <2>1, <2>2, <2>3, <2>4, <2>5, Moves
<1> QED BY <1>1, HvPmInvariant, PTL DEF Spec, FailedOnlyIfUnproven

=============================================================================
