------------------------------ MODULE Schedule ------------------------------
(***************************************************************************)
(* The scheduler framework of core/schedule.c, as seen from ONE pCPU.      *)
(*                                                                         *)
(* Scheduling is partitioned: every thread is bound to one pCPU, and a     *)
(* pCPU's struct sched_control is changed only by that pCPU (schedule(),   *)
(* the idle loop, the policy timer) and by callers on any pCPU that take   *)
(* its scheduler lock (sleep, wake, quiesce, freeze, thaw, reset) or set a *)
(* flag without it (reschedule, priority and management requests).  The    *)
(* callers are the environment of this module: they may call any           *)
(* operation at any time, within the contract stated at each action.       *)
(*                                                                         *)
(* schedule() is two steps.  ScheduleBegin takes the lock, consumes the    *)
(* priority requests, tests for idle-owned work and picks the successor;   *)
(* ScheduleEnd clears NEED_RESCHEDULE, switches and drops the lock.  In    *)
(* between only the callers that do not take the lock may run.             *)
(***************************************************************************)
EXTENDS Naturals, FiniteSets

CONSTANTS
    Thread,     \* the non-idle threads bound to this pCPU
    Vm,         \* VM identifiers (quiesce slots are per VM)
    VmOf,       \* [Thread -> Vm]; a VM has at most one vCPU on a pCPU
    Idle,       \* the per-pCPU idle thread
    None,       \* no thread (a NULL pointer, or: the scheduler lock is free)
    Policy,     \* the struct acrn_scheduler this pCPU runs
    Management, \* the management requests other code makes of this pCPU
    MaxGen,     \* bound on quiesce generations
    MaxEpoch    \* bound on PM freeze epochs

(* Policies whose pick_next leaves the chosen thread in the run queue, and *)
(* policies whose pick_next takes it out.                                  *)
KeepPolicy == {"noop", "prio", "iorr", "bvt"}
TakePolicy == {"cbs", "rtds", "bfp"}
Keeps == Policy \in KeepPolicy

Gen == 1 .. MaxGen
Epoch == 1 .. MaxEpoch
Request == {"SUSPEND", "RESET", "SHUTDOWN"}

ASSUME ScheduleConstants ==
    /\ Policy \in KeepPolicy \cup TakePolicy
    /\ VmOf \in [Thread -> Vm]
    /\ \A t, u \in Thread : VmOf[t] = VmOf[u] => t = u
    /\ Policy = "noop" => \A t, u \in Thread : t = u
    /\ Idle \notin Thread
    /\ None \notin Thread \cup {Idle}
    /\ Management \subseteq Request
    /\ MaxGen \in Nat
    /\ MaxEpoch \in Nat

VARIABLES
    curr_obj,       \* sched_control.curr_obj
    status,         \* thread_object.status, of the non-idle threads
    be_blocking,    \* the threads whose be_blocking is set
    runq,           \* the threads linked in a queue of the policy
    need_resched,   \* NEED_RESCHEDULE of sched_control.flags
    priority_pending,   \* the threads whose priority_pending is set
    slot,           \* per-VM quiesce slot: obj, request_gen, ack_gen
    quiesce_mask,   \* sched_control.quiesce_request_vm_mask
    freeze_epoch,   \* thread_object.freeze_epoch, 0 when not gated
    deferred_wake,  \* the threads whose deferred_wake is set
    wake_owned,     \* the threads the PM record lists in wake_owned_vcpu_mask
    pcpu_flag,      \* the management requests pending on this pCPU
    next,           \* schedule()'s choice while it holds the lock, else None
    idle_pc,        \* where the idle loop stands
    sgi,            \* an interrupt is pending at the CPU interface
    due,            \* history: the threads whose last sleep/wake was a wake
    overlap         \* history: the threads frozen at some time of their quiesce

quiesce == <<slot, quiesce_mask, overlap>>
freeze == <<freeze_epoch, deferred_wake, wake_owned>>
idle == <<idle_pc, sgi>>
vars == <<curr_obj, status, be_blocking, runq, need_resched, priority_pending,
          slot, quiesce_mask, freeze_epoch, deferred_wake, wake_owned,
          pcpu_flag, next, idle_pc, sgi, due, overlap>>

Status == {"RUNNING", "RUNNABLE", "BLOCKED"}
IdlePc == {"ack", "test", "wfi", "halted"}
SlotType == [obj : Thread \cup {None}, request_gen : Nat, ack_gen : Nat]

TypeOK ==
    /\ curr_obj \in Thread \cup {Idle}
    /\ status \in [Thread -> Status]
    /\ be_blocking \in SUBSET Thread
    /\ runq \in SUBSET Thread
    /\ need_resched \in BOOLEAN
    /\ priority_pending \in SUBSET Thread
    /\ slot \in [Vm -> SlotType]
    /\ quiesce_mask \in SUBSET Vm
    /\ freeze_epoch \in [Thread -> Nat]
    /\ deferred_wake \in SUBSET Thread
    /\ wake_owned \in SUBSET Thread
    /\ pcpu_flag \in SUBSET Request
    /\ next \in Thread \cup {Idle, None}
    /\ idle_pc \in IdlePc
    /\ sgi \in BOOLEAN
    /\ due \in SUBSET Thread
    /\ overlap \in SUBSET Thread

-----------------------------------------------------------------------------
FreeSlot == [obj |-> None, request_gen |-> 0, ack_gen |-> 0]

(* init_sched() and init_thread_data(): every thread registered, BLOCKED   *)
(* and in no queue; the pCPU runs its idle thread.                         *)
Init ==
    /\ curr_obj = Idle
    /\ status = [t \in Thread |-> "BLOCKED"]
    /\ be_blocking = {}
    /\ runq = {}
    /\ need_resched = FALSE
    /\ priority_pending = {}
    /\ slot = [v \in Vm |-> FreeSlot]
    /\ quiesce_mask = {}
    /\ freeze_epoch = [t \in Thread |-> 0]
    /\ deferred_wake = {}
    /\ wake_owned = {}
    /\ pcpu_flag = {}
    /\ next = None
    /\ idle_pc = "ack"
    /\ sgi = FALSE
    /\ due = {}
    /\ overlap = {}

-----------------------------------------------------------------------------
(* Predicates of the code.                                                 *)

is_blocked(t) == status[t] = "BLOCKED"
Awake(t) == ~is_blocked(t) /\ t \notin be_blocking

(* Mutant: the forced-idle test forgets the quiesce requests.              *)
sched_idle_work_pending ==
    \/ "SUSPEND" \in pcpu_flag
    \/ "RESET" \in pcpu_flag
    \/ quiesce_mask # {}

sched_current_is_only_runnable ==
    /\ curr_obj # Idle
    /\ {t \in Thread : Awake(t)} = {curr_obj}

thread_quiesce_active(t) ==
    /\ slot[VmOf[t]].obj = t
    /\ slot[VmOf[t]].request_gen # 0

is_thread_quiesced(t, g) ==
    /\ g # 0
    /\ slot[VmOf[t]].obj = t
    /\ slot[VmOf[t]].request_gen = g
    /\ slot[VmOf[t]].ack_gen = g

is_thread_frozen(t, e) ==
    /\ freeze_epoch[t] = e
    /\ is_blocked(t)
    /\ t \notin be_blocking
    /\ curr_obj # t

LockFree == next = None

(* make_reschedule_request(): the flag, and an SGI unless the caller runs  *)
(* on this pCPU.                                                           *)
make_reschedule_request(remote) ==
    /\ need_resched' = TRUE
    /\ sgi' = (sgi \/ remote)

no_reschedule_request == UNCHANGED <<need_resched, sgi>>
-----------------------------------------------------------------------------
(* The policy hooks, reduced to what they do to queue membership: which    *)
(* thread a policy prefers is left open.                                   *)

HasPrioritize == Policy \in {"bvt", "cbs", "rtds"}
HasTimer == Policy \in {"iorr", "bvt", "cbs", "rtds", "bfp"}

(* Mutants: the idle thread, or a blocking thread, is put back as well.    *)
MutRequeueBlocking(q) == IF curr_obj # Idle THEN q \cup {curr_obj} ELSE q

(* A policy that takes the running thread out of its queue puts it back    *)
(* when it next looks at it, unless it is blocking: the *_refresh_thread() *)
(* calls of pick_next and of the timer handlers.                           *)
Requeue(q) ==
    IF curr_obj \in Thread \ be_blocking THEN q \cup {curr_obj} ELSE q

(* prioritize(), called for the threads p with a pending request.  RTDS    *)
(* skips the servers that have no budget left.                             *)
prioritize(p) ==
    LET eligible == {t \in p : Awake(t)} \ {curr_obj}
    IN  CASE Policy = "cbs"  -> {runq \cup eligible}
          [] Policy = "rtds" -> {runq \cup e : e \in SUBSET eligible}
          [] OTHER           -> {runq}

(* pick_next(): the possible results, as pairs of the choice and the queue *)
(* it leaves.  BFP also picks idle when every queued server is depleted.   *)
pick_next(q) ==
    IF Keeps
    THEN IF q = {} THEN {<<Idle, q>>} ELSE {<<t, q>> : t \in q}
    ELSE LET all == Requeue(q)
             taken == {<<t, all \ {t}>> : t \in all}
         IN  IF all = {} \/ Policy = "bfp" THEN taken \cup {<<Idle, all>>} ELSE taken

-----------------------------------------------------------------------------
(* schedule()                                                              *)

(* Who calls schedule(): the idle loop on NEED_RESCHEDULE, or the running  *)
(* thread on its way back to the guest (NEED_RESCHEDULE) or to wait        *)
(* (it has put itself to sleep).                                           *)
CallsSchedule ==
    IF curr_obj = Idle
    THEN idle_pc = "test" /\ "SUSPEND" \notin pcpu_flag /\ need_resched
    ELSE need_resched \/ curr_obj \in be_blocking

ScheduleBegin ==
    /\ LockFree
    /\ CallsSchedule
    /\ priority_pending' = {}
    /\ \E q \in prioritize(priority_pending) :
          IF sched_idle_work_pending
          THEN next' = Idle /\ runq' = q
          ELSE \E choice \in pick_next(q) : next' = choice[1] /\ runq' = choice[2]
    /\ UNCHANGED <<curr_obj, status, be_blocking, need_resched, quiesce, freeze,
                   pcpu_flag, idle, due>>

(* Mutant: the outgoing thread's status is only set when it blocks.        *)
MutSwitchKeepsRunning(prev, nxt) ==
    [t \in Thread |->
        IF t = prev THEN IF t \in be_blocking THEN "BLOCKED" ELSE status[t]
        ELSE IF t = nxt THEN "RUNNING" ELSE status[t]]

SwitchStatus(prev, nxt) ==
    [t \in Thread |->
        IF t = prev THEN IF t \in be_blocking THEN "BLOCKED" ELSE "RUNNABLE"
        ELSE IF t = nxt THEN "RUNNING" ELSE status[t]]

ScheduleEnd ==
    /\ ~LockFree
    /\ need_resched' = FALSE
    /\ IF next = curr_obj
       THEN UNCHANGED <<curr_obj, status, be_blocking>>
       ELSE /\ status' = SwitchStatus(curr_obj, next)
            /\ be_blocking' = be_blocking \ {curr_obj}
            /\ curr_obj' = next
    /\ next' = None
    /\ idle_pc' = "ack"
    /\ UNCHANGED <<runq, priority_pending, quiesce, freeze, pcpu_flag, sgi, due>>

(* sched_clear_reschedule_if_current_only(): the running vCPU's exit path  *)
(* drops a reschedule request that schedule() would answer with itself.    *)
ClearRescheduleIfCurrentOnly ==
    /\ LockFree
    /\ ~sched_idle_work_pending
    /\ need_resched
    /\ sched_current_is_only_runnable
    /\ need_resched' = FALSE
    /\ UNCHANGED <<curr_obj, status, be_blocking, runq, priority_pending, quiesce,
                   freeze, pcpu_flag, next, idle, due>>

(* The timer of the policy, on this pCPU.  CBS and RTDS requeue the        *)
(* running thread.  A BVT or round-robin tick leaves an idle pCPU with an  *)
(* empty queue alone, and a round-robin tick an unfinished slice.          *)
(* Mutant: a tick on an idle pCPU is always ignored.                       *)
MutTickIgnoresIdle ==
    IF curr_obj = Idle THEN {FALSE} ELSE IF Policy = "iorr" THEN BOOLEAN ELSE {TRUE}

TickRequests ==
    CASE ~Keeps          -> {TRUE}
      [] curr_obj = Idle -> {runq # {}}
      [] Policy = "iorr" -> BOOLEAN
      [] OTHER           -> {TRUE}

PolicyTick ==
    /\ HasTimer
    /\ LockFree
    /\ runq' = IF Policy \in {"cbs", "rtds"} THEN Requeue(runq) ELSE runq
    /\ \E request \in TickRequests : need_resched' = (need_resched \/ request)
    /\ idle_pc' = IF idle_pc = "halted" THEN "ack" ELSE idle_pc
    /\ UNCHANGED <<curr_obj, status, be_blocking, priority_pending, quiesce,
                   freeze, pcpu_flag, next, sgi, due>>

-----------------------------------------------------------------------------
(* Operations that take the scheduler lock of this pCPU.  "remote" says    *)
(* whether the caller runs on another pCPU; a halted pCPU calls nothing.   *)

CanCall(remote) == LockFree /\ (remote \/ idle_pc # "halted")

(* sleep_thread_locked().  The running thread stays RUNNING until          *)
(* schedule() switches it out.                                             *)
sleep_thread_locked(t, remote) ==
    /\ runq' = runq \ {t}
    /\ IF status[t] = "RUNNING"
       THEN /\ make_reschedule_request(remote)
            /\ be_blocking' = be_blocking \cup {t}
            /\ UNCHANGED status
       ELSE /\ status' = [status EXCEPT ![t] = "BLOCKED"]
            /\ no_reschedule_request
            /\ UNCHANGED be_blocking

(* Mutant: a wake that cancels a sleep in progress skips the policy hook.  *)
MutWakeSkipsHook(t, remote) ==
    IF Awake(t)
    THEN no_reschedule_request /\ UNCHANGED <<runq, status, be_blocking>>
    ELSE /\ IF is_blocked(t)
            THEN /\ runq' = runq \cup {t}
                 /\ status' = [status EXCEPT ![t] = "RUNNABLE"]
                 /\ make_reschedule_request(remote)
            ELSE no_reschedule_request /\ UNCHANGED <<runq, status>>
         /\ be_blocking' = be_blocking \ {t}

(* wake_thread_locked()                                                    *)
wake_thread_locked(t, remote) ==
    IF Awake(t)
    THEN no_reschedule_request /\ UNCHANGED <<runq, status, be_blocking>>
    ELSE /\ runq' = runq \cup {t}
         /\ IF is_blocked(t)
            THEN /\ status' = [status EXCEPT ![t] = "RUNNABLE"]
                 /\ make_reschedule_request(remote)
            ELSE no_reschedule_request /\ UNCHANGED status
         /\ be_blocking' = be_blocking \ {t}

(* A sleep that lands on a gated thread is undone by the thaw, which       *)
(* replays the wake PM owns: it does not count as the last word.           *)
SleepThread(t, remote) ==
    /\ CanCall(remote)
    /\ sleep_thread_locked(t, remote)
    /\ due' = IF freeze_epoch[t] = 0 THEN due \ {t} ELSE due
    /\ UNCHANGED <<curr_obj, priority_pending, quiesce, freeze, pcpu_flag, next, idle_pc>>

(* Mutants: a wake ignores the quiesce slot, or the freeze gate.           *)
MutWakeIgnoresFreeze(t, remote) ==
    /\ CanCall(remote)
    /\ ~thread_quiesce_active(t)
    /\ wake_thread_locked(t, remote)
    /\ due' = due \cup {t}
    /\ UNCHANGED <<curr_obj, priority_pending, quiesce, freeze, pcpu_flag, next, idle_pc>>

WakeThread(t, remote) ==
    /\ CanCall(remote)
    /\ ~thread_quiesce_active(t)
    /\ IF freeze_epoch[t] # 0
       THEN /\ deferred_wake' = deferred_wake \cup {t}
            /\ no_reschedule_request
            /\ UNCHANGED <<runq, status, be_blocking>>
       ELSE wake_thread_locked(t, remote) /\ UNCHANGED deferred_wake
    /\ due' = due \cup {t}
    /\ UNCHANGED <<curr_obj, priority_pending, quiesce, freeze_epoch, wake_owned,
                   pcpu_flag, next, idle_pc>>

(* request_thread_quiesce().  Nothing keeps it from a vCPU that PM has     *)
(* gated: the watchdog is only suspended after the guests are frozen.      *)
SlotAvailable(t) ==
    LET s == slot[VmOf[t]] IN s.obj \in {None, t} \/ s.request_gen = s.ack_gen

(* Mutant: only the first request of a generation raises the SGI.          *)
MutRequestOnce(t, g, remote) ==
    /\ CanCall(remote)
    /\ SlotAvailable(t)
    /\ slot' = [slot EXCEPT ![VmOf[t]].obj = t, ![VmOf[t]].request_gen = g]
    /\ quiesce_mask' = quiesce_mask \cup {VmOf[t]}
    /\ overlap' = IF freeze_epoch[t] # 0 THEN overlap \cup {t} ELSE overlap
    /\ IF VmOf[t] \in quiesce_mask THEN no_reschedule_request
                                   ELSE make_reschedule_request(remote)
    /\ UNCHANGED <<curr_obj, status, be_blocking, runq, priority_pending, freeze,
                   pcpu_flag, next, idle_pc, due>>

RequestThreadQuiesce(t, g, remote) ==
    /\ CanCall(remote)
    /\ SlotAvailable(t)
    /\ slot' = [slot EXCEPT ![VmOf[t]].obj = t, ![VmOf[t]].request_gen = g]
    /\ quiesce_mask' = quiesce_mask \cup {VmOf[t]}
    /\ overlap' = IF freeze_epoch[t] # 0 THEN overlap \cup {t} ELSE overlap
    /\ make_reschedule_request(remote)
    /\ UNCHANGED <<curr_obj, status, be_blocking, runq, priority_pending, freeze,
                   pcpu_flag, next, idle_pc, due>>

(* release_thread_quiesce(), from launch_vcpu()                            *)
ReleaseThreadQuiesce(t, remote) ==
    /\ CanCall(remote)
    /\ slot[VmOf[t]].obj = t
    /\ slot' = [slot EXCEPT ![VmOf[t]] = FreeSlot]
    /\ quiesce_mask' = quiesce_mask \ {VmOf[t]}
    /\ overlap' = overlap \ {t}
    /\ UNCHANGED <<curr_obj, status, be_blocking, runq, need_resched,
                   priority_pending, freeze, pcpu_flag, next, idle, due>>

(* freeze_thread() and the ownership bit hv_pm_gate_vm() keeps of it.      *)
FreezeThread(t, e, remote) ==
    /\ CanCall(remote)
    /\ freeze_epoch[t] \in {0, e}
    /\ freeze_epoch' = [freeze_epoch EXCEPT ![t] = e]
    /\ deferred_wake' = IF freeze_epoch[t] = 0 THEN deferred_wake \ {t} ELSE deferred_wake
    /\ LET kept == IF freeze_epoch[t] = 0 THEN wake_owned \ {t} ELSE wake_owned
       IN  wake_owned' = IF Awake(t) THEN kept \cup {t} ELSE kept
    /\ sleep_thread_locked(t, remote)
    /\ overlap' = IF thread_quiesce_active(t) THEN overlap \cup {t} ELSE overlap
    /\ UNCHANGED <<curr_obj, priority_pending, slot, quiesce_mask, pcpu_flag, next,
                   idle_pc, due>>

(* Mutant: the thaw forgets the wakes it deferred.                         *)
MutThawDropsDeferred(t, e, remote) ==
    /\ CanCall(remote)
    /\ freeze_epoch[t] = e
    /\ freeze_epoch' = [freeze_epoch EXCEPT ![t] = 0]
    /\ deferred_wake' = deferred_wake \ {t}
    /\ IF t \in wake_owned
       THEN wake_thread_locked(t, remote)
       ELSE no_reschedule_request /\ UNCHANGED <<runq, status, be_blocking>>
    /\ UNCHANGED <<curr_obj, priority_pending, quiesce, wake_owned, pcpu_flag, next,
                   idle_pc, due>>

ThawThread(t, e, remote) ==
    /\ CanCall(remote)
    /\ freeze_epoch[t] = e
    /\ freeze_epoch' = [freeze_epoch EXCEPT ![t] = 0]
    /\ deferred_wake' = deferred_wake \ {t}
    /\ IF t \in wake_owned \cup deferred_wake
       THEN wake_thread_locked(t, remote)
       ELSE no_reschedule_request /\ UNCHANGED <<runq, status, be_blocking>>
    /\ UNCHANGED <<curr_obj, priority_pending, quiesce, wake_owned, pcpu_flag, next,
                   idle_pc, due>>

(* reset_thread_data(): init_data() re-initialises the thread's list node  *)
(* and its budget; the queue is not touched.                               *)
CanReset(t) ==
    /\ is_blocked(t)
    /\ t \notin be_blocking
    /\ curr_obj # t
    /\ freeze_epoch[t] = 0

ResetThreadData(t, remote) ==
    /\ CanCall(remote)
    /\ CanReset(t)
    /\ priority_pending' = priority_pending \ {t}
    /\ deferred_wake' = deferred_wake \ {t}
    /\ UNCHANGED <<curr_obj, status, be_blocking, runq, need_resched, quiesce,
                   freeze_epoch, wake_owned, pcpu_flag, next, idle, due>>
-----------------------------------------------------------------------------
(* Requests that set flags without the scheduler lock.  schedule() runs    *)
(* with interrupts masked, so only another pCPU can call them then.        *)

CanSignal(remote) == remote \/ (LockFree /\ idle_pc # "halted")

RequestThreadPriority(t, remote) ==
    /\ CanSignal(remote)
    /\ priority_pending' = IF HasPrioritize THEN priority_pending \cup {t}
                                           ELSE priority_pending
    /\ make_reschedule_request(remote)
    /\ UNCHANGED <<curr_obj, status, be_blocking, runq, quiesce, freeze, pcpu_flag,
                   next, idle_pc, due>>

(* vcpu_make_request() of a vCPU that runs on another pCPU than the        *)
(* caller's kicks that pCPU instead of asking for a reschedule.            *)
RequestThreadPriorityNoResched(t) ==
    /\ HasPrioritize
    /\ curr_obj = t
    /\ priority_pending' = priority_pending \cup {t}
    /\ sgi' = TRUE
    /\ UNCHANGED <<curr_obj, status, be_blocking, runq, need_resched, quiesce,
                   freeze, pcpu_flag, next, idle_pc, due>>

(* make_system_suspend_request() and make_reset_vm_request_internal(): the *)
(* flag, then a reschedule request.                                        *)
MakeIdleRequest(f, remote) ==
    /\ CanSignal(remote)
    /\ pcpu_flag' = pcpu_flag \cup {f}
    /\ make_reschedule_request(remote)
    /\ UNCHANGED <<curr_obj, status, be_blocking, runq, priority_pending, quiesce,
                   freeze, next, idle_pc, due>>

(* make_shutdown_vm_request(): the flag and a kick, no reschedule.         *)
MakeShutdownRequest(remote) ==
    /\ CanSignal(remote)
    /\ pcpu_flag' = pcpu_flag \cup {"SHUTDOWN"}
    /\ sgi' = (sgi \/ remote)
    /\ UNCHANGED <<curr_obj, status, be_blocking, runq, need_resched,
                   priority_pending, quiesce, freeze, next, idle_pc, due>>

-----------------------------------------------------------------------------
(* default_idle(), with interrupts enabled throughout.                     *)

IdleRuns(pc) == curr_obj = Idle /\ LockFree /\ idle_pc = pc

(* Mutant: the idle thread acknowledges whatever it finds requested.       *)
MutAckUnchecked ==
    {v \in quiesce_mask : slot[v].obj # None /\ slot[v].request_gen # 0}

(* sched_ack_quiesce_from_idle()                                           *)
Acknowledged ==
    {v \in quiesce_mask : /\ slot[v].obj # None
                          /\ slot[v].request_gen # 0
                          /\ is_blocked(slot[v].obj)
                          /\ slot[v].obj \notin be_blocking}

IdleAckQuiesce ==
    /\ IdleRuns("ack")
    /\ quiesce_mask' = quiesce_mask \ Acknowledged
    /\ slot' = [v \in Vm |-> IF v \in Acknowledged
                              THEN [slot[v] EXCEPT !.ack_gen = slot[v].request_gen]
                              ELSE slot[v]]
    /\ need_resched' = (need_resched \/ Acknowledged # {})
    /\ idle_pc' = "test"
    /\ UNCHANGED <<curr_obj, status, be_blocking, runq, priority_pending, freeze,
                   pcpu_flag, next, sgi, due, overlap>>

(* One management request per turn.  What PM and the VM reset do to the    *)
(* threads, they do through the operations above.                          *)
IdleTakes(f) ==
    /\ f \in pcpu_flag
    /\ pcpu_flag' = pcpu_flag \ {f}
    /\ idle_pc' = "ack"

IdleManagement ==
    /\ IdleRuns("test")
    /\ IF "SUSPEND" \in pcpu_flag
       THEN IdleTakes("SUSPEND") /\ need_resched' = TRUE
       ELSE /\ ~need_resched
            /\ IF "RESET" \in pcpu_flag THEN IdleTakes("RESET") ELSE IdleTakes("SHUTDOWN")
            /\ UNCHANGED need_resched
    /\ UNCHANGED <<curr_obj, status, be_blocking, runq, priority_pending, quiesce,
                   freeze, next, sgi, due>>

(* No work seen: the loop goes on to cpu_do_idle().                        *)
IdleSeesNothing ==
    /\ IdleRuns("test")
    /\ ~need_resched
    /\ pcpu_flag = {}
    /\ idle_pc' = "wfi"
    /\ UNCHANGED <<curr_obj, status, be_blocking, runq, need_resched,
                   priority_pending, quiesce, freeze, pcpu_flag, next, sgi, due>>

(* cpu_do_idle(): WFI falls through when an interrupt is pending.          *)
Wfi ==
    /\ IdleRuns("wfi")
    /\ idle_pc' = IF sgi THEN "ack" ELSE "halted"
    /\ UNCHANGED <<curr_obj, status, be_blocking, runq, need_resched,
                   priority_pending, quiesce, freeze, pcpu_flag, next, sgi, due>>

(* The interrupt is taken; its EL2 handler returns to where it struck.     *)
TakeInterrupt ==
    /\ LockFree
    /\ sgi
    /\ sgi' = FALSE
    /\ idle_pc' = IF idle_pc = "halted" THEN "ack" ELSE idle_pc
    /\ UNCHANGED <<curr_obj, status, be_blocking, runq, need_resched,
                   priority_pending, quiesce, freeze, pcpu_flag, next, due>>

-----------------------------------------------------------------------------
Callers ==
    \E remote \in BOOLEAN :
        \/ \E t \in Thread :
              \/ SleepThread(t, remote)
              \/ WakeThread(t, remote)
              \/ \E g \in Gen : RequestThreadQuiesce(t, g, remote)
              \/ ReleaseThreadQuiesce(t, remote)
              \/ \E e \in Epoch : FreezeThread(t, e, remote)
              \/ \E e \in Epoch : ThawThread(t, e, remote)
              \/ ResetThreadData(t, remote)
              \/ RequestThreadPriority(t, remote)
        \/ \E f \in Management \ {"SHUTDOWN"} : MakeIdleRequest(f, remote)
        \/ "SHUTDOWN" \in Management /\ MakeShutdownRequest(remote)

Dispatch == ScheduleBegin \/ ScheduleEnd

IdleLoop == IdleAckQuiesce \/ IdleManagement \/ IdleSeesNothing \/ Wfi

Next ==
    \/ Callers
    \/ \E t \in Thread : RequestThreadPriorityNoResched(t)
    \/ Dispatch
    \/ ClearRescheduleIfCurrentOnly
    \/ PolicyTick
    \/ IdleLoop
    \/ TakeInterrupt

Spec == Init /\ [][Next]_vars
(***************************************************************************)
(* Fairness.  The pCPU executes: schedule(), the idle loop and pending     *)
(* interrupts go on.  The scheduler lock is a ticket lock, so a caller     *)
(* that keeps asking for it gets it (strong fairness).  The watchdog polls *)
(* request_vcpu_quiesce() (a sleep, then a request) until it is            *)
(* acknowledged; a policy timer keeps firing.                              *)
(***************************************************************************)
PcpuFairness ==
    /\ WF_vars(Dispatch)
    /\ WF_vars(IdleLoop)
    /\ SF_vars(TakeInterrupt)

PollFairness ==
    \A t \in Thread :
        /\ SF_vars(VmOf[t] \in quiesce_mask /\ SleepThread(t, TRUE))
        /\ SF_vars(/\ VmOf[t] \in quiesce_mask
                   /\ RequestThreadQuiesce(t, slot[VmOf[t]].request_gen, TRUE))

FairSpec == Spec /\ PcpuFairness
PollSpec == FairSpec /\ PollFairness
TickSpec == FairSpec /\ SF_vars(PolicyTick)

-----------------------------------------------------------------------------
(* Exactly the current thread is RUNNING, and only it can be on its way to *)
(* sleep: the status a remote pause or freeze reads never disagrees with   *)
(* who is on the pCPU, whatever interleaves with schedule().               *)
CurrentIsRunning ==
    \A t \in Thread : /\ status[t] = "RUNNING" <=> curr_obj = t
                      /\ t \in be_blocking => curr_obj = t

(* A policy queue holds only threads that may run.  reset_thread_data()    *)
(* re-initialises the list node of a BLOCKED thread without unlinking it,  *)
(* so a blocked thread left in a queue would corrupt the queue.            *)
QueuedIsAwake == \A t \in runq : Awake(t)

(* Under a policy that keeps the running thread queued, the queue is       *)
(* exactly the set of threads that want the pCPU.                          *)
QueueIsAwake == Keeps => runq = {t \in Thread : Awake(t)}

SwitchedOut(t) ==
    is_blocked(t) /\ t \notin be_blocking \cup runq \cup {curr_obj, next}

(* A quiesce acknowledgement that matches its generation means the vCPU    *)
(* thread is switched out and stays out: VM reset rewrites its context on  *)
(* the strength of it.  This takes that PM does not freeze the thread      *)
(* while it is being quiesced.                                             *)
QuiescedIsOff ==
    \A t \in Thread \ overlap : \A g \in Gen :
        is_thread_quiesced(t, g) => SwitchedOut(t)

(* The same without the proviso: the generation gate rejects every wake of *)
(* an acknowledged vCPU until its next launch, a thaw's replay included.   *)
GateRejectsWake ==
    \A t \in Thread : \A g \in Gen : is_thread_quiesced(t, g) => SwitchedOut(t)

(* The inductive invariant behind the theorems of ScheduleProofs: what     *)
(* schedule() has chosen under the lock is runnable and respects pending   *)
(* quiesce requests, and a quiesce slot belongs, unless a freeze got in    *)
(* its way, to a thread that no thaw will wake and that is blocked once    *)
(* the slot is acknowledged.                                               *)
NextIsAwake == next \in Thread => Awake(next) /\ quiesce_mask = {}

SlotOk(v) ==
    IF slot[v].obj = None
    THEN slot[v].request_gen = 0 /\ slot[v].ack_gen = 0
    ELSE /\ VmOf[slot[v].obj] = v
         /\ slot[v].request_gen # 0
         /\ slot[v].obj \notin overlap =>
                /\ freeze_epoch[slot[v].obj] = 0
                /\ slot[v].ack_gen # 0 => /\ is_blocked(slot[v].obj)
                                          /\ slot[v].obj \notin be_blocking

SlotInv == \A v \in Vm : SlotOk(v)

(* The freeze gate is transparent: once a thread is thawed, it runs again  *)
(* exactly if it was awake or woken, before or during the freeze; while it *)
(* is gated it does not run, and the wake it is owed is remembered.        *)
FreezeTransparent ==
    \A t \in Thread :
        IF freeze_epoch[t] = 0
        THEN t \in due <=> Awake(t)
        ELSE ~Awake(t) /\ (t \in due <=> t \in wake_owned \cup deferred_wake)

IInv ==
    /\ TypeOK
    /\ CurrentIsRunning
    /\ NextIsAwake
    /\ QueuedIsAwake
    /\ QueueIsAwake
    /\ SlotInv
    /\ FreezeTransparent

(* Once is_thread_frozen() has told PM that a vCPU is off its pCPU, this   *)
(* stays true until the thaw: the device retention that follows relies on  *)
(* it.                                                                     *)
FrozenUntilThaw ==
    [][\A t \in Thread : \A e \in Epoch :
          is_thread_frozen(t, e) => is_thread_frozen(t, e)' \/ freeze_epoch'[t] = 0]_vars

(* While a quiesce request is unacknowledged no thread is switched in: the *)
(* pCPU stays with its idle thread, the only one that may acknowledge.     *)
QuiesceForcesIdle ==
    [][curr_obj' # curr_obj /\ quiesce_mask # {} => curr_obj' = Idle]_vars

(* Every quiesce request is acknowledged or withdrawn as long as the       *)
(* watchdog goes on polling, even when a wake slipped in before the        *)
(* request or an SGI was spent before the WFI.                             *)
QuiesceAnswered ==
    \A v \in Vm : v \in quiesce_mask ~> v \notin quiesce_mask

(* A pCPU does not stay in its idle thread while a thread is queued and no *)
(* management work keeps it there.                                         *)
IdleDispatches ==
    (curr_obj = Idle /\ runq # {} /\ ~sched_idle_work_pending)
        ~> (curr_obj # Idle \/ runq = {} \/ sched_idle_work_pending)

(* schedule() selects idle while management work is pending: a suspend or  *)
(* reset request made of a pCPU that runs a guest gets it to its idle      *)
(* thread.                                                                 *)
ManagementReachesIdle ==
    (curr_obj # Idle /\ pcpu_flag \cap {"SUSPEND", "RESET"} # {}) ~> curr_obj = Idle
=============================================================================
