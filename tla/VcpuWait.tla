------------------------------ MODULE VcpuWait ------------------------------
(***************************************************************************)
(* What a vCPU thread waits for inside EL2, and what pause, reset and      *)
(* launch do to a thread that waits: sched_event (core/event.c), the two   *)
(* exits that use it, PSCI CPU_SUSPEND (arch/arm64/guest/vpsci.c) and an   *)
(* I/O request to the device model of the Service VM (sdk/bsp/ioreq.c),    *)
(* the exit path and the vCPU thread around them, and the management side  *)
(* of core/vcpu.c, core/vm.c and arch/arm64/guest/vm.c.                    *)
(*                                                                         *)
(* One vCPU of a post-launched VM is modelled with everything that acts    *)
(* on it: its own thread, the other threads of its pCPU (which may be      *)
(* picked at any schedule()), an interrupt source, the device model, and   *)
(* the management pCPU.  Each critical section is one step.                *)
(*                                                                         *)
(* The guest's registers are abstracted to the instance of the guest they  *)
(* belong to: reset_vm() begins a new instance.                            *)
(***************************************************************************)
EXTENDS Integers

CONSTANTS
    MaxInstance   \* bound: resets of the VM

ASSUME VcpuWaitConstants == MaxInstance \in Nat

VARIABLES
    state,      \* vcpu->state
    thr,        \* scheduler status of the vCPU thread; BLOCKING is be_blocking
    at,         \* where the thread is: pc, the exit it handles, the instance
                \* of the guest that took the exit
    event,      \* vcpu->events[]: set, and whether waiting_thread is set
    blocked,    \* vcpu->arch.pm.blocked
    irq,        \* the vGIC holds a pending interrupt for the vCPU
    req,        \* ARM64_VCPU_REQUEST_EVENT in pending_req
    source,     \* where an injector is
    slot,       \* the vCPU's slot of the I/O request page
    dm,         \* the device model: step and the request it works on
    polling,    \* vm->sw.is_polling_ioreq, fixed when the VM is created
    mgmt,       \* where the pause, reset or start of the VM is
    instance,   \* instances of the guest so far
    regs,       \* instance the saved guest context belongs to
    el1,        \* instance of the context loaded at EL1
    torn        \* history: a reset found an exit or a request under way

threadVars == <<state, thr, at, event, blocked>>
irqVars == <<irq, req, source>>
ioVars == <<slot, dm, polling>>
contextVars == <<instance, regs, el1, torn>>
vars == <<threadVars, irqVars, ioVars, mgmt, contextVars>>

Events == {"VIRQ", "IOREQ"}
Exits == {"none", "standby", "powerdown", "mmio", "cpu_on", "fault"}
EventOf(exit) == IF exit = "mmio" THEN "IOREQ" ELSE "VIRQ"
NoEvent == [set |-> FALSE, waiting |-> FALSE]
FreeSlot == [state |-> "FREE", of |-> 0]

Init ==
    /\ state = "INIT" /\ thr = "BLOCKED"
    /\ at = [pc |-> "loop", exit |-> "none", instance |-> 0]
    /\ event = [e \in Events |-> NoEvent]
    /\ blocked = FALSE /\ irq = FALSE /\ req = FALSE /\ source = "none"
    /\ slot = FreeSlot /\ dm = [pc |-> "idle", of |-> 0]
    /\ polling \in BOOLEAN
    /\ mgmt = "created"
    /\ instance = 0 /\ regs = 0 /\ el1 = 0
    /\ torn = FALSE

-----------------------------------------------------------------------------
(* The scheduler, as the vCPU thread meets it.                              *)

OnPcpu == thr \in {"RUNNING", "BLOCKING"}

sleep_thread(t) ==
    IF t = "RUNNING" THEN "BLOCKING" ELSE IF t = "RUNNABLE" THEN "BLOCKED" ELSE t

wake_thread(t) ==
    IF t = "BLOCKED" THEN "RUNNABLE" ELSE IF t = "BLOCKING" THEN "RUNNING" ELSE t

\* schedule(): a thread that is to block leaves, another one may be picked
Switched == IF thr = "BLOCKING" THEN {"BLOCKED"} ELSE {"RUNNING", "RUNNABLE"}

\* the pCPU picks the thread
Dispatch ==
    /\ thr = "RUNNABLE"
    /\ thr' = "RUNNING"
    /\ UNCHANGED <<state, at, event, blocked, irqVars, ioVars, mgmt, contextVars>>

Goto(pc) == at' = [at EXCEPT !.pc = pc]

-----------------------------------------------------------------------------
(* sched_event.                                                            *)

(* Mutant: a signal nobody waits for is dropped.                           *)
MutSignalOnlyWaiter(e) ==
    /\ event' = [event EXCEPT ![e].set = @ \/ event[e].waiting]
    /\ thr' = IF event[e].waiting THEN wake_thread(thr) ELSE thr

(* Mutant: the thread is woken whether or not it waits for the event.      *)
MutSignalAlwaysWakes(e) ==
    /\ event' = [event EXCEPT ![e].set = TRUE]
    /\ thr' = wake_thread(thr)

(* signal_event().                                                         *)
signal_event(e) ==
    /\ event' = [event EXCEPT ![e].set = TRUE]
    /\ thr' = IF event[e].waiting THEN wake_thread(thr) ELSE thr

(* Mutant: the flag survives the wait.                                     *)
MutWaitKeepsSet(e, waiting) ==
    IF ~event[e].set /\ waiting
    THEN /\ event' = [event EXCEPT ![e].waiting = TRUE]
         /\ thr' = sleep_thread(thr)
         /\ Goto("yield")
    ELSE /\ event' = [event EXCEPT ![e].waiting = FALSE]
         /\ thr' = thr
         /\ Goto("done")

(* The loop of wait_event() each time it holds the lock; waiting is        *)
(* waiting_thread # NULL as the loop finds it.                             *)
WaitLoop(e, waiting) ==
    IF ~event[e].set /\ waiting
    THEN /\ event' = [event EXCEPT ![e].waiting = TRUE]
         /\ thr' = sleep_thread(thr)
         /\ Goto("yield")
    ELSE /\ event' = [event EXCEPT ![e] = NoEvent]
         /\ thr' = thr
         /\ Goto("done")

(* Mutant: an edge that is already there is taken for an old one.          *)
MutWaitClearsFirst ==
    /\ OnPcpu /\ at.pc = "wait"
    /\ event' = [event EXCEPT ![EventOf(at.exit)] = [set |-> FALSE, waiting |-> TRUE]]
    /\ thr' = sleep_thread(thr)
    /\ Goto("yield")
    /\ UNCHANGED <<state, blocked, irqVars, ioVars, mgmt, contextVars>>

\* wait_event() up to its schedule()
WaitEvent ==
    /\ OnPcpu /\ at.pc = "wait"
    /\ WaitLoop(EventOf(at.exit), TRUE)
    /\ UNCHANGED <<state, blocked, irqVars, ioVars, mgmt, contextVars>>

\* its schedule()
WaitYield ==
    /\ OnPcpu /\ at.pc = "yield"
    /\ thr' \in Switched
    /\ Goto("recheck")
    /\ UNCHANGED <<state, event, blocked, irqVars, ioVars, mgmt, contextVars>>

\* the test after it
WaitRecheck ==
    /\ OnPcpu /\ at.pc = "recheck"
    /\ WaitLoop(EventOf(at.exit), event[EventOf(at.exit)].waiting)
    /\ UNCHANGED <<state, blocked, irqVars, ioVars, mgmt, contextVars>>

-----------------------------------------------------------------------------
(* Exits of the guest.  save_exit_regs() makes the saved context that of   *)
(* the code that ran at EL1.                                               *)

InGuest == OnPcpu /\ at.pc = "guest"
Trap(pc, exit) ==
    /\ at' = [pc |-> pc, exit |-> exit, instance |-> el1]
    /\ regs' = el1

(* arm64_vpsci_cpu_suspend() up to reset_event().                          *)
CpuSuspend(exit) ==
    /\ InGuest /\ ~blocked
    /\ Trap("test", exit)
    /\ event' = [event EXCEPT !["VIRQ"] = NoEvent]
    /\ UNCHANGED <<state, thr, blocked, irqVars, ioVars, mgmt, instance, el1, torn>>

\* its test of the vGIC and of pending_req
CpuSuspendTest ==
    /\ OnPcpu /\ at.pc = "test"
    /\ Goto(IF irq \/ req THEN "done" ELSE "wait")
    /\ blocked' = ~(irq \/ req)
    /\ UNCHANGED <<state, thr, event, irqVars, ioVars, mgmt, contextVars>>

\* the rest of it.  A powered-down vCPU resumes at the entry point and with
\* the context the call named.
CpuSuspendDone ==
    /\ OnPcpu /\ at.pc = "done" /\ at.exit \in {"standby", "powerdown"}
    /\ blocked' = FALSE
    /\ regs' = IF at.exit = "powerdown" THEN at.instance ELSE regs
    /\ Goto("exit")
    /\ UNCHANGED <<state, thr, event, irqVars, ioVars, mgmt, instance, el1, torn>>

(* acrn_insert_request() up to its wait, from a data abort no handler of   *)
(* EL2 takes.  A slot that is not FREE fails the exit.                     *)
InsertRequest ==
    /\ InGuest
    /\ IF slot.state = "FREE"
       THEN /\ Trap(IF polling THEN "poll" ELSE "wait", "mmio")
            /\ slot' = [state |-> "PENDING", of |-> instance]
       ELSE /\ Trap("lock", "fault")
            /\ UNCHANGED slot
    /\ UNCHANGED <<state, thr, event, blocked, irqVars, dm, polling, mgmt, instance, el1, torn>>

(* Mutant: the polling loop keeps the pCPU.                                *)
MutPollSpins ==
    /\ OnPcpu /\ at.pc = "poll" /\ slot.state = "COMPLETE"
    /\ Goto("done")
    /\ UNCHANGED <<state, thr, event, blocked, irqVars, ioVars, mgmt, contextVars>>

\* the polling loop: leave it on COMPLETE, or schedule() and try again
PollRequest ==
    /\ OnPcpu /\ at.pc = "poll"
    /\ IF slot.state = "COMPLETE"
       THEN Goto("done") /\ UNCHANGED thr
       ELSE thr' \in Switched /\ UNCHANGED at
    /\ UNCHANGED <<state, event, blocked, irqVars, ioVars, mgmt, contextVars>>

(* dm_emulate_io_complete(), then the register and the ELR of the guest    *)
(* are written by handle_mmio_abort().                                     *)
RequestDone ==
    /\ OnPcpu /\ at.pc = "done" /\ at.exit = "mmio"
    /\ slot' = IF slot.state = "COMPLETE" THEN FreeSlot ELSE slot
    /\ regs' = at.instance
    /\ Goto("exit")
    /\ UNCHANGED <<state, thr, event, blocked, irqVars, dm, polling, mgmt,
                   instance, el1, torn>>

(* The exits that take the VM's lock: PSCI CPU_ON, and one that fails.     *)
LockingExit(exit) ==
    /\ InGuest
    /\ Trap("lock", exit)
    /\ UNCHANGED <<state, thr, event, blocked, irqVars, ioVars, mgmt, instance, el1, torn>>

\* no operation of the management holds vm_state_lock
LockFree == mgmt \in {"running", "paused", "created"}

\* the vCPU has the lock: dispatch_vcpu_trap() pauses a vCPU whose exit
\* failed; CPU_ON launches another vCPU and writes the result register
ExitLocked ==
    /\ OnPcpu /\ at.pc = "lock" /\ LockFree
    /\ IF at.exit = "fault"
       THEN state' = "PAUSED" /\ thr' = sleep_thread(thr)
       ELSE UNCHANGED <<state, thr>>
    /\ Goto("exit")
    /\ UNCHANGED <<event, blocked, irqVars, ioVars, mgmt, contextVars>>

\* an exit for a physical interrupt
InterruptExit ==
    /\ InGuest
    /\ Trap("exit", "none")
    /\ UNCHANGED <<state, thr, event, blocked, irqVars, ioVars, mgmt, instance, el1, torn>>

\* the guest takes its pending interrupt
GuestTakesIrq ==
    /\ InGuest /\ irq
    /\ irq' = FALSE
    /\ UNCHANGED <<threadVars, req, source, ioVars, mgmt, contextVars>>

(* schedule_without_guest_resume(): a vCPU that is not running or is to    *)
(* block calls schedule(), once; another one may.                          *)
ExitSchedule ==
    /\ OnPcpu /\ at.pc = "exit"
    /\ thr' \in Switched
    /\ Goto("resume")
    /\ UNCHANGED <<state, event, blocked, irqVars, ioVars, mgmt, contextVars>>

\* the requests are processed and the saved context restored
Enter ==
    /\ req' = FALSE /\ el1' = regs
    /\ at' = [pc |-> "guest", exit |-> "none", instance |-> 0]

(* Mutant: the frame of the exit is restored, not the saved context.       *)
MutResumeOwnFrame ==
    /\ OnPcpu /\ at.pc = "resume"
    /\ req' = FALSE /\ el1' = at.instance
    /\ at' = [pc |-> "guest", exit |-> "none", instance |-> 0]
    /\ UNCHANGED <<state, thr, event, blocked, irq, source, ioVars, mgmt, instance, regs, torn>>

\* the end of the exit path
Resume ==
    /\ OnPcpu /\ at.pc = "resume"
    /\ Enter
    /\ UNCHANGED <<state, thr, event, blocked, irq, source, ioVars, mgmt, instance, regs, torn>>

\* arch_vcpu_thread(): a vCPU that is not running sleeps
VcpuThread ==
    /\ OnPcpu /\ at.pc = "loop"
    /\ \/ /\ state = "RUNNING"
          /\ Enter
          /\ UNCHANGED thr
       \/ /\ state # "RUNNING"
          /\ thr' = sleep_thread(thr)
          /\ Goto("loop_schedule")
          /\ UNCHANGED <<req, el1>>
    /\ UNCHANGED <<state, event, blocked, irq, source, ioVars, mgmt, instance, regs, torn>>

VcpuThreadSchedule ==
    /\ OnPcpu /\ at.pc = "loop_schedule"
    /\ thr' \in Switched
    /\ Goto("loop")
    /\ UNCHANGED <<state, event, blocked, irqVars, ioVars, mgmt, contextVars>>

-----------------------------------------------------------------------------
(* The world around it.                                                    *)

\* an injector makes an interrupt pending under the vGIC's lock
Inject ==
    /\ source = "none"
    /\ irq' = TRUE /\ source' = "request"
    /\ UNCHANGED <<threadVars, req, ioVars, mgmt, contextVars>>

\* vcpu_make_request()
InjectRequest ==
    /\ source = "request"
    /\ req' = TRUE /\ source' = "signal"
    /\ UNCHANGED <<threadVars, irq, ioVars, mgmt, contextVars>>

InjectSignal ==
    /\ source = "signal"
    /\ signal_event("VIRQ")
    /\ source' = "none"
    /\ UNCHANGED <<state, at, blocked, irq, req, ioVars, mgmt, contextVars>>

\* the device model takes a request, answers it in the slot, and notifies
DmTake ==
    /\ dm.pc = "idle" /\ slot.state = "PENDING"
    /\ slot' = [slot EXCEPT !.state = "PROCESSING"]
    /\ dm' = [pc |-> "work", of |-> slot.of]
    /\ UNCHANGED <<threadVars, irqVars, polling, mgmt, contextVars>>

DmComplete ==
    /\ dm.pc = "work"
    /\ slot' = [state |-> "COMPLETE", of |-> dm.of]
    /\ dm' = [dm EXCEPT !.pc = "notify"]
    /\ UNCHANGED <<threadVars, irqVars, polling, mgmt, contextVars>>

\* hcall_notify_ioreq_finish(), under the VM's lock
NotifyFinish ==
    /\ dm.pc = "notify" /\ LockFree
    /\ IF polling THEN UNCHANGED <<event, thr>> ELSE signal_event("IOREQ")
    /\ dm' = [pc |-> "idle", of |-> 0]
    /\ UNCHANGED <<state, at, blocked, irqVars, slot, polling, mgmt, contextVars>>

-----------------------------------------------------------------------------
(* Management of the VM, under its lock.                                   *)

\* vcpu_pause() claims the state ...
PauseVm ==
    /\ mgmt = "running"
    /\ state' = "PAUSED"
    /\ mgmt' = IF state = "RUNNING" THEN "sleep_wait" ELSE "sleep"
    /\ UNCHANGED <<thr, at, event, blocked, irqVars, ioVars, contextVars>>

\* ... and removes the thread from the scheduler
PauseSleep ==
    /\ mgmt \in {"sleep", "sleep_wait"}
    /\ thr' = sleep_thread(thr)
    /\ mgmt' = IF mgmt = "sleep" THEN "paused" ELSE "wait"
    /\ UNCHANGED <<state, at, event, blocked, irqVars, ioVars, contextVars>>

IsVcpuPaused == state = "PAUSED" /\ thr = "BLOCKED"

\* pause_vcpu_sync() has seen it stopped
PauseDone ==
    /\ mgmt = "wait" /\ IsVcpuPaused
    /\ mgmt' = "paused"
    /\ UNCHANGED <<threadVars, irqVars, ioVars, contextVars>>

\* reset_vm(): reset_thread_data() refuses a thread that is not blocked
ResetScheduler ==
    /\ mgmt = "paused" /\ thr = "BLOCKED" /\ instance < MaxInstance
    /\ mgmt' = "reset_devices"
    /\ UNCHANGED <<threadVars, irqVars, ioVars, contextVars>>

RequestOpen == slot.state # "FREE" \/ dm.pc # "idle"

\* arch_reset_vm(): I/O slots and vGIC
ResetDevices ==
    /\ mgmt = "reset_devices"
    /\ slot' = FreeSlot /\ irq' = FALSE
    /\ torn' = (torn \/ RequestOpen)
    /\ mgmt' = "reset_vcpu"
    /\ UNCHANGED <<threadVars, req, source, dm, polling, instance, regs, el1>>

\* reset_vcpu(): state, requests and events ...
ResetVcpu ==
    /\ mgmt = "reset_vcpu"
    /\ state' = "INIT" /\ req' = FALSE
    /\ event' = [e \in Events |-> NoEvent]
    /\ mgmt' = "reset_arch"
    /\ UNCHANGED <<thr, at, blocked, irq, source, ioVars, contextVars>>

\* ... and arch_reset_vcpu()
ArchResetVcpu ==
    /\ mgmt = "reset_arch"
    /\ instance' = instance + 1 /\ regs' = instance + 1
    /\ blocked' = FALSE
    /\ torn' = (torn \/ RequestOpen \/ at.pc \notin {"loop", "resume"})
    /\ mgmt' = "created"
    /\ UNCHANGED <<state, thr, at, event, irqVars, ioVars, el1>>

\* start_vm(): arch_vm_prepare_bsp() and launch_vcpu() up to its wake
StartVm ==
    /\ mgmt = "created" /\ state = "INIT"
    /\ regs' = instance
    /\ state' = "RUNNING"
    /\ mgmt' = "launch"
    /\ UNCHANGED <<thr, at, event, blocked, irqVars, ioVars, instance, el1, torn>>

LaunchWake ==
    /\ mgmt = "launch"
    /\ thr' = wake_thread(thr)
    /\ mgmt' = "running"
    /\ UNCHANGED <<state, at, event, blocked, irqVars, ioVars, contextVars>>

-----------------------------------------------------------------------------
Exit ==
    \/ \E exit \in {"standby", "powerdown"} : CpuSuspend(exit)
    \/ \E exit \in {"cpu_on", "fault"} : LockingExit(exit)
    \/ InsertRequest
    \/ InterruptExit

ThreadStep ==
    \/ WaitEvent \/ WaitYield \/ WaitRecheck
    \/ CpuSuspendTest \/ CpuSuspendDone \/ PollRequest \/ RequestDone \/ ExitLocked
    \/ ExitSchedule \/ Resume \/ VcpuThread \/ VcpuThreadSchedule

DmStep == DmTake \/ DmComplete \/ NotifyFinish
SourceStep == InjectRequest \/ InjectSignal
ResetStep == ResetDevices \/ ResetVcpu \/ ArchResetVcpu
MgmtStep == PauseSleep \/ PauseDone \/ ResetStep \/ LaunchWake

Next ==
    \/ Dispatch \/ Exit \/ GuestTakesIrq \/ ThreadStep
    \/ Inject \/ SourceStep \/ DmStep
    \/ PauseVm \/ ResetScheduler \/ StartVm \/ MgmtStep

Spec == Init /\ [][Next]_vars

(* A thread on its pCPU runs, a runnable one is picked, a guest that is to *)
(* block takes the SGI sent to it, the device model answers, and what an   *)
(* injector or the management has begun ends.  The VM's lock is a ticket   *)
(* lock, but with one waiter at a time weak fairness is all it gives here. *)
Fairness ==
    /\ WF_vars(Dispatch) /\ WF_vars(ThreadStep)
    /\ WF_vars(thr = "BLOCKING" /\ InterruptExit)
    /\ WF_vars(SourceStep) /\ WF_vars(DmStep) /\ WF_vars(MgmtStep)

FairSpec == Spec /\ Fairness

-----------------------------------------------------------------------------
AtRecord == [pc : {"loop", "loop_schedule", "guest", "test", "wait", "yield", "recheck",
                   "poll", "lock", "done", "exit", "resume"},
             exit : Exits, instance : 0..MaxInstance]
EventRecord == [set : BOOLEAN, waiting : BOOLEAN]
SlotRecord == [state : {"FREE", "PENDING", "PROCESSING", "COMPLETE"}, of : 0..MaxInstance]
DmRecord == [pc : {"idle", "work", "notify"}, of : 0..MaxInstance]

(* Every variable is in its range.                                         *)
TypeOK ==
    /\ state \in {"INIT", "RUNNING", "PAUSED"}
    /\ thr \in {"BLOCKED", "RUNNABLE", "RUNNING", "BLOCKING"}
    /\ at \in AtRecord
    /\ event \in [Events -> EventRecord]
    /\ slot \in SlotRecord
    /\ dm \in DmRecord
    /\ source \in {"none", "request", "signal"}
    /\ mgmt \in {"created", "launch", "running", "sleep", "sleep_wait", "wait", "paused",
                 "reset_devices", "reset_vcpu", "reset_arch"}
    /\ blocked \in BOOLEAN /\ irq \in BOOLEAN /\ req \in BOOLEAN
    /\ polling \in BOOLEAN /\ torn \in BOOLEAN
    /\ instance \in 0..MaxInstance /\ regs \in 0..MaxInstance /\ el1 \in 0..MaxInstance

Waiting == at.pc \in {"wait", "yield", "recheck"}

(* An interrupt that is pending when a vCPU waits in CPU_SUSPEND, made so  *)
(* before, between or after reset_event(), the test of the vGIC and the    *)
(* sleep, brings it back, unless the vCPU is paused or was reset there.    *)
WakeNotLost ==
    Waiting /\ EventOf(at.exit) = "VIRQ" /\ irq ~> ~Waiting \/ state # "RUNNING" \/ torn

(* The wait for an I/O request ends with the answer to that request in the *)
(* slot: no notification of an earlier one ends it, and none comes before  *)
(* the answer.                                                             *)
Answered ==
    at.pc = "done" /\ at.exit = "mmio" /\ state = "RUNNING" /\ ~torn
        => slot = [state |-> "COMPLETE", of |-> instance]

(* A vCPU that waits or polls for an I/O request returns to its guest when *)
(* the device model has answered, unless it is paused or reset meanwhile.  *)
RequestReturns ==
    (Waiting \/ at.pc = "poll") /\ at.exit = "mmio"
        ~> at.pc = "guest" \/ state # "RUNNING" \/ torn

(* A vCPU whose thread was between two exits, or had never run, when it    *)
(* was reset enters the guest with the context reset_vcpu() and            *)
(* arch_vm_prepare_bsp() built, although its thread resumes on the stack   *)
(* of the old exit.                                                        *)
BootsClean == state = "RUNNING" /\ at.pc = "guest" /\ ~torn => el1 = instance

(* A vCPU that is_vcpu_paused() has found stopped stays off its pCPU until *)
(* it is launched, if it was not stopped inside an event wait.             *)
StopHolds ==
    [][IsVcpuPaused /\ ~Waiting /\ state' = "PAUSED" => thr' = "BLOCKED"]_vars

(* A launched vCPU never executes what belongs to an instance of its guest *)
(* before the reset.                                                       *)
OwnContext == state = "RUNNING" /\ at.pc = "guest" => el1 = instance

(* pause_vm() returns, except in two cases: the vCPU it waits for is       *)
(* itself waiting for the VM's lock, which pause_vm() holds; or a signal   *)
(* woke it out of an event wait after it had been told to sleep.           *)
PauseReturns ==
    mgmt = "wait" ~> mgmt # "wait" \/ at.pc = "lock" \/ thr \in {"RUNNING", "RUNNABLE"}
=============================================================================
