--------------------------- MODULE VcpuWaitProofs ---------------------------
(***************************************************************************)
(* Theorems about VcpuWait, for any number of resets of the VM.            *)
(*                                                                         *)
(* The argument.  waiting_thread is set only by a thread that sleeps in    *)
(* wait_event() for that event (WaitInv), so a signal wakes nobody else.   *)
(* A request to the device model and the wait for it move in step          *)
(* (RequestInv), and every context that can still be restored belongs to   *)
(* the current instance (ContextInv).  Both break when the VM is reset     *)
(* around an exit under way, which is what torn records; the window from   *)
(* reset_vcpu(), which clears the events, to arch_reset_vcpu(), where torn *)
(* is decided, is left out of them.                                        *)
(***************************************************************************)
EXTENDS VcpuWait, TLAPS

Sleeping == at.pc \in {"yield", "recheck"}
Mmio == at.exit = "mmio"
Intact == ~torn /\ mgmt # "reset_arch"

(* reset_vm() holds the VM's lock over its steps, start_vm() over the      *)
(* launch.                                                                 *)
MgmtInv ==
    /\ mgmt \in {"reset_devices", "reset_vcpu", "reset_arch"} => instance < MaxInstance
    /\ mgmt = "launch" => state = "RUNNING"
    /\ mgmt = "reset_arch" => state = "INIT" /\ ~event["IOREQ"].set

ExitInv ==
    /\ at.pc = "test" => ~Mmio
    /\ Waiting /\ Mmio => ~polling
    /\ at.pc = "poll" => polling

WaitInv ==
    /\ \A e \in Events : event[e].waiting => Sleeping /\ EventOf(at.exit) = e
    /\ Intact /\ Sleeping => event[EventOf(at.exit)].waiting

ContextInv ==
    ~torn => /\ regs = instance
             /\ at.pc = "guest" => el1 = instance
             /\ at.pc \notin {"guest", "loop", "loop_schedule", "resume"}
                    => at.instance = instance

(* The slot, the device model and the event while a vCPU waits ...         *)
WaitedFor ==
    /\ slot.of = instance
    /\ slot.state = "PENDING" => dm.pc = "idle" /\ ~event["IOREQ"].set
    /\ slot.state = "PROCESSING" => dm.pc = "work" /\ ~event["IOREQ"].set
    /\ slot.state = "COMPLETE" => \/ dm.pc = "notify" /\ ~event["IOREQ"].set
                                  \/ dm.pc = "idle" /\ event["IOREQ"].set
    /\ slot.state # "FREE"
    /\ dm.pc # "idle" => dm.of = instance

(* ... while it polls: the notification of the request before may be late  *)
PolledFor ==
    /\ slot.of = instance
    /\ slot.state \in {"PENDING", "COMPLETE"} => dm.pc # "work"
    /\ slot.state = "PROCESSING" => dm.pc = "work" /\ dm.of = instance
    /\ slot.state # "FREE"

(* ... and when it does neither.                                           *)
Quiet == dm.pc # "work" /\ (~polling => dm.pc = "idle" /\ ~event["IOREQ"].set)

RequestInv ==
    Intact =>
        /\ Mmio /\ Waiting => WaitedFor
        /\ Mmio /\ at.pc = "poll" => PolledFor
        /\ Mmio /\ at.pc = "done" => slot.state = "COMPLETE" /\ slot.of = instance /\ Quiet
        /\ ~(Mmio /\ (Waiting \/ at.pc \in {"poll", "done"})) => slot.state = "FREE" /\
            Quiet

IInv == TypeOK /\ MgmtInv /\ ExitInv /\ WaitInv /\ ContextInv /\ RequestInv

-----------------------------------------------------------------------------
(* Setting an event changes nothing else of it.                            *)
LEMMA EventSet ==
    ASSUME NEW f \in [Events -> EventRecord], NEW e \in Events
    PROVE  [f EXCEPT ![e].set = TRUE] \in [Events -> EventRecord]
<1>1. f[e] \in EventRecord
    OBVIOUS
<1>2. [f[e] EXCEPT !.set = TRUE] \in EventRecord
    BY <1>1, Zenon DEF EventRecord
<1> QED BY <1>2

(* Every action keeps the variables in their ranges.                       *)
LEMMA TypeStep ==
    ASSUME TypeOK, MgmtInv, [Next]_vars PROVE TypeOK'
<1>1. CASE Dispatch
    BY <1>1, VcpuWaitConstants DEF Dispatch, threadVars, irqVars, ioVars, contextVars,
        TypeOK, MgmtInv
<1>2. ASSUME NEW exit \in {"standby", "powerdown"}, CpuSuspend(exit) PROVE TypeOK'
    BY <1>2, VcpuWaitConstants DEF CpuSuspend, InGuest, OnPcpu, Trap, NoEvent, threadVars,
        irqVars, ioVars, contextVars, TypeOK, MgmtInv, AtRecord, EventRecord, Events, Exits
<1>3. ASSUME NEW exit \in {"cpu_on", "fault"}, LockingExit(exit) PROVE TypeOK'
    BY <1>3, VcpuWaitConstants DEF LockingExit, InGuest, OnPcpu, Trap, threadVars, irqVars,
        ioVars, contextVars, TypeOK, MgmtInv, AtRecord, Exits
<1>4. CASE InsertRequest
    BY <1>4, VcpuWaitConstants DEF InsertRequest, InGuest, OnPcpu, Trap, threadVars,
        irqVars, ioVars, contextVars, TypeOK, MgmtInv, AtRecord, SlotRecord, Exits
<1>5. CASE InterruptExit
    BY <1>5, VcpuWaitConstants DEF InterruptExit, InGuest, OnPcpu, Trap, threadVars,
        irqVars, ioVars, contextVars, TypeOK, MgmtInv, AtRecord, Exits
<1>6. CASE GuestTakesIrq
    <2>1. /\ irq' \in BOOLEAN
          /\ UNCHANGED <<state, thr, at, event, blocked>>
          /\ UNCHANGED <<req, source, slot, dm, polling, mgmt>>
          /\ UNCHANGED <<instance, regs, el1, torn>>
        BY <1>6, Zenon DEF GuestTakesIrq, threadVars, ioVars, contextVars
    <2> QED
        BY <2>1 DEF TypeOK
<1>7. CASE WaitEvent
    <2>1. at' \in AtRecord
        BY <1>7 DEF WaitEvent, WaitLoop, Goto, TypeOK, AtRecord
    <2>2. thr' \in {"BLOCKED", "RUNNABLE", "RUNNING", "BLOCKING"}
        BY <1>7 DEF WaitEvent, WaitLoop, sleep_thread, TypeOK
    <2>3. event' \in [Events -> EventRecord]
        <3>1. EventOf(at.exit) \in Events
            BY DEF EventOf, Events
        <3>2. ASSUME NEW e \in Events
              PROVE  /\ [event EXCEPT ![e].waiting = TRUE] \in [Events -> EventRecord]
                     /\ [event EXCEPT ![e] = NoEvent] \in [Events -> EventRecord]
            BY Zenon DEF TypeOK, EventRecord, NoEvent
        <3> QED
            BY <1>7, <3>1, <3>2 DEF WaitEvent, WaitLoop
    <2> QED
        BY <1>7, <2>1, <2>2, <2>3 DEF WaitEvent, TypeOK, irqVars, ioVars, contextVars
<1>8. CASE WaitYield
    BY <1>8, VcpuWaitConstants DEF WaitYield, OnPcpu, Switched, Goto, threadVars, irqVars,
        ioVars, contextVars, TypeOK, MgmtInv, AtRecord
<1>9. CASE WaitRecheck
    <2>1. at' \in AtRecord
        BY <1>9 DEF WaitRecheck, WaitLoop, Goto, TypeOK, AtRecord
    <2>2. thr' \in {"BLOCKED", "RUNNABLE", "RUNNING", "BLOCKING"}
        BY <1>9 DEF WaitRecheck, WaitLoop, sleep_thread, TypeOK
    <2>3. event' \in [Events -> EventRecord]
        <3>1. EventOf(at.exit) \in Events
            BY DEF EventOf, Events
        <3>2. ASSUME NEW e \in Events
              PROVE  /\ [event EXCEPT ![e].waiting = TRUE] \in [Events -> EventRecord]
                     /\ [event EXCEPT ![e] = NoEvent] \in [Events -> EventRecord]
            BY Zenon DEF TypeOK, EventRecord, NoEvent
        <3> QED
            BY <1>9, <3>1, <3>2 DEF WaitRecheck, WaitLoop
    <2> QED
        BY <1>9, <2>1, <2>2, <2>3 DEF WaitRecheck, TypeOK, irqVars, ioVars, contextVars
<1>10. CASE CpuSuspendTest
    BY <1>10, VcpuWaitConstants DEF CpuSuspendTest, OnPcpu, Goto, threadVars, irqVars,
        ioVars, contextVars, TypeOK, MgmtInv, AtRecord
<1>11. CASE CpuSuspendDone
    <2>1. at' \in AtRecord /\ regs' \in 0..MaxInstance
        BY <1>11 DEF CpuSuspendDone, Goto, TypeOK, AtRecord
    <2>2. blocked' \in BOOLEAN
        BY <1>11, Zenon DEF CpuSuspendDone
    <2> QED
        BY <1>11, <2>1, <2>2 DEF CpuSuspendDone, TypeOK, irqVars, ioVars
<1>12. CASE PollRequest
    BY <1>12, VcpuWaitConstants DEF PollRequest, OnPcpu, Switched, Goto, threadVars,
        irqVars, ioVars, contextVars, TypeOK, MgmtInv, AtRecord
<1>13. CASE RequestDone
    BY <1>13, VcpuWaitConstants DEF RequestDone, OnPcpu, FreeSlot, Goto, threadVars,
        irqVars, ioVars, contextVars, TypeOK, MgmtInv, AtRecord, SlotRecord
<1>14. CASE ExitLocked
    BY <1>14, VcpuWaitConstants DEF ExitLocked, OnPcpu, LockFree, sleep_thread, Goto,
        threadVars, irqVars, ioVars, contextVars, TypeOK, MgmtInv, AtRecord
<1>15. CASE ExitSchedule
    BY <1>15, VcpuWaitConstants DEF ExitSchedule, OnPcpu, Switched, Goto, threadVars,
        irqVars, ioVars, contextVars, TypeOK, MgmtInv, AtRecord
<1>16. CASE Resume
    <2>1. at' \in AtRecord
        BY <1>16, VcpuWaitConstants DEF Resume, Enter, AtRecord, Exits
    <2>2. req' \in BOOLEAN
        BY <1>16, Zenon DEF Resume, Enter
    <2> QED
        BY <1>16, <2>1, <2>2 DEF Resume, Enter, TypeOK, ioVars
<1>17. CASE VcpuThread
    <2>1. at' \in AtRecord
        BY <1>17, VcpuWaitConstants DEF VcpuThread, Enter, Goto, TypeOK, AtRecord, Exits
    <2>2. thr' \in {"BLOCKED", "RUNNABLE", "RUNNING", "BLOCKING"}
        BY <1>17 DEF VcpuThread, sleep_thread, TypeOK
    <2>3. req' \in BOOLEAN /\ el1' \in 0..MaxInstance
        BY <1>17, Zenon DEF VcpuThread, Enter, TypeOK
    <2> QED
        BY <1>17, <2>1, <2>2, <2>3 DEF VcpuThread, TypeOK, ioVars
<1>18. CASE VcpuThreadSchedule
    BY <1>18, VcpuWaitConstants DEF VcpuThreadSchedule, OnPcpu, Switched, Goto, threadVars,
        irqVars, ioVars, contextVars, TypeOK, MgmtInv, AtRecord
<1>19. CASE Inject
    BY <1>19, VcpuWaitConstants DEF Inject, threadVars, irqVars, ioVars, contextVars,
        TypeOK, MgmtInv
<1>20. CASE InjectRequest
    BY <1>20, VcpuWaitConstants DEF InjectRequest, threadVars, irqVars, ioVars, contextVars,
        TypeOK, MgmtInv
<1>21. CASE InjectSignal
    <2>1. event' \in [Events -> EventRecord]
        BY <1>21, EventSet, Zenon DEF InjectSignal, signal_event, TypeOK, Events
    <2>2. thr' \in {"BLOCKED", "RUNNABLE", "RUNNING", "BLOCKING"}
        BY <1>21 DEF InjectSignal, signal_event, wake_thread, TypeOK
    <2>3. /\ source' = "none"
          /\ UNCHANGED <<state, at, blocked, irq, req, slot, dm, polling, mgmt, instance, regs,
                         el1, torn>>
        BY <1>21 DEF InjectSignal, ioVars, contextVars
    <2> QED
        BY <2>1, <2>2, <2>3, Zenon DEF TypeOK
<1>22. CASE DmTake
    BY <1>22, VcpuWaitConstants DEF DmTake, threadVars, irqVars, ioVars, contextVars,
        TypeOK, MgmtInv, SlotRecord, DmRecord
<1>23. CASE DmComplete
    BY <1>23, VcpuWaitConstants DEF DmComplete, threadVars, irqVars, ioVars, contextVars,
        TypeOK, MgmtInv, SlotRecord, DmRecord
<1>24. CASE NotifyFinish
    <2>1. event' \in [Events -> EventRecord]
        BY <1>24, EventSet, Zenon DEF NotifyFinish, signal_event, TypeOK, Events
    <2>2. dm' \in DmRecord
        BY <1>24, VcpuWaitConstants DEF NotifyFinish, DmRecord
    <2>3. thr' \in {"BLOCKED", "RUNNABLE", "RUNNING", "BLOCKING"}
        BY <1>24 DEF NotifyFinish, signal_event, wake_thread, TypeOK
    <2> QED
        BY <1>24, <2>1, <2>2, <2>3 DEF NotifyFinish, TypeOK, irqVars, contextVars
<1>25. CASE PauseVm
    BY <1>25, VcpuWaitConstants DEF PauseVm, threadVars, irqVars, ioVars, contextVars,
        TypeOK, MgmtInv
<1>26. CASE PauseSleep
    BY <1>26, VcpuWaitConstants DEF PauseSleep, sleep_thread, threadVars, irqVars, ioVars,
        contextVars, TypeOK, MgmtInv
<1>27. CASE PauseDone
    BY <1>27, VcpuWaitConstants DEF PauseDone, IsVcpuPaused, threadVars, irqVars, ioVars,
        contextVars, TypeOK, MgmtInv
<1>28. CASE ResetScheduler
    BY <1>28, VcpuWaitConstants DEF ResetScheduler, threadVars, irqVars, ioVars,
        contextVars, TypeOK, MgmtInv
<1>29. CASE ResetDevices
    <2>1. slot' \in SlotRecord
        BY <1>29, VcpuWaitConstants DEF ResetDevices, FreeSlot, SlotRecord
    <2>2. torn' \in BOOLEAN
        BY <1>29 DEF ResetDevices
    <2> QED
        BY <1>29, <2>1, <2>2, Zenon DEF ResetDevices, TypeOK, threadVars, irqVars, ioVars,
            contextVars
<1>30. CASE ResetVcpu
    BY <1>30, VcpuWaitConstants, Zenon DEF ResetVcpu, NoEvent, threadVars, irqVars, ioVars,
        contextVars, TypeOK, MgmtInv, EventRecord
<1>31. CASE ArchResetVcpu
    <2>1. instance + 1 \in 0..MaxInstance
        BY <1>31, VcpuWaitConstants DEF ArchResetVcpu, TypeOK, MgmtInv
    <2>2. torn' \in BOOLEAN
        BY <1>31 DEF ArchResetVcpu
    <2> QED
        BY <1>31, <2>1, <2>2, Zenon DEF ArchResetVcpu, TypeOK, threadVars, irqVars, ioVars,
            contextVars
<1>32. CASE StartVm
    BY <1>32, VcpuWaitConstants DEF StartVm, threadVars, irqVars, ioVars, contextVars,
        TypeOK, MgmtInv
<1>33. CASE LaunchWake
    BY <1>33, VcpuWaitConstants DEF LaunchWake, wake_thread, threadVars, irqVars, ioVars,
        contextVars, TypeOK, MgmtInv
<1>34. CASE UNCHANGED vars
    BY <1>34, VcpuWaitConstants DEF vars, threadVars, irqVars, ioVars, contextVars, TypeOK,
        MgmtInv
<1> QED
    BY <1>1, <1>2, <1>3, <1>4, <1>5, <1>6, <1>7, <1>8, <1>9, <1>10, <1>11, <1>12, <1>13,
        <1>14, <1>15, <1>16, <1>17, <1>18, <1>19, <1>20, <1>21, <1>22, <1>23, <1>24, <1>25,
        <1>26, <1>27, <1>28, <1>29, <1>30, <1>31, <1>32, <1>33, <1>34
    DEF Next, Exit, ThreadStep, SourceStep, DmStep, MgmtStep, ResetStep

(* The operations under the VM's lock exclude each other.                  *)
LEMMA MgmtStepKeeps ==
    ASSUME TypeOK, MgmtInv, [Next]_vars PROVE MgmtInv'
<1> USE VcpuWaitConstants DEF threadVars, irqVars, ioVars, contextVars, MgmtInv, TypeOK,
        EventRecord, Events
<1>1. CASE Dispatch
    BY <1>1 DEF Dispatch
<1>2. ASSUME NEW exit \in {"standby", "powerdown"}, CpuSuspend(exit) PROVE MgmtInv'
    BY <1>2 DEF CpuSuspend, InGuest, OnPcpu, Trap, NoEvent
<1>3. ASSUME NEW exit \in {"cpu_on", "fault"}, LockingExit(exit) PROVE MgmtInv'
    BY <1>3 DEF LockingExit, InGuest, OnPcpu, Trap
<1>4. CASE InsertRequest
    BY <1>4 DEF InsertRequest, InGuest, OnPcpu, Trap
<1>5. CASE InterruptExit
    BY <1>5 DEF InterruptExit, InGuest, OnPcpu, Trap
<1>6. CASE GuestTakesIrq
    BY <1>6 DEF GuestTakesIrq, InGuest, OnPcpu
<1>7. CASE WaitEvent
    BY <1>7 DEF WaitEvent, OnPcpu, WaitLoop, sleep_thread, Goto, NoEvent, EventOf
<1>8. CASE WaitYield
    BY <1>8 DEF WaitYield, OnPcpu, Switched, Goto
<1>9. CASE WaitRecheck
    BY <1>9 DEF WaitRecheck, OnPcpu, WaitLoop, sleep_thread, Goto, NoEvent, EventOf
<1>10. CASE CpuSuspendTest
    BY <1>10 DEF CpuSuspendTest, OnPcpu, Goto
<1>11. CASE CpuSuspendDone
    BY <1>11 DEF CpuSuspendDone, OnPcpu, Goto
<1>12. CASE PollRequest
    BY <1>12 DEF PollRequest, OnPcpu, Switched, Goto
<1>13. CASE RequestDone
    BY <1>13 DEF RequestDone, OnPcpu, FreeSlot, Goto
<1>14. CASE ExitLocked
    BY <1>14 DEF ExitLocked, OnPcpu, LockFree, sleep_thread, Goto
<1>15. CASE ExitSchedule
    BY <1>15 DEF ExitSchedule, OnPcpu, Switched, Goto
<1>16. CASE Resume
    BY <1>16 DEF Resume, OnPcpu, Enter
<1>17. CASE VcpuThread
    BY <1>17 DEF VcpuThread, OnPcpu, Enter, sleep_thread, Goto
<1>18. CASE VcpuThreadSchedule
    BY <1>18 DEF VcpuThreadSchedule, OnPcpu, Switched, Goto
<1>19. CASE Inject
    BY <1>19 DEF Inject
<1>20. CASE InjectRequest
    BY <1>20 DEF InjectRequest
<1>21. CASE InjectSignal
    BY <1>21 DEF InjectSignal, signal_event, wake_thread
<1>22. CASE DmTake
    BY <1>22 DEF DmTake
<1>23. CASE DmComplete
    BY <1>23 DEF DmComplete
<1>24. CASE NotifyFinish
    BY <1>24 DEF NotifyFinish, LockFree, signal_event, wake_thread
<1>25. CASE PauseVm
    BY <1>25 DEF PauseVm
<1>26. CASE PauseSleep
    BY <1>26 DEF PauseSleep, sleep_thread
<1>27. CASE PauseDone
    BY <1>27 DEF PauseDone, IsVcpuPaused
<1>28. CASE ResetScheduler
    BY <1>28 DEF ResetScheduler
<1>29. CASE ResetDevices
    BY <1>29 DEF ResetDevices, FreeSlot, RequestOpen
<1>30. CASE ResetVcpu
    BY <1>30 DEF ResetVcpu, NoEvent
<1>31. CASE ArchResetVcpu
    BY <1>31 DEF ArchResetVcpu, RequestOpen
<1>32. CASE StartVm
    BY <1>32 DEF StartVm
<1>33. CASE LaunchWake
    BY <1>33 DEF LaunchWake, wake_thread
<1>34. CASE UNCHANGED vars
    BY <1>34 DEF vars
<1> QED
    BY Zenon, <1>1, <1>2, <1>3, <1>4, <1>5, <1>6, <1>7, <1>8, <1>9, <1>10, <1>11, <1>12, <1>13,
        <1>14, <1>15, <1>16, <1>17, <1>18, <1>19, <1>20, <1>21, <1>22, <1>23, <1>24, <1>25,
        <1>26, <1>27, <1>28, <1>29, <1>30, <1>31, <1>32, <1>33, <1>34
    DEF Next, Exit, ThreadStep, SourceStep, DmStep, MgmtStep, ResetStep

(* An exit is handled by the code of its kind.                             *)
LEMMA ExitStep ==
    ASSUME TypeOK, ExitInv, [Next]_vars PROVE ExitInv'
<1> USE DEF threadVars, irqVars, ioVars, contextVars, ExitInv, Mmio, Waiting, TypeOK,
        AtRecord
<1>1. CASE Dispatch
    BY <1>1 DEF Dispatch
<1>2. ASSUME NEW exit \in {"standby", "powerdown"}, CpuSuspend(exit) PROVE ExitInv'
    BY <1>2 DEF CpuSuspend, InGuest, OnPcpu, Trap, NoEvent
<1>3. ASSUME NEW exit \in {"cpu_on", "fault"}, LockingExit(exit) PROVE ExitInv'
    BY <1>3 DEF LockingExit, InGuest, OnPcpu, Trap
<1>4. CASE InsertRequest
    BY <1>4 DEF InsertRequest, InGuest, OnPcpu, Trap
<1>5. CASE InterruptExit
    BY <1>5 DEF InterruptExit, InGuest, OnPcpu, Trap
<1>6. CASE GuestTakesIrq
    BY <1>6 DEF GuestTakesIrq, InGuest, OnPcpu
<1>7. CASE WaitEvent
    BY <1>7 DEF WaitEvent, OnPcpu, WaitLoop, sleep_thread, Goto, NoEvent, EventOf
<1>8. CASE WaitYield
    BY <1>8 DEF WaitYield, OnPcpu, Switched, Goto
<1>9. CASE WaitRecheck
    BY <1>9 DEF WaitRecheck, OnPcpu, WaitLoop, sleep_thread, Goto, NoEvent, EventOf
<1>10. CASE CpuSuspendTest
    BY <1>10 DEF CpuSuspendTest, OnPcpu, Goto
<1>11. CASE CpuSuspendDone
    BY <1>11 DEF CpuSuspendDone, OnPcpu, Goto
<1>12. CASE PollRequest
    BY <1>12 DEF PollRequest, OnPcpu, Switched, Goto
<1>13. CASE RequestDone
    BY <1>13 DEF RequestDone, OnPcpu, FreeSlot, Goto
<1>14. CASE ExitLocked
    BY <1>14 DEF ExitLocked, OnPcpu, LockFree, sleep_thread, Goto
<1>15. CASE ExitSchedule
    BY <1>15 DEF ExitSchedule, OnPcpu, Switched, Goto
<1>16. CASE Resume
    BY <1>16 DEF Resume, OnPcpu, Enter
<1>17. CASE VcpuThread
    BY <1>17 DEF VcpuThread, OnPcpu, Enter, sleep_thread, Goto
<1>18. CASE VcpuThreadSchedule
    BY <1>18 DEF VcpuThreadSchedule, OnPcpu, Switched, Goto
<1>19. CASE Inject
    BY <1>19 DEF Inject
<1>20. CASE InjectRequest
    BY <1>20 DEF InjectRequest
<1>21. CASE InjectSignal
    BY <1>21 DEF InjectSignal, signal_event, wake_thread
<1>22. CASE DmTake
    BY <1>22 DEF DmTake
<1>23. CASE DmComplete
    BY <1>23 DEF DmComplete
<1>24. CASE NotifyFinish
    BY <1>24 DEF NotifyFinish, LockFree, signal_event, wake_thread
<1>25. CASE PauseVm
    BY <1>25 DEF PauseVm
<1>26. CASE PauseSleep
    BY <1>26 DEF PauseSleep, sleep_thread
<1>27. CASE PauseDone
    BY <1>27 DEF PauseDone, IsVcpuPaused
<1>28. CASE ResetScheduler
    BY <1>28 DEF ResetScheduler
<1>29. CASE ResetDevices
    BY <1>29 DEF ResetDevices, FreeSlot, RequestOpen
<1>30. CASE ResetVcpu
    BY <1>30 DEF ResetVcpu, NoEvent
<1>31. CASE ArchResetVcpu
    BY <1>31 DEF ArchResetVcpu, RequestOpen
<1>32. CASE StartVm
    BY <1>32 DEF StartVm
<1>33. CASE LaunchWake
    BY <1>33 DEF LaunchWake, wake_thread
<1>34. CASE UNCHANGED vars
    BY <1>34 DEF vars
<1> QED
    BY Zenon, <1>1, <1>2, <1>3, <1>4, <1>5, <1>6, <1>7, <1>8, <1>9, <1>10, <1>11, <1>12, <1>13,
        <1>14, <1>15, <1>16, <1>17, <1>18, <1>19, <1>20, <1>21, <1>22, <1>23, <1>24, <1>25,
        <1>26, <1>27, <1>28, <1>29, <1>30, <1>31, <1>32, <1>33, <1>34
    DEF Next, Exit, ThreadStep, SourceStep, DmStep, MgmtStep, ResetStep

(* waiting_thread is set just as long as the thread sleeps in the wait.    *)
LEMMA WaitStep ==
    ASSUME TypeOK, WaitInv, [Next]_vars PROVE WaitInv'
<1> USE DEF threadVars, irqVars, ioVars, contextVars, WaitInv, Intact, Sleeping,
        EventOf, TypeOK, AtRecord, EventRecord, Events
<1>1. CASE Dispatch
    BY <1>1 DEF Dispatch
<1>2. ASSUME NEW exit \in {"standby", "powerdown"}, CpuSuspend(exit) PROVE WaitInv'
    BY <1>2 DEF CpuSuspend, InGuest, OnPcpu, Trap, NoEvent
<1>3. ASSUME NEW exit \in {"cpu_on", "fault"}, LockingExit(exit) PROVE WaitInv'
    BY <1>3 DEF LockingExit, InGuest, OnPcpu, Trap
<1>4. CASE InsertRequest
    BY <1>4 DEF InsertRequest, InGuest, OnPcpu, Trap
<1>5. CASE InterruptExit
    BY <1>5 DEF InterruptExit, InGuest, OnPcpu, Trap
<1>6. CASE GuestTakesIrq
    BY <1>6 DEF GuestTakesIrq, InGuest, OnPcpu
<1>7. CASE WaitEvent
    BY <1>7 DEF WaitEvent, OnPcpu, WaitLoop, sleep_thread, Goto, NoEvent
<1>8. CASE WaitYield
    BY <1>8 DEF WaitYield, OnPcpu, Switched, Goto
<1>9. CASE WaitRecheck
    BY <1>9 DEF WaitRecheck, OnPcpu, WaitLoop, sleep_thread, Goto, NoEvent
<1>10. CASE CpuSuspendTest
    BY <1>10 DEF CpuSuspendTest, OnPcpu, Goto
<1>11. CASE CpuSuspendDone
    BY <1>11 DEF CpuSuspendDone, OnPcpu, Goto
<1>12. CASE PollRequest
    BY <1>12 DEF PollRequest, OnPcpu, Switched, Goto
<1>13. CASE RequestDone
    BY <1>13 DEF RequestDone, OnPcpu, FreeSlot, Goto
<1>14. CASE ExitLocked
    BY <1>14 DEF ExitLocked, OnPcpu, LockFree, sleep_thread, Goto
<1>15. CASE ExitSchedule
    BY <1>15 DEF ExitSchedule, OnPcpu, Switched, Goto
<1>16. CASE Resume
    BY <1>16 DEF Resume, OnPcpu, Enter
<1>17. CASE VcpuThread
    BY <1>17 DEF VcpuThread, OnPcpu, Enter, sleep_thread, Goto
<1>18. CASE VcpuThreadSchedule
    BY <1>18 DEF VcpuThreadSchedule, OnPcpu, Switched, Goto
<1>19. CASE Inject
    BY <1>19 DEF Inject
<1>20. CASE InjectRequest
    BY <1>20 DEF InjectRequest
<1>21. CASE InjectSignal
    BY <1>21 DEF InjectSignal, signal_event, wake_thread
<1>22. CASE DmTake
    BY <1>22 DEF DmTake
<1>23. CASE DmComplete
    BY <1>23 DEF DmComplete
<1>24. CASE NotifyFinish
    BY <1>24 DEF NotifyFinish, LockFree, signal_event, wake_thread
<1>25. CASE PauseVm
    BY <1>25 DEF PauseVm
<1>26. CASE PauseSleep
    BY <1>26 DEF PauseSleep, sleep_thread
<1>27. CASE PauseDone
    BY <1>27 DEF PauseDone, IsVcpuPaused
<1>28. CASE ResetScheduler
    BY <1>28 DEF ResetScheduler
<1>29. CASE ResetDevices
    BY <1>29 DEF ResetDevices, FreeSlot, RequestOpen
<1>30. CASE ResetVcpu
    BY <1>30 DEF ResetVcpu, NoEvent
<1>31. CASE ArchResetVcpu
    BY <1>31, Zenon DEF ArchResetVcpu, RequestOpen
<1>32. CASE StartVm
    BY <1>32 DEF StartVm
<1>33. CASE LaunchWake
    BY <1>33 DEF LaunchWake, wake_thread
<1>34. CASE UNCHANGED vars
    BY <1>34 DEF vars
<1> QED
    BY Zenon, <1>1, <1>2, <1>3, <1>4, <1>5, <1>6, <1>7, <1>8, <1>9, <1>10, <1>11, <1>12, <1>13,
        <1>14, <1>15, <1>16, <1>17, <1>18, <1>19, <1>20, <1>21, <1>22, <1>23, <1>24, <1>25,
        <1>26, <1>27, <1>28, <1>29, <1>30, <1>31, <1>32, <1>33, <1>34
    DEF Next, Exit, ThreadStep, SourceStep, DmStep, MgmtStep, ResetStep

(* What a vCPU that was not torn out of an exit will restore is its own.   *)
LEMMA ContextStep ==
    ASSUME TypeOK, ContextInv, [Next]_vars PROVE ContextInv'
<1> USE DEF threadVars, irqVars, ioVars, contextVars, ContextInv, TypeOK, AtRecord
<1>1. CASE Dispatch
    BY <1>1 DEF Dispatch
<1>2. ASSUME NEW exit \in {"standby", "powerdown"}, CpuSuspend(exit) PROVE ContextInv'
    BY <1>2 DEF CpuSuspend, InGuest, OnPcpu, Trap, NoEvent
<1>3. ASSUME NEW exit \in {"cpu_on", "fault"}, LockingExit(exit) PROVE ContextInv'
    BY <1>3 DEF LockingExit, InGuest, OnPcpu, Trap
<1>4. CASE InsertRequest
    BY <1>4 DEF InsertRequest, InGuest, OnPcpu, Trap
<1>5. CASE InterruptExit
    BY <1>5 DEF InterruptExit, InGuest, OnPcpu, Trap
<1>6. CASE GuestTakesIrq
    BY <1>6 DEF GuestTakesIrq, InGuest, OnPcpu
<1>7. CASE WaitEvent
    BY <1>7 DEF WaitEvent, OnPcpu, WaitLoop, sleep_thread, Goto, NoEvent, EventOf
<1>8. CASE WaitYield
    BY <1>8 DEF WaitYield, OnPcpu, Switched, Goto
<1>9. CASE WaitRecheck
    BY <1>9 DEF WaitRecheck, OnPcpu, WaitLoop, sleep_thread, Goto, NoEvent, EventOf
<1>10. CASE CpuSuspendTest
    BY <1>10 DEF CpuSuspendTest, OnPcpu, Goto
<1>11. CASE CpuSuspendDone
    BY <1>11 DEF CpuSuspendDone, OnPcpu, Goto
<1>12. CASE PollRequest
    BY <1>12 DEF PollRequest, OnPcpu, Switched, Goto
<1>13. CASE RequestDone
    BY <1>13 DEF RequestDone, OnPcpu, FreeSlot, Goto
<1>14. CASE ExitLocked
    BY <1>14 DEF ExitLocked, OnPcpu, LockFree, sleep_thread, Goto
<1>15. CASE ExitSchedule
    BY <1>15 DEF ExitSchedule, OnPcpu, Switched, Goto
<1>16. CASE Resume
    BY <1>16 DEF Resume, OnPcpu, Enter
<1>17. CASE VcpuThread
    BY <1>17 DEF VcpuThread, OnPcpu, Enter, sleep_thread, Goto
<1>18. CASE VcpuThreadSchedule
    BY <1>18 DEF VcpuThreadSchedule, OnPcpu, Switched, Goto
<1>19. CASE Inject
    BY <1>19 DEF Inject
<1>20. CASE InjectRequest
    BY <1>20 DEF InjectRequest
<1>21. CASE InjectSignal
    BY <1>21 DEF InjectSignal, signal_event, wake_thread
<1>22. CASE DmTake
    BY <1>22 DEF DmTake
<1>23. CASE DmComplete
    BY <1>23 DEF DmComplete
<1>24. CASE NotifyFinish
    BY <1>24 DEF NotifyFinish, LockFree, signal_event, wake_thread
<1>25. CASE PauseVm
    BY <1>25 DEF PauseVm
<1>26. CASE PauseSleep
    BY <1>26 DEF PauseSleep, sleep_thread
<1>27. CASE PauseDone
    BY <1>27 DEF PauseDone, IsVcpuPaused
<1>28. CASE ResetScheduler
    BY <1>28 DEF ResetScheduler
<1>29. CASE ResetDevices
    BY <1>29 DEF ResetDevices, FreeSlot, RequestOpen
<1>30. CASE ResetVcpu
    BY <1>30 DEF ResetVcpu, NoEvent
<1>31. CASE ArchResetVcpu
    BY <1>31, Zenon DEF ArchResetVcpu, RequestOpen
<1>32. CASE StartVm
    BY <1>32 DEF StartVm
<1>33. CASE LaunchWake
    BY <1>33 DEF LaunchWake, wake_thread
<1>34. CASE UNCHANGED vars
    BY <1>34 DEF vars
<1> QED
    BY Zenon, <1>1, <1>2, <1>3, <1>4, <1>5, <1>6, <1>7, <1>8, <1>9, <1>10, <1>11, <1>12, <1>13,
        <1>14, <1>15, <1>16, <1>17, <1>18, <1>19, <1>20, <1>21, <1>22, <1>23, <1>24, <1>25,
        <1>26, <1>27, <1>28, <1>29, <1>30, <1>31, <1>32, <1>33, <1>34
    DEF Next, Exit, ThreadStep, SourceStep, DmStep, MgmtStep, ResetStep

(* A request and the wait for it move in step.                             *)
LEMMA RequestStep ==
    ASSUME IInv, [Next]_vars PROVE RequestInv'
<1> USE DEF threadVars, irqVars, ioVars, contextVars, IInv, RequestInv, MgmtInv,
        ExitInv, WaitInv, Mmio, Intact, Sleeping, Waiting, WaitedFor, PolledFor, Quiet,
        EventOf, TypeOK, AtRecord, EventRecord, SlotRecord, DmRecord, Events
<1>1. CASE Dispatch
    BY <1>1 DEF Dispatch
<1>2. ASSUME NEW exit \in {"standby", "powerdown"}, CpuSuspend(exit) PROVE RequestInv'
    BY <1>2 DEF CpuSuspend, InGuest, OnPcpu, Trap, NoEvent
<1>3. ASSUME NEW exit \in {"cpu_on", "fault"}, LockingExit(exit) PROVE RequestInv'
    BY <1>3 DEF LockingExit, InGuest, OnPcpu, Trap
<1>4. CASE InsertRequest
    BY <1>4 DEF InsertRequest, InGuest, OnPcpu, Trap
<1>5. CASE InterruptExit
    BY <1>5 DEF InterruptExit, InGuest, OnPcpu, Trap
<1>6. CASE GuestTakesIrq
    BY <1>6 DEF GuestTakesIrq, InGuest, OnPcpu
<1>7. CASE WaitEvent
    BY <1>7 DEF WaitEvent, OnPcpu, WaitLoop, sleep_thread, Goto, NoEvent
<1>8. CASE WaitYield
    BY <1>8 DEF WaitYield, OnPcpu, Switched, Goto
<1>9. CASE WaitRecheck
    BY <1>9 DEF WaitRecheck, OnPcpu, WaitLoop, sleep_thread, Goto, NoEvent
<1>10. CASE CpuSuspendTest
    BY <1>10 DEF CpuSuspendTest, OnPcpu, Goto
<1>11. CASE CpuSuspendDone
    BY <1>11 DEF CpuSuspendDone, OnPcpu, Goto
<1>12. CASE PollRequest
    BY <1>12 DEF PollRequest, OnPcpu, Switched, Goto
<1>13. CASE RequestDone
    BY <1>13 DEF RequestDone, OnPcpu, FreeSlot, Goto
<1>14. CASE ExitLocked
    BY <1>14 DEF ExitLocked, OnPcpu, LockFree, sleep_thread, Goto
<1>15. CASE ExitSchedule
    BY <1>15 DEF ExitSchedule, OnPcpu, Switched, Goto
<1>16. CASE Resume
    BY <1>16 DEF Resume, OnPcpu, Enter
<1>17. CASE VcpuThread
    BY <1>17 DEF VcpuThread, OnPcpu, Enter, sleep_thread, Goto
<1>18. CASE VcpuThreadSchedule
    BY <1>18 DEF VcpuThreadSchedule, OnPcpu, Switched, Goto
<1>19. CASE Inject
    BY <1>19 DEF Inject
<1>20. CASE InjectRequest
    BY <1>20 DEF InjectRequest
<1>21. CASE InjectSignal
    BY <1>21 DEF InjectSignal, signal_event, wake_thread
<1>22. CASE DmTake
    BY <1>22 DEF DmTake
<1>23. CASE DmComplete
    BY <1>23 DEF DmComplete
<1>24. CASE NotifyFinish
    BY <1>24 DEF NotifyFinish, LockFree, signal_event, wake_thread
<1>25. CASE PauseVm
    BY <1>25 DEF PauseVm
<1>26. CASE PauseSleep
    BY <1>26 DEF PauseSleep, sleep_thread
<1>27. CASE PauseDone
    BY <1>27 DEF PauseDone, IsVcpuPaused
<1>28. CASE ResetScheduler
    BY <1>28 DEF ResetScheduler
<1>29. CASE ResetDevices
    BY <1>29, Zenon DEF ResetDevices, FreeSlot, RequestOpen
<1>30. CASE ResetVcpu
    BY <1>30 DEF ResetVcpu, NoEvent
<1>31. CASE ArchResetVcpu
    BY <1>31, Zenon DEF ArchResetVcpu, RequestOpen
<1>32. CASE StartVm
    BY <1>32 DEF StartVm
<1>33. CASE LaunchWake
    BY <1>33 DEF LaunchWake, wake_thread
<1>34. CASE UNCHANGED vars
    BY <1>34 DEF vars
<1> QED
    BY Zenon, <1>1, <1>2, <1>3, <1>4, <1>5, <1>6, <1>7, <1>8, <1>9, <1>10, <1>11, <1>12, <1>13,
        <1>14, <1>15, <1>16, <1>17, <1>18, <1>19, <1>20, <1>21, <1>22, <1>23, <1>24, <1>25,
        <1>26, <1>27, <1>28, <1>29, <1>30, <1>31, <1>32, <1>33, <1>34
    DEF Next, Exit, ThreadStep, SourceStep, DmStep, MgmtStep, ResetStep

(* The invariant holds when the VM has been created.                       *)
LEMMA Initially == Init => IInv
<1> SUFFICES ASSUME Init PROVE IInv
    OBVIOUS
<1>1. TypeOK
    <2>1. at \in AtRecord /\ slot \in SlotRecord /\ dm \in DmRecord
        BY VcpuWaitConstants DEF Init, AtRecord, SlotRecord, DmRecord, Exits, FreeSlot
    <2>2. event \in [Events -> EventRecord]
        BY DEF Init, EventRecord, NoEvent
    <2>3. /\ blocked \in BOOLEAN /\ irq \in BOOLEAN /\ req \in BOOLEAN
          /\ polling \in BOOLEAN /\ torn \in BOOLEAN
        BY Zenon DEF Init
    <2> QED
        BY <2>1, <2>2, <2>3, VcpuWaitConstants DEF Init, TypeOK
<1> QED
    BY <1>1 DEF Init, IInv, MgmtInv, ExitInv, WaitInv, ContextInv, RequestInv, Mmio,
        Waiting,
        Sleeping, Intact, Quiet, NoEvent, FreeSlot, Events

(* Whatever pause, reset and launch do to a vCPU thread in an exit, the    *)
(* invariant above holds: a waiting_thread is a sleeping thread, the slot, *)
(* the device model and the wait agree, and the context that will be       *)
(* restored is the current instance's, unless a reset was torn.            *)
THEOREM WaitInvariant == Spec => []IInv
<1>1. IInv /\ [Next]_vars => IInv'
    BY TypeStep, MgmtStepKeeps, ExitStep, WaitStep, ContextStep, RequestStep DEF IInv
<1> QED
    BY <1>1, Initially, PTL DEF Spec

(* acrn_insert_request() returns with the answer to its own request in the *)
(* slot, waiting or polling, however the notification, a pause and a reset *)
(* of the VM fall around it.                                               *)
THEOREM AnsweredHolds == Spec => []Answered
<1>1. IInv => Answered
    BY DEF IInv, TypeOK, SlotRecord, MgmtInv, RequestInv, Intact, Mmio, Answered
<1> QED
    BY <1>1, WaitInvariant, PTL

(* After any number of resets a vCPU that was reset between two exits, or  *)
(* before its first, enters the guest with the context of the instance     *)
(* launched last.                                                          *)
THEOREM BootsCleanHolds == Spec => []BootsClean
<1>1. IInv => BootsClean
    BY DEF IInv, ContextInv, BootsClean
<1> QED
    BY <1>1, WaitInvariant, PTL

(* No step of an injector, the device model, the management or the thread  *)
(* puts a vCPU back on its pCPU that is_vcpu_paused() has found stopped    *)
(* outside an event wait.                                                  *)
THEOREM StopHoldsAlways == Spec => StopHolds
<1>1. IInv /\ [Next]_vars
        => [IsVcpuPaused /\ ~Waiting /\ state' = "PAUSED" => thr' = "BLOCKED"]_vars
    <2> SUFFICES ASSUME IInv, [Next]_vars, thr = "BLOCKED", state = "PAUSED", ~Waiting,
                        state' = "PAUSED"
                 PROVE  thr' = "BLOCKED"
        BY DEF IsVcpuPaused
    <2>1. ~OnPcpu /\ \A e \in Events : ~event[e].waiting
        BY DEF OnPcpu, IInv, WaitInv, Sleeping, Waiting
    <2>2. CASE Dispatch \/ Exit \/ GuestTakesIrq \/ ThreadStep
        BY <2>1, <2>2, Zenon DEF Dispatch, Exit, CpuSuspend, LockingExit, InsertRequest,
            InterruptExit,
            GuestTakesIrq, InGuest, ThreadStep, WaitEvent, WaitYield, WaitRecheck,
            CpuSuspendTest, CpuSuspendDone, PollRequest, RequestDone, ExitLocked,
            ExitSchedule, Resume, VcpuThread, VcpuThreadSchedule
    <2>3. CASE Inject \/ SourceStep \/ DmStep
        BY <2>1, <2>3 DEF Inject, SourceStep, InjectRequest, InjectSignal, DmStep, DmTake,
            DmComplete, NotifyFinish, signal_event, Events, threadVars
    <2>4. CASE PauseVm \/ ResetScheduler \/ StartVm \/ MgmtStep
        BY <2>4 DEF PauseVm, ResetScheduler, StartVm, MgmtStep, PauseSleep, PauseDone,
            ResetStep, ResetDevices, ResetVcpu, ArchResetVcpu, LaunchWake, sleep_thread,
            IInv, MgmtInv, threadVars
    <2>5. CASE UNCHANGED vars
        BY <2>5 DEF vars, threadVars
    <2> QED
        BY <2>2, <2>3, <2>4, <2>5 DEF Next
<1> QED
    BY <1>1, WaitInvariant, PTL DEF Spec, StopHolds
=============================================================================
