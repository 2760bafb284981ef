----------------------------- MODULE EdfServer -----------------------------
(***************************************************************************)
(* The two EDF budget-server policies, core/sched/rtds.c and               *)
(* core/sched/cbs.c, on one pCPU, with their local one-shot timer and the  *)
(* exit path of arch/arm64/guest/vcpu_exit.c that decides whether a        *)
(* pending reschedule is honoured before the guest runs again.             *)
(*                                                                         *)
(* Every non-idle thread is a server with a budget per period.  RTDS keeps *)
(* a fixed period grid and runs a depleted server only on slack; CBS moves *)
(* the deadline of a depleted server and applies a density rule on wake.   *)
(* The policy data is one record, and a handler is a composition of        *)
(* operators that map such a record to the next one, in the order of the   *)
(* code's calls.  Time is the integer clock "now": it advances while a     *)
(* guest runs or the pCPU idles, and EL2 paths take no time.               *)
(*                                                                         *)
(* schedule() has the two steps it has in Schedule, whose queue contract   *)
(* this module implements (property Contract).                             *)
(***************************************************************************)
EXTENDS Naturals, SequencesExt

CONSTANTS
    Thread,     \* the non-idle threads bound to this pCPU
    Idle,       \* the per-pCPU idle thread
    None,       \* no thread
    Period,     \* [Thread -> ticks]
    Budget,     \* [Thread -> ticks]
    BootTime,   \* [policy -> cpu_ticks() when the threads are created]
    MaxTime,    \* bound on the clock
    MaxLate     \* bound on how late a due timer is taken, in ticks

ASSUME EdfConstants ==
    /\ Idle \notin Thread
    /\ None \notin Thread \cup {Idle}
    /\ Period \in [Thread -> Nat \ {0}]
    /\ Budget \in [Thread -> Nat \ {0}]
    /\ \A t \in Thread : Budget[t] <= Period[t]
    /\ BootTime \in [{"rtds", "cbs"} -> Nat \ {0}]
    /\ MaxTime \in Nat
    /\ MaxLate \in Nat

VARIABLES
    policy,     \* the struct acrn_scheduler of this pCPU: "rtds" or "cbs"
    now,        \* cpu_ticks()
    d,          \* the policy data, see DataType
    mode,       \* where the running thread is: guest, EL2, or a wait loop
    cancelled,  \* history: threads woken while on their way to sleep, until
                \* they are next picked
    curr_obj, status, be_blocking, need_resched, priority_pending,
    next, idle_pc, sgi      \* as in Schedule

framework == <<curr_obj, status, be_blocking, need_resched, priority_pending,
               next, idle_pc, sgi>>
vars == <<policy, now, d, mode, cancelled, framework>>

DataType ==
    [ready : Seq(Thread),               \* ready_queue, or the CBS runqueue
     depleted : Seq(Thread),            \* depleted_queue (RTDS)
     remaining : [Thread -> Nat],
     deadline : [Thread -> Nat],
     last_start : [Thread -> Nat],      \* 0: not being charged
     timer : Nat,                       \* timeout of tick_timer, 0: not started
     timer_deadline : Nat,              \* timer_deadline_ticks (CBS)
     ran : [Thread -> Nat],             \* history: ticks run on this window's
                                        \* account
     full : [Thread -> BOOLEAN]]        \* history: awake, undisturbed, since
                                        \* the window began
TypeOK ==
    /\ policy \in {"rtds", "cbs"}
    /\ now \in BootTime[policy] .. MaxTime
    /\ d \in DataType
    /\ mode \in {"guest", "host", "wait"}
    /\ cancelled \in SUBSET Thread
    /\ curr_obj \in Thread \cup {Idle}
    /\ status \in [Thread -> {"RUNNING", "RUNNABLE", "BLOCKED"}]
    /\ be_blocking \in SUBSET Thread
    /\ need_resched \in BOOLEAN
    /\ priority_pending \in SUBSET Thread
    /\ next \in Thread \cup {Idle, None}
    /\ idle_pc \in {"ack", "test"}
    /\ sgi \in BOOLEAN

Queued == ToSet(d.ready) \cup ToSet(d.depleted)
Awake(t) == status[t] # "BLOCKED" /\ t \notin be_blocking
LockFree == next = None

-----------------------------------------------------------------------------
(* Helpers both policies have under their own names.                       *)

(* rtds_is_active(), cbs_is_active()                                       *)
IsActive(t) == (curr_obj = t /\ t \notin be_blocking) \/ status[t] = "RUNNABLE"

(* The running server is being charged since last_start_ticks.             *)
Charging(x, t) ==
    status[t] = "RUNNING" /\ x.last_start[t] # 0 /\ now > x.last_start[t]

queue_remove(x, t) ==
    [x EXCEPT !.ready = Remove(@, t), !.depleted = Remove(@, t)]

(* Mutant: the queue is FIFO.                                              *)
MutFifoInsert(x, t) ==
    LET y == queue_remove(x, t) IN [y EXCEPT !.ready = Append(@, t)]

(* rtds_ready_insert(), cbs_queue_insert(): in front of the first server   *)
(* with a later deadline.                                                  *)
ready_insert(x, t) ==
    LET y == queue_remove(x, t)
        i == SelectInSeq(y.ready, LAMBDA u : y.deadline[t] < y.deadline[u])
    IN  [y EXCEPT !.ready = IF i = 0 THEN Append(@, t) ELSE InsertAt(@, i, t)]

(* Time the running server has not been charged for yet.                   *)
Uncharged(x, t) == IF Charging(x, t) THEN now - x.last_start[t] ELSE 0

(* A new server window: its deadline and a full budget.  Time that is not  *)
(* yet charged will be charged to it.                                      *)
NewWindow(x, t, deadline) ==
    [x EXCEPT !.deadline[t] = deadline, !.remaining[t] = Budget[t],
              !.ran[t] = Uncharged(x, t)]

(* The first deadline after now on the grid of period p through dl.        *)
NextBoundary(dl, p) == dl + ((now - dl) \div p + 1) * p

Earlier(a, b) == IF a = 0 THEN b ELSE IF b = 0 \/ a < b THEN a ELSE b
-----------------------------------------------------------------------------
(* rtds.c                                                                  *)

(* Mutant: the subtraction does not saturate.                              *)
MutAccountUnderflow(x, t) ==
    IF ~Charging(x, t) THEN x
    ELSE [x EXCEPT !.last_start[t] = now, !.remaining[t] = @ - (now - x.last_start[t])]

rtds_account_runtime(x, t) ==
    IF ~Charging(x, t) THEN x
    ELSE LET delta == now - x.last_start[t]
         IN  [x EXCEPT !.last_start[t] = now,
                       !.remaining[t] = IF delta >= @ THEN 0 ELSE @ - delta]

(* Mutant: the new window opens with what is left of the old budget.       *)
MutAdvanceKeepsBudget(x, t) ==
    IF now < x.deadline[t] THEN x
    ELSE [x EXCEPT !.deadline[t] = NextBoundary(@, Period[t]), !.ran[t] = Uncharged(x, t),
                   !.full[t] = (now = x.deadline[t])]

rtds_advance_period(x, t) ==
    IF now < x.deadline[t] THEN x
    ELSE [NewWindow(x, t, NextBoundary(x.deadline[t], Period[t]))
             EXCEPT !.full[t] = (now = x.deadline[t])]

rtds_depleted_insert(x, t) ==
    IF t \in ToSet(x.depleted) THEN x
    ELSE LET y == queue_remove(x, t) IN [y EXCEPT !.depleted = Append(@, t)]

rtds_insert(x, t) ==
    IF x.remaining[t] > 0 THEN ready_insert(x, t) ELSE rtds_depleted_insert(x, t)

rtds_refresh_thread(x, t) ==
    LET y == rtds_advance_period(x, t)
    IN  IF IsActive(t) THEN rtds_insert(y, t) ELSE y

rtds_refresh_queues(x) ==
    LET expired(y, t) == IF now < y.deadline[t] THEN y
                         ELSE rtds_refresh_thread(queue_remove(y, t), t)
        y == FoldLeft(expired, x, x.ready)
    IN  FoldLeft(rtds_refresh_thread, y, y.depleted)

(* rtds_pick_depleted_slack(): the first with the earliest deadline.       *)
rtds_slack(x) ==
    x.depleted[SelectInSeq(x.depleted,
                  LAMBDA t : \A u \in ToSet(x.depleted) : x.deadline[t] <= x.deadline[u])]

rtds_next_depleted_deadline(x) ==
    IF x.depleted = <<>> THEN 0 ELSE x.deadline[rtds_slack(x)]

rtds_choice(x) ==
    IF x.ready # <<>> THEN Head(x.ready)
    ELSE IF x.depleted # <<>> THEN rtds_slack(x) ELSE Idle

(* When the budget or the window of the running server ends.               *)
ServerEnd(x, t) ==
    LET from == IF x.last_start[t] # 0 THEN x.last_start[t] ELSE now
    IN  Earlier(from + x.remaining[t], x.deadline[t])

AtLeastNow(timeout) == IF timeout <= now THEN now ELSE timeout

(* Mutant: the timer is set for the end of the next window.                *)
MutTimerNextWindow(x, running) ==
    LET own == IF running \notin Thread THEN 0 ELSE x.deadline[running] + Period[running]
    IN  [x EXCEPT !.timer = Earlier(own, rtds_next_depleted_deadline(x))]

rtds_program_local_timer(x, running) ==
    LET own == IF running \notin Thread THEN 0
               ELSE IF x.remaining[running] > 0 THEN AtLeastNow(ServerEnd(x, running))
               ELSE AtLeastNow(x.deadline[running])
    IN  [x EXCEPT !.timer = Earlier(own, rtds_next_depleted_deadline(x))]

-----------------------------------------------------------------------------
(* cbs.c                                                                   *)

cbs_replenish_from_now(x, t) == NewWindow(x, t, now + Period[t])

Less(a, b) == IF a < b THEN 0 ELSE a - b

(* cbs_replenish_after_depletion(): later windows until one ends after now *)
cbs_replenish_after_depletion(x, t) ==
    LET dl == x.deadline[t]
    IN  NewWindow(x, t, IF dl > now THEN dl + Period[t] ELSE NextBoundary(dl, Period[t]))

(* cbs_charge_runtime(): what exceeds the remaining budget is charged to   *)
(* as many later windows as it takes.                                      *)
cbs_charge_runtime(x, t, delta) ==
    IF delta <= x.remaining[t] THEN [x EXCEPT !.remaining[t] = @ - delta]
    ELSE LET excess == delta - x.remaining[t]
             windows == (excess + Budget[t] - 1) \div Budget[t]
         IN  [x EXCEPT !.remaining[t] = windows * Budget[t] - excess,
                       !.deadline[t] = @ + windows * Period[t],
                       !.ran[t] = @ - windows * Budget[t]]

cbs_account_runtime(x, t) ==
    IF ~Charging(x, t) THEN x
    ELSE cbs_charge_runtime([x EXCEPT !.last_start[t] = now], t, now - x.last_start[t])

(* cbs_ratio_greater(): the old deadline is too dense for the reservation. *)
cbs_needs_wake_replenish(x, t) ==
    \/ x.deadline[t] <= now
    \/ x.remaining[t] * Period[t] > Budget[t] * (x.deadline[t] - now)

cbs_refresh_active_window(x, t) ==
    IF x.remaining[t] = 0 THEN cbs_replenish_after_depletion(x, t)
    ELSE IF x.deadline[t] <= now THEN cbs_replenish_from_now(x, t) ELSE x

cbs_apply_inactive_wake_rule(x, t) ==
    IF x.remaining[t] = 0 THEN cbs_replenish_after_depletion(x, t)
    ELSE IF cbs_needs_wake_replenish(x, t) THEN cbs_replenish_from_now(x, t) ELSE x

cbs_refresh_thread(x, t) ==
    IF IsActive(t) THEN ready_insert(cbs_refresh_active_window(x, t), t) ELSE x

cbs_refresh_queues(x) ==
    LET stale(y, t) == IF y.remaining[t] > 0 /\ now < y.deadline[t] THEN y
                       ELSE cbs_refresh_thread(queue_remove(y, t), t)
    IN  FoldLeft(stale, x, x.ready)

(* The timer is left alone when it is already set for the same deadline.   *)
cbs_program_local_timer(x, running) ==
    LET timeout == IF running \notin Thread THEN 0
                   ELSE IF x.remaining[running] > 0 THEN AtLeastNow(ServerEnd(x, running))
                   ELSE now
    IN  IF timeout = x.timer_deadline THEN x
        ELSE [x EXCEPT !.timer = timeout, !.timer_deadline = timeout]

(* Mutant: the handler leaves the next deadline to schedule(), as RTDS     *)
(* does.                                                                   *)
MutHandlerNoRearm(x) ==
    LET y == IF curr_obj = Idle THEN x
             ELSE cbs_refresh_thread(cbs_account_runtime(x, curr_obj), curr_obj)
    IN  cbs_refresh_queues([y EXCEPT !.timer_deadline = 0])

cbs_timer_handler(x) ==
    LET y == [x EXCEPT !.timer_deadline = 0]
        z == IF curr_obj = Idle THEN y
             ELSE cbs_refresh_thread(cbs_account_runtime(y, curr_obj), curr_obj)
    IN  cbs_program_local_timer(cbs_refresh_queues(z), curr_obj)

-----------------------------------------------------------------------------
(* The hooks of struct acrn_scheduler.                                     *)

IsRtds == policy = "rtds"

(* Only the owning pCPU programs its timer.                                *)
program_timer(x, running, local) ==
    IF ~local THEN x
    ELSE IF IsRtds THEN rtds_program_local_timer(x, running)
    ELSE cbs_program_local_timer(x, running)

account_runtime(x, t) ==
    IF IsRtds THEN rtds_account_runtime(x, t) ELSE cbs_account_runtime(x, t)

RefreshAll(x) ==
    IF IsRtds
    THEN rtds_refresh_queues(
            IF curr_obj = Idle THEN x
            ELSE rtds_refresh_thread(rtds_account_runtime(x, curr_obj), curr_obj))
    ELSE cbs_refresh_queues(
            IF curr_obj = Idle THEN x
            ELSE cbs_refresh_thread(cbs_account_runtime(x, curr_obj), curr_obj))

Choice(x) ==
    IF IsRtds THEN rtds_choice(x) ELSE IF x.ready # <<>> THEN Head(x.ready) ELSE Idle

(* pick_next(), applied to the refreshed data                              *)
pick_next(x, t) ==
    LET y == IF t = Idle THEN x
             ELSE [queue_remove(x, t) EXCEPT !.last_start[t] = now]
    IN  program_timer(y, t, TRUE)

(* Mutant: a thread that is paused before it is picked stays queued.       *)
MutSleepStaysQueued(x, t, local) ==
    LET y == IF curr_obj = t THEN account_runtime(x, t) ELSE x
        z == [y EXCEPT !.last_start[t] = 0, !.full[t] = FALSE]
    IN  program_timer(z, IF curr_obj = t THEN None ELSE curr_obj, local)

policy_sleep(x, t, local) ==
    LET y == IF curr_obj = t THEN account_runtime(x, t) ELSE x
        z == [queue_remove(y, t) EXCEPT !.last_start[t] = 0, !.full[t] = FALSE]
    IN  program_timer(z, IF curr_obj = t THEN None ELSE curr_obj, local)

policy_wake(x, t, local) ==
    LET y == IF IsRtds THEN rtds_advance_period(x, t)
                       ELSE cbs_apply_inactive_wake_rule(x, t)
        z == [y EXCEPT !.last_start[t] = 0]
    IN  program_timer(IF IsRtds THEN rtds_insert(z, t) ELSE ready_insert(z, t),
                      curr_obj, local)

(* prioritize().  When it renews the window of the running server, what    *)
(* that has run in the old one is charged to the new one by the            *)
(* pick_next() that follows.                                               *)
prioritize(x, t) ==
    LET y == IF IsRtds THEN rtds_advance_period(x, t)
                       ELSE cbs_refresh_active_window(x, t)
    IN  IF t = curr_obj THEN [y EXCEPT !.full[t] = @ /\ now < x.deadline[t]]
        ELSE IF y.remaining[t] > 0 THEN ready_insert(y, t) ELSE y

timer_handler(x) ==
    IF IsRtds THEN RefreshAll(x) ELSE cbs_timer_handler(x)

(* A server that is reset gets a full budget in the middle of its period,  *)
(* at its peers' expense: no window under way counts as full.              *)
init_data(x, t) ==
    [x EXCEPT !.remaining[t] = Budget[t],
              !.deadline[t] = IF IsRtds THEN NextBoundary(0, Period[t]) ELSE now + Period[t],
              !.last_start[t] = 0, !.ran[t] = 0, !.full = [u \in Thread |-> FALSE]]

-----------------------------------------------------------------------------
Init ==
    /\ policy \in {"rtds", "cbs"}
    /\ now = BootTime[policy]
    /\ d = [ready |-> <<>>, depleted |-> <<>>,
            remaining |-> Budget,
            deadline |-> [t \in Thread |->
                IF policy = "rtds" THEN NextBoundary(0, Period[t]) ELSE now + Period[t]],
            last_start |-> [t \in Thread |-> 0],
            timer |-> 0, timer_deadline |-> 0,
            ran |-> [t \in Thread |-> 0], full |-> [t \in Thread |-> now % Period[t] = 0]]
    /\ mode = "host"
    /\ cancelled = {}
    /\ curr_obj = Idle
    /\ status = [t \in Thread |-> "BLOCKED"]
    /\ be_blocking = {}
    /\ need_resched = FALSE
    /\ priority_pending = {}
    /\ next = None
    /\ idle_pc = "ack"
    /\ sgi = FALSE

make_reschedule_request(remote) == need_resched' = TRUE /\ sgi' = (sgi \/ remote)
no_reschedule_request == UNCHANGED <<need_resched, sgi>>

(* thread_list, in registration order                                      *)
ThreadList == SetToSeq(Thread)

(* A caller on this pCPU is the idle thread or the running thread in EL2.  *)
IsLocal == LockFree /\ (curr_obj = Idle \/ mode = "host")
CanCall(remote) == IF remote THEN LockFree ELSE IsLocal

(* schedule() is called by the idle loop, by a thread that waits, and on   *)
(* the way back to the guest.                                              *)
CallsSchedule ==
    IF curr_obj = Idle THEN idle_pc = "test" /\ need_resched
    ELSE mode = "wait" \/ (mode = "host" /\ (need_resched \/ curr_obj \in be_blocking))

ScheduleBegin ==
    /\ LockFree
    /\ CallsSchedule
    /\ LET kicked == SelectSeq(ThreadList, LAMBDA t : t \in priority_pending /\ Awake(t))
           x == RefreshAll(FoldLeft(prioritize, d, kicked))
       IN  /\ next' = Choice(x)
           /\ d' = pick_next(x, Choice(x))
           /\ cancelled' = cancelled \ {Choice(x)}
    /\ priority_pending' = {}
    /\ UNCHANGED <<policy, now, mode, curr_obj, status, be_blocking, need_resched,
                   idle_pc, sgi>>

ScheduleEnd ==
    /\ ~LockFree
    /\ need_resched' = FALSE
    /\ IF next = curr_obj
       THEN UNCHANGED <<curr_obj, status, be_blocking>>
       ELSE /\ status' = [t \in Thread |->
                  IF t = curr_obj THEN IF t \in be_blocking THEN "BLOCKED" ELSE "RUNNABLE"
                  ELSE IF t = next THEN "RUNNING" ELSE status[t]]
            /\ be_blocking' = be_blocking \ {curr_obj}
            /\ curr_obj' = next
    /\ next' = None
    /\ mode' = "host"
    /\ idle_pc' = "ack"
    /\ UNCHANGED <<policy, now, d, cancelled, priority_pending, sgi>>

(* schedule_without_guest_resume() and the ERET.  A reschedule request is  *)
(* not honoured while the vCPU has a pending request, or, within a bounded *)
(* window, an interrupt to retire: both are the guest's doing.             *)
ReturnToGuest ==
    /\ LockFree
    /\ curr_obj \in Thread \ be_blocking
    /\ mode = "host"
    /\ mode' = "guest"
    /\ UNCHANGED <<policy, now, d, cancelled, framework>>

(* sched_clear_reschedule_if_current_only()                                *)
ClearRescheduleIfCurrentOnly ==
    /\ IsLocal
    /\ curr_obj # Idle
    /\ need_resched
    /\ {t \in Thread : Awake(t)} = {curr_obj}
    /\ need_resched' = FALSE
    /\ UNCHANGED <<policy, now, d, mode, cancelled, curr_obj, status, be_blocking,
                   priority_pending, next, idle_pc, sgi>>

(* A trap, or the reschedule SGI, takes the guest to EL2.                  *)
ExitGuest ==
    /\ LockFree
    /\ \/ mode = "guest" /\ mode' = "host" /\ sgi' = FALSE
       \/ curr_obj = Idle /\ sgi /\ sgi' = FALSE /\ UNCHANGED mode
    /\ UNCHANGED <<policy, now, d, cancelled, curr_obj, status, be_blocking, need_resched,
                   priority_pending, next, idle_pc>>

(* SOFTIRQ_TIMER finds tick_timer expired: it takes it off the timer list  *)
(* and runs the handler.                                                   *)
TimerFires ==
    /\ LockFree
    /\ curr_obj = Idle \/ mode = "guest"
    /\ d.timer # 0
    /\ d.timer <= now
    /\ d' = timer_handler([d EXCEPT !.timer = 0])
    /\ need_resched' = TRUE
    /\ mode' = "host"
    /\ UNCHANGED <<policy, now, cancelled, curr_obj, status, be_blocking,
                   priority_pending, next, idle_pc, sgi>>

IdleLoop ==
    /\ curr_obj = Idle
    /\ LockFree
    /\ idle_pc = "ack"
    /\ idle_pc' = "test"
    /\ UNCHANGED <<policy, now, d, mode, cancelled, curr_obj, status, be_blocking,
                   need_resched, priority_pending, next, sgi>>

(* sleep_thread_locked().  A thread that puts itself to sleep goes on to   *)
(* call schedule(): wait_event() and the thread loops do so at once.       *)
SleepThread(t, remote) ==
    /\ CanCall(remote)
    /\ d' = policy_sleep(d, t, ~remote)
    /\ IF curr_obj = t
       THEN /\ make_reschedule_request(remote)
            /\ be_blocking' = be_blocking \cup {t}
            /\ mode' = IF remote THEN mode ELSE "wait"
            /\ UNCHANGED status
       ELSE /\ status' = [status EXCEPT ![t] = "BLOCKED"]
            /\ no_reschedule_request
            /\ UNCHANGED <<be_blocking, mode>>
    /\ UNCHANGED <<policy, now, cancelled, curr_obj, priority_pending, next, idle_pc>>

(* wake_thread_locked(); a wake of an awake thread does nothing.           *)
WakeThread(t, remote) ==
    /\ CanCall(remote)
    /\ ~Awake(t)
    /\ d' = policy_wake(d, t, ~remote)
    /\ IF status[t] = "BLOCKED"
       THEN /\ status' = [status EXCEPT ![t] = "RUNNABLE"]
            /\ make_reschedule_request(remote)
            /\ UNCHANGED cancelled
       ELSE no_reschedule_request /\ cancelled' = cancelled \cup {t} /\ UNCHANGED status
    /\ be_blocking' = be_blocking \ {t}
    /\ UNCHANGED <<policy, now, mode, curr_obj, priority_pending, next, idle_pc>>

(* reset_thread_data() and the init_data() hook it calls                   *)
ResetThreadData(t) ==
    /\ LockFree
    /\ status[t] = "BLOCKED"
    /\ d' = init_data(d, t)
    /\ priority_pending' = priority_pending \ {t}
    /\ UNCHANGED <<policy, now, mode, cancelled, curr_obj, status, be_blocking, need_resched,
                   next, idle_pc, sgi>>

(* request_thread_priority(), without the scheduler lock                   *)
RequestThreadPriority(t, remote) ==
    /\ remote \/ IsLocal
    /\ priority_pending' = priority_pending \cup {t}
    /\ make_reschedule_request(remote)
    /\ UNCHANGED <<policy, now, d, mode, cancelled, curr_obj, status, be_blocking,
                   next, idle_pc>>

(* vcpu_make_request() from another pCPU while the vCPU runs               *)
RequestThreadPriorityNoResched(t) ==
    /\ curr_obj = t
    /\ priority_pending' = priority_pending \cup {t}
    /\ sgi' = TRUE
    /\ UNCHANGED <<policy, now, d, mode, cancelled, curr_obj, status, be_blocking,
                   need_resched, next, idle_pc>>

(* A tick passes.  A due timer, or a reschedule request the exit path did  *)
(* not honour, delays the servers: their windows do not count as full, nor *)
(* does that of a server that sleeps or runs uncharged, or that a peer     *)
(* keeps waiting on a budget of a window that is not full: RTDS lets a     *)
(* server that wakes late in its period use all of its budget before the   *)
(* deadline, more than its share of the time that is left.                 *)
Tick ==
    /\ LockFree
    /\ now < MaxTime
    /\ IF curr_obj = Idle THEN idle_pc = "test" /\ ~need_resched ELSE mode = "guest"
    /\ d.timer # 0 => now < d.timer + MaxLate
    /\ now' = now + 1
    /\ LET runs(t) == t = curr_obj /\ d.last_start[t] # 0
           late == need_resched \/ (d.timer # 0 /\ d.timer <= now)
           crowded(t) == \E u \in Thread \ {t} :
                             u = curr_obj /\ ~d.full[u] /\ d.remaining[u] > 0
       IN  d' = [d EXCEPT !.ran = [t \in Thread |-> IF runs(t) THEN @[t] + 1 ELSE @[t]],
                          !.full = [t \in Thread |->
                              /\ @[t] /\ ~late /\ Awake(t) /\ ~crowded(t)
                              /\ t = curr_obj => runs(t)]]
    /\ UNCHANGED <<policy, mode, cancelled, framework>>

Callers ==
    \E t \in Thread :
        \/ \E remote \in BOOLEAN :
              \/ SleepThread(t, remote)
              \/ WakeThread(t, remote)
              \/ RequestThreadPriority(t, remote)
        \/ RequestThreadPriorityNoResched(t)
        \/ ResetThreadData(t)

Next ==
    \/ ScheduleBegin
    \/ ScheduleEnd
    \/ ReturnToGuest
    \/ ClearRescheduleIfCurrentOnly
    \/ ExitGuest
    \/ TimerFires
    \/ IdleLoop
    \/ Callers
    \/ Tick

Spec == Init /\ [][Next]_vars

-----------------------------------------------------------------------------
(* The refinement.  Both policies implement the queue contract the         *)
(* framework model assumes of them, with their two queues as the one set   *)
(* of queued threads, in a system without quiesce or freeze requests.  Of  *)
(* the two contracts that of RTDS is the wider one: prioritize() queues    *)
(* any of the kicked threads, under CBS all of them.                       *)

Queues == INSTANCE Schedule WITH
    Vm <- Thread, VmOf <- [t \in Thread |-> t], Policy <- "rtds", Management <- {},
    MaxGen <- 0, MaxEpoch <- 0, runq <- Queued,
    slot <- [t \in Thread |-> [obj |-> None, request_gen |-> 0, ack_gen |-> 0]],
    quiesce_mask <- {}, freeze_epoch <- [t \in Thread |-> 0], deferred_wake <- {},
    wake_owned <- {}, pcpu_flag <- {}, overlap <- {},
    due <- {t \in Thread : Awake(t)}

(* Every step of either policy, its timer and its hooks is a step the      *)
(* framework model allows a policy, or leaves its state alone: what is     *)
(* shown of Schedule holds with the real policies in it.                   *)
Contract == Queues!Spec

-----------------------------------------------------------------------------
(* What pick_next() has chosen under the lock is right at that instant,    *)
(* whatever window ended unnoticed before: a budgeted server with the      *)
(* earliest deadline; under RTDS a depleted one only when no server has    *)
(* budget; the idle thread only when nothing is queued.                    *)
PicksEarliest ==
    next # None =>
        /\ \A t \in ToSet(d.ready) : d.remaining[t] > 0 /\ now < d.deadline[t]
        /\ \A t \in ToSet(d.depleted) : d.remaining[t] = 0 /\ now < d.deadline[t]
        /\ IF next = Idle THEN Queued = {}
           ELSE IF d.remaining[next] > 0
           THEN \A t \in ToSet(d.ready) : d.deadline[next] <= d.deadline[t]
           ELSE /\ d.ready = <<>>
                /\ \A t \in ToSet(d.depleted) : d.deadline[next] <= d.deadline[t]

(* Every tick a server runs is charged once, however late the timer was    *)
(* and whether sleep(), the timer or pick_next() settles it: what is left  *)
(* of a budget is the budget less what was run on its account and settled. *)
(* A guest runs off the books only on its way out: paused, or paused and   *)
(* woken again before schedule() switched it out.                          *)
ChargedOnce ==
    /\ \A t \in Thread :
          d.remaining[t] = Less(Budget[t], d.ran[t] - Uncharged(d, t))
    /\ mode = "guest" => d.last_start[curr_obj] # 0 \/ curr_obj \in be_blocking \union cancelled

(* The reservation of RTDS is delivered: a server that was awake for its   *)
(* whole period, with no late timer, no deferred reschedule and no reset   *)
(* of a peer in it, has run its budget when the period ends, as long as    *)
(* the budgets fit and no peer ran in it on the budget of a period that    *)
(* was itself disturbed, by sleep for one.                                 *)
BudgetDelivered ==
    [][\A t \in Thread :
          IsRtds /\ d.full[t] /\ d'.deadline[t] # d.deadline[t] => d.ran[t] >= Budget[t]]_vars

(* While a CBS guest runs its local timer is armed, for no later than the  *)
(* end of its budget and of its window: a deferred reschedule is retried.  *)
(* RTDS does not rearm in the handler, and promises it only when no        *)
(* reschedule is outstanding and there is a peer to preempt it for.        *)
GuestIsTimed ==
    mode = "guest" =>
        IF IsRtds THEN Queued \ {curr_obj} = {} \/ need_resched \/ d.timer # 0
        ELSE d.timer # 0 /\ d.timer = d.timer_deadline
=============================================================================
