--------------------------- MODULE ScheduleProofs ---------------------------
(***************************************************************************)
(* Theorems about Schedule, for any number of threads and VMs, any         *)
(* generations and epochs, and every policy.                               *)
(*                                                                         *)
(* The argument.  IInv is inductive.  What makes it so is the set of awake *)
(* threads (not BLOCKED and not on their way to sleep): schedule() itself  *)
(* never changes it (LEMMA SwitchKeepsAwake), a sleep removes one thread   *)
(* from it and from the queue (SleepLocked), a wake adds one to both       *)
(* (WakeLocked).  The quiesce and freeze parts are then about who may call *)
(* those two.                                                              *)
(***************************************************************************)
EXTENDS Schedule, TLAPS

(* What the sleep and wake helpers keep, whoever calls them.               *)
Core == TypeOK /\ CurrentIsRunning /\ NextIsAwake /\ QueuedIsAwake /\ QueueIsAwake

(* What sleep_thread_locked() keeps, and that it puts exactly its thread   *)
(* to sleep.                                                               *)
LEMMA SleepLocked ==
    ASSUME Core, LockFree,
           NEW t \in Thread, NEW remote \in BOOLEAN,
           sleep_thread_locked(t, remote),
           UNCHANGED <<curr_obj, next>>
    PROVE  /\ status' \in [Thread -> Status]
           /\ be_blocking' \in SUBSET Thread
           /\ runq' \in SUBSET Thread
           /\ need_resched' \in BOOLEAN
           /\ sgi' \in BOOLEAN
           /\ CurrentIsRunning'
           /\ QueuedIsAwake'
           /\ QueueIsAwake'
           /\ \A u \in Thread : Awake(u)' <=> Awake(u) /\ u # t
           /\ \A u \in Thread : is_blocked(u) /\ u \notin be_blocking
                                   => is_blocked(u)' /\ u \notin be_blocking'
<1> USE DEF Core, TypeOK, CurrentIsRunning, sleep_thread_locked,
            make_reschedule_request, no_reschedule_request
<1>1. /\ status' \in [Thread -> Status]
      /\ be_blocking' \in SUBSET Thread
      /\ runq' \in SUBSET Thread
      /\ need_resched' \in BOOLEAN
      /\ sgi' \in BOOLEAN
  <2>1. CASE status[t] = "RUNNING"
    BY <2>1
  <2>2. CASE status[t] # "RUNNING"
    <3>1. status' = [status EXCEPT ![t] = "BLOCKED"]
      BY <2>2
    <3>2. status' \in [Thread -> Status]
      BY <3>1 DEF Status
    <3> QED BY <2>2, <3>2
  <2> QED BY <2>1, <2>2
<1>2. CurrentIsRunning'
  BY DEF Status
<1>3. \A u \in Thread : Awake(u)' <=> Awake(u) /\ u # t
  BY DEF Awake, is_blocked, Status
<1>4. QueuedIsAwake' /\ QueueIsAwake'
  BY <1>3 DEF QueuedIsAwake, QueueIsAwake
<1>5. \A u \in Thread : is_blocked(u) /\ u \notin be_blocking
                           => is_blocked(u)' /\ u \notin be_blocking'
  BY DEF is_blocked, Status
<1> QED BY <1>1, <1>2, <1>3, <1>4, <1>5

(* What wake_thread_locked() keeps, and that it wakes exactly its thread.  *)
LEMMA WakeLocked ==
    ASSUME Core, LockFree,
           NEW t \in Thread, NEW remote \in BOOLEAN,
           wake_thread_locked(t, remote),
           UNCHANGED <<curr_obj, next>>
    PROVE  /\ status' \in [Thread -> Status]
           /\ be_blocking' \in SUBSET Thread
           /\ runq' \in SUBSET Thread
           /\ need_resched' \in BOOLEAN
           /\ sgi' \in BOOLEAN
           /\ CurrentIsRunning'
           /\ QueuedIsAwake'
           /\ QueueIsAwake'
           /\ \A u \in Thread : Awake(u)' <=> Awake(u) \/ u = t
           /\ \A u \in Thread \ {t} : is_blocked(u) /\ u \notin be_blocking
                                   => is_blocked(u)' /\ u \notin be_blocking'
<1> USE DEF Core, TypeOK, CurrentIsRunning, wake_thread_locked,
            make_reschedule_request, no_reschedule_request
<1>1. /\ status' \in [Thread -> Status]
      /\ be_blocking' \in SUBSET Thread
      /\ runq' \in SUBSET Thread
      /\ need_resched' \in BOOLEAN
      /\ sgi' \in BOOLEAN
  BY Zenon DEF Status
<1>2. CurrentIsRunning'
  BY DEF Status, is_blocked
<1>3. \A u \in Thread : Awake(u)' <=> Awake(u) \/ u = t
  BY DEF Awake, is_blocked, Status
<1>4. QueuedIsAwake' /\ QueueIsAwake'
  BY <1>3 DEF QueuedIsAwake, QueueIsAwake
<1>5. \A u \in Thread \ {t} : is_blocked(u) /\ u \notin be_blocking
                           => is_blocked(u)' /\ u \notin be_blocking'
  BY DEF is_blocked, Status
<1> QED BY <1>1, <1>2, <1>3, <1>4, <1>5

(* schedule() changes who runs, never who wants to run.                    *)
LEMMA SwitchKeepsAwake ==
    ASSUME Core, ScheduleEnd
    PROVE  /\ \A u \in Thread : Awake(u)' <=> Awake(u)
           /\ \A u \in Thread : is_blocked(u) /\ u \notin be_blocking
                                   => is_blocked(u)' /\ u \notin be_blocking'
           /\ TypeOK'
           /\ CurrentIsRunning'
<1> USE ScheduleConstants DEF Core, TypeOK, CurrentIsRunning, NextIsAwake, ScheduleEnd,
        LockFree
<1>1. CASE next = curr_obj
  <2>1. UNCHANGED <<status, be_blocking, curr_obj>>
    BY <1>1
  <2> QED BY <2>1, Zenon DEF Awake, is_blocked, quiesce, freeze, IdlePc
<1>2. CASE next # curr_obj
  <2>1. /\ status' = SwitchStatus(curr_obj, next)
        /\ be_blocking' = be_blocking \ {curr_obj}
        /\ curr_obj' = next
        /\ next \in Thread \cup {Idle}
    BY <1>2
  <2>2. \A u \in Thread : status'[u] =
            IF u = curr_obj THEN IF u \in be_blocking THEN "BLOCKED" ELSE "RUNNABLE"
            ELSE IF u = next THEN "RUNNING" ELSE status[u]
    BY <2>1 DEF SwitchStatus
  <2>3. TypeOK'
    <3>1. status' \in [Thread -> Status]
      BY <2>1 DEF SwitchStatus, Status
    <3> QED BY <2>1, <3>1, Zenon DEF quiesce, freeze, IdlePc
  <2>4. CurrentIsRunning'
    BY <2>1, <2>2, <1>2
  <2>5. \A u \in Thread : Awake(u)' <=> Awake(u)
    BY <2>1, <2>2, <1>2 DEF Awake, is_blocked
  <2>6. \A u \in Thread : is_blocked(u) /\ u \notin be_blocking
                                   => is_blocked(u)' /\ u \notin be_blocking'
    BY <2>1, <2>2, <1>2 DEF Awake, is_blocked
  <2> QED BY <2>3, <2>4, <2>5, <2>6
<1> QED BY <1>1, <1>2

(* init_sched() establishes the invariant.                                 *)
LEMMA InitIInv == Init => IInv
<1> SUFFICES ASSUME Init PROVE IInv
  OBVIOUS
<1> USE ScheduleConstants DEF Init
<1>1. TypeOK
  BY Zenon DEF TypeOK, Status, SlotType, FreeSlot, IdlePc
<1>2. CurrentIsRunning /\ NextIsAwake
  BY DEF CurrentIsRunning, NextIsAwake
<1>3. QueuedIsAwake /\ QueueIsAwake
  BY DEF QueuedIsAwake, QueueIsAwake, Awake, is_blocked
<1>4. SlotInv
  BY DEF SlotInv, SlotOk, FreeSlot
<1>5. FreezeTransparent
  BY DEF FreezeTransparent, Awake, is_blocked
<1> QED BY <1>1, <1>2, <1>3, <1>4, <1>5 DEF IInv

-----------------------------------------------------------------------------
(* The steps that change neither who is awake nor the gates.               *)
LEMMA QuietStep ==
    ASSUME IInv,
           UNCHANGED <<status, be_blocking, curr_obj, runq, slot, overlap,
                       freeze_epoch, deferred_wake, wake_owned, due>>,
           next' = next, quiesce_mask' = quiesce_mask,
           TypeOK'
    PROVE  IInv'
BY DEF IInv, TypeOK, CurrentIsRunning, NextIsAwake, QueuedIsAwake, QueueIsAwake, SlotInv, SlotOk,
       FreezeTransparent, Awake, is_blocked

(* schedule() up to the pick keeps the invariant.                          *)
LEMMA ScheduleBeginIInv == IInv /\ ScheduleBegin => IInv'
<1> SUFFICES ASSUME IInv, ScheduleBegin PROVE IInv'
  OBVIOUS
<1> USE ScheduleConstants DEF IInv, TypeOK
<1>0. UNCHANGED <<curr_obj, status, be_blocking, need_resched, slot, quiesce_mask,
                  overlap, freeze_epoch, deferred_wake, wake_owned, pcpu_flag, idle_pc,
                  sgi, due>>
  BY DEF ScheduleBegin, quiesce, freeze, idle
<1>1. PICK q \in prioritize(priority_pending) :
          IF sched_idle_work_pending
          THEN next' = Idle /\ runq' = q
          ELSE \E choice \in pick_next(q) : next' = choice[1] /\ runq' = choice[2]
  BY DEF ScheduleBegin
<1>2. q \in SUBSET Thread /\ (\A u \in q : Awake(u)) /\ (Keeps => q = runq)
  BY <1>1 DEF prioritize, QueuedIsAwake, Keeps, KeepPolicy
<1>3. /\ runq' \in SUBSET Thread
      /\ \A u \in runq' : Awake(u)
      /\ Keeps => runq' = runq
      /\ next' \in Thread \cup {Idle, None}
      /\ next' \in Thread => Awake(next') /\ quiesce_mask = {}
  <2>1. CASE sched_idle_work_pending
    BY <1>1, <1>2, <2>1
  <2>2. CASE ~sched_idle_work_pending
    <3>1. PICK choice \in pick_next(q) : next' = choice[1] /\ runq' = choice[2]
      BY <1>1, <2>2
    <3>2. quiesce_mask = {}
      BY <2>2 DEF sched_idle_work_pending
    <3>3. CASE Keeps
      BY <3>1, <3>2, <3>3, <1>2 DEF pick_next
    <3>4. CASE ~Keeps
      <4>1. Requeue(q) \in SUBSET Thread /\ \A u \in Requeue(q) : Awake(u)
        BY <1>2 DEF Requeue, Awake, is_blocked, CurrentIsRunning
      <4> QED BY <3>1, <3>2, <3>4, <4>1 DEF pick_next
    <3> QED BY <3>3, <3>4
  <2> QED BY <2>1, <2>2
<1>4. \A u \in Thread : Awake(u)' <=> Awake(u)
  BY <1>0 DEF Awake, is_blocked
<1>5. TypeOK'
  BY <1>0, <1>3 DEF ScheduleBegin
<1>6. CurrentIsRunning'
  BY <1>0 DEF CurrentIsRunning
<1>7. NextIsAwake'
  BY <1>0, <1>3 DEF NextIsAwake, Awake, is_blocked
<1>8. QueuedIsAwake' /\ QueueIsAwake'
  BY <1>3, <1>4 DEF QueuedIsAwake, QueueIsAwake
<1>9. SlotInv' /\ FreezeTransparent'
  BY <1>0, <1>4 DEF SlotInv, SlotOk, FreezeTransparent, is_blocked
<1> QED BY <1>5, <1>6, <1>7, <1>8, <1>9

(* The switch of schedule() keeps the invariant.                           *)
LEMMA ScheduleEndIInv == IInv /\ ScheduleEnd => IInv'
<1> SUFFICES ASSUME IInv, ScheduleEnd PROVE IInv'
  OBVIOUS
<1>0. UNCHANGED <<runq, slot, quiesce_mask, overlap, freeze_epoch, deferred_wake, wake_owned,
                  due>>
      /\ next' = None
  BY DEF ScheduleEnd, quiesce, freeze
<1>1. /\ \A u \in Thread : Awake(u)' <=> Awake(u)
      /\ \A u \in Thread : is_blocked(u) /\ u \notin be_blocking
                                   => is_blocked(u)' /\ u \notin be_blocking'
      /\ TypeOK' /\ CurrentIsRunning'
  BY SwitchKeepsAwake DEF IInv, Core
<1>2. NextIsAwake'
  BY <1>0, ScheduleConstants DEF NextIsAwake
<1>3. QueuedIsAwake' /\ QueueIsAwake'
  BY <1>0, <1>1 DEF IInv, TypeOK, QueuedIsAwake, QueueIsAwake
<1>4. SlotInv'
  BY <1>0, <1>1 DEF IInv, TypeOK, SlotType, SlotInv, SlotOk
<1>5. FreezeTransparent'
  BY <1>0, <1>1 DEF IInv, FreezeTransparent
<1> QED BY <1>1, <1>2, <1>3, <1>4, <1>5 DEF IInv

-----------------------------------------------------------------------------
(* Sleep, wake, and the two gates.                                         *)

(* sleep_thread() keeps the invariant.                                     *)
LEMMA SleepThreadIInv ==
    ASSUME IInv, NEW t \in Thread, NEW remote \in BOOLEAN, SleepThread(t, remote)
    PROVE  IInv'
<1>0. UNCHANGED <<curr_obj, priority_pending, slot, quiesce_mask, overlap,
                  freeze_epoch, deferred_wake, wake_owned, pcpu_flag, next, idle_pc>>
      /\ due' = (IF freeze_epoch[t] = 0 THEN due \ {t} ELSE due)
      /\ LockFree /\ sleep_thread_locked(t, remote)
  BY DEF SleepThread, CanCall, quiesce, freeze
<1>1. Core
  BY DEF IInv, Core
<1>2. /\ status' \in [Thread -> Status] /\ be_blocking' \in SUBSET Thread
      /\ runq' \in SUBSET Thread /\ need_resched' \in BOOLEAN /\ sgi' \in BOOLEAN
      /\ CurrentIsRunning' /\ QueuedIsAwake' /\ QueueIsAwake'
      /\ \A u \in Thread : Awake(u)' <=> Awake(u) /\ u # t
      /\ \A u \in Thread : is_blocked(u) /\ u \notin be_blocking
                                   => is_blocked(u)' /\ u \notin be_blocking'
  BY <1>0, <1>1, SleepLocked
<1>3. TypeOK'
  BY <1>0, <1>2 DEF IInv, TypeOK
<1>4. NextIsAwake'
  BY <1>0, ScheduleConstants DEF NextIsAwake, LockFree
<1>5. SlotInv'
  BY <1>0, <1>2 DEF IInv, TypeOK, SlotType, SlotInv, SlotOk
<1>6. FreezeTransparent'
  BY <1>0, <1>2 DEF IInv, FreezeTransparent
<1> QED BY <1>2, <1>3, <1>4, <1>5, <1>6 DEF IInv

(* wake_thread() keeps the invariant, rejected or deferred included.       *)
LEMMA WakeThreadIInv ==
    ASSUME IInv, NEW t \in Thread, NEW remote \in BOOLEAN, WakeThread(t, remote)
    PROVE  IInv'
<1>0. UNCHANGED <<curr_obj, priority_pending, slot, quiesce_mask, overlap,
                  freeze_epoch, wake_owned, pcpu_flag, next, idle_pc>>
      /\ due' = due \cup {t} /\ LockFree /\ ~thread_quiesce_active(t)
  BY DEF WakeThread, CanCall, quiesce
<1>1. NextIsAwake'
  BY <1>0, ScheduleConstants DEF NextIsAwake, LockFree
<1>2. \A v \in Vm : slot[v].obj # t
  <2> SUFFICES ASSUME NEW v \in Vm, slot[v].obj = t PROVE FALSE
    OBVIOUS
  <2>1. VmOf[t] = v /\ slot[v].request_gen # 0
    BY ScheduleConstants DEF IInv, SlotInv, SlotOk
  <2> QED BY <1>0, <2>1 DEF thread_quiesce_active
<1>3. CASE freeze_epoch[t] # 0
  <2>1. /\ UNCHANGED <<status, be_blocking, runq, need_resched, sgi>>
        /\ deferred_wake' = deferred_wake \cup {t}
    BY <1>3 DEF WakeThread, no_reschedule_request
  <2>2. TypeOK'
    BY <1>0, <2>1 DEF IInv, TypeOK
  <2>3. CurrentIsRunning' /\ QueuedIsAwake' /\ QueueIsAwake'
    BY <1>0, <2>1, Zenon DEF IInv, TypeOK, CurrentIsRunning, QueuedIsAwake, QueueIsAwake, Awake,
                      is_blocked
  <2>4. SlotInv'
    BY <1>0, <1>2, <2>1, Zenon DEF IInv, SlotInv, SlotOk, is_blocked
  <2>5. FreezeTransparent'
    BY <1>0, <1>3, <2>1, Zenon DEF IInv, FreezeTransparent, Awake, is_blocked
  <2> QED BY <1>1, <2>2, <2>3, <2>4, <2>5 DEF IInv
<1>4. CASE freeze_epoch[t] = 0
  <2>0. wake_thread_locked(t, remote) /\ deferred_wake' = deferred_wake
    BY <1>4 DEF WakeThread
  <2>1. /\ status' \in [Thread -> Status] /\ be_blocking' \in SUBSET Thread
        /\ runq' \in SUBSET Thread /\ need_resched' \in BOOLEAN /\ sgi' \in BOOLEAN
        /\ CurrentIsRunning' /\ QueuedIsAwake' /\ QueueIsAwake'
        /\ \A u \in Thread : Awake(u)' <=> Awake(u) \/ u = t
        /\ \A u \in Thread \ {t} : is_blocked(u) /\ u \notin be_blocking
                                   => is_blocked(u)' /\ u \notin be_blocking'
    BY <1>0, <2>0, WakeLocked DEF IInv, Core
  <2>2. TypeOK'
    BY <1>0, <2>0, <2>1 DEF IInv, TypeOK
  <2>3. SlotInv'
    BY <1>0, <1>2, <2>0, <2>1 DEF IInv, TypeOK, SlotType, SlotInv, SlotOk
  <2>4. FreezeTransparent'
    BY <1>0, <1>4, <2>0, <2>1 DEF IInv, FreezeTransparent
  <2> QED BY <1>1, <2>1, <2>2, <2>3, <2>4 DEF IInv
<1> QED BY <1>3, <1>4

(* freeze_thread() keeps the invariant.                                    *)
LEMMA FreezeThreadIInv ==
    ASSUME IInv, NEW t \in Thread, NEW e \in Epoch, NEW remote \in BOOLEAN,
           FreezeThread(t, e, remote)
    PROVE  IInv'
<1>0. /\ UNCHANGED <<curr_obj, priority_pending, slot, quiesce_mask, pcpu_flag, next,
                     idle_pc, due>>
      /\ LockFree /\ sleep_thread_locked(t, remote)
      /\ freeze_epoch' = [freeze_epoch EXCEPT ![t] = e]
      /\ deferred_wake' = (IF freeze_epoch[t] = 0 THEN deferred_wake \ {t} ELSE deferred_wake)
      /\ wake_owned' = (IF Awake(t) THEN wake_owned \cup {t}
                        ELSE IF freeze_epoch[t] = 0 THEN wake_owned \ {t} ELSE wake_owned)
      /\ overlap' = (IF thread_quiesce_active(t) THEN overlap \cup {t} ELSE overlap)
  BY Zenon DEF FreezeThread, CanCall, IInv, TypeOK
<1>1. e # 0 /\ e \in Nat
  BY ScheduleConstants DEF Epoch
<1>2. /\ status' \in [Thread -> Status] /\ be_blocking' \in SUBSET Thread
      /\ runq' \in SUBSET Thread /\ need_resched' \in BOOLEAN /\ sgi' \in BOOLEAN
      /\ CurrentIsRunning' /\ QueuedIsAwake' /\ QueueIsAwake'
      /\ \A u \in Thread : Awake(u)' <=> Awake(u) /\ u # t
      /\ \A u \in Thread : is_blocked(u) /\ u \notin be_blocking
                                   => is_blocked(u)' /\ u \notin be_blocking'
  BY <1>0, SleepLocked DEF IInv, Core
<1>3. TypeOK'
  BY <1>0, <1>1, <1>2, Zenon DEF IInv, TypeOK
<1>4. NextIsAwake'
  BY <1>0, ScheduleConstants DEF NextIsAwake, LockFree
<1>5. SlotInv'
  <2> SUFFICES ASSUME NEW v \in Vm PROVE SlotOk(v)'
    BY DEF SlotInv
  <2>1. SlotOk(v) /\ slot' = slot
    BY <1>0 DEF IInv, SlotInv
  <2>2. CASE slot[v].obj = t
    <3>1. t \in overlap'
      BY <1>0, <2>1, <2>2, ScheduleConstants, Zenon DEF SlotOk, thread_quiesce_active
    <3> QED BY <2>1, <2>2, <3>1 DEF SlotOk
  <2>3. CASE slot[v].obj # t /\ slot[v].obj # None
    <3>1. slot[v].obj \in Thread /\ freeze_epoch'[slot[v].obj] = freeze_epoch[slot[v].obj]
      BY <1>0, <2>3 DEF IInv, TypeOK, SlotType
    <3>2. slot[v].obj \in overlap => slot[v].obj \in overlap'
      BY <1>0
    <3> QED BY <1>2, <2>1, <2>3, <3>1, <3>2, Zenon DEF SlotOk
  <2>4. CASE slot[v].obj = None
    BY <2>1, <2>4 DEF SlotOk
  <2> QED BY <2>2, <2>3, <2>4
<1>6. FreezeTransparent'
  BY <1>0, <1>1, <1>2 DEF IInv, TypeOK, FreezeTransparent
<1> QED BY <1>2, <1>3, <1>4, <1>5, <1>6 DEF IInv

(* thaw_thread() and the wake it replays keep the invariant.               *)
LEMMA ThawThreadIInv ==
    ASSUME IInv, NEW t \in Thread, NEW e \in Epoch, NEW remote \in BOOLEAN,
           ThawThread(t, e, remote)
    PROVE  IInv'
<1>0. /\ UNCHANGED <<curr_obj, priority_pending, slot, quiesce_mask, overlap, wake_owned,
                     pcpu_flag, next, idle_pc, due>>
      /\ LockFree
      /\ freeze_epoch[t] # 0
      /\ freeze_epoch' = [freeze_epoch EXCEPT ![t] = 0]
      /\ deferred_wake' = deferred_wake \ {t}
  BY ScheduleConstants DEF ThawThread, CanCall, quiesce, Epoch
<1>1. NextIsAwake'
  BY <1>0, ScheduleConstants DEF NextIsAwake, LockFree
<1>2. CASE t \in wake_owned \cup deferred_wake
  <2>0. wake_thread_locked(t, remote)
    BY <1>2 DEF ThawThread
  <2>1. /\ status' \in [Thread -> Status] /\ be_blocking' \in SUBSET Thread
        /\ runq' \in SUBSET Thread /\ need_resched' \in BOOLEAN /\ sgi' \in BOOLEAN
        /\ CurrentIsRunning' /\ QueuedIsAwake' /\ QueueIsAwake'
        /\ \A u \in Thread : Awake(u)' <=> Awake(u) \/ u = t
        /\ \A u \in Thread \ {t} : is_blocked(u) /\ u \notin be_blocking
                                   => is_blocked(u)' /\ u \notin be_blocking'
    BY <1>0, <2>0, WakeLocked DEF IInv, Core
  <2>2. TypeOK'
    BY <1>0, <2>1, Zenon DEF IInv, TypeOK
  <2>3. SlotInv'
    <3>1. ASSUME NEW v \in Vm, slot[v].obj = t PROVE t \in overlap
      <4>1. SlotOk(v)
        BY DEF IInv, SlotInv
      <4>2. slot[v].obj # None
        BY <3>1, ScheduleConstants
      <4>3. slot[v].obj \notin overlap => freeze_epoch[slot[v].obj] = 0
        BY <4>1, <4>2 DEF SlotOk
      <4> QED BY <3>1, <4>3, <1>0
    <3> SUFFICES ASSUME NEW v \in Vm PROVE SlotOk(v)'
      BY DEF SlotInv
    <3>2. SlotOk(v)
      BY DEF IInv, SlotInv
    <3>3. CASE slot[v].obj = t
      BY <1>0, <3>1, <3>2, <3>3 DEF SlotOk
    <3>4. CASE slot[v].obj # t
      BY <1>0, <2>1, <3>2, <3>4 DEF IInv, TypeOK, SlotType, SlotOk
    <3> QED BY <3>3, <3>4
  <2>4. FreezeTransparent'
    BY <1>0, <1>2, <2>1 DEF IInv, TypeOK, FreezeTransparent
  <2> QED BY <1>1, <2>1, <2>2, <2>3, <2>4 DEF IInv
<1>3. CASE t \notin wake_owned \cup deferred_wake
  <2>1. UNCHANGED <<status, be_blocking, runq, need_resched, sgi>>
    BY <1>3 DEF ThawThread, no_reschedule_request
  <2>2. TypeOK'
    BY <1>0, <2>1 DEF IInv, TypeOK
  <2>3. CurrentIsRunning' /\ QueuedIsAwake' /\ QueueIsAwake'
    BY <1>0, <2>1 DEF IInv, TypeOK, CurrentIsRunning, QueuedIsAwake, QueueIsAwake, Awake,
                      is_blocked
  <2>4. SlotInv'
    <3> SUFFICES ASSUME NEW v \in Vm PROVE SlotOk(v)'
      BY DEF SlotInv
    <3>1. SlotOk(v) /\ slot' = slot /\ overlap' = overlap
      BY <1>0 DEF IInv, SlotInv
    <3>2. slot[v].obj \in Thread \cup {None}
      BY DEF IInv, TypeOK, SlotType
    <3>3. CASE slot[v].obj = None
      BY <3>1, <3>3, Zenon DEF SlotOk
    <3>4. CASE slot[v].obj \in Thread
      <4>1. freeze_epoch[slot[v].obj] = 0 => freeze_epoch'[slot[v].obj] = 0
        BY <3>4, <1>0 DEF IInv, TypeOK
      <4> QED BY <2>1, <3>1, <4>1, Zenon DEF SlotOk, is_blocked
    <3> QED BY <3>2, <3>3, <3>4
  <2>5. FreezeTransparent'
    BY <1>0, <1>3, <2>1 DEF IInv, TypeOK, FreezeTransparent, Awake, is_blocked
  <2> QED BY <1>1, <2>2, <2>3, <2>4, <2>5 DEF IInv
<1> QED BY <1>2, <1>3

-----------------------------------------------------------------------------
(* The quiesce slots.                                                      *)

(* request_thread_quiesce() keeps the invariant.                           *)
LEMMA RequestThreadQuiesceIInv ==
    ASSUME IInv, NEW t \in Thread, NEW g \in Gen, NEW remote \in BOOLEAN,
           RequestThreadQuiesce(t, g, remote)
    PROVE  IInv'
<1>0. /\ UNCHANGED <<curr_obj, status, be_blocking, runq, priority_pending, freeze_epoch,
                     deferred_wake, wake_owned, pcpu_flag, next, idle_pc, due>>
      /\ LockFree /\ SlotAvailable(t)
      /\ overlap' = (IF freeze_epoch[t] # 0 THEN overlap \cup {t} ELSE overlap)
      /\ slot' = [slot EXCEPT ![VmOf[t]].obj = t, ![VmOf[t]].request_gen = g]
      /\ quiesce_mask' = quiesce_mask \cup {VmOf[t]}
      /\ need_resched' = TRUE /\ sgi' = (sgi \/ remote)
  BY DEF RequestThreadQuiesce, CanCall, freeze, make_reschedule_request
<1>1. g \in Nat /\ g # 0 /\ VmOf[t] \in Vm
  BY ScheduleConstants DEF Gen
<1>2. /\ slot' \in [Vm -> SlotType]
      /\ slot'[VmOf[t]].obj = t
      /\ slot'[VmOf[t]].request_gen = g
      /\ slot'[VmOf[t]].ack_gen = slot[VmOf[t]].ack_gen
      /\ \A v \in Vm \ {VmOf[t]} : slot'[v] = slot[v]
  BY <1>0, <1>1 DEF IInv, TypeOK, SlotType
<1>3. TypeOK'
  BY <1>0, <1>1, <1>2 DEF IInv, TypeOK
<1>4. NextIsAwake'
  BY <1>0, ScheduleConstants DEF NextIsAwake, LockFree
<1>5. CurrentIsRunning' /\ QueuedIsAwake' /\ QueueIsAwake' /\ FreezeTransparent'
  BY <1>0 DEF IInv, TypeOK, CurrentIsRunning, QueuedIsAwake, QueueIsAwake,
              FreezeTransparent, Awake, is_blocked
<1>6. slot[VmOf[t]].obj \in {None, t}
  BY <1>1, ScheduleConstants DEF IInv, TypeOK, SlotType, SlotInv, SlotOk
<1>7. SlotInv'
  <2> SUFFICES ASSUME NEW v \in Vm PROVE SlotOk(v)'
    BY DEF SlotInv
  <2>0. SlotOk(v) /\ UNCHANGED <<status, be_blocking, freeze_epoch>>
    BY <1>0 DEF IInv, SlotInv
  <2>1. CASE v = VmOf[t]
    BY <2>0, <2>1, <1>0, <1>1, <1>2, <1>6, ScheduleConstants DEF SlotOk, is_blocked
  <2>2. CASE v # VmOf[t]
    BY <2>0, <2>2, <1>0, <1>2, ScheduleConstants DEF SlotOk, is_blocked
  <2> QED BY <2>1, <2>2
<1> QED BY <1>3, <1>4, <1>5, <1>7 DEF IInv

(* release_thread_quiesce() keeps the invariant.                           *)
LEMMA ReleaseThreadQuiesceIInv ==
    ASSUME IInv, NEW t \in Thread, NEW remote \in BOOLEAN,
           ReleaseThreadQuiesce(t, remote)
    PROVE  IInv'
<1>0. /\ UNCHANGED <<curr_obj, status, be_blocking, runq, need_resched, priority_pending,
                     freeze_epoch, deferred_wake, wake_owned, pcpu_flag, next, idle_pc,
                     sgi, due>>
      /\ LockFree
      /\ slot' = [slot EXCEPT ![VmOf[t]] = FreeSlot]
      /\ quiesce_mask' = quiesce_mask \ {VmOf[t]}
      /\ overlap' = overlap \ {t}
  BY DEF ReleaseThreadQuiesce, CanCall, freeze, idle
<1>1. FreeSlot \in SlotType /\ VmOf[t] \in Vm
  BY ScheduleConstants DEF FreeSlot, SlotType
<1>2. TypeOK'
  BY <1>0, <1>1 DEF IInv, TypeOK
<1>3. NextIsAwake'
  BY <1>0, ScheduleConstants DEF NextIsAwake, LockFree
<1>4. CurrentIsRunning' /\ QueuedIsAwake' /\ QueueIsAwake' /\ FreezeTransparent'
  BY <1>0 DEF IInv, TypeOK, CurrentIsRunning, QueuedIsAwake, QueueIsAwake,
              FreezeTransparent, Awake, is_blocked
<1>5. SlotInv'
  <2> SUFFICES ASSUME NEW v \in Vm PROVE SlotOk(v)'
    BY DEF SlotInv
  <2>0. SlotOk(v)
    BY DEF IInv, SlotInv
  <2>1. CASE v = VmOf[t]
    BY <2>1, <1>0, <1>1, Zenon DEF IInv, TypeOK, SlotOk, FreeSlot
  <2>2. CASE v # VmOf[t]
    <3>1. slot'[v] = slot[v]
      BY <2>2, <1>0 DEF IInv, TypeOK
    <3>2. slot[v].obj # None => slot[v].obj # t
      BY <2>0, <2>2 DEF SlotOk
    <3>3. slot[v].obj # t
      BY <3>2, ScheduleConstants, Zenon
    <3>4. slot[v].obj \in overlap' <=> slot[v].obj \in overlap
      BY <3>3, <1>0, Zenon
    <3>5. UNCHANGED <<freeze_epoch, status, be_blocking>>
      BY <1>0
    <3> QED BY <2>0, <3>1, <3>4, <3>5 DEF SlotOk, is_blocked
  <2> QED BY <2>1, <2>2
<1> QED BY <1>2, <1>3, <1>4, <1>5 DEF IInv

(* The acknowledgement of the idle loop keeps the invariant.               *)
LEMMA IdleAckQuiesceIInv == IInv /\ IdleAckQuiesce => IInv'
<1> SUFFICES ASSUME IInv, IdleAckQuiesce PROVE IInv'
  OBVIOUS
<1>0. /\ UNCHANGED <<curr_obj, status, be_blocking, runq, priority_pending, freeze_epoch,
                     deferred_wake, wake_owned, pcpu_flag, next, sgi, due, overlap>>
      /\ LockFree
      /\ quiesce_mask' = quiesce_mask \ Acknowledged
      /\ slot' = [v \in Vm |-> IF v \in Acknowledged
                                THEN [slot[v] EXCEPT !.ack_gen = slot[v].request_gen]
                                ELSE slot[v]]
      /\ need_resched' \in BOOLEAN /\ idle_pc' = "test"
  BY DEF IdleAckQuiesce, IdleRuns, freeze, IInv, TypeOK
<1>1. /\ slot' \in [Vm -> SlotType]
      /\ \A v \in Vm : /\ slot'[v].obj = slot[v].obj
                       /\ slot'[v].request_gen = slot[v].request_gen
                       /\ v \notin Acknowledged => slot'[v].ack_gen = slot[v].ack_gen
  BY <1>0 DEF IInv, TypeOK, SlotType
<1>2. TypeOK'
  BY <1>0, <1>1 DEF IInv, TypeOK, IdlePc
<1>3. NextIsAwake'
  BY <1>0, ScheduleConstants DEF NextIsAwake, LockFree
<1>4. CurrentIsRunning' /\ QueuedIsAwake' /\ QueueIsAwake' /\ FreezeTransparent'
  BY <1>0 DEF IInv, TypeOK, CurrentIsRunning, QueuedIsAwake, QueueIsAwake,
              FreezeTransparent, Awake, is_blocked
<1>5. SlotInv'
  <2>1. \A v \in Acknowledged : /\ slot[v].obj \in Thread
                                /\ is_blocked(slot[v].obj)
                                /\ slot[v].obj \notin be_blocking
                                /\ slot'[v].ack_gen = slot[v].request_gen
    BY <1>0 DEF IInv, TypeOK, SlotType, Acknowledged
  <2>2. UNCHANGED <<status, be_blocking, freeze_epoch, overlap>>
    BY <1>0
  <2> SUFFICES ASSUME NEW v \in Vm PROVE SlotOk(v)'
    BY DEF SlotInv
  <2>3. SlotOk(v)
    BY DEF IInv, SlotInv
  <2>4. CASE v \in Acknowledged
    <3>1. /\ slot[v].obj # None
          /\ slot'[v].obj = slot[v].obj
          /\ slot'[v].request_gen = slot[v].request_gen
          /\ slot'[v].ack_gen = slot[v].request_gen
      BY <1>1, <2>1, <2>4, Zenon DEF Acknowledged
    <3> QED BY <2>1, <2>2, <2>3, <2>4, <3>1 DEF SlotOk, is_blocked
  <2>5. CASE v \notin Acknowledged
    <3>1. slot'[v] = slot[v]
      BY <1>0, <2>5 DEF IInv, TypeOK
    <3> QED BY <2>2, <2>3, <3>1, Zenon DEF SlotOk, is_blocked
  <2> QED BY <2>4, <2>5
<1> QED BY <1>2, <1>3, <1>4, <1>5 DEF IInv

-----------------------------------------------------------------------------
(* Every step preserves the invariant, one step per action.                *)
THEOREM NextIInv == IInv /\ [Next]_vars => IInv'
<1> SUFFICES ASSUME IInv, [Next]_vars PROVE IInv'
  OBVIOUS
<1> USE DEF quiesce, freeze, idle
<1>1. ASSUME NEW remote \in BOOLEAN, NEW t \in Thread, SleepThread(t, remote)
      PROVE  IInv'
  BY <1>1, SleepThreadIInv
<1>2. ASSUME NEW remote \in BOOLEAN, NEW t \in Thread, WakeThread(t, remote)
      PROVE  IInv'
  BY <1>2, WakeThreadIInv
<1>3. ASSUME NEW remote \in BOOLEAN, NEW t \in Thread, NEW g \in Gen,
             RequestThreadQuiesce(t, g, remote)
      PROVE  IInv'
  BY <1>3, RequestThreadQuiesceIInv
<1>4. ASSUME NEW remote \in BOOLEAN, NEW t \in Thread, ReleaseThreadQuiesce(t, remote)
      PROVE  IInv'
  BY <1>4, ReleaseThreadQuiesceIInv
<1>5. ASSUME NEW remote \in BOOLEAN, NEW t \in Thread, NEW e \in Epoch,
             FreezeThread(t, e, remote)
      PROVE  IInv'
  BY <1>5, FreezeThreadIInv
<1>6. ASSUME NEW remote \in BOOLEAN, NEW t \in Thread, NEW e \in Epoch,
             ThawThread(t, e, remote)
      PROVE  IInv'
  BY <1>6, ThawThreadIInv
<1>7. ASSUME NEW remote \in BOOLEAN, NEW t \in Thread, ResetThreadData(t, remote)
      PROVE  IInv'
  <2>1. TypeOK'
    BY <1>7 DEF ResetThreadData, IInv, TypeOK
  <2>2. /\ deferred_wake' = deferred_wake \ {t} /\ freeze_epoch[t] = 0
        /\ UNCHANGED <<status, be_blocking, curr_obj, runq, slot, quiesce_mask, overlap,
                       freeze_epoch, wake_owned, due, next>>
    BY <1>7, Zenon DEF ResetThreadData, CanReset
  <2>3. CurrentIsRunning' /\ NextIsAwake' /\ QueuedIsAwake' /\ QueueIsAwake'
    BY <2>2, Zenon DEF IInv, CurrentIsRunning, NextIsAwake, QueuedIsAwake, QueueIsAwake, Awake,
                is_blocked
  <2>4. SlotInv'
    BY <2>2 DEF IInv, SlotInv, SlotOk, is_blocked
  <2>5. FreezeTransparent'
    BY <2>2 DEF IInv, FreezeTransparent, Awake, is_blocked
  <2> QED BY <2>1, <2>3, <2>4, <2>5 DEF IInv
<1>8. ASSUME NEW remote \in BOOLEAN, NEW t \in Thread, RequestThreadPriority(t, remote)
      PROVE  IInv'
  <2>1. TypeOK'
    BY <1>8 DEF RequestThreadPriority, make_reschedule_request, IInv, TypeOK
  <2> QED BY <1>8, <2>1, QuietStep DEF RequestThreadPriority
<1>9. ASSUME NEW remote \in BOOLEAN, NEW f \in Management \ {"SHUTDOWN"},
             MakeIdleRequest(f, remote)
      PROVE  IInv'
  <2>1. TypeOK'
    BY <1>9, ScheduleConstants DEF MakeIdleRequest, make_reschedule_request, IInv, TypeOK
  <2> QED BY <1>9, <2>1, QuietStep DEF MakeIdleRequest
<1>10. ASSUME NEW remote \in BOOLEAN, MakeShutdownRequest(remote)
       PROVE  IInv'
  <2>1. TypeOK'
    BY <1>10 DEF MakeShutdownRequest, IInv, TypeOK, Request
  <2> QED BY <1>10, <2>1, QuietStep DEF MakeShutdownRequest
<1>11. ASSUME NEW t \in Thread, RequestThreadPriorityNoResched(t)
       PROVE  IInv'
  <2>1. TypeOK'
    BY <1>11 DEF RequestThreadPriorityNoResched, IInv, TypeOK
  <2> QED BY <1>11, <2>1, QuietStep DEF RequestThreadPriorityNoResched
<1>12. CASE ScheduleBegin
  BY <1>12, ScheduleBeginIInv
<1>13. CASE ScheduleEnd
  BY <1>13, ScheduleEndIInv
<1>14. CASE ClearRescheduleIfCurrentOnly
  <2>1. TypeOK'
    BY <1>14, Zenon DEF ClearRescheduleIfCurrentOnly, IInv, TypeOK
  <2> QED BY <1>14, <2>1, QuietStep DEF ClearRescheduleIfCurrentOnly
<1>15. CASE PolicyTick
  <2>1. /\ runq' \in SUBSET Thread
        /\ \A u \in runq' : Awake(u)
        /\ Keeps => runq' = runq
    BY <1>15 DEF PolicyTick, Requeue, IInv, TypeOK, QueuedIsAwake, CurrentIsRunning, Awake,
                 is_blocked, Keeps, KeepPolicy
  <2>2. need_resched' \in BOOLEAN
    BY <1>15 DEF PolicyTick, IInv, TypeOK
  <2>3. idle_pc' \in IdlePc
    BY <1>15 DEF PolicyTick, IInv, TypeOK, IdlePc
  <2>4. UNCHANGED <<curr_obj, status, be_blocking, priority_pending, slot, quiesce_mask,
                    overlap, freeze_epoch, deferred_wake, wake_owned, pcpu_flag, next, sgi,
                    due>>
    BY <1>15 DEF PolicyTick
  <2>5. TypeOK'
    BY <2>1, <2>2, <2>3, <2>4 DEF IInv, TypeOK
  <2>6. CurrentIsRunning' /\ NextIsAwake' /\ QueuedIsAwake' /\ QueueIsAwake'
    BY <2>1, <2>4 DEF IInv, CurrentIsRunning, NextIsAwake, QueuedIsAwake, QueueIsAwake,
                      Awake, is_blocked
  <2>7. SlotInv' /\ FreezeTransparent'
    BY <2>4 DEF IInv, SlotInv, SlotOk, FreezeTransparent, Awake, is_blocked
  <2> QED BY <2>5, <2>6, <2>7 DEF IInv
<1>16. CASE IdleAckQuiesce
  BY <1>16, IdleAckQuiesceIInv
<1>17. CASE IdleManagement
  <2>1. TypeOK'
    BY <1>17, Zenon DEF IdleManagement, IdleTakes, IInv, TypeOK, IdlePc
  <2> QED BY <1>17, <2>1, QuietStep DEF IdleManagement
<1>18. CASE IdleSeesNothing
  <2>1. TypeOK'
    BY <1>18 DEF IdleSeesNothing, IInv, TypeOK, IdlePc
  <2> QED BY <1>18, <2>1, QuietStep DEF IdleSeesNothing
<1>19. CASE Wfi
  <2>1. TypeOK'
    BY <1>19 DEF Wfi, IInv, TypeOK, IdlePc
  <2> QED BY <1>19, <2>1, QuietStep DEF Wfi
<1>20. CASE TakeInterrupt
  <2>1. TypeOK'
    BY <1>20, Zenon DEF TakeInterrupt, IInv, TypeOK, IdlePc
  <2> QED BY <1>20, <2>1, QuietStep DEF TakeInterrupt
<1>21. CASE UNCHANGED vars
  <2>1. TypeOK'
    BY <1>21 DEF vars, IInv, TypeOK
  <2> QED BY <1>21, <2>1, QuietStep DEF vars
<1> QED
  BY <1>1, <1>2, <1>3, <1>4, <1>5, <1>6, <1>7, <1>8, <1>9, <1>10, <1>11, <1>12, <1>13,
     <1>14, <1>15, <1>16, <1>17, <1>18, <1>19, <1>20, <1>21
  DEF Next, Callers, Dispatch, IdleLoop

(* The inductive invariant of the scheduler framework: who runs, who is    *)
(* queued, whose quiesce slot is acknowledged and which wakes a freeze     *)
(* owes agree at every step of schedule(), the idle loop and their         *)
(* callers.                                                                *)
THEOREM InvariantHolds == Spec => []IInv
BY InitIInv, NextIInv, PTL DEF Spec

(* Type correctness, for every set of threads and every policy class.      *)
THEOREM TypeCorrect == Spec => []TypeOK
<1>1. IInv => TypeOK
  BY DEF IInv
<1> QED BY <1>1, InvariantHolds, PTL

(* The status of every thread agrees with who is on the pCPU, whatever     *)
(* interleaves with schedule(), sleep_thread() and wake_thread().          *)
THEOREM CurrentIsRunningHolds == Spec => []CurrentIsRunning
<1>1. IInv => CurrentIsRunning
  BY DEF IInv
<1> QED BY <1>1, InvariantHolds, PTL

(* No blocked thread is ever linked in a policy queue.                     *)
THEOREM QueuedIsAwakeHolds == Spec => []QueuedIsAwake
<1>1. IInv => QueuedIsAwake
  BY DEF IInv
<1> QED BY <1>1, InvariantHolds, PTL

(* Under noop, prio, iorr and bvt the queue is the set of threads that     *)
(* want the pCPU: none is lost.                                            *)
THEOREM QueueIsAwakeHolds == Spec => []QueueIsAwake
<1>1. IInv => QueueIsAwake
  BY DEF IInv
<1> QED BY <1>1, InvariantHolds, PTL

(* A matching quiesce acknowledgement means the vCPU thread is switched    *)
(* out and queued nowhere, for any number of threads and generations, as   *)
(* long as no freeze overlaps the quiesce.                                 *)
THEOREM QuiescedIsOffHolds == Spec => []QuiescedIsOff
<1>1. IInv => QuiescedIsOff
  <2> SUFFICES ASSUME IInv, NEW t \in Thread \ overlap, NEW g \in Gen,
                      is_thread_quiesced(t, g)
               PROVE  SwitchedOut(t)
    BY DEF QuiescedIsOff
  <2>1. VmOf[t] \in Vm /\ t # None
    BY ScheduleConstants
  <2>2. is_blocked(t) /\ t \notin be_blocking
    BY <2>1 DEF IInv, SlotInv, SlotOk, is_thread_quiesced
  <2>3. t \notin runq /\ t # next
    BY <2>2 DEF IInv, QueuedIsAwake, NextIsAwake, Awake
  <2>4. t # curr_obj
    BY <2>2 DEF IInv, CurrentIsRunning, is_blocked
  <2> QED BY <2>2, <2>3, <2>4 DEF SwitchedOut
<1> QED BY <1>1, InvariantHolds, PTL

(* The PM freeze gate neither loses nor invents a wake.                    *)
THEOREM FreezeTransparentHolds == Spec => []FreezeTransparent
<1>1. IInv => FreezeTransparent
  BY DEF IInv
<1> QED BY <1>1, InvariantHolds, PTL

-----------------------------------------------------------------------------
(* While a quiesce request is unacknowledged schedule() switches to no     *)
(* thread but idle.  Only ScheduleEnd changes curr_obj, to a choice that   *)
(* ScheduleBegin made under the lock.                                      *)
THEOREM QuiesceForcesIdleHolds == Spec => QuiesceForcesIdle
<1>1. IInv /\ [Next]_vars => [curr_obj' # curr_obj /\ quiesce_mask # {} => curr_obj' = Idle]_vars
  <2> SUFFICES ASSUME IInv, Next, curr_obj' # curr_obj, quiesce_mask # {}
               PROVE  curr_obj' = Idle
    OBVIOUS
  <2>1. ScheduleEnd
    <3>1. Callers => UNCHANGED curr_obj
      <4>1. ASSUME NEW t \in Thread, NEW remote \in BOOLEAN,
                   \/ SleepThread(t, remote) \/ WakeThread(t, remote)
                   \/ ReleaseThreadQuiesce(t, remote) \/ ResetThreadData(t, remote)
                   \/ RequestThreadPriority(t, remote)
            PROVE  UNCHANGED curr_obj
        BY <4>1 DEF SleepThread, WakeThread, ReleaseThreadQuiesce, ResetThreadData,
                    RequestThreadPriority
      <4>2. ASSUME NEW t \in Thread, NEW remote \in BOOLEAN, NEW g,
                   \/ RequestThreadQuiesce(t, g, remote) \/ FreezeThread(t, g, remote)
                   \/ ThawThread(t, g, remote)
            PROVE  UNCHANGED curr_obj
        BY <4>2 DEF RequestThreadQuiesce, FreezeThread, ThawThread
      <4>3. ASSUME NEW remote \in BOOLEAN, NEW f,
                   MakeIdleRequest(f, remote) \/ MakeShutdownRequest(remote)
            PROVE  UNCHANGED curr_obj
        BY <4>3 DEF MakeIdleRequest, MakeShutdownRequest
      <4> QED BY <4>1, <4>2, <4>3, Zenon DEF Callers
    <3>2. IdleLoop => UNCHANGED curr_obj
      BY DEF IdleLoop, IdleAckQuiesce, IdleManagement, IdleSeesNothing, Wfi
    <3>3. ScheduleBegin \/ ClearRescheduleIfCurrentOnly \/ PolicyTick \/ TakeInterrupt
            => UNCHANGED curr_obj
      BY DEF ScheduleBegin, ClearRescheduleIfCurrentOnly, PolicyTick, TakeInterrupt
    <3>4. ASSUME NEW t \in Thread, RequestThreadPriorityNoResched(t)
          PROVE  UNCHANGED curr_obj
      BY <3>4 DEF RequestThreadPriorityNoResched
    <3> QED BY <3>1, <3>2, <3>3, <3>4 DEF Next, Dispatch
  <2>2. next # None /\ curr_obj' = next
    BY <2>1 DEF ScheduleEnd, LockFree
  <2> QED BY <2>2 DEF IInv, TypeOK, NextIsAwake
<1> QED BY <1>1, InvariantHolds, PTL DEF Spec, QuiesceForcesIdle

(* A thread that is_thread_frozen() reports off its pCPU stays off, under  *)
(* the same epoch, until the thaw.  The wakes that could bring it back are *)
(* deferred by the gate, a second freeze must carry the same epoch, and    *)
(* schedule() switches to awake threads only.                              *)
THEOREM FrozenUntilThawHolds == Spec => FrozenUntilThaw
<1>1. IInv /\ [Next]_vars
        => [\A t \in Thread : \A e \in Epoch :
               is_thread_frozen(t, e) => is_thread_frozen(t, e)' \/ freeze_epoch'[t] = 0]_vars
  <2> SUFFICES ASSUME IInv, Next, NEW u \in Thread, NEW d \in Epoch, is_thread_frozen(u, d),
                      freeze_epoch'[u] # 0
               PROVE  is_thread_frozen(u, d)'
    OBVIOUS
  <2> DEFINE Off == is_blocked(u) /\ u \notin be_blocking
             Kept == Off' /\ freeze_epoch'[u] = d
  <2>0. TypeOK /\ CurrentIsRunning /\ NextIsAwake /\ QueuedIsAwake /\ QueueIsAwake
    BY Zenon DEF IInv
  <2>1. Off /\ freeze_epoch[u] = d /\ d # 0 /\ freeze_epoch \in [Thread -> Nat] /\ Core
    <3>1. Off /\ freeze_epoch[u] = d
      BY Zenon DEF is_thread_frozen
    <3>2. d # 0
      BY ScheduleConstants DEF Epoch
    <3>3. freeze_epoch \in [Thread -> Nat]
      BY <2>0, Zenon DEF TypeOK
    <3>4. Core
      BY <2>0, Zenon DEF Core
    <3> QED BY <3>1, <3>2, <3>3, <3>4
  <2>2. UNCHANGED <<status, be_blocking, freeze_epoch>> => Kept
    BY <2>1 DEF is_blocked
  <2> HIDE DEF Off
  <2>3. ASSUME NEW remote \in BOOLEAN, NEW t \in Thread, SleepThread(t, remote) PROVE Kept
    <3>1. /\ LockFree /\ sleep_thread_locked(t, remote)
          /\ UNCHANGED <<curr_obj, next, freeze_epoch>>
      BY <2>3 DEF SleepThread, CanCall, freeze
    <3> QED BY <2>1, <3>1, SleepLocked DEF Off
  <2>4. ASSUME NEW remote \in BOOLEAN, NEW t \in Thread, WakeThread(t, remote) PROVE Kept
    <3>1. LockFree /\ UNCHANGED <<curr_obj, next, freeze_epoch>>
      BY <2>4 DEF WakeThread, CanCall
    <3>2. CASE freeze_epoch[t] # 0
      BY <2>2, <2>4, <3>1, <3>2 DEF WakeThread
    <3>3. CASE freeze_epoch[t] = 0
      <4>1. wake_thread_locked(t, remote) /\ u # t
        BY <2>1, <2>4, <3>3 DEF WakeThread
      <4> QED BY <2>1, <3>1, <4>1, WakeLocked DEF Off
    <3> QED BY <3>2, <3>3
  <2>5. ASSUME NEW remote \in BOOLEAN, NEW t \in Thread, NEW e \in Epoch,
               FreezeThread(t, e, remote)
        PROVE  Kept
    <3>1. /\ LockFree /\ sleep_thread_locked(t, remote) /\ UNCHANGED <<curr_obj, next>>
          /\ freeze_epoch[t] \in {0, e} /\ freeze_epoch' = [freeze_epoch EXCEPT ![t] = e]
      BY <2>5 DEF FreezeThread, CanCall
    <3>2. Off'
      BY <2>1, <3>1, SleepLocked DEF Off
    <3> QED BY <2>1, <3>1, <3>2
  <2>6. ASSUME NEW remote \in BOOLEAN, NEW t \in Thread, NEW e \in Epoch,
               ThawThread(t, e, remote)
        PROVE  Kept
    <3>1. /\ LockFree /\ UNCHANGED <<curr_obj, next>> /\ u # t
          /\ freeze_epoch'[u] = freeze_epoch[u]
      BY <2>1, <2>6 DEF ThawThread, CanCall
    <3>2. CASE t \in wake_owned \cup deferred_wake
      <4>1. wake_thread_locked(t, remote)
        BY <2>6, <3>2 DEF ThawThread
      <4> QED BY <2>1, <3>1, <4>1, WakeLocked DEF Off
    <3>3. CASE t \notin wake_owned \cup deferred_wake
      BY <2>1, <2>6, <3>1, <3>3 DEF ThawThread, Off, is_blocked
    <3> QED BY <3>2, <3>3
  <2>7. ASSUME ScheduleEnd PROVE Kept
    BY <2>1, <2>7, SwitchKeepsAwake, Zenon DEF Off, ScheduleEnd, freeze
  <2>8. ASSUME NEW remote \in BOOLEAN, NEW t \in Thread,
               \/ ReleaseThreadQuiesce(t, remote) \/ ResetThreadData(t, remote)
               \/ RequestThreadPriority(t, remote) \/ RequestThreadPriorityNoResched(t)
        PROVE  Kept
    BY <2>2, <2>8, Zenon DEF ReleaseThreadQuiesce, ResetThreadData, RequestThreadPriority,
                      RequestThreadPriorityNoResched, freeze
  <2>9. ASSUME NEW remote \in BOOLEAN, NEW t \in Thread, NEW g \in Gen,
               RequestThreadQuiesce(t, g, remote)
        PROVE  Kept
    BY <2>2, <2>9 DEF RequestThreadQuiesce, freeze
  <2>10. ASSUME NEW remote \in BOOLEAN, NEW f, MakeIdleRequest(f, remote) PROVE Kept
    BY <2>2, <2>10 DEF MakeIdleRequest, freeze
  <2>11. ASSUME NEW remote \in BOOLEAN, MakeShutdownRequest(remote) PROVE Kept
    BY <2>2, <2>11 DEF MakeShutdownRequest, freeze
  <2>12. ASSUME NEW t \in Thread, RequestThreadPriorityNoResched(t) PROVE Kept
    BY <2>2, <2>12 DEF RequestThreadPriorityNoResched, freeze
  <2>13. ScheduleBegin \/ ClearRescheduleIfCurrentOnly \/ PolicyTick \/ TakeInterrupt => Kept
    BY <2>2 DEF ScheduleBegin, ClearRescheduleIfCurrentOnly, PolicyTick, TakeInterrupt, freeze
  <2>14. IdleLoop => Kept
    BY <2>2 DEF IdleLoop, IdleAckQuiesce, IdleManagement, IdleSeesNothing, Wfi, freeze
  <2>15. Kept
    <3>1. Callers => Kept
      BY <2>3, <2>4, <2>5, <2>6, <2>8, <2>9, <2>10, <2>11 DEF Callers
    <3> QED BY <2>7, <2>12, <2>13, <2>14, <3>1 DEF Next, Dispatch
  <2>16. curr_obj' # u
    <3>1. CurrentIsRunning'
      BY NextIInv DEF IInv
    <3> QED BY <2>15, <3>1 DEF Off, CurrentIsRunning, is_blocked
  <2> QED BY <2>15, <2>16 DEF is_thread_frozen, Off
<1> QED BY <1>1, InvariantHolds, PTL DEF Spec, FrozenUntilThaw
=============================================================================
