----------------------------- MODULE HostSuspend -----------------------------
(***************************************************************************)
(* Platform entry of a system suspend: platform_pm_enter() on the boot     *)
(* pCPU, the parking of the other pCPUs (arch/arm64/pm.c), the retention   *)
(* of timers and interrupt controller, and the simulated sleep of the QEMU *)
(* backend.  HvPm has all of this in two steps.                            *)
(*                                                                         *)
(* The boot pCPU (0) and the APs (1 .. NAp) share arm64_pm_secondary       *)
(* without a lock.  An AP takes its request whenever its scheduler gets to *)
(* the idle thread, which may be after the boot pCPU has given up on it.   *)
(***************************************************************************)
EXTENDS Naturals

CONSTANTS
    NAp,          \* secondary pCPUs, all active
    MaxEntry      \* bound on transactions

ASSUME HostConstants == NAp \in Nat /\ MaxEntry \in Nat

Ap == 1 .. NAp
Pcpu == 0 .. NAp

VARIABLES
    txn,          \* pm_transaction.data: epoch, state, wake (wake_bitmap # 0)
    sec,          \* arm64_pm_secondary; failed_suspend and failed_resume are
                  \* the pCPUs with a non-zero status
    asked,        \* APs whose NEED_SYSTEM_SUSPEND is set
    ap,           \* an AP in arch_pm_process_secondary_from_idle()
    event,        \* APs whose WFE event register is set
    tim, icc,     \* per pCPU: epoch that retains the timer, the GIC CPU
                  \* interface; 0 when it is not retained (valid = false)
    dist,         \* the same of the GIC distributor
    armed,        \* qemu_pm_uart_wake_armed
    pme           \* the boot pCPU in platform_pm_enter()

hostvars == <<txn, sec, asked, ap, event, tim, icc, dist, armed, pme>>

Clear == [epoch |-> 0, target |-> {}, parked |-> {}, resumed |-> {},
          release |-> FALSE, failed_suspend |-> {}, failed_resume |-> {}]

ApIdle == [pc |-> "idle", epoch |-> 0]

\* parked: secondary_suspended; platform, restore: the two statuses are errors
Out == [pc |-> "idle", idx |-> 0, parked |-> FALSE, platform |-> FALSE,
        restore |-> FALSE, restored |-> TRUE]

HostInit ==
    /\ txn = [epoch |-> 0, state |-> "RUNNING", wake |-> FALSE]
    /\ sec = Clear /\ asked = {} /\ event = {}
    /\ ap = [p \in Ap |-> ApIdle]
    /\ tim = [p \in Pcpu |-> 0] /\ icc = [p \in Pcpu |-> 0]
    /\ dist = 0 /\ armed = FALSE /\ pme = Out

At(pc) == pme.pc = pc
Jump(pc) == pme' = [pme EXCEPT !.pc = pc]
Retain(r, p, e) == IF r[p] = 0 THEN [r EXCEPT ![p] = e] ELSE r
Undo(r, p, e) == IF r[p] = e THEN [r EXCEPT ![p] = 0] ELSE r

-----------------------------------------------------------------------------
(* The transaction around the entry, HvPm in full.                         *)
\* external to this module: a transaction has reached PM_SUSPENDED
Begin ==
    /\ At("idle") /\ txn.state = "RUNNING" /\ txn.epoch < MaxEntry
    /\ txn' = [epoch |-> txn.epoch + 1, state |-> "SUSPENDED", wake |-> FALSE]
    /\ Jump("enter")
    /\ UNCHANGED <<sec, asked, ap, event, tim, icc, dist, armed>>

\* what hv_pm_process_from_idle does with the result; a rollback or a restore
\* that it starts ends in either state
Return ==
    /\ At("return")
    /\ \E s \in IF pme.restored /\ (pme.platform \/ txn.state = "SUSPENDED")
                THEN {"RUNNING", "FAILED"} ELSE {"FAILED"} :
          txn' = [txn EXCEPT !.state = s]
    /\ Jump("idle")
    /\ UNCHANGED <<sec, asked, ap, event, tim, icc, dist, armed>>

\* an interrupt ends the WFI, and is spent if it comes before it
Interrupted == pme' = IF At("asleep") THEN [pme EXCEPT !.pc = "poll"] ELSE pme

\* qemu_pm_wake_irq: a byte on the console; hv_pm_record_wake
WakeIrq ==
    /\ armed /\ txn.state \in {"SUSPENDED", "ABORTING"}
    /\ txn' = [txn EXCEPT !.wake = TRUE]
    /\ Interrupted
    /\ UNCHANGED <<sec, asked, ap, event, tim, icc, dist, armed>>

\* hv_pm_abort with the SGI of its make_system_suspend_request(BSP_CPU_ID)
Abort ==
    /\ txn.state = "SUSPENDED"
    /\ txn' = [txn EXCEPT !.state = "ABORTING"]
    /\ Interrupted
    /\ UNCHANGED <<sec, asked, ap, event, tim, icc, dist, armed>>

\* any other interrupt of the sleeping boot pCPU
OtherIrq ==
    /\ At("asleep") /\ Jump("poll")
    /\ UNCHANGED <<txn, sec, asked, ap, event, tim, icc, dist, armed>>

-----------------------------------------------------------------------------
(* arch_pm_process_secondary_from_idle, on an AP.                          *)
\* need_system_suspend: test and clear the request, load the record
ApTake(p) ==
    /\ p \in asked /\ ap[p].pc = "idle"
    /\ asked' = asked \ {p}
    /\ ap' = IF sec.epoch # 0 /\ p \in sec.target
             THEN [ap EXCEPT ![p] = [pc |-> "save", epoch |-> sec.epoch]]
             ELSE ap
    /\ UNCHANGED <<txn, sec, event, tim, icc, dist, armed, pme>>

\* the timer, then the CPU interface; an AP that fails reports it and goes on
ApSave(p) ==
    /\ ap[p].pc = "save"
    /\ tim' = Retain(tim, p, ap[p].epoch)
    /\ icc' = IF tim'[p] = ap[p].epoch THEN Retain(icc, p, ap[p].epoch) ELSE icc
    /\ sec' = [sec EXCEPT !.failed_suspend =
                  IF tim'[p] = ap[p].epoch /\ icc'[p] = ap[p].epoch
                  THEN @ ELSE @ \cup {p}]
    /\ ap' = [ap EXCEPT ![p].pc = "park"]
    /\ UNCHANGED <<txn, asked, event, dist, armed, pme>>

\* publish the parked bit, SEVL
ApPark(p) ==
    /\ ap[p].pc = "park"
    /\ sec' = [sec EXCEPT !.parked = @ \cup {p}]
    /\ ap' = [ap EXCEPT ![p].pc = IF p \in sec.failed_suspend THEN "restore" ELSE "test"]
    /\ event' = event \cup ({p} \ sec.failed_suspend)
    /\ UNCHANGED <<txn, asked, tim, icc, dist, armed, pme>>

ApTest(p) ==
    /\ ap[p].pc = "test"
    /\ ap' = [ap EXCEPT ![p].pc = IF sec.release THEN "restore" ELSE "wfe"]
    /\ UNCHANGED <<txn, sec, asked, event, tim, icc, dist, armed, pme>>

ApWfe(p) ==
    /\ ap[p].pc = "wfe" /\ p \in event
    /\ event' = event \ {p}
    /\ ap' = [ap EXCEPT ![p].pc = "test"]
    /\ UNCHANGED <<txn, sec, asked, tim, icc, dist, armed, pme>>

\* WFE may end for any interrupt of the AP
ApInterrupt(p) ==
    /\ ap[p].pc = "wfe"
    /\ ap' = [ap EXCEPT ![p].pc = "test"]
    /\ UNCHANGED <<txn, sec, asked, event, tim, icc, dist, armed, pme>>

ApRestore(p) ==
    /\ ap[p].pc = "restore"
    /\ icc' = Undo(icc, p, ap[p].epoch)
    /\ tim' = Undo(tim, p, ap[p].epoch)
    /\ sec' = [sec EXCEPT !.failed_resume =
                  IF p \notin sec.failed_suspend /\ (icc'[p] # 0 \/ tim'[p] # 0)
                  THEN @ \cup {p} ELSE @]
    /\ ap' = [ap EXCEPT ![p].pc = "resumed"]
    /\ UNCHANGED <<txn, asked, event, dist, armed, pme>>

ApResumed(p) ==
    /\ ap[p].pc = "resumed"
    /\ sec' = [sec EXCEPT !.resumed = @ \cup {p}]
    /\ ap' = [ap EXCEPT ![p] = ApIdle]
    /\ UNCHANGED <<txn, asked, event, tim, icc, dist, armed, pme>>

ApRuns(p) == ApSave(p) \/ ApPark(p) \/ ApTest(p) \/ ApWfe(p) \/ ApRestore(p) \/ ApResumed(p)

-----------------------------------------------------------------------------
(* platform_pm_enter, on the boot pCPU.                                    *)
\* the checks; an abort may have come between PM_SUSPENDED and here
Enter ==
    /\ At("enter")
    /\ pme' = [Out EXCEPT !.restored = FALSE, !.restore = txn.state # "SUSPENDED",
                          !.pc = IF txn.state = "SUSPENDED" THEN "prepare" ELSE "return"]
    /\ UNCHANGED <<txn, sec, asked, ap, event, tim, icc, dist, armed>>

\* ops->prepare arms the wake source or fails; suspend_console
Prepare ==
    /\ At("prepare")
    /\ \/ armed' = TRUE /\ Jump("publish")
       \/ /\ armed' = FALSE
          /\ pme' = [pme EXCEPT !.pc = "return", !.platform = TRUE, !.restored = TRUE]
    /\ UNCHANGED <<txn, sec, asked, ap, event, tim, icc, dist>>

\* arch_pm_suspend_secondary_cpus: a cleared record with epoch and targets
Publish ==
    /\ At("publish")
    /\ sec' = [Clear EXCEPT !.epoch = txn.epoch, !.target = Ap]
    /\ pme' = [pme EXCEPT !.pc = "request", !.idx = 1]
    /\ UNCHANGED <<txn, asked, ap, event, tim, icc, dist, armed>>

RequestIdle ==
    /\ At("request")
    /\ IF pme.idx \in Ap
       THEN asked' = asked \cup {pme.idx} /\ pme' = [pme EXCEPT !.idx = @ + 1]
       ELSE Jump("parking") /\ UNCHANGED asked
    /\ UNCHANGED <<txn, sec, ap, event, tim, icc, dist, armed>>

\* proceeds without the APs that did not answer
MutWaitParkedHasty ==
    /\ At("parking")
    /\ pme' = [pme EXCEPT !.pc = "suspend", !.parked = TRUE]
    /\ UNCHANGED <<txn, sec, asked, ap, event, tim, icc, dist, armed>>

\* every parked bit, or a timeout; an error releases the APs again
WaitParked ==
    /\ At("parking")
    /\ \/ /\ sec.target \subseteq sec.parked
          /\ pme' = IF sec.failed_suspend = {}
                    THEN [pme EXCEPT !.pc = "suspend", !.parked = TRUE]
                    ELSE [pme EXCEPT !.pc = "release", !.platform = TRUE]
       \/ /\ ~(sec.target \subseteq sec.parked)
          /\ pme' = [pme EXCEPT !.pc = "release", !.platform = TRUE]
    /\ UNCHANGED <<txn, sec, asked, ap, event, tim, icc, dist, armed>>

\* the boot pCPU's timer, then arm64_gicv3_pm_suspend, which may fail in the
\* ITS and then undoes its own CPU interface
SuspendHost ==
    /\ At("suspend")
    /\ tim' = Retain(tim, 0, txn.epoch)
    /\ \/ /\ tim'[0] = txn.epoch /\ dist \in {0, txn.epoch}
          /\ dist' = txn.epoch /\ icc' = Retain(icc, 0, txn.epoch) /\ Jump("wfi")
       \/ UNCHANGED <<dist, icc>> /\ pme' = [pme EXCEPT !.pc = "restore", !.platform = TRUE]
    /\ UNCHANGED <<txn, sec, asked, ap, event, armed>>

\* qemu_pm_simulated_wait: WFI before the first test
Wfi ==
    /\ At("wfi") /\ Jump("asleep")
    /\ UNCHANGED <<txn, sec, asked, ap, event, tim, icc, dist, armed>>

Poll ==
    /\ At("poll")
    /\ pme' = IF txn.state = "SUSPENDED" /\ ~txn.wake THEN [pme EXCEPT !.pc = "wfi"]
              ELSE [pme EXCEPT !.pc = "restore", !.platform = ~txn.wake]
    /\ UNCHANGED <<txn, sec, asked, ap, event, tim, icc, dist, armed>>

\* distributor, SMMU and timer are each tried; the first two may fail
RestoreHost ==
    /\ At("restore")
    /\ \E gic, smmu \in BOOLEAN :
          /\ dist' = IF gic THEN 0 ELSE dist
          /\ icc' = IF gic THEN Undo(icc, 0, txn.epoch) ELSE icc
          /\ pme' = [pme EXCEPT !.pc = IF pme.parked THEN "release" ELSE "finish",
                                !.restore = @ \/ dist' # 0 \/ ~smmu]
    /\ tim' = Undo(tim, 0, txn.epoch)
    /\ UNCHANGED <<txn, sec, asked, ap, event, armed>>

\* arm64_pm_release_secondary_cpus has two callers
AfterRelease == IF pme.parked THEN "finish" ELSE "restore"

\* its flag ...
Release ==
    /\ At("release")
    /\ LET owned == sec.epoch = txn.epoch
       IN  /\ sec' = [sec EXCEPT !.release = @ \/ owned]
           /\ pme' = [pme EXCEPT !.restore = @ \/ ~owned,
                                 !.pc = IF owned THEN "sev" ELSE AfterRelease]
    /\ UNCHANGED <<txn, asked, ap, event, tim, icc, dist, armed>>

\* relies on the reschedule interrupts alone
MutSevDropped ==
    /\ At("sev") /\ Jump("resuming")
    /\ UNCHANGED <<txn, sec, asked, ap, event, tim, icc, dist, armed>>

\* ... the event ...
Sev ==
    /\ At("sev") /\ Jump("resuming")
    /\ event' = Ap
    /\ UNCHANGED <<txn, sec, asked, ap, tim, icc, dist, armed>>

\* ... and every resumed bit, or a timeout.  A timeout while parking has been
\* recorded as platform_status; if its release fails too it is restore_status.
WaitResumed ==
    /\ At("resuming")
    /\ LET ok == sec.target \subseteq sec.resumed /\ sec.failed_resume = {}
       IN  /\ sec' = IF ok THEN Clear ELSE sec
           /\ pme' = [pme EXCEPT !.restore = @ \/ ~ok,
                                 !.pc = AfterRelease]
    /\ UNCHANGED <<txn, asked, ap, event, tim, icc, dist, armed>>

\* resume_console, the claim that the host is restored, ops->wake or abort
Finish ==
    /\ At("finish")
    /\ armed' = FALSE
    /\ pme' = [pme EXCEPT !.pc = "return", !.restored = ~pme.restore]
    /\ UNCHANGED <<txn, sec, asked, ap, event, tim, icc, dist>>

-----------------------------------------------------------------------------
EnterSteps ==
    \/ Enter \/ Prepare \/ Publish \/ RequestIdle \/ WaitParked \/ SuspendHost
    \/ Wfi \/ Poll \/ RestoreHost \/ Release \/ Sev \/ WaitResumed \/ Finish \/ Return

HostNext ==
    \/ Begin \/ WakeIrq \/ Abort \/ OtherIrq \/ EnterSteps
    \/ \E p \in Ap : ApTake(p) \/ ApInterrupt(p) \/ ApRuns(p)

HostSpec == HostInit /\ [][HostNext]_hostvars

-----------------------------------------------------------------------------
\* the APs run, nothing of the host is retained, and the record is free
Whole ==
    /\ asked = {} /\ sec = Clear /\ dist = 0
    /\ \A p \in Ap : ap[p] = ApIdle
    /\ \A p \in Pcpu : tim[p] = 0 /\ icc[p] = 0

\* AP p waits for a release, with its own state saved for this transaction
Parked(p) ==
    /\ ap[p].pc \in {"test", "wfe"} /\ ap[p].epoch = txn.epoch /\ ~sec.release
    /\ tim[p] = txn.epoch /\ icc[p] = txn.epoch

(* While platform_pm_enter() retains the distributor every AP is parked    *)
(* with its banked state saved; when it reports host_restored, and until   *)
(* the next transaction publishes its request, every AP is back in its     *)
(* idle loop, nothing is retained and no request or bit of the old epoch   *)
(* is left - also after a timeout that a slow AP answered late.            *)
HostOrder ==
    /\ dist # 0 /\ ~pme.restore => \A p \in Ap : Parked(p)
    /\ pme.restored \/ pme.pc \in {"enter", "prepare", "publish"} => Whole

(* An AP that sleeps in WFE with no event pending has not been forgotten:  *)
(* the boot pCPU is still on its way to the release, whether it sleeps,    *)
(* waits for others or has failed in between.  An AP that takes its        *)
(* request after the boot pCPU gave up finds the release flag, and an      *)
(* event between its test and its WFE is not lost.                         *)
NoApStranded ==
    \A p \in Ap : ap[p].pc = "wfe" /\ p \notin event =>
        \/ pme.pc \in {"request", "parking", "suspend", "wfi", "asleep", "poll",
                       "release", "sev"}
        \/ pme.pc = "restore" /\ pme.parked
=============================================================================
