------------------------------ MODULE SmpCall -------------------------------
(***************************************************************************)
(* The synchronous remote call of core/notify.c: one global owner, one     *)
(* active generation, one mask of outstanding targets and one mailbox per  *)
(* pCPU.                                                                   *)
(*                                                                         *)
(* The loads and stores of shared state that another pCPU can come between *)
(* are steps of their own, in program order (acquire loads and release     *)
(* stores).  A clock is not modelled: a deadline may have expired wherever *)
(* the code tests it.  A call's func and data are represented by its       *)
(* generation, so that whose callback a target runs can be told.           *)
(***************************************************************************)
EXTENDS Naturals, FiniteSets

CONSTANTS
    Pcpu,           \* pCPU numbers
    Active,         \* the pCPUs for which is_pcpu_active() holds
    Masks,          \* [Pcpu -> SUBSET SUBSET Pcpu]: the target masks a caller uses
    MaxGeneration   \* bound on the calls published

Generation == 1 .. MaxGeneration
NULL == 0

ASSUME SmpCallConstants ==
    /\ Pcpu \subseteq Nat /\ IsFiniteSet(Pcpu)
    /\ Active \subseteq Pcpu
    /\ Masks \in [Pcpu -> SUBSET (SUBSET Pcpu \ {{}})]
    /\ MaxGeneration \in Nat

VARIABLES
    smp_call_owner, smp_call_next_generation, smp_call_active_generation,
    smp_call_mask,
    smp_call_info,  \* per pCPU: call (func and data) and generation
    sgi,            \* the pCPUs with the SMP call SGI pending
    caller,         \* per pCPU: its smp_call_function_common() in progress
    irq,            \* per pCPU: its kick_notification() in progress
    ran,            \* history: how often each pCPU ran each generation's callback
    remote,         \* history: the generations whose targets are active other pCPUs
    expired         \* history: whether a wait has been cut short by its deadline

global == <<smp_call_owner, smp_call_next_generation, smp_call_active_generation>>
history == <<remote, expired>>
vars == <<global, smp_call_mask, smp_call_info, sgi, caller, irq, ran, history>>

GenOrNull == Generation \cup {NULL}
EmptyBox == [call |-> NULL, generation |-> 0]
NotCalling == [pc |-> "out", mask |-> {}, todo |-> {}, generation |-> 0, old |-> {},
               completed |-> FALSE]
NotInIrq == [pc |-> "out", generation |-> 0, call |-> NULL]

Mailbox == [call : GenOrNull, generation : GenOrNull]
CallerPlace == {"out", "acquire", "owned", "mask", "loop", "publish", "load", "store",
                "revoke", "clear"}
CallerRecord == [pc : CallerPlace, mask : SUBSET Pcpu, todo : SUBSET Pcpu, old : SUBSET Pcpu,
                 generation : GenOrNull, completed : BOOLEAN]
IrqPlace == {"out", "generation", "call", "check", "run", "done", "ack"}
IrqRecord == [pc : IrqPlace, generation : GenOrNull, call : GenOrNull]

TypeOK ==
    /\ smp_call_owner \in {0, 1}
    /\ smp_call_next_generation \in 0 .. MaxGeneration
    /\ smp_call_active_generation \in GenOrNull
    /\ smp_call_mask \in SUBSET Pcpu
    /\ smp_call_info \in [Pcpu -> Mailbox]
    /\ sgi \in SUBSET Pcpu
    /\ caller \in [Pcpu -> CallerRecord]
    /\ irq \in [Pcpu -> IrqRecord]
    /\ ran \in [Pcpu -> [Generation -> Nat]]
    /\ remote \subseteq Generation /\ expired \in BOOLEAN

Init ==
    /\ smp_call_owner = 0
    /\ smp_call_next_generation = 0
    /\ smp_call_active_generation = 0
    /\ smp_call_mask = {}
    /\ smp_call_info = [p \in Pcpu |-> EmptyBox]
    /\ sgi = {}
    /\ caller = [p \in Pcpu |-> NotCalling]
    /\ irq = [p \in Pcpu |-> NotInIrq]
    /\ ran = [p \in Pcpu |-> [g \in Generation |-> 0]]
    /\ remote = {} /\ expired = FALSE

-----------------------------------------------------------------------------
(* smp_call_function_common() on pCPU p.  An interrupt taken on p suspends *)
(* it.                                                                     *)

At(p, pc) == caller[p].pc = pc /\ irq[p].pc = "out"
Goto(p, pc) == caller' = [caller EXCEPT ![p].pc = pc]
ffs64(m) == CHOOSE q \in m : \A r \in m : q <= r
Target(p) == ffs64(caller[p].todo)
Targets(p) == At(p, "loop") /\ caller[p].todo # {}
Count(p, g) == ran' = [ran EXCEPT ![p][g] = @ + 1]

(* The bound counts the calls that have yet to draw their generation.      *)
CallsSoFar ==
    smp_call_next_generation
        + Cardinality({p \in Pcpu : caller[p].pc \in {"acquire", "owned"}})

Begin(p, m) ==
    /\ At(p, "out")
    /\ CallsSoFar < MaxGeneration
    /\ caller' = [caller EXCEPT ![p].pc = "acquire", ![p].mask = m, ![p].todo = m]
    /\ UNCHANGED <<global, smp_call_mask, smp_call_info, sgi, irq, ran, history>>

(* smp_call_acquire(): -EBUSY of a try call and -ETIMEDOUT of a waiting    *)
(* one return alike.                                                       *)
Acquire(p) ==
    /\ At(p, "acquire")
    /\ \/ smp_call_owner = 0 /\ smp_call_owner' = 1 /\ Goto(p, "owned")
       \/ /\ smp_call_owner # 0
          /\ caller' = [caller EXCEPT ![p] = NotCalling]
          /\ UNCHANGED smp_call_owner
    /\ UNCHANGED <<smp_call_next_generation, smp_call_active_generation, smp_call_mask,
                   smp_call_info, sgi, irq, ran, history>>

OwnedTooLate(p) ==
    /\ At(p, "owned")
    /\ smp_call_owner' = 0
    /\ caller' = [caller EXCEPT ![p] = NotCalling]
    /\ UNCHANGED <<smp_call_next_generation, smp_call_active_generation, smp_call_mask,
                   smp_call_info, sgi, irq, ran, history>>

PublishActive(p) ==
    /\ At(p, "owned")
    /\ LET g == smp_call_next_generation + 1
       IN  /\ smp_call_next_generation' = g
           /\ smp_call_active_generation' = g
           /\ caller' = [caller EXCEPT ![p].pc = "mask", ![p].generation = g]
           /\ remote' = IF caller[p].mask \subseteq Active \ {p} THEN remote \cup {g} ELSE remote
    /\ UNCHANGED <<smp_call_owner, smp_call_mask, smp_call_info, sgi, irq, ran, expired>>

PublishMask(p) ==
    /\ At(p, "mask")
    /\ smp_call_mask' = caller[p].mask
    /\ Goto(p, "loop")
    /\ UNCHANGED <<global, smp_call_info, sgi, irq, ran, history>>

(* The loop over the targets, lowest first: the caller itself ...          *)
RunLocal(p) ==
    /\ Targets(p) /\ Target(p) = p
    /\ Count(p, caller[p].generation)
    /\ Goto(p, "load")
    /\ UNCHANGED <<global, smp_call_mask, smp_call_info, sgi, irq, history>>

(* ... or an inactive pCPU: bitmap_clear_non_atomic() of the shared mask   *)
(* is a load and a store ...                                               *)
LoadMask(p) ==
    /\ At(p, "load") \/ (Targets(p) /\ Target(p) \notin Active \cup {p})
    /\ caller' = [caller EXCEPT ![p].pc = "store", ![p].old = smp_call_mask]
    /\ UNCHANGED <<global, smp_call_mask, smp_call_info, sgi, irq, ran, history>>

StoreMask(p) ==
    /\ At(p, "store")
    /\ smp_call_mask' = caller[p].old \ {Target(p)}
    /\ caller' = [caller EXCEPT ![p].pc = "loop", ![p].old = {}, ![p].todo = @ \ {Target(p)}]
    /\ UNCHANGED <<global, smp_call_info, sgi, irq, ran, history>>

(* ... or an active pCPU: func and data first, then the generation, then   *)
(* the SGI.                                                                *)
PublishCall(p) ==
    /\ Targets(p) /\ Target(p) \in Active \ {p}
    /\ smp_call_info' = [smp_call_info EXCEPT ![Target(p)].call = caller[p].generation]
    /\ Goto(p, "publish")
    /\ UNCHANGED <<global, smp_call_mask, sgi, irq, ran, history>>

PublishGenerationAndKick(p) ==
    /\ At(p, "publish")
    /\ smp_call_info' =
           [smp_call_info EXCEPT ![Target(p)].generation = caller[p].generation]
    /\ sgi' = sgi \cup {Target(p)}
    /\ caller' = [caller EXCEPT ![p].pc = "loop", ![p].todo = @ \ {Target(p)}]
    /\ UNCHANGED <<global, smp_call_mask, irq, ran, history>>

(* wait_smp_call_done()                                                    *)
Wait(p) ==
    /\ At(p, "loop") /\ caller[p].todo = {}
    /\ caller' = [caller EXCEPT ![p].pc = "revoke", ![p].completed = (smp_call_mask = {})]
    /\ expired' = (expired \/ smp_call_mask # {})
    /\ UNCHANGED <<global, smp_call_mask, smp_call_info, sgi, irq, ran, remote>>

Revoke(p) ==
    /\ At(p, "revoke")
    /\ smp_call_active_generation' = 0
    /\ caller' = [caller EXCEPT ![p].pc = "clear", ![p].todo = caller[p].mask]
    /\ UNCHANGED <<smp_call_owner, smp_call_next_generation, smp_call_mask, smp_call_info,
                   sgi, irq, ran, history>>

(* clear_smp_call_info()                                                   *)
ClearInfo(p) ==
    /\ At(p, "clear") /\ caller[p].todo # {}
    /\ smp_call_info' = [smp_call_info EXCEPT ![Target(p)] = EmptyBox]
    /\ caller' = [caller EXCEPT ![p].todo = @ \ {Target(p)}]
    /\ UNCHANGED <<global, smp_call_mask, sgi, irq, ran, history>>

(* Mutant: the bits of the targets that did not answer are left set.       *)
MutReleaseKeepsMask(p) ==
    /\ At(p, "clear") /\ caller[p].todo = {}
    /\ smp_call_owner' = 0
    /\ caller' = [caller EXCEPT ![p] = NotCalling]
    /\ UNCHANGED <<smp_call_next_generation, smp_call_active_generation, smp_call_mask,
                   smp_call_info, sgi, irq, ran, history>>

(* After a timeout the bits of the targets that did not answer are dropped. *)
Release(p) ==
    /\ At(p, "clear") /\ caller[p].todo = {}
    /\ smp_call_mask' = IF caller[p].completed THEN smp_call_mask ELSE {}
    /\ smp_call_owner' = 0
    /\ caller' = [caller EXCEPT ![p] = NotCalling]
    /\ UNCHANGED <<smp_call_next_generation, smp_call_active_generation, smp_call_info,
                   sgi, irq, ran, history>>

-----------------------------------------------------------------------------
(* kick_notification() on pCPU q, in interrupt context.                    *)

(* A reschedule request to q raises the same SGI.                          *)
RescheduleKick(q) ==
    /\ sgi' = sgi \cup {q}
    /\ UNCHANGED <<global, smp_call_mask, smp_call_info, caller, irq, ran, history>>

TakeSgi(q) ==
    /\ q \in sgi
    /\ irq[q].pc = "out"
    /\ sgi' = sgi \ {q}
    /\ irq' = [irq EXCEPT ![q].pc = IF q \in smp_call_mask THEN "generation" ELSE "out"]
    /\ UNCHANGED <<global, smp_call_mask, smp_call_info, caller, ran, history>>

(* Mutant: func and data are loaded before the generation.                 *)
MutLoadOrder(q) ==
    /\ irq' = IF irq[q].pc = "generation"
              THEN [irq EXCEPT ![q].pc = "call", ![q].call = smp_call_info[q].call]
              ELSE [irq EXCEPT ![q].pc = "check",
                               ![q].generation = smp_call_info[q].generation]
    /\ irq[q].pc \in {"generation", "call"}
    /\ UNCHANGED <<global, smp_call_mask, smp_call_info, sgi, caller, ran, history>>

LoadMailbox(q) ==
    /\ \/ /\ irq[q].pc = "generation"
          /\ irq' = [irq EXCEPT ![q].pc = "call",
                                ![q].generation = smp_call_info[q].generation]
       \/ /\ irq[q].pc = "call"
          /\ irq' = [irq EXCEPT ![q].pc = "check", ![q].call = smp_call_info[q].call]
    /\ UNCHANGED <<global, smp_call_mask, smp_call_info, sgi, caller, ran, history>>

IsActive(q) == irq[q].generation # 0 /\ irq[q].generation = smp_call_active_generation

Check(q) ==
    /\ irq[q].pc = "check"
    /\ irq' = [irq EXCEPT ![q].pc = IF IsActive(q) /\ irq[q].call # NULL
                                    THEN "run" ELSE "done"]
    /\ UNCHANGED <<global, smp_call_mask, smp_call_info, sgi, caller, ran, history>>

RunCallback(q) ==
    /\ irq[q].pc = "run"
    /\ Count(q, irq[q].call)
    /\ irq' = [irq EXCEPT ![q].pc = "done"]
    /\ UNCHANGED <<global, smp_call_mask, smp_call_info, sgi, caller, history>>

(* Mutant: the second look at the generation is left out.                  *)
MutCheckAgain(q) ==
    /\ irq[q].pc = "done"
    /\ irq' = [irq EXCEPT ![q].pc = "ack"]
    /\ UNCHANGED <<global, smp_call_mask, smp_call_info, sgi, caller, ran, history>>

CheckAgain(q) ==
    /\ irq[q].pc = "done"
    /\ irq' = IF IsActive(q) /\ irq[q].generation = smp_call_info[q].generation
              THEN [irq EXCEPT ![q].pc = "ack"]
              ELSE [irq EXCEPT ![q] = NotInIrq]
    /\ UNCHANGED <<global, smp_call_mask, smp_call_info, sgi, caller, ran, history>>

(* Mutant: the target does not acknowledge.                                *)
MutClearNothing(q) ==
    /\ irq[q].pc = "ack"
    /\ irq' = [irq EXCEPT ![q] = NotInIrq]
    /\ UNCHANGED <<global, smp_call_mask, smp_call_info, sgi, caller, ran, history>>

ClearBit(q) ==
    /\ irq[q].pc = "ack"
    /\ smp_call_mask' = smp_call_mask \ {q}
    /\ irq' = [irq EXCEPT ![q] = NotInIrq]
    /\ UNCHANGED <<global, smp_call_info, sgi, caller, ran, history>>

-----------------------------------------------------------------------------
CallerStep(p) ==
    \/ Acquire(p) \/ OwnedTooLate(p) \/ PublishActive(p) \/ PublishMask(p)
    \/ RunLocal(p) \/ LoadMask(p) \/ StoreMask(p)
    \/ PublishCall(p) \/ PublishGenerationAndKick(p)
    \/ Wait(p) \/ Revoke(p) \/ ClearInfo(p) \/ Release(p)

IrqStep(q) ==
    TakeSgi(q) \/ LoadMailbox(q) \/ Check(q) \/ RunCallback(q) \/ CheckAgain(q) \/ ClearBit(q)

Next ==
    \E p \in Active :
        \/ \E m \in Masks[p] : Begin(p, m)
        \/ CallerStep(p)
        \/ IrqStep(p)
        \/ RescheduleKick(p)

Spec == Init /\ [][Next]_vars

(* Every pCPU executes and takes its interrupts, and makes progress        *)
(* between them; no deadline is forced to expire.                          *)
Fairness ==
    \A p \in Active : /\ SF_vars(CallerStep(p) /\ expired' = expired)
                      /\ WF_vars(IrqStep(p))

FairSpec == Spec /\ Fairness

-----------------------------------------------------------------------------
(* A target that goes on to call func(data) has the func and data of the   *)
(* generation it checked, although they are loaded one by one from a       *)
(* mailbox that callers may be rewriting.                                  *)
RunsTheCallItChecked ==
    \A q \in Pcpu : irq[q].pc = "run" => irq[q].call = irq[q].generation

(* The owner hands the mailbox over clean: no generation is active, no bit *)
(* is set and no mailbox is filled when nobody owns it, so a late SGI      *)
(* finds nothing.                                                          *)
CleanHandover ==
    smp_call_owner = 0 =>
        /\ smp_call_active_generation = 0
        /\ smp_call_mask = {}
        /\ \A q \in Pcpu : smp_call_info[q] = EmptyBox

(* No pCPU runs the callback of a call to other, active pCPUs twice,       *)
(* however often its SGI fires and whatever timed out before.              *)
RunsAtMostOnce == \A q \in Pcpu : \A g \in remote : ran[q][g] <= 1

(* A call that reports success ran its callback on every target it found   *)
(* active.                                                                 *)
SuccessMeansRan ==
    \A p \in Pcpu :
        caller[p].completed =>
            \A q \in caller[p].mask \cap (Active \cup {p}) : ran[q][caller[p].generation] > 0

(* The same as long as no earlier call was cut short by its deadline.      *)
SuccessMeansRanInTime == expired \/ SuccessMeansRan

(* If no deadline expires, every call to other, active pCPUs ends its      *)
(* wait: neither an SGI nor an acknowledgement is lost.                    *)
CallReturns ==
    []~expired =>
        (smp_call_active_generation \in remote ~> smp_call_active_generation \notin remote)
=============================================================================
