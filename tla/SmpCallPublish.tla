--------------------------- MODULE SmpCallPublish ---------------------------
(***************************************************************************)
(* The inductive invariant of SmpCall, and a lemma for each step by which  *)
(* a caller acquires, draws a generation and publishes.  SmpCallAnswer has *)
(* the steps that wait and close, and those of the handlers; SmpCallProofs *)
(* adds the bound on the generations, which needs the theory of finite     *)
(* sets, and draws the theorems.                                           *)
(*                                                                         *)
(* The argument.  smp_call_owner is a lock: one pCPU at most is past       *)
(* smp_call_acquire() (OwnerInv), so the phases of its call say what the   *)
(* shared words hold (CallerInv).  A mailbox is filled before its          *)
(* generation is published and emptied only after the active generation is *)
(* withdrawn, so a handler that finds its generation active is looking at  *)
(* the mailbox of the call in progress (IrqInv).  Generations are never    *)
(* reused, so what a late handler does concerns a call that has ended      *)
(* (OnceInv).  As long as no deadline has cut a wait short there is no     *)
(* late handler at all, and a cleared bit is an answer (TimeInv).          *)
(***************************************************************************)
EXTENDS SmpCall, TLAPS

InCall(p) == caller[p].pc \notin {"out", "acquire"}
Published(p) == caller[p].pc \notin {"out", "acquire", "owned"}
Working(p) == caller[p].pc \in {"mask", "loop", "publish", "load", "store", "revoke"}
Answering(p) == caller[p].pc \in {"loop", "publish", "load", "store", "revoke", "clear"}

(* smp_call_acquire() admits one caller at a time.                         *)
OwnerInv ==
    /\ \A p \in Pcpu : InCall(p) => smp_call_owner = 1
    /\ \A p, q \in Pcpu : InCall(p) /\ InCall(q) => p = q
    /\ smp_call_owner = 1 => \E p \in Pcpu : InCall(p)

ActiveInv == smp_call_active_generation \in {0, smp_call_next_generation}

(* A mailbox belongs to the last generation, its call before its           *)
(* generation.                                                             *)
BoxInv(q) ==
    /\ smp_call_info[q].call \in {0, smp_call_next_generation}
    /\ smp_call_info[q].generation \in {0, smp_call_info[q].call}

Empty(q) == smp_call_info[q] = EmptyBox

(* What each phase of smp_call_function_common() knows.                    *)
CallerInv(p) ==
    /\ caller[p].todo \subseteq caller[p].mask
    /\ ~Published(p) => caller[p].generation = 0
    /\ caller[p].pc = "owned" => /\ smp_call_active_generation = 0
                                 /\ smp_call_mask = {}
                                 /\ \A q \in Pcpu : Empty(q)
    /\ Published(p) => /\ caller[p].generation = smp_call_next_generation
                       /\ smp_call_next_generation # 0
                       /\ smp_call_mask \subseteq caller[p].mask
                       /\ \A q \in Pcpu \ caller[p].mask : Empty(q)
    /\ Working(p) => smp_call_active_generation = caller[p].generation
    /\ caller[p].pc = "mask" => smp_call_mask = {} /\ \A q \in Pcpu : Empty(q)
    /\ caller[p].pc \in {"publish", "load", "store"} => caller[p].todo # {}
    /\ caller[p].pc = "publish" =>
           smp_call_info[Target(p)].call = caller[p].generation
    /\ caller[p].pc \in {"load", "store"} => Target(p) \notin Active \ {p}
    /\ caller[p].pc = "store" => /\ smp_call_mask \subseteq caller[p].old
                                 /\ caller[p].old \subseteq caller[p].mask
    /\ caller[p].pc = "clear" => /\ smp_call_active_generation = 0
                                 /\ \A q \in Pcpu \ caller[p].todo : Empty(q)
    /\ caller[p].completed => caller[p].pc \in {"revoke", "clear"} /\ smp_call_mask = {}
    /\ Published(p) /\ caller[p].generation \in remote => caller[p].mask \subseteq Active \ {p}

(* What a handler has loaded, against what is published now.               *)
IrqInv(q) ==
    /\ irq[q].pc # "out" => q \in Active
    /\ irq[q].pc \in {"out", "generation"} => irq[q].generation = 0
    /\ irq[q].generation <= smp_call_next_generation
    /\ irq[q].pc \notin {"out", "generation", "call"} /\ irq[q].call # 0
          => irq[q].generation <= irq[q].call /\ irq[q].call <= smp_call_next_generation
    /\ irq[q].pc = "run" => irq[q].call = irq[q].generation /\ irq[q].generation # 0
    /\ irq[q].pc = "ack" => irq[q].generation # 0
    /\ IsActive(q) => smp_call_info[q].generation = smp_call_active_generation

(* A callback is run for a generation that is drawn and whose mask is      *)
(* published; once it has been run for a live remote call, the handler is  *)
(* about to acknowledge it or has done so.                                 *)
OnceInv(q) ==
    /\ \A g \in Generation : g > smp_call_next_generation => ran[q][g] = 0
    /\ \A p \in Pcpu : caller[p].pc = "mask" => ran[q][caller[p].generation] = 0
    /\ \A g \in remote :
          /\ ran[q][g] <= 1
          /\ irq[q].pc = "run" /\ irq[q].call = g => ran[q][g] = 0
          /\ ran[q][g] = 1 /\ smp_call_active_generation = g
                => \/ irq[q].pc \in {"done", "ack"} /\ irq[q].generation = g
                   \/ irq[q].pc = "out" /\ q \notin smp_call_mask

RemoteInv == \A g \in remote : g \in Generation /\ g <= smp_call_next_generation

(* Without an expired deadline every handler works on the active call and  *)
(* clears its bit only after running the callback.                         *)
HandlerInTime(q) ==
    /\ irq[q].pc # "out" => /\ q \in smp_call_mask
                            /\ irq[q].generation \in {0, smp_call_active_generation}
    /\ irq[q].pc \in {"check", "run", "done", "ack"} /\ irq[q].generation # 0
          => irq[q].call = irq[q].generation
    /\ irq[q].pc \in {"done", "ack"} /\ irq[q].generation # 0
          => ran[q][irq[q].generation] > 0

CallerInTime(p) ==
    /\ caller[p].pc \in {"load", "store"} /\ Target(p) = p => ran[p][caller[p].generation] > 0
    /\ Answering(p) => \A q \in caller[p].mask \cap (Active \cup {p}) :
                          q \in smp_call_mask \/ ran[q][caller[p].generation] > 0
    /\ caller[p].pc \in {"revoke", "clear"} => caller[p].completed

TimeInv == ~expired => \A q \in Pcpu : HandlerInTime(q) /\ CallerInTime(q)

CallInv ==
    /\ TypeOK /\ OwnerInv /\ ActiveInv /\ RemoteInv /\ CleanHandover
    /\ \A q \in Pcpu : BoxInv(q) /\ CallerInv(q) /\ IrqInv(q) /\ OnceInv(q)
    /\ TimeInv

-----------------------------------------------------------------------------
(* ffs64() of a mask that is not empty is one of its bits.                 *)
FfsFinds == \A m \in SUBSET Nat : m # {} => ffs64(m) \in m

(* The pCPU that ffs64() finds is one of the mask.                         *)
LEMMA TargetIn ==
    ASSUME FfsFinds, TypeOK, NEW p \in Pcpu, caller[p].todo # {}
    PROVE  Target(p) \in caller[p].todo /\ Target(p) \in Pcpu
<1>1. caller[p].todo \in SUBSET Pcpu
  BY DEF TypeOK, CallerRecord
<1>2. caller[p].todo \in SUBSET Nat
  BY Zenon, <1>1, SmpCallConstants
<1> QED BY <1>1, <1>2 DEF Target, FfsFinds

(* The fields of the records, as the proofs use them.                      *)
LEMMA Fields ==
    ASSUME TypeOK, NEW p \in Pcpu
    PROVE  /\ caller[p].pc \in CallerPlace /\ caller[p].mask \in SUBSET Pcpu
           /\ caller[p].todo \in SUBSET Pcpu /\ caller[p].old \in SUBSET Pcpu
           /\ caller[p].generation \in GenOrNull /\ caller[p].completed \in BOOLEAN
           /\ irq[p].pc \in IrqPlace /\ irq[p].generation \in GenOrNull
           /\ irq[p].call \in GenOrNull
           /\ smp_call_info[p].call \in GenOrNull /\ smp_call_info[p].generation \in GenOrNull
BY DEF TypeOK, CallerRecord, IrqRecord, Mailbox

(* Generations are numbers, and 0 is none.                                 *)
LEMMA Numbers ==
    /\ GenOrNull \subseteq Nat /\ Generation \subseteq Nat
    /\ 0 \notin Generation /\ 0 \in GenOrNull /\ Generation \subseteq GenOrNull
    /\ TypeOK => /\ smp_call_next_generation \in Nat
                 /\ smp_call_active_generation \in Nat
BY SmpCallConstants DEF GenOrNull, Generation, NULL, TypeOK

(* The idle values of a mailbox, a caller and an interrupt handler have    *)
(* their types.                                                            *)
LEMMA EmptyTypes ==
    /\ EmptyBox \in Mailbox /\ NotCalling \in CallerRecord /\ NotInIrq \in IrqRecord
BY DEF EmptyBox, Mailbox, NotCalling, CallerRecord, CallerPlace, NotInIrq, IrqRecord, IrqPlace,
       GenOrNull, NULL

-----------------------------------------------------------------------------
(* Type correctness of the steps.                                          *)
LEMMA CallerEdits ==
    ASSUME NEW c \in CallerRecord, NEW m \in SUBSET Pcpu, NEW g \in GenOrNull
    PROVE  /\ [c EXCEPT !.pc = "acquire", !.mask = m, !.todo = m] \in CallerRecord
           /\ [c EXCEPT !.pc = "store", !.old = m] \in CallerRecord
           /\ [c EXCEPT !.pc = "mask", !.generation = g] \in CallerRecord
<1> DEFINE Subsets == SUBSET Pcpu
<1>1. /\ m \in Subsets
      /\ CallerRecord = [pc : CallerPlace, mask : Subsets, todo : Subsets, old : Subsets,
                         generation : GenOrNull, completed : BOOLEAN]
  BY DEF CallerRecord
<1> HIDE DEF Subsets
<1> QED BY Zenon, <1>1 DEF CallerPlace

(* The steps of a caller keep the type of its record.                      *)
LEMMA CallerTypes ==
    ASSUME TypeOK, NEW p \in Active,
           (\E m \in Masks[p] : Begin(p, m)) \/ CallerStep(p),
           PublishActive(p) => smp_call_next_generation < MaxGeneration
    PROVE  caller' \in [Pcpu -> CallerRecord]
<1>0. p \in Pcpu /\ caller \in [Pcpu -> CallerRecord]
  BY SmpCallConstants DEF TypeOK
<1>1. ASSUME NEW r \in CallerRecord, caller' = [caller EXCEPT ![p] = r]
      PROVE  caller' \in [Pcpu -> CallerRecord]
  BY <1>0, <1>1
<1>2. CASE \E m \in Masks[p] : Begin(p, m)
  <2>1. PICK m \in Masks[p] : Begin(p, m)
    BY <1>2
  <2>2. m \in SUBSET Pcpu
    BY <1>0, SmpCallConstants
  <2>3. [caller[p] EXCEPT !.pc = "acquire", !.mask = m, !.todo = m] \in CallerRecord
    BY Zenon, <1>0, <2>2, Numbers, CallerEdits
  <2>4. caller' = [caller EXCEPT ![p] = [caller[p] EXCEPT !.pc = "acquire", !.mask = m, !.todo = m]]
    BY Zenon, <1>0, <2>1 DEF Begin
  <2> QED BY Zenon, <1>1, <2>3, <2>4
<1>3. CASE OwnedTooLate(p) \/ Release(p)
  BY <1>0, <1>3, EmptyTypes DEF OwnedTooLate, Release
<1>4. CASE Acquire(p)
  BY <1>0, <1>4, EmptyTypes DEF Acquire, Goto, CallerRecord, CallerPlace
<1>5. CASE PublishMask(p) \/ RunLocal(p) \/ PublishCall(p)
  BY <1>0, <1>5 DEF PublishMask, RunLocal, PublishCall, Goto, CallerRecord, CallerPlace
<1>6. CASE LoadMask(p)
  <2>1. smp_call_mask \in SUBSET Pcpu
    BY DEF TypeOK
  <2>2. [caller[p] EXCEPT !.pc = "store", !.old = smp_call_mask] \in CallerRecord
    BY Zenon, <1>0, <2>1, Numbers, CallerEdits
  <2>3. caller' = [caller EXCEPT ![p] = [caller[p] EXCEPT !.pc = "store", !.old = smp_call_mask]]
    BY Zenon, <1>0, <1>6 DEF LoadMask
  <2> QED BY Zenon, <1>1, <2>2, <2>3
<1>7. CASE StoreMask(p) \/ PublishGenerationAndKick(p) \/ ClearInfo(p)
  BY <1>0, <1>7 DEF StoreMask, PublishGenerationAndKick, ClearInfo, CallerRecord, CallerPlace
<1>8. CASE Wait(p) \/ Revoke(p)
  BY <1>0, <1>8 DEF Wait, Revoke, CallerRecord, CallerPlace
<1>9. CASE PublishActive(p)
  <2>1. smp_call_next_generation + 1 \in Generation
    BY <1>9, Numbers, SmpCallConstants DEF Generation
  <2>2. smp_call_next_generation + 1 \in GenOrNull
    BY <2>1, Numbers
  <2>3. [caller[p] EXCEPT !.pc = "mask", !.generation = smp_call_next_generation + 1]
            \in CallerRecord
    BY Zenon, <1>0, <2>2, Numbers, CallerEdits
  <2>4. caller' = [caller EXCEPT ![p] = [caller[p] EXCEPT !.pc = "mask",
                                             !.generation = smp_call_next_generation + 1]]
    BY Zenon, <1>0, <1>9 DEF PublishActive
  <2> QED BY Zenon, <1>1, <2>3, <2>4
<1> QED BY <1>2, <1>3, <1>4, <1>5, <1>6, <1>7, <1>8, <1>9 DEF CallerStep

-----------------------------------------------------------------------------
(* What a caller's step leaves alone.                                      *)
Others(p) == \A r \in Pcpu : r # p => caller'[r] = caller[r]

(* A caller that has not acquired the mailbox relies on nothing shared.    *)
LEMMA OutsideKeeps ==
    ASSUME NEW r \in Pcpu, CallerInv(r), ~InCall(r), caller'[r] = caller[r]
    PROVE  CallerInv(r)' /\ ~InCall(r)' /\ CallerInTime(r)'
BY DEF CallerInv, InCall, Published, Working, Answering, Target, CallerInTime

(* The owner's step disturbs no other caller.                              *)
LEMMA OwnerKeeps ==
    ASSUME CallInv, NEW p \in Pcpu, InCall(p), Others(p)
    PROVE  /\ smp_call_owner = 1
           /\ \A r \in Pcpu : r # p => /\ CallerInv(r)' /\ ~InCall(r)' /\ CallerInTime(r)'
                                       /\ ~InCall(r)
           /\ smp_call_owner' = smp_call_owner /\ InCall(p)' => OwnerInv' /\ CleanHandover'
<1>1. smp_call_owner = 1 /\ \A r \in Pcpu : r # p => ~InCall(r) /\ CallerInv(r)
  BY DEF CallInv, OwnerInv
<1>2. ASSUME NEW r \in Pcpu, r # p
      PROVE  CallerInv(r)' /\ ~InCall(r)' /\ CallerInTime(r)'
  BY <1>1, <1>2, OutsideKeeps DEF Others
<1>3. ASSUME smp_call_owner' = smp_call_owner, InCall(p)' PROVE OwnerInv' /\ CleanHandover'
  BY <1>1, <1>2, <1>3 DEF OwnerInv, CleanHandover
<1> QED BY <1>1, <1>2, <1>3

(* A step that leaves the shared words and the handlers alone keeps what   *)
(* is said of them.                                                        *)
LEMMA SharedKeeps ==
    ASSUME CallInv, UNCHANGED <<smp_call_next_generation, smp_call_active_generation,
                             smp_call_mask, smp_call_info, irq, ran, remote>>
    PROVE  /\ ActiveInv' /\ RemoteInv'
           /\ \A q \in Pcpu : BoxInv(q)' /\ IrqInv(q)'
           /\ \A q \in Pcpu : (\A r \in Pcpu : caller'[r].pc = "mask" => caller'[r] = caller[r])
                                 => OnceInv(q)'
           /\ ~expired => \A q \in Pcpu : HandlerInTime(q)'
<1>1. ActiveInv' /\ RemoteInv'
  BY DEF CallInv, ActiveInv, RemoteInv
<1>2. \A q \in Pcpu : BoxInv(q)' /\ IrqInv(q)'
  BY DEF CallInv, BoxInv, IrqInv, IsActive
<1>3. ASSUME NEW q \in Pcpu, \A r \in Pcpu : caller'[r].pc = "mask" => caller'[r] = caller[r]
      PROVE  OnceInv(q)'
  BY <1>3 DEF CallInv, OnceInv
<1>4. ASSUME ~expired, NEW q \in Pcpu PROVE HandlerInTime(q)'
  BY <1>4 DEF CallInv, TimeInv, HandlerInTime
<1> QED BY <1>1, <1>2, <1>3, <1>4

(* A call that begins keeps the invariant.                                 *)
LEMMA BeginStep ==
    ASSUME CallInv, NEW p \in Active, NEW m \in Masks[p], Begin(p, m)
    PROVE  CallInv'
<1>0. p \in Pcpu /\ caller \in [Pcpu -> CallerRecord] /\ TypeOK
  BY SmpCallConstants DEF CallInv, TypeOK
<1>1. /\ caller[p].pc = "out" /\ CallsSoFar < MaxGeneration
      /\ UNCHANGED <<smp_call_owner, smp_call_next_generation, smp_call_active_generation,
                     smp_call_mask, smp_call_info, sgi, irq, ran, remote, expired>>
  BY DEF Begin, At, global, history
<1>2. /\ caller'[p].pc = "acquire" /\ caller'[p].mask = m /\ caller'[p].todo = m
      /\ caller'[p].generation = caller[p].generation
      /\ caller'[p].completed = caller[p].completed
      /\ Others(p)
  BY <1>0 DEF Begin, CallerRecord, Others
<1>3. TypeOK'
  <2>1. caller' \in [Pcpu -> CallerRecord]
    BY Zenon, <1>1, CallerTypes DEF CallInv, PublishActive, At
  <2> QED BY <1>0, <1>1, <2>1 DEF TypeOK
<1>5. /\ ~InCall(p) /\ ~InCall(p)' /\ CallerInv(p)' /\ CallerInTime(p)'
  BY <1>0, <1>1, <1>2 DEF CallInv, CallerInv, InCall, Published, Working, Answering, CallerInTime
<1>6. \A r \in Pcpu : InCall(r)' <=> InCall(r)
  BY <1>2, <1>5 DEF InCall, Others
<1>7. OwnerInv' /\ CleanHandover'
  BY <1>1, <1>6 DEF CallInv, OwnerInv, CleanHandover
<1>8. \A r \in Pcpu : CallerInv(r)'
  <2> SUFFICES ASSUME NEW r \in Pcpu, r # p PROVE CallerInv(r)'
    BY <1>5
  <2>1. caller'[r] = caller[r] /\ CallerInv(r)
    BY <1>2 DEF Others, CallInv
  <2> QED BY <1>1, <2>1 DEF CallerInv, Published, Working, Target, Empty
<1>9. ~expired => \A r \in Pcpu : CallerInTime(r)'
  <2> SUFFICES ASSUME ~expired, NEW r \in Pcpu, r # p PROVE CallerInTime(r)'
    BY <1>5
  <2>1. caller'[r] = caller[r] /\ CallerInTime(r)
    BY <1>2 DEF Others, CallInv, TimeInv
  <2> QED BY <1>1, <2>1 DEF CallerInTime, Answering, Target
<1>10. \A r \in Pcpu : caller'[r].pc = "mask" => caller'[r] = caller[r]
  BY <1>2 DEF Others
<1>11. /\ ActiveInv' /\ RemoteInv' /\ \A q \in Pcpu : BoxInv(q)' /\ IrqInv(q)' /\ OnceInv(q)'
       /\ ~expired => \A q \in Pcpu : HandlerInTime(q)'
  BY <1>1, <1>10, SharedKeeps
<1> QED BY <1>1, <1>3, <1>7, <1>8, <1>9, <1>11 DEF CallInv, TimeInv

(* Taking smp_call_owner keeps the invariant.                              *)
LEMMA AcquireStep == ASSUME CallInv, NEW p \in Active, Acquire(p) PROVE CallInv'
<1>0. p \in Pcpu /\ caller \in [Pcpu -> CallerRecord] /\ TypeOK
  BY SmpCallConstants DEF CallInv, TypeOK
<1>1. /\ caller[p].pc = "acquire"
      /\ UNCHANGED <<smp_call_next_generation, smp_call_active_generation,
                     smp_call_mask, smp_call_info, sgi, irq, ran, remote, expired>>
  BY DEF Acquire, At, history
<1>2. \/ /\ smp_call_owner = 0 /\ smp_call_owner' = 1 /\ caller'[p].pc = "owned"
         /\ caller'[p].mask = caller[p].mask /\ caller'[p].todo = caller[p].todo
         /\ caller'[p].generation = caller[p].generation
         /\ caller'[p].completed = caller[p].completed
      \/ smp_call_owner' = smp_call_owner /\ caller'[p] = NotCalling
  BY <1>0 DEF Acquire, Goto, CallerRecord
<1>3. Others(p)
  BY <1>0 DEF Acquire, Goto, Others
<1>4. TypeOK'
  <2>1. caller' \in [Pcpu -> CallerRecord]
    BY Zenon, <1>1, CallerTypes DEF CallInv, CallerStep, PublishActive, At
  <2>2. smp_call_owner' \in {0, 1}
    BY <1>0, <1>2 DEF TypeOK
  <2> QED BY <1>0, <1>1, <2>1, <2>2 DEF TypeOK
<1>6. /\ ActiveInv' /\ RemoteInv' /\ \A q \in Pcpu : BoxInv(q)' /\ IrqInv(q)' /\ OnceInv(q)'
      /\ ~expired => \A q \in Pcpu : HandlerInTime(q)'
  <2>1. \A r \in Pcpu : caller'[r].pc = "mask" => caller'[r] = caller[r]
    BY <1>2, <1>3 DEF Others, NotCalling
  <2> QED BY <1>1, <2>1, SharedKeeps
<1>7. CallerInTime(p)'
  BY <1>2 DEF CallerInTime, Answering, NotCalling
<1>8. ASSUME NEW r \in Pcpu, r # p PROVE CallerInv(r)' /\ (~expired => CallerInTime(r)')
  <2>1. /\ caller'[r] = caller[r] /\ CallerInv(r) /\ (~expired => CallerInTime(r))
    BY <1>3, <1>8 DEF Others, CallInv, TimeInv
  <2>2. CallerInv(r)'
    BY <1>1, <2>1 DEF CallerInv, Published, Working, Target, Empty
  <2>3. ~expired => CallerInTime(r)'
    BY <1>1, <2>1 DEF CallerInTime, Answering, Target
  <2> QED BY <2>2, <2>3
<1>9. CASE smp_call_owner' = smp_call_owner /\ caller'[p] = NotCalling
  <2>1. CallerInv(p)'
    BY <1>9 DEF CallerInv, Published, Working, NotCalling
  <2>2. \A r \in Pcpu : InCall(r)' <=> InCall(r)
    BY <1>1, <1>3, <1>9 DEF InCall, Others, NotCalling
  <2>3. OwnerInv' /\ CleanHandover'
    BY <1>1, <1>9, <2>2 DEF CallInv, OwnerInv, CleanHandover
  <2> QED BY <1>1, <1>4, <1>6, <1>7, <1>8, <2>1, <2>3 DEF CallInv, TimeInv
<1>10. CASE /\ smp_call_owner = 0 /\ smp_call_owner' = 1 /\ caller'[p].pc = "owned"
            /\ caller'[p].mask = caller[p].mask /\ caller'[p].todo = caller[p].todo
            /\ caller'[p].generation = caller[p].generation
            /\ caller'[p].completed = caller[p].completed
  <2>1. /\ smp_call_active_generation = 0 /\ smp_call_mask = {}
        /\ \A q \in Pcpu : Empty(q)
    BY <1>10 DEF CallInv, CleanHandover, Empty
  <2>2. CallerInv(p)'
    <3>1. CallerInv(p)
      BY <1>0 DEF CallInv
    <3> QED BY <1>1, <1>10, <2>1, <3>1 DEF CallerInv, Published, Working, Empty
  <2>3. \A r \in Pcpu : r # p => ~InCall(r)'
    BY <1>3, <1>10 DEF CallInv, OwnerInv, InCall, Others
  <2>4. OwnerInv' /\ CleanHandover'
    BY <1>0, <1>10, <2>3 DEF OwnerInv, CleanHandover, InCall
  <2> QED BY <1>1, <1>4, <1>6, <1>7, <1>8, <2>2, <2>4 DEF CallInv, TimeInv
<1> QED BY <1>2, <1>9, <1>10

-----------------------------------------------------------------------------
(* The generation drawn is new: no handler has loaded it, no callback has  *)
(* run for it and no mailbox holds it.                                     *)
LEMMA PublishActiveStep ==
    ASSUME CallInv, NEW p \in Active, PublishActive(p), smp_call_next_generation < MaxGeneration
    PROVE  CallInv'
<1> DEFINE g == smp_call_next_generation + 1
<1>0. p \in Pcpu /\ caller \in [Pcpu -> CallerRecord] /\ TypeOK /\ CallerInv(p)
  BY Zenon, SmpCallConstants DEF CallInv, TypeOK
<1>1. /\ caller[p].pc = "owned" /\ smp_call_next_generation' = g
      /\ smp_call_active_generation' = g
      /\ remote' = (IF caller[p].mask \subseteq Active \ {p} THEN remote \cup {g} ELSE remote)
      /\ UNCHANGED <<smp_call_owner, smp_call_mask, smp_call_info, sgi, irq, ran, expired>>
  BY DEF PublishActive, At
<1>2. /\ Others(p) /\ caller'[p].pc = "mask" /\ caller'[p].mask = caller[p].mask
      /\ caller'[p].todo = caller[p].todo /\ caller'[p].generation = g
      /\ caller'[p].completed = caller[p].completed
  BY <1>0 DEF PublishActive, CallerRecord, Others
<1>3. InCall(p) /\ smp_call_next_generation \in Nat
  BY <1>0, <1>1, Numbers DEF InCall
<1>4. g \in Generation
  BY <1>3, SmpCallConstants DEF Generation
<1>5. TypeOK'
  <2>1. caller' \in [Pcpu -> CallerRecord]
    BY CallerTypes DEF CallInv, CallerStep
  <2>2. smp_call_next_generation' \in 0 .. MaxGeneration
    BY <1>1, <1>4, SmpCallConstants DEF Generation
  <2>3. smp_call_active_generation' \in GenOrNull /\ remote' \subseteq Generation
    BY <1>0, <1>1, <1>4, Numbers DEF TypeOK
  <2> QED BY <1>0, <1>1, <2>1, <2>2, <2>3 DEF TypeOK
<1>6. /\ smp_call_mask = {} /\ \A q \in Pcpu : Empty(q)
  BY <1>0, <1>1 DEF CallerInv
<1>7. g \notin remote /\ g # 0
  BY <1>3 DEF CallInv, RemoteInv
<1>8. CallerInv(p)'
  BY Zenon, <1>0, <1>1, <1>2, <1>6, <1>7 DEF CallerInv, Published, Working, Empty
<1>9. /\ \A r \in Pcpu : r # p => CallerInv(r)' /\ CallerInTime(r)' /\ ~InCall(r)'
      /\ OwnerInv' /\ CleanHandover'
  <2>1. InCall(p)'
    BY <1>2 DEF InCall
  <2> QED BY Zenon, <1>0, <1>1, <1>2, <1>3, <2>1, OwnerKeeps
<1>10. ActiveInv' /\ RemoteInv'
  <2>1. \A h \in remote : h \in Nat /\ h <= smp_call_next_generation /\ h \in Generation
    BY Zenon, Numbers DEF CallInv, RemoteInv
  <2>2. \A h \in remote : h <= g
    BY <1>3, <2>1
  <2>3. g <= g
    BY <1>3
  <2> HIDE DEF g
  <2> QED BY <1>1, <1>4, <2>1, <2>2, <2>3 DEF ActiveInv, RemoteInv
<1>11. \A q \in Pcpu : BoxInv(q)'
  BY <1>1, <1>6 DEF BoxInv, Empty, EmptyBox, NULL
<1>12. ASSUME NEW q \in Pcpu PROVE IrqInv(q)'
  <2>1. /\ IrqInv(q) /\ irq[q].generation \in Nat /\ irq[q].call \in Nat
    BY Zenon, <1>0, Fields, Numbers DEF CallInv
  <2>2. irq[q].generation <= g /\ irq[q].generation # g
    BY <1>3, <2>1 DEF IrqInv
  <2>3. irq[q].call <= smp_call_next_generation => irq[q].call <= g
    BY <1>3, <2>1
  <2>4. ~IsActive(q)'
    BY <1>1, <2>2 DEF IsActive
  <2> QED BY <1>1, <2>1, <2>2, <2>3, <2>4 DEF IrqInv
<1>13. ASSUME NEW q \in Pcpu PROVE OnceInv(q)'
  <2>1. OnceInv(q) /\ ran[q][g] = 0
    <3>1. OnceInv(q)
      BY DEF CallInv
    <3> QED BY <1>3, <1>4, <3>1 DEF OnceInv
  <2>2. \A h \in Generation : h > g => h > smp_call_next_generation
    BY <1>3, Numbers
  <2>3. \A r \in Pcpu : caller'[r].pc = "mask" => caller'[r].generation = g
    BY <1>2, <1>9 DEF InCall
  <2>4. \A h \in remote : h # g
    BY <1>7
  <2>5. \A h \in remote' : h # g => h \in remote
    BY <1>1
  <2>6. UNCHANGED <<ran, irq, smp_call_mask>> /\ smp_call_active_generation' = g
        /\ smp_call_next_generation' = g
    BY <1>1
  <2> HIDE DEF g
  <2> QED BY <2>1, <2>2, <2>3, <2>4, <2>5, <2>6 DEF OnceInv
<1>14. ASSUME ~expired, NEW q \in Pcpu PROVE HandlerInTime(q)'
  <2>1. HandlerInTime(q)
    BY <1>14 DEF CallInv, TimeInv
  <2> QED BY <1>1, <1>6, <2>1 DEF HandlerInTime
<1>15. CallerInTime(p)'
  BY <1>2 DEF CallerInTime, Answering
<1> QED BY Zenon, <1>1, <1>4, <1>5, <1>8, <1>9, <1>10, <1>11, <1>12, <1>13, <1>14, <1>15
        DEF CallInv, TimeInv

(* The steps of the owner's call that draw no generation and do not        *)
(* release: what remains to be shown of each.                              *)
LEMMA OwnerStep ==
    ASSUME CallInv, NEW p \in Pcpu, Published(p), Published(p)', Others(p), TypeOK',
           UNCHANGED <<smp_call_owner, smp_call_next_generation, remote>>,
           ActiveInv', CallerInv(p)',
           \A q \in Pcpu : BoxInv(q)' /\ IrqInv(q)' /\ OnceInv(q)',
           ~expired' => CallerInTime(p)' /\ \A q \in Pcpu : HandlerInTime(q)'
    PROVE  CallInv'
<1>1. InCall(p) /\ InCall(p)'
  BY DEF Published, InCall
<1>2. /\ \A r \in Pcpu : r # p => CallerInv(r)' /\ CallerInTime(r)'
      /\ OwnerInv' /\ CleanHandover'
  BY <1>1, OwnerKeeps
<1>4. RemoteInv'
  BY DEF CallInv, RemoteInv
<1> QED BY <1>2, <1>4 DEF CallInv, TimeInv

(* While the owner is past its acquire, no other caller is in the loop.    *)
LEMMA OnceKeeps ==
    ASSUME CallInv, NEW p \in Pcpu, InCall(p), Others(p), caller'[p].pc # "mask",
           UNCHANGED <<smp_call_next_generation, irq, ran, remote>>,
           smp_call_active_generation' \in {0, smp_call_active_generation},
           smp_call_mask' \subseteq smp_call_mask \/ smp_call_active_generation \notin remote
    PROVE  \A q \in Pcpu : OnceInv(q)'
<1> SUFFICES ASSUME NEW q \in Pcpu PROVE OnceInv(q)'
  OBVIOUS
<1>1. OnceInv(q) /\ \A r \in Pcpu : caller'[r].pc # "mask"
  <2>1. \A r \in Pcpu : r # p => ~InCall(r)'
    BY OwnerKeeps
  <2> QED BY <2>1 DEF CallInv, InCall
<1>2. 0 \notin remote
  BY Numbers DEF CallInv, RemoteInv
<1> QED BY <1>1, <1>2 DEF OnceInv

(* Counting a run of a callback changes one count.                         *)
LEMMA CountFacts ==
    ASSUME TypeOK, NEW p \in Pcpu, NEW g \in Generation, Count(p, g)
    PROVE  /\ ran' \in [Pcpu -> [Generation -> Nat]]
           /\ ran[p][g] \in Nat /\ ran'[p][g] = ran[p][g] + 1
           /\ \A q \in Pcpu : \A h \in Generation :
                 q # p \/ h # g => ran'[q][h] = ran[q][h]
<1>1. ran \in [Pcpu -> [Generation -> Nat]] /\ ran[p] \in [Generation -> Nat]
  BY DEF TypeOK
<1>2. ran[p][g] \in Nat /\ ran[p][g] + 1 \in Nat
  BY <1>1
<1>3. [ran[p] EXCEPT ![g] = ran[p][g] + 1] \in [Generation -> Nat]
  BY <1>1, <1>2
<1>4. ran' = [ran EXCEPT ![p] = [ran[p] EXCEPT ![g] = ran[p][g] + 1]]
  BY <1>1 DEF Count
<1> QED BY <1>1, <1>2, <1>3, <1>4

(* Publishing the wait mask keeps the invariant.                           *)
LEMMA PublishMaskStep == ASSUME CallInv, NEW p \in Active, PublishMask(p) PROVE CallInv'
<1>0. p \in Pcpu /\ caller \in [Pcpu -> CallerRecord] /\ TypeOK /\ CallerInv(p)
  BY Zenon, SmpCallConstants DEF CallInv, TypeOK
<1>1. /\ caller[p].pc = "mask" /\ smp_call_mask' = caller[p].mask
      /\ UNCHANGED <<smp_call_owner, smp_call_next_generation, smp_call_active_generation,
                     smp_call_info, sgi, irq, ran, remote, expired>>
  BY DEF PublishMask, At, global, history
<1>2. /\ Others(p) /\ caller'[p].pc = "loop" /\ caller'[p].mask = caller[p].mask
      /\ caller'[p].todo = caller[p].todo /\ caller'[p].generation = caller[p].generation
      /\ caller'[p].completed = caller[p].completed
  BY <1>0 DEF PublishMask, Goto, CallerRecord, Others
<1>3. TypeOK'
  <2>1. caller' \in [Pcpu -> CallerRecord]
    BY Zenon, <1>1, CallerTypes DEF CallInv, CallerStep, PublishActive, At
  <2>2. smp_call_mask' \in SUBSET Pcpu
    BY <1>0, <1>1, Fields
  <2> QED BY <1>0, <1>1, <2>1, <2>2 DEF TypeOK
<1>4. Published(p) /\ Published(p)' /\ InCall(p)
  BY <1>1, <1>2 DEF Published, InCall
<1>5. CallerInv(p)'
  BY <1>0, <1>1, <1>2 DEF CallerInv, Published, Working, Empty
<1>6. ActiveInv' /\ \A q \in Pcpu : BoxInv(q)' /\ IrqInv(q)'
  BY <1>1 DEF CallInv, ActiveInv, BoxInv, IrqInv, IsActive
<1>7. ASSUME NEW q \in Pcpu PROVE OnceInv(q)'
  <2>1. /\ OnceInv(q) /\ smp_call_active_generation = caller[p].generation
        /\ ran[q][caller[p].generation] = 0
    BY Zenon, <1>0, <1>1 DEF CallInv, OnceInv, CallerInv, Working
  <2>2. \A r \in Pcpu : caller'[r].pc # "mask"
    BY <1>0, <1>2, <1>4, OwnerKeeps DEF InCall
  <2> QED BY <1>1, <2>1, <2>2 DEF OnceInv
<1>8. ASSUME ~expired, NEW q \in Pcpu PROVE HandlerInTime(q)'
  <2>1. HandlerInTime(q) /\ q \notin smp_call_mask
    BY Zenon, <1>0, <1>1, <1>8 DEF CallInv, TimeInv, CallerInv
  <2> QED BY <1>1, <2>1 DEF HandlerInTime
<1>9. CallerInTime(p)'
  BY <1>1, <1>2 DEF CallerInTime
<1> QED BY <1>0, <1>1, <1>2, <1>3, <1>4, <1>5, <1>6, <1>7, <1>8, <1>9, OwnerStep

(* A target that is the caller, or inactive, is not in a remote call.      *)
LEMMA NotRemote ==
    ASSUME FfsFinds, CallInv, NEW p \in Pcpu, Published(p), caller[p].todo # {},
           Target(p) \notin Active \ {p}
    PROVE  caller[p].generation \notin remote
BY Zenon, TargetIn DEF CallInv, CallerInv

(* Running the callback on the caller's own pCPU keeps the invariant.      *)
LEMMA RunLocalStep == ASSUME FfsFinds, CallInv, NEW p \in Active, RunLocal(p) PROVE CallInv'
<1>0. p \in Pcpu /\ caller \in [Pcpu -> CallerRecord] /\ TypeOK /\ CallerInv(p)
  BY Zenon, SmpCallConstants DEF CallInv, TypeOK
<1>1. /\ caller[p].pc = "loop" /\ caller[p].todo # {} /\ Target(p) = p
      /\ Count(p, caller[p].generation)
      /\ UNCHANGED <<smp_call_owner, smp_call_next_generation, smp_call_active_generation,
                     smp_call_mask, smp_call_info, sgi, irq, remote, expired>>
  BY Zenon DEF RunLocal, Targets, At, global, history
<1>2. /\ Others(p) /\ caller'[p].pc = "load" /\ caller'[p].mask = caller[p].mask
      /\ caller'[p].todo = caller[p].todo /\ caller'[p].generation = caller[p].generation
      /\ caller'[p].completed = caller[p].completed
  BY <1>0 DEF RunLocal, Goto, CallerRecord, Others
<1>3. Published(p) /\ Published(p)' /\ InCall(p)
  BY <1>1, <1>2 DEF Published, InCall
<1>4. caller[p].generation \in Generation /\ caller[p].generation = smp_call_next_generation
  BY <1>0, <1>3, Fields, Numbers DEF CallerInv, GenOrNull, NULL
<1>5. /\ ran' \in [Pcpu -> [Generation -> Nat]]
      /\ ran[p][caller[p].generation] \in Nat
      /\ ran'[p][caller[p].generation] = ran[p][caller[p].generation] + 1
      /\ \A q \in Pcpu : \A h \in Generation :
            q # p \/ h # caller[p].generation => ran'[q][h] = ran[q][h]
  BY <1>0, <1>1, <1>4, CountFacts
<1>6. TypeOK'
  <2>1. caller' \in [Pcpu -> CallerRecord]
    BY Zenon, <1>1, CallerTypes DEF CallInv, CallerStep, PublishActive, At
  <2> QED BY <1>0, <1>1, <1>5, <2>1 DEF TypeOK
<1>7. CallerInv(p)'
  BY <1>0, <1>1, <1>2 DEF CallerInv, Published, Working, Target, Empty
<1>8. ActiveInv' /\ \A q \in Pcpu : BoxInv(q)' /\ IrqInv(q)'
  BY <1>1 DEF CallInv, ActiveInv, BoxInv, IrqInv, IsActive
<1>9. ASSUME NEW q \in Pcpu PROVE OnceInv(q)'
  <2>1. caller[p].generation \notin remote
    BY <1>0, <1>1, <1>3, NotRemote
  <2>2. OnceInv(q) /\ RemoteInv /\ \A r \in Pcpu : caller'[r].pc # "mask"
    BY <1>0, <1>2, <1>3, OwnerKeeps DEF InCall, CallInv
  <2>3. \A g \in remote : ran'[q][g] = ran[q][g]
    BY <1>5, <2>1, <2>2 DEF RemoteInv
  <2>4. \A g \in Generation : g > smp_call_next_generation => ran'[q][g] = ran[q][g]
    BY <1>0, <1>4, <1>5, Numbers
  <2> QED BY <1>1, <2>2, <2>3, <2>4 DEF OnceInv
<1>10. \A q \in Pcpu : \A g \in Generation : ran[q][g] > 0 => ran'[q][g] > 0
  BY <1>5
<1>11. ASSUME ~expired, NEW q \in Pcpu PROVE HandlerInTime(q)'
  <2>1. HandlerInTime(q) /\ (irq[q].generation # 0 => irq[q].generation \in Generation)
    BY <1>0, <1>11, Fields DEF CallInv, TimeInv, GenOrNull, NULL
  <2> QED BY <1>1, <1>10, <2>1 DEF HandlerInTime
<1>12. ASSUME ~expired PROVE CallerInTime(p)'
  <2>1. CallerInTime(p) /\ caller[p].mask \in SUBSET Pcpu
    BY <1>0, <1>12, Fields DEF CallInv, TimeInv
  <2>2. ran'[p][caller[p].generation] > 0
    BY <1>5
  <2> QED BY <1>1, <1>2, <1>4, <1>10, <2>1, <2>2 DEF CallerInTime, Answering
<1> QED BY Zenon, <1>0, <1>1, <1>2, <1>3, <1>6, <1>7, <1>8, <1>9, <1>11, <1>12, OwnerStep

(* Reading the mask to drop an inactive target from it keeps the invariant.*)
LEMMA LoadMaskStep == ASSUME CallInv, NEW p \in Active, LoadMask(p) PROVE CallInv'
<1>0. p \in Pcpu /\ caller \in [Pcpu -> CallerRecord] /\ TypeOK /\ CallerInv(p)
  BY Zenon, SmpCallConstants DEF CallInv, TypeOK
<1>1. /\ \/ caller[p].pc = "load"
         \/ caller[p].pc = "loop" /\ caller[p].todo # {} /\ Target(p) \notin Active \cup {p}
      /\ UNCHANGED <<smp_call_owner, smp_call_next_generation, smp_call_active_generation,
                     smp_call_mask, smp_call_info, sgi, irq, ran, remote, expired>>
  BY DEF LoadMask, Targets, At, global, history
<1>2. /\ Others(p) /\ caller'[p].pc = "store" /\ caller'[p].mask = caller[p].mask
      /\ caller'[p].todo = caller[p].todo /\ caller'[p].generation = caller[p].generation
      /\ caller'[p].completed = caller[p].completed /\ caller'[p].old = smp_call_mask
  BY <1>0 DEF LoadMask, CallerRecord, Others
<1>3. Published(p) /\ Published(p)' /\ InCall(p)
  BY <1>1, <1>2 DEF Published, InCall
<1>4. TypeOK'
  <2>1. caller' \in [Pcpu -> CallerRecord]
    BY Zenon, <1>1, CallerTypes DEF CallInv, CallerStep, PublishActive, At
  <2> QED BY <1>0, <1>1, <2>1 DEF TypeOK
<1>5. CallerInv(p)'
  BY <1>0, <1>1, <1>2 DEF CallerInv, Published, Working, Target, Empty
<1>6. /\ ActiveInv' /\ \A q \in Pcpu : BoxInv(q)' /\ IrqInv(q)'
      /\ ~expired => \A q \in Pcpu : HandlerInTime(q)'
  BY <1>1, SharedKeeps
<1>7. \A q \in Pcpu : OnceInv(q)'
  BY <1>0, <1>1, <1>2, <1>3, OnceKeeps
<1>8. ASSUME ~expired PROVE CallerInTime(p)'
  <2>1. CallerInTime(p)
    BY <1>0, <1>8 DEF CallInv, TimeInv
  <2> QED BY <1>1, <1>2, <2>1 DEF CallerInTime, Answering, Target
<1> QED BY <1>0, <1>1, <1>2, <1>3, <1>4, <1>5, <1>6, <1>7, <1>8, OwnerStep

(* The store may bring back the bit of a target that acknowledged since    *)
(* the load, but never for a call to other, active pCPUs only, and it      *)
(* drops no bit of a target that has yet to answer.                        *)
LEMMA StoreMaskStep == ASSUME FfsFinds, CallInv, NEW p \in Active, StoreMask(p) PROVE CallInv'
<1>0. p \in Pcpu /\ caller \in [Pcpu -> CallerRecord] /\ TypeOK /\ CallerInv(p)
  BY Zenon, SmpCallConstants DEF CallInv, TypeOK
<1>1. /\ caller[p].pc = "store" /\ irq[p].pc = "out"
      /\ smp_call_mask' = caller[p].old \ {Target(p)}
      /\ UNCHANGED <<smp_call_owner, smp_call_next_generation, smp_call_active_generation,
                     smp_call_info, sgi, irq, ran, remote, expired>>
  BY DEF StoreMask, At, global, history
<1>2. /\ Others(p) /\ caller'[p].pc = "loop" /\ caller'[p].mask = caller[p].mask
      /\ caller'[p].todo = caller[p].todo \ {Target(p)}
      /\ caller'[p].generation = caller[p].generation
      /\ caller'[p].completed = caller[p].completed
  BY <1>0 DEF StoreMask, CallerRecord, Others
<1>3. Published(p) /\ Published(p)' /\ InCall(p)
  BY <1>1, <1>2 DEF Published, InCall
<1>4. TypeOK'
  <2>1. caller' \in [Pcpu -> CallerRecord]
    BY Zenon, <1>1, CallerTypes DEF CallInv, CallerStep, PublishActive, At
  <2>2. smp_call_mask' \in SUBSET Pcpu
    BY <1>0, <1>1, Fields
  <2> QED BY <1>0, <1>1, <2>1, <2>2 DEF TypeOK
<1>5. CallerInv(p)'
  BY <1>0, <1>1, <1>2, Zenon DEF CallerInv, Published, Working, Empty
<1>6. ActiveInv' /\ \A q \in Pcpu : BoxInv(q)' /\ IrqInv(q)'
  BY Zenon, <1>1 DEF CallInv, ActiveInv, BoxInv, IrqInv, IsActive
<1>7. \A q \in Pcpu : OnceInv(q)'
  <2>1. caller[p].generation \notin remote
    BY Zenon, <1>0, <1>1, <1>3, NotRemote DEF CallerInv
  <2>2. smp_call_active_generation = caller[p].generation
    BY <1>0, <1>1, Zenon DEF CallerInv, Working
  <2> QED BY Zenon, <1>0, <1>1, <1>2, <1>3, <2>1, <2>2, OnceKeeps
<1>8. ASSUME ~expired, NEW q \in Pcpu PROVE HandlerInTime(q)'
  <2>1. HandlerInTime(q) /\ IrqInv(q)
    BY <1>8 DEF CallInv, TimeInv
  <2>2. irq[q].pc # "out" => q # Target(p)
    BY <1>0, <1>1, <2>1, Zenon DEF IrqInv, CallerInv
  <2>3. irq[q].pc # "out" => q \in smp_call_mask'
    BY <1>0, <1>1, <2>1, <2>2 DEF HandlerInTime, CallerInv
  <2> QED BY <1>1, <2>1, <2>3, Zenon DEF HandlerInTime
<1>9. ASSUME ~expired PROVE CallerInTime(p)'
  <2>1. CallerInTime(p)
    BY <1>0, <1>9 DEF CallInv, TimeInv
  <2>2. ASSUME NEW q \in caller[p].mask \cap (Active \cup {p})
        PROVE  q \in smp_call_mask' \/ ran[q][caller[p].generation] > 0
    <3>1. q \in smp_call_mask \/ ran[q][caller[p].generation] > 0
      BY <1>1, <2>1, <2>2 DEF CallerInTime, Answering
    <3>2. q = Target(p) => ran[q][caller[p].generation] > 0
      BY Zenon, <1>0, <1>1, <2>1, <2>2 DEF CallerInTime, CallerInv
    <3> QED BY <1>0, <1>1, <3>1, <3>2 DEF CallerInv
  <2> QED BY <1>1, <1>2, <2>2 DEF CallerInTime
<1> QED BY Zenon, <1>0, <1>1, <1>2, <1>3, <1>4, <1>5, <1>6, <1>7, <1>8, <1>9, OwnerStep

(* Filling a mailbox keeps the invariant.                                  *)
LEMMA PublishCallStep == ASSUME FfsFinds, CallInv, NEW p \in Active, PublishCall(p) PROVE CallInv'
<1>0. p \in Pcpu /\ caller \in [Pcpu -> CallerRecord] /\ TypeOK /\ CallerInv(p)
  BY Zenon, SmpCallConstants DEF CallInv, TypeOK
<1>1. /\ caller[p].pc = "loop" /\ caller[p].todo # {}
      /\ UNCHANGED <<smp_call_owner, smp_call_next_generation, smp_call_active_generation,
                     smp_call_mask, sgi, irq, ran, remote, expired>>
  BY DEF PublishCall, Targets, At, global, history
<1>2. /\ Others(p) /\ caller'[p].pc = "publish" /\ caller'[p].mask = caller[p].mask
      /\ caller'[p].todo = caller[p].todo /\ caller'[p].generation = caller[p].generation
      /\ caller'[p].completed = caller[p].completed
  BY <1>0 DEF PublishCall, Goto, CallerRecord, Others
<1>3. Published(p) /\ Published(p)' /\ InCall(p)
  BY Zenon, <1>1, <1>2 DEF Published, InCall
<1>4. Target(p) \in caller[p].todo /\ Target(p) \in Pcpu
  BY <1>0, <1>1, TargetIn
<1>5. smp_call_info \in [Pcpu -> Mailbox] /\ caller[p].generation \in GenOrNull
  BY <1>0, Fields DEF TypeOK
<1>6. /\ smp_call_info' \in [Pcpu -> Mailbox]
      /\ smp_call_info'[Target(p)].call = caller[p].generation
      /\ \A q \in Pcpu : /\ smp_call_info'[q].generation = smp_call_info[q].generation
                         /\ q # Target(p) => smp_call_info'[q] = smp_call_info[q]
  BY <1>4, <1>5 DEF PublishCall, Mailbox
<1>7. TypeOK'
  <2>1. caller' \in [Pcpu -> CallerRecord]
    BY Zenon, <1>1, CallerTypes DEF CallInv, CallerStep, PublishActive, At
  <2> QED BY <1>0, <1>1, <1>6, <2>1 DEF TypeOK
<1>8. CallerInv(p)'
  <2>1. \A q \in Pcpu \ caller[p].mask : Empty(q)'
    BY <1>0, <1>3, <1>4, <1>6, Zenon DEF CallerInv, Empty
  <2> QED BY <1>0, <1>1, <1>2, <1>6, <2>1, Zenon DEF CallerInv, Published, Working, Target
<1>9. \A q \in Pcpu : BoxInv(q)'
  <2> SUFFICES ASSUME NEW q \in Pcpu PROVE BoxInv(q)'
    OBVIOUS
  <2>1. BoxInv(q)
    BY DEF CallInv
  <2>2. caller[p].generation = smp_call_next_generation
    BY <1>0, <1>3 DEF CallerInv
  <2> QED BY <1>1, <1>6, <2>1, <2>2 DEF BoxInv
<1>10. ActiveInv' /\ \A q \in Pcpu : IrqInv(q)'
  BY <1>1, <1>6 DEF CallInv, ActiveInv, IrqInv, IsActive
<1>11. \A q \in Pcpu : OnceInv(q)'
  BY Zenon, <1>0, <1>1, <1>2, <1>3, OnceKeeps
<1>12. ASSUME ~expired PROVE CallerInTime(p)' /\ \A q \in Pcpu : HandlerInTime(q)'
  <2>1. CallerInTime(p) /\ \A q \in Pcpu : HandlerInTime(q)
    BY <1>0, <1>12 DEF CallInv, TimeInv
  <2> QED BY <1>1, <1>2, <2>1, Zenon DEF CallerInTime, Answering, HandlerInTime
<1> QED BY Zenon, <1>0, <1>1, <1>2, <1>3, <1>7, <1>8, <1>9, <1>10, <1>11, <1>12, OwnerStep

(* Publishing the generation of a mailbox and kicking its pCPU keeps the   *)
(* invariant.                                                              *)
LEMMA PublishGenerationStep ==
    ASSUME FfsFinds, CallInv, NEW p \in Active, PublishGenerationAndKick(p) PROVE CallInv'
<1>0. p \in Pcpu /\ caller \in [Pcpu -> CallerRecord] /\ TypeOK /\ CallerInv(p)
  BY Zenon, SmpCallConstants DEF CallInv, TypeOK
<1>1. /\ caller[p].pc = "publish" /\ caller[p].todo # {}
      /\ sgi' = sgi \cup {Target(p)}
      /\ UNCHANGED <<smp_call_owner, smp_call_next_generation, smp_call_active_generation,
                     smp_call_mask, irq, ran, remote, expired>>
  BY <1>0 DEF PublishGenerationAndKick, At, global, history, CallerInv
<1>2. /\ Others(p) /\ caller'[p].pc = "loop" /\ caller'[p].mask = caller[p].mask
      /\ caller'[p].todo \subseteq caller[p].todo
      /\ caller'[p].generation = caller[p].generation
      /\ caller'[p].completed = caller[p].completed
  BY <1>0 DEF PublishGenerationAndKick, CallerRecord, Others
<1>3. Published(p) /\ Published(p)' /\ InCall(p)
  BY <1>1, <1>2, Zenon DEF Published, InCall
<1>4. Target(p) \in caller[p].todo /\ Target(p) \in Pcpu
  BY <1>0, <1>1, TargetIn
<1>5. smp_call_info \in [Pcpu -> Mailbox] /\ caller[p].generation \in GenOrNull
  BY <1>0, Fields DEF TypeOK
<1>6. /\ smp_call_info' \in [Pcpu -> Mailbox]
      /\ smp_call_info'[Target(p)].generation = caller[p].generation
      /\ \A q \in Pcpu : /\ smp_call_info'[q].call = smp_call_info[q].call
                         /\ q # Target(p) => smp_call_info'[q] = smp_call_info[q]
  BY <1>4, <1>5 DEF PublishGenerationAndKick, Mailbox
<1>7. TypeOK'
  <2>1. caller' \in [Pcpu -> CallerRecord]
    BY Zenon, <1>1, CallerTypes DEF CallInv, CallerStep, PublishActive, At
  <2>2. sgi' \in SUBSET Pcpu
    BY <1>0, <1>1, <1>4 DEF TypeOK
  <2> QED BY <1>0, <1>1, <1>6, <2>1, <2>2 DEF TypeOK
<1>8. CallerInv(p)'
  <2>1. \A q \in Pcpu \ caller[p].mask : Empty(q)'
    BY <1>0, <1>3, <1>4, <1>6, Zenon DEF CallerInv, Empty
  <2> QED BY Zenon, <1>0, <1>1, <1>2, <2>1 DEF CallerInv, Published, Working
<1>9. \A q \in Pcpu : BoxInv(q)'
  <2> SUFFICES ASSUME NEW q \in Pcpu PROVE BoxInv(q)'
    OBVIOUS
  <2>1. BoxInv(q)
    BY DEF CallInv
  <2>2. smp_call_info[Target(p)].call = caller[p].generation
    BY <1>0, <1>1 DEF CallerInv
  <2> QED BY <1>1, <1>6, <2>1, <2>2 DEF BoxInv
<1>10. ActiveInv' /\ \A q \in Pcpu : IrqInv(q)'
  <2>1. smp_call_active_generation = caller[p].generation
    BY <1>0, <1>1 DEF CallerInv, Working
  <2> QED BY <1>1, <1>6, <2>1 DEF CallInv, ActiveInv, IrqInv, IsActive
<1>11. \A q \in Pcpu : OnceInv(q)'
  BY Zenon, <1>0, <1>1, <1>2, <1>3, OnceKeeps
<1>12. ASSUME ~expired PROVE CallerInTime(p)' /\ \A q \in Pcpu : HandlerInTime(q)'
  <2>1. CallerInTime(p) /\ \A q \in Pcpu : HandlerInTime(q)
    BY <1>0, <1>12 DEF CallInv, TimeInv
  <2> QED BY Zenon, <1>1, <1>2, <2>1 DEF CallerInTime, Answering, HandlerInTime
<1> QED BY Zenon, <1>0, <1>1, <1>2, <1>3, <1>7, <1>8, <1>9, <1>10, <1>11, <1>12, OwnerStep

=============================================================================
