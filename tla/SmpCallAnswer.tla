--------------------------- MODULE SmpCallAnswer ----------------------------
(***************************************************************************)
(* SmpCallPublish continued: the steps by which a caller waits and closes, *)
(* each step of kick_notification(), and the initial state.                *)
(***************************************************************************)
EXTENDS SmpCallPublish

(* The caller that waits keeps the invariant.                              *)
LEMMA WaitStep == ASSUME CallInv, NEW p \in Active, Wait(p) PROVE CallInv'
<1>0. p \in Pcpu /\ caller \in [Pcpu -> CallerRecord] /\ TypeOK /\ CallerInv(p)
  BY Zenon, SmpCallConstants DEF CallInv, TypeOK
<1>1. /\ caller[p].pc = "loop" /\ expired' = (expired \/ smp_call_mask # {})
      /\ UNCHANGED <<smp_call_owner, smp_call_next_generation, smp_call_active_generation,
                     smp_call_mask, smp_call_info, sgi, irq, ran, remote>>
  BY DEF Wait, At, global
<1>2. /\ Others(p) /\ caller'[p].pc = "revoke" /\ caller'[p].mask = caller[p].mask
      /\ caller'[p].todo = caller[p].todo
      /\ caller'[p].generation = caller[p].generation
      /\ caller'[p].completed = (smp_call_mask = {})
  BY <1>0 DEF Wait, CallerRecord, Others
<1>3. Published(p) /\ Published(p)' /\ InCall(p)
  BY Zenon, <1>1, <1>2 DEF Published, InCall
<1>4. TypeOK'
  <2>1. caller' \in [Pcpu -> CallerRecord]
    BY Zenon, <1>1, CallerTypes DEF CallInv, CallerStep, PublishActive, At
  <2>2. expired' \in BOOLEAN
    BY <1>0, <1>1 DEF TypeOK
  <2> QED BY <1>0, <1>1, <2>1, <2>2 DEF TypeOK
<1>5. CallerInv(p)'
  BY Zenon, <1>0, <1>1, <1>2 DEF CallerInv, Published, Working, Empty
<1>6. /\ ActiveInv' /\ \A q \in Pcpu : BoxInv(q)' /\ IrqInv(q)'
      /\ ~expired => \A q \in Pcpu : HandlerInTime(q)'
  BY <1>1, SharedKeeps
<1>7. \A q \in Pcpu : OnceInv(q)'
  BY Zenon, <1>0, <1>1, <1>2, <1>3, OnceKeeps
<1>8. ASSUME ~expired' PROVE ~expired /\ CallerInTime(p)'
  <2>1. CallerInTime(p) /\ ~expired /\ smp_call_mask = {}
    BY Zenon, <1>0, <1>1, <1>8 DEF CallInv, TimeInv
  <2> QED BY Zenon, <1>1, <1>2, <2>1 DEF CallerInTime, Answering
<1> QED BY Zenon, <1>0, <1>1, <1>2, <1>3, <1>4, <1>5, <1>6, <1>7, <1>8, OwnerStep

(* The revocation after a timeout keeps the invariant.                     *)
LEMMA RevokeStep == ASSUME CallInv, NEW p \in Active, Revoke(p) PROVE CallInv'
<1>0. p \in Pcpu /\ caller \in [Pcpu -> CallerRecord] /\ TypeOK /\ CallerInv(p)
  BY Zenon, SmpCallConstants DEF CallInv, TypeOK
<1>1. /\ caller[p].pc = "revoke" /\ smp_call_active_generation' = 0
      /\ UNCHANGED <<smp_call_owner, smp_call_next_generation, smp_call_mask, smp_call_info,
                     sgi, irq, ran, remote, expired>>
  BY DEF Revoke, At, history
<1>2. /\ Others(p) /\ caller'[p].pc = "clear" /\ caller'[p].mask = caller[p].mask
      /\ caller'[p].todo = caller[p].mask
      /\ caller'[p].generation = caller[p].generation
      /\ caller'[p].completed = caller[p].completed
  BY <1>0 DEF Revoke, CallerRecord, Others
<1>3. Published(p) /\ Published(p)' /\ InCall(p)
  BY <1>1, <1>2 DEF Published, InCall
<1>4. TypeOK'
  <2>1. caller' \in [Pcpu -> CallerRecord]
    BY Zenon, <1>1, CallerTypes DEF CallInv, CallerStep, PublishActive, At
  <2> QED BY <1>0, <1>1, <2>1, Numbers DEF TypeOK
<1>5. CallerInv(p)'
  BY <1>0, <1>1, <1>2, <1>3 DEF CallerInv, Published, Working, Empty
<1>6. ActiveInv' /\ \A q \in Pcpu : BoxInv(q)' /\ IrqInv(q)'
  BY <1>1 DEF CallInv, ActiveInv, BoxInv, IrqInv, IsActive
<1>7. \A q \in Pcpu : OnceInv(q)'
  BY Zenon, <1>0, <1>1, <1>2, <1>3, OnceKeeps
<1>8. ASSUME ~expired PROVE CallerInTime(p)' /\ \A q \in Pcpu : HandlerInTime(q)'
  <2>1. /\ CallerInTime(p) /\ (\A q \in Pcpu : HandlerInTime(q))
        /\ caller[p].completed /\ smp_call_mask = {}
    BY Zenon, <1>0, <1>1, <1>8 DEF CallInv, TimeInv, CallerInTime, CallerInv
  <2> QED BY Zenon, <1>1, <1>2, <2>1 DEF CallerInTime, Answering, HandlerInTime
<1> QED BY Zenon, <1>0, <1>1, <1>2, <1>3, <1>4, <1>5, <1>6, <1>7, <1>8, OwnerStep

(* Clearing a mailbox on the way out keeps the invariant.                  *)
LEMMA ClearInfoStep == ASSUME FfsFinds, CallInv, NEW p \in Active, ClearInfo(p) PROVE CallInv'
<1>0. p \in Pcpu /\ caller \in [Pcpu -> CallerRecord] /\ TypeOK /\ CallerInv(p)
  BY Zenon, SmpCallConstants DEF CallInv, TypeOK
<1>1. /\ caller[p].pc = "clear" /\ caller[p].todo # {}
      /\ UNCHANGED <<smp_call_owner, smp_call_next_generation, smp_call_active_generation,
                     smp_call_mask, sgi, irq, ran, remote, expired>>
  BY DEF ClearInfo, At, global, history
<1>2. /\ Others(p) /\ caller'[p].pc = "clear" /\ caller'[p].mask = caller[p].mask
      /\ caller'[p].todo = caller[p].todo \ {Target(p)}
      /\ caller'[p].generation = caller[p].generation
      /\ caller'[p].completed = caller[p].completed
  BY <1>0, <1>1 DEF ClearInfo, CallerRecord, Others
<1>3. Published(p) /\ Published(p)' /\ InCall(p)
  BY <1>1, <1>2 DEF Published, InCall
<1>4. Target(p) \in caller[p].todo /\ Target(p) \in Pcpu
  BY <1>0, <1>1, TargetIn
<1>5. smp_call_info \in [Pcpu -> Mailbox]
  BY <1>0 DEF TypeOK
<1>6. /\ smp_call_info' \in [Pcpu -> Mailbox]
      /\ smp_call_info'[Target(p)] = EmptyBox
      /\ \A q \in Pcpu : q # Target(p) => smp_call_info'[q] = smp_call_info[q]
  BY <1>4, <1>5, EmptyTypes DEF ClearInfo
<1>7. TypeOK'
  <2>1. caller' \in [Pcpu -> CallerRecord]
    BY Zenon, <1>1, CallerTypes DEF CallInv, CallerStep, PublishActive, At
  <2> QED BY <1>0, <1>1, <1>6, <2>1 DEF TypeOK
<1>8. CallerInv(p)'
  <2>1. \A q \in Pcpu : Empty(q) \/ q = Target(p) => Empty(q)'
    BY <1>6 DEF Empty
  <2> QED BY Zenon, <1>0, <1>1, <1>2, <2>1 DEF CallerInv, Published, Working
<1>9. \A q \in Pcpu : BoxInv(q)'
  <2> SUFFICES ASSUME NEW q \in Pcpu PROVE BoxInv(q)'
    OBVIOUS
  <2>1. BoxInv(q)
    BY DEF CallInv
  <2> QED BY <1>1, <1>6, <2>1 DEF BoxInv, EmptyBox, NULL
<1>10. ActiveInv' /\ \A q \in Pcpu : IrqInv(q)'
  <2>1. smp_call_active_generation = 0
    BY Zenon, <1>0, <1>1 DEF CallerInv
  <2> QED BY Zenon, <1>1, <2>1 DEF CallInv, ActiveInv, IrqInv, IsActive
<1>11. \A q \in Pcpu : OnceInv(q)'
  BY <1>0, <1>1, <1>2, <1>3, OnceKeeps
<1>12. ASSUME ~expired PROVE CallerInTime(p)' /\ \A q \in Pcpu : HandlerInTime(q)'
  <2>1. CallerInTime(p) /\ \A q \in Pcpu : HandlerInTime(q)
    BY <1>0, <1>12 DEF CallInv, TimeInv
  <2> QED BY Zenon, <1>1, <1>2, <2>1 DEF CallerInTime, Answering, HandlerInTime
<1> QED BY <1>0, <1>1, <1>2, <1>3, <1>7, <1>8, <1>9, <1>10, <1>11, <1>12, OwnerStep

(* The owner gives the mailbox up clean, before it published anything or   *)
(* after it cleared what it had published.                                 *)
LEMMA ReleaseStep ==
    ASSUME CallInv, NEW p \in Active, OwnedTooLate(p) \/ Release(p) PROVE CallInv'
<1>0. p \in Pcpu /\ caller \in [Pcpu -> CallerRecord] /\ TypeOK /\ CallerInv(p)
  BY Zenon, SmpCallConstants DEF CallInv, TypeOK
<1>1. /\ \/ caller[p].pc = "owned" /\ UNCHANGED smp_call_mask
         \/ /\ caller[p].pc = "clear" /\ caller[p].todo = {}
            /\ smp_call_mask' = IF caller[p].completed THEN smp_call_mask ELSE {}
      /\ smp_call_owner' = 0 /\ caller' = [caller EXCEPT ![p] = NotCalling]
      /\ UNCHANGED <<smp_call_next_generation, smp_call_active_generation, smp_call_info,
                     sgi, irq, ran, remote, expired>>
  BY Zenon DEF OwnedTooLate, Release, At, history
<1>2. caller'[p] = NotCalling /\ Others(p) /\ InCall(p)
  BY <1>0, <1>1 DEF Others, InCall
<1>3. /\ smp_call_active_generation = 0 /\ smp_call_mask' = {}
      /\ \A q \in Pcpu : Empty(q)
  BY <1>0, <1>1 DEF CallerInv
<1>4. TypeOK'
  <2>1. caller' \in [Pcpu -> CallerRecord]
    BY <1>0, <1>1, EmptyTypes
  <2> QED BY Zenon, <1>0, <1>1, <1>3, <2>1 DEF TypeOK
<1>6. \A r \in Pcpu : CallerInv(r)' /\ CallerInTime(r)' /\ ~InCall(r)'
  <2>1. \A r \in Pcpu : r # p => CallerInv(r)' /\ CallerInTime(r)' /\ ~InCall(r)'
    BY <1>0, <1>2, OwnerKeeps
  <2>2. CallerInv(p)' /\ CallerInTime(p)' /\ ~InCall(p)'
    BY <1>2 DEF CallerInv, CallerInTime, InCall, Published, Working, Answering, NotCalling
  <2> QED BY <2>1, <2>2
<1>7. OwnerInv' /\ CleanHandover'
  BY <1>1, <1>3, <1>6 DEF OwnerInv, CleanHandover, Empty
<1>8. ActiveInv' /\ RemoteInv' /\ \A q \in Pcpu : BoxInv(q)' /\ IrqInv(q)'
  BY Zenon, <1>1 DEF CallInv, ActiveInv, RemoteInv, BoxInv, IrqInv, IsActive
<1>9. \A q \in Pcpu : OnceInv(q)'
  <2>1. smp_call_mask' \subseteq smp_call_mask /\ caller'[p].pc # "mask"
    BY <1>2, <1>3 DEF NotCalling
  <2> QED BY Zenon, <1>0, <1>1, <1>2, <2>1, OnceKeeps
<1>10. ASSUME ~expired, NEW q \in Pcpu PROVE HandlerInTime(q)'
  <2>1. HandlerInTime(q) /\ smp_call_mask = {}
    BY Zenon, <1>0, <1>1, <1>10 DEF CallInv, TimeInv, CallerInTime, CallerInv
  <2> QED BY <1>1, <2>1 DEF HandlerInTime
<1> QED BY Zenon, <1>1, <1>4, <1>6, <1>7, <1>8, <1>9, <1>10 DEF CallInv, TimeInv

-----------------------------------------------------------------------------
(* As long as every wait has ended in time, a bit that is set belongs to   *)
(* the call that is active.                                                *)
LEMMA InTimeActive ==
    ASSUME CallInv, ~expired, smp_call_mask # {}
    PROVE  smp_call_active_generation = smp_call_next_generation /\ smp_call_next_generation # 0
<1>1. smp_call_owner = 1
  BY DEF CallInv, CleanHandover, TypeOK
<1>2. PICK p \in Pcpu : InCall(p)
  BY <1>1 DEF CallInv, OwnerInv
<1>3. CallerInv(p) /\ CallerInTime(p) /\ caller[p].pc \in CallerPlace
  BY Fields DEF CallInv, TimeInv
<1>4. caller[p].pc \notin {"owned", "clear"}
  BY <1>3 DEF CallerInv, CallerInTime
<1>5. Published(p) /\ Working(p)
  BY <1>2, <1>3, <1>4 DEF InCall, Published, Working, CallerPlace
<1> QED BY <1>3, <1>5 DEF CallerInv

(* A handler's step disturbs no caller and no other handler.               *)
LEMMA HandlerStep ==
    ASSUME CallInv, NEW q \in Pcpu, TypeOK',
           \A r \in Pcpu : r # q => irq'[r] = irq[r],
           UNCHANGED <<smp_call_owner, smp_call_next_generation, smp_call_active_generation,
                       smp_call_info, caller, remote, expired>>,
           smp_call_mask' \in {smp_call_mask, smp_call_mask \ {q}},
           \A r \in Pcpu : \A g \in Generation : r # q => ran'[r][g] = ran[r][g],
           \A g \in Generation : ran[q][g] > 0 => ran'[q][g] > 0,
           IrqInv(q)', OnceInv(q)', ~expired => HandlerInTime(q)',
           ~expired /\ smp_call_mask' # smp_call_mask =>
               \A p \in Pcpu : Answering(p) => ran'[q][caller[p].generation] > 0
    PROVE  CallInv'
<1>0. /\ smp_call_mask' \subseteq smp_call_mask
      /\ \A r \in Pcpu : r # q /\ r \in smp_call_mask => r \in smp_call_mask'
  OBVIOUS
<1>2. OwnerInv' /\ ActiveInv' /\ RemoteInv' /\ CleanHandover'
  BY <1>0 DEF CallInv, OwnerInv, InCall, ActiveInv, RemoteInv, CleanHandover
<1>3. \A r \in Pcpu : BoxInv(r)'
  BY DEF CallInv, BoxInv
<1>4. ASSUME NEW r \in Pcpu PROVE CallerInv(r)'
  <2>1. CallerInv(r)
    BY DEF CallInv
  <2> QED BY <1>0, <2>1 DEF CallerInv, Published, Working, Target, Empty
<1>5. ASSUME NEW r \in Pcpu, r # q PROVE IrqInv(r)'
  <2>1. IrqInv(r) /\ irq'[r] = irq[r]
    BY <1>5 DEF CallInv
  <2> QED BY <2>1 DEF IrqInv, IsActive
<1>6. ASSUME NEW r \in Pcpu, r # q PROVE OnceInv(r)'
  <2>1. OnceInv(r) /\ irq'[r] = irq[r] /\ \A g \in Generation : ran'[r][g] = ran[r][g]
    BY <1>6 DEF CallInv
  <2>2. \A g \in remote : g \in Generation
    BY DEF CallInv, RemoteInv
  <2>3. \A p \in Pcpu : caller[p].pc = "mask" => caller[p].generation \in Generation
    BY Fields DEF CallInv, CallerInv, Published, GenOrNull, NULL
  <2> QED BY <1>0, <2>1, <2>2, <2>3 DEF OnceInv
<1>7. ASSUME ~expired, NEW r \in Pcpu PROVE HandlerInTime(r)'
  <2> SUFFICES ASSUME r # q PROVE HandlerInTime(r)'
    BY <1>7
  <2>1. HandlerInTime(r) /\ irq'[r] = irq[r]
    BY <1>7 DEF CallInv, TimeInv
  <2>2. irq[r].generation # 0 => ran'[r][irq[r].generation] = ran[r][irq[r].generation]
    BY Fields DEF CallInv, GenOrNull, NULL
  <2> QED BY <1>0, <2>1, <2>2 DEF HandlerInTime
<1>8. ASSUME ~expired, NEW p \in Pcpu PROVE CallerInTime(p)'
  <2>1. CallerInTime(p) /\ CallerInv(p) /\ TypeOK /\ CallerInv(p)'
    BY <1>4, <1>8 DEF CallInv, TimeInv
  <2>2. CASE ~Published(p)
    BY <2>2 DEF CallerInTime, Answering, Published
  <2>3. CASE Published(p)
    <3>1. caller[p].generation \in Generation /\ caller[p].mask \in SUBSET Pcpu
      BY <2>1, <2>3, Fields DEF CallerInv, GenOrNull, NULL
    <3>2. ASSUME NEW r \in Pcpu
          PROVE  ran[r][caller[p].generation] > 0 => ran'[r][caller[p].generation] > 0
      BY <3>1
    <3>3. Answering(p) => \A r \in caller[p].mask \cap (Active \cup {p}) :
                             r \in smp_call_mask' \/ ran'[r][caller[p].generation] > 0
      BY <1>8, <2>1, <3>1, <3>2 DEF CallerInTime
    <3> QED BY <2>1, <3>2, <3>3 DEF CallerInTime, Answering, Target
  <2> QED BY <2>2, <2>3
<1> QED BY <1>2, <1>3, <1>4, <1>5, <1>6, <1>7, <1>8 DEF CallInv, TimeInv

(* Taking the SGI keeps the invariant.                                     *)
LEMMA TakeSgiStep == ASSUME CallInv, NEW q \in Active, TakeSgi(q) PROVE CallInv'
<1>0. q \in Pcpu /\ irq \in [Pcpu -> IrqRecord] /\ TypeOK /\ IrqInv(q) /\ OnceInv(q)
  BY SmpCallConstants DEF CallInv, TypeOK
<1>1. /\ irq[q].pc = "out" /\ sgi' = sgi \ {q}
      /\ UNCHANGED <<smp_call_owner, smp_call_next_generation, smp_call_active_generation,
                     smp_call_mask, smp_call_info, caller, ran, remote, expired>>
  BY DEF TakeSgi, global, history
<1>2. /\ irq'[q].pc = (IF q \in smp_call_mask THEN "generation" ELSE "out")
      /\ irq'[q].generation = irq[q].generation /\ irq'[q].call = irq[q].call
      /\ \A r \in Pcpu : r # q => irq'[r] = irq[r]
      /\ irq' \in [Pcpu -> IrqRecord]
  BY <1>0 DEF TakeSgi, IrqRecord, IrqPlace
<1>3. TypeOK'
  BY <1>0, <1>1, <1>2 DEF TypeOK
<1>4. IrqInv(q)'
  BY <1>0, <1>1, <1>2 DEF IrqInv, IsActive
<1>5. OnceInv(q)'
  BY <1>0, <1>1, <1>2 DEF OnceInv
<1>6. ~expired => HandlerInTime(q)'
  BY <1>0, <1>1, <1>2 DEF HandlerInTime, IrqInv
<1> QED BY <1>0, <1>1, <1>2, <1>3, <1>4, <1>5, <1>6, HandlerStep

(* The generation is loaded before func and data.  A handler whose         *)
(* generation is still active when it loads them gets those of that call.  *)
LEMMA LoadMailboxStep == ASSUME CallInv, NEW q \in Active, LoadMailbox(q) PROVE CallInv'
<1>0. /\ q \in Pcpu /\ irq \in [Pcpu -> IrqRecord] /\ TypeOK
      /\ IrqInv(q) /\ OnceInv(q) /\ BoxInv(q) /\ ActiveInv
  BY Zenon, SmpCallConstants DEF CallInv, TypeOK
<1>1. UNCHANGED <<smp_call_owner, smp_call_next_generation, smp_call_active_generation,
                  smp_call_mask, smp_call_info, sgi, caller, ran, remote, expired>>
  BY DEF LoadMailbox, global, history
<1>2. /\ smp_call_info[q].generation \in GenOrNull /\ smp_call_info[q].call \in GenOrNull
      /\ smp_call_info[q].generation \in Nat /\ smp_call_info[q].call \in Nat
      /\ irq[q].generation \in Nat /\ irq[q].call \in Nat /\ smp_call_next_generation \in Nat
  BY Zenon, <1>0, Fields, Numbers
<1>3. CASE irq[q].pc = "generation"
  <2>1. /\ irq'[q].pc = "call" /\ irq'[q].generation = smp_call_info[q].generation
        /\ irq'[q].call = irq[q].call
        /\ (\A r \in Pcpu : r # q => irq'[r] = irq[r])
        /\ irq' \in [Pcpu -> IrqRecord]
    BY <1>0, <1>2, <1>3 DEF LoadMailbox, IrqRecord, IrqPlace
  <2>2. TypeOK'
    BY <1>0, <1>1, <2>1 DEF TypeOK
  <2>3. IrqInv(q)'
    <3>1. smp_call_info[q].generation <= smp_call_next_generation
      BY <1>0, <1>2 DEF BoxInv
    <3>2. q \in Active
      OBVIOUS
    <3> QED BY <1>1, <2>1, <3>1, <3>2 DEF IrqInv, IsActive
  <2>4. OnceInv(q)'
    BY <1>0, <1>1, <1>3, <2>1 DEF OnceInv
  <2>5. ASSUME ~expired PROVE HandlerInTime(q)'
    <3>1. HandlerInTime(q) /\ q \in smp_call_mask
      BY <1>0, <1>3, <2>5 DEF CallInv, TimeInv, HandlerInTime
    <3>2. smp_call_active_generation = smp_call_next_generation
      BY <2>5, <3>1, InTimeActive
    <3>3. smp_call_info[q].generation \in {0, smp_call_active_generation}
      BY <1>0, <3>2 DEF BoxInv
    <3> QED BY <1>1, <2>1, <3>1, <3>3 DEF HandlerInTime
  <2> QED BY <1>0, <1>1, <2>1, <2>2, <2>3, <2>4, <2>5, HandlerStep
<1>4. CASE irq[q].pc = "call"
  <2>1. /\ irq'[q].pc = "check" /\ irq'[q].generation = irq[q].generation
        /\ irq'[q].call = smp_call_info[q].call
        /\ (\A r \in Pcpu : r # q => irq'[r] = irq[r])
        /\ irq' \in [Pcpu -> IrqRecord]
    BY <1>0, <1>2, <1>4 DEF LoadMailbox, IrqRecord, IrqPlace
  <2>2. TypeOK'
    BY <1>0, <1>1, <2>1 DEF TypeOK
  <2>3. IrqInv(q)'
    <3>1. smp_call_info[q].call # 0 => /\ irq[q].generation <= smp_call_info[q].call
                                       /\ smp_call_info[q].call <= smp_call_next_generation
      BY <1>0, <1>2 DEF BoxInv, IrqInv
    <3> QED BY <1>0, <1>1, <1>4, <2>1, <3>1 DEF IrqInv, IsActive
  <2>4. OnceInv(q)'
    BY <1>0, <1>1, <1>4, <2>1 DEF OnceInv
  <2>5. ASSUME ~expired PROVE HandlerInTime(q)'
    <3>1. HandlerInTime(q)
      BY <1>0, <2>5 DEF CallInv, TimeInv
    <3>2. irq[q].generation # 0 => IsActive(q)
      BY <1>4, <3>1 DEF HandlerInTime, IsActive
    <3>3. irq[q].generation # 0 => smp_call_info[q].call = irq[q].generation
      BY <1>0, <3>2 DEF IrqInv, IsActive, BoxInv
    <3> QED BY <1>1, <1>4, <2>1, <3>1, <3>3 DEF HandlerInTime
  <2> QED BY <1>0, <1>1, <2>1, <2>2, <2>3, <2>4, <2>5, HandlerStep
<1> QED BY <1>3, <1>4 DEF LoadMailbox

(* The first look of kick_notification() at its mailbox keeps the          *)
(* invariant.                                                              *)
LEMMA CheckStep == ASSUME CallInv, NEW q \in Active, Check(q) PROVE CallInv'
<1>0. /\ q \in Pcpu /\ irq \in [Pcpu -> IrqRecord] /\ TypeOK
      /\ IrqInv(q) /\ OnceInv(q) /\ ActiveInv
  BY SmpCallConstants DEF CallInv, TypeOK
<1>1. /\ irq[q].pc = "check"
      /\ UNCHANGED <<smp_call_owner, smp_call_next_generation, smp_call_active_generation,
                     smp_call_mask, smp_call_info, sgi, caller, ran, remote, expired>>
  BY DEF Check, global, history
<1>2. /\ irq'[q].pc = (IF IsActive(q) /\ irq[q].call # NULL THEN "run" ELSE "done")
      /\ irq'[q].generation = irq[q].generation /\ irq'[q].call = irq[q].call
      /\ (\A r \in Pcpu : r # q => irq'[r] = irq[r])
      /\ irq' \in [Pcpu -> IrqRecord]
  BY <1>0 DEF Check, IrqRecord, IrqPlace
<1>3. TypeOK'
  BY <1>0, <1>1, <1>2 DEF TypeOK
<1>4. irq'[q].pc = "run" => /\ irq[q].call = irq[q].generation
                            /\ irq[q].generation = smp_call_active_generation
                            /\ irq[q].generation # 0
  <2> SUFFICES ASSUME IsActive(q), irq[q].call # 0
               PROVE  irq[q].call = irq[q].generation
    BY <1>2 DEF IsActive, NULL
  <2>1. irq[q].generation = smp_call_next_generation
    BY <1>0 DEF IsActive, ActiveInv
  <2>2. irq[q].generation <= irq[q].call /\ irq[q].call <= smp_call_next_generation
    BY <1>0, <1>1 DEF IrqInv
  <2>3. irq[q].generation \in Nat /\ irq[q].call \in Nat /\ smp_call_next_generation \in Nat
    BY Zenon, <1>0, Fields, Numbers
  <2> QED BY <2>1, <2>2, <2>3
<1>5. IrqInv(q)'
  BY <1>0, <1>1, <1>2, <1>4 DEF IrqInv, IsActive
<1>6. OnceInv(q)'
  <2>1. \A g \in remote : g = smp_call_active_generation => ran[q][g] = 0
    <3> SUFFICES ASSUME NEW g \in remote, g = smp_call_active_generation PROVE ran[q][g] = 0
      OBVIOUS
    <3>1. ran[q][g] \in Nat
      BY <1>0 DEF TypeOK
    <3>2. ran[q][g] <= 1 /\ ran[q][g] # 1
      BY <1>0, <1>1 DEF OnceInv
    <3> QED BY <3>1, <3>2
  <2> QED BY <1>0, <1>1, <1>2, <1>4, <2>1 DEF OnceInv
<1>7. ASSUME ~expired PROVE HandlerInTime(q)'
  <2>1. HandlerInTime(q)
    BY <1>0, <1>7 DEF CallInv, TimeInv
  <2>2. irq[q].generation # 0 => IsActive(q) /\ irq[q].call # NULL
    BY <1>1, <2>1 DEF HandlerInTime, IsActive, NULL
  <2> QED BY <1>1, <1>2, <2>1, <2>2 DEF HandlerInTime
<1> QED BY <1>0, <1>1, <1>2, <1>3, <1>5, <1>6, <1>7, HandlerStep

(* Running the callback keeps the invariant.                               *)
LEMMA RunCallbackStep == ASSUME CallInv, NEW q \in Active, RunCallback(q) PROVE CallInv'
<1>0. q \in Pcpu /\ irq \in [Pcpu -> IrqRecord] /\ TypeOK /\ IrqInv(q) /\ OnceInv(q)
  BY SmpCallConstants DEF CallInv, TypeOK
<1>1. /\ irq[q].pc = "run" /\ Count(q, irq[q].call)
      /\ UNCHANGED <<smp_call_owner, smp_call_next_generation, smp_call_active_generation,
                     smp_call_mask, smp_call_info, sgi, caller, remote, expired>>
  BY DEF RunCallback, global, history
<1>2. /\ irq'[q].pc = "done"
      /\ irq'[q].generation = irq[q].generation /\ irq'[q].call = irq[q].call
      /\ (\A r \in Pcpu : r # q => irq'[r] = irq[r])
      /\ irq' \in [Pcpu -> IrqRecord]
  BY <1>0 DEF RunCallback, IrqRecord, IrqPlace
<1>3. /\ irq[q].call = irq[q].generation /\ irq[q].call \in Generation
      /\ irq[q].call <= smp_call_next_generation /\ irq[q].generation # 0
  BY <1>0, <1>1, Fields DEF IrqInv, GenOrNull, NULL
<1>4. /\ ran' \in [Pcpu -> [Generation -> Nat]]
      /\ ran[q][irq[q].call] \in Nat /\ ran'[q][irq[q].call] = ran[q][irq[q].call] + 1
      /\ \A r \in Pcpu : \A h \in Generation :
            r # q \/ h # irq[q].call => ran'[r][h] = ran[r][h]
  BY <1>0, <1>1, <1>3, CountFacts
<1>5. TypeOK'
  BY <1>0, <1>1, <1>2, <1>4 DEF TypeOK
<1>6. IrqInv(q)'
  BY <1>0, <1>1, <1>2 DEF IrqInv, IsActive
<1>7. OnceInv(q)'
  <2>1. ASSUME NEW g \in Generation, g > smp_call_next_generation PROVE ran'[q][g] = 0
    <3>1. g # irq[q].call
      BY <1>0, <1>3, <2>1, Numbers
    <3> QED BY <1>0, <1>4, <2>1, <3>1 DEF OnceInv
  <2>2. ASSUME NEW p \in Pcpu, caller[p].pc = "mask"
        PROVE  ran'[q][caller[p].generation] = 0
    <3>1. /\ CallerInv(p) /\ Published(p) /\ Working(p)
      BY <2>2 DEF CallInv, Published, Working
    <3>2. caller[p].generation \in Generation
      BY <1>0, <3>1, Fields DEF CallerInv, GenOrNull, NULL
    <3>3. smp_call_info[q].generation = 0 /\ caller[p].generation = smp_call_active_generation
      BY <1>0, <2>2, <3>1 DEF CallerInv, Empty, EmptyBox
    <3>4. irq[q].call # caller[p].generation
      BY <1>0, <1>3, <3>3 DEF IrqInv, IsActive
    <3> QED BY <1>0, <1>4, <2>2, <3>2, <3>4 DEF OnceInv
  <2>3. ASSUME NEW g \in remote
        PROVE  /\ ran'[q][g] <= 1
               /\ ran'[q][g] = 1 /\ smp_call_active_generation = g => irq[q].generation = g
    <3>1. g \in Generation
      BY DEF CallInv, RemoteInv
    <3>2. CASE g = irq[q].call
      BY <1>0, <1>1, <1>3, <1>4, <3>2 DEF OnceInv
    <3>3. CASE g # irq[q].call
      BY <1>0, <1>1, <1>4, <3>1, <3>3 DEF OnceInv
    <3> QED BY <3>2, <3>3
  <2> QED BY <1>1, <1>2, <2>1, <2>2, <2>3 DEF OnceInv
<1>8. ASSUME NEW g \in Generation, ran[q][g] > 0 PROVE ran'[q][g] > 0
  BY <1>0, <1>4, <1>8
<1>9. ASSUME ~expired PROVE HandlerInTime(q)'
  <2>1. HandlerInTime(q)
    BY <1>0, <1>9 DEF CallInv, TimeInv
  <2>2. ran'[q][irq[q].generation] > 0
    BY <1>3, <1>4
  <2> QED BY <1>1, <1>2, <1>3, <2>1, <2>2 DEF HandlerInTime
<1>10. \A r \in Pcpu : \A g \in Generation : r # q => ran'[r][g] = ran[r][g]
  BY <1>4
<1> QED BY <1>0, <1>1, <1>2, <1>5, <1>6, <1>7, <1>8, <1>9, <1>10, HandlerStep

(* A handler whose call is still active finds its generation in the        *)
(* mailbox again, so it acknowledges what it ran.                          *)
LEMMA CheckAgainStep == ASSUME CallInv, NEW q \in Active, CheckAgain(q) PROVE CallInv'
<1>0. q \in Pcpu /\ irq \in [Pcpu -> IrqRecord] /\ TypeOK /\ IrqInv(q) /\ OnceInv(q)
  BY SmpCallConstants DEF CallInv, TypeOK
<1>1. /\ irq[q].pc = "done"
      /\ UNCHANGED <<smp_call_owner, smp_call_next_generation, smp_call_active_generation,
                     smp_call_mask, smp_call_info, sgi, caller, ran, remote, expired>>
  BY DEF CheckAgain, global, history
<1>2. /\ (\A r \in Pcpu : r # q => irq'[r] = irq[r])
      /\ irq' \in [Pcpu -> IrqRecord]
  BY <1>0, EmptyTypes DEF CheckAgain, IrqRecord, IrqPlace
<1>3. TypeOK'
  BY <1>0, <1>1, <1>2 DEF TypeOK
<1>4. CASE IsActive(q) /\ irq[q].generation = smp_call_info[q].generation
  <2>1. /\ irq'[q].pc = "ack" /\ irq'[q].generation = irq[q].generation
        /\ irq'[q].call = irq[q].call
    BY <1>0, <1>4 DEF CheckAgain, IrqRecord
  <2>2. IrqInv(q)'
    BY <1>0, <1>1, <1>4, <2>1 DEF IrqInv, IsActive
  <2>3. OnceInv(q)'
    BY <1>0, <1>1, <2>1 DEF OnceInv
  <2>4. ASSUME ~expired PROVE HandlerInTime(q)'
    <3>1. HandlerInTime(q)
      BY <1>0, <2>4 DEF CallInv, TimeInv
    <3> QED BY <1>1, <2>1, <3>1 DEF HandlerInTime
  <2> QED BY <1>0, <1>1, <1>2, <1>3, <2>2, <2>3, <2>4, HandlerStep
<1>5. CASE ~(IsActive(q) /\ irq[q].generation = smp_call_info[q].generation)
  <2>1. irq'[q] = NotInIrq /\ ~IsActive(q)
    BY <1>0, <1>5 DEF CheckAgain, IrqInv, IsActive
  <2>2. IrqInv(q)'
    <3>1. irq'[q].pc = "out" /\ irq'[q].generation = 0 /\ 0 <= smp_call_next_generation'
      BY <1>0, <1>1, <2>1, Numbers DEF NotInIrq
    <3> QED BY <3>1 DEF IrqInv, IsActive
  <2>3. OnceInv(q)'
    <3>1. 0 \notin remote
      BY Numbers DEF CallInv, RemoteInv
    <3>2. irq'[q].pc = "out"
      BY <2>1 DEF NotInIrq
    <3>3. \A g \in remote : irq[q].generation # smp_call_active_generation \/ g # irq[q].generation
      BY <2>1, <3>1 DEF IsActive
    <3> QED BY <1>0, <1>1, <3>2, <3>3 DEF OnceInv
  <2>4. HandlerInTime(q)'
    BY <2>1 DEF HandlerInTime, NotInIrq
  <2> QED BY <1>0, <1>1, <1>2, <1>3, <2>2, <2>3, <2>4, HandlerStep
<1> QED BY <1>4, <1>5

(* Clearing the bit of the wait mask keeps the invariant.                  *)
LEMMA ClearBitStep == ASSUME CallInv, NEW q \in Active, ClearBit(q) PROVE CallInv'
<1>0. q \in Pcpu /\ irq \in [Pcpu -> IrqRecord] /\ TypeOK /\ IrqInv(q) /\ OnceInv(q)
  BY SmpCallConstants DEF CallInv, TypeOK
<1>1. /\ irq[q].pc = "ack" /\ smp_call_mask' = smp_call_mask \ {q}
      /\ UNCHANGED <<smp_call_owner, smp_call_next_generation, smp_call_active_generation,
                     smp_call_info, sgi, caller, ran, remote, expired>>
  BY DEF ClearBit, global, history
<1>2. /\ (\A r \in Pcpu : r # q => irq'[r] = irq[r]) /\ irq'[q] = NotInIrq
      /\ irq' \in [Pcpu -> IrqRecord]
  BY <1>0, EmptyTypes DEF ClearBit
<1>3. TypeOK'
  BY <1>0, <1>1, <1>2 DEF TypeOK
<1>4. IrqInv(q)' /\ HandlerInTime(q)'
  <2>1. IrqInv(q)'
    <3>1. irq'[q].pc = "out" /\ irq'[q].generation = 0 /\ 0 <= smp_call_next_generation'
      BY <1>0, <1>1, <1>2, Numbers DEF NotInIrq
    <3> QED BY <3>1 DEF IrqInv, IsActive
  <2>2. HandlerInTime(q)'
    BY <1>2 DEF HandlerInTime, NotInIrq
  <2> QED BY <2>1, <2>2
<1>5. OnceInv(q)'
  <2>1. irq'[q].pc = "out" /\ q \notin smp_call_mask'
    BY <1>1, <1>2 DEF NotInIrq
  <2> QED BY <1>0, <1>1, <2>1 DEF OnceInv
<1>6. ASSUME ~expired, NEW p \in Pcpu, Answering(p) PROVE ran'[q][caller[p].generation] > 0
  <2>1. HandlerInTime(q) /\ CallerInv(p)
    BY <1>0, <1>6 DEF CallInv, TimeInv
  <2>2. /\ q \in smp_call_mask /\ irq[q].generation = smp_call_active_generation
        /\ ran[q][irq[q].generation] > 0
    BY Zenon, <1>0, <1>1, <2>1 DEF HandlerInTime, IrqInv
  <2>3. smp_call_active_generation = smp_call_next_generation
    BY <1>6, <2>2, InTimeActive
  <2>4. caller[p].generation = smp_call_next_generation
    BY <1>6, <2>1 DEF Answering, CallerInv, Published
  <2> QED BY <1>1, <2>2, <2>3, <2>4
<1> QED BY <1>0, <1>1, <1>2, <1>3, <1>4, <1>5, <1>6, HandlerStep

(* Neither a stray SGI nor a stutter touches what CallInv speaks of.          *)
LEMMA QuietStep ==
    ASSUME CallInv, TypeOK',
           UNCHANGED <<smp_call_owner, smp_call_next_generation, smp_call_active_generation,
                       smp_call_mask, smp_call_info, caller, irq, ran, remote, expired>>
    PROVE  CallInv'
<1>2. OwnerInv' /\ CleanHandover'
  BY DEF CallInv, OwnerInv, InCall, CleanHandover
<1>3. /\ ActiveInv' /\ RemoteInv' /\ (\A q \in Pcpu : BoxInv(q)' /\ IrqInv(q)' /\ OnceInv(q)')
      /\ ~expired => \A q \in Pcpu : HandlerInTime(q)'
  BY SharedKeeps
<1>4. ASSUME NEW p \in Pcpu PROVE CallerInv(p)' /\ (CallerInTime(p) => CallerInTime(p)')
  <2>1. CallerInv(p)
    BY DEF CallInv
  <2>2. CallerInv(p)'
    BY <2>1 DEF CallerInv, Published, Working, Target, Empty
  <2>3. CallerInTime(p) => CallerInTime(p)'
    BY DEF CallerInTime, Answering, Target
  <2> QED BY <2>2, <2>3
<1> QED BY <1>2, <1>3, <1>4 DEF CallInv, TimeInv

(* No call is under way at boot.                                           *)
LEMMA InitCallInv == Init => CallInv
<1> SUFFICES ASSUME Init PROVE CallInv
  OBVIOUS
<1>1. TypeOK
  <2>1. /\ smp_call_info \in [Pcpu -> Mailbox] /\ caller \in [Pcpu -> CallerRecord]
        /\ irq \in [Pcpu -> IrqRecord]
    BY EmptyTypes DEF Init
  <2>2. ran \in [Pcpu -> [Generation -> Nat]]
    BY DEF Init
  <2>3. smp_call_next_generation \in 0 .. MaxGeneration /\ smp_call_active_generation \in GenOrNull
    BY Numbers, SmpCallConstants DEF Init
  <2> QED BY Zenon, <2>1, <2>2, <2>3 DEF Init, TypeOK
<1>2. \A p \in Pcpu : /\ caller[p] = NotCalling /\ irq[p] = NotInIrq
                      /\ smp_call_info[p] = EmptyBox
                      /\ \A g \in Generation : ran[p][g] = 0
  BY DEF Init
<1>4. OwnerInv /\ ActiveInv /\ RemoteInv /\ CleanHandover
  BY <1>2 DEF Init, OwnerInv, InCall, ActiveInv, RemoteInv, CleanHandover, NotCalling
<1>5. \A q \in Pcpu : BoxInv(q) /\ CallerInv(q)
  <2>1. \A q \in Pcpu : BoxInv(q)
    BY <1>2 DEF BoxInv, EmptyBox, NULL
  <2>2. \A q \in Pcpu : CallerInv(q)
    BY <1>2 DEF Init, CallerInv, Published, Working, NotCalling
  <2> QED BY <2>1, <2>2
<1>6. \A q \in Pcpu : IrqInv(q) /\ OnceInv(q)
  <2>1. \A q \in Pcpu : IrqInv(q)
    BY <1>2 DEF Init, IrqInv, IsActive, NotInIrq
  <2>2. \A q \in Pcpu : OnceInv(q)
    BY <1>2 DEF Init, OnceInv, NotCalling
  <2> QED BY <2>1, <2>2
<1>7. \A q \in Pcpu : HandlerInTime(q) /\ CallerInTime(q)
  BY <1>2 DEF HandlerInTime, CallerInTime, Answering, NotInIrq, NotCalling
<1> QED BY <1>1, <1>4, <1>5, <1>6, <1>7 DEF CallInv, TimeInv

=============================================================================
