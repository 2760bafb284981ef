--------------------------- MODULE SmpCallProofs ----------------------------
(***************************************************************************)
(* Theorems about SmpCall, for any finite set of pCPUs, any target masks   *)
(* and any number of calls: the steps of SmpCallPublish and SmpCallAnswer, *)
(* with the two facts about finite sets they rest on.                      *)
(***************************************************************************)
EXTENDS SmpCallAnswer, FiniteSetTheorems, WellFoundedInduction

BoundInv == CallsSoFar <= MaxGeneration

IInv == CallInv /\ BoundInv

(* A mask has a lowest bit.                                                *)
LEMMA FfsInMask == FfsFinds
<1> SUFFICES ASSUME NEW m \in SUBSET Nat, m # {} PROVE ffs64(m) \in m
  BY DEF FfsFinds
<1> DEFINE Less == {ss \in Nat \X Nat : ss[1] < ss[2]}
<1>1. IsWellFoundedOn(Less, Nat)
  BY NatLessThanWellFounded DEF OpToRel
<1>2. \A x, y \in Nat : x < y => <<x, y>> \in Less
  OBVIOUS
<1> HIDE DEF Less
<1>3. PICK x \in m : \A y \in m : ~(<<y, x>> \in Less)
  BY <1>1, WFMin
<1>4. \A y \in m : ~(y < x)
  BY <1>2, <1>3
<1>5. \A y \in m : x <= y
  BY <1>4
<1> QED BY <1>5 DEF ffs64

(* The calls that have not drawn their generation.                         *)
Waiting == {p \in Pcpu : caller[p].pc \in {"acquire", "owned"}}

(* The callers that have yet to take a generation can be counted.          *)
LEMMA WaitingFinite == IsFiniteSet(Waiting) /\ Cardinality(Waiting) \in Nat
BY SmpCallConstants, FS_Subset, FS_CardinalityType DEF Waiting

(* A step that draws no generation and starts no call keeps the bound.     *)
LEMMA BoundKept ==
    ASSUME BoundInv, TypeOK, smp_call_next_generation' = smp_call_next_generation,
           Waiting' \subseteq Waiting
    PROVE  BoundInv'
<1>1. Cardinality(Waiting') <= Cardinality(Waiting) /\ Cardinality(Waiting') \in Nat
  BY WaitingFinite, FS_Subset, FS_CardinalityType
<1>2. smp_call_next_generation \in Nat /\ MaxGeneration \in Nat
  BY SmpCallConstants DEF TypeOK
<1> QED BY <1>1, <1>2, WaitingFinite, SmpCallConstants DEF BoundInv, CallsSoFar, Waiting

(* A call that begins keeps the bound on generations.                      *)
LEMMA BeginBound ==
    ASSUME TypeOK, NEW p \in Active, NEW m \in Masks[p], Begin(p, m) PROVE BoundInv'
<1>0. p \in Pcpu /\ caller \in [Pcpu -> CallerRecord] /\ smp_call_next_generation \in Nat
  BY SmpCallConstants, Numbers DEF TypeOK
<1>1. /\ CallsSoFar < MaxGeneration /\ smp_call_next_generation' = smp_call_next_generation
  BY DEF Begin, global
<1>2. Waiting' = Waiting \cup {p} /\ p \notin Waiting
  BY <1>0 DEF Begin, At, Waiting, CallerRecord
<1>3. Cardinality(Waiting') = Cardinality(Waiting) + 1
  BY <1>2, WaitingFinite, FS_AddElement
<1>4. CallsSoFar' = CallsSoFar + 1 /\ CallsSoFar \in Nat
  BY <1>0, <1>1, <1>3, WaitingFinite DEF CallsSoFar, Waiting
<1> QED BY <1>1, <1>4, SmpCallConstants DEF BoundInv

(* A caller about to draw its generation has room for it.                  *)
LEMMA PublishBound ==
    ASSUME TypeOK, BoundInv, NEW p \in Active, PublishActive(p)
    PROVE  BoundInv' /\ smp_call_next_generation < MaxGeneration
<1>0. p \in Pcpu /\ caller \in [Pcpu -> CallerRecord] /\ smp_call_next_generation \in Nat
  BY SmpCallConstants, Numbers DEF TypeOK
<1>1. smp_call_next_generation' = smp_call_next_generation + 1
  BY DEF PublishActive
<1>2. Waiting' = Waiting \ {p} /\ p \in Waiting
  BY <1>0 DEF PublishActive, At, Waiting, CallerRecord
<1>3. /\ Cardinality(Waiting') = Cardinality(Waiting) - 1
      /\ Cardinality(Waiting') \in Nat /\ Cardinality(Waiting) \in Nat
  BY <1>2, WaitingFinite, FS_RemoveElement, FS_CardinalityType
<1>4. smp_call_next_generation + Cardinality(Waiting) <= MaxGeneration
  BY DEF BoundInv, CallsSoFar, Waiting
<1>5. CallsSoFar' = smp_call_next_generation + 1 + Cardinality(Waiting')
  BY <1>1 DEF CallsSoFar, Waiting
<1> QED BY <1>0, <1>3, <1>4, <1>5, SmpCallConstants DEF BoundInv

(* No other step of a caller starts a call or draws a generation.          *)
LEMMA CallerBound ==
    ASSUME TypeOK, BoundInv, NEW p \in Active, CallerStep(p), ~PublishActive(p)
    PROVE  BoundInv'
<1>0. p \in Pcpu /\ caller \in [Pcpu -> CallerRecord]
  BY SmpCallConstants DEF TypeOK
<1>1. smp_call_next_generation' = smp_call_next_generation
  BY DEF CallerStep, Acquire, OwnedTooLate, PublishMask, RunLocal, LoadMask, StoreMask,
         PublishCall, PublishGenerationAndKick, Wait, Revoke, ClearInfo, Release, global
<1>2. Waiting' \subseteq Waiting
  <2> USE DEF Waiting, CallerRecord
  <2>1. CASE Acquire(p)
    <3>1. caller[p].pc = "acquire" /\ \A r \in Pcpu : r # p => caller'[r] = caller[r]
      BY <1>0, <2>1 DEF Acquire, At, Goto
    <3> QED BY <1>0, <3>1
  <2>2. CASE OwnedTooLate(p)
    BY <1>0, <2>2 DEF OwnedTooLate, NotCalling
  <2>3. CASE PublishMask(p)
    BY <1>0, <2>3 DEF PublishMask, Goto
  <2>4. CASE RunLocal(p)
    BY <1>0, <2>4 DEF RunLocal, Goto
  <2>5. CASE LoadMask(p)
    BY <1>0, <2>5 DEF LoadMask
  <2>6. CASE StoreMask(p)
    BY <1>0, <2>6 DEF StoreMask
  <2>7. CASE PublishCall(p)
    BY <1>0, <2>7 DEF PublishCall, Goto
  <2>8. CASE PublishGenerationAndKick(p)
    BY <1>0, <2>8 DEF PublishGenerationAndKick
  <2>9. CASE Wait(p)
    BY <1>0, <2>9 DEF Wait
  <2>10. CASE Revoke(p)
    BY <1>0, <2>10 DEF Revoke
  <2>11. CASE ClearInfo(p)
    BY <1>0, <2>11 DEF ClearInfo
  <2>12. CASE Release(p)
    BY <1>0, <2>12 DEF Release, NotCalling
  <2> QED BY <2>1, <2>2, <2>3, <2>4, <2>5, <2>6,
             <2>7, <2>8, <2>9, <2>10, <2>11, <2>12 DEF CallerStep
<1> QED BY <1>1, <1>2, BoundKept

(* A step that begins no call and takes no generation keeps the bound.     *)
LEMMA OtherBound ==
    ASSUME TypeOK, BoundInv, UNCHANGED <<smp_call_next_generation, caller>> PROVE BoundInv'
BY BoundKept DEF Waiting

(* No generation is taken at boot.                                         *)
LEMMA InitBound == ASSUME Init PROVE BoundInv
<1>1. Waiting = {}
  BY DEF Init, Waiting, NotCalling
<1>2. Cardinality(Waiting) = 0
  BY <1>1, FS_EmptySet
<1> QED BY <1>2, SmpCallConstants DEF BoundInv, CallsSoFar, Waiting, Init

-----------------------------------------------------------------------------
(* Every step of every caller and handler preserves the invariant.         *)
THEOREM SmpCallInvariant == Spec => []IInv
<1>1. IInv /\ [Next]_vars => IInv'
  <2> SUFFICES ASSUME CallInv, BoundInv, TypeOK, FfsFinds, [Next]_vars PROVE IInv'
    BY FfsInMask DEF IInv, CallInv
  <2>1. ASSUME NEW p \in Active, CallerStep(p) PROVE IInv'
    <3>1. CASE PublishActive(p)
      BY <3>1, PublishBound, PublishActiveStep DEF IInv
    <3>2. CASE ~PublishActive(p)
      <4>1. CallInv'
        BY <2>1, <3>2, AcquireStep, ReleaseStep, PublishMaskStep, RunLocalStep, LoadMaskStep,
           StoreMaskStep, PublishCallStep, PublishGenerationStep, WaitStep, RevokeStep,
           ClearInfoStep
           DEF CallerStep
      <4> QED BY <2>1, <3>2, <4>1, CallerBound DEF IInv
    <3> QED BY <3>1, <3>2
  <2>2. ASSUME NEW q \in Active, IrqStep(q) PROVE IInv'
    <3>1. CallInv'
      BY <2>2, TakeSgiStep, LoadMailboxStep, CheckStep, RunCallbackStep, CheckAgainStep,
         ClearBitStep
         DEF IrqStep
    <3>2. UNCHANGED <<smp_call_next_generation, caller>>
      BY <2>2 DEF IrqStep, TakeSgi, LoadMailbox, Check, RunCallback, CheckAgain, ClearBit, global
    <3> QED BY <3>1, <3>2, OtherBound DEF IInv
  <2>3. ASSUME NEW q \in Active, RescheduleKick(q) PROVE IInv'
    <3>1. q \in Pcpu
      BY SmpCallConstants
    <3>2. TypeOK'
      BY <2>3, <3>1 DEF RescheduleKick, global, history, TypeOK
    <3>3. CallInv'
      BY <2>3, <3>2, QuietStep DEF RescheduleKick, global, history
    <3> QED BY <2>3, <3>3, OtherBound DEF IInv, RescheduleKick, global
  <2>4. CASE UNCHANGED vars
    <3>1. TypeOK'
      BY <2>4 DEF vars, global, history, TypeOK
    <3>2. CallInv'
      BY <2>4, <3>1, QuietStep DEF vars, global, history
    <3> QED BY <2>4, <3>2, OtherBound DEF IInv, vars, global
  <2>5. ASSUME NEW p \in Active, NEW m \in Masks[p], Begin(p, m) PROVE IInv'
    BY <2>5, BeginStep, BeginBound DEF IInv
  <2> QED BY <2>1, <2>2, <2>3, <2>4, <2>5 DEF Next
<1>2. Init => IInv
  BY InitCallInv, InitBound DEF IInv
<1> QED BY <1>1, <1>2, PTL DEF Spec

(* A target calls the func and data of the generation it checked, for any  *)
(* number of pCPUs and calls: kick_notification() loads the generation     *)
(* first, the caller publishes it last.                                    *)
THEOREM RunsTheCallItCheckedHolds == Spec => []RunsTheCallItChecked
<1>1. IInv => RunsTheCallItChecked
  BY DEF IInv, CallInv, IrqInv, RunsTheCallItChecked
<1> QED BY <1>1, SmpCallInvariant, PTL

(* smp_call_owner is never released over a filled mailbox, a set bit or an *)
(* active generation, timeouts included.                                   *)
THEOREM CleanHandoverHolds == Spec => []CleanHandover
<1>1. IInv => CleanHandover
  BY DEF IInv, CallInv
<1> QED BY <1>1, SmpCallInvariant, PTL

(* No callback of a call to other, active pCPUs is run twice on a pCPU,    *)
(* however many SGIs it takes.                                             *)
THEOREM RunsAtMostOnceHolds == Spec => []RunsAtMostOnce
<1>1. IInv => RunsAtMostOnce
  BY DEF IInv, CallInv, OnceInv, RunsAtMostOnce
<1> QED BY <1>1, SmpCallInvariant, PTL

(* Until a deadline has cut a wait short, a call that reports success has  *)
(* run on every active target.                                             *)
THEOREM SuccessMeansRanInTimeHolds == Spec => []SuccessMeansRanInTime
<1>1. IInv => SuccessMeansRanInTime
  <2> SUFFICES ASSUME IInv, ~expired, NEW p \in Pcpu, caller[p].completed,
                      NEW q \in caller[p].mask \cap (Active \cup {p})
               PROVE  ran[q][caller[p].generation] > 0
    BY DEF SuccessMeansRanInTime, SuccessMeansRan
  <2>1. caller[p].pc \in {"revoke", "clear"} /\ smp_call_mask = {}
    BY DEF IInv, CallInv, CallerInv
  <2> QED BY <2>1 DEF IInv, CallInv, TimeInv, CallerInTime, Answering
<1> QED BY <1>1, SmpCallInvariant, PTL
=============================================================================
