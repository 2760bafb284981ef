-------------------------- MODULE HostSuspendProofs --------------------------
(***************************************************************************)
(* Theorems about HostSuspend, for any number of secondary pCPUs and any   *)
(* number of transactions.                                                 *)
(*                                                                         *)
(* The argument.  IInv is inductive.  ApInv ties the place of one AP in    *)
(* arch_pm_process_secondary_from_idle() to its bits of the shared record, *)
(* its request and what it retains; it is local to the AP, so the number   *)
(* of APs does not matter.  RecordInv says that the record is either free, *)
(* with every AP in its idle loop, or belongs to the open transaction.     *)
(* PhaseInv, RetainInv and EventInv say what the place of the boot pCPU    *)
(* tells about the record, the retained state and the WFE events.          *)
(***************************************************************************)
EXTENDS HostSuspend, TLAPS

Txn == [epoch : Nat, state : {"RUNNING", "SUSPENDED", "ABORTING", "FAILED"}, wake : BOOLEAN]
Record == [epoch : Nat, target : SUBSET Ap, parked : SUBSET Ap, resumed : SUBSET Ap,
           release : BOOLEAN, failed_suspend : SUBSET Ap, failed_resume : SUBSET Ap]
ApPlace == {"idle", "save", "park", "test", "wfe", "restore", "resumed"}
ApRecord == [pc : ApPlace, epoch : Nat]
BspPlace == {"idle", "enter", "prepare", "publish", "request", "parking", "suspend", "wfi",
             "asleep", "poll", "restore", "release", "sev", "resuming", "finish", "return"}
BspRecord == [pc : BspPlace, idx : Nat, parked : BOOLEAN, platform : BOOLEAN,
              restore : BOOLEAN, restored : BOOLEAN]

HostTypeOK ==
    /\ txn \in Txn
    /\ sec \in Record
    /\ asked \in SUBSET Ap /\ event \in SUBSET Ap
    /\ ap \in [Ap -> ApRecord]
    /\ tim \in [Pcpu -> Nat] /\ icc \in [Pcpu -> Nat]
    /\ dist \in Nat /\ armed \in BOOLEAN
    /\ pme \in BspRecord

(* AP p while the record belongs to a transaction.                         *)
ApInv(p) ==
    LET k == ap[p].pc IN
    /\ k = "idle" \/ ap[p].epoch = sec.epoch
    /\ IF k \in {"park", "test", "wfe", "restore"}
       THEN tim[p] = sec.epoch /\ icc[p] = sec.epoch
       ELSE tim[p] = 0 /\ icc[p] = 0
    /\ p \in sec.parked <=> \/ k \in {"test", "wfe", "restore", "resumed"}
                            \/ p \in sec.resumed
    /\ p \in sec.resumed => ap[p] = ApIdle
    /\ p \in asked => ap[p] = ApIdle /\ p \notin sec.resumed
    /\ k \in {"restore", "resumed"} \/ p \in sec.resumed => sec.release
    /\ pme.pc = "request" /\ pme.idx <= p
         => ap[p] = ApIdle /\ p \notin asked /\ p \notin sec.resumed

(* The record is free, or it is the open transaction's.                    *)
RecordInv ==
    /\ sec.failed_suspend = {} /\ sec.failed_resume = {}
    /\ sec.epoch = 0 => /\ sec = Clear /\ asked = {}
                        /\ \A p \in Ap : ap[p] = ApIdle /\ tim[p] = 0 /\ icc[p] = 0
    /\ sec.epoch # 0 => /\ sec.epoch = txn.epoch /\ sec.target = Ap
                        /\ \A p \in Ap : ApInv(p)

(* The boot pCPU has published the request and not yet released the APs,   *)
(* or it has done both.                                                    *)
Holding == \/ pme.pc \in {"request", "parking", "suspend", "wfi", "asleep", "poll", "release"}
           \/ pme.pc = "restore" /\ pme.parked
Past == pme.pc \in {"finish", "return", "idle"} \/ (pme.pc = "restore" /\ ~pme.parked)

PhaseInv ==
    /\ pme.pc # "idle" => txn.epoch # 0
    /\ Holding => sec.epoch # 0 /\ ~sec.release
    /\ pme.pc \in {"sev", "resuming"} => sec.epoch # 0 /\ sec.release
    /\ pme.pc \in {"enter", "prepare", "publish"} \/ pme.restored => sec.epoch = 0
    /\ Past /\ sec.epoch # 0 => sec.release /\ (pme.restore \/ pme.pc \in {"idle", "return"})
    /\ pme.pc \in {"prepare", "publish", "request", "parking"} => ~pme.parked
    /\ pme.pc \in {"suspend", "wfi", "asleep", "poll"} => pme.parked
    /\ Holding /\ pme.parked => sec.parked = Ap
    /\ pme.restored => pme.pc \in {"idle", "enter", "return"}
    /\ pme.pc = "idle" /\ txn.state = "RUNNING" => pme.restored

(* What the boot pCPU retains of its own, and of the distributor.          *)
RetainInv ==
    /\ tim[0] # 0 => tim[0] = txn.epoch /\ pme.pc \in {"wfi", "asleep", "poll", "restore"}
    /\ icc[0] # 0 => icc[0] = txn.epoch /\ dist # 0
    /\ dist # 0 => \/ pme.restore /\ ~pme.restored
                      /\ pme.pc \notin {"enter", "prepare", "publish"}
                   \/ pme.pc \in {"wfi", "asleep", "poll", "restore"} /\ pme.parked

(* Behind the release no AP waits for an event that has been sent.         *)
EventInv == sec.release /\ pme.pc # "sev" =>
                \A p \in Ap : ap[p].pc = "wfe" => p \in event

IInv == HostTypeOK /\ RecordInv /\ PhaseInv /\ RetainInv /\ EventInv

-----------------------------------------------------------------------------

(* The boot pCPU is 0; the other pCPUs are the APs.                        *)
LEMMA PcpuFacts ==
    ASSUME NAp \in Nat
    PROVE  /\ 0 \notin Ap /\ 0 \in Pcpu
           /\ \A p \in Ap : p \in Nat /\ p \in Pcpu /\ p # 0
           /\ \A p \in Pcpu : p = 0 \/ p \in Ap
BY DEF Ap, Pcpu

(* The cleared rendezvous record is a rendezvous record.                   *)
LEMMA ClearType == Clear \in Record
BY DEF Clear, Record

(* What retaining and undoing a per-pCPU context does to its epochs: it    *)
(* touches one pCPU, and is idempotent in an epoch.                        *)
LEMMA RetainTypes ==
    ASSUME NEW r \in [Pcpu -> Nat], NEW p \in Pcpu, NEW e \in Nat
    PROVE  /\ Retain(r, p, e) \in [Pcpu -> Nat]
           /\ Undo(r, p, e) \in [Pcpu -> Nat]
           /\ \A q \in Pcpu : q # p => Retain(r, p, e)[q] = r[q] /\ Undo(r, p, e)[q] = r[q]
           /\ Retain(r, p, e)[p] = (IF r[p] = 0 THEN e ELSE r[p])
           /\ Undo(r, p, e)[p] = (IF r[p] = e THEN 0 ELSE r[p])
BY DEF Retain, Undo

(* The records that a step may leave.                                      *)
LEMMA RecordTypes ==
    ASSUME HostTypeOK
    PROVE  /\ \A s : s \in SUBSET Ap => /\ [sec EXCEPT !.failed_suspend = s] \in Record
                                        /\ [sec EXCEPT !.failed_resume = s] \in Record
                                        /\ [sec EXCEPT !.parked = s] \in Record
                                        /\ [sec EXCEPT !.resumed = s] \in Record
           /\ \A b \in BOOLEAN : [sec EXCEPT !.release = b] \in Record
           /\ \A n \in Nat : [Clear EXCEPT !.epoch = n, !.target = Ap] \in Record
<1>1. \A s : s \in SUBSET Ap => /\ [sec EXCEPT !.failed_suspend = s] \in Record
                                /\ [sec EXCEPT !.failed_resume = s] \in Record
                                /\ [sec EXCEPT !.parked = s] \in Record
                                /\ [sec EXCEPT !.resumed = s] \in Record
  BY DEF HostTypeOK, Record
<1>2. \A b \in BOOLEAN : [sec EXCEPT !.release = b] \in Record
  BY DEF HostTypeOK, Record
<1>3. \A n \in Nat : [Clear EXCEPT !.epoch = n, !.target = Ap] \in Record
  BY Zenon DEF Clear, Record
<1> QED BY <1>1, <1>2, <1>3, Zenon

(* The fields of the secondary rendezvous record have their types.         *)
LEMMA SecFields ==
    ASSUME HostTypeOK
    PROVE  /\ sec.epoch \in Nat /\ sec.target \in SUBSET Ap /\ sec.parked \in SUBSET Ap
           /\ sec.resumed \in SUBSET Ap /\ sec.release \in BOOLEAN
           /\ sec.failed_suspend \in SUBSET Ap /\ sec.failed_resume \in SUBSET Ap
BY DEF HostTypeOK, Record

(* The fields of the boot pCPU's place in platform_pm_enter() have their   *)
(* types.                                                                  *)
LEMMA BspFields ==
    ASSUME HostTypeOK
    PROVE  /\ pme.pc \in BspPlace /\ pme.idx \in Nat /\ pme.parked \in BOOLEAN
           /\ pme.platform \in BOOLEAN /\ pme.restore \in BOOLEAN /\ pme.restored \in BOOLEAN
BY DEF HostTypeOK, BspRecord

(* The fields of the transaction as the host sees it have their types.     *)
LEMMA TxnFields ==
    ASSUME HostTypeOK
    PROVE  /\ txn.epoch \in Nat /\ txn.wake \in BOOLEAN
           /\ txn.state \in {"RUNNING", "SUSPENDED", "ABORTING", "FAILED"}
BY DEF HostTypeOK, Txn

(* The steps of an AP keep the types.                                      *)
LEMMA ApTypeStep ==
    ASSUME NAp \in Nat, HostTypeOK, NEW p \in Ap,
           ApTake(p) \/ ApInterrupt(p) \/ ApRuns(p)
    PROVE  HostTypeOK'
<1> USE DEF HostTypeOK
<1>0. /\ p \in Pcpu /\ ap[p] \in ApRecord /\ ap[p].epoch \in Nat /\ sec.epoch \in Nat
      /\ \A k \in ApPlace : [ap EXCEPT ![p].pc = k] \in [Ap -> ApRecord]
      /\ ApIdle \in ApRecord
  <2>1. \A k \in ApPlace : [ap EXCEPT ![p].pc = k] \in [Ap -> ApRecord]
    BY DEF ApRecord
  <2>2. ApIdle \in ApRecord
    BY DEF ApRecord, ApIdle, ApPlace
  <2>3. ap[p] \in ApRecord /\ ap[p].epoch \in Nat
    BY DEF ApRecord
  <2> QED BY <2>1, <2>2, <2>3, PcpuFacts, SecFields
<1>1. CASE ApTake(p)
  <2>1. [pc |-> "save", epoch |-> sec.epoch] \in ApRecord
    BY <1>0 DEF ApRecord, ApPlace
  <2> QED BY <1>1, <2>1 DEF ApTake
<1>2. CASE ApSave(p)
  <2>1. tim' \in [Pcpu -> Nat] /\ icc' \in [Pcpu -> Nat]
    BY <1>0, <1>2, RetainTypes, Zenon DEF ApSave
  <2>2. sec' \in Record
    BY <1>2, RecordTypes, SecFields, Zenon DEF ApSave
  <2>3. ap' \in [Ap -> ApRecord]
    BY <1>0, <1>2 DEF ApSave, ApPlace
  <2> QED BY <1>2, <2>1, <2>2, <2>3 DEF ApSave
<1>3. CASE ApPark(p)
  <2>1. sec' \in Record
    BY <1>3, RecordTypes, SecFields, Zenon DEF ApPark
  <2>2. ap' \in [Ap -> ApRecord]
    BY <1>0, <1>3 DEF ApPark, ApPlace
  <2> QED BY <1>3, <2>1, <2>2 DEF ApPark
<1>4. CASE ApTest(p) \/ ApWfe(p) \/ ApInterrupt(p)
  <2>1. ap' \in [Ap -> ApRecord]
    BY <1>0, <1>4 DEF ApTest, ApWfe, ApInterrupt, ApPlace
  <2> QED BY <1>4, <2>1 DEF ApTest, ApWfe, ApInterrupt
<1>5. CASE ApRestore(p)
  <2>1. tim' \in [Pcpu -> Nat] /\ icc' \in [Pcpu -> Nat]
    BY <1>0, <1>5, RetainTypes, Zenon DEF ApRestore
  <2>2. sec' \in Record
    BY <1>5, RecordTypes, SecFields, Zenon DEF ApRestore
  <2>3. ap' \in [Ap -> ApRecord]
    BY <1>0, <1>5 DEF ApRestore, ApPlace
  <2> QED BY <1>5, <2>1, <2>2, <2>3 DEF ApRestore
<1>6. CASE ApResumed(p)
  <2>1. sec' \in Record
    BY <1>6, RecordTypes, SecFields, Zenon DEF ApResumed
  <2>2. ap' \in [Ap -> ApRecord]
    BY <1>0, <1>6 DEF ApResumed
  <2> QED BY <1>6, <2>1, <2>2 DEF ApResumed
<1> QED BY <1>1, <1>2, <1>3, <1>4, <1>5, <1>6 DEF ApRuns

(* The boot pCPU's record after each of its steps.                         *)
LEMMA BspTypes ==
    ASSUME HostTypeOK
    PROVE  /\ Out \in BspRecord
           /\ \A k \in BspPlace, b \in BOOLEAN :
                 /\ [pme EXCEPT !.pc = k] \in BspRecord
                 /\ [pme EXCEPT !.pc = k, !.platform = b] \in BspRecord
                 /\ [pme EXCEPT !.pc = k, !.parked = b] \in BspRecord
                 /\ [pme EXCEPT !.pc = k, !.restored = b] \in BspRecord
                 /\ [pme EXCEPT !.pc = k, !.restore = b] \in BspRecord
                 /\ [pme EXCEPT !.restore = b, !.pc = k] \in BspRecord
<1>1. Out \in BspRecord
  BY DEF Out, BspRecord, BspPlace
<1>2. \A k \in BspPlace, b \in BOOLEAN :
         /\ [pme EXCEPT !.pc = k] \in BspRecord
         /\ [pme EXCEPT !.pc = k, !.platform = b] \in BspRecord
         /\ [pme EXCEPT !.pc = k, !.parked = b] \in BspRecord
  BY Zenon DEF HostTypeOK, BspRecord
<1>3. \A k \in BspPlace, b \in BOOLEAN :
         /\ [pme EXCEPT !.pc = k, !.restored = b] \in BspRecord
         /\ [pme EXCEPT !.pc = k, !.restore = b] \in BspRecord
         /\ [pme EXCEPT !.restore = b, !.pc = k] \in BspRecord
  BY Zenon DEF HostTypeOK, BspRecord
<1> QED BY <1>1, <1>2, <1>3, Zenon

(* The steps of the boot pCPU and of its environment keep the types.       *)
LEMMA BspTypeStep ==
    ASSUME NAp \in Nat, HostTypeOK, Begin \/ WakeIrq \/ Abort \/ OtherIrq \/ EnterSteps
    PROVE  HostTypeOK'
<1> USE DEF HostTypeOK, At, Jump
<1>0. 0 \in Pcpu /\ txn.epoch \in Nat
  BY PcpuFacts, TxnFields
<1>1. CASE Begin
  <2>1. txn' \in Txn
    BY <1>0, <1>1 DEF Begin, Txn
  <2> QED BY <1>1, <2>1, BspTypes, Zenon DEF Begin, BspPlace
<1>2. CASE WakeIrq \/ Abort
  <2>1. txn' \in Txn
    BY <1>2, Zenon DEF WakeIrq, Abort, Txn
  <2>2. pme' \in BspRecord
    BY <1>2, BspTypes, Zenon DEF WakeIrq, Abort, Interrupted, BspPlace
  <2> QED BY <1>2, <2>1, <2>2 DEF WakeIrq, Abort
<1>3. CASE OtherIrq
  BY <1>3, BspTypes, Zenon DEF OtherIrq, BspPlace
<1>4. CASE Enter
  <2>1. pme' \in BspRecord
    BY <1>4, Zenon DEF Enter, Out, BspRecord, BspPlace
  <2> QED BY <1>4, <2>1 DEF Enter
<1>5. CASE Prepare
  <2>1. pme' \in BspRecord
    BY <1>5, Zenon DEF Prepare, BspRecord, BspPlace
  <2> QED BY <1>5, <2>1, Zenon DEF Prepare
<1>6. CASE Publish
  <2>1. pme' \in BspRecord
    BY <1>6, Zenon DEF Publish, BspRecord, BspPlace
  <2>2. sec' \in Record
    BY <1>0, <1>6, RecordTypes, Zenon DEF Publish
  <2> QED BY <1>6, <2>1, <2>2 DEF Publish
<1>7. CASE RequestIdle
  <2>1. pme' \in BspRecord
    <3>1. [pme EXCEPT !.idx = pme.idx + 1] \in BspRecord
      BY DEF BspRecord
    <3> QED BY <1>7, <3>1, BspTypes, Zenon DEF RequestIdle, BspPlace
  <2> QED BY <1>7, <2>1 DEF RequestIdle
<1>8. CASE WaitParked
  <2>1. pme' \in BspRecord
    BY <1>8, BspTypes, Zenon DEF WaitParked, BspPlace
  <2> QED BY <1>8, <2>1 DEF WaitParked
<1>9. CASE SuspendHost
  <2>1. pme' \in BspRecord
    BY <1>9, BspTypes, Zenon DEF SuspendHost, BspPlace
  <2>2. tim' \in [Pcpu -> Nat] /\ icc' \in [Pcpu -> Nat] /\ dist' \in Nat
    <3>1. /\ Retain(tim, 0, txn.epoch) \in [Pcpu -> Nat]
          /\ Retain(icc, 0, txn.epoch) \in [Pcpu -> Nat]
      BY <1>0, RetainTypes, Zenon
    <3> QED BY <1>0, <1>9, <3>1 DEF SuspendHost
  <2> QED BY <1>9, <2>1, <2>2 DEF SuspendHost
<1>10. CASE Wfi
  BY <1>10, BspTypes, Zenon DEF Wfi, BspPlace
<1>11. CASE Poll
  <2>1. pme' \in BspRecord
    BY <1>11, BspTypes, TxnFields, Zenon DEF Poll, BspPlace
  <2> QED BY <1>11, <2>1 DEF Poll
<1>12. CASE RestoreHost
  <2>1. pme' \in BspRecord
    BY <1>12, BspTypes, BspFields, Zenon DEF RestoreHost, BspPlace
  <2>2. tim' \in [Pcpu -> Nat] /\ icc' \in [Pcpu -> Nat] /\ dist' \in Nat
    <3>1. /\ Undo(tim, 0, txn.epoch) \in [Pcpu -> Nat]
          /\ Undo(icc, 0, txn.epoch) \in [Pcpu -> Nat]
      BY <1>0, RetainTypes, Zenon
    <3> QED BY <1>12, <3>1 DEF RestoreHost
  <2> QED BY <1>12, <2>1, <2>2 DEF RestoreHost
<1>13. CASE Release
  <2>1. pme' \in BspRecord
    BY <1>13, BspTypes, BspFields, Zenon DEF Release, AfterRelease, BspPlace
  <2>2. sec' \in Record
    BY <1>13, RecordTypes, SecFields, Zenon DEF Release
  <2> QED BY <1>13, <2>1, <2>2 DEF Release
<1>14. CASE Sev
  BY <1>14, BspTypes, Zenon DEF Sev, BspPlace
<1>15. CASE WaitResumed
  <2>1. pme' \in BspRecord
    BY <1>15, BspTypes, BspFields, Zenon DEF WaitResumed, AfterRelease, BspPlace
  <2> QED BY <1>15, <2>1, ClearType DEF WaitResumed
<1>16. CASE Finish
  <2>1. pme' \in BspRecord
    BY <1>16, BspTypes, BspFields, Zenon DEF Finish, BspPlace
  <2> QED BY <1>16, <2>1, Zenon DEF Finish
<1>17. CASE Return
  <2>1. txn' \in Txn
    BY <1>17 DEF Return, Txn
  <2> QED BY <1>17, <2>1, BspTypes, Zenon DEF Return, BspPlace
<1> QED
  BY <1>1, <1>2, <1>3, <1>4, <1>5, <1>6, <1>7, <1>8, <1>9, <1>10, <1>11, <1>12, <1>13,
     <1>14, <1>15, <1>16, <1>17
     DEF EnterSteps

-----------------------------------------------------------------------------
(* A step of AP p that keeps its own part of the invariant keeps the rest: *)
(* it touches no other AP, and of the record only its own bits.            *)
ApFrame(p) ==
    /\ UNCHANGED <<txn, dist, armed, pme>>
    /\ sec'.epoch = sec.epoch /\ sec'.target = sec.target /\ sec'.release = sec.release
    /\ sec'.failed_suspend = {} /\ sec'.failed_resume = {}
    /\ sec.parked \subseteq sec'.parked
    /\ \A q \in Ap : q # p => /\ ap'[q] = ap[q] /\ tim'[q] = tim[q] /\ icc'[q] = icc[q]
                              /\ q \in sec'.parked <=> q \in sec.parked
                              /\ q \in sec'.resumed <=> q \in sec.resumed
                              /\ q \in asked' <=> q \in asked
                              /\ q \in event => q \in event'
    /\ tim'[0] = tim[0] /\ icc'[0] = icc[0]

(* A step of an AP that changes only that AP's share of the state, and     *)
(* keeps that AP's conjunct, keeps the whole invariant.                    *)
LEMMA ApFrameKeeps ==
    ASSUME NAp \in Nat, IInv, HostTypeOK', sec.epoch # 0, NEW p \in Ap,
           ApFrame(p), ApInv(p)',
           sec.release /\ pme.pc # "sev" /\ ap'[p].pc = "wfe" => p \in event'
    PROVE  IInv'
<1> USE DEF IInv
<1>1. RecordInv'
  <2>1. \A q \in Ap : q # p => ApInv(q)'
    BY DEF RecordInv, ApFrame, ApInv
  <2> QED BY <2>1 DEF RecordInv, ApFrame
<1>2. PhaseInv'
  <2>1. sec'.parked \in SUBSET Ap
    BY DEF HostTypeOK, Record
  <2> QED BY <2>1, Zenon DEF PhaseInv, Holding, Past, ApFrame
<1>3. RetainInv'
  BY DEF RetainInv, ApFrame
<1>4. EventInv'
  BY DEF EventInv, ApFrame
<1> QED BY <1>1, <1>2, <1>3, <1>4

(* The steps of an AP.  A free record leaves it nothing to do.             *)
LEMMA ApStep ==
    ASSUME NAp \in Nat, IInv, NEW p \in Ap, ApTake(p) \/ ApInterrupt(p) \/ ApRuns(p)
    PROVE  IInv'
<1>0. HostTypeOK /\ HostTypeOK'
  BY ApTypeStep DEF IInv
<1>1. sec.epoch # 0
  BY DEF IInv, RecordInv, ApIdle, ApTake, ApInterrupt, ApRuns, ApSave, ApPark, ApTest, ApWfe,
         ApRestore, ApResumed
<1>2. /\ ApInv(p) /\ sec.epoch = txn.epoch /\ sec.target = Ap /\ EventInv
      /\ sec.failed_suspend = {} /\ sec.failed_resume = {}
  BY <1>1 DEF IInv, RecordInv
<1>3. /\ p \in Pcpu /\ p # 0 /\ 0 \in Pcpu /\ \A q \in Ap : q \in Pcpu
      /\ ap[p].epoch \in Nat /\ tim \in [Pcpu -> Nat] /\ icc \in [Pcpu -> Nat]
  BY <1>0, PcpuFacts DEF HostTypeOK, ApRecord
<1>4. /\ \A k : /\ [ap EXCEPT ![p].pc = k][p].pc = k
                /\ [ap EXCEPT ![p].pc = k][p].epoch = ap[p].epoch
      /\ \A k, q \in Ap : q # p => [ap EXCEPT ![p].pc = k][q] = ap[q]
  BY <1>0 DEF HostTypeOK, ApRecord
<1>5. CASE ApTake(p)
  <2>1. /\ ap'[p].pc = "save" /\ ap'[p].epoch = sec.epoch /\ p \notin asked' /\ ap[p] = ApIdle
        /\ UNCHANGED <<sec, event, tim, icc>>
    BY <1>0, <1>1, <1>2, <1>5 DEF ApTake, HostTypeOK, ApInv
  <2>2. ApFrame(p)
    BY <1>0, <1>2, <1>5, <2>1 DEF ApTake, ApFrame, HostTypeOK
  <2>3. ApInv(p)'
    BY <1>2, <1>5, <2>1 DEF ApTake, ApInv, ApIdle
  <2> QED BY <1>1, <1>0, <2>1, <2>2, <2>3, ApFrameKeeps
<1>6. CASE ApSave(p)
  <2>1. ap[p].pc = "save" /\ ap[p].epoch = sec.epoch /\ tim[p] = 0 /\ icc[p] = 0
    BY <1>2, <1>6 DEF ApSave, ApInv
  <2>2. /\ tim'[p] = sec.epoch
        /\ \A q \in Pcpu : q # p => tim'[q] = tim[q]
    BY <1>3, <1>6, <2>1 DEF ApSave, Retain
  <2>3. /\ icc'[p] = sec.epoch
        /\ \A q \in Pcpu : q # p => icc'[q] = icc[q]
    BY <1>3, <1>6, <2>1, <2>2 DEF ApSave, Retain
  <2>4. /\ sec'.epoch = sec.epoch /\ sec'.target = sec.target /\ sec'.release = sec.release
        /\ sec'.failed_suspend = {} /\ sec'.failed_resume = {}
        /\ sec'.parked = sec.parked /\ sec'.resumed = sec.resumed
    BY <1>0, <1>2, <1>6, <2>1, <2>2, <2>3 DEF ApSave, HostTypeOK, Record
  <2>5. ap'[p].pc = "park" /\ ap'[p].epoch = sec.epoch /\ \A q \in Ap : q # p => ap'[q] = ap[q]
    BY <1>4, <1>6, <2>1 DEF ApSave
  <2>6. ApFrame(p)
    BY <1>3, <1>6, <2>2, <2>3, <2>4, <2>5 DEF ApSave, ApFrame
  <2>7. ApInv(p)'
    BY <1>2, <1>6, <2>1, <2>2, <2>3, <2>4, <2>5 DEF ApSave, ApInv, ApIdle
  <2> QED BY <1>0, <1>1, <2>5, <2>6, <2>7, ApFrameKeeps
<1>7. CASE ApPark(p)
  <2>1. /\ sec'.epoch = sec.epoch /\ sec'.target = sec.target /\ sec'.release = sec.release
        /\ sec'.failed_suspend = {} /\ sec'.failed_resume = {}
        /\ sec'.parked = sec.parked \cup {p} /\ sec'.resumed = sec.resumed
    BY <1>0, <1>2, <1>7 DEF ApPark, HostTypeOK, Record
  <2>2. /\ ap[p].pc = "park" /\ ap'[p].pc = "test" /\ ap'[p].epoch = ap[p].epoch
        /\ \A q \in Ap : q # p => ap'[q] = ap[q]
        /\ event \subseteq event' /\ UNCHANGED <<txn, asked, tim, icc, dist, armed, pme>>
    BY <1>2, <1>4, <1>7 DEF ApPark
  <2>3. ApFrame(p)
    BY <2>1, <2>2 DEF ApFrame
  <2>4. ApInv(p)'
    BY <1>2, <2>1, <2>2 DEF ApInv, ApIdle
  <2> QED BY <1>0, <1>1, <2>2, <2>3, <2>4, ApFrameKeeps
<1>8. CASE ApTest(p) \/ ApInterrupt(p)
  <2>0. PICK k : ap' = [ap EXCEPT ![p].pc = k]
    BY <1>8 DEF ApTest, ApInterrupt
  <2>1. /\ ap[p].pc \in {"test", "wfe"} /\ ap'[p].epoch = ap[p].epoch
        /\ \A q \in Ap : q # p => ap'[q] = ap[q]
        /\ UNCHANGED <<txn, sec, asked, event, tim, icc, dist, armed, pme>>
    BY <1>4, <1>8, <2>0 DEF ApTest, ApInterrupt
  <2>2. \/ ap'[p].pc = "test"
        \/ ap'[p].pc = "restore" /\ sec.release
        \/ ap'[p].pc = "wfe" /\ ~sec.release
    BY <1>4, <1>8, Zenon DEF ApTest, ApInterrupt
  <2>3. ApFrame(p)
    BY <1>2, <2>1 DEF ApFrame
  <2>4. ApInv(p)'
    BY <1>2, <2>1, <2>2 DEF ApInv, ApIdle
  <2> QED BY <1>0, <1>1, <2>2, <2>3, <2>4, ApFrameKeeps
<1>9. CASE ApWfe(p)
  <2>1. /\ ap[p].pc = "wfe" /\ ap'[p].pc = "test" /\ ap'[p].epoch = ap[p].epoch
        /\ \A q \in Ap : q # p => ap'[q] = ap[q]
        /\ event' = event \ {p} /\ UNCHANGED <<txn, sec, asked, tim, icc, dist, armed, pme>>
    BY <1>4, <1>9 DEF ApWfe
  <2>2. ApFrame(p)
    BY <1>2, <2>1 DEF ApFrame
  <2>3. ApInv(p)'
    BY <1>2, <2>1 DEF ApInv, ApIdle
  <2> QED BY <1>0, <1>1, <2>1, <2>2, <2>3, ApFrameKeeps
<1>10. CASE ApRestore(p)
  <2>1. ap[p].pc = "restore" /\ ap[p].epoch = sec.epoch /\ tim[p] = sec.epoch /\ icc[p] = sec.epoch
    BY <1>2, <1>10 DEF ApRestore, ApInv
  <2>2. tim'[p] = 0 /\ \A q \in Pcpu : q # p => tim'[q] = tim[q]
    BY <1>3, <1>10, <2>1 DEF ApRestore, Undo
  <2>3. icc'[p] = 0 /\ \A q \in Pcpu : q # p => icc'[q] = icc[q]
    BY <1>3, <1>10, <2>1 DEF ApRestore, Undo
  <2>4. /\ sec'.epoch = sec.epoch /\ sec'.target = sec.target /\ sec'.release = sec.release
        /\ sec'.failed_suspend = {} /\ sec'.failed_resume = {}
        /\ sec'.parked = sec.parked /\ sec'.resumed = sec.resumed
    BY <1>0, <1>2, <1>10, <2>2, <2>3 DEF ApRestore, HostTypeOK, Record
  <2>5. ap'[p].pc = "resumed" /\ ap'[p].epoch = sec.epoch /\ \A q \in Ap : q # p => ap'[q] = ap[q]
    BY <1>4, <1>10, <2>1 DEF ApRestore
  <2>6. ApFrame(p)
    BY <1>3, <1>10, <2>2, <2>3, <2>4, <2>5 DEF ApRestore, ApFrame
  <2>7. ApInv(p)'
    BY <1>2, <1>10, <2>1, <2>2, <2>3, <2>4, <2>5 DEF ApRestore, ApInv, ApIdle
  <2> QED BY <1>0, <1>1, <2>5, <2>6, <2>7, ApFrameKeeps
<1>11. CASE ApResumed(p)
  <2>1. /\ sec'.epoch = sec.epoch /\ sec'.target = sec.target /\ sec'.release = sec.release
        /\ sec'.failed_suspend = {} /\ sec'.failed_resume = {}
        /\ sec'.parked = sec.parked /\ sec'.resumed = sec.resumed \cup {p}
    BY <1>0, <1>2, <1>11 DEF ApResumed, HostTypeOK, Record
  <2>2. /\ ap[p].pc = "resumed" /\ ap'[p] = ApIdle
        /\ \A q \in Ap : q # p => ap'[q] = ap[q]
        /\ UNCHANGED <<txn, asked, event, tim, icc, dist, armed, pme>>
    BY <1>0, <1>11 DEF ApResumed, HostTypeOK
  <2>3. ApFrame(p)
    BY <2>1, <2>2 DEF ApFrame
  <2>4. ApInv(p)'
    BY <1>2, <2>1, <2>2 DEF ApInv, ApIdle
  <2> QED BY <1>0, <1>1, <2>2, <2>3, <2>4, ApFrameKeeps DEF ApIdle
<1> QED BY <1>5, <1>6, <1>7, <1>8, <1>9, <1>10, <1>11 DEF ApRuns

-----------------------------------------------------------------------------
(* A step of the boot pCPU that leaves the record and the APs alone.       *)
LEMMA BspMove ==
    ASSUME IInv, UNCHANGED <<sec, asked, ap, event>>, txn'.epoch = txn.epoch,
           \A p \in Ap : tim'[p] = tim[p] /\ icc'[p] = icc[p],
           pme'.pc = "request" => pme.pc = "request" /\ pme'.idx = pme.idx,
           pme.pc = "sev" => pme'.pc = "sev"
    PROVE  RecordInv' /\ EventInv'
<1>1. RecordInv'
  <2>1. ASSUME NEW p \in Ap, ApInv(p) PROVE ApInv(p)'
    BY <2>1 DEF ApInv
  <2> QED BY <2>1 DEF IInv, RecordInv
<1>2. EventInv'
  BY DEF IInv, EventInv
<1> QED BY <1>1, <1>2

(* An interrupt, the suspend transaction around the entry, and the steps   *)
(* that only move the boot pCPU on.                                        *)
LEMMA BspPlainStep ==
    ASSUME NAp \in Nat, IInv,
           \/ WakeIrq \/ Abort \/ OtherIrq \/ Enter \/ Prepare \/ WaitParked \/ Wfi \/ Poll
           \/ Finish \/ Return
    PROVE  IInv'
<1>0. HostTypeOK /\ HostTypeOK' /\ PhaseInv /\ RetainInv
  BY BspTypeStep DEF IInv, EnterSteps
<1>1. UNCHANGED <<sec, asked, ap, event, tim, icc, dist>>
  BY DEF WakeIrq, Abort, OtherIrq, Enter, Prepare, WaitParked, Wfi, Poll, Finish, Return
<1>2. txn'.epoch = txn.epoch
  BY <1>0 DEF WakeIrq, Abort, OtherIrq, Enter, Prepare, WaitParked, Wfi, Poll, Finish, Return,
              HostTypeOK, Txn
<1> SUFFICES /\ pme'.pc = "request" => pme.pc = "request" /\ pme'.idx = pme.idx
             /\ pme.pc = "sev" => pme'.pc = "sev"
             /\ PhaseInv' /\ RetainInv'
  BY <1>0, <1>1, <1>2, BspMove DEF IInv
<1> USE <1>0, BspFields DEF At, Jump
<1>3. CASE WakeIrq \/ Abort
  <2>1. /\ pme'.idx = pme.idx /\ pme'.parked = pme.parked
        /\ pme'.restore = pme.restore /\ pme'.restored = pme.restored
        /\ pme'.pc = (IF pme.pc = "asleep" THEN "poll" ELSE pme.pc)
    BY <1>3 DEF WakeIrq, Abort, Interrupted, HostTypeOK, BspRecord
  <2>2. txn.state # "RUNNING" /\ txn'.state # "RUNNING"
    BY <1>3 DEF WakeIrq, Abort, HostTypeOK, Txn
  <2>3. PhaseInv'
    BY <1>1, <1>2, <2>1, <2>2 DEF PhaseInv, Holding, Past
  <2>4. RetainInv'
    BY <1>1, <1>2, <2>1 DEF RetainInv
  <2> QED BY <2>1, <2>3, <2>4
<1>4. CASE OtherIrq \/ Wfi
  <2>1. /\ pme'.parked = pme.parked /\ pme.pc \in {"asleep", "wfi"}
        /\ pme'.restore = pme.restore /\ pme'.restored = pme.restored
        /\ pme'.pc \in {"asleep", "poll"} /\ UNCHANGED txn
    BY <1>4 DEF OtherIrq, Wfi, HostTypeOK, BspRecord
  <2>2. PhaseInv'
    BY <1>1, <2>1 DEF PhaseInv, Holding, Past
  <2>3. RetainInv'
    BY <1>1, <2>1 DEF RetainInv
  <2> QED BY <2>1, <2>2, <2>3
<1>5. CASE Enter
  <2>1. /\ pme.pc = "enter" /\ pme'.parked = FALSE /\ pme'.restored = FALSE
        /\ \/ pme'.pc = "prepare"
           \/ pme'.pc = "return"
        /\ UNCHANGED txn
    BY <1>5 DEF Enter, Out
  <2>2. PhaseInv'
    BY <1>1, <2>1 DEF PhaseInv, Holding, Past
  <2>3. RetainInv'
    BY <1>1, <2>1 DEF RetainInv
  <2> QED BY <2>1, <2>2, <2>3
<1>6. CASE Prepare
  <2>1. /\ pme.pc = "prepare" /\ pme'.parked = pme.parked /\ pme'.restore = pme.restore
        /\ \/ pme'.pc = "publish" /\ pme'.restored = pme.restored
           \/ pme'.pc = "return" /\ pme'.restored = TRUE
        /\ UNCHANGED txn
    BY <1>6, Zenon DEF Prepare, HostTypeOK, BspRecord
  <2>2. PhaseInv'
    BY <1>1, <2>1 DEF PhaseInv, Holding, Past
  <2>3. RetainInv'
    BY <1>1, <2>1 DEF RetainInv
  <2> QED BY <2>1, <2>2, <2>3
<1>7. CASE WaitParked
  <2>1. /\ pme.pc = "parking" /\ pme'.restore = pme.restore /\ pme'.restored = pme.restored
        /\ \/ pme'.pc = "suspend" /\ pme'.parked = TRUE /\ sec.target \subseteq sec.parked
           \/ pme'.pc = "release" /\ pme'.parked = pme.parked
        /\ UNCHANGED txn
    BY <1>7, Zenon DEF WaitParked, HostTypeOK, BspRecord
  <2>2. sec.target = Ap /\ sec.parked \in SUBSET Ap
    BY <2>1, SecFields DEF IInv, RecordInv, PhaseInv, Holding
  <2>3. PhaseInv'
    BY <1>1, <2>1, <2>2, Zenon DEF PhaseInv, Holding, Past
  <2>4. RetainInv'
    BY <1>1, <2>1 DEF RetainInv
  <2> QED BY <2>1, <2>3, <2>4
<1>8. CASE Poll
  <2>1. /\ pme.pc = "poll" /\ pme'.restore = pme.restore /\ pme'.restored = pme.restored
        /\ pme'.pc \in {"wfi", "restore"} /\ pme'.parked = pme.parked
        /\ UNCHANGED txn
    BY <1>8 DEF Poll, HostTypeOK, BspRecord
  <2>2. PhaseInv'
    BY <1>1, <2>1 DEF PhaseInv, Holding, Past
  <2>3. RetainInv'
    BY <1>1, <2>1 DEF RetainInv
  <2> QED BY <2>1, <2>2, <2>3
<1>9. CASE Finish
  <2>1. /\ pme.pc = "finish" /\ pme'.pc = "return" /\ pme'.restore = pme.restore
        /\ pme'.restored = ~pme.restore /\ pme'.parked = pme.parked
        /\ UNCHANGED txn
    BY <1>9 DEF Finish, HostTypeOK, BspRecord
  <2>2. PhaseInv'
    BY <1>1, <2>1 DEF PhaseInv, Holding, Past
  <2>3. RetainInv'
    BY <1>1, <2>1 DEF RetainInv
  <2> QED BY <2>1, <2>2, <2>3
<1>10. CASE Return
  <2>1. /\ pme.pc = "return" /\ pme'.pc = "idle" /\ pme'.restore = pme.restore
        /\ pme'.restored = pme.restored /\ pme'.parked = pme.parked
    BY <1>10 DEF Return, HostTypeOK, BspRecord
  <2>2. txn'.state = "RUNNING" => pme.restored
    BY <1>10 DEF Return, HostTypeOK, Txn
  <2>3. PhaseInv'
    BY <1>1, <1>2, <2>1, <2>2 DEF PhaseInv, Holding, Past
  <2>4. RetainInv'
    BY <1>1, <1>2, <2>1 DEF RetainInv
  <2> QED BY <2>1, <2>3, <2>4
<1> QED BY <1>3, <1>4, <1>5, <1>6, <1>7, <1>8, <1>9, <1>10

(* The steps that write the record, the requests, the events or what the   *)
(* boot pCPU retains.                                                      *)
LEMMA BspSharedStep ==
    ASSUME NAp \in Nat, IInv,
           \/ Begin \/ Publish \/ RequestIdle \/ SuspendHost \/ RestoreHost \/ Release
           \/ Sev \/ WaitResumed
    PROVE  IInv'
<1>0. HostTypeOK /\ HostTypeOK' /\ PhaseInv /\ RetainInv /\ RecordInv /\ EventInv
  BY BspTypeStep DEF IInv, EnterSteps
<1> USE <1>0, BspFields, SecFields, TxnFields DEF At, Jump
<1>1. CASE Begin
  <2>1. /\ pme.pc = "idle" /\ pme'.pc = "enter" /\ pme.restored /\ sec.epoch = 0
        /\ pme'.parked = pme.parked /\ pme'.restore = pme.restore
        /\ pme'.restored = pme.restored
        /\ txn'.epoch # 0
        /\ UNCHANGED <<sec, asked, ap, event, tim, icc, dist, armed>>
    BY <1>1 DEF Begin, PhaseInv, HostTypeOK, BspRecord
  <2>2. RecordInv' /\ EventInv'
    BY <2>1 DEF RecordInv, EventInv
  <2>3. PhaseInv'
    BY <2>1 DEF PhaseInv, Holding, Past
  <2>4. RetainInv'
    BY <2>1 DEF RetainInv
  <2> QED BY <2>2, <2>3, <2>4 DEF IInv
<1>2. CASE Publish
  <2>1. /\ pme.pc = "publish" /\ pme'.pc = "request" /\ pme'.idx = 1
        /\ pme'.parked = pme.parked /\ pme'.restore = pme.restore
        /\ pme'.restored = pme.restored
        /\ UNCHANGED <<txn, asked, ap, event, tim, icc, dist, armed>>
    BY <1>2 DEF Publish, HostTypeOK, BspRecord
  <2>2. /\ sec'.epoch = txn.epoch /\ sec'.target = Ap /\ sec'.parked = {} /\ sec'.resumed = {}
        /\ sec'.release = FALSE /\ sec'.failed_suspend = {} /\ sec'.failed_resume = {}
    BY <1>2 DEF Publish, Clear
  <2>3. sec.epoch = 0 /\ txn.epoch # 0 /\ ~pme.restored
    BY <2>1 DEF PhaseInv
  <2>4. asked = {} /\ \A p \in Ap : ap[p] = ApIdle /\ tim[p] = 0 /\ icc[p] = 0
    BY <2>3 DEF RecordInv
  <2>5. \A p \in Ap : ApInv(p)'
    BY <2>1, <2>2, <2>4 DEF ApInv, ApIdle
  <2>6. RecordInv' /\ EventInv'
    BY <2>1, <2>2, <2>3, <2>5 DEF RecordInv, EventInv
  <2>7. PhaseInv'
    BY <2>1, <2>2, <2>3 DEF PhaseInv, Holding, Past
  <2>8. RetainInv'
    BY <2>1 DEF RetainInv
  <2> QED BY <2>6, <2>7, <2>8 DEF IInv
<1>3. CASE RequestIdle
  <2>1. /\ pme.pc = "request" /\ sec.epoch # 0 /\ ~pme.parked /\ ~pme.restored
        /\ pme'.parked = pme.parked /\ pme'.restore = pme.restore
        /\ pme'.restored = pme.restored
        /\ UNCHANGED <<txn, sec, ap, event, tim, icc, dist, armed>>
    BY <1>3 DEF RequestIdle, HostTypeOK, BspRecord, PhaseInv, Holding
  <2>2. \/ pme'.pc = "parking" /\ UNCHANGED asked
        \/ /\ pme'.pc = "request" /\ pme.idx \in Ap /\ pme'.idx = pme.idx + 1
           /\ asked' = asked \cup {pme.idx}
    BY <1>3 DEF RequestIdle, HostTypeOK, BspRecord
  <2>3. ASSUME NEW p \in Ap PROVE ApInv(p)'
    <3>1. ApInv(p) /\ p \in Nat
      BY <2>1, PcpuFacts DEF RecordInv
    <3> QED BY <2>1, <2>2, <3>1 DEF ApInv
  <2>4. RecordInv' /\ EventInv'
    BY <2>1, <2>2, <2>3 DEF RecordInv, EventInv
  <2>5. PhaseInv'
    BY <2>1, <2>2 DEF PhaseInv, Holding, Past
  <2>6. RetainInv'
    BY <2>1, <2>2 DEF RetainInv
  <2> QED BY <2>4, <2>5, <2>6 DEF IInv
<1>4. CASE SuspendHost
  <2>1. /\ pme.pc = "suspend" /\ pme.parked /\ ~pme.restored /\ sec.epoch # 0
        /\ tim[0] = 0 /\ txn.epoch # 0
        /\ UNCHANGED <<txn, sec, asked, ap, event, armed>>
    BY <1>4 DEF SuspendHost, PhaseInv, Holding, RetainInv
  <2>2. /\ pme'.parked = pme.parked /\ pme'.restore = pme.restore /\ pme'.restored = pme.restored
        /\ pme'.pc \in {"wfi", "restore"}
    BY <1>4, Zenon DEF SuspendHost, HostTypeOK, BspRecord
  <2>3. /\ 0 \in Pcpu /\ (\A p \in Ap : p \in Pcpu /\ p # 0)
        /\ tim \in [Pcpu -> Nat] /\ icc \in [Pcpu -> Nat]
    BY PcpuFacts DEF HostTypeOK
  <2>4. tim'[0] = txn.epoch /\ \A p \in Ap : tim'[p] = tim[p]
    BY <1>4, <2>1, <2>3 DEF SuspendHost, Retain
  <2>5. /\ icc'[0] # 0 => icc'[0] = txn.epoch /\ dist' # 0
        /\ \A p \in Ap : icc'[p] = icc[p]
    BY <1>4, <2>1, <2>3 DEF SuspendHost, Retain, RetainInv
  <2>6. RecordInv' /\ EventInv'
    BY <2>1, <2>2, <2>4, <2>5, BspMove
  <2>7. PhaseInv'
    BY <2>1, <2>2 DEF PhaseInv, Holding, Past
  <2>8. RetainInv'
    BY <2>1, <2>2, <2>4, <2>5 DEF RetainInv
  <2> QED BY <2>6, <2>7, <2>8 DEF IInv
<1>5. CASE RestoreHost
  <2>1. /\ pme.pc = "restore" /\ ~pme.restored
        /\ UNCHANGED <<txn, sec, asked, ap, event, armed>>
    BY <1>5, Zenon DEF RestoreHost, PhaseInv
  <2>2. /\ pme'.parked = pme.parked /\ pme'.restored = pme.restored
        /\ pme'.pc = (IF pme.parked THEN "release" ELSE "finish")
        /\ pme.restore \/ dist' # 0 => pme'.restore
    BY <1>5, Zenon DEF RestoreHost, HostTypeOK, BspRecord
  <2>3. /\ 0 \in Pcpu /\ (\A p \in Ap : p \in Pcpu /\ p # 0)
        /\ tim \in [Pcpu -> Nat] /\ icc \in [Pcpu -> Nat]
    BY PcpuFacts DEF HostTypeOK
  <2>4. tim'[0] = 0 /\ \A p \in Ap : tim'[p] = tim[p]
    BY <1>5, <2>1, <2>3, Zenon DEF RestoreHost, Undo, RetainInv
  <2>5. /\ icc'[0] # 0 => icc'[0] = txn.epoch /\ dist' # 0
        /\ \A p \in Ap : icc'[p] = icc[p]
    BY <1>5, <2>1, <2>3, Zenon DEF RestoreHost, Undo, RetainInv
  <2>6. RecordInv' /\ EventInv'
    BY <2>1, <2>2, <2>4, <2>5, BspMove
  <2>7. PhaseInv'
    BY <2>1, <2>2 DEF PhaseInv, Holding, Past
  <2>8. RetainInv'
    BY <2>1, <2>2, <2>4, <2>5 DEF RetainInv
  <2> QED BY <2>6, <2>7, <2>8 DEF IInv
<1>6. CASE Release
  <2>1. /\ pme.pc = "release" /\ sec.epoch # 0 /\ sec.epoch = txn.epoch /\ ~pme.restored
        /\ UNCHANGED <<txn, asked, ap, event, tim, icc, dist, armed>>
    BY <1>6 DEF Release, PhaseInv, Holding, RecordInv
  <2>2. /\ pme'.parked = pme.parked /\ pme'.restore = pme.restore
        /\ pme'.restored = pme.restored /\ pme'.pc = "sev"
    BY <1>6, <2>1 DEF Release, HostTypeOK, BspRecord
  <2>3. /\ sec'.epoch = sec.epoch /\ sec'.target = sec.target /\ sec'.parked = sec.parked
        /\ sec'.resumed = sec.resumed /\ sec'.release = TRUE
        /\ sec'.failed_suspend = sec.failed_suspend /\ sec'.failed_resume = sec.failed_resume
    BY <1>6, <2>1 DEF Release, HostTypeOK, Record
  <2>4. ASSUME NEW p \in Ap PROVE ApInv(p)'
    <3>1. ApInv(p)
      BY <2>1 DEF RecordInv
    <3> QED BY <2>1, <2>2, <2>3, <3>1 DEF ApInv
  <2>5. RecordInv'
    BY <2>1, <2>2, <2>3, <2>4, Zenon DEF RecordInv
  <2>8. EventInv'
    BY <2>2 DEF EventInv
  <2>6. PhaseInv'
    BY <2>1, <2>2, <2>3 DEF PhaseInv, Holding, Past
  <2>7. RetainInv'
    BY <2>1, <2>2 DEF RetainInv
  <2> QED BY <2>5, <2>6, <2>7, <2>8 DEF IInv
<1>7. CASE Sev
  <2>1. /\ pme.pc = "sev" /\ pme'.pc = "resuming" /\ pme'.parked = pme.parked
        /\ pme'.restore = pme.restore /\ pme'.restored = pme.restored /\ event' = Ap
        /\ UNCHANGED <<txn, sec, asked, ap, tim, icc, dist, armed>>
    BY <1>7 DEF Sev, HostTypeOK, BspRecord
  <2>2. \A p \in Ap : ApInv(p) => ApInv(p)'
    BY <2>1 DEF ApInv
  <2>3. RecordInv' /\ EventInv'
    BY <2>1, <2>2 DEF RecordInv, EventInv
  <2>4. PhaseInv'
    BY <2>1 DEF PhaseInv, Holding, Past
  <2>5. RetainInv'
    BY <2>1 DEF RetainInv
  <2> QED BY <2>3, <2>4, <2>5 DEF IInv
<1>8. CASE WaitResumed
  <2>1. /\ pme.pc = "resuming" /\ sec.epoch # 0 /\ sec.release /\ ~pme.restored
        /\ UNCHANGED <<txn, asked, ap, event, tim, icc, dist, armed>>
    BY <1>8 DEF WaitResumed, PhaseInv
  <2>2. /\ pme'.parked = pme.parked /\ pme'.restored = pme.restored
        /\ pme'.pc = (IF pme.parked THEN "finish" ELSE "restore")
        /\ pme.restore => pme'.restore
    BY <1>8 DEF WaitResumed, AfterRelease, HostTypeOK, BspRecord
  <2>3. RetainInv'
    BY <2>1, <2>2 DEF RetainInv
  <2>4. CASE UNCHANGED sec /\ pme'.restore
    <3>1. RecordInv' /\ EventInv'
      BY <2>1, <2>2, <2>4, BspMove
    <3>2. PhaseInv'
      BY <2>1, <2>2, <2>4 DEF PhaseInv, Holding, Past
    <3> QED BY <2>3, <3>1, <3>2 DEF IInv
  <2>5. CASE sec.target \subseteq sec.resumed /\ sec' = Clear
    <3>1. \A p \in Ap : ApInv(p) /\ p \in sec.resumed
      BY <2>1, <2>5 DEF RecordInv
    <3>2. asked = {} /\ \A p \in Ap : ap[p] = ApIdle /\ tim[p] = 0 /\ icc[p] = 0
      BY <3>1 DEF ApInv, ApIdle, HostTypeOK
    <3>3. sec'.epoch = 0 /\ ~sec'.release /\ sec'.failed_suspend = {} /\ sec'.failed_resume = {}
      BY <2>5 DEF Clear
    <3>4. RecordInv' /\ EventInv'
      BY <2>1, <2>5, <3>2, <3>3 DEF RecordInv, EventInv
    <3>5. PhaseInv'
      BY <2>1, <2>2, <3>3 DEF PhaseInv, Holding, Past
    <3> QED BY <2>3, <3>4, <3>5 DEF IInv
  <2>6. (UNCHANGED sec /\ pme'.restore) \/ (sec.target \subseteq sec.resumed /\ sec' = Clear)
    BY <1>8, Zenon DEF WaitResumed, HostTypeOK, BspRecord
  <2> QED BY <2>4, <2>5, <2>6
<1> QED BY <1>1, <1>2, <1>3, <1>4, <1>5, <1>6, <1>7, <1>8

-----------------------------------------------------------------------------
(* Every reachable state of the platform entry satisfies the inductive     *)
(* invariant, with any number of APs.                                      *)
THEOREM HostInvariant == HostSpec => []IInv
<1> USE HostConstants
<1>1. HostInit => IInv
  <2> SUFFICES ASSUME HostInit PROVE IInv
    OBVIOUS
  <2>1. txn \in Txn /\ sec \in Record /\ pme \in BspRecord
    BY ClearType DEF HostInit, Txn, Out, BspRecord, BspPlace
  <2>2. ap \in [Ap -> ApRecord] /\ tim \in [Pcpu -> Nat] /\ icc \in [Pcpu -> Nat]
    BY DEF HostInit, ApIdle, ApRecord, ApPlace
  <2>3. HostTypeOK
    BY <2>1, <2>2, Zenon DEF HostTypeOK, HostInit
  <2>4. RecordInv /\ EventInv
    BY PcpuFacts DEF HostInit, RecordInv, EventInv, Clear, ApIdle
  <2>5. PhaseInv /\ RetainInv
    BY PcpuFacts DEF HostInit, Out, Clear, PhaseInv, Holding, Past, RetainInv
  <2> QED BY <2>3, <2>4, <2>5 DEF IInv
<1>2. IInv /\ [HostNext]_hostvars => IInv'
  <2> SUFFICES ASSUME IInv, [HostNext]_hostvars PROVE IInv'
    OBVIOUS
  <2>1. CASE UNCHANGED hostvars
    <3>1. UNCHANGED <<txn, sec, asked, pme, ap, event, tim, icc, dist, armed>>
      BY <2>1 DEF hostvars
    <3>2. HostTypeOK'
      BY <3>1 DEF IInv, HostTypeOK
    <3>3. \A p \in Ap : ApInv(p) => ApInv(p)'
      BY <3>1 DEF ApInv
    <3>4. RecordInv' /\ EventInv'
      BY <3>1, <3>3 DEF IInv, RecordInv, EventInv
    <3>5. PhaseInv' /\ RetainInv'
      BY <3>1 DEF IInv, PhaseInv, Holding, Past, RetainInv
    <3> QED BY <3>2, <3>4, <3>5 DEF IInv
  <2>2. CASE HostNext
    BY <2>2, ApStep, BspPlainStep, BspSharedStep DEF HostNext, EnterSteps
  <2> QED BY <2>1, <2>2
<1> QED BY <1>1, <1>2, PTL DEF HostSpec

(* The distributor is retained only behind APs that are parked with their  *)
(* banked state saved, and platform_pm_enter() reports host_restored only  *)
(* when every AP runs and nothing is retained, for any number of APs and   *)
(* however late an AP takes its request.                                   *)
THEOREM HostOrderHolds == HostSpec => []HostOrder
<1> USE HostConstants
<1>1. IInv => HostOrder
  <2> SUFFICES ASSUME IInv PROVE HostOrder
    OBVIOUS
  <2>1. ASSUME dist # 0, ~pme.restore, NEW p \in Ap PROVE Parked(p)
    <3>1. Holding /\ pme.parked
      BY <2>1 DEF IInv, RetainInv, PhaseInv, Holding
    <3>2. sec.epoch # 0 /\ ~sec.release /\ p \in sec.parked
      BY <3>1 DEF IInv, PhaseInv
    <3>3. ApInv(p) /\ sec.epoch = txn.epoch
      BY <3>2 DEF IInv, RecordInv
    <3> QED BY <3>2, <3>3 DEF ApInv, Parked, ApIdle
  <2>2. ASSUME pme.restored \/ pme.pc \in {"enter", "prepare", "publish"} PROVE Whole
    <3>1. sec.epoch = 0 /\ dist = 0 /\ tim[0] = 0 /\ icc[0] = 0
      BY <2>2 DEF IInv, PhaseInv, RetainInv
    <3> QED BY <3>1, PcpuFacts DEF IInv, RecordInv, Whole
  <2> QED BY <2>1, <2>2 DEF HostOrder
<1> QED BY <1>1, HostInvariant, PTL

(* No AP is left in WFE with no event pending once the boot pCPU is past   *)
(* its SEV, whether the release succeeded or timed out.                    *)
THEOREM NoApStrandedHolds == HostSpec => []NoApStranded
<1> USE HostConstants
<1>1. IInv => NoApStranded
  <2> SUFFICES ASSUME IInv, NEW p \in Ap, ap[p].pc = "wfe", p \notin event
               PROVE  \/ pme.pc \in {"request", "parking", "suspend", "wfi", "asleep", "poll",
                                     "release", "sev"}
                      \/ pme.pc = "restore" /\ pme.parked
    BY DEF NoApStranded
  <2>1. sec.epoch # 0
    BY DEF IInv, RecordInv, ApIdle
  <2>2. sec.release => pme.pc = "sev"
    BY DEF IInv, EventInv
  <2>3. pme.pc \in BspPlace
    BY BspFields DEF IInv
  <2> QED BY <2>1, <2>2, <2>3 DEF IInv, PhaseInv, Past, BspPlace
<1> QED BY <1>1, HostInvariant, PTL
==============================================================================
