----------------------- MODULE PipelineExecutionProofs -----------------------
(***************************************************************************)
(* Proofs about PipelineExecution, for any number of requests on any mix   *)
(* of the paths, any proposals, markets and reviews.                       *)
(***************************************************************************)
EXTENDS PipelineExecution, OrderExecutionProofs

-----------------------------------------------------------------------------
(* Type correctness. *)

Points == {"idle"} \cup InFlight \cup OnTheWay \cup Settled

LEMMA PipelineTypeInit == PipelineInit => PipelineTypeOK
BY ConstantsAssumption, PathAssumption
   DEF PathAssumption, PipelineInit, Init, PipelineTypeOK, ConstantsAssumption, ProposalStatus,
       ExecutionStatus, PositionStatus, JournalResult, Tx, NoTx, NoReview

LEMMA NoTxType == NoTx \in Tx
BY DEF NoTx, Tx, ProposalStatus, ExecutionStatus, PositionStatus, JournalResult

\* A buffer in which one or more columns were assigned.
LEMMA BufferAssigned ==
  ASSUME NEW t \in Tx, NEW s \in ProposalStatus, NEW e \in ExecutionStatus,
         NEW p \in PositionStatus, NEW b \in BOOLEAN
  PROVE  /\ [t EXCEPT !.status = s] \in Tx
         /\ [t EXCEPT !.execution = e] \in Tx
         /\ [t EXCEPT !.execution = e, !.position = p, !.burn = b] \in Tx
         /\ [t EXCEPT !.status = s, !.position = p, !.execution = e] \in Tx
         /\ [t EXCEPT !.position = p, !.status = s, !.result = "OPEN"] \in Tx
BY DEF Tx, JournalResult

LEMMA StatusAssigned ==
  ASSUME NEW t \in Tx, NEW s \in ProposalStatus
  PROVE  [t EXCEPT !.status = s] \in Tx
BY DEF Tx

LEMMA BurnAssigned ==
  ASSUME NEW t \in Tx, NEW b \in BOOLEAN
  PROVE  [t EXCEPT !.burn = b] \in Tx
BY DEF Tx

LEMMA RecordedType ==
  ASSUME PipelineTypeOK, NEW d \in Request
  PROVE  Recorded(d) \in Tx
<1>1. tx[d] \in Tx
  BY DEF PipelineTypeOK
<1>2. /\ tx[d].status \in ProposalStatus /\ tx[d].execution \in ExecutionStatus
      /\ tx[d].burn \in BOOLEAN
  BY <1>1 DEF Tx
<1>3. CASE path[d] # "route" /\ tx[d].execution = "SUCCESS"
  BY <1>2, <1>3
     DEF Recorded, Tx, ProposalStatus, ExecutionStatus, PositionStatus, JournalResult
<1>4. CASE path[d] # "route" /\ tx[d].execution # "SUCCESS"
  BY <1>2, <1>4
     DEF Recorded, Tx, ProposalStatus, ExecutionStatus, PositionStatus, JournalResult
<1>5. CASE path[d] = "route"
  BY <1>2, <1>5 DEF Recorded, Tx, PositionStatus, JournalResult
<1> QED
  BY <1>3, <1>4, <1>5

\* The end of a transaction, with or without a commit.
LEMMA EndTxType ==
  ASSUME PipelineTypeOK, NEW r \in Request, NEW outcome \in Settled, EndTx(r, outcome)
  PROVE  /\ pc' \in [Request -> Points]
         /\ tx' \in [Request -> Tx]
         /\ capLock' \in Request \cup {None}
         /\ propLock' \in [Proposal -> Request \cup {None}]
         /\ rowLock' \in [Proposal -> Request \cup {None}]
BY NoTxType DEF EndTx, PipelineTypeOK, Points

LEMMA RollbackType ==
  ASSUME PipelineTypeOK, UNCHANGED path, NEW r \in Request, NEW outcome \in Settled,
         Rollback(r, outcome),
         sent' \in [Request -> BOOLEAN], live' \in [Request -> {"NONE", "LIVE", "FLAT"}],
         stopPlaced' \in [Request -> BOOLEAN]
  PROVE  PipelineTypeOK'
BY EndTxType DEF Rollback, tables, PipelineTypeOK, Points

LEMMA CommitTxType ==
  ASSUME PipelineTypeOK, UNCHANGED path, NEW r \in Request, NEW outcome \in Settled, NEW w \in Tx,
         CommitTx(r, w, outcome), UNCHANGED venue
  PROVE  PipelineTypeOK'
<1>1. ack' \in [gen : 0 .. MaxAcks, active : BOOLEAN]
  BY DEF CommitTx, PipelineTypeOK
<1>2. /\ status' \in [Proposal -> ProposalStatus]
      /\ execution' \in [Request -> ExecutionStatus]
      /\ position' \in [Request -> PositionStatus]
      /\ result' \in [Request -> JournalResult]
  BY ConstantsAssumption DEF CommitTx, Tx, ConstantsAssumption, PipelineTypeOK
<1> QED
  BY <1>1, <1>2, EndTxType DEF CommitTx, venue, PipelineTypeOK, Points

LEMMA CommitDeliveryType ==
  ASSUME PipelineTypeOK, UNCHANGED path, NEW d \in Request, CommitDelivery(d)
  PROVE  PipelineTypeOK'
<1>0. tx[d] \in Tx /\ ProposalOf[d] \in Proposal
  BY ConstantsAssumption DEF PipelineTypeOK, ConstantsAssumption
<1>1. ack' \in [gen : 0 .. MaxAcks, active : BOOLEAN]
  BY DEF CommitDelivery, PipelineTypeOK
<1>2. Seen(d) \in ProposalStatus
  BY <1>0 DEF Seen, Tx, PipelineTypeOK
<1>3. status' \in [Proposal -> ProposalStatus]
  BY <1>0, <1>2 DEF CommitDelivery, PipelineTypeOK
<1>4. pastExpiry' \in [Proposal -> BOOLEAN]
  <2>1. (pastExpiry[ProposalOf[d]] /\ path[d] # "auto") \in BOOLEAN
    OBVIOUS
  <2> QED
    BY <1>0, <2>1 DEF CommitDelivery, PipelineTypeOK
<1>5. /\ execution' \in [Request -> ExecutionStatus]
      /\ position' \in [Request -> PositionStatus]
      /\ result' \in [Request -> JournalResult]
  BY <1>0 DEF CommitDelivery, Tx, PipelineTypeOK
<1>6. "finished" \in Settled
  BY DEF Settled
<1> QED
  BY <1>1, <1>3, <1>4, <1>5, <1>6, EndTxType DEF CommitDelivery, venue, PipelineTypeOK, Points

LEMMA BornType ==
  ASSUME PipelineTypeOK
  PROVE  Cardinality({q \in Request : pc[q] # "idle"}) + 1 \in Nat
<1>1. IsFiniteSet({q \in Request : pc[q] # "idle"})
  BY FS_Subset, ConstantsAssumption DEF ConstantsAssumption
<1> QED
  BY <1>1, FS_CardinalityType

\* A request moves on inside its transaction; what it does not name stays.
LEMMA ReliedType ==
  ASSUME PipelineTypeOK
  PROVE  (IF LossStreak THEN ack.gen ELSE 0) \in 0 .. MaxAcks
BY ConstantsAssumption DEF PipelineTypeOK, ConstantsAssumption

LEMMA ServiceType ==
  ASSUME PipelineTypeOK, UNCHANGED path, NEW r \in Request, ServiceCall(r) \/ Crash(r)
  PROVE  PipelineTypeOK'
<1> USE DEF Goto, tables, venue, InFlight, HoldsCap, HoldsProposal, HoldsRow
<1>0. tx[r] \in Tx /\ ProposalOf[r] \in Proposal
  BY ConstantsAssumption DEF PipelineTypeOK, ConstantsAssumption
<1>1. CASE Begin(r)
  BY <1>1, BornType DEF Begin, PipelineTypeOK
<1>2. CASE AcquireCap(r)
  BY <1>2 DEF AcquireCap, PipelineTypeOK
<1>3. CASE AcquireProposal(r)
  BY <1>3 DEF AcquireProposal, PipelineTypeOK
<1>4. CASE ReplayCheck(r)
  <2>1. CASE SucceededFor(ProposalOf[r])
    BY <1>4, <2>1, RollbackType DEF ReplayCheck, Settled, Ended, PipelineTypeOK
  <2>2. CASE ~ SucceededFor(ProposalOf[r])
    BY <1>4, <2>2 DEF ReplayCheck, PipelineTypeOK
  <2> QED
    BY <2>1, <2>2
<1>5. CASE AcquireRow(r)
  BY <1>5 DEF AcquireRow, PipelineTypeOK
<1>6. CASE PreCheck(r)
  BY <1>6, ReliedType DEF PreCheck, PipelineTypeOK
<1>7. CASE Refuse(r)
  BY <1>7, RollbackType DEF Refuse, Settled, Ended, PipelineTypeOK
<1>8. CASE EntryFilled(r)
  <2>1. Burns(r) \in BOOLEAN
    BY DEF Burns, PipelineTypeOK
  <2>2. tx' \in [Request -> Tx]
    BY <1>0, <1>8, <2>1, BufferAssigned
       DEF EntryFilled, PipelineTypeOK, ExecutionStatus, PositionStatus
  <2> QED
    BY <1>8, <2>2 DEF EntryFilled, PipelineTypeOK
<1>9. CASE EntryRaised(r)
  BY <1>9, RollbackType DEF EntryRaised, Settled, Ended, PipelineTypeOK
<1>10. CASE StopAccepted(r)
  <2>1. tx' \in [Request -> Tx]
    BY <1>0, <1>10, BufferAssigned DEF StopAccepted, PipelineTypeOK, ExecutionStatus
  <2> QED
    BY <1>10, <2>1 DEF StopAccepted, PipelineTypeOK
<1>11. CASE StopRaised(r)
  <2> DEFINE w == [tx[r] EXCEPT !.status = "NEEDS_ATTENTION", !.position = "NEEDS_ATTENTION",
                                !.execution = "ENTRY_FILLED_SL_FAILED"]
  <2>1. w \in Tx
    BY <1>0, BufferAssigned DEF ProposalStatus, PositionStatus, ExecutionStatus
  <2>2. CommitTx(r, w, "unprotected") /\ UNCHANGED venue
    BY <1>11 DEF StopRaised
  <2> HIDE DEF w
  <2> QED
    BY <2>1, <2>2, CommitTxType DEF Settled, Ended
<1>12. CASE PlaceTargets(r)
  <2>1. PICK flag \in {"OPEN", "NEEDS_ATTENTION"} :
          tx' = [tx EXCEPT ![r] = [@ EXCEPT !.position = flag, !.status = "EXECUTED",
                                            !.result = "OPEN"]]
    BY <1>12 DEF PlaceTargets
  <2>2. tx' \in [Request -> Tx]
    BY <1>0, <2>1, BufferAssigned DEF PipelineTypeOK, PositionStatus, ProposalStatus
  <2> QED
    BY <1>12, <2>2 DEF PlaceTargets, PipelineTypeOK
<1>13. CASE Commit(r)
  BY <1>0, <1>13, CommitTxType DEF Commit, Settled, Ended
<1>14. CASE ServiceConflict(r)
  BY <1>14, RollbackType DEF ServiceConflict, Settled, PipelineTypeOK
<1>15. CASE Crash(r)
  BY <1>15, RollbackType DEF Crash, Settled, Ended, PipelineTypeOK
<1>16. CASE StopWaits(r)
  BY <1>16 DEF StopWaits, calls, PipelineTypeOK
<1> QED
  BY <1>1, <1>2, <1>3, <1>4, <1>5, <1>6, <1>7, <1>8, <1>9, <1>10, <1>11, <1>12, <1>13, <1>14,
     <1>15, <1>16 DEF ServiceCall, Execute

\* The status compile_proposal leaves in its transaction's buffer.
LEMMA CompiledStatus ==
  ASSUME NEW d \in Request, LoadProposal(d)
  PROVE  \E s \in ProposalStatus : tx' = [tx EXCEPT ![d].status = s]
<1>1. PICK s \in {"PENDING_APPROVAL", "BLOCKED_KILL_SWITCH"} :
        tx' = [tx EXCEPT ![d].status = IF s = status[ProposalOf[d]] THEN "ABSENT" ELSE s]
  BY DEF LoadProposal
<1> DEFINE w == IF s = status[ProposalOf[d]] THEN "ABSENT" ELSE s
<1>2. tx' = [tx EXCEPT ![d].status = w]
  BY <1>1
<1>3. w \in ProposalStatus
  BY <1>1 DEF ProposalStatus
<1> HIDE DEF w
<1> QED
  BY <1>2, <1>3

LEMMA DeliverType ==
  ASSUME PipelineTypeOK, UNCHANGED path, NEW d \in Request, d \in Delivery,
         Deliver(d) \/ CrashDelivery(d)
  PROVE  PipelineTypeOK'
<1> USE DEF Goto, tables, venue, OnTheWay, Unflushed, Inserted
<1>0. tx[d] \in Tx /\ ProposalOf[d] \in Proposal
  BY ConstantsAssumption DEF PipelineTypeOK, ConstantsAssumption
<1>1. CASE StartDelivery(d)
  <2>1. born' \in [Request -> Nat]
    BY <1>1, BornType DEF StartDelivery, PipelineTypeOK
  <2>2. PICK q \in OnTheWay : pc' = [pc EXCEPT ![d] = q]
    <3>1. path[d] \in {"auto", "resume", "route"}
      BY DEF Delivery, Call, PipelineTypeOK, Path
    <3>2. First(d) \in OnTheWay
      BY <3>1 DEF First
    <3> QED
      BY <1>1, <3>2 DEF StartDelivery
  <2> QED
    BY <1>1, <2>1, <2>2 DEF StartDelivery, PipelineTypeOK
<1>2. CASE Compile(d)
  BY <1>0, <1>2 DEF Compile, PipelineTypeOK
<1>3. CASE GateExecutes(d)
  <2>1. tx' \in [Request -> Tx]
    BY <1>0, <1>3, BufferAssigned DEF GateExecutes, PipelineTypeOK, ProposalStatus
  <2> QED
    BY <1>3, <2>1 DEF GateExecutes, PipelineTypeOK
<1>4. CASE CommitDelivery(d)
  BY <1>4, CommitDeliveryType
<1>5. CASE PromoteRead(d)
  <2>1. PICK q \in {"promote", "select"} : pc' = [pc EXCEPT ![d] = q]
    BY <1>5 DEF PromoteRead
  <2> QED
    BY <1>5, <2>1 DEF PromoteRead, PipelineTypeOK
<1>6. CASE PromoteWrite(d)
  BY <1>0, <1>6 DEF PromoteWrite, PipelineTypeOK, ProposalStatus
<1>7. CASE Select(d)
  BY <1>4, <1>7 DEF Select, PipelineTypeOK
<1>8. CASE PreflightPass(d)
  BY <1>8, ReliedType DEF PreflightPass, PipelineTypeOK
<1>9. CASE PreflightFail(d)
  <2>1. CASE path[d] = "route"
    BY <1>9, <2>1, RollbackType DEF PreflightFail, Settled, Ended, PipelineTypeOK
  <2>2. CASE path[d] # "route"
    <3>1. tx' \in [Request -> Tx]
      <4>1. tx' = [tx EXCEPT ![d] = [@ EXCEPT !.status = "REJECTED"]]
        BY <1>9, <2>2 DEF PreflightFail
      <4>2. [tx[d] EXCEPT !.status = "REJECTED"] \in Tx
        BY <1>0, StatusAssigned DEF ProposalStatus
      <4> QED
        BY <4>1, <4>2 DEF PipelineTypeOK
    <3> QED
      BY <1>0, <1>9, <2>2, <3>1 DEF PreflightFail, PipelineTypeOK
  <2> QED
    BY <2>1, <2>2
<1>10. CASE OrderFilled(d)
  BY <1>10 DEF OrderFilled, PipelineTypeOK
<1>11. CASE OrderFails(d)
  <2>1. tx' \in [Request -> Tx]
    BY <1>0, <1>11, BufferAssigned DEF OrderFails, PipelineTypeOK, ExecutionStatus
  <2> QED
    BY <1>11, <2>1 DEF OrderFails, PipelineTypeOK
<1>12. CASE Protect(d)
  <2>1. PICK e \in ExecutionStatus : tx' = [tx EXCEPT ![d] = [@ EXCEPT !.execution = e]]
    BY <1>12 DEF Protect, ExecutionStatus
  <2>2. tx' \in [Request -> Tx]
    BY <1>0, <2>1, BufferAssigned DEF PipelineTypeOK
  <2> QED
    BY <1>12, <2>2 DEF Protect, PipelineTypeOK
<1>13. CASE Insert(d)
  BY <1>13 DEF Insert, PipelineTypeOK
<1>14. CASE InsertConflict(d) \/ DeadlockAbort(d)
  BY <1>14, RollbackType DEF InsertConflict, DeadlockAbort, Settled, PipelineTypeOK
<1>15. CASE CrashDelivery(d)
  BY <1>15, RollbackType DEF CrashDelivery, Settled, Ended, PipelineTypeOK
<1>16. CASE LoadProposal(d)
  <2>1. PICK s \in ProposalStatus : tx' = [tx EXCEPT ![d].status = s]
    BY <1>16, CompiledStatus
  <2>2. tx' \in [Request -> Tx]
    BY <1>0, <2>1, StatusAssigned DEF PipelineTypeOK
  <2> QED
    BY <1>16, <2>2 DEF LoadProposal, PipelineTypeOK
<1>17. CASE Refer(d)
  <2>1. PICK q \in {"burn", "settle"} : pc' = [pc EXCEPT ![d] = q]
    BY <1>17 DEF Refer
  <2> QED
    BY <1>17, <2>1 DEF Refer, PipelineTypeOK
<1>18. CASE BurnAck(d)
  <2>1. Burns(d) \in BOOLEAN
    BY DEF Burns, PipelineTypeOK
  <2>2. tx' \in [Request -> Tx]
    BY <1>0, <1>18, <2>1, BurnAssigned DEF BurnAck, PipelineTypeOK
  <2> QED
    BY <1>18, <2>2 DEF BurnAck, PipelineTypeOK
<1>19. CASE Settle(d)
  <2>1. tx' \in [Request -> Tx]
    BY <1>19, RecordedType DEF Settle, PipelineTypeOK
  <2>2. rowLock' \in [Proposal -> Request \cup {None}]
    BY <1>0, <1>19 DEF Settle, PipelineTypeOK
  <2> QED
    BY <1>19, <2>1, <2>2 DEF Settle, PipelineTypeOK
<1> QED
  BY <1>1, <1>2, <1>3, <1>4, <1>5, <1>6, <1>7, <1>8, <1>9, <1>10, <1>11, <1>12, <1>13, <1>14,
     <1>15, <1>16, <1>17, <1>18, <1>19 DEF Deliver, GateWaits, FinishRun

LEMMA OthersType == PipelineTypeOK /\ Others /\ UNCHANGED path => PipelineTypeOK'
<1> SUFFICES ASSUME PipelineTypeOK, Others, UNCHANGED path PROVE PipelineTypeOK'
  OBVIOUS
<1> USE DEF PipelineTypeOK, tables, calls, venue
<1>1. ASSUME NEW p \in Proposal, SaveProposal(p) PROVE PipelineTypeOK'
  BY <1>1 DEF SaveProposal, ProposalStatus
<1>2. ASSUME NEW p \in Proposal, TimePasses(p) PROVE PipelineTypeOK'
  BY <1>2 DEF TimePasses
<1>3. ASSUME NEW v \in Review, ReviewRead(v) PROVE PipelineTypeOK'
  BY <1>3 DEF ReviewRead, ReviewCall
<1>4. ASSUME NEW v \in Review, ReviewWrite(v) PROVE PipelineTypeOK'
  <2>1. review[v] \in ReviewCall
    BY <1>4 DEF ReviewWrite, NoReview
  <2>2. status' \in [Proposal -> ProposalStatus]
    BY <1>4, <2>1 DEF ReviewWrite, ReviewCall, Decision, ProposalStatus
  <2>3. review' \in [Review -> ReviewCall \cup {NoReview}]
    BY <1>4, <2>1 DEF ReviewWrite, ReviewCall
  <2> QED
    BY <1>4, <2>2, <2>3 DEF ReviewWrite
<1>5. CASE ExpireOldProposals
  BY <1>5 DEF ExpireOldProposals, ProposalStatus
<1>6. CASE RecordAck
  BY <1>6, ConstantsAssumption DEF RecordAck, ConstantsAssumption
<1>7. CASE AckLapses
  BY <1>7 DEF AckLapses
<1>8. ASSUME NEW r \in Request, ExchangeCloses(r) PROVE PipelineTypeOK'
  BY <1>8 DEF ExchangeCloses
<1>9. ASSUME NEW r \in Request, FinalizeClose(r) PROVE PipelineTypeOK'
  BY <1>9 DEF FinalizeClose, PositionStatus, JournalResult
<1>10. ASSUME NEW r \in Request, FlagAttention(r) PROVE PipelineTypeOK'
  BY <1>10 DEF FlagAttention, PositionStatus
<1> QED
  BY <1>1, <1>2, <1>3, <1>4, <1>5, <1>6, <1>7, <1>8, <1>9, <1>10 DEF Others

LEMMA PathUnchanged == [PipelineNext]_pipelineVars => UNCHANGED path
BY DEF PipelineNext, pipelineVars

LEMMA PipelineTypeStep == PipelineTypeOK /\ [PipelineNext]_pipelineVars => PipelineTypeOK'
<1>1. ASSUME PipelineTypeOK, UNCHANGED pipelineVars PROVE PipelineTypeOK'
  BY <1>1 DEF pipelineVars, vars, tables, calls, venue, PipelineTypeOK
<1> QED
  BY <1>1, ServiceType, DeliverType, OthersType DEF PipelineNext, Call, Delivery

-----------------------------------------------------------------------------
(* The inductive invariant. *)

\* Where a request is certain to hold the row lock of its proposal: from the
\* service's checks on, from a run's compile step on, and after any run has
\* written its rows.
HasRow(r) ==
  \/ pc[r] \in HoldsRow
  \/ path[r] # "route" /\ pc[r] = "rest"
  \/ path[r] = "auto" /\ pc[r] \in OnTheWay \ {"load", "compile"}

RowHeld == \A r \in Request : HasRow(r) => rowLock[ProposalOf[r]] = r

\* Nothing is committed before the end.
CommitsAtEnd ==
  \A r \in Request : pc[r] \notin Settled => execution[r] = "NONE" /\ position[r] = "NONE"

\* What the buffer says of the exchange.
BufferTrue(r) ==
  /\ tx[r].execution = "SUCCESS" =>
       pc[r] \in {"record", "targets", "commit"} \cup Inserted /\ sent[r] /\ stopPlaced[r]
  /\ pc[r] \in {"stop", "protect"} => sent[r]
  /\ pc[r] \in {"targets", "commit"} => tx[r].execution = "SUCCESS"
  /\ pc[r] \in {"idle"} \cup OnTheWay /\ tx[r].position = "OPEN" =>
       tx[r].execution = "SUCCESS"

BuffersTrue == \A r \in Request : BufferTrue(r)

\* The unique index holds one uncommitted SUCCESS of a proposal, and none beside a
\* committed one.
IndexSound ==
  /\ \A r, q \in Request :
       ProposalOf[r] = ProposalOf[q] /\ InIndex(r) /\ InIndex(q) => r = q
  /\ \A r \in Request : InIndex(r) => ~ SucceededFor(ProposalOf[r])

\* Where a run of its own proposal is about to send its order, only the route can have
\* committed a success: whoever else commits one holds the row the run has.
RoutesOnly(p) ==
  \A q \in Request : ProposalOf[q] = p /\ execution[q] = "SUCCESS" => path[q] = "route"

Ordering(r) == path[r] = "auto" /\ pc[r] = "order"

OrdersFirst == \A r \in Request : Ordering(r) => RoutesOnly(ProposalOf[r])

PipelineInv ==
  /\ PipelineTypeOK /\ RowHeld /\ CommitsAtEnd /\ BuffersTrue /\ IndexSound /\ OrdersFirst
  /\ OneSuccessPerProposal /\ OpenIsProtected

LEMMA PipelineInvInit == PipelineInit => PipelineInv
<1> SUFFICES ASSUME PipelineInit PROVE PipelineInv
  OBVIOUS
<1>1. /\ \A r \in Request : /\ pc[r] = "idle" /\ tx[r] = NoTx
                            /\ execution[r] = "NONE" /\ position[r] = "NONE"
  BY DEF PipelineInit, Init
<1>2. RowHeld /\ CommitsAtEnd /\ OneSuccessPerProposal /\ OpenIsProtected
  BY <1>1 DEF RowHeld, HasRow, HoldsRow, OnTheWay, Unflushed, Inserted, CommitsAtEnd,
              OneSuccessPerProposal, OpenIsProtected, OpenPositions
<1>3. BuffersTrue /\ IndexSound /\ OrdersFirst
  BY <1>1 DEF BuffersTrue, BufferTrue, IndexSound, InIndex, OrdersFirst, Ordering, NoTx,
     OnTheWay, Unflushed, Inserted
<1> QED
  BY <1>2, <1>3, PipelineTypeInit DEF PipelineInv

\* A proposal without a success has none but the route's.
LEMMA NoSuccessRoutesOnly == ASSUME NEW p, ~ SucceededFor(p) PROVE RoutesOnly(p)
BY DEF SucceededFor, RoutesOnly

LEMMA SettledPoints ==
  ASSUME NEW x \in Settled
  PROVE  x \notin {"idle"} \cup InFlight \cup OnTheWay
BY DEF Settled, Ended, InFlight, HoldsCap, HoldsProposal, HoldsRow, OnTheWay, Unflushed, Inserted

\* A request moves on inside its transaction.
LEMMA MoveOn ==
  ASSUME PipelineInv, PipelineTypeOK', NEW r \in Request, pc[r] \notin Settled,
         UNCHANGED <<path, execution, position>>,
         \A q \in Request \ {r} : /\ pc'[q] = pc[q] /\ tx'[q] = tx[q]
                                  /\ sent'[q] = sent[q] /\ stopPlaced'[q] = stopPlaced[q],
         \A p \in Proposal : rowLock[p] \notin {None, r} => rowLock'[p] = rowLock[p],
         HasRow(r)' => rowLock'[ProposalOf[r]] = r,
         BufferTrue(r)',
         InIndex(r)' => ~ SucceededFor(ProposalOf[r]) /\ (InIndex(r) \/ ~ SuccessInFlight(r)),
         Ordering(r)' => RoutesOnly(ProposalOf[r])
  PROVE  PipelineInv'
<1> USE DEF PipelineInv
<1>0. None \notin Request /\ \A q \in Request : ProposalOf[q] \in Proposal
  BY ConstantsAssumption DEF ConstantsAssumption
<1>1. RowHeld'
  <2> SUFFICES ASSUME NEW q \in Request, HasRow(q)' PROVE rowLock'[ProposalOf[q]] = q
    BY DEF RowHeld
  <2>1. CASE q # r
    <3>1. HasRow(q)
      BY <2>1 DEF HasRow
    <3>2. rowLock[ProposalOf[q]] = q
      BY <3>1 DEF RowHeld
    <3> QED
      BY <1>0, <2>1, <3>2
  <2>2. CASE q = r
    BY <2>2
  <2> QED
    BY <2>1, <2>2
<1>2. CommitsAtEnd'
  BY DEF CommitsAtEnd
<1>3. BuffersTrue'
  BY DEF BuffersTrue, BufferTrue
<1>4. IndexSound'
  <2>1. \A q \in Request \ {r} : InIndex(q)' <=> InIndex(q)
    BY DEF InIndex
  <2>2. \A p : SucceededFor(p)' <=> SucceededFor(p)
    BY DEF SucceededFor
  <2>3. ASSUME NEW q \in Request \ {r}, ProposalOf[q] = ProposalOf[r], InIndex(r)', InIndex(q)'
        PROVE  FALSE
    BY <2>1, <2>3 DEF IndexSound, SuccessInFlight
  <2>4. ASSUME NEW x \in Request, NEW y \in Request, ProposalOf[x] = ProposalOf[y], InIndex(x)',
               InIndex(y)'
        PROVE  x = y
    <3>1. CASE x = r \/ y = r
      BY <2>3, <2>4, <3>1
    <3>2. CASE x # r /\ y # r
      BY <2>1, <2>4, <3>2 DEF IndexSound
    <3> QED
      BY <3>1, <3>2
  <2>5. \A x \in Request : InIndex(x)' => ~ SucceededFor(ProposalOf[x])'
    BY <2>1, <2>2 DEF IndexSound
  <2> QED
    BY <2>4, <2>5 DEF IndexSound
<1>7. OrdersFirst'
  BY DEF OrdersFirst, Ordering, RoutesOnly
<1>5. OneSuccessPerProposal'
  BY DEF OneSuccessPerProposal
<1>6. OpenIsProtected'
  BY DEF OpenIsProtected, OpenPositions, CommitsAtEnd
<1> QED
  BY <1>1, <1>2, <1>3, <1>4, <1>5, <1>6, <1>7

\* A request's transaction ends.
LEMMA TxEnds ==
  ASSUME PipelineInv, PipelineTypeOK', NEW r \in Request, pc[r] \notin Settled,
         NEW outcome \in Settled, EndTx(r, outcome), UNCHANGED path,
         \A q \in Request \ {r} : /\ execution'[q] = execution[q] /\ position'[q] = position[q]
                                  /\ sent'[q] = sent[q] /\ stopPlaced'[q] = stopPlaced[q],
         execution'[r] = "SUCCESS" =>
           tx[r].execution = "SUCCESS" /\ pc[r] \in {"rest", "targets", "commit"},
         position'[r] = "OPEN" => sent'[r] /\ stopPlaced'[r]
  PROVE  PipelineInv'
<1> USE DEF PipelineInv
<1>0. None \notin Request /\ \A q \in Request : ProposalOf[q] \in Proposal
  BY ConstantsAssumption DEF ConstantsAssumption
<1>1. /\ pc'[r] = outcome /\ tx'[r] = NoTx
      /\ \A q \in Request \ {r} : pc'[q] = pc[q] /\ tx'[q] = tx[q]
      /\ \A p \in Proposal : rowLock[p] # r => rowLock'[p] = rowLock[p]
  BY DEF EndTx, PipelineTypeOK
<1>2. outcome \notin {"idle"} \cup InFlight \cup OnTheWay
  BY SettledPoints
<1>3. ~ HasRow(r)' /\ ~ InIndex(r)' /\ ~ Ordering(r)' /\ BufferTrue(r)'
  BY <1>1, <1>2 DEF HasRow, InIndex, Ordering, BufferTrue, NoTx, InFlight, HoldsCap,
                    HoldsProposal, HoldsRow, OnTheWay, Unflushed, Inserted
<1>4. RowHeld'
  BY <1>0, <1>1, <1>3 DEF RowHeld, HasRow
<1>5. CommitsAtEnd'
  BY <1>1 DEF CommitsAtEnd
<1>6. BuffersTrue'
  BY <1>1, <1>3 DEF BuffersTrue, BufferTrue
<1>7. execution'[r] = "SUCCESS" => InIndex(r) /\ ~ SucceededFor(ProposalOf[r])
  BY DEF InIndex, Inserted, IndexSound
<1>8. IndexSound'
  <2>1. \A q \in Request : InIndex(q)' => q # r /\ InIndex(q)
    BY <1>1, <1>3 DEF InIndex
  <2>2. ASSUME NEW q \in Request, InIndex(q)', NEW x \in Request, ProposalOf[x] = ProposalOf[q],
               execution'[x] = "SUCCESS"
        PROVE  FALSE
    <3>1. q # r /\ InIndex(q) /\ ~ SucceededFor(ProposalOf[q])
      BY <2>1, <2>2 DEF IndexSound
    <3>2. x = r
      BY <2>2, <3>1 DEF SucceededFor
    <3> QED
      BY <1>7, <2>2, <3>1, <3>2 DEF IndexSound
  <2> QED
    BY <2>1, <2>2 DEF IndexSound, SucceededFor
<1>11. OrdersFirst'
  <2> SUFFICES ASSUME NEW q \in Request, Ordering(q)', NEW x \in Request,
                      ProposalOf[x] = ProposalOf[q], execution'[x] = "SUCCESS",
                      path[x] # "route"
               PROVE  FALSE
    BY DEF OrdersFirst, RoutesOnly
  <2>1. q # r /\ Ordering(q)
    BY <1>1, <1>3 DEF Ordering
  <2>2. x = r
    BY <2>1 DEF OrdersFirst, RoutesOnly
  <2>3. HasRow(q) /\ HasRow(r)
    BY <2>1, <2>2 DEF HasRow, Ordering, HoldsRow, OnTheWay, Unflushed
  <2> QED
    BY <2>1, <2>2, <2>3 DEF RowHeld
<1>9. OneSuccessPerProposal'
  BY <1>7 DEF OneSuccessPerProposal, SucceededFor
<1>10. OpenIsProtected'
  BY DEF OpenIsProtected, OpenPositions
<1> QED
  BY <1>4, <1>5, <1>6, <1>8, <1>9, <1>10, <1>11

\* Nothing but the follow-up of a position, or of the proposal, moves.
LEMMA OthersStep ==
  ASSUME PipelineInv, PipelineTypeOK', Others, UNCHANGED path
  PROVE  PipelineInv'
<1> USE DEF PipelineInv
<1>1. UNCHANGED <<execution, calls, sent, stopPlaced>>
  BY DEF Others, SaveProposal, TimePasses, ReviewRead, ReviewWrite, ExpireOldProposals, RecordAck,
         AckLapses, ExchangeCloses, FinalizeClose, FlagAttention, tables, venue
<1>2. \A q \in Request :
        position'[q] = position[q] \/ (position[q] # "NONE" /\ position'[q] # "OPEN")
  <2>1. ASSUME NEW r \in Request, FinalizeClose(r) \/ FlagAttention(r)
        PROVE  \A q \in Request :
                 position'[q] = position[q] \/ (position[q] # "NONE" /\ position'[q] # "OPEN")
    BY <2>1 DEF FinalizeClose, FlagAttention, Tracked, PipelineTypeOK
  <2>2. CASE UNCHANGED position
    BY <2>2
  <2> QED
    BY <2>1, <2>2 DEF Others, SaveProposal, TimePasses, ReviewRead, ReviewWrite,
                      ExpireOldProposals, RecordAck, AckLapses, ExchangeCloses, tables
<1>3. RowHeld' /\ BuffersTrue' /\ IndexSound' /\ OrdersFirst' /\ OneSuccessPerProposal'
  BY <1>1 DEF calls, RowHeld, HasRow, BuffersTrue, BufferTrue, IndexSound, InIndex,
              OrdersFirst, Ordering, RoutesOnly, SucceededFor, OneSuccessPerProposal
<1>4. CommitsAtEnd'
  BY <1>1, <1>2 DEF calls, CommitsAtEnd
<1>5. OpenIsProtected'
  BY <1>1, <1>2 DEF calls, OpenIsProtected, OpenPositions
<1> QED
  BY <1>3, <1>4, <1>5

\* The service's calls.
LEMMA ServiceStep ==
  ASSUME PipelineInv, PipelineTypeOK', NEW r \in Request, ServiceCall(r) \/ Crash(r),
         UNCHANGED path
  PROVE  PipelineInv'
<1> USE DEF PipelineInv
<1>0. /\ None \notin Request /\ \A q \in Request : ProposalOf[q] \in Proposal
      /\ tx[r] \in Tx
  BY ConstantsAssumption DEF ConstantsAssumption, PipelineTypeOK
<1>1. pc[r] \in {"idle"} \cup InFlight => pc[r] \notin Settled
  BY SettledPoints
<1>2. pc[r] \notin Settled => execution[r] = "NONE" /\ position[r] = "NONE"
  BY DEF CommitsAtEnd
<1>3. RowHeld /\ BufferTrue(r)
  BY DEF BuffersTrue
<1> USE DEF Goto, tables, venue, InFlight, HoldsCap, HoldsProposal, HoldsRow
<1>4. CASE Begin(r) \/ AcquireCap(r) \/ AcquireProposal(r)
  <2>1. PICK x \in {"cap_lock", "proposal_lock", "replay"} : pc' = [pc EXCEPT ![r] = x]
    BY <1>4 DEF Begin, AcquireCap, AcquireProposal
  <2>2. UNCHANGED <<execution, position, tx, rowLock, sent, stopPlaced>> /\ pc[r] \notin Settled
    BY <1>1, <1>4 DEF Begin, AcquireCap, AcquireProposal
  <2>3. pc'[r] = x /\ \A q \in Request \ {r} : pc'[q] = pc[q]
    BY <2>1 DEF PipelineTypeOK
  <2>4. ~ HasRow(r)' /\ ~ InIndex(r)' /\ ~ Ordering(r)' /\ BufferTrue(r)'
    BY <1>3, <1>4, <2>2, <2>3
       DEF HasRow, InIndex, Ordering, BufferTrue, OnTheWay, Unflushed, Inserted, Begin, AcquireCap,
           AcquireProposal
  <2> QED
    BY <2>2, <2>3, <2>4, MoveOn
<1>5. CASE ReplayCheck(r) /\ ~ SucceededFor(ProposalOf[r])
  <2>1. pc'[r] = "row_lock" /\ \A q \in Request \ {r} : pc'[q] = pc[q]
    BY <1>5 DEF ReplayCheck, PipelineTypeOK
  <2>2. UNCHANGED <<execution, position, tx, rowLock, sent, stopPlaced>> /\ pc[r] \notin Settled
    BY <1>1, <1>5 DEF ReplayCheck
  <2>3. ~ HasRow(r)' /\ ~ InIndex(r)' /\ ~ Ordering(r)' /\ BufferTrue(r)'
    BY <1>3, <1>5, <2>1, <2>2
       DEF HasRow, InIndex, Ordering, BufferTrue, OnTheWay, Unflushed, Inserted, ReplayCheck
  <2> QED
    BY <2>1, <2>2, <2>3, MoveOn
<1>6. CASE AcquireRow(r)
  <2>1. pc'[r] = "checks" /\ \A q \in Request \ {r} : pc'[q] = pc[q]
    BY <1>6 DEF AcquireRow, PipelineTypeOK
  <2>2. UNCHANGED <<execution, position, tx, sent, stopPlaced>> /\ pc[r] \notin Settled
    BY <1>1, <1>6 DEF AcquireRow
  <2>3. /\ rowLock'[ProposalOf[r]] = r
        /\ \A p \in Proposal : rowLock[p] \notin {None, r} => rowLock'[p] = rowLock[p]
    BY <1>0, <1>6 DEF AcquireRow, PipelineTypeOK
  <2>4. ~ InIndex(r)' /\ ~ Ordering(r)' /\ BufferTrue(r)'
    BY <1>3, <1>6, <2>1, <2>2
       DEF InIndex, Ordering, BufferTrue, OnTheWay, Unflushed, Inserted, AcquireRow
  <2> QED
    BY <2>1, <2>2, <2>3, <2>4, MoveOn
<1>7. CASE PreCheck(r)
  <2>1. pc'[r] = "entry" /\ \A q \in Request \ {r} : pc'[q] = pc[q]
    BY <1>7 DEF PreCheck, PipelineTypeOK
  <2>2. /\ UNCHANGED <<execution, position, tx, rowLock, sent, stopPlaced>>
        /\ pc[r] \notin Settled /\ rowLock[ProposalOf[r]] = r
    BY <1>1, <1>7 DEF PreCheck, RowHeld, HasRow
  <2>3. ~ InIndex(r)' /\ ~ Ordering(r)' /\ BufferTrue(r)'
    BY <1>3, <1>7, <2>1, <2>2
       DEF InIndex, Ordering, BufferTrue, OnTheWay, Unflushed, Inserted, PreCheck
  <2> QED
    BY <2>1, <2>2, <2>3, MoveOn
<1>8. CASE EntryFilled(r)
  <2>1. /\ pc'[r] = "stop" /\ sent'[r] = TRUE
        /\ tx'[r] = [tx[r] EXCEPT !.execution = "ENTRY_FILLED", !.position = "OPEN",
                                  !.burn = Burns(r)]
        /\ \A q \in Request \ {r} : pc'[q] = pc[q] /\ tx'[q] = tx[q] /\ sent'[q] = sent[q]
    BY <1>8 DEF EntryFilled, PipelineTypeOK
  <2>2. /\ UNCHANGED <<execution, position, rowLock, stopPlaced>>
        /\ pc[r] \notin Settled /\ rowLock[ProposalOf[r]] = r
    BY <1>1, <1>8 DEF EntryFilled, RowHeld, HasRow
  <2>3. tx'[r].execution = "ENTRY_FILLED"
    BY <1>0, <2>1 DEF Tx
  <2>4. ~ InIndex(r)' /\ ~ Ordering(r)' /\ BufferTrue(r)'
    BY <2>1, <2>2, <2>3 DEF InIndex, Ordering, BufferTrue, OnTheWay, Unflushed, Inserted
  <2> QED
    BY <2>1, <2>2, <2>4, MoveOn
<1>9. CASE StopAccepted(r) /\ ~ SuccessInFlight(r) /\ IndexAllows(r)
  <2>1. /\ pc'[r] = "targets" /\ stopPlaced'[r] = TRUE /\ sent'[r] /\ sent' = sent
        /\ tx'[r] = [tx[r] EXCEPT !.execution = "SUCCESS"]
        /\ \A q \in Request \ {r} :
             pc'[q] = pc[q] /\ tx'[q] = tx[q] /\ stopPlaced'[q] = stopPlaced[q]
    BY <1>3, <1>9 DEF StopAccepted, PipelineTypeOK, BufferTrue
  <2>2. /\ UNCHANGED <<execution, position, rowLock>>
        /\ pc[r] \notin Settled /\ rowLock[ProposalOf[r]] = r
    BY <1>1, <1>9 DEF StopAccepted, RowHeld, HasRow
  <2>3. tx'[r].execution = "SUCCESS"
    BY <1>0, <2>1 DEF Tx
  <2>4. ~ SucceededFor(ProposalOf[r])
    BY <1>9 DEF IndexAllows
  <2>5. BufferTrue(r)' /\ ~ Ordering(r)'
    BY <2>1, <2>3 DEF Ordering, BufferTrue, OnTheWay, Unflushed, Inserted
  <2> QED
    BY <1>9, <2>1, <2>2, <2>4, <2>5, MoveOn
<1>10. CASE PlaceTargets(r)
  <2>1. PICK flag \in {"OPEN", "NEEDS_ATTENTION"} :
          tx' = [tx EXCEPT ![r] = [@ EXCEPT !.position = flag, !.status = "EXECUTED",
                                            !.result = "OPEN"]]
    BY <1>10 DEF PlaceTargets
  <2>2. /\ pc'[r] = "commit"
        /\ tx'[r] = [tx[r] EXCEPT !.position = flag, !.status = "EXECUTED", !.result = "OPEN"]
        /\ \A q \in Request \ {r} : pc'[q] = pc[q] /\ tx'[q] = tx[q]
    BY <1>10, <2>1 DEF PlaceTargets, PipelineTypeOK
  <2>3. /\ UNCHANGED <<execution, position, rowLock, sent, stopPlaced>>
        /\ pc[r] \notin Settled /\ rowLock[ProposalOf[r]] = r
    BY <1>1, <1>10 DEF PlaceTargets, RowHeld, HasRow
  <2>4. tx'[r].execution = tx[r].execution /\ tx[r].execution = "SUCCESS"
    BY <1>0, <1>3, <1>10, <2>2 DEF Tx, PlaceTargets, BufferTrue
  <2>5. InIndex(r) /\ ~ SucceededFor(ProposalOf[r])
    BY <1>10, <2>4 DEF InIndex, PlaceTargets, IndexSound
  <2>6. BufferTrue(r)' /\ ~ Ordering(r)'
    BY <1>3, <2>2, <2>3, <2>4 DEF Ordering, BufferTrue, OnTheWay, Unflushed, Inserted
  <2> QED
    BY <2>2, <2>3, <2>5, <2>6, MoveOn
<1>11. ASSUME NEW outcome \in Settled, Rollback(r, outcome), pc[r] \notin Settled,
              \A q \in Request \ {r} : sent'[q] = sent[q] /\ stopPlaced'[q] = stopPlaced[q]
       PROVE  PipelineInv'
  BY <1>2, <1>11, TxEnds DEF Rollback
<1>12. CASE ReplayCheck(r) /\ SucceededFor(ProposalOf[r])
  BY <1>1, <1>11, <1>12 DEF ReplayCheck, Settled, Ended
<1>13. CASE Refuse(r)
  BY <1>1, <1>11, <1>13 DEF Refuse, Settled, Ended
<1>14. CASE EntryRaised(r)
  <2>1. \A q \in Request \ {r} : sent'[q] = sent[q] /\ stopPlaced'[q] = stopPlaced[q]
    BY <1>14 DEF EntryRaised, PipelineTypeOK
  <2> QED
    BY <1>1, <1>11, <1>14, <2>1 DEF EntryRaised, Settled, Ended
<1>15. CASE ServiceConflict(r)
  <2>1. \A q \in Request \ {r} : sent'[q] = sent[q] /\ stopPlaced'[q] = stopPlaced[q]
    BY <1>15 DEF ServiceConflict, PipelineTypeOK
  <2> QED
    BY <1>1, <1>11, <1>15, <2>1 DEF ServiceConflict, Settled
<1>16. CASE Crash(r)
  BY <1>1, <1>11, <1>16 DEF Crash, Settled, Ended
<1>17. ASSUME NEW outcome \in Settled, NEW w, CommitTx(r, w, outcome), UNCHANGED venue,
              pc[r] \notin Settled,
              w.execution = "SUCCESS" => tx[r].execution = "SUCCESS"
                                           /\ pc[r] \in {"targets", "commit"},
              w.position = "OPEN" => sent[r] /\ stopPlaced[r]
       PROVE  PipelineInv'
  <2>1. /\ execution'[r] = w.execution /\ position'[r] = w.position
        /\ \A q \in Request \ {r} : execution'[q] = execution[q] /\ position'[q] = position[q]
    BY <1>17 DEF CommitTx, PipelineTypeOK
  <2> QED
    BY <1>17, <2>1, TxEnds DEF CommitTx
<1>18. CASE StopRaised(r)
  <2> DEFINE w == [tx[r] EXCEPT !.status = "NEEDS_ATTENTION", !.position = "NEEDS_ATTENTION",
                                !.execution = "ENTRY_FILLED_SL_FAILED"]
  <2>1. w.position = "NEEDS_ATTENTION" /\ w.execution = "ENTRY_FILLED_SL_FAILED"
    BY <1>0 DEF Tx
  <2>2. CommitTx(r, w, "unprotected") /\ UNCHANGED venue /\ pc[r] \notin Settled
    BY <1>1, <1>18 DEF StopRaised
  <2> HIDE DEF w
  <2> QED
    BY <1>17, <2>1, <2>2 DEF Settled, Ended
<1>19. CASE Commit(r)
  <2>1. pc[r] = "commit" /\ tx[r].execution = "SUCCESS" /\ sent[r] /\ stopPlaced[r]
    BY <1>3, <1>19 DEF Commit, BufferTrue
  <2>2. CommitTx(r, tx[r], "executed") /\ UNCHANGED venue /\ pc[r] \notin Settled
    BY <1>1, <1>19 DEF Commit
  <2> QED
    BY <1>17, <2>1, <2>2 DEF Settled, Ended
<1>20. StopAccepted(r) => pc'[r] = "targets"
  BY DEF StopAccepted, PipelineTypeOK
<1>21. CASE StopWaits(r)
  <2>1. /\ pc[r] = "stop" /\ UNCHANGED <<execution, position, pc, tx, rowLock, sent>>
        /\ \A q \in Request \ {r} : stopPlaced'[q] = stopPlaced[q]
    BY <1>21 DEF StopWaits, calls, PipelineTypeOK
  <2>2. tx[r].execution # "SUCCESS" /\ rowLock[ProposalOf[r]] = r /\ pc[r] \notin Settled
    BY <1>1, <1>3, <2>1 DEF BufferTrue, RowHeld, HasRow, Inserted
  <2>3. ~ InIndex(r)' /\ ~ Ordering(r)' /\ BufferTrue(r)'
    BY <1>3, <2>1, <2>2 DEF InIndex, Ordering, BufferTrue, OnTheWay, Unflushed, Inserted
  <2> QED
    BY <2>1, <2>2, <2>3, MoveOn
<1> QED
  BY <1>4, <1>5, <1>6, <1>7, <1>8, <1>9, <1>10, <1>12, <1>13, <1>14, <1>15, <1>16, <1>18, <1>19,
     <1>20, <1>21 DEF ServiceCall, Execute

\* The deliveries.
LEMMA DeliverStep ==
  ASSUME PipelineInv, PipelineTypeOK', NEW d \in Request, d \in Delivery,
         Deliver(d) \/ CrashDelivery(d), UNCHANGED path
  PROVE  PipelineInv'
<1> USE DEF PipelineInv
<1>0. /\ None \notin Request /\ \A q \in Request : ProposalOf[q] \in Proposal
      /\ tx[d] \in Tx
  BY ConstantsAssumption DEF ConstantsAssumption, PipelineTypeOK
<1>1. pc[d] \in {"idle"} \cup OnTheWay => pc[d] \notin Settled
  BY SettledPoints
<1>2. pc[d] \notin Settled => execution[d] = "NONE" /\ position[d] = "NONE"
  BY DEF CommitsAtEnd
<1>3. RowHeld /\ BufferTrue(d)
  BY DEF BuffersTrue
<1>4. path[d] \in {"auto", "resume", "route"}
  BY DEF Delivery, Call, PipelineTypeOK, Path
<1> USE DEF Goto, tables, venue, OnTheWay, Unflushed, Inserted
\* A step between two points before the order, the row lock unchanged.
<1>5. ASSUME pc[d] \in {"idle"} \cup OnTheWay, NEW x \in Unflushed, pc' = [pc EXCEPT ![d] = x],
             UNCHANGED <<execution, position, rowLock, sent, stopPlaced>>,
             \A q \in Request \ {d} : tx'[q] = tx[q],
             tx'[d].execution = tx[d].execution, tx'[d].position = tx[d].position,
             x # "protect", pc[d] = "idle" => x \in {"load", "resume", "select"},
             pc[d] = "idle" => path[d] # "auto" \/ x = "load",
             pc[d] = "load" => x = "compile",
             pc[d] = "compile" => path[d] # "auto",
             pc[d] \notin {"record"} \cup Inserted,
             path[d] = "auto" /\ x = "order" => ~ SucceededFor(ProposalOf[d])
      PROVE  PipelineInv'
  <2>1. pc'[d] = x /\ \A q \in Request \ {d} : pc'[q] = pc[q]
    BY <1>5 DEF PipelineTypeOK
  <2>2. tx[d].execution # "SUCCESS" /\ pc[d] \notin Settled
    BY <1>1, <1>3, <1>5 DEF BufferTrue
  <2>3. BufferTrue(d)'
    BY <1>3, <1>5, <2>1, <2>2 DEF BufferTrue
  <2>4. HasRow(d)' => HasRow(d)
    BY <1>5, <2>1 DEF HasRow, HoldsRow
  <2>5. HasRow(d)' => rowLock'[ProposalOf[d]] = d
    BY <1>3, <1>5, <2>4 DEF RowHeld
  <2>6. ~ InIndex(d)' /\ (Ordering(d)' => RoutesOnly(ProposalOf[d]))
    BY <1>5, <2>1, <2>2, NoSuccessRoutesOnly DEF InIndex, Ordering
  <2> QED
    BY <1>5, <2>1, <2>2, <2>3, <2>5, <2>6, MoveOn
<1>6. CASE StartDelivery(d)
  <2>1. First(d) \in {"load", "resume", "select"} /\ (path[d] = "auto" => First(d) = "load")
    BY <1>4 DEF First
  <2> QED
    BY <1>5, <1>6, <2>1 DEF StartDelivery
<1>7. CASE Compile(d)
  <2>1. /\ pc'[d] = "gate" /\ tx' = tx
        /\ \A q \in Request \ {d} : pc'[q] = pc[q]
    BY <1>7 DEF Compile, PipelineTypeOK
  <2>2. /\ UNCHANGED <<execution, position, sent, stopPlaced>> /\ pc[d] \notin Settled
        /\ rowLock'[ProposalOf[d]] = d
        /\ \A p \in Proposal : rowLock[p] \notin {None, d} => rowLock'[p] = rowLock[p]
    BY <1>0, <1>1, <1>7 DEF Compile, PipelineTypeOK
  <2>3. ~ InIndex(d)' /\ ~ Ordering(d)' /\ BufferTrue(d)'
    BY <1>3, <1>7, <2>1 DEF InIndex, Ordering, BufferTrue, Compile
  <2> QED
    BY <2>1, <2>2, <2>3, MoveOn
<1>8. CASE GateExecutes(d)
  <2>1. tx'[d] = [tx[d] EXCEPT !.status = "APPROVED"] /\ \A q \in Request \ {d} : tx'[q] = tx[q]
    BY <1>8 DEF GateExecutes, PipelineTypeOK
  <2>2. tx'[d].execution = tx[d].execution /\ tx'[d].position = tx[d].position
    BY <1>0, <2>1 DEF Tx
  <2> QED
    BY <1>5, <1>8, <2>1, <2>2 DEF GateExecutes
<1>9. CASE PromoteRead(d)
  <2>1. PICK x \in {"promote", "select"} : pc' = [pc EXCEPT ![d] = x]
    BY <1>9 DEF PromoteRead
  <2> QED
    BY <1>5, <1>9, <2>1 DEF PromoteRead
<1>10. CASE PromoteWrite(d)
  BY <1>5, <1>10 DEF PromoteWrite
<1>11. CASE Select(d) /\ status[ProposalOf[d]] = "APPROVED"
  BY <1>5, <1>11 DEF Select
<1>12. CASE PreflightPass(d)
  BY <1>5, <1>12 DEF PreflightPass, PreflightPasses
<1>13. CASE PreflightFail(d) /\ path[d] # "route"
  <2>1. /\ pc'[d] = "rest" /\ tx'[d] = [tx[d] EXCEPT !.status = "REJECTED"]
        /\ \A q \in Request \ {d} : pc'[q] = pc[q] /\ tx'[q] = tx[q]
    BY <1>13 DEF PreflightFail, PipelineTypeOK
  <2>2. tx'[d].execution = tx[d].execution /\ tx'[d].position = tx[d].position
    BY <1>0, <2>1 DEF Tx
  <2>3. /\ UNCHANGED <<execution, position, sent, stopPlaced>> /\ pc[d] = "preflight"
        /\ rowLock'[ProposalOf[d]] = d
        /\ \A p \in Proposal : rowLock[p] \notin {None, d} => rowLock'[p] = rowLock[p]
    BY <1>0, <1>13 DEF PreflightFail, PipelineTypeOK
  <2>4. ~ InIndex(d)' /\ ~ Ordering(d)' /\ BufferTrue(d)'
    BY <1>3, <2>1, <2>2, <2>3 DEF InIndex, Ordering, BufferTrue
  <2> QED
    BY <1>1, <2>1, <2>3, <2>4, MoveOn
<1>14. CASE OrderFilled(d)
  <2>1. /\ pc[d] = "order" /\ pc'[d] = "protect" /\ sent'[d] = TRUE
        /\ UNCHANGED <<execution, position, tx, rowLock, stopPlaced>>
        /\ \A q \in Request \ {d} : pc'[q] = pc[q] /\ sent'[q] = sent[q]
    BY <1>14 DEF OrderFilled, PipelineTypeOK
  <2>2. HasRow(d)' => rowLock'[ProposalOf[d]] = d
    BY <1>3, <2>1 DEF HasRow, HoldsRow, RowHeld
  <2>3. ~ InIndex(d)' /\ ~ Ordering(d)' /\ BufferTrue(d)'
    BY <1>3, <2>1 DEF InIndex, Ordering, BufferTrue
  <2> QED
    BY <1>1, <2>1, <2>2, <2>3, MoveOn
<1>15. CASE OrderFails(d)
  <2>1. /\ pc[d] = "order" /\ pc'[d] = "record"
        /\ tx'[d] = [tx[d] EXCEPT !.execution = "FAILED"]
        /\ UNCHANGED <<execution, position, rowLock, stopPlaced>>
        /\ \A q \in Request \ {d} : pc'[q] = pc[q] /\ tx'[q] = tx[q] /\ sent'[q] = sent[q]
    BY <1>15 DEF OrderFails, PipelineTypeOK
  <2>2. tx'[d].execution = "FAILED" /\ tx'[d].position = tx[d].position
    BY <1>0, <2>1 DEF Tx
  <2>3. HasRow(d)' => rowLock'[ProposalOf[d]] = d
    BY <1>3, <2>1 DEF HasRow, HoldsRow, RowHeld
  <2>4. tx[d].position # "OPEN"
    BY <1>3, <2>1 DEF BufferTrue
  <2>5. ~ InIndex(d)' /\ ~ Ordering(d)' /\ BufferTrue(d)'
    BY <2>1, <2>2, <2>4 DEF InIndex, Ordering, BufferTrue
  <2> QED
    BY <1>1, <2>1, <2>3, <2>5, MoveOn
<1>16. CASE Protect(d)
  <2>1. PICK accepted \in BOOLEAN :
          /\ stopPlaced' = [stopPlaced EXCEPT ![d] = accepted]
          /\ tx' = [tx EXCEPT ![d].execution =
                      IF accepted THEN "SUCCESS" ELSE "ENTRY_FILLED_SL_FAILED"]
    BY <1>16 DEF Protect
  <2>2. /\ pc[d] = "protect" /\ pc'[d] = "record" /\ stopPlaced'[d] = accepted
        /\ UNCHANGED <<execution, position, rowLock, sent>>
        /\ \A q \in Request \ {d} :
             pc'[q] = pc[q] /\ tx'[q] = tx[q] /\ stopPlaced'[q] = stopPlaced[q]
    BY <1>16, <2>1 DEF Protect, PipelineTypeOK
  <2>3. tx'[d].execution = "SUCCESS" => accepted
    BY <1>0, <2>1 DEF Tx, PipelineTypeOK
  <2>4. tx'[d].position = tx[d].position
    BY <1>0, <2>1 DEF Tx, PipelineTypeOK
  <2>5. HasRow(d)' => rowLock'[ProposalOf[d]] = d
    BY <1>3, <2>2 DEF HasRow, HoldsRow, RowHeld
  <2>6. tx[d].position # "OPEN" /\ sent'[d]
    BY <1>3, <2>2 DEF BufferTrue
  <2>7. ~ InIndex(d)' /\ ~ Ordering(d)' /\ BufferTrue(d)'
    BY <2>2, <2>3, <2>4, <2>6 DEF InIndex, Ordering, BufferTrue
  <2> QED
    BY <1>1, <2>2, <2>5, <2>7, MoveOn
<1>17. CASE Settle(d)
  <2>1. /\ pc[d] = "settle" /\ pc'[d] = "rest" /\ tx'[d] = Recorded(d)
        /\ UNCHANGED <<execution, position, sent, stopPlaced>>
        /\ \A q \in Request \ {d} : pc'[q] = pc[q] /\ tx'[q] = tx[q]
    BY <1>17 DEF Settle, PipelineTypeOK
  <2>2. /\ path[d] # "route" => rowLock'[ProposalOf[d]] = d
        /\ path[d] = "route" => rowLock' = rowLock
        /\ \A p \in Proposal : rowLock[p] \notin {None, d} => rowLock'[p] = rowLock[p]
    BY <1>0, <1>17 DEF Settle, PipelineTypeOK
  <2>3. HasRow(d)' => rowLock'[ProposalOf[d]] = d
    BY <2>1, <2>2 DEF HasRow, HoldsRow
  <2>4. /\ tx'[d].execution = tx[d].execution
        /\ tx'[d].position = "OPEN" => tx[d].execution = "SUCCESS"
    BY <2>1 DEF Recorded
  <2>5. tx[d].execution = "SUCCESS" => sent[d] /\ stopPlaced[d] /\ InIndex(d)
    BY <1>3, <2>1 DEF BufferTrue, InIndex
  <2>6. BufferTrue(d)' /\ ~ Ordering(d)'
    BY <2>1, <2>4, <2>5 DEF BufferTrue, Ordering
  <2>7. InIndex(d)' => ~ SucceededFor(ProposalOf[d]) /\ InIndex(d)
    BY <2>4, <2>5 DEF InIndex, IndexSound
  <2> QED
    BY <1>1, <2>1, <2>2, <2>3, <2>6, <2>7, MoveOn
\* The steps from the INSERT to the last UPDATE, the row lock unchanged.
<1>24. ASSUME pc[d] \in {"record", "refer", "burn"}, NEW x \in {"refer", "burn", "settle"},
              pc' = [pc EXCEPT ![d] = x],
              UNCHANGED <<execution, position, rowLock, sent, stopPlaced>>,
              \A q \in Request \ {d} : tx'[q] = tx[q],
              tx'[d].execution = tx[d].execution, tx'[d].position = tx[d].position,
              pc[d] = "record" /\ tx[d].execution = "SUCCESS" =>
                ~ SucceededFor(ProposalOf[d]) /\ ~ SuccessInFlight(d)
       PROVE  PipelineInv'
  <2>1. pc'[d] = x /\ \A q \in Request \ {d} : pc'[q] = pc[q]
    BY <1>24 DEF PipelineTypeOK
  <2>2. BufferTrue(d)' /\ ~ Ordering(d)'
    BY <1>3, <1>24, <2>1 DEF BufferTrue, Ordering
  <2>3. HasRow(d)' => rowLock'[ProposalOf[d]] = d
    BY <1>3, <1>24, <2>1 DEF HasRow, HoldsRow, RowHeld
  <2>4. InIndex(d)' => ~ SucceededFor(ProposalOf[d]) /\ (InIndex(d) \/ ~ SuccessInFlight(d))
    BY <1>24 DEF InIndex, IndexSound
  <2> QED
    BY <1>1, <1>24, <2>1, <2>2, <2>3, <2>4, MoveOn
<1>25. CASE Insert(d)
  BY <1>24, <1>25 DEF Insert, IndexAllows
<1>26. CASE Refer(d)
  <2>1. PICK x \in {"burn", "settle"} : pc' = [pc EXCEPT ![d] = x]
    BY <1>26 DEF Refer
  <2> QED
    BY <1>24, <1>26, <2>1 DEF Refer
<1>27. CASE BurnAck(d)
  <2>1. tx'[d] = [tx[d] EXCEPT !.burn = Burns(d)] /\ \A q \in Request \ {d} : tx'[q] = tx[q]
    BY <1>27 DEF BurnAck, PipelineTypeOK
  <2>2. tx'[d].execution = tx[d].execution /\ tx'[d].position = tx[d].position
    BY <1>0, <2>1 DEF Tx
  <2> QED
    BY <1>24, <1>27, <2>1, <2>2 DEF BurnAck
<1>28. CASE LoadProposal(d)
  <2>0. PICK s \in ProposalStatus : tx' = [tx EXCEPT ![d].status = s]
    BY <1>28, CompiledStatus
  <2>1. tx'[d] = [tx[d] EXCEPT !.status = s] /\ \A q \in Request \ {d} : tx'[q] = tx[q]
    BY <2>0 DEF PipelineTypeOK
  <2>2. tx'[d].execution = tx[d].execution /\ tx'[d].position = tx[d].position
    BY <1>0, <2>1 DEF Tx
  <2> QED
    BY <1>5, <1>28, <2>1, <2>2 DEF LoadProposal
<1>18. ASSUME CommitDelivery(d), pc[d] \in {"gate", "select", "rest"}
       PROVE  PipelineInv'
  <2>1. /\ execution'[d] = tx[d].execution /\ position'[d] = tx[d].position
        /\ UNCHANGED <<sent, stopPlaced>> /\ EndTx(d, "finished")
        /\ \A q \in Request \ {d} : execution'[q] = execution[q] /\ position'[q] = position[q]
    BY <1>18 DEF CommitDelivery, PipelineTypeOK
  <2>2. execution'[d] = "SUCCESS" => tx[d].execution = "SUCCESS" /\ pc[d] = "rest"
    BY <1>3, <1>18, <2>1 DEF BufferTrue
  <2>3. position'[d] = "OPEN" => sent'[d] /\ stopPlaced'[d]
    BY <1>3, <1>18, <2>1 DEF BufferTrue
  <2>4. "finished" \in Settled /\ pc[d] \notin Settled
    BY <1>1, <1>18 DEF Settled
  <2> QED
    BY <2>1, <2>2, <2>3, <2>4, TxEnds
<1>19. ASSUME NEW outcome \in Settled, Rollback(d, outcome), UNCHANGED venue,
              pc[d] \notin Settled
       PROVE  PipelineInv'
  BY <1>2, <1>19, TxEnds DEF Rollback
<1>20. CASE PreflightFail(d) /\ path[d] = "route"
  BY <1>1, <1>19, <1>20 DEF PreflightFail, Settled, Ended
<1>21. CASE InsertConflict(d)
  BY <1>1, <1>19, <1>21 DEF InsertConflict, Settled
<1>29. CASE DeadlockAbort(d)
  <2>1. PICK q \in Request : Awaits(d, q)
    BY <1>29 DEF DeadlockAbort, InRing
  <2>2. pc[d] \in {"record", "stop", "refer", "burn", "settle"}
    BY <2>1 DEF Awaits
  <2>3. pc[d] \notin Settled
    BY <2>2, SettledPoints DEF InFlight, HoldsCap, HoldsProposal, HoldsRow
  <2> QED
    BY <1>19, <1>29, <2>3 DEF DeadlockAbort, Settled
<1>22. CASE CrashDelivery(d)
  BY <1>1, <1>19, <1>22 DEF CrashDelivery, Settled, Ended
<1>23. CASE GateWaits(d) \/ FinishRun(d) \/ (Select(d) /\ status[ProposalOf[d]] # "APPROVED")
  BY <1>18, <1>23 DEF GateWaits, FinishRun, Select
<1> QED
  BY <1>6, <1>7, <1>8, <1>9, <1>10, <1>11, <1>12, <1>13, <1>14, <1>15, <1>16, <1>17, <1>20,
     <1>21, <1>22, <1>23, <1>25, <1>26, <1>27, <1>28, <1>29 DEF Deliver

LEMMA PipelineStep == PipelineInv /\ [PipelineNext]_pipelineVars => PipelineInv'
<1> SUFFICES ASSUME PipelineInv, [PipelineNext]_pipelineVars PROVE PipelineInv'
  OBVIOUS
<1>1. PipelineTypeOK' /\ UNCHANGED path
  BY PipelineTypeStep, PathUnchanged DEF PipelineInv
<1>2. CASE UNCHANGED pipelineVars
  BY <1>2 DEF pipelineVars, vars, tables, calls, venue, PipelineInv, PipelineTypeOK, RowHeld,
     HasRow, CommitsAtEnd, BuffersTrue, BufferTrue, IndexSound, InIndex, OrdersFirst, Ordering,
     RoutesOnly, SucceededFor, OneSuccessPerProposal, OpenIsProtected, OpenPositions
<1>3. CASE PipelineNext
  BY <1>1, <1>3, ServiceStep, DeliverStep, OthersStep DEF PipelineNext, Call, Delivery
<1> QED
  BY <1>2, <1>3

-----------------------------------------------------------------------------
(* Exposure of deliveries. *)

\* The execution a delivery is going to commit for an order that reached the exchange.
Carries(d) ==
  /\ \/ tx[d].execution = "SUCCESS"
     \/ tx[d].execution \in {"ENTRY_FILLED_SL_FAILED", "FAILED"} /\ ~ stopPlaced[d]
  /\ pc[d] = "rest" /\ tx[d].execution = "SUCCESS" => tx[d].position = "OPEN"

AfterOrder == {"record"} \cup Inserted

\* Exposure appears with the order, a stop after it, and from then on the delivery carries
\* the rows that name the exposure to its commit.
Exposed(d) ==
  /\ live[d] # "NONE" => pc[d] \in {"protect"} \cup AfterOrder \cup Settled
  /\ pc[d] \in {"idle"} \cup (Unflushed \ {"record"}) => ~ stopPlaced[d]
  /\ live[d] # "NONE" /\ pc[d] \in AfterOrder => Carries(d)

ExposureCarried == \A d \in Delivery : Exposed(d)

ExposureNamed(d) ==
  live[d] = "LIVE" /\ pc[d] = "finished"
    => \/ Tracked(d)
       \/ execution[d] \in {"ENTRY_FILLED_SL_FAILED", "FAILED"} /\ ~ stopPlaced[d]

\* A step of somebody else leaves a delivery's buffer and execution row alone; its
\* position is only closed when its market is flat, or flagged.
LEMMA DeliveryLeftAlone ==
  ASSUME PipelineTypeOK, PipelineNext, NEW d \in Delivery, ~ (Deliver(d) \/ CrashDelivery(d))
  PROVE  /\ pc'[d] = pc[d] /\ tx'[d] = tx[d] /\ execution'[d] = execution[d]
         /\ stopPlaced'[d] = stopPlaced[d]
         /\ live'[d] = "LIVE" => live[d] = "LIVE" /\ (Tracked(d) => Tracked(d)')
         /\ live'[d] # "NONE" => live[d] # "NONE"
<1>0. d \in Request
  BY DEF Delivery
<1>1. ASSUME NEW r \in Call, ServiceCall(r) \/ Crash(r)
      PROVE  /\ pc'[d] = pc[d] /\ tx'[d] = tx[d] /\ execution'[d] = execution[d]
             /\ stopPlaced'[d] = stopPlaced[d]
             /\ live'[d] = live[d] /\ position'[d] = position[d]
  <2>1. r # d /\ r \in Request
    BY DEF Delivery, Call
  <2> QED
    BY <1>0, <1>1, <2>1
       DEF ServiceCall, StopWaits, ServiceConflict, calls, Execute, Crash, Begin, AcquireCap,
           AcquireProposal, ReplayCheck, AcquireRow, PreCheck, Refuse, EntryFilled, EntryRaised,
           StopAccepted, StopRaised, PlaceTargets, Commit, CommitTx, Rollback, EndTx, Goto,
           tables, venue, PipelineTypeOK
<1>2. ASSUME NEW r \in Delivery, r # d, Deliver(r) \/ CrashDelivery(r)
      PROVE  /\ pc'[d] = pc[d] /\ tx'[d] = tx[d] /\ execution'[d] = execution[d]
             /\ stopPlaced'[d] = stopPlaced[d]
             /\ live'[d] = live[d] /\ position'[d] = position[d]
  <2>1. r \in Request
    BY DEF Delivery
  <2> QED
    BY <1>0, <1>2, <2>1
       DEF Deliver, CrashDelivery, StartDelivery, Compile, GateExecutes, GateWaits,
           PromoteRead, PromoteWrite, Select, PreflightPass, PreflightFail, OrderFilled, OrderFails,
           Protect, LoadProposal, Insert, InsertConflict, Refer, BurnAck, Settle, DeadlockAbort,
           FinishRun, CommitDelivery, Rollback, EndTx, Goto,
           tables, venue, PipelineTypeOK
<1>3. ASSUME Others
      PROVE  /\ pc'[d] = pc[d] /\ tx'[d] = tx[d] /\ execution'[d] = execution[d]
             /\ stopPlaced'[d] = stopPlaced[d]
             /\ live'[d] = "LIVE" => live[d] = "LIVE" /\ (Tracked(d) => Tracked(d)')
             /\ live'[d] # "NONE" => live[d] # "NONE"
  <2>1. pc' = pc /\ tx' = tx /\ execution' = execution /\ stopPlaced' = stopPlaced
    BY <1>3 DEF Others, SaveProposal, TimePasses, ReviewRead, ReviewWrite, ExpireOldProposals,
       RecordAck, AckLapses, ExchangeCloses, FinalizeClose, FlagAttention, calls, tables,
       venue
  <2>2. ASSUME NEW r \in Request, ExchangeCloses(r)
        PROVE  /\ live'[d] = "LIVE" => live[d] = "LIVE" /\ (Tracked(d) => Tracked(d)')
               /\ live'[d] # "NONE" => live[d] # "NONE"
    BY <1>0, <2>2 DEF ExchangeCloses, tables, Tracked, PipelineTypeOK
  <2>3. ASSUME NEW r \in Request, FinalizeClose(r)
        PROVE  /\ live'[d] = "LIVE" => live[d] = "LIVE" /\ (Tracked(d) => Tracked(d)')
               /\ live'[d] # "NONE" => live[d] # "NONE"
    BY <1>0, <2>3 DEF FinalizeClose, venue, Tracked, PipelineTypeOK
  <2>4. ASSUME NEW r \in Request, FlagAttention(r)
        PROVE  /\ live'[d] = "LIVE" => live[d] = "LIVE" /\ (Tracked(d) => Tracked(d)')
               /\ live'[d] # "NONE" => live[d] # "NONE"
    BY <1>0, <2>4 DEF FlagAttention, venue, Tracked, PipelineTypeOK
  <2>5. CASE ~ \E r \in Request : ExchangeCloses(r) \/ FinalizeClose(r) \/ FlagAttention(r)
    <3>1. ASSUME NEW p \in Proposal, SaveProposal(p) \/ TimePasses(p)
          PROVE  live' = live /\ position' = position
      BY <3>1 DEF SaveProposal, TimePasses, venue
    <3>2. ASSUME NEW v \in Review, ReviewRead(v) \/ ReviewWrite(v)
          PROVE  live' = live /\ position' = position
      BY <3>2 DEF ReviewRead, ReviewWrite, tables, venue
    <3>3. ASSUME ExpireOldProposals \/ RecordAck \/ AckLapses
          PROVE  live' = live /\ position' = position
      BY <3>3 DEF ExpireOldProposals, RecordAck, AckLapses, venue
    <3>4. live' = live /\ position' = position
      BY <1>3, <2>5, <3>1, <3>2, <3>3 DEF Others
    <3> QED
      BY <2>1, <3>4 DEF Tracked
  <2> QED
    BY <2>1, <2>2, <2>3, <2>4, <2>5
<1>4. CASE \E r \in Call : ServiceCall(r) \/ Crash(r)
  BY <1>1, <1>4 DEF Tracked
<1>5. CASE \E r \in Delivery : Deliver(r) \/ CrashDelivery(r)
  BY <1>2, <1>5 DEF Tracked
<1> QED
  BY <1>3, <1>4, <1>5 DEF PipelineNext

\* A delivery's own step.
LEMMA DeliveryCarries ==
  ASSUME PipelineTypeOK, ExposureCarried, UNCHANGED path,
         NEW d \in Delivery, Deliver(d) \/ CrashDelivery(d)
  PROVE  Exposed(d)' /\ ExposureNamed(d)'
<1>0. d \in Request /\ Exposed(d) /\ tx[d] \in Tx
  BY DEF Delivery, ExposureCarried, PipelineTypeOK
<1> USE DEF AfterOrder, Inserted, Unflushed, Settled, Ended
<1>1. ASSUME pc[d] \in {"idle", "load", "compile", "gate", "resume", "promote", "select",
                       "preflight"},
             pc'[d] \in {"load", "compile", "gate", "resume", "promote", "select", "preflight",
                        "order", "rest", "finished", "refused"},
             UNCHANGED <<live, stopPlaced>>
      PROVE  Exposed(d)' /\ ExposureNamed(d)'
  <2>1. live'[d] = "NONE" /\ ~ stopPlaced'[d]
    BY <1>0, <1>1 DEF Exposed
  <2> QED
    BY <1>1, <2>1 DEF Exposed, ExposureNamed
<1>2. CASE StartDelivery(d)
  <2>1. First(d) \in {"load", "resume", "select"}
    BY <1>0 DEF First, Delivery, Call, PipelineTypeOK, Path
  <2> QED
    BY <1>0, <1>1, <1>2, <2>1 DEF StartDelivery, Goto, venue, PipelineTypeOK
<1>3. CASE LoadProposal(d) \/ Compile(d) \/ GateExecutes(d) \/ PromoteWrite(d) \/ PreflightPass(d)
  BY <1>0, <1>1, <1>3 DEF LoadProposal, Compile, GateExecutes, PromoteWrite, PreflightPass, Goto,
     venue, PipelineTypeOK
<1>4. CASE GateWaits(d) \/ Select(d)
  BY <1>0, <1>1, <1>4 DEF GateWaits, Select, CommitDelivery, EndTx, venue, PipelineTypeOK
<1>5. CASE PromoteRead(d)
  BY <1>0, <1>1, <1>5 DEF PromoteRead, venue, PipelineTypeOK
<1>6. CASE PreflightFail(d)
  BY <1>0, <1>1, <1>6 DEF PreflightFail, Rollback, EndTx, venue, PipelineTypeOK
<1>7. CASE OrderFilled(d)
  <2>1. pc[d] = "order" /\ pc'[d] = "protect" /\ stopPlaced' = stopPlaced
    BY <1>0, <1>7 DEF OrderFilled, Goto, PipelineTypeOK
  <2>2. ~ stopPlaced[d]
    BY <1>0, <2>1 DEF Exposed
  <2> QED
    BY <2>1, <2>2 DEF Exposed, ExposureNamed
<1>8. CASE OrderFails(d)
  <2>1. /\ pc[d] = "order" /\ pc'[d] = "record" /\ stopPlaced' = stopPlaced
        /\ tx'[d] = [tx[d] EXCEPT !.execution = "FAILED"]
    BY <1>0, <1>8 DEF OrderFails, Goto, PipelineTypeOK
  <2>2. tx'[d].execution = "FAILED"
    BY <1>0, <2>1 DEF Tx
  <2>3. ~ stopPlaced[d]
    BY <1>0, <2>1 DEF Exposed
  <2> QED
    BY <2>1, <2>2, <2>3 DEF Exposed, ExposureNamed, Carries
<1>9. CASE Protect(d)
  <2>1. PICK accepted \in BOOLEAN :
          /\ stopPlaced' = [stopPlaced EXCEPT ![d] = accepted]
          /\ tx' = [tx EXCEPT ![d].execution =
                      IF accepted THEN "SUCCESS" ELSE "ENTRY_FILLED_SL_FAILED"]
    BY <1>9 DEF Protect
  <2>2. /\ pc'[d] = "record" /\ stopPlaced'[d] = accepted
        /\ tx'[d] = [tx[d] EXCEPT !.execution =
                       IF accepted THEN "SUCCESS" ELSE "ENTRY_FILLED_SL_FAILED"]
    BY <1>0, <1>9, <2>1 DEF Protect, Goto, PipelineTypeOK
  <2>3. tx'[d].execution = IF accepted THEN "SUCCESS" ELSE "ENTRY_FILLED_SL_FAILED"
    BY <1>0, <2>2 DEF Tx
  <2> QED
    BY <2>2, <2>3 DEF Exposed, ExposureNamed, Carries
\* From the INSERT to the last UPDATE nothing of the order changes.
<1>10. ASSUME pc[d] \in {"record", "refer", "burn", "settle"},
              pc'[d] \in {"refer", "burn", "settle", "rest"},
              tx'[d].execution = tx[d].execution,
              pc'[d] = "rest" /\ tx[d].execution = "SUCCESS" => tx'[d].position = "OPEN",
              UNCHANGED <<live, stopPlaced>>
       PROVE  Exposed(d)' /\ ExposureNamed(d)'
  BY <1>0, <1>10 DEF Exposed, ExposureNamed, Carries
<1>11. CASE Insert(d) \/ Refer(d)
  BY <1>0, <1>10, <1>11 DEF Insert, Refer, Goto, venue, PipelineTypeOK
<1>12. CASE BurnAck(d)
  <2>1. tx'[d] = [tx[d] EXCEPT !.burn = Burns(d)]
    BY <1>0, <1>12 DEF BurnAck, PipelineTypeOK
  <2>2. tx'[d].execution = tx[d].execution
    BY <1>0, <2>1 DEF Tx
  <2> QED
    BY <1>0, <1>10, <1>12, <2>2 DEF BurnAck, Goto, venue, PipelineTypeOK
<1>13. CASE Settle(d)
  <2>1. tx'[d] = Recorded(d)
    BY <1>0, <1>13 DEF Settle, PipelineTypeOK
  <2>2. /\ tx'[d].execution = tx[d].execution
        /\ tx[d].execution = "SUCCESS" => tx'[d].position = "OPEN"
    BY <2>1 DEF Recorded
  <2> QED
    BY <1>0, <1>10, <1>13, <2>2 DEF Settle, Goto, venue, PipelineTypeOK
<1>14. CASE FinishRun(d)
  <2>1. /\ pc[d] = "rest" /\ pc'[d] = "finished" /\ UNCHANGED <<live, stopPlaced>>
        /\ execution'[d] = tx[d].execution /\ position'[d] = tx[d].position
    BY <1>0, <1>14 DEF FinishRun, CommitDelivery, EndTx, venue, PipelineTypeOK
  <2>2. live[d] # "NONE" => Carries(d)
    BY <1>0, <2>1 DEF Exposed
  <2> QED
    BY <2>1, <2>2 DEF Exposed, ExposureNamed, Carries, Tracked
<1>15. CASE InsertConflict(d) \/ DeadlockAbort(d) \/ CrashDelivery(d)
  <2>1. pc'[d] \in {"conflict", "crashed"} /\ UNCHANGED <<live, stopPlaced>>
    BY <1>0, <1>15 DEF InsertConflict, DeadlockAbort, CrashDelivery, Rollback, EndTx, venue,
       PipelineTypeOK
  <2> QED
    BY <2>1 DEF Exposed, ExposureNamed
<1> QED
  BY <1>2, <1>3, <1>4, <1>5, <1>6, <1>7, <1>8, <1>9, <1>11, <1>12, <1>13, <1>14, <1>15
     DEF Deliver

LEMMA ExposureStep ==
  PipelineTypeOK /\ ExposureCarried /\ ExposureIsRecorded /\ [PipelineNext]_pipelineVars
    => ExposureCarried' /\ ExposureIsRecorded'
<1> SUFFICES ASSUME PipelineTypeOK, ExposureCarried, ExposureIsRecorded, [PipelineNext]_pipelineVars
             PROVE  ExposureCarried' /\ ExposureIsRecorded'
  OBVIOUS
<1>1. CASE UNCHANGED pipelineVars
  BY <1>1 DEF pipelineVars, vars, tables, calls, venue, ExposureCarried, ExposureIsRecorded,
     Exposed, Carries, Tracked, Delivery, Call
<1>2. CASE PipelineNext
  <2>1. Delivery' = Delivery /\ UNCHANGED path
    BY PathUnchanged, <1>2 DEF Delivery, Call
  <2>2. ASSUME NEW d \in Delivery PROVE Exposed(d)' /\ ExposureNamed(d)'
    <3>1. CASE Deliver(d) \/ CrashDelivery(d)
      BY <2>1, <3>1, DeliveryCarries
    <3>2. CASE ~ (Deliver(d) \/ CrashDelivery(d))
      <4>1. /\ pc'[d] = pc[d] /\ tx'[d] = tx[d] /\ execution'[d] = execution[d]
            /\ stopPlaced'[d] = stopPlaced[d]
            /\ live'[d] = "LIVE" => live[d] = "LIVE" /\ (Tracked(d) => Tracked(d)')
            /\ live'[d] # "NONE" => live[d] # "NONE"
        BY <1>2, <3>2, DeliveryLeftAlone
      <4>2. Exposed(d) /\ ExposureNamed(d)
        BY DEF ExposureCarried, ExposureIsRecorded, ExposureNamed
      <4>3. Exposed(d)'
        BY <4>1, <4>2 DEF Exposed, Carries
      <4>4. ExposureNamed(d)'
        BY <4>1, <4>2 DEF ExposureNamed
      <4> QED
        BY <4>3, <4>4
    <3> QED
      BY <3>1, <3>2
  <2> QED
    BY <2>1, <2>2 DEF ExposureCarried, ExposureIsRecorded, ExposureNamed
<1> QED
  BY <1>1, <1>2

-----------------------------------------------------------------------------
(* Refinement of PositionBook's ledger. *)

\* A transaction carries a position just when it is about to commit one: with the
\* SUCCESS execution of a delivery, or at the end of a call of the service.
Paired(r) ==
  /\ pc[r] \in {"idle"} \cup Unflushed \cup (Inserted \ {"rest"}) => tx[r].position = "NONE"
  /\ pc[r] = "rest" =>
       tx[r].position = IF tx[r].execution = "SUCCESS" THEN "OPEN" ELSE "NONE"
  /\ pc[r] = "commit" => tx[r].position \in {"OPEN", "NEEDS_ATTENTION"}

RowsPaired == \A r \in Request : Paired(r)

\* A step of r that leaves the committed rows alone.
Silent(r) == UNCHANGED <<execution, position>> /\ Paired(r)'

\* The COMMIT of r with execution e and position s: a completed trade has a position and
\* is the first of its proposal, any other has none or a flagged one.
Enters(r, e, s) ==
  /\ pc[r] \notin Settled
  /\ execution' = [execution EXCEPT ![r] = e]
  /\ position' = [position EXCEPT ![r] = s]
  /\ e = "SUCCESS" => s \in {"OPEN", "NEEDS_ATTENTION"} /\ ~ SucceededFor(ProposalOf[r])
  /\ e # "SUCCESS" => s \in {"NONE", "NEEDS_ATTENTION"}
  /\ Paired(r)'

LEMMA SettledIsPaired ==
  ASSUME NEW r \in Request, pc'[r] \in Settled
  PROVE  Paired(r)'
<1>1. pc'[r] \notin {"idle", "rest", "commit"} \cup Unflushed \cup Inserted
  BY SettledPoints DEF OnTheWay, Inserted, InFlight, HoldsCap, HoldsProposal, HoldsRow
<1> QED
  BY <1>1 DEF Paired

\* A step of one request leaves the control and the buffer of the others alone.
LEMMA RequestLeftAlone ==
  ASSUME PipelineTypeOK, NEW r \in Request, NEW q \in Request \ {r},
         ServiceCall(r) \/ Crash(r) \/ Deliver(r) \/ CrashDelivery(r)
  PROVE  pc'[q] = pc[q] /\ tx'[q] = tx[q]
<1>1. CASE ServiceCall(r) \/ Crash(r)
  BY <1>1
     DEF ServiceCall, StopWaits, ServiceConflict, calls, Execute, Crash, Begin, AcquireCap,
         AcquireProposal, ReplayCheck, AcquireRow, PreCheck, Refuse, EntryFilled, EntryRaised,
         StopAccepted, StopRaised, PlaceTargets, Commit, CommitTx, Rollback, EndTx, Goto,
         PipelineTypeOK
<1>2. CASE Deliver(r) \/ CrashDelivery(r)
  BY <1>2
     DEF Deliver, CrashDelivery, StartDelivery, Compile, GateExecutes, GateWaits,
         PromoteRead, PromoteWrite, Select, PreflightPass, PreflightFail, OrderFilled, OrderFails,
         Protect, LoadProposal, Insert, InsertConflict, Refer, BurnAck, Settle, DeadlockAbort,
         FinishRun, CommitDelivery, Rollback, EndTx, Goto,
         PipelineTypeOK
<1> QED
  BY <1>1, <1>2

\* A call of the service enters the book at its commit, or flagged when its stop failed.
LEMMA ServiceEnters ==
  ASSUME PipelineInv, NEW r \in Request, Paired(r), ServiceCall(r) \/ Crash(r)
  PROVE  Silent(r) \/ \E e \in ExecutionStatus, s \in PositionStatus : Enters(r, e, s)
<1> USE DEF PipelineInv
<1>0. tx[r] \in Tx
  BY DEF PipelineTypeOK
<1>1. CASE Begin(r) \/ AcquireCap(r) \/ AcquireProposal(r) \/ AcquireRow(r) \/ PreCheck(r)
           \/ EntryFilled(r) \/ StopAccepted(r)
  <2>1. UNCHANGED <<execution, position>>
    BY <1>1 DEF Begin, AcquireCap, AcquireProposal, AcquireRow, PreCheck, EntryFilled,
       StopAccepted, tables
  <2>2. pc'[r] \in {"cap_lock", "proposal_lock", "replay", "checks", "entry", "stop", "targets"}
    BY <1>1 DEF Begin, AcquireCap, AcquireProposal, AcquireRow, PreCheck, EntryFilled,
       StopAccepted, Goto, PipelineTypeOK
  <2> QED
    BY <2>1, <2>2 DEF Silent, Paired, Unflushed, Inserted
<1>2. ASSUME NEW outcome \in Settled, Rollback(r, outcome) PROVE Silent(r)
  <2>1. pc'[r] = outcome /\ UNCHANGED <<execution, position>>
    BY <1>2 DEF Rollback, EndTx, tables, PipelineTypeOK
  <2> QED
    BY <2>1, SettledIsPaired DEF Silent
<1>3. CASE ReplayCheck(r)
  <2>1. CASE SucceededFor(ProposalOf[r])
    BY <1>2, <1>3, <2>1 DEF ReplayCheck, Settled, Ended
  <2>2. CASE ~ SucceededFor(ProposalOf[r])
    <3>1. pc'[r] = "row_lock" /\ UNCHANGED <<execution, position>>
      BY <1>3, <2>2 DEF ReplayCheck, Goto, tables, PipelineTypeOK
    <3> QED
      BY <3>1 DEF Silent, Paired, Unflushed, Inserted
  <2> QED
    BY <2>1, <2>2
<1>4. CASE Refuse(r) \/ EntryRaised(r) \/ ServiceConflict(r) \/ Crash(r)
  BY <1>2, <1>4 DEF Refuse, EntryRaised, ServiceConflict, Crash, Settled, Ended
<1>5. CASE PlaceTargets(r)
  <2>1. PICK flag \in {"OPEN", "NEEDS_ATTENTION"} :
          tx' = [tx EXCEPT ![r] = [@ EXCEPT !.position = flag, !.status = "EXECUTED",
                                            !.result = "OPEN"]]
    BY <1>5 DEF PlaceTargets
  <2>2. /\ pc'[r] = "commit" /\ UNCHANGED <<execution, position>>
        /\ tx'[r] = [tx[r] EXCEPT !.position = flag, !.status = "EXECUTED", !.result = "OPEN"]
    BY <1>5, <2>1 DEF PlaceTargets, Goto, tables, PipelineTypeOK
  <2>3. tx'[r].position = flag
    BY <1>0, <2>2 DEF Tx
  <2> QED
    BY <2>2, <2>3 DEF Silent, Paired, Unflushed, Inserted
<1>6. ASSUME NEW outcome \in Settled, NEW w, CommitTx(r, w, outcome)
      PROVE  /\ execution' = [execution EXCEPT ![r] = w.execution]
             /\ position' = [position EXCEPT ![r] = w.position]
             /\ Paired(r)'
  <2>1. pc'[r] = outcome
    BY <1>6 DEF CommitTx, EndTx, PipelineTypeOK
  <2> QED
    BY <1>6, <2>1, SettledIsPaired DEF CommitTx
<1>7. CASE StopRaised(r)
  <2> DEFINE w == [tx[r] EXCEPT !.status = "NEEDS_ATTENTION", !.position = "NEEDS_ATTENTION",
                                !.execution = "ENTRY_FILLED_SL_FAILED"]
  <2>1. w.position = "NEEDS_ATTENTION" /\ w.execution = "ENTRY_FILLED_SL_FAILED"
    BY <1>0 DEF Tx
  <2>2. pc[r] = "stop" /\ CommitTx(r, w, "unprotected")
    BY <1>7 DEF StopRaised
  <2>3. pc[r] \notin Settled
    BY <2>2, SettledPoints DEF InFlight, HoldsCap, HoldsProposal, HoldsRow
  <2> HIDE DEF w
  <2>4. Enters(r, "ENTRY_FILLED_SL_FAILED", "NEEDS_ATTENTION")
    BY <1>6, <2>1, <2>2, <2>3 DEF Enters, Settled, Ended
  <2> QED
    BY <2>4 DEF ExecutionStatus, PositionStatus
<1>8. CASE Commit(r)
  <2>1. pc[r] = "commit" /\ CommitTx(r, tx[r], "executed")
    BY <1>8 DEF Commit
  <2>2. tx[r].execution = "SUCCESS" /\ tx[r].position \in {"OPEN", "NEEDS_ATTENTION"}
    BY <2>1 DEF BuffersTrue, BufferTrue, Paired
  <2>3. ~ SucceededFor(ProposalOf[r])
    BY <2>1, <2>2 DEF IndexSound, InIndex
  <2>4. pc[r] \notin Settled
    BY <2>1, SettledPoints DEF InFlight, HoldsCap, HoldsProposal, HoldsRow
  <2>5. Enters(r, "SUCCESS", tx[r].position)
    BY <1>6, <2>1, <2>2, <2>3, <2>4 DEF Enters, Settled, Ended
  <2> QED
    BY <2>2, <2>5 DEF ExecutionStatus, PositionStatus
<1>9. CASE StopWaits(r)
  BY <1>9 DEF StopWaits, calls, tables, Silent, Paired
<1> QED
  BY <1>1, <1>3, <1>4, <1>5, <1>7, <1>8, <1>9 DEF ServiceCall, Execute

\* A delivery enters the book at the commit that ends its run, with a SUCCESS alone.
LEMMA DeliveryEnters ==
  ASSUME PipelineInv, NEW d \in Request, d \in Delivery, Paired(d),
         Deliver(d) \/ CrashDelivery(d)
  PROVE  Silent(d) \/ \E e \in ExecutionStatus, s \in PositionStatus : Enters(d, e, s)
<1> USE DEF PipelineInv
<1>0. tx[d] \in Tx /\ BufferTrue(d)
  BY DEF PipelineTypeOK, BuffersTrue
<1>1. ASSUME pc[d] \in {"idle"} \cup Unflushed, NEW x \in Unflushed, pc'[d] = x,
             UNCHANGED <<execution, position>>, tx'[d].position = tx[d].position
      PROVE  Silent(d)
  BY <1>1 DEF Silent, Paired, Unflushed, Inserted
<1>2. CASE StartDelivery(d) \/ PromoteWrite(d) \/ PreflightPass(d) \/ OrderFilled(d)
  <2>1. First(d) \in {"load", "resume", "select"}
    BY DEF First, Delivery, Call, PipelineTypeOK, Path
  <2> QED
    BY <1>1, <1>2, <2>1 DEF StartDelivery, PromoteWrite, PreflightPass, OrderFilled, Goto, tables,
       Unflushed, PipelineTypeOK
<1>3. CASE PromoteRead(d) \/ (Select(d) /\ status[ProposalOf[d]] = "APPROVED")
  BY <1>1, <1>3 DEF PromoteRead, Select, tables, Unflushed, PipelineTypeOK
<1>14. CASE Compile(d)
  BY <1>1, <1>14 DEF Compile, Goto, tables, Unflushed, PipelineTypeOK
<1>4. CASE LoadProposal(d) \/ GateExecutes(d)
  <2>1. PICK s \in ProposalStatus : tx' = [tx EXCEPT ![d].status = s]
    BY <1>4, CompiledStatus DEF GateExecutes, ProposalStatus
  <2>2. tx'[d] = [tx[d] EXCEPT !.status = s]
    BY <2>1 DEF PipelineTypeOK
  <2>3. tx'[d].position = tx[d].position
    BY <1>0, <2>2 DEF Tx
  <2> QED
    BY <1>1, <1>4, <2>3 DEF LoadProposal, GateExecutes, Goto, tables, Unflushed, PipelineTypeOK
<1>5. CASE OrderFails(d) \/ Protect(d)
  <2>1. PICK e \in ExecutionStatus : tx' = [tx EXCEPT ![d].execution = e]
    BY <1>5 DEF OrderFails, Protect, ExecutionStatus
  <2>2. tx'[d] = [tx[d] EXCEPT !.execution = e]
    BY <2>1 DEF PipelineTypeOK
  <2>3. tx'[d].position = tx[d].position
    BY <1>0, <2>2 DEF Tx
  <2> QED
    BY <1>1, <1>5, <2>3 DEF OrderFails, Protect, Goto, tables, Unflushed, PipelineTypeOK
<1>6. ASSUME NEW outcome \in Settled, Rollback(d, outcome) PROVE Silent(d)
  <2>1. pc'[d] = outcome /\ UNCHANGED <<execution, position>>
    BY <1>6 DEF Rollback, EndTx, tables, PipelineTypeOK
  <2> QED
    BY <2>1, SettledIsPaired DEF Silent
<1>7. CASE PreflightFail(d)
  <2>1. CASE path[d] = "route"
    BY <1>6, <1>7, <2>1 DEF PreflightFail, Settled, Ended
  <2>2. CASE path[d] # "route"
    <3>1. /\ pc[d] = "preflight" /\ pc'[d] = "rest" /\ UNCHANGED <<execution, position>>
          /\ tx'[d] = [tx[d] EXCEPT !.status = "REJECTED"]
      BY <1>7, <2>2 DEF PreflightFail, tables, PipelineTypeOK
    <3>2. tx'[d].execution = tx[d].execution /\ tx'[d].position = tx[d].position
      BY <1>0, <3>1 DEF Tx
    <3>3. tx[d].execution # "SUCCESS" /\ tx[d].position = "NONE"
      BY <1>0, <3>1 DEF BufferTrue, Paired, Unflushed, Inserted
    <3> QED
      BY <3>1, <3>2, <3>3 DEF Silent, Paired, Unflushed, Inserted
  <2> QED
    BY <2>1, <2>2
<1>8. CASE Settle(d)
  <2>1. pc'[d] = "rest" /\ tx'[d] = Recorded(d) /\ UNCHANGED <<execution, position>>
    BY <1>8 DEF Settle, Goto, tables, PipelineTypeOK
  <2>2. /\ tx'[d].execution = tx[d].execution
        /\ tx'[d].position = IF tx[d].execution = "SUCCESS" THEN "OPEN" ELSE "NONE"
    BY <2>1 DEF Recorded
  <2> QED
    BY <2>1, <2>2 DEF Silent, Paired, Unflushed, Inserted
<1>9. CASE InsertConflict(d) \/ DeadlockAbort(d) \/ CrashDelivery(d)
  BY <1>6, <1>9 DEF InsertConflict, DeadlockAbort, CrashDelivery, Settled, Ended
<1>13. CASE Insert(d) \/ Refer(d) \/ BurnAck(d)
  <2>1. /\ pc[d] \in {"record", "refer", "burn"} /\ pc'[d] \in {"refer", "burn", "settle"}
        /\ UNCHANGED <<execution, position>>
    BY <1>13 DEF Insert, Refer, BurnAck, Goto, tables, PipelineTypeOK
  <2>2. tx'[d] = tx[d] \/ tx'[d] = [tx[d] EXCEPT !.burn = Burns(d)]
    BY <1>13 DEF Insert, Refer, BurnAck, PipelineTypeOK
  <2>3. tx'[d].position = tx[d].position
    BY <1>0, <2>2 DEF Tx
  <2> QED
    BY <2>1, <2>3 DEF Silent, Paired, Unflushed, Inserted
<1>10. ASSUME CommitDelivery(d)
       PROVE  /\ execution' = [execution EXCEPT ![d] = tx[d].execution]
              /\ position' = [position EXCEPT ![d] = tx[d].position]
              /\ Paired(d)'
  <2>1. pc'[d] = "finished"
    BY <1>10 DEF CommitDelivery, EndTx, PipelineTypeOK
  <2> QED
    BY <1>10, <2>1, SettledIsPaired DEF CommitDelivery, Settled
<1>11. CASE GateWaits(d) \/ (Select(d) /\ status[ProposalOf[d]] # "APPROVED")
  <2>1. pc[d] \in {"gate", "select"} /\ CommitDelivery(d)
    BY <1>11 DEF GateWaits, Select
  <2>2. tx[d].execution # "SUCCESS" /\ tx[d].position = "NONE"
    BY <1>0, <2>1 DEF BufferTrue, Paired, Unflushed, Inserted
  <2>3. pc[d] \notin Settled
    BY <2>1, SettledPoints DEF OnTheWay, Unflushed, Inserted
  <2>4. Enters(d, tx[d].execution, tx[d].position)
    BY <1>10, <2>1, <2>2, <2>3 DEF Enters
  <2> QED
    BY <1>0, <2>4 DEF Tx
<1>12. CASE FinishRun(d)
  <2>1. pc[d] = "rest" /\ CommitDelivery(d)
    BY <1>12 DEF FinishRun
  <2>2. tx[d].position = IF tx[d].execution = "SUCCESS" THEN "OPEN" ELSE "NONE"
    BY <2>1 DEF Paired
  <2>3. tx[d].execution = "SUCCESS" => ~ SucceededFor(ProposalOf[d])
    BY <2>1 DEF IndexSound, InIndex, Inserted
  <2>4. pc[d] \notin Settled
    BY <2>1, SettledPoints DEF OnTheWay, Inserted
  <2>5. Enters(d, tx[d].execution, tx[d].position)
    BY <1>10, <2>1, <2>2, <2>3, <2>4 DEF Enters
  <2> QED
    BY <1>0, <2>5 DEF Tx
<1> QED
  BY <1>2, <1>3, <1>4, <1>5, <1>7, <1>8, <1>9, <1>11, <1>12, <1>13, <1>14
     DEF Deliver, Select

LEMMA LedgerInitially == PipelineInit => RowsPaired /\ Book!BookInit
<1> SUFFICES ASSUME PipelineInit PROVE RowsPaired /\ Book!BookInit
  OBVIOUS
<1>1. RowsPaired
  BY DEF PipelineInit, Init, RowsPaired, Paired, NoTx
<1>2. Book!BookInit
  BY DEF PipelineInit, Init, Book!BookInit, SucceededFor
<1> QED
  BY <1>1, <1>2

\* What a commit does to the ledger.
LEMMA EnterLedger ==
  ASSUME PipelineInv, NEW r \in Request, NEW e \in ExecutionStatus, NEW s \in PositionStatus,
         Enters(r, e, s)
  PROVE  [Book!LedgerNext]_(Book!bookVars)
<1> USE DEF PipelineInv
<1>1. /\ position[r] = "NONE" /\ execution[r] = "NONE"
      /\ position' = [position EXCEPT ![r] = s] /\ execution' = [execution EXCEPT ![r] = e]
      /\ execution \in [Request -> ExecutionStatus] /\ position \in [Request -> PositionStatus]
  BY DEF Enters, CommitsAtEnd, PipelineTypeOK
<1>2. ProposalOf[r] \in Proposal
  BY ConstantsAssumption DEF ConstantsAssumption
<1> HIDE DEF PipelineInv
<1>3. CASE e = "SUCCESS"
  <2>1. s \in {"OPEN", "NEEDS_ATTENTION"} /\ ProposalOf[r] \notin Completed
    BY <1>3 DEF Enters, Completed
  <2>2. \A p : SucceededFor(p)' <=> SucceededFor(p) \/ p = ProposalOf[r]
    BY <1>1, <1>3 DEF SucceededFor
  <2>3. Completed' = Completed \cup {ProposalOf[r]}
    BY <1>2, <2>2 DEF Completed
  <2>4. Book!RecordComplete(r)
    BY <1>1, <2>1, <2>3 DEF Book!RecordComplete, Completed
  <2> QED
    BY <2>4 DEF Book!LedgerNext
<1>4. CASE e # "SUCCESS"
  <2>1. s \in {"NONE", "NEEDS_ATTENTION"}
    BY <1>4 DEF Enters
  <2>2. \A p : SucceededFor(p)' <=> SucceededFor(p)
    BY <1>1, <1>4 DEF SucceededFor
  <2>3. Completed' = Completed
    BY <2>2 DEF Completed
  <2>4. CASE s = "NONE"
    <3>1. position' = position
      BY <1>1, <2>4
    <3> QED
      BY <2>3, <3>1 DEF Book!bookVars, Completed
  <2>5. CASE s = "NEEDS_ATTENTION"
    <3>1. Book!RecordUnprotected(r)
      BY <1>1, <2>3, <2>5 DEF Book!RecordUnprotected, Completed
    <3> QED
      BY <3>1 DEF Book!LedgerNext
  <2> QED
    BY <2>1, <2>4, <2>5
<1> QED
  BY <1>3, <1>4

\* The other writers flag and close positions, and touch nothing else of the ledger.
LEMMA OthersLedger ==
  ASSUME Others
  PROVE  UNCHANGED <<pc, tx>> /\ [Book!LedgerNext]_(Book!bookVars)
<1>1. UNCHANGED <<pc, tx, execution>>
  BY DEF Others, SaveProposal, TimePasses, ReviewRead, ReviewWrite, ExpireOldProposals, RecordAck,
         AckLapses, ExchangeCloses, FinalizeClose, FlagAttention, tables, calls
<1>2. Completed' = Completed
  BY <1>1 DEF Completed, SucceededFor
<1>3. ASSUME NEW r \in Request, FinalizeClose(r) PROVE Book!LedgerNext
  <2>1. Book!Close(r)
    BY <1>2, <1>3 DEF FinalizeClose, Tracked, Book!Close, Completed
  <2> QED
    BY <2>1 DEF Book!LedgerNext
<1>4. ASSUME NEW r \in Request, FlagAttention(r) PROVE Book!LedgerNext
  <2>1. Book!Flag(r)
    BY <1>2, <1>4 DEF FlagAttention, Book!Flag, Completed
  <2> QED
    BY <2>1 DEF Book!LedgerNext
<1>5. CASE \A r \in Request : ~ FinalizeClose(r) /\ ~ FlagAttention(r)
  <2>1. UNCHANGED position
    BY <1>5 DEF Others, SaveProposal, TimePasses, ReviewRead, ReviewWrite, ExpireOldProposals,
       RecordAck, AckLapses, ExchangeCloses, tables
  <2> QED
    BY <1>1, <1>2, <2>1 DEF Book!bookVars, Completed
<1> QED
  BY <1>1, <1>3, <1>4, <1>5

LEMMA LedgerStep ==
  PipelineInv /\ RowsPaired /\ [PipelineNext]_pipelineVars
    => RowsPaired' /\ [Book!LedgerNext]_(Book!bookVars)
<1> SUFFICES ASSUME PipelineInv, RowsPaired, [PipelineNext]_pipelineVars
             PROVE  RowsPaired' /\ [Book!LedgerNext]_(Book!bookVars)
  OBVIOUS
<1>1. CASE UNCHANGED pipelineVars
  <2>1. UNCHANGED <<pc, tx, execution, position>>
    BY <1>1 DEF pipelineVars, vars, tables, calls
  <2> QED
    BY <2>1 DEF RowsPaired, Paired, Book!bookVars, SucceededFor
<1>2. CASE Others
  <2>1. UNCHANGED <<pc, tx>>
    BY <1>2, OthersLedger
  <2>2. RowsPaired'
    BY <2>1 DEF RowsPaired, Paired
  <2> QED
    BY <1>2, <2>2, OthersLedger
<1>3. ASSUME NEW r \in Request,
             ServiceCall(r) \/ Crash(r) \/ (r \in Delivery /\ (Deliver(r) \/ CrashDelivery(r)))
      PROVE  RowsPaired' /\ [Book!LedgerNext]_(Book!bookVars)
  <2>1. Silent(r) \/ \E e \in ExecutionStatus, s \in PositionStatus : Enters(r, e, s)
    BY <1>3, ServiceEnters, DeliveryEnters DEF RowsPaired
  <2>2. Paired(r)'
    BY <2>1 DEF Silent, Enters
  <2>3. ASSUME NEW q \in Request \ {r} PROVE Paired(q)'
    <3>1. pc'[q] = pc[q] /\ tx'[q] = tx[q]
      BY <1>3, RequestLeftAlone DEF PipelineInv
    <3> QED
      BY <3>1 DEF RowsPaired, Paired
  <2>4. RowsPaired'
    BY <2>2, <2>3 DEF RowsPaired
  <2>5. CASE Silent(r)
    <3>1. UNCHANGED <<execution, position>>
      BY <2>5 DEF Silent
    <3>2. Completed' = Completed
      BY <3>1 DEF Completed, SucceededFor
    <3> QED
      BY <2>4, <3>1, <3>2 DEF Book!bookVars, Completed
  <2> QED
    BY <2>1, <2>4, <2>5, EnterLedger
<1> QED
  BY <1>1, <1>2, <1>3 DEF PipelineNext, Call, Delivery

-----------------------------------------------------------------------------
(* The service alone. *)

AllService == \A r \in Request : path[r] = "service"

\* The waits for the index and for the acknowledgement's row are the only difference: the cap
\* lock keeps a second call of the proposal out of the index, so that a stop never waits
\* for it, is never refused by it and closes no ring.
LEMMA ServiceOnlyStep ==
  IInv /\ AllService /\ [PipelineNext]_pipelineVars => [Next]_vars /\ AllService'
<1> SUFFICES ASSUME IInv, AllService, [PipelineNext]_pipelineVars PROVE [Next]_vars /\ AllService'
  OBVIOUS
<1>1. AllService'
  BY PathUnchanged DEF AllService
<1>2. CASE UNCHANGED pipelineVars
  BY <1>1, <1>2 DEF pipelineVars
<1>3. CASE PipelineNext
  <2>1. Delivery = {}
    BY DEF AllService, Delivery, Call
  <2>2. ASSUME NEW r \in Call, ServiceCall(r) PROVE Next
    <3>1. r \in Request
      BY DEF Call
    <3>2. ASSUME pc[r] = "stop", NEW q \in Request \ {r}, InIndex(q) PROVE FALSE
      <4>1. /\ pc[q] \in {"idle"} \cup InFlight \cup Ended
            /\ pc[q] \in Inserted \cup {"targets", "commit"}
        BY <3>2 DEF IInv, TypeOK, InIndex
      <4>2. pc[q] \in HoldsCap /\ pc[r] \in HoldsCap
        BY <3>2, <4>1 DEF InFlight, HoldsCap, HoldsProposal, HoldsRow, Ended, Inserted
      <4> QED
        BY <3>1, <3>2, <4>2 DEF IInv, CapHeld
    <3>3. ~ StopWaits(r)
      BY <3>1, <3>2 DEF StopWaits, SuccessInFlight
    <3>4. ~ ServiceConflict(r)
      <4>1. pc[r] = "stop" => IndexAllows(r)
        BY <3>1 DEF IndexAllows, IInv, NotYetSucceeded, Entering
      <4>2. pc[r] = "stop" => ~ InRing(r)
        <5>1. \A q \in Request : pc[r] = "stop" /\ Awaits(r, q) => q # r /\ InIndex(q)
          BY DEF Awaits
        <5> QED
          BY <3>1, <3>2, <5>1 DEF InRing
      <4> QED
        BY <4>1, <4>2 DEF ServiceConflict
    <3> QED
      BY <2>2, <3>1, <3>3, <3>4 DEF ServiceCall, Next
  <2>3. ASSUME NEW r \in Call, Crash(r) PROVE Next
    BY <2>3 DEF Call, Next
  <2>4. ASSUME Others PROVE Next
    BY <2>4 DEF Others, Environment, Next
  <2> QED
    BY <1>1, <1>3, <2>1, <2>2, <2>3, <2>4 DEF PipelineNext
<1> QED
  BY <1>2, <1>3

-----------------------------------------------------------------------------
(* The theorems. *)

\* The inductive invariant of the two order paths.
THEOREM PipelineInvTheorem == PipelineSpec => []PipelineInv
BY PipelineInvInit, PipelineStep, PTL DEF PipelineSpec

\* Every variable keeps its type on both paths.
THEOREM PipelineTypeTheorem == PipelineSpec => []PipelineTypeOK
<1>1. PipelineInv => PipelineTypeOK
  BY DEF PipelineInv
<1> QED
  BY <1>1, PipelineInvTheorem, PTL

\* No two executions of a proposal are committed as SUCCESS, however the
\* service's calls, the runs and the route interleave and crash.
THEOREM OneSuccessTheorem == PipelineSpec => []OneSuccessPerProposal
<1>1. PipelineInv => OneSuccessPerProposal
  BY DEF PipelineInv
<1> QED
  BY <1>1, PipelineInvTheorem, PTL

\* No path commits an OPEN position whose entry was not sent or whose stop-loss
\* was not accepted.
THEOREM OpenProtectedTheorem == PipelineSpec => []OpenIsProtected
<1>1. PipelineInv => OpenIsProtected
  BY DEF PipelineInv
<1> QED
  BY <1>1, PipelineInvTheorem, PTL

\* A run executing its own proposal sends no order once another run or a call has
\* committed a success of it: they commit only with the row that the run has kept locked
\* since it compiled the proposal, before its check.  The route commits without that row
\* and is left out.
THEOREM RetryTheorem == PipelineSpec => RetryTradesNothingTwice
<1> DEFINE Once == \A d \in Delivery :
                     path[d] = "auto" /\ sent'[d] /\ ~ sent[d] =>
                       \A q \in Request :
                         ProposalOf[q] = ProposalOf[d] /\ execution[q] = "SUCCESS"
                           => path[q] = "route"
<1>1. PipelineInv /\ [PipelineNext]_pipelineVars => [Once]_pipelineVars
  <2> SUFFICES ASSUME PipelineInv, PipelineNext, NEW d \in Delivery,
                      path[d] = "auto", sent'[d], ~ sent[d]
               PROVE  RoutesOnly(ProposalOf[d])
    BY DEF RoutesOnly
  <2> USE DEF PipelineInv
  <2>0. d \in Request /\ path[d] # "service"
    BY DEF Delivery, Call
  <2>1. ASSUME NEW r \in Call, ServiceCall(r) \/ Crash(r) PROVE FALSE
    <3>1. r # d /\ r \in Request
      BY <2>0 DEF Call
    <3>2. sent'[d] = sent[d]
      BY <2>0, <2>1, <3>1
         DEF ServiceCall, StopWaits, ServiceConflict, calls, Execute, Crash, Begin, AcquireCap,
         AcquireProposal, ReplayCheck, AcquireRow, PreCheck, Refuse, EntryFilled, EntryRaised,
         StopAccepted, StopRaised, PlaceTargets, Commit, venue, PipelineTypeOK
    <3> QED
      BY <3>2
  <2>2. CASE Others
    BY <2>2 DEF Others, SaveProposal, TimePasses, ReviewRead, ReviewWrite, ExpireOldProposals,
       RecordAck, AckLapses, ExchangeCloses, FinalizeClose, FlagAttention, venue
  <2>3. ASSUME NEW r \in Delivery, Deliver(r) \/ CrashDelivery(r)
        PROVE  RoutesOnly(ProposalOf[d])
    <3>1. OrderFilled(r) \/ OrderFails(r) \/ UNCHANGED sent
      BY <2>3 DEF Deliver, CrashDelivery, StartDelivery, Compile, GateExecutes, GateWaits,
         PromoteRead, PromoteWrite, Select, PreflightPass, PreflightFail, Protect,
         LoadProposal, Insert, InsertConflict, Refer, BurnAck, Settle, DeadlockAbort, FinishRun,
         CommitDelivery, Rollback, venue
    <3>2. r = d /\ pc[d] = "order"
      BY <2>0, <3>1 DEF OrderFilled, OrderFails, Goto, PipelineTypeOK
    <3> QED
      BY <2>0, <3>2 DEF OrdersFirst, Ordering
  <2> QED
    BY <2>1, <2>2, <2>3 DEF PipelineNext
<1> QED
  BY <1>1, PipelineInvTheorem, PTL DEF PipelineSpec, RetryTradesNothingTwice

\* Exposure of a delivery that finished has its row, whoever else writes the same tables:
\* a tracked position, an execution that names the failed stop, or the FAILED execution of
\* a lost answer, and the last two never where a stop was accepted.
THEOREM ExposureTheorem == PipelineSpec => []ExposureIsRecorded
<1>1. PipelineInit => ExposureCarried /\ ExposureIsRecorded
  BY DEF PipelineInit, Init, ExposureCarried, Exposed, ExposureIsRecorded, AfterOrder, Inserted,
     Settled, Ended, Delivery, Call
<1> QED
  BY <1>1, ExposureStep, PipelineTypeTheorem, PTL DEF PipelineSpec

\* Every commit of either order path is a step of the ledger: a completed proposal and
\* its position enter together, once, and a position only ever leaves the book.
THEOREM LedgerTheorem == PipelineSpec => RefinesLedger
BY LedgerInitially, LedgerStep, PipelineInvTheorem, PTL
   DEF PipelineSpec, RefinesLedger, Book!LedgerSpec

\* Where every request is served by ExecutionService, the composition is OrderExecution:
\* the cap, the markets and the book hold, and it is the other path that loses them.
THEOREM ServiceOnlyTheorem ==
  ASSUME \A f \in PathMixes : \A r \in Request : f[r] = "service"
  PROVE  PipelineSpec => Spec /\ []CapRespected /\ []OneOpenPerMarket /\ RefinesBook
<1>1. PipelineInit => Init /\ IInv /\ AllService
  BY InvInit DEF PipelineInit, AllService
<1>2. IInv /\ AllService /\ [PipelineNext]_pipelineVars => IInv' /\ AllService' /\ [Next]_vars
  BY ServiceOnlyStep, InvStep
<1>3. PipelineSpec => Spec
  BY <1>1, <1>2, PTL DEF PipelineSpec, Spec
<1> QED
  BY <1>3, CapTheorem, MarketTheorem, BookTheorem, PTL
=============================================================================
