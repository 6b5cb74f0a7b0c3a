------------------------ MODULE OrderExecutionProofs ------------------------
(***************************************************************************)
(* Proofs about OrderExecution for any number of requests, reviews,        *)
(* proposals and markets, any cap, loss limit and number of                *)
(* acknowledgements.                                                       *)
(***************************************************************************)
EXTENDS OrderExecution, FiniteSetTheorems, TLAPS

-----------------------------------------------------------------------------
(* Type correctness. *)

LEMMA TypeInit == Init => TypeOK
BY ConstantsAssumption
   DEF Init, TypeOK, ConstantsAssumption, ProposalStatus, ExecutionStatus, PositionStatus,
       JournalResult, Tx, NoTx, NoReview

\* The buffers the three order calls leave behind.
LEMMA BufferAfterEntry ==
  ASSUME NEW t \in Tx, NEW b \in BOOLEAN
  PROVE  [t EXCEPT !.execution = "ENTRY_FILLED", !.position = "OPEN", !.burn = b] \in Tx
BY DEF Tx, ExecutionStatus, PositionStatus

LEMMA BufferAfterStopRaised ==
  ASSUME NEW t \in Tx
  PROVE  [t EXCEPT !.status = "NEEDS_ATTENTION", !.position = "NEEDS_ATTENTION",
                   !.execution = "ENTRY_FILLED_SL_FAILED"] \in Tx
BY DEF Tx, ProposalStatus, PositionStatus, ExecutionStatus

LEMMA BufferAfterTargets ==
  ASSUME NEW t \in Tx, NEW flag \in {"OPEN", "NEEDS_ATTENTION"}
  PROVE  [t EXCEPT !.position = flag, !.status = "EXECUTED", !.result = "OPEN"] \in Tx
BY DEF Tx, PositionStatus, ProposalStatus, JournalResult

USE DEF TypeOK

LEMMA TypeEndTx ==
  ASSUME TypeOK, NEW r \in Request, NEW outcome \in Ended, EndTx(r, outcome)
  PROVE  /\ pc' \in [Request -> {"idle"} \cup InFlight \cup Ended]
         /\ tx' \in [Request -> Tx]
         /\ capLock' \in Request \cup {None}
         /\ propLock' \in [Proposal -> Request \cup {None}]
         /\ rowLock' \in [Proposal -> Request \cup {None}]
BY DEF EndTx, Tx, NoTx, ProposalStatus, ExecutionStatus, PositionStatus, JournalResult

LEMMA TypeRollback ==
  ASSUME TypeOK, NEW r \in Request, NEW outcome \in Ended, Rollback(r, outcome),
         sent' \in [Request -> BOOLEAN], live' \in [Request -> {"NONE", "LIVE", "FLAT"}],
         stopPlaced' \in [Request -> BOOLEAN]
  PROVE  TypeOK'
BY TypeEndTx DEF Rollback, tables

LEMMA TypeCommitTx ==
  ASSUME TypeOK, NEW r \in Request, NEW outcome \in Ended, NEW w \in Tx,
         CommitTx(r, w, outcome), UNCHANGED venue
  PROVE  TypeOK'
<1>1. ack' \in [gen : 0 .. MaxAcks, active : BOOLEAN]
  BY DEF CommitTx
<1>2. /\ status' \in [Proposal -> ProposalStatus]
      /\ execution' \in [Request -> ExecutionStatus]
      /\ position' \in [Request -> PositionStatus]
      /\ result' \in [Request -> JournalResult]
  BY ConstantsAssumption DEF CommitTx, Tx, ConstantsAssumption
<1> QED
  BY <1>1, <1>2, TypeEndTx DEF CommitTx, venue

LEMMA TypeStep == TypeOK /\ [Next]_vars => TypeOK'
<1> SUFFICES ASSUME TypeOK, [Next]_vars PROVE TypeOK'
  OBVIOUS
<1>1. ASSUME NEW r \in Request, Execute(r) \/ Crash(r) PROVE TypeOK'
  <2> USE DEF Goto, tables, venue, InFlight, HoldsCap, HoldsProposal, HoldsRow
  <2>1. CASE Begin(r)
    <3>1. Cardinality({q \in Request : pc[q] # "idle"}) + 1 \in Nat
      <4>1. IsFiniteSet({q \in Request : pc[q] # "idle"})
        BY FS_Subset, ConstantsAssumption DEF ConstantsAssumption
      <4> QED BY <4>1, FS_CardinalityType
    <3> QED BY <2>1, <3>1 DEF Begin
  <2>2. CASE AcquireCap(r)
    BY <2>2 DEF AcquireCap
  <2>3. CASE AcquireProposal(r)
    BY <2>3 DEF AcquireProposal
  <2>4. CASE ReplayCheck(r)
    <3>1. CASE SucceededFor(ProposalOf[r])
      BY <2>4, <3>1, TypeRollback DEF ReplayCheck, Ended
    <3>2. CASE ~ SucceededFor(ProposalOf[r])
      BY <2>4, <3>2 DEF ReplayCheck
    <3> QED BY <3>1, <3>2
  <2>5. CASE AcquireRow(r)
    BY <2>5 DEF AcquireRow
  <2>6. CASE PreCheck(r)
    <3>1. relied' \in [Request -> 0 .. MaxAcks]
      <4>1. ack.gen \in 0 .. MaxAcks /\ 0 \in 0 .. MaxAcks
        BY ConstantsAssumption DEF ConstantsAssumption
      <4>2. (IF LossStreak THEN ack.gen ELSE 0) \in 0 .. MaxAcks
        BY <4>1
      <4> QED BY <2>6, <4>2 DEF PreCheck
    <3> QED BY <2>6, <3>1 DEF PreCheck
  <2>7. CASE Refuse(r)
    BY <2>7, TypeRollback DEF Refuse, Ended
  <2>8. CASE EntryFilled(r)
    <3>1. ack.active \in BOOLEAN
      OBVIOUS
    <3>2. Burns(r) \in BOOLEAN
      BY <3>1 DEF Burns
    <3>3. tx[r] \in Tx
      OBVIOUS
    <3>4. tx' \in [Request -> Tx]
      BY <2>8, <3>2, <3>3, BufferAfterEntry DEF EntryFilled
    <3> QED BY <2>8, <3>4 DEF EntryFilled
  <2>9. CASE EntryRaised(r)
    BY <2>9, TypeRollback DEF EntryRaised, Ended
  <2>10. CASE StopAccepted(r)
    <3>1. [tx[r] EXCEPT !.execution = "SUCCESS"] \in Tx
      BY DEF Tx, ExecutionStatus
    <3>2. tx' \in [Request -> Tx]
      BY <2>10, <3>1 DEF StopAccepted
    <3> QED BY <2>10, <3>2 DEF StopAccepted
  <2>11. CASE StopRaised(r)
    <3> DEFINE w == [tx[r] EXCEPT !.status = "NEEDS_ATTENTION", !.position = "NEEDS_ATTENTION",
                                  !.execution = "ENTRY_FILLED_SL_FAILED"]
    <3>1. w \in Tx
      <4>1. tx[r] \in Tx
        OBVIOUS
      <4> HIDE DEF TypeOK
      <4> QED BY <4>1, BufferAfterStopRaised
    <3>2. CommitTx(r, w, "unprotected")
      BY <2>11 DEF StopRaised
    <3> HIDE DEF w
    <3> QED BY <2>11, <3>1, <3>2, TypeCommitTx DEF StopRaised, Ended
  <2>12. CASE PlaceTargets(r)
    <3>1. tx[r] \in Tx
      OBVIOUS
    <3>2. PICK flag \in {"OPEN", "NEEDS_ATTENTION"} :
            tx' = [tx EXCEPT ![r] = [@ EXCEPT !.position = flag, !.status = "EXECUTED",
                                              !.result = "OPEN"]]
      BY <2>12 DEF PlaceTargets
    <3>3. [tx[r] EXCEPT !.position = flag, !.status = "EXECUTED", !.result = "OPEN"] \in Tx
      BY <3>1, BufferAfterTargets
    <3>4. tx' \in [Request -> Tx]
      BY <3>2, <3>3
    <3> QED BY <2>12, <3>4 DEF PlaceTargets
  <2>13. CASE Commit(r)
    BY <2>13, TypeCommitTx DEF Commit, Ended
  <2>14. CASE Crash(r)
    BY <2>14, TypeRollback DEF Crash, Ended
  <2> QED
    BY <1>1, <2>1, <2>2, <2>3, <2>4, <2>5, <2>6, <2>7, <2>8, <2>9, <2>10, <2>11, <2>12,
       <2>13, <2>14 DEF Execute
<1>2. CASE Environment
  <2> USE DEF tables, calls, venue
  <2>1. ASSUME NEW p \in Proposal, SaveProposal(p) PROVE TypeOK'
    BY <2>1 DEF SaveProposal, ProposalStatus
  <2>2. ASSUME NEW p \in Proposal, TimePasses(p) PROVE TypeOK'
    BY <2>2 DEF TimePasses
  <2>3. ASSUME NEW v \in Review, ReviewRead(v) PROVE TypeOK'
    BY <2>3 DEF ReviewRead, ReviewCall
  <2>4. ASSUME NEW v \in Review, ReviewWrite(v) PROVE TypeOK'
    <3>1. review[v] \in ReviewCall
      BY <2>4 DEF ReviewWrite, NoReview
    <3>2. status' \in [Proposal -> ProposalStatus]
      BY <2>4, <3>1 DEF ReviewWrite, ReviewCall, Decision, ProposalStatus
    <3>3. review' \in [Review -> ReviewCall \cup {NoReview}]
      BY <2>4, <3>1 DEF ReviewWrite, ReviewCall
    <3> QED BY <2>4, <3>2, <3>3 DEF ReviewWrite
  <2>5. CASE ExpireOldProposals
    BY <2>5 DEF ExpireOldProposals, ProposalStatus
  <2>6. CASE RecordAck
    BY <2>6, ConstantsAssumption DEF RecordAck, ConstantsAssumption
  <2>7. CASE AckLapses
    BY <2>7 DEF AckLapses
  <2>8. ASSUME NEW r \in Request, ExchangeCloses(r) PROVE TypeOK'
    BY <2>8 DEF ExchangeCloses
  <2>9. ASSUME NEW r \in Request, FinalizeClose(r) PROVE TypeOK'
    BY <2>9 DEF FinalizeClose, PositionStatus, JournalResult
  <2>10. ASSUME NEW r \in Request, FlagAttention(r) PROVE TypeOK'
    BY <2>10 DEF FlagAttention, PositionStatus
  <2> QED
    BY <1>2, <2>1, <2>2, <2>3, <2>4, <2>5, <2>6, <2>7, <2>8, <2>9, <2>10 DEF Environment
<1>3. CASE UNCHANGED vars
  BY <1>3 DEF vars, tables, calls, venue
<1> QED BY <1>1, <1>2, <1>3 DEF Next

HIDE DEF TypeOK

\* The tables, the locks, the buffers and the call records keep their types.
THEOREM TypeCorrect == Spec => []TypeOK
BY TypeInit, TypeStep, PTL DEF Spec

-----------------------------------------------------------------------------
(* The inductive invariant. *)

\* Points of execute() after the checks on shared state have passed.
Entering == {"entry", "stop", "targets", "commit"}
\* Points before the entry order, and exits that never reach it.
NoEntryYet == {"idle", "cap_lock", "proposal_lock", "replay", "row_lock", "checks", "entry"}

\* The cap lock is exclusive from its acquisition to the end of the transaction.
CapHeld == \A r \in Request : pc[r] \in HoldsCap => capLock = r

\* What the checks found is still true when the call commits.
RoomKept ==
  \A r \in Request : pc[r] \in Entering =>
    Cardinality(OpenPositions) < MaxOpen /\ ~ HasDuplicate(MarketFor(r))

NotYetSucceeded ==
  \A r \in Request : pc[r] \in Entering \cup {"row_lock", "checks"} =>
    ~ SucceededFor(ProposalOf[r])

\* A call commits nothing before it ends.
NothingCommitted ==
  \A r \in Request : pc[r] \in {"idle"} \cup InFlight =>
    execution[r] = "NONE" /\ position[r] = "NONE"

\* What the exchange knows at each point of the call.
VenueFollows ==
  \A r \in Request :
    /\ pc[r] \in NoEntryYet \cup {"replayed", "refused"} => live[r] = "NONE"
    /\ pc[r] \in {"stop", "targets", "commit"} => sent[r]
    /\ pc[r] \in {"targets", "commit"} => stopPlaced[r]

\* What the call has buffered when it commits.
BufferReady ==
  \A r \in Request :
    /\ pc[r] \in {"targets", "commit"} => tx[r].execution = "SUCCESS"
    /\ pc[r] = "commit" => tx[r].position \in {"OPEN", "NEEDS_ATTENTION"}

\* An acknowledgement a committed trade relied on is spent, one that a call in
\* flight relied on is spent, lapsed, replaced or about to be burnt.
AckSpent ==
  \A r \in Request :
    /\ relied[r] <= ack.gen
    /\ position[r] # "NONE" /\ relied[r] # 0 /\ relied[r] = ack.gen => ~ ack.active
    /\ pc[r] \in {"stop", "targets", "commit"} /\ relied[r] # 0 /\ relied[r] = ack.gen
         => tx[r].burn \/ ~ ack.active

\* No call in flight relies on the acknowledgement of a committed trade.
AckUnshared ==
  \A r, q \in Request :
    pc[q] \in Entering /\ position[r] # "NONE" /\ relied[q] # 0 => relied[q] # relied[r]

IInv ==
  /\ TypeOK /\ CapHeld /\ RoomKept /\ NotYetSucceeded /\ NothingCommitted /\ VenueFollows
  /\ BufferReady /\ AckSpent /\ AckUnshared
  /\ CapRespected /\ OneOpenPerMarket /\ SuccessIsProtected /\ ExposureIsTracked
  /\ OneTradePerAck

LEMMA InvInit == Init => IInv
<1> SUFFICES ASSUME Init PROVE IInv
  OBVIOUS
<1>1. TypeOK
  BY TypeInit
<1>2. OpenPositions = {}
  BY DEF Init, OpenPositions
<1>3. CapRespected
  BY <1>2, FS_EmptySet, ConstantsAssumption DEF CapRespected, ConstantsAssumption
<1>4. OneOpenPerMarket
  BY <1>2 DEF OneOpenPerMarket
<1>5. CapHeld /\ RoomKept /\ NotYetSucceeded
  BY DEF Init, CapHeld, RoomKept, NotYetSucceeded, HoldsCap, HoldsProposal, HoldsRow, Entering
<1>6. NothingCommitted /\ VenueFollows /\ BufferReady
  BY DEF Init, NothingCommitted, VenueFollows, BufferReady
<1>7. AckSpent /\ AckUnshared
  BY DEF Init, AckSpent, AckUnshared, Entering
<1>8. SuccessIsProtected /\ ExposureIsTracked /\ OneTradePerAck
  BY DEF Init, SuccessIsProtected, ExposureIsTracked, OneTradePerAck
<1> QED
  BY <1>1, <1>3, <1>4, <1>5, <1>6, <1>7, <1>8 DEF IInv

-----------------------------------------------------------------------------
(* What each kind of step leaves alone. *)

\* A call changes its own records and nobody else's.
OthersKept(r) ==
  \A q \in Request : q # r =>
    /\ pc'[q] = pc[q] /\ tx'[q] = tx[q] /\ relied'[q] = relied[q]
    /\ execution'[q] = execution[q] /\ position'[q] = position[q]
    /\ sent'[q] = sent[q] /\ live'[q] = live[q] /\ stopPlaced'[q] = stopPlaced[q]

\* A step that commits nothing and ends nothing: the call advances in its
\* transaction, from one point to another.
Advances(r) ==
  \/ Begin(r) \/ AcquireCap(r) \/ AcquireProposal(r) \/ AcquireRow(r) \/ PreCheck(r)
  \/ (ReplayCheck(r) /\ ~ SucceededFor(ProposalOf[r])) \/ EntryFilled(r) \/ StopAccepted(r)
  \/ PlaceTargets(r)

\* A step that ends the call's transaction by rolling it back.
Aborts(r) ==
  \/ (ReplayCheck(r) /\ SucceededFor(ProposalOf[r])) \/ Refuse(r) \/ EntryRaised(r) \/ Crash(r)

\* A step that ends it with a commit.
Commits(r) == StopRaised(r) \/ Commit(r)

LEMMA CallSteps ==
  ASSUME NEW r \in Request, Execute(r) \/ Crash(r)
  PROVE  Advances(r) \/ Aborts(r) \/ Commits(r)
BY DEF Execute, Advances, Aborts, Commits

LEMMA AdvanceFrame ==
  ASSUME TypeOK, NEW r \in Request, Advances(r)
  PROVE  OthersKept(r) /\ UNCHANGED <<execution, position, ack>>
<1> USE DEF TypeOK, OthersKept, Goto, tables, venue
<1>1. CASE Begin(r) BY <1>1 DEF Begin
<1>2. CASE AcquireCap(r) BY <1>2 DEF AcquireCap
<1>3. CASE AcquireProposal(r) BY <1>3 DEF AcquireProposal
<1>4. CASE AcquireRow(r) BY <1>4 DEF AcquireRow
<1>5. CASE PreCheck(r) BY <1>5 DEF PreCheck
<1>6. CASE ReplayCheck(r) /\ ~ SucceededFor(ProposalOf[r]) BY <1>6 DEF ReplayCheck
<1>7. CASE EntryFilled(r) BY <1>7 DEF EntryFilled
<1>8. CASE StopAccepted(r) BY <1>8 DEF StopAccepted
<1>9. CASE PlaceTargets(r) BY <1>9 DEF PlaceTargets
<1> QED BY <1>1, <1>2, <1>3, <1>4, <1>5, <1>6, <1>7, <1>8, <1>9 DEF Advances

LEMMA AbortFrame ==
  ASSUME TypeOK, NEW r \in Request, Aborts(r)
  PROVE  /\ OthersKept(r) /\ UNCHANGED <<execution, position, ack, relied, stopPlaced>>
         /\ pc[r] \in InFlight
         /\ pc'[r] \in {"replayed", "refused", "entry_failed", "crashed"}
         /\ pc'[r] \in {"replayed", "refused"} =>
              pc[r] \in NoEntryYet /\ live'[r] = live[r]
         /\ sent[r] => sent'[r]
<1> USE DEF TypeOK, OthersKept, Rollback, EndTx, tables, venue, InFlight, HoldsCap,
            HoldsProposal, HoldsRow, NoEntryYet
<1>1. CASE ReplayCheck(r) /\ SucceededFor(ProposalOf[r]) BY <1>1 DEF ReplayCheck
<1>2. CASE Refuse(r) BY <1>2 DEF Refuse
<1>3. CASE EntryRaised(r) BY <1>3 DEF EntryRaised
<1>4. CASE Crash(r) BY <1>4 DEF Crash
<1> QED BY <1>1, <1>2, <1>3, <1>4 DEF Aborts

LEMMA CommitFrame ==
  ASSUME TypeOK, NEW r \in Request, Commits(r)
  PROVE  /\ OthersKept(r) /\ UNCHANGED <<relied, venue>>
         /\ \/ /\ pc[r] = "stop" /\ pc'[r] = "unprotected"
               /\ position' = [position EXCEPT ![r] = "NEEDS_ATTENTION"]
               /\ execution' = [execution EXCEPT ![r] = "ENTRY_FILLED_SL_FAILED"]
            \/ /\ pc[r] = "commit" /\ pc'[r] = "executed"
               /\ position' = [position EXCEPT ![r] = tx[r].position]
               /\ execution' = [execution EXCEPT ![r] = tx[r].execution]
         /\ ack' = IF tx[r].burn THEN [ack EXCEPT !.active = FALSE] ELSE ack
<1> USE DEF TypeOK, OthersKept, CommitTx, EndTx, tables, venue
<1>1. CASE StopRaised(r) BY <1>1 DEF StopRaised, Tx
<1>2. CASE Commit(r) BY <1>2 DEF Commit
<1> QED BY <1>1, <1>2 DEF Commits

\* Nobody but the calls moves a call, sends an order or writes an execution row.
LEMMA EnvironmentFrame ==
  ASSUME Environment \/ UNCHANGED vars
  PROVE  UNCHANGED <<calls, execution, sent, stopPlaced>>
BY DEF Environment, SaveProposal, TimePasses, ReviewRead, ReviewWrite, ExpireOldProposals,
       RecordAck, AckLapses, ExchangeCloses, FinalizeClose, FlagAttention, vars, tables,
       calls, venue

\* Nobody but the calls opens a position or gains exposure.
LEMMA EnvironmentBook ==
  ASSUME TypeOK, Environment \/ UNCHANGED vars
  PROVE  \A r \in Request :
           /\ position[r] = "NONE" <=> position'[r] = "NONE"
           /\ position'[r] = "OPEN" => position[r] = "OPEN"
           /\ live'[r] = "LIVE" => live[r] = "LIVE"
           /\ live[r] = "NONE" => live'[r] = "NONE"
           /\ live'[r] = "LIVE" /\ Tracked(r) => Tracked(r)'
<1> USE DEF TypeOK, tables, calls, venue, Tracked
<1>1. ASSUME NEW p \in Proposal, SaveProposal(p) \/ TimePasses(p) PROVE UNCHANGED <<position, live>>
  BY <1>1 DEF SaveProposal, TimePasses
<1>2. ASSUME NEW v \in Review, ReviewRead(v) \/ ReviewWrite(v) PROVE UNCHANGED <<position, live>>
  BY <1>2 DEF ReviewRead, ReviewWrite
<1>3. CASE ExpireOldProposals \/ RecordAck \/ AckLapses \/ UNCHANGED vars
  BY <1>3 DEF ExpireOldProposals, RecordAck, AckLapses, vars
<1>4. ASSUME NEW q \in Request, ExchangeCloses(q), NEW r \in Request
      PROVE  /\ position[r] = "NONE" <=> position'[r] = "NONE"
             /\ position'[r] = "OPEN" => position[r] = "OPEN"
             /\ live'[r] = "LIVE" => live[r] = "LIVE"
             /\ live[r] = "NONE" => live'[r] = "NONE"
             /\ live'[r] = "LIVE" /\ Tracked(r) => Tracked(r)'
  BY <1>4 DEF ExchangeCloses
<1>5. ASSUME NEW q \in Request, FinalizeClose(q), NEW r \in Request
      PROVE  /\ position[r] = "NONE" <=> position'[r] = "NONE"
             /\ position'[r] = "OPEN" => position[r] = "OPEN"
             /\ live'[r] = "LIVE" => live[r] = "LIVE"
             /\ live[r] = "NONE" => live'[r] = "NONE"
             /\ live'[r] = "LIVE" /\ Tracked(r) => Tracked(r)'
  BY <1>5 DEF FinalizeClose
<1>6. ASSUME NEW q \in Request, FlagAttention(q), NEW r \in Request
      PROVE  /\ position[r] = "NONE" <=> position'[r] = "NONE"
             /\ position'[r] = "OPEN" => position[r] = "OPEN"
             /\ live'[r] = "LIVE" => live[r] = "LIVE"
             /\ live[r] = "NONE" => live'[r] = "NONE"
             /\ live'[r] = "LIVE" /\ Tracked(r) => Tracked(r)'
  BY <1>6 DEF FlagAttention
<1> QED
  BY <1>1, <1>2, <1>3, <1>4, <1>5, <1>6 DEF Environment
-----------------------------------------------------------------------------
(* Each part of the invariant is preserved. *)

LEMMA OpenFinite == IsFiniteSet(OpenPositions) /\ Cardinality(OpenPositions) \in Nat
<1>1. IsFiniteSet(OpenPositions)
  BY FS_Subset, ConstantsAssumption DEF OpenPositions, ConstantsAssumption
<1> QED
  BY <1>1, FS_CardinalityType

\* At most one call is past the cap lock.
LEMMA Exclusive ==
  ASSUME CapHeld, NEW r \in Request, NEW q \in Request,
         pc[r] \in HoldsCap, pc[q] \in HoldsCap
  PROVE  r = q
BY DEF CapHeld

LEMMA CapHeldStep ==
  ASSUME TypeOK, CapHeld, [Next]_vars
  PROVE  CapHeld'
<1> USE DEF CapHeld
<1>1. ASSUME NEW r \in Request, Advances(r) PROVE CapHeld'
  <2> USE DEF TypeOK, Goto, HoldsCap, HoldsProposal, HoldsRow
  <2>1. CASE AcquireCap(r)
    <3>1. \A q \in Request : pc[q] \notin HoldsCap
      BY <2>1, ConstantsAssumption DEF AcquireCap, ConstantsAssumption
    <3> QED BY <2>1, <3>1 DEF AcquireCap
  <2>2. CASE ~ AcquireCap(r)
    <3>1. capLock' = capLock
      BY <1>1, <2>2 DEF Advances, Begin, AcquireProposal, AcquireRow, PreCheck, ReplayCheck,
                        EntryFilled, StopAccepted, PlaceTargets
    <3>2. pc'[r] \in HoldsCap => pc[r] \in HoldsCap
      BY <1>1, <2>2 DEF Advances, Begin, AcquireProposal, AcquireRow, PreCheck, ReplayCheck,
                        EntryFilled, StopAccepted, PlaceTargets
    <3> HIDE DEF HoldsCap
    <3> QED BY <1>1, <3>1, <3>2, AdvanceFrame DEF OthersKept
  <2> QED BY <2>1, <2>2
<1>2. ASSUME NEW r \in Request, Aborts(r) \/ Commits(r) PROVE CapHeld'
  <2>1. OthersKept(r) /\ pc'[r] \notin HoldsCap
    BY <1>2, AbortFrame, CommitFrame DEF HoldsCap, HoldsProposal, HoldsRow
  <2>2. capLock' = IF capLock = r THEN None ELSE capLock
    BY <1>2 DEF Aborts, Commits, ReplayCheck, Refuse, EntryRaised, Crash, StopRaised, Commit,
                Rollback, CommitTx, EndTx
  <2> QED BY <2>1, <2>2 DEF OthersKept
<1>3. CASE Environment \/ UNCHANGED vars
  BY <1>3, EnvironmentFrame DEF calls
<1> QED BY <1>1, <1>2, <1>3, CallSteps DEF Next

LEMMA RoomKeptStep ==
  ASSUME TypeOK, CapHeld, RoomKept, [Next]_vars
  PROVE  RoomKept'
<1>1. ASSUME NEW r \in Request, Advances(r) PROVE RoomKept'
  <2>1. OpenPositions' = OpenPositions
    BY <1>1, AdvanceFrame DEF OpenPositions
  <2>2. \A m : HasDuplicate(m)' = HasDuplicate(m)
    BY <2>1 DEF HasDuplicate, MarketFor
  <2>3. pc'[r] \in Entering => pc[r] \in Entering \/ PreCheck(r)
    BY <1>1 DEF Advances, Begin, AcquireCap, AcquireProposal, AcquireRow, ReplayCheck,
                EntryFilled, StopAccepted, PlaceTargets, Goto, TypeOK, Entering
  <2>4. PreCheck(r) => Cardinality(OpenPositions) < MaxOpen /\ ~ HasDuplicate(MarketFor(r))
    BY DEF PreCheck, ChecksPass, KillSwitchPasses
  <2> QED BY <1>1, <2>1, <2>2, <2>3, <2>4, AdvanceFrame DEF RoomKept, OthersKept, MarketFor
<1>2. ASSUME NEW r \in Request, Aborts(r) PROVE RoomKept'
  <2>1. OpenPositions' = OpenPositions
    BY <1>2, AbortFrame DEF OpenPositions
  <2>2. \A m : HasDuplicate(m)' = HasDuplicate(m)
    BY <2>1 DEF HasDuplicate, MarketFor
  <2>3. pc'[r] \notin Entering
    BY <1>2, AbortFrame DEF Entering
  <2> QED BY <1>2, <2>1, <2>2, <2>3, AbortFrame DEF RoomKept, OthersKept, MarketFor
<1>3. ASSUME NEW r \in Request, Commits(r) PROVE RoomKept'
  <2>1. pc[r] \in HoldsCap /\ pc'[r] \notin Entering
    BY <1>3, CommitFrame DEF HoldsCap, HoldsProposal, HoldsRow, Entering
  <2>2. \A q \in Request : pc'[q] \notin Entering
    BY <1>3, <2>1, CommitFrame, Exclusive
       DEF OthersKept, Entering, HoldsCap, HoldsProposal, HoldsRow
  <2> QED BY <2>2 DEF RoomKept
<1>4. CASE Environment \/ UNCHANGED vars
  <2>1. OpenPositions' \subseteq OpenPositions
    BY <1>4, EnvironmentBook DEF OpenPositions
  <2>2. Cardinality(OpenPositions') <= Cardinality(OpenPositions)
    BY <2>1, OpenFinite, FS_Subset
  <2>3. Cardinality(OpenPositions') \in Nat
    BY <2>1, OpenFinite, FS_Subset, FS_CardinalityType
  <2>4. \A m : HasDuplicate(m)' => HasDuplicate(m)
    BY <2>1 DEF HasDuplicate, MarketFor
  <2>5. UNCHANGED pc
    BY <1>4, EnvironmentFrame DEF calls
  <2>6. ASSUME NEW r \in Request, pc[r] \in Entering
        PROVE  Cardinality(OpenPositions') < MaxOpen /\ ~ HasDuplicate(MarketFor(r))'
    <3>1. Cardinality(OpenPositions) < MaxOpen /\ ~ HasDuplicate(MarketFor(r))
      BY <2>6 DEF RoomKept
    <3>2. Cardinality(OpenPositions') < MaxOpen
      BY <3>1, <2>2, <2>3, OpenFinite, ConstantsAssumption DEF ConstantsAssumption
    <3> QED BY <3>1, <3>2, <2>4 DEF MarketFor
  <2> QED BY <2>5, <2>6 DEF RoomKept
<1> QED BY <1>1, <1>2, <1>3, <1>4, CallSteps DEF Next

LEMMA NotYetSucceededStep ==
  ASSUME TypeOK, CapHeld, NotYetSucceeded, [Next]_vars
  PROVE  NotYetSucceeded'
<1> DEFINE Settled == Entering \cup {"row_lock", "checks"}
<1>1. ASSUME NEW r \in Request, Advances(r) PROVE NotYetSucceeded'
  <2>1. \A p : SucceededFor(p)' = SucceededFor(p)
    BY <1>1, AdvanceFrame DEF SucceededFor
  <2>2. pc'[r] \in Settled => pc[r] \in Settled \/ ~ SucceededFor(ProposalOf[r])
    BY <1>1 DEF Advances, Begin, AcquireCap, AcquireProposal, AcquireRow, ReplayCheck, PreCheck,
                EntryFilled, StopAccepted, PlaceTargets, Goto, TypeOK, Entering
  <2> QED BY <1>1, <2>1, <2>2, AdvanceFrame DEF NotYetSucceeded, OthersKept
<1>2. ASSUME NEW r \in Request, Aborts(r) PROVE NotYetSucceeded'
  <2>1. \A p : SucceededFor(p)' = SucceededFor(p)
    BY <1>2, AbortFrame DEF SucceededFor
  <2>2. pc'[r] \notin Settled
    BY <1>2, AbortFrame DEF Entering
  <2> QED BY <1>2, <2>1, <2>2, AbortFrame DEF NotYetSucceeded, OthersKept
<1>3. ASSUME NEW r \in Request, Commits(r) PROVE NotYetSucceeded'
  <2>1. pc[r] \in HoldsCap /\ pc'[r] \notin Settled
    BY <1>3, CommitFrame DEF HoldsCap, HoldsProposal, HoldsRow, Entering
  <2>2. \A q \in Request : pc'[q] \notin Settled
    BY <1>3, <2>1, CommitFrame, Exclusive
       DEF OthersKept, Entering, HoldsCap, HoldsProposal, HoldsRow
  <2> QED BY <2>2 DEF NotYetSucceeded
<1>4. CASE Environment \/ UNCHANGED vars
  <2>1. UNCHANGED <<pc, execution>>
    BY <1>4, EnvironmentFrame DEF calls
  <2>2. \A p : SucceededFor(p)' = SucceededFor(p)
    BY <2>1 DEF SucceededFor
  <2> QED BY <2>1, <2>2 DEF NotYetSucceeded
<1> QED BY <1>1, <1>2, <1>3, <1>4, CallSteps DEF Next

LEMMA NothingCommittedStep ==
  ASSUME TypeOK, NothingCommitted, [Next]_vars
  PROVE  NothingCommitted'
<1> USE DEF NothingCommitted
<1>1. ASSUME NEW r \in Request, Advances(r) PROVE NothingCommitted'
  <2>1. pc[r] \in {"idle"} \cup InFlight
    BY <1>1 DEF Advances, Begin, AcquireCap, AcquireProposal, AcquireRow, ReplayCheck, PreCheck,
                EntryFilled, StopAccepted, PlaceTargets, Goto, InFlight, HoldsCap,
                HoldsProposal, HoldsRow
  <2> QED BY <1>1, <2>1, AdvanceFrame DEF OthersKept
<1>2. ASSUME NEW r \in Request, Aborts(r) \/ Commits(r) PROVE NothingCommitted'
  <2>1. OthersKept(r) /\ pc'[r] \notin {"idle"} \cup InFlight
    BY <1>2, AbortFrame, CommitFrame DEF InFlight, HoldsCap, HoldsProposal, HoldsRow
  <2> QED BY <2>1 DEF OthersKept
<1>3. CASE Environment \/ UNCHANGED vars
  BY <1>3, EnvironmentFrame, EnvironmentBook DEF calls
<1> QED BY <1>1, <1>2, <1>3, CallSteps DEF Next

LEMMA VenueFollowsStep ==
  ASSUME TypeOK, VenueFollows, [Next]_vars
  PROVE  VenueFollows'
<1>1. ASSUME NEW r \in Request, Advances(r) PROVE VenueFollows'
  <2>1. /\ pc'[r] \in NoEntryYet \cup {"replayed", "refused"} => live'[r] = "NONE"
        /\ pc'[r] \in {"stop", "targets", "commit"} => sent'[r]
        /\ pc'[r] \in {"targets", "commit"} => stopPlaced'[r]
    <3> USE DEF TypeOK, Goto, NoEntryYet, VenueFollows, venue
    <3>1. CASE EntryFilled(r) BY <3>1 DEF EntryFilled
    <3>2. CASE StopAccepted(r) BY <3>2 DEF StopAccepted
    <3>3. CASE PlaceTargets(r) BY <3>3 DEF PlaceTargets
    <3>4. CASE ~ (EntryFilled(r) \/ StopAccepted(r) \/ PlaceTargets(r))
      BY <1>1, <3>4 DEF Advances, Begin, AcquireCap, AcquireProposal, AcquireRow, ReplayCheck,
                        PreCheck
    <3> QED BY <3>1, <3>2, <3>3, <3>4
  <2> QED BY <1>1, <2>1, AdvanceFrame DEF VenueFollows, OthersKept
<1>2. ASSUME NEW r \in Request, Aborts(r) PROVE VenueFollows'
  BY <1>2, AbortFrame DEF VenueFollows, OthersKept, NoEntryYet
<1>3. ASSUME NEW r \in Request, Commits(r) PROVE VenueFollows'
  BY <1>3, CommitFrame DEF VenueFollows, OthersKept, NoEntryYet
<1>4. CASE Environment \/ UNCHANGED vars
  BY <1>4, EnvironmentFrame, EnvironmentBook DEF VenueFollows, calls
<1> QED BY <1>1, <1>2, <1>3, <1>4, CallSteps DEF Next

LEMMA BufferReadyStep ==
  ASSUME TypeOK, BufferReady, [Next]_vars
  PROVE  BufferReady'
<1>1. ASSUME NEW r \in Request, Advances(r) PROVE BufferReady'
  <2>1. /\ pc'[r] \in {"targets", "commit"} => tx'[r].execution = "SUCCESS"
        /\ pc'[r] = "commit" => tx'[r].position \in {"OPEN", "NEEDS_ATTENTION"}
    <3> USE DEF TypeOK, Goto, BufferReady, Tx
    <3>1. CASE StopAccepted(r) BY <3>1 DEF StopAccepted
    <3>2. CASE PlaceTargets(r) BY <3>2 DEF PlaceTargets
    <3>3. CASE ~ (StopAccepted(r) \/ PlaceTargets(r))
      BY <1>1, <3>3 DEF Advances, Begin, AcquireCap, AcquireProposal, AcquireRow, ReplayCheck,
                        PreCheck, EntryFilled
    <3> QED BY <3>1, <3>2, <3>3
  <2> QED BY <1>1, <2>1, AdvanceFrame DEF BufferReady, OthersKept
<1>2. ASSUME NEW r \in Request, Aborts(r) \/ Commits(r) PROVE BufferReady'
  BY <1>2, AbortFrame, CommitFrame DEF BufferReady, OthersKept
<1>3. CASE Environment \/ UNCHANGED vars
  BY <1>3, EnvironmentFrame DEF BufferReady, calls
<1> QED BY <1>1, <1>2, <1>3, CallSteps DEF Next
LEMMA EnvironmentAck ==
  ASSUME Environment \/ UNCHANGED vars
  PROVE  \/ ack' = ack
         \/ ack' = [gen |-> ack.gen + 1, active |-> TRUE]
         \/ ack' = [ack EXCEPT !.active = FALSE]
BY DEF Environment, SaveProposal, TimePasses, ReviewRead, ReviewWrite, ExpireOldProposals,
       RecordAck, AckLapses, ExchangeCloses, FinalizeClose, FlagAttention, vars, tables

LEMMA AckSpentStep ==
  ASSUME TypeOK, NothingCommitted, AckSpent, [Next]_vars
  PROVE  AckSpent'
<1> DEFINE Fine(r) == /\ relied[r] <= ack.gen
                      /\ position[r] # "NONE" /\ relied[r] # 0 /\ relied[r] = ack.gen => ~ ack.active
                      /\ pc[r] \in {"stop", "targets", "commit"} /\ relied[r] # 0 /\ relied[r] = ack.gen
                           => tx[r].burn \/ ~ ack.active
<1>a. \A r \in Request : Fine(r)
  BY DEF AckSpent
<1>1. ASSUME NEW r \in Request, Advances(r) PROVE AckSpent'
  <2>1. Fine(r)'
    <3> USE DEF TypeOK, Goto
    <3>1. CASE PreCheck(r)
      <4>1. pc[r] \in InFlight /\ UNCHANGED <<position, ack>> /\ pc'[r] = "entry"
        BY <3>1 DEF PreCheck, InFlight, HoldsCap, HoldsProposal, HoldsRow, tables
      <4>2. relied'[r] <= ack.gen
        BY <3>1 DEF PreCheck
      <4> QED BY <4>1, <4>2 DEF NothingCommitted
    <3>2. CASE EntryFilled(r)
      <4>1. UNCHANGED <<position, ack, relied>>
        BY <3>2 DEF EntryFilled, tables
      <4>2. tx'[r].burn <=> Burns(r)
        BY <3>2 DEF EntryFilled, Tx
      <4> QED BY <1>a, <4>1, <4>2 DEF Burns
    <3>3. CASE StopAccepted(r)
      BY <1>a, <3>3 DEF StopAccepted, tables, Tx
    <3>4. CASE PlaceTargets(r)
      BY <1>a, <3>4 DEF PlaceTargets, tables, Tx
    <3>5. CASE ~ (PreCheck(r) \/ EntryFilled(r) \/ StopAccepted(r) \/ PlaceTargets(r))
      BY <1>a, <1>1, <3>5 DEF Advances, Begin, AcquireCap, AcquireProposal, AcquireRow, ReplayCheck,
                              tables
    <3> QED BY <3>1, <3>2, <3>3, <3>4, <3>5
  <2> QED BY <1>1, <2>1, <1>a, AdvanceFrame DEF AckSpent, OthersKept
<1>2. ASSUME NEW r \in Request, Aborts(r) PROVE AckSpent'
  BY <1>2, <1>a, AbortFrame DEF AckSpent, OthersKept
<1>3. ASSUME NEW r \in Request, Commits(r) PROVE AckSpent'
  <2>1. ack'.gen = ack.gen /\ (ack'.active => ack.active /\ ~ tx[r].burn)
    BY <1>3, CommitFrame DEF TypeOK
  <2>2. Fine(r)'
    BY <1>3, <1>a, <2>1, CommitFrame
  <2>3. ASSUME NEW q \in Request, q # r PROVE Fine(q)'
    BY <1>3, <1>a, <2>1, <2>3, CommitFrame DEF OthersKept
  <2> QED BY <2>2, <2>3 DEF AckSpent
<1>4. CASE Environment \/ UNCHANGED vars
  <2>1. UNCHANGED <<pc, tx, relied>>
    BY <1>4, EnvironmentFrame DEF calls
  <2>2. CASE ack' = ack
    BY <1>4, <1>a, <2>1, <2>2, EnvironmentBook DEF AckSpent
  <2>3. CASE ack' = [gen |-> ack.gen + 1, active |-> TRUE]
    BY <1>a, <2>1, <2>3 DEF AckSpent, TypeOK
  <2>4. CASE ack' = [ack EXCEPT !.active = FALSE]
    BY <1>a, <2>1, <2>4 DEF AckSpent, TypeOK
  <2> QED BY <1>4, <2>2, <2>3, <2>4, EnvironmentAck
<1> QED BY <1>1, <1>2, <1>3, <1>4, CallSteps DEF Next

LEMMA AckUnsharedStep ==
  ASSUME TypeOK, CapHeld, NothingCommitted, AckSpent, AckUnshared, [Next]_vars
  PROVE  AckUnshared'
<1>1. ASSUME NEW x \in Request, Advances(x) PROVE AckUnshared'
  <2>1. position[x] = "NONE" /\ UNCHANGED position
    <3>1. pc[x] \in {"idle"} \cup InFlight
      BY <1>1 DEF Advances, Begin, AcquireCap, AcquireProposal, AcquireRow, ReplayCheck, PreCheck,
                  EntryFilled, StopAccepted, PlaceTargets, Goto, InFlight, HoldsCap,
                  HoldsProposal, HoldsRow
    <3> QED BY <1>1, <3>1, AdvanceFrame DEF NothingCommitted
  <2>2. ASSUME NEW r \in Request, position[r] # "NONE", r # x,
               pc'[x] \in Entering, relied'[x] # 0
        PROVE  relied'[x] # relied[r]
    <3>1. CASE PreCheck(x)
      <4>1. LossStreak => ack.active
        BY <3>1 DEF PreCheck, ChecksPass, KillSwitchPasses
      <4>2. relied'[x] = ack.gen /\ LossStreak
        BY <2>2, <3>1 DEF PreCheck, TypeOK
      <4> QED BY <2>2, <4>1, <4>2 DEF AckSpent
    <3>2. CASE ~ PreCheck(x)
      <4>1. relied'[x] = relied[x] /\ pc[x] \in Entering
        BY <1>1, <2>2, <3>2 DEF Advances, Begin, AcquireCap, AcquireProposal, AcquireRow,
             ReplayCheck, EntryFilled, StopAccepted, PlaceTargets, Goto, TypeOK, Entering
      <4> QED BY <2>2, <4>1 DEF AckUnshared
    <3> QED BY <3>1, <3>2
  <2> QED BY <1>1, <2>1, <2>2, AdvanceFrame DEF AckUnshared, OthersKept
<1>2. ASSUME NEW x \in Request, Aborts(x) PROVE AckUnshared'
  BY <1>2, AbortFrame DEF AckUnshared, OthersKept, Entering
<1>3. ASSUME NEW x \in Request, Commits(x) PROVE AckUnshared'
  <2>1. pc[x] \in HoldsCap /\ pc'[x] \notin Entering
    BY <1>3, CommitFrame DEF HoldsCap, HoldsProposal, HoldsRow, Entering
  <2>2. \A q \in Request : pc'[q] \notin Entering
    BY <1>3, <2>1, CommitFrame, Exclusive
       DEF OthersKept, Entering, HoldsCap, HoldsProposal, HoldsRow
  <2> QED BY <2>2 DEF AckUnshared
<1>4. CASE Environment \/ UNCHANGED vars
  BY <1>4, EnvironmentFrame, EnvironmentBook DEF AckUnshared, calls
<1> QED BY <1>1, <1>2, <1>3, <1>4, CallSteps DEF Next

-----------------------------------------------------------------------------
(* The properties themselves are preserved. *)

LEMMA CapRespectedStep ==
  ASSUME TypeOK, RoomKept, CapRespected, [Next]_vars
  PROVE  CapRespected'
<1>1. ASSUME NEW r \in Request, Advances(r) \/ Aborts(r) PROVE CapRespected'
  <2>1. OpenPositions' = OpenPositions
    BY <1>1, AdvanceFrame, AbortFrame DEF OpenPositions
  <2> QED BY <2>1 DEF CapRespected
<1>2. ASSUME NEW r \in Request, Commits(r) PROVE CapRespected'
  <2>1. Cardinality(OpenPositions) < MaxOpen
    BY <1>2, CommitFrame DEF RoomKept, Entering
  <2>2. OpenPositions' \subseteq OpenPositions \cup {r}
    BY <1>2, CommitFrame DEF OpenPositions, OthersKept
  <2>3. /\ IsFiniteSet(OpenPositions \cup {r})
        /\ Cardinality(OpenPositions \cup {r}) <= Cardinality(OpenPositions) + 1
        /\ Cardinality(OpenPositions \cup {r}) \in Nat
    BY OpenFinite, FS_AddElement, FS_CardinalityType
  <2>4. /\ Cardinality(OpenPositions') <= Cardinality(OpenPositions \cup {r})
        /\ Cardinality(OpenPositions') \in Nat
    BY <2>2, <2>3, FS_Subset, FS_CardinalityType
  <2> QED BY <2>1, <2>3, <2>4, OpenFinite, ConstantsAssumption DEF CapRespected, ConstantsAssumption
<1>3. CASE Environment \/ UNCHANGED vars
  <2>1. OpenPositions' \subseteq OpenPositions
    BY <1>3, EnvironmentBook DEF OpenPositions
  <2>2. /\ Cardinality(OpenPositions') <= Cardinality(OpenPositions)
        /\ Cardinality(OpenPositions') \in Nat
    BY <2>1, OpenFinite, FS_Subset, FS_CardinalityType
  <2> QED BY <2>2, OpenFinite, ConstantsAssumption DEF CapRespected, ConstantsAssumption
<1> QED BY <1>1, <1>2, <1>3, CallSteps DEF Next

LEMMA OneOpenPerMarketStep ==
  ASSUME TypeOK, RoomKept, OneOpenPerMarket, [Next]_vars
  PROVE  OneOpenPerMarket'
<1>1. ASSUME NEW r \in Request, Advances(r) \/ Aborts(r) PROVE OneOpenPerMarket'
  <2>1. OpenPositions' = OpenPositions
    BY <1>1, AdvanceFrame, AbortFrame DEF OpenPositions
  <2> QED BY <2>1 DEF OneOpenPerMarket, MarketFor
<1>2. ASSUME NEW r \in Request, Commits(r) PROVE OneOpenPerMarket'
  <2>1. \A q \in OpenPositions : MarketFor(q) # MarketFor(r)
    BY <1>2, CommitFrame DEF RoomKept, Entering, HasDuplicate
  <2>2. OpenPositions' \subseteq OpenPositions \cup {r}
    BY <1>2, CommitFrame DEF OpenPositions, OthersKept
  <2> QED BY <2>1, <2>2 DEF OneOpenPerMarket, MarketFor
<1>3. CASE Environment \/ UNCHANGED vars
  <2>1. OpenPositions' \subseteq OpenPositions
    BY <1>3, EnvironmentBook DEF OpenPositions
  <2> QED BY <2>1 DEF OneOpenPerMarket, MarketFor
<1> QED BY <1>1, <1>2, <1>3, CallSteps DEF Next

LEMMA SuccessIsProtectedStep ==
  ASSUME TypeOK, NothingCommitted, VenueFollows, SuccessIsProtected, [Next]_vars
  PROVE  SuccessIsProtected'
<1>1. ASSUME NEW r \in Request, Advances(r) PROVE SuccessIsProtected'
  <2>1. execution[r] = "NONE"
    <3>1. pc[r] \in {"idle"} \cup InFlight
      BY <1>1 DEF Advances, Begin, AcquireCap, AcquireProposal, AcquireRow, ReplayCheck, PreCheck,
                  EntryFilled, StopAccepted, PlaceTargets, Goto, InFlight, HoldsCap,
                  HoldsProposal, HoldsRow
    <3> QED BY <3>1 DEF NothingCommitted
  <2> QED BY <1>1, <2>1, AdvanceFrame DEF SuccessIsProtected, OthersKept
<1>2. ASSUME NEW r \in Request, Aborts(r) PROVE SuccessIsProtected'
  BY <1>2, AbortFrame DEF SuccessIsProtected, OthersKept
<1>3. ASSUME NEW r \in Request, Commits(r) PROVE SuccessIsProtected'
  BY <1>3, CommitFrame DEF SuccessIsProtected, OthersKept, VenueFollows, venue, TypeOK
<1>4. CASE Environment \/ UNCHANGED vars
  BY <1>4, EnvironmentFrame DEF SuccessIsProtected
<1> QED BY <1>1, <1>2, <1>3, <1>4, CallSteps DEF Next

LEMMA ExposureIsTrackedStep ==
  ASSUME TypeOK, VenueFollows, BufferReady, ExposureIsTracked, [Next]_vars
  PROVE  ExposureIsTracked'
<1>1. ASSUME NEW r \in Request, Advances(r) PROVE ExposureIsTracked'
  <2>1. pc'[r] \notin Ended
    BY <1>1 DEF Advances, Begin, AcquireCap, AcquireProposal, AcquireRow, ReplayCheck, PreCheck,
                EntryFilled, StopAccepted, PlaceTargets, Goto, TypeOK, Ended
  <2> QED BY <1>1, <2>1, AdvanceFrame DEF ExposureIsTracked, OthersKept, Tracked
<1>2. ASSUME NEW r \in Request, Aborts(r) PROVE ExposureIsTracked'
  BY <1>2, AbortFrame DEF ExposureIsTracked, OthersKept, Tracked, VenueFollows
<1>3. ASSUME NEW r \in Request, Commits(r) PROVE ExposureIsTracked'
  <2>1. Tracked(r)'
    BY <1>3, CommitFrame DEF Tracked, BufferReady, TypeOK
  <2> QED BY <1>3, <2>1, CommitFrame DEF ExposureIsTracked, OthersKept, Tracked
<1>4. CASE Environment \/ UNCHANGED vars
  BY <1>4, EnvironmentFrame, EnvironmentBook DEF ExposureIsTracked, calls
<1> QED BY <1>1, <1>2, <1>3, <1>4, CallSteps DEF Next

LEMMA OneTradePerAckStep ==
  ASSUME TypeOK, NothingCommitted, AckUnshared, OneTradePerAck, [Next]_vars
  PROVE  OneTradePerAck'
<1>1. ASSUME NEW r \in Request, Advances(r) PROVE OneTradePerAck'
  <2>1. position[r] = "NONE"
    <3>1. pc[r] \in {"idle"} \cup InFlight
      BY <1>1 DEF Advances, Begin, AcquireCap, AcquireProposal, AcquireRow, ReplayCheck, PreCheck,
                  EntryFilled, StopAccepted, PlaceTargets, Goto, InFlight, HoldsCap,
                  HoldsProposal, HoldsRow
    <3> QED BY <3>1 DEF NothingCommitted
  <2> QED BY <1>1, <2>1, AdvanceFrame DEF OneTradePerAck, OthersKept
<1>2. ASSUME NEW r \in Request, Aborts(r) PROVE OneTradePerAck'
  BY <1>2, AbortFrame DEF OneTradePerAck, OthersKept
<1>3. ASSUME NEW r \in Request, Commits(r) PROVE OneTradePerAck'
  <2>1. pc[r] \in Entering /\ relied' = relied
    BY <1>3, CommitFrame DEF Entering
  <2>2. \A q \in Request : q # r /\ position[q] # "NONE" /\ relied[r] # 0 => relied[r] # relied[q]
    BY <2>1 DEF AckUnshared
  <2> QED BY <1>3, <2>1, <2>2, CommitFrame DEF OneTradePerAck, OthersKept
<1>4. CASE Environment \/ UNCHANGED vars
  BY <1>4, EnvironmentFrame, EnvironmentBook DEF OneTradePerAck, calls
<1> QED BY <1>1, <1>2, <1>3, <1>4, CallSteps DEF Next

LEMMA InvStep == IInv /\ [Next]_vars => IInv'
<1> SUFFICES ASSUME IInv, [Next]_vars PROVE IInv'
  OBVIOUS
<1> USE DEF IInv
<1>1. TypeOK' BY TypeStep
<1>2. CapHeld' BY CapHeldStep
<1>3. RoomKept' BY RoomKeptStep
<1>4. NotYetSucceeded' BY NotYetSucceededStep
<1>5. NothingCommitted' BY NothingCommittedStep
<1>6. VenueFollows' BY VenueFollowsStep
<1>7. BufferReady' BY BufferReadyStep
<1>8. AckSpent' BY AckSpentStep
<1>9. AckUnshared' BY AckUnsharedStep
<1>10. CapRespected' BY CapRespectedStep
<1>11. OneOpenPerMarket' BY OneOpenPerMarketStep
<1>12. SuccessIsProtected' BY SuccessIsProtectedStep
<1>13. ExposureIsTracked' BY ExposureIsTrackedStep
<1>14. OneTradePerAck' BY OneTradePerAckStep
<1> QED
  BY <1>1, <1>2, <1>3, <1>4, <1>5, <1>6, <1>7, <1>8, <1>9, <1>10, <1>11, <1>12, <1>13, <1>14

LEMMA Invariant == Spec => []IInv
BY InvInit, InvStep, PTL DEF Spec

-----------------------------------------------------------------------------
(* The theorems. *)

\* Concurrent execute calls never push the OPEN positions over the cap.
THEOREM CapTheorem == Spec => []CapRespected
<1>1. IInv => CapRespected BY DEF IInv
<1> QED BY <1>1, Invariant, PTL

\* Concurrent execute calls never open two positions in one market.
THEOREM MarketTheorem == Spec => []OneOpenPerMarket
<1>1. IInv => OneOpenPerMarket BY DEF IInv
<1> QED BY <1>1, Invariant, PTL

\* A SUCCESS row always has its entry sent and its stop-loss accepted.
THEOREM ProtectionTheorem == Spec => []SuccessIsProtected
<1>1. IInv => SuccessIsProtected BY DEF IInv
<1> QED BY <1>1, Invariant, PTL

\* Live exposure of a call that ended without a crash or a lost answer is tracked.
THEOREM TrackingTheorem == Spec => []ExposureIsTracked
<1>1. IInv => ExposureIsTracked BY DEF IInv
<1> QED BY <1>1, Invariant, PTL

\* One acknowledgement admits at most one trade to the committed book.
THEOREM AckTheorem == Spec => []OneTradePerAck
<1>1. IInv => OneTradePerAck BY DEF IInv
<1> QED BY <1>1, Invariant, PTL

\* Only the entry order of a call whose proposal has no SUCCESS row is sent.
LEMMA OrderStep ==
  ASSUME IInv, [Next]_vars, NEW r \in Request, sent'[r], ~ sent[r]
  PROVE  ~ SucceededFor(ProposalOf[r])
<1> USE DEF IInv
<1>1. ASSUME NEW q \in Request, Execute(q) \/ Crash(q) PROVE q = r /\ pc[r] = "entry"
  <2>1. q = r
    BY <1>1, CallSteps, AdvanceFrame, AbortFrame, CommitFrame DEF OthersKept, venue
  <2>2. CASE EntryFilled(r) \/ EntryRaised(r)
    BY <2>1, <2>2 DEF EntryFilled, EntryRaised, Goto
  <2>3. CASE ~ (EntryFilled(r) \/ EntryRaised(r))
    BY <1>1, <2>1, <2>3
       DEF Execute, Begin, AcquireCap, AcquireProposal, ReplayCheck, AcquireRow, PreCheck, Refuse,
           StopAccepted, StopRaised, PlaceTargets, Commit, Crash, venue
  <2> QED BY <2>1, <2>2, <2>3
<1>2. ~ (Environment \/ UNCHANGED vars)
  BY EnvironmentFrame
<1>3. pc[r] = "entry"
  BY <1>1, <1>2 DEF Next
<1> QED BY <1>3 DEF NotYetSucceeded, Entering

\* No entry order follows a SUCCESS of the same proposal, whatever approvals race with it.
THEOREM FinalityTheorem == Spec => SuccessIsFinal
<1>1. IInv /\ [Next]_vars =>
        [\A r \in Request : sent'[r] /\ ~ sent[r] => ~ SucceededFor(ProposalOf[r])]_vars
  BY OrderStep
<1> QED BY <1>1, Invariant, PTL DEF Spec, SuccessIsFinal
-----------------------------------------------------------------------------
(* Refinement of PositionBook. *)

Completed == {p \in Proposal : SucceededFor(p)}

LEMMA BookInitially == Init => Book!BookInit
BY DEF Init, Book!BookInit, SucceededFor

\* A commit is the book's entry of a trade, protected or not.
LEMMA CommitEnters ==
  ASSUME IInv, NEW r \in Request, Commits(r)
  PROVE  Book!Complete(r) \/ Book!EnterUnprotected(r)
<1> USE DEF IInv
<1>1. pc[r] \in Entering /\ pc[r] \in InFlight
  BY CommitFrame DEF Entering, InFlight, HoldsCap, HoldsProposal, HoldsRow
<1>2. position[r] = "NONE" /\ execution[r] = "NONE"
  BY <1>1 DEF NothingCommitted
<1>3. Book!Room(r)
  <2>1. Cardinality(OpenPositions) < MaxOpen /\ ~ HasDuplicate(MarketFor(r))
    BY <1>1 DEF RoomKept
  <2>2. Book!Open = OpenPositions
    BY DEF Book!Open, OpenPositions
  <2>3. \A u \in OpenPositions : MarketOf[ProposalOf[u]] # MarketOf[ProposalOf[r]]
    BY <2>1 DEF HasDuplicate, MarketFor
  <2>4. \A S : Book!Cardinality(S) = Cardinality(S)
    BY DEF Book!Cardinality, Cardinality
  <2> HIDE DEF IInv
  <2> QED BY <2>1, <2>2, <2>3, <2>4 DEF Book!Room
<1>4. ProposalOf[r] \notin Completed
  BY <1>1 DEF NotYetSucceeded, Completed
<1>5. CASE pc[r] = "stop"
  <2>1. /\ position' = [position EXCEPT ![r] = "NEEDS_ATTENTION"]
        /\ execution' = [execution EXCEPT ![r] = "ENTRY_FILLED_SL_FAILED"]
    BY <1>5, CommitFrame
  <2>2. \A p : SucceededFor(p)' <=> SucceededFor(p)
    BY <1>2, <2>1 DEF SucceededFor, TypeOK
  <2>3. Completed' = Completed
    BY <2>2 DEF Completed
  <2> QED BY <1>2, <1>3, <1>4, <2>1, <2>3 DEF Book!EnterUnprotected, Completed
<1>6. CASE pc[r] = "commit"
  <2>1. /\ position' = [position EXCEPT ![r] = tx[r].position]
        /\ execution' = [execution EXCEPT ![r] = "SUCCESS"]
        /\ tx[r].position \in {"OPEN", "NEEDS_ATTENTION"}
    BY <1>6, CommitFrame DEF BufferReady
  <2>2. \A p : SucceededFor(p)' <=> SucceededFor(p) \/ p = ProposalOf[r]
    BY <1>2, <2>1 DEF SucceededFor, TypeOK
  <2>3. Completed' = Completed \cup {ProposalOf[r]}
    BY <2>2, ConstantsAssumption DEF Completed, ConstantsAssumption
  <2> QED BY <1>2, <1>3, <1>4, <2>1, <2>3 DEF Book!Complete, Completed
<1> QED BY <1>5, <1>6, CommitFrame

LEMMA BookStep == IInv /\ [Next]_vars => [Book!BookNext]_(Book!bookVars)
<1> SUFFICES ASSUME IInv, [Next]_vars PROVE [Book!BookNext]_(Book!bookVars)
  OBVIOUS
<1> USE DEF IInv
<1>1. ASSUME NEW r \in Request, Advances(r) \/ Aborts(r) PROVE UNCHANGED Book!bookVars
  <2>1. UNCHANGED <<position, execution>>
    BY <1>1, AdvanceFrame, AbortFrame
  <2> QED BY <2>1 DEF Book!bookVars, SucceededFor
<1>2. ASSUME NEW r \in Request, Commits(r) PROVE Book!BookNext
  BY <1>2, CommitEnters DEF Book!BookNext
<1>3. CASE Environment \/ UNCHANGED vars
  <2>1. UNCHANGED Completed
    BY <1>3, EnvironmentFrame DEF Completed, SucceededFor
  <2>2. ASSUME NEW r \in Request, FinalizeClose(r) PROVE Book!Close(r)
    BY <2>1, <2>2 DEF FinalizeClose, Tracked, Book!Close, Completed
  <2>3. ASSUME NEW r \in Request, FlagAttention(r) PROVE Book!Flag(r)
    BY <2>1, <2>3 DEF FlagAttention, Book!Flag, Completed
  <2>4. CASE \A r \in Request : ~ FinalizeClose(r) /\ ~ FlagAttention(r)
    <3>1. UNCHANGED position
      BY <1>3, <2>4 DEF Environment, SaveProposal, TimePasses, ReviewRead, ReviewWrite,
           ExpireOldProposals, RecordAck, AckLapses, ExchangeCloses, vars, tables
    <3> QED BY <2>1, <3>1 DEF Book!bookVars, Completed
  <2> QED BY <2>2, <2>3, <2>4 DEF Book!BookNext
<1> QED BY <1>1, <1>2, <1>3, CallSteps DEF Next

\* Every commit of the order path is a step the abstract book allows.
THEOREM BookTheorem == Spec => RefinesBook
BY BookInitially, BookStep, Invariant, PTL DEF Spec, RefinesBook, Book!BookSpec
=============================================================================
