--------------------------- MODULE OrderExecution ---------------------------
(***************************************************************************)
(* The futures order path of one project: the HTTP routes that approve,    *)
(* reject and execute a trade proposal, ExecutionService.execute with its  *)
(* two advisory locks and its row lock, the kill-switch gates that read    *)
(* shared tables, the single-use loss acknowledgement, the expiry sweep    *)
(* and the exchange-driven close of a position.                            *)
(*                                                                         *)
(* A Request is one call of POST .../proposals/{id}/execute: one database  *)
(* transaction, rolled back when the handler raises.  Its execution row,   *)
(* position and journal row are keyed by the request.  A Review is one     *)
(* call of .../approve or .../reject.                                      *)
(***************************************************************************)
EXTENDS Naturals, FiniteSets

CONSTANTS
  Request,      \* execute calls; each runs once
  Review,       \* approve and reject calls; each runs once
  Proposal,     \* rows of trade_proposals
  Market,       \* a symbol with a side (one side per symbol)
  ProposalOf,   \* the proposal a request executes
  MarketOf,     \* the market a proposal trades
  MaxOpen,      \* KillSwitchConfig.max_open_positions
  LossLimit,    \* KillSwitchConfig.block_after_consecutive_losses
  PastLosses,   \* losses in a row at the head of the journal, of earlier trades
  MaxAcks,      \* bound on acknowledgements an operator records
  None          \* "nobody holds the lock"

ASSUME ConstantsAssumption ==
  /\ IsFiniteSet(Request)
  /\ ProposalOf \in [Request -> Proposal]
  /\ MarketOf \in [Proposal -> Market]
  /\ MaxOpen \in Nat
  /\ LossLimit \in Nat
  /\ PastLosses \in Nat
  /\ MaxAcks \in Nat
  /\ None \notin Request

VARIABLES
  status,       \* committed trade_proposals.status
  pastExpiry,   \* the proposal's expiry time has passed
  execution,    \* committed trade_executions.execution_status
  position,     \* committed positions.status
  result,       \* committed trade_journal.result
  ack,          \* the app_settings row of the loss acknowledgement
  pc,           \* where each execute call stands
  born,         \* start order of the transactions (created_at of their rows)
  tx,           \* flushed but uncommitted writes of each execute call
  relied,       \* generation of the acknowledgement a call's checks relied on
  capLock,      \* holder of the POSITION_CAP advisory lock
  propLock,     \* holders of the PROPOSAL_EXECUTION advisory locks
  rowLock,      \* holders of the FOR UPDATE locks on trade_proposals
  review,       \* the approve and reject calls
  sent,         \* an entry order was sent for the request
  live,         \* exposure the request's entry order has on the exchange
  stopPlaced    \* the exchange accepted the request's stop-loss

tables  == <<status, pastExpiry, execution, position, result, ack>>
calls   == <<pc, born, tx, relied, capLock, propLock, rowLock>>
venue   == <<sent, live, stopPlaced>>
vars    == <<tables, calls, review, venue>>

-----------------------------------------------------------------------------
ProposalStatus ==
  {"ABSENT", "PENDING_APPROVAL", "BLOCKED_KILL_SWITCH", "APPROVED", "REJECTED",
   "EXPIRED", "EXECUTED", "EXECUTION_FAILED", "NEEDS_ATTENTION"}
ExecutionStatus == {"NONE", "FAILED", "ENTRY_FILLED", "SUCCESS", "ENTRY_FILLED_SL_FAILED"}
PositionStatus  == {"NONE", "OPEN", "NEEDS_ATTENTION", "CLOSED"}
JournalResult   == {"NONE", "OPEN", "LOSS", "NOT_LOSS"}

\* The control points of execute(), in program order: each lock is held from
\* the point after its acquisition to the end of the transaction.
HoldsRow      == {"checks", "entry", "stop", "targets", "commit"}
HoldsProposal == HoldsRow \cup {"replay", "row_lock"}
HoldsCap      == HoldsProposal \cup {"proposal_lock"}
InFlight      == HoldsCap \cup {"cap_lock"}
Ended         == {"replayed", "refused", "entry_failed", "unprotected", "executed", "crashed"}

Tx == [status: ProposalStatus, execution: ExecutionStatus, position: PositionStatus,
       result: JournalResult, burn: BOOLEAN]
NoTx == [status |-> "ABSENT", execution |-> "NONE", position |-> "NONE",
         result |-> "NONE", burn |-> FALSE]

Decision == {"APPROVED", "EXPIRED", "REJECTED"}
ReviewCall == [at : {"read", "done"}, proposal : Proposal, decision : Decision]
NoReview == [at |-> "idle"]

-----------------------------------------------------------------------------
(* What the gates read. *)

MarketFor(r)     == MarketOf[ProposalOf[r]]
OpenPositions    == {r \in Request : position[r] = "OPEN"}
Tracked(r)       == position[r] \in {"OPEN", "NEEDS_ATTENTION"}
Journalled       == {r \in Request : result[r] # "NONE"}
SucceededFor(p)  == \E q \in Request : ProposalOf[q] = p /\ execution[q] = "SUCCESS"

\* Mutant: the duplicate check looks for flagged positions instead of open ones.
HasDuplicateFlagged(m) ==
  \E q \in Request : position[q] = "NEEDS_ATTENTION" /\ MarketFor(q) = m

HasDuplicate(m)  == \E q \in OpenPositions : MarketFor(q) = m

\* The newest LossLimit journal rows exist and are all losses.  A row counts by
\* created_at, an OPEN row among them breaks the streak.
LossStreak ==
  /\ Cardinality(Journalled) + PastLosses >= LossLimit
  /\ \A r \in Journalled :
       Cardinality({q \in Journalled : born[q] > born[r]}) < LossLimit => result[r] = "LOSS"

\* Mutant: the cap is read as the largest count that still lets a trade in.
KillSwitchAtCap ==
  /\ Cardinality(OpenPositions) <= MaxOpen
  /\ LossStreak => ack.active

\* The kill-switch gates that read shared state; its remaining gates depend on
\* the proposal's own figures and are part of PreCheck's free choice.
KillSwitchPasses ==
  /\ Cardinality(OpenPositions) < MaxOpen
  /\ LossStreak => ack.active

-----------------------------------------------------------------------------
(* One execute call. *)

\* Mutant: the exit leaks a session-scoped cap lock.
EndTxLeaksCap(r, outcome) ==
  /\ pc' = [pc EXCEPT ![r] = outcome]
  /\ tx' = [tx EXCEPT ![r] = NoTx]
  /\ propLock' = [p \in Proposal |-> IF propLock[p] = r THEN None ELSE propLock[p]]
  /\ rowLock' = [p \in Proposal |-> IF rowLock[p] = r THEN None ELSE rowLock[p]]
  /\ UNCHANGED capLock

\* The transaction ends: its locks are released and its buffer is dropped.
EndTx(r, outcome) ==
  /\ pc' = [pc EXCEPT ![r] = outcome]
  /\ tx' = [tx EXCEPT ![r] = NoTx]
  /\ capLock' = IF capLock = r THEN None ELSE capLock
  /\ propLock' = [p \in Proposal |-> IF propLock[p] = r THEN None ELSE propLock[p]]
  /\ rowLock' = [p \in Proposal |-> IF rowLock[p] = r THEN None ELSE rowLock[p]]

Rollback(r, outcome) ==
  /\ EndTx(r, outcome)
  /\ UNCHANGED <<tables, born, relied, review>>

\* COMMIT of the writes w.
CommitTx(r, w, outcome) ==
  /\ status' = [status EXCEPT ![ProposalOf[r]] = w.status]
  /\ execution' = [execution EXCEPT ![r] = w.execution]
  /\ position' = [position EXCEPT ![r] = w.position]
  /\ result' = [result EXCEPT ![r] = w.result]
  /\ ack' = IF w.burn THEN [ack EXCEPT !.active = FALSE] ELSE ack
  /\ EndTx(r, outcome)
  /\ UNCHANGED <<pastExpiry, born, relied, review>>

Goto(r, from, to) ==
  /\ pc[r] = from
  /\ pc' = [pc EXCEPT ![r] = to]

\* The route's first statement opens the transaction, whose start time is the
\* created_at of every row it inserts.
Begin(r) ==
  /\ Goto(r, "idle", "cap_lock")
  /\ born' = [born EXCEPT ![r] = Cardinality({q \in Request : pc[q] # "idle"}) + 1]
  /\ UNCHANGED <<tables, tx, relied, capLock, propLock, rowLock, review, venue>>

\* Mutant: the lock statement does not wait, as on a bind that is not Postgres.
AcquireCapNoWait(r) ==
  /\ Goto(r, "cap_lock", "proposal_lock")
  /\ capLock' = r
  /\ UNCHANGED <<tables, born, tx, relied, propLock, rowLock, review, venue>>

AcquireCap(r) ==
  /\ Goto(r, "cap_lock", "proposal_lock")
  /\ capLock = None
  /\ capLock' = r
  /\ UNCHANGED <<tables, born, tx, relied, propLock, rowLock, review, venue>>

AcquireProposal(r) ==
  /\ Goto(r, "proposal_lock", "replay")
  /\ propLock[ProposalOf[r]] = None
  /\ propLock' = [propLock EXCEPT ![ProposalOf[r]] = r]
  /\ UNCHANGED <<tables, born, tx, relied, capLock, rowLock, review, venue>>

\* Mutant: the idempotency check is left to the proposal's status.
ReplayUnchecked(r) ==
  /\ Goto(r, "replay", "row_lock")
  /\ UNCHANGED <<tables, born, tx, relied, capLock, propLock, rowLock, review, venue>>

\* A SUCCESS execution of the proposal is returned instead of a second order.
ReplayCheck(r) ==
  /\ pc[r] = "replay"
  /\ IF SucceededFor(ProposalOf[r])
       THEN Rollback(r, "replayed")
       ELSE /\ Goto(r, "replay", "row_lock")
            /\ UNCHANGED <<tables, born, tx, relied, capLock, propLock, rowLock, review>>
  /\ UNCHANGED venue

AcquireRow(r) ==
  /\ Goto(r, "row_lock", "checks")
  /\ rowLock[ProposalOf[r]] = None
  /\ rowLock' = [rowLock EXCEPT ![ProposalOf[r]] = r]
  /\ UNCHANGED <<tables, born, tx, relied, capLock, propLock, review, venue>>

\* The checks on shared state; any of the others (mode, filters, levels, risk
\* figures, mark price) may fail too, which is Refuse.
ChecksPass(r) ==
  /\ status[ProposalOf[r]] = "APPROVED"
  /\ ~ pastExpiry[ProposalOf[r]]
  /\ ~ HasDuplicate(MarketFor(r))
  /\ KillSwitchPasses

PreCheck(r) ==
  /\ Goto(r, "checks", "entry")
  /\ ChecksPass(r)
  /\ relied' = [relied EXCEPT ![r] = IF LossStreak THEN ack.gen ELSE 0]
  /\ UNCHANGED <<tables, born, tx, capLock, propLock, rowLock, review, venue>>

\* A check fails, or the mark price or the filters fail just before the entry:
\* ExecutionError, HTTP 409, rollback.
Refuse(r) ==
  /\ pc[r] \in {"checks", "entry"}
  /\ Rollback(r, "refused")
  /\ UNCHANGED venue

\* Mutant: the acknowledgement outlives the order it authorised.
BurnsNever(r) == FALSE

\* consume_ack burns whatever acknowledgement is valid at that moment.
Burns(r) == relied[r] # 0 /\ ack.active

EntryFilled(r) ==
  /\ Goto(r, "entry", "stop")
  /\ sent' = [sent EXCEPT ![r] = TRUE]
  /\ live' = [live EXCEPT ![r] = "LIVE"]
  /\ tx' = [tx EXCEPT ![r] = [@ EXCEPT !.execution = "ENTRY_FILLED", !.position = "OPEN",
                                       !.burn = Burns(r)]]
  /\ UNCHANGED <<tables, born, relied, capLock, propLock, rowLock, review, stopPlaced>>

\* The adapter raises: the order was refused, or it filled and the answer was
\* lost.  The FAILED row, EXECUTION_FAILED and the burnt acknowledgement are
\* flushed, then ExecutionError rolls the transaction back.
EntryRaised(r) ==
  /\ pc[r] = "entry"
  /\ sent' = [sent EXCEPT ![r] = TRUE]
  /\ \E exposure \in {"NONE", "LIVE"} : live' = [live EXCEPT ![r] = exposure]
  /\ Rollback(r, "entry_failed")
  /\ UNCHANGED stopPlaced

StopAccepted(r) ==
  /\ Goto(r, "stop", "targets")
  /\ stopPlaced' = [stopPlaced EXCEPT ![r] = TRUE]
  /\ tx' = [tx EXCEPT ![r] = [@ EXCEPT !.execution = "SUCCESS"]]
  /\ UNCHANGED <<tables, born, relied, capLock, propLock, rowLock, review, sent, live>>

\* Mutants: a stop failure that is swallowed, rolled back, or stored in the wrong column.
StopSwallowed(r) ==
  /\ pc[r] = "stop"
  /\ CommitTx(r, [tx[r] EXCEPT !.status = "EXECUTED", !.execution = "SUCCESS"], "unprotected")
  /\ UNCHANGED venue

StopRolledBack(r) ==
  /\ pc[r] = "stop"
  /\ Rollback(r, "unprotected")
  /\ UNCHANGED venue

StopMisfiled(r) ==
  /\ pc[r] = "stop"
  /\ CommitTx(r, [tx[r] EXCEPT !.status = "NEEDS_ATTENTION",
                               !.position = "ENTRY_FILLED_SL_FAILED"], "unprotected")
  /\ UNCHANGED venue

\* The stop-loss call raises: the trade stays tracked, and this is committed
\* before the error is raised.
StopRaised(r) ==
  /\ pc[r] = "stop"
  /\ CommitTx(r, [tx[r] EXCEPT !.status = "NEEDS_ATTENTION", !.position = "NEEDS_ATTENTION",
                               !.execution = "ENTRY_FILLED_SL_FAILED"], "unprotected")
  /\ UNCHANGED venue

\* Take-profit orders are best effort: one that fails flags the position.
PlaceTargets(r) ==
  /\ Goto(r, "targets", "commit")
  /\ \E flag \in {"OPEN", "NEEDS_ATTENTION"} :
       tx' = [tx EXCEPT ![r] = [@ EXCEPT !.position = flag, !.status = "EXECUTED",
                                         !.result = "OPEN"]]
  /\ UNCHANGED <<tables, born, relied, capLock, propLock, rowLock, review, venue>>

Commit(r) ==
  /\ pc[r] = "commit"
  /\ CommitTx(r, tx[r], "executed")
  /\ UNCHANGED venue

\* The process dies or loses its connection anywhere in the transaction.
Crash(r) ==
  /\ pc[r] \in InFlight
  /\ Rollback(r, "crashed")
  /\ UNCHANGED venue

Execute(r) ==
  \/ Begin(r) \/ AcquireCap(r) \/ AcquireProposal(r) \/ ReplayCheck(r)
  \/ AcquireRow(r) \/ PreCheck(r) \/ Refuse(r) \/ EntryFilled(r) \/ EntryRaised(r)
  \/ StopAccepted(r) \/ StopRaised(r) \/ PlaceTargets(r) \/ Commit(r)

-----------------------------------------------------------------------------
(* The other writers of the same tables. *)

\* A run's compile step stores its proposal, blocked when the kill switch is armed.
SaveProposal(p) ==
  /\ status[p] = "ABSENT"
  /\ \E s \in {"PENDING_APPROVAL", "BLOCKED_KILL_SWITCH"} :
       /\ s = "PENDING_APPROVAL" => KillSwitchPasses
       /\ status' = [status EXCEPT ![p] = s]
  /\ UNCHANGED <<pastExpiry, execution, position, result, ack, calls, review, venue>>

\* approve and reject read the status first ...
ReviewRead(v) ==
  /\ review[v].at = "idle"
  /\ \E p \in Proposal, d \in Decision :
       /\ status[p] = "PENDING_APPROVAL"
       /\ (d = "APPROVED") => ~ pastExpiry[p]
       /\ (d = "EXPIRED") => pastExpiry[p]
       /\ review' = [review EXCEPT ![v] = [at |-> "read", proposal |-> p, decision |-> d]]
  /\ UNCHANGED <<tables, calls, venue>>

\* ... and then UPDATE by id alone, waiting for the row lock.
ReviewWrite(v) ==
  /\ review[v].at = "read"
  /\ rowLock[review[v].proposal] = None
  /\ status' = [status EXCEPT ![review[v].proposal] = review[v].decision]
  /\ review' = [review EXCEPT ![v].at = "done"]
  /\ UNCHANGED <<pastExpiry, execution, position, result, ack, calls, venue>>

TimePasses(p) ==
  /\ ~ pastExpiry[p] /\ status[p] # "ABSENT"
  /\ pastExpiry' = [pastExpiry EXCEPT ![p] = TRUE]
  /\ UNCHANGED <<status, execution, position, result, ack, calls, review, venue>>

\* The beat task's UPDATE of every stale pending row.
Stale == {p \in Proposal : status[p] = "PENDING_APPROVAL" /\ pastExpiry[p]}

\* Mutant: the sweep's UPDATE is never committed.
ExpireUncommitted ==
  /\ Stale # {}
  /\ \A p \in Stale : rowLock[p] = None
  /\ UNCHANGED vars

ExpireOldProposals ==
  /\ Stale # {}
  /\ \A p \in Stale : rowLock[p] = None
  /\ status' = [p \in Proposal |-> IF p \in Stale THEN "EXPIRED" ELSE status[p]]
  /\ UNCHANGED <<pastExpiry, execution, position, result, ack, calls, review, venue>>

\* The operator's command replaces the acknowledgement; an in-flight burn holds its row.
AckRowFree == \A r \in Request : ~ tx[r].burn

RecordAck ==
  /\ ack.gen < MaxAcks
  /\ AckRowFree
  /\ ack' = [gen |-> ack.gen + 1, active |-> TRUE]
  /\ UNCHANGED <<status, pastExpiry, execution, position, result, calls, review, venue>>

AckLapses ==
  /\ ack.active
  /\ ack' = [ack EXCEPT !.active = FALSE]
  /\ UNCHANGED <<status, pastExpiry, execution, position, result, calls, review, venue>>

\* A stop, a target or a human closes the exposure on the exchange.
ExchangeCloses(r) ==
  /\ live[r] = "LIVE"
  /\ live' = [live EXCEPT ![r] = "FLAT"]
  /\ UNCHANGED <<tables, calls, review, sent, stopPlaced>>

\* The monitor finds the market flat and finalises the position and, when the
\* trade has one, its journal row.
FinalizeClose(r) ==
  /\ Tracked(r)
  /\ \A q \in Request : MarketFor(q) = MarketFor(r) => live[q] # "LIVE"
  /\ position' = [position EXCEPT ![r] = "CLOSED"]
  /\ \E label \in {"LOSS", "NOT_LOSS"} :
       result' = IF result[r] = "NONE" THEN result ELSE [result EXCEPT ![r] = label]
  /\ UNCHANGED <<status, pastExpiry, execution, ack, calls, review, venue>>

\* The monitor finds protection missing, or a reported close it cannot confirm.
FlagAttention(r) ==
  /\ position[r] = "OPEN"
  /\ position' = [position EXCEPT ![r] = "NEEDS_ATTENTION"]
  /\ UNCHANGED <<status, pastExpiry, execution, result, ack, calls, review, venue>>

-----------------------------------------------------------------------------
Init ==
  /\ status = [p \in Proposal |-> "ABSENT"]
  /\ pastExpiry = [p \in Proposal |-> FALSE]
  /\ execution = [r \in Request |-> "NONE"]
  /\ position = [r \in Request |-> "NONE"]
  /\ result = [r \in Request |-> "NONE"]
  /\ ack = [gen |-> 0, active |-> FALSE]
  /\ pc = [r \in Request |-> "idle"]
  /\ born = [r \in Request |-> 0]
  /\ tx = [r \in Request |-> NoTx]
  /\ relied = [r \in Request |-> 0]
  /\ capLock = None
  /\ propLock = [p \in Proposal |-> None]
  /\ rowLock = [p \in Proposal |-> None]
  /\ review = [v \in Review |-> NoReview]
  /\ sent = [r \in Request |-> FALSE]
  /\ live = [r \in Request |-> "NONE"]
  /\ stopPlaced = [r \in Request |-> FALSE]

Environment ==
  \/ \E p \in Proposal : SaveProposal(p) \/ TimePasses(p)
  \/ \E v \in Review : ReviewRead(v) \/ ReviewWrite(v)
  \/ ExpireOldProposals \/ RecordAck \/ AckLapses
  \/ \E r \in Request : ExchangeCloses(r) \/ FinalizeClose(r) \/ FlagAttention(r)

Next ==
  \/ \E r \in Request : Execute(r) \/ Crash(r)
  \/ Environment

Spec == Init /\ [][Next]_vars

-----------------------------------------------------------------------------
(* Properties. *)

\* Every row, lock, buffer and call record has its type.
TypeOK ==
  /\ status \in [Proposal -> ProposalStatus]
  /\ pastExpiry \in [Proposal -> BOOLEAN]
  /\ execution \in [Request -> ExecutionStatus]
  /\ position \in [Request -> PositionStatus]
  /\ result \in [Request -> JournalResult]
  /\ ack \in [gen : 0 .. MaxAcks, active : BOOLEAN]
  /\ pc \in [Request -> {"idle"} \cup InFlight \cup Ended]
  /\ born \in [Request -> Nat]
  /\ tx \in [Request -> Tx]
  /\ relied \in [Request -> 0 .. MaxAcks]
  /\ capLock \in Request \cup {None}
  /\ propLock \in [Proposal -> Request \cup {None}]
  /\ rowLock \in [Proposal -> Request \cup {None}]
  /\ review \in [Review -> ReviewCall \cup {NoReview}]
  /\ sent \in [Request -> BOOLEAN]
  /\ live \in [Request -> {"NONE", "LIVE", "FLAT"}]
  /\ stopPlaced \in [Request -> BOOLEAN]

\* The position cap survives concurrent execute calls: the count read by the
\* kill switch is still below the cap when the new position is committed.
CapRespected == Cardinality(OpenPositions) <= MaxOpen

\* Concurrent execute calls never leave two OPEN positions in one market.
OneOpenPerMarket ==
  \A r, q \in OpenPositions : MarketFor(r) = MarketFor(q) => r = q

\* A committed SUCCESS row stands for a filled entry whose stop-loss the
\* exchange accepted, however the call was interleaved or interrupted.
SuccessIsProtected ==
  \A r \in Request : execution[r] = "SUCCESS" => sent[r] /\ stopPlaced[r]

\* Exposure on the exchange is a tracked position once its call has ended,
\* unless the process died after the fill or the entry's answer was lost.
ExposureIsTracked ==
  \A r \in Request :
    live[r] = "LIVE" /\ pc[r] \in Ended \ {"crashed", "entry_failed"} => Tracked(r)

\* No entry order is sent for a proposal that already has a SUCCESS execution,
\* even when a stale approval makes it APPROVED again.
SuccessIsFinal ==
  [][\A r \in Request : sent'[r] /\ ~ sent[r] => ~ SucceededFor(ProposalOf[r])]_vars

\* One acknowledgement lets at most one trade through to the committed book.
OneTradePerAck ==
  \A r, q \in Request :
    /\ relied[r] # 0 /\ relied[r] = relied[q]
    /\ position[r] # "NONE" /\ position[q] # "NONE"
    => r = q

\* One acknowledgement authorises one order attempt (execution_service.py:329-332).
OneAttemptPerAck ==
  \A r, q \in Request : relied[r] # 0 /\ relied[r] = relied[q] /\ sent[r] /\ sent[q] => r = q

\* A proposal whose stop-loss failed is never sent to the exchange again
\* (execution_service.py:397-398).
UnprotectedIsNotReplayed ==
  [][\A r, q \in Request :
       /\ ProposalOf[r] = ProposalOf[q]
       /\ execution[q] = "ENTRY_FILLED_SL_FAILED"
       /\ ~ sent[r]
       => ~ sent'[r]]_vars

-----------------------------------------------------------------------------
\* The committed book refines PositionBook: every commit is one of its steps.
Book == INSTANCE PositionBook WITH
  Trade <- Request, book <- position, complete <- {p \in Proposal : SucceededFor(p)}
RefinesBook == Book!BookSpec

-----------------------------------------------------------------------------
(* Liveness: the event loop runs every call on, the database grants a lock   *)
(* that stays free, the beat scheduler keeps sweeping.                        *)
Fairness ==
  /\ \A r \in Request : WF_vars(pc[r] # "idle" /\ Execute(r))
  /\ \A v \in Review : WF_vars(ReviewWrite(v))
  /\ WF_vars(ExpireOldProposals)

FairSpec == Spec /\ Fairness

\* Every execute call ends, and every approve or reject that waits for the row gets it:
\* locks taken in the order POSITION_CAP, PROPOSAL_EXECUTION, row, and released by every
\* exit, block nobody for ever.
CallsEnd ==
  /\ \A r \in Request : pc[r] \in InFlight ~> pc[r] \in Ended
  /\ \A v \in Review : review[v].at = "read" ~> review[v].at = "done"

\* A stale pending proposal does not stay pending.
StaleLeavesPending == \A p \in Proposal : p \in Stale ~> p \notin Stale
=============================================================================
