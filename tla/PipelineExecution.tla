------------------------- MODULE PipelineExecution -------------------------
(***************************************************************************)
(* The second order path.  A workflow run executed by a Celery worker      *)
(* compiles a proposal and may execute it by itself (winrate gate), or is  *)
(* resumed by a human and executes an approved one (exchange_execute); the *)
(* place_order branch of the execute route does the same over HTTP.  None  *)
(* of them takes the locks of ExecutionService.  They are composed here    *)
(* with the calls, reviews, sweep and closes of OrderExecution, over the   *)
(* same tables and the same exchange.                                      *)
(*                                                                         *)
(* A delivery is one run of that code: one database transaction from its   *)
(* last commit to the commit at the end of the run.  Calls are the         *)
(* remaining requests, served by ExecutionService.                         *)
(***************************************************************************)
EXTENDS OrderExecution

\* How a request gets to the exchange.
Path == {"service", "auto", "resume", "route"}

CONSTANT PathMixes    \* which requests may come together on which paths

ASSUME PathAssumption == PathMixes \subseteq [Request -> Path]

VARIABLE path         \* the path each takes, fixed for the behaviour

pipelineVars == <<vars, path>>

Call     == {r \in Request : path[r] = "service"}
Delivery == Request \ Call

\* The control points of a delivery: before its execution row is inserted, and
\* from the INSERT to the end.
Unflushed  == {"load", "compile", "gate", "resume", "promote", "select", "preflight",
               "order", "protect", "record"}
Inserted   == {"refer", "burn", "settle", "rest"}
OnTheWay   == Unflushed \cup Inserted
Settled    == Ended \cup {"finished", "conflict"}
First(d)   == CASE path[d] = "auto"   -> "load"
                [] path[d] = "resume" -> "resume"
                [] path[d] = "route"  -> "select"

-----------------------------------------------------------------------------
(* The transaction of a delivery. *)

\* The proposal as the delivery's own transaction sees it.
Seen(d) == IF tx[d].status = "ABSENT" THEN status[ProposalOf[d]] ELSE tx[d].status

\* COMMIT writes the columns the session has changed, and only those; a
\* proposal compiled again gets a new expiry time.
CommitDelivery(d) ==
  /\ status' = [status EXCEPT ![ProposalOf[d]] = Seen(d)]
  /\ pastExpiry' = [pastExpiry EXCEPT ![ProposalOf[d]] =
                      @ /\ path[d] # "auto"]
  /\ execution' = [execution EXCEPT ![d] = tx[d].execution]
  /\ position' = [position EXCEPT ![d] = tx[d].position]
  /\ result' = [result EXCEPT ![d] = tx[d].result]
  /\ ack' = IF tx[d].burn THEN [ack EXCEPT !.active = FALSE] ELSE ack
  /\ EndTx(d, "finished")
  /\ UNCHANGED <<born, relied, review, venue>>

StartDelivery(d) ==
  /\ Goto(d, "idle", First(d))
  /\ path[d] = "resume" => status[ProposalOf[d]] # "ABSENT"
  /\ born' = [born EXCEPT ![d] = Cardinality({q \in Request : pc[q] # "idle"}) + 1]
  /\ UNCHANGED <<tables, tx, relied, capLock, propLock, rowLock, review, venue>>

\* compile_proposal asks the kill switch and reads the run's newest row: it will be
\* overwritten whatever its status is, or a first one inserted.  A status equal to
\* the one read is left out of the UPDATE, even if the row gets another one first.
LoadProposal(d) ==
  /\ Goto(d, "load", "compile")
  /\ \E s \in {"PENDING_APPROVAL", "BLOCKED_KILL_SWITCH"} :
       /\ s = "PENDING_APPROVAL" => KillSwitchPasses
       /\ tx' = [tx EXCEPT ![d].status = IF s = status[ProposalOf[d]] THEN "ABSENT" ELSE s]
  /\ UNCHANGED <<tables, born, relied, capLock, propLock, rowLock, review, venue>>

\* The UPDATE or INSERT; the row stays locked until the run ends.
Compile(d) ==
  /\ Goto(d, "compile", "gate")
  /\ rowLock[ProposalOf[d]] = None
  /\ rowLock' = [rowLock EXCEPT ![ProposalOf[d]] = d]
  /\ UNCHANGED <<tables, born, tx, relied, capLock, propLock, review, venue>>

\* The winrate gate executes a pending proposal at once ...
GateExecutes(d) ==
  /\ Goto(d, "gate", "preflight")
  /\ Seen(d) = "PENDING_APPROVAL"
  /\ ~ HasDuplicate(MarketFor(d))
  /\ tx' = [tx EXCEPT ![d].status = "APPROVED"]
  /\ UNCHANGED <<tables, born, relied, capLock, propLock, rowLock, review, venue>>

\* ... or leaves it to a human, skips the trade, or finds nothing to execute.
GateWaits(d) ==
  /\ pc[d] = "gate"
  /\ CommitDelivery(d)

Approvable == {"PENDING_APPROVAL", "BLOCKED_KILL_SWITCH"}

\* Mutant: the preflight trusts the proposal's status and does not look for an
\* execution of the proposal.
PreflightStatusOnly(d) ==
  /\ path[d] = "auto" \/ ~ pastExpiry[ProposalOf[d]]
  /\ ~ HasDuplicate(MarketFor(d))
  /\ KillSwitchPasses

\* prepare_execution_plan, as far as it reads shared state; its other checks
\* (levels, filters, size) are the free choice to fail.
PreflightPasses(d) ==
  /\ path[d] = "auto" \/ ~ pastExpiry[ProposalOf[d]]
  /\ ~ SucceededFor(ProposalOf[d])
  /\ ~ HasDuplicate(MarketFor(d))
  /\ KillSwitchPasses

\* resume_approved of a run that waited in its warm-up reads the proposal and
\* checks it; any other resume, or a failed check, leaves it as it is.
PromoteRead(d) ==
  /\ pc[d] = "resume"
  /\ \/ /\ status[ProposalOf[d]] \in Approvable
        /\ PreflightPasses(d)
        /\ pc' = [pc EXCEPT ![d] = "promote"]
     \/ pc' = [pc EXCEPT ![d] = "select"]
  /\ UNCHANGED <<tables, born, tx, relied, capLock, propLock, rowLock, review, venue>>

\* The UPDATE is by primary key; execute() commits it when the run starts again.
PromoteWrite(d) ==
  /\ Goto(d, "promote", "select")
  /\ rowLock[ProposalOf[d]] = None
  /\ status' = [status EXCEPT ![ProposalOf[d]] = "APPROVED"]
  /\ UNCHANGED <<pastExpiry, execution, position, result, ack, born, tx, relied,
                 capLock, propLock, rowLock, review, venue>>

\* exchange_execute and the route read an APPROVED proposal, without a lock.
Select(d) ==
  /\ pc[d] = "select"
  /\ \/ /\ status[ProposalOf[d]] = "APPROVED"
        /\ pc' = [pc EXCEPT ![d] = "preflight"]
        /\ UNCHANGED <<tables, born, tx, relied, capLock, propLock, rowLock, review, venue>>
     \/ /\ status[ProposalOf[d]] # "APPROVED"
        /\ CommitDelivery(d)

PreflightPass(d) ==
  /\ Goto(d, "preflight", "order")
  /\ PreflightPasses(d)
  /\ relied' = [relied EXCEPT ![d] = IF LossStreak THEN ack.gen ELSE 0]
  /\ UNCHANGED <<tables, born, tx, capLock, propLock, rowLock, review, venue>>

\* A failed preflight rejects the run's proposal; the route only answers 409.
PreflightFail(d) ==
  /\ pc[d] = "preflight"
  /\ IF path[d] = "route"
       THEN Rollback(d, "refused")
       ELSE /\ rowLock[ProposalOf[d]] \in {None, d}
            /\ rowLock' = [rowLock EXCEPT ![ProposalOf[d]] = d]
            /\ tx' = [tx EXCEPT ![d].status = "REJECTED"]
            /\ pc' = [pc EXCEPT ![d] = "rest"]
            /\ UNCHANGED <<tables, born, relied, capLock, propLock, review>>
  /\ UNCHANGED venue

-----------------------------------------------------------------------------
(* place_order through the futures adapter. *)

OrderFilled(d) ==
  /\ Goto(d, "order", "protect")
  /\ sent' = [sent EXCEPT ![d] = TRUE]
  /\ live' = [live EXCEPT ![d] = "LIVE"]
  /\ UNCHANGED <<tables, born, tx, relied, capLock, propLock, rowLock, review, stopPlaced>>

\* Blocked by the trading mode, refused by the exchange, or filled with the
\* answer lost: the caller sees FAILED.
OrderFails(d) ==
  /\ Goto(d, "order", "record")
  /\ \E reached \in BOOLEAN, exposure \in {"NONE", "LIVE"} :
       /\ exposure = "LIVE" => reached
       /\ sent' = [sent EXCEPT ![d] = reached]
       /\ live' = [live EXCEPT ![d] = exposure]
  /\ tx' = [tx EXCEPT ![d].execution = "FAILED"]
  /\ UNCHANGED <<tables, born, relied, capLock, propLock, rowLock, review, stopPlaced>>

\* Mutant: a stop-loss that fails is only a warning, as on the ccxt path.
ProtectWarns(d) ==
  /\ Goto(d, "protect", "record")
  /\ \E accepted \in BOOLEAN :
       /\ stopPlaced' = [stopPlaced EXCEPT ![d] = accepted]
       /\ tx' = [tx EXCEPT ![d].execution = "SUCCESS"]
  /\ UNCHANGED <<tables, born, relied, capLock, propLock, rowLock, review, sent, live>>

\* The stop-loss decides between SUCCESS and ENTRY_FILLED_SL_FAILED; targets
\* are best effort and change nothing.
Protect(d) ==
  /\ Goto(d, "protect", "record")
  /\ \E accepted \in BOOLEAN :
       /\ stopPlaced' = [stopPlaced EXCEPT ![d] = accepted]
       /\ tx' = [tx EXCEPT ![d].execution =
                   IF accepted THEN "SUCCESS" ELSE "ENTRY_FILLED_SL_FAILED"]
  /\ UNCHANGED <<tables, born, relied, capLock, propLock, rowLock, review, sent, live>>

-----------------------------------------------------------------------------
(* The rows of an order.  Postgres locks: an UPDATE of a proposal, and the   *)
(* service's SELECT FOR UPDATE, make rowLock's holder exclude each other; the *)
(* foreign key of an inserted execution takes FOR KEY SHARE on the proposal,  *)
(* which only a FOR UPDATE excludes.                                          *)

\* An uncommitted SUCCESS row in the unique index.
InIndex(r) ==
  tx[r].execution = "SUCCESS" /\ pc[r] \in Inserted \cup {"targets", "commit"}

\* An insert of SUCCESS waits for another one of its proposal to be committed
\* or rolled back.
SuccessInFlight(r) ==
  \E q \in Request \ {r} : ProposalOf[q] = ProposalOf[r] /\ InIndex(q)

\* The deliveries that have inserted an execution share the proposal's row.
KeyShared(p) ==
  \E d \in Delivery : ProposalOf[d] = p /\ pc[d] \in Inserted \ {"refer"}

\* Mutant: no unique index on the SUCCESS executions of a proposal.
IndexAllowsAll(r) == TRUE

\* uq_trade_executions_proposal_success.
IndexAllows(r) == ~ SucceededFor(ProposalOf[r])

\* Mutants: the row keeps the state before the stop-loss, or the result's
\* status is stored in the position's column.
RecordedBeforeStop(d) ==
  [tx[d] EXCEPT !.status = "EXECUTED",
                !.execution = IF @ \in {"SUCCESS", "FAILED"} THEN @ ELSE "ENTRY_FILLED",
                !.position = IF tx[d].execution = "SUCCESS" THEN "OPEN" ELSE "NONE"]

RecordedMisfiled(d) ==
  [tx[d] EXCEPT !.status = "EXECUTION_FAILED", !.position = tx[d].execution]

\* What the caller of place_order writes: a position and a journal row for
\* SUCCESS alone.  The route leaves the proposal as it is.
Recorded(d) ==
  LET success == tx[d].execution = "SUCCESS"
      byRun   == path[d] # "route"
  IN [status    |-> CASE byRun /\ success   -> "EXECUTED"
                      [] byRun /\ ~ success -> "EXECUTION_FAILED"
                      [] ~ byRun            -> tx[d].status,
      execution |-> tx[d].execution,
      position  |-> IF success THEN "OPEN" ELSE "NONE",
      result    |-> IF success THEN "OPEN" ELSE "NONE",
      burn      |-> tx[d].burn]

\* The INSERT of the execution enters the index first ...
Insert(d) ==
  /\ Goto(d, "record", "refer")
  /\ tx[d].execution = "SUCCESS" => ~ SuccessInFlight(d) /\ IndexAllows(d)
  /\ UNCHANGED <<tables, born, tx, relied, capLock, propLock, rowLock, review, venue>>

\* ... which may refuse the row of an order that has filled: everything the
\* delivery wrote is rolled back.
InsertConflict(d) ==
  /\ pc[d] = "record"
  /\ tx[d].execution = "SUCCESS" /\ ~ SuccessInFlight(d) /\ ~ IndexAllows(d)
  /\ Rollback(d, "conflict")
  /\ UNCHANGED venue

\* A run consumes the acknowledgement its preflight relied on once an order has reached
\* the exchange; the route keeps it.
Consumes(d) == path[d] # "route" /\ tx[d].execution # "FAILED" /\ relied[d] # 0

\* The foreign key then waits for a FOR UPDATE on the proposal, and for no other lock.
Refer(d) ==
  /\ Goto(d, "refer", IF Consumes(d) THEN "burn" ELSE "settle")
  /\ rowLock[ProposalOf[d]] \notin Call
  /\ UNCHANGED <<tables, born, tx, relied, capLock, propLock, rowLock, review, venue>>

BurnAck(d) ==
  /\ Goto(d, "burn", "settle")
  /\ Burns(d) => AckRowFree
  /\ tx' = [tx EXCEPT ![d].burn = Burns(d)]
  /\ UNCHANGED <<tables, born, relied, capLock, propLock, rowLock, review, venue>>

\* Position and journal row; a run also updates the proposal, for which a
\* resumed one waits only now.
Settle(d) ==
  /\ Goto(d, "settle", "rest")
  /\ tx' = [tx EXCEPT ![d] = Recorded(d)]
  /\ IF path[d] = "route"
       THEN UNCHANGED rowLock
       ELSE /\ rowLock[ProposalOf[d]] \in {None, d}
            /\ rowLock' = [rowLock EXCEPT ![ProposalOf[d]] = d]
  /\ UNCHANGED <<tables, born, relied, capLock, propLock, review, venue>>

\* The remaining steps end in completion, pause or failure: each commits.
FinishRun(d) ==
  /\ pc[d] = "rest"
  /\ CommitDelivery(d)

\* The worker is lost or killed at its time limit, the connection breaks.
CrashDelivery(d) ==
  /\ pc[d] \in OnTheWay
  /\ Rollback(d, "crashed")
  /\ UNCHANGED venue

-----------------------------------------------------------------------------
(* Deadlocks between these statements, and Postgres's detector.               *)

\* q holds what r waits for: the index, the row behind the foreign key, the
\* acknowledgement, the row to update.
Awaits(r, q) ==
  \/ /\ ProposalOf[q] = ProposalOf[r] /\ InIndex(q) /\ q # r
     /\ \/ pc[r] = "record" /\ tx[r].execution = "SUCCESS"
        \/ pc[r] = "stop" /\ stopPlaced[r]
  \/ pc[r] = "refer" /\ rowLock[ProposalOf[r]] = q /\ q \in Call
  \/ pc[r] = "burn" /\ Burns(r) /\ tx[q].burn
  \/ /\ pc[r] = "settle" /\ path[r] # "route" /\ q # r
     /\ rowLock[ProposalOf[r]] = q

\* Mutant: nobody looks for deadlocks.
InRingUnseen(r) == FALSE

\* r waits in a ring of transactions.
InRing(r) ==
  \E S \in SUBSET Request :
    /\ r \in S
    /\ \A q \in S : (\E s \in S : Awaits(q, s)) /\ (\E s \in S : Awaits(s, q))

\* The detector aborts one transaction of the ring.
DeadlockAbort(d) ==
  /\ InRing(d)
  /\ Rollback(d, "conflict")
  /\ UNCHANGED venue

Deliver(d) ==
  \/ StartDelivery(d) \/ LoadProposal(d) \/ Compile(d) \/ GateExecutes(d) \/ GateWaits(d)
  \/ PromoteRead(d) \/ PromoteWrite(d) \/ Select(d)
  \/ PreflightPass(d) \/ PreflightFail(d) \/ OrderFilled(d) \/ OrderFails(d) \/ Protect(d)
  \/ Insert(d) \/ InsertConflict(d) \/ Refer(d) \/ BurnAck(d) \/ Settle(d)
  \/ DeadlockAbort(d) \/ FinishRun(d)

-----------------------------------------------------------------------------
(* ExecutionService beside such deliveries: its FOR UPDATE waits for their   *)
(* key shares too, its burn for the acknowledgement's row, and its UPDATE to *)
(* SUCCESS, behind an accepted stop-loss, meets the same index.              *)
StopWaits(r) ==
  /\ pc[r] = "stop" /\ ~ stopPlaced[r] /\ SuccessInFlight(r)
  /\ stopPlaced' = [stopPlaced EXCEPT ![r] = TRUE]
  /\ UNCHANGED <<tables, calls, review, sent, live>>

ServiceConflict(r) ==
  /\ pc[r] = "stop"
  /\ InRing(r) \/ (~ SuccessInFlight(r) /\ ~ IndexAllows(r))
  /\ stopPlaced' = [stopPlaced EXCEPT ![r] = TRUE]
  /\ Rollback(r, "conflict")
  /\ UNCHANGED <<sent, live>>

ServiceCall(r) ==
  \/ /\ Execute(r)
     /\ pc[r] = "row_lock" => ~ KeyShared(ProposalOf[r])
     /\ pc[r] = "entry" /\ Burns(r) => AckRowFree
     /\ pc'[r] = "targets" => ~ SuccessInFlight(r) /\ IndexAllows(r)
     /\ pc'[r] = "unprotected" => ~ stopPlaced[r]
  \/ StopWaits(r) \/ ServiceConflict(r)

Others ==
  \/ \E p \in Proposal : (rowLock[p] = None /\ SaveProposal(p)) \/ TimePasses(p)
  \/ \E v \in Review : ReviewRead(v) \/ ReviewWrite(v)
  \/ ExpireOldProposals \/ RecordAck \/ AckLapses
  \/ \E r \in Request : ExchangeCloses(r) \/ FinalizeClose(r) \/ FlagAttention(r)

PipelineInit == Init /\ path \in PathMixes

PipelineNext ==
  /\ \/ \E r \in Call : ServiceCall(r) \/ Crash(r)
     \/ \E d \in Delivery : Deliver(d) \/ CrashDelivery(d)
     \/ Others
  /\ UNCHANGED path

PipelineSpec == PipelineInit /\ [][PipelineNext]_pipelineVars

-----------------------------------------------------------------------------
(* Properties. *)

\* Every row, lock, buffer and control point has its type, with both paths.
PipelineTypeOK ==
  /\ status \in [Proposal -> ProposalStatus]
  /\ pastExpiry \in [Proposal -> BOOLEAN]
  /\ execution \in [Request -> ExecutionStatus]
  /\ position \in [Request -> PositionStatus]
  /\ result \in [Request -> JournalResult]
  /\ ack \in [gen : 0 .. MaxAcks, active : BOOLEAN]
  /\ pc \in [Request -> {"idle"} \cup InFlight \cup OnTheWay \cup Settled]
  /\ born \in [Request -> Nat]
  /\ tx \in [Request -> Tx]
  /\ relied \in [Request -> 0 .. MaxAcks]
  /\ capLock \in Request \cup {None}
  /\ propLock \in [Proposal -> Request \cup {None}]
  /\ rowLock \in [Proposal -> Request \cup {None}]
  /\ review \in [Review -> ReviewCall \cup {NoReview}]
  /\ sent \in [Request -> BOOLEAN]
  /\ live \in [Request -> {"NONE", "LIVE", "FLAT"}]
  /\ stopPlaced \in [Request -> BOOLEAN]
  /\ path \in [Request -> Path]

\* Whatever path executes it, a proposal has at most one committed SUCCESS
\* execution: the unique index holds where the locks do not.
OneSuccessPerProposal ==
  \A r, q \in Request :
    /\ ProposalOf[r] = ProposalOf[q]
    /\ execution[r] = "SUCCESS" /\ execution[q] = "SUCCESS"
    => r = q

\* An OPEN position has a stop-loss the exchange accepted: no caller of
\* place_order, and no ExecutionService call, opens an unprotected one
\* (a service position whose stop failed is NEEDS_ATTENTION).
OpenIsProtected == \A r \in OpenPositions : sent[r] /\ stopPlaced[r]

\* Exposure a finished delivery leaves on the exchange has its row: a tracked position,
\* an execution that names the failed stop-loss, or, when the order filled and its answer
\* was lost, a FAILED execution like that of an order that was refused.  A stop that was
\* accepted excludes the last two.  Nothing is said of deliveries that crash or meet the
\* index: they leave no row at all.
ExposureIsRecorded ==
  \A d \in Delivery :
    live[d] = "LIVE" /\ pc[d] = "finished"
      => \/ Tracked(d)
         \/ execution[d] \in {"ENTRY_FILLED_SL_FAILED", "FAILED"} /\ ~ stopPlaced[d]

\* A run that compiles its proposal over the row of a completed trade, as a retried run
\* does, sends no second order for it: neither a call nor another run commits a SUCCESS
\* of the proposal before the order.  The route may: it needs no lock the run excludes.
RetryTradesNothingTwice ==
  [][\A d \in Delivery :
       path[d] = "auto" /\ sent'[d] /\ ~ sent[d] =>
         \A q \in Request :
           ProposalOf[q] = ProposalOf[d] /\ execution[q] = "SUCCESS"
             => path[q] = "route"]_pipelineVars

\* A rejected proposal is not promoted: resume_approved turns no REJECTED
\* proposal into an APPROVED one (run_executor.py:1706-1708).
RejectionStands ==
  [][\A p \in Proposal : status[p] = "REJECTED" => status'[p] # "APPROVED"]_pipelineVars

\* With both paths the committed tables still keep PositionBook's ledger: a SUCCESS
\* execution and its position are committed together, once for a proposal, and a
\* position that has left the book never comes back.
RefinesLedger == Book!LedgerSpec

-----------------------------------------------------------------------------
(* Liveness: workers and the event loop run on; a lock that stays free is    *)
(* granted.                                                                   *)
Serve(r) == IF r \in Call THEN ServiceCall(r) ELSE Deliver(r)

PipelineFairness ==
  \A r \in Request : WF_pipelineVars(pc[r] # "idle" /\ Serve(r) /\ UNCHANGED path)

PipelineFairSpec == PipelineSpec /\ PipelineFairness

UnderWay == {r \in Request : pc[r] \notin {"idle"} \cup Settled}

\* Every started run and call ends: the row a run keeps locked through its remaining
\* steps, the index, the foreign key and the acknowledgement's row block nobody for ever,
\* not even when a resumed run and a retried one, or a run and a call, wait for each other.
\* Requests are finitely many and run once, so each ends if there is always a later moment
\* at which none is under way.
DeliveriesEnd == UnderWay # {} ~> UnderWay = {}
=============================================================================
