------------------------------ MODULE StepLoop ------------------------------
(***************************************************************************)
(* One run of a workflow, step by step: RunExecutor.execute with its       *)
(* gates, its validators, its jumps and its ways to stop, and the requests *)
(* and messages that set a stopped run going again.                        *)
(*                                                                         *)
(* A delivery is one Celery message served by one worker.  It commits when *)
(* it marks the run running and when it stops; what lies between is one    *)
(* transaction.  The majority of the HAWK votes, the market data and the   *)
(* loop counters live in the worker's memory: the next delivery starts     *)
(* without them.  Deliveries that overlap are the subject of RunLifecycle, *)
(* the order itself that of PipelineExecution.                             *)
(***************************************************************************)
EXTENDS Naturals, Sequences, FiniteSets

CONSTANTS
  Workflow,    \* the definitions a run may have: sequences of steps
  Validation,  \* whether a run may, must or must not be validation-only
  Answer,      \* the texts a HAWK model may return
  MaxEvents    \* bound on requests, recoveries and failed deliveries, counted together

Kind == {"market_data", "hawk", "hawk_vote", "sage", "compile", "winrate_gate",
         "confidence_gate", "approval", "exchange_execute", "journal", "conditional",
         "loop", "other"}

\* skip is skip_steps_on_auto or skip_steps_on_false, pauses what a winrate gate
\* does below its threshold, back the step a loop jumps to (0 when it names none).
Step == [kind : Kind, skip : Nat, pauses : BOOLEAN, back : Nat, iterations : Nat]

Vote      == {"BULLISH", "BEARISH", "NEUTRAL"}
Direction == {"LONG", "SHORT"}

\* What a step has said, as far as a later step reads it.  form is alias for a vote
\* written as LONG, SELL, HOLD; flaw is a missing invalidation level, a field only
\* the contract asks for, or anything else the validator refuses.
Text == [vote : Vote \cup {"BAD", "EMPTY", "GARBLED", "APPROVED", "NONE"},
         form : {"plain", "alias"}, flaw : {"none", "level", "thin", "fatal"}]
Says(v) == [vote |-> v, form |-> "plain", flaw |-> "none"]
Silent  == Says("NONE")

ASSUME StepLoopConstants ==
  /\ \A w \in Workflow : w \in Seq(Step)
  /\ \A w \in Workflow : \A i \in DOMAIN w : w[i].back \in 0 .. i
  /\ Validation \subseteq BOOLEAN /\ Answer \subseteq Text
  /\ MaxEvents \in Nat

VARIABLES
  wf,        \* the run's definition
  stopEarly, \* it is validation-only
  db,        \* the committed rows of the run
  tx,        \* the same rows as the worker's transaction sees them
  ctx,       \* the worker's context
  worker,    \* idle, working, or leaving: done, but not acknowledged
  message,   \* the message queued or held
  orders,    \* orders sent to the exchange
  compiled,  \* proposals stored
  requests,  \* requests and recoveries so far
  faults,    \* failed deliveries so far
  history    \* what has happened to the run besides its first delivery

vars == <<wf, stopEarly, db, tx, ctx, worker, message, orders, compiled, requests,
          faults, history>>
fixed == <<wf, stopEarly>>
counts == <<orders, compiled, requests, faults, history>>

-----------------------------------------------------------------------------
RunStatus == {"queued", "running", "waiting_approval", "paused", "blocked",
              "completed", "failed", "cancelled"}
Reason    == {"none", "approval", "warmup", "gate", "error", "rejected"}
Past      == {"recovered", "overridden", "retried", "redelivered"}
StepRow   == [status : {"none", "completed", "paused", "failed", "waiting_approval",
                        "cancelled"}, text : Text]
Proposal  == [status : {"NONE", "PENDING_APPROVAL", "BLOCKED_KILL_SWITCH", "APPROVED",
                        "REJECTED", "EXECUTED", "EXECUTION_FAILED"}, dir : Direction]

\* at is current_step_index + 1.
Rows == [status : RunStatus, reason : Reason, at : Nat \ {0}, proposal : Proposal,
         row : [DOMAIN wf -> StepRow]]

Context == [majority : {"BULLISH", "BEARISH", "NONE"}, price : BOOLEAN,
            loops : [DOMAIN wf -> Nat]]
FreshContext == [majority |-> "NONE", price |-> FALSE, loops |-> [i \in DOMAIN wf |-> 0]]

NewRun == [status |-> "queued", reason |-> "none", at |-> 1,
           proposal |-> [status |-> "NONE", dir |-> "LONG"],
           row |-> [i \in DOMAIN wf |-> [status |-> "none", text |-> Silent]]]

InSteps(kinds) == worker = "working" /\ tx.at <= Len(wf) /\ wf[tx.at].kind \in kinds
Here     == wf[tx.at]
NextKind == IF tx.at < Len(wf) THEN wf[tx.at + 1].kind ELSE "other"

\* rows with the current step written.
Written(rows, status, text) ==
  [rows EXCEPT !.row[tx.at] = [status |-> status, text |-> text]]
Done(text) == Written(tx, "completed", text)

\* The loop goes on at a step ...
GoOn(rows, at) == tx' = [rows EXCEPT !.at = at] /\ UNCHANGED <<db, worker>>

\* ... or the delivery commits and stops.
Stop(rows, status, reason) ==
  /\ db' = [rows EXCEPT !.status = status, !.reason = reason]
  /\ tx' = db' /\ worker' = "leaving" /\ ctx' = FreshContext

\* Mutant: _block writes a status of its own.
BlockUnknown(rows) == Stop(rows, "handoff_failed", "gate")

\* _block keeps the step completed; _fail does not.
Block(rows) == Stop(rows, "blocked", "gate")
Fail(rows)  == Stop(Written(rows, "failed", Silent), "failed", "none")
WaitFor(reason) == Stop(Written(tx, "waiting_approval", Silent), "waiting_approval", reason)

-----------------------------------------------------------------------------
(* HAWK outputs: repair, validation, one repair prompt. *)

Parses(t)   == t.vote \notin {"EMPTY", "GARBLED"}
\* repair_hawk_output.
Repaired(t) == [t EXCEPT !.form = "plain"]

LacksLevel(t) == t.flaw = "level" /\ t.vote # "NEUTRAL"
Critical(t, price) ==
  {f \in {"vote", "level", "other"} :
     \/ f = "vote"  /\ t.vote = "BAD"
     \/ f = "level" /\ LacksLevel(t) /\ ~ price
     \/ f = "other" /\ t.flaw = "fatal"}
\* validate_hawk_output fills a missing level from the market price.
Filled(t, price) == IF LacksLevel(t) /\ price THEN [t EXCEPT !.flaw = "none"] ELSE t

\* What the row then holds, what the step hands on, and whether it blocks: the
\* row is written again only when there was something to complain about.
Judged(raw, t, price) ==
  LET clean == Critical(t, price) = {} /\ t.flaw # "level" IN
  [row |-> IF clean THEN raw ELSE Filled(t, price), out |-> Filled(t, price),
   blocks |-> Critical(t, price) # {}]

\* The ways a HAWK step can end whose row was first saved with raw: unparseable
\* text and a vote nobody understands are each worth one repair prompt.
HawkEnds(raw, price) ==
  LET asked == {t \in Answer : Parses(t)} IN
  IF ~ Parses(raw)
    THEN {[row |-> raw, out |-> raw, blocks |-> FALSE]} \cup
         (IF raw.vote = "EMPTY" THEN {} ELSE {Judged(t, Repaired(t), price) : t \in asked})
    ELSE {Judged(raw, Repaired(raw), price)} \cup
         (IF Critical(Repaired(raw), price) # {"vote"} THEN {}
            ELSE {Judged(raw, Repaired(t), price) : t \in asked})

\* The contract between a HAWK and the vote gate.
HandoffMet(t) == NextKind = "hawk_vote" => Parses(t) /\ t.flaw # "thin"

RunHawk ==
  /\ InSteps({"hawk"})
  /\ \E raw \in Answer : \E end \in HawkEnds(raw, ctx.price) :
       IF end.blocks \/ ~ HandoffMet(end.out)
         THEN Block(Done(end.row))
         ELSE GoOn(Done(end.row), tx.at + 1) /\ UNCHANGED ctx
  /\ UNCHANGED <<fixed, message, counts>>

\* CostGuard: the call just made is over the daily budget.
HardStop ==
  /\ InSteps({"hawk", "sage", "journal", "other"})
  /\ Fail(tx)
  /\ UNCHANGED <<fixed, message, counts>>

FetchMarketData ==
  /\ InSteps({"market_data"})
  /\ \/ GoOn(Done(Silent), tx.at + 1) /\ ctx' = [ctx EXCEPT !.price = TRUE]
     \/ NextKind = "hawk" /\ Block(Done(Silent))
  /\ UNCHANGED <<fixed, message, counts>>

-----------------------------------------------------------------------------
(* The vote gate, SAGE and the proposal. *)

Hawks == {i \in DOMAIN wf : wf[i].kind = "hawk"}
Voted(rows, i) ==
  rows.row[i].status = "completed" /\ rows.row[i].text.vote \in Vote
  /\ rows.row[i].text.form = "plain"
Votes(rows, v) == Cardinality({i \in Hawks : Voted(rows, i) /\ rows.row[i].text.vote = v})
Majority(rows) ==
  IF Votes(rows, "BULLISH") >= 2 THEN "BULLISH"
  ELSE IF Votes(rows, "BEARISH") >= 2 THEN "BEARISH" ELSE "NONE"

\* Mutant: the validation-only flag is not looked at.
StopsForgotten == FALSE
StopsHere      == stopEarly

RunHawkVote ==
  LET m == Majority(tx) IN
  /\ InSteps({"hawk_vote"})
  /\ \/ /\ \E i \in Hawks : ~ Voted(tx, i)
        /\ Fail(tx)
     \/ /\ \A i \in Hawks : Voted(tx, i)
        /\ m = "NONE" \/ \E i \in Hawks : LacksLevel(tx.row[i].text)
        /\ Block(Done(Silent))
     \/ /\ \A i \in Hawks : Voted(tx, i) /\ ~ LacksLevel(tx.row[i].text)
        /\ m # "NONE"
        /\ IF StopsHere
             THEN Stop([Done(Says(m)) EXCEPT !.at = tx.at + 1], "completed", "none")
             ELSE GoOn(Done(Says(m)), tx.at + 1) /\ ctx' = [ctx EXCEPT !.majority = m]
  /\ UNCHANGED <<fixed, message, counts>>

\* A prompt: SAGE may veto, validators and contracts refuse.
RunPrompt ==
  /\ InSteps({"sage", "journal", "other"})
  /\ \/ GoOn(Done(Silent), tx.at + 1) /\ UNCHANGED ctx
     \/ Block(Done(Silent))
  /\ UNCHANGED <<fixed, message, counts>>

DirectionOf == [BULLISH |-> "LONG", BEARISH |-> "SHORT"]

\* Mutant: the direction guard is gone.
AlignedAlways(dir) == TRUE
\* check_direction_majority_alignment, called only with a majority in the context.
Aligned(dir) == ctx.majority # "NONE" => dir = DirectionOf[ctx.majority]

\* The proposal is stored, over the run's newest one, before anything judges it;
\* what the store refuses leaves the old row.
RunCompile ==
  /\ InSteps({"compile"})
  /\ \E dir \in Direction, stored \in {"NONE", "PENDING_APPROVAL", "BLOCKED_KILL_SWITCH"} :
       LET rows == IF stored = "NONE" THEN Done(Silent)
                   ELSE [Done(Silent) EXCEPT !.proposal = [status |-> stored, dir |-> dir]]
       IN
       /\ \/ Block(rows)
          \/ Fail(rows)
          \/ Aligned(dir) /\ GoOn(rows, tx.at + 1) /\ UNCHANGED ctx
       /\ compiled' = IF stored = "NONE" THEN compiled ELSE compiled + 1
  /\ UNCHANGED <<fixed, message, orders, requests, faults, history>>

-----------------------------------------------------------------------------
(* The trade gates and the order. *)

\* Mutant: the proposal's status is not written back.
SettledNowhere(rows, status) == rows
Settled(rows, status) == [rows EXCEPT !.proposal.status = status]

\* place_order answers, and the proposal says so.
SendOrder(at) ==
  /\ \E s \in {"EXECUTED", "EXECUTION_FAILED"} : GoOn(Settled(Done(Silent), s), at)
  /\ orders' = orders + 1 /\ UNCHANGED ctx

\* Past the gate and the steps an automatic decision skips.
Skipped == tx.at + 1 + Here.skip

\* A position is open, the warm-up only validates, or the winrate is too low and
\* the gate skips: the trade steps are passed over.
GateSkips ==
  /\ InSteps({"winrate_gate"})
  /\ GoOn(Done(Silent), Skipped) /\ UNCHANGED ctx
  /\ UNCHANGED <<fixed, message, counts>>

\* _auto_execute_trade_proposal: nothing pending, refused by the preflight, or sent.
GateExecutes ==
  /\ InSteps({"winrate_gate"})
  /\ \/ /\ tx.proposal.status # "PENDING_APPROVAL"
        /\ GoOn(Done(Silent), Skipped) /\ UNCHANGED <<ctx, orders>>
     \/ /\ tx.proposal.status = "PENDING_APPROVAL"
        /\ GoOn(Settled(Done(Silent), "REJECTED"), Skipped) /\ UNCHANGED <<ctx, orders>>
     \/ tx.proposal.status = "PENDING_APPROVAL" /\ SendOrder(Skipped)
  /\ UNCHANGED <<fixed, message, compiled, requests, faults, history>>

GateWaits ==
  /\ InSteps({"winrate_gate"})
  /\ WaitFor("warmup") \/ (Here.pauses /\ WaitFor("approval"))
  /\ UNCHANGED <<fixed, message, counts>>

ConfidenceGate ==
  /\ InSteps({"confidence_gate"})
  /\ WaitFor("approval") \/ (GoOn(Done(Silent), Skipped) /\ UNCHANGED ctx)
  /\ UNCHANGED <<fixed, message, counts>>

ApprovalStep ==
  /\ InSteps({"approval"})
  /\ WaitFor("approval")
  /\ UNCHANGED <<fixed, message, counts>>

\* A skipped or refused order is not what the journal's contract asks for.
OrderMissing(rows) ==
  IF NextKind = "journal" THEN Block(rows) ELSE GoOn(rows, tx.at + 1) /\ UNCHANGED ctx

ExchangeExecute ==
  /\ InSteps({"exchange_execute"})
  /\ \/ /\ tx.proposal.status # "APPROVED"
        /\ OrderMissing(Done(Silent)) /\ UNCHANGED orders
     \/ /\ tx.proposal.status = "APPROVED"
        /\ OrderMissing(Settled(Done(Silent), "REJECTED")) /\ UNCHANGED orders
     \/ tx.proposal.status = "APPROVED" /\ SendOrder(tx.at + 1)
  /\ UNCHANGED <<fixed, message, compiled, requests, faults, history>>

-----------------------------------------------------------------------------
(* Jumps, errors, and the end of a delivery. *)

Conditional ==
  /\ InSteps({"conditional"})
  /\ GoOn(Done(Silent), tx.at + 1) \/ GoOn(Done(Silent), Skipped)
  /\ UNCHANGED <<fixed, ctx, message, counts>>

\* Mutant: the counter is read and never advanced.
CountedNot(n) == n
Counted(n)    == n + 1

\* Back to the loop's start, or to itself when it names no step, until the
\* iterations are spent; then the counter is dropped.
LoopStep ==
  /\ InSteps({"loop"})
  /\ LET n == ctx.loops[tx.at] IN
     IF n < Here.iterations
       THEN /\ GoOn(Done(Silent), IF Here.back = 0 THEN tx.at ELSE Here.back)
            /\ ctx' = [ctx EXCEPT !.loops[tx.at] = Counted(n)]
       ELSE /\ GoOn(Done(Silent), tx.at + 1)
            /\ ctx' = [ctx EXCEPT !.loops[tx.at] = 0]
  /\ UNCHANGED <<fixed, message, counts>>

\* A step handler raises: recoverable errors of the LLM pause the run.
StepRaises ==
  /\ InSteps(Kind \ {"winrate_gate", "confidence_gate", "approval"})
  /\ Stop(Written(tx, "paused", Silent), "paused", "error") \/ Fail(tx)
  /\ UNCHANGED <<fixed, message, counts>>

Finish ==
  /\ worker = "working" /\ tx.at > Len(wf)
  /\ Stop([tx EXCEPT !.at = Len(wf) + 1], "completed", "none")
  /\ UNCHANGED <<fixed, message, counts>>

\* The message is acknowledged after the task has ended.
Acknowledge ==
  /\ worker = "leaving"
  /\ worker' = "idle" /\ message' = "none"
  /\ UNCHANGED <<fixed, db, tx, ctx, counts>>

\* _mark_run_failed, best effort.
MarkFailed(rows) ==
  {rows} \cup (IF rows.status \in {"queued", "running", "waiting_approval"}
                 THEN {[rows EXCEPT !.status = "failed"]} ELSE {})

\* The worker is lost, or an exception leaves the task, before the commit or after
\* it: the transaction is dropped and the message delivered again, or given up.
DeliveryFails ==
  /\ worker # "idle" /\ requests + faults < MaxEvents
  /\ faults' = faults + 1
  /\ worker' = "idle" /\ ctx' = FreshContext
  /\ \/ /\ history' = history \cup {"redelivered"}
        /\ tx' = db /\ UNCHANGED <<db, message>>
     \/ /\ db' \in MarkFailed(db) /\ tx' = db'
        /\ message' = "none" /\ UNCHANGED history
  /\ UNCHANGED <<fixed, orders, compiled, requests>>

-----------------------------------------------------------------------------
(* What sets a run going. *)

\* The first commit of execute.
Start(rows) ==
  /\ worker = "idle"
  /\ db' = [rows EXCEPT !.status = "running", !.reason = "none"]
  /\ tx' = db' /\ ctx' = FreshContext /\ worker' = "working"

\* Whatever the run's status, from its current step.
Execute ==
  /\ message = "execute" /\ Start(db)
  /\ UNCHANGED <<fixed, message, counts>>

\* The step a resume finds, completed by the approval.
Approved == [status |-> "completed", text |-> Says("APPROVED")]
PastApproval(rows) ==
  [rows EXCEPT !.at = @ + 1,
               !.row = [i \in DOMAIN wf |-> IF i = rows.at THEN Approved ELSE @[i]]]

\* _promote_warmup_proposal, which the preflight may refuse.
Promoted(rows) ==
  {rows} \cup (IF rows.reason = "warmup" /\ rows.proposal.status \in
                    {"PENDING_APPROVAL", "BLOCKED_KILL_SWITCH"}
                 THEN {Settled(rows, "APPROVED")} ELSE {})

ResumeApproved ==
  /\ message = "approve" /\ db.status = "waiting_approval"
  /\ \E rows \in Promoted(PastApproval(db)) : Start(rows)
  /\ UNCHANGED <<fixed, message, counts>>

\* Mutant: the override stays at the step that blocked.
StaysAt(rows)   == rows
PastBlock(rows) == [rows EXCEPT !.at = @ + 1]

\* Whatever blocked the run.
ResumeFromBlocked ==
  /\ message = "override" /\ db.status = "blocked"
  /\ Start(PastBlock(db))
  /\ history' = history \cup {"overridden"}
  /\ UNCHANGED <<fixed, message, orders, compiled, requests, faults>>

\* The run is not in the state the message asks for; retries run out.
Refuse ==
  /\ worker = "idle"
  /\ \/ message = "approve" /\ db.status # "waiting_approval"
     \/ message = "override" /\ db.status # "blocked"
  /\ db' \in MarkFailed(db) /\ tx' = db'
  /\ message' = "none"
  /\ UNCHANGED <<fixed, ctx, worker, counts>>

\* A request finds the run between two deliveries.
Request(wanted) ==
  /\ worker = "idle" /\ message = "none" /\ requests + faults < MaxEvents
  /\ requests' = requests + 1 /\ message' = wanted
  /\ UNCHANGED <<fixed, ctx, worker, orders, compiled, faults>>

ApproveRun  == Request("approve") /\ UNCHANGED <<db, tx, history>>
OverrideRun == Request("override") /\ UNCHANGED <<db, tx, history>>

\* resume_rejected looks at no status.
RejectRun ==
  /\ Request("none")
  /\ db' = [db EXCEPT !.status = "cancelled", !.reason = "rejected",
                      !.row = [i \in DOMAIN wf |->
                                 IF i = db.at THEN [status |-> "cancelled", text |-> Silent]
                                 ELSE @[i]]]
  /\ tx' = db' /\ UNCHANGED history

\* From the start, with the step rows and the proposal of the attempts before.
RetryRun ==
  /\ Request("execute")
  /\ db' = [db EXCEPT !.status = "queued", !.reason = "none", !.at = 1]
  /\ tx' = db' /\ history' = history \cup {"retried"}

RecoverPaused ==
  /\ db.status = "paused" /\ Request("execute")
  /\ db' = [db EXCEPT !.status = "queued", !.reason = "none"]
  /\ tx' = db' /\ history' = history \cup {"recovered"}

\* The trading route, while the run waits.
ApproveProposal ==
  /\ worker = "idle" /\ db.proposal.status = "PENDING_APPROVAL"
  /\ db' = Settled(db, "APPROVED") /\ tx' = db'
  /\ UNCHANGED <<fixed, ctx, worker, message, counts>>

-----------------------------------------------------------------------------
Init ==
  /\ wf \in Workflow /\ stopEarly \in Validation
  /\ db = NewRun /\ tx = db /\ ctx = FreshContext
  /\ worker = "idle" /\ message = "execute"
  /\ orders = 0 /\ compiled = 0 /\ requests = 0 /\ faults = 0 /\ history = {}

WorkerStep ==
  \/ RunHawk \/ HardStop \/ FetchMarketData \/ RunHawkVote \/ RunPrompt \/ RunCompile
  \/ GateSkips \/ GateExecutes \/ GateWaits \/ ConfidenceGate \/ ApprovalStep
  \/ ExchangeExecute \/ Conditional \/ LoopStep \/ StepRaises \/ Finish \/ Acknowledge

Next ==
  \/ WorkerStep \/ DeliveryFails
  \/ Execute \/ ResumeApproved \/ ResumeFromBlocked \/ Refuse
  \/ ApproveRun \/ OverrideRun \/ RejectRun \/ RetryRun \/ RecoverPaused \/ ApproveProposal

Spec == Init /\ [][Next]_vars

\* A worker goes on with the step it is at.
FairSpec == Spec /\ WF_vars(WorkerStep)

-----------------------------------------------------------------------------
(* The shape of the seeded trade pipelines. *)

\* A step that only asks and tells.
Prompted == {"market_data", "sage", "journal", "other"}

\* Research and HAWKs, and then their vote ...
LeadsToVote(w, v) ==
  w[v].kind = "hawk_vote" /\ \A i \in 1 .. v - 1 : w[i].kind \in Prompted \cup {"hawk"}
\* ... SAGE, the proposal, and no way back.
LeadsToOrder(w, v, c) ==
  /\ LeadsToVote(w, v) /\ v < c /\ w[c].kind = "compile"
  /\ \A i \in DOMAIN w : v < i /\ i < c => w[i].kind \in Prompted
  /\ \A i \in DOMAIN w : i > c => w[i].kind \notin {"hawk", "hawk_vote", "compile", "loop"}

Voting(w)    == \E i \in DOMAIN w : w[i].kind = "hawk_vote"
VoteFirst(w) == \E v \in DOMAIN w : LeadsToVote(w, v)
VoteGated(w) == \E v, c \in DOMAIN w : LeadsToOrder(w, v, c)

-----------------------------------------------------------------------------
(* Properties. *)

\* The shape of the tables, the worker's transaction and its context.
TypeOK ==
  /\ wf \in Workflow /\ stopEarly \in BOOLEAN
  /\ db \in Rows /\ tx \in Rows /\ ctx \in Context
  /\ worker \in {"idle", "working", "leaving"}
  /\ message \in {"none", "execute", "approve", "override"}
  /\ orders \in Nat /\ compiled \in Nat /\ requests \in Nat /\ faults \in Nat
  /\ requests + faults <= MaxEvents /\ history \subseteq Past

HasVote   == Voting(wf)
OrderSent == HasVote /\ orders' > orders
FollowsVote == Majority(tx) # "NONE" /\ tx.proposal.dir = DirectionOf[Majority(tx)]

\* An order placed by a run nothing has disturbed (approvals by people apart) goes
\* the way at least two of its HAWKs voted: the vote gate, the context and the
\* direction guard of the proposal carry the majority to the order.
UndisturbedOrderFollowsVote == [][OrderSent /\ history = {} => FollowsVote]_vars

\* The same of a run that was only ever paused for an LLM error and recovered: run_executor
\* says of the compile step that "majority alignment [is] enforced by deterministic
\* validator regardless".
RecoveredOrderFollowsVote == [][OrderSent /\ history \subseteq {"recovered"} => FollowsVote]_vars

\* A validation-only run of a workflow with a vote gate places no order, whatever its
\* gates would do, however often it is retried, recovered or approved: only an override
\* of a block, or a message delivered twice, leads past the point where it stops.
ValidationOnlyPlacesNoOrder ==
  stopEarly /\ HasVote /\ history \cap {"overridden", "redelivered"} = {} => orders = 0

\* Tests and the stop summary say that validation-only blocks execution.
ValidationOnlyBlocksExecution == stopEarly /\ HasVote => orders = 0

\* One proposal stored is one order at most, whatever gates, approvals, overrides and
\* retries follow; only a delivery that failed with its transaction open adds one.
OrdersAreAccounted == orders <= compiled + faults

\* Pauses, approvals and overrides resume behind what is done: no completed step is
\* run again unless the run is retried, a message delivered twice, or a loop goes back.
NoStepTwice ==
  /\ worker = "working" /\ tx.at <= Len(wf)
  /\ history \cap {"retried", "redelivered"} = {}
  /\ \A i \in DOMAIN wf : wf[i].kind # "loop"
  => tx.row[tx.at].status # "completed"

\* A HAWK vote the repair understood is the vote the gate reads: hawk_output_repair
\* promises that aliases are recovered.
GateReadsRepaired ==
  worker = "working" /\ history = {} =>
    \A i \in Hawks : tx.row[i].status = "completed" => tx.row[i].text.form = "plain"

\* Each approval passes one gate.
ApprovalPassesOneGate ==
  history \subseteq {"redelivered"} =>
    Cardinality({i \in DOMAIN wf : db.row[i].text.vote = "APPROVED"}) <= requests

\* The loop step at hand takes one of the iterations it still has.
TakesIteration ==
  /\ tx.at \in DOMAIN wf /\ Here.kind = "loop"
  /\ ctx'.loops[tx.at] = ctx.loops[tx.at] + 1 /\ ctx'.loops[tx.at] <= Here.iterations

\* A worker that works on is further on in the definition, whatever the step did, or
\* has taken an iteration of a loop: nothing else goes back or stays.
StepsGoForward ==
  [][worker = "working" /\ worker' = "working" => tx'.at > tx.at \/ TakesIteration]_vars

\* A delivery ends: jumps back are bounded, and no step leaves the loop where it is.
WorkerStops == worker = "working" ~> worker # "working"
=============================================================================
