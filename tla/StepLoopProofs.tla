--------------------------- MODULE StepLoopProofs ---------------------------
(***************************************************************************)
(* Theorems about the step loop, for any workflows, answers and numbers of *)
(* requests and failed deliveries.                                         *)
(*                                                                         *)
(* One lemma says what a step of the worker may do to the run: write the   *)
(* row of the current step, pay for an order with the proposal it settles, *)
(* and go forward or stop.  Both invariants follow from it and from the    *)
(* ways a run is set going again.                                          *)
(***************************************************************************)
EXTENDS StepLoop, TLAPS

(* The inductive invariants. *)

\* A proposal that may still become an order.
Open(p) == IF p.status \in {"PENDING_APPROVAL", "BLOCKED_KILL_SWITCH", "APPROVED"} THEN 1 ELSE 0

\* The rows the next step reads.
Current == IF worker = "working" THEN tx ELSE db

\* Orders sent, and the one the open proposal may still become, were each stored
\* as a proposal, or sent in a transaction that was lost.
Accounted == orders + Open(Current.proposal) <= compiled + faults

HasLoop  == \E i \in DOMAIN wf : wf[i].kind = "loop"
Straight == history \cap {"retried", "redelivered"} = {} /\ ~ HasLoop

NothingAhead(rows) == \A i \in DOMAIN wf : i > rows.at => rows.row[i].status # "completed"
ToDo(rows) == rows.at \in DOMAIN wf => rows.row[rows.at].status # "completed"

\* Nothing ahead of the current step is done, nor the current step itself wherever
\* the run can be taken up at it.
Ordered ==
  Straight =>
    /\ NothingAhead(db)
    /\ worker = "working" => NothingAhead(tx) /\ ToDo(tx)
    /\ db.status \in {"waiting_approval", "paused"} => ToDo(db)
    /\ worker = "idle" /\ message = "execute" => ToDo(db)

IInv == TypeOK /\ Accounted /\ Ordered

(* What a step of the worker may do. *)

\* rows are the transaction's, but for the current step's row.
Touched(rows) ==
  rows \in Rows /\ \A i \in DOMAIN wf : i # tx.at => rows.row[i] = tx.row[i]

Goes(rows) ==
  /\ ctx' \in Context
  /\ \E at \in Nat \ {0} : GoOn(rows, at) /\ (at > tx.at \/ TakesIteration)

Ends(rows) ==
  /\ \A i \in DOMAIN wf : i > rows.at => i > tx.at
  /\ \E status \in RunStatus, reason \in Reason :
       /\ Stop(rows, status, reason)
       /\ status \in {"waiting_approval", "paused"} => ToDo(rows)

Paid(rows) ==
  \/ orders' = orders /\ compiled' = compiled /\ Open(rows.proposal) <= Open(tx.proposal)
  \/ orders' = orders + 1 /\ compiled' = compiled
     /\ Open(tx.proposal) = 1 /\ Open(rows.proposal) = 0
  \/ orders' = orders /\ compiled' = compiled + 1

Walk ==
  /\ worker = "working" /\ UNCHANGED <<fixed, message, requests, faults, history>>
  /\ \E rows \in Rows : Touched(rows) /\ Paid(rows) /\ (Goes(rows) \/ Ends(rows))

-----------------------------------------------------------------------------
(* The shape of definitions, rows and texts. *)

LEMMA Definition ==
  ASSUME wf \in Workflow
  PROVE  /\ wf \in Seq(Step) /\ Len(wf) \in Nat /\ DOMAIN wf = 1 .. Len(wf)
         /\ \A i \in DOMAIN wf : wf[i] \in Step /\ wf[i].skip \in Nat /\ wf[i].kind \in Kind
                                 /\ wf[i].back \in 0 .. i
<1>1. wf \in Seq(Step) /\ \A i \in DOMAIN wf : wf[i].back \in 0 .. i
  BY StepLoopConstants DEF StepLoopConstants
<1>2. Len(wf) \in Nat /\ DOMAIN wf = 1 .. Len(wf) /\ wf \in [1 .. Len(wf) -> Step]
  BY <1>1
<1>3. \A i \in DOMAIN wf : wf[i] \in Step
  BY <1>2
<1> QED
  BY <1>1, <1>2, <1>3 DEF Step

LEMMA SilentType == Silent \in Text /\ Approved \in StepRow /\ Approved.status = "completed"
BY DEF Silent, Says, Text, Approved, StepRow

LEMMA SaysType ==
  ASSUME NEW v \in {"BULLISH", "BEARISH", "NONE"}
  PROVE  Says(v) \in Text
BY DEF Says, Text, Vote

LEMMA RowsFields ==
  ASSUME NEW rows \in Rows
  PROVE  /\ rows.status \in RunStatus /\ rows.reason \in Reason /\ rows.at \in Nat \ {0}
         /\ rows.proposal \in Proposal /\ rows.row \in [DOMAIN wf -> StepRow]
         /\ \A i \in DOMAIN wf : rows.row[i] \in StepRow /\ rows.row[i].text \in Text
BY DEF Rows, StepRow

\* Writing the current step touches nothing else.
LEMMA WrittenTouches ==
  ASSUME NEW rows \in Rows, Touched(rows), tx.at \in DOMAIN wf,
         NEW s \in {"none", "completed", "paused", "failed", "waiting_approval", "cancelled"},
         NEW t \in Text
  PROVE  /\ Written(rows, s, t) \in Rows /\ Touched(Written(rows, s, t))
         /\ Written(rows, s, t).proposal = rows.proposal
         /\ Written(rows, s, t).at = rows.at /\ Written(rows, s, t).row[tx.at].status = s
<1> DEFINE r == [status |-> s, text |-> t]
<1>1. r \in StepRow
  BY DEF StepRow
<1>2. rows.row \in [DOMAIN wf -> StepRow]
  BY RowsFields
<1>3. Written(rows, s, t) = [rows EXCEPT !.row = [rows.row EXCEPT ![tx.at] = r]]
  BY DEF Written, Rows
<1>4. /\ [rows.row EXCEPT ![tx.at] = r] \in [DOMAIN wf -> StepRow]
      /\ [rows.row EXCEPT ![tx.at] = r][tx.at] = r
      /\ \A i \in DOMAIN wf : i # tx.at => [rows.row EXCEPT ![tx.at] = r][i] = rows.row[i]
  BY <1>1, <1>2
<1> HIDE DEF r
<1>5. /\ Written(rows, s, t) \in Rows
      /\ Written(rows, s, t).row = [rows.row EXCEPT ![tx.at] = r]
      /\ Written(rows, s, t).proposal = rows.proposal /\ Written(rows, s, t).at = rows.at
  BY <1>3, <1>4 DEF Rows
<1>6. r.status = s
  BY DEF r
<1> QED
  BY <1>4, <1>5, <1>6 DEF Touched

ProposalStatus == {"NONE", "PENDING_APPROVAL", "BLOCKED_KILL_SWITCH", "APPROVED", "REJECTED",
                   "EXECUTED", "EXECUTION_FAILED"}

LEMMA SettledTouches ==
  ASSUME NEW rows \in Rows, NEW s \in ProposalStatus
  PROVE  /\ Settled(rows, s) \in Rows /\ Settled(rows, s).row = rows.row
         /\ Settled(rows, s).proposal.status = s /\ Settled(rows, s).at = rows.at
         /\ Settled(rows, s).status = rows.status
<1> DEFINE p == [rows.proposal EXCEPT !.status = s]
<1>1. p \in Proposal /\ p.status = s
  BY RowsFields DEF Proposal, ProposalStatus
<1>2. Settled(rows, s) = [rows EXCEPT !.proposal = p]
  BY DEF Settled, Rows
<1> HIDE DEF p
<1> QED
  BY <1>1, <1>2 DEF Rows

LEMMA OpenIs ==
  /\ \A p : Open(p) \in {0, 1}
  /\ \A p : p.status \in {"NONE", "REJECTED", "EXECUTED", "EXECUTION_FAILED"} => Open(p) = 0
  /\ \A p : p.status \in {"PENDING_APPROVAL", "BLOCKED_KILL_SWITCH", "APPROVED"} => Open(p) = 1
BY DEF Open

LEMMA FreshType == ASSUME wf \in Workflow PROVE FreshContext \in Context
BY DEF FreshContext, Context

-----------------------------------------------------------------------------
(* Every step of a worker walks. *)

LEMMA TxTouched == ASSUME TypeOK PROVE tx \in Rows /\ Touched(tx)
BY DEF TypeOK, Touched

LEMMA DoneTouches ==
  ASSUME TypeOK, tx.at \in DOMAIN wf, NEW t \in Text
  PROVE  /\ Done(t) \in Rows /\ Touched(Done(t)) /\ Done(t).proposal = tx.proposal
         /\ Done(t).at = tx.at
BY TxTouched, WrittenTouches DEF Done

LEMMA InDomain ==
  ASSUME TypeOK, NEW kinds, InSteps(kinds)
  PROVE  worker = "working" /\ tx.at \in DOMAIN wf /\ tx.at \in Nat /\ wf[tx.at].kind \in kinds
<1>1. tx.at \in Nat \ {0} /\ worker = "working" /\ tx.at <= Len(wf) /\ wf[tx.at].kind \in kinds
  BY RowsFields DEF TypeOK, InSteps
<1> QED
  BY <1>1, Definition DEF TypeOK

\* The ways to stop.
LEMMA BlockEnds ==
  ASSUME NEW rows \in Rows, rows.at = tx.at, Block(rows)
  PROVE  Ends(rows)
BY DEF Block, Ends, RunStatus, Reason

LEMMA FailEnds ==
  ASSUME TypeOK, NEW rows \in Rows, Touched(rows), rows.at = tx.at, tx.at \in DOMAIN wf,
         Fail(rows)
  PROVE  \E r \in Rows : Touched(r) /\ Ends(r) /\ r.proposal = rows.proposal
<1>1. Written(rows, "failed", Silent) \in Rows /\ Touched(Written(rows, "failed", Silent))
      /\ Written(rows, "failed", Silent).proposal = rows.proposal
      /\ Written(rows, "failed", Silent).at = tx.at
  BY SilentType, WrittenTouches
<1>2. Ends(Written(rows, "failed", Silent))
  BY <1>1 DEF Fail, Ends, RunStatus, Reason
<1> QED
  BY <1>1, <1>2

LEMMA WaitEnds ==
  ASSUME TypeOK, tx.at \in DOMAIN wf, NEW reason \in Reason, WaitFor(reason)
  PROVE  \E r \in Rows : Touched(r) /\ Ends(r) /\ r.proposal = tx.proposal
<1> DEFINE r == Written(tx, "waiting_approval", Silent)
<1>1. r \in Rows /\ Touched(r) /\ r.proposal = tx.proposal /\ r.at = tx.at
      /\ r.row[tx.at].status = "waiting_approval"
  BY TxTouched, SilentType, WrittenTouches
<1>2. Stop(r, "waiting_approval", reason)
  BY DEF WaitFor
<1>3. ToDo(r)
  BY <1>1 DEF ToDo
<1> HIDE DEF r
<1>4. Ends(r)
  BY <1>1, <1>2, <1>3 DEF Ends, RunStatus
<1> QED
  BY <1>1, <1>4

\* A step that sends nothing and stores nothing.
Still == orders' = orders /\ compiled' = compiled
Kept  == UNCHANGED <<fixed, message, requests, faults, history>>

LEMMA StillPaid ==
  ASSUME Still, NEW r, r.proposal = tx.proposal
  PROVE  Paid(r)
<1>1. Open(r.proposal) = Open(tx.proposal) /\ Open(tx.proposal) \in {0, 1}
  BY OpenIs DEF Open
<1> QED
  BY <1>1 DEF Still, Paid

\* Going on to a later step with the current one done.
LEMMA DoneGoes ==
  ASSUME TypeOK, tx.at \in DOMAIN wf, worker = "working", Kept, Still, NEW t \in Text,
         NEW at \in Nat \ {0}, at > tx.at \/ TakesIteration, GoOn(Done(t), at), ctx' \in Context
  PROVE  Walk
<1>1. Done(t) \in Rows /\ Touched(Done(t)) /\ Done(t).proposal = tx.proposal
  BY DoneTouches
<1>2. Goes(Done(t))
  BY DEF Goes
<1> QED
  BY <1>1, <1>2, StillPaid DEF Walk, Kept

LEMMA EndWalks ==
  ASSUME worker = "working", Kept, Still, NEW r \in Rows, Touched(r), Ends(r),
         r.proposal = tx.proposal
  PROVE  Walk
BY StillPaid DEF Walk, Kept

LEMMA DoneBlocks ==
  ASSUME TypeOK, tx.at \in DOMAIN wf, worker = "working", Kept, Still, NEW t \in Text,
         Block(Done(t))
  PROVE  Walk
BY DoneTouches, BlockEnds, EndWalks

LEMMA FailWalks ==
  ASSUME TypeOK, tx.at \in DOMAIN wf, worker = "working", Kept, Still, Fail(tx)
  PROVE  Walk
BY TxTouched, FailEnds, EndWalks

LEMMA WaitWalks ==
  ASSUME TypeOK, tx.at \in DOMAIN wf, worker = "working", Kept, Still, NEW reason \in Reason,
         WaitFor(reason)
  PROVE  Walk
BY WaitEnds, EndWalks

\* HAWK texts.
LEMMA TextTypes ==
  ASSUME NEW t \in Text, NEW price \in BOOLEAN
  PROVE  Repaired(t) \in Text /\ Filled(t, price) \in Text
BY DEF Text, Repaired, Filled

LEMMA JudgedTypes ==
  ASSUME NEW raw \in Text, NEW t \in Text, NEW price \in BOOLEAN
  PROVE  Judged(raw, t, price).row \in Text
<1>1. Filled(t, price) \in Text
  BY TextTypes
<1> QED
  BY <1>1 DEF Judged

LEMMA HawkEndsTypes ==
  ASSUME NEW raw \in Answer, NEW price \in BOOLEAN, NEW end \in HawkEnds(raw, price)
  PROVE  end.row \in Text
<1>1. \A t \in Answer : t \in Text /\ Repaired(t) \in Text
  BY TextTypes, StepLoopConstants DEF StepLoopConstants
<1>2. \A r \in Text, t \in Text : Judged(r, t, price).row \in Text
  BY JudgedTypes
<1>3. \/ end = [row |-> raw, out |-> raw, blocks |-> FALSE]
      \/ \E t \in Answer : end = Judged(t, Repaired(t), price)
      \/ end = Judged(raw, Repaired(raw), price)
      \/ \E t \in Answer : end = Judged(raw, Repaired(t), price)
  BY DEF HawkEnds
<1>4. CASE end = [row |-> raw, out |-> raw, blocks |-> FALSE]
  BY <1>1, <1>4
<1>5. CASE \E t \in Answer : end = Judged(t, Repaired(t), price)
  BY <1>1, <1>2, <1>5
<1>6. CASE end = Judged(raw, Repaired(raw), price)
  BY <1>1, <1>2, <1>6
<1>7. CASE \E t \in Answer : end = Judged(raw, Repaired(t), price)
  BY <1>1, <1>2, <1>7
<1> QED
  BY <1>3, <1>4, <1>5, <1>6, <1>7

LEMMA HawkWalks == ASSUME TypeOK, RunHawk PROVE Walk
<1>1. worker = "working" /\ tx.at \in DOMAIN wf /\ tx.at \in Nat /\ Kept /\ Still
  BY InDomain DEF RunHawk, Kept, Still, fixed, counts
<1>2. PICK raw \in Answer : \E end \in HawkEnds(raw, ctx.price) :
        IF end.blocks \/ ~ HandoffMet(end.out)
          THEN Block(Done(end.row))
          ELSE GoOn(Done(end.row), tx.at + 1) /\ UNCHANGED ctx
  BY DEF RunHawk
<1>3. PICK end \in HawkEnds(raw, ctx.price) :
        \/ Block(Done(end.row))
        \/ GoOn(Done(end.row), tx.at + 1) /\ UNCHANGED ctx
  BY <1>2
<1>4. ctx \in Context /\ ctx.price \in BOOLEAN
  BY DEF TypeOK, Context
<1>5. end.row \in Text
  BY <1>4, HawkEndsTypes
<1>6. CASE Block(Done(end.row))
  BY <1>1, <1>5, <1>6, DoneBlocks
<1>7. CASE GoOn(Done(end.row), tx.at + 1) /\ UNCHANGED ctx
  <2>1. ctx' \in Context /\ tx.at + 1 \in Nat \ {0} /\ tx.at + 1 > tx.at
    BY <1>1, <1>4, <1>7
  <2> QED
    BY <1>1, <1>5, <1>7, <2>1, DoneGoes
<1> QED
  BY <1>3, <1>6, <1>7

LEMMA HardStopWalks == ASSUME TypeOK, HardStop PROVE Walk
<1>1. worker = "working" /\ tx.at \in DOMAIN wf /\ Kept /\ Still /\ Fail(tx)
  BY InDomain DEF HardStop, Kept, Still, fixed, counts
<1> QED
  BY <1>1, FailWalks

\* What every action of the loop finds.
LEMMA Next1 ==
  ASSUME TypeOK, tx.at \in DOMAIN wf
  PROVE  /\ tx.at \in Nat \ {0} /\ tx.at + 1 \in Nat \ {0} /\ tx.at + 1 > tx.at
         /\ Skipped \in Nat \ {0} /\ Skipped > tx.at
         /\ ctx \in Context /\ Silent \in Text
<1>1. tx.at \in Nat \ {0} /\ wf[tx.at].skip \in Nat
  BY RowsFields, Definition DEF TypeOK
<1>2. Skipped = tx.at + 1 + wf[tx.at].skip
  BY DEF Skipped, Here
<1>3. ctx \in Context /\ Silent \in Text
  BY SilentType DEF TypeOK
<1> QED
  BY <1>1, <1>2, <1>3

LEMMA MarketWalks == ASSUME TypeOK, FetchMarketData PROVE Walk
<1>1. worker = "working" /\ tx.at \in DOMAIN wf /\ Kept /\ Still
  BY InDomain DEF FetchMarketData, Kept, Still, fixed, counts
<1>2. CASE GoOn(Done(Silent), tx.at + 1) /\ ctx' = [ctx EXCEPT !.price = TRUE]
  <2>1. ctx' \in Context
    BY <1>1, <1>2, Next1 DEF Context
  <2> QED
    BY <1>1, <1>2, <2>1, Next1, DoneGoes
<1>3. CASE Block(Done(Silent))
  BY <1>1, <1>3, Next1, DoneBlocks
<1> QED
  BY <1>2, <1>3 DEF FetchMarketData

LEMMA PromptWalks == ASSUME TypeOK, RunPrompt PROVE Walk
<1>1. worker = "working" /\ tx.at \in DOMAIN wf /\ Kept /\ Still
  BY InDomain DEF RunPrompt, Kept, Still, fixed, counts
<1>2. CASE GoOn(Done(Silent), tx.at + 1) /\ UNCHANGED ctx
  BY <1>1, <1>2, Next1, DoneGoes
<1>3. CASE Block(Done(Silent))
  BY <1>1, <1>3, Next1, DoneBlocks
<1> QED
  BY <1>2, <1>3 DEF RunPrompt

LEMMA MajorityType == Majority(tx) \in {"BULLISH", "BEARISH", "NONE"}
BY DEF Majority

LEMMA VoteWalks == ASSUME TypeOK, RunHawkVote PROVE Walk
<1> DEFINE m == Majority(tx)
           done == [Done(Says(m)) EXCEPT !.at = tx.at + 1]
<1>1. worker = "working" /\ tx.at \in DOMAIN wf /\ Kept /\ Still
  BY InDomain DEF RunHawkVote, Kept, Still, fixed, counts
<1>2. m \in {"BULLISH", "BEARISH", "NONE"} /\ Says(m) \in Text
  BY MajorityType, SaysType
<1> HIDE DEF m
<1>3. \/ Fail(tx) \/ Block(Done(Silent))
      \/ Stop(done, "completed", "none")
      \/ GoOn(Done(Says(m)), tx.at + 1) /\ ctx' = [ctx EXCEPT !.majority = m]
  BY DEF RunHawkVote, m
<1>4. CASE Fail(tx)
  BY <1>1, <1>4, FailWalks
<1>5. CASE Block(Done(Silent))
  BY <1>1, <1>5, Next1, DoneBlocks
<1>6. CASE Stop(done, "completed", "none")
  <2>1. Done(Says(m)) \in Rows /\ Touched(Done(Says(m))) /\ Done(Says(m)).proposal = tx.proposal
    BY <1>1, <1>2, DoneTouches
  <2>2. done \in Rows /\ done.row = Done(Says(m)).row /\ done.at = tx.at + 1
        /\ done.proposal = tx.proposal
    BY <1>1, <2>1, Next1 DEF Rows
  <2> HIDE DEF done
  <2>3. Touched(done)
    BY <2>1, <2>2 DEF Touched
  <2>4. \A i \in DOMAIN wf : i > done.at => i > tx.at
    BY <1>1, <2>2, Next1, Definition DEF TypeOK
  <2>5. Ends(done)
    BY <1>6, <2>4 DEF Ends, RunStatus, Reason
  <2> QED
    BY <1>1, <2>2, <2>3, <2>5, EndWalks
<1>7. CASE GoOn(Done(Says(m)), tx.at + 1) /\ ctx' = [ctx EXCEPT !.majority = m]
  <2>1. ctx' \in Context
    BY <1>1, <1>2, <1>7, Next1 DEF Context
  <2> QED
    BY <1>1, <1>2, <1>7, <2>1, Next1, DoneGoes
<1> QED
  BY <1>3, <1>4, <1>5, <1>6, <1>7

LEMMA CompileWalks == ASSUME TypeOK, RunCompile PROVE Walk
<1>1. worker = "working" /\ tx.at \in DOMAIN wf /\ Kept /\ orders' = orders
  BY InDomain DEF RunCompile, Kept, fixed
<1>2. PICK dir \in Direction, stored \in {"NONE", "PENDING_APPROVAL", "BLOCKED_KILL_SWITCH"} :
        LET rows == IF stored = "NONE" THEN Done(Silent)
                    ELSE [Done(Silent) EXCEPT !.proposal = [status |-> stored, dir |-> dir]]
        IN
        /\ \/ Block(rows)
           \/ Fail(rows)
           \/ Aligned(dir) /\ GoOn(rows, tx.at + 1) /\ UNCHANGED ctx
        /\ compiled' = IF stored = "NONE" THEN compiled ELSE compiled + 1
  BY DEF RunCompile
<1> DEFINE p == [status |-> stored, dir |-> dir]
           rows == IF stored = "NONE" THEN Done(Silent) ELSE [Done(Silent) EXCEPT !.proposal = p]
<1>3. /\ \/ Block(rows)
         \/ Fail(rows)
         \/ GoOn(rows, tx.at + 1) /\ UNCHANGED ctx
      /\ compiled' = IF stored = "NONE" THEN compiled ELSE compiled + 1
  BY <1>2
<1>4. p \in Proposal
  BY DEF Proposal
<1> HIDE DEF p
<1>5. Done(Silent) \in Rows /\ Touched(Done(Silent)) /\ Done(Silent).proposal = tx.proposal
      /\ Done(Silent).at = tx.at
  BY <1>1, Next1, DoneTouches
<1>6. rows \in Rows /\ rows.row = Done(Silent).row /\ rows.at = tx.at
      /\ (stored = "NONE" => rows.proposal = tx.proposal)
  BY <1>4, <1>5 DEF Rows
<1> HIDE DEF rows
<1>7. Touched(rows)
  BY <1>5, <1>6 DEF Touched
<1>8. ASSUME NEW r, r.proposal = rows.proposal PROVE Paid(r)
  <2>1. CASE stored = "NONE"
    BY <1>1, <1>3, <1>6, <1>8, <2>1, StillPaid DEF Still
  <2>2. CASE stored # "NONE"
    BY <1>1, <1>3, <2>2 DEF Paid
  <2> QED
    BY <2>1, <2>2
<1>9. CASE Block(rows)
  BY <1>1, <1>6, <1>7, <1>8, <1>9, BlockEnds DEF Walk, Kept
<1>10. CASE Fail(rows)
  <2>1. PICK r \in Rows : Touched(r) /\ Ends(r) /\ r.proposal = rows.proposal
    BY <1>1, <1>6, <1>7, <1>10, FailEnds
  <2> QED
    BY <1>1, <1>8, <2>1 DEF Walk, Kept
<1>11. CASE GoOn(rows, tx.at + 1) /\ UNCHANGED ctx
  <2>1. Goes(rows)
    BY <1>1, <1>11, Next1 DEF Goes
  <2> QED
    BY <1>1, <1>6, <1>7, <1>8, <2>1 DEF Walk, Kept
<1> QED
  BY <1>3, <1>9, <1>10, <1>11

\* A pending or approved proposal settled, with or without an order.
LEMMA SettleWalks ==
  ASSUME TypeOK, tx.at \in DOMAIN wf, worker = "working", Kept,
         NEW s \in {"REJECTED", "EXECUTED", "EXECUTION_FAILED"},
         compiled' = compiled,
         \/ orders' = orders
         \/ orders' = orders + 1 /\ tx.proposal.status \in {"PENDING_APPROVAL", "APPROVED"},
         \/ NextKind = "journal" /\ Block(Settled(Done(Silent), s))
         \/ \E at \in Nat \ {0} : /\ at > tx.at /\ GoOn(Settled(Done(Silent), s), at)
                                  /\ UNCHANGED ctx
  PROVE  Walk
<1> DEFINE rows == Settled(Done(Silent), s)
<1>1. Done(Silent) \in Rows /\ Touched(Done(Silent)) /\ Done(Silent).at = tx.at
  BY Next1, DoneTouches
<1>2. rows \in Rows /\ rows.row = Done(Silent).row /\ rows.at = tx.at /\ rows.proposal.status = s
  BY <1>1, SettledTouches DEF ProposalStatus
<1>3. \/ Block(rows)
      \/ \E at \in Nat \ {0} : at > tx.at /\ GoOn(rows, at) /\ UNCHANGED ctx
  OBVIOUS
<1> HIDE DEF rows
<1>4. Touched(rows)
  BY <1>1, <1>2 DEF Touched
<1>5. Open(rows.proposal) = 0
  BY <1>2, OpenIs
<1>6. Paid(rows)
  <2>1. CASE orders' = orders
    <3>1. Open(tx.proposal) \in {0, 1}
      BY OpenIs
    <3> QED
      BY <1>5, <2>1, <3>1 DEF Paid
  <2>2. CASE orders' = orders + 1 /\ tx.proposal.status \in {"PENDING_APPROVAL", "APPROVED"}
    <3>1. Open(tx.proposal) = 1
      BY <2>2, OpenIs
    <3> QED
      BY <1>5, <2>2, <3>1 DEF Paid
  <2> QED
    BY <2>1, <2>2
<1>7. Goes(rows) \/ Ends(rows)
  BY <1>2, <1>3, Next1, BlockEnds DEF Goes
<1> QED
  BY <1>2, <1>4, <1>6, <1>7 DEF Walk, Kept

LEMMA GateSkipsWalks == ASSUME TypeOK, GateSkips PROVE Walk
<1>1. worker = "working" /\ tx.at \in DOMAIN wf /\ Kept /\ Still
      /\ GoOn(Done(Silent), Skipped) /\ UNCHANGED ctx
  BY InDomain DEF GateSkips, Kept, Still, fixed, counts
<1> QED
  BY <1>1, Next1, DoneGoes

LEMMA GateExecutesWalks == ASSUME TypeOK, GateExecutes PROVE Walk
<1>1. worker = "working" /\ tx.at \in DOMAIN wf /\ Kept /\ compiled' = compiled
  BY InDomain DEF GateExecutes, Kept, fixed
<1>2. CASE GoOn(Done(Silent), Skipped) /\ UNCHANGED <<ctx, orders>>
  BY <1>1, <1>2, Next1, DoneGoes DEF Still
<1>3. CASE GoOn(Settled(Done(Silent), "REJECTED"), Skipped) /\ UNCHANGED <<ctx, orders>>
  BY <1>1, <1>3, Next1, SettleWalks
<1>4. CASE tx.proposal.status = "PENDING_APPROVAL" /\ SendOrder(Skipped)
  <2>1. PICK s \in {"EXECUTED", "EXECUTION_FAILED"} : GoOn(Settled(Done(Silent), s), Skipped)
    BY <1>4 DEF SendOrder
  <2>2. orders' = orders + 1 /\ UNCHANGED ctx
    BY <1>4 DEF SendOrder
  <2> QED
    BY <1>1, <1>4, <2>1, <2>2, Next1, SettleWalks
<1> QED
  BY <1>2, <1>3, <1>4 DEF GateExecutes

LEMMA GateWaitsWalks == ASSUME TypeOK, GateWaits PROVE Walk
<1>1. worker = "working" /\ tx.at \in DOMAIN wf /\ Kept /\ Still
      /\ (WaitFor("warmup") \/ WaitFor("approval"))
  BY InDomain DEF GateWaits, Kept, Still, fixed, counts
<1> QED
  BY <1>1, WaitWalks DEF Reason

LEMMA ConfidenceWalks == ASSUME TypeOK, ConfidenceGate PROVE Walk
<1>1. worker = "working" /\ tx.at \in DOMAIN wf /\ Kept /\ Still
  BY InDomain DEF ConfidenceGate, Kept, Still, fixed, counts
<1>2. CASE WaitFor("approval")
  BY <1>1, <1>2, WaitWalks DEF Reason
<1>3. CASE GoOn(Done(Silent), Skipped) /\ UNCHANGED ctx
  BY <1>1, <1>3, Next1, DoneGoes
<1> QED
  BY <1>2, <1>3 DEF ConfidenceGate

LEMMA ApprovalWalks == ASSUME TypeOK, ApprovalStep PROVE Walk
<1>1. worker = "working" /\ tx.at \in DOMAIN wf /\ Kept /\ Still /\ WaitFor("approval")
  BY InDomain DEF ApprovalStep, Kept, Still, fixed, counts
<1> QED
  BY <1>1, WaitWalks DEF Reason

LEMMA ExchangeWalks == ASSUME TypeOK, ExchangeExecute PROVE Walk
<1>1. worker = "working" /\ tx.at \in DOMAIN wf /\ Kept /\ compiled' = compiled
  BY InDomain DEF ExchangeExecute, Kept, fixed
<1>2. CASE OrderMissing(Done(Silent)) /\ UNCHANGED orders
  <2>1. \/ Block(Done(Silent))
        \/ GoOn(Done(Silent), Done(Silent).at + 1) /\ UNCHANGED ctx
        \/ GoOn(Done(Silent), tx.at + 1) /\ UNCHANGED ctx
    BY <1>2 DEF OrderMissing
  <2>2. Done(Silent).at = tx.at
    BY <1>1, Next1, DoneTouches
  <2> QED
    BY <1>1, <1>2, <2>1, <2>2, Next1, DoneBlocks, DoneGoes DEF Still
<1>3. CASE OrderMissing(Settled(Done(Silent), "REJECTED")) /\ UNCHANGED orders
  <2>1. \/ NextKind = "journal" /\ Block(Settled(Done(Silent), "REJECTED"))
        \/ GoOn(Settled(Done(Silent), "REJECTED"), tx.at + 1) /\ UNCHANGED ctx
    BY <1>3 DEF OrderMissing
  <2> QED
    BY <1>1, <1>3, <2>1, Next1, SettleWalks
<1>4. CASE tx.proposal.status = "APPROVED" /\ SendOrder(tx.at + 1)
  <2>1. PICK s \in {"EXECUTED", "EXECUTION_FAILED"} : GoOn(Settled(Done(Silent), s), tx.at + 1)
    BY <1>4 DEF SendOrder
  <2>2. orders' = orders + 1 /\ UNCHANGED ctx
    BY <1>4 DEF SendOrder
  <2> QED
    BY <1>1, <1>4, <2>1, <2>2, Next1, SettleWalks
<1> QED
  BY <1>2, <1>3, <1>4 DEF ExchangeExecute

LEMMA ConditionalWalks == ASSUME TypeOK, Conditional PROVE Walk
<1>1. worker = "working" /\ tx.at \in DOMAIN wf /\ Kept /\ Still /\ UNCHANGED ctx
      /\ (GoOn(Done(Silent), tx.at + 1) \/ GoOn(Done(Silent), Skipped))
  BY InDomain DEF Conditional, Kept, Still, fixed, counts
<1> QED
  BY <1>1, Next1, DoneGoes

LEMMA LoopWalks == ASSUME TypeOK, LoopStep PROVE Walk
<1> DEFINE n == ctx.loops[tx.at]
           back == IF Here.back = 0 THEN tx.at ELSE Here.back
<1>1. worker = "working" /\ tx.at \in DOMAIN wf /\ Kept /\ Still /\ wf[tx.at].kind = "loop"
  BY InDomain DEF LoopStep, Kept, Still, fixed, counts
<1>2. Here.kind = "loop" /\ Here.back \in Nat /\ Here.iterations \in Nat
  BY <1>1, Next1, Definition DEF Here, TypeOK, Step
<1>3. back \in Nat \ {0} /\ n \in Nat /\ ctx \in Context
  BY <1>1, <1>2, Next1 DEF Context
<1>4. \/ /\ GoOn(Done(Silent), back) /\ n < Here.iterations
         /\ ctx' = [ctx EXCEPT !.loops[tx.at] = Counted(n)]
      \/ GoOn(Done(Silent), tx.at + 1) /\ ctx' = [ctx EXCEPT !.loops[tx.at] = 0]
  BY DEF LoopStep
<1> HIDE DEF back, n
<1>5. ASSUME NEW c \in Nat PROVE [ctx EXCEPT !.loops[tx.at] = c] \in Context
  <2>1. [ctx EXCEPT !.loops[tx.at] = c] = [ctx EXCEPT !.loops = [ctx.loops EXCEPT ![tx.at] = c]]
    BY <1>3 DEF Context
  <2>2. [ctx.loops EXCEPT ![tx.at] = c] \in [DOMAIN wf -> Nat]
    BY <1>1, <1>3 DEF Context
  <2> QED
    BY <1>3, <2>1, <2>2 DEF Context
<1>6. ctx' \in Context
  <2>1. Counted(n) \in Nat
    BY <1>3 DEF Counted
  <2> QED
    BY <1>4, <1>5, <2>1
<1>7. ASSUME n < Here.iterations, ctx' = [ctx EXCEPT !.loops[tx.at] = Counted(n)]
      PROVE  TakesIteration
  <2>1. ctx'.loops[tx.at] = n + 1
    BY <1>1, <1>3, <1>7 DEF Context, Counted
  <2>2. ctx.loops[tx.at] = n
    BY DEF n
  <2> QED
    BY <1>1, <1>2, <1>3, <1>7, <2>1, <2>2 DEF TakesIteration
<1> QED
  BY <1>1, <1>3, <1>4, <1>6, <1>7, Next1, DoneGoes

LEMMA RaisesWalks == ASSUME TypeOK, StepRaises PROVE Walk
<1>1. worker = "working" /\ tx.at \in DOMAIN wf /\ Kept /\ Still
  BY InDomain DEF StepRaises, Kept, Still, fixed, counts
<1>2. CASE Fail(tx)
  BY <1>1, <1>2, FailWalks
<1>3. CASE Stop(Written(tx, "paused", Silent), "paused", "error")
  <2> DEFINE r == Written(tx, "paused", Silent)
  <2>1. r \in Rows /\ Touched(r) /\ r.proposal = tx.proposal /\ r.at = tx.at
        /\ r.row[tx.at].status = "paused"
    BY <1>1, TxTouched, SilentType, WrittenTouches
  <2>2. Stop(r, "paused", "error")
    BY <1>3
  <2> HIDE DEF r
  <2>3. Ends(r)
    BY <2>1, <2>2 DEF Ends, ToDo, RunStatus, Reason
  <2> QED
    BY <1>1, <2>1, <2>3, EndWalks
<1> QED
  BY <1>2, <1>3 DEF StepRaises

LEMMA FinishWalks == ASSUME TypeOK, Finish PROVE Walk
<1> DEFINE r == [tx EXCEPT !.at = Len(wf) + 1]
<1>1. worker = "working" /\ Kept /\ Still /\ Stop(r, "completed", "none")
  BY DEF Finish, Kept, Still, fixed, counts
<1>2. Len(wf) \in Nat /\ DOMAIN wf = 1 .. Len(wf) /\ tx \in Rows
  BY Definition DEF TypeOK
<1>3. r \in Rows /\ r.row = tx.row /\ r.at = Len(wf) + 1 /\ r.proposal = tx.proposal
  BY <1>2 DEF Rows
<1> HIDE DEF r
<1>4. Touched(r)
  BY <1>3 DEF Touched
<1>5. \A i \in DOMAIN wf : i > r.at => i > tx.at
  BY <1>2, <1>3
<1>6. Ends(r)
  BY <1>1, <1>5 DEF Ends, RunStatus, Reason
<1> QED
  BY <1>1, <1>3, <1>4, <1>6, EndWalks

LEMMA WorkerWalks == ASSUME TypeOK, WorkerStep PROVE Walk \/ Acknowledge
BY HawkWalks, HardStopWalks, MarketWalks, VoteWalks, PromptWalks, CompileWalks, GateSkipsWalks,
   GateExecutesWalks, GateWaitsWalks, ConfidenceWalks, ApprovalWalks, ExchangeWalks,
   ConditionalWalks, LoopWalks, RaisesWalks, FinishWalks DEF WorkerStep

-----------------------------------------------------------------------------
(* Type correctness. *)

LEMMA SameDefinition ==
  ASSUME wf' = wf
  PROVE  Rows' = Rows /\ Context' = Context /\ HasLoop' = HasLoop
BY DEF Rows, Context, HasLoop

\* A row set whose run columns are written.
LEMMA MarkedType ==
  ASSUME NEW rows \in Rows, NEW status \in RunStatus, NEW reason \in Reason
  PROVE  /\ [rows EXCEPT !.status = status, !.reason = reason] \in Rows
         /\ [rows EXCEPT !.status = status] \in Rows
BY DEF Rows

LEMMA StopTypes ==
  ASSUME wf \in Workflow, NEW rows \in Rows, NEW status \in RunStatus, NEW reason \in Reason,
         Stop(rows, status, reason)
  PROVE  /\ db' \in Rows /\ tx' \in Rows /\ tx' = db' /\ ctx' \in Context /\ worker' = "leaving"
         /\ db'.at = rows.at /\ db'.row = rows.row /\ db'.proposal = rows.proposal
         /\ db'.status = status
<1>1. db' = [rows EXCEPT !.status = status, !.reason = reason] /\ tx' = db'
      /\ worker' = "leaving" /\ ctx' = FreshContext
  BY DEF Stop
<1>2. db' \in Rows
  BY <1>1, MarkedType
<1>3. db'.at = rows.at /\ db'.row = rows.row /\ db'.proposal = rows.proposal
      /\ db'.status = status
  BY <1>1 DEF Rows
<1> QED
  BY <1>1, <1>2, <1>3, FreshType

LEMMA GoOnTypes ==
  ASSUME NEW rows \in Rows, NEW at \in Nat \ {0}, GoOn(rows, at)
  PROVE  /\ tx' \in Rows /\ db' = db /\ worker' = worker
         /\ tx'.at = at /\ tx'.row = rows.row /\ tx'.proposal = rows.proposal
BY DEF GoOn, Rows

LEMMA StartTypes ==
  ASSUME wf \in Workflow, NEW rows \in Rows, Start(rows)
  PROVE  /\ db' \in Rows /\ tx' = db' /\ ctx' \in Context /\ worker' = "working"
         /\ worker = "idle" /\ db'.status = "running"
         /\ db'.at = rows.at /\ db'.row = rows.row /\ db'.proposal = rows.proposal
<1>1. db' = [rows EXCEPT !.status = "running", !.reason = "none"] /\ tx' = db'
      /\ ctx' = FreshContext /\ worker' = "working" /\ worker = "idle"
  BY DEF Start
<1>2. "running" \in RunStatus /\ "none" \in Reason
  BY DEF RunStatus, Reason
<1>3. db' \in Rows
  BY <1>1, <1>2, MarkedType
<1>4. db'.at = rows.at /\ db'.row = rows.row /\ db'.proposal = rows.proposal
      /\ db'.status = "running"
  BY <1>1 DEF Rows
<1> QED
  BY <1>1, <1>3, <1>4, FreshType

LEMMA MarkFailedTypes ==
  ASSUME NEW rows \in Rows, NEW r \in MarkFailed(rows)
  PROVE  /\ r \in Rows /\ r.at = rows.at /\ r.row = rows.row /\ r.proposal = rows.proposal
         /\ r.status = rows.status \/ r.status = "failed"
<1>1. r = rows \/ r = [rows EXCEPT !.status = "failed"]
  BY DEF MarkFailed
<1>2. "failed" \in RunStatus
  BY DEF RunStatus
<1>3. [rows EXCEPT !.status = "failed"] \in Rows
  BY <1>2 DEF Rows
<1> QED
  BY <1>1, <1>3 DEF Rows

\* The rows a resume starts from.
LEMMA PastApprovalTypes ==
  ASSUME NEW rows \in Rows
  PROVE  LET r == PastApproval(rows) IN
         /\ r \in Rows /\ r.at = rows.at + 1 /\ r.proposal = rows.proposal
         /\ \A i \in DOMAIN wf : i # rows.at => r.row[i] = rows.row[i]
<1> DEFINE written == [i \in DOMAIN wf |-> IF i = rows.at THEN Approved ELSE rows.row[i]]
<1>1. rows.row \in [DOMAIN wf -> StepRow] /\ rows.at \in Nat \ {0} /\ rows.at + 1 \in Nat \ {0}
  BY RowsFields
<1>2. written \in [DOMAIN wf -> StepRow]
  BY <1>1, SilentType
<1>3. \A i \in DOMAIN wf : i # rows.at => written[i] = rows.row[i]
  OBVIOUS
<1>4. PastApproval(rows) = [rows EXCEPT !.at = rows.at + 1, !.row = written]
  BY DEF PastApproval, Rows
<1> HIDE DEF written
<1> QED
  BY <1>1, <1>2, <1>3, <1>4 DEF Rows

LEMMA PromotedTypes ==
  ASSUME NEW rows \in Rows, NEW r \in Promoted(rows)
  PROVE  /\ r \in Rows /\ r.at = rows.at /\ r.row = rows.row
         /\ Open(r.proposal) = Open(rows.proposal)
<1>1. CASE r = rows
  BY <1>1
<1>2. CASE r = Settled(rows, "APPROVED") /\
           rows.proposal.status \in {"PENDING_APPROVAL", "BLOCKED_KILL_SWITCH"}
  <2>1. r \in Rows /\ r.at = rows.at /\ r.row = rows.row /\ r.proposal.status = "APPROVED"
    BY <1>2, SettledTouches DEF ProposalStatus
  <2> QED
    BY <1>2, <2>1, OpenIs
<1> QED
  BY <1>1, <1>2 DEF Promoted

LEMMA PastBlockTypes ==
  ASSUME NEW rows \in Rows
  PROVE  /\ PastBlock(rows) \in Rows /\ PastBlock(rows).at = rows.at + 1
         /\ PastBlock(rows).row = rows.row /\ PastBlock(rows).proposal = rows.proposal
<1>1. rows.at + 1 \in Nat \ {0}
  BY RowsFields
<1> QED
  BY <1>1 DEF PastBlock, Rows

-----------------------------------------------------------------------------
(* Every step keeps the invariant. *)

LEMMA TypesKept ==
  ASSUME TypeOK, UNCHANGED fixed, db' \in Rows, tx' \in Rows, ctx' \in Context,
         worker' \in {"idle", "working", "leaving"},
         message' \in {"none", "execute", "approve", "override"},
         orders' \in Nat, compiled' \in Nat, requests' \in Nat, faults' \in Nat,
         requests' + faults' <= MaxEvents, history' \subseteq Past
  PROVE  TypeOK'
<1>1. Rows' = Rows /\ Context' = Context /\ wf' = wf /\ stopEarly' = stopEarly
  BY SameDefinition DEF fixed
<1> QED
  BY <1>1 DEF TypeOK

LEMMA InitKeeps == ASSUME Init PROVE IInv
<1>1. wf \in Workflow /\ stopEarly \in BOOLEAN
  BY StepLoopConstants DEF Init, StepLoopConstants
<1> DEFINE p == [status |-> "NONE", dir |-> "LONG"]
           empty == [i \in DOMAIN wf |-> [status |-> "none", text |-> Silent]]
<1>2. p \in Proposal /\ p.status = "NONE"
  BY DEF Proposal, Direction
<1>3. empty \in [DOMAIN wf -> StepRow] /\ \A i \in DOMAIN wf : empty[i].status # "completed"
  BY SilentType DEF StepRow
<1>4. db = [status |-> "queued", reason |-> "none", at |-> 1, proposal |-> p, row |-> empty]
  BY DEF Init, NewRun
<1> HIDE DEF p, empty
<1>5. db \in Rows /\ db.row = empty /\ db.proposal = p /\ db.status = "queued"
  BY <1>2, <1>3, <1>4 DEF Rows, RunStatus, Reason
<1>6. TypeOK
  BY <1>1, <1>5, FreshType, StepLoopConstants DEF Init, TypeOK, StepLoopConstants
<1>7. Accounted
  <2>1. Open(db.proposal) = 0
    BY <1>2, <1>5, OpenIs
  <2> QED
    BY <2>1 DEF Init, Accounted, Current
<1>8. Ordered
  BY <1>3, <1>5 DEF Init, Ordered, NothingAhead, ToDo
<1> QED
  BY <1>6, <1>7, <1>8 DEF IInv

\* The worker's steps.
LEMMA WalkKeeps == ASSUME IInv, Walk PROVE IInv'
<1> USE DEF IInv
<1>1. /\ worker = "working" /\ UNCHANGED <<fixed, message, requests, faults, history>>
      /\ wf' = wf
  BY DEF Walk, fixed
<1>2. PICK rows \in Rows : Touched(rows) /\ Paid(rows) /\ (Goes(rows) \/ Ends(rows))
  BY DEF Walk
<1>3. wf \in Workflow /\ DOMAIN wf \subseteq Nat /\ tx \in Rows /\ tx.at \in Nat /\ rows.at \in Nat
      /\ orders \in Nat /\ compiled \in Nat /\ faults \in Nat
  BY Definition, RowsFields DEF TypeOK
<1>4. orders' \in Nat /\ compiled' \in Nat
      /\ orders' + Open(rows.proposal) <= compiled' + faults'
  <2>1. Open(rows.proposal) \in {0, 1} /\ Open(tx.proposal) \in {0, 1} /\ faults' = faults
    BY <1>1, OpenIs
  <2>2. orders + Open(tx.proposal) <= compiled + faults
    BY <1>1 DEF Accounted, Current
  <2> QED
    BY <1>2, <1>3, <2>1, <2>2 DEF Paid
<1>5. /\ db' \in Rows /\ tx' \in Rows /\ ctx' \in Context /\ worker' \in {"working", "leaving"}
      /\ Current'.proposal = rows.proposal
      /\ Straight' => Ordered'
  <2>1. CASE Goes(rows)
    <3>1. ctx' \in Context
      BY <2>1 DEF Goes
    <3>2. PICK at \in Nat \ {0} : GoOn(rows, at) /\ (at > tx.at \/ TakesIteration)
      BY <2>1 DEF Goes
    <3>3. /\ tx' \in Rows /\ db' = db /\ worker' = worker
          /\ tx'.at = at /\ tx'.row = rows.row /\ tx'.proposal = rows.proposal
      BY <3>2, GoOnTypes
    <3>4. db' \in Rows /\ Current' = tx'
      BY <1>1, <3>3 DEF TypeOK, Current
    <3>5. ASSUME Straight' PROVE Ordered'
      <4>1. Straight /\ at > tx.at
        <5>1. Straight
          BY <1>1, <3>5, SameDefinition DEF Straight
        <5>2. ~ TakesIteration
          BY <5>1 DEF Straight, HasLoop, TakesIteration, Here
        <5> QED
          BY <3>2, <5>1, <5>2
      <4>2. \A i \in DOMAIN wf : i >= at => tx'.row[i].status # "completed"
        <5>1. \A i \in DOMAIN wf : i >= at => i > tx.at /\ i # tx.at
          BY <1>3, <4>1
        <5>2. NothingAhead(tx)
          BY <1>1, <4>1 DEF Ordered
        <5> QED
          BY <1>2, <3>3, <5>1, <5>2 DEF Touched, NothingAhead
      <4>3. NothingAhead(tx)' /\ ToDo(tx)'
        BY <1>1, <1>3, <3>3, <4>2 DEF NothingAhead, ToDo
      <4>4. NothingAhead(db)'
        BY <1>1, <3>3, <4>1 DEF NothingAhead, Ordered
      <4>5. (db.status \in {"waiting_approval", "paused"} => ToDo(db))'
        BY <1>1, <3>3, <4>1 DEF ToDo, Ordered
      <4> QED
        BY <1>1, <3>3, <4>3, <4>4, <4>5 DEF Ordered
    <3> QED
      BY <1>1, <3>1, <3>3, <3>4, <3>5
  <2>2. CASE Ends(rows)
    <3>1. \A i \in DOMAIN wf : i > rows.at => i > tx.at
      BY <2>2 DEF Ends
    <3>2. PICK status \in RunStatus, reason \in Reason :
            /\ Stop(rows, status, reason)
            /\ status \in {"waiting_approval", "paused"} => ToDo(rows)
      BY <2>2 DEF Ends
    <3>3. /\ db' \in Rows /\ tx' \in Rows /\ tx' = db' /\ ctx' \in Context /\ worker' = "leaving"
          /\ db'.at = rows.at /\ db'.row = rows.row /\ db'.proposal = rows.proposal
          /\ db'.status = status
      BY <1>3, <3>2, StopTypes
    <3>4. ASSUME Straight' PROVE Ordered'
      <4>1. NothingAhead(tx)
        BY <1>1, <3>4, SameDefinition DEF Straight, Ordered
      <4>2. \A i \in DOMAIN wf : i > rows.at => i # tx.at /\ i > tx.at
        BY <1>3, <3>1
      <4>3. NothingAhead(db)'
        BY <1>1, <1>2, <3>3, <4>1, <4>2 DEF NothingAhead, Touched
      <4>4. (db.status \in {"waiting_approval", "paused"} => ToDo(db))'
        BY <1>1, <3>2, <3>3 DEF ToDo
      <4> QED
        BY <3>3, <4>3, <4>4 DEF Ordered
    <3>5. Current' = db'
      BY <3>3 DEF Current
    <3> QED
      BY <3>3, <3>4, <3>5
  <2> QED
    BY <1>2, <2>1, <2>2
<1>6. TypeOK'
  <2>1. /\ worker' \in {"idle", "working", "leaving"}
        /\ message' \in {"none", "execute", "approve", "override"}
        /\ requests' \in Nat /\ faults' \in Nat /\ requests' + faults' <= MaxEvents
        /\ history' \subseteq Past
    BY <1>1, <1>5 DEF TypeOK
  <2> QED
    BY <1>1, <1>4, <1>5, <2>1, TypesKept
<1>7. Accounted'
  <2>1. Open(Current.proposal)' = Open(rows.proposal)
    BY <1>5 DEF Open
  <2> QED
    BY <1>4, <2>1 DEF Accounted
<1>8. Ordered'
  BY <1>5 DEF Ordered
<1> QED
  BY <1>6, <1>7, <1>8

\* What the other actions leave of the numbers and rows.
LEMMA Numbers ==
  ASSUME TypeOK
  PROVE  /\ wf \in Workflow /\ db \in Rows /\ tx \in Rows /\ ctx \in Context
         /\ orders \in Nat /\ compiled \in Nat /\ requests \in Nat /\ faults \in Nat
         /\ MaxEvents \in Nat /\ requests + faults <= MaxEvents /\ history \subseteq Past
         /\ db.at \in Nat \ {0} /\ DOMAIN wf \subseteq Nat
         /\ db.status \in RunStatus /\ db.reason \in Reason
BY RowsFields, Definition, StepLoopConstants DEF TypeOK, StepLoopConstants

LEMMA AcknowledgeKeeps == ASSUME IInv, Acknowledge PROVE IInv'
<1> USE DEF IInv
<1>1. /\ worker = "leaving" /\ worker' = "idle" /\ message' = "none"
      /\ UNCHANGED <<fixed, db, tx, ctx, counts>>
  BY DEF Acknowledge
<1>2. TypeOK'
  BY <1>1, Numbers, TypesKept DEF counts
<1>3. Accounted'
  BY <1>1 DEF Accounted, Current, Open, counts
<1>4. Ordered'
  BY <1>1, SameDefinition DEF Ordered, Straight, NothingAhead, ToDo, fixed, counts
<1> QED
  BY <1>2, <1>3, <1>4

\* A delivery loses its transaction: what it sent is what its fault pays for.
LEMMA FailureKeeps == ASSUME IInv, DeliveryFails PROVE IInv'
<1> USE DEF IInv
<1>1. /\ worker # "idle" /\ requests + faults < MaxEvents /\ faults' = faults + 1
      /\ worker' = "idle" /\ ctx' = FreshContext
      /\ UNCHANGED <<fixed, orders, compiled, requests>> /\ wf' = wf
  BY DEF DeliveryFails, fixed
<1>2. \/ /\ history' = history \cup {"redelivered"} /\ db' = db /\ tx' = db
         /\ message' = message
      \/ /\ db' \in MarkFailed(db) /\ tx' = db'
         /\ message' = "none" /\ history' = history
  BY DEF DeliveryFails
<1>3. /\ db' \in Rows /\ tx' \in Rows /\ db'.at = db.at /\ db'.row = db.row
      /\ db'.proposal = db.proposal /\ (db'.status = db.status \/ db'.status = "failed")
  BY <1>2, Numbers, MarkFailedTypes
<1>4. TypeOK'
  <2>1. requests' + faults' <= MaxEvents /\ requests' \in Nat /\ faults' \in Nat
    BY <1>1, Numbers
  <2>2. history' \subseteq Past /\ message' \in {"none", "execute", "approve", "override"}
    BY <1>2 DEF TypeOK, Past
  <2> QED
    BY <1>1, <1>3, <2>1, <2>2, Numbers, FreshType, TypesKept
<1>5. Accounted'
  <2>1. Open(Current.proposal)' = Open(db.proposal)
    BY <1>1, <1>3 DEF Current, Open
  <2>2. orders <= compiled + faults
    <3>1. Open(Current.proposal) \in {0, 1}
      BY OpenIs
    <3> QED
      BY <3>1, Numbers DEF Accounted
  <2>3. Open(db.proposal) \in {0, 1}
    BY OpenIs
  <2> QED
    BY <1>1, <2>1, <2>2, <2>3, Numbers DEF Accounted
<1>6. Ordered'
  <2>1. CASE history' = history \cup {"redelivered"}
    <3>1. ~ Straight'
      BY <2>1 DEF Straight
    <3> QED
      BY <3>1 DEF Ordered
  <2>2. CASE message' = "none" /\ history' = history
    <3>1. Straight' = Straight
      BY <1>1, <2>2, SameDefinition DEF Straight
    <3> QED
      BY <1>1, <1>3, <2>2, <3>1 DEF Ordered, NothingAhead, ToDo
  <2> QED
    BY <1>2, <2>1, <2>2
<1> QED
  BY <1>4, <1>5, <1>6

\* Starting from committed rows with nothing done from the current step on.
LEMMA StartKeeps ==
  ASSUME IInv, NEW rows \in Rows, Start(rows), Open(rows.proposal) = Open(db.proposal),
         UNCHANGED <<fixed, message, orders, compiled, requests, faults>>,
         history' \subseteq Past,
         Straight' => NothingAhead(rows) /\ ToDo(rows)
  PROVE  IInv'
<1> USE DEF IInv
<1>1. /\ db' \in Rows /\ tx' = db' /\ ctx' \in Context /\ worker' = "working"
      /\ worker = "idle" /\ db'.status = "running"
      /\ db'.at = rows.at /\ db'.row = rows.row /\ db'.proposal = rows.proposal
  BY Numbers, StartTypes
<1>2. TypeOK'
  BY <1>1, Numbers, TypesKept DEF TypeOK
<1>3. Accounted'
  <2>1. Open(Current.proposal)' = Open(rows.proposal)
    BY <1>1 DEF Current, Open
  <2>2. Current = db
    BY <1>1 DEF Current
  <2> QED
    BY <2>1, <2>2 DEF Accounted
<1>4. Ordered'
  <2>1. wf' = wf
    BY DEF fixed
  <2> QED
    BY <1>1, <2>1 DEF Ordered, NothingAhead, ToDo
<1> QED
  BY <1>2, <1>3, <1>4

LEMMA ExecuteKeeps == ASSUME IInv, Execute PROVE IInv'
<1>1. /\ message = "execute" /\ Start(db) /\ worker = "idle"
      /\ UNCHANGED <<fixed, message, orders, compiled, requests, faults, history>>
  BY DEF Execute, Start, counts
<1>2. Straight' = Straight
  BY <1>1, SameDefinition DEF Straight, fixed
<1>3. Straight => NothingAhead(db) /\ ToDo(db)
  BY <1>1 DEF IInv, Ordered
<1> QED
  BY <1>1, <1>2, <1>3, Numbers, StartKeeps DEF IInv

LEMMA ApprovedKeeps == ASSUME IInv, ResumeApproved PROVE IInv'
<1>1. /\ UNCHANGED <<fixed, message, orders, compiled, requests, faults, history>>
  BY DEF ResumeApproved, counts
<1>2. PICK rows \in Promoted(PastApproval(db)) : Start(rows)
  BY DEF ResumeApproved
<1>3. /\ PastApproval(db) \in Rows /\ PastApproval(db).at = db.at + 1
      /\ PastApproval(db).proposal = db.proposal
      /\ \A i \in DOMAIN wf : i # db.at => PastApproval(db).row[i] = db.row[i]
  BY Numbers, PastApprovalTypes DEF IInv
<1>4. /\ rows \in Rows /\ rows.at = db.at + 1 /\ rows.row = PastApproval(db).row
      /\ Open(rows.proposal) = Open(db.proposal)
  BY <1>2, <1>3, PromotedTypes
<1>5. ASSUME Straight' PROVE NothingAhead(rows) /\ ToDo(rows)
  <2>1. NothingAhead(db)
    BY <1>1, <1>5, SameDefinition DEF Straight, IInv, Ordered, fixed
  <2>2. \A i \in DOMAIN wf : i >= rows.at => i > db.at /\ i # db.at
    BY <1>4, Numbers DEF IInv
  <2>3. \A i \in DOMAIN wf : i >= rows.at => rows.row[i].status # "completed"
    BY <1>3, <1>4, <2>1, <2>2 DEF NothingAhead
  <2>4. rows.at \in Nat /\ DOMAIN wf \subseteq Nat
    BY <1>4, Numbers DEF IInv
  <2> QED
    BY <2>3, <2>4 DEF NothingAhead, ToDo
<1> QED
  BY <1>1, <1>2, <1>4, <1>5, Numbers, StartKeeps DEF IInv

LEMMA BlockedKeeps == ASSUME IInv, ResumeFromBlocked PROVE IInv'
<1>1. /\ Start(PastBlock(db)) /\ history' = history \cup {"overridden"}
      /\ UNCHANGED <<fixed, message, orders, compiled, requests, faults>>
  BY DEF ResumeFromBlocked
<1>2. /\ PastBlock(db) \in Rows /\ PastBlock(db).at = db.at + 1
      /\ PastBlock(db).row = db.row /\ PastBlock(db).proposal = db.proposal
  BY Numbers, PastBlockTypes DEF IInv
<1>3. ASSUME Straight' PROVE NothingAhead(PastBlock(db)) /\ ToDo(PastBlock(db))
  <2>1. NothingAhead(db)
    BY <1>1, <1>3, SameDefinition DEF Straight, IInv, Ordered, fixed
  <2>2. db.at \in Nat /\ DOMAIN wf \subseteq Nat
    BY Numbers DEF IInv
  <2> QED
    BY <1>2, <2>1, <2>2 DEF NothingAhead, ToDo
<1>4. history' \subseteq Past /\ Open(PastBlock(db).proposal) = Open(db.proposal)
  BY <1>1, <1>2, Numbers DEF Past, IInv, Open
<1> QED
  BY <1>1, <1>2, <1>3, <1>4, StartKeeps

\* What happens between two deliveries.
LEMMA IdleKeeps ==
  ASSUME IInv, worker = "idle", UNCHANGED <<fixed, ctx, worker, orders, compiled, faults>>,
         db' \in Rows, tx' \in Rows, Open(db'.proposal) = Open(db.proposal),
         message' \in {"none", "execute", "approve", "override"},
         requests' \in Nat, requests' + faults <= MaxEvents, history' \subseteq Past,
         Straight' =>
           /\ NothingAhead(db')
           /\ db'.status \in {"waiting_approval", "paused"} \/ message' = "execute" => ToDo(db')
  PROVE  IInv'
<1> USE DEF IInv
<1>1. wf' = wf /\ worker' = "idle" /\ faults' = faults /\ orders' = orders /\ compiled' = compiled
      /\ ctx' = ctx
  BY DEF fixed
<1>2. TypeOK'
  <2>1. orders' \in Nat /\ compiled' \in Nat /\ faults' \in Nat /\ requests' + faults' <= MaxEvents
        /\ ctx' \in Context
    BY <1>1, Numbers
  <2> QED
    BY <1>1, <2>1, TypesKept
<1>3. Accounted'
  <2>1. Open(Current.proposal)' = Open(db'.proposal)
    BY <1>1 DEF Current, Open
  <2>2. Current = db
    BY DEF Current
  <2> QED
    BY <1>1, <2>1, <2>2 DEF Accounted
<1>4. Ordered'
  <2>1. ASSUME Straight' PROVE NothingAhead(db)' /\ (ToDo(db') => ToDo(db)')
    BY <1>1, <2>1 DEF NothingAhead, ToDo
  <2> QED
    BY <1>1, <2>1 DEF Ordered
<1> QED
  BY <1>2, <1>3, <1>4

\* What Ordered says of a run between two deliveries.
LEMMA IdleOrdered ==
  ASSUME IInv, Straight
  PROVE  /\ NothingAhead(db)
         /\ db.status \in {"waiting_approval", "paused"} => ToDo(db)
         /\ worker = "idle" /\ message = "execute" => ToDo(db)
BY DEF IInv, Ordered

LEMMA StraightGrows ==
  ASSUME UNCHANGED fixed, history \subseteq history', Straight'
  PROVE  Straight
BY SameDefinition DEF Straight, fixed

LEMMA RefuseKeeps == ASSUME IInv, Refuse PROVE IInv'
<1>1. /\ worker = "idle" /\ db' \in MarkFailed(db) /\ tx' = db' /\ message' = "none"
      /\ UNCHANGED <<fixed, ctx, worker, orders, compiled, faults>>
      /\ requests' = requests /\ history' = history
  BY DEF Refuse, counts
<1>2. /\ db' \in Rows /\ db'.at = db.at /\ db'.row = db.row /\ db'.proposal = db.proposal
      /\ db'.status = db.status \/ db'.status = "failed"
  BY <1>1, Numbers, MarkFailedTypes DEF IInv
<1>3. requests' \in Nat /\ requests' + faults <= MaxEvents /\ history' \subseteq Past
  BY <1>1, Numbers DEF IInv
<1>4. Open(db'.proposal) = Open(db.proposal)
  BY <1>2
<1>5. ASSUME Straight'
      PROVE  /\ NothingAhead(db')
             /\ db'.status \in {"waiting_approval", "paused"} \/ message' = "execute" => ToDo(db')
  <2>1. Straight
    BY <1>1, <1>5, StraightGrows
  <2> QED
    BY <1>1, <1>2, <2>1, IdleOrdered DEF NothingAhead, ToDo
<1> QED
  BY <1>1, <1>2, <1>3, <1>4, <1>5, IdleKeeps

\* A request counts as one event.
LEMMA RequestCounts ==
  ASSUME IInv, NEW wanted \in {"none", "execute", "approve", "override"}, Request(wanted)
  PROVE  /\ worker = "idle" /\ message = "none" /\ message' = wanted
         /\ requests' \in Nat /\ requests' + faults <= MaxEvents
         /\ UNCHANGED <<fixed, ctx, worker, orders, compiled, faults>>
<1>1. /\ worker = "idle" /\ message = "none" /\ message' = wanted
      /\ requests + faults < MaxEvents /\ requests' = requests + 1
      /\ UNCHANGED <<fixed, ctx, worker, orders, compiled, faults>>
  BY DEF Request
<1> QED
  BY <1>1, Numbers DEF IInv

\* Two requests that only queue a message.
LEMMA AskKeeps ==
  ASSUME IInv, NEW wanted \in {"approve", "override"}, Request(wanted),
         UNCHANGED <<db, tx, history>>
  PROVE  IInv'
<1>1. /\ worker = "idle" /\ message' = wanted
      /\ requests' \in Nat /\ requests' + faults <= MaxEvents
      /\ UNCHANGED <<fixed, ctx, worker, orders, compiled, faults>>
  BY RequestCounts
<1>2. db' \in Rows /\ tx' \in Rows /\ history' \subseteq Past /\ message' # "execute"
      /\ Open(db'.proposal) = Open(db.proposal)
  BY <1>1, Numbers DEF IInv
<1>3. ASSUME Straight'
      PROVE  NothingAhead(db') /\ (db'.status \in {"waiting_approval", "paused"} => ToDo(db'))
  <2>1. Straight
    BY <1>1, <1>3, StraightGrows
  <2> QED
    BY <2>1, IdleOrdered
<1> QED
  BY <1>1, <1>2, <1>3, IdleKeeps

LEMMA RejectKeeps == ASSUME IInv, RejectRun PROVE IInv'
<1> DEFINE written == [i \in DOMAIN wf |->
             IF i = db.at THEN [status |-> "cancelled", text |-> Silent] ELSE db.row[i]]
<1>1. /\ worker = "idle" /\ message' = "none"
      /\ requests' \in Nat /\ requests' + faults <= MaxEvents
      /\ UNCHANGED <<fixed, ctx, worker, orders, compiled, faults>>
  BY RequestCounts DEF RejectRun
<1>2. /\ db \in Rows /\ db.row \in [DOMAIN wf -> StepRow] /\ db.at \in Nat
  BY Numbers, RowsFields DEF IInv
<1>3. [status |-> "cancelled", text |-> Silent] \in StepRow
  BY SilentType DEF StepRow
<1>4. written \in [DOMAIN wf -> StepRow] /\ \A i \in DOMAIN wf : i # db.at => written[i] = db.row[i]
  BY <1>2, <1>3
<1>5. db' = [db EXCEPT !.status = "cancelled", !.reason = "rejected", !.row = written]
      /\ tx' = db' /\ history' = history
  BY <1>2 DEF RejectRun, Rows
<1> HIDE DEF written
<1>6. /\ db' \in Rows /\ db'.status = "cancelled" /\ db'.at = db.at /\ db'.row = written
      /\ db'.proposal = db.proposal
  BY <1>2, <1>4, <1>5 DEF Rows, RunStatus, Reason
<1>7. history' \subseteq Past /\ Open(db'.proposal) = Open(db.proposal) /\ tx' \in Rows
  BY <1>5, <1>6, Numbers DEF IInv
<1>8. ASSUME Straight' PROVE NothingAhead(db')
  <2>1. NothingAhead(db)
    BY <1>1, <1>5, <1>8, StraightGrows, IdleOrdered
  <2>2. \A i \in DOMAIN wf : i > db.at => i # db.at
    BY <1>2, Numbers DEF IInv
  <2> QED
    BY <1>4, <1>6, <2>1, <2>2 DEF NothingAhead
<1> QED
  BY <1>1, <1>6, <1>7, <1>8, IdleKeeps

LEMMA RetryKeeps == ASSUME IInv, RetryRun PROVE IInv'
<1>1. /\ worker = "idle" /\ message' = "execute"
      /\ requests' \in Nat /\ requests' + faults <= MaxEvents
      /\ UNCHANGED <<fixed, ctx, worker, orders, compiled, faults>>
  BY RequestCounts DEF RetryRun
<1>2. /\ db' = [db EXCEPT !.status = "queued", !.reason = "none", !.at = 1]
      /\ tx' = db' /\ history' = history \cup {"retried"} /\ db \in Rows
  BY Numbers DEF RetryRun, IInv
<1>3. db' \in Rows /\ db'.proposal = db.proposal
  <2>1. "queued" \in RunStatus /\ "none" \in Reason /\ 1 \in Nat \ {0}
    BY DEF RunStatus, Reason
  <2> QED
    BY <1>2, <2>1 DEF Rows
<1>4. history' \subseteq Past /\ ~ Straight' /\ tx' \in Rows
      /\ Open(db'.proposal) = Open(db.proposal)
  BY <1>2, <1>3, Numbers DEF IInv, Past, Straight
<1> QED
  BY <1>1, <1>3, <1>4, IdleKeeps

LEMMA RecoverKeeps == ASSUME IInv, RecoverPaused PROVE IInv'
<1>1. /\ worker = "idle" /\ message' = "execute"
      /\ requests' \in Nat /\ requests' + faults <= MaxEvents
      /\ UNCHANGED <<fixed, ctx, worker, orders, compiled, faults>>
  BY RequestCounts DEF RecoverPaused
<1>2. /\ db.status = "paused" /\ db' = [db EXCEPT !.status = "queued", !.reason = "none"]
      /\ tx' = db' /\ history' = history \cup {"recovered"} /\ db \in Rows
  BY Numbers DEF RecoverPaused, IInv
<1>3. /\ db' \in Rows /\ tx' \in Rows /\ db'.proposal = db.proposal /\ db'.row = db.row
      /\ db'.at = db.at
  BY <1>2 DEF Rows, RunStatus, Reason
<1>4. history' \subseteq Past /\ Open(db'.proposal) = Open(db.proposal)
  BY <1>2, <1>3, Numbers DEF IInv, Past
<1>5. ASSUME Straight' PROVE NothingAhead(db') /\ ToDo(db')
  <2>1. Straight
    BY <1>1, <1>2, <1>5, StraightGrows
  <2> QED
    BY <1>2, <1>3, <2>1, IdleOrdered DEF NothingAhead, ToDo
<1> QED
  BY <1>1, <1>3, <1>4, <1>5, IdleKeeps

LEMMA ApproveProposalKeeps == ASSUME IInv, ApproveProposal PROVE IInv'
<1>1. /\ worker = "idle" /\ db.proposal.status = "PENDING_APPROVAL"
      /\ db' = Settled(db, "APPROVED") /\ tx' = db'
      /\ UNCHANGED <<fixed, ctx, worker, orders, compiled, faults>>
      /\ message' = message /\ requests' = requests /\ history' = history
  BY DEF ApproveProposal, counts
<1>2. /\ db' \in Rows /\ tx' \in Rows /\ db'.row = db.row /\ db'.at = db.at
      /\ db'.status = db.status /\ db'.proposal.status = "APPROVED"
  BY <1>1, Numbers, SettledTouches DEF IInv, ProposalStatus
<1>3. Open(db'.proposal) = Open(db.proposal)
  BY <1>1, <1>2, OpenIs
<1>4. requests' \in Nat /\ requests' + faults <= MaxEvents /\ history' \subseteq Past
      /\ message' \in {"none", "execute", "approve", "override"}
  BY <1>1, Numbers DEF IInv, TypeOK
<1>5. ASSUME Straight'
      PROVE  /\ NothingAhead(db')
             /\ db'.status \in {"waiting_approval", "paused"} \/ message' = "execute" => ToDo(db')
  <2>1. Straight
    BY <1>1, <1>5, StraightGrows
  <2> QED
    BY <1>1, <1>2, <2>1, IdleOrdered DEF NothingAhead, ToDo
<1> QED
  BY <1>1, <1>2, <1>3, <1>4, <1>5, IdleKeeps

LEMMA StutterKeeps == ASSUME IInv, UNCHANGED vars PROVE IInv'
<1>1. /\ UNCHANGED <<fixed, db, tx, ctx, worker, message, counts>> /\ wf' = wf
  BY DEF vars, fixed, counts
<1>2. TypeOK'
  BY <1>1, Numbers, TypesKept DEF IInv, TypeOK, counts
<1>3. Accounted'
  BY <1>1 DEF IInv, Accounted, Current, Open, counts
<1>4. Ordered'
  BY <1>1, SameDefinition DEF IInv, Ordered, Straight, NothingAhead, ToDo, fixed, counts
<1> QED
  BY <1>2, <1>3, <1>4 DEF IInv

LEMMA IInvStep == ASSUME IInv, [Next]_vars PROVE IInv'
<1>1. CASE WorkerStep
  BY <1>1, WorkerWalks, WalkKeeps, AcknowledgeKeeps DEF IInv
<1>2. CASE DeliveryFails
  BY <1>2, FailureKeeps
<1>3. CASE Execute \/ ResumeApproved \/ ResumeFromBlocked \/ Refuse
  BY <1>3, ExecuteKeeps, ApprovedKeeps, BlockedKeeps, RefuseKeeps
<1>4. CASE ApproveRun \/ OverrideRun
  BY <1>4, AskKeeps DEF ApproveRun, OverrideRun
<1>5. CASE RejectRun \/ RetryRun \/ RecoverPaused \/ ApproveProposal
  BY <1>5, RejectKeeps, RetryKeeps, RecoverKeeps, ApproveProposalKeeps
<1>6. CASE UNCHANGED vars
  BY <1>6, StutterKeeps
<1> QED
  BY <1>1, <1>2, <1>3, <1>4, <1>5, <1>6 DEF Next

LEMMA Invariance == Spec => []IInv
<1>1. Init => IInv
  BY InitKeeps
<1>2. IInv /\ [Next]_vars => IInv'
  BY IInvStep
<1> QED
  BY <1>1, <1>2, PTL DEF Spec

-----------------------------------------------------------------------------
(* The vote and the order. *)

\* What the worker does where it only asks: the step's row, nothing else, and on to
\* the next step with the majority it knows ...
Onward(rows) == GoOn(rows, tx.at + 1) /\ ctx'.majority = ctx.majority

\* ... or a stop that nobody can approve.
Halts(rows) ==
  \E status \in {"blocked", "failed", "paused"}, reason \in Reason : Stop(rows, status, reason)

RowOnly(rows) ==
  rows \in Rows /\ Touched(rows) /\ rows.at = tx.at /\ rows.proposal = tx.proposal

Quiet == Kept /\ Still

GivesUp == Quiet /\ \E rows \in Rows : RowOnly(rows) /\ Halts(rows)
Asks    == GivesUp \/ (Quiet /\ \E rows \in Rows : RowOnly(rows) /\ Onward(rows))

LEMMA DoneRowOnly ==
  ASSUME TypeOK, tx.at \in DOMAIN wf, NEW t \in Text
  PROVE  RowOnly(Done(t))
BY DoneTouches DEF RowOnly

LEMMA WrittenRowOnly ==
  ASSUME TypeOK, tx.at \in DOMAIN wf
  PROVE  /\ RowOnly(Written(tx, "failed", Silent)) /\ RowOnly(Written(tx, "paused", Silent))
         /\ RowOnly(Written(tx, "waiting_approval", Silent))
<1>1. tx \in Rows /\ Touched(tx) /\ Silent \in Text
  BY TxTouched, SilentType
<1>2. RowOnly(Written(tx, "failed", Silent))
  <2>1. /\ Written(tx, "failed", Silent) \in Rows /\ Touched(Written(tx, "failed", Silent))
        /\ Written(tx, "failed", Silent).proposal = tx.proposal
        /\ Written(tx, "failed", Silent).at = tx.at
    BY <1>1, WrittenTouches
  <2> QED
    BY <2>1 DEF RowOnly
<1>3. RowOnly(Written(tx, "paused", Silent))
  <2>1. /\ Written(tx, "paused", Silent) \in Rows /\ Touched(Written(tx, "paused", Silent))
        /\ Written(tx, "paused", Silent).proposal = tx.proposal
        /\ Written(tx, "paused", Silent).at = tx.at
    BY <1>1, WrittenTouches
  <2> QED
    BY <2>1 DEF RowOnly
<1>4. RowOnly(Written(tx, "waiting_approval", Silent))
  <2>1. /\ Written(tx, "waiting_approval", Silent) \in Rows /\ Touched(Written(tx, "waiting_approval", Silent))
        /\ Written(tx, "waiting_approval", Silent).proposal = tx.proposal
        /\ Written(tx, "waiting_approval", Silent).at = tx.at
    BY <1>1, WrittenTouches
  <2> QED
    BY <2>1 DEF RowOnly
<1> QED
  BY <1>2, <1>3, <1>4

LEMMA BlockGivesUp ==
  ASSUME TypeOK, tx.at \in DOMAIN wf, Quiet, NEW t \in Text, Block(Done(t))
  PROVE  GivesUp
<1>1. RowOnly(Done(t)) /\ Halts(Done(t))
  BY DoneRowOnly DEF Block, Halts, Reason
<1> QED
  BY <1>1 DEF GivesUp, RowOnly

LEMMA FailGivesUp ==
  ASSUME TypeOK, tx.at \in DOMAIN wf, Quiet, Fail(tx)
  PROVE  GivesUp
<1>1. RowOnly(Written(tx, "failed", Silent)) /\ Halts(Written(tx, "failed", Silent))
  BY WrittenRowOnly DEF Fail, Halts, Reason
<1> QED
  BY <1>1 DEF GivesUp, RowOnly

LEMMA GoOnAsks ==
  ASSUME TypeOK, tx.at \in DOMAIN wf, Quiet, NEW t \in Text, GoOn(Done(t), tx.at + 1),
         ctx'.majority = ctx.majority
  PROVE  Asks
<1>1. RowOnly(Done(t)) /\ Onward(Done(t))
  BY DoneRowOnly DEF Onward
<1> QED
  BY <1>1 DEF Asks, RowOnly

LEMMA RaisesGivesUp ==
  ASSUME TypeOK, tx.at \in DOMAIN wf, Quiet, StepRaises
  PROVE  GivesUp
<1>1. CASE Stop(Written(tx, "paused", Silent), "paused", "error")
  <2>1. RowOnly(Written(tx, "paused", Silent)) /\ Halts(Written(tx, "paused", Silent))
    BY <1>1, WrittenRowOnly DEF Halts, Reason
  <2> QED
    BY <2>1 DEF GivesUp, RowOnly
<1>2. CASE Fail(tx)
  BY <1>2, FailGivesUp
<1> QED
  BY <1>1, <1>2 DEF StepRaises

LEMMA HawkAsks ==
  ASSUME TypeOK, RunHawk
  PROVE  Asks
<1>1. tx.at \in DOMAIN wf /\ Quiet
  BY InDomain DEF RunHawk, Quiet, Kept, Still, fixed, counts
<1>2. ctx.price \in BOOLEAN
  BY DEF TypeOK, Context
<1>3. PICK raw \in Answer : \E end \in HawkEnds(raw, ctx.price) :
        IF end.blocks \/ ~ HandoffMet(end.out)
          THEN Block(Done(end.row))
          ELSE GoOn(Done(end.row), tx.at + 1) /\ UNCHANGED ctx
  BY DEF RunHawk
<1>4. PICK end \in HawkEnds(raw, ctx.price) :
        \/ Block(Done(end.row))
        \/ GoOn(Done(end.row), tx.at + 1) /\ UNCHANGED ctx
  BY <1>3
<1>5. end.row \in Text
  BY <1>2, HawkEndsTypes
<1>6. CASE Block(Done(end.row))
  BY <1>1, <1>5, <1>6, BlockGivesUp DEF Asks
<1>7. CASE GoOn(Done(end.row), tx.at + 1) /\ UNCHANGED ctx
  BY <1>1, <1>5, <1>7, GoOnAsks
<1> QED
  BY <1>4, <1>6, <1>7

LEMMA MarketAsks ==
  ASSUME TypeOK, FetchMarketData
  PROVE  Asks
<1>1. tx.at \in DOMAIN wf /\ Quiet
  BY InDomain DEF FetchMarketData, Quiet, Kept, Still, fixed, counts
<1>2. CASE GoOn(Done(Silent), tx.at + 1) /\ ctx' = [ctx EXCEPT !.price = TRUE]
  <2>1. ctx'.majority = ctx.majority
    BY <1>2 DEF TypeOK, Context
  <2> QED
    BY <1>1, <1>2, <2>1, SilentType, GoOnAsks
<1>3. CASE Block(Done(Silent))
  BY <1>1, <1>3, SilentType, BlockGivesUp DEF Asks
<1> QED
  BY <1>2, <1>3 DEF FetchMarketData

LEMMA PromptAsks ==
  ASSUME TypeOK, RunPrompt
  PROVE  Asks
<1>1. tx.at \in DOMAIN wf /\ Quiet
  BY InDomain DEF RunPrompt, Quiet, Kept, Still, fixed, counts
<1>2. CASE GoOn(Done(Silent), tx.at + 1) /\ UNCHANGED ctx
  BY <1>1, <1>2, SilentType, GoOnAsks
<1>3. CASE Block(Done(Silent))
  BY <1>1, <1>3, SilentType, BlockGivesUp DEF Asks
<1> QED
  BY <1>2, <1>3 DEF RunPrompt

\* The steps before the vote, and between the vote and the proposal.
LEMMA ResearchAsks ==
  ASSUME TypeOK, WorkerStep, worker = "working", tx.at \in DOMAIN wf,
         wf[tx.at].kind \in Prompted \cup {"hawk"}
  PROVE  Asks
<1>1. ~ (tx.at > Len(wf)) /\ worker # "leaving"
  BY Definition, RowsFields DEF TypeOK
<1>2. \A kinds : InSteps(kinds) => wf[tx.at].kind \in kinds
  BY DEF InSteps
<1>3. RunHawk \/ HardStop \/ FetchMarketData \/ RunPrompt \/ StepRaises
  BY <1>1, <1>2 DEF WorkerStep, RunHawkVote, RunCompile, GateSkips, GateExecutes, GateWaits,
     ConfidenceGate, ApprovalStep, ExchangeExecute, Conditional, LoopStep, Finish, Acknowledge,
     Prompted
<1>4. CASE HardStop
  <2>1. Quiet /\ Fail(tx)
    BY <1>4 DEF HardStop, Quiet, Kept, Still, fixed, counts
  <2> QED
    BY <2>1, FailGivesUp DEF Asks
<1>5. CASE StepRaises
  <2>1. Quiet
    BY <1>5 DEF StepRaises, Quiet, Kept, Still, fixed, counts
  <2> QED
    BY <1>5, <2>1, RaisesGivesUp DEF Asks
<1> QED
  BY <1>3, <1>4, <1>5, HawkAsks, MarketAsks, PromptAsks

\* The vote gate stops short, ends a validation-only run behind itself, or goes on
\* with the majority.
Passes(rows) ==
  /\ Majority(tx) # "NONE"
  /\ \/ stopEarly /\ \E r \in Rows : r.at = tx.at + 1 /\ Stop(r, "completed", "none")
     \/ ~ stopEarly /\ GoOn(rows, tx.at + 1) /\ ctx'.majority = Majority(tx)

LEMMA VoteSteps ==
  ASSUME TypeOK, WorkerStep, worker = "working", tx.at \in DOMAIN wf,
         wf[tx.at].kind = "hawk_vote"
  PROVE  GivesUp \/ (Quiet /\ \E rows \in Rows : RowOnly(rows) /\ Passes(rows))
<1> DEFINE m == Majority(tx)
<1>1. ~ (tx.at > Len(wf)) /\ worker # "leaving"
  BY Definition, RowsFields DEF TypeOK
<1>2. \A kinds : InSteps(kinds) => wf[tx.at].kind \in kinds
  BY DEF InSteps
<1>3. RunHawkVote \/ StepRaises
  BY <1>1, <1>2 DEF WorkerStep, RunHawk, HardStop, FetchMarketData, RunPrompt, RunCompile,
     GateSkips, GateExecutes, GateWaits, ConfidenceGate, ApprovalStep, ExchangeExecute,
     Conditional, LoopStep, Finish, Acknowledge
<1>4. CASE StepRaises
  <2>1. Quiet
    BY <1>4 DEF StepRaises, Quiet, Kept, Still, fixed, counts
  <2> QED
    BY <1>4, <2>1, RaisesGivesUp
<1>5. CASE RunHawkVote
  <2>1. Quiet
    BY <1>5 DEF RunHawkVote, Quiet, Kept, Still, fixed, counts
  <2>2. m \in {"BULLISH", "BEARISH", "NONE"} /\ Says(m) \in Text
    BY MajorityType, SaysType
  <2> HIDE DEF m
  <2>3. \/ Fail(tx) \/ Block(Done(Silent))
        \/ m # "NONE" /\ stopEarly
           /\ Stop([Done(Says(m)) EXCEPT !.at = tx.at + 1], "completed", "none")
        \/ m # "NONE" /\ ~ stopEarly
           /\ GoOn(Done(Says(m)), tx.at + 1) /\ ctx' = [ctx EXCEPT !.majority = m]
    BY <1>5 DEF RunHawkVote, StopsHere, m
  <2>4. CASE Fail(tx)
    BY <2>1, <2>4, FailGivesUp
  <2>5. CASE Block(Done(Silent))
    BY <2>1, <2>5, SilentType, BlockGivesUp
  <2>6. RowOnly(Done(Says(m))) /\ Done(Says(m)) \in Rows
    BY <2>2, DoneRowOnly DEF RowOnly
  <2>7. CASE m # "NONE" /\ stopEarly
             /\ Stop([Done(Says(m)) EXCEPT !.at = tx.at + 1], "completed", "none")
    <3>1. [Done(Says(m)) EXCEPT !.at = tx.at + 1] \in Rows
          /\ [Done(Says(m)) EXCEPT !.at = tx.at + 1].at = tx.at + 1
      BY <2>6, Next1 DEF Rows
    <3>2. Passes(Done(Says(m)))
      BY <2>7, <3>1 DEF Passes, m
    <3> QED
      BY <2>1, <2>6, <3>2
  <2>8. CASE m # "NONE" /\ ~ stopEarly
             /\ GoOn(Done(Says(m)), tx.at + 1) /\ ctx' = [ctx EXCEPT !.majority = m]
    <3>1. ctx'.majority = m
      BY <2>8 DEF TypeOK, Context
    <3>2. Passes(Done(Says(m)))
      BY <2>8, <3>1 DEF Passes, m
    <3> QED
      BY <2>1, <2>6, <3>2
  <2> QED
    BY <2>3, <2>4, <2>5, <2>7, <2>8
<1> QED
  BY <1>3, <1>4, <1>5

\* What such a step leaves.
MovedOn ==
  /\ worker' = worker /\ db' = db /\ tx' \in Rows /\ tx'.at = tx.at + 1
  /\ tx'.proposal = tx.proposal /\ ctx'.majority = ctx.majority
  /\ \A i \in DOMAIN wf : i # tx.at => tx'.row[i] = tx.row[i]

GivenUp ==
  /\ worker' = "leaving" /\ db' \in Rows /\ db'.at = tx.at
  /\ db'.status \in {"blocked", "failed", "paused"}

LEMMA HaltsTypes ==
  ASSUME wf \in Workflow, NEW rows \in Rows, Halts(rows)
  PROVE  /\ worker' = "leaving" /\ db' \in Rows /\ db'.at = rows.at
         /\ db'.status \in {"blocked", "failed", "paused"}
<1>1. PICK status \in {"blocked", "failed", "paused"}, reason \in Reason :
        Stop(rows, status, reason)
  BY DEF Halts
<1>2. status \in RunStatus
  BY DEF RunStatus
<1> QED
  BY <1>1, <1>2, StopTypes

LEMMA GivesUpLeaves == ASSUME TypeOK, GivesUp PROVE GivenUp
<1>1. PICK rows \in Rows : RowOnly(rows) /\ Halts(rows)
  BY DEF GivesUp
<1> QED
  BY <1>1, HaltsTypes DEF RowOnly, GivenUp, TypeOK

LEMMA AsksLeaves ==
  ASSUME TypeOK, tx.at \in DOMAIN wf, Asks
  PROVE  MovedOn \/ GivenUp
<1>1. CASE GivesUp
  BY <1>1, GivesUpLeaves
<1>2. ASSUME NEW rows \in Rows, RowOnly(rows), Onward(rows) PROVE MovedOn
  <2>1. tx.at + 1 \in Nat \ {0}
    BY Next1
  <2> QED
    BY <1>2, <2>1, GoOnTypes DEF Onward, RowOnly, Touched, MovedOn
<1> QED
  BY <1>1, <1>2 DEF Asks

LEMMA WorkingOrLeaving ==
  ASSUME WorkerStep
  PROVE  worker = "working" \/ Acknowledge
BY DEF WorkerStep, RunHawk, HardStop, FetchMarketData, RunHawkVote, RunPrompt, RunCompile,
   GateSkips, GateExecutes, GateWaits, ConfidenceGate, ApprovalStep, ExchangeExecute,
   Conditional, LoopStep, StepRaises, Finish, InSteps

\* A validation-only run that nothing forced past its vote at v: nothing was ordered,
\* nothing waits to be approved, and what stands behind the vote is over.
Forced == history \cap {"overridden", "redelivered"} # {}

Stopped(v) ==
  /\ orders = 0
  /\ worker = "working" => tx.at <= v
  /\ db.status # "waiting_approval"
  /\ \/ db.at <= v
     \/ /\ db.at = v + 1 /\ db.status \in {"completed", "cancelled"} /\ worker # "working"
        /\ worker = "idle" => message # "execute"

StopsAtVote ==
  stopEarly /\ ~ Forced => \A v \in DOMAIN wf : LeadsToVote(wf, v) => Stopped(v)

LEMMA StoppedInit ==
  ASSUME Init, NEW v \in DOMAIN wf
  PROVE  Stopped(v)
<1>1. wf \in Workflow /\ db.at = 1 /\ db.status = "queued" /\ orders = 0 /\ worker = "idle"
  BY DEF Init, NewRun
<1>2. v \in Nat /\ v >= 1
  BY <1>1, Definition
<1> QED
  BY <1>1, <1>2 DEF Stopped

LEMMA StoppedWorks ==
  ASSUME IInv, NEW v \in DOMAIN wf, LeadsToVote(wf, v), stopEarly, Stopped(v), WorkerStep
  PROVE  Stopped(v)'
<1> USE DEF IInv
<1>1. wf \in Workflow /\ tx.at \in Nat \ {0} /\ Len(wf) \in Nat /\ DOMAIN wf = 1 .. Len(wf)
  BY Numbers, Definition, RowsFields
<1>2. CASE Acknowledge
  <2>1. /\ worker = "leaving" /\ worker' = "idle" /\ message' = "none"
        /\ db' = db /\ tx' = tx /\ orders' = orders
    BY <1>2 DEF Acknowledge, counts
  <2> QED
    BY <2>1 DEF Stopped
<1>3. CASE worker = "working"
  <2>1. tx.at <= v /\ tx.at \in DOMAIN wf /\ db.at <= v /\ orders = 0
        /\ db.status # "waiting_approval"
    BY <1>1, <1>3 DEF Stopped
  <2>2. ASSUME GivesUp PROVE Stopped(v)'
    BY <1>1, <1>3, <2>1, <2>2, GivesUpLeaves DEF GivesUp, Quiet, Still, GivenUp, Stopped
  <2>3. CASE tx.at < v
    <3>1. wf[tx.at].kind \in Prompted \cup {"hawk"}
      BY <1>1, <2>3 DEF LeadsToVote
    <3>2. MovedOn \/ GivenUp
      BY <1>3, <2>1, <3>1, ResearchAsks, AsksLeaves
    <3>3. orders' = orders
      BY <1>3, <2>1, <3>1, ResearchAsks DEF Asks, GivesUp, Quiet, Still
    <3> QED
      BY <1>1, <1>3, <2>1, <2>3, <3>2, <3>3 DEF MovedOn, GivenUp, Stopped
  <2>4. CASE tx.at = v
    <3>1. wf[tx.at].kind = "hawk_vote"
      BY <2>4 DEF LeadsToVote
    <3>2. GivesUp \/ (Quiet /\ \E rows \in Rows : RowOnly(rows) /\ Passes(rows))
      BY <1>3, <2>1, <3>1, VoteSteps
    <3>3. CASE Quiet /\ \E rows \in Rows : RowOnly(rows) /\ Passes(rows)
      <4>1. PICK r \in Rows : r.at = tx.at + 1 /\ Stop(r, "completed", "none")
        BY <3>3 DEF Passes
      <4>2. worker' = "leaving" /\ db'.at = v + 1 /\ db'.status = "completed"
        BY <1>1, <2>4, <4>1, StopTypes DEF RunStatus, Reason
      <4>3. orders' = 0
        BY <2>1, <3>3 DEF Quiet, Still
      <4> QED
        BY <4>2, <4>3 DEF Stopped
    <3> QED
      BY <2>2, <3>2, <3>3
  <2> QED
    BY <1>1, <2>1, <2>3, <2>4
<1> QED
  BY <1>2, <1>3, WorkingOrLeaving

\* What giving up on a delivery does to the rows.
LEMMA MarkFailedIs ==
  ASSUME NEW rows \in Rows, NEW r \in MarkFailed(rows)
  PROVE  /\ r.at = rows.at /\ r.row = rows.row /\ r.proposal = rows.proposal
         /\ \/ r.status = rows.status
            \/ rows.status \in {"queued", "running", "waiting_approval"} /\ r.status = "failed"
<1>1. CASE r = rows
  BY <1>1
<1>2. CASE /\ r = [rows EXCEPT !.status = "failed"]
           /\ rows.status \in {"queued", "running", "waiting_approval"}
  BY <1>2 DEF Rows
<1> QED
  BY <1>1, <1>2 DEF MarkFailed

LEMMA StoppedFails ==
  ASSUME IInv, NEW v \in DOMAIN wf, Stopped(v), ~ Forced', DeliveryFails \/ Refuse
  PROVE  Stopped(v)'
<1>1. /\ db' \in MarkFailed(db) /\ worker' = "idle" /\ message' = "none" /\ orders' = orders
  <2>1. history' # history \cup {"redelivered"}
    BY DEF Forced
  <2> QED
    BY <2>1 DEF DeliveryFails, Refuse, counts
<1>2. /\ db'.at = db.at
      /\ \/ db'.status = db.status
         \/ db.status \in {"queued", "running", "waiting_approval"} /\ db'.status = "failed"
  BY <1>1, Numbers, MarkFailedIs DEF IInv
<1> QED
  BY <1>1, <1>2 DEF Stopped

LEMMA StoppedStarts ==
  ASSUME IInv, NEW v \in DOMAIN wf, Stopped(v), ~ Forced',
         Execute \/ ResumeApproved \/ ResumeFromBlocked
  PROVE  Stopped(v)'
<1>1. Execute
  <2>1. history' # history \cup {"overridden"}
    BY DEF Forced
  <2> QED
    BY <2>1 DEF ResumeApproved, ResumeFromBlocked, Stopped
<1>2. worker = "idle" /\ message = "execute" /\ Start(db) /\ orders' = orders
  BY <1>1 DEF Execute, Start, counts
<1>3. worker' = "working" /\ tx' = db' /\ db'.at = db.at /\ db'.status = "running"
  BY <1>2, Numbers, StartTypes DEF IInv
<1> QED
  BY <1>2, <1>3 DEF Stopped

LEMMA StoppedAsked ==
  ASSUME IInv, NEW v \in DOMAIN wf, Stopped(v),
         ApproveRun \/ OverrideRun \/ RejectRun \/ RetryRun \/ RecoverPaused \/ ApproveProposal
  PROVE  Stopped(v)'
<1>1. worker = "idle" /\ worker' = "idle" /\ orders' = orders
  BY DEF ApproveRun, OverrideRun, RejectRun, RetryRun, RecoverPaused, ApproveProposal, Request,
     counts
<1>2. db \in Rows /\ v \in Nat /\ v >= 1
  BY Numbers, Definition DEF IInv
<1>3. CASE ApproveRun \/ OverrideRun
  BY <1>1, <1>3 DEF ApproveRun, OverrideRun, Request, Stopped
<1>4. CASE RejectRun
  <2>1. db'.at = db.at /\ db'.status = "cancelled" /\ message' = "none"
    BY <1>2, <1>4 DEF RejectRun, Request, Rows
  <2> QED
    BY <1>1, <2>1 DEF Stopped
<1>5. CASE RetryRun
  <2>1. db'.at = 1 /\ db'.status = "queued"
    BY <1>2, <1>5 DEF RetryRun, Rows
  <2> QED
    BY <1>1, <1>2, <2>1 DEF Stopped
<1>6. CASE RecoverPaused
  <2>1. db'.at = db.at /\ db'.status = "queued" /\ db.status = "paused"
    BY <1>2, <1>6 DEF RecoverPaused, Rows
  <2> QED
    BY <1>1, <2>1 DEF Stopped
<1>7. CASE ApproveProposal
  <2>1. db'.at = db.at /\ db'.status = db.status /\ message' = message
    BY <1>2, <1>7, SettledTouches DEF ApproveProposal, ProposalStatus
  <2> QED
    BY <1>1, <2>1 DEF Stopped
<1> QED
  BY <1>3, <1>4, <1>5, <1>6, <1>7

\* What the whole run never changes, and its history never loses.
LEMMA HistoryGrows ==
  ASSUME [Next]_vars
  PROVE  wf' = wf /\ stopEarly' = stopEarly /\ history \subseteq history'
<1>1. UNCHANGED fixed /\ history \subseteq history'
  BY DEF Next, WorkerStep, RunHawk, HardStop, FetchMarketData, RunHawkVote, RunPrompt, RunCompile,
     GateSkips, GateExecutes, GateWaits, ConfidenceGate, ApprovalStep, ExchangeExecute,
     Conditional, LoopStep, StepRaises, Finish, Acknowledge, DeliveryFails, Execute,
     ResumeApproved, ResumeFromBlocked, Refuse, ApproveRun, OverrideRun, RejectRun, RetryRun,
     RecoverPaused, ApproveProposal, Request, vars, fixed, counts
<1> QED
  BY <1>1 DEF fixed

LEMMA StoppedStep ==
  ASSUME IInv, StopsAtVote, [Next]_vars
  PROVE  StopsAtVote'
<1>1. wf' = wf /\ stopEarly' = stopEarly /\ history \subseteq history'
  BY HistoryGrows
<1>2. SUFFICES ASSUME stopEarly, ~ Forced', NEW v \in DOMAIN wf, LeadsToVote(wf, v)
               PROVE  Stopped(v)'
  BY <1>1 DEF StopsAtVote, LeadsToVote
<1>3. ~ Forced
  BY <1>1, <1>2 DEF Forced
<1>4. Stopped(v)
  BY <1>2, <1>3 DEF StopsAtVote
<1>5. CASE WorkerStep
  BY <1>2, <1>4, <1>5, StoppedWorks
<1>6. CASE DeliveryFails \/ Refuse
  BY <1>2, <1>4, <1>6, StoppedFails
<1>7. CASE Execute \/ ResumeApproved \/ ResumeFromBlocked
  BY <1>2, <1>4, <1>7, StoppedStarts
<1>8. CASE ApproveRun \/ OverrideRun \/ RejectRun \/ RetryRun \/ RecoverPaused \/ ApproveProposal
  BY <1>4, <1>8, StoppedAsked
<1>9. CASE UNCHANGED vars
  BY <1>4, <1>9 DEF Stopped, vars
<1> QED
  BY <1>5, <1>6, <1>7, <1>8, <1>9 DEF Next

LEMMA StoppedInvariance == Spec => []StopsAtVote
<1>1. Init => StopsAtVote
  BY StoppedInit DEF StopsAtVote
<1>2. IInv /\ StopsAtVote /\ [Next]_vars => StopsAtVote'
  BY StoppedStep
<1> QED
  BY <1>1, <1>2, Invariance, PTL DEF Spec

\* Which votes a HAWK majority counts: the HAWKs' rows and nothing else.
LEMMA MajoritySame ==
  ASSUME NEW a, NEW b, \A i \in Hawks : a.row[i] = b.row[i]
  PROVE  Majority(a) = Majority(b)
<1>1. \A i \in Hawks : Voted(a, i) = Voted(b, i)
  BY DEF Voted
<1>2. ASSUME NEW v PROVE Votes(a, v) = Votes(b, v)
  <2>1. {i \in Hawks : Voted(a, i) /\ a.row[i].text.vote = v} =
        {i \in Hawks : Voted(b, i) /\ b.row[i].text.vote = v}
    BY <1>1
  <2> QED
    BY <2>1 DEF Votes
<1> QED
  BY <1>2 DEF Majority

\* What a proposal of the run, if there is one, must say.
Follows(rows) ==
  /\ Majority(rows) # "NONE"
  /\ rows.proposal.status # "NONE" => rows.proposal.dir = DirectionOf[Majority(rows)]

LEMMA FollowsPrimed ==
  ASSUME wf' = wf
  PROVE  /\ Majority(tx)' = Majority(tx') /\ Majority(db)' = Majority(db')
         /\ Follows(tx)' = Follows(tx') /\ Follows(db)' = Follows(db')
<1>1. Hawks' = Hawks
  BY DEF Hawks
<1>2. Majority(tx)' = Majority(tx') /\ Majority(db)' = Majority(db')
  BY <1>1 DEF Majority, Votes, Voted
<1> QED
  BY <1>2 DEF Follows

\* Two sets of rows a proposal says the same in, as far as a direction goes.
SameSide(a, b) ==
  a.dir = b.dir /\ (a.status = "NONE" <=> b.status = "NONE")

LEMMA FollowsSame ==
  ASSUME NEW a, NEW b, \A i \in Hawks : a.row[i] = b.row[i],
         SameSide(a.proposal, b.proposal), Follows(b)
  PROVE  Follows(a)
BY MajoritySame DEF Follows, SameSide

\* The order of a run that nothing disturbed, on a workflow with its vote at v and
\* its proposal at c.  Before c there is no proposal; between the two the worker
\* knows the majority; behind c, and where the run waits, the proposal follows it.
Carried(v, c) ==
  /\ worker = "idle" /\ message = "execute" => db.at = 1 /\ db.proposal.status = "NONE"
  /\ worker = "working" =>
       /\ tx.at <= c => tx.proposal.status = "NONE"
       /\ v < tx.at /\ tx.at <= c => Majority(tx) # "NONE" /\ ctx.majority = Majority(tx)
       /\ tx.at > c => Follows(tx)
  /\ db.status = "waiting_approval" => db.at > c /\ Follows(db)

VoteCarried ==
  history = {} => \A v, c \in DOMAIN wf : LeadsToOrder(wf, v, c) => Carried(v, c)

LEMMA CarriedInit ==
  ASSUME Init, NEW v \in DOMAIN wf, NEW c \in DOMAIN wf
  PROVE  Carried(v, c)
BY DEF Init, NewRun, Carried

\* What the shape of the workflow says of a step.
LEMMA ShapeSays ==
  ASSUME wf \in Workflow, NEW v \in DOMAIN wf, NEW c \in DOMAIN wf, LeadsToOrder(wf, v, c),
         NEW i \in DOMAIN wf
  PROVE  /\ v \in Nat /\ c \in Nat /\ i \in Nat /\ v < c
         /\ i < v => wf[i].kind \in Prompted \cup {"hawk"}
         /\ i = v => wf[i].kind = "hawk_vote"
         /\ v < i /\ i < c => wf[i].kind \in Prompted
         /\ i = c => wf[i].kind = "compile"
         /\ i > c => wf[i].kind \notin {"hawk", "hawk_vote", "compile", "loop"}
         /\ v <= i => i \notin Hawks
<1>1. Len(wf) \in Nat /\ DOMAIN wf = 1 .. Len(wf)
  BY Definition
<1>2. /\ v \in Nat /\ c \in Nat /\ i \in Nat /\ v < c
      /\ i < v => i \in 1 .. v - 1
  BY <1>1 DEF LeadsToOrder
<1>3. /\ i < v => wf[i].kind \in Prompted \cup {"hawk"}
      /\ i = v => wf[i].kind = "hawk_vote"
  BY <1>2 DEF LeadsToOrder, LeadsToVote
<1>4. /\ v < i /\ i < c => wf[i].kind \in Prompted
      /\ i = c => wf[i].kind = "compile"
      /\ i > c => wf[i].kind \notin {"hawk", "hawk_vote", "compile", "loop"}
  BY DEF LeadsToOrder
<1>5. v <= i => wf[i].kind # "hawk"
  BY <1>2, <1>3, <1>4 DEF Prompted
<1> QED
  BY <1>2, <1>3, <1>4, <1>5 DEF Hawks

\* Up to the vote, and from there to the proposal.
LEMMA CarriedAsks ==
  ASSUME IInv, NEW v \in DOMAIN wf, NEW c \in DOMAIN wf, LeadsToOrder(wf, v, c), Carried(v, c),
         worker = "working", tx.at \in DOMAIN wf, Asks, tx.at < c, tx.at # v
  PROVE  Carried(v, c)'
<1>1. wf \in Workflow /\ wf' = wf
  BY DEF IInv, TypeOK, Asks, GivesUp, Quiet, Kept, fixed
<1>2. tx.at \in Nat /\ v \in Nat /\ c \in Nat /\ v < c /\ (v < tx.at => tx.at \notin Hawks)
  BY <1>1, ShapeSays
<1>3. MovedOn \/ GivenUp
  BY AsksLeaves DEF IInv
<1>4. CASE GivenUp
  BY <1>4 DEF GivenUp, Carried
<1>5. CASE MovedOn
  <2>1. /\ worker' = "working" /\ db' = db /\ tx'.at = tx.at + 1 /\ tx'.at <= c
        /\ tx'.proposal.status = "NONE" /\ ctx'.majority = ctx.majority
    BY <1>2, <1>5 DEF MovedOn, Carried
  <2>2. ASSUME v < tx'.at PROVE Majority(tx') # "NONE" /\ ctx'.majority = Majority(tx')
    <3>1. v < tx.at /\ tx.at <= c
      BY <1>2, <2>1, <2>2
    <3>2. Majority(tx) # "NONE" /\ ctx.majority = Majority(tx)
      BY <3>1, <2>1 DEF Carried
    <3>3. \A i \in Hawks : i # tx.at /\ i \in DOMAIN wf
      BY <1>2, <3>1 DEF Hawks
    <3>4. Majority(tx') = Majority(tx)
      BY <1>5, <3>3, MajoritySame DEF MovedOn
    <3> QED
      BY <2>1, <3>2, <3>4
  <2>3. db'.status = "waiting_approval" => db'.at > c /\ Follows(db')
    BY <2>1 DEF Carried
  <2>4. ~ (tx'.at > c)
    BY <1>2, <2>1
  <2> QED
    BY <1>1, <2>1, <2>2, <2>3, <2>4, FollowsPrimed DEF Carried
<1> QED
  BY <1>3, <1>4, <1>5

LEMMA CarriedVotes ==
  ASSUME IInv, NEW v \in DOMAIN wf, NEW c \in DOMAIN wf, LeadsToOrder(wf, v, c), Carried(v, c),
         worker = "working", tx.at = v, WorkerStep
  PROVE  Carried(v, c)'
<1>1. wf \in Workflow /\ tx.at \in DOMAIN wf /\ wf[tx.at].kind = "hawk_vote"
  BY ShapeSays DEF IInv, TypeOK
<1>2. tx.at \in Nat /\ v \in Nat /\ c \in Nat /\ v < c /\ tx.at \notin Hawks
  BY <1>1, ShapeSays
<1>3. GivesUp \/ (Quiet /\ \E rows \in Rows : RowOnly(rows) /\ Passes(rows))
  BY <1>1, VoteSteps DEF IInv
<1>4. CASE GivesUp
  BY <1>4, GivesUpLeaves DEF IInv, GivenUp, Carried
<1>5. ASSUME Quiet, NEW rows \in Rows, RowOnly(rows), Passes(rows) PROVE Carried(v, c)'
  <2>1. wf' = wf
    BY <1>5 DEF Quiet, Kept, fixed
  <2>2. CASE \E r \in Rows : r.at = tx.at + 1 /\ Stop(r, "completed", "none")
    <3>1. worker' = "leaving" /\ db'.status = "completed"
      BY <1>1, <2>2, StopTypes DEF RunStatus, Reason
    <3> QED
      BY <3>1 DEF Carried
  <2>3. CASE /\ Majority(tx) # "NONE"
             /\ GoOn(rows, tx.at + 1) /\ ctx'.majority = Majority(tx)
    <3>1. /\ worker' = "working" /\ db' = db /\ tx'.at = tx.at + 1 /\ tx'.row = rows.row
          /\ tx'.proposal = tx.proposal
      BY <1>2, <1>5, <2>3, GoOnTypes DEF RowOnly
    <3>2. tx.proposal.status = "NONE"
      BY <1>2 DEF Carried
    <3>3. \A i \in Hawks : tx'.row[i] = tx.row[i]
      BY <1>2, <1>5, <3>1 DEF RowOnly, Touched, Hawks
    <3>4. Majority(tx') = Majority(tx)
      BY <3>3, MajoritySame
    <3>5. db'.status = "waiting_approval" => db'.at > c /\ Follows(db')
      BY <3>1 DEF Carried
    <3>6. tx'.at <= c /\ ~ (tx'.at > c)
      BY <1>2, <3>1
    <3> QED
      BY <2>1, <2>3, <3>1, <3>2, <3>4, <3>5, <3>6, FollowsPrimed DEF Carried
  <2> QED
    BY <1>5, <2>2, <2>3 DEF Passes
<1> QED
  BY <1>3, <1>4, <1>5

\* The proposal of the compile step, stored or refused.
Proposes(rows) ==
  /\ Touched(rows) /\ rows.at = tx.at /\ GoOn(rows, tx.at + 1)
  /\ \/ rows.proposal = tx.proposal
     \/ \E dir \in Direction : Aligned(dir) /\ rows.proposal.dir = dir

LEMMA CompileSteps ==
  ASSUME TypeOK, WorkerStep, worker = "working", tx.at \in DOMAIN wf,
         wf[tx.at].kind = "compile"
  PROVE  UNCHANGED fixed /\ \E rows \in Rows : Halts(rows) \/ Proposes(rows)
<1>1. ~ (tx.at > Len(wf)) /\ worker # "leaving"
  BY Definition, RowsFields DEF TypeOK
<1>2. \A kinds : InSteps(kinds) => wf[tx.at].kind \in kinds
  BY DEF InSteps
<1>3. RunCompile \/ StepRaises
  BY <1>1, <1>2 DEF WorkerStep, RunHawk, HardStop, FetchMarketData, RunPrompt, RunHawkVote,
     GateSkips, GateExecutes, GateWaits, ConfidenceGate, ApprovalStep, ExchangeExecute,
     Conditional, LoopStep, Finish, Acknowledge
<1>4. UNCHANGED fixed
  BY <1>3 DEF RunCompile, StepRaises
<1>5. CASE StepRaises
  <2>1. Quiet
    BY <1>5 DEF StepRaises, Quiet, Kept, Still, fixed, counts
  <2>2. GivesUp
    BY <1>5, <2>1, RaisesGivesUp
  <2> QED
    BY <1>4, <2>2 DEF GivesUp
<1>6. CASE RunCompile
  <2>1. PICK dir \in Direction, stored \in {"NONE", "PENDING_APPROVAL", "BLOCKED_KILL_SWITCH"} :
          LET rows == IF stored = "NONE" THEN Done(Silent)
                      ELSE [Done(Silent) EXCEPT !.proposal = [status |-> stored, dir |-> dir]]
          IN
          \/ Block(rows)
          \/ Fail(rows)
          \/ Aligned(dir) /\ GoOn(rows, tx.at + 1) /\ UNCHANGED ctx
    BY <1>6 DEF RunCompile
  <2> DEFINE p == [status |-> stored, dir |-> dir]
             rows == IF stored = "NONE" THEN Done(Silent)
                     ELSE [Done(Silent) EXCEPT !.proposal = p]
  <2>2. \/ Block(rows)
        \/ Fail(rows)
        \/ Aligned(dir) /\ GoOn(rows, tx.at + 1)
    BY <2>1
  <2>3. p \in Proposal /\ p.dir = dir
    BY DEF Proposal
  <2> HIDE DEF p
  <2>4. Done(Silent) \in Rows /\ Touched(Done(Silent)) /\ Done(Silent).proposal = tx.proposal
        /\ Done(Silent).at = tx.at
    BY SilentType, DoneTouches
  <2>5. rows \in Rows /\ rows.row = Done(Silent).row /\ rows.at = tx.at
        /\ (rows.proposal = tx.proposal \/ rows.proposal.dir = dir)
    BY <2>3, <2>4 DEF Rows
  <2> HIDE DEF rows
  <2>6. Touched(rows)
    BY <2>4, <2>5 DEF Touched
  <2>7. CASE Block(rows)
    BY <1>4, <2>5, <2>7 DEF Block, Halts, Reason
  <2>8. CASE Fail(rows)
    <3>1. Written(rows, "failed", Silent) \in Rows
      BY <2>5, <2>6, SilentType, WrittenTouches
    <3>2. Halts(Written(rows, "failed", Silent))
      BY <2>8 DEF Fail, Halts, Reason
    <3> QED
      BY <1>4, <3>1, <3>2
  <2>9. CASE Aligned(dir) /\ GoOn(rows, tx.at + 1)
    <3>1. Proposes(rows)
      BY <2>5, <2>6, <2>9 DEF Proposes
    <3> QED
      BY <1>4, <2>5, <3>1
  <2> QED
    BY <2>2, <2>7, <2>8, <2>9
<1> QED
  BY <1>3, <1>5, <1>6

LEMMA CarriedHalts ==
  ASSUME IInv, NEW v, NEW c, NEW rows \in Rows, Halts(rows)
  PROVE  Carried(v, c)'
BY HaltsTypes DEF IInv, TypeOK, Carried

LEMMA CarriedProposes ==
  ASSUME IInv, NEW v \in DOMAIN wf, NEW c \in DOMAIN wf, LeadsToOrder(wf, v, c), Carried(v, c),
         worker = "working", tx.at = c, WorkerStep
  PROVE  Carried(v, c)'
<1>1. wf \in Workflow /\ tx.at \in DOMAIN wf /\ wf[tx.at].kind = "compile"
  BY ShapeSays DEF IInv, TypeOK
<1>2. tx.at \in Nat /\ v \in Nat /\ c \in Nat /\ v < c /\ tx.at \notin Hawks
  BY <1>1, ShapeSays
<1>3. PICK rows \in Rows : Halts(rows) \/ Proposes(rows)
  BY <1>1, CompileSteps DEF IInv
<1>4. wf' = wf
  BY <1>1, CompileSteps DEF IInv, fixed
<1>5. CASE Halts(rows)
  BY <1>5, CarriedHalts
<1>6. CASE Proposes(rows)
  <2>1. /\ worker' = "working" /\ db' = db /\ tx'.at = tx.at + 1 /\ tx'.row = rows.row
        /\ tx'.proposal = rows.proposal
    BY <1>2, <1>6, GoOnTypes DEF Proposes
  <2>2. /\ tx.proposal.status = "NONE"
        /\ Majority(tx) # "NONE" /\ ctx.majority = Majority(tx)
    BY <1>2 DEF Carried
  <2>3. \A i \in Hawks : tx'.row[i] = tx.row[i]
    BY <1>2, <1>6, <2>1 DEF Proposes, Touched, Hawks
  <2>4. Majority(tx') = Majority(tx)
    BY <2>3, MajoritySame
  <2>5. tx'.proposal.status # "NONE" => tx'.proposal.dir = DirectionOf[Majority(tx)]
    BY <1>6, <2>1, <2>2 DEF Proposes, Aligned
  <2>6. Follows(tx')
    BY <2>2, <2>4, <2>5 DEF Follows
  <2>7. db'.status = "waiting_approval" => db'.at > c /\ Follows(db')
    BY <2>1 DEF Carried
  <2>8. tx'.at > c /\ ~ (tx'.at <= c)
    BY <1>2, <2>1
  <2> QED
    BY <1>4, <2>1, <2>6, <2>7, <2>8, FollowsPrimed DEF Carried
<1> QED
  BY <1>3, <1>5, <1>6

\* Behind the proposal: the gates, the order, the journal.
Late(rows) ==
  rows \in Rows /\ Touched(rows) /\ rows.at = tx.at /\ SameSide(rows.proposal, tx.proposal)

LateStep ==
  /\ UNCHANGED fixed
  /\ \/ \E rows \in Rows, at \in Nat \ {0} : Late(rows) /\ at > tx.at /\ GoOn(rows, at)
     \/ \E rows \in Rows, status \in RunStatus, reason \in Reason :
          Late(rows) /\ Stop(rows, status, reason)
     \/ \E rows \in Rows : Stop(rows, "completed", "none")

LEMMA RowOnlyLate ==
  ASSUME NEW rows, RowOnly(rows)
  PROVE  Late(rows)
BY DEF RowOnly, Late, SameSide

LEMMA SettledSide ==
  ASSUME NEW rows \in Rows, rows.proposal.status # "NONE",
         NEW s \in ProposalStatus \ {"NONE"}
  PROVE  SameSide(Settled(rows, s).proposal, rows.proposal)
<1>1. rows.proposal \in Proposal
  BY RowsFields
<1>2. Settled(rows, s).proposal = [rows.proposal EXCEPT !.status = s]
  BY DEF Settled, Rows
<1> QED
  BY <1>1, <1>2 DEF Proposal, SameSide

LEMMA SettledLate ==
  ASSUME TypeOK, tx.at \in DOMAIN wf, tx.proposal.status # "NONE",
         NEW s \in {"REJECTED", "EXECUTED", "EXECUTION_FAILED"}
  PROVE  Late(Settled(Done(Silent), s))
<1>1. Done(Silent) \in Rows /\ Touched(Done(Silent)) /\ Done(Silent).proposal = tx.proposal
      /\ Done(Silent).at = tx.at
  BY SilentType, DoneTouches
<1>2. /\ Settled(Done(Silent), s) \in Rows /\ Settled(Done(Silent), s).row = Done(Silent).row
      /\ Settled(Done(Silent), s).at = tx.at
  BY <1>1, SettledTouches DEF ProposalStatus
<1>3. SameSide(Settled(Done(Silent), s).proposal, tx.proposal)
  BY <1>1, SettledSide DEF ProposalStatus
<1> QED
  BY <1>1, <1>2, <1>3 DEF Late, Touched

LEMMA GivesUpLate == ASSUME GivesUp PROVE LateStep
<1>1. UNCHANGED fixed
  BY DEF GivesUp, Quiet, Kept
<1>2. PICK rows \in Rows : RowOnly(rows) /\ Halts(rows)
  BY DEF GivesUp
<1>3. PICK status \in {"blocked", "failed", "paused"}, reason \in Reason :
        Stop(rows, status, reason)
  BY <1>2 DEF Halts
<1>4. status \in RunStatus /\ Late(rows)
  BY <1>2, RowOnlyLate DEF RunStatus
<1> QED
  BY <1>1, <1>3, <1>4 DEF LateStep

LEMMA AsksLate ==
  ASSUME TypeOK, tx.at \in DOMAIN wf, Asks
  PROVE  LateStep
<1>1. ASSUME Quiet, NEW rows \in Rows, RowOnly(rows), Onward(rows) PROVE LateStep
  BY <1>1, Next1, RowOnlyLate DEF Onward, LateStep, Quiet, Kept
<1> QED
  BY <1>1, GivesUpLate DEF Asks

\* A late step that writes its row, and perhaps the proposal's status, and goes on.
LEMMA GoesLate ==
  ASSUME UNCHANGED fixed, NEW rows, Late(rows), NEW at \in Nat \ {0}, at > tx.at, GoOn(rows, at)
  PROVE  LateStep
BY DEF LateStep, Late

LEMMA DoneLate ==
  ASSUME TypeOK, tx.at \in DOMAIN wf, UNCHANGED fixed,
         GoOn(Done(Silent), tx.at + 1) \/ GoOn(Done(Silent), Skipped)
  PROVE  LateStep
<1>1. Late(Done(Silent))
  BY SilentType, DoneRowOnly, RowOnlyLate
<1> QED
  BY <1>1, Next1, GoesLate

LEMMA SettlesLate ==
  ASSUME TypeOK, tx.at \in DOMAIN wf, UNCHANGED fixed, tx.proposal.status # "NONE",
         NEW s \in {"REJECTED", "EXECUTED", "EXECUTION_FAILED"},
         \/ GoOn(Settled(Done(Silent), s), tx.at + 1)
         \/ GoOn(Settled(Done(Silent), s), Skipped)
         \/ Block(Settled(Done(Silent), s))
  PROVE  LateStep
<1> DEFINE r == Settled(Done(Silent), s)
<1>1. Late(r)
  BY SettledLate
<1>2. GoOn(r, tx.at + 1) \/ GoOn(r, Skipped) \/ Stop(r, "blocked", "gate")
  BY DEF Block
<1> HIDE DEF r
<1>3. CASE GoOn(r, tx.at + 1) \/ GoOn(r, Skipped)
  BY <1>1, <1>3, Next1, GoesLate
<1>4. CASE Stop(r, "blocked", "gate")
  <2>1. "blocked" \in RunStatus /\ "gate" \in Reason
    BY DEF RunStatus, Reason
  <2> QED
    BY <1>1, <1>4, <2>1 DEF LateStep, Late
<1> QED
  BY <1>2, <1>3, <1>4

LEMMA WaitsLate ==
  ASSUME TypeOK, tx.at \in DOMAIN wf, UNCHANGED fixed, WaitFor("warmup") \/ WaitFor("approval")
  PROVE  LateStep
<1>1. Late(Written(tx, "waiting_approval", Silent))
  BY WrittenRowOnly, RowOnlyLate
<1>2. PICK reason \in Reason :
        Stop(Written(tx, "waiting_approval", Silent), "waiting_approval", reason)
  BY DEF WaitFor, Reason
<1> QED
  BY <1>1, <1>2 DEF LateStep, Late, RunStatus

LEMMA LateWorks ==
  ASSUME TypeOK, WorkerStep, worker = "working", tx.at \in DOMAIN wf,
         wf[tx.at].kind \notin {"hawk", "hawk_vote", "compile", "loop"}
  PROVE  LateStep
<1>1. ~ (tx.at > Len(wf)) /\ worker # "leaving"
  BY Definition, RowsFields DEF TypeOK
<1>2. \A kinds : InSteps(kinds) => wf[tx.at].kind \in kinds
  BY DEF InSteps
<1>3. \/ HardStop \/ FetchMarketData \/ RunPrompt \/ StepRaises
      \/ GateSkips \/ GateExecutes \/ GateWaits \/ ConfidenceGate \/ ApprovalStep
      \/ ExchangeExecute \/ Conditional
  BY <1>1, <1>2 DEF WorkerStep, RunHawk, RunHawkVote, RunCompile, LoopStep, Finish, Acknowledge
<1>4. UNCHANGED fixed
  BY <1>3 DEF HardStop, FetchMarketData, RunPrompt, StepRaises, GateSkips, GateExecutes,
     GateWaits, ConfidenceGate, ApprovalStep, ExchangeExecute, Conditional
<1>5. CASE HardStop \/ StepRaises
  <2>1. Quiet /\ (Fail(tx) \/ StepRaises)
    BY <1>5 DEF HardStop, StepRaises, Quiet, Kept, Still, fixed, counts
  <2>2. GivesUp
    BY <2>1, FailGivesUp, RaisesGivesUp
  <2> QED
    BY <2>2, GivesUpLate
<1>6. CASE FetchMarketData \/ RunPrompt
  BY <1>6, MarketAsks, PromptAsks, AsksLate
<1>7. CASE GateSkips \/ Conditional
  BY <1>4, <1>7, DoneLate DEF GateSkips, Conditional
<1>8. CASE GateWaits \/ ConfidenceGate \/ ApprovalStep
  BY <1>4, <1>8, WaitsLate, DoneLate DEF GateWaits, ConfidenceGate, ApprovalStep
<1>9. CASE GateExecutes
  <2>1. CASE GoOn(Done(Silent), Skipped)
    BY <1>4, <2>1, DoneLate
  <2>2. CASE tx.proposal.status = "PENDING_APPROVAL"
             /\ GoOn(Settled(Done(Silent), "REJECTED"), Skipped)
    BY <1>4, <2>2, SettlesLate
  <2>3. CASE tx.proposal.status = "PENDING_APPROVAL" /\ SendOrder(Skipped)
    <3>1. PICK s \in {"EXECUTED", "EXECUTION_FAILED"} : GoOn(Settled(Done(Silent), s), Skipped)
      BY <2>3 DEF SendOrder
    <3> QED
      BY <1>4, <2>3, <3>1, SettlesLate
  <2> QED
    BY <1>9, <2>1, <2>2, <2>3 DEF GateExecutes
<1>10. CASE ExchangeExecute
  <2>1. CASE OrderMissing(Done(Silent))
    <3>1. \/ Block(Done(Silent))
          \/ GoOn(Done(Silent), Done(Silent).at + 1)
          \/ GoOn(Done(Silent), tx.at + 1)
      BY <2>1 DEF OrderMissing
    <3>2. Done(Silent).at = tx.at /\ Late(Done(Silent))
      BY SilentType, DoneRowOnly, RowOnlyLate DEF RowOnly
    <3>3. CASE Block(Done(Silent))
      BY <1>4, <3>2, <3>3 DEF Block, LateStep, Late, RunStatus, Reason
    <3> QED
      BY <1>4, <3>1, <3>2, <3>3, DoneLate
  <2>2. CASE tx.proposal.status = "APPROVED"
             /\ OrderMissing(Settled(Done(Silent), "REJECTED"))
    <3>1. \/ Block(Settled(Done(Silent), "REJECTED"))
          \/ GoOn(Settled(Done(Silent), "REJECTED"), tx.at + 1)
      BY <2>2 DEF OrderMissing
    <3> QED
      BY <1>4, <2>2, <3>1, SettlesLate
  <2>3. CASE tx.proposal.status = "APPROVED" /\ SendOrder(tx.at + 1)
    <3>1. PICK s \in {"EXECUTED", "EXECUTION_FAILED"} :
            GoOn(Settled(Done(Silent), s), tx.at + 1)
      BY <2>3 DEF SendOrder
    <3> QED
      BY <1>4, <2>3, <3>1, SettlesLate
  <2> QED
    BY <1>10, <2>1, <2>2, <2>3 DEF ExchangeExecute
<1> QED
  BY <1>3, <1>5, <1>6, <1>7, <1>8, <1>9, <1>10

\* Behind the last step nothing is left but to finish.
LEMMA PastTheEnd ==
  ASSUME TypeOK, WorkerStep, worker = "working", tx.at \notin DOMAIN wf
  PROVE  LateStep
<1>1. tx.at \in Nat \ {0} /\ Len(wf) \in Nat /\ DOMAIN wf = 1 .. Len(wf)
  BY Definition, RowsFields DEF TypeOK
<1>2. ~ (tx.at <= Len(wf))
  BY <1>1
<1>3. Finish
  BY <1>2 DEF WorkerStep, RunHawk, HardStop, FetchMarketData, RunHawkVote, RunPrompt, RunCompile,
     GateSkips, GateExecutes, GateWaits, ConfidenceGate, ApprovalStep, ExchangeExecute,
     Conditional, LoopStep, StepRaises, Acknowledge, InSteps
<1>4. [tx EXCEPT !.at = Len(wf) + 1] \in Rows
  <2>1. tx \in Rows /\ Len(wf) + 1 \in Nat \ {0}
    BY <1>1 DEF TypeOK
  <2> QED
    BY <2>1 DEF Rows
<1> QED
  BY <1>3, <1>4 DEF Finish, LateStep

LEMMA CarriedLate ==
  ASSUME IInv, NEW v \in DOMAIN wf, NEW c \in DOMAIN wf, LeadsToOrder(wf, v, c), Carried(v, c),
         worker = "working", tx.at > c, LateStep
  PROVE  Carried(v, c)'
<1>1. wf \in Workflow /\ wf' = wf /\ tx.at \in Nat \ {0} /\ c \in Nat
  BY ShapeSays, RowsFields DEF IInv, TypeOK, LateStep, fixed
<1>2. tx.at \notin Hawks
  <2>1. CASE tx.at \in DOMAIN wf
    BY <1>1, <2>1, ShapeSays
  <2> QED
    BY <2>1 DEF Hawks
<1>3. Follows(tx)
  BY DEF Carried
<1>4. ASSUME NEW rows, Late(rows), NEW r, r.row = rows.row, r.proposal = rows.proposal
      PROVE  Follows(r)
  <2>1. \A i \in Hawks : r.row[i] = tx.row[i]
    BY <1>2, <1>4 DEF Late, Touched, Hawks
  <2>2. SameSide(r.proposal, tx.proposal)
    BY <1>4 DEF Late
  <2> QED
    BY <1>3, <2>1, <2>2, FollowsSame
<1>5. ASSUME NEW rows \in Rows, NEW at \in Nat \ {0}, Late(rows), at > tx.at, GoOn(rows, at)
      PROVE  Carried(v, c)'
  <2>1. /\ worker' = "working" /\ db' = db /\ tx'.at > c /\ tx'.row = rows.row
        /\ tx'.proposal = rows.proposal
    BY <1>1, <1>5, GoOnTypes
  <2>2. Follows(tx')
    BY <1>4, <1>5, <2>1
  <2>3. db'.status = "waiting_approval" => db'.at > c /\ Follows(db')
    BY <2>1 DEF Carried
  <2>4. ~ (tx'.at <= c)
    BY <1>1, <1>5, GoOnTypes
  <2> QED
    BY <1>1, <2>1, <2>2, <2>3, <2>4, FollowsPrimed DEF Carried
<1>6. ASSUME NEW rows \in Rows, NEW status \in RunStatus, NEW reason \in Reason,
             Late(rows), Stop(rows, status, reason)
      PROVE  Carried(v, c)'
  <2>1. /\ worker' = "leaving" /\ db'.row = rows.row /\ db'.at = tx.at
        /\ db'.proposal = rows.proposal
    BY <1>1, <1>6, StopTypes DEF Late
  <2>2. Follows(db') /\ db'.at > c
    BY <1>4, <1>6, <2>1
  <2> QED
    BY <1>1, <2>1, <2>2, FollowsPrimed DEF Carried
<1>7. ASSUME NEW rows \in Rows, Stop(rows, "completed", "none") PROVE Carried(v, c)'
  <2>1. worker' = "leaving" /\ db'.status = "completed"
    BY <1>1, <1>7, StopTypes DEF RunStatus, Reason
  <2> QED
    BY <2>1 DEF Carried
<1> QED
  BY <1>5, <1>6, <1>7 DEF LateStep

LEMMA CarriedWorks ==
  ASSUME IInv, NEW v \in DOMAIN wf, NEW c \in DOMAIN wf, LeadsToOrder(wf, v, c), Carried(v, c),
         WorkerStep
  PROVE  Carried(v, c)'
<1>1. wf \in Workflow /\ wf' = wf /\ tx.at \in Nat \ {0} /\ v \in Nat /\ c \in Nat /\ v < c
      /\ Len(wf) \in Nat /\ DOMAIN wf = 1 .. Len(wf)
  BY ShapeSays, Definition, RowsFields, HistoryGrows DEF IInv, TypeOK, Next
<1>2. CASE Acknowledge
  <2>1. worker' = "idle" /\ message' = "none" /\ db' = db
    BY <1>2 DEF Acknowledge
  <2> QED
    BY <1>1, <2>1, FollowsPrimed DEF Carried
<1>3. CASE worker = "working"
  <2>1. CASE tx.at < c /\ tx.at # v
    <3>1. tx.at \in DOMAIN wf
      BY <1>1, <2>1
    <3>2. wf[tx.at].kind \in Prompted \cup {"hawk"}
      BY <1>1, <2>1, <3>1, ShapeSays
    <3>3. Asks
      BY <1>3, <3>1, <3>2, ResearchAsks DEF IInv
    <3> QED
      BY <1>3, <2>1, <3>1, <3>3, CarriedAsks
  <2>2. CASE tx.at = v
    BY <1>3, <2>2, CarriedVotes
  <2>3. CASE tx.at = c
    BY <1>3, <2>3, CarriedProposes
  <2>4. CASE tx.at > c
    <3>1. tx.at \in DOMAIN wf =>
            wf[tx.at].kind \notin {"hawk", "hawk_vote", "compile", "loop"}
      BY <1>1, <2>4, ShapeSays
    <3>2. LateStep
      BY <1>3, <3>1, LateWorks, PastTheEnd DEF IInv
    <3> QED
      BY <1>3, <2>4, <3>2, CarriedLate
  <2> QED
    BY <1>1, <2>1, <2>2, <2>3, <2>4
<1> QED
  BY <1>2, <1>3, WorkingOrLeaving

LEMMA CarriedFails ==
  ASSUME IInv, NEW v, NEW c, Carried(v, c), history' = {}, DeliveryFails \/ Refuse
  PROVE  Carried(v, c)'
<1>1. db' \in MarkFailed(db) /\ worker' = "idle" /\ message' = "none" /\ wf' = wf
  BY DEF DeliveryFails, Refuse, counts, fixed
<1>2. /\ db'.at = db.at /\ db'.row = db.row /\ db'.proposal = db.proposal
      /\ db'.status = db.status \/ db'.status = "failed"
  BY <1>1, Numbers, MarkFailedIs DEF IInv
<1>3. Follows(db) => Follows(db')
  BY <1>2, FollowsSame DEF SameSide
<1> QED
  BY <1>1, <1>2, <1>3, FollowsPrimed DEF Carried

LEMMA CarriedStarts ==
  ASSUME IInv, NEW v \in DOMAIN wf, NEW c \in DOMAIN wf, LeadsToOrder(wf, v, c), Carried(v, c),
         history' = {}, Execute \/ ResumeApproved \/ ResumeFromBlocked
  PROVE  Carried(v, c)'
<1>1. wf \in Workflow /\ wf' = wf /\ v \in Nat /\ c \in Nat /\ v < c /\ v >= 1 /\ db \in Rows
      /\ db.at \in Nat
  BY ShapeSays, Definition, Numbers, HistoryGrows DEF IInv, Next
<1>2. CASE Execute
  <2>1. message = "execute" /\ Start(db)
    BY <1>2 DEF Execute
  <2>2. /\ worker = "idle" /\ worker' = "working" /\ tx' = db' /\ db'.at = db.at
        /\ db'.proposal = db.proposal /\ db'.status = "running"
    BY <1>1, <2>1, StartTypes
  <2>3. tx'.at = 1 /\ tx'.proposal.status = "NONE"
    BY <2>1, <2>2 DEF Carried
  <2>4. ~ (v < tx'.at) /\ ~ (tx'.at > c)
    BY <1>1, <2>3
  <2> QED
    BY <2>2, <2>3, <2>4 DEF Carried
<1>3. CASE ResumeApproved
  <2>1. db.at > c /\ Follows(db)
    BY <1>3 DEF ResumeApproved, Carried
  <2>2. PICK rows \in Promoted(PastApproval(db)) : Start(rows)
    BY <1>3 DEF ResumeApproved
  <2> DEFINE past == PastApproval(db)
  <2>3. /\ past \in Rows /\ past.at = db.at + 1 /\ past.proposal = db.proposal
        /\ \A i \in DOMAIN wf : i # db.at => past.row[i] = db.row[i]
    BY <1>1, PastApprovalTypes
  <2>4. db.at \notin Hawks
    <3>1. CASE db.at \in DOMAIN wf
      BY <1>1, <2>1, <3>1, ShapeSays
    <3> QED
      BY <3>1 DEF Hawks
  <2>5. \A i \in Hawks : past.row[i] = db.row[i]
    BY <2>3, <2>4 DEF Hawks
  <2>6. rows \in Promoted(past)
    BY <2>2
  <2> HIDE DEF past
  <2>7. rows \in Rows /\ rows.at = past.at /\ rows.row = past.row
    BY <2>3, <2>6, PromotedTypes
  <2>8. SameSide(rows.proposal, past.proposal)
    <3>1. CASE rows = past
      BY <3>1 DEF SameSide
    <3>2. CASE rows = Settled(past, "APPROVED") /\
               past.proposal.status \in {"PENDING_APPROVAL", "BLOCKED_KILL_SWITCH"}
      BY <2>3, <3>2, SettledSide DEF ProposalStatus
    <3> QED
      BY <2>6, <3>1, <3>2 DEF Promoted
  <2>9. /\ worker' = "working" /\ tx' = db' /\ db'.at = rows.at /\ db'.row = rows.row
        /\ db'.proposal = rows.proposal /\ db'.status = "running"
    BY <1>1, <2>2, <2>7, StartTypes
  <2>10. Follows(tx')
    <3>1. (\A i \in Hawks : tx'.row[i] = db.row[i]) /\ SameSide(tx'.proposal, db.proposal)
      BY <2>3, <2>5, <2>7, <2>8, <2>9
    <3> QED
      BY <2>1, <3>1, FollowsSame
  <2>11. tx'.at > c /\ ~ (tx'.at <= c)
    BY <1>1, <2>1, <2>3, <2>7, <2>9
  <2> QED
    BY <1>1, <2>9, <2>10, <2>11, FollowsPrimed DEF Carried
<1>4. ~ ResumeFromBlocked
  BY DEF ResumeFromBlocked
<1> QED
  BY <1>2, <1>3, <1>4

LEMMA CarriedAsked ==
  ASSUME IInv, NEW v, NEW c, Carried(v, c), history' = {},
         ApproveRun \/ OverrideRun \/ RejectRun \/ RetryRun \/ RecoverPaused \/ ApproveProposal
  PROVE  Carried(v, c)'
<1>1. worker = "idle" /\ worker' = "idle" /\ wf' = wf /\ db \in Rows
  BY Numbers
  DEF ApproveRun, OverrideRun, RejectRun, RetryRun, RecoverPaused, ApproveProposal, Request,
     fixed, IInv
<1>2. ~ RetryRun /\ ~ RecoverPaused
  BY DEF RetryRun, RecoverPaused
<1>3. CASE ApproveRun \/ OverrideRun
  <2>1. db' = db /\ message' # "execute"
    BY <1>3 DEF ApproveRun, OverrideRun, Request
  <2> QED
    BY <1>1, <2>1, FollowsPrimed DEF Carried
<1>4. CASE RejectRun
  <2>1. db'.status = "cancelled" /\ message' = "none"
    BY <1>1, <1>4 DEF RejectRun, Request, Rows
  <2> QED
    BY <1>1, <2>1 DEF Carried
<1>5. CASE ApproveProposal
  <2>1. /\ db'.at = db.at /\ db'.row = db.row /\ db'.status = db.status /\ message' = message
        /\ db.proposal.status = "PENDING_APPROVAL" /\ db' = Settled(db, "APPROVED")
    BY <1>1, <1>5, SettledTouches DEF ApproveProposal, ProposalStatus
  <2>2. SameSide(db'.proposal, db.proposal)
    BY <1>1, <2>1, SettledSide DEF ProposalStatus
  <2>3. Follows(db) => Follows(db')
    BY <2>1, <2>2, FollowsSame
  <2>4. message' # "execute"
    BY <1>1, <2>1 DEF Carried
  <2> QED
    BY <1>1, <2>1, <2>3, <2>4, FollowsPrimed DEF Carried
<1> QED
  BY <1>2, <1>3, <1>4, <1>5

LEMMA CarriedStep ==
  ASSUME IInv, VoteCarried, [Next]_vars
  PROVE  VoteCarried'
<1>1. wf' = wf /\ history \subseteq history'
  BY HistoryGrows
<1>2. SUFFICES ASSUME history' = {}, NEW v \in DOMAIN wf, NEW c \in DOMAIN wf,
                      LeadsToOrder(wf, v, c)
               PROVE  Carried(v, c)'
  BY <1>1 DEF VoteCarried, LeadsToOrder, LeadsToVote
<1>3. Carried(v, c)
  BY <1>1, <1>2 DEF VoteCarried
<1>4. CASE WorkerStep
  BY <1>2, <1>3, <1>4, CarriedWorks
<1>5. CASE DeliveryFails \/ Refuse
  BY <1>2, <1>3, <1>5, CarriedFails
<1>6. CASE Execute \/ ResumeApproved \/ ResumeFromBlocked
  BY <1>2, <1>3, <1>6, CarriedStarts
<1>7. CASE ApproveRun \/ OverrideRun \/ RejectRun \/ RetryRun \/ RecoverPaused \/ ApproveProposal
  BY <1>2, <1>3, <1>7, CarriedAsked
<1>8. CASE UNCHANGED vars
  BY <1>3, <1>8, FollowsPrimed DEF Carried, vars
<1> QED
  BY <1>4, <1>5, <1>6, <1>7, <1>8 DEF Next

LEMMA CarriedInvariance == Spec => []VoteCarried
<1>1. Init => VoteCarried
  BY CarriedInit DEF VoteCarried
<1>2. IInv /\ VoteCarried /\ [Next]_vars => VoteCarried'
  BY CarriedStep
<1> QED
  BY <1>1, <1>2, Invariance, PTL DEF Spec

\* Only two steps send an order, both behind the proposal and with one in hand.
LEMMA OrdersSent ==
  ASSUME IInv, [Next]_vars, orders' > orders
  PROVE  /\ worker = "working" /\ tx.at \in DOMAIN wf
         /\ wf[tx.at].kind \in {"winrate_gate", "exchange_execute"}
         /\ tx.proposal.status \in {"PENDING_APPROVAL", "APPROVED"}
<1>1. orders' # orders
  BY Numbers DEF IInv
<1>2. GateExecutes \/ ExchangeExecute
  BY <1>1 DEF Next, WorkerStep, RunHawk, HardStop, FetchMarketData, RunHawkVote, RunPrompt,
     RunCompile, GateSkips, GateWaits, ConfidenceGate, ApprovalStep, Conditional, LoopStep,
     StepRaises, Finish, Acknowledge, DeliveryFails, Execute, ResumeApproved, ResumeFromBlocked,
     Refuse, ApproveRun, OverrideRun, RejectRun, RetryRun, RecoverPaused, ApproveProposal,
     Request, vars, counts
<1>3. InSteps({"winrate_gate"}) \/ InSteps({"exchange_execute"})
  BY <1>2 DEF GateExecutes, ExchangeExecute
<1>4. tx.proposal.status \in {"PENDING_APPROVAL", "APPROVED"}
  BY <1>1, <1>2 DEF GateExecutes, ExchangeExecute
<1> QED
  BY <1>3, <1>4, InDomain DEF IInv

-----------------------------------------------------------------------------
(* Theorems. *)

\* The run's rows, as committed and as the worker's transaction sees them, its
\* context and its messages keep the shape the tables and the executor give them,
\* for every workflow, jump, stop, request and failed delivery.
THEOREM TypeTheorem == Spec => []TypeOK
<1>1. IInv => TypeOK
  BY DEF IInv
<1> QED
  BY <1>1, Invariance, PTL

\* No proposal is paid for twice: gates, approvals by people, overrides and retries
\* send one order for each proposal the run has stored, and a lost transaction,
\* whose order nobody remembers, adds one for each delivery that failed.
THEOREM OrdersAccountedTheorem == Spec => []OrdersAreAccounted
<1>1. ASSUME IInv PROVE OrdersAreAccounted
  <2>1. Open(Current.proposal) \in {0, 1}
    BY OpenIs
  <2> QED
    BY <1>1, <2>1, Numbers DEF IInv, Accounted, OrdersAreAccounted
<1> QED
  BY <1>1, Invariance, PTL

\* A run without loops that was never retried and whose messages were served once
\* runs no completed step again: pauses, approvals and overrides resume behind
\* what is done.
THEOREM NoStepTwiceTheorem == Spec => []NoStepTwice
<1>1. ASSUME IInv PROVE NoStepTwice
  <2>1. SUFFICES ASSUME worker = "working", tx.at <= Len(wf),
                        history \cap {"retried", "redelivered"} = {},
                        \A i \in DOMAIN wf : wf[i].kind # "loop"
                 PROVE  tx.row[tx.at].status # "completed"
    BY DEF NoStepTwice
  <2>2. Straight
    BY <2>1 DEF Straight, HasLoop
  <2>3. ToDo(tx)
    BY <1>1, <2>1, <2>2 DEF IInv, Ordered
  <2>4. wf \in Workflow /\ tx.at \in Nat \ {0}
    BY <1>1, RowsFields DEF IInv, TypeOK
  <2>5. Len(wf) \in Nat /\ DOMAIN wf = 1 .. Len(wf)
    BY <2>4, Definition
  <2>6. tx.at \in DOMAIN wf
    BY <2>1, <2>4, <2>5
  <2> QED
    BY <2>3, <2>6 DEF ToDo
<1> QED
  BY <1>1, Invariance, PTL
\* A validation-only run of a pipeline that comes to its vote before anything else
\* places no order: retried, recovered, approved or failed, it starts again at or
\* before the vote, and stops there.  Every definition with a vote has the seeded
\* pipelines' beginning: research and HAWKs, then the vote.
THEOREM ValidationOnlyTheorem ==
  ASSUME \A w \in Workflow : Voting(w) => VoteFirst(w)
  PROVE  Spec => []ValidationOnlyPlacesNoOrder
<1>1. ASSUME IInv, StopsAtVote PROVE ValidationOnlyPlacesNoOrder
  <2>1. SUFFICES ASSUME stopEarly, Voting(wf), ~ Forced
                 PROVE  orders = 0
    BY DEF ValidationOnlyPlacesNoOrder, HasVote, Forced
  <2>2. PICK v \in DOMAIN wf : LeadsToVote(wf, v)
    BY <1>1, <2>1 DEF IInv, TypeOK, VoteFirst
  <2> QED
    BY <1>1, <2>1, <2>2 DEF StopsAtVote, Stopped
<1> QED
  BY <1>1, Invariance, StoppedInvariance, PTL
\* An order of a run nothing disturbed goes the way at least two of its HAWKs voted,
\* on every workflow with the seeded pipelines' shape: research and HAWKs, the vote,
\* prompts, one proposal, and neither another vote nor a way back behind it.
THEOREM UndisturbedOrderTheorem ==
  ASSUME \A w \in Workflow : Voting(w) => VoteGated(w)
  PROVE  Spec => UndisturbedOrderFollowsVote
<1>1. ASSUME IInv, VoteCarried, [Next]_vars, OrderSent, history = {} PROVE FollowsVote
  <2>1. /\ worker = "working" /\ tx.at \in DOMAIN wf
        /\ wf[tx.at].kind \in {"winrate_gate", "exchange_execute"}
        /\ tx.proposal.status \in {"PENDING_APPROVAL", "APPROVED"}
    BY <1>1, OrdersSent DEF OrderSent
  <2>2. wf \in Workflow /\ Voting(wf)
    BY <1>1 DEF OrderSent, HasVote, IInv, TypeOK
  <2>3. PICK v \in DOMAIN wf, c \in DOMAIN wf : LeadsToOrder(wf, v, c)
    BY <2>2 DEF VoteGated
  <2>4. Carried(v, c)
    BY <1>1, <2>3 DEF VoteCarried
  <2>5. tx.at > c
    BY <2>1, <2>2, <2>3, ShapeSays DEF Prompted
  <2>6. Follows(tx)
    BY <2>1, <2>4, <2>5 DEF Carried
  <2> QED
    BY <2>1, <2>6 DEF Follows, FollowsVote
<1>2. IInv /\ VoteCarried /\ [Next]_vars => [OrderSent /\ history = {} => FollowsVote]_vars
  BY <1>1
<1> QED
  BY <1>2, Invariance, CarriedInvariance, PTL DEF Spec, UndisturbedOrderFollowsVote
\* Whatever the definition and the answers, a worker repeats a step or goes back only by
\* an iteration its loop step still had: the safety half of a delivery's end.
THEOREM GoForwardTheorem == Spec => StepsGoForward
<1>1. ASSUME IInv, [Next]_vars, worker = "working", worker' = "working", vars' # vars
      PROVE  tx'.at > tx.at \/ TakesIteration
  <2>1. WorkerStep
    BY <1>1 DEF Next, DeliveryFails, Execute, ResumeApproved, ResumeFromBlocked, Refuse,
       ApproveRun, OverrideRun, RejectRun, RetryRun, RecoverPaused, ApproveProposal,
       Start, Request
  <2>2. Walk
    BY <1>1, <2>1, WorkerWalks DEF IInv, Acknowledge
  <2>3. PICK rows \in Rows : Goes(rows) \/ Ends(rows)
    BY <2>2 DEF Walk
  <2>4. Goes(rows)
    BY <1>1, <2>3 DEF Ends, Stop
  <2>5. PICK at \in Nat \ {0} : GoOn(rows, at) /\ (at > tx.at \/ TakesIteration)
    BY <2>4 DEF Goes
  <2> QED
    BY <2>5, GoOnTypes
<1>2. IInv /\ [Next]_vars =>
        [worker = "working" /\ worker' = "working" => tx'.at > tx.at \/ TakesIteration]_vars
  BY <1>1
<1> QED
  BY <1>2, Invariance, PTL DEF Spec, StepsGoForward
=============================================================================
