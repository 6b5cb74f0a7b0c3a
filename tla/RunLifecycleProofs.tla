------------------------- MODULE RunLifecycleProofs -------------------------
(* The overlap guard of RunLifecycle and its type correctness, for every set  *)
(* of runs, workflows, steps and messages.                                    *)
EXTENDS RunLifecycle, TLAPS

\* Each row is a record that has a status.
Rows == run = [r \in Run |-> run[r]] /\ \A r \in Run : "status" \in DOMAIN run[r]

GuardInv == Rows /\ OneActivePerWorkflow

-----------------------------------------------------------------------------
\* What a flush does to the status and to the attributes.
LEMMA FlushStatus ==
  ASSUME NEW row, NEW copy, NEW new, "status" \in DOMAIN row
  PROVE  /\ "status" \in DOMAIN Flush(row, copy, new)
         /\ Flush(row, copy, new).status = IF new.status = copy.status THEN row.status ELSE new.status
  BY DEF Flush

\* A write of one row that the unique index lets through keeps the guard.
LEMMA GuardedWrite ==
  ASSUME GuardInv, NEW r, NEW row,
         r \in Run => "status" \in DOMAIN row,
         r \in Run => (row.status \in Active => IndexAllows(r, run)),
         run' = [run EXCEPT ![r] = row]
  PROVE  GuardInv'
<1>1. Rows'
  BY DEF GuardInv, Rows
<1>2. \A q \in Run : run'[q] = IF q = r THEN row ELSE run[q]
  BY DEF GuardInv, Rows
<1>3. OneActivePerWorkflow'
  BY <1>2 DEF GuardInv, OneActivePerWorkflow, IndexAllows
<1> QED
  BY <1>1, <1>3 DEF GuardInv

\* Writing an inactive status into one row keeps the guard.
LEMMA InactiveWrite ==
  ASSUME GuardInv, NEW r, NEW s, s \notin Active,
         run' = [run EXCEPT ![r].status = s]
  PROVE  GuardInv'
<1>1. run' = [run EXCEPT ![r] = [run[r] EXCEPT !.status = s]]
  OBVIOUS
<1>2. ASSUME r \in Run PROVE "status" \in DOMAIN [run[r] EXCEPT !.status = s]
                             /\ [run[r] EXCEPT !.status = s].status = s
  BY <1>2 DEF GuardInv, Rows
<1> QED
  BY <1>1, <1>2, GuardedWrite

\* A step that leaves the rows alone keeps the guard.
LEMMA NoWrite ==
  ASSUME GuardInv, UNCHANGED run
  PROVE  GuardInv'
  BY DEF GuardInv, Rows, OneActivePerWorkflow

-----------------------------------------------------------------------------
\* An exception in a task, with or without the run being marked failed.
LEMMA RaiseKeepsGuard ==
  ASSUME GuardInv, NEW t, MarkFailed(t) \/ UNCHANGED run
  PROVE  GuardInv'
<1>1. CASE UNCHANGED run
  BY <1>1, NoWrite
<1>2. CASE MarkFailed(t) /\ ~ UNCHANGED run
  <2>1. run' = [run EXCEPT ![task[t].run].status = "failed"]
    BY <1>2 DEF MarkFailed
  <2>2. "failed" \notin Active
    BY DEF Active
  <2> QED
    BY <2>1, <2>2, InactiveWrite
<1> QED
  BY <1>1, <1>2

\* The start of a run and the worker's last commit.
LEMMA FinishKeepsGuard ==
  ASSUME GuardInv, NEW r, NEW row, NEW written,
         r \in Run => "status" \in DOMAIN row,
         row.status \in Active => IndexAllows(r, run),
         written = row \/ written = Postponed(row),
         run' = [run EXCEPT ![r] = written]
  PROVE  GuardInv'
<1>1. r \in Run => "status" \in DOMAIN written /\ written.status = row.status
  BY DEF Postponed
<1> QED
  BY <1>1, GuardedWrite

LEMMA StartKeepsGuard ==
  ASSUME GuardInv, NEW t, Start(t)
  PROVE  GuardInv'
<1> DEFINE r == task[t].run
           flushed == Flush(run[r], task[t].copy, Started(t))
           row == [flushed EXCEPT !.started = IF Stamps(t) THEN "recent" ELSE @]
<1>1. r \in Run => "status" \in DOMAIN row
  <2>1. r \in Run => "status" \in DOMAIN flushed
    BY FlushStatus DEF GuardInv, Rows
  <2>2. DOMAIN row = DOMAIN flushed
    OBVIOUS
  <2> QED
    BY <2>1, <2>2
<1>2. (row.status \in Active => IndexAllows(r, run)) /\ run' = [run EXCEPT ![r] = row]
  BY DEF Start
<1> QED
  BY <1>1, <1>2, GuardedWrite

LEMMA EndKeepsGuard ==
  ASSUME GuardInv, NEW t,
         WaitApproval(t) \/ Complete(t) \/ StopAtStep(t) \/ Pause(t)
  PROVE  GuardInv'
<1> DEFINE r == task[t].run
           row(new) == Flush(run[r], task[t].copy, [new EXCEPT !.step = task[t].at])
           written(new, delayed) == IF delayed THEN Postponed(row(new)) ELSE row(new)
           Ends(new, delayed) == /\ row(new).status \in Active => IndexAllows(r, run)
                                 /\ run' = [run EXCEPT ![r] = written(new, delayed)]
<1>1. \E new : \E delayed \in BOOLEAN : Ends(new, delayed)
  <2>1. CASE WaitApproval(t)
    BY <2>1, Zenon DEF WaitApproval, Finish
  <2>2. CASE Complete(t)
    BY <2>2, Zenon DEF Complete, Finish
  <2>3. CASE StopAtStep(t)
    BY <2>3, Zenon DEF StopAtStep, Finish
  <2>4. CASE Pause(t)
    BY <2>4, Zenon DEF Pause, Finish
  <2> QED
    BY <2>1, <2>2, <2>3, <2>4
<1>2. PICK new : \E delayed \in BOOLEAN : Ends(new, delayed)
  BY <1>1
<1>3. PICK delayed \in BOOLEAN : Ends(new, delayed)
  BY <1>2
<1>4. r \in Run => "status" \in DOMAIN row(new)
  BY FlushStatus DEF GuardInv, Rows
<1>5. written(new, delayed) = row(new) \/ written(new, delayed) = Postponed(row(new))
  OBVIOUS
<1> HIDE DEF row, r, written
<1> QED
  BY <1>3, <1>4, <1>5, FinishKeepsGuard

\* Every step of a task keeps the guard.
LEMMA TaskKeepsGuard ==
  ASSUME GuardInv, NEW t, TaskStep(t) \/ WorkerDies(t)
  PROVE  GuardInv'
<1>1. CASE Load(t) \/ Advance(t) \/ WorkerDies(t)
  BY <1>1, NoWrite DEF Load, Advance, WorkerDies
<1>2. CASE LoadRefused(t) \/ TaskRaises(t)
  <2>1. MarkFailed(t) \/ UNCHANGED run
    BY <1>2 DEF LoadRefused, TaskRaises, Raise
  <2> QED
    BY <2>1, RaiseKeepsGuard
<1>3. CASE SoftTimeout(t)
  BY <1>3, RaiseKeepsGuard DEF SoftTimeout
<1>4. CASE Start(t)
  BY <1>4, StartKeepsGuard
<1>5. CASE WaitApproval(t) \/ Complete(t) \/ StopAtStep(t) \/ Pause(t)
  BY <1>5, EndKeepsGuard
<1> QED
  BY <1>1, <1>2, <1>3, <1>4, <1>5 DEF TaskStep

-----------------------------------------------------------------------------
\* The routes keep the guard.
LEMMA RouteKeepsGuard ==
  ASSUME GuardInv, NEW r \in Run,
         ApproveRun(r) \/ OverrideApproveRun(r) \/ RejectRun(r) \/ RetryRun(r)
  PROVE  GuardInv'
<1>1. CASE ApproveRun(r) \/ OverrideApproveRun(r)
  BY <1>1, NoWrite DEF ApproveRun, OverrideApproveRun
<1>2. CASE RejectRun(r)
  <2>1. run' = [run EXCEPT ![r].status = "cancelled"]
    BY <1>2 DEF RejectRun
  <2>2. "cancelled" \notin Active
    BY DEF Active
  <2> QED
    BY <2>1, <2>2, InactiveWrite
<1>3. CASE RetryRun(r)
  <2> DEFINE row == [run[r] EXCEPT !.status = "queued", !.started = "none", !.step = 0,
                                   !.retryAfter = "none"]
  <2>1. run' = [run EXCEPT ![r] = row] /\ IndexAllows(r, run)
    BY <1>3 DEF RetryRun
  <2>2. "status" \in DOMAIN row
    BY DEF GuardInv, Rows
  <2> HIDE DEF row
  <2> QED
    BY <2>1, <2>2, GuardedWrite
<1> QED
  BY <1>1, <1>2, <1>3

\* The steps of a tick that write rows keep the guard.
LEMMA FireKeepsGuard ==
  ASSUME GuardInv, NEW r \in Run, FireSchedule(r)
  PROVE  GuardInv'
<1> DEFINE row == [run[r] EXCEPT !.status = "queued"]
<1>1. run' = [run EXCEPT ![r] = row] /\ IndexAllows(r, run)
  BY DEF FireSchedule
<1>2. "status" \in DOMAIN row
  BY DEF GuardInv, Rows
<1> HIDE DEF row
<1> QED
  BY <1>1, <1>2, GuardedWrite

LEMMA ReapKeepsGuard ==
  ASSUME GuardInv, WriteOrphans
  PROVE  GuardInv'
<1>1. \A r \in Run : run'[r] = IF r \in reaping THEN [run[r] EXCEPT !.status = "failed"] ELSE run[r]
  BY DEF WriteOrphans
<1>2. \A r \in Run : "status" \in DOMAIN run'[r]
                  /\ run'[r].status = IF r \in reaping THEN "failed" ELSE run[r].status
  BY <1>1 DEF GuardInv, Rows
<1>3. run' = [r \in Run |-> run'[r]]
  BY DEF WriteOrphans
<1> QED
  BY <1>2, <1>3 DEF GuardInv, Rows, OneActivePerWorkflow, Active

LEMMA RequeueKeepsGuard ==
  ASSUME GuardInv, RequeueDue
  PROVE  GuardInv'
<1> DEFINE due == {r \in Run : Due(r)}
           rows == [r \in Run |-> IF r \in due THEN Recovered(run[r]) ELSE run[r]]
<1>1. run' = rows /\ \A r \in due : rows[r].status = "queued" => IndexAllows(r, rows)
  BY DEF RequeueDue
<1>2. ASSUME NEW r \in due
      PROVE  /\ "status" \in DOMAIN rows[r]
             /\ rows[r].status = "queued" \/ rows[r].status = "paused"
  BY DEF GuardInv, Rows, Recovered, Due
<1>3. \A r \in Run \ due : rows[r] = run[r]
  OBVIOUS
<1>4. Rows'
  BY <1>1, <1>2, <1>3 DEF GuardInv, Rows
<1>5. ASSUME NEW r \in Run, NEW q \in Run, WorkflowOf[r] = WorkflowOf[q],
             rows[r].status \in Active, rows[q].status \in Active
      PROVE  r = q
  <2>1. CASE r \in due
    BY <1>1, <1>2, <1>5, <2>1 DEF IndexAllows, Active
  <2>2. CASE q \in due
    BY <1>1, <1>2, <1>5, <2>2 DEF IndexAllows, Active
  <2>3. CASE r \notin due /\ q \notin due
    BY <1>3, <1>5, <2>3 DEF GuardInv, OneActivePerWorkflow
  <2> QED
    BY <2>1, <2>2, <2>3
<1> QED
  BY <1>1, <1>4, <1>5 DEF GuardInv, OneActivePerWorkflow

\* Clocks leave the status alone.
LEMMA TimeKeepsGuard ==
  ASSUME GuardInv, NEW r \in Run, CreatedAges(r) \/ StartedAges(r) \/ RetryComesDue(r)
  PROVE  GuardInv'
<1>1. \E f \in {"created", "started", "retryAfter"} : \E v :
        run' = [run EXCEPT ![r] = [run[r] EXCEPT ![f] = v]]
  <2>1. CASE CreatedAges(r)
    BY <2>1 DEF CreatedAges
  <2>2. CASE StartedAges(r)
    BY <2>2 DEF StartedAges
  <2>3. CASE RetryComesDue(r)
    BY <2>3 DEF RetryComesDue
  <2> QED
    BY <2>1, <2>2, <2>3
<1>2. PICK f \in {"created", "started", "retryAfter"} :
        \E v : run' = [run EXCEPT ![r] = [run[r] EXCEPT ![f] = v]]
  BY <1>1
<1>3. PICK v : run' = [run EXCEPT ![r] = [run[r] EXCEPT ![f] = v]]
  BY <1>2
<1> DEFINE row == [run[r] EXCEPT ![f] = v]
<1>4. "status" \in DOMAIN row /\ row.status = run[r].status
  BY DEF GuardInv, Rows
<1>5. run' = [run EXCEPT ![r] = row]
  BY <1>3
<1> HIDE DEF row
<1>6. \A q \in Run : "status" \in DOMAIN run'[q] /\ run'[q].status = run[q].status
  BY <1>4, <1>5 DEF GuardInv, Rows
<1>7. Rows'
  BY <1>5, <1>6 DEF GuardInv, Rows
<1>8. OneActivePerWorkflow'
  BY <1>6 DEF GuardInv, OneActivePerWorkflow
<1> QED
  BY <1>7, <1>8 DEF GuardInv

-----------------------------------------------------------------------------
\* Every step of the specification keeps the guard.
LEMMA GuardStep ==
  ASSUME GuardInv, [Next]_vars
  PROVE  GuardInv'
<1>1. CASE UNCHANGED vars
  BY <1>1, NoWrite DEF vars
<1>2. CASE \E r \in Run : ApproveRun(r) \/ OverrideApproveRun(r) \/ RejectRun(r) \/ RetryRun(r)
  BY <1>2, RouteKeepsGuard
<1>3. CASE \E t \in Slot : TaskStep(t) \/ WorkerDies(t)
  BY <1>3, TaskKeepsGuard
<1>4. CASE \E r \in Run : FireSchedule(r) \/ Dispatch(r)
  BY <1>4, FireKeepsGuard, NoWrite DEF Dispatch
<1>5. CASE SelectOrphans \/ TickDies
  BY <1>5, NoWrite DEF SelectOrphans, TickDies
<1>6. CASE WriteOrphans
  BY <1>6, ReapKeepsGuard
<1>7. CASE RequeueDue
  BY <1>7, RequeueKeepsGuard
<1>8. CASE \E r \in Run : CreatedAges(r) \/ StartedAges(r) \/ RetryComesDue(r)
  BY <1>8, TimeKeepsGuard
<1> QED
  BY <1>1, <1>2, <1>3, <1>4, <1>5, <1>6, <1>7, <1>8 DEF Next

\* A workflow never has two active scheduled runs: every write that leaves a run
\* active passes the unique index, and every other write leaves it inactive.
THEOREM GuardTheorem == Spec => []OneActivePerWorkflow
<1>1. Init => GuardInv
  BY DEF Init, NoRow, GuardInv, Rows, OneActivePerWorkflow, Active
<1>2. GuardInv /\ [Next]_vars => GuardInv'
  BY GuardStep
<1>3. GuardInv => OneActivePerWorkflow
  BY DEF GuardInv
<1> QED
  BY <1>1, <1>2, <1>3, PTL DEF Spec

-----------------------------------------------------------------------------
(* Type correctness. *)

\* A flush of rows writes a row.
LEMMA FlushType ==
  ASSUME NEW row \in RunRow, NEW copy \in RunRow, NEW new \in RunRow
  PROVE  Flush(row, copy, new) \in RunRow
<1> DEFINE written == Flush(row, copy, new)
<1>1. /\ DOMAIN row = {"status", "step", "created", "started", "retryAfter", "policy", "count"}
  BY DEF RunRow
<1>2. /\ written = [f \in DOMAIN row |-> IF new[f] = copy[f] THEN row[f] ELSE new[f]]
  BY DEF Flush
<1>3. /\ written.status \in Status /\ written.step \in Nat
      /\ written.created \in {"recent", "old"} /\ written.started \in {"none", "recent", "old"}
  BY <1>1, <1>2 DEF RunRow
<1>4. /\ written.retryAfter \in {"none", "ahead", "past"}
      /\ written.policy \in {"auto", "manual_token_fix"} /\ written.count \in 0 .. MaxCascade + 1
  BY <1>1, <1>2 DEF RunRow
<1> HIDE DEF written
<1>5. written = [status |-> written.status, step |-> written.step, created |-> written.created,
                 started |-> written.started, retryAfter |-> written.retryAfter,
                 policy |-> written.policy, count |-> written.count]
  BY <1>1, <1>2
<1>6. written \in RunRow
  BY <1>3, <1>4, <1>5 DEF RunRow
<1> QED
  BY <1>6 DEF written

LEMMA CountType == ASSUME NEW n \in 0 .. MaxCascade + 1 PROVE CountUp(n) \in 0 .. MaxCascade + 1
BY DEF CountUp, MaxCascade

LEMMA NoRowType == NoRow \in RunRow
BY DEF NoRow, RunRow, Status, MaxCascade

\* A message in a slot, and the fields of a task a step assigns.
LEMMA MessageType ==
  ASSUME NEW k \in {"execute", "resume", "override"}, NEW r \in Run, NEW n \in 0 .. MaxRetries
  PROVE  [Message(k, r) EXCEPT !.tries = n] \in TaskRow /\ Message(k, r) \in TaskRow
<1>1. Message(k, r) \in TaskRow
  BY NoRowType, RunConstants DEF Message, TaskRow, RunConstants
<1> QED
  BY <1>1 DEF TaskRow

LEMMA PublishType ==
  ASSUME TypeOK, NEW k \in {"execute", "resume", "override"}, NEW r \in Run,
         Publish(k, r) \/ MayPublish(k, r)
  PROVE  task' \in [Slot -> TaskRow \cup {NoTask}]
<1>1. 0 \in 0 .. MaxRetries
  BY RunConstants DEF RunConstants
<1> QED
  BY <1>1, MessageType DEF TypeOK, Publish, MayPublish, InFlight

\* A slot whose control point is not "none" holds a task.
LEMMA TaskHeld ==
  ASSUME TypeOK, NEW t \in Slot, task[t].pc \in {"queued", "loaded", "running"}
  PROVE  /\ task[t] \in TaskRow /\ task[t].run \in Run /\ task[t].copy \in RunRow
         /\ task[t].at \in Nat /\ task[t].tries \in 0 .. MaxRetries
         /\ task[t].kind \in {"execute", "resume", "override"}
         /\ run[task[t].run] \in RunRow
<1>1. task[t] # NoTask
  BY DEF NoTask
<1>2. task[t] \in TaskRow
  BY <1>1 DEF TypeOK
<1> QED
  BY <1>2 DEF TypeOK, TaskRow

LEMMA ShockType == TypeOK /\ Shock => shocks' \in 0 .. MaxShocks
BY RunConstants DEF TypeOK, Shock, RunConstants

\* One row gets a status.
LEMMA StatusType ==
  ASSUME TypeOK, NEW r \in Run, NEW s \in Status
  PROVE  [run EXCEPT ![r].status = s] \in [Run -> RunRow]
<1>1. [run[r] EXCEPT !.status = s] \in RunRow
  BY DEF TypeOK, RunRow
<1> QED
  BY <1>1 DEF TypeOK

LEMMA EndTaskType ==
  ASSUME TypeOK, NEW t \in Slot, End(t)
  PROVE  task' \in [Slot -> TaskRow \cup {NoTask}]
BY DEF TypeOK, End

LEMMA AgainType ==
  ASSUME TypeOK, NEW t \in Slot, task[t].pc \in {"queued", "loaded", "running"},
         NEW n \in 0 .. MaxRetries, Again(t, n)
  PROVE  task' \in [Slot -> TaskRow \cup {NoTask}]
<1>1. [Message(task[t].kind, task[t].run) EXCEPT !.tries = n] \in TaskRow
  BY TaskHeld, MessageType
<1>2. task' = [task EXCEPT ![t] = [Message(task[t].kind, task[t].run) EXCEPT !.tries = n]]
  BY DEF Again
<1> QED
  BY <1>1, <1>2 DEF TypeOK

LEMMA MarkFailedType ==
  ASSUME TypeOK, NEW t \in Slot, task[t].pc \in {"queued", "loaded", "running"}, MarkFailed(t)
  PROVE  run' \in [Run -> RunRow]
<1>1. CASE UNCHANGED run
  BY <1>1 DEF TypeOK
<1>2. CASE run' = [run EXCEPT ![task[t].run].status = "failed"]
  BY <1>2, StatusType, TaskHeld DEF Status
<1> QED
  BY <1>1, <1>2 DEF MarkFailed

LEMMA RaiseType ==
  ASSUME TypeOK, NEW t \in Slot, task[t].pc \in {"queued", "loaded", "running"}, Raise(t)
  PROVE  TypeOK'
<1>1. CASE task[t].tries < MaxRetries
  <2>1. task[t].tries + 1 \in 0 .. MaxRetries
    BY <1>1, TaskHeld, RunConstants DEF RunConstants
  <2> QED
    BY <1>1, <2>1, AgainType DEF Raise, TypeOK
<1>2. CASE ~ task[t].tries < MaxRetries
  BY <1>2, EndTaskType, MarkFailedType DEF Raise, TypeOK
<1> QED
  BY <1>1, <1>2

\* The worker's last commit.
LEMMA FinishType ==
  ASSUME TypeOK, NEW t \in Slot, task[t].pc = "running", NEW new \in RunRow,
         NEW delayed \in BOOLEAN, Finish(t, new, delayed)
  PROVE  TypeOK'
<1> DEFINE row == Flush(run[task[t].run], task[t].copy, [new EXCEPT !.step = task[t].at])
           written == IF delayed THEN Postponed(row) ELSE row
<1>1. [new EXCEPT !.step = task[t].at] \in RunRow
  BY TaskHeld DEF RunRow
<1>2. row \in RunRow
  BY <1>1, FlushType, TaskHeld
<1>3. written \in RunRow
  <2> HIDE DEF row
  <2> QED
    BY <1>2 DEF Postponed, RunRow
<1>4. /\ run' = [run EXCEPT ![task[t].run] = written]
      /\ End(t) /\ UNCHANGED <<reaping, outbox, shocks>>
  BY DEF Finish
<1> HIDE DEF row, written
<1> QED
  BY <1>3, <1>4, EndTaskType, TaskHeld DEF TypeOK

LEMMA TaskType ==
  ASSUME TypeOK, NEW t \in Slot, TaskStep(t) \/ WorkerDies(t)
  PROVE  TypeOK'
<1>1. CASE Load(t)
  <2>1. [task[t] EXCEPT !.pc = "loaded", !.copy = run[task[t].run]] \in TaskRow
    BY <1>1, TaskHeld DEF Load, TaskRow
  <2> QED
    BY <1>1, <2>1 DEF Load, TypeOK
<1>2. CASE LoadRefused(t)
  BY <1>2, RaiseType DEF LoadRefused
<1>3. CASE Start(t)
  <2> DEFINE flushed == Flush(run[task[t].run], task[t].copy, Started(t))
             row == [flushed EXCEPT !.started = IF Stamps(t) THEN "recent" ELSE @]
             taken == [task[t] EXCEPT !.pc = "running", !.copy = row, !.at = row.step,
                                      !.stamped = Stamps(t)]
  <2>1. task[t].pc = "loaded"
    BY <1>3 DEF Start
  <2>2. Started(t) \in RunRow
    <3>1. task[t].copy \in RunRow
      BY <2>1, TaskHeld
    <3>2. ASSUME NEW n \in Nat PROVE [task[t].copy EXCEPT !.status = "running", !.step = n] \in RunRow
      BY <3>1 DEF RunRow, Status
    <3>3. task[t].copy.step \in Nat /\ task[t].copy.step + 1 \in Nat
      BY <3>1 DEF RunRow
    <3> QED
      BY <3>2, <3>3 DEF Started
  <2>3. flushed \in RunRow
    BY <2>1, <2>2, TaskHeld, FlushType
  <2>4. row \in RunRow
    <3> HIDE DEF flushed
    <3> QED
      BY <2>3 DEF RunRow
  <2>5. /\ run' = [run EXCEPT ![task[t].run] = row]
        /\ task' = [task EXCEPT ![t] = taken]
        /\ UNCHANGED <<reaping, outbox, shocks>>
    BY <1>3 DEF Start
  <2>6. taken \in TaskRow
    <3>1. Stamps(t) \in BOOLEAN
      BY DEF Stamps
    <3>2. row.step \in Nat
      <4> HIDE DEF row
      <4> QED
        BY <2>4 DEF RunRow
    <3> HIDE DEF row
    <3> QED
      BY <2>1, <2>4, <3>1, <3>2, TaskHeld DEF TaskRow
  <2> HIDE DEF row, flushed, taken
  <2> QED
    BY <2>1, <2>4, <2>5, <2>6, TaskHeld DEF TypeOK
<1>4. CASE Advance(t)
  <2>1. [task[t] EXCEPT !.at = task[t].at + 1, !.dirty = TRUE, !.copy = run[task[t].run]]
          \in TaskRow
    <3>1. task[t].pc = "running" /\ task[t].at + 1 \in Nat
      BY <1>4, TaskHeld DEF Advance, Runs
    <3> QED
      BY <3>1, TaskHeld DEF TaskRow
  <2>2. task' = [task EXCEPT ![t] = [task[t] EXCEPT !.at = task[t].at + 1, !.dirty = TRUE,
                                                    !.copy = run[task[t].run]]]
    BY <1>4 DEF Advance
  <2> QED
    BY <1>4, <2>1, <2>2 DEF Advance, TypeOK
<1>5. ASSUME NEW s \in Status, task[t].pc = "running",
             Finish(t, [task[t].copy EXCEPT !.status = s], FALSE)
      PROVE  TypeOK'
  <2>1. [task[t].copy EXCEPT !.status = s] \in RunRow
    BY <1>5, TaskHeld DEF RunRow
  <2> QED
    BY <1>5, <2>1, FinishType
<1>6. CASE WaitApproval(t)
  BY <1>5, <1>6 DEF WaitApproval, Runs, Status
<1>7. CASE Complete(t)
  BY <1>5, <1>7 DEF Complete, Status
<1>8. CASE StopAtStep(t)
  BY <1>5, <1>8 DEF StopAtStep, Runs, Status
<1>9. CASE Pause(t)
  <2> DEFINE paused(policy) == [task[t].copy EXCEPT !.status = "paused", !.policy = policy,
                                                    !.count = CountUp(@)]
  <2>1. task[t].pc = "running"
    BY <1>9 DEF Pause, Runs
  <2>2. \A policy \in {"auto", "manual_token_fix"} : paused(policy) \in RunRow
    BY <2>1, TaskHeld, CountType DEF RunRow, Status
  <2>3. \E policy \in {"auto", "manual_token_fix"}, delayed \in BOOLEAN :
          Finish(t, paused(policy), delayed)
    BY <1>9 DEF Pause
  <2> HIDE DEF paused
  <2> QED
    BY <2>1, <2>2, <2>3, FinishType
<1>10. CASE TaskRaises(t)
  BY <1>10, RaiseType DEF TaskRaises
<1>11. CASE SoftTimeout(t)
  BY <1>11, EndTaskType, MarkFailedType DEF SoftTimeout, TypeOK
<1>12. CASE WorkerDies(t)
  <2>1. task' \in [Slot -> TaskRow \cup {NoTask}]
    BY <1>12, EndTaskType, AgainType, TaskHeld DEF WorkerDies
  <2> QED
    BY <1>12, <2>1, ShockType DEF WorkerDies, TypeOK
<1> QED
  BY <1>1, <1>2, <1>3, <1>4, <1>6, <1>7, <1>8, <1>9, <1>10, <1>11, <1>12 DEF TaskStep

\* The routes, the tick and the clocks.
LEMMA RouteType ==
  ASSUME TypeOK, NEW r \in Run,
         ApproveRun(r) \/ OverrideApproveRun(r) \/ RejectRun(r) \/ RetryRun(r)
  PROVE  TypeOK'
<1>1. CASE ApproveRun(r) \/ OverrideApproveRun(r)
  BY <1>1, PublishType, ShockType DEF ApproveRun, OverrideApproveRun, TypeOK
<1>2. CASE RejectRun(r)
  BY <1>2, StatusType, ShockType DEF RejectRun, TypeOK, Status
<1>3. CASE RetryRun(r)
  <2>1. [run[r] EXCEPT !.status = "queued", !.started = "none", !.step = 0,
                       !.retryAfter = "none"] \in RunRow
    BY DEF TypeOK, RunRow, Status
  <2> QED
    BY <1>3, <2>1, PublishType, ShockType DEF RetryRun, TypeOK
<1> QED
  BY <1>1, <1>2, <1>3

LEMMA TickType ==
  ASSUME TypeOK,
         \/ \E r \in Run : FireSchedule(r) \/ Dispatch(r)
         \/ SelectOrphans \/ WriteOrphans \/ RequeueDue \/ TickDies
  PROVE  TypeOK'
<1>1. ASSUME NEW r \in Run, FireSchedule(r) PROVE TypeOK'
  BY <1>1, StatusType, PublishType DEF FireSchedule, TypeOK, Status
<1>2. ASSUME NEW r \in Run, Dispatch(r) PROVE TypeOK'
  BY <1>2, PublishType DEF Dispatch, TypeOK
<1>3. CASE SelectOrphans
  BY <1>3 DEF SelectOrphans, TypeOK
<1>4. CASE WriteOrphans
  <2>1. \A r \in Run : [run[r] EXCEPT !.status = "failed"] \in RunRow
    BY DEF TypeOK, RunRow, Status
  <2> QED
    BY <1>4, <2>1 DEF WriteOrphans, TypeOK
<1>5. CASE RequeueDue
  <2>1. ASSUME NEW r \in Run PROVE Recovered(run[r]) \in RunRow
    <3>1. run[r] \in RunRow /\ CountUp(run[r].count) \in 0 .. MaxCascade + 1
      BY CountType DEF TypeOK, RunRow
    <3> QED
      BY <3>1 DEF Recovered, RunRow, Status
  <2>2. run' \in [Run -> RunRow]
    BY <1>5, <2>1 DEF RequeueDue, TypeOK
  <2>3. outbox' \in SUBSET Run
    BY <1>5 DEF RequeueDue
  <2> QED
    BY <1>5, <2>2, <2>3 DEF RequeueDue, TypeOK
<1>6. CASE TickDies
  BY <1>6, ShockType DEF TickDies, TypeOK
<1> QED
  BY <1>1, <1>2, <1>3, <1>4, <1>5, <1>6

LEMMA TimeType ==
  ASSUME TypeOK, NEW r \in Run, CreatedAges(r) \/ StartedAges(r) \/ RetryComesDue(r)
  PROVE  TypeOK'
<1>1. /\ [run[r] EXCEPT !.created = "old"] \in RunRow
      /\ [run[r] EXCEPT !.started = "old"] \in RunRow
      /\ [run[r] EXCEPT !.retryAfter = "past"] \in RunRow
  BY DEF TypeOK, RunRow
<1> QED
  BY <1>1 DEF CreatedAges, StartedAges, RetryComesDue, TypeOK

\* Rows, messages, worker copies and the tick's variables keep their types, for
\* any number of runs, slots, retries and shocks.
THEOREM TypeTheorem == Spec => []TypeOK
<1>1. Init => TypeOK
  BY NoRowType, RunConstants DEF Init, TypeOK, RunConstants
<1>2. TypeOK /\ [Next]_vars => TypeOK'
  <2>1. TypeOK /\ UNCHANGED vars => TypeOK'
    BY DEF vars, TypeOK
  <2>2. ASSUME TypeOK, Next PROVE TypeOK'
    BY <2>2, RouteType, TaskType, TickType, TimeType DEF Next
  <2> QED
    BY <2>1, <2>2
<1> QED
  BY <1>1, <1>2, PTL DEF Spec
=============================================================================
