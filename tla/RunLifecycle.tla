---------------------------- MODULE RunLifecycle ----------------------------
(***************************************************************************)
(* The life of scheduled workflow runs: the routes that approve, override, *)
(* reject and retry a run, the Celery tasks that execute it, and the       *)
(* scheduler loop with its overlap guard, its orphan reaper and its        *)
(* recovery of paused runs.                                                *)
(*                                                                         *)
(* Every writer works on its own loaded copy of the row and flushes the    *)
(* attributes it changed by primary key alone.  A worker commits when it   *)
(* marks the run running and when it ends; in between, from the first step *)
(* it completes, its open transaction holds the run's row.                 *)
(***************************************************************************)
EXTENDS Naturals, Sequences, FiniteSets

CONSTANTS
  Run,          \* rows of runs, all with trigger 'schedule'
  Workflow,
  WorkflowOf,   \* the workflow a run executes
  Kind,         \* the kinds of a workflow's steps: "work" or "approval"
  Slot,         \* bound on Celery messages in flight at once
  MaxRetries,   \* max_retries of a task
  MaxShocks     \* bound on route calls and process deaths, counted together

ASSUME RunConstants ==
  /\ WorkflowOf \in [Run -> Workflow]
  /\ Kind \in Seq({"work", "approval"})
  /\ MaxRetries \in Nat /\ MaxShocks \in Nat

VARIABLES
  run,       \* committed rows of runs
  task,      \* Celery messages and the workers that hold them
  reaping,   \* runs the reaper has selected and not yet written
  outbox,    \* requeued runs the tick has not dispatched yet
  shocks     \* route calls and process deaths so far

vars == <<run, task, reaping, outbox, shocks>>

-----------------------------------------------------------------------------
Status == {"absent", "queued", "running", "waiting_approval", "paused", "blocked",
           "completed", "failed", "cancelled"}
Active == {"queued", "running", "waiting_approval"}

MaxCascade == 3      \* _MAX_CASCADE; every count above it behaves alike
CountUp(n) == IF n > MaxCascade THEN n ELSE n + 1
CascadeEnds(n) == n >= MaxCascade

\* Timestamps are absent or on either side of the deadline that reads them:
\* the reaper's cutoff for created and started, now for retryAfter.
RunRow == [status : Status, step : Nat, created : {"recent", "old"},
           started : {"none", "recent", "old"}, retryAfter : {"none", "ahead", "past"},
           policy : {"auto", "manual_token_fix"}, count : 0 .. MaxCascade + 1]
NoRow == [status |-> "absent", step |-> 0, created |-> "recent", started |-> "none",
          retryAfter |-> "none", policy |-> "auto", count |-> 0]

\* copy is the worker's loaded row and at its step index; stamped says that it
\* set started_at, dirty that its transaction holds the run's row.
TaskRow == [pc : {"queued", "loaded", "running"}, kind : {"execute", "resume", "override"},
            run : Run, tries : 0 .. MaxRetries, copy : RunRow, at : Nat,
            stamped : BOOLEAN, dirty : BOOLEAN]
NoTask == [pc |-> "none"]

InFlight  == {t \in Slot : task[t].pc # "none"}
Working(r) == {t \in InFlight : task[t].pc = "running" /\ task[t].run = r}
RowFree(r) == \A t \in InFlight : task[t].run = r => ~ task[t].dirty
MayWrite(t) == task[t].dirty \/ RowFree(task[t].run)

\* Mutant: the index forgets runs that wait for approval.
IndexForgetsWaiting(r, rows) ==
  \A q \in Run \ {r} :
    WorkflowOf[q] = WorkflowOf[r] => rows[q].status \notin Active \ {"waiting_approval"}

\* The partial unique index, for a write that leaves r active among the rows.
IndexAllows(r, rows) ==
  \A q \in Run \ {r} : WorkflowOf[q] = WorkflowOf[r] => rows[q].status \notin Active

\* A message takes a free slot, or is lost with the dispatch that failed.
Message(kind, r) == [pc |-> "queued", kind |-> kind, run |-> r, tries |-> 0, copy |-> NoRow,
                     at |-> 0, stamped |-> FALSE, dirty |-> FALSE]
Publish(kind, r) ==
  \E t \in Slot \ InFlight : task' = [task EXCEPT ![t] = Message(kind, r)]
MayPublish(kind, r) == Publish(kind, r) \/ UNCHANGED task

\* The attributes that differ from the loaded copy are written, the others keep
\* what the database holds.
Flush(row, copy, new) ==
  [f \in DOMAIN row |-> IF new[f] = copy[f] THEN row[f] ELSE new[f]]

Shock == shocks < MaxShocks /\ shocks' = shocks + 1

-----------------------------------------------------------------------------
(* The routes; none of them looks at the run's status. *)

\* approve dispatches the resume task.
ApproveRun(r) ==
  /\ run[r].status # "absent"
  /\ Shock /\ Publish("resume", r)
  /\ UNCHANGED <<run, reaping, outbox>>

OverrideApproveRun(r) ==
  /\ run[r].status # "absent"
  /\ Shock /\ Publish("override", r)
  /\ UNCHANGED <<run, reaping, outbox>>

RejectRun(r) ==
  /\ run[r].status # "absent" /\ RowFree(r)
  /\ Shock /\ run' = [run EXCEPT ![r].status = "cancelled"]
  /\ UNCHANGED <<task, reaping, outbox>>

\* retry keeps created_at, recovery_count and resume_policy.
RetryRun(r) ==
  /\ run[r].status # "absent"
  /\ RowFree(r) /\ IndexAllows(r, run)
  /\ run' = [run EXCEPT ![r] = [@ EXCEPT !.status = "queued", !.started = "none",
                                         !.step = 0, !.retryAfter = "none"]]
  /\ Shock /\ MayPublish("execute", r)
  /\ UNCHANGED <<reaping, outbox>>

-----------------------------------------------------------------------------
(* The Celery tasks. *)

\* Mutant: a finished task keeps its session, and the row lock, open.
EndKeepsSession(t) == UNCHANGED task

End(t) == task' = [task EXCEPT ![t] = NoTask]

\* The message is queued again; the worker's transaction is rolled back.
Again(t, tries) ==
  task' = [task EXCEPT ![t] = [Message(@.kind, @.run) EXCEPT !.tries = tries]]

\* _mark_run_failed, best effort in a session of its own.
MarkFailed(t) ==
  LET r == task[t].run IN
  \/ UNCHANGED run
  \/ /\ \A u \in InFlight \ {t} : task[u].run = r => ~ task[u].dirty
     /\ run[r].status \in Active
     /\ run' = [run EXCEPT ![r].status = "failed"]

\* An exception leaves the task.
Raise(t) ==
  /\ IF task[t].tries < MaxRetries
       THEN Again(t, task[t].tries + 1) /\ UNCHANGED run
       ELSE End(t) /\ MarkFailed(t)
  /\ UNCHANGED <<reaping, outbox, shocks>>

\* What the task's entry point requires of the run it loads.
Resumable(t) ==
  LET status == run[task[t].run].status IN
  /\ task[t].kind = "resume" => status = "waiting_approval"
  /\ task[t].kind = "override" => status = "blocked"

Load(t) ==
  /\ task[t].pc = "queued" /\ Resumable(t)
  /\ task' = [task EXCEPT ![t] = [@ EXCEPT !.pc = "loaded", !.copy = run[task[t].run]]]
  /\ UNCHANGED <<run, reaping, outbox, shocks>>

LoadRefused(t) ==
  /\ task[t].pc = "queued" /\ ~ Resumable(t)
  /\ Raise(t)

\* What the start of execute writes; resume and override move past the step they
\* found.
Started(t) ==
  LET c == task[t].copy IN
  [c EXCEPT !.status = "running", !.step = IF task[t].kind = "execute" THEN @ ELSE @ + 1]

\* started_at is set when the worker sees none; resume and override have re-read
\* the row by then.
Stamps(t) ==
  (IF task[t].kind = "execute" THEN task[t].copy ELSE run[task[t].run]).started = "none"

Start(t) ==
  LET r == task[t].run
      row == [Flush(run[r], task[t].copy, Started(t))
                EXCEPT !.started = IF Stamps(t) THEN "recent" ELSE @]
  IN
  /\ task[t].pc = "loaded" /\ RowFree(r)
  /\ row.status \in Active => IndexAllows(r, run)
  /\ run' = [run EXCEPT ![r] = row]
  /\ task' = [task EXCEPT ![t] = [@ EXCEPT !.pc = "running", !.copy = row, !.at = row.step,
                                           !.stamped = Stamps(t)]]
  /\ UNCHANGED <<reaping, outbox, shocks>>

Runs(t, kind) ==
  task[t].pc = "running" /\ task[t].at < Len(Kind) /\ Kind[task[t].at + 1] = kind

\* A step completes: the index is flushed, not committed.
Advance(t) ==
  /\ Runs(t, "work") /\ MayWrite(t)
  /\ task' = [task EXCEPT ![t] = [task[t] EXCEPT !.at = @ + 1, !.dirty = TRUE,
                                                 !.copy = run[task[t].run]]]
  /\ UNCHANGED <<run, reaping, outbox, shocks>>

\* A pause with a delay sets retry_after_at.
Postponed(row) == [row EXCEPT !.retryAfter = "ahead"]

\* The worker's last commit.
Finish(t, new, delayed) ==
  LET r == task[t].run
      row == Flush(run[r], task[t].copy, [new EXCEPT !.step = task[t].at])
  IN
  /\ MayWrite(t)
  /\ row.status \in Active => IndexAllows(r, run)
  /\ run' = [run EXCEPT ![r] = IF delayed THEN Postponed(row) ELSE row]
  /\ End(t)
  /\ UNCHANGED <<reaping, outbox, shocks>>

WaitApproval(t) ==
  /\ Runs(t, "approval")
  /\ Finish(t, [task[t].copy EXCEPT !.status = "waiting_approval"], FALSE)

Complete(t) ==
  /\ task[t].pc = "running" /\ task[t].at >= Len(Kind)
  /\ Finish(t, [task[t].copy EXCEPT !.status = "completed"], FALSE)

\* A step fails for good, or a gate behind it blocks the run.
StopAtStep(t) ==
  /\ Runs(t, "work")
  /\ \E s \in {"failed", "blocked"} : Finish(t, [task[t].copy EXCEPT !.status = s], FALSE)

\* A recoverable LLM error.  Some rules of the classifier have no delay.
Pause(t) ==
  LET paused(policy) == [task[t].copy EXCEPT !.status = "paused", !.policy = policy,
                                             !.count = CountUp(@)]
  IN
  /\ Runs(t, "work")
  /\ \/ \E delayed \in BOOLEAN : Finish(t, paused("auto"), delayed)
     \/ Finish(t, paused("manual_token_fix"), FALSE)

\* A flush hits the unique index, or anything outside the step handlers raises.
TaskRaises(t) == task[t].pc \in {"loaded", "running"} /\ Raise(t)

SoftTimeout(t) ==
  /\ task[t].pc = "running"
  /\ End(t) /\ MarkFailed(t)
  /\ UNCHANGED <<reaping, outbox, shocks>>

\* The hard limit kills the worker and the message is acknowledged; a lost
\* worker's message is delivered again.
WorkerDies(t) ==
  /\ task[t].pc \in {"loaded", "running"}
  /\ Shock /\ (End(t) \/ Again(t, task[t].tries))
  /\ UNCHANGED <<run, reaping, outbox>>

TaskStep(t) ==
  \/ Load(t) \/ LoadRefused(t) \/ Start(t) \/ Advance(t) \/ WaitApproval(t) \/ Complete(t)
  \/ StopAtStep(t) \/ Pause(t) \/ TaskRaises(t) \/ SoftTimeout(t)

-----------------------------------------------------------------------------
(* The scheduler loop: one process, one step of a tick at a time. *)

TickIdle == reaping = {} /\ outbox = {}

\* The overlap guard and the insert, under the workflow's advisory lock.
FireSchedule(r) ==
  /\ TickIdle /\ run[r].status = "absent" /\ IndexAllows(r, run)
  /\ run' = [run EXCEPT ![r].status = "queued"]
  /\ MayPublish("execute", r)
  /\ UNCHANGED <<reaping, outbox, shocks>>

\* Mutant: the reaper looks at running runs only.
OrphanedRunning(r) == run[r].status = "running" /\ run[r].started = "old"

Orphaned(r) ==
  /\ run[r].status \in {"queued", "running"}
  /\ \/ run[r].started = "old"
     \/ run[r].started = "none" /\ run[r].created = "old"

SelectOrphans ==
  /\ TickIdle
  /\ reaping' = {r \in Run : Orphaned(r)}
  /\ reaping' # {}
  /\ UNCHANGED <<run, task, outbox, shocks>>

\* The flush waits for the row locks; it does not look at the status again.
WriteOrphans ==
  /\ reaping # {} /\ \A r \in reaping : RowFree(r)
  /\ run' = [r \in Run |-> IF r \in reaping THEN [run[r] EXCEPT !.status = "failed"] ELSE run[r]]
  /\ reaping' = {}
  /\ UNCHANGED <<task, outbox, shocks>>

Due(r) == run[r].status = "paused" /\ run[r].policy = "auto" /\ run[r].retryAfter = "past"

\* Mutant: the exhausted run gets a policy that nothing knows.
RecoveredMisspelt(row) ==
  IF CascadeEnds(row.count + 1)
    THEN [row EXCEPT !.count = CountUp(@), !.policy = "manual"]
    ELSE [row EXCEPT !.count = CountUp(@), !.status = "queued", !.retryAfter = "none"]

\* One cascade step: the count goes up, and the run is queued or handed to a human.
Recovered(row) ==
  IF CascadeEnds(row.count + 1)
    THEN [row EXCEPT !.count = CountUp(@), !.policy = "manual_token_fix"]
    ELSE [row EXCEPT !.count = CountUp(@), !.status = "queued", !.retryAfter = "none"]

\* All due runs in one flush, which the unique index refuses as a whole.
RequeueDue ==
  LET due == {r \in Run : Due(r)}
      rows == [r \in Run |-> IF r \in due THEN Recovered(run[r]) ELSE run[r]]
  IN
  /\ TickIdle /\ due # {}
  /\ \A r \in due : RowFree(r)
  /\ \A r \in due : rows[r].status = "queued" => IndexAllows(r, rows)
  /\ run' = rows
  /\ outbox' = {r \in due : rows[r].status = "queued"}
  /\ UNCHANGED <<task, reaping, shocks>>

Dispatch(r) ==
  /\ r \in outbox
  /\ outbox' = outbox \ {r}
  /\ MayPublish("execute", r)
  /\ UNCHANGED <<run, reaping, shocks>>

\* The process dies, or the loop's handler ends the tick.
TickDies ==
  /\ ~ TickIdle
  /\ Shock /\ reaping' = {} /\ outbox' = {}
  /\ UNCHANGED <<run, task>>

-----------------------------------------------------------------------------
(* Time.  A timestamp ages only in the states whose reader looks at it: ageing  *)
(* earlier could be told from ageing then by nothing.                           *)

CreatedAges(r) ==
  /\ run[r].status \in {"queued", "running"} /\ run[r].started = "none"
  /\ run[r].created = "recent"
  /\ run' = [run EXCEPT ![r].created = "old"]
  /\ UNCHANGED <<task, reaping, outbox, shocks>>

\* A worker is killed at 600 s, before the started_at it set is 900 s old.
StartedAges(r) ==
  /\ run[r].status \in {"queued", "running"} /\ run[r].started = "recent"
  /\ \A t \in Working(r) : ~ task[t].stamped
  /\ run' = [run EXCEPT ![r].started = "old"]
  /\ UNCHANGED <<task, reaping, outbox, shocks>>

RetryComesDue(r) ==
  /\ run[r].status = "paused" /\ run[r].retryAfter = "ahead"
  /\ run' = [run EXCEPT ![r].retryAfter = "past"]
  /\ UNCHANGED <<task, reaping, outbox, shocks>>

Init ==
  /\ run = [r \in Run |-> NoRow]
  /\ task = [t \in Slot |-> NoTask]
  /\ reaping = {} /\ outbox = {} /\ shocks = 0

Next ==
  \/ \E r \in Run : ApproveRun(r) \/ OverrideApproveRun(r) \/ RejectRun(r) \/ RetryRun(r)
  \/ \E t \in Slot : TaskStep(t) \/ WorkerDies(t)
  \/ \E r \in Run : FireSchedule(r) \/ Dispatch(r)
  \/ SelectOrphans \/ WriteOrphans \/ RequeueDue \/ TickDies
  \/ \E r \in Run : CreatedAges(r) \/ StartedAges(r) \/ RetryComesDue(r)

Spec == Init /\ [][Next]_vars

-----------------------------------------------------------------------------
(* Properties. *)

\* Every row, message, worker copy and tick variable has its type.
TypeOK ==
  /\ run \in [Run -> RunRow]
  /\ task \in [Slot -> TaskRow \cup {NoTask}]
  /\ reaping \in SUBSET Run /\ outbox \in SUBSET Run
  /\ shocks \in 0 .. MaxShocks

\* At most one scheduled run of a workflow is active, whatever stale workers,
\* retries, recoveries and ticks write in between.
OneActivePerWorkflow ==
  \A r, q \in Run :
    /\ WorkflowOf[r] = WorkflowOf[q]
    /\ run[r].status \in Active /\ run[q].status \in Active
    => r = q

\* The reaper selects no run that a worker is executing
\* (recovery_worker.py:92-94).
ReaperSparesLive ==
  [][\A r \in reaping' \ reaping : Working(r) = {}]_vars

-----------------------------------------------------------------------------
(* Liveness.  Workers make progress or run into their time limit, clocks      *)
(* advance, the scheduler loop keeps ticking and Celery keeps delivering.     *)
Fairness ==
  /\ \A t \in Slot : WF_vars(TaskStep(t))
  /\ \A r \in Run : WF_vars(StartedAges(r)) /\ WF_vars(CreatedAges(r))
                  /\ WF_vars(RetryComesDue(r)) /\ WF_vars(Dispatch(r))
  /\ WF_vars(SelectOrphans) /\ WF_vars(WriteOrphans) /\ WF_vars(RequeueDue)

FairSpec == Spec /\ Fairness

\* No run stays queued or running for ever, so the overlap guard of its workflow
\* is released whatever was lost: the dispatch, the worker or the tick.
ActiveRunsSettle ==
  \A r \in Run : run[r].status \in {"queued", "running"}
              ~> run[r].status \notin {"queued", "running"}

\* The reaper's write gets past the rows that workers hold.
TickEnds == reaping # {} ~> reaping = {}

\* Paused runs whose retry_after_at has elapsed and whose resume_policy is auto
\* are requeued (recovery_worker.py:3-4), or given up.
DueRunsAreRecovered == \A r \in Run : Due(r) ~> ~ Due(r)
=============================================================================
