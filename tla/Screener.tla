------------------------------ MODULE Screener ------------------------------
(***************************************************************************)
(* The coin screeners: RunExecutor._run_coin_screener, which ranks coins   *)
(* and dispatches one run of a trade pipeline for each that is free, and   *)
(* the runs it dispatches.                                                 *)
(*                                                                         *)
(* The screener inserts a run, sends its message, and goes on; the rows    *)
(* become visible when its own transaction commits, after the last step.   *)
(* A worker may take the message before that, another screener may look    *)
(* for active runs before that, and the transaction may be lost.  The      *)
(* screener's own row and its retries are the subject of RunLifecycle.     *)
(***************************************************************************)
EXTENDS Naturals, Sequences, FiniteSets

CONSTANTS
  Screening,  \* the runs of screener workflows
  Coin,       \* the symbols they rank
  Pipeline,   \* the trade pipelines
  Target,     \* target_workflow_name of each screening
  Excludes,   \* exclude_symbols_from_workflows of each screening
  MaxDispatch,\* max_dispatch of each screening
  MaxOpen,    \* KILL_SWITCH_MAX_OPEN_POSITIONS
  Attempts,   \* deliveries of a message: one, and the retries of execute_run
  MaxFaults   \* bound on lost screener deliveries

ASSUME ScreenerConstants ==
  /\ Target \in [Screening -> Pipeline] /\ Excludes \in [Screening -> SUBSET Pipeline]
  /\ MaxDispatch \in [Screening -> Nat] /\ IsFiniteSet(Coin)
  /\ MaxOpen \in Nat /\ Attempts \in Nat \ {0} /\ MaxFaults \in Nat

VARIABLES
  pc,       \* where each screening's delivery is
  slots,    \* free position slots it counted
  reserved, \* coins it found taken by an excluded pipeline
  todo,     \* candidates still to consider, best first
  sent,     \* coins it has dispatched
  row,      \* the run dispatched for each coin
  message,  \* deliveries its message has left
  recent,   \* whether it was created within exclude_recent_runs_minutes
  reaped,   \* runs the reaper gave up
  held,     \* coins with an OPEN position
  born,     \* dispatched runs that became visible
  earlier,  \* screenings that had committed when this one looked for taken coins
  faults    \* lost deliveries so far

screenerVars == <<pc, slots, reserved, todo, sent, earlier>>
childVars    == <<row, message, recent, reaped, held>>
vars == <<pc, slots, reserved, todo, sent, row, message, recent, reaped, held, born,
          earlier, faults>>

-----------------------------------------------------------------------------
\* inserted: flushed in the screener's open transaction.  waiting stands for
\* waiting_approval, paused and blocked.
RunRow == {"none", "inserted", "queued", "running", "waiting", "ended"}
Committed == {"queued", "running", "waiting", "ended"}

\* Mutant: a paused or blocked run does not reserve its coin.
ActiveUnstopped == {"queued", "running"}
\* active_statuses.
Active == {"queued", "running", "waiting"}

PC == {"ready", "counted", "looping", "leaving", "done"}

Init ==
  /\ pc = [s \in Screening |-> "ready"] /\ slots = [s \in Screening |-> 0]
  /\ reserved = [s \in Screening |-> {}] /\ todo = [s \in Screening |-> << >>]
  /\ sent = [s \in Screening |-> {}] /\ earlier = [s \in Screening |-> {}]
  /\ row = [s \in Screening |-> [y \in Coin |-> "none"]]
  /\ message = [s \in Screening |-> [y \in Coin |-> 0]]
  /\ recent = [s \in Screening |-> [y \in Coin |-> FALSE]]
  /\ reaped = {} /\ held \in SUBSET Coin
  /\ born = [s \in Screening |-> [y \in Coin |-> 0]] /\ faults = 0

-----------------------------------------------------------------------------
(* The screener's step. *)

CountSlots(s) ==
  /\ pc[s] = "ready"
  /\ slots' = [slots EXCEPT ![s] = IF Cardinality(held) < MaxOpen
                                     THEN MaxOpen - Cardinality(held) ELSE 0]
  /\ pc' = [pc EXCEPT ![s] = "counted"]
  /\ UNCHANGED <<reserved, todo, sent, earlier, childVars, born, faults>>

\* The coins of the excluded pipelines' runs it can see.
Taken(s) ==
  {y \in Coin : \E p \in Screening :
     /\ Target[p] \in Excludes[s] /\ row[p][y] \in Committed
     /\ row[p][y] \in Active \/ recent[p][y]}

\* screen_usdt_symbols: no coin twice; nothing when the exchange does not answer.
Rankings == {q \in UNION {[1 .. n -> Coin] : n \in 0 .. Cardinality(Coin)} :
               \A i, j \in DOMAIN q : q[i] = q[j] => i = j}

\* The runs are read, then the exchange is asked for the ranking.
Survey(s) ==
  /\ pc[s] = "counted"
  /\ reserved' = [reserved EXCEPT ![s] = Taken(s)]
  /\ earlier'  = [earlier EXCEPT ![s] = {p \in Screening : pc[p] = "done"}]
  /\ \E q \in Rankings : todo' = [todo EXCEPT ![s] = q]
  /\ pc' = [pc EXCEPT ![s] = "looping"]
  /\ UNCHANGED <<slots, sent, childVars, born, faults>>

Free(s, y) ==
  /\ y \notin reserved[s] /\ y \notin held
  /\ Cardinality(sent[s]) < slots[s] /\ Cardinality(sent[s]) < MaxDispatch[s]

Pass(s) ==
  /\ pc[s] = "looping" /\ todo[s] # << >> /\ ~ Free(s, Head(todo[s]))
  /\ todo' = [todo EXCEPT ![s] = Tail(@)]
  /\ UNCHANGED <<pc, slots, reserved, sent, earlier, childVars, born, faults>>

\* Mutant: run_svc.create commits, so that a worker can read the row at once.
BornAtOnce(s, y) ==
  /\ row'  = [row EXCEPT ![s][y] = "queued"]
  /\ born' = [born EXCEPT ![s][y] = @ + 1]
\* run_svc.create only flushes.
Born(s, y) ==
  /\ row' = [row EXCEPT ![s][y] = "inserted"]
  /\ UNCHANGED born

\* A coin whose message the broker refuses is inserted and not counted.
Dispatch(s) ==
  LET y == Head(todo[s]) IN
  /\ pc[s] = "looping" /\ todo[s] # << >> /\ Free(s, y)
  /\ Born(s, y)
  /\ recent' = [recent EXCEPT ![s][y] = TRUE]
  /\ \/ /\ message' = [message EXCEPT ![s][y] = Attempts]
        /\ sent' = [sent EXCEPT ![s] = @ \cup {y}]
     \/ UNCHANGED <<message, sent>>
  /\ todo' = [todo EXCEPT ![s] = Tail(@)]
  /\ UNCHANGED <<pc, slots, reserved, earlier, reaped, held, faults>>

\* The loop over the candidates ends; the rest of the run follows.
LeaveLoop(s) ==
  /\ pc[s] = "looping" /\ todo[s] = << >>
  /\ pc' = [pc EXCEPT ![s] = "leaving"]
  /\ UNCHANGED <<slots, reserved, todo, sent, earlier, childVars, born, faults>>

\* The delivery's own variables.
Forgotten(s) ==
  /\ slots' = [slots EXCEPT ![s] = 0] /\ reserved' = [reserved EXCEPT ![s] = {}]
  /\ todo' = [todo EXCEPT ![s] = << >>] /\ sent' = [sent EXCEPT ![s] = {}]
  /\ earlier' = [earlier EXCEPT ![s] = {}]

\* get_worker_db_context commits when execute returns.
Commit(s) ==
  /\ pc[s] = "leaving"
  /\ row' = [row EXCEPT ![s] = [y \in Coin |-> IF @[y] = "inserted" THEN "queued" ELSE @[y]]]
  /\ born' = [born EXCEPT ![s] = [y \in Coin |-> IF row[s][y] = "inserted" THEN @[y] + 1
                                                 ELSE @[y]]]
  /\ pc' = [pc EXCEPT ![s] = "done"] /\ Forgotten(s)
  /\ UNCHANGED <<message, recent, reaped, held, faults>>

\* The worker is lost or an exception leaves the task: nothing inserted remains, and
\* the messages sent for it find nothing until their retries are spent.  The
\* screening is delivered again, or given up.
Lose(s) ==
  /\ pc[s] \in {"counted", "looping", "leaving"} /\ faults < MaxFaults
  /\ faults' = faults + 1
  /\ \E next \in {"ready", "done"} : pc' = [pc EXCEPT ![s] = next]
  /\ row' = [row EXCEPT ![s] = [y \in Coin |-> IF @[y] = "inserted" THEN "none" ELSE @[y]]]
  /\ message' = [message EXCEPT ![s] = [y \in Coin |-> IF row[s][y] = "inserted" THEN 0
                                                       ELSE @[y]]]
  /\ recent' = [recent EXCEPT ![s] = [y \in Coin |-> @[y] /\ row[s][y] # "inserted"]]
  /\ Forgotten(s)
  /\ UNCHANGED <<reaped, held, born>>

-----------------------------------------------------------------------------
(* The dispatched runs. *)

\* A worker does not find the row: one retry less, and after the last
\* _mark_run_failed does not find it either.
Miss(s, y) ==
  /\ message[s][y] > 0 /\ row[s][y] = "inserted"
  /\ message' = [message EXCEPT ![s][y] = @ - 1]
  /\ UNCHANGED <<screenerVars, row, recent, reaped, held, born, faults>>

\* execute does not look at the row's status.
StartRun(s, y) ==
  /\ message[s][y] > 0 /\ row[s][y] \in {"queued", "ended"}
  /\ message' = [message EXCEPT ![s][y] = 0] /\ row' = [row EXCEPT ![s][y] = "running"]
  /\ UNCHANGED <<screenerVars, recent, reaped, held, born, faults>>

\* The run completes or fails, or stops for somebody.
EndRun(s, y) ==
  /\ row[s][y] = "running"
  /\ \E status \in {"ended", "waiting"} : row' = [row EXCEPT ![s][y] = status]
  /\ UNCHANGED <<screenerVars, message, recent, reaped, held, born, faults>>

\* People or the recovery worker.
LeaveWait(s, y) ==
  /\ row[s][y] = "waiting"
  /\ \E status \in {"running", "ended"} : row' = [row EXCEPT ![s][y] = status]
  /\ UNCHANGED <<screenerVars, message, recent, reaped, held, born, faults>>

\* reap_orphaned_runs: a run nobody picked up for 900 seconds after its creation.
Reap(s, y) ==
  /\ row[s][y] = "queued"
  /\ row' = [row EXCEPT ![s][y] = "ended"] /\ reaped' = reaped \cup {<<s, y>>}
  /\ UNCHANGED <<screenerVars, message, recent, held, born, faults>>

\* exclude_recent_runs_minutes after its creation.
GrowOld(s, y) ==
  /\ recent[s][y]
  /\ recent' = [recent EXCEPT ![s][y] = FALSE]
  /\ UNCHANGED <<screenerVars, row, message, reaped, held, born, faults>>

\* The pipeline trades (its cap check is a race of PipelineExecution); a position closes.
OpenPosition(s, y) ==
  /\ row[s][y] = "running" /\ y \notin held
  /\ held' = held \cup {y}
  /\ UNCHANGED <<screenerVars, row, message, recent, reaped, born, faults>>

ClosePosition(y) ==
  /\ y \in held
  /\ held' = held \ {y}
  /\ UNCHANGED <<screenerVars, row, message, recent, reaped, born, faults>>

-----------------------------------------------------------------------------
Screen(s) ==
  \/ CountSlots(s) \/ Survey(s) \/ Pass(s) \/ Dispatch(s) \/ LeaveLoop(s) \/ Commit(s)

Child(s, y) ==
  \/ Miss(s, y) \/ StartRun(s, y) \/ EndRun(s, y) \/ LeaveWait(s, y) \/ Reap(s, y)
  \/ GrowOld(s, y) \/ OpenPosition(s, y)

Next ==
  \/ \E s \in Screening : Screen(s) \/ Lose(s)
  \/ \E s \in Screening, y \in Coin : Child(s, y)
  \/ \E y \in Coin : ClosePosition(y)

Spec == Init /\ [][Next]_vars

-----------------------------------------------------------------------------
(* Properties. *)

\* The shape of the rows, the messages and what each screening has read.
TypeOK ==
  /\ pc \in [Screening -> PC] /\ slots \in [Screening -> Nat]
  /\ reserved \in [Screening -> SUBSET Coin] /\ todo \in [Screening -> Seq(Coin)]
  /\ sent \in [Screening -> SUBSET Coin] /\ earlier \in [Screening -> SUBSET Screening]
  /\ row \in [Screening -> [Coin -> RunRow]]
  /\ message \in [Screening -> [Coin -> 0 .. Attempts]]
  /\ recent \in [Screening -> [Coin -> BOOLEAN]] /\ reaped \subseteq Screening \X Coin
  /\ held \subseteq Coin /\ born \in [Screening -> [Coin -> Nat]] /\ faults \in 0 .. MaxFaults

\* However often a screening's delivery is lost and repeated, it leaves one run per
\* coin at most: what a lost delivery inserted and sent is gone with its transaction.
OneRunPerCoin == \A s \in Screening, y \in Coin : born[s][y] <= 1

\* Statuses of a run that is neither over nor unborn.
Alive == Committed \ {"ended"}

\* A screening that looked after another had committed leaves that one's coins alone
\* as long as their runs are alive or recent; only a run the reaper had given up may
\* start late and be missed.
Respects(s, p) ==
  Target[p] \in Excludes[s] =>
    \A y \in sent'[s] \ sent[s] :
      ~ recent[p][y] /\ (row[p][y] \in Alive => <<p, y>> \in reaped)
ExclusionHolds == [][\A s \in Screening : \A p \in earlier[s] : Respects(s, p)]_vars

\* The seeded secondary screener "excludes coins already held, currently active, or
\* recently dispatched by" the primary's pipeline.
SecondaryExcludes ==
  [][\A s, p \in Screening : \A y \in sent'[s] \ sent[s] :
       Target[p] \in Excludes[s] => row[p][y] \notin Alive]_vars

\* No delivery of a message is spent on a run nobody can see yet: the scheduler commits
\* first "so the Celery worker can immediately read the run row".
NoDeliveryTooEarly ==
  [][\A s \in Screening, y \in Coin :
       message'[s][y] < message[s][y] => row'[s][y] # "inserted"]_vars
=============================================================================
