------------------------- MODULE PositionLifecycle -------------------------
(***************************************************************************)
(* How a position that left the exchange leaves the books.  A monitor run   *)
(* takes a snapshot of every tracked row, lets an LLM step comment on it,   *)
(* and only then finalises: by symbol, after asking the exchange again.     *)
(* Runs overlap with each other, with new trades in the same symbol, and    *)
(* with the exchange, which keeps each trade's protection orders resting    *)
(* until they fire or are cancelled.  The trading mode may be switched at   *)
(* any moment, and each read resolves it anew: what a run may close, and    *)
(* whether it has to ask the exchange, goes by the mode it reads.           *)
(*                                                                          *)
(* One symbol, one side: rows of other symbols never meet (every query is   *)
(* by symbol).  Trades are numbered in the order of their rows' created_at; *)
(* they are trades of an exchange account, so simulated rows, which have    *)
(* neither exposure nor orders there, are left out.                         *)
(***************************************************************************)
EXTENDS Naturals, Sequences, FiniteSets

CONSTANTS
  MaxTrades,    \* trades of the symbol (bound)
  Monitor,      \* runs that may finalise
  Snapshots,    \* those of them that take a snapshot; the others read LLM text
  Reported,     \* trades whose exits the exchange's incomes show (bound)
  MaxFaults     \* lost answers, refused requests, dead workers, switches (bound)

ASSUME LifecycleConstants ==
  /\ MaxTrades \in Nat /\ MaxFaults \in Nat
  /\ Snapshots \subseteq Monitor
  /\ Reported \subseteq 1 .. MaxTrades

Trade   == 1 .. MaxTrades
None    == 0                        \* no row
Claimed == 0                        \* a figure an LLM named
RowStatus == {"ABSENT", "OPEN", "NEEDS_ATTENTION", "CLOSED"}
EntryKind == {"closed", "attention", "nothing", "text"}
Entry   == [trade : Trade \cup {None}, kind : EntryKind, figures : SUBSET (Trade \cup {Claimed})]
ProtectionOrder == {"stop", "target"}

\* exchange_mode: local simulation, or one of the order-capable modes.
Mode == {"paper", "exchange"}

\* A run's local state, and what its transaction has flushed for a row.
RunState == [pc : {"idle", "snapshot", "hook", "text", "next",
                   "flag", "confirm", "close", "cleanup"},
             todo : SUBSET Trade, entries : Seq(Entry),
             row : Trade \cup {None}, seen : RowStatus]
RowWrite == [status : RowStatus, figures : SUBSET (Trade \cup {Claimed})]

VARIABLES
  mode,      \* what resolve_trading_mode answers
  status,    \* committed rows of positions
  figures,   \* the exits whose results a closed row and its journal carry
  held,      \* the exchange: "NO", "HELD", "EXITED"
  resting,   \* protection orders on the exchange
  realised,  \* exits the exchange reports since the trade's entry
  run,       \* runs: control point, rows left to look at, entries, chosen row
  buf,       \* their flushed, uncommitted writes
  rowLock,   \* row locks of those writes
  refused,   \* trades one of whose orders the exchange did not cancel
  unasked,   \* live trades a paper-mode run closed without asking the exchange
  faults

rows == <<status, figures>>
exchange == <<held, resting, realised>>
reports == <<refused, unasked>>
vars == <<mode, rows, exchange, run, buf, rowLock, reports, faults>>

IdleRun == [pc |-> "idle", todo |-> {}, entries |-> << >>, row |-> None, seen |-> "ABSENT"]
NoWrite == [status |-> "ABSENT", figures |-> {}]

Init ==
  /\ mode \in Mode
  /\ status = [t \in Trade |-> "ABSENT"]
  /\ figures = [t \in Trade |-> {}]
  /\ held = [t \in Trade |-> "NO"]
  /\ resting = [t \in Trade |-> {}]
  /\ realised = [t \in Trade |-> {}]
  /\ run = [m \in Monitor |-> IdleRun]
  /\ buf = [m \in Monitor |-> [t \in Trade |-> NoWrite]]
  /\ rowLock = [t \in Trade |-> {}]
  /\ refused = {} /\ unasked = {}
  /\ faults = 0

Fault == faults < MaxFaults /\ faults' = faults + 1

-----------------------------------------------------------------------------
(* The exchange, the operator and the order path. *)

\* Settings switch the mode under everything that is running.
SwitchMode ==
  /\ Fault
  /\ mode' \in Mode \ {mode}
  /\ UNCHANGED <<rows, exchange, run, buf, rowLock, reports>>

Live == {t \in Trade : held[t] = "HELD"}
Flat == Live = {}

\* An order-capable mode sends the entry.  It fills before its row is committed,
\* and the duplicate check of the order path looks at OPEN rows only.
Enter(t) ==
  /\ held[t] = "NO" /\ mode = "exchange"
  /\ \A u \in 1 .. t - 1 : status[u] \notin {"ABSENT", "OPEN"}
  /\ held' = [held EXCEPT ![t] = "HELD"]
  /\ resting' = [resting EXCEPT ![t] = {"target"}]
  /\ UNCHANGED <<mode, rows, realised, run, buf, rowLock, reports, faults>>

\* Its row: OPEN with an accepted stop, NEEDS_ATTENTION if the stop failed.
RecordTrade(t) ==
  /\ status[t] = "ABSENT" /\ held[t] # "NO"
  /\ \E s \in {"OPEN", "NEEDS_ATTENTION"} :
       /\ status' = [status EXCEPT ![t] = s]
       /\ resting' = [resting EXCEPT ![t] = IF s = "OPEN" THEN @ \cup {"stop"} ELSE @]
  /\ UNCHANGED <<mode, figures, held, realised, run, buf, rowLock, reports, faults>>

Entered == {t \in Trade : held[t] # "NO"}

\* A protection order fires, one of an earlier trade that was left resting
\* too, or a human closes: the income is reported since each entry.
Exit(t) ==
  /\ held[t] = "HELD"
  /\ held' = [held EXCEPT ![t] = "EXITED"]
  /\ \/ \E u \in Trade : \E o \in resting[u] : resting' = [resting EXCEPT ![u] = @ \ {o}]
     \/ UNCHANGED resting
  /\ realised' = [u \in Trade |-> IF u \in Entered THEN realised[u] \cup ({t} \cap Reported)
                                        ELSE realised[u]]
  /\ UNCHANGED <<mode, rows, run, buf, rowLock, reports, faults>>

\* A human or the exchange removes a resting stop.
StopLost(t) ==
  /\ "stop" \in resting[t]
  /\ resting' = [resting EXCEPT ![t] = @ \ {"stop"}]
  /\ UNCHANGED <<mode, rows, held, realised, run, buf, rowLock, reports, faults>>

-----------------------------------------------------------------------------
(* The snapshot: build_snapshot, one row at a time. *)

Becomes(m, state) == run' = [run EXCEPT ![m] = state]
Goto(m, p) == Becomes(m, [run[m] EXCEPT !.pc = p])

\* In paper mode the snapshot is one stub per row, of which one stands here.
Stub == [trade |-> None, kind |-> "nothing", figures |-> {}]

StartRun(m) ==
  /\ run[m].pc = "idle"
  /\ LET tracked == {t \in Trade : status[t] \in {"OPEN", "NEEDS_ATTENTION"}} IN
       Becomes(m, IF m \notin Snapshots \/ tracked = {} THEN [IdleRun EXCEPT !.pc = "text"]
                  ELSE IF mode = "paper"
                         THEN [IdleRun EXCEPT !.pc = "hook", !.entries = <<Stub>>]
                         ELSE [IdleRun EXCEPT !.pc = "snapshot", !.todo = tracked])
  /\ UNCHANGED <<mode, rows, exchange, buf, rowLock, reports, faults>>

\* _snapshot_one: flatness is the symbol's, the figures are the trade's, and a
\* stop that is neither a regular nor an algo order is missing.
EntryFor(t) ==
  [trade |-> t,
   kind |-> IF Flat THEN "closed"
            ELSE IF "stop" \notin resting[t] THEN "attention" ELSE "nothing",
   figures |-> IF Flat THEN realised[t] ELSE {}]

Listed(m, t, e) ==
  Becomes(m, [run[m] EXCEPT !.todo = @ \ {t},
                            !.entries = Append(@, e),
                            !.pc = IF run[m].todo = {t} THEN "hook" ELSE "snapshot"])

SnapshotOne(m) ==
  /\ run[m].pc = "snapshot"
  /\ \E t \in run[m].todo : Listed(m, t, EntryFor(t))
  /\ UNCHANGED <<mode, rows, exchange, buf, rowLock, reports, faults>>

\* An unreachable exchange is an error entry, which closes and flags nothing;
\* unread algo orders make every stop of an open position look missing; unread
\* incomes leave an estimate from the mark price.
SnapshotFault(m) ==
  /\ run[m].pc = "snapshot"
  /\ Fault
  /\ \E t \in run[m].todo :
       \/ Listed(m, t, [trade |-> t, kind |-> "nothing", figures |-> {}])
       \/ ~ Flat /\ Listed(m, t, [trade |-> t, kind |-> "attention", figures |-> {}])
       \/ Flat /\ Listed(m, t, [trade |-> t, kind |-> "closed", figures |-> {}])
  /\ UNCHANGED <<mode, rows, exchange, buf, rowLock, reports>>

\* When the run has ended, a non-empty snapshot is authoritative if the mode is
\* not paper now; any other run hands its last output to the text path.
Hook(m) ==
  /\ run[m].pc = "hook"
  /\ IF run[m].entries # << >> /\ mode # "paper"
       THEN Goto(m, "next")
       ELSE Becomes(m, [IdleRun EXCEPT !.pc = "text"])
  /\ UNCHANGED <<mode, rows, exchange, buf, rowLock, reports, faults>>

\* detect_close: the LLM's text reports a close, or it does not.
ReadText(m) ==
  /\ run[m].pc = "text"
  /\ \E e \in {<< >>, <<[trade |-> None, kind |-> "text", figures |-> {Claimed}]>>} :
       Becomes(m, [run[m] EXCEPT !.entries = e, !.pc = "next"])
  /\ UNCHANGED <<mode, rows, exchange, buf, rowLock, reports, faults>>

-----------------------------------------------------------------------------
(* Finalisation, one entry at a time. *)

\* A row as the run's transaction sees it.
Seen(m, t) == IF buf[m][t].status = "ABSENT" THEN status[t] ELSE buf[m][t].status

\* Mutant: only OPEN rows, as on the text path.
CandidatesOpen(m) == {t \in Trade : Seen(m, t) = "OPEN"}

\* The rows an entry may be about.
Candidates(m) ==
  LET current == Head(run[m].entries) IN
    {t \in Trade : Seen(m, t) \in IF current.kind = "text" THEN {"OPEN"}
                                  ELSE {"OPEN", "NEEDS_ATTENTION"}}

DropEntry(m) ==
  Becomes(m, [run[m] EXCEPT !.entries = Tail(@), !.pc = "next",
                            !.row = None, !.seen = "ABSENT"])

\* Nothing to do, or no row left.
SkipEntry(m) ==
  /\ run[m].pc = "next" /\ run[m].entries # << >>
  /\ Head(run[m].entries).kind = "nothing" \/ Candidates(m) = {}
  /\ DropEntry(m)
  /\ UNCHANGED <<mode, rows, exchange, buf, rowLock, reports, faults>>

\* _get_open_position: the newest row of the symbol, whichever the entry is about.
SelectRow(m) ==
  /\ run[m].pc = "next" /\ run[m].entries # << >>
  /\ Head(run[m].entries).kind # "nothing"
  /\ \E t \in Candidates(m) :
       /\ \A u \in Candidates(m) : u <= t
       /\ Becomes(m, [run[m] EXCEPT !.row = t, !.seen = Seen(m, t),
                                     !.pc = IF Head(run[m].entries).kind = "attention"
                                              THEN "flag" ELSE "confirm"])
  /\ UNCHANGED <<mode, rows, exchange, buf, rowLock, reports, faults>>

\* Mutant: the exchange is not asked again.
ConfirmTrusting(m) ==
  /\ run[m].pc = "confirm"
  /\ Goto(m, "close")
  /\ UNCHANGED <<mode, rows, exchange, buf, rowLock, reports, faults>>

\* A close the text reports stands in paper mode; any other close waits for
\* _exchange_position_is_flat, where an error is an answer "not flat".
Confirm(m) ==
  /\ run[m].pc = "confirm"
  /\ IF Head(run[m].entries).kind = "text" /\ mode = "paper"
       THEN /\ Goto(m, "close")
            /\ unasked' = unasked \cup ({run[m].row} \cap Live)
            /\ UNCHANGED faults
       ELSE /\ \/ Goto(m, IF Flat THEN "close" ELSE "flag") /\ UNCHANGED faults
               \/ Goto(m, "flag") /\ Fault
            /\ UNCHANGED unasked
  /\ UNCHANGED <<mode, rows, exchange, buf, rowLock, refused>>

Lock(m, t) == rowLock[t] \subseteq {m} /\ rowLock' = [rowLock EXCEPT ![t] = {m}]

\* The attribute is written only if it differs from the loaded one.
Flag(m) ==
  /\ run[m].pc = "flag"
  /\ IF run[m].seen = "NEEDS_ATTENTION"
       THEN UNCHANGED <<buf, rowLock>>
       ELSE /\ Lock(m, run[m].row)
            /\ buf' = [buf EXCEPT ![m][run[m].row].status = "NEEDS_ATTENTION"]
  /\ DropEntry(m)
  /\ UNCHANGED <<mode, rows, exchange, reports, faults>>

\* Mutant: the row's status is the close reason.
CloseMislabelled(m) ==
  /\ run[m].pc = "close"
  /\ Lock(m, run[m].row)
  /\ buf' = [buf EXCEPT ![m][run[m].row] =
               [status |-> "UNKNOWN_EXCHANGE_FLAT", figures |-> Head(run[m].entries).figures]]
  /\ Goto(m, "cleanup")
  /\ UNCHANGED <<mode, rows, exchange, reports, faults>>

\* _finalize_one: the chosen row takes the figures of the entry.
Close(m) ==
  /\ run[m].pc = "close"
  /\ Lock(m, run[m].row)
  /\ buf' = [buf EXCEPT ![m][run[m].row] =
               [status |-> "CLOSED", figures |-> Head(run[m].entries).figures]]
  /\ Goto(m, "cleanup")
  /\ UNCHANGED <<mode, rows, exchange, reports, faults>>

\* Mutants: cancel-all by symbol; regular orders only, while stops and targets
\* are algo orders.
CleanupSymbol(m) ==
  /\ run[m].pc = "cleanup"
  /\ resting' = [t \in Trade |-> {}]
  /\ DropEntry(m)
  /\ UNCHANGED <<mode, rows, held, realised, buf, rowLock, reports, faults>>

CleanupRegularOnly(m) ==
  /\ run[m].pc = "cleanup"
  /\ DropEntry(m)
  /\ UNCHANGED <<mode, rows, exchange, buf, rowLock, reports, faults>>

\* cleanup_orphan_protection_orders on a demo or testnet account: the orders
\* recorded for this row that still rest; a failing request leaves its order.
\* (A row that recorded no order ids is skipped; the trades here recorded theirs.)
Cleanup(m) ==
  /\ run[m].pc = "cleanup"
  /\ LET t == run[m].row IN
       \/ resting' = [resting EXCEPT ![t] = {}] /\ UNCHANGED <<refused, faults>>
       \/ /\ Fault
          /\ \E left \in (SUBSET resting[t]) \ {{}} :
               /\ resting' = [resting EXCEPT ![t] = left]
               /\ refused' = refused \cup {t}
  /\ DropEntry(m)
  /\ UNCHANGED <<mode, rows, held, realised, buf, rowLock, unasked>>

EndTx(m) ==
  /\ Becomes(m, IdleRun)
  /\ buf' = [buf EXCEPT ![m] = [t \in Trade |-> NoWrite]]
  /\ rowLock' = [t \in Trade |-> rowLock[t] \ {m}]

\* The hook commits, then reflects on the closed trades.
CommitRun(m) ==
  /\ run[m].pc = "next" /\ run[m].entries = << >>
  /\ status' = [t \in Trade |-> Seen(m, t)]
  /\ figures' = [t \in Trade |-> IF buf[m][t].status = "CLOSED" THEN buf[m][t].figures
                                                                ELSE figures[t]]
  /\ EndTx(m)
  /\ UNCHANGED <<mode, exchange, reports, faults>>

\* The worker dies or the transaction fails: the exchange keeps what it did.
Crash(m) ==
  /\ run[m].pc # "idle"
  /\ Fault
  /\ EndTx(m)
  /\ UNCHANGED <<mode, rows, exchange, reports>>

-----------------------------------------------------------------------------
Step(m) ==
  \/ StartRun(m) \/ SnapshotOne(m) \/ Hook(m) \/ ReadText(m)
  \/ SkipEntry(m) \/ SelectRow(m) \/ Confirm(m) \/ Flag(m) \/ Close(m)
  \/ Cleanup(m) \/ CommitRun(m)

Next ==
  \/ SwitchMode
  \/ \E t \in Trade : Enter(t) \/ RecordTrade(t) \/ Exit(t) \/ StopLost(t)
  \/ \E m \in Monitor : Step(m) \/ SnapshotFault(m) \/ Crash(m)

Spec == Init /\ [][Next]_vars

\* The schedule starts the next monitor run and its worker moves; order calls
\* commit their row.
Fairness ==
  /\ \A m \in Monitor : WF_vars(Step(m))
  /\ \A t \in Trade : WF_vars(RecordTrade(t))

FairSpec == Spec /\ Fairness

-----------------------------------------------------------------------------
(* Properties. *)

TypeOK ==
  /\ mode \in Mode
  /\ status \in [Trade -> RowStatus]
  /\ figures \in [Trade -> SUBSET (Trade \cup {Claimed})]
  /\ held \in [Trade -> {"NO", "HELD", "EXITED"}]
  /\ resting \in [Trade -> SUBSET ProtectionOrder]
  /\ realised \in [Trade -> SUBSET Trade]
  /\ run \in [Monitor -> RunState]
  /\ buf \in [Monitor -> [Trade -> RowWrite]]
  /\ rowLock \in [Trade -> SUBSET Monitor]
  /\ refused \subseteq Trade /\ unasked \subseteq Trade
  /\ faults \in 0 .. MaxFaults

\* A row is CLOSED only if the exchange no longer holds its trade, although the
\* snapshot that reported the close is older than the row it is applied to and the
\* mode may have been switched since (finalize_from_snapshot re-confirms; "never
\* fabricate").  Excepted are the closes of the text path in paper mode, which the
\* code lets stand although the row may be of an exchange account.
ClosedIsFlat == \A t \in Trade : status[t] = "CLOSED" => held[t] = "EXITED" \/ t \in unasked

\* No run takes the stop of a trade the exchange still holds: clean-up cancels
\* recorded orders of the row it closed, never by symbol.  It goes by the row, not
\* by the mode, so a live trade closed unasked in paper mode loses its stop.
LiveStopKept ==
  [][\A t \in Trade :
       held[t] = "HELD" /\ "stop" \in resting[t] /\ held' = held
         /\ (\E m \in Monitor : run[m].pc = "cleanup" /\ run'[m].pc # "cleanup")
         => "stop" \in resting'[t] \/ t \in unasked]_vars

\* A protection order outlives its row only if the exchange refused to cancel
\* it: regular and algo orders are both reconciled before the close commits.
NoOrphanOrders == \A t \in Trade : status[t] = "CLOSED" => resting[t] = {} \/ t \in refused

\* Once the symbol stays flat, and the mode order-capable, every tracked row of it
\* is closed, flagged rows included, whichever rows the entries were computed for.
\* (A run in paper mode takes no snapshot and its text closes OPEN rows only.)
FlatRowsClose ==
  <>[](Flat /\ mode = "exchange") => <>[](\A t \in Trade : status[t] \in {"ABSENT", "CLOSED"})

\* A close carries no result of a trade that had left before this one entered
\* (position_monitor.py: "never attribute a previous trade's PnL ... to this close").
NoEarlierPnl == \A t, u \in Trade : u \in figures[t] => u \in realised[t]

\* No row is closed while the exchange holds its trade, in any mode
\* (finalize_from_monitor_output: paper "has no exchange, so its simulated close
\* stands").
NeverClosedLive == \A t \in Trade : status[t] = "CLOSED" => held[t] = "EXITED"

\* A position that is already CLOSED is not finalised again
\* (finalize_from_monitor_output: "Idempotent").
FinalisedOnce ==
  [][\A m \in Monitor : run[m].pc = "close" /\ run'[m].pc = "cleanup"
       => status[run[m].row] # "CLOSED"]_vars
=============================================================================
