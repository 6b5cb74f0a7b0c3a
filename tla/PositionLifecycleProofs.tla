----------------------- MODULE PositionLifecycleProofs -----------------------
(***************************************************************************)
(* Proofs about PositionLifecycle, for any number of trades of the symbol, *)
(* any set of overlapping runs and any number of faults and mode switches. *)
(***************************************************************************)
EXTENDS PositionLifecycle, SequenceTheorems, TLAPS

-----------------------------------------------------------------------------
(* Type correctness. *)

LEMMA TypeInit == Init => TypeOK
BY LifecycleConstants, EmptySeq
   DEF Init, TypeOK, LifecycleConstants, Mode, RowStatus, IdleRun, NoWrite, RunState, RowWrite

LEMMA IdleRunType == IdleRun \in RunState
BY EmptySeq DEF IdleRun, RunState, RowStatus

LEMMA FaultType == TypeOK /\ Fault => faults' \in 0 .. MaxFaults
BY LifecycleConstants DEF TypeOK, Fault, LifecycleConstants

LEMMA EntryType == ASSUME TypeOK, NEW t \in Trade PROVE EntryFor(t) \in Entry
BY DEF TypeOK, EntryFor, Entry, EntryKind

\* A run's state is replaced by another state.
LEMMA RunReplaced ==
  ASSUME run \in [Monitor -> RunState], NEW m \in Monitor, NEW s \in RunState,
         run' = [run EXCEPT ![m] = s]
  PROVE  run' \in [Monitor -> RunState]
OBVIOUS

\* What the steps on entries do to a run's state.
LEMMA ListedType ==
  ASSUME TypeOK, NEW m \in Monitor, NEW t \in Trade, NEW e \in Entry, Listed(m, t, e)
  PROVE  run' \in [Monitor -> RunState]
<1> DEFINE s == [run[m] EXCEPT !.todo = @ \ {t}, !.entries = Append(@, e),
                   !.pc = IF run[m].todo = {t} THEN "hook" ELSE "snapshot"]
<1>1. run[m] \in RunState /\ run \in [Monitor -> RunState]
  BY DEF TypeOK
<1>2. Append(run[m].entries, e) \in Seq(Entry)
  BY <1>1, AppendProperties DEF RunState
<1>3. s \in RunState
  BY <1>1, <1>2 DEF RunState
<1>4. run' = [run EXCEPT ![m] = s]
  BY DEF Becomes, Listed
<1> QED
  BY <1>1, <1>3, <1>4, RunReplaced

LEMMA DropEntryType ==
  ASSUME TypeOK, NEW m \in Monitor, run[m].entries # << >>, DropEntry(m)
  PROVE  run' \in [Monitor -> RunState]
<1> DEFINE s == [run[m] EXCEPT !.entries = Tail(@), !.pc = "next",
                               !.row = None, !.seen = "ABSENT"]
<1>1. run[m] \in RunState /\ run \in [Monitor -> RunState]
  BY DEF TypeOK
<1>2. Tail(run[m].entries) \in Seq(Entry)
  BY <1>1, HeadTailProperties DEF RunState
<1>3. s \in RunState
  BY <1>1, <1>2 DEF RunState, RowStatus
<1>4. run' = [run EXCEPT ![m] = s]
  BY DEF Becomes, DropEntry
<1> QED
  BY <1>1, <1>3, <1>4, RunReplaced

LEMMA GotoType ==
  ASSUME TypeOK, NEW m \in Monitor, NEW p \in {"next", "close", "flag", "cleanup"}, Goto(m, p)
  PROVE  run' \in [Monitor -> RunState]
<1> DEFINE s == [run[m] EXCEPT !.pc = p]
<1>1. run[m] \in RunState /\ run \in [Monitor -> RunState]
  BY DEF TypeOK
<1>2. s \in RunState
  BY <1>1 DEF RunState
<1>3. run' = [run EXCEPT ![m] = s]
  BY DEF Becomes, Goto
<1> QED
  BY <1>1, <1>2, <1>3, RunReplaced

LEMMA EndTxType ==
  ASSUME TypeOK, NEW m \in Monitor, EndTx(m)
  PROVE  /\ run' \in [Monitor -> RunState]
         /\ buf' \in [Monitor -> [Trade -> RowWrite]]
         /\ rowLock' \in [Trade -> SUBSET Monitor]
<1>1. NoWrite \in RowWrite
  BY DEF NoWrite, RowWrite, RowStatus
<1> QED
  BY <1>1, IdleRunType DEF EndTx, Becomes, TypeOK

-----------------------------------------------------------------------------
(* The inductive invariant. *)

Holding == {"flag", "confirm", "close", "cleanup"}    \* control points with a chosen row

\* A trade that is off the exchange, or whose row was closed without asking.
Left(t) == held[t] = "EXITED" \/ t \in unasked

\* Every row is of a trade that entered, and every write of such a row.
Known ==
  /\ \A t \in Trade : status[t] # "ABSENT" => held[t] # "NO"
  /\ \A m \in Monitor, t \in Trade : buf[m][t].status # "ABSENT" => status[t] # "ABSENT"

\* A chosen row exists; past the check its trade has left, or was not asked for.
Chosen ==
  \A m \in Monitor :
    run[m].pc \in Holding =>
      /\ run[m].row \in Trade /\ run[m].entries # << >>
      /\ status[run[m].row] # "ABSENT"
      /\ run[m].pc \in {"close", "cleanup"} => Left(run[m].row)

\* A flushed close is of a trade that has left, and its orders are reconciled
\* when the run has moved on.
Flushed ==
  \A m \in Monitor, t \in Trade :
    buf[m][t].status = "CLOSED" =>
      /\ Left(t)
      /\ (run[m].pc = "cleanup" /\ run[m].row = t) \/ resting[t] = {} \/ t \in refused

CloseInv == TypeOK /\ Known /\ Chosen /\ Flushed /\ ClosedIsFlat /\ NoOrphanOrders

LEMMA TypeStep == TypeOK /\ Chosen /\ [Next]_vars => TypeOK'
<1> SUFFICES ASSUME TypeOK, Chosen, [Next]_vars PROVE TypeOK'
  OBVIOUS
<1>1. ASSUME NEW t \in Trade, Enter(t) PROVE TypeOK'
  BY <1>1 DEF Enter, TypeOK, rows, reports, ProtectionOrder
<1>2. ASSUME NEW t \in Trade, RecordTrade(t) PROVE TypeOK'
  BY <1>2 DEF RecordTrade, TypeOK, reports, RowStatus, ProtectionOrder
<1>3. ASSUME NEW t \in Trade, Exit(t) PROVE TypeOK'
  <2>1. resting' \in [Trade -> SUBSET ProtectionOrder]
    BY <1>3 DEF Exit, TypeOK
  <2>2. realised' \in [Trade -> SUBSET Trade]
    BY <1>3 DEF Exit, TypeOK
  <2> QED
    BY <1>3, <2>1, <2>2 DEF Exit, TypeOK, rows, reports
<1>4. ASSUME NEW t \in Trade, StopLost(t) PROVE TypeOK'
  BY <1>4 DEF StopLost, TypeOK, rows, reports
<1>5. ASSUME NEW m \in Monitor, StartRun(m) PROVE TypeOK'
  <2> DEFINE tracked == {t \in Trade : status[t] \in {"OPEN", "NEEDS_ATTENTION"}}
             s == IF m \notin Snapshots \/ tracked = {} THEN [IdleRun EXCEPT !.pc = "text"]
                  ELSE IF mode = "paper"
                         THEN [IdleRun EXCEPT !.pc = "hook", !.entries = <<Stub>>]
                         ELSE [IdleRun EXCEPT !.pc = "snapshot", !.todo = tracked]
  <2>0. <<Stub>> \in Seq(Entry)
    BY DEF Stub, Entry, EntryKind
  <2>1. s \in RunState
    BY <2>0, IdleRunType DEF RunState
  <2>2. run' = [run EXCEPT ![m] = s]
    BY <1>5 DEF StartRun, Becomes
  <2>3. run' \in [Monitor -> RunState]
    BY <2>1, <2>2, RunReplaced DEF TypeOK
  <2> QED
    BY <1>5, <2>3 DEF StartRun, TypeOK, rows, exchange, reports
<1>6. ASSUME NEW m \in Monitor, SnapshotOne(m) PROVE TypeOK'
  <2>1. PICK t \in run[m].todo : Listed(m, t, EntryFor(t))
    BY <1>6 DEF SnapshotOne
  <2>2. t \in Trade
    BY DEF TypeOK, RunState
  <2>3. run' \in [Monitor -> RunState]
    BY <2>1, <2>2, EntryType, ListedType
  <2> QED
    BY <1>6, <2>3 DEF SnapshotOne, TypeOK, rows, exchange, reports
<1>7. ASSUME NEW m \in Monitor, SnapshotFault(m) PROVE TypeOK'
  <2>1. PICK t \in run[m].todo, k \in EntryKind :
          Listed(m, t, [trade |-> t, kind |-> k, figures |-> {}])
    BY <1>7 DEF SnapshotFault, EntryKind
  <2>2. t \in Trade
    BY DEF TypeOK, RunState
  <2>3. [trade |-> t, kind |-> k, figures |-> {}] \in Entry
    BY <2>2 DEF Entry
  <2>4. run' \in [Monitor -> RunState]
    BY <2>1, <2>2, <2>3, ListedType
  <2> QED
    BY <1>7, <2>4, FaultType DEF SnapshotFault, TypeOK, rows, exchange, reports
<1>8. ASSUME NEW m \in Monitor, ReadText(m) PROVE TypeOK'
  <2>1. PICK e \in {<< >>, <<[trade |-> None, kind |-> "text", figures |-> {Claimed}]>>} :
          Becomes(m, [run[m] EXCEPT !.entries = e, !.pc = "next"])
    BY <1>8 DEF ReadText
  <2>2. [trade |-> None, kind |-> "text", figures |-> {Claimed}] \in Entry
    BY DEF Entry, EntryKind
  <2>3. e \in Seq(Entry)
    <3>1. CASE e = << >>
      BY <3>1, EmptySeq
    <3>2. CASE e = <<[trade |-> None, kind |-> "text", figures |-> {Claimed}]>>
      BY <2>2, <3>2
    <3> QED
      BY <3>1, <3>2
  <2>4. run[m] \in RunState
    BY DEF TypeOK
  <2>5. [run[m] EXCEPT !.entries = e, !.pc = "next"] \in RunState
    BY <2>3, <2>4 DEF RunState
  <2>6. run' \in [Monitor -> RunState]
    BY <2>1, <2>5, RunReplaced DEF Becomes, TypeOK
  <2> QED
    BY <1>8, <2>6 DEF ReadText, TypeOK, rows, exchange, reports
<1>9. ASSUME NEW m \in Monitor, SkipEntry(m) PROVE TypeOK'
  BY <1>9, DropEntryType DEF SkipEntry, TypeOK, rows, exchange, reports
<1>10. ASSUME NEW m \in Monitor, SelectRow(m) PROVE TypeOK'
  <2>1. PICK t \in Candidates(m), p \in {"flag", "confirm"} :
          Becomes(m, [run[m] EXCEPT !.row = t, !.seen = Seen(m, t), !.pc = p])
    BY <1>10 DEF SelectRow
  <2>2. t \in Trade /\ Seen(m, t) \in RowStatus
    BY DEF Candidates, Seen, TypeOK, RowWrite
  <2>3. run[m] \in RunState
    BY DEF TypeOK
  <2>4. [run[m] EXCEPT !.row = t, !.seen = Seen(m, t), !.pc = p] \in RunState
    BY <2>2, <2>3 DEF RunState
  <2>5. run' \in [Monitor -> RunState]
    BY <2>1, <2>4, RunReplaced DEF Becomes, TypeOK
  <2> QED
    BY <1>10, <2>5 DEF SelectRow, TypeOK, rows, exchange, reports
<1>11. ASSUME NEW m \in Monitor, Confirm(m) PROVE TypeOK'
  <2>1. PICK p \in {"close", "flag"} : Goto(m, p)
    BY <1>11 DEF Confirm
  <2>2. run' \in [Monitor -> RunState]
    BY <2>1, GotoType
  <2>3. run[m].row \in Trade
    BY <1>11 DEF Confirm, Chosen, Holding
  <2>4. unasked' \subseteq Trade /\ faults' \in 0 .. MaxFaults
    BY <1>11, <2>3, FaultType DEF Confirm, TypeOK
  <2> QED
    BY <1>11, <2>2, <2>4 DEF Confirm, TypeOK, rows, exchange
<1>12. ASSUME NEW m \in Monitor, Flag(m) PROVE TypeOK'
  <2>1. run[m].row \in Trade /\ run[m].entries # << >>
    BY <1>12 DEF Flag, Chosen, Holding
  <2>2. rowLock' \in [Trade -> SUBSET Monitor]
    BY <1>12, <2>1 DEF Flag, Lock, TypeOK
  <2>3. buf' \in [Monitor -> [Trade -> RowWrite]]
    <3> DEFINE w == [buf[m][run[m].row] EXCEPT !.status = "NEEDS_ATTENTION"]
    <3>0. buf[m] \in [Trade -> RowWrite] /\ buf[m][run[m].row] \in RowWrite
      BY <2>1 DEF TypeOK
    <3>1. w \in RowWrite
      BY <3>0 DEF RowWrite, RowStatus
    <3>2. buf' = buf \/ buf' = [buf EXCEPT ![m] = [buf[m] EXCEPT ![run[m].row] = w]]
      BY <1>12 DEF Flag
    <3>3. [buf[m] EXCEPT ![run[m].row] = w] \in [Trade -> RowWrite]
      BY <2>1, <3>0, <3>1
    <3> QED
      BY <3>2, <3>3 DEF TypeOK
  <2>4. run' \in [Monitor -> RunState]
    BY <1>12, <2>1, DropEntryType DEF Flag
  <2> QED
    BY <1>12, <2>2, <2>3, <2>4 DEF Flag, TypeOK, rows, exchange, reports
<1>13. ASSUME NEW m \in Monitor, Close(m) PROVE TypeOK'
  <2>1. run[m].row \in Trade /\ run[m].entries # << >>
    BY <1>13 DEF Close, Chosen, Holding
  <2>2. Head(run[m].entries) \in Entry
    BY <2>1, HeadTailProperties DEF TypeOK, RunState
  <2>3. rowLock' \in [Trade -> SUBSET Monitor]
    BY <1>13, <2>1 DEF Close, Lock, TypeOK
  <2>4. [status |-> "CLOSED", figures |-> Head(run[m].entries).figures] \in RowWrite
    BY <2>2 DEF RowWrite, RowStatus, Entry
  <2>5. buf' \in [Monitor -> [Trade -> RowWrite]]
    BY <1>13, <2>1, <2>4 DEF Close, TypeOK
  <2>6. run' \in [Monitor -> RunState]
    BY <1>13, GotoType DEF Close
  <2> QED
    BY <1>13, <2>3, <2>5, <2>6 DEF Close, TypeOK, rows, exchange, reports
<1>14. ASSUME NEW m \in Monitor, Cleanup(m) PROVE TypeOK'
  <2>1. run[m].row \in Trade /\ run[m].entries # << >>
    BY <1>14 DEF Cleanup, Chosen, Holding
  <2>2. PICK left \in SUBSET resting[run[m].row] :
          resting' = [resting EXCEPT ![run[m].row] = left]
    BY <1>14 DEF Cleanup
  <2>3. resting' \in [Trade -> SUBSET ProtectionOrder]
    BY <2>1, <2>2 DEF TypeOK
  <2>4. refused' \subseteq Trade /\ faults' \in 0 .. MaxFaults
    BY <1>14, <2>1, FaultType DEF Cleanup, TypeOK
  <2>5. run' \in [Monitor -> RunState]
    BY <1>14, <2>1, DropEntryType DEF Cleanup
  <2> QED
    BY <1>14, <2>3, <2>4, <2>5 DEF Cleanup, TypeOK, rows
<1>15. ASSUME NEW m \in Monitor, CommitRun(m) PROVE TypeOK'
  <2>1. status' \in [Trade -> RowStatus]
    BY <1>15 DEF CommitRun, Seen, TypeOK, RowWrite
  <2>2. figures' \in [Trade -> SUBSET (Trade \cup {Claimed})]
    BY <1>15 DEF CommitRun, TypeOK, RowWrite
  <2> QED
    BY <1>15, <2>1, <2>2, EndTxType DEF CommitRun, TypeOK, exchange, reports
<1>16. ASSUME NEW m \in Monitor, Crash(m) PROVE TypeOK'
  BY <1>16, EndTxType, FaultType DEF Crash, TypeOK, rows, exchange, reports
<1>17. ASSUME NEW m \in Monitor, Hook(m) PROVE TypeOK'
  <2>1. CASE Goto(m, "next")
    BY <1>17, <2>1, GotoType DEF Hook, TypeOK, rows, exchange, reports
  <2>2. CASE Becomes(m, [IdleRun EXCEPT !.pc = "text"])
    <3>1. [IdleRun EXCEPT !.pc = "text"] \in RunState
      BY IdleRunType DEF RunState
    <3>2. run' \in [Monitor -> RunState]
      BY <2>2, <3>1, RunReplaced DEF Becomes, TypeOK
    <3> QED
      BY <1>17, <3>2 DEF Hook, TypeOK, rows, exchange, reports
  <2> QED
    BY <1>17, <2>1, <2>2 DEF Hook
<1>18. ASSUME SwitchMode PROVE TypeOK'
  BY <1>18, FaultType DEF SwitchMode, TypeOK, Mode, rows, exchange, reports
<1>19. ASSUME UNCHANGED vars PROVE TypeOK'
  BY <1>19 DEF vars, rows, exchange, reports, TypeOK
<1> QED
  BY <1>1, <1>2, <1>3, <1>4, <1>5, <1>6, <1>7, <1>8, <1>9, <1>10, <1>11, <1>12, <1>13,
     <1>14, <1>15, <1>16, <1>17, <1>18, <1>19 DEF Next, Step

-----------------------------------------------------------------------------
(* The invariant is kept by every step. *)

LEMMA CloseInit == Init => CloseInv
BY TypeInit DEF Init, CloseInv, Known, Chosen, Holding, Flushed, ClosedIsFlat, NoOrphanOrders,
                IdleRun, NoWrite

\* A step of the exchange or the order path.
LEMMA ExchangeStep ==
  ASSUME CloseInv, TypeOK', NEW t \in Trade,
         Enter(t) \/ RecordTrade(t) \/ Exit(t) \/ StopLost(t)
  PROVE  CloseInv'
<1> USE DEF CloseInv
<1>1. UNCHANGED <<run, buf, reports>>
  BY DEF Enter, RecordTrade, Exit, StopLost
<1>2. \A u \in Trade : held[u] # "NO" => held'[u] # "NO"
  BY DEF Enter, RecordTrade, Exit, StopLost, TypeOK
<1>3. \A u \in Trade : held[u] = "EXITED" => held'[u] = "EXITED"
  BY DEF Enter, RecordTrade, Exit, StopLost, TypeOK
<1>4. \A u \in Trade :
        status'[u] = status[u]
          \/ (status[u] = "ABSENT" /\ held'[u] # "NO" /\ status'[u] \notin {"ABSENT", "CLOSED"})
  <2>1. CASE RecordTrade(t)
    BY <2>1 DEF RecordTrade, TypeOK
  <2>2. CASE UNCHANGED status
    BY <2>2
  <2> QED
    BY <2>1, <2>2 DEF Enter, Exit, StopLost, rows
<1>5. \A u \in Trade : status[u] # "ABSENT" => resting'[u] \subseteq resting[u]
  BY DEF Enter, RecordTrade, Exit, StopLost, TypeOK, Known
<1>6. Known'
  BY <1>1, <1>2, <1>4 DEF Known
<1>7. Chosen'
  BY <1>1, <1>3, <1>4 DEF Chosen, Left, reports
<1>8. Flushed'
  BY <1>1, <1>3, <1>5 DEF Flushed, Known, Left, reports
<1>9. ClosedIsFlat' /\ NoOrphanOrders'
  BY <1>1, <1>3, <1>4, <1>5 DEF ClosedIsFlat, NoOrphanOrders, reports
<1> QED
  BY <1>6, <1>7, <1>8, <1>9

\* A run becomes another state and nothing else moves but the faults.
LEMMA LocalStep ==
  ASSUME CloseInv, TypeOK', NEW m \in Monitor, NEW s, run' = [run EXCEPT ![m] = s],
         run[m].pc # "cleanup", s.pc # "cleanup",
         s.pc \in Holding =>
           /\ s.row \in Trade /\ s.entries # << >>
           /\ status[s.row] # "ABSENT"
           /\ s.pc = "close" => held[s.row] = "EXITED" \/ s.row \in unasked',
         unasked \subseteq unasked', UNCHANGED <<rows, exchange, buf, refused>>
  PROVE  CloseInv'
<1> USE DEF CloseInv, rows, exchange
<1>1. \A n \in Monitor : run'[n] = IF n = m THEN s ELSE run[n]
  BY DEF TypeOK
<1>2. Known' /\ ClosedIsFlat' /\ NoOrphanOrders'
  BY DEF Known, ClosedIsFlat, NoOrphanOrders
<1>3. Chosen'
  BY <1>1 DEF Chosen, Holding, Left
<1>4. Flushed'
  BY <1>1 DEF Flushed, Left
<1> QED
  BY <1>2, <1>3, <1>4

\* Dropping the current entry ends the work on its row.
LEMMA DropEntryStep ==
  ASSUME CloseInv, TypeOK', NEW m \in Monitor, DropEntry(m), UNCHANGED <<status, held, unasked>>
  PROVE  Chosen' /\ \A n \in Monitor : n # m => run'[n] = run[n]
<1> USE DEF CloseInv
<1>1. \A n \in Monitor : n # m => run'[n] = run[n]
  BY DEF DropEntry, Becomes, TypeOK
<1>2. run'[m].pc = "next"
  BY DEF DropEntry, Becomes, TypeOK, RunState
<1> QED
  BY <1>1, <1>2 DEF Chosen, Holding, Left

\* A run ends, with or without a commit.
LEMMA EndTxStep ==
  ASSUME CloseInv, NEW m \in Monitor, EndTx(m), UNCHANGED <<held, unasked>>,
         \A t \in Trade : status[t] # "ABSENT" => status'[t] # "ABSENT"
  PROVE  /\ Chosen'
         /\ \A t \in Trade : buf'[m][t].status = "ABSENT"
         /\ \A n \in Monitor : n # m => run'[n] = run[n] /\ buf'[n] = buf[n]
<1> USE DEF CloseInv
<1>1. \A n \in Monitor : n # m => run'[n] = run[n] /\ buf'[n] = buf[n]
  BY DEF EndTx, Becomes, TypeOK
<1>2. run'[m].pc = "idle" /\ \A t \in Trade : buf'[m][t].status = "ABSENT"
  BY DEF EndTx, Becomes, TypeOK, IdleRun, NoWrite
<1> QED
  BY <1>1, <1>2 DEF Chosen, Holding, Left

LEMMA CloseStep == CloseInv /\ [Next]_vars => CloseInv'
<1> SUFFICES ASSUME CloseInv, [Next]_vars PROVE CloseInv'
  OBVIOUS
<1>0. TypeOK'
  BY TypeStep DEF CloseInv
<1>1. ASSUME NEW t \in Trade, Enter(t) \/ RecordTrade(t) \/ Exit(t) \/ StopLost(t)
      PROVE CloseInv'
  BY <1>0, <1>1, ExchangeStep
<1>2. ASSUME NEW m \in Monitor, StartRun(m) PROVE CloseInv'
  <2>1. PICK s : run' = [run EXCEPT ![m] = s] /\ s.pc \in {"snapshot", "hook", "text"}
    <3> DEFINE tracked == {t \in Trade : status[t] \in {"OPEN", "NEEDS_ATTENTION"}}
               s == IF m \notin Snapshots \/ tracked = {} THEN [IdleRun EXCEPT !.pc = "text"]
                    ELSE IF mode = "paper"
                           THEN [IdleRun EXCEPT !.pc = "hook", !.entries = <<Stub>>]
                           ELSE [IdleRun EXCEPT !.pc = "snapshot", !.todo = tracked]
    <3>1. run' = [run EXCEPT ![m] = s]
      BY <1>2 DEF StartRun, Becomes
    <3>2. s.pc \in {"snapshot", "hook", "text"}
      BY DEF IdleRun
    <3> QED
      BY <3>1, <3>2
  <2> QED
    BY <1>0, <1>2, <2>1, LocalStep DEF StartRun, Holding, reports
<1>3. ASSUME NEW m \in Monitor, SnapshotOne(m) \/ SnapshotFault(m) PROVE CloseInv'
  <2>1. PICK t, e : Listed(m, t, e)
    BY <1>3 DEF SnapshotOne, SnapshotFault
  <2>2. PICK s : run' = [run EXCEPT ![m] = s] /\ s.pc \in {"hook", "snapshot"}
    <3> DEFINE s == [run[m] EXCEPT !.todo = @ \ {t}, !.entries = Append(@, e),
                       !.pc = IF run[m].todo = {t} THEN "hook" ELSE "snapshot"]
    <3>1. run' = [run EXCEPT ![m] = s]
      BY <2>1 DEF Listed, Becomes
    <3>2. s.pc \in {"hook", "snapshot"}
      BY DEF CloseInv, TypeOK, RunState
    <3> QED
      BY <3>1, <3>2
  <2> QED
    BY <1>0, <1>3, <2>2, LocalStep DEF SnapshotOne, SnapshotFault, Holding, reports
<1>4. ASSUME NEW m \in Monitor, ReadText(m) PROVE CloseInv'
  <2>1. PICK e : Becomes(m, [run[m] EXCEPT !.entries = e, !.pc = "next"])
    BY <1>4 DEF ReadText
  <2>2. [run[m] EXCEPT !.entries = e, !.pc = "next"].pc = "next"
    BY DEF CloseInv, TypeOK, RunState
  <2> QED
    BY <1>0, <1>4, <2>1, <2>2, LocalStep DEF ReadText, Becomes, Holding, reports
<1>5. ASSUME NEW m \in Monitor, SkipEntry(m) PROVE CloseInv'
  <2>1. Chosen' /\ \A n \in Monitor : n # m => run'[n] = run[n]
    BY <1>0, <1>5, DropEntryStep DEF SkipEntry, rows, exchange, reports
  <2>2. Flushed'
    BY <1>5, <2>1 DEF CloseInv, SkipEntry, Flushed, Left, exchange, reports
  <2> QED
    BY <1>0, <1>5, <2>1, <2>2
       DEF CloseInv, SkipEntry, rows, exchange, reports, Known, ClosedIsFlat, NoOrphanOrders
<1>6. ASSUME NEW m \in Monitor, SelectRow(m) PROVE CloseInv'
  <2>1. PICK t \in Candidates(m), p \in {"flag", "confirm"} :
          Becomes(m, [run[m] EXCEPT !.row = t, !.seen = Seen(m, t), !.pc = p])
    BY <1>6 DEF SelectRow
  <2> DEFINE s == [run[m] EXCEPT !.row = t, !.seen = Seen(m, t), !.pc = p]
  <2>2. t \in Trade /\ status[t] # "ABSENT"
    BY DEF Candidates, Seen, CloseInv, Known, TypeOK, RowWrite, RowStatus
  <2>3. s.pc = p /\ s.row = t /\ s.entries # << >>
    BY <1>6 DEF SelectRow, CloseInv, TypeOK, RunState
  <2> HIDE DEF s
  <2>4. run' = [run EXCEPT ![m] = s]
    BY <2>1 DEF s, Becomes
  <2> QED
    BY <1>0, <1>6, <2>2, <2>3, <2>4, LocalStep DEF SelectRow, reports
<1>7. ASSUME NEW m \in Monitor, Confirm(m) PROVE CloseInv'
  <2>1. run[m].row \in Trade /\ status[run[m].row] # "ABSENT" /\ run[m].entries # << >>
    BY <1>7 DEF CloseInv, Chosen, Confirm, Holding
  <2>2. held[run[m].row] = "EXITED" \/ run[m].row \in Live
    BY <2>1 DEF Live, CloseInv, Known, TypeOK
  <2>3. PICK p \in {"close", "flag"} :
          Goto(m, p) /\ (p = "close" => held[run[m].row] = "EXITED" \/ run[m].row \in unasked')
    <3>1. CASE Head(run[m].entries).kind = "text" /\ mode = "paper"
      BY <1>7, <2>2, <3>1 DEF Confirm
    <3>2. CASE ~ (Head(run[m].entries).kind = "text" /\ mode = "paper")
      BY <1>7, <2>2, <3>2 DEF Confirm, Flat
    <3> QED
      BY <3>1, <3>2
  <2> DEFINE s == [run[m] EXCEPT !.pc = p]
  <2>4. s.pc = p /\ s.row = run[m].row /\ s.entries = run[m].entries
    BY DEF CloseInv, TypeOK, RunState
  <2> HIDE DEF s
  <2>5. run' = [run EXCEPT ![m] = s]
    BY <2>3 DEF s, Becomes, Goto
  <2>6. run[m].pc # "cleanup" /\ unasked \subseteq unasked'
    BY <1>7 DEF Confirm
  <2>7. UNCHANGED <<rows, exchange, buf, refused>>
    BY <1>7 DEF Confirm
  <2>8. s.pc = "close" => held[s.row] = "EXITED" \/ s.row \in unasked'
    BY <2>3, <2>4
  <2> QED
    BY <1>0, <2>1, <2>4, <2>5, <2>6, <2>7, <2>8, LocalStep
<1>8. ASSUME NEW m \in Monitor, Flag(m) PROVE CloseInv'
  <2> DEFINE r == run[m].row
  <2>1. r \in Trade /\ status[r] # "ABSENT"
    BY <1>8 DEF CloseInv, Chosen, Flag, Holding
  <2>2. Chosen' /\ \A n \in Monitor : n # m => run'[n] = run[n]
    BY <1>0, <1>8, DropEntryStep DEF Flag, rows, exchange, reports
  <2>3. \A n \in Monitor, t \in Trade :
          buf'[n][t] = buf[n][t] \/ (t = r /\ buf'[n][t].status = "NEEDS_ATTENTION")
    <3>1. CASE UNCHANGED buf
      BY <3>1
    <3>2. CASE buf' = [buf EXCEPT ![m][r].status = "NEEDS_ATTENTION"]
      BY <2>1, <3>2 DEF CloseInv, TypeOK, RowWrite
    <3> QED
      BY <1>8, <3>1, <3>2 DEF Flag
  <2>4. Known'
    BY <1>8, <2>1, <2>3 DEF CloseInv, Known, Flag, rows, exchange
  <2>5. Flushed'
    BY <1>8, <2>2, <2>3 DEF CloseInv, Flushed, Flag, Left, exchange, reports
  <2> QED
    BY <1>0, <1>8, <2>2, <2>4, <2>5
       DEF CloseInv, Flag, rows, exchange, reports, ClosedIsFlat, NoOrphanOrders
<1>9. ASSUME NEW m \in Monitor, Close(m) PROVE CloseInv'
  <2> DEFINE r == run[m].row
             w == [status |-> "CLOSED", figures |-> Head(run[m].entries).figures]
  <2>1. /\ r \in Trade /\ status[r] # "ABSENT" /\ Left(r)
        /\ run[m].entries # << >>
    BY <1>9 DEF CloseInv, Chosen, Close, Holding
  <2>2. \A n \in Monitor, t \in Trade :
          buf'[n][t] = IF n = m /\ t = r THEN w ELSE buf[n][t]
    BY <1>9, <2>1 DEF Close, CloseInv, TypeOK
  <2>3. /\ run'[m].pc = "cleanup" /\ run'[m].row = r
        /\ run'[m].entries = run[m].entries
        /\ \A n \in Monitor : n # m => run'[n] = run[n]
    BY <1>9 DEF Close, Goto, Becomes, CloseInv, TypeOK, RunState
  <2>4. Known'
    BY <1>9, <2>1, <2>2 DEF CloseInv, Known, Close, rows, exchange
  <2>5. Chosen'
    BY <1>9, <2>1, <2>3 DEF CloseInv, Chosen, Close, rows, exchange, reports, Left, Holding
  <2>6. Flushed'
    BY <1>9, <2>1, <2>2, <2>3 DEF CloseInv, Flushed, Close, Left, exchange, reports
  <2> QED
    BY <1>0, <1>9, <2>4, <2>5, <2>6
       DEF CloseInv, Close, rows, exchange, reports, ClosedIsFlat, NoOrphanOrders
<1>10. ASSUME NEW m \in Monitor, Cleanup(m) PROVE CloseInv'
  <2> DEFINE r == run[m].row
  <2>1. Chosen' /\ \A n \in Monitor : n # m => run'[n] = run[n]
    BY <1>0, <1>10, DropEntryStep DEF Cleanup, rows
  <2>2. r \in Trade
    BY <1>10 DEF CloseInv, Chosen, Cleanup, Holding
  <2>3. /\ refused \subseteq refused'
        /\ resting'[r] = {} \/ r \in refused'
        /\ \A t \in Trade : resting'[t] \subseteq resting[t]
    BY <1>10, <2>2 DEF Cleanup, CloseInv, TypeOK
  <2>4. Flushed'
    BY <1>10, <2>1, <2>3 DEF CloseInv, Flushed, Cleanup, Left
  <2>5. NoOrphanOrders'
    BY <1>10, <2>3 DEF CloseInv, NoOrphanOrders, Cleanup, rows
  <2> QED
    BY <1>0, <1>10, <2>1, <2>4, <2>5 DEF CloseInv, Cleanup, rows, Known, ClosedIsFlat
<1>11. ASSUME NEW m \in Monitor, CommitRun(m) PROVE CloseInv'
  <2>1. \A t \in Trade :
          /\ status[t] # "ABSENT" <=> status'[t] # "ABSENT"
          /\ status'[t] = "CLOSED" => status[t] = "CLOSED" \/ buf[m][t].status = "CLOSED"
    BY <1>11 DEF CloseInv, CommitRun, Seen, TypeOK, Known
  <2>2. /\ Chosen'
        /\ \A t \in Trade : buf'[m][t].status = "ABSENT"
        /\ \A n \in Monitor : n # m => run'[n] = run[n] /\ buf'[n] = buf[n]
    BY <1>11, <2>1, EndTxStep DEF CommitRun, exchange, reports
  <2>3. Known'
    BY <1>11, <2>1, <2>2 DEF CloseInv, Known, CommitRun, exchange
  <2>4. Flushed'
    BY <1>11, <2>2 DEF CloseInv, Flushed, CommitRun, Left, exchange, reports
  <2>5. ClosedIsFlat' /\ NoOrphanOrders'
    BY <1>11, <2>1 DEF CloseInv, Flushed, CommitRun, Left, exchange, reports, ClosedIsFlat,
                       NoOrphanOrders
  <2> QED
    BY <1>0, <2>2, <2>3, <2>4, <2>5 DEF CloseInv
<1>12. ASSUME NEW m \in Monitor, Crash(m) PROVE CloseInv'
  <2>1. /\ Chosen'
        /\ \A t \in Trade : buf'[m][t].status = "ABSENT"
        /\ \A n \in Monitor : n # m => run'[n] = run[n] /\ buf'[n] = buf[n]
    BY <1>12, EndTxStep DEF Crash, rows, exchange, reports
  <2>2. Known'
    BY <1>12, <2>1 DEF CloseInv, Known, Crash, rows, exchange
  <2>3. Flushed'
    BY <1>12, <2>1 DEF CloseInv, Flushed, Crash, Left, exchange, reports
  <2> QED
    BY <1>0, <1>12, <2>1, <2>2, <2>3
       DEF CloseInv, Crash, rows, exchange, reports, ClosedIsFlat, NoOrphanOrders
<1>13. ASSUME NEW m \in Monitor, Hook(m) PROVE CloseInv'
  <2>1. PICK s : run' = [run EXCEPT ![m] = s] /\ s.pc \in {"next", "text"}
    BY <1>13 DEF Hook, Goto, Becomes, IdleRun, CloseInv, TypeOK, RunState
  <2> QED
    BY <1>0, <1>13, <2>1, LocalStep DEF Hook, Holding, reports
<1>14. ASSUME SwitchMode \/ UNCHANGED vars PROVE CloseInv'
  <2>1. UNCHANGED <<rows, exchange, run, buf, reports>>
    BY <1>14 DEF SwitchMode, vars
  <2> QED
    BY <1>0, <2>1 DEF CloseInv, rows, exchange, reports, Known, Chosen, Flushed, Left,
                      ClosedIsFlat, NoOrphanOrders
<1> QED
  BY <1>1, <1>2, <1>3, <1>4, <1>5, <1>6, <1>7, <1>8, <1>9, <1>10, <1>11, <1>12, <1>13, <1>14
     DEF Next, Step

-----------------------------------------------------------------------------
(* The theorems. *)

THEOREM CloseInvTheorem == Spec => []CloseInv
BY CloseInit, CloseStep, PTL DEF Spec

\* Every reachable state is well typed.
THEOREM TypeTheorem == Spec => []TypeOK
BY CloseInvTheorem, PTL DEF CloseInv

\* No row is CLOSED while the exchange holds its trade, however old the snapshot
\* that reported the close and however the mode is switched, unless a run of the
\* text path read paper mode: any other close asks the exchange before the write,
\* and a trade that has left never comes back.
THEOREM ClosedIsFlatTheorem == Spec => []ClosedIsFlat
BY CloseInvTheorem, PTL DEF CloseInv

\* No protection order outlives its row unless the exchange refused to cancel
\* it: the clean-up sits between the flushed close and its commit.
THEOREM NoOrphanOrdersTheorem == Spec => []NoOrphanOrders
BY CloseInvTheorem, PTL DEF CloseInv

\* No run takes the stop of a trade the exchange holds, unless it closed that row
\* unasked in paper mode: the clean-up touches the orders of the row it closes
\* only, and any other row it closes is of a trade that has left.
THEOREM LiveStopKeptTheorem == Spec => LiveStopKept
<1> DEFINE Keeps(t) ==
      held[t] = "HELD" /\ "stop" \in resting[t] /\ held' = held
        /\ (\E m \in Monitor : run[m].pc = "cleanup" /\ run'[m].pc # "cleanup")
        => "stop" \in resting'[t] \/ t \in unasked
<1>1. CloseInv /\ [Next]_vars => \A t \in Trade : Keeps(t)
  <2> SUFFICES ASSUME CloseInv, [Next]_vars, NEW t \in Trade, held[t] = "HELD",
                      "stop" \in resting[t], held' = held, NEW m \in Monitor,
                      run[m].pc = "cleanup", run'[m].pc # "cleanup"
               PROVE "stop" \in resting'[t] \/ t \in unasked
    OBVIOUS
  <2>1. run'[m] # run[m]
    OBVIOUS
  <2>2. ASSUME SwitchMode \/ \E u \in Trade : Enter(u) \/ RecordTrade(u) \/ Exit(u) \/ StopLost(u)
        PROVE FALSE
    BY <2>1, <2>2 DEF SwitchMode, Enter, RecordTrade, Exit, StopLost
  <2>3. ASSUME NEW n \in Monitor, Cleanup(n) PROVE "stop" \in resting'[t] \/ t \in unasked
    <3>1. run[n].row \in Trade /\ Left(run[n].row)
      BY <2>3 DEF Cleanup, CloseInv, Chosen, Holding
    <3> QED
      BY <2>3, <3>1 DEF Cleanup, CloseInv, TypeOK, Left
  <2>4. ASSUME NEW n \in Monitor,
               \/ StartRun(n) \/ SnapshotOne(n) \/ SnapshotFault(n) \/ Hook(n) \/ ReadText(n)
               \/ SkipEntry(n) \/ SelectRow(n) \/ Confirm(n) \/ Flag(n) \/ Close(n)
               \/ CommitRun(n) \/ Crash(n)
        PROVE UNCHANGED resting
    BY <2>4 DEF StartRun, SnapshotOne, SnapshotFault, Hook, ReadText, SkipEntry, SelectRow, Confirm,
                Flag, Close, CommitRun, Crash, exchange
  <2>5. CASE UNCHANGED vars
    BY <2>1, <2>5 DEF vars
  <2> QED
    BY <2>2, <2>3, <2>4, <2>5 DEF Next, Step
<1>2. LiveStopKept <=> [][\A t \in Trade : Keeps(t)]_vars
  BY DEF LiveStopKept
<1> QED
  BY <1>1, <1>2, CloseInvTheorem, PTL DEF Spec

\* No run and no order resolves paper; no run has closed a live trade unasked.
OrderCapable == mode = "exchange"
AllAsked == unasked = {}

\* While the mode is never paper, the exceptions are void: no row is closed while
\* the exchange holds its trade.
THEOREM OrderCapableTheorem == Spec /\ []OrderCapable => []NeverClosedLive
<1>1. Init => AllAsked
  BY DEF Init, AllAsked
<1>2. OrderCapable /\ AllAsked /\ [Next]_vars => AllAsked'
  <2> SUFFICES ASSUME mode = "exchange", unasked = {}, [Next]_vars PROVE unasked' = {}
    BY DEF OrderCapable, AllAsked
  <2>1. ASSUME NEW m \in Monitor, Confirm(m) PROVE unasked' = {}
    BY <2>1 DEF Confirm
  <2>2. ASSUME NEW m \in Monitor, Cleanup(m) PROVE unasked' = {}
    BY <2>2 DEF Cleanup
  <2>3. CASE UNCHANGED reports
    BY <2>3 DEF reports
  <2>4. SwitchMode \/ UNCHANGED vars \/ (\E t \in Trade : Enter(t) \/ RecordTrade(t))
          => UNCHANGED reports
    BY DEF SwitchMode, vars, Enter, RecordTrade
  <2>5. (\E t \in Trade : Exit(t) \/ StopLost(t)) => UNCHANGED reports
    BY DEF Exit, StopLost
  <2>6. ASSUME NEW m \in Monitor,
               \/ StartRun(m) \/ SnapshotOne(m) \/ SnapshotFault(m) \/ Hook(m) \/ ReadText(m)
               \/ SkipEntry(m) \/ SelectRow(m) \/ Flag(m) \/ Close(m)
               \/ CommitRun(m) \/ Crash(m)
        PROVE UNCHANGED reports
    BY <2>6 DEF StartRun, SnapshotOne, SnapshotFault, Hook, ReadText, SkipEntry, SelectRow,
                Flag, Close, CommitRun, Crash
  <2> QED
    BY <2>1, <2>2, <2>3, <2>4, <2>5, <2>6 DEF Next, Step
<1>3. CloseInv /\ AllAsked => NeverClosedLive
  BY DEF AllAsked, CloseInv, ClosedIsFlat, NeverClosedLive
<1> QED
  BY <1>1, <1>2, <1>3, CloseInvTheorem, PTL DEF Spec
=============================================================================
