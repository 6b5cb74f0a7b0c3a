--------------------------- MODULE ScreenerProofs ---------------------------
(***************************************************************************)
(* Theorems about the screeners, for any screenings, coins, pipelines and  *)
(* exclusions between them.                                                *)
(***************************************************************************)
EXTENDS Screener, FiniteSetTheorems, TLAPS

(* The inductive invariant. *)

\* A screening's runs are unborn until it commits, and it commits once.
Once == \A s \in Screening, y \in Coin :
  /\ born[s][y] <= 1
  /\ pc[s] # "done" => born[s][y] = 0 /\ row[s][y] \in {"none", "inserted"}
  /\ pc[s] = "done" => row[s][y] # "inserted"
  /\ row[s][y] = "none" => ~ recent[s][y]

\* A message outlives its run only when the reaper was first.
Late == \A s \in Screening, y \in Coin :
  /\ row[s][y] \in {"running", "waiting"} => message[s][y] = 0
  /\ row[s][y] = "ended" /\ message[s][y] > 0 => <<s, y>> \in reaped

\* What a screening found of one that had committed stays true.
Spared(s, p) == \A y \in Coin :
  y \notin reserved[s] => ~ recent[p][y] /\ (row[p][y] \in Alive => <<p, y>> \in reaped)
Looked == \A s \in Screening : \A p \in earlier[s] :
  pc[p] = "done" /\ (Target[p] \in Excludes[s] => Spared(s, p))

IInv == TypeOK /\ Once /\ Late /\ Looked

-----------------------------------------------------------------------------
(* Types. *)

LEMMA FreeSlots ==
  ASSUME NEW h \in SUBSET Coin
  PROVE  (IF Cardinality(h) < MaxOpen THEN MaxOpen - Cardinality(h) ELSE 0) \in Nat
<1>1. Cardinality(h) \in Nat
  BY FS_Subset, FS_CardinalityType, ScreenerConstants DEF ScreenerConstants
<1> QED
  BY <1>1, ScreenerConstants DEF ScreenerConstants

LEMMA RankingType == Rankings \subseteq Seq(Coin)
<1>1. Cardinality(Coin) \in Nat
  BY FS_CardinalityType, ScreenerConstants DEF ScreenerConstants
<1>2. ASSUME NEW q \in Rankings PROVE q \in Seq(Coin)
  <2>1. PICK n \in 0 .. Cardinality(Coin) : q \in [1 .. n -> Coin]
    BY DEF Rankings
  <2>2. n \in Nat
    BY <1>1
  <2> QED
    BY <2>1, <2>2
<1> QED
  BY <1>2

LEMMA CellType ==
  ASSUME NEW S, NEW f \in [Screening -> [Coin -> S]], NEW s \in Screening, NEW y \in Coin,
         NEW v \in S
  PROVE  [f EXCEPT ![s][y] = v] \in [Screening -> [Coin -> S]]
<1>1. [f EXCEPT ![s][y] = v] = [f EXCEPT ![s] = [f[s] EXCEPT ![y] = v]]
  OBVIOUS
<1>2. [f[s] EXCEPT ![y] = v] \in [Coin -> S]
  OBVIOUS
<1> QED
  BY <1>1, <1>2

\* An update of one cell leaves the others alone.
LEMMA CellValue ==
  ASSUME NEW S, NEW f \in [Screening -> [Coin -> S]], NEW s \in Screening, NEW y \in Coin,
         NEW v
  PROVE  /\ [f EXCEPT ![s][y] = v][s][y] = v
         /\ \A t \in Screening, z \in Coin :
              t # s \/ z # y => [f EXCEPT ![s][y] = v][t][z] = f[t][z]
<1>1. [f EXCEPT ![s][y] = v] = [f EXCEPT ![s] = [f[s] EXCEPT ![y] = v]]
  OBVIOUS
<1>2. [f EXCEPT ![s] = [f[s] EXCEPT ![y] = v]][s] = [f[s] EXCEPT ![y] = v]
  OBVIOUS
<1>3. \A t \in Screening : t # s => [f EXCEPT ![s] = [f[s] EXCEPT ![y] = v]][t] = f[t]
  OBVIOUS
<1>4. /\ [f[s] EXCEPT ![y] = v][y] = v
      /\ \A z \in Coin : z # y => [f[s] EXCEPT ![y] = v][z] = f[s][z]
  OBVIOUS
<1> QED
  BY <1>1, <1>2, <1>3, <1>4

LEMMA TypeStep == ASSUME TypeOK, [Next]_vars PROVE TypeOK'
<1> USE DEF TypeOK
<1>1. ASSUME NEW s \in Screening, CountSlots(s) PROVE TypeOK'
  <2>1. (IF Cardinality(held) < MaxOpen THEN MaxOpen - Cardinality(held) ELSE 0) \in Nat
    BY FreeSlots
  <2>2. slots' \in [Screening -> Nat]
    BY <1>1, <2>1 DEF CountSlots
  <2> QED
    BY <1>1, <2>2 DEF CountSlots, childVars, PC
<1>2. ASSUME NEW s \in Screening, Survey(s) PROVE TypeOK'
  <2>1. todo' \in [Screening -> Seq(Coin)]
    BY <1>2, RankingType DEF Survey
  <2>2. reserved' \in [Screening -> SUBSET Coin] /\ earlier' \in [Screening -> SUBSET Screening]
    BY <1>2 DEF Survey, Taken
  <2> QED
    BY <1>2, <2>1, <2>2 DEF Survey, childVars, PC
<1>3. ASSUME NEW s \in Screening, Pass(s) PROVE TypeOK'
  <2>1. todo[s] \in Seq(Coin) /\ todo[s] # << >> /\ Tail(todo[s]) \in Seq(Coin)
    BY <1>3 DEF Pass
  <2> QED
    BY <1>3, <2>1 DEF Pass, childVars
<1>4. ASSUME NEW s \in Screening, Dispatch(s) PROVE TypeOK'
  <2>1. todo[s] \in Seq(Coin) /\ todo[s] # << >> /\ Tail(todo[s]) \in Seq(Coin)
        /\ Head(todo[s]) \in Coin
    BY <1>4 DEF Dispatch
  <2>2. todo' \in [Screening -> Seq(Coin)]
    BY <1>4, <2>1 DEF Dispatch
  <2>3. row' \in [Screening -> [Coin -> RunRow]] /\ born' = born
    BY <1>4 DEF Dispatch, Born, RunRow
  <2>4. recent' \in [Screening -> [Coin -> BOOLEAN]]
    BY <1>4, <2>1 DEF Dispatch
  <2>5. message' \in [Screening -> [Coin -> 0 .. Attempts]] /\ sent' \in [Screening -> SUBSET Coin]
    <3>1. Attempts \in 0 .. Attempts
      BY ScreenerConstants DEF ScreenerConstants
    <3> DEFINE range == 0 .. Attempts
    <3>2. \/ message' = [message EXCEPT ![s][Head(todo[s])] = Attempts]
             /\ sent' = [sent EXCEPT ![s] = sent[s] \cup {Head(todo[s])}]
          \/ message' = message /\ sent' = sent
      BY <1>4 DEF Dispatch
    <3>3. message' \in [Screening -> [Coin -> 0 .. Attempts]]
      <4>1. message \in [Screening -> [Coin -> range]] /\ Attempts \in range
        BY <3>1
      <4> HIDE DEF range
      <4>2. [message EXCEPT ![s][Head(todo[s])] = Attempts] \in [Screening -> [Coin -> range]]
        BY <2>1, <4>1, CellType
      <4>3. message' \in [Screening -> [Coin -> range]]
        BY <3>2, <4>1, <4>2
      <4> QED
        BY <4>3 DEF range
    <3>4. sent' \in [Screening -> SUBSET Coin]
      <4>1. sent[s] \cup {Head(todo[s])} \in SUBSET Coin
        BY <2>1
      <4> QED
        BY <3>2, <4>1
    <3> QED
      BY <3>3, <3>4
  <2> QED
    BY <1>4, <2>2, <2>3, <2>4, <2>5 DEF Dispatch
<1>5. ASSUME NEW s \in Screening, LeaveLoop(s) PROVE TypeOK'
  BY <1>5 DEF LeaveLoop, childVars, PC
<1>6. ASSUME NEW s \in Screening, Forgotten(s)
      PROVE  /\ slots' \in [Screening -> Nat] /\ reserved' \in [Screening -> SUBSET Coin]
             /\ todo' \in [Screening -> Seq(Coin)] /\ sent' \in [Screening -> SUBSET Coin]
             /\ earlier' \in [Screening -> SUBSET Screening]
  BY <1>6 DEF Forgotten
<1>7. ASSUME NEW s \in Screening, Commit(s) PROVE TypeOK'
  <2>1. row' \in [Screening -> [Coin -> RunRow]]
    BY <1>7 DEF Commit, RunRow
  <2>2. born' \in [Screening -> [Coin -> Nat]]
    BY <1>7 DEF Commit
  <2> QED
    BY <1>6, <1>7, <2>1, <2>2 DEF Commit, PC
<1>8. ASSUME NEW s \in Screening, Lose(s) PROVE TypeOK'
  <2>1. row' \in [Screening -> [Coin -> RunRow]]
    BY <1>8 DEF Lose, RunRow
  <2>2. message' \in [Screening -> [Coin -> 0 .. Attempts]]
    BY <1>8, ScreenerConstants DEF Lose, ScreenerConstants
  <2>3. recent' \in [Screening -> [Coin -> BOOLEAN]]
    <3> DEFINE kept == [y \in Coin |-> recent[s][y] /\ row[s][y] # "inserted"]
    <3>1. kept \in [Coin -> BOOLEAN]
      OBVIOUS
    <3>2. recent' = [recent EXCEPT ![s] = kept]
      BY <1>8 DEF Lose
    <3> HIDE DEF kept
    <3> QED
      BY <3>1, <3>2
  <2>4. faults' \in 0 .. MaxFaults
    BY <1>8, ScreenerConstants DEF Lose, ScreenerConstants
  <2>5. pc' \in [Screening -> PC]
    BY <1>8 DEF Lose, PC
  <2>6. Forgotten(s) /\ UNCHANGED <<reaped, held, born>>
    BY <1>8 DEF Lose
  <2> QED
    BY <1>6, <2>1, <2>2, <2>3, <2>4, <2>5, <2>6
<1>9. ASSUME NEW s \in Screening, NEW y \in Coin, Child(s, y) PROVE TypeOK'
  <2> USE DEF screenerVars
  <2>1. CASE Miss(s, y)
    <3> DEFINE range == 0 .. Attempts
    <3>1. message[s][y] - 1 \in range /\ message \in [Screening -> [Coin -> range]]
      BY <2>1, ScreenerConstants DEF Miss, ScreenerConstants
    <3> HIDE DEF range
    <3>2. [message EXCEPT ![s][y] = message[s][y] - 1] \in [Screening -> [Coin -> range]]
      BY <3>1, CellType
    <3>3. message' \in [Screening -> [Coin -> 0 .. Attempts]]
      BY <2>1, <3>2 DEF Miss, range
    <3> QED
      BY <2>1, <3>3 DEF Miss
  <2>2. CASE StartRun(s, y)
    BY <2>2, ScreenerConstants DEF StartRun, RunRow, ScreenerConstants
  <2>3. CASE EndRun(s, y)
    BY <2>3 DEF EndRun, RunRow
  <2>4. CASE LeaveWait(s, y)
    BY <2>4 DEF LeaveWait, RunRow
  <2>5. CASE Reap(s, y)
    BY <2>5 DEF Reap, RunRow
  <2>6. CASE GrowOld(s, y)
    BY <2>6 DEF GrowOld
  <2>7. CASE OpenPosition(s, y)
    BY <2>7 DEF OpenPosition
  <2> QED
    BY <1>9, <2>1, <2>2, <2>3, <2>4, <2>5, <2>6, <2>7 DEF Child
<1>10. ASSUME NEW y \in Coin, ClosePosition(y) PROVE TypeOK'
  BY <1>10 DEF ClosePosition, screenerVars
<1>11. CASE UNCHANGED vars
  BY <1>11 DEF vars
<1> QED
  BY <1>1, <1>2, <1>3, <1>4, <1>5, <1>7, <1>8, <1>9, <1>10, <1>11 DEF Next, Screen

-----------------------------------------------------------------------------
(* The invariants. *)

\* Steps that leave the dispatched runs and the ends of screenings alone.
Quiet(s) == CountSlots(s) \/ Survey(s) \/ Pass(s) \/ LeaveLoop(s)

LEMMA QuietKeeps ==
  ASSUME TypeOK, NEW s \in Screening, Quiet(s)
  PROVE  /\ UNCHANGED <<childVars, born>>
         /\ pc[s] # "done" /\ pc'[s] # "done"
         /\ \A t \in Screening : (pc'[t] = "done") = (pc[t] = "done")
<1>1. /\ UNCHANGED <<childVars, born>>
      /\ pc[s] # "done" /\ (pc' = pc \/ \E v \in PC \ {"done"} : pc' = [pc EXCEPT ![s] = v])
  BY DEF Quiet, CountSlots, Survey, Pass, LeaveLoop, PC
<1> QED
  BY <1>1 DEF TypeOK

\* What Dispatch, Commit and Lose do to a screening's runs.
LEMMA DispatchDoes ==
  ASSUME TypeOK, NEW s \in Screening, Dispatch(s)
  PROVE  /\ pc[s] = "looping" /\ Head(todo[s]) \in Coin /\ Free(s, Head(todo[s]))
         /\ UNCHANGED <<pc, reserved, earlier, reaped, born>>
         /\ row' = [row EXCEPT ![s][Head(todo[s])] = "inserted"]
         /\ recent' = [recent EXCEPT ![s][Head(todo[s])] = TRUE]
         /\ \/ message' = [message EXCEPT ![s][Head(todo[s])] = Attempts]
            \/ message' = message
         /\ sent' \in [Screening -> SUBSET Coin]
         /\ \A t \in Screening : sent'[t] \subseteq sent[t] \cup {Head(todo[t])}
         /\ \A t \in Screening : t # s => sent'[t] = sent[t]
<1>1. todo[s] \in Seq(Coin) /\ todo[s] # << >>
  BY DEF TypeOK, Dispatch
<1>2. Head(todo[s]) \in Coin
  BY <1>1
<1>3. sent' = sent \/ sent' = [sent EXCEPT ![s] = sent[s] \cup {Head(todo[s])}]
  BY DEF Dispatch
<1>4. sent[s] \cup {Head(todo[s])} \in SUBSET Coin /\ sent \in [Screening -> SUBSET Coin]
  BY <1>2 DEF TypeOK
<1>5. /\ sent' \in [Screening -> SUBSET Coin]
      /\ \A t \in Screening : sent'[t] \subseteq sent[t] \cup {Head(todo[t])}
      /\ \A t \in Screening : t # s => sent'[t] = sent[t]
  <2>1. CASE sent' = sent
    BY <1>4, <2>1
  <2>2. CASE sent' = [sent EXCEPT ![s] = sent[s] \cup {Head(todo[s])}]
    <3>1. /\ sent'[s] = sent[s] \cup {Head(todo[s])} /\ sent' \in [Screening -> SUBSET Coin]
          /\ \A t \in Screening : t # s => sent'[t] = sent[t]
      BY <1>4, <2>2
    <3> QED
      BY <3>1
  <2> QED
    BY <1>3, <2>1, <2>2
<1>6. /\ pc[s] = "looping" /\ Free(s, Head(todo[s])) /\ UNCHANGED <<pc, reserved, earlier, reaped>>
      /\ recent' = [recent EXCEPT ![s][Head(todo[s])] = TRUE]
  BY DEF Dispatch
<1>7. row' = [row EXCEPT ![s][Head(todo[s])] = "inserted"] /\ born' = born
  BY DEF Dispatch, Born
<1>8. \/ message' = [message EXCEPT ![s][Head(todo[s])] = Attempts]
      \/ message' = message
  BY DEF Dispatch
<1> QED
  BY <1>2, <1>5, <1>6, <1>7, <1>8

LEMMA CommitDoes ==
  ASSUME TypeOK, NEW s \in Screening, Commit(s)
  PROVE  /\ pc[s] = "leaving" /\ pc' = [pc EXCEPT ![s] = "done"]
         /\ UNCHANGED <<message, recent, reaped>> /\ Forgotten(s)
         /\ \A t \in Screening, y \in Coin :
              /\ row'[t][y] = IF t = s /\ row[t][y] = "inserted" THEN "queued" ELSE row[t][y]
              /\ born'[t][y] = IF t = s /\ row[t][y] = "inserted" THEN born[t][y] + 1
                               ELSE born[t][y]
BY DEF Commit, TypeOK

LEMMA LoseDoes ==
  ASSUME TypeOK, NEW s \in Screening, Lose(s)
  PROVE  /\ pc[s] # "done" /\ (\A t \in Screening : t # s => pc'[t] = pc[t])
         /\ UNCHANGED <<reaped, born>> /\ Forgotten(s)
         /\ \A t \in Screening, y \in Coin :
              /\ row'[t][y] = IF t = s /\ row[t][y] = "inserted" THEN "none" ELSE row[t][y]
              /\ message'[t][y] = IF t = s /\ row[t][y] = "inserted" THEN 0 ELSE message[t][y]
              /\ recent'[t][y] => recent[t][y] /\ (t = s => row[t][y] # "inserted")
<1>1. /\ pc[s] # "done" /\ (\A t \in Screening : t # s => pc'[t] = pc[t])
      /\ UNCHANGED <<reaped, born>> /\ Forgotten(s)
  <2>1. PICK next \in {"ready", "done"} : pc' = [pc EXCEPT ![s] = next]
    BY DEF Lose
  <2>2. \A t \in Screening : t # s => pc'[t] = pc[t]
    BY <2>1 DEF TypeOK
  <2> QED
    BY <2>2 DEF Lose
<1>2. \A t \in Screening, y \in Coin :
        /\ row'[t][y] = IF t = s /\ row[t][y] = "inserted" THEN "none" ELSE row[t][y]
        /\ message'[t][y] = IF t = s /\ row[t][y] = "inserted" THEN 0 ELSE message[t][y]
  BY DEF Lose, TypeOK
<1> DEFINE kept == [y \in Coin |-> recent[s][y] /\ row[s][y] # "inserted"]
<1>3. recent' = [recent EXCEPT ![s] = kept] /\ recent \in [Screening -> [Coin -> BOOLEAN]]
  BY DEF Lose, TypeOK
<1>4. \A y \in Coin : kept[y] => recent[s][y] /\ row[s][y] # "inserted"
  OBVIOUS
<1> HIDE DEF kept
<1>5. ASSUME NEW t \in Screening, NEW y \in Coin, recent'[t][y]
      PROVE  recent[t][y] /\ (t = s => row[t][y] # "inserted")
  <2>1. CASE t = s
    <3>1. recent'[t] = kept
      BY <1>3, <2>1
    <3> QED
      BY <1>4, <1>5, <2>1, <3>1
  <2>2. CASE t # s
    <3>1. recent'[t] = recent[t]
      BY <1>3, <2>2
    <3> QED
      BY <1>5, <2>2, <3>1
  <2> QED
    BY <2>1, <2>2
<1> QED
  BY <1>1, <1>2, <1>5

\* What a dispatched run's own steps do: nothing to a run that is unborn.
LEMMA ChildDoes ==
  ASSUME TypeOK, NEW s \in Screening, NEW y \in Coin, Child(s, y)
  PROVE  /\ UNCHANGED <<screenerVars, born>> /\ reaped \subseteq reaped'
         /\ \A t \in Screening, z \in Coin :
              /\ row[t][z] \in {"none", "inserted"} => row'[t][z] = row[t][z]
              /\ row[t][z] \notin {"none", "inserted"} => row'[t][z] \notin {"none", "inserted"}
              /\ recent'[t][z] => recent[t][z]
              /\ row'[t][z] \in Alive =>
                   row[t][z] \in Alive \/ (row[t][z] = "ended" /\ message[t][z] > 0)
              /\ row'[t][z] \in {"running", "waiting"} =>
                   \/ message'[t][z] = 0
                   \/ row[t][z] \in {"running", "waiting"} /\ message'[t][z] = message[t][z]
              /\ row'[t][z] = "ended" /\ message'[t][z] > 0 =>
                   \/ row[t][z] \in {"running", "waiting", "ended"}
                      /\ message'[t][z] = message[t][z]
                   \/ <<t, z>> \in reaped'
<1> USE DEF TypeOK, screenerVars, Alive, Committed
<1>1. CASE Miss(s, y)
  <2>1. \A t \in Screening, z \in Coin :
          \/ message'[t][z] = message[t][z] \/ row[t][z] = "inserted"
    BY <1>1 DEF Miss
  <2>2. UNCHANGED <<screenerVars, born, reaped, row, recent>>
    BY <1>1 DEF Miss
  <2> QED
    BY <2>1, <2>2
<1>2. CASE StartRun(s, y)
  <2>1. /\ UNCHANGED <<screenerVars, born, reaped, recent>>
        /\ row[s][y] \in {"queued", "ended"} /\ message[s][y] > 0
    BY <1>2 DEF StartRun
  <2>2. \A t \in Screening, z \in Coin :
          \/ row'[t][z] = row[t][z] /\ message'[t][z] = message[t][z]
          \/ t = s /\ z = y /\ row'[t][z] = "running" /\ message'[t][z] = 0
    BY <1>2 DEF StartRun
  <2> QED
    BY <2>1, <2>2
<1>3. CASE EndRun(s, y) \/ LeaveWait(s, y)
  <2>1. /\ UNCHANGED <<screenerVars, born, reaped, recent, message>>
        /\ row[s][y] \in {"running", "waiting"}
    BY <1>3 DEF EndRun, LeaveWait
  <2>2. \A t \in Screening, z \in Coin :
          \/ row'[t][z] = row[t][z]
          \/ t = s /\ z = y /\ row'[t][z] \in {"running", "waiting", "ended"}
    BY <1>3 DEF EndRun, LeaveWait
  <2> QED
    BY <2>1, <2>2
<1>4. CASE Reap(s, y)
  <2>1. /\ UNCHANGED <<screenerVars, born, recent, message>> /\ reaped' = reaped \cup {<<s, y>>}
        /\ row[s][y] = "queued"
    BY <1>4 DEF Reap
  <2>2. \A t \in Screening, z \in Coin :
          \/ row'[t][z] = row[t][z]
          \/ t = s /\ z = y /\ row'[t][z] = "ended"
    BY <1>4 DEF Reap
  <2> QED
    BY <2>1, <2>2
<1>5. CASE GrowOld(s, y)
  <2>1. UNCHANGED <<screenerVars, born, reaped, row, message>>
    BY <1>5 DEF GrowOld
  <2>2. \A t \in Screening, z \in Coin : recent'[t][z] => recent[t][z]
    BY <1>5 DEF GrowOld
  <2> QED
    BY <2>1, <2>2
<1>6. CASE OpenPosition(s, y)
  BY <1>6 DEF OpenPosition
<1> QED
  BY <1>1, <1>2, <1>3, <1>4, <1>5, <1>6 DEF Child

\* Once.
LEMMA OnceStep == ASSUME TypeOK, Once, [Next]_vars PROVE Once'
<1> USE DEF Once
<1>1. ASSUME NEW s \in Screening, Quiet(s) PROVE Once'
  BY <1>1, QuietKeeps DEF childVars
<1>2. ASSUME NEW s \in Screening, Dispatch(s) PROVE Once'
  <2>1. /\ pc[s] = "looping" /\ UNCHANGED <<pc, born>> /\ Head(todo[s]) \in Coin
        /\ row' = [row EXCEPT ![s][Head(todo[s])] = "inserted"]
        /\ recent' = [recent EXCEPT ![s][Head(todo[s])] = TRUE]
    BY <1>2, DispatchDoes
  <2>2. row'[s][Head(todo[s])] = "inserted"
    BY <2>1, CellValue DEF TypeOK
  <2>3. ASSUME NEW t \in Screening, NEW z \in Coin, t # s \/ z # Head(todo[s])
        PROVE  row'[t][z] = row[t][z] /\ recent'[t][z] = recent[t][z]
    <3>1. row'[t][z] = row[t][z]
      BY <2>1, <2>3, CellValue DEF TypeOK
    <3> DEFINE truth == BOOLEAN
               mark  == TRUE
    <3>2. recent \in [Screening -> [Coin -> truth]]
      BY DEF TypeOK
    <3>3. recent' = [recent EXCEPT ![s][Head(todo[s])] = mark]
      BY <2>1
    <3> HIDE DEF truth, mark
    <3>4. [recent EXCEPT ![s][Head(todo[s])] = mark][t][z] = recent[t][z]
      BY <2>1, <2>3, <3>2, CellValue
    <3>5. recent'[t][z] = recent[t][z]
      BY <3>3, <3>4
    <3> QED
      BY <3>1, <3>5
  <2> SUFFICES ASSUME NEW t \in Screening, NEW z \in Coin
               PROVE  /\ born[t][z] <= 1
                      /\ pc[t] # "done" => born[t][z] = 0 /\ row'[t][z] \in {"none", "inserted"}
                      /\ pc[t] = "done" => row'[t][z] # "inserted"
                      /\ row'[t][z] = "none" => ~ recent'[t][z]
    BY <2>1
  <2>4. CASE t # s \/ z # Head(todo[s])
    BY <2>3, <2>4
  <2>5. CASE t = s /\ z = Head(todo[s])
    BY <2>1, <2>2, <2>5
  <2> QED
    BY <2>4, <2>5
<1>3. ASSUME NEW s \in Screening, Commit(s) PROVE Once'
  <2>1. /\ pc[s] = "leaving" /\ recent' = recent
        /\ \A t \in Screening, y \in Coin :
             /\ row'[t][y] = IF t = s /\ row[t][y] = "inserted" THEN "queued" ELSE row[t][y]
             /\ born'[t][y] = IF t = s /\ row[t][y] = "inserted" THEN born[t][y] + 1
                              ELSE born[t][y]
    BY <1>3, CommitDoes
  <2>2. pc'[s] = "done" /\ \A t \in Screening : t # s => pc'[t] = pc[t]
    BY <1>3, CommitDoes DEF TypeOK
  <2> QED
    BY <2>1, <2>2
<1>4. ASSUME NEW s \in Screening, Lose(s) PROVE Once'
  <2>1. /\ pc[s] # "done" /\ (\A t \in Screening : t # s => pc'[t] = pc[t]) /\ born' = born
        /\ \A t \in Screening, y \in Coin :
             /\ row'[t][y] = IF t = s /\ row[t][y] = "inserted" THEN "none" ELSE row[t][y]
             /\ recent'[t][y] => recent[t][y] /\ (t = s => row[t][y] # "inserted")
    BY <1>4, LoseDoes
  <2> QED
    BY <2>1
<1>5. ASSUME NEW s \in Screening, NEW y \in Coin, Child(s, y) PROVE Once'
  <2>1. /\ pc' = pc /\ born' = born
        /\ \A t \in Screening, z \in Coin :
              /\ row[t][z] \in {"none", "inserted"} => row'[t][z] = row[t][z]
              /\ row[t][z] \notin {"none", "inserted"} => row'[t][z] \notin {"none", "inserted"}
              /\ recent'[t][z] => recent[t][z]
    BY <1>5, ChildDoes DEF screenerVars
  <2> QED
    BY <2>1
<1>6. ASSUME NEW y \in Coin, ClosePosition(y) PROVE Once'
  BY <1>6 DEF ClosePosition, screenerVars
<1>7. CASE UNCHANGED vars
  BY <1>7 DEF vars
<1> QED
  BY <1>1, <1>2, <1>3, <1>4, <1>5, <1>6, <1>7 DEF Next, Screen, Quiet

\* Late.
LEMMA LateStep == ASSUME TypeOK, Late, Once, [Next]_vars PROVE Late'
<1> USE DEF Late
<1>1. ASSUME NEW s \in Screening, Quiet(s) PROVE Late'
  BY <1>1, QuietKeeps DEF childVars
<1>2. ASSUME NEW s \in Screening, Dispatch(s) PROVE Late'
  <2>1. /\ reaped' = reaped /\ Head(todo[s]) \in Coin
        /\ row' = [row EXCEPT ![s][Head(todo[s])] = "inserted"]
        /\ \/ message' = [message EXCEPT ![s][Head(todo[s])] = Attempts]
           \/ message' = message
    BY <1>2, DispatchDoes
  <2>2. ASSUME NEW t \in Screening, NEW y \in Coin
        PROVE  \/ row'[t][y] = row[t][y] /\ message'[t][y] = message[t][y]
               \/ row'[t][y] = "inserted"
    <3>1. CASE t = s /\ y = Head(todo[s])
      <4>1. row'[s][Head(todo[s])] = "inserted"
        BY <2>1, CellValue DEF TypeOK
      <4> QED
        BY <3>1, <4>1
    <3>2. CASE t # s \/ y # Head(todo[s])
      <4>1. row'[t][y] = row[t][y]
        BY <2>1, <3>2, CellValue DEF TypeOK
      <4>2. message'[t][y] = message[t][y]
        BY <2>1, <3>2, CellValue DEF TypeOK
      <4> QED
        BY <4>1, <4>2
    <3> QED
      BY <3>1, <3>2
  <2> QED
    BY <2>1, <2>2
<1>3. ASSUME NEW s \in Screening, Commit(s) PROVE Late'
  <2>1. /\ message' = message /\ reaped' = reaped
        /\ \A t \in Screening, y \in Coin :
             row'[t][y] = IF t = s /\ row[t][y] = "inserted" THEN "queued" ELSE row[t][y]
    BY <1>3, CommitDoes
  <2> SUFFICES ASSUME NEW t \in Screening, NEW z \in Coin
               PROVE  /\ row'[t][z] \in {"running", "waiting"} => message'[t][z] = 0
                      /\ row'[t][z] = "ended" /\ message'[t][z] > 0 => <<t, z>> \in reaped'
    OBVIOUS
  <2>2. row'[t][z] \in {"running", "waiting", "ended"} => row'[t][z] = row[t][z]
    BY <2>1
  <2> QED
    BY <2>1, <2>2
<1>4. ASSUME NEW s \in Screening, Lose(s) PROVE Late'
  <2>1. /\ reaped' = reaped
        /\ \A t \in Screening, y \in Coin :
             /\ row'[t][y] = IF t = s /\ row[t][y] = "inserted" THEN "none" ELSE row[t][y]
             /\ message'[t][y] = IF t = s /\ row[t][y] = "inserted" THEN 0 ELSE message[t][y]
    BY <1>4, LoseDoes
  <2> SUFFICES ASSUME NEW t \in Screening, NEW z \in Coin
               PROVE  /\ row'[t][z] \in {"running", "waiting"} => message'[t][z] = 0
                      /\ row'[t][z] = "ended" /\ message'[t][z] > 0 => <<t, z>> \in reaped'
    OBVIOUS
  <2>2. row'[t][z] \in {"running", "waiting", "ended"} =>
          row'[t][z] = row[t][z] /\ row[t][z] # "inserted" /\ message'[t][z] = message[t][z]
    BY <2>1
  <2> QED
    BY <2>1, <2>2
<1>5. ASSUME NEW s \in Screening, NEW y \in Coin, Child(s, y) PROVE Late'
  <2>1. /\ reaped \subseteq reaped'
        /\ \A t \in Screening, z \in Coin :
              /\ row'[t][z] \in {"running", "waiting"} =>
                   \/ message'[t][z] = 0
                   \/ row[t][z] \in {"running", "waiting"} /\ message'[t][z] = message[t][z]
              /\ row'[t][z] = "ended" /\ message'[t][z] > 0 =>
                   \/ row[t][z] \in {"running", "waiting", "ended"}
                      /\ message'[t][z] = message[t][z]
                   \/ <<t, z>> \in reaped'
    BY <1>5, ChildDoes
  <2> SUFFICES ASSUME NEW t \in Screening, NEW z \in Coin
               PROVE  /\ row'[t][z] \in {"running", "waiting"} => message'[t][z] = 0
                      /\ row'[t][z] = "ended" /\ message'[t][z] > 0 => <<t, z>> \in reaped'
    OBVIOUS
  <2>2. ASSUME row'[t][z] \in {"running", "waiting"} PROVE message'[t][z] = 0
    <3>1. CASE row[t][z] \in {"running", "waiting"} /\ message'[t][z] = message[t][z]
      <4>1. message[t][z] = 0
        BY <3>1
      <4> QED
        BY <3>1, <4>1
    <3> QED
      BY <2>1, <2>2, <3>1
  <2>3. ASSUME row'[t][z] = "ended", message'[t][z] > 0 PROVE <<t, z>> \in reaped'
    <3>1. CASE row[t][z] \in {"running", "waiting"} /\ message'[t][z] = message[t][z]
      <4>1. message'[t][z] = 0
        BY <3>1
      <4> QED
        BY <2>3, <4>1
    <3>2. CASE row[t][z] = "ended" /\ message'[t][z] = message[t][z]
      <4>1. <<t, z>> \in reaped
        BY <2>3, <3>2
      <4> QED
        BY <2>1, <4>1
    <3> QED
      BY <2>1, <2>3, <3>1, <3>2
  <2> QED
    BY <2>2, <2>3
<1>6. ASSUME NEW y \in Coin, ClosePosition(y) PROVE Late'
  BY <1>6 DEF ClosePosition, screenerVars
<1>7. CASE UNCHANGED vars
  BY <1>7 DEF vars
<1> QED
  BY <1>1, <1>2, <1>3, <1>4, <1>5, <1>6, <1>7 DEF Next, Screen, Quiet

\* Looked.
\* What was found of a screening that has committed is found again after a step.
LEMMA SparedStays ==
  ASSUME TypeOK, Once, Late, [Next]_vars, NEW p \in Screening, pc[p] = "done"
  PROVE  /\ pc'[p] = "done" /\ reaped \subseteq reaped'
         /\ \A y \in Coin :
              /\ recent'[p][y] => recent[p][y]
              /\ row'[p][y] \in Alive => row[p][y] \in Alive \/ <<p, y>> \in reaped
<1> USE DEF Once
<1>1. ASSUME NEW s \in Screening, Quiet(s)
      PROVE  pc'[p] = "done" /\ UNCHANGED childVars
  BY <1>1, QuietKeeps
<1>2. ASSUME NEW s \in Screening, Dispatch(s)
      PROVE  pc'[p] = "done" /\ reaped' = reaped /\ recent'[p] = recent[p] /\ row'[p] = row[p]
  <2>1. /\ pc[s] = "looping" /\ UNCHANGED <<pc, reaped>> /\ Head(todo[s]) \in Coin
        /\ row' = [row EXCEPT ![s][Head(todo[s])] = "inserted"]
        /\ recent' = [recent EXCEPT ![s][Head(todo[s])] = TRUE]
    BY <1>2, DispatchDoes
  <2>2. p # s
    BY <2>1
  <2> QED
    BY <2>1, <2>2 DEF TypeOK
<1>3. ASSUME NEW s \in Screening, Commit(s)
      PROVE  /\ pc'[p] = "done" /\ UNCHANGED <<recent, reaped>>
             /\ \A y \in Coin : row'[p][y] = row[p][y]
  <2>1. /\ pc[s] = "leaving" /\ pc' = [pc EXCEPT ![s] = "done"]
        /\ UNCHANGED <<recent, reaped>>
        /\ \A t \in Screening, y \in Coin :
             row'[t][y] = IF t = s /\ row[t][y] = "inserted" THEN "queued" ELSE row[t][y]
    BY <1>3, CommitDoes
  <2> QED
    BY <2>1 DEF TypeOK
<1>4. ASSUME NEW s \in Screening, Lose(s)
      PROVE  /\ pc'[p] = "done" /\ reaped' = reaped
             /\ \A y \in Coin : row'[p][y] = row[p][y] /\ (recent'[p][y] => recent[p][y])
  <2>1. /\ pc[s] # "done" /\ (\A t \in Screening : t # s => pc'[t] = pc[t]) /\ reaped' = reaped
        /\ \A t \in Screening, y \in Coin :
             /\ row'[t][y] = IF t = s /\ row[t][y] = "inserted" THEN "none" ELSE row[t][y]
             /\ recent'[t][y] => recent[t][y]
    BY <1>4, LoseDoes
  <2> QED
    BY <2>1
<1>5. ASSUME NEW s \in Screening, NEW y \in Coin, Child(s, y)
      PROVE  /\ pc'[p] = "done" /\ reaped \subseteq reaped'
             /\ \A z \in Coin :
                  /\ recent'[p][z] => recent[p][z]
                  /\ row'[p][z] \in Alive => row[p][z] \in Alive \/ <<p, z>> \in reaped
  <2>1. /\ pc' = pc /\ reaped \subseteq reaped'
        /\ \A z \in Coin :
              /\ recent'[p][z] => recent[p][z]
              /\ row'[p][z] \in Alive =>
                   row[p][z] \in Alive \/ (row[p][z] = "ended" /\ message[p][z] > 0)
    BY <1>5, ChildDoes DEF screenerVars
  <2> QED
    BY <2>1 DEF Late
<1>6. ASSUME NEW y \in Coin, ClosePosition(y)
      PROVE  pc'[p] = "done" /\ UNCHANGED <<recent, reaped, row>>
  BY <1>6 DEF ClosePosition, screenerVars
<1>7. CASE UNCHANGED vars
  BY <1>7 DEF vars
<1> QED
  BY <1>1, <1>2, <1>3, <1>4, <1>5, <1>6, <1>7 DEF Next, Screen, Quiet, childVars

\* A step leaves what a screening found, forgets it, or is its survey.
LEMMA FoundStays ==
  ASSUME TypeOK, [Next]_vars, NEW s \in Screening
  PROVE  \/ earlier'[s] = earlier[s] /\ reserved'[s] = reserved[s]
         \/ earlier'[s] = {}
         \/ Survey(s)
<1>1. ASSUME NEW t \in Screening, CountSlots(t) \/ Pass(t) \/ LeaveLoop(t)
      PROVE  UNCHANGED <<earlier, reserved>>
  BY <1>1 DEF CountSlots, Pass, LeaveLoop
<1>2. ASSUME NEW t \in Screening, Survey(t), t # s
      PROVE  earlier'[s] = earlier[s] /\ reserved'[s] = reserved[s]
  BY <1>2 DEF Survey, TypeOK
<1>3. ASSUME NEW t \in Screening, Dispatch(t) PROVE UNCHANGED <<earlier, reserved>>
  BY <1>3, DispatchDoes
<1>4. ASSUME NEW t \in Screening, Forgotten(t)
      PROVE  \/ earlier'[s] = earlier[s] /\ reserved'[s] = reserved[s]
             \/ earlier'[s] = {}
  BY <1>4 DEF Forgotten, TypeOK
<1>5. ASSUME NEW t \in Screening, Commit(t) \/ Lose(t) PROVE Forgotten(t)
  BY <1>5 DEF Commit, Lose
<1>6. ASSUME NEW t \in Screening, NEW y \in Coin, Child(t, y) PROVE UNCHANGED <<earlier, reserved>>
  BY <1>6, ChildDoes DEF screenerVars
<1>7. ASSUME NEW y \in Coin, ClosePosition(y) PROVE UNCHANGED <<earlier, reserved>>
  BY <1>7 DEF ClosePosition, screenerVars
<1>8. CASE UNCHANGED vars
  BY <1>8 DEF vars
<1> QED
  BY <1>1, <1>2, <1>3, <1>4, <1>5, <1>6, <1>7, <1>8 DEF Next, Screen

LEMMA SurveySpares ==
  ASSUME TypeOK, Once, NEW s \in Screening, Survey(s), NEW p \in earlier'[s]
  PROVE  /\ pc[p] = "done" /\ pc'[p] = "done" /\ UNCHANGED childVars
         /\ Target[p] \in Excludes[s] =>
              \A y \in Coin : y \notin reserved'[s] => ~ recent[p][y] /\ row[p][y] \notin Alive
<1>1. /\ reserved'[s] = Taken(s) /\ earlier'[s] = {q \in Screening : pc[q] = "done"}
      /\ pc' = [pc EXCEPT ![s] = "looping"] /\ pc[s] = "counted" /\ UNCHANGED childVars
  BY DEF Survey, TypeOK
<1>2. p \in Screening /\ pc[p] = "done" /\ pc'[p] = "done"
  BY <1>1 DEF TypeOK
<1>3. ASSUME Target[p] \in Excludes[s], NEW y \in Coin, y \notin Taken(s)
      PROVE  ~ recent[p][y] /\ row[p][y] \notin Alive
  <2>1. row[p][y] # "inserted" /\ (row[p][y] = "none" => ~ recent[p][y]) /\ row[p][y] \in RunRow
    BY <1>2 DEF Once, TypeOK
  <2>2. row[p][y] \in Committed => row[p][y] \notin Active /\ ~ recent[p][y]
    BY <1>2, <1>3 DEF Taken
  <2> QED
    BY <2>1, <2>2 DEF Alive, Active, Committed, RunRow
<1> QED
  BY <1>1, <1>2, <1>3

LEMMA LookedStep == ASSUME TypeOK, Once, Late, Looked, [Next]_vars PROVE Looked'
<1> SUFFICES ASSUME NEW s \in Screening, NEW p \in earlier'[s]
             PROVE  pc'[p] = "done" /\ (Target[p] \in Excludes[s] => Spared(s, p)')
  BY DEF Looked
<1>1. CASE earlier'[s] = earlier[s] /\ reserved'[s] = reserved[s]
  <2>1. p \in Screening /\ pc[p] = "done" /\ (Target[p] \in Excludes[s] => Spared(s, p))
    BY <1>1 DEF Looked, TypeOK
  <2>2. /\ pc'[p] = "done" /\ reaped \subseteq reaped'
        /\ \A y \in Coin :
              /\ recent'[p][y] => recent[p][y]
              /\ row'[p][y] \in Alive => row[p][y] \in Alive \/ <<p, y>> \in reaped
    BY <2>1, SparedStays
  <2> QED
    BY <1>1, <2>1, <2>2 DEF Spared
<1>2. CASE earlier'[s] = {}
  BY <1>2
<1>3. CASE Survey(s)
  <2>1. /\ pc'[p] = "done" /\ UNCHANGED childVars
        /\ Target[p] \in Excludes[s] =>
              \A y \in Coin : y \notin reserved'[s] => ~ recent[p][y] /\ row[p][y] \notin Alive
    BY <1>3, SurveySpares
  <2> QED
    BY <2>1 DEF Spared, childVars
<1> QED
  BY <1>1, <1>2, <1>3, FoundStays

LEMMA InitInv == ASSUME Init PROVE IInv
<1>1. TypeOK
  BY ScreenerConstants DEF Init, TypeOK, PC, RunRow, ScreenerConstants
<1>2. Once
  BY DEF Init, Once
<1>3. Late
  BY DEF Init, Late
<1>4. Looked
  BY DEF Init, Looked
<1> QED
  BY <1>1, <1>2, <1>3, <1>4 DEF IInv

LEMMA Invariance == Spec => []IInv
<1>1. Init => IInv
  BY InitInv
<1>2. IInv /\ [Next]_vars => IInv'
  BY TypeStep, OnceStep, LateStep, LookedStep DEF IInv
<1> QED
  BY <1>1, <1>2, PTL DEF Spec

-----------------------------------------------------------------------------
(* Theorems. *)

\* The dispatched rows, their messages and what each screening has read keep their
\* types, for any screenings, coins, limits and numbers of lost deliveries.
THEOREM TypeTheorem == Spec => []TypeOK
<1>1. IInv => TypeOK
  BY DEF IInv
<1> QED
  BY <1>1, Invariance, PTL

\* A screening leaves one run per coin at most, however often its delivery is lost
\* and repeated: run_svc.create flushes into a transaction that commits once.
THEOREM OneRunTheorem == Spec => []OneRunPerCoin
<1>1. IInv => OneRunPerCoin
  BY DEF IInv, Once, OneRunPerCoin
<1> QED
  BY <1>1, Invariance, PTL

\* Between two screenings of which one had committed before the other looked, the
\* exclusion of coins in active or recent runs holds up to the dispatch, late
\* messages of reaped runs apart.
THEOREM ExclusionTheorem == Spec => ExclusionHolds
<1> DEFINE A == \A s \in Screening : \A p \in earlier[s] : Respects(s, p)
<1>1. ASSUME IInv, [Next]_vars PROVE A
  <2> SUFFICES ASSUME NEW s \in Screening, NEW p \in earlier[s], Target[p] \in Excludes[s],
                      NEW y \in sent'[s] \ sent[s]
               PROVE  ~ recent[p][y] /\ (row[p][y] \in Alive => <<p, y>> \in reaped)
    BY DEF Respects
  <2>1. Dispatch(s) /\ y = Head(todo[s])
    <3>1. ASSUME NEW t \in Screening, Quiet(t) PROVE sent' = sent
      BY <3>1 DEF Quiet, CountSlots, Survey, Pass, LeaveLoop
    <3>2. ASSUME NEW t \in Screening, Commit(t) \/ Lose(t) PROVE sent'[s] \subseteq sent[s]
      <4>1. sent' = [sent EXCEPT ![t] = {}]
        BY <3>2 DEF Commit, Lose, Forgotten
      <4> QED
        BY <1>1, <4>1 DEF IInv, TypeOK
    <3>3. ASSUME NEW t \in Screening, NEW z \in Coin, Child(t, z) PROVE sent' = sent
      BY <1>1, <3>3, ChildDoes DEF screenerVars, IInv
    <3>4. ASSUME NEW z \in Coin, ClosePosition(z) PROVE sent' = sent
      BY <3>4 DEF ClosePosition, screenerVars
    <3>5. CASE UNCHANGED vars
      BY <3>5 DEF vars
    <3>6. PICK t \in Screening : Dispatch(t)
      BY <1>1, <3>1, <3>2, <3>3, <3>4, <3>5 DEF Next, Screen, Quiet
    <3>7. /\ \A u \in Screening : sent'[u] \subseteq sent[u] \cup {Head(todo[u])}
          /\ \A u \in Screening : u # t => sent'[u] = sent[u]
      BY <1>1, <3>6, DispatchDoes DEF IInv
    <3>8. t = s /\ y = Head(todo[s])
      BY <3>7
    <3> QED
      BY <3>6, <3>8
  <2>2. y \in Coin /\ y \notin reserved[s]
    BY <1>1, <2>1, DispatchDoes DEF IInv, Free
  <2>3. Spared(s, p)
    BY <1>1 DEF IInv, Looked
  <2> QED
    BY <2>2, <2>3 DEF Spared
<1>2. IInv /\ [Next]_vars => [A]_vars
  BY <1>1
<1> QED
  BY <1>2, Invariance, PTL DEF Spec, ExclusionHolds
=============================================================================
