-------------------------- MODULE TradingModeProofs --------------------------
(***************************************************************************)
(* Proofs about TradingMode, for any number of requests, starts, orders    *)
(* and faults, any modes and any environment.                              *)
(***************************************************************************)
EXTENDS TradingMode, TLAPS

-----------------------------------------------------------------------------
(* Type correctness. *)

PatchPoint == {"idle", "get trading", "put trading", "get exchange", "put exchange",
               "set trading", "set exchange", "commit", "done", "failed"}
PatchRow == [pc : PatchPoint, found : TradingName \cup ExchangeName \cup {Unset},
             wrote : SUBSET Field]
BootRow  == [pc : {"idle", "set trading", "set exchange", "up"}, pair : Pair]
OrderRow == [pc : {"idle", "resolve", "demo", "done"}, by : {"none", "service", "tool"},
             mode : Pair, venue : {"none", "virtual", "production"}]
Keys == [trading : TradingName \cup {Unset}, exchange : ExchangeName \cup {Unset}]

ModeTypes ==
  /\ row \in Pair
  /\ lock \in [Field -> SUBSET Patch]
  /\ key \in Keys
  /\ patch \in [Patch -> PatchRow]
  /\ boot \in [Boot -> BootRow]
  /\ order \in [Caller -> OrderRow]
  /\ faults \in 0 .. MaxFaults

LEMMA PairOfType == ASSUME NEW trading \in TradingName PROVE PairOf(trading) \in Pair
BY DEF PairOf, Pair, Drives, TradingName, ExchangeName

\* A record of the two fields written as a function.
LEMMA TwoFields ==
  ASSUME NEW T, NEW E, NEW a \in T, NEW b \in E, NEW g,
         g = [f \in Field |-> IF f = "trading" THEN a ELSE b]
  PROVE  g \in [trading : T, exchange : E] /\ g.trading = a /\ g.exchange = b
<1>1. g = [trading |-> a, exchange |-> b]
  BY DEF Field
<1> QED
  BY <1>1

LEMMA WantedType ==
  ASSUME NEW p \in Patch
  PROVE  /\ Wanted(p, "trading") \in TradingName
         /\ Wanted(p, "exchange") \in ExchangeName
         /\ PairOf(Wants[p]) = [trading |-> Wanted(p, "trading"), exchange |-> Wanted(p, "exchange")]
<1>1. Wants[p] \in TradingName
  BY ModeConstants DEF ModeConstants
<1> QED
  BY <1>1, PairOfType DEF Wanted, Pair, PairOf

LEMMA ModeTypesInit == Init => ModeTypes
<1> SUFFICES ASSUME Init PROVE ModeTypes
  OBVIOUS
<1>1. row \in Pair /\ PairOf(Persisted) \in Pair
  BY PairOfType, ModeConstants DEF Init, ModeConstants
<1>2. key \in Keys
  <2>1. CASE key = PairOf(Persisted)
    BY <1>1, <2>1 DEF Pair, Keys
  <2>2. CASE key = [f \in Field |-> Unset]
    <3>1. key = [f \in Field |-> IF f = "trading" THEN Unset ELSE Unset]
      BY <2>2
    <3> QED
      BY <3>1, TwoFields DEF Keys
  <2> QED
    BY <2>1, <2>2 DEF Init
<1>3. patch \in [Patch -> PatchRow]
  BY DEF Init, PatchRow, PatchPoint
<1>4. boot \in [Boot -> BootRow] /\ order \in [Caller -> OrderRow]
  BY <1>1, ModeConstants DEF Init, BootRow, OrderRow, NoOrder, ModeConstants
<1>5. lock \in [Field -> SUBSET Patch] /\ faults \in 0 .. MaxFaults
  BY ModeConstants DEF Init, ModeConstants
<1> QED
  BY <1>1, <1>2, <1>3, <1>4, <1>5 DEF ModeTypes

LEMMA FaultType == ModeTypes /\ Fault => faults' \in 0 .. MaxFaults
BY ModeConstants DEF ModeTypes, Fault, ModeConstants

\* A request that moves on.
LEMMA PatchStepType ==
  ASSUME ModeTypes, NEW p \in Patch, NEW from, NEW to \in PatchPoint, PatchStep(p, from, to)
  PROVE  patch' \in [Patch -> PatchRow]
<1>1. [patch[p] EXCEPT !.pc = to] \in PatchRow
  BY DEF ModeTypes, PatchRow
<1> QED
  BY <1>1 DEF PatchStep, ModeTypes

LEMMA UnlockType == ASSUME ModeTypes, NEW p \in Patch, Unlock(p) PROVE lock' \in [Field -> SUBSET Patch]
BY DEF ModeTypes, Unlock

LEMMA SetType ==
  ASSUME ModeTypes, NEW f \in Field, NEW v,
         f = "trading" => v \in TradingName, f = "exchange" => v \in ExchangeName
  PROVE  [key EXCEPT ![f] = v] \in Keys
BY DEF ModeTypes, Keys, Field

LEMMA PatchType ==
  ASSUME ModeTypes, NEW p \in Patch, Update(p) \/ FailPatch(p)
  PROVE  ModeTypes'
<1>1. CASE Begin(p)
  BY <1>1, PatchStepType DEF Begin, ModeTypes, PatchPoint
<1>2. ASSUME NEW f \in Field, Get(p, f) PROVE ModeTypes'
  <2>1. row[f] \in TradingName \cup ExchangeName
    BY DEF ModeTypes, Pair, Field
  <2>2. PICK to \in PatchPoint :
          patch' = [patch EXCEPT ![p].found = row[f], ![p].pc = to]
    BY <1>2 DEF Get, PatchPoint
  <2>3. [patch[p] EXCEPT !.found = row[f], !.pc = to] \in PatchRow
    BY <2>1 DEF ModeTypes, PatchRow
  <2>4. patch' = [patch EXCEPT ![p] = [patch[p] EXCEPT !.found = row[f], !.pc = to]]
    BY <2>2 DEF ModeTypes
  <2> QED
    BY <1>2, <2>3, <2>4 DEF Get, ModeTypes
<1>3. ASSUME NEW f \in Field, Put(p, f) PROVE ModeTypes'
  <2>1. PICK to \in PatchPoint :
          \/ patch' = [patch EXCEPT ![p].pc = to] /\ UNCHANGED lock
          \/ /\ patch' = [patch EXCEPT ![p].pc = to, ![p].wrote = @ \cup {f}]
             /\ lock' = [lock EXCEPT ![f] = {p}]
    BY <1>3 DEF Put, PatchPoint
  <2>2. /\ [patch[p] EXCEPT !.pc = to] \in PatchRow
        /\ [patch[p] EXCEPT !.pc = to, !.wrote = @ \cup {f}] \in PatchRow
    BY DEF ModeTypes, PatchRow
  <2>3. \/ patch' = [patch EXCEPT ![p] = [patch[p] EXCEPT !.pc = to]]
        \/ patch' = [patch EXCEPT ![p] = [patch[p] EXCEPT !.pc = to, !.wrote = @ \cup {f}]]
    BY <2>1 DEF ModeTypes
  <2>4. patch' \in [Patch -> PatchRow] /\ lock' \in [Field -> SUBSET Patch]
    BY <2>1, <2>2, <2>3 DEF ModeTypes
  <2> QED
    BY <1>3, <2>4 DEF Put, ModeTypes
<1>4. ASSUME NEW f \in Field, SetKey(p, f) PROVE ModeTypes'
  <2>1. patch' \in [Patch -> PatchRow]
    BY <1>4, PatchStepType DEF SetKey, PatchPoint
  <2>2. key' \in Keys
    BY <1>4, WantedType, SetType DEF SetKey
  <2> QED
    BY <1>4, <2>1, <2>2 DEF SetKey, ModeTypes
<1>5. CASE CommitPatch(p)
  <2>1. row' \in Pair
    <3> DEFINE t == IF "trading" \in patch[p].wrote THEN Wanted(p, "trading") ELSE row["trading"]
               e == IF "exchange" \in patch[p].wrote THEN Wanted(p, "exchange") ELSE row["exchange"]
    <3>1. row' = [f \in Field |-> IF f = "trading" THEN t ELSE e]
      <4>1. \A f \in Field :
              (IF f \in patch[p].wrote THEN Wanted(p, f) ELSE row[f]) = (IF f = "trading" THEN t ELSE e)
        BY DEF Field
      <4> QED
        BY <1>5, <4>1 DEF CommitPatch
    <3>2. t \in TradingName /\ e \in ExchangeName
      BY WantedType DEF ModeTypes, Pair
    <3> HIDE DEF t, e
    <3> QED
      BY <3>1, <3>2, TwoFields DEF Pair
  <2> QED
    BY <1>5, <2>1, PatchStepType, UnlockType DEF CommitPatch, ModeTypes, PatchPoint
<1>6. CASE FailPatch(p)
  <2>1. [patch[p] EXCEPT !.pc = "failed", !.wrote = {}] \in PatchRow
    BY DEF ModeTypes, PatchRow, PatchPoint
  <2>2. patch' = [patch EXCEPT ![p] = [patch[p] EXCEPT !.pc = "failed", !.wrote = {}]]
    BY <1>6 DEF FailPatch, ModeTypes
  <2> QED
    BY <1>6, <2>1, <2>2, UnlockType, FaultType DEF FailPatch, ModeTypes
<1> QED
  BY <1>1, <1>2, <1>3, <1>4, <1>5, <1>6 DEF Update

LEMMA BootType ==
  ASSUME ModeTypes, NEW b \in Boot, BootRead(b) \/ (\E f \in Field : BootSet(b, f))
  PROVE  ModeTypes'
<1>1. CASE BootRead(b)
  BY <1>1 DEF BootRead, ModeTypes, BootRow
<1>2. ASSUME NEW f \in Field, BootSet(b, f) PROVE ModeTypes'
  <2>1. boot[b].pair[f] = (IF f = "trading" THEN boot[b].pair.trading ELSE boot[b].pair.exchange)
    BY DEF Field
  <2>2. boot[b].pair.trading \in TradingName /\ boot[b].pair.exchange \in ExchangeName
    BY DEF ModeTypes, BootRow, Pair
  <2>3. key' \in Keys
    BY <1>2, <2>1, <2>2, SetType DEF BootSet
  <2>4. PICK to \in {"set exchange", "up"} : boot' = [boot EXCEPT ![b].pc = to]
    BY <1>2 DEF BootSet
  <2>5. [boot[b] EXCEPT !.pc = to] \in BootRow
    BY DEF ModeTypes, BootRow
  <2> QED
    BY <1>2, <2>3, <2>4, <2>5 DEF BootSet, ModeTypes
<1> QED
  BY <1>1, <1>2

-----------------------------------------------------------------------------
(* Orders. *)

LEMMA ResolvedType ==
  ASSUME ModeTypes, NEW answered \in BOOLEAN
  PROVE  /\ Resolved(answered) \in Pair
         /\ answered /\ key.trading = "PAPER" => Resolved(answered).trading = "PAPER"
         /\ answered /\ key.exchange = "paper" => Resolved(answered).exchange = "paper"
<1> DEFINE read(f) == IF answered /\ key[f] # Unset THEN key[f] ELSE Env[f]
<1>1. Resolved(answered) = [f \in Field |-> IF f = "trading" THEN read("trading") ELSE read("exchange")]
  BY DEF Resolved, Field
<1>2. read("trading") \in TradingName /\ read("exchange") \in ExchangeName
  BY ModeConstants DEF ModeConstants, ModeTypes, Keys, Pair
<1>3. /\ Resolved(answered) \in Pair
      /\ Resolved(answered).trading = read("trading") /\ Resolved(answered).exchange = read("exchange")
  <2> HIDE DEF read
  <2> QED
    BY <1>1, <1>2, TwoFields DEF Pair
<1>4. Unset # "PAPER" /\ Unset # "paper"
  BY DEF Unset
<1> QED
  BY <1>3, <1>4

\* What an order of one caller may change.
LEMMA OrderStep ==
  ASSUME ModeTypes, NEW c \in Caller, Order(c)
  PROVE  /\ order' \in [Caller -> OrderRow] /\ faults' \in 0 .. MaxFaults
         /\ \A q \in Caller \ {c} : order'[q] = order[q]
         /\ order[c].by = "tool" /\ order[c].venue = "none" /\ order'[c].venue # "none"
              /\ faults' = faults
            => key.trading # "PAPER" /\ key.exchange # "paper"
<1>1. PICK answered \in BOOLEAN :
        /\ IF answered THEN UNCHANGED faults ELSE Fault
        /\ ServiceOrder(c, Resolved(answered)) \/ ToolOrder(c, Resolved(answered))
             \/ DemoExecute(c, Resolved(answered))
  BY DEF Order
<1> DEFINE pair == Resolved(answered)
<1>2. pair \in Pair
  BY ResolvedType
<1>3. PICK next \in OrderRow : order' = [order EXCEPT ![c] = next]
  <2> HIDE DEF pair
  <2>1. CASE AdapterOrder(c, pair)
    <3>1. PICK venue \in {"none", "virtual", "production"} :
            order' = [order EXCEPT ![c] = [order[c] EXCEPT !.pc = "done", !.mode = pair, !.venue = venue]]
      BY <2>1, ModeConstants DEF AdapterOrder, ModeTypes, ModeConstants
    <3>2. [order[c] EXCEPT !.pc = "done", !.mode = pair, !.venue = venue] \in OrderRow
      BY <1>2 DEF ModeTypes, OrderRow
    <3> QED
      BY <3>1, <3>2
  <2>2. ASSUME NEW to \in {"demo", "done"}, order' = [order EXCEPT ![c].pc = to, ![c].mode = pair]
        PROVE  \E next \in OrderRow : order' = [order EXCEPT ![c] = next]
    <3>1. [order[c] EXCEPT !.pc = to, !.mode = pair] \in OrderRow
      BY <1>2 DEF ModeTypes, OrderRow
    <3>2. order' = [order EXCEPT ![c] = [order[c] EXCEPT !.pc = to, !.mode = pair]]
      BY <2>2 DEF ModeTypes
    <3> QED
      BY <3>1, <3>2
  <2>3. \/ AdapterOrder(c, pair) \/ Blocked(c, pair)
        \/ order' = [order EXCEPT ![c].pc = "demo", ![c].mode = pair]
    <3>1. pair.exchange \in ExchangeName
      BY <1>2 DEF Pair
    <3>2. ServiceOrder(c, pair) \/ ToolOrder(c, pair) \/ DemoExecute(c, pair)
      BY <1>1 DEF pair
    <3> QED
      BY <3>1, <3>2 DEF ServiceOrder, ToolOrder, DemoExecute, ExchangeName
  <2> QED
    BY <2>1, <2>2, <2>3 DEF Blocked
<1>4. order' \in [Caller -> OrderRow] /\ \A q \in Caller \ {c} : order'[q] = order[q]
  BY <1>3 DEF ModeTypes
<1>5. faults' \in 0 .. MaxFaults /\ (faults' = faults => answered)
  BY <1>1, FaultType DEF ModeTypes, Fault
<1>6. ASSUME order[c].by = "tool", order[c].venue = "none", order'[c].venue # "none",
             faults' = faults
      PROVE  key.trading # "PAPER" /\ key.exchange # "paper"
  <2>1. ~ Conflict(pair) /\ pair.exchange # "paper"
    <3>1. ~ Blocked(c, pair) /\ ~ order' = [order EXCEPT ![c].pc = "demo", ![c].mode = pair]
      BY <1>6 DEF Blocked, ModeTypes, OrderRow
    <3>2. ToolOrder(c, pair) \/ DemoExecute(c, pair)
      BY <1>1, <1>6 DEF ServiceOrder
    <3> HIDE DEF pair
    <3> QED
      BY <3>1, <3>2 DEF ToolOrder, DemoExecute
  <2>2. pair.trading = "PAPER" => pair.exchange = "paper"
    BY <2>1 DEF Conflict, Drives
  <2> QED
    BY <1>5, <1>6, <2>1, <2>2, ResolvedType
<1> QED
  BY <1>4, <1>5, <1>6

LEMMA StartOrderType ==
  ASSUME ModeTypes, NEW c \in Caller, StartOrder(c)
  PROVE  order' \in [Caller -> OrderRow] /\ \A q \in Caller : order'[q].venue = order[q].venue
<1>1. PICK by \in {"service", "tool"} :
        order' = [order EXCEPT ![c] = [order[c] EXCEPT !.pc = "resolve", !.by = by]]
  BY DEF StartOrder, ModeTypes
<1>2. /\ [order[c] EXCEPT !.pc = "resolve", !.by = by] \in OrderRow
      /\ [order[c] EXCEPT !.pc = "resolve", !.by = by].venue = order[c].venue
  BY DEF ModeTypes, OrderRow
<1> QED
  BY <1>1, <1>2 DEF ModeTypes

LEMMA ModeTypesStep == ModeTypes /\ [Next]_vars => ModeTypes'
<1> SUFFICES ASSUME ModeTypes, [Next]_vars PROVE ModeTypes'
  OBVIOUS
<1>1. CASE UNCHANGED vars
  BY <1>1 DEF vars, ModeTypes
<1>2. ASSUME NEW c \in Caller, StartOrder(c) PROVE ModeTypes'
  BY <1>2, StartOrderType DEF StartOrder, ModeTypes
<1>3. ASSUME NEW c \in Caller, Order(c) PROVE ModeTypes'
  BY <1>3, OrderStep DEF Order, ModeTypes
<1> QED
  BY <1>1, <1>2, <1>3, PatchType, BootType DEF Next

LEMMA ModeTypesInvariant == Spec => []ModeTypes
BY ModeTypesInit, ModeTypesStep, PTL DEF Spec

\* Rows, keys, locks, requests and orders keep their types.
THEOREM TypeTheorem == Spec => []TypeOK
<1>1. ModeTypes => TypeOK
  BY DEF ModeTypes, TypeOK, Keys, PatchRow, BootRow, OrderRow
<1> QED
  BY <1>1, ModeTypesInvariant, PTL

\* place_order sends nothing that resolves, with an answer from Redis, after a
\* switch to PAPER has written its first key.
THEOREM PaperStopsTheorem == Spec => PaperStopsTheTool
<1> DEFINE Stops == \A c \in Caller :
                      /\ order[c].by = "tool" /\ order[c].venue = "none" /\ order'[c].venue # "none"
                      /\ faults' = faults
                      => key.trading # "PAPER" /\ key.exchange # "paper"
<1>1. ModeTypes /\ [Next]_vars => [Stops]_vars
  <2> SUFFICES ASSUME ModeTypes, Next PROVE Stops
    OBVIOUS
  <2>1. ASSUME UNCHANGED order PROVE Stops
    BY <2>1
  <2>2. ASSUME NEW p \in Patch, Update(p) \/ FailPatch(p) PROVE UNCHANGED order
    BY <2>2 DEF Update, FailPatch, Begin, Get, Put, SetKey, CommitPatch
  <2>3. ASSUME NEW b \in Boot, BootRead(b) \/ (\E f \in Field : BootSet(b, f)) PROVE UNCHANGED order
    BY <2>3 DEF BootRead, BootSet
  <2>4. ASSUME NEW c \in Caller, StartOrder(c) PROVE Stops
    BY <2>4, StartOrderType
  <2>5. ASSUME NEW c \in Caller, Order(c) PROVE Stops
    BY <2>5, OrderStep
  <2> QED
    BY <2>1, <2>2, <2>3, <2>4, <2>5 DEF Next
<1> QED
  BY <1>1, ModeTypesInvariant, PTL DEF Spec, PaperStopsTheTool

-----------------------------------------------------------------------------
(* The keys follow the rows.  What makes it so is the row lock of the first *)
(* upsert: it is held across both SETs, up to the commit.                   *)

Setting == {"set trading", "set exchange", "commit"}
Writing == {"get exchange", "put exchange"} \cup Setting

\* A row lock has one holder, and a request holds those of the rows it wrote.
OneHolder == \A f \in Field : \A p \in lock[f] : \A q \in lock[f] : p = q

LocksHeld ==
  /\ OneHolder
  /\ \A f \in Field : \A p \in Patch :
       /\ patch[p].pc \in Writing /\ f \in patch[p].wrote => p \in lock[f]
       /\ patch[p].pc \in {"idle", "get trading", "put trading"} => f \notin patch[p].wrote

\* A request that has updated every row it has passed, and has not failed.
Good(p) ==
  /\ patch[p].pc # "failed"
  /\ patch[p].pc \in Writing => "trading" \in patch[p].wrote
  /\ patch[p].pc \in Setting \cup {"done"} => patch[p].wrote = Field

Clean == (\A p \in Patch : Good(p)) /\ (\A b \in Boot : boot[b].pc = "idle")

KeysTrue ==
  /\ \A p \in Patch : patch[p].pc = "set exchange" => key.trading = Wanted(p, "trading")
  /\ \A p \in Patch : patch[p].pc = "commit" => key = PairOf(Wants[p])
  /\ (\A p \in Patch : patch[p].pc \notin {"set exchange", "commit"})
       /\ (\E p \in Patch : patch[p].pc = "done") => key = row

ModeInv == ModeTypes /\ LocksHeld /\ (Clean => KeysTrue)

LEMMA ModeInvInit == Init => ModeInv
<1> SUFFICES ASSUME Init PROVE ModeInv
  OBVIOUS
<1>1. /\ \A p \in Patch : patch[p].pc = "idle" /\ patch[p].wrote = {}
      /\ \A f \in Field : lock[f] = {}
  BY DEF Init
<1> QED
  BY <1>1, ModeTypesInit DEF ModeInv, LocksHeld, OneHolder, Writing, Setting, KeysTrue

\* Two clean requests do not write keys at once.
LEMMA OneSets ==
  ASSUME ModeInv, Clean, NEW p \in Patch, NEW q \in Patch,
         patch[p].pc \in Setting, patch[q].pc \in Setting
  PROVE  p = q
BY DEF ModeInv, LocksHeld, OneHolder, Clean, Good, Writing, Field

\* What a step of a request does to its row.
LEMMA PatchFields ==
  ASSUME ModeTypes, NEW p \in Patch, NEW to, PatchStep(p, patch[p].pc, to)
  PROVE  /\ patch'[p].pc = to /\ patch'[p].wrote = patch[p].wrote
         /\ \A q \in Patch \ {p} : patch'[q] = patch[q]
BY DEF PatchStep, ModeTypes, PatchRow

\* One request moves and takes or releases locks of its own.
LEMMA LocksKept ==
  ASSUME LocksHeld, NEW p \in Patch,
         \A q \in Patch \ {p} : patch'[q] = patch[q],
         OneHolder',
         \A f \in Field : \A q \in Patch \ {p} : q \in lock[f] => q \in lock'[f],
         \A f \in Field : patch'[p].pc \in Writing /\ f \in patch'[p].wrote => p \in lock'[f],
         \A f \in Field : patch'[p].pc \in {"idle", "get trading", "put trading"} =>
                            f \notin patch'[p].wrote
  PROVE  LocksHeld'
<1> SUFFICES ASSUME NEW f \in Field, NEW q \in Patch
             PROVE  /\ patch'[q].pc \in Writing /\ f \in patch'[q].wrote => q \in lock'[f]
                    /\ patch'[q].pc \in {"idle", "get trading", "put trading"} =>
                         f \notin patch'[q].wrote
  BY DEF LocksHeld, Writing, Setting
<1>1. CASE q # p
  BY <1>1 DEF LocksHeld
<1> QED
  BY <1>1

\* A step that leaves the locks and what the request wrote.
LEMMA LocksStay ==
  ASSUME LocksHeld, NEW p \in Patch, UNCHANGED lock,
         \A q \in Patch \ {p} : patch'[q] = patch[q], patch'[p].wrote = patch[p].wrote,
         patch'[p].pc \in Writing => patch[p].pc \in Writing \cup {"put trading"},
         patch'[p].pc \in {"idle", "get trading", "put trading"} =>
           patch[p].pc \in {"idle", "get trading", "put trading"}
  PROVE  LocksHeld'
<1>1. OneHolder'
  BY DEF LocksHeld, OneHolder
<1>2. \A f \in Field : patch'[p].pc \in Writing /\ f \in patch'[p].wrote => p \in lock'[f]
  BY DEF LocksHeld
<1>3. \A f \in Field : patch'[p].pc \in {"idle", "get trading", "put trading"} =>
                          f \notin patch'[p].wrote
  BY DEF LocksHeld
<1> QED
  BY <1>1, <1>2, <1>3, LocksKept

\* A request that releases its locks and writes no longer.
LEMMA LocksFreed ==
  ASSUME ModeTypes, LocksHeld, NEW p \in Patch, Unlock(p),
         \A q \in Patch \ {p} : patch'[q] = patch[q],
         patch'[p].pc \in {"done", "failed"}
  PROVE  LocksHeld'
<1>1. \A f \in Field : lock'[f] = lock[f] \ {p}
  BY DEF Unlock
<1>2. OneHolder'
  <2> SUFFICES ASSUME NEW f \in Field, NEW q \in lock'[f], NEW s \in lock'[f] PROVE q = s
    BY DEF OneHolder
  <2>1. q \in lock[f] /\ s \in lock[f]
    BY <1>1
  <2> QED
    BY <2>1 DEF LocksHeld, OneHolder
<1>3. patch'[p].pc \notin Writing /\ patch'[p].pc \notin {"idle", "get trading", "put trading"}
  BY DEF Writing, Setting
<1> QED
  BY <1>1, <1>2, <1>3, LocksKept

\* A step of one request that keeps it away from the keys, or just reaches them.
LEMMA RowStep ==
  ASSUME ModeInv, ModeTypes', NEW p \in Patch, UNCHANGED <<row, key, boot>>,
         \A q \in Patch \ {p} : patch'[q] = patch[q],
         patch[p].pc \notin Setting \cup {"done"},
         patch'[p].pc \notin {"set exchange", "commit", "done"},
         LocksHeld',
         Good(p)' => Good(p)
  PROVE  ModeInv'
<1>1. ASSUME Clean' PROVE KeysTrue'
  <2>1. \A q \in Patch : Good(q)
    BY <1>1 DEF Clean, Good
  <2>2. Clean /\ KeysTrue
    BY <1>1, <2>1 DEF Clean, ModeInv
  <2> QED
    BY <2>2 DEF KeysTrue, Setting, Wanted
<1> QED
  BY <1>1 DEF ModeInv

LEMMA PatchInv ==
  ASSUME ModeInv, NEW p \in Patch, Update(p) \/ FailPatch(p)
  PROVE  ModeInv'
<1>0. ModeTypes' /\ ModeTypes /\ LocksHeld
  BY PatchType DEF ModeInv
<1>1. CASE Begin(p)
  <2>1. PatchStep(p, patch[p].pc, "get trading") /\ patch[p].pc = "idle"
    BY <1>1 DEF Begin, PatchStep
  <2>2. LocksHeld'
    <3>1. /\ patch'[p].pc = "get trading" /\ patch'[p].wrote = patch[p].wrote
          /\ \A q \in Patch \ {p} : patch'[q] = patch[q]
      BY <1>0, <2>1, PatchFields
    <3>2. UNCHANGED lock /\ "get trading" \notin Writing
      BY <1>1 DEF Begin, Writing, Setting
    <3> QED
      BY <1>0, <2>1, <3>1, <3>2, LocksStay
  <2>3. Good(p)' => Good(p)
    BY <2>1 DEF Good, Writing, Setting
  <2> QED
    BY <1>0, <1>1, <2>1, <2>2, <2>3, PatchFields, RowStep DEF Begin, Setting
<1>2. ASSUME NEW f \in Field, Get(p, f) PROVE ModeInv'
  <2>1. PICK to \in {"put trading", "put exchange"} :
          /\ patch' = [patch EXCEPT ![p].found = row[f], ![p].pc = to]
          /\ to = "put trading" <=> patch[p].pc = "get trading"
          /\ patch[p].pc \in {"get trading", "get exchange"}
    BY <1>2 DEF Get, Field
  <2>2. /\ patch'[p].pc = to /\ patch'[p].wrote = patch[p].wrote
        /\ \A q \in Patch \ {p} : patch'[q] = patch[q]
    BY <1>0, <2>1 DEF ModeTypes, PatchRow
  <2>3. LocksHeld'
    BY <1>0, <1>2, <2>1, <2>2, LocksStay DEF Get, Writing, Setting
  <2>4. Good(p)' => Good(p)
    BY <2>1, <2>2 DEF Good, Writing, Setting
  <2> QED
    BY <1>0, <1>2, <2>1, <2>2, <2>3, <2>4, RowStep DEF Get, Setting
<1>3. ASSUME NEW f \in Field, Put(p, f) PROVE ModeInv'
  <2>1. PICK to \in {"get exchange", "set trading"} :
          /\ \/ /\ patch' = [patch EXCEPT ![p].pc = to]
                /\ UNCHANGED lock
             \/ /\ patch' = [patch EXCEPT ![p].pc = to, ![p].wrote = @ \cup {f}]
                /\ lock[f] = {} /\ lock' = [lock EXCEPT ![f] = {p}]
          /\ \/ (patch[p].pc = "put trading" /\ to = "get exchange" /\ f = "trading")
             \/ (patch[p].pc = "put exchange" /\ to = "set trading" /\ f = "exchange")
    BY <1>3 DEF Put, Field
  <2>2. /\ patch'[p].pc = to
        /\ \A q \in Patch \ {p} : patch'[q] = patch[q]
        /\ \/ /\ patch'[p].wrote = patch[p].wrote
              /\ UNCHANGED lock
           \/ /\ patch'[p].wrote = patch[p].wrote \cup {f}
              /\ lock[f] = {} /\ lock' = [lock EXCEPT ![f] = {p}]
    <3>1. \/ /\ patch'[p] = [patch[p] EXCEPT !.pc = to]
             /\ UNCHANGED lock
          \/ /\ patch'[p] = [patch[p] EXCEPT !.pc = to, !.wrote = @ \cup {f}]
             /\ lock[f] = {} /\ lock' = [lock EXCEPT ![f] = {p}]
      BY <1>0, <2>1 DEF ModeTypes
    <3>2. patch[p] \in PatchRow
      BY <1>0 DEF ModeTypes
    <3>3. \A q \in Patch \ {p} : patch'[q] = patch[q]
      BY <1>0, <2>1 DEF ModeTypes
    <3> QED
      BY <3>1, <3>2, <3>3 DEF PatchRow
  <2>3. LocksHeld'
    <3>1. CASE UNCHANGED lock /\ patch'[p].wrote = patch[p].wrote
      BY <1>0, <2>1, <2>2, <3>1, LocksStay DEF Writing, Setting
    <3>2. CASE lock' = [lock EXCEPT ![f] = {p}] /\ lock[f] = {}
                 /\ patch'[p].wrote = patch[p].wrote \cup {f}
      <4>1. \A g \in Field : lock'[g] = IF g = f THEN {p} ELSE lock[g]
        BY <1>0, <3>2 DEF ModeTypes
      <4>2. OneHolder'
        <5> SUFFICES ASSUME NEW g \in Field, NEW q \in lock'[g], NEW s \in lock'[g] PROVE q = s
          BY DEF OneHolder
        <5>1. CASE g = f
          <6>1. lock'[g] = {p}
            BY <4>1, <5>1
          <6> QED
            BY <6>1
        <5>2. CASE g # f
          <6>1. q \in lock[g] /\ s \in lock[g]
            BY <4>1, <5>2
          <6> QED
            BY <1>0, <6>1 DEF LocksHeld, OneHolder
        <5> QED
          BY <5>1, <5>2
      <4>3. \A g \in Field : g \in patch'[p].wrote => p \in lock'[g]
        <5>1. patch[p].pc \in {"put trading", "put exchange"}
          BY <2>1
        <5>2. \A g \in Field \ {f} : g \in patch[p].wrote => p \in lock[g]
          BY <1>0, <5>1 DEF LocksHeld, Writing
        <5>3. ASSUME NEW g \in Field, g \in patch'[p].wrote PROVE p \in lock'[g]
          <6>1. CASE g = f
            BY <4>1, <6>1
          <6>2. CASE g # f
            BY <3>2, <4>1, <5>2, <5>3, <6>2
          <6> QED
            BY <6>1, <6>2
        <5> QED
          BY <5>3
      <4>4. to \notin {"idle", "get trading", "put trading"}
        OBVIOUS
      <4> QED
        BY <1>0, <2>2, <3>2, <4>1, <4>2, <4>3, <4>4, LocksKept
    <3> QED
      BY <2>2, <3>1, <3>2
  <2>4. Good(p)' => Good(p)
    <3>1. "trading" \in patch'[p].wrote /\ f = "exchange" => "trading" \in patch[p].wrote
      BY <2>2
    <3> QED
      BY <2>1, <2>2, <3>1 DEF Good, Writing, Setting, Field
  <2> QED
    BY <1>0, <1>3, <2>1, <2>2, <2>3, <2>4, RowStep DEF Put, Setting
<1>4. ASSUME NEW f \in Field, SetKey(p, f) PROVE ModeInv'
  <2>1. PICK to \in {"set exchange", "commit"} :
          /\ PatchStep(p, patch[p].pc, to)
          /\ \/ (patch[p].pc = "set trading" /\ to = "set exchange" /\ f = "trading")
             \/ (patch[p].pc = "set exchange" /\ to = "commit" /\ f = "exchange")
    BY <1>4 DEF SetKey, PatchStep, Field
  <2>2. /\ patch'[p].pc = to /\ patch'[p].wrote = patch[p].wrote
        /\ \A q \in Patch \ {p} : patch'[q] = patch[q]
    BY <1>0, <2>1, PatchFields
  <2>3. LocksHeld'
    BY <1>0, <1>4, <2>1, <2>2, LocksStay DEF SetKey, Writing, Setting
  <2>4. ASSUME Clean' PROVE KeysTrue'
    <3>1. Clean /\ KeysTrue
      BY <1>4, <2>1, <2>2, <2>4 DEF SetKey, Clean, Good, Writing, Setting, ModeInv
    <3>2. \A q \in Patch \ {p} : patch'[q].pc \notin Setting
      BY <2>1, <2>2, <3>1, OneSets DEF Setting
    <3>3. /\ f = "trading" => key'.trading = Wanted(p, "trading")
          /\ f = "exchange" => /\ key'.trading = Wanted(p, "trading")
                               /\ key'.exchange = Wanted(p, "exchange")
      BY <1>0, <1>4, <2>1, <3>1 DEF SetKey, ModeTypes, Keys, KeysTrue
    <3>4. f = "exchange" => key' = PairOf(Wants[p])
      BY <1>0, <3>3, WantedType DEF ModeTypes, Keys
    <3> QED
      BY <2>1, <2>2, <3>2, <3>3, <3>4 DEF KeysTrue, Setting, Wanted
  <2> QED
    BY <1>0, <2>3, <2>4 DEF ModeInv
<1>5. CASE CommitPatch(p)
  <2>1. /\ patch[p].pc = "commit" /\ patch'[p].pc = "done" /\ patch'[p].wrote = patch[p].wrote
        /\ \A q \in Patch \ {p} : patch'[q] = patch[q]
    BY <1>0, <1>5, PatchFields DEF CommitPatch, PatchStep
  <2>2. LocksHeld'
    BY <1>0, <1>5, <2>1, LocksFreed DEF CommitPatch
  <2>3. ASSUME Clean' PROVE KeysTrue'
    <3>1. Clean /\ KeysTrue /\ patch[p].wrote = Field
      BY <1>5, <2>1, <2>3 DEF CommitPatch, Clean, Good, Writing, Setting, ModeInv, Field
    <3>2. \A q \in Patch \ {p} : patch'[q].pc \notin Setting
      BY <2>1, <3>1, OneSets DEF Setting
    <3>3. row' = PairOf(Wants[p])
      <4>1. \A f \in Field : (IF f \in patch[p].wrote THEN Wanted(p, f) ELSE row[f])
                               = PairOf(Wants[p])[f]
        BY <3>1 DEF Wanted
      <4>2. row'.trading = PairOf(Wants[p]).trading /\ row'.exchange = PairOf(Wants[p]).exchange
        BY <1>5, <4>1 DEF CommitPatch, Field
      <4>3. PairOf(Wants[p]) \in Pair /\ row' \in Pair
        BY <1>0, PairOfType, ModeConstants DEF ModeTypes, ModeConstants
      <4> QED
        BY <4>2, <4>3 DEF Pair
    <3>4. key' = row'
      BY <1>5, <2>1, <3>1, <3>3 DEF CommitPatch, KeysTrue
    <3> QED
      BY <2>1, <3>2, <3>4 DEF KeysTrue, Setting
  <2> QED
    BY <1>0, <2>2, <2>3 DEF ModeInv
<1>6. CASE FailPatch(p)
  <2>1. /\ patch'[p].pc = "failed" /\ patch'[p].wrote = {}
        /\ \A q \in Patch \ {p} : patch'[q] = patch[q]
    BY <1>0, <1>6 DEF FailPatch, ModeTypes, PatchRow
  <2>2. LocksHeld'
    BY <1>0, <1>6, <2>1, LocksFreed DEF FailPatch
  <2>3. ~ Clean'
    BY <2>1 DEF Clean, Good
  <2> QED
    BY <1>0, <2>2, <2>3 DEF ModeInv
<1> QED
  BY <1>1, <1>2, <1>3, <1>4, <1>5, <1>6 DEF Update

LEMMA ModeInvStep == ModeInv /\ [Next]_vars => ModeInv'
<1> SUFFICES ASSUME ModeInv, [Next]_vars PROVE ModeInv'
  OBVIOUS
<1>0. ModeTypes'
  BY ModeTypesStep DEF ModeInv
<1>1. ASSUME UNCHANGED <<row, lock, key, patch, boot>> PROVE ModeInv'
  BY <1>0, <1>1 DEF ModeInv, LocksHeld, OneHolder, Clean, Good, KeysTrue, Wanted
<1>2. CASE UNCHANGED vars
  BY <1>1, <1>2 DEF vars
<1>3. ASSUME NEW c \in Caller, StartOrder(c) \/ Order(c) PROVE ModeInv'
  BY <1>1, <1>3 DEF StartOrder, Order
<1>4. ASSUME NEW b \in Boot, BootRead(b) \/ (\E f \in Field : BootSet(b, f)) PROVE ModeInv'
  <2>1. boot'[b].pc # "idle"
    <3>1. boot \in [Boot -> BootRow]
      BY DEF ModeInv, ModeTypes
    <3>2. CASE BootRead(b)
      BY <3>1, <3>2 DEF BootRead
    <3>3. ASSUME NEW f \in Field, BootSet(b, f) PROVE boot'[b].pc # "idle"
      BY <3>1, <3>3 DEF BootSet, BootRow
    <3> QED
      BY <1>4, <3>2, <3>3
  <2>2. ~ Clean'
    BY <2>1 DEF Clean
  <2>3. LocksHeld'
    BY <1>4 DEF BootRead, BootSet, ModeInv, LocksHeld, OneHolder
  <2> QED
    BY <1>0, <2>2, <2>3 DEF ModeInv
<1> QED
  BY <1>2, <1>3, <1>4, PatchInv DEF Next

\* Requests that each updated both rows leave the keys equal to the rows,
\* whatever orders and failed requests run beside them.
THEOREM RedisFollowsTheorem == Spec => []RedisFollowsRows
<1>1. ModeInv => RedisFollowsRows
  BY DEF ModeInv, RedisFollowsRows, Clean, Good, KeysTrue, Writing, Setting
<1> QED
  BY <1>1, ModeInvInit, ModeInvStep, PTL DEF Spec
=============================================================================
