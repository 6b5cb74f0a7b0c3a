---------------------------- MODULE TradingMode ----------------------------
(***************************************************************************)
(* The trading mode is a pair of names kept in three places: environment    *)
(* variables, two rows of app_settings, and two Redis keys that every       *)
(* process reads before an order.  PATCH /settings/trading and the start of *)
(* an API process write the last two, row by row and key by key, while      *)
(* orders are being placed on two paths that read different places.         *)
(* Futures only; invalid names and credentials are left out.                *)
(***************************************************************************)
EXTENDS Naturals, FiniteSets

CONSTANTS
  Patch,          \* PATCH requests
  Wants,          \* the mode each asks for
  Boot,           \* starts of an API process
  Caller,         \* orders
  PathOf,         \* "route": POST .../execute, "run": a workflow run
  Env,            \* TRADING_MODE and EXCHANGE_MODE of the environment
  Persisted,      \* the mode persisted before
  LiveEnabled,    \* LIVE_TRADING_ENABLED
  ProductionUrl,  \* BINANCE_FUTURES_BASE_URL is the production endpoint
  MaxFaults       \* failed Redis calls and dead processes (bound)

TradingName  == {"PAPER", "DEMO", "TESTNET", "LIVE"}
ExchangeName == {"paper", "demo", "testnet", "live"}
Pair == [trading : TradingName, exchange : ExchangeName]
Unset == "unset"

\* _TRADING_TO_EXCHANGE.
Drives(trading) ==
  CASE trading = "PAPER" -> "paper" [] trading = "DEMO" -> "demo"
    [] trading = "TESTNET" -> "testnet" [] trading = "LIVE" -> "live"

PairOf(trading) == [trading |-> trading, exchange |-> Drives(trading)]

ASSUME ModeConstants ==
  /\ Wants \in [Patch -> TradingName]
  /\ PathOf \in [Caller -> {"route", "run"}]
  /\ Env \in Pair
  /\ Persisted \in TradingName
  /\ LiveEnabled \in BOOLEAN /\ ProductionUrl \in BOOLEAN /\ MaxFaults \in Nat

VARIABLES
  row,       \* committed app_settings rows
  lock,      \* row locks: the request that updated the row and has not committed
  key,       \* Redis keys
  patch,     \* requests: control point, the row they found, the rows they wrote
  boot,      \* starts: control point and the pair they read
  order,     \* orders: control point, path, the pair they resolved, the venue
  faults

Field == {"trading", "exchange"}
vars == <<row, lock, key, patch, boot, order, faults>>

NoOrder == [pc |-> "idle", by |-> "none", mode |-> Env, venue |-> "none"]

Init ==
  /\ row = PairOf(Persisted)
  /\ lock = [f \in Field |-> {}]
  /\ key \in {PairOf(Persisted), [f \in Field |-> Unset]}
  /\ patch = [p \in Patch |-> [pc |-> "idle", found |-> Unset, wrote |-> {}]]
  /\ boot = [b \in Boot |-> [pc |-> "idle", pair |-> PairOf(Persisted)]]
  /\ order = [c \in Caller |-> NoOrder]
  /\ faults = 0

Fault == faults < MaxFaults /\ faults' = faults + 1

-----------------------------------------------------------------------------
(* PATCH /settings/trading. *)

PatchStep(p, from, to) == patch[p].pc = from /\ patch' = [patch EXCEPT ![p].pc = to]
Wanted(p, f) == PairOf(Wants[p])[f]

Begin(p) ==
  /\ PatchStep(p, "idle", "get trading")
  /\ UNCHANGED <<row, lock, key, boot, order, faults>>

\* upsert: db.get reads the committed row ...
Get(p, f) ==
  /\ patch[p].pc = IF f = "trading" THEN "get trading" ELSE "get exchange"
  /\ patch' = [patch EXCEPT ![p].found = row[f],
                 ![p].pc = IF f = "trading" THEN "put trading" ELSE "put exchange"]
  /\ UNCHANGED <<row, lock, key, boot, order, faults>>

\* ... and the flush updates it, under its lock, only if the value differs.
Put(p, f) ==
  /\ patch[p].pc = IF f = "trading" THEN "put trading" ELSE "put exchange"
  /\ LET next == IF f = "trading" THEN "get exchange" ELSE "set trading" IN
       IF patch[p].found = Wanted(p, f)
         THEN patch' = [patch EXCEPT ![p].pc = next] /\ UNCHANGED lock
         ELSE /\ lock[f] = {}
              /\ lock' = [lock EXCEPT ![f] = {p}]
              /\ patch' = [patch EXCEPT ![p].pc = next, ![p].wrote = @ \cup {f}]
  /\ UNCHANGED <<row, key, boot, order, faults>>

\* Mutant: each SET takes the other value.
SetKeySwapped(p, f) ==
  /\ IF f = "trading" THEN PatchStep(p, "set trading", "set exchange")
                      ELSE PatchStep(p, "set exchange", "commit")
  /\ key' = [key EXCEPT ![f] = Wanted(p, IF f = "trading" THEN "exchange" ELSE "trading")]
  /\ UNCHANGED <<row, lock, boot, order, faults>>

\* write_trading_mode_overrides: two SETs.
SetKey(p, f) ==
  /\ IF f = "trading" THEN PatchStep(p, "set trading", "set exchange")
                      ELSE PatchStep(p, "set exchange", "commit")
  /\ key' = [key EXCEPT ![f] = Wanted(p, f)]
  /\ UNCHANGED <<row, lock, boot, order, faults>>

\* Mutant: the lock of the trading row outlives its transaction.
UnlockHalf(p) == lock' = [lock EXCEPT !["exchange"] = @ \ {p}]

\* The end of a transaction releases its row locks.
Unlock(p) == lock' = [f \in Field |-> lock[f] \ {p}]

\* get_db_session commits when the handler has returned.
CommitPatch(p) ==
  /\ PatchStep(p, "commit", "done")
  /\ row' = [f \in Field |-> IF f \in patch[p].wrote THEN Wanted(p, f) ELSE row[f]]
  /\ Unlock(p)
  /\ UNCHANGED <<key, boot, order, faults>>

\* A Redis error or a dead process rolls the rows back, not the keys.
FailPatch(p) ==
  /\ patch[p].pc \notin {"idle", "done", "failed"}
  /\ patch' = [patch EXCEPT ![p].pc = "failed", ![p].wrote = {}]
  /\ Unlock(p)
  /\ Fault
  /\ UNCHANGED <<row, key, boot, order>>

\* Mutant: the session commits before the keys are written.
CommitFirst(p) ==
  \/ Begin(p)
  \/ \E f \in Field : Get(p, f) \/ Put(p, f)
  \/ /\ PatchStep(p, "set trading", "late trading")
     /\ row' = [f \in Field |-> IF f \in patch[p].wrote THEN Wanted(p, f) ELSE row[f]]
     /\ Unlock(p)
     /\ UNCHANGED <<key, boot, order, faults>>
  \/ /\ PatchStep(p, "late trading", "late exchange")
     /\ key' = [key EXCEPT !["trading"] = Wanted(p, "trading")]
     /\ UNCHANGED <<row, lock, boot, order, faults>>
  \/ /\ PatchStep(p, "late exchange", "done")
     /\ key' = [key EXCEPT !["exchange"] = Wanted(p, "exchange")]
     /\ UNCHANGED <<row, lock, boot, order, faults>>

\* update_trading_mode_config.
Update(p) ==
  \/ Begin(p) \/ CommitPatch(p)
  \/ \E f \in Field : Get(p, f) \/ Put(p, f) \/ SetKey(p, f)

-----------------------------------------------------------------------------
(* sync_db_trading_mode_to_redis, when an API process starts. *)

\* A pair that does not agree is refused by write_trading_mode_overrides, and
\* the error only logged.
BootRead(b) ==
  /\ boot[b].pc = "idle"
  /\ boot' = [boot EXCEPT ![b] = [pair |-> row,
                pc |-> IF row.exchange = Drives(row.trading) THEN "set trading" ELSE "up"]]
  /\ UNCHANGED <<row, lock, key, patch, order, faults>>

BootSet(b, f) ==
  /\ boot[b].pc = IF f = "trading" THEN "set trading" ELSE "set exchange"
  /\ boot' = [boot EXCEPT ![b].pc = IF f = "trading" THEN "set exchange" ELSE "up"]
  /\ key' = [key EXCEPT ![f] = boot[b].pair[f]]
  /\ UNCHANGED <<row, lock, patch, order, faults>>

-----------------------------------------------------------------------------
(* Orders. *)

\* resolve_trading_mode: one MGET; each key falls back to the environment by
\* itself, both do if Redis does not answer.
Resolved(answered) ==
  [f \in Field |-> IF answered /\ key[f] # Unset THEN key[f] ELSE Env[f]]

\* Mutant: the exchange mode alone decides.
ConflictIgnored(pair) == FALSE

\* The two names disagree.
Conflict(pair) == pair.exchange # Drives(pair.trading)

\* execute_proposal looks at the environment to choose between the services.
StartOrder(c) ==
  /\ order[c].pc = "idle"
  /\ order' = [order EXCEPT ![c].pc = "resolve",
       ![c].by = IF PathOf[c] = "route" /\ Env.exchange \in {"demo", "testnet"}
                   THEN "service" ELSE "tool"]
  /\ UNCHANGED <<row, lock, key, patch, boot, faults>>

\* BinanceFuturesAdapter: the base URL is the environment's; it raises for the
\* production one unless live trading is enabled.
AdapterOrder(c, pair) ==
  order' = [order EXCEPT ![c].pc = "done", ![c].mode = pair,
              ![c].venue = CASE ~ ProductionUrl -> "virtual"
                             [] ProductionUrl /\ LiveEnabled -> "production"
                             [] ProductionUrl /\ ~ LiveEnabled -> "none"]

Blocked(c, pair) == order' = [order EXCEPT ![c].pc = "done", ![c].mode = pair]

\* ExecutionService checks 3, 3b and 4: the mode is the process's own.
ServiceChecks(pair) ==
  /\ Env.trading \in {"DEMO", "TESTNET", "LIVE"}
  /\ ~ Conflict(pair)
  /\ Env.trading = "LIVE" => LiveEnabled

ServiceOrder(c, pair) ==
  /\ order[c].pc = "resolve" /\ order[c].by = "service"
  /\ IF ServiceChecks(pair) THEN AdapterOrder(c, pair) ELSE Blocked(c, pair)

\* validate_demo_routing: a look at the environment's profile.
RoutingPasses ==
  /\ Env.exchange = "testnet" => ~ ProductionUrl
  /\ Env.exchange = "live" => LiveEnabled

\* place_order: blocked, simulated, handed on to _demo_execute, or sent.
ToolOrder(c, pair) ==
  /\ order[c].pc = "resolve" /\ order[c].by = "tool"
  /\ CASE Conflict(pair) \/ pair.exchange = "paper" -> Blocked(c, pair)
       [] ~ Conflict(pair) /\ pair.exchange = "demo" ->
            IF RoutingPasses
              THEN order' = [order EXCEPT ![c].pc = "demo", ![c].mode = pair]
              ELSE Blocked(c, pair)
       [] ~ Conflict(pair) /\ pair.exchange = "testnet" -> AdapterOrder(c, pair)
       [] ~ Conflict(pair) /\ pair.exchange = "live" ->
            IF LiveEnabled THEN AdapterOrder(c, pair) ELSE Blocked(c, pair)

\* _demo_execute resolves again, and goes on with whatever is order-capable.
DemoExecute(c, pair) ==
  /\ order[c].pc = "demo"
  /\ IF Conflict(pair) \/ pair.exchange = "paper"
       THEN Blocked(c, pair) ELSE AdapterOrder(c, pair)

Order(c) ==
  /\ \E answered \in BOOLEAN :
       /\ IF answered THEN UNCHANGED faults ELSE Fault
       /\ ServiceOrder(c, Resolved(answered)) \/ ToolOrder(c, Resolved(answered))
            \/ DemoExecute(c, Resolved(answered))
  /\ UNCHANGED <<row, lock, key, patch, boot>>

-----------------------------------------------------------------------------
Next ==
  \/ \E p \in Patch : Update(p) \/ FailPatch(p)
  \/ \E b \in Boot : BootRead(b) \/ (\E f \in Field : BootSet(b, f))
  \/ \E c \in Caller : StartOrder(c) \/ Order(c)

Spec == Init /\ [][Next]_vars

\* The database grants a free row; handlers run on.
FairSpec == Spec /\ \A p \in Patch : WF_vars(patch[p].pc # "idle" /\ Update(p))

-----------------------------------------------------------------------------
(* Properties. *)

TypeOK ==
  /\ row \in Pair
  /\ lock \in [Field -> SUBSET Patch]
  /\ key.trading \in TradingName \cup {Unset} /\ key.exchange \in ExchangeName \cup {Unset}
  /\ DOMAIN patch = Patch /\ \A p \in Patch : patch[p].wrote \subseteq Field
  /\ \A b \in Boot : boot[b].pair \in Pair
  /\ \A c \in Caller : /\ order[c].by \in {"none", "service", "tool"}
                       /\ order[c].mode \in Pair
                       /\ order[c].venue \in {"none", "virtual", "production"}
  /\ faults \in 0 .. MaxFaults

\* From the first key a switch to PAPER writes, place_order sends no order that
\* resolves with an answer from Redis: a half-written pair is a conflict, not
\* the old mode (place_order: "PAPER is forced to _paper_execute").
PaperStopsTheTool ==
  [][\A c \in Caller :
       /\ order[c].by = "tool" /\ order[c].venue = "none" /\ order'[c].venue # "none"
       /\ faults' = faults
       => key.trading # "PAPER" /\ key.exchange # "paper"]_vars

\* Requests that each updated both rows leave Redis and the database with the
\* same pair, however they overlap: the row lock is held across the two SETs.
RedisFollowsRows ==
  /\ \E p \in Patch : patch[p].pc = "done"
  /\ \A p \in Patch : \/ patch[p].pc = "idle"
                      \/ patch[p].pc = "done" /\ patch[p].wrote = Field
  /\ \A b \in Boot : boot[b].pc = "idle"
  => key = row

\* Requests that wait for each other's rows all end: both upserts take the rows
\* in the same order.
PatchesEnd == \A p \in Patch : patch[p].pc # "idle" ~> patch[p].pc \in {"done", "failed"}

\* The persisted rows are a validated pair (set_trading_mode_config).
PersistedPairAgrees == row.exchange = Drives(row.trading)

\* A resolved PAPER never reaches the real-order path (execution_service.py:31-33).
PaperNeverReachesService ==
  \A c \in Caller : order[c].by = "service" /\ order[c].venue # "none"
                      => order[c].mode.exchange # "paper"

\* A demo order of the execute route does not go through place_order
\* (trading.py:236-242).
DemoUsesService ==
  \A c \in Caller : PathOf[c] = "route" /\ order[c].venue # "none"
                      /\ order[c].mode.exchange = "demo" => order[c].by = "service"

\* An order resolved as demo or testnet stays off the production endpoint
\* (exchange_routing.py: "Production endpoints are never used in demo/testnet mode").
VirtualStaysVirtual ==
  \A c \in Caller : order[c].mode.exchange \in {"demo", "testnet"}
                      => order[c].venue # "production"
=============================================================================
