---------------------------- MODULE AutoApproval ----------------------------
(***************************************************************************)
(* The demo auto-approval evaluator: a beat every Period sends a message,  *)
(* a worker takes it (late, when its slots are busy; again, when a worker  *)
(* is lost), asks the HAWK condition watch for the posture of the symbols, *)
(* advances the READY streak kept in one Redis key (GET, compute, SET or   *)
(* DELETE: no lock, no transaction) and runs the guards of the policy.     *)
(*                                                                         *)
(* Time is counted in units of a few minutes.  Several things happen in    *)
(* one unit; the order in which they do is the order of the steps.         *)
(***************************************************************************)
EXTENDS Naturals, Integers, FiniteSets

CONSTANTS
  Symbols,         \* the watched symbols
  NBeats,          \* bound: how often the beat fires
  Period,          \* time between two beats (crontab 5,20,35,50)
  MaxGap,          \* AUTO_APPROVAL_READY_CONFIRM_MAX_GAP_SECONDS
  KeyTTL,          \* AUTO_APPROVAL_READY_CONFIRM_TTL_SECONDS
  MaxAge,          \* AUTO_APPROVAL_READY_MAX_AGE_SECONDS
  RequiredTicks,   \* AUTO_APPROVAL_READY_CONFIRMATION_TICKS
  HardLimit,       \* task_time_limit
  Horizon,         \* bound: the clock stops here
  MaxFaults,       \* bound: lost workers and Redis errors
  NoSymbol         \* no clean single READY symbol, or no key

ASSUME ApprovalAssumption ==
  /\ {NBeats, Period, MaxGap, KeyTTL, MaxAge, HardLimit, Horizon, MaxFaults} \subseteq Nat
  /\ RequiredTicks \in Nat \ {0, 1}
  /\ NoSymbol \notin Symbols

Beats == 1..NBeats

VARIABLES
  clock,           \* the wall clock
  key,             \* the Redis key of the project: a streak or NoSymbol
  pc,              \* where the evaluation of each beat stands
  now,             \* its `now`, taken when the task starts
  generatedAt,     \* when its posture snapshot was stamped
  streak,          \* its ready_symbol, NoSymbol unless READY and mode_ok
  prev,            \* the streak it has read
  confirmations,   \* its ready_confirmations
  tries,           \* how often its message was delivered
  reason,          \* the reason of the decision logged last
  observed,        \* history: the READY observations of all deliveries
  faults           \* lost workers and Redis errors so far

local == <<now, generatedAt, streak, prev, confirmations>>
vars == <<clock, key, pc, local, tries, reason, observed, faults>>

Working == {"evaluating", "reading", "writing", "deciding"}
Postures == {"READY", "WATCH_ONLY", "NOT_READY"}
Reasons == {"none", "not_ready", "ready_stale", "ready_not_confirmed",
            "other_guard", "all_guards_passed"}
Streaks == [count : Nat \ {0}, symbol : Symbols, first : Nat, last : Nat]

Init ==
  /\ clock = 0 /\ key = NoSymbol /\ faults = 0
  /\ pc = [b \in Beats |-> "scheduled"]
  /\ now = [b \in Beats |-> 0]
  /\ generatedAt = [b \in Beats |-> 0]
  /\ streak = [b \in Beats |-> NoSymbol]
  /\ prev = [b \in Beats |-> NoSymbol]
  /\ confirmations = [b \in Beats |-> 0]
  /\ tries = [b \in Beats |-> 0]
  /\ reason = "none" /\ observed = {}

----------------------------------------------------------------------------
(* The pure parts: the posture of the watch and the next streak.           *)

ReadySymbols(posture) == {s \in Symbols : posture[s] = "READY"}

OverallPosture(posture) ==
  IF ReadySymbols(posture) # {} THEN "READY"
  ELSE IF \E s \in Symbols : posture[s] = "WATCH_ONLY" THEN "HOLD" ELSE "NOT_READY"

SingleReadySymbol(posture) ==
  IF OverallPosture(posture) = "READY" /\ Cardinality(ReadySymbols(posture)) = 1
  THEN CHOOSE s \in Symbols : posture[s] = "READY" ELSE NoSymbol

\* Mutant: the symbol of the stored streak is not compared.
ContinuesAnySymbol(p, s, t) ==
  p # NoSymbol /\ 0 <= t - p.last /\ t - p.last <= MaxGap

\* Mutant: the gap since the last READY tick is not bounded.
ContinuesAfterGap(p, s, t) == p # NoSymbol /\ p.symbol = s /\ 0 <= t - p.last

Continues(p, s, t) ==
  p # NoSymbol /\ p.symbol = s /\ 0 <= t - p.last /\ t - p.last <= MaxGap

\* Mutant: a restarted streak keeps the count it had.
NextStreakKeepsCount(p, s, t) ==
  IF s = NoSymbol THEN NoSymbol
  ELSE IF Continues(p, s, t) THEN [p EXCEPT !.count = @ + 1, !.last = t]
  ELSE [count |-> IF p = NoSymbol THEN 1 ELSE p.count + 1,
        symbol |-> s, first |-> t, last |-> t]

\* Mutant: a reset stores an empty streak instead of dropping the key.
NextStreakZero(p, s, t) ==
  IF s = NoSymbol /\ p # NoSymbol THEN [p EXCEPT !.count = 0]
  ELSE IF s = NoSymbol THEN NoSymbol
  ELSE IF Continues(p, s, t) THEN [p EXCEPT !.count = @ + 1, !.last = t]
  ELSE [count |-> 1, symbol |-> s, first |-> t, last |-> t]

\* compute_ready_confirmation: NoSymbol is the reset.
NextStreak(p, s, t) ==
  IF s = NoSymbol THEN NoSymbol
  ELSE IF Continues(p, s, t) THEN [p EXCEPT !.count = @ + 1, !.last = t]
  ELSE [count |-> 1, symbol |-> s, first |-> t, last |-> t]

CountOf(k) == IF k = NoSymbol THEN 0 ELSE k.count

\* In half units, because the snapshot is stamped after `now` was taken even
\* when both fall into the same unit of the clock.
SnapshotIsFresh(b) ==
  LET age == 2 * now[b] - (2 * generatedAt[b] + 1)
  IN  0 <= age /\ age <= 2 * MaxAge

\* The first failing guard of evaluate_auto_approval; `others` stands for the
\* guards on rows, caps, cooldown and HAWK votes.
Verdict(b, others) ==
  IF streak[b] = NoSymbol THEN "not_ready"
  ELSE IF ~SnapshotIsFresh(b) THEN "ready_stale"
  ELSE IF confirmations[b] < RequiredTicks THEN "ready_not_confirmed"
  ELSE IF ~others THEN "other_guard" ELSE "all_guards_passed"

----------------------------------------------------------------------------
(* The clock, the beat and the worker.                                     *)

\* Time passes; no task outlives the hard limit.
Advance ==
  /\ clock < Horizon
  /\ \A b \in Beats : pc[b] \in Working => clock - now[b] < HardLimit
  /\ clock' = clock + 1
  /\ UNCHANGED <<key, pc, local, tries, reason, observed, faults>>

\* The TTL of the key elapses.  It counts from the SET, which is no earlier
\* than the streak's last tick.
Expire ==
  /\ key # NoSymbol /\ clock - key.last >= KeyTTL
  /\ key' = NoSymbol
  /\ UNCHANGED <<clock, pc, local, tries, reason, observed, faults>>

\* A beat that does not fire on its minute never fires.
Publish(b) ==
  /\ pc[b] = "scheduled" /\ clock = (b - 1) * Period
  /\ pc' = [pc EXCEPT ![b] = "queued"]
  /\ UNCHANGED <<clock, key, local, tries, reason, observed, faults>>

\* A worker takes the message, maybe long after the beat.
Start(b) ==
  /\ pc[b] = "queued"
  /\ pc' = [pc EXCEPT ![b] = "evaluating"]
  /\ now' = [now EXCEPT ![b] = clock]
  /\ tries' = [tries EXCEPT ![b] = @ + 1]
  /\ UNCHANGED <<clock, key, generatedAt, streak, prev, confirmations, reason,
                 observed, faults>>

\* HawkConditionWatch.evaluate and the mode: any postures of the symbols.
Evaluate(b, posture, modeOk) ==
  LET s == IF modeOk THEN SingleReadySymbol(posture) ELSE NoSymbol
  IN  /\ pc[b] = "evaluating"
      /\ pc' = [pc EXCEPT ![b] = "reading"]
      /\ generatedAt' = [generatedAt EXCEPT ![b] = clock]
      /\ streak' = [streak EXCEPT ![b] = s]
      /\ observed' = IF s = NoSymbol THEN observed
                     ELSE observed \cup {[beat |-> b, try |-> tries[b],
                                          symbol |-> s, at |-> now[b]]}
      /\ UNCHANGED <<clock, key, now, prev, confirmations, tries, reason, faults>>

\* GET of the key.
Read(b) ==
  /\ pc[b] = "reading"
  /\ pc' = [pc EXCEPT ![b] = "writing"]
  /\ prev' = [prev EXCEPT ![b] = key]
  /\ UNCHANGED <<clock, key, now, generatedAt, streak, confirmations, tries,
                 reason, observed, faults>>

\* SET of the next streak, or DELETE: whatever the key holds by now.
Write(b) ==
  LET next == NextStreak(prev[b], streak[b], now[b])
  IN  /\ pc[b] = "writing"
      /\ pc' = [pc EXCEPT ![b] = "deciding"]
      /\ key' = next
      /\ confirmations' = [confirmations EXCEPT ![b] = CountOf(next)]
      /\ prev' = [prev EXCEPT ![b] = NoSymbol]
      /\ UNCHANGED <<clock, now, generatedAt, streak, tries, reason, observed, faults>>

\* GET, SET or DELETE raises: zero confirmations; a write may have arrived.
RedisError(b) ==
  /\ faults < MaxFaults /\ pc[b] \in {"reading", "writing"}
  /\ faults' = faults + 1
  /\ pc' = [pc EXCEPT ![b] = "deciding"]
  /\ confirmations' = [confirmations EXCEPT ![b] = 0]
  /\ prev' = [prev EXCEPT ![b] = NoSymbol]
  /\ \/ key' = key
     \/ pc[b] = "writing" /\ key' = NextStreak(prev[b], streak[b], now[b])
  /\ UNCHANGED <<clock, now, generatedAt, streak, tries, reason, observed>>

\* The local variables of a task that has ended.
Forget(b) ==
  /\ now' = [now EXCEPT ![b] = 0]
  /\ generatedAt' = [generatedAt EXCEPT ![b] = 0]
  /\ streak' = [streak EXCEPT ![b] = NoSymbol]
  /\ prev' = [prev EXCEPT ![b] = NoSymbol]
  /\ confirmations' = [confirmations EXCEPT ![b] = 0]

\* evaluate_auto_approval; no disposition of the placement sends an order.
Decide(b, others) ==
  /\ pc[b] = "deciding"
  /\ pc' = [pc EXCEPT ![b] = "done"]
  /\ reason' = Verdict(b, others)
  /\ Forget(b)
  /\ UNCHANGED <<clock, key, tries, observed, faults>>

\* A step raises, or the soft or the hard time limit ends the task.
Abort(b) ==
  /\ pc[b] \in Working
  /\ pc' = [pc EXCEPT ![b] = "done"]
  /\ reason' = "none"
  /\ Forget(b)
  /\ UNCHANGED <<clock, key, tries, observed, faults>>

\* The worker process is lost: the message, acknowledged late, comes again.
WorkerLost(b) ==
  /\ faults < MaxFaults /\ pc[b] \in Working
  /\ faults' = faults + 1
  /\ pc' = [pc EXCEPT ![b] = "queued"]
  /\ Forget(b)
  /\ UNCHANGED <<clock, key, tries, reason, observed>>

Next ==
  \/ Advance \/ Expire
  \/ \E b \in Beats :
       \/ Publish(b) \/ Start(b) \/ Read(b) \/ Write(b) \/ RedisError(b)
       \/ Abort(b) \/ WorkerLost(b)
       \/ \E posture \in [Symbols -> Postures], modeOk \in BOOLEAN :
            Evaluate(b, posture, modeOk)
       \/ \E others \in BOOLEAN : Decide(b, others)

Spec == Init /\ [][Next]_vars

----------------------------------------------------------------------------
\* Every variable keeps its type; in particular the key never holds a streak
\* of length zero, which from_json would hand to the next tick.
TypeOK ==
  /\ clock \in 0..Horizon
  /\ key \in Streaks \cup {NoSymbol}
  /\ pc \in [Beats -> Working \cup {"scheduled", "queued", "done"}]
  /\ now \in [Beats -> 0..Horizon]
  /\ generatedAt \in [Beats -> 0..Horizon]
  /\ streak \in [Beats -> Symbols \cup {NoSymbol}]
  /\ prev \in [Beats -> Streaks \cup {NoSymbol}]
  /\ confirmations \in [Beats -> Nat]
  /\ reason \in Reasons
  /\ tries \in [Beats -> Nat]
  /\ faults \in 0..MaxFaults

Seen(k) == {o \in observed : o.symbol = k.symbol /\ o.at \in k.first..k.last}

\* A count of n stands for n deliveries that each saw this symbol READY within
\* the streak: lost updates of the unlocked GET and SET, late starts, repeated
\* deliveries and resets can make it smaller, never larger.
CountIsWitnessed == key # NoSymbol => key.count <= Cardinality(Seen(key))

\* A stored streak of n ticks spans at most n - 1 times MaxGap and does not end
\* in the future, whatever the order of the writes.  At a count of 2, which is what
\* the shipped policy requires, that is the gap between its two ticks; of a longer
\* streak it is their mean gap, not each gap by itself.
StreakSpanBounded ==
  key # NoSymbol =>
    /\ key.first <= key.last /\ key.last <= clock
    /\ key.last - key.first <= (key.count - 1) * MaxGap

\* What the anti-flicker guard is for: an evaluation that counts as confirmed
\* was preceded, within MaxGap, by another delivery that saw the same symbol.  That
\* may be a redelivery of its own beat, and a tick without READY may have come in
\* between if an overlapping write undid its reset: the documented "consecutive
\* ticks" are more than this.
ConfirmedByAnother ==
  \A b \in Beats :
    pc[b] = "deciding" /\ confirmations[b] >= RequiredTicks =>
      \E o \in observed :
        /\ <<o.beat, o.try>> # <<b, tries[b]>>
        /\ o.symbol = streak[b]
        /\ o.at \in (now[b] - MaxGap)..now[b]

\* What config.py and demo_auto_approval_ready_state.py say of an enabled
\* policy: it turns a fresh READY into an approval, and the confirmation count
\* was the last blocker.  A snapshot younger than MaxAge is not called stale.
FreshReadyIsNotStale ==
  [][\A b \in Beats :
       pc[b] = "deciding" /\ pc'[b] = "done" /\ reason' = "ready_stale" =>
         clock - generatedAt[b] > MaxAge]_vars
============================================================================
