-------------------------- MODULE AutoApprovalProofs --------------------------
(***************************************************************************)
(* Proofs about AutoApproval, for any number of beats, any symbols, any    *)
(* time limits and any number of lost workers and Redis errors.            *)
(***************************************************************************)
EXTENDS AutoApproval, FiniteSetTheorems, TLAPS

-----------------------------------------------------------------------------
(* The inductive invariant. *)

\* An observation is of a delivery that has taken place.
Observations ==
  \A o \in observed : /\ o.beat \in Beats /\ o.try \in Nat /\ o.try <= tries[o.beat]
                      /\ o.symbol \in Symbols /\ o.at \in Nat

\* The delivery that made an observation has passed its write.
Spent(o) == o.try < tries[o.beat] \/ pc[o.beat] \notin {"evaluating", "reading", "writing"}

\* A streak never ends in the future, is no longer than its count allows, and its
\* last tick was seen by a delivery that is past its write.
Sound(k) ==
  /\ k.first <= k.last /\ k.last <= clock
  /\ k.last - k.first <= (k.count - 1) * MaxGap
  /\ \E o \in observed : Spent(o) /\ o.symbol = k.symbol /\ o.at = k.last

\* The stored streak, and every streak a delivery has read and not yet used.
StreaksSound ==
  /\ key # NoSymbol => Sound(key)
  /\ \A b \in Beats : prev[b] # NoSymbol => Sound(prev[b])

\* A delivery that is about to write has made its own observation.
OwnObservation ==
  \A b \in Beats :
    pc[b] \in {"reading", "writing"} /\ streak[b] # NoSymbol =>
      \E o \in observed : o.beat = b /\ o.try = tries[b] /\ o.symbol = streak[b] /\ o.at = now[b]

Started == \A b \in Beats : now[b] <= clock

ApprovalInv ==
  /\ TypeOK /\ Observations /\ StreaksSound /\ OwnObservation /\ Started
  /\ ConfirmedByAnother

-----------------------------------------------------------------------------
(* Type correctness. *)

LEMMA NoSymbolIsNoStreak == NoSymbol \notin Symbols
BY ApprovalAssumption DEF ApprovalAssumption

LEMMA TypeInit == Init => TypeOK
BY ApprovalAssumption DEF Init, TypeOK, ApprovalAssumption, Working, Reasons

LEMMA SingleReadyType ==
  ASSUME NEW posture \in [Symbols -> Postures]
  PROVE  SingleReadySymbol(posture) \in Symbols \cup {NoSymbol}
<1>1. CASE OverallPosture(posture) = "READY"
  <2>1. ReadySymbols(posture) # {}
    BY <1>1 DEF OverallPosture
  <2>2. \E s \in Symbols : posture[s] = "READY"
    BY <2>1 DEF ReadySymbols
  <2>3. (CHOOSE s \in Symbols : posture[s] = "READY") \in Symbols
    BY <2>2
  <2> QED
    BY <2>3 DEF SingleReadySymbol
<1>2. CASE OverallPosture(posture) # "READY"
  BY <1>2 DEF SingleReadySymbol
<1> QED
  BY <1>1, <1>2

LEMMA StreakExtended ==
  ASSUME NEW C, NEW p \in [count : C, symbol : Symbols, first : Nat, last : Nat],
         NEW c \in C, NEW t \in Nat
  PROVE  [p EXCEPT !.count = c, !.last = t]
           \in [count : C, symbol : Symbols, first : Nat, last : Nat]
OBVIOUS

LEMMA NextStreakType ==
  ASSUME NEW p \in Streaks \cup {NoSymbol}, NEW s \in Symbols \cup {NoSymbol}, NEW t \in Nat
  PROVE  /\ NextStreak(p, s, t) \in Streaks \cup {NoSymbol}
         /\ CountOf(NextStreak(p, s, t)) \in Nat
<1>1. CASE s = NoSymbol
  BY <1>1 DEF NextStreak, CountOf
<1>2. CASE s # NoSymbol /\ Continues(p, s, t)
  <2>1. p \in Streaks
    BY <1>2 DEF Continues
  <2>2. [p EXCEPT !.count = @ + 1, !.last = t] \in Streaks
    <3>1. p.count + 1 \in Nat \ {0}
      BY <2>1 DEF Streaks
    <3> QED
      BY <2>1, <3>1, StreakExtended DEF Streaks
  <2>3. NextStreak(p, s, t) = [p EXCEPT !.count = @ + 1, !.last = t]
    BY <1>2 DEF NextStreak
  <2>4. \A k \in Streaks : k.count \in Nat
    BY DEF Streaks
  <2> QED
    BY <2>2, <2>3, <2>4 DEF CountOf
<1>3. CASE s # NoSymbol /\ ~ Continues(p, s, t)
  <2>1. [count |-> 1, symbol |-> s, first |-> t, last |-> t] \in Streaks
    BY <1>3 DEF Streaks
  <2>2. NextStreak(p, s, t) = [count |-> 1, symbol |-> s, first |-> t, last |-> t]
    BY <1>3 DEF NextStreak
  <2> QED
    BY <2>1, <2>2 DEF CountOf
<1> QED
  BY <1>1, <1>2, <1>3

LEMMA TypeStep == TypeOK /\ [Next]_vars => TypeOK'
<1> SUFFICES ASSUME TypeOK, [Next]_vars PROVE TypeOK'
  OBVIOUS
<1> USE ApprovalAssumption DEF ApprovalAssumption
<1>1. ASSUME Advance PROVE TypeOK'
  BY <1>1 DEF Advance, TypeOK, local
<1>2. ASSUME Expire PROVE TypeOK'
  BY <1>2 DEF Expire, TypeOK, local
<1>3. ASSUME NEW b \in Beats, Publish(b) PROVE TypeOK'
  BY <1>3 DEF Publish, TypeOK, local
<1>4. ASSUME NEW b \in Beats, Start(b) PROVE TypeOK'
  BY <1>4 DEF Start, TypeOK, Working
<1>5. ASSUME NEW b \in Beats, NEW posture \in [Symbols -> Postures], NEW modeOk \in BOOLEAN,
             Evaluate(b, posture, modeOk) PROVE TypeOK'
  <2> DEFINE s == IF modeOk THEN SingleReadySymbol(posture) ELSE NoSymbol
  <2>1. s \in Symbols \cup {NoSymbol}
    BY SingleReadyType
  <2> HIDE DEF s
  <2>2. streak' = [streak EXCEPT ![b] = s]
    BY <1>5 DEF Evaluate, s
  <2> QED
    BY <1>5, <2>1, <2>2 DEF Evaluate, TypeOK, Working
<1>6. ASSUME NEW b \in Beats, Read(b) PROVE TypeOK'
  BY <1>6 DEF Read, TypeOK, Working
<1>7. ASSUME NEW b \in Beats, Write(b) \/ RedisError(b) PROVE TypeOK'
  <2> DEFINE next == NextStreak(prev[b], streak[b], now[b])
  <2>1. next \in Streaks \cup {NoSymbol} /\ CountOf(next) \in Nat
    BY NextStreakType DEF TypeOK
  <2> HIDE DEF next
  <2>2. CASE Write(b)
    BY <2>1, <2>2 DEF Write, TypeOK, Working, next
  <2>3. CASE RedisError(b)
    BY <2>1, <2>3 DEF RedisError, TypeOK, Working, next
  <2> QED
    BY <1>7, <2>2, <2>3
<1>8. ASSUME NEW b \in Beats, Forget(b)
      PROVE  /\ now' \in [Beats -> 0..Horizon]
             /\ generatedAt' \in [Beats -> 0..Horizon]
             /\ streak' \in [Beats -> Symbols \cup {NoSymbol}]
             /\ prev' \in [Beats -> Streaks \cup {NoSymbol}]
             /\ confirmations' \in [Beats -> Nat]
  BY <1>8 DEF Forget, TypeOK
<1>9. ASSUME NEW b \in Beats, NEW others \in BOOLEAN, Decide(b, others) PROVE TypeOK'
  <2>1. Verdict(b, others) \in Reasons
    BY DEF Verdict, Reasons
  <2> QED
    BY <1>8, <1>9, <2>1 DEF Decide, TypeOK
<1>10. ASSUME NEW b \in Beats, Abort(b) PROVE TypeOK'
  BY <1>8, <1>10 DEF Abort, TypeOK, Reasons
<1>11. ASSUME NEW b \in Beats, WorkerLost(b) PROVE TypeOK'
  BY <1>8, <1>11 DEF WorkerLost, TypeOK
<1>12. ASSUME UNCHANGED vars PROVE TypeOK'
  BY <1>12 DEF vars, local, TypeOK
<1> QED
  BY <1>1, <1>2, <1>3, <1>4, <1>5, <1>6, <1>7, <1>9, <1>10, <1>11, <1>12 DEF Next

-----------------------------------------------------------------------------
(* What every step keeps. *)

\* Time, deliveries and observations only grow.
LEMMA OnlyGrows ==
  ASSUME ApprovalInv, [Next]_vars
  PROVE  /\ clock <= clock' /\ observed \subseteq observed'
         /\ \A b \in Beats : tries[b] <= tries'[b]
<1> USE DEF ApprovalInv, TypeOK
<1>1. clock <= clock'
  BY ApprovalAssumption
     DEF ApprovalAssumption, Next, vars, local, Advance, Expire, Publish, Start, Evaluate, Read,
         Write, RedisError, Decide, Abort, WorkerLost
<1>2. observed \subseteq observed'
  BY DEF Next, vars, local, Advance, Expire, Publish, Start, Evaluate, Read,
         Write, RedisError, Decide, Abort, WorkerLost
<1>3. \A b \in Beats : tries[b] <= tries'[b]
  BY DEF Next, vars, local, Advance, Expire, Publish, Start, Evaluate, Read,
         Write, RedisError, Decide, Abort, WorkerLost
<1> QED
  BY <1>1, <1>2, <1>3

\* A delivery that is past its write never goes back: its message is delivered
\* again under a new number.
LEMMA SpentKept ==
  ASSUME ApprovalInv, [Next]_vars, NEW o \in observed, Spent(o)
  PROVE  Spent(o)'
<1> USE DEF ApprovalInv, TypeOK
<1>1. o.beat \in Beats /\ o.try \in Nat /\ o.try <= tries[o.beat]
  BY DEF Observations
<1>2. CASE o.try < tries[o.beat]
  BY <1>1, <1>2, OnlyGrows, TypeStep DEF Spent
<1>3. CASE o.try = tries[o.beat] /\ pc[o.beat] \notin {"evaluating", "reading", "writing"}
  <2>1. ASSUME NEW b \in Beats, Start(b) PROVE Spent(o)'
    BY <1>1, <1>3, <2>1 DEF Start, Spent
  <2>2. CASE pc'[o.beat] \notin {"evaluating", "reading", "writing"}
    BY <2>2 DEF Spent
  <2>3. ASSUME ~ \E b \in Beats : Start(b) 
               PROVE  pc'[o.beat] \notin {"evaluating", "reading", "writing"}
    BY <1>1, <1>3, <2>3
       DEF Next, vars, local, Advance, Expire, Publish, Evaluate, Read,
           Write, RedisError, Decide, Abort, WorkerLost
  <2> QED
    BY <2>1, <2>2, <2>3
<1> QED
  BY <1>1, <1>2, <1>3 DEF Spent

LEMMA SoundKept ==
  ASSUME ApprovalInv, [Next]_vars, NEW k \in Streaks, Sound(k)
  PROVE  Sound(k)'
<1>1. k.first <= k.last /\ k.last <= clock' /\ k.last - k.first <= (k.count - 1) * MaxGap
  <2>1. k.last \in Nat /\ clock \in Nat /\ clock' \in Nat
    BY TypeStep DEF Streaks, ApprovalInv, TypeOK
  <2> QED
    BY <2>1, OnlyGrows DEF Sound
<1>2. \E o \in observed' : Spent(o)' /\ o.symbol = k.symbol /\ o.at = k.last
  BY SpentKept, OnlyGrows DEF Sound
<1> QED
  BY <1>1, <1>2 DEF Sound

-----------------------------------------------------------------------------
(* The invariant is kept by every step. *)

LEMMA ApprovalInit == Init => ApprovalInv
BY TypeInit DEF Init, ApprovalInv, Observations, StreaksSound, OwnObservation, Started,
                ConfirmedByAnother

\* What a write stores: the observation of the delivery itself backs it, and
\* the streak it continues was no longer than its count allows.
LEMMA NextSound ==
  ASSUME ApprovalInv, NEW b \in Beats, pc[b] = "writing", pc'[b] = "deciding",
         UNCHANGED <<clock, observed, tries>>,
         NEW next, next = NextStreak(prev[b], streak[b], now[b]), next # NoSymbol
  PROVE  Sound(next)'
<1> USE DEF ApprovalInv, TypeOK
<1>1. streak[b] \in Symbols
  BY DEF NextStreak
<1>2. PICK o \in observed :
        o.beat = b /\ o.try = tries[b] /\ o.symbol = streak[b] /\ o.at = now[b]
  BY <1>1, NoSymbolIsNoStreak DEF OwnObservation
<1>3. Spent(o)'
  BY <1>2 DEF Spent
<1>4. now[b] \in Nat /\ now[b] <= clock /\ MaxGap \in Nat
  BY ApprovalAssumption DEF Started, ApprovalAssumption
<1>5. CASE Continues(prev[b], streak[b], now[b])
  <2>1. prev[b] \in Streaks /\ prev[b].symbol = streak[b]
    BY <1>5 DEF Continues
  <2> DEFINE p == prev[b]
  <2>2. next = [p EXCEPT !.count = @ + 1, !.last = now[b]]
    BY <1>1, <1>5, NoSymbolIsNoStreak DEF NextStreak
  <2>3. /\ next.count = p.count + 1 /\ next.first = p.first /\ next.last = now[b]
        /\ next.symbol = streak[b]
        /\ p.count \in Nat /\ p.first \in Nat /\ p.last \in Nat
    BY <2>1, <2>2 DEF Streaks
  <2>4. /\ p.first <= p.last /\ p.last - p.first <= (p.count - 1) * MaxGap
        /\ p.last <= now[b] /\ now[b] - p.last <= MaxGap
    BY <1>4, <1>5, <2>1, <2>3, NoSymbolIsNoStreak DEF StreaksSound, Sound, Continues
  <2>5. (p.count - 1) * MaxGap + MaxGap = (next.count - 1) * MaxGap
    BY <1>4, <2>3
  <2>6. (p.count - 1) * MaxGap \in Int /\ (next.count - 1) * MaxGap \in Int
    BY <1>4, <2>3
  <2>7. next.last - next.first <= (next.count - 1) * MaxGap /\ next.first <= next.last
    BY <1>4, <2>3, <2>4, <2>5, <2>6
  <2> QED
    BY <1>2, <1>3, <1>4, <2>3, <2>7 DEF Sound
<1>6. CASE ~ Continues(prev[b], streak[b], now[b])
  <2>1. next = [count |-> 1, symbol |-> streak[b], first |-> now[b], last |-> now[b]]
    BY <1>1, <1>6, NoSymbolIsNoStreak DEF NextStreak
  <2>2. (next.count - 1) * MaxGap = 0
    BY <1>4, <2>1
  <2> QED
    BY <1>2, <1>3, <1>4, <2>1, <2>2 DEF Sound
<1> QED
  BY <1>5, <1>6

\* A step that stores no streak, reads none and observes nothing.
LEMMA NothingStored ==
  ASSUME ApprovalInv, [Next]_vars, UNCHANGED <<key, observed>>,
         \A b \in Beats : prev'[b] \in {prev[b], key, NoSymbol}
  PROVE  Observations' /\ StreaksSound'
<1>1. TypeOK /\ TypeOK'
  BY TypeStep DEF ApprovalInv
<1>2. Observations'
  <2> SUFFICES ASSUME NEW o \in observed
               PROVE  /\ o.beat \in Beats /\ o.try \in Nat /\ o.try <= tries'[o.beat]
                      /\ o.symbol \in Symbols /\ o.at \in Nat
    BY DEF Observations
  <2>1. o.beat \in Beats /\ o.try \in Nat /\ o.try <= tries[o.beat]
    BY DEF ApprovalInv, Observations
  <2>2. tries[o.beat] \in Nat /\ tries'[o.beat] \in Nat /\ tries[o.beat] <= tries'[o.beat]
    BY <1>1, <2>1, OnlyGrows DEF TypeOK
  <2> QED
    BY <2>1, <2>2 DEF ApprovalInv, Observations
<1>3. StreaksSound'
  BY <1>1, SoundKept DEF ApprovalInv, StreaksSound, TypeOK
<1> QED
  BY <1>2, <1>3

\* A step after which no delivery holds an observation or a confirmation that
\* it did not hold before.
LEMMA NothingClaimed ==
  ASSUME ApprovalInv, [Next]_vars,
         \A b \in Beats : pc'[b] # "evaluating" => tries'[b] = tries[b],
         \A b \in Beats :
           pc'[b] \in {"reading", "writing"} =>
             pc[b] \in {"reading", "writing"} /\ streak'[b] = streak[b] /\ now'[b] = now[b],
         \A b \in Beats :
           pc'[b] = "deciding" /\ confirmations'[b] # 0 =>
             /\ pc[b] = "deciding" /\ streak'[b] = streak[b] /\ now'[b] = now[b]
             /\ confirmations'[b] = confirmations[b]
  PROVE  OwnObservation' /\ ConfirmedByAnother'
<1>1. observed \subseteq observed'
  BY OnlyGrows
<1>2. OwnObservation'
  BY <1>1 DEF ApprovalInv, OwnObservation
<1>3. ConfirmedByAnother'
  <2> SUFFICES ASSUME NEW b \in Beats, pc'[b] = "deciding", confirmations'[b] >= RequiredTicks
               PROVE  \E o \in observed' :
                        /\ <<o.beat, o.try>> # <<b, tries'[b]>>
                        /\ o.symbol = streak'[b]
                        /\ o.at \in (now'[b] - MaxGap)..now'[b]
    BY DEF ConfirmedByAnother
  <2>1. confirmations'[b] # 0
    BY ApprovalAssumption, TypeStep DEF ApprovalAssumption, ApprovalInv, TypeOK
  <2>2. /\ pc[b] = "deciding" /\ streak'[b] = streak[b] /\ now'[b] = now[b]
        /\ confirmations'[b] = confirmations[b] /\ tries'[b] = tries[b]
    BY <2>1
  <2>3. PICK o \in observed : /\ <<o.beat, o.try>> # <<b, tries[b]>>
                              /\ o.symbol = streak[b]
                              /\ o.at \in (now[b] - MaxGap)..now[b]
    BY <2>2 DEF ApprovalInv, ConfirmedByAnother
  <2> QED
    BY <1>1, <2>2, <2>3
<1> QED
  BY <1>2, <1>3

LEMMA StartedStep == ApprovalInv /\ [Next]_vars => Started'
<1> SUFFICES ASSUME ApprovalInv, [Next]_vars, NEW b \in Beats PROVE now'[b] <= clock'
  BY DEF Started
<1>1. /\ now[b] \in Nat /\ clock \in Nat /\ clock' \in Nat /\ now[b] <= clock
      /\ clock <= clock'
  BY TypeStep, OnlyGrows DEF ApprovalInv, TypeOK, Started
<1>2. now'[b] \in {now[b], clock, 0}
  BY DEF ApprovalInv, TypeOK, Next, vars, local, Advance, Expire, Publish, Start, Evaluate, Read,
         Write, RedisError, Decide, Abort, WorkerLost, Forget
<1> QED
  BY <1>1, <1>2

\* The step that stores a streak, when the write arrives and is answered.
LEMMA WriteStep ==
  ASSUME ApprovalInv, [Next]_vars, NEW b \in Beats, Write(b)
  PROVE  StreaksSound' /\ ConfirmedByAnother'
<1> USE DEF ApprovalInv
<1>0. TypeOK /\ TypeOK'
  BY TypeStep
<1>n. PICK next : next = NextStreak(prev[b], streak[b], now[b])
  OBVIOUS
<1>1. /\ pc[b] = "writing" /\ pc' = [pc EXCEPT ![b] = "deciding"]
      /\ key' = next /\ confirmations' = [confirmations EXCEPT ![b] = CountOf(next)]
      /\ prev' = [prev EXCEPT ![b] = NoSymbol]
      /\ UNCHANGED <<clock, now, streak, tries, observed>>
  BY <1>n DEF Write
<1>2. next # NoSymbol => Sound(next)'
  <2>1. pc[b] = "writing" /\ pc'[b] = "deciding" /\ UNCHANGED <<clock, observed, tries>>
    BY <1>0, <1>1 DEF TypeOK
  <2> QED
    BY <1>n, <2>1, NextSound
<1>3. StreaksSound'
  BY <1>0, <1>1, <1>2, SoundKept DEF StreaksSound, TypeOK
<1>4. ConfirmedByAnother'
  <2> SUFFICES ASSUME NEW c \in Beats, pc'[c] = "deciding", confirmations'[c] >= RequiredTicks
               PROVE  \E o \in observed :
                        /\ <<o.beat, o.try>> # <<c, tries[c]>>
                        /\ o.symbol = streak[c]
                        /\ o.at \in (now[c] - MaxGap)..now[c]
    BY <1>1 DEF ConfirmedByAnother
  <2>1. CASE c # b
    BY <1>0, <1>1, <2>1 DEF ConfirmedByAnother, TypeOK
  <2>2. CASE c = b
    <3>1. CountOf(next) >= RequiredTicks /\ RequiredTicks \in Nat \ {0, 1}
      BY <1>0, <1>1, <2>2, ApprovalAssumption DEF TypeOK, ApprovalAssumption
    <3>2. streak[b] # NoSymbol /\ Continues(prev[b], streak[b], now[b])
      BY <1>n, <3>1 DEF NextStreak, CountOf
    <3>3. /\ prev[b] # NoSymbol /\ prev[b].symbol = streak[b]
          /\ 0 <= now[b] - prev[b].last /\ now[b] - prev[b].last <= MaxGap
      BY <3>2 DEF Continues
    <3>4. PICK o \in observed : Spent(o) /\ o.symbol = prev[b].symbol /\ o.at = prev[b].last
      BY <3>3 DEF StreaksSound, Sound
    <3>5. <<o.beat, o.try>> # <<b, tries[b]>>
      BY <1>0, <1>1, <3>4 DEF Spent, TypeOK
    <3>6. o.at \in Nat /\ now[b] \in Nat /\ MaxGap \in Nat
      BY <1>0, ApprovalAssumption DEF Observations, TypeOK, ApprovalAssumption
    <3>7. o.at \in (now[b] - MaxGap)..now[b]
      BY <3>3, <3>4, <3>6
    <3> QED
      BY <2>2, <3>3, <3>4, <3>5, <3>7
  <2> QED
    BY <2>1, <2>2
<1> QED
  BY <1>3, <1>4

LEMMA ApprovalStep == ApprovalInv /\ [Next]_vars => ApprovalInv'
<1> SUFFICES ASSUME ApprovalInv, [Next]_vars PROVE ApprovalInv'
  OBVIOUS
<1>0. TypeOK /\ TypeOK' /\ Started'
  BY TypeStep, StartedStep DEF ApprovalInv
<1>1. CASE Advance \/ UNCHANGED vars
  BY <1>0, <1>1, NothingStored, NothingClaimed DEF Advance, vars, local, ApprovalInv
<1>2. CASE Expire
  <2>1. OwnObservation' /\ ConfirmedByAnother'
    BY <1>2, NothingClaimed DEF Expire, local
  <2>2. Observations'
    BY <1>2 DEF Expire, ApprovalInv, Observations
  <2>3. StreaksSound'
    BY <1>0, <1>2, SoundKept DEF Expire, ApprovalInv, StreaksSound, TypeOK, local
  <2> QED
    BY <1>0, <2>1, <2>2, <2>3 DEF ApprovalInv
<1>3. ASSUME NEW b \in Beats, Publish(b) \/ Start(b) PROVE ApprovalInv'
  <2>1. Observations' /\ StreaksSound'
    BY <1>0, <1>3, NothingStored DEF Publish, Start, local
  <2>2. OwnObservation' /\ ConfirmedByAnother'
    BY <1>0, <1>3, NothingClaimed DEF Publish, Start, local, TypeOK
  <2> QED
    BY <1>0, <2>1, <2>2 DEF ApprovalInv
<1>4. ASSUME NEW b \in Beats, NEW posture \in [Symbols -> Postures], NEW modeOk \in BOOLEAN,
             Evaluate(b, posture, modeOk) PROVE ApprovalInv'
  <2> DEFINE s == IF modeOk THEN SingleReadySymbol(posture) ELSE NoSymbol
             o == [beat |-> b, try |-> tries[b], symbol |-> s, at |-> now[b]]
  <2>1. s \in Symbols \cup {NoSymbol}
    BY SingleReadyType
  <2> HIDE DEF s
  <2>2. /\ pc[b] = "evaluating" /\ pc' = [pc EXCEPT ![b] = "reading"]
        /\ streak' = [streak EXCEPT ![b] = s]
        /\ observed' = IF s = NoSymbol THEN observed ELSE observed \cup {o}
        /\ UNCHANGED <<clock, key, now, prev, confirmations, tries>>
    BY <1>4 DEF Evaluate, s
  <2>3. Observations'
    BY <1>0, <2>1, <2>2 DEF ApprovalInv, Observations, TypeOK
  <2>4. StreaksSound'
    BY <1>0, <2>2, SoundKept DEF ApprovalInv, StreaksSound, TypeOK
  <2>5. OwnObservation'
    <3> SUFFICES ASSUME NEW c \in Beats, pc'[c] \in {"reading", "writing"}, streak'[c] # NoSymbol
                 PROVE  \E q \in observed' : /\ q.beat = c /\ q.try = tries[c]
                                             /\ q.symbol = streak'[c] /\ q.at = now[c]
      BY <2>2 DEF OwnObservation
    <3>1. CASE c = b
      <4>1. streak'[b] = s /\ s # NoSymbol
        BY <1>0, <2>2, <3>1 DEF TypeOK
      <4>2. o \in observed'
        BY <2>2, <4>1
      <4> QED
        BY <3>1, <4>1, <4>2
    <3>2. CASE c # b
      BY <1>0, <2>2, <3>2 DEF ApprovalInv, OwnObservation, TypeOK
    <3> QED
      BY <3>1, <3>2
  <2>6. ConfirmedByAnother'
    BY <1>0, <2>2 DEF ApprovalInv, ConfirmedByAnother, TypeOK
  <2> QED
    BY <1>0, <2>3, <2>4, <2>5, <2>6 DEF ApprovalInv
<1>5. ASSUME NEW b \in Beats, Read(b) PROVE ApprovalInv'
  <2>1. Observations' /\ StreaksSound'
    BY <1>0, <1>5, NothingStored DEF Read, TypeOK
  <2>2. OwnObservation' /\ ConfirmedByAnother'
    BY <1>0, <1>5, NothingClaimed DEF Read, TypeOK
  <2> QED
    BY <1>0, <2>1, <2>2 DEF ApprovalInv
<1>6. ASSUME NEW b \in Beats, Write(b) PROVE ApprovalInv'
  <2>1. StreaksSound' /\ ConfirmedByAnother'
    BY <1>6, WriteStep
  <2>2. Observations'
    BY <1>6 DEF Write, ApprovalInv, Observations
  <2>3. OwnObservation'
    BY <1>0, <1>6 DEF Write, ApprovalInv, OwnObservation, TypeOK
  <2> QED
    BY <1>0, <2>1, <2>2, <2>3 DEF ApprovalInv
<1>7. ASSUME NEW b \in Beats, RedisError(b) PROVE ApprovalInv'
  <2>n. PICK next : next = NextStreak(prev[b], streak[b], now[b])
    OBVIOUS
  <2>1. /\ pc[b] \in {"reading", "writing"} /\ pc' = [pc EXCEPT ![b] = "deciding"]
        /\ confirmations' = [confirmations EXCEPT ![b] = 0]
        /\ prev' = [prev EXCEPT ![b] = NoSymbol]
        /\ key' = key \/ (pc[b] = "writing" /\ key' = next)
        /\ UNCHANGED <<clock, now, streak, tries, observed>>
    BY <1>7, <2>n DEF RedisError
  <2>2. Observations'
    BY <2>1 DEF ApprovalInv, Observations
  <2>3. StreaksSound'
    <3>1. pc[b] = "writing" /\ next # NoSymbol => Sound(next)'
      <4>1. pc'[b] = "deciding" /\ UNCHANGED <<clock, observed, tries>>
        BY <1>0, <2>1 DEF TypeOK
      <4> QED
        BY <2>n, <4>1, NextSound
    <3> QED
      BY <1>0, <2>1, <3>1, SoundKept DEF ApprovalInv, StreaksSound, TypeOK
  <2>4. OwnObservation' /\ ConfirmedByAnother'
    BY <1>0, <2>1, NothingClaimed DEF TypeOK
  <2> QED
    BY <1>0, <2>2, <2>3, <2>4 DEF ApprovalInv
<1>8. ASSUME NEW b \in Beats, pc' \in {[pc EXCEPT ![b] = "done"], [pc EXCEPT ![b] = "queued"]},
             Forget(b), UNCHANGED <<clock, key, tries, observed>>
      PROVE ApprovalInv'
  <2>1. Observations' /\ StreaksSound'
    BY <1>0, <1>8, NothingStored DEF Forget, TypeOK
  <2>2. OwnObservation' /\ ConfirmedByAnother'
    BY <1>0, <1>8, NothingClaimed DEF Forget, TypeOK
  <2> QED
    BY <1>0, <2>1, <2>2 DEF ApprovalInv
<1>9. ASSUME NEW b \in Beats, Abort(b) \/ WorkerLost(b) \/ \E others \in BOOLEAN : Decide(b, others)
      PROVE ApprovalInv'
  BY <1>8, <1>9 DEF Abort, WorkerLost, Decide
<1> QED
  BY <1>1, <1>2, <1>3, <1>4, <1>5, <1>6, <1>7, <1>9 DEF Next

-----------------------------------------------------------------------------
(* The count of a streak. *)

\* The deliveries that saw the streak's symbol within it and are past their write.
Witnesses(k) == {o \in observed : Spent(o) /\ o.symbol = k.symbol /\ o.at \in k.first..k.last}

Witnessed(k) == k.count <= Cardinality(Witnesses(k))

\* CountIsWitnessed speaks of the stored streak; a delivery that has read one stores
\* its successor, and the delivery's own observation is not yet among the witnesses.
CountsWitnessed ==
  /\ IsFiniteSet(observed)
  /\ key # NoSymbol => Witnessed(key)
  /\ \A b \in Beats : prev[b] # NoSymbol => Witnessed(prev[b])

LEMMA WitnessesFinite ==
  ASSUME IsFiniteSet(observed), NEW k
  PROVE  /\ IsFiniteSet(Witnesses(k)) /\ Cardinality(Witnesses(k)) \in Nat
<1>1. Witnesses(k) \in SUBSET observed
  BY DEF Witnesses
<1>2. IsFiniteSet(Witnesses(k))
  BY <1>1, FS_Subset
<1> QED
  BY <1>2, FS_CardinalityType

\* Witnesses are not lost, and one observation at most is made in a step.
LEMMA WitnessesKept ==
  ASSUME ApprovalInv, IsFiniteSet(observed), [Next]_vars
  PROVE  /\ IsFiniteSet(observed')
         /\ \A k \in Streaks : Witnessed(k) => Witnessed(k)'
<1>1. IsFiniteSet(observed')
  <2>1. observed' = observed \/ \E o : observed' = observed \cup {o}
    BY DEF Next, vars, local, Advance, Expire, Publish, Start, Evaluate, Read,
           Write, RedisError, Decide, Abort, WorkerLost
  <2>2. ASSUME NEW o, observed' = observed \cup {o} PROVE IsFiniteSet(observed')
    BY <2>2, FS_AddElement
  <2> QED
    BY <2>1, <2>2
<1>2. ASSUME NEW k \in Streaks, Witnessed(k) PROVE Witnessed(k)'
  <2>1. Witnesses(k) \in SUBSET Witnesses(k)'
    BY SpentKept, OnlyGrows DEF Witnesses
  <2>2. IsFiniteSet(Witnesses(k)') /\ Cardinality(Witnesses(k)') \in Nat
    <3>1. Witnesses(k)' \in SUBSET observed'
      BY DEF Witnesses
    <3>2. IsFiniteSet(Witnesses(k)')
      BY <1>1, <3>1, FS_Subset
    <3> QED
      BY <3>2, FS_CardinalityType
  <2>3. Cardinality(Witnesses(k)) <= Cardinality(Witnesses(k)')
    BY <2>1, <2>2, FS_Subset
  <2>4. k.count \in Nat /\ Cardinality(Witnesses(k)) \in Nat
    BY WitnessesFinite DEF Streaks
  <2> QED
    BY <1>2, <2>2, <2>3, <2>4 DEF Witnessed
<1> QED
  BY <1>1, <1>2

\* A write adds the delivery's own observation to the witnesses of what it read.
LEMMA NextWitnessed ==
  ASSUME ApprovalInv, CountsWitnessed, NEW b \in Beats, pc[b] = "writing", pc'[b] = "deciding",
         \A c \in Beats \ {b} : pc'[c] = pc[c],
         UNCHANGED <<clock, observed, tries>>,
         NEW next, next = NextStreak(prev[b], streak[b], now[b]), next # NoSymbol
  PROVE  Witnessed(next)'
<1> USE DEF ApprovalInv, TypeOK, CountsWitnessed
<1>1. streak[b] \in Symbols
  BY DEF NextStreak
<1>2. PICK o \in observed :
        o.beat = b /\ o.try = tries[b] /\ o.symbol = streak[b] /\ o.at = now[b]
  BY <1>1, NoSymbolIsNoStreak DEF OwnObservation
<1>3. ~ Spent(o) /\ Spent(o)'
  BY <1>2 DEF Spent
<1>4. now[b] \in Nat
  BY ApprovalAssumption DEF ApprovalAssumption
<1>5. \A q \in observed : Spent(q) => Spent(q)'
  BY DEF Observations, Spent
<1>6. Witnesses(next)' \in SUBSET observed /\ IsFiniteSet(Witnesses(next)')
      /\ Cardinality(Witnesses(next)') \in Nat
  <2>1. Witnesses(next)' \in SUBSET observed
    BY DEF Witnesses
  <2>2. IsFiniteSet(Witnesses(next)')
    BY <2>1, FS_Subset
  <2> QED
    BY <2>1, <2>2, FS_CardinalityType
<1>7. CASE Continues(prev[b], streak[b], now[b])
  <2> DEFINE p == prev[b]
  <2>1. p \in Streaks /\ p # NoSymbol /\ p.symbol = streak[b] /\ 0 <= now[b] - p.last
    BY <1>7 DEF Continues
  <2>2. next = [p EXCEPT !.count = @ + 1, !.last = now[b]]
    BY <1>1, <1>7, NoSymbolIsNoStreak DEF NextStreak
  <2>3. /\ next.count = p.count + 1 /\ next.first = p.first /\ next.last = now[b]
        /\ next.symbol = streak[b]
        /\ p.count \in Nat /\ p.first \in Nat /\ p.last \in Nat
    BY <2>1, <2>2 DEF Streaks
  <2>4. p.first <= p.last /\ p.last <= now[b]
    BY <1>4, <2>1, <2>3 DEF StreaksSound, Sound
  <2>5. o \notin Witnesses(p)
    BY <1>3 DEF Witnesses
  <2>6. Witnesses(p) \cup {o} \in SUBSET Witnesses(next)'
    <3>1. \A q \in Witnesses(p) : q \in Witnesses(next)'
      <4> SUFFICES ASSUME NEW q \in Witnesses(p) PROVE q \in Witnesses(next)'
        OBVIOUS
      <4>1. q \in observed /\ Spent(q)' /\ q.symbol = next.symbol /\ q.at \in p.first..p.last
        BY <1>5, <2>1, <2>3 DEF Witnesses
      <4>2. q.at \in next.first..next.last
        BY <1>4, <2>3, <2>4, <4>1
      <4> QED
        BY <4>1, <4>2 DEF Witnesses
    <3>2. o \in Witnesses(next)'
      <4>1. o.at \in next.first..next.last
        BY <1>2, <1>4, <2>3, <2>4
      <4> QED
        BY <1>2, <1>3, <2>3, <4>1 DEF Witnesses
    <3> QED
      BY <3>1, <3>2
  <2>7. /\ IsFiniteSet(Witnesses(p)) /\ Cardinality(Witnesses(p)) \in Nat
        /\ p.count <= Cardinality(Witnesses(p))
    BY <2>1, WitnessesFinite DEF Witnessed
  <2>8. Cardinality(Witnesses(p) \cup {o}) = Cardinality(Witnesses(p)) + 1
    BY <2>5, <2>7, FS_AddElement
  <2>9. Cardinality(Witnesses(p) \cup {o}) <= Cardinality(Witnesses(next)')
    BY <1>6, <2>6, FS_Subset
  <2> QED
    BY <1>6, <2>3, <2>7, <2>8, <2>9 DEF Witnessed
<1>8. CASE ~ Continues(prev[b], streak[b], now[b])
  <2>1. next = [count |-> 1, symbol |-> streak[b], first |-> now[b], last |-> now[b]]
    BY <1>1, <1>8, NoSymbolIsNoStreak DEF NextStreak
  <2>2. {o} \in SUBSET Witnesses(next)'
    BY <1>2, <1>3, <1>4, <2>1 DEF Witnesses
  <2>3. Cardinality({o}) = 1 /\ Cardinality({o}) <= Cardinality(Witnesses(next)')
    BY <1>6, <2>2, FS_Singleton, FS_Subset
  <2> QED
    BY <1>6, <2>1, <2>3 DEF Witnessed
<1> QED
  BY <1>7, <1>8

LEMMA CountsWitnessedStep ==
  ApprovalInv /\ CountsWitnessed /\ [Next]_vars => CountsWitnessed'
<1> SUFFICES ASSUME ApprovalInv, CountsWitnessed, [Next]_vars PROVE CountsWitnessed'
  OBVIOUS
<1>0. TypeOK /\ TypeOK'
  BY TypeStep DEF ApprovalInv
<1>1. IsFiniteSet(observed') /\ \A k \in Streaks : Witnessed(k) => Witnessed(k)'
  BY WitnessesKept DEF CountsWitnessed
<1>2. ASSUME key' \in {key, NoSymbol}, \A b \in Beats : prev'[b] \in {prev[b], key, NoSymbol}
      PROVE  CountsWitnessed'
  BY <1>0, <1>1, <1>2 DEF CountsWitnessed, TypeOK
<1>3. ASSUME NEW b \in Beats, Write(b) \/ RedisError(b) PROVE CountsWitnessed'
  <2>n. PICK next : next = NextStreak(prev[b], streak[b], now[b])
    OBVIOUS
  <2>1. /\ pc'[b] = "deciding" /\ \A c \in Beats \ {b} : pc'[c] = pc[c]
        /\ \A c \in Beats : prev'[c] \in {prev[c], NoSymbol}
        /\ UNCHANGED <<clock, observed, tries>>
        /\ key' = key \/ (pc[b] = "writing" /\ key' = next)
    BY <1>0, <1>3, <2>n DEF Write, RedisError, TypeOK
  <2>2. pc[b] = "writing" /\ next # NoSymbol => Witnessed(next)'
    BY <2>n, <2>1, NextWitnessed
  <2> QED
    BY <1>0, <1>1, <2>1, <2>2 DEF CountsWitnessed, TypeOK
<1>4. ASSUME ~ \E b \in Beats : Write(b) \/ RedisError(b)
      PROVE  key' \in {key, NoSymbol} /\ \A b \in Beats : prev'[b] \in {prev[b], key, NoSymbol}
  BY <1>0, <1>4 DEF TypeOK, Next, vars, local, Advance, Expire, Publish, Start, Evaluate, Read,
         Decide, Abort, WorkerLost, Forget
<1> QED
  BY <1>2, <1>3, <1>4

-----------------------------------------------------------------------------
(* The theorems. *)

THEOREM ApprovalInvTheorem == Spec => []ApprovalInv
BY ApprovalInit, ApprovalStep, PTL DEF Spec

\* Every reachable state is well typed: no streak of length zero is stored.
THEOREM TypeTheorem == Spec => []TypeOK
BY ApprovalInvTheorem, PTL DEF ApprovalInv

\* The span of a stored streak is bounded by its count, whatever late, repeated or
\* overlapping evaluations wrote it.
THEOREM StreakSpanBoundedTheorem == Spec => []StreakSpanBounded
<1>1. ApprovalInv => StreakSpanBounded
  BY DEF ApprovalInv, StreaksSound, Sound, StreakSpanBounded
<1> QED
  BY <1>1, ApprovalInvTheorem, PTL

\* A confirmed READY was seen by another delivery (of that or another beat) within
\* MaxGap before it: the last tick of a streak that was read belongs to a delivery past
\* its write.
THEOREM ConfirmedByAnotherTheorem == Spec => []ConfirmedByAnother
BY ApprovalInvTheorem, PTL DEF ApprovalInv

\* A stored count of n stands for n deliveries that saw the symbol READY: neither the
\* unlocked GET and SET nor a repeated delivery counts an observation twice.
THEOREM CountIsWitnessedTheorem == Spec => []CountIsWitnessed
<1>1. Init => CountsWitnessed
  BY FS_EmptySet DEF Init, CountsWitnessed
<1>2. ApprovalInv /\ CountsWitnessed => CountIsWitnessed
  <2> SUFFICES ASSUME ApprovalInv, CountsWitnessed, key # NoSymbol
               PROVE  key.count <= Cardinality(Seen(key))
    BY DEF CountIsWitnessed
  <2>1. Seen(key) \in SUBSET observed /\ Witnesses(key) \in SUBSET Seen(key)
    BY DEF Seen, Witnesses
  <2>2. IsFiniteSet(Seen(key)) /\ Cardinality(Seen(key)) \in Nat
    BY <2>1, FS_Subset, FS_CardinalityType DEF CountsWitnessed
  <2>3. Cardinality(Witnesses(key)) <= Cardinality(Seen(key))
    BY <2>1, <2>2, FS_Subset
  <2>4. key.count \in Nat /\ Cardinality(Witnesses(key)) \in Nat
    BY WitnessesFinite DEF CountsWitnessed, ApprovalInv, TypeOK, Streaks
  <2> QED
    BY <2>2, <2>3, <2>4 DEF CountsWitnessed, Witnessed
<1> QED
  BY <1>1, <1>2, CountsWitnessedStep, ApprovalInvTheorem, PTL DEF Spec
=============================================================================
