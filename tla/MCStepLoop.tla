----------------------------- MODULE MCStepLoop -----------------------------
(***************************************************************************)
(* Small instances of StepLoop: a trade pipeline with people and one       *)
(* without, with two HAWKs, one with a confidence gate, and a workflow     *)
(* with a condition and loops.                                             *)
(***************************************************************************)
EXTENDS StepLoop

At(kind) == [kind |-> kind, skip |-> 0, pauses |-> FALSE, back |-> 0, iterations |-> 0]

Votes2 == <<At("market_data"), At("hawk"), At("hawk"), At("hawk_vote")>>

\* The seeded pipeline with people: the gate executes, skips or waits, an approval
\* step follows.  The automatic one has the same gate and no approval step.
Human == Votes2 \o <<At("compile"), [At("winrate_gate") EXCEPT !.skip = 2, !.pauses = TRUE],
                     At("approval"), At("exchange_execute"), At("journal")>>
Auto  == Votes2 \o <<At("sage"), At("compile"), [At("winrate_gate") EXCEPT !.skip = 1],
                     At("exchange_execute"), At("journal")>>
\* No votes: SAGE and a confidence gate.
Confident == <<At("sage"), At("compile"), [At("confidence_gate") EXCEPT !.skip = 1],
               At("approval"), At("exchange_execute"), At("other")>>
\* No trade: a condition, a loop back, a loop that names no start.
Looping == <<At("other"), [At("conditional") EXCEPT !.skip = 1], At("other"),
             [At("loop") EXCEPT !.back = 1, !.iterations = 2],
             [At("loop") EXCEPT !.iterations = 1]>>

\* Both pipelines have the shape the theorems about votes ask for.
ASSUME SeededShape ==
  \A w \in {Human, Auto, Confident, Looping} : Voting(w) => VoteFirst(w) /\ VoteGated(w)

MCWorkflow   == {Human, Confident, Looping}
HumanOnly    == {Human}
AutoOnly     == {Auto}
MCValidation == BOOLEAN
NotValidation == {FALSE}

Opinion(v, form, flaw) == [vote |-> v, form |-> form, flaw |-> flaw]
MCAnswer == {Says("BULLISH"), Opinion("BEARISH", "plain", "level"), Says("GARBLED")}
FullAnswer == MCAnswer \cup {Opinion("BEARISH", "alias", "none"), Says("NEUTRAL"), Says("BAD"),
                             Says("EMPTY"), Opinion("BULLISH", "plain", "thin"),
                             Opinion("BULLISH", "plain", "fatal")}
=============================================================================
