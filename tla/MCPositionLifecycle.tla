------------------------ MODULE MCPositionLifecycle ------------------------
(* Instances of PositionLifecycle for TLC: two trades of a symbol; a        *)
(* scheduled monitor run, and a second one or a run that reads LLM text.    *)
EXTENDS PositionLifecycle

CONSTANTS monitor, other

OneMonitor  == {monitor}
TwoRuns     == {monitor, other}
AllTrades   == Trade
NoTrade     == {}
=============================================================================
