--------------------------- MODULE MCTradingMode ---------------------------
(* Instances of TradingMode for TLC. *)
EXTENDS TradingMode, TLC

CONSTANTS p1, p2, b1, c1, c2

OnePatch    == {p1}
TwoPatches  == {p1, p2}
OneBoot     == {b1}
OneCaller   == {c1}
TwoCallers  == {c1, c2}

WantPaperAndDemo == (p1 :> "PAPER" @@ p2 :> "DEMO")
WantPaper        == (p1 :> "PAPER")
WantDemo         == (p1 :> "DEMO")

RouteAndRun == (c1 :> "route" @@ c2 :> "run")
RouteOnly   == (c1 :> "route")
RunOnly     == (c1 :> "run")

EnvPaper == PairOf("PAPER")
EnvDemo  == PairOf("DEMO")
EnvLive  == PairOf("LIVE")
=============================================================================
