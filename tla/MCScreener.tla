----------------------------- MODULE MCScreener -----------------------------
(***************************************************************************)
(* Small instances of Screener: the seeded primary and secondary screener. *)
(***************************************************************************)
EXTENDS Screener, TLC

CONSTANTS primary, secondary, auto30, auto15, c1, c2

MCTarget   == primary :> auto30 @@ secondary :> auto15
MCExcludes == primary :> {} @@ secondary :> {auto30}
MCDispatch == primary :> 2 @@ secondary :> 1

CoinSymmetry == Permutations({c1, c2})
=============================================================================
