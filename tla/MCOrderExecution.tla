-------------------------- MODULE MCOrderExecution --------------------------
(* Small instances of OrderExecution for TLC. *)
EXTENDS OrderExecution, TLC

CONSTANTS r1, r2, p1, p2, m1, m2, v1, v2

\* Two execute calls of one proposal.
SameProposalOf == r1 :> p1 @@ r2 :> p1
OneMarketOf == p1 :> m1

\* Two proposals, each with its own execute call, in two markets or in one.
EachProposalOf == r1 :> p1 @@ r2 :> p2
TwoMarketOf == p1 :> m1 @@ p2 :> m2
SharedMarketOf == p1 :> m1 @@ p2 :> m1

\* Calls of one proposal are interchangeable, and so are the reviews.
SameSymmetry == Permutations({r1, r2}) \cup Permutations(Review)
ReviewSymmetry == Permutations(Review)
=============================================================================
