------------------------ MODULE MCPipelineExecution ------------------------
(* Small instances of PipelineExecution for TLC. *)
EXTENDS PipelineExecution, TLC

CONSTANTS q1, q2, p1, p2, m1, m2, v1

\* Two requests of one proposal: an automatic run beside a resumed one or the place_order
\* branch of the route, or a call of ExecutionService beside any of the three.
OneProposalOf == q1 :> p1 @@ q2 :> p1
OneMarketOf == p1 :> m1
MixedPaths == {q1 :> a @@ q2 :> b : a \in {"auto", "service"}, b \in {"resume", "route"}}
                \cup {q1 :> "service" @@ q2 :> "auto"}

\* Two runs with a proposal and a market each.
EachProposalOf == q1 :> p1 @@ q2 :> p2
TwoMarketOf == p1 :> m1 @@ p2 :> m2
AutoPaths == {[r \in Request |-> "auto"]}

\* A resumed run, with a call of ExecutionService or alone.
CallAndResumePaths == {q1 :> "service" @@ q2 :> "resume"}
LoneProposalOf == q1 :> p1
ResumePaths == {[r \in Request |-> "resume"]}
=============================================================================
