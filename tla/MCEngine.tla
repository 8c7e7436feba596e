------------------------------ MODULE MCEngine ------------------------------
(***************************************************************************)
(* Instances of Engine for TLC: the definitions the runs use, one sequence *)
(* of chains for each question.                                            *)
(***************************************************************************)
EXTENDS GatedEngine, TLC

\* One gate that is the last step, behind a condition, and a version with none.
GateLast == << <<"trigger", "condition", "approval">>, <<"trigger", "output">> >>

\* One gate and one step behind it.
OneGate == << <<"trigger", "approval", "http">> >>

\* Two gates back to back with a step behind them.
GateAfterGate == << <<"trigger", "approval", "approval", "http">> >>

Symmetry == Permutations(Calls) \cup Permutations(Reviewers)

=============================================================================
