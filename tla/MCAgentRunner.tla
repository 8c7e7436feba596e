--------------------------- MODULE MCAgentRunner ---------------------------
(***************************************************************************)
(* Instances of AgentRunner for TLC: what the model may reply.             *)
(***************************************************************************)
EXTENDS AgentRunner, TLC

\* An answer; one call of each kind that does not pause; one that does; and
\* batches in which a call that does not stands behind or before it.
AllReplies ==
  { << >>, <<"unknown">>, <<"denied", "plain">>, <<"consequential">>,
    <<"plain", "consequential", "consequential">>, <<"consequential", "denied", "plain">> }

\* A batch in which one call pauses, and one in which two do.
TwoGates == { << >>, <<"consequential">>, <<"consequential", "consequential">> }

Symmetry == Permutations(Starters) \cup Permutations(Reviewers)

=============================================================================
