------------------------------ MODULE GatedRun ------------------------------
(***************************************************************************)
(* What a run of a workflow promises to whoever watches it: it enters the  *)
(* nodes of the chain it is pinned to one by one, and goes on from an      *)
(* approval node only when a reviewer has approved there.  Requests, rows  *)
(* and their interleavings are no part of it: Engine implements it, with   *)
(* everything that is asynchronous there hidden in its variables.          *)
(***************************************************************************)
EXTENDS Naturals, Sequences

CONSTANT Chains   \* the chains of node types a run may be pinned to

VARIABLES
    phase,     \* what the run's status says of it
    chain,     \* the chain the run is pinned to
    entered,   \* how many nodes the run has entered
    granted    \* the approval nodes at which a reviewer approved

vars == <<phase, chain, entered, granted>>

Over == {"completed", "failed"}

Init ==
    /\ phase = "none"
    /\ chain = <<>>
    /\ entered = 0
    /\ granted = {}

AtGate == entered \in DOMAIN chain /\ chain[entered] = "approval"

\* The node that was entered last lets the run go on.
Open == AtGate => entered \in granted

MayEnd ==
    \/ entered = Len(chain)
    \/ entered > 0 /\ chain[entered] \in {"condition", "output"}

Begin ==
    /\ phase = "none"
    /\ phase' = "open"
    /\ chain' \in Chains
    /\ UNCHANGED <<entered, granted>>

Enter ==
    /\ phase = "open" /\ Open
    /\ entered < Len(chain)
    /\ entered' = entered + 1
    /\ UNCHANGED <<phase, chain, granted>>

\* A reviewer may be earlier than the pause.
Approve ==
    /\ phase \in {"open", "waiting"} /\ AtGate
    /\ granted' = granted \cup {entered}
    /\ UNCHANGED <<phase, chain, entered>>

Pause ==
    /\ phase = "open" /\ AtGate
    /\ phase' = "waiting"
    /\ UNCHANGED <<chain, entered, granted>>

Resume ==
    /\ phase = "waiting" /\ Open
    /\ phase' = "open"
    /\ UNCHANGED <<chain, entered, granted>>

Complete ==
    /\ phase = "open" /\ Open /\ MayEnd
    /\ phase' = "completed"
    /\ UNCHANGED <<chain, entered, granted>>

\* A node failed, a gate was rejected, or the version is gone.
Fail ==
    /\ phase = "open" \/ (phase = "waiting" /\ AtGate)
    /\ phase' = "failed"
    /\ UNCHANGED <<chain, entered, granted>>

\* An approval is decided by two reviewers at once: nothing is promised any more.
Contest ==
    /\ phase \notin {"none", "contested"}
    /\ phase' = "contested"
    /\ chain' = <<>> /\ entered' = 0 /\ granted' = {}

Next ==
    Begin \/ Enter \/ Approve \/ Pause \/ Resume \/ Complete \/ Fail \/ Contest

Spec == Init /\ [][Next]_vars
=============================================================================
