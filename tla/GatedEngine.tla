---------------------------- MODULE GatedEngine ----------------------------
(***************************************************************************)
(* Engine implements GatedRun: every run of an automation, seen through    *)
(* its status, the version it is pinned to, its step rows and the grants   *)
(* on it, is a gated run, whatever requests interleave to produce it.      *)
(***************************************************************************)
EXTENDS Engine

\* The run that others see, as GatedRun describes it: its status, the chain it
\* is pinned to, the nodes that have a step row, and the grants.
Contested(r) == r \in redecided
Begun(r) == status[r] # "none" /\ ~ Contested(r)

Phase(r) ==
  CASE Contested(r) -> "contested"
    [] status[r] \in {"queued", "running"} /\ ~ Contested(r) -> "open"
    [] OTHER -> status[r]

Gated(r) ==
  INSTANCE GatedRun WITH
    Chains  <- {Definitions[v] : v \in Version},
    phase   <- Phase(r),
    chain   <- IF Begun(r) THEN Chain(r) ELSE << >>,
    entered <- IF Begun(r) THEN Len(steps[r]) ELSE 0,
    granted <- IF Begun(r) THEN {g[2] : g \in {h \in granted : h[1] = r}} ELSE {}

\* Each run starts as GatedRun does and takes only GatedRun's steps (executor.ts,
\* decideApprovalAction), through pauses, overlapping decisions, crashes, new
\* versions and the deletion of the automation: \A r : Gated(r)!Spec, in a form
\* that TLC takes as a property.
RunsAreGated ==
  /\ \A r \in Calls : Gated(r)!Init
  /\ [][\A r \in Calls : [Gated(r)!Next]_(Gated(r)!vars)]_vars
=============================================================================
