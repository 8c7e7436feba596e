-------------------------- MODULE GatedEngineProofs --------------------------
(***************************************************************************)
(* That Engine implements GatedRun, for any number of callers, reviewers,  *)
(* crashes and saved versions: one lemma for each step of GatedRun names   *)
(* the actions of Engine that are that step for the run they work on, and  *)
(* every other action is a stutter.  What makes an action a step of        *)
(* GatedRun is Engine!TraceInv: the driver of a run has the gates before   *)
(* its node granted, and knows where its step rows end.                    *)
(***************************************************************************)
EXTENDS GatedEngine, EngineProofs

Grants(r) == {g[2] : g \in {h \in granted : h[1] = r}}

\* A grant is on a gate of a run.
LEMMA GrantsOf ==
  ASSUME TypeInv, NEW r \in Calls
  PROVE  \A k : k \in Grants(r) <=> <<r, k>> \in granted
<1> SUFFICES ASSUME NEW k PROVE k \in Grants(r) <=> <<r, k>> \in granted
  OBVIOUS
<1>1. granted \subseteq Calls \X NodeKey
  BY TypeInvParts DEF HistoryTypes
<1>2. \A g \in granted : g = <<g[1], g[2]>>
  BY <1>1
<1> QED
  BY <1>2 DEF Grants

\* The view of a run that is inserted and not contested is in its rows.
LEMMA ViewOf ==
  ASSUME NEW r \in Calls, r \notin redecided, status[r] # "none"
  PROVE  /\ Begun(r)
         /\ Phase(r) = IF status[r] \in {"queued", "running"} THEN "open" ELSE status[r]
BY DEF Begun, Contested, Phase

\* ... and of one that is not inserted, empty.
LEMMA NoView ==
  ASSUME NEW r \in Calls, r \notin redecided, status[r] = "none"
  PROVE  ~ Begun(r) /\ Phase(r) = "none"
BY DEF Begun, Contested, Phase

\* What does not change of a run, its view does not show.
LEMMA Stutters ==
  ASSUME NEW r \in Calls, r \in redecided' <=> r \in redecided,
         status'[r] = status[r], version'[r] = version[r],
         Len(steps'[r]) = Len(steps[r]), Grants(r)' = Grants(r)
  PROVE  UNCHANGED Gated(r)!vars
<1>1. /\ Begun(r)' <=> Begun(r)
      /\ Phase(r)' = Phase(r)
  BY DEF Begun, Contested, Phase
<1>2. Chain(r)' = Chain(r)
  BY DEF Chain
<1> QED
  BY <1>1, <1>2 DEF Gated!vars, Grants

\* The initial states are GatedRun's.
LEMMA InitGated == ASSUME Init, NEW r \in Calls PROVE Gated(r)!Init
<1>1. r \notin redecided /\ status[r] = "none"
  BY DEF Init
<1> QED
  BY <1>1, NoView DEF Gated!Init

-----------------------------------------------------------------------------
\* The insert of a run is Begin: nothing was granted before.
LEMMA InsertBegins ==
  ASSUME TypeInv, NEW r \in Calls, NothingYet(r), r \notin redecided, NEW p \in Requests,
         loc[p].run = r, InsertExecution(p)
  PROVE  Gated(r)!Begin \/ UNCHANGED Gated(r)!vars
<1>1. pc[p] = "insert" /\ UNCHANGED history
  BY DEF InsertExecution
<1>2. /\ p = r /\ status[r] = "none" /\ steps[r] = << >>
      /\ Grants(r) = {} /\ Grants(r)' = {} /\ r \notin redecided'
  BY <1>1, NewRun DEF NothingYet, Grants, history
<1>3. CASE UNCHANGED rows
  BY <1>1, <1>2, <1>3, Stutters DEF rows, history
<1>4. CASE /\ status' = [status EXCEPT ![p] = "queued"]
           /\ version' = [version EXCEPT ![p] = loc[p].version]
           /\ UNCHANGED steps
  <2>1. /\ status'[r] = "queued" /\ version'[r] \in Version /\ steps'[r] = << >>
    BY <1>1, <1>2, <1>4, TypeInvParts DEF RunTypes, Placed
  <2>2. Begun(r)' /\ Phase(r)' = "open"
    BY <1>2, <2>1 DEF Begun, Contested, Phase
  <2>3. ~ Begun(r) /\ Phase(r) = "none"
    BY <1>2, NoView
  <2>4. Chain(r)' \in {Definitions[v] : v \in Version}
    BY <2>1 DEF Chain
  <2> QED
    BY <1>2, <2>1, <2>2, <2>3, <2>4 DEF Gated!Begin, Grants
<1> QED
  BY <1>3, <1>4 DEF InsertExecution, SetStatus

\* The run goes on to its next node: Enter.
LEMMA InsertStepEnters ==
  ASSUME TypeInv, NEW r \in Calls, InHand(r), r \notin redecided, NEW p \in Requests,
         loc[p].run = r, InsertStep(p)
  PROVE  Gated(r)!Enter
<1> DEFINE n == Len(steps[r])
           row == [node |-> loc[p].node, status |-> "running"]
<1>1. /\ pc[p] = "step" /\ steps' = [steps EXCEPT ![r] = Append(@, row)]
      /\ UNCHANGED <<status, version, history>>
  BY DEF InsertStep
<1>2. /\ Drives(p, r) /\ row \in Step /\ n \in Nat
      /\ loc[p].node \in DOMAIN Chain(r) /\ loc[p].node \in Nat
  BY <1>1, PCs, NodeInHand, StepsIndexed DEF Drives, Step, NodeKey
<1>3. status[r] = "running" /\ n = loc[p].node - 1 /\ GatesBefore(r, loc[p].node)
  BY <1>1, <1>2, DriverFacts DEF DriverInOrder, WalkPC
<1>4. Len(steps'[r]) = n + 1
  <2>1. steps \in [Calls -> Seq(Step)]
    BY TypeInvParts DEF RunTypes
  <2>2. steps' = [steps EXCEPT ![r] = Append(@, row)]
    BY <1>1
  <2> HIDE DEF row
  <2> QED
    BY <1>2, <2>1, <2>2, AppendRow
<1>5. /\ Begun(r) /\ Begun(r)' /\ Phase(r) = "open" /\ Phase(r)' = "open"
  BY <1>1, <1>3 DEF Begun, Contested, Phase, history
<1>6. Chain(r)' = Chain(r) /\ Grants(r)' = Grants(r)
  BY <1>1 DEF Chain, Grants, history
<1>7. n \in DOMAIN Chain(r) /\ Chain(r)[n] = "approval" => n \in Grants(r)
  <2>1. \A j \in DOMAIN Chain(r) : j \in Nat \ {0}
    BY Chains, TypeInvParts DEF RunTypes, Chain
  <2>2. n \in DOMAIN Chain(r) => n \in 1..(loc[p].node - 1)
    BY <1>2, <1>3, <2>1
  <2>3. n \in Grants(r) <=> <<r, n>> \in granted
    BY GrantsOf
  <2> QED
    BY <1>3, <2>2, <2>3 DEF GatesBefore, IsGate
<1>8. n < Len(Chain(r))
  BY <1>2, <1>3, Chains, TypeInvParts DEF RunTypes, Chain
<1> QED
  BY <1>4, <1>5, <1>6, <1>7, <1>8 DEF Gated!Enter, Gated!Open, Gated!AtGate, Grants

\* A decision on the newest approval is about the node the run entered last.
LEMMA DecisionApproves ==
  ASSUME TypeInv, NEW r \in Calls, InHand(r), StepsTell(r), AtGates,
         r \notin redecided, r \notin redecided', NEW p \in Requests,
         loc[p].run = r, WriteDecision(p)
  PROVE  Gated(r)!Approve \/ UNCHANGED Gated(r)!vars
<1> DEFINE i == loc[p].approval
           k == Len(steps[r])
<1>1. /\ pc[p] = "decide" /\ approvals[r][i].status = "pending"
      /\ UNCHANGED <<status, version, steps>>
  BY DEF WriteDecision
<1>2. /\ i = Last(r) /\ LastPending(r) /\ i \in DOMAIN approvals[r]
  <2>1. i \in DOMAIN approvals[r]
    BY <1>1, ReviewersDecide DEF DecidePC
  <2>2. i \notin 1..(Last(r) - 1)
    BY <1>1 DEF InHand, RowsInOrder
  <2>3. i = Last(r) /\ approvals[r] # << >>
    BY <2>1, <2>2, ApprovalsIndexed
  <2> QED
    BY <1>1, <2>1, <2>3 DEF LastPending
<1>3. /\ status[r] \in {"running", "waiting"} /\ approvals[r][i].node = k
      /\ k \in DOMAIN Chain(r) /\ Chain(r)[k] = "approval"
  BY <1>2 DEF StepsTell, RowsTell, AtGates, IsGate
<1>4. CASE granted' = granted
  BY <1>1, <1>4, Stutters DEF Grants
<1>5. CASE granted' = granted \cup {<<r, approvals[r][i].node>>}
  <2>1. Grants(r)' = Grants(r) \cup {k}
    <3>1. \A h \in granted' : h \in granted \/ h = <<r, k>>
      BY <1>3, <1>5
    <3>2. granted \subseteq granted' /\ <<r, k>> \in granted'
      BY <1>3, <1>5
    <3> QED
      BY <3>1, <3>2 DEF Grants
  <2>2. /\ Begun(r) /\ Begun(r)' /\ Phase(r)' = Phase(r) /\ Phase(r) \in {"open", "waiting"}
    BY <1>1, <1>3 DEF Begun, Contested, Phase
  <2>3. Chain(r)' = Chain(r)
    BY <1>1 DEF Chain
  <2> QED
    BY <1>1, <1>3, <2>1, <2>2, <2>3 DEF Gated!Approve, Gated!AtGate, Grants
<1> QED
  BY <1>4, <1>5 DEF WriteDecision

\* A write of the status of a run, seen from outside.
LEMMA StatusWritten ==
  ASSUME TypeInv, NEW r \in Calls, NEW s \in Status \ {"none"}, r \notin redecided,
         status[r] # "none", status' = [status EXCEPT ![r] = s],
         UNCHANGED <<version, steps, history>>
  PROVE  /\ Begun(r) /\ Begun(r)' /\ Chain(r)' = Chain(r)
         /\ Phase(r) = IF status[r] \in {"queued", "running"} THEN "open" ELSE status[r]
         /\ Phase(r)' = IF s \in {"queued", "running"} THEN "open" ELSE s
         /\ steps'[r] = steps[r] /\ Grants(r)' = Grants(r)
<1>1. status'[r] = s /\ r \notin redecided'
  BY TypeInvParts DEF RunTypes, history
<1> QED
  BY <1>1, ViewOf DEF Begun, Contested, Phase, Chain, Grants, history

\* The other writes of the status are Pause, Resume, Fail and Complete.
LEMMA StatusSteps ==
  ASSUME TypeInv, NEW r \in Calls, InHand(r), StepsTell(r), AtGates,
         r \notin redecided, NEW p \in Requests, loc[p].run = r,
         \/ MarkRunning(p) \/ PauseRun(p) \/ FailRun(p) \/ CompleteRun(p)
         \/ RejectRun(p) \/ RestartRun(p)
  PROVE  Gated(r)!Next \/ UNCHANGED Gated(r)!vars
<1> DEFINE n == Len(steps[r])
<1>1. /\ pc[p] \in {"markRunning", "pauseRun", "failRun", "completeRun",
                    "rejectRun", "restartRun"}
      /\ UNCHANGED <<version, steps, history>>
  BY DEF MarkRunning, PauseRun, FailRun, CompleteRun, RejectRun, RestartRun
<1>2. Drives(p, r)
  BY <1>1, PCs DEF Drives, StartPC
<1>3. /\ DriverInOrder(p, r) /\ RowsInOrder(r) /\ DriverTells(p, r)
      /\ loc[p].node \in Nat
  BY <1>2, DriverHolds, TypeInvParts DEF RequestTypes, Local
<1>4. \A k : k \in Grants(r) <=> <<r, k>> \in granted
  BY GrantsOf
<1>5. CASE MarkRunning(p)
  <2>1. status' = [status EXCEPT ![r] = "running"] /\ status[r] = "queued"
    <3>1. p = r
      BY <1>5, TypeInvParts, PCs DEF MarkRunning, Placed, StartPC, Requests
    <3> QED
      BY <1>3, <1>5, <3>1 DEF MarkRunning, SetStatus, DriverInOrder
  <2>2. UNCHANGED Gated(r)!vars
    BY ZenonT(60), <1>1, <2>1, StatusWritten DEF Gated!vars, Status, Grants
  <2> QED
    BY <2>2
<1>6. CASE PauseRun(p)
  <2>1. /\ status' = [status EXCEPT ![r] = "waiting"] /\ status[r] = "running"
        /\ n = loc[p].node /\ IsGate(r, n)
    BY <1>3, <1>6 DEF PauseRun, SetStatus, DriverInOrder, WalkPC, AtGates
  <2>2. Gated(r)!Pause
    BY ZenonT(60), <1>1, <2>1, StatusWritten DEF Gated!Pause, Gated!AtGate, Status, Grants, IsGate
  <2> QED
    BY <2>2 DEF Gated!Next
<1>7. CASE FailRun(p)
  <2>1. status' = [status EXCEPT ![r] = "failed"] /\ status[r] = "running"
    BY <1>3, <1>7 DEF FailRun, SetStatus, DriverInOrder, WalkPC
  <2>2. Gated(r)!Fail
    BY <1>1, <2>1, StatusWritten DEF Gated!Fail, Status, Grants
  <2> QED
    BY <2>2 DEF Gated!Next
<1>8. CASE CompleteRun(p)
  <2>1. /\ status' = [status EXCEPT ![r] = "completed"] /\ status[r] = "running"
        /\ n = loc[p].node /\ n > 0 /\ GatesBefore(r, n + 1) /\ MayEndAt(r, n)
    BY <1>3, <1>8, NodeInHand, PCs
       DEF CompleteRun, SetStatus, DriverInOrder, WalkPC, DriverTells, NodeKey, NoNode
  <2>2. n \in DOMAIN Chain(r) /\ Chain(r)[n] = "approval" => n \in Grants(r)
    <3>1. n \in 1..((n + 1) - 1)
      BY <1>3, <2>1
    <3>2. n \in Grants(r) <=> <<r, n>> \in granted
      BY <1>4
    <3> QED
      BY <2>1, <3>1, <3>2 DEF GatesBefore, IsGate
  <2>3. Gated(r)!Complete
    BY <1>1, <2>1, <2>2, StatusWritten
       DEF Gated!Complete, Gated!Open, Gated!AtGate, Gated!MayEnd, Status, Grants, MayEndAt
  <2> QED
    BY <2>3 DEF Gated!Next
<1>9. CASE RejectRun(p)
  <2>1. /\ status' = [status EXCEPT ![r] = "failed"] /\ status[r] = "waiting"
        /\ n = loc[p].node /\ IsGate(r, n)
    BY <1>3, <1>9, ResumeFacts
       DEF RejectRun, SetStatus, RowsInOrder, AtGates, ResumePC
  <2>2. Gated(r)!Fail
    BY <1>1, <2>1, StatusWritten DEF Gated!Fail, Gated!AtGate, Status, Grants, IsGate
  <2> QED
    BY <2>2 DEF Gated!Next
<1>10. CASE RestartRun(p)
  <2>1. /\ status' = [status EXCEPT ![r] = "running"] /\ status[r] = "waiting"
        /\ n = loc[p].node /\ <<r, n>> \in granted
    BY <1>3, <1>10, ResumeFacts
       DEF RestartRun, SetStatus, RowsInOrder, ResumePC, DriverInOrder, DecidedLast
  <2>2. Gated(r)!Resume
    BY <1>1, <1>4, <2>1, StatusWritten
       DEF Gated!Resume, Gated!Open, Gated!AtGate, Status, Grants
  <2> QED
    BY <2>2 DEF Gated!Next
<1> QED
  BY <1>5, <1>6, <1>7, <1>8, <1>9, <1>10

\* A step row that changes its status, an approval that is asked for, and
\* whatever only reads: nothing to be seen.
LEMMA HiddenSteps ==
  ASSUME TypeInv, NEW r \in Calls, NEW p \in Requests, loc[p].run = r,
         \/ ReadAutomation(p) \/ ReadLatestVersion(p) \/ LoadVersion(p)
         \/ NodeProceeds(p) \/ NodeFinishes(p) \/ NodeFails(p) \/ NodeWaits(p)
         \/ RequestApproval(p) \/ ReadPausedRun(p) \/ FindWaitingStep(p)
         \/ MarkWaitingStep(p) \/ LookupSuccessor(p)
  PROVE  UNCHANGED Gated(r)!vars
<1>1. UNCHANGED <<status, version, history>>
  BY DEF ReadAutomation, ReadLatestVersion, LoadVersion, NodeProceeds, NodeFinishes, NodeFails,
     NodeWaits, StepOutcome, RequestApproval, ReadPausedRun, FindWaitingStep, MarkWaitingStep,
     LookupSuccessor, rows
<1>2. \/ UNCHANGED steps
      \/ \E s \in {"waiting", "completed", "failed"} :
           /\ pc[p] \in {"execute", "markStep"}
           /\ steps' = [steps EXCEPT ![r][loc[p].step].status = s]
  BY SMTT(30) DEF ReadAutomation, ReadLatestVersion, LoadVersion, NodeProceeds, NodeFinishes, NodeFails,
     NodeWaits, StepOutcome, RequestApproval, ReadPausedRun, FindWaitingStep, MarkWaitingStep,
     LookupSuccessor, SetStep, rows
<1>3. Len(steps'[r]) = Len(steps[r])
  BY <1>2, StepRow, TypeInvParts DEF Placed
<1> QED
  BY <1>1, <1>3, Stutters DEF history, Grants

\* A step of a request leaves the view of the other runs as it is.
LEMMA OtherRunsStutter ==
  ASSUME TypeInv, NEW r \in Calls, NEW p \in Requests, loc[p].run # r, Serve(p),
         r \in redecided' <=> r \in redecided
  PROVE  UNCHANGED Gated(r)!vars
<1>1. RowsStay(r) /\ granted \subseteq granted'
  BY ServeRows
<1>2. \A g \in granted' \ granted : g[1] # r
  BY ServeGrants
<1>3. Grants(r)' = Grants(r)
  BY SMTT(30), <1>1, <1>2 DEF Grants
<1> QED
  BY <1>1, <1>3, Stutters DEF RowsStay

\* Only a decision on an approval of the run makes it contested.
LEMMA ContestedBy ==
  ASSUME NEW r \in Calls, r \notin redecided, [Next]_vars, r \in redecided'
  PROVE  \E p \in Requests : WriteDecision(p) /\ loc[p].run = r
<1>1. PICK p \in Requests : Serve(p)
  BY OthersKeepRuns
<1>2. Start(p) => redecided' = redecided
  BY DEF Start, ReadAutomation, ReadLatestVersion, InsertExecution, MarkRunning, history
<1>3. Decide(p) /\ ~ WriteDecision(p) => redecided' = redecided
  BY DEF Decide, ReadPausedRun, FindWaitingStep, MarkWaitingStep,
     RejectRun, RestartRun, LookupSuccessor, history
<1>4. Walk(p) => redecided' = redecided
  BY DEF Walk, LoadVersion, InsertStep, NodeProceeds, NodeFinishes, NodeFails, NodeWaits,
     StepOutcome, RequestApproval, PauseRun, FailRun, CompleteRun, history
<1>5. WriteDecision(p)
  BY <1>1, <1>2, <1>3, <1>4 DEF Serve
<1> QED
  BY ZenonT(60), <1>5 DEF WriteDecision

\* The second decision on an approval is Contest.
LEMMA Contests ==
  ASSUME TypeInv, NEW r \in Calls, NothingYet(r), r \notin redecided, [Next]_vars,
         r \in redecided'
  PROVE  Gated(r)!Contest
<1>1. PICK p \in Requests : WriteDecision(p) /\ loc[p].run = r
  BY ContestedBy
<1>2. status[r] # "none"
  <2>1. pc[p] = "decide"
    BY <1>1 DEF WriteDecision
  <2> QED
    BY <1>1, <2>1 DEF NothingYet
<1>3. Phase(r) \notin {"none", "contested"}
  BY <1>2, ViewOf, TypeInvParts DEF RunTypes, Status
<1>4. ~ Begun(r)' /\ Phase(r)' = "contested"
  BY DEF Begun, Contested, Phase
<1> QED
  BY <1>3, <1>4 DEF Gated!Contest

\* Every step of the engine is a step of GatedRun, or a stutter, for each run.
LEMMA NextGated ==
  ASSUME TraceInv, [Next]_vars, NEW r \in Calls
  PROVE  [Gated(r)!Next]_(Gated(r)!vars)
<1>1. /\ TypeInv /\ AtGates /\ NothingYet(r)
      /\ r \notin redecided => InHand(r) /\ StepsTell(r)
      /\ redecided \subseteq redecided'
  BY RedecidedGrows DEF TraceInv, IndInv
<1>2. CASE r \in redecided
  <2>1. /\ ~ Begun(r) /\ Phase(r) = "contested"
        /\ ~ Begun(r)' /\ Phase(r)' = "contested"
    BY <1>1, <1>2 DEF Begun, Contested, Phase
  <2> QED
    BY <2>1 DEF Gated!vars
<1>3. CASE r \notin redecided /\ r \in redecided'
  BY <1>1, <1>3, Contests DEF Gated!Next
<1>4. CASE r \notin redecided /\ \A p \in Requests : ~ Serve(p)
  BY <1>4, OthersKeepRuns, Stutters DEF Grants
<1>5. ASSUME NEW p \in Requests, Serve(p), r \notin redecided, r \notin redecided'
      PROVE  Gated(r)!Next \/ UNCHANGED Gated(r)!vars
  <2>1. CASE loc[p].run # r
    BY <1>1, <1>5, <2>1, OtherRunsStutter
  <2>2. CASE loc[p].run = r /\ InsertExecution(p)
    BY <1>1, <1>5, <2>2, InsertBegins DEF Gated!Next
  <2>3. CASE loc[p].run = r /\ InsertStep(p)
    BY <1>1, <1>5, <2>3, InsertStepEnters DEF Gated!Next
  <2>4. CASE loc[p].run = r /\ WriteDecision(p)
    BY <1>1, <1>5, <2>4, DecisionApproves DEF Gated!Next
  <2>5. CASE loc[p].run = r /\ ~ InsertExecution(p) /\ ~ InsertStep(p) /\ ~ WriteDecision(p)
    BY <1>1, <1>5, <2>5, StatusSteps, HiddenSteps DEF Serve, Start, Decide, Walk
  <2> QED
    BY <2>1, <2>2, <2>3, <2>4, <2>5
<1> QED
  BY <1>2, <1>3, <1>4, <1>5

\* Every run of the engine is a gated run: it enters its chain node by node,
\* and goes on from an approval node only after a reviewer approved there
\* (executor.ts, actions.ts), until one of its approvals is decided twice.
THEOREM Refines == Spec => RunsAreGated
<1>1. Init => \A r \in Calls : Gated(r)!Init
  BY InitGated
<1>2. TraceInv /\ [Next]_vars => [\A r \in Calls : [Gated(r)!Next]_(Gated(r)!vars)]_vars
  BY NextGated
<1> QED
  BY <1>1, <1>2, TraceInvariant, PTL DEF Spec, RunsAreGated

=============================================================================
