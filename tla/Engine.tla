------------------------------- MODULE Engine -------------------------------
(***************************************************************************)
(* The workflow execution engine and the approval gate in front of it:     *)
(*                                                                         *)
(*   src/src/server/engine/executor.ts      startExecution, runWalk,       *)
(*                                          executeNode, resumeExecution   *)
(*   src/src/app/app/approvals/actions.ts   decideApprovalAction           *)
(*   src/src/server/automations.ts          saveDefinition and             *)
(*                                          deleteAutomation, as far as    *)
(*                                          they touch what a run reads    *)
(*                                                                         *)
(* One automation of one organization.  Every `await store.*` of the code  *)
(* is a point where another request may run, so every store operation is   *)
(* one action, and what a request keeps in its local variables from one    *)
(* await to the next is in pc and loc.  A store operation on one row is    *)
(* atomic here, as it is on Postgres.                                      *)
(*                                                                         *)
(* A definition is the sequence of its node types: every saved definition  *)
(* is the chain that stepsToDefinition builds, so a node key is a position *)
(* and the successor of a node is the next position.  The data a step      *)
(* computes is not modelled, so a condition, an AI call or an HTTP call    *)
(* has every outcome its code can return.                                  *)
(***************************************************************************)
EXTENDS Integers, Sequences, FiniteSets

CONSTANTS
  Calls,        \* calls of startExecution; a call also names the run it inserts
  Reviewers,    \* requests of decideApprovalAction that may be in flight at once
  Keys,         \* idempotency keys a caller may pass
  NoKey,        \* idempotencyKey undefined
  Definitions,  \* Definitions[v] is the chain of node types saved as version v
  Postgres,     \* TRUE: the Prisma adapter and its constraints; FALSE: JSON store
  MaxCrashes    \* bound on requests cut short by a crash or a store error

NodeType ==
  {"trigger", "log", "template", "condition", "approval", "output", "ai", "http"}

ASSUME EngineAssumption ==
  /\ Calls \cap Reviewers = {}
  /\ NoKey \notin Keys
  /\ Definitions \in Seq(Seq(NodeType))
  /\ Definitions # << >>
  /\ \A v \in DOMAIN Definitions :
        /\ Definitions[v] # << >>
        /\ \A k \in DOMAIN Definitions[v] : Definitions[v][k] = "trigger" <=> k = 1
  /\ Postgres \in BOOLEAN
  /\ MaxCrashes \in Nat

VARIABLES
  automation,   \* does the automations row exist
  versions,     \* the version numbers that have a row in automation_versions
  status,       \* executions.status of each run, "none" before the insert
  version,      \* executions.version, the version pinned at the start
  keyOf,        \* executions.idempotencyKey
  resume,       \* executions.resume.nodeKey, NoNode when the column is empty
  steps,        \* execution_steps of each run, in insertion order
  approvals,    \* approvals of each run, in insertion order
  pc,           \* where each request is
  loc,          \* the local variables of each request
  doomed,       \* the version rows deleteAutomation has still to remove
  deleting,     \* is a deleteAutomation past its check
  granted,      \* history: the gates some reviewer decided "approved" on
  redecided,    \* history: the runs with an approval that was decided twice
  crashes       \* number of requests cut short so far

rows == <<automation, versions, status, version, keyOf, resume, steps, approvals>>
deletion == <<doomed, deleting>>
history == <<granted, redecided>>
vars == <<rows, pc, loc, deletion, history, crashes>>

Requests == Calls \cup Reviewers
Version == 1..Len(Definitions)
NoNode == 0
NodeKey == Nat \ {NoNode}

Status == {"none", "queued", "running", "waiting", "completed", "failed"}
Settled == {"completed", "failed"}
Decision == {"approved", "rejected"}
Step == [node : NodeKey, status : {"running", "waiting", "completed", "failed"}]
Approval == [node : NodeKey, status : {"pending"} \cup Decision]

(***************************************************************************)
(* Where a request can be.  A call of startExecution goes from "idle"      *)
(* through "automation" .. "markRunning" into the walk; a decision goes    *)
(* from "idle" through "decide" .. "lookup" into the same walk.            *)
(***************************************************************************)
StartPC == {"automation", "latest", "insert", "markRunning"}
DecidePC == {"decide", "readRun", "findStep", "markStep", "rejectRun", "restartRun", "lookup"}
WalkPC == {"load", "step", "execute", "requestApproval", "pauseRun", "failRun", "completeRun"}
ResumePC == {"findStep", "markStep", "rejectRun", "restartRun"}
OnNode == WalkPC \cup ResumePC \cup {"lookup"}
PC == {"idle", "done"} \cup StartPC \cup DecidePC \cup WalkPC

Local == [run : Calls, key : Keys \cup {NoKey}, version : {0} \cup Version,
          node : Nat, step : Nat, approval : Nat, decision : Decision]

\* A call may be made once; a reviewer is free again when a request returns.
Returned(p) == IF p \in Calls THEN "done" ELSE "idle"

Chain(r) == Definitions[version[r]]
NodeOf(p) == Chain(loc[p].run)[loc[p].node]
IsGate(r, k) == k \in DOMAIN Chain(r) /\ Chain(r)[k] = "approval"
KeyTaken(k) == k # NoKey /\ \E r \in Calls : keyOf[r] = k
VersionFound(r) == version[r] \in versions

Goto(p, where) == pc' = [pc EXCEPT ![p] = where]
SetStatus(r, s) == status' = [status EXCEPT ![r] = s]
SetStep(r, i, s) == steps' = [steps EXCEPT ![r][i].status = s]

-----------------------------------------------------------------------------
(***************************************************************************)
(* Initially the automation exists with version 1 and nothing has run.     *)
(***************************************************************************)
Init ==
  /\ automation = TRUE
  /\ versions = {1}
  /\ status = [r \in Calls |-> "none"]
  /\ version = [r \in Calls |-> 1]
  /\ keyOf = [r \in Calls |-> NoKey]
  /\ resume = [r \in Calls |-> NoNode]
  /\ steps = [r \in Calls |-> << >>]
  /\ approvals = [r \in Calls |-> << >>]
  /\ pc = [p \in Requests |-> "idle"]
  /\ \E r \in Calls :
       loc = [p \in Requests |->
                [run |-> IF p \in Calls THEN p ELSE r, key |-> NoKey, version |-> 0,
                 node |-> 1, step |-> 0, approval |-> 0, decision |-> "approved"]]
  /\ doomed = {}
  /\ deleting = FALSE
  /\ granted = {}
  /\ redecided = {}
  /\ crashes = 0

-----------------------------------------------------------------------------
(***************************************************************************)
(* startExecution.                                                         *)
(***************************************************************************)

\* The key lookup, when a key is passed, finds a run: return that run.
ReturnExisting(p, k) ==
  /\ pc[p] = "idle"
  /\ KeyTaken(k)
  /\ Goto(p, "done")
  /\ UNCHANGED <<rows, loc, deletion, history, crashes>>

\* No key, or no run has it yet.
StartExecution(p, k) ==
  /\ pc[p] = "idle"
  /\ ~ KeyTaken(k)
  /\ Goto(p, "automation")
  /\ loc' = [loc EXCEPT ![p].key = k]
  /\ UNCHANGED <<rows, deletion, history, crashes>>

ReadAutomation(p) ==
  /\ pc[p] = "automation"
  /\ Goto(p, IF automation THEN "latest" ELSE Returned(p))
  /\ UNCHANGED <<rows, loc, deletion, history, crashes>>

\* The latest version is what the run is pinned to.
ReadLatestVersion(p) ==
  /\ pc[p] = "latest"
  /\ \/ /\ versions = {}
        /\ Goto(p, Returned(p))
        /\ UNCHANGED loc
     \/ \E v \in versions :
          /\ \A w \in versions : w <= v
          /\ Goto(p, "insert")
          /\ loc' = [loc EXCEPT ![p].version = v]
  /\ UNCHANGED <<rows, deletion, history, crashes>>

\* Mutant of InsertRefused: the unique index on the key is missing.
InsertRefusedWithoutIndex(p) == Postgres /\ ~ automation

\* Postgres refuses a second row with the key, and a row whose automation is
\* gone; the insert then throws out of startExecution.
InsertRefused(p) == Postgres /\ (KeyTaken(loc[p].key) \/ ~ automation)

InsertExecution(p) ==
  /\ pc[p] = "insert"
  /\ IF InsertRefused(p)
       THEN /\ Goto(p, Returned(p))
            /\ UNCHANGED rows
       ELSE /\ Goto(p, "markRunning")
            /\ SetStatus(p, "queued")
            /\ version' = [version EXCEPT ![p] = loc[p].version]
            /\ keyOf' = [keyOf EXCEPT ![p] = loc[p].key]
            /\ UNCHANGED <<automation, versions, resume, steps, approvals>>
  /\ UNCHANGED <<loc, deletion, history, crashes>>

MarkRunning(p) ==
  /\ pc[p] = "markRunning"
  /\ Goto(p, "load")
  /\ SetStatus(p, "running")
  /\ UNCHANGED <<automation, versions, version, keyOf, resume, steps, approvals,
                 loc, deletion, history, crashes>>

-----------------------------------------------------------------------------
(***************************************************************************)
(* runWalk, from loc[p].node on.                                           *)
(***************************************************************************)

LoadVersion(p) ==
  /\ pc[p] = "load"
  /\ Goto(p, IF VersionFound(loc[p].run) THEN "step" ELSE "failRun")
  /\ UNCHANGED <<rows, loc, deletion, history, crashes>>

InsertStep(p) ==
  LET r == loc[p].run IN
  /\ pc[p] = "step"
  /\ Goto(p, "execute")
  /\ steps' = [steps EXCEPT ![r] = Append(@, [node |-> loc[p].node, status |-> "running"])]
  /\ loc' = [loc EXCEPT ![p].step = Len(steps[r]) + 1]
  /\ UNCHANGED <<automation, versions, status, version, keyOf, resume, approvals,
                 deletion, history, crashes>>

\* executeNode returned; the outcome is written on the step row.
StepOutcome(p, s) ==
  /\ pc[p] = "execute"
  /\ SetStep(loc[p].run, loc[p].step, s)
  /\ UNCHANGED <<automation, versions, status, version, keyOf, resume, approvals,
                 deletion, history, crashes>>

\* Mutant of NodeProceeds: the end of the chain is not recognised.
NodeProceedsPastEnd(p) ==
  /\ StepOutcome(p, "completed")
  /\ NodeOf(p) \notin {"approval", "output"}
  /\ Goto(p, "step")
  /\ loc' = [loc EXCEPT ![p].node = @ + 1]

\* Mutant of NodeProceeds: an approval node is a node like any other.
NodeProceedsThroughGate(p) ==
  /\ StepOutcome(p, "completed")
  /\ NodeOf(p) # "output"
  /\ IF loc[p].node < Len(Chain(loc[p].run))
       THEN /\ Goto(p, "step")
            /\ loc' = [loc EXCEPT ![p].node = @ + 1]
       ELSE /\ Goto(p, "completeRun")
            /\ UNCHANGED loc

\* Continue to the successor, or to the end of the chain.
NodeProceeds(p) ==
  /\ StepOutcome(p, "completed")
  /\ NodeOf(p) \notin {"approval", "output"}
  /\ IF loc[p].node < Len(Chain(loc[p].run))
       THEN /\ Goto(p, "step")
            /\ loc' = [loc EXCEPT ![p].node = @ + 1]
       ELSE /\ Goto(p, "completeRun")
            /\ UNCHANGED loc

\* An output node, or a condition that is false.
NodeFinishes(p) ==
  /\ StepOutcome(p, "completed")
  /\ NodeOf(p) \in {"condition", "output"}
  /\ Goto(p, "completeRun")
  /\ UNCHANGED loc

\* Mutant of NodeFails: the failed outcome falls through to the end of the walk.
NodeFailsQuietly(p) ==
  /\ StepOutcome(p, "failed")
  /\ NodeOf(p) \in {"ai", "http"}
  /\ Goto(p, "completeRun")
  /\ UNCHANGED loc

\* An AI call that failed; an HTTP call that failed, timed out, or could not
\* have its credential resolved.
NodeFails(p) ==
  /\ StepOutcome(p, "failed")
  /\ NodeOf(p) \in {"ai", "http"}
  /\ Goto(p, "failRun")
  /\ UNCHANGED loc

NodeWaits(p) ==
  /\ StepOutcome(p, "waiting")
  /\ NodeOf(p) = "approval"
  /\ Goto(p, "requestApproval")
  /\ UNCHANGED loc

\* The approval is in the store, and on the reviewers' page, before the run
\* is marked waiting.
RequestApproval(p) ==
  LET r == loc[p].run IN
  /\ pc[p] = "requestApproval"
  /\ Goto(p, "pauseRun")
  /\ approvals' = [approvals EXCEPT ![r] =
                     Append(@, [node |-> loc[p].node, status |-> "pending"])]
  /\ UNCHANGED <<automation, versions, status, version, keyOf, resume, steps,
                 loc, deletion, history, crashes>>

PauseRun(p) ==
  LET r == loc[p].run IN
  /\ pc[p] = "pauseRun"
  /\ Goto(p, Returned(p))
  /\ SetStatus(r, "waiting")
  /\ resume' = [resume EXCEPT ![r] = loc[p].node]
  /\ UNCHANGED <<automation, versions, version, keyOf, steps, approvals,
                 loc, deletion, history, crashes>>

\* The failed paths leave the resume cursor as it is.
FailRun(p) ==
  /\ pc[p] = "failRun"
  /\ Goto(p, Returned(p))
  /\ SetStatus(loc[p].run, "failed")
  /\ UNCHANGED <<automation, versions, version, keyOf, resume, steps, approvals,
                 loc, deletion, history, crashes>>

CompleteRun(p) ==
  LET r == loc[p].run IN
  /\ pc[p] = "completeRun"
  /\ Goto(p, Returned(p))
  /\ SetStatus(r, "completed")
  /\ resume' = [resume EXCEPT ![r] = NoNode]
  /\ UNCHANGED <<automation, versions, version, keyOf, steps, approvals,
                 loc, deletion, history, crashes>>

-----------------------------------------------------------------------------
(***************************************************************************)
(* decideApprovalAction and the resumeExecution it calls.                  *)
(***************************************************************************)

\* Permission, tenant and note checks end the request without a state change.
ReadApproval(p, r, i, d) ==
  /\ pc[p] = "idle"
  /\ approvals[r][i].status = "pending"
  /\ Goto(p, "decide")
  /\ loc' = [loc EXCEPT ![p].run = r, ![p].approval = i, ![p].decision = d]
  /\ UNCHANGED <<rows, deletion, history, crashes>>

WriteDecision(p) ==
  LET r == loc[p].run
      i == loc[p].approval
  IN
  /\ pc[p] = "decide"
  /\ Goto(p, "readRun")
  /\ approvals' = [approvals EXCEPT ![r][i].status = loc[p].decision]
  /\ granted' = IF loc[p].decision = "approved"
                  THEN granted \cup {<<r, approvals[r][i].node>>}
                  ELSE granted
  /\ redecided' = IF approvals[r][i].status = "pending"
                    THEN redecided
                    ELSE redecided \cup {r}
  /\ UNCHANGED <<automation, versions, status, version, keyOf, resume, steps,
                 loc, deletion, crashes>>

\* Mutant of ReadPausedRun: the status of the run is not looked at.
ReadPausedRunAnyStatus(p) ==
  LET r == loc[p].run IN
  /\ pc[p] = "readRun"
  /\ IF resume[r] # NoNode
       THEN /\ Goto(p, "findStep")
            /\ loc' = [loc EXCEPT ![p].node = resume[r]]
       ELSE /\ Goto(p, Returned(p))
            /\ UNCHANGED loc
  /\ UNCHANGED <<rows, deletion, history, crashes>>

\* The run is read again; the gate it is resumed from is the one on the run,
\* whichever approval was decided.
ReadPausedRun(p) ==
  LET r == loc[p].run IN
  /\ pc[p] = "readRun"
  /\ IF status[r] = "waiting" /\ resume[r] # NoNode
       THEN /\ Goto(p, "findStep")
            /\ loc' = [loc EXCEPT ![p].node = resume[r]]
       ELSE /\ Goto(p, Returned(p))
            /\ UNCHANGED loc
  /\ UNCHANGED <<rows, deletion, history, crashes>>

\* Mutant of AfterMark: the branch on the decision is missing.
AfterMarkIgnoringDecision(p) == "restartRun"

AfterMark(p) == IF loc[p].decision = "rejected" THEN "rejectRun" ELSE "restartRun"

WaitingSteps(r, k) ==
  {i \in DOMAIN steps[r] : steps[r][i].node = k /\ steps[r][i].status = "waiting"}

FindWaitingStep(p) ==
  LET waiting == WaitingSteps(loc[p].run, loc[p].node) IN
  /\ pc[p] = "findStep"
  /\ IF waiting = {}
       THEN /\ Goto(p, AfterMark(p))
            /\ UNCHANGED loc
       ELSE /\ Goto(p, "markStep")
            /\ \E i \in waiting :
                 /\ \A j \in waiting : i <= j
                 /\ loc' = [loc EXCEPT ![p].step = i]
  /\ UNCHANGED <<rows, deletion, history, crashes>>

\* Mutant of MarkWaitingStep: the gate's step is completed whatever was decided.
MarkWaitingStepCompleted(p) ==
  /\ pc[p] = "markStep"
  /\ Goto(p, AfterMark(p))
  /\ SetStep(loc[p].run, loc[p].step, "completed")
  /\ UNCHANGED <<automation, versions, status, version, keyOf, resume, approvals,
                 loc, deletion, history, crashes>>

MarkWaitingStep(p) ==
  /\ pc[p] = "markStep"
  /\ Goto(p, AfterMark(p))
  /\ SetStep(loc[p].run, loc[p].step,
             IF loc[p].decision = "rejected" THEN "failed" ELSE "completed")
  /\ UNCHANGED <<automation, versions, status, version, keyOf, resume, approvals,
                 loc, deletion, history, crashes>>

\* Mutant of RejectRun: the return after the rejection is missing.
RejectRunFallsThrough(p) ==
  LET r == loc[p].run IN
  /\ pc[p] = "rejectRun"
  /\ Goto(p, "restartRun")
  /\ SetStatus(r, "failed")
  /\ resume' = [resume EXCEPT ![r] = NoNode]
  /\ UNCHANGED <<automation, versions, version, keyOf, steps, approvals,
                 loc, deletion, history, crashes>>

RejectRun(p) ==
  LET r == loc[p].run IN
  /\ pc[p] = "rejectRun"
  /\ Goto(p, Returned(p))
  /\ SetStatus(r, "failed")
  /\ resume' = [resume EXCEPT ![r] = NoNode]
  /\ UNCHANGED <<automation, versions, version, keyOf, steps, approvals,
                 loc, deletion, history, crashes>>

\* The resume cursor stays until the run completes or pauses again.
RestartRun(p) ==
  /\ pc[p] = "restartRun"
  /\ Goto(p, "lookup")
  /\ SetStatus(loc[p].run, "running")
  /\ UNCHANGED <<automation, versions, version, keyOf, resume, steps, approvals,
                 loc, deletion, history, crashes>>

\* Mutant of LookupSuccessor: the walk resumes at the gate, not behind it.
LookupSuccessorStays(p) ==
  LET r == loc[p].run IN
  /\ pc[p] = "lookup"
  /\ Goto(p, IF VersionFound(r) THEN "load" ELSE "failRun")
  /\ UNCHANGED <<rows, loc, deletion, history, crashes>>

\* Mutant of LookupSuccessor: without a successor the request returns and
\* leaves the run running.
LookupSuccessorForgetsEnd(p) ==
  LET r == loc[p].run IN
  /\ pc[p] = "lookup"
  /\ IF ~ VersionFound(r)
       THEN Goto(p, "failRun") /\ UNCHANGED loc
       ELSE IF loc[p].node = Len(Chain(r))
              THEN Goto(p, Returned(p)) /\ UNCHANGED loc
              ELSE /\ Goto(p, "load")
                   /\ loc' = [loc EXCEPT ![p].node = @ + 1]
  /\ UNCHANGED <<rows, deletion, history, crashes>>

\* The successor of the gate in the pinned version.
LookupSuccessor(p) ==
  LET r == loc[p].run IN
  /\ pc[p] = "lookup"
  /\ IF ~ VersionFound(r)
       THEN Goto(p, "failRun") /\ UNCHANGED loc
       ELSE IF loc[p].node = Len(Chain(r))
              THEN Goto(p, "completeRun") /\ UNCHANGED loc
              ELSE /\ Goto(p, "load")
                   /\ loc' = [loc EXCEPT ![p].node = @ + 1]
  /\ UNCHANGED <<rows, deletion, history, crashes>>

-----------------------------------------------------------------------------
(***************************************************************************)
(* What else changes the rows a run depends on, and what cuts it short.    *)
(***************************************************************************)

\* saveDefinition inserts the next version; runs already pinned keep theirs.
SaveVersion ==
  /\ automation
  /\ \E next \in Version :
       /\ next - 1 \in versions \cup {0}
       /\ \A v \in versions : v < next
       /\ versions' = versions \cup {next}
  /\ UNCHANGED <<automation, status, version, keyOf, resume, steps, approvals,
                 pc, loc, deletion, history, crashes>>

\* deleteAutomation: the automation has no run, and its versions are read.
CheckNoRuns ==
  /\ automation
  /\ ~ deleting
  /\ \A r \in Calls : status[r] = "none"
  /\ deleting' = TRUE
  /\ doomed' = versions
  /\ UNCHANGED <<rows, pc, loc, history, crashes>>

RemoveVersion(v) ==
  /\ deleting
  /\ v \in doomed
  /\ doomed' = doomed \ {v}
  /\ versions' = versions \ {v}
  /\ UNCHANGED <<automation, status, version, keyOf, resume, steps, approvals,
                 pc, loc, deleting, history, crashes>>

\* On Postgres the versions saved since go with their automation.
RemoveAutomation ==
  /\ deleting
  /\ doomed = {}
  /\ deleting' = FALSE
  /\ automation' = FALSE
  /\ versions' = IF Postgres THEN {} ELSE versions
  /\ UNCHANGED <<doomed, status, version, keyOf, resume, steps, approvals,
                 pc, loc, history, crashes>>

\* The process dies or a store operation throws: the request is gone, and
\* nothing looks for the run it leaves behind.
Crash(p) ==
  /\ pc[p] \notin {"idle", "done"}
  /\ crashes < MaxCrashes
  /\ crashes' = crashes + 1
  /\ Goto(p, Returned(p))
  /\ UNCHANGED <<rows, loc, deletion, history>>

-----------------------------------------------------------------------------
Walk(p) ==
  \/ LoadVersion(p) \/ InsertStep(p)
  \/ NodeProceeds(p) \/ NodeFinishes(p) \/ NodeFails(p) \/ NodeWaits(p)
  \/ RequestApproval(p) \/ PauseRun(p) \/ FailRun(p) \/ CompleteRun(p)

Start(p) ==
  \/ ReadAutomation(p) \/ ReadLatestVersion(p) \/ InsertExecution(p) \/ MarkRunning(p)

Decide(p) ==
  \/ WriteDecision(p) \/ ReadPausedRun(p) \/ FindWaitingStep(p) \/ MarkWaitingStep(p)
  \/ RejectRun(p) \/ RestartRun(p) \/ LookupSuccessor(p)

\* A step of a request that has been accepted.
Serve(p) == Start(p) \/ Decide(p) \/ Walk(p)

Next ==
  \/ \E p \in Calls, k \in Keys \cup {NoKey} : ReturnExisting(p, k) \/ StartExecution(p, k)
  \/ \E p \in Reviewers, r \in Calls : \E i \in DOMAIN approvals[r], d \in Decision :
        ReadApproval(p, r, i, d)
  \/ \E p \in Requests : Serve(p) \/ Crash(p)
  \/ SaveVersion
  \/ CheckNoRuns \/ (\E v \in Version : RemoveVersion(v)) \/ RemoveAutomation

Spec == Init /\ [][Next]_vars

(***************************************************************************)
(* The event loop runs every pending continuation, and the calls a node    *)
(* makes out of the process have timeouts: an accepted request goes on.    *)
(* Nobody has to make a request.                                           *)
(***************************************************************************)
FairSpec == Spec /\ \A p \in Requests : WF_vars(Serve(p))

-----------------------------------------------------------------------------
(***************************************************************************)
(* Properties.                                                             *)
(***************************************************************************)

\* Every column and every local variable has a value of its type.
RunTypes ==
  /\ status \in [Calls -> Status]
  /\ version \in [Calls -> Version]
  /\ keyOf \in [Calls -> Keys \cup {NoKey}]
  /\ resume \in [Calls -> Nat]
  /\ steps \in [Calls -> Seq(Step)]
  /\ approvals \in [Calls -> Seq(Approval)]

RequestTypes ==
  /\ pc \in [Requests -> PC]
  /\ loc \in [Requests -> Local]

AutomationTypes ==
  /\ automation \in BOOLEAN
  /\ versions \subseteq Version
  /\ doomed \subseteq Version
  /\ deleting \in BOOLEAN

HistoryTypes ==
  /\ granted \subseteq Calls \X NodeKey
  /\ redecided \subseteq Calls
  /\ crashes \in 0..MaxCrashes

Types == RunTypes /\ RequestTypes /\ AutomationTypes /\ HistoryTypes

\* The type invariant: Types, and the indexes a request holds are good.  A
\* request with a node in hand has one of the chain its run is pinned to, and
\* the step and the approval it is going to write exist.
TypeOK ==
  /\ Types
  /\ \A p \in Requests :
       /\ pc[p] \in OnNode => loc[p].node \in DOMAIN Chain(loc[p].run)
       /\ pc[p] \in {"execute", "markStep"} => loc[p].step \in DOMAIN steps[loc[p].run]
       /\ pc[p] = "decide" => loc[p].approval \in DOMAIN approvals[loc[p].run]

\* Every step of run r behind an approval step was let through by a reviewer
\* who approved at that very approval step.
GatesRespected(r) ==
  \A i \in DOMAIN steps[r] :
    \A k \in 1..(steps[r][i].node - 1) : IsGate(r, k) => <<r, k>> \in granted

\* An approval step lets a run through only when a reviewer approved at that
\* step of that run (executor.ts pauses at the gate and resumes only from an
\* "approved" decision).  Decisions may overlap; false of the code when two
\* of them decide the same approval.
GatesHold == \A r \in Calls : GatesRespected(r)

\* The double decision is the only way around a gate: reviewers who decide
\* different approvals of a run at the same time, crashes and new versions
\* never take a run past a gate nobody approved.
GatesHoldUnlessRedecided == \A r \in Calls \ redecided : GatesRespected(r)

\* The step rows of a run are its chain, in order, each node once: no pause,
\* resume or crash makes the engine skip a node or execute one twice.
StepsFollowChain ==
  \A r \in Calls \ redecided : \A i \in DOMAIN steps[r] : steps[r][i].node = i

\* A run recorded as completed or failed stays so; a late decision cannot
\* revive it, unless it decides an approval for the second time.
SettledIsFinal ==
  [][\A r \in Calls \ redecided :
       status[r] \in Settled => status'[r] = status[r]]_vars

\* A completed run has completed every step it executed, and stopped where a
\* run may stop: at the end of the chain, at an output, or at a condition.
CompletedRunsAreWhole ==
  \A r \in Calls \ redecided : status[r] = "completed" =>
    LET last == steps[r][Len(steps[r])].node IN
    /\ \A i \in DOMAIN steps[r] : steps[r][i].status = "completed"
    /\ last = Len(Chain(r)) \/ Chain(r)[last] \in {"condition", "output"}

\* A failed run shows why: the step that failed (the gate that was rejected),
\* or else its automation is being deleted, or is, with the version.
FailedRunsShowWhy ==
  \A r \in Calls \ redecided : status[r] = "failed" =>
    \/ deleting \/ ~ automation
    \/ steps[r] # << >> /\ steps[r][Len(steps[r])].status = "failed"

\* The same idempotency key gives one run, however many callers pass it
\* (executions @@unique([organizationId, idempotencyKey])).
OneRunPerKey ==
  \A r, s \in Calls : r # s /\ keyOf[r] = keyOf[s] => keyOf[r] = NoKey

\* A waiting run can still be decided: it has a pending approval, or a
\* decision on it is being carried out.
WaitingRunIsDecidable ==
  \A r \in Calls : status[r] = "waiting" =>
    \/ \E i \in DOMAIN approvals[r] : approvals[r][i].status = "pending"
    \/ \E p \in Reviewers : pc[p] # "idle" /\ loc[p].run = r

\* Without crashes, every run that was inserted comes to rest: waiting at a
\* gate, completed, or failed.
RunsComeToRest ==
  \A r \in Calls :
    status[r] \in {"queued", "running"} ~> status[r] \in Settled \cup {"waiting"}

-----------------------------------------------------------------------------
(***************************************************************************)
(* The inductive invariant.  First what every request may count on, then,  *)
(* for a run none of whose approvals was decided twice, that one request   *)
(* at a time has it in hand.                                               *)
(***************************************************************************)

\* A call drives the run it inserts and nothing of that run exists before; a
\* request past its reads holds indexes that exist.
Placed(p) ==
  /\ p \in Calls => loc[p].run = p /\ pc[p] \notin DecidePC
  /\ p \in Reviewers => pc[p] \notin StartPC \cup {"done"}
  /\ p \in Calls /\ pc[p] \in {"idle", "automation", "latest", "insert"} =>
       /\ status[p] = "none"
       /\ resume[p] = NoNode
       /\ steps[p] = << >>
       /\ approvals[p] = << >>
  /\ p \in Calls /\ pc[p] \in {"idle"} \cup StartPC => loc[p].node = 1
  /\ p \in Reviewers /\ pc[p] # "idle" => loc[p].approval \in DOMAIN approvals[loc[p].run]
  /\ pc[p] = "insert" => loc[p].version \in Version
  /\ pc[p] \in OnNode => loc[p].node \in DOMAIN Chain(loc[p].run)
  /\ pc[p] \in {"execute", "markStep"} => loc[p].step \in DOMAIN steps[loc[p].run]

\* A run resumes at a node of its chain.
Resumable(r) == resume[r] # NoNode => resume[r] \in DOMAIN Chain(r)

TypeInv ==
  /\ Types
  /\ \A p \in Requests : Placed(p)
  /\ \A r \in Calls : Resumable(r)

\* p has run r in hand: it starts it, walks it, or resumes it.
Drives(p, r) == loc[p].run = r /\ pc[p] \in StartPC \cup OnNode

\* p has decided an approval of run r and has not read the run yet.
Reads(p, r) == loc[p].run = r /\ pc[p] = "readRun"

Last(r) == Len(approvals[r])
LastPending(r) == approvals[r] # << >> /\ approvals[r][Last(r)].status = "pending"
GatesBefore(r, k) == \A g \in 1..(k - 1) : IsGate(r, g) => <<r, g>> \in granted

\* What the rows of the run say: only its newest approval can be undecided, one
\* step row for each node from the first on, and a waiting run waits at the
\* gate its newest approval is about, the gates before it granted.
RowsInOrder(r) ==
  /\ \A i \in 1..(Last(r) - 1) : approvals[r][i].status # "pending"
  /\ \A i \in DOMAIN steps[r] : steps[r][i].node = i
  /\ GatesRespected(r)
  /\ status[r] = "waiting" =>
       /\ resume[r] # NoNode
       /\ approvals[r] # << >>
       /\ approvals[r][Last(r)].node = resume[r]
       /\ GatesBefore(r, resume[r])
       /\ Len(steps[r]) = resume[r]

\* What p has decided is the newest approval, and a grant is on record.
DecidedLast(p, r) ==
  /\ loc[p].approval = Last(r)
  /\ ~ LastPending(r)
  /\ loc[p].decision = "approved" => <<r, approvals[r][Last(r)].node>> \in granted

\* One request drives the run, one reviewer may be about to read it, and both
\* at once only while the run is being paused.
OneDriver(r) ==
  /\ \A p, q \in Requests : Drives(p, r) /\ Drives(q, r) => p = q
  /\ \A p, q \in Requests : Reads(p, r) /\ Reads(q, r) => p = q
  /\ \A p, q \in Requests : Drives(p, r) /\ Reads(q, r) => pc[p] = "pauseRun"

\* The driver of a run: the status of the run says where it is, the steps how
\* far it got, and the gates before the node in hand have been granted, the
\* gate itself once the run goes on from it.
DriverInOrder(p, r) ==
  LET here == pc[p]
      node == loc[p].node
  IN
  /\ here \in {"automation", "latest", "insert"} => status[r] = "none"
  /\ here = "markRunning" => status[r] = "queued" /\ steps[r] = << >>
  /\ here \in WalkPC => status[r] = "running" /\ GatesBefore(r, node)
  /\ here \in {"load", "step"} => Len(steps[r]) = node - 1
  /\ here \in {"execute", "requestApproval", "pauseRun", "lookup"} => Len(steps[r]) = node
  /\ IF here = "pauseRun"
       THEN approvals[r] # << >> /\ approvals[r][Last(r)].node = node
       ELSE ~ LastPending(r)
  /\ here \in ResumePC => status[r] = "waiting" /\ node = resume[r] /\ DecidedLast(p, r)
  /\ here = "restartRun" => loc[p].decision = "approved"
  /\ here = "lookup" => status[r] = "running" /\ GatesBefore(r, node + 1)

InHand(r) ==
  /\ RowsInOrder(r)
  /\ OneDriver(r)
  /\ \A p \in Requests : Drives(p, r) => DriverInOrder(p, r)
  /\ \A p \in Requests : Reads(p, r) => DecidedLast(p, r)

\* With this, a gate lets a run through only after its grant: whoever decides
\* next, nobody else has the run in hand (the status check in resumeExecution
\* and the pending check in decideApprovalAction, as long as the latter is
\* not overtaken).
IndInv == TypeInv /\ \A r \in Calls \ redecided : InHand(r)

-----------------------------------------------------------------------------
(***************************************************************************)
(* What the step rows tell, for the properties that read their statuses    *)
(* and for the refinement of GatedRun.                                     *)
(***************************************************************************)

Done(r, n) == \A i \in 1..n : steps[r][i].status = "completed"
LastIs(r, s) == steps[r] # << >> /\ steps[r][Len(steps[r])].status = s
MayEndAt(r, k) == k = Len(Chain(r)) \/ Chain(r)[k] \in {"condition", "output"}
Gone == deleting \/ ~ automation

\* Every step but the newest is completed.  An undecided approval is about the
\* newest step, which waits for as long as somebody may still resume the run;
\* the run ended where its newest step says.
RowsTell(r) ==
  /\ Done(r, Len(steps[r]) - 1)
  /\ LastPending(r) => /\ status[r] \in {"running", "waiting"}
                       /\ approvals[r][Last(r)].node = Len(steps[r])
  /\ status[r] = "waiting" /\ (LastPending(r) \/ \E p \in Requests : Reads(p, r)) =>
       LastIs(r, "waiting")
  /\ status[r] = "completed" => /\ steps[r] # << >>
                                /\ Done(r, Len(steps[r]))
                                /\ MayEndAt(r, Len(steps[r]))
  /\ status[r] = "failed" => Gone \/ LastIs(r, "failed")

\* What the driver of a run knows of its newest step.
DriverTells(p, r) ==
  LET here == pc[p]
      node == loc[p].node
  IN
  /\ here \in {"load", "step", "restartRun", "lookup", "completeRun"} => Done(r, Len(steps[r]))
  /\ here \in {"execute", "markStep"} => loc[p].step = Len(steps[r])
  /\ here \in {"requestApproval", "pauseRun", "findStep", "markStep"} => LastIs(r, "waiting")
  /\ here = "rejectRun" => LastIs(r, "failed")
  /\ here = "failRun" => Gone \/ LastIs(r, "failed")
  /\ here = "completeRun" =>
       Len(steps[r]) = node /\ GatesBefore(r, node + 1) /\ MayEndAt(r, node)

StepsTell(r) ==
  /\ RowsTell(r)
  /\ \A p \in Requests : Drives(p, r) => DriverTells(p, r)

\* A run pauses, and is resumed, at an approval node of its chain.
AtGates ==
  /\ \A p \in Requests :
       pc[p] \in {"requestApproval", "pauseRun", "lookup"} \cup ResumePC =>
         IsGate(loc[p].run, loc[p].node)
  /\ \A r \in Calls :
       /\ resume[r] # NoNode => IsGate(r, resume[r])
       /\ \A i \in DOMAIN approvals[r] : IsGate(r, approvals[r][i].node)

\* Nothing is known of a run before its row is inserted.
NothingYet(r) ==
  status[r] = "none" =>
    /\ steps[r] = << >> /\ approvals[r] = << >>
    /\ \A g \in granted : g[1] # r
    /\ \A p \in Requests :
         loc[p].run = r => pc[p] \in {"idle", "done", "automation", "latest", "insert"}

\* A version that a run is pinned to goes only with its automation.
VersionsKept ==
  Gone \/ /\ \A p \in Requests : pc[p] = "insert" => loc[p].version \in versions
          /\ \A r \in Calls : status[r] # "none" => version[r] \in versions

\* With this, a settled run's steps show how it ended, and every step of the
\* engine is one GatedRun allows.
TraceInv ==
  /\ IndInv /\ AtGates /\ VersionsKept
  /\ \A r \in Calls : NothingYet(r)
  /\ \A r \in Calls \ redecided : StepsTell(r)

=============================================================================
