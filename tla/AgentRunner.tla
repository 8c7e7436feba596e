----------------------------- MODULE AgentRunner -----------------------------
(***************************************************************************)
(* The agent tool runner and its two gates:                                *)
(*                                                                         *)
(*   src/src/server/ai/agent-runner.ts      startAgentRun, driveRun,       *)
(*                                          handleToolCalls,               *)
(*                                          resumeAgentRunFromApproval     *)
(*   src/src/app/app/approvals/actions.ts   decideApprovalAction           *)
(*   src/src/app/app/agents/actions.ts      runPlaygroundAction            *)
(*                                                                         *)
(* A run is driven by the request that started it, and after a pause by    *)
(* the request of the reviewer who approved.  Each `await` is one action.  *)
(* A run is one row: store.update writes the columns of its patch in one   *)
(* action, but store.mutate reads the whole row, changes the copy and      *)
(* writes the whole row back, so it takes two (BeginMutate, then the       *)
(* action that names the mutator).                                         *)
(*                                                                         *)
(* What the model says is not modelled; a reply is the list of the tool    *)
(* calls in it.  A call is known by its id, which stands for its name and  *)
(* arguments too, and by what the two gates will make of it.               *)
(***************************************************************************)
EXTENDS Integers, FiniteSets, Wire

CONSTANTS
  Starters,     \* requests that start a run; each also names the run it inserts
  Reviewers,    \* requests of decideApprovalAction that may be in flight at once
  Replies,      \* the lists of kinds of call that a model reply may hold
  MaxTurns,     \* AGENT_RUN_MAX_TURNS
  MaxCrashes    \* bound on requests cut short by a crash or a store error

(***************************************************************************)
(* The kinds of call: no such tool; a tool whose scope the agent version   *)
(* does not grant; a granted tool with no approval policy; a granted       *)
(* consequential tool.                                                     *)
(***************************************************************************)
Kind == {"unknown", "denied", "plain", "consequential"}

ASSUME AgentRunnerAssumption ==
  /\ Starters \cap Reviewers = {}
  /\ Replies \subseteq Seq(Kind)
  /\ MaxTurns \in Nat \ {0}
  /\ MaxCrashes \in Nat

VARIABLES
  row,         \* the agent_runs row of each run
  approvals,   \* approvals of each run (payload.callId and status), oldest first
  pc,          \* where each request is
  loc,         \* the local variables of each request
  minted,      \* the number of call ids the provider has given out
  effects,     \* history: the calls executeTool carried out for each run, in order
  granted,     \* history: the calls some reviewer decided "approved" on
  redecided,   \* history: the runs with an approval that was decided twice
  crashes      \* number of requests cut short

history == <<granted, redecided>>
vars == <<row, approvals, pc, loc, minted, effects, history, crashes>>

Requests == Starters \cup Reviewers
Call == [id : Nat, kind : Kind]
NoApproval == 0

Status == {"none", "running", "waiting_approval", "completed", "failed", "rejected"}
Settled == {"completed", "failed", "rejected"}
Decision == {"approved", "rejected"}
Outcome == {"executed", "failed", "denied_scope", "skipped"}

\* messages: the transcript; invocations: one per tool message, and one for a
\* rejected call; pending: pendingToolCalls.
Row == [status : Status, turns : Nat,
        messages : Seq([role : {"user", "assistant", "tool"}, calls : Seq(Call)]),
        invocations : Seq([call : Call, outcome : Outcome, approval : Nat]),
        pending : Seq(Call)]
EmptyRow == [status |-> "none", turns |-> 0, messages |-> << >>, invocations |-> << >>,
             pending |-> << >>]

Approval == [call : Call, status : {"pending"} \cup Decision]

DrivePC == {"start", "drive", "turn", "capRun", "failRun", "appendTurn", "completeRun",
            "check", "call", "answer", "pause", "reload"}
DecidePC == {"decide", "readRun", "mismatch", "reject", "resume", "continue"}
MutatePC == {"appendTurn", "answer", "pause", "reject", "resume"}
PC == {"idle", "done"} \cup DrivePC \cup DecidePC

\* copy: the row a mutate has read, EmptyRow outside of one.
Local == [run : Starters, turns : Nat, calls : Seq(Call), outcome : Outcome,
          resumed : Nat, approval : Nat, decision : Decision, copy : Row]
Blank(r) == [run |-> r, turns |-> 0, calls |-> << >>, outcome |-> "executed",
             resumed |-> NoApproval, approval |-> NoApproval, decision |-> "approved",
             copy |-> EmptyRow]

Run(p) == loc[p].run
Goto(p, where) == pc' = [pc EXCEPT ![p] = where]
Return(p) == pc' = [pc EXCEPT ![p] = IF p \in Starters THEN "done" ELSE "idle"]
                /\ loc' = [loc EXCEPT ![p] = Blank(@.run)]

Init ==
  /\ row = [r \in Starters |-> EmptyRow]
  /\ approvals = [r \in Starters |-> << >>]
  /\ pc = [p \in Requests |-> "idle"]
  /\ \E r \in Starters :
       loc = [p \in Requests |-> Blank(IF p \in Starters THEN p ELSE r)]
  /\ minted = 0
  /\ effects = [r \in Starters |-> << >>]
  /\ granted = {}
  /\ redecided = {}
  /\ crashes = 0

-----------------------------------------------------------------------------
(***************************************************************************)
(* runPlaygroundAction, startAgentRun and driveRun.                        *)
(***************************************************************************)

\* Someone who may manage agents sends a prompt.
RunPlayground(p) ==
  /\ pc[p] = "idle"
  /\ Goto(p, "start")
  /\ UNCHANGED <<row, approvals, loc, minted, effects, history, crashes>>

\* The run is inserted, unless there is no provider, none that can call the
\* tools the version grants, no such agent or no version of it.
StartAgentRun(p) ==
  /\ pc[p] = "start"
  /\ \/ Return(p) /\ UNCHANGED row
     \/ /\ Goto(p, "drive")
        /\ row' = [row EXCEPT ![p].status = "running", ![p].messages = <<UserMessage>>]
        /\ UNCHANGED loc
  /\ UNCHANGED <<approvals, minted, effects, history, crashes>>

\* driveRun reads the run, at the start and again after a batch of calls.
ReadRun(p) ==
  LET r == row[Run(p)] IN
  /\ pc[p] \in {"drive", "reload"}
  /\ IF r.status = "running"
       THEN Goto(p, "turn") /\ loc' = [loc EXCEPT ![p].turns = r.turns]
       ELSE Return(p)
  /\ UNCHANGED <<row, approvals, minted, effects, history, crashes>>

StopAtTurnCap(p) ==
  /\ pc[p] = "turn"
  /\ loc[p].turns >= MaxTurns
  /\ Goto(p, "capRun")
  /\ UNCHANGED <<row, approvals, loc, minted, effects, history, crashes>>

\* provider.complete throws or times out, or the provider is not configured
\* any more.
ModelFails(p) ==
  /\ pc[p] = "turn"
  /\ loc[p].turns < MaxTurns
  /\ Goto(p, "failRun")
  /\ UNCHANGED <<row, approvals, loc, minted, effects, history, crashes>>

ModelReplies(p) ==
  /\ pc[p] = "turn"
  /\ loc[p].turns < MaxTurns
  /\ Goto(p, "appendTurn")
  /\ \E reply \in Replies :
       /\ minted' = minted + Len(reply)
       /\ loc' = [loc EXCEPT ![p].calls =
                    [i \in 1..Len(reply) |-> [id |-> minted + i, kind |-> reply[i]]]]
  /\ UNCHANGED <<row, approvals, effects, history, crashes>>

\* store.update of the run's status: the cap, a failed model call, an answer.
SettleRun(p) ==
  /\ pc[p] \in {"capRun", "failRun", "completeRun"}
  /\ Return(p)
  /\ row' = [row EXCEPT ![Run(p)].status =
               IF pc[p] = "completeRun" THEN "completed" ELSE "failed"]
  /\ UNCHANGED <<approvals, minted, effects, history, crashes>>

\* store.mutate: the read.
BeginMutate(p) ==
  /\ pc[p] \in MutatePC
  /\ loc[p].copy = EmptyRow
  /\ loc' = [loc EXCEPT ![p].copy = row[Run(p)]]
  /\ UNCHANGED <<row, approvals, pc, minted, effects, history, crashes>>

\* store.mutate: the write, of the copy as the mutator left it.
Mutate(p, new) ==
  /\ loc[p].copy # EmptyRow
  /\ row' = [row EXCEPT ![Run(p)] = new]

\* Mutant of AppendTurn: a reply without calls ends the request, not the run.
AppendTurnForgetsAnswer(p) ==
  LET old == loc[p].copy IN
  /\ pc[p] = "appendTurn"
  /\ Mutate(p, [old EXCEPT !.turns = @ + 1,
                        !.messages = Append(@, AssistantMessage(loc[p].calls))])
  /\ Goto(p, IF loc[p].calls = << >> THEN "idle" ELSE "check")
  /\ loc' = [loc EXCEPT ![p].copy = EmptyRow]
  /\ UNCHANGED <<approvals, minted, effects, history, crashes>>

AppendTurn(p) ==
  LET old == loc[p].copy IN
  /\ pc[p] = "appendTurn"
  /\ Mutate(p, [old EXCEPT !.turns = @ + 1,
                        !.messages = Append(@, AssistantMessage(loc[p].calls))])
  /\ Goto(p, IF loc[p].calls = << >> THEN "completeRun" ELSE "check")
  /\ loc' = [loc EXCEPT ![p].copy = EmptyRow]
  /\ UNCHANGED <<approvals, minted, effects, history, crashes>>

-----------------------------------------------------------------------------
(***************************************************************************)
(* handleToolCalls.                                                        *)
(***************************************************************************)

CheckRunning(p) ==
  /\ pc[p] = "check"
  /\ IF row[Run(p)].status = "running"
       THEN Goto(p, "call") /\ UNCHANGED loc
       ELSE Return(p)
  /\ UNCHANGED <<row, approvals, minted, effects, history, crashes>>

\* All calls are processed: drive the next turn.
EndOfCalls(p) ==
  /\ pc[p] = "call"
  /\ loc[p].calls = << >>
  /\ Goto(p, IF p \in Reviewers /\ loc[p].approval # NoApproval THEN "continue" ELSE "reload")
  /\ UNCHANGED <<row, approvals, loc, minted, effects, history, crashes>>

NeedsApproval(p, call) == call.kind = "consequential" /\ loc[p].resumed = NoApproval

\* An unknown tool or a denied scope is answered without being executed.
RefuseCall(p) ==
  /\ pc[p] = "call"
  /\ loc[p].calls # << >>
  /\ Head(loc[p].calls).kind \in {"unknown", "denied"}
  /\ Goto(p, "answer")
  /\ loc' = [loc EXCEPT ![p].outcome =
               IF Head(loc[p].calls).kind = "denied" THEN "denied_scope" ELSE "failed"]
  /\ UNCHANGED <<row, approvals, minted, effects, history, crashes>>

\* executeTool, which may fail after the fact.
ExecuteCall(p) ==
  LET call == Head(loc[p].calls) IN
  /\ pc[p] = "call"
  /\ loc[p].calls # << >>
  /\ call.kind \in {"plain", "consequential"}
  /\ ~ NeedsApproval(p, call)
  /\ Goto(p, "answer")
  /\ effects' = [effects EXCEPT ![Run(p)] = Append(@, call)]
  /\ \E o \in {"executed", "failed"} : loc' = [loc EXCEPT ![p].outcome = o]
  /\ UNCHANGED <<row, approvals, minted, history, crashes>>

\* Mutant of AnswerCall: the approval is good for the whole batch.
AnswerCallKeepsApproval(p) ==
  LET old == loc[p].copy
      answer == [call |-> Head(loc[p].calls), outcome |-> loc[p].outcome,
                 approval |-> loc[p].resumed]
  IN
  /\ pc[p] = "answer"
  /\ Mutate(p, [old EXCEPT !.invocations = Append(@, answer),
                           !.messages = Append(@, ToolMessage(answer.call))])
  /\ Goto(p, "call")
  /\ loc' = [loc EXCEPT ![p].copy = EmptyRow, ![p].calls = Tail(@)]
  /\ UNCHANGED <<approvals, minted, effects, history, crashes>>

\* applyInvocation; only an executed call uses up the approval of the batch.
AnswerCall(p) ==
  LET old == loc[p].copy
      call == Head(loc[p].calls)
      refused == call.kind \in {"unknown", "denied"}
      answer == [call |-> call, outcome |-> loc[p].outcome,
                 approval |-> IF refused THEN NoApproval ELSE loc[p].resumed]
  IN
  /\ pc[p] = "answer"
  /\ Mutate(p, [old EXCEPT !.invocations = Append(@, answer),
                           !.messages = Append(@, ToolMessage(answer.call))])
  /\ Goto(p, "call")
  /\ loc' = [loc EXCEPT ![p].copy = EmptyRow,
                        ![p].calls = Tail(@),
                        ![p].resumed = IF refused THEN @ ELSE NoApproval]
  /\ UNCHANGED <<approvals, minted, effects, history, crashes>>

\* A consequential call: the approval is inserted before the run is paused.
RequestApproval(p) ==
  LET call == Head(loc[p].calls) IN
  /\ pc[p] = "call"
  /\ loc[p].calls # << >>
  /\ NeedsApproval(p, call)
  /\ Goto(p, "pause")
  /\ approvals' = [approvals EXCEPT ![Run(p)] = Append(@, [call |-> call, status |-> "pending"])]
  /\ UNCHANGED <<row, loc, minted, effects, history, crashes>>

PauseRun(p) ==
  LET old == loc[p].copy IN
  /\ pc[p] = "pause"
  /\ Mutate(p, [old EXCEPT !.status = "waiting_approval", !.pending = loc[p].calls])
  /\ Return(p)
  /\ UNCHANGED <<approvals, minted, effects, history, crashes>>

-----------------------------------------------------------------------------
(***************************************************************************)
(* decideApprovalAction and resumeAgentRunFromApproval.                    *)
(***************************************************************************)

ReadApproval(p, r, i, d) ==
  /\ pc[p] = "idle"
  /\ approvals[r][i].status = "pending"
  /\ Goto(p, "decide")
  /\ loc' = [loc EXCEPT ![p].run = r, ![p].approval = i, ![p].decision = d]
  /\ UNCHANGED <<row, approvals, minted, effects, history, crashes>>

WriteDecision(p) ==
  LET i == loc[p].approval IN
  /\ pc[p] = "decide"
  /\ Goto(p, "readRun")
  /\ approvals' = [approvals EXCEPT ![Run(p)][i].status = loc[p].decision]
  /\ granted' = IF loc[p].decision = "approved"
                  THEN granted \cup {approvals[Run(p)][i].call}
                  ELSE granted
  /\ redecided' = IF approvals[Run(p)][i].status = "pending"
                    THEN redecided
                    ELSE redecided \cup {Run(p)}
  /\ UNCHANGED <<row, loc, minted, effects, crashes>>

\* Mutant of ReadPausedRun: the approved call is lost from the batch.
ReadPausedRunDropsCall(p) ==
  LET r == row[Run(p)]
      pinned == approvals[Run(p)][loc[p].approval].call
  IN
  /\ pc[p] = "readRun"
  /\ IF r.status # "waiting_approval" \/ r.pending = << >>
       THEN Return(p)
       ELSE /\ Goto(p, IF Head(r.pending).id # pinned.id THEN "mismatch"
                       ELSE IF loc[p].decision = "rejected" THEN "reject" ELSE "resume")
            /\ loc' = [loc EXCEPT ![p].calls = Tail(r.pending)]
  /\ UNCHANGED <<row, approvals, minted, effects, history, crashes>>

\* Mutant of ReadPausedRun: the approved call stays among the calls behind it.
ReadPausedRunKeepsCall(p) ==
  LET r == row[Run(p)]
      pinned == approvals[Run(p)][loc[p].approval].call
  IN
  /\ pc[p] = "readRun"
  /\ IF r.status # "waiting_approval" \/ r.pending = << >>
       THEN Return(p)
       ELSE /\ Goto(p, IF Head(r.pending).id # pinned.id THEN "mismatch"
                       ELSE IF loc[p].decision = "rejected" THEN "reject" ELSE "resume")
            /\ loc' = [loc EXCEPT ![p].calls = <<pinned>> \o r.pending]
  /\ UNCHANGED <<row, approvals, minted, effects, history, crashes>>

\* The run must be waiting, and on the very call the approval pins.
ReadPausedRun(p) ==
  LET r == row[Run(p)]
      pinned == approvals[Run(p)][loc[p].approval].call
  IN
  /\ pc[p] = "readRun"
  /\ IF r.status # "waiting_approval" \/ r.pending = << >>
       THEN Return(p)
       ELSE /\ Goto(p, IF Head(r.pending).id # pinned.id THEN "mismatch"
                       ELSE IF loc[p].decision = "rejected" THEN "reject" ELSE "resume")
            /\ loc' = [loc EXCEPT ![p].calls = <<pinned>> \o Tail(r.pending)]
  /\ UNCHANGED <<row, approvals, minted, effects, history, crashes>>

StopMismatchedRun(p) ==
  /\ pc[p] = "mismatch"
  /\ Return(p)
  /\ row' = [row EXCEPT ![Run(p)].status = "failed"]
  /\ UNCHANGED <<approvals, minted, effects, history, crashes>>

\* Mutant of RejectRun: the return after the rejection is missing.
RejectRunFallsThrough(p) ==
  LET old == loc[p].copy
      skipped == [call |-> Head(loc[p].calls), outcome |-> "skipped",
                  approval |-> loc[p].approval]
  IN
  /\ pc[p] = "reject"
  /\ Mutate(p, [old EXCEPT !.status = "rejected", !.pending = << >>,
                           !.invocations = Append(@, skipped)])
  /\ Goto(p, "continue")
  /\ loc' = [loc EXCEPT ![p].copy = EmptyRow]
  /\ UNCHANGED <<approvals, minted, effects, history, crashes>>

RejectRun(p) ==
  LET old == loc[p].copy
      skipped == [call |-> Head(loc[p].calls), outcome |-> "skipped",
                  approval |-> loc[p].approval]
  IN
  /\ pc[p] = "reject"
  /\ Mutate(p, [old EXCEPT !.status = "rejected", !.pending = << >>,
                           !.invocations = Append(@, skipped)])
  /\ Return(p)
  /\ UNCHANGED <<approvals, minted, effects, history, crashes>>

\* The approved call and the calls that were behind it are processed with the
\* approval in hand.
ResumeRun(p) ==
  LET old == loc[p].copy IN
  /\ pc[p] = "resume"
  /\ Mutate(p, [old EXCEPT !.status = "running", !.pending = << >>])
  /\ Goto(p, "check")
  /\ loc' = [loc EXCEPT ![p].copy = EmptyRow, ![p].resumed = loc[p].approval]
  /\ UNCHANGED <<approvals, minted, effects, history, crashes>>

\* Every call of the resumed batch is answered: the run is set running again,
\* whatever it is by now, and driven.
ContinueRun(p) ==
  /\ pc[p] = "continue"
  /\ Goto(p, "drive")
  /\ row' = [row EXCEPT ![Run(p)].status = "running"]
  /\ loc' = [loc EXCEPT ![p].approval = NoApproval]
  /\ UNCHANGED <<approvals, minted, effects, history, crashes>>

-----------------------------------------------------------------------------
\* The process dies or a store operation throws; the run stays as it is.
Crash(p) ==
  /\ pc[p] \notin {"idle", "done"}
  /\ crashes < MaxCrashes
  /\ crashes' = crashes + 1
  /\ Return(p)
  /\ UNCHANGED <<row, approvals, minted, effects, history>>

Drive(p) ==
  \/ StartAgentRun(p) \/ ReadRun(p)
  \/ StopAtTurnCap(p) \/ ModelFails(p) \/ ModelReplies(p) \/ SettleRun(p)
  \/ BeginMutate(p) \/ AppendTurn(p) \/ CheckRunning(p) \/ EndOfCalls(p)
  \/ RefuseCall(p) \/ ExecuteCall(p) \/ AnswerCall(p) \/ RequestApproval(p) \/ PauseRun(p)

Decide(p) ==
  \/ WriteDecision(p) \/ ReadPausedRun(p) \/ StopMismatchedRun(p)
  \/ RejectRun(p) \/ ResumeRun(p) \/ ContinueRun(p)

Serve(p) == Drive(p) \/ Decide(p)

Next ==
  \/ \E p \in Starters : RunPlayground(p)
  \/ \E p \in Reviewers, r \in Starters : \E i \in DOMAIN approvals[r], d \in Decision :
        ReadApproval(p, r, i, d)
  \/ \E p \in Requests : Serve(p) \/ Crash(p)

Spec == Init /\ [][Next]_vars

\* The event loop continues every request; provider and tool calls time out.
FairSpec == Spec /\ \A p \in Requests : WF_vars(Serve(p))

-----------------------------------------------------------------------------
(***************************************************************************)
(* Properties.                                                             *)
(***************************************************************************)

\* Every column and local variable has a value of its type, and a request
\* that is at a call has one.
TypeOK ==
  /\ row \in [Starters -> Row]
  /\ approvals \in [Starters -> Seq(Approval)]
  /\ pc \in [Requests -> PC]
  /\ loc \in [Requests -> Local]
  /\ minted \in Nat
  /\ effects \in [Starters -> Seq(Call)]
  /\ granted \subseteq Call
  /\ redecided \subseteq Starters
  /\ crashes \in 0..MaxCrashes
  /\ \A p \in Requests :
       /\ pc[p] \in {"answer", "pause", "reject", "resume"} => loc[p].calls # << >>
       /\ pc[p] \in {"decide", "readRun", "reject", "resume"} =>
            loc[p].approval \in DOMAIN approvals[loc[p].run]

\* A consequential call is executed only if a reviewer approved that very call,
\* however decisions overlap (the approval gate, and the callId check that
\* stops a run rather than guess).
ConsequentialNeedsGrant ==
  \A r \in Starters : \A i \in DOMAIN effects[r] :
    effects[r][i].kind = "consequential" => effects[r][i] \in granted

\* No tool call is carried out twice, unless its run was decided twice on one
\* approval (nothing but the status check keeps two resumes of a run apart).
ExecutedOnce ==
  \A r \in Starters \ redecided : \A i, j \in DOMAIN effects[r] :
    effects[r][i].id = effects[r][j].id => i = j

\* What Anthropic is sent for the next turn is a conversation it accepts: user
\* and assistant turns alternate from the prompt on, and the user turn behind an
\* assistant turn holds the results of exactly its calls, once each and in
\* order, whatever was refused, failed, approved or left behind a pause (unless
\* the run was decided twice on one approval).
WhatTheModelReads ==
  \A p \in Requests : pc[p] = "turn" /\ Run(p) \notin redecided =>
    LET sent == ToAnthropicMessages(row[Run(p)].messages) IN
    \A i \in DOMAIN sent :
      /\ sent[i].role = IF i % 2 = 1 THEN "user" ELSE "assistant"
      /\ sent[i].role = "assistant" =>
           i < Len(sent) /\ sent[i + 1].calls = sent[i].calls

\* A run that ended stays ended, though ContinueRun and ResumeRun write
\* "running" without looking at the status.
SettledIsFinal ==
  [][\A r \in Starters \ redecided :
       row[r].status \in Settled => row'[r].status = row[r].status]_vars

\* Without crashes every started run comes to rest: ended, or waiting.
RunsComeToRest ==
  \A r \in Starters :
    row[r].status = "running" ~> row[r].status \in Settled \cup {"waiting_approval"}

-----------------------------------------------------------------------------
(***************************************************************************)
(* What the proofs of these properties rest on.                            *)
(***************************************************************************)

\* Why the approval gate holds: an approval is asked for a consequential call
\* only, its grant is on record when the reviewer acts on it, and whoever has an
\* approval in hand has the granted call next.
GrantInHand(p) ==
  /\ pc[p] = "readRun" /\ loc[p].decision = "approved" =>
       approvals[Run(p)][loc[p].approval].call \in granted
  /\ pc[p] = "resume" \/ loc[p].resumed # NoApproval =>
       /\ pc[p] \in {"resume", "check", "call", "answer"}
       /\ loc[p].calls # << >>
       /\ Head(loc[p].calls).kind = "consequential"
       /\ Head(loc[p].calls) \in granted

GrantInv ==
  /\ \A r \in Starters : \A i \in DOMAIN approvals[r] :
       approvals[r][i].call.kind = "consequential"
  /\ \A p \in Requests : GrantInHand(p)
  /\ ConsequentialNeedsGrant

\* Where a request is the one that moves a run on: the run is running, or it is
\* still waiting and the decision on it is about to be carried out.
Driving == (DrivePC \ {"start"}) \cup {"continue"}
Resuming == {"mismatch", "reject", "resume"}

Drives(p, r) == Run(p) = r /\ pc[p] \in Driving \cup Resuming
Decides(p, r) == Run(p) = r /\ pc[p] \in {"readRun"} \cup Resuming

\* A starter drives its own run; only a reviewer decides; a row is held inside a
\* mutate only.
Roles ==
  /\ \A p \in Starters : Run(p) = p /\ pc[p] \notin DecidePC
  /\ \A p \in Reviewers : pc[p] \notin {"start", "done"}
  /\ \A p \in Requests : loc[p].copy # EmptyRow => pc[p] \in MutatePC

\* Nothing is there of a run that has not been inserted.
NotYet(r) ==
  pc[r] \in {"idle", "start"} =>
    /\ row[r] = EmptyRow /\ approvals[r] = << >> /\ effects[r] = << >>
    /\ \A p \in Reviewers : Run(p) = r => pc[p] = "idle"

\* One request drives a run and one decides it.  They are the same, or the
\* decision came before the run was paused.
OneHand(r) ==
  /\ \A p, q \in Requests : Drives(p, r) /\ Drives(q, r) => p = q
  /\ \A p, q \in Requests : Decides(p, r) /\ Decides(q, r) => p = q
  /\ \A p, q \in Requests : Decides(p, r) /\ Drives(q, r) => p = q \/ pc[q] = "pause"

\* A decision is about the latest approval; while that one is pending, the run
\* is about to be paused, is paused, or was left by a crash.
LatestApproval(r) ==
  /\ \A p \in Requests : Decides(p, r) =>
       loc[p].approval = Len(approvals[r]) /\ approvals[r][loc[p].approval].status # "pending"
  /\ \A i \in DOMAIN approvals[r] : approvals[r][i].status = "pending" =>
       i = Len(approvals[r]) /\ \A p \in Requests : Drives(p, r) => pc[p] = "pause"

\* The status is what the one who drives the run takes it to be, and the row is
\* the one it has read.
StatusKnown(r) ==
  \A p \in Requests : Run(p) = r =>
    /\ pc[p] \in Driving => row[r].status = "running"
    /\ pc[p] \in Resuming => row[r].status = "waiting_approval"
    /\ loc[p].copy # EmptyRow => loc[p].copy = row[r]

\* Ids are given out in order, so calls still to be made are younger than those
\* that have been.
Ascending(calls) == \A i, j \in DOMAIN calls : i < j => calls[i].id < calls[j].id
UpTo(calls, last) == \A i \in DOMAIN calls : calls[i].id <= last
Ahead(calls, done, last) ==
  /\ Ascending(calls) /\ UpTo(calls, last)
  /\ \A i \in DOMAIN calls, j \in DOMAIN done : done[j].id < calls[i].id

CallsAhead(r) ==
  /\ Ascending(effects[r]) /\ UpTo(effects[r], minted)
  /\ row[r].status = "waiting_approval" => Ahead(row[r].pending, effects[r], minted)
  /\ \A p \in Requests : Run(p) = r =>
       /\ pc[p] \in {"appendTurn", "check", "call", "pause", "resume"} =>
            Ahead(loc[p].calls, effects[r], minted)
       /\ pc[p] = "answer" => Ahead(Tail(loc[p].calls), effects[r], minted)

\* Why a run that no two decisions on one approval touch is carried on by one
\* request at a time.
RunInv ==
  /\ Roles
  /\ \A r \in Starters \ redecided :
       NotYet(r) /\ OneHand(r) /\ LatestApproval(r) /\ StatusKnown(r) /\ CallsAhead(r)

=============================================================================
