-------------------------- MODULE AgentRunnerProofs --------------------------
(***************************************************************************)
(* What the agent runner promises, for any number of runs, reviewers,      *)
(* turns and crashes, and whatever the model replies: its columns and      *)
(* local variables keep their types; a consequential call is executed only *)
(* if a reviewer granted that very call; and as long as nobody decides     *)
(* twice on one approval of a run, none of its calls is executed twice and *)
(* it does not move again once it has ended.                               *)
(***************************************************************************)
EXTENDS AgentRunner, SequenceTheorems, TLAPS

Message == [role : {"user", "assistant", "tool"}, calls : Seq(Call)]
Invocation == [call : Call, outcome : Outcome, approval : Nat]

-----------------------------------------------------------------------------
(***************************************************************************)
(* Types.                                                                  *)
(***************************************************************************)

\* The program points, written out.
LEMMA PCs ==
  /\ DrivePC = {"start", "drive", "turn", "capRun", "failRun", "appendTurn", "completeRun",
                "check", "call", "answer", "pause", "reload"}
  /\ DecidePC = {"decide", "readRun", "mismatch", "reject", "resume", "continue"}
  /\ MutatePC = {"appendTurn", "answer", "pause", "reject", "resume"}
  /\ PC = {"idle", "done"} \cup DrivePC \cup DecidePC
BY DEF PC, DrivePC, DecidePC, MutatePC

\* The row of a run that is not there, and a request at rest.
LEMMA BlankTyped ==
  /\ EmptyRow \in Row
  /\ \A r \in Starters : Blank(r) \in Local
BY DEF EmptyRow, Row, Status, Blank, Local, NoApproval, Outcome, Decision, Call

\* The initial states are typed.
LEMMA InitTyped == Init => TypeOK
<1> SUFFICES ASSUME Init PROVE TypeOK
  OBVIOUS
<1> USE DEF Init
<1>1. row \in [Starters -> Row] /\ approvals \in [Starters -> Seq(Approval)]
  BY BlankTyped
<1>2. pc \in [Requests -> PC] /\ \A p \in Requests : pc[p] = "idle"
  BY PCs
<1>3. loc \in [Requests -> Local]
  BY BlankTyped
<1>4. effects \in [Starters -> Seq(Call)] /\ minted \in Nat
  OBVIOUS
<1>5. granted \subseteq Call /\ redecided \subseteq Starters /\ crashes \in 0..MaxCrashes
  BY AgentRunnerAssumption
<1> QED
  BY <1>1, <1>2, <1>3, <1>4, <1>5 DEF TypeOK

\* The types of what a request reads.
LEMMA Typed ==
  ASSUME TypeOK, NEW p \in Requests
  PROVE  /\ row \in [Starters -> Row] /\ approvals \in [Starters -> Seq(Approval)]
         /\ pc \in [Requests -> PC] /\ loc \in [Requests -> Local]
         /\ minted \in Nat /\ effects \in [Starters -> Seq(Call)]
         /\ granted \subseteq Call /\ redecided \subseteq Starters
         /\ crashes \in 0..MaxCrashes /\ MaxCrashes \in Nat
         /\ loc[p] \in Local /\ pc[p] \in PC
         /\ loc[p].run \in Starters /\ loc[p].turns \in Nat /\ loc[p].calls \in Seq(Call)
         /\ loc[p].outcome \in Outcome /\ loc[p].resumed \in Nat /\ loc[p].approval \in Nat
         /\ loc[p].decision \in Decision /\ loc[p].copy \in Row
         /\ row[loc[p].run] \in Row /\ approvals[loc[p].run] \in Seq(Approval)
         /\ effects[loc[p].run] \in Seq(Call)
         /\ loc' = loc => loc' = [loc EXCEPT ![p] = loc[p]]
         /\ pc[p] \in {"answer", "pause", "reject", "resume"} => loc[p].calls # << >>
         /\ pc[p] \in {"decide", "readRun", "reject", "resume"} =>
              loc[p].approval \in DOMAIN approvals[loc[p].run]
<1>1. /\ row \in [Starters -> Row] /\ approvals \in [Starters -> Seq(Approval)]
      /\ pc \in [Requests -> PC] /\ loc \in [Requests -> Local]
      /\ effects \in [Starters -> Seq(Call)]
      /\ minted \in Nat /\ granted \subseteq Call /\ redecided \subseteq Starters
      /\ crashes \in 0..MaxCrashes /\ MaxCrashes \in Nat
  BY AgentRunnerAssumption DEF TypeOK
<1>2. loc[p] \in Local /\ pc[p] \in PC
  BY <1>1
<1>3. /\ loc[p].run \in Starters /\ loc[p].turns \in Nat /\ loc[p].calls \in Seq(Call)
      /\ loc[p].outcome \in Outcome /\ loc[p].resumed \in Nat /\ loc[p].approval \in Nat
      /\ loc[p].decision \in Decision /\ loc[p].copy \in Row
  BY <1>2 DEF Local
<1>4. loc' = loc => loc' = [loc EXCEPT ![p] = loc[p]]
  BY <1>1
<1>5. /\ pc[p] \in {"answer", "pause", "reject", "resume"} => loc[p].calls # << >>
      /\ pc[p] \in {"decide", "readRun", "reject", "resume"} =>
           loc[p].approval \in DOMAIN approvals[loc[p].run]
  BY DEF TypeOK
<1> QED
  BY <1>1, <1>2, <1>3, <1>4, <1>5

\* One request moves: what is left to show of its step.
LEMMA MovesTyped ==
  ASSUME TypeOK, NEW p \in Requests,
         NEW w \in PC, pc' = [pc EXCEPT ![p] = w],
         NEW l \in Local, loc' = [loc EXCEPT ![p] = l],
         w \in {"answer", "pause", "reject", "resume"} => l.calls # << >>,
         w \in {"decide", "readRun", "reject", "resume"} =>
           l.approval \in DOMAIN approvals'[l.run],
         row' \in [Starters -> Row], approvals' \in [Starters -> Seq(Approval)],
         \A r \in Starters : DOMAIN approvals[r] \subseteq DOMAIN approvals'[r],
         minted' \in Nat, effects' \in [Starters -> Seq(Call)],
         granted' \subseteq Call, redecided' \subseteq Starters, crashes' \in 0..MaxCrashes
  PROVE  TypeOK'
<1>1. /\ pc' \in [Requests -> PC] /\ loc' \in [Requests -> Local]
      /\ pc'[p] = w /\ loc'[p] = l
      /\ \A q \in Requests \ {p} : pc'[q] = pc[q] /\ loc'[q] = loc[q]
  BY DEF TypeOK
<1>2. ASSUME NEW q \in Requests
      PROVE  /\ pc'[q] \in {"answer", "pause", "reject", "resume"} => loc'[q].calls # << >>
             /\ pc'[q] \in {"decide", "readRun", "reject", "resume"} =>
                  loc'[q].approval \in DOMAIN approvals'[loc'[q].run]
  <2>1. CASE q = p
    BY <1>1, <2>1
  <2>2. CASE q # p
    BY <1>1, <2>2, Typed
  <2> QED
    BY <2>1, <2>2
<1> QED
  BY <1>1, <1>2 DEF TypeOK

\* One request moves, and neither decides nor asks for an approval.
LEMMA GoesTyped ==
  ASSUME TypeOK, NEW p \in Requests,
         NEW w \in PC, pc' = [pc EXCEPT ![p] = w],
         NEW l \in Local, loc' = [loc EXCEPT ![p] = l],
         w \in {"answer", "pause", "reject", "resume"} => l.calls # << >>,
         w \in {"decide", "readRun", "reject", "resume"} =>
           l.run = loc[p].run /\ l.approval \in DOMAIN approvals[loc[p].run],
         row' \in [Starters -> Row], minted' \in Nat, effects' \in [Starters -> Seq(Call)],
         UNCHANGED <<approvals, history, crashes>>
  PROVE  TypeOK'
<1>1. /\ approvals' = approvals /\ granted' = granted /\ redecided' = redecided
      /\ crashes' = crashes
  BY DEF history
<1> QED
  BY ZenonT(60), <1>1, MovesTyped, Typed

\* A request that returns.
LEMMA ReturnTyped ==
  ASSUME TypeOK, NEW p \in Requests, Return(p), row' \in [Starters -> Row],
         crashes' \in 0..MaxCrashes, UNCHANGED <<approvals, minted, effects, history>>
  PROVE  TypeOK'
<1>1. PICK w \in {"idle", "done"} : pc' = [pc EXCEPT ![p] = w]
  BY DEF Return
<1>2. loc' = [loc EXCEPT ![p] = Blank(loc[p].run)] /\ Blank(loc[p].run) \in Local
  BY BlankTyped, Typed DEF Return
<1> HIDE DEF Return
<1> QED
  BY <1>1, <1>2, MovesTyped, Typed, PCs DEF history

\* A row with some columns written.
LEMMA RowTyped ==
  ASSUME NEW old \in Row
  PROVE  /\ \A s \in Status : [old EXCEPT !.status = s] \in Row
         /\ \A s \in Status, c \in Seq(Call) :
              [old EXCEPT !.status = s, !.pending = c] \in Row
         /\ \A m \in Message : [old EXCEPT !.turns = @ + 1, !.messages = Append(@, m)] \in Row
         /\ \A i \in Invocation, m \in Message :
              [old EXCEPT !.invocations = Append(@, i), !.messages = Append(@, m)] \in Row
         /\ \A s \in Status, c \in Seq(Call), i \in Invocation :
              [old EXCEPT !.status = s, !.pending = c, !.invocations = Append(@, i)] \in Row
<1>1. /\ old.status \in Status /\ old.turns \in Nat /\ old.turns + 1 \in Nat
      /\ old.messages \in Seq(Message) /\ old.invocations \in Seq(Invocation)
      /\ old.pending \in Seq(Call)
  BY DEF Row, Message, Invocation
<1>2. /\ \A m \in Message : Append(old.messages, m) \in Seq(Message)
      /\ \A i \in Invocation : Append(old.invocations, i) \in Seq(Invocation)
  BY <1>1, AppendProperties
<1> QED
  BY <1>1, <1>2 DEF Row, Message, Invocation

\* A call that is left is a call, and so are those behind it.
LEMMA HeadTyped ==
  ASSUME NEW c \in Seq(Call), c # << >>
  PROVE  Head(c) \in Call /\ Tail(c) \in Seq(Call)
BY HeadTailProperties

\* An approval that is there.
LEMMA ApprovalTyped ==
  ASSUME TypeOK, NEW r \in Starters, NEW i \in DOMAIN approvals[r]
  PROVE  /\ i \in Nat /\ i \in 1..Len(approvals[r]) /\ Len(approvals[r]) \in Nat
         /\ approvals[r][i] \in Approval /\ approvals[r][i].call \in Call
<1>1. approvals[r] \in Seq(Approval)
  BY DEF TypeOK
<1>2. i \in 1..Len(approvals[r]) /\ Len(approvals[r]) \in Nat
  BY <1>1, LenProperties
<1>3. approvals[r][i] \in Approval
  BY <1>1, <1>2, ElementOfSeq
<1> QED
  BY <1>2, <1>3 DEF Approval

\* What the transcript and the record of a run are extended with.
LEMMA ItemsTyped ==
  /\ \A c \in Seq(Call) : AssistantMessage(c) \in Message
  /\ \A c \in Call : ToolMessage(c) \in Message
  /\ \A c \in Call, o \in Outcome, a \in Nat :
       [call |-> c, outcome |-> o, approval |-> a] \in Invocation
  /\ UserMessage \in Message
<1>1. << >> \in Seq(Call) /\ \A c \in Call : <<c>> \in Seq(Call)
  OBVIOUS
<1> QED
  BY <1>1 DEF AssistantMessage, ToolMessage, UserMessage, Message, Invocation

\* The steps of startAgentRun and driveRun.
LEMMA DriveTyped ==
  ASSUME TypeOK, NEW p \in Requests,
         \/ StartAgentRun(p) \/ ReadRun(p) \/ StopAtTurnCap(p) \/ ModelFails(p)
         \/ ModelReplies(p) \/ SettleRun(p) \/ BeginMutate(p) \/ AppendTurn(p)
  PROVE  TypeOK'
<1> DEFINE r == loc[p].run
<1>1. CASE StartAgentRun(p)
  <2>1. CASE Return(p) /\ row' = row
    BY <1>1, <2>1, ReturnTyped, Typed DEF StartAgentRun
  <2>2. CASE /\ pc' = [pc EXCEPT ![p] = "drive"] /\ loc' = loc
             /\ row' = [row EXCEPT ![p].status = "running", ![p].messages = <<UserMessage>>]
    <3>1. row' \in [Starters -> Row]
      <4>1. <<UserMessage>> \in Seq(Message) /\ "running" \in Status
        BY ItemsTyped DEF Status
      <4> QED
        BY ZenonT(60), <2>2, <4>1, Typed DEF Row, Message
    <3> QED
      <4>1. UNCHANGED <<approvals, minted, effects, history, crashes>>
        BY <1>1 DEF StartAgentRun
      <4>2. PICK w \in {"drive"} : pc' = [pc EXCEPT ![p] = w]
        BY <2>2
      <4>3. loc' = loc
        BY <2>2
      <4> QED
        BY ZenonT(60), <3>1, <4>1, <4>2, <4>3, GoesTyped, Typed, PCs
  <2> QED
    BY <1>1, <2>1, <2>2 DEF StartAgentRun, Goto
<1>2. CASE ReadRun(p)
  <2>1. CASE Return(p)
    BY <1>2, <2>1, ReturnTyped, Typed DEF ReadRun, history
  <2>2. CASE Goto(p, "turn") /\ loc' = [loc EXCEPT ![p].turns = row[r].turns]
    <3> DEFINE l == [loc[p] EXCEPT !.turns = row[r].turns]
    <3>1. row[r].turns \in Nat
      BY Typed DEF Row
    <3>2. l \in Local
      BY <3>1, Typed DEF Local
    <3>3. pc' = [pc EXCEPT ![p] = "turn"] /\ loc' = [loc EXCEPT ![p] = l]
      BY <2>2, Typed DEF Goto
    <3> HIDE DEF l
    <3> QED
      BY <1>2, <3>2, <3>3, MovesTyped, Typed, PCs DEF ReadRun, history
  <2> QED
    BY <1>2, <2>1, <2>2 DEF ReadRun, Run
<1>3. CASE StopAtTurnCap(p) \/ ModelFails(p)
  <2>1. PICK w \in {"capRun", "failRun"} : pc' = [pc EXCEPT ![p] = w]
    BY <1>3 DEF StopAtTurnCap, ModelFails, Goto
  <2>2. UNCHANGED <<row, approvals, loc, minted, effects, history, crashes>>
    BY <1>3 DEF StopAtTurnCap, ModelFails
  <2> QED
    BY ZenonT(60), <2>1, <2>2, MovesTyped, Typed, PCs DEF history
<1>4. CASE ModelReplies(p)
  <2>1. PICK reply \in Replies :
          /\ minted' = minted + Len(reply)
          /\ loc' = [loc EXCEPT ![p].calls =
                       [i \in 1..Len(reply) |-> [id |-> minted + i, kind |-> reply[i]]]]
    BY <1>4 DEF ModelReplies
  <2> DEFINE calls == [i \in 1..Len(reply) |-> [id |-> minted + i, kind |-> reply[i]]]
             l == [loc[p] EXCEPT !.calls = calls]
  <2>2. reply \in Seq(Kind) /\ Len(reply) \in Nat
    BY AgentRunnerAssumption
  <2>3. calls \in Seq(Call)
    <3>1. \A i \in 1..Len(reply) : minted + i \in Nat /\ reply[i] \in Kind
      BY <2>2, Typed
    <3>2. calls \in [1..Len(reply) -> Call]
      BY <3>1 DEF Call
    <3> HIDE DEF calls
    <3> QED
      BY <2>2, <3>2, SeqDef
  <2>4. l \in Local
    BY <2>3, Typed DEF Local
  <2>5. PICK w \in {"appendTurn"} : pc' = [pc EXCEPT ![p] = w] /\ loc' = [loc EXCEPT ![p] = l]
    BY <1>4, <2>1, Typed DEF ModelReplies, Goto
  <2>6. minted' \in Nat
    <3>1. minted' = minted + Len(reply)
      BY <2>1
    <3> QED
      BY <2>2, <3>1, Typed
  <2>7. UNCHANGED <<row, approvals, effects, history, crashes>>
    BY <1>4 DEF ModelReplies
  <2> HIDE DEF l
  <2> QED
    BY <2>4, <2>5, <2>6, <2>7, GoesTyped, Typed, PCs
<1>5. CASE SettleRun(p)
  <2>1. PICK s \in Status : row' = [row EXCEPT ![r].status = s]
    BY <1>5 DEF SettleRun, Run, Status
  <2>2. row' \in [Starters -> Row]
    BY <2>1, Typed, RowTyped
  <2> QED
    BY <1>5, <2>2, ReturnTyped, Typed DEF SettleRun
<1>6. CASE BeginMutate(p)
  <2> DEFINE l == [loc[p] EXCEPT !.copy = row[r]]
  <2>1. l \in Local
    BY Typed DEF Local
  <2>2. pc' = [pc EXCEPT ![p] = pc[p]] /\ loc' = [loc EXCEPT ![p] = l]
    BY <1>6, Typed DEF BeginMutate, Run
  <2>3. l.calls = loc[p].calls /\ l.approval = loc[p].approval /\ l.run = loc[p].run
    BY Typed DEF Local
  <2>4. UNCHANGED <<row, approvals, minted, effects, history, crashes>>
    BY <1>6 DEF BeginMutate
  <2> HIDE DEF l
  <2> QED
    BY <2>1, <2>2, <2>3, <2>4, GoesTyped, Typed, PCs
<1>7. CASE AppendTurn(p)
  <2> DEFINE l == [loc[p] EXCEPT !.copy = EmptyRow]
  <2>1. PICK w \in {"completeRun", "check"} : pc' = [pc EXCEPT ![p] = w]
    BY <1>7 DEF AppendTurn, Goto
  <2>2. l \in Local
    <3>1. EmptyRow \in Row
      BY BlankTyped
    <3> QED
      BY <3>1, Typed DEF Local
  <2>5. loc' = [loc EXCEPT ![p] = l]
    BY <1>7, Typed DEF AppendTurn
  <2>3. row' \in [Starters -> Row]
    BY <1>7, ItemsTyped, RowTyped, Typed DEF AppendTurn, Mutate, Run
  <2>4. UNCHANGED <<approvals, minted, effects, history, crashes>>
    BY <1>7 DEF AppendTurn
  <2> HIDE DEF l
  <2> QED
    BY <2>1, <2>2, <2>3, <2>4, <2>5, GoesTyped, Typed, PCs
<1> QED
  BY <1>1, <1>2, <1>3, <1>4, <1>5, <1>6, <1>7

\* The steps of handleToolCalls.
LEMMA CallsTyped ==
  ASSUME TypeOK, NEW p \in Requests,
         \/ CheckRunning(p) \/ EndOfCalls(p) \/ RefuseCall(p) \/ ExecuteCall(p)
         \/ AnswerCall(p) \/ RequestApproval(p) \/ PauseRun(p)
  PROVE  TypeOK'
<1> DEFINE r == loc[p].run
           call == Head(loc[p].calls)
<1>1. CASE CheckRunning(p)
  <2>1. CASE Return(p)
    BY <1>1, <2>1, ReturnTyped, Typed DEF CheckRunning, history
  <2>2. CASE Goto(p, "call") /\ loc' = loc
    <3>1. PICK w \in {"call"} : pc' = [pc EXCEPT ![p] = w]
      BY <2>2 DEF Goto
    <3>2. UNCHANGED <<row, approvals, minted, effects, history, crashes>>
      BY <1>1 DEF CheckRunning
    <3> QED
      BY <2>2, <3>1, <3>2, GoesTyped, Typed, PCs
  <2> QED
    BY <1>1, <2>1, <2>2 DEF CheckRunning
<1>2. CASE EndOfCalls(p)
  <2>1. PICK w \in {"continue", "reload"} : pc' = [pc EXCEPT ![p] = w]
    BY <1>2 DEF EndOfCalls, Goto
  <2> QED
    BY ZenonT(60), <1>2, <2>1, MovesTyped, Typed, PCs DEF EndOfCalls, history
<1>3. CASE RefuseCall(p) \/ ExecuteCall(p)
  <2>1. PICK o \in Outcome : loc' = [loc EXCEPT ![p].outcome = o]
    BY <1>3 DEF RefuseCall, ExecuteCall, Outcome
  <2> DEFINE l == [loc[p] EXCEPT !.outcome = o]
  <2>2. l \in Local /\ l.calls = loc[p].calls
    BY Typed DEF Local
  <2>3. PICK w \in {"answer"} : pc' = [pc EXCEPT ![p] = w] /\ loc' = [loc EXCEPT ![p] = l]
    BY <1>3, <2>1, Typed DEF RefuseCall, ExecuteCall, Goto
  <2>4. loc[p].calls # << >>
    BY <1>3 DEF RefuseCall, ExecuteCall
  <2>5. call \in Call
    BY SMTT(30), <2>4, HeadTyped, Typed
  <2>6. effects' = effects \/ effects' = [effects EXCEPT ![r] = Append(@, call)]
    BY <1>3 DEF RefuseCall, ExecuteCall, Run
  <2>7. effects' \in [Starters -> Seq(Call)]
    <3>1. Append(effects[r], call) \in Seq(Call)
      BY <2>5, Typed, AppendProperties
    <3> QED
      BY ZenonT(60), <2>6, <3>1, Typed
  <2>8. UNCHANGED <<row, approvals, minted, history, crashes>>
    BY <1>3 DEF RefuseCall, ExecuteCall
  <2> HIDE DEF l
  <2> QED
    BY <2>2, <2>3, <2>4, <2>7, <2>8, GoesTyped, Typed, PCs
<1>4. CASE AnswerCall(p)
  <2> DEFINE refused == call.kind \in {"unknown", "denied"}
             l == [loc[p] EXCEPT !.copy = EmptyRow, !.calls = Tail(@),
                                 !.resumed = IF refused THEN @ ELSE NoApproval]
  <2>1. pc[p] = "answer" /\ loc[p].calls # << >>
    BY <1>4, Typed DEF AnswerCall
  <2>2. call \in Call /\ Tail(loc[p].calls) \in Seq(Call)
    BY <2>1, HeadTyped, Typed
  <2>3. l \in Local
    <3>1. PICK n \in Nat : n = IF refused THEN loc[p].resumed ELSE NoApproval
      BY Typed DEF NoApproval
    <3>2. EmptyRow \in Row
      BY BlankTyped
    <3>3. PICK rest \in Seq(Call) : rest = Tail(loc[p].calls)
      BY <2>2
    <3>4. l = [loc[p] EXCEPT !.copy = EmptyRow, !.calls = rest, !.resumed = n]
      BY <3>1, <3>3
    <3>5. n \in Nat /\ rest \in Seq(Call)
      BY <3>1, <3>3
    <3>6. [loc[p] EXCEPT !.copy = EmptyRow, !.calls = rest, !.resumed = n] \in Local
      <4> HIDE DEF l
      <4> QED
        BY <3>2, <3>5, Typed DEF Local
    <3> QED
      BY <3>4, <3>6
  <2>4. PICK w \in {"call"} : pc' = [pc EXCEPT ![p] = w] /\ loc' = [loc EXCEPT ![p] = l]
    BY <1>4, Typed DEF AnswerCall, Goto
  <2>5. row' \in [Starters -> Row]
    <3>1. PICK a \in Nat : row' = [row EXCEPT ![r] = [loc[p].copy EXCEPT
            !.invocations = Append(@, [call |-> call, outcome |-> loc[p].outcome, approval |-> a]),
            !.messages = Append(@, ToolMessage(call))]]
      BY <1>4, Typed DEF AnswerCall, Mutate, Run, NoApproval
    <3>2. /\ [call |-> call, outcome |-> loc[p].outcome, approval |-> a] \in Invocation
          /\ ToolMessage(call) \in Message
      BY <2>2, ItemsTyped, Typed
    <3> QED
      BY ZenonT(60), <3>1, <3>2, RowTyped, Typed
  <2>6. UNCHANGED <<approvals, minted, effects, history, crashes>>
    BY <1>4 DEF AnswerCall
  <2> HIDE DEF l
  <2> QED
    BY <2>3, <2>4, <2>5, <2>6, GoesTyped, Typed, PCs
<1>5. CASE RequestApproval(p)
  <2> DEFINE asked == [call |-> call, status |-> "pending"]
  <2>1. loc[p].calls # << >>
    BY <1>5 DEF RequestApproval
  <2>2. asked \in Approval
    BY <2>1, HeadTyped, Typed DEF Approval
  <2>3. /\ approvals' = [approvals EXCEPT ![r] = Append(@, asked)]
        /\ loc' = loc /\ UNCHANGED <<row, minted, effects, history, crashes>>
    BY <1>5 DEF RequestApproval, Run
  <2>4. /\ Append(approvals[r], asked) \in Seq(Approval)
        /\ DOMAIN approvals[r] \subseteq DOMAIN Append(approvals[r], asked)
    BY <2>2, Typed, AppendProperties
  <2>5. /\ approvals' \in [Starters -> Seq(Approval)]
        /\ \A s \in Starters : DOMAIN approvals[s] \subseteq DOMAIN approvals'[s]
    BY <2>3, <2>4, Typed
  <2>6. /\ minted' = minted /\ effects' = effects /\ granted' = granted
        /\ redecided' = redecided /\ crashes' = crashes /\ row' = row
    BY <2>3 DEF history
  <2>7. PICK w \in {"pause"} : pc' = [pc EXCEPT ![p] = w]
    BY <1>5 DEF RequestApproval, Goto
  <2>8. loc' = loc
    BY <2>3
  <2> QED
    BY ZenonT(60), <2>1, <2>5, <2>6, <2>7, <2>8, MovesTyped, Typed, PCs
<1>6. CASE PauseRun(p)
  <2>1. row' \in [Starters -> Row]
    BY ZenonT(60), <1>6, RowTyped, Typed DEF PauseRun, Mutate, Run, Status
  <2> QED
    BY SMTT(30), <1>6, <2>1, ReturnTyped, Typed DEF PauseRun
<1> QED
  BY <1>1, <1>2, <1>3, <1>4, <1>5, <1>6

\* The steps of decideApprovalAction and resumeAgentRunFromApproval.
LEMMA DecideTyped ==
  ASSUME TypeOK, NEW p \in Requests, Decide(p)
  PROVE  TypeOK'
<1> DEFINE r == loc[p].run
           n == loc[p].approval
<1>1. CASE WriteDecision(p)
  <2>1. /\ pc[p] = "decide" /\ n \in DOMAIN approvals[r] /\ loc' = loc
        /\ approvals' = [approvals EXCEPT ![r][n].status = loc[p].decision]
        /\ UNCHANGED <<row, minted, effects, crashes>>
    BY <1>1, Typed DEF WriteDecision, Run
  <2>2. PICK w \in {"readRun"} : pc' = [pc EXCEPT ![p] = w]
    BY <1>1 DEF WriteDecision, Goto
  <2>3. approvals[r][n] \in Approval /\ approvals[r][n].call \in Call
    BY <2>1, Typed, ApprovalTyped
  <2> DEFINE decided == [approvals[r][n] EXCEPT !.status = loc[p].decision]
  <2>4. decided \in Approval
    BY <2>3, Typed DEF Approval
  <2>5. approvals'[r] = [approvals[r] EXCEPT ![n] = decided]
        /\ \A s \in Starters \ {r} : approvals'[s] = approvals[s]
        /\ approvals' = [approvals EXCEPT ![r] = [approvals[r] EXCEPT ![n] = decided]]
    BY <2>1, Typed
  <2>6. /\ [approvals[r] EXCEPT ![n] = decided] \in Seq(Approval)
        /\ DOMAIN [approvals[r] EXCEPT ![n] = decided] = DOMAIN approvals[r]
    BY <2>1, <2>4, Typed, ExceptSeq
  <2>7. /\ approvals' \in [Starters -> Seq(Approval)]
        /\ \A s \in Starters : DOMAIN approvals[s] \subseteq DOMAIN approvals'[s]
    <3>1. /\ approvals'[r] \in Seq(Approval) /\ DOMAIN approvals'[r] = DOMAIN approvals[r]
          /\ \A s \in Starters \ {r} : approvals'[s] = approvals[s]
      BY <2>5, <2>6
    <3>2. approvals' = [s \in Starters |-> approvals'[s]]
      BY <2>1, Typed
    <3>3. \A s \in Starters : approvals'[s] \in Seq(Approval)
      BY <3>1, Typed
    <3> QED
      BY <3>1, <3>2, <3>3, Typed
  <2>8. granted' \subseteq Call /\ redecided' \subseteq Starters
    BY <1>1, <2>3, Typed DEF WriteDecision, Run
  <2> QED
    BY ZenonT(60), <2>1, <2>2, <2>7, <2>8, MovesTyped, Typed, PCs
<1>2. CASE ReadPausedRun(p)
  <2>1. UNCHANGED <<row, approvals, minted, effects, history, crashes>>
    BY <1>2 DEF ReadPausedRun
  <2>2. CASE Return(p)
    BY <2>1, <2>2, ReturnTyped, Typed DEF history
  <2> DEFINE batch == <<approvals[r][n].call>> \o Tail(row[r].pending)
             l == [loc[p] EXCEPT !.calls = batch]
  <2>3. CASE ~ Return(p)
    <3>1. PICK w \in Resuming : pc' = [pc EXCEPT ![p] = w]
      BY <1>2, <2>3 DEF ReadPausedRun, Goto, Resuming
    <3>2. loc' = [loc EXCEPT ![p] = l] /\ row[r].pending # << >>
      BY <1>2, <2>3, Typed DEF ReadPausedRun, Run
    <3>3. n \in DOMAIN approvals[r] /\ approvals[r][n].call \in Call
      <4>1. n \in DOMAIN approvals[r]
        BY SMTT(30), <1>2, Typed DEF ReadPausedRun
      <4> QED
        BY <4>1, Typed, ApprovalTyped
    <3>4. row[r].pending \in Seq(Call) /\ Tail(row[r].pending) \in Seq(Call)
      BY <3>2, HeadTyped, Typed DEF Row
    <3>5. batch \in Seq(Call) /\ batch # << >>
      BY <3>3, <3>4, ConcatProperties, EmptySeq
    <3>6. l \in Local /\ l.calls # << >> /\ l.run = r /\ l.approval = n
      <4> HIDE DEF batch
      <4> QED
        BY <3>5, Typed DEF Local
    <3>7. w \in PC
      BY PCs DEF Resuming
    <3>8. row' \in [Starters -> Row] /\ minted' \in Nat /\ effects' \in [Starters -> Seq(Call)]
      BY <2>1, Typed
    <3> HIDE DEF l
    <3> QED
      BY <2>1, <3>1, <3>2, <3>3, <3>6, <3>7, <3>8, GoesTyped
  <2> QED
    BY <2>2, <2>3
<1>3. CASE StopMismatchedRun(p)
  <2>1. row' \in [Starters -> Row]
    BY ZenonT(60), <1>3, RowTyped, Typed DEF StopMismatchedRun, Run, Status
  <2> QED
    BY <1>3, <2>1, ReturnTyped, Typed DEF StopMismatchedRun
<1>4. CASE RejectRun(p)
  <2>1. pc[p] = "reject" /\ loc[p].calls # << >>
    BY <1>4, Typed DEF RejectRun
  <2> DEFINE skipped == [call |-> Head(loc[p].calls), outcome |-> "skipped", approval |-> n]
  <2>2. skipped \in Invocation /\ "rejected" \in Status /\ << >> \in Seq(Call)
    BY <2>1, HeadTyped, ItemsTyped, Typed DEF Outcome, Status
  <2>3. row' = [row EXCEPT ![r] = [loc[p].copy EXCEPT !.status = "rejected",
                  !.pending = << >>, !.invocations = Append(@, skipped)]]
    BY SMTT(30), <1>4 DEF RejectRun, Mutate, Run
  <2> HIDE DEF skipped
  <2>4. row' \in [Starters -> Row]
    BY <2>2, <2>3, RowTyped, Typed
  <2> QED
    BY <1>4, <2>4, ReturnTyped, Typed DEF RejectRun
<1>5. CASE ResumeRun(p)
  <2> DEFINE l == [loc[p] EXCEPT !.copy = EmptyRow, !.resumed = n]
  <2>1. PICK w \in {"check"} : pc' = [pc EXCEPT ![p] = w] /\ loc' = [loc EXCEPT ![p] = l]
    BY <1>5, Typed DEF ResumeRun, Goto
  <2>2. l \in Local
    <3>1. EmptyRow \in Row
      BY BlankTyped
    <3> QED
      BY <3>1, Typed DEF Local
  <2>3. row' \in [Starters -> Row]
    <3>1. "running" \in Status /\ << >> \in Seq(Call)
      BY DEF Status
    <3>2. row' = [row EXCEPT ![r] = [loc[p].copy EXCEPT !.status = "running", !.pending = << >>]]
      BY <1>5 DEF ResumeRun, Mutate, Run
    <3> QED
      BY <3>1, <3>2, RowTyped, Typed
  <2>4. UNCHANGED <<approvals, minted, effects, history, crashes>>
    BY <1>5 DEF ResumeRun
  <2> HIDE DEF l
  <2> QED
    BY <2>1, <2>2, <2>3, <2>4, GoesTyped, Typed, PCs
<1>6. CASE ContinueRun(p)
  <2> DEFINE l == [loc[p] EXCEPT !.approval = NoApproval]
  <2>1. PICK w \in {"drive"} : pc' = [pc EXCEPT ![p] = w] /\ loc' = [loc EXCEPT ![p] = l]
    BY <1>6, Typed DEF ContinueRun, Goto
  <2>2. l \in Local
    BY ZenonT(60), Typed DEF Local, NoApproval
  <2>3. row' \in [Starters -> Row]
    BY ZenonT(60), <1>6, RowTyped, Typed DEF ContinueRun, Run, Status
  <2>4. UNCHANGED <<approvals, minted, effects, history, crashes>>
    BY <1>6 DEF ContinueRun
  <2> HIDE DEF l
  <2> QED
    BY <2>1, <2>2, <2>3, <2>4, GoesTyped, Typed, PCs
<1> QED
  BY <1>1, <1>2, <1>3, <1>4, <1>5, <1>6 DEF Decide

\* Every step preserves the types.
LEMMA StepTyped == TypeOK /\ [Next]_vars => TypeOK'
<1> SUFFICES ASSUME TypeOK, [Next]_vars PROVE TypeOK'
  OBVIOUS
<1>1. CASE UNCHANGED vars
  BY <1>1 DEF vars, history, TypeOK
<1>2. ASSUME NEW p \in Starters, RunPlayground(p)
      PROVE  TypeOK'
  <2>1. p \in Requests
    BY DEF Requests
  <2>2. PICK w \in {"start"} : pc' = [pc EXCEPT ![p] = w]
    BY <1>2 DEF RunPlayground, Goto
  <2>3. UNCHANGED <<row, approvals, loc, minted, effects, history, crashes>>
    BY <1>2 DEF RunPlayground
  <2> QED
    BY ZenonT(60), <2>1, <2>2, <2>3, GoesTyped, Typed, PCs
<1>3. ASSUME NEW p \in Reviewers, NEW r \in Starters, NEW i \in DOMAIN approvals[r],
             NEW d \in Decision, ReadApproval(p, r, i, d)
      PROVE  TypeOK'
  <2> DEFINE l == [loc[p] EXCEPT !.run = r, !.approval = i, !.decision = d]
  <2>1. p \in Requests
    BY DEF Requests
  <2>2. PICK w \in {"decide"} : pc' = [pc EXCEPT ![p] = w] /\ loc' = [loc EXCEPT ![p] = l]
    BY <1>3, <2>1, Typed DEF ReadApproval, Goto
  <2>3. i \in Nat
    BY <2>1, Typed, LenProperties
  <2>4. l \in Local /\ l.run = r /\ l.approval = i
    BY <2>1, <2>3, Typed DEF Local
  <2>5. UNCHANGED <<row, approvals, minted, effects, history, crashes>>
    BY <1>3 DEF ReadApproval
  <2> HIDE DEF l
  <2> QED
    BY <2>1, <2>2, <2>4, <2>5, MovesTyped, Typed, PCs DEF history
<1>4. ASSUME NEW p \in Requests, Crash(p)
      PROVE  TypeOK'
  <2>1. crashes' \in 0..MaxCrashes
    <3>1. crashes < MaxCrashes /\ crashes' = crashes + 1
      BY <1>4 DEF Crash
    <3> QED
      BY <3>1, Typed
  <2> QED
    BY <1>4, <2>1, ReturnTyped, Typed DEF Crash
<1>5. ASSUME NEW p \in Requests, Serve(p)
      PROVE  TypeOK'
  BY <1>5, DriveTyped, CallsTyped, DecideTyped DEF Serve, Drive
<1> QED
  BY <1>1, <1>2, <1>3, <1>4, <1>5 DEF Next

\* The columns of the runs and of their approvals, and the local variables of
\* every request, keep their types, and a request that is at a call has one
\* (agent-runner.ts, approvals/actions.ts).
THEOREM TypeCorrect == Spec => []TypeOK
BY InitTyped, StepTyped, PTL DEF Spec

-----------------------------------------------------------------------------
(***************************************************************************)
(* What a step of one request leaves alone.                                *)
(***************************************************************************)

\* A request that returns is at rest, and no longer has anything in hand.
LEMMA Returned ==
  ASSUME TypeOK, NEW p \in Requests, Return(p)
  PROVE  /\ pc'[p] = IF p \in Starters THEN "done" ELSE "idle"
         /\ loc'[p] = Blank(loc[p].run)
         /\ \A q \in Requests \ {p} : pc'[q] = pc[q] /\ loc'[q] = loc[q]
BY Typed DEF Return

\* A request moves no other request.
LEMMA OthersStay ==
  ASSUME TypeOK, NEW p \in Requests, Serve(p) \/ Crash(p), NEW q \in Requests \ {p}
  PROVE  pc'[q] = pc[q] /\ loc'[q] = loc[q]
<1>1. pc \in [Requests -> PC] /\ loc \in [Requests -> Local]
  BY DEF TypeOK
<1>2. Return(p) => pc'[q] = pc[q] /\ loc'[q] = loc[q]
  BY <1>1 DEF Return
<1>3. ASSUME NEW w, Goto(p, w) PROVE pc'[q] = pc[q]
  BY <1>1, <1>3 DEF Goto
<1>4. CASE Crash(p)
  BY <1>2, <1>4 DEF Crash
<1>5. CASE \/ StartAgentRun(p) \/ ReadRun(p) \/ StopAtTurnCap(p) \/ ModelFails(p)
           \/ ModelReplies(p) \/ SettleRun(p) \/ BeginMutate(p) \/ AppendTurn(p)
  BY <1>1, <1>2, <1>3, <1>5 DEF StartAgentRun, ReadRun, StopAtTurnCap, ModelFails, ModelReplies,
     SettleRun, BeginMutate, AppendTurn
<1>6. CASE \/ CheckRunning(p) \/ EndOfCalls(p) \/ RefuseCall(p) \/ ExecuteCall(p)
           \/ AnswerCall(p) \/ RequestApproval(p) \/ PauseRun(p)
  BY SMTT(30), <1>1, <1>2, <1>3, <1>6 DEF CheckRunning, EndOfCalls, RefuseCall, ExecuteCall, AnswerCall,
     RequestApproval, PauseRun
<1>7. CASE Decide(p)
  BY <1>1, <1>2, <1>3, <1>7 DEF Decide, WriteDecision, ReadPausedRun, StopMismatchedRun,
     RejectRun, ResumeRun, ContinueRun
<1> QED
  BY <1>4, <1>5, <1>6, <1>7 DEF Serve, Drive

\* Only two steps write approvals, and neither takes one away or changes the
\* call it is for.
LEMMA ApprovalsStay ==
  ASSUME TypeOK, NEW p \in Requests, Serve(p) \/ Crash(p), NEW r \in Starters
  PROVE  /\ DOMAIN approvals[r] \subseteq DOMAIN approvals'[r]
         /\ \A i \in DOMAIN approvals[r] : approvals'[r][i].call = approvals[r][i].call
         /\ ~ WriteDecision(p) /\ ~ RequestApproval(p) => approvals' = approvals
         /\ ~ WriteDecision(p) => granted' = granted /\ redecided' = redecided
<1>1. CASE WriteDecision(p)
  <2>1. approvals' = [approvals EXCEPT ![loc[p].run][loc[p].approval].status = loc[p].decision]
        /\ loc[p].approval \in DOMAIN approvals[loc[p].run]
    BY <1>1, Typed DEF WriteDecision, Run
  <2>2. \A i \in DOMAIN approvals[r] : approvals[r][i] \in Approval
    BY ApprovalTyped
  <2>3. /\ DOMAIN approvals[r] \subseteq DOMAIN approvals'[r]
        /\ \A i \in DOMAIN approvals[r] : approvals'[r][i].call = approvals[r][i].call
    BY <2>1, <2>2, Typed DEF Approval
  <2> QED
    BY <1>1, <2>3
<1>2. CASE RequestApproval(p)
  <2>1. approvals' = [approvals EXCEPT ![loc[p].run] =
                        Append(@, [call |-> Head(loc[p].calls), status |-> "pending"])]
        /\ UNCHANGED history
    BY <1>2 DEF RequestApproval, Run
  <2>2. approvals[r] \in Seq(Approval)
    BY DEF TypeOK
  <2>3. \A x : /\ DOMAIN approvals[r] \subseteq DOMAIN Append(approvals[r], x)
               /\ \A i \in DOMAIN approvals[r] : Append(approvals[r], x)[i] = approvals[r][i]
    BY <2>2
  <2>4. /\ DOMAIN approvals[r] \subseteq DOMAIN approvals'[r]
        /\ \A i \in DOMAIN approvals[r] : approvals'[r][i].call = approvals[r][i].call
    BY SMTT(30), <2>1, <2>3, Typed
  <2> QED
    BY <1>2, <2>1, <2>4 DEF history
<1>3. CASE ~ WriteDecision(p) /\ ~ RequestApproval(p)
  <2>1. approvals' = approvals /\ UNCHANGED history
    BY SMTT(30), <1>3 DEF Serve, Drive, Decide, Crash, StartAgentRun, ReadRun, StopAtTurnCap, ModelFails,
       ModelReplies, SettleRun, BeginMutate, AppendTurn, CheckRunning, EndOfCalls, RefuseCall,
       ExecuteCall, AnswerCall, PauseRun, ReadPausedRun, StopMismatchedRun, RejectRun,
       ResumeRun, ContinueRun
  <2> QED
    BY <1>3, <2>1 DEF history
<1> QED
  BY <1>1, <1>2, <1>3

\* Only executeTool has effects.
LEMMA EffectsStay ==
  ASSUME NEW p \in Requests, Serve(p) \/ Crash(p), ~ ExecuteCall(p)
  PROVE  effects' = effects
BY ZenonT(60) DEF Serve, Drive, Decide, Crash, StartAgentRun, ReadRun, StopAtTurnCap, ModelFails,
   ModelReplies, SettleRun, BeginMutate, AppendTurn, CheckRunning, EndOfCalls, RefuseCall,
   AnswerCall, RequestApproval, PauseRun, WriteDecision, ReadPausedRun, StopMismatchedRun,
   RejectRun, ResumeRun, ContinueRun

-----------------------------------------------------------------------------
(***************************************************************************)
(* A consequential call is executed only with a grant.                     *)
(***************************************************************************)

\* What a request has in hand stays granted while others move.
LEMMA GrantStays ==
  ASSUME TypeOK, NEW q \in Requests, GrantInHand(q), pc'[q] = pc[q], loc'[q] = loc[q],
         granted \subseteq granted',
         \A r \in Starters, i \in DOMAIN approvals[loc[q].run] :
           approvals'[loc[q].run][i].call = approvals[loc[q].run][i].call
  PROVE  GrantInHand(q)'
BY Typed DEF GrantInHand, Run

\* A request with no approval in hand, that is not about to act on one, has
\* nothing to show.
LEMMA NothingInHand ==
  ASSUME NEW p \in Requests, pc'[p] \notin {"readRun", "resume"}, loc'[p].resumed = NoApproval
  PROVE  GrantInHand(p)'
BY DEF GrantInHand

\* A request that returns has nothing in hand.
LEMMA ReturnGrant ==
  ASSUME TypeOK, NEW p \in Requests, Return(p)
  PROVE  GrantInHand(p)'
<1>1. pc'[p] \in {"idle", "done"} /\ loc'[p] = Blank(loc[p].run)
  BY Returned
<1>2. loc'[p].resumed = NoApproval
  BY <1>1 DEF Blank
<1> QED
  BY <1>1, <1>2, NothingInHand

\* Steps of a request that has no approval in hand, or lets go of it.
LEMMA DriveGrant ==
  ASSUME TypeOK, NEW p \in Requests, GrantInHand(p),
         Crash(p) \/ (Drive(p) /\ ~ CheckRunning(p) /\ ~ ExecuteCall(p) /\ ~ BeginMutate(p))
  PROVE  GrantInHand(p)'
<1>1. pc \in [Requests -> PC] /\ loc \in [Requests -> Local] /\ loc[p] \in Local
  BY Typed
<1>2. CASE Return(p)
  BY <1>2, ReturnGrant
<1>3. CASE \/ StartAgentRun(p) \/ ReadRun(p) \/ StopAtTurnCap(p) \/ ModelFails(p)
           \/ SettleRun(p) \/ PauseRun(p) \/ Crash(p)
  <2>1. Return(p) \/ loc[p].resumed = NoApproval
    BY <1>3 DEF StartAgentRun, ReadRun, StopAtTurnCap, ModelFails, SettleRun, PauseRun, Crash,
       GrantInHand
  <2>2. Return(p) \/ (pc'[p] \in {"drive", "turn", "capRun", "failRun"}
                      /\ loc'[p].resumed = loc[p].resumed)
    BY <1>1, <1>3 DEF StartAgentRun, ReadRun, StopAtTurnCap, ModelFails, SettleRun, PauseRun,
       Crash, Goto, Local
  <2> QED
    BY <1>2, <2>1, <2>2, NothingInHand
<1>4. CASE ModelReplies(p) \/ AppendTurn(p) \/ EndOfCalls(p) \/ RefuseCall(p)
           \/ RequestApproval(p)
  <2>1. loc[p].resumed = NoApproval
    BY <1>4 DEF ModelReplies, AppendTurn, EndOfCalls, RefuseCall, RequestApproval, NeedsApproval,
       GrantInHand
  <2>2. loc'[p].resumed = loc[p].resumed
    BY <1>1, <1>4 DEF ModelReplies, AppendTurn, EndOfCalls, RefuseCall, RequestApproval, Local
  <2>3. pc'[p] \in {"appendTurn", "completeRun", "check", "continue", "reload", "answer", "pause"}
    BY <1>1, <1>4 DEF ModelReplies, AppendTurn, EndOfCalls, RefuseCall, RequestApproval, Goto
  <2> QED
    BY <2>1, <2>2, <2>3, NothingInHand
<1>5. CASE AnswerCall(p)
  <2>1. Head(loc[p].calls).kind \in {"unknown", "denied"} => loc[p].resumed = NoApproval
    BY <1>5 DEF GrantInHand
  <2>2. /\ pc'[p] = "call"
        /\ loc'[p].resumed = IF Head(loc[p].calls).kind \in {"unknown", "denied"}
                               THEN loc[p].resumed ELSE NoApproval
    BY <1>1, <1>5 DEF AnswerCall, Goto, Local
  <2> QED
    BY <2>1, <2>2, NothingInHand
<1> QED
  BY <1>3, <1>4, <1>5 DEF Drive

\* Steps of a request that may have an approval in hand.
LEMMA HandGrant ==
  ASSUME TypeOK, NEW p \in Requests, GrantInHand(p),
         CheckRunning(p) \/ ExecuteCall(p) \/ BeginMutate(p)
  PROVE  GrantInHand(p)'
<1>1. pc \in [Requests -> PC] /\ loc \in [Requests -> Local] /\ loc[p] \in Local
  BY Typed
<1>2. CASE Return(p)
  BY <1>2, ReturnGrant
<1>3. CASE ~ Return(p)
  <2>1. /\ loc'[p].resumed = loc[p].resumed /\ loc'[p].calls = loc[p].calls
        /\ granted' = granted
    BY <1>1, <1>3 DEF CheckRunning, ExecuteCall, BeginMutate, Local, history
  <2>2. \/ pc'[p] \in {"call", "answer"} /\ pc[p] \in {"check", "call"}
        \/ pc'[p] = pc[p] /\ pc[p] \in MutatePC
    BY <1>1, <1>3 DEF CheckRunning, ExecuteCall, BeginMutate, Goto
  <2> QED
    BY <2>1, <2>2, PCs DEF GrantInHand
<1> QED
  BY <1>2, <1>3

\* The reviewer's steps, from the decision to the approval in hand.
LEMMA DecideGrant ==
  ASSUME TypeOK, GrantInv, NEW p \in Requests, Decide(p)
  PROVE  GrantInHand(p)'
<1> DEFINE r == loc[p].run
           n == loc[p].approval
<1>1. /\ pc \in [Requests -> PC] /\ loc \in [Requests -> Local] /\ loc[p] \in Local
      /\ GrantInHand(p)
  BY Typed DEF GrantInv
<1>2. CASE Return(p)
  BY <1>2, ReturnGrant
<1>3. CASE WriteDecision(p)
  <2>1. /\ n \in DOMAIN approvals[r] /\ pc'[p] = "readRun" /\ loc'[p] = loc[p]
        /\ loc[p].resumed = NoApproval
    BY <1>1, <1>3, Typed DEF WriteDecision, Goto, GrantInHand
  <2>2. approvals'[r][n].call = approvals[r][n].call
    BY <1>3, <2>1, Typed, ApprovalsStay DEF Serve, Decide
  <2>3. loc[p].decision = "approved" => approvals[r][n].call \in granted'
    BY SMTT(30), <1>3 DEF WriteDecision, Run
  <2> QED
    BY <2>1, <2>2, <2>3 DEF GrantInHand, Run
<1>4. CASE ReadPausedRun(p) /\ ~ Return(p)
  <2> DEFINE pinned == approvals[r][n].call
             l == [loc[p] EXCEPT !.calls = <<pinned>> \o Tail(row[r].pending)]
  <2>1. /\ n \in DOMAIN approvals[r] /\ loc'[p] = l /\ row[r].pending # << >>
        /\ granted' = granted /\ loc[p].resumed = NoApproval
        /\ loc[p].decision = "approved" => pinned \in granted
    BY <1>1, <1>4, Typed DEF ReadPausedRun, Run, GrantInHand, history
  <2>2. pinned \in Call /\ pinned.kind = "consequential" /\ loc[p].decision \in Decision
    BY SMTT(30), <2>1, Typed, ApprovalTyped DEF GrantInv
  <2>3. Tail(row[r].pending) \in Seq(Call)
    BY SMTT(30), <2>1, Typed, HeadTyped DEF Row
  <2>4. loc'[p].calls = <<pinned>> \o Tail(row[r].pending) /\ loc'[p].resumed = NoApproval
    BY ZenonT(60), <2>1, Typed DEF Local
  <2>5. loc'[p].calls # << >> /\ Head(loc'[p].calls) = pinned
    BY <2>2, <2>3, <2>4
  <2>6. pc'[p] \in {"mismatch", "reject", "resume"}
        /\ (pc'[p] = "resume" => loc[p].decision # "rejected")
    BY <1>1, <1>4 DEF ReadPausedRun, Goto
  <2> QED
    BY ZenonT(60), <2>1, <2>2, <2>4, <2>5, <2>6 DEF GrantInHand, Decision
<1>5. CASE ResumeRun(p)
  <2>1. pc[p] = "resume" /\ pc'[p] = "check" /\ loc'[p].calls = loc[p].calls /\ granted' = granted
    BY <1>1, <1>5 DEF ResumeRun, Goto, Local, history
  <2> QED
    BY <1>1, <2>1 DEF GrantInHand
<1>6. CASE ContinueRun(p)
  <2>1. pc[p] = "continue" /\ pc'[p] = "drive" /\ loc'[p].resumed = loc[p].resumed
    BY <1>1, <1>6 DEF ContinueRun, Goto, Local
  <2> QED
    BY <1>1, <2>1, NothingInHand DEF GrantInHand
<1> QED
  BY <1>2, <1>3, <1>4, <1>5, <1>6 DEF Decide, StopMismatchedRun, RejectRun

\* Whatever is in effects is granted, or needs no grant.
LEMMA EffectsGranted ==
  ASSUME TypeOK, GrantInv, NEW p \in Requests, Serve(p) \/ Crash(p)
  PROVE  ConsequentialNeedsGrant'
<1>1. granted \subseteq granted'
  <2>1. CASE WriteDecision(p)
    BY <2>1 DEF WriteDecision
  <2> QED
    BY <2>1, ApprovalsStay, Typed
<1>2. CASE effects' = effects
  BY <1>1, <1>2 DEF ConsequentialNeedsGrant, GrantInv
<1>3. CASE ExecuteCall(p)
  <2> DEFINE r == loc[p].run
             call == Head(loc[p].calls)
  <2>1. effects' = [effects EXCEPT ![r] = Append(@, call)] /\ pc[p] = "call"
        /\ (call.kind = "consequential" => loc[p].resumed # NoApproval)
    BY <1>3 DEF ExecuteCall, Run, NeedsApproval
  <2>2. call.kind = "consequential" => call \in granted
    BY <2>1 DEF GrantInv, GrantInHand
  <2>3. /\ effects[r] \in Seq(Call) /\ r \in Starters
        /\ \A s \in Starters \ {r} : effects'[s] = effects[s]
        /\ effects'[r] = Append(effects[r], call)
    BY <2>1, Typed
  <2>4. ASSUME NEW i \in DOMAIN effects'[r]
        PROVE  effects'[r][i] = call \/ (i \in DOMAIN effects[r] /\ effects'[r][i] = effects[r][i])
    BY <2>3, <2>4
  <2> HIDE DEF r, call
  <2>5. ASSUME NEW s \in Starters, NEW i \in DOMAIN effects'[s],
               effects'[s][i].kind = "consequential"
        PROVE  effects'[s][i] \in granted'
    <3>1. CASE s = r
      BY <1>1, <2>2, <2>4, <2>5, <3>1 DEF GrantInv, ConsequentialNeedsGrant
    <3>2. CASE s # r
      BY <1>1, <2>3, <2>5, <3>2 DEF GrantInv, ConsequentialNeedsGrant
    <3> QED
      BY <3>1, <3>2
  <2> QED
    BY <2>5 DEF ConsequentialNeedsGrant
<1> QED
  BY <1>2, <1>3, EffectsStay

\* Only a consequential call is put before a reviewer.
LEMMA ApprovalsGranted ==
  ASSUME TypeOK, GrantInv, NEW p \in Requests, Serve(p) \/ Crash(p),
         NEW r \in Starters, NEW i \in DOMAIN approvals'[r]
  PROVE  approvals'[r][i].call.kind = "consequential"
<1>1. CASE i \in DOMAIN approvals[r]
  BY <1>1, ApprovalsStay DEF GrantInv
<1>2. CASE i \notin DOMAIN approvals[r]
  <2>1. approvals[r] \in Seq(Approval) /\ approvals \in [Starters -> Seq(Approval)]
    BY DEF TypeOK
  <2>2. ~ WriteDecision(p)
    <3>1. SUFFICES ASSUME WriteDecision(p) PROVE DOMAIN approvals'[r] = DOMAIN approvals[r]
      BY <1>2
    <3>2. approvals' = [approvals EXCEPT ![loc[p].run][loc[p].approval].status = loc[p].decision]
      BY <3>1 DEF WriteDecision, Run
    <3> QED
      BY <2>1, <3>2
  <2>3. RequestApproval(p)
    BY <1>2, <2>2, ApprovalsStay
  <2>4. /\ approvals' = [approvals EXCEPT ![loc[p].run] =
                           Append(@, [call |-> Head(loc[p].calls), status |-> "pending"])]
        /\ Head(loc[p].calls).kind = "consequential"
    BY <2>3 DEF RequestApproval, Run, NeedsApproval
  <2>5. approvals'[r] = Append(approvals[r], [call |-> Head(loc[p].calls), status |-> "pending"])
    BY <1>2, <2>1, <2>4
  <2>6. approvals'[r][i] = [call |-> Head(loc[p].calls), status |-> "pending"]
    BY <1>2, <2>1, <2>5
  <2> QED
    BY <2>4, <2>6
<1> QED
  BY <1>1, <1>2

\* Every step preserves GrantInv.
LEMMA StepGrant == TypeOK /\ GrantInv /\ [Next]_vars => GrantInv'
<1> SUFFICES ASSUME TypeOK, GrantInv, [Next]_vars PROVE GrantInv'
  OBVIOUS
<1>1. CASE UNCHANGED vars
  BY <1>1 DEF vars, history, GrantInv, GrantInHand, ConsequentialNeedsGrant, Run
<1>2. ASSUME NEW p \in Requests, Serve(p) \/ Crash(p)
      PROVE  GrantInv'
  <2>1. GrantInHand(p)'
    BY <1>2, DriveGrant, HandGrant, DecideGrant DEF Serve, GrantInv, Drive
  <2>2. ASSUME NEW q \in Requests \ {p}
        PROVE  GrantInHand(q)'
    <3>1. granted \subseteq granted'
      <4>1. WriteDecision(p) => granted \subseteq granted'
        BY DEF WriteDecision
      <4> QED
        BY <1>2, <4>1, ApprovalsStay, Typed
    <3>2. \A i \in DOMAIN approvals[loc[q].run] :
            approvals'[loc[q].run][i].call = approvals[loc[q].run][i].call
      BY <1>2, Typed, ApprovalsStay
    <3> QED
      BY <1>2, <3>1, <3>2, OthersStay, GrantStays DEF GrantInv
  <2> QED
    BY <1>2, <2>1, <2>2, ApprovalsGranted, EffectsGranted DEF GrantInv
<1>3. ASSUME NEW p \in Requests, pc[p] = "idle", UNCHANGED <<approvals, effects, history>>,
             pc'[p] \in {"start", "decide"}, loc'[p].resumed = loc[p].resumed,
             \A q \in Requests \ {p} : pc'[q] = pc[q] /\ loc'[q] = loc[q]
      PROVE  GrantInv'
  <2>1. GrantInHand(p)'
    BY <1>3, NothingInHand DEF GrantInv, GrantInHand
  <2>2. ASSUME NEW q \in Requests \ {p} PROVE GrantInHand(q)'
    BY <1>3, GrantStays DEF GrantInv, history
  <2> QED
    BY <1>3, <2>1, <2>2 DEF GrantInv, ConsequentialNeedsGrant, history
<1>4. ASSUME NEW p \in Starters, RunPlayground(p)
      PROVE  GrantInv'
  BY <1>3, <1>4, Typed DEF RunPlayground, Goto, Requests
<1>5. ASSUME NEW p \in Reviewers, NEW r \in Starters, NEW i \in DOMAIN approvals[r],
             NEW d \in Decision, ReadApproval(p, r, i, d)
      PROVE  GrantInv'
  <2>1. p \in Requests
    BY DEF Requests
  <2>2. /\ pc[p] = "idle" /\ pc'[p] = "decide" /\ loc'[p].resumed = loc[p].resumed
        /\ UNCHANGED <<approvals, effects, history>>
        /\ \A q \in Requests \ {p} : pc'[q] = pc[q] /\ loc'[q] = loc[q]
    BY ZenonT(60), <1>5, <2>1, Typed DEF ReadApproval, Goto, Local
  <2> QED
    BY <1>3, <2>1, <2>2
<1> QED
  BY <1>1, <1>2, <1>4, <1>5 DEF Next

\* A consequential call is executed only if a reviewer approved that very call,
\* whatever decisions overlap and wherever requests are cut short (the gate of
\* handleToolCalls and the callId check of resumeAgentRunFromApproval).
THEOREM ConsequentialGranted == Spec => []ConsequentialNeedsGrant
<1>1. Init => GrantInv
  BY DEF Init, GrantInv, GrantInHand, ConsequentialNeedsGrant, Blank
<1>2. GrantInv => ConsequentialNeedsGrant
  BY DEF GrantInv
<1> QED
  BY <1>1, <1>2, StepGrant, TypeCorrect, PTL DEF Spec

-----------------------------------------------------------------------------
(***************************************************************************)
(* Calls still to be made, and calls that have been (AgentRunner!Ahead).   *)
(***************************************************************************)

\* A call has an id.
LEMMA IdsTyped ==
  ASSUME NEW c \in Seq(Call)
  PROVE  /\ Len(c) \in Nat /\ DOMAIN c = 1..Len(c)
         /\ \A i \in DOMAIN c : c[i] \in Call /\ c[i].id \in Nat
<1>1. Len(c) \in Nat /\ DOMAIN c = 1..Len(c)
  BY LenProperties
<1>2. \A i \in DOMAIN c : c[i] \in Call
  BY <1>1, ElementOfSeq
<1>3. \A x \in Call : x.id \in Nat
  BY DEF Call
<1> QED
  BY <1>1, <1>2, <1>3

\* More ids have been given out.
LEMMA AheadLater ==
  ASSUME NEW c \in Seq(Call), NEW d \in Seq(Call), NEW m \in Nat, NEW n \in Nat, m <= n
  PROVE  /\ UpTo(c, m) => UpTo(c, n)
         /\ Ahead(c, d, m) => Ahead(c, d, n)
<1>1. \A i \in DOMAIN c : c[i].id \in Nat
  BY IdsTyped
<1> QED
  BY <1>1 DEF Ahead, UpTo

\* The next call is made, or skipped.
LEMMA AheadNext ==
  ASSUME NEW c \in Seq(Call), c # << >>, NEW d \in Seq(Call), NEW m \in Nat,
         Ascending(d), UpTo(d, m), Ahead(c, d, m)
  PROVE  /\ Ahead(Tail(c), d, m) /\ Ahead(Tail(c), Append(d, Head(c)), m)
         /\ Ascending(Append(d, Head(c))) /\ UpTo(Append(d, Head(c)), m)
<1>1. /\ Len(c) \in Nat \ {0} /\ DOMAIN c = 1..Len(c) /\ Head(c) = c[1]
      /\ Head(c) \in Call /\ Head(c).id \in Nat /\ \A i \in DOMAIN c : c[i].id \in Nat
  <2>1. /\ Len(c) \in Nat \ {0} /\ DOMAIN c = 1..Len(c) /\ Head(c) = c[1]
        /\ \A i \in DOMAIN c : c[i] \in Call /\ c[i].id \in Nat
    BY IdsTyped, EmptySeq
  <2> QED
    BY <2>1
<1>2. /\ DOMAIN Tail(c) = 1..(Len(c) - 1)
      /\ \A i \in 1..(Len(c) - 1) : Tail(c)[i] = c[i + 1] /\ i + 1 \in DOMAIN c /\ 1 < i + 1
  BY <1>1
<1>3. /\ Len(d) \in Nat /\ DOMAIN d = 1..Len(d) /\ \A i \in DOMAIN d : d[i].id \in Nat
      /\ DOMAIN Append(d, Head(c)) = 1..(Len(d) + 1)
      /\ \A i \in 1..Len(d) : Append(d, Head(c))[i] = d[i]
      /\ Append(d, Head(c))[Len(d) + 1] = c[1]
  BY <1>1, IdsTyped, AppendProperties
<1>4. /\ \A i, j \in DOMAIN c : i < j => c[i].id < c[j].id
      /\ \A i \in DOMAIN c : c[i].id <= m
      /\ \A i \in DOMAIN c, j \in DOMAIN d : d[j].id < c[i].id
      /\ \A i, j \in DOMAIN d : i < j => d[i].id < d[j].id
      /\ \A i \in DOMAIN d : d[i].id <= m
  BY DEF Ahead, Ascending, UpTo
<1> DEFINE t == Tail(c)
           e == Append(d, Head(c))
<1>5. Ascending(t) /\ UpTo(t, m)
  <2> HIDE DEF t
  <2>1. ASSUME NEW i \in DOMAIN t, NEW j \in DOMAIN t, i < j PROVE t[i].id < t[j].id
    <3>1. i + 1 \in DOMAIN c /\ j + 1 \in DOMAIN c /\ i + 1 < j + 1
      BY <1>1, <1>2, <2>1 DEF t
    <3> QED
      BY <1>2, <1>4, <2>1, <3>1 DEF t
  <2>2. \A i \in DOMAIN t : t[i].id <= m
    BY <1>2, <1>4 DEF t
  <2> QED
    BY <2>1, <2>2 DEF Ascending, UpTo
<1>6. \A i \in DOMAIN t, j \in DOMAIN d : d[j].id < t[i].id
  <2> HIDE DEF t
  <2> QED
    BY <1>2, <1>4 DEF t
<1>7. \A i \in DOMAIN t : c[1].id < t[i].id
  <2>1. 1 \in DOMAIN c
    BY <1>1
  <2> HIDE DEF t
  <2> QED
    BY <1>2, <1>4, <2>1 DEF t
<1>8. \A i \in DOMAIN t, j \in DOMAIN e : e[j].id < t[i].id
  <2> SUFFICES ASSUME NEW i \in DOMAIN t, NEW j \in DOMAIN e PROVE e[j].id < t[i].id
    OBVIOUS
  <2> HIDE DEF t
  <2>1. j \in 1..Len(d) \/ j = Len(d) + 1
    BY <1>3
  <2> HIDE DEF e
  <2>2. CASE j \in 1..Len(d)
    BY <1>3, <1>6, <2>2 DEF e
  <2>3. CASE j = Len(d) + 1
    BY <1>3, <1>7, <2>3 DEF e
  <2> QED
    BY <2>1, <2>2, <2>3
<1>9. Ascending(e) /\ UpTo(e, m)
  <2>1. 1 \in DOMAIN c
    BY <1>1
  <2>2. ASSUME NEW i \in DOMAIN e, NEW j \in DOMAIN e, i < j PROVE e[i].id < e[j].id
    <3>1. i \in 1..Len(d) /\ (j \in 1..Len(d) \/ j = Len(d) + 1)
      BY <1>3, <2>2
    <3> QED
      BY <1>3, <1>4, <2>1, <2>2, <3>1
  <2>3. ASSUME NEW i \in DOMAIN e PROVE e[i].id <= m
    <3>1. i \in 1..Len(d) \/ i = Len(d) + 1
      BY <1>3
    <3> QED
      BY <1>3, <1>4, <2>1, <3>1
  <2> HIDE DEF e
  <2> QED
    BY <2>2, <2>3 DEF Ascending, UpTo
<1> QED
  BY <1>5, <1>6, <1>8, <1>9 DEF Ahead

\* The head of a batch is replaced by the call the approval pins.
LEMMA AheadPinned ==
  ASSUME NEW c \in Seq(Call), c # << >>, NEW d \in Seq(Call), NEW m \in Nat,
         NEW x \in Call, x.id = Head(c).id, Ahead(c, d, m)
  PROVE  Ahead(<<x>> \o Tail(c), d, m)
<1> DEFINE b == <<x>> \o Tail(c)
<1>1. /\ Len(c) \in Nat \ {0} /\ DOMAIN c = 1..Len(c) /\ Head(c) = c[1]
      /\ Tail(c) \in Seq(Call) /\ Len(Tail(c)) = Len(c) - 1
      /\ \A i \in 1..(Len(c) - 1) : Tail(c)[i] = c[i + 1]
  BY HeadTailProperties
<1>2. /\ <<x>> \in Seq(Call) /\ Len(<<x>>) = 1 /\ <<x>>[1] = x
  OBVIOUS
<1>3. /\ Len(b) = Len(c) /\ DOMAIN b = 1..Len(c)
      /\ \A i \in 1..Len(c) : b[i] = IF i <= 1 THEN <<x>>[i] ELSE Tail(c)[i - 1]
  <2>1. /\ b \in Seq(Call) /\ Len(b) = 1 + (Len(c) - 1)
        /\ \A i \in 1..(1 + (Len(c) - 1)) : b[i] = IF i <= 1 THEN <<x>>[i] ELSE Tail(c)[i - 1]
    BY <1>1, <1>2, ConcatProperties
  <2>2. 1 + (Len(c) - 1) = Len(c)
    BY <1>1
  <2> HIDE DEF b
  <2> QED
    BY <1>1, <2>1, <2>2
<1>4. \A i \in 1..Len(c) : b[i].id = c[i].id
  <2> SUFFICES ASSUME NEW i \in 1..Len(c) PROVE b[i].id = c[i].id
    OBVIOUS
  <2> HIDE DEF b
  <2>1. CASE i = 1
    BY <1>1, <1>2, <1>3, <2>1
  <2>2. CASE i # 1
    <3>1. i - 1 \in 1..(Len(c) - 1) /\ (i - 1) + 1 = i
      BY <1>1, <2>2
    <3>2. Tail(c)[i - 1] = c[i]
      BY <1>1, <3>1
    <3> QED
      BY <1>1, <1>3, <2>2, <3>2
  <2> QED
    BY <2>1, <2>2
<1> HIDE DEF b
<1>5. Ahead(b, d, m)
  BY <1>1, <1>3, <1>4 DEF Ahead, Ascending, UpTo
<1> QED
  BY <1>5 DEF b

\* The calls of a reply.
LEMMA AheadReply ==
  ASSUME NEW reply \in Seq(Kind), NEW d \in Seq(Call), NEW m \in Nat, UpTo(d, m)
  PROVE  Ahead([i \in 1..Len(reply) |-> [id |-> m + i, kind |-> reply[i]]], d, m + Len(reply))
<1> DEFINE c == [i \in 1..Len(reply) |-> [id |-> m + i, kind |-> reply[i]]]
<1>1. Len(reply) \in Nat /\ DOMAIN c = 1..Len(reply)
  OBVIOUS
<1>2. \A i \in 1..Len(reply) : c[i].id = m + i /\ i \in Nat /\ m < m + i
  BY <1>1
<1>3. \A j \in DOMAIN d : d[j].id \in Nat /\ d[j].id <= m
  BY IdsTyped DEF UpTo
<1> HIDE DEF c
<1>4. Ascending(c)
  BY <1>1, <1>2 DEF Ascending
<1>5. UpTo(c, m + Len(reply))
  BY <1>1, <1>2 DEF UpTo
<1>6. \A i \in DOMAIN c, j \in DOMAIN d : d[j].id < c[i].id
  BY <1>1, <1>2, <1>3
<1>7. Ahead(c, d, m + Len(reply))
  BY <1>4, <1>5, <1>6 DEF Ahead
<1> QED
  BY <1>7 DEF c

-----------------------------------------------------------------------------
(***************************************************************************)
(* One request at a time carries a run on.  First what a step does to the  *)
(* request that takes it.                                                  *)
(***************************************************************************)

\* Where a request goes: who drives a run, and who decides it, has done so
\* before, or starts now.
LEMMA Flow ==
  ASSUME TypeOK, NEW p \in Requests, Serve(p) \/ Crash(p)
  PROVE  /\ pc[p] \notin {"idle", "done"} /\ pc'[p] \notin {"start", "decide"}
         /\ pc'[p] = "done" => p \in Starters
         /\ pc'[p] = "idle" => p \notin Starters
         /\ loc'[p].run = loc[p].run
         /\ pc'[p] \in {"readRun"} \cup Resuming =>
              WriteDecision(p)
              \/ (pc[p] \in {"readRun"} \cup Resuming /\ loc'[p].approval = loc[p].approval)
         /\ pc'[p] \in Driving \cup Resuming =>
              \/ pc[p] \in Driving \cup Resuming
              \/ StartAgentRun(p)
              \/ ReadPausedRun(p) /\ row[loc[p].run].status = "waiting_approval"
         /\ pc'[p] \in DecidePC => pc[p] \in DecidePC \/ p \in Reviewers
         /\ pc[p] = "pause" => pc'[p] \in {"pause", "idle", "done"}
<1> USE DEF Driving, Resuming
<1>1. /\ pc \in [Requests -> PC] /\ loc \in [Requests -> Local] /\ loc[p] \in Local
      /\ loc[p].run \in Starters
  BY SMTT(30), Typed
<1>2. pc[p] \notin {"idle", "done"}
  BY ZenonT(60) DEF Serve, Drive, Decide, Crash, StartAgentRun, ReadRun, StopAtTurnCap, ModelFails,
     ModelReplies, SettleRun, BeginMutate, AppendTurn, CheckRunning, EndOfCalls, RefuseCall,
     ExecuteCall, AnswerCall, RequestApproval, PauseRun, WriteDecision, ReadPausedRun,
     StopMismatchedRun, RejectRun, ResumeRun, ContinueRun, MutatePC
<1>3. CASE Return(p)
  <2>1. pc'[p] = IF p \in Starters THEN "done" ELSE "idle"
    BY <1>3, Returned
  <2>2. loc'[p].run = loc[p].run
    <3>1. loc'[p] = Blank(loc[p].run)
      BY <1>3, Returned
    <3> QED
      BY <3>1 DEF Blank
  <2> QED
    BY <1>2, <2>1, <2>2, PCs
<1>4. CASE /\ ~ Return(p)
           /\ \/ StartAgentRun(p) \/ ReadRun(p) \/ StopAtTurnCap(p) \/ ModelFails(p)
              \/ ModelReplies(p) \/ AppendTurn(p)
  <2>1. loc'[p].run = loc[p].run
    BY <1>1, <1>4 DEF StartAgentRun, ReadRun, StopAtTurnCap, ModelFails, ModelReplies,
       AppendTurn, Local
  <2>2. /\ pc'[p] \in {"drive", "turn", "capRun", "failRun", "appendTurn", "completeRun", "check"}
        /\ StartAgentRun(p) \/ pc[p] \in {"drive", "reload", "turn", "appendTurn"}
    BY <1>1, <1>4, PCs DEF StartAgentRun, ReadRun, StopAtTurnCap, ModelFails, ModelReplies,
       AppendTurn, Goto
  <2> QED
    BY <1>2, <2>1, <2>2, PCs DEF StartAgentRun
<1>5. CASE BeginMutate(p)
  <2>1. loc'[p].run = loc[p].run /\ loc'[p].approval = loc[p].approval /\ pc'[p] = pc[p]
        /\ pc[p] \in MutatePC
    BY <1>1, <1>5 DEF BeginMutate, Local
  <2> QED
    BY <1>2, <2>1, PCs
<1>6. CASE /\ ~ Return(p)
           /\ \/ CheckRunning(p) \/ RefuseCall(p) \/ ExecuteCall(p)
              \/ AnswerCall(p) \/ RequestApproval(p) \/ EndOfCalls(p)
  <2>1. loc'[p].run = loc[p].run
    BY <1>1, <1>6 DEF CheckRunning, EndOfCalls, RefuseCall, ExecuteCall, AnswerCall,
       RequestApproval, Local
  <2>2. /\ pc'[p] \in {"call", "answer", "pause", "continue", "reload"}
        /\ pc[p] \in {"check", "call", "answer"}
        /\ pc'[p] = "continue" => p \in Reviewers
    BY <1>1, <1>6 DEF CheckRunning, EndOfCalls, RefuseCall, ExecuteCall, AnswerCall,
       RequestApproval, Goto
  <2> QED
    BY <1>2, <2>1, <2>2, PCs
<1>7. CASE WriteDecision(p)
  <2>1. loc'[p].run = loc[p].run /\ pc'[p] = "readRun" /\ pc[p] = "decide"
    BY <1>1, <1>7 DEF WriteDecision, Goto
  <2> QED
    BY <1>2, <1>7, <2>1, PCs
<1>8. CASE ReadPausedRun(p) /\ ~ Return(p)
  <2>1. /\ loc'[p].run = loc[p].run /\ loc'[p].approval = loc[p].approval
        /\ pc[p] = "readRun" /\ pc'[p] \in Resuming
        /\ row[loc[p].run].status = "waiting_approval"
    BY <1>1, <1>8 DEF ReadPausedRun, Goto, Local, Run
  <2> QED
    BY <1>2, <1>8, <2>1, PCs
<1>9. CASE ResumeRun(p) \/ ContinueRun(p)
  <2>1. /\ loc'[p].run = loc[p].run /\ pc[p] \in {"resume", "continue"}
        /\ pc'[p] \in {"check", "drive"}
    BY <1>1, <1>9 DEF ResumeRun, ContinueRun, Goto, Local
  <2> QED
    BY <1>2, <2>1, PCs
<1> QED
  BY <1>3, <1>4, <1>5, <1>6, <1>7, <1>8, <1>9 DEF Serve, Drive, Decide, Crash, SettleRun,
     PauseRun, StopMismatchedRun, RejectRun

\* What a step writes of runs, the effects included, is of its own run; ids
\* given out stay given out.
LEMMA OwnRun ==
  ASSUME TypeOK, Roles, NEW p \in Requests, Serve(p) \/ Crash(p)
  PROVE  /\ minted' \in Nat /\ minted <= minted'
         /\ \A r \in Starters : r # loc[p].run =>
              row'[r] = row[r] /\ approvals'[r] = approvals[r] /\ effects'[r] = effects[r]
<1>1. /\ row \in [Starters -> Row] /\ approvals \in [Starters -> Seq(Approval)]
      /\ effects \in [Starters -> Seq(Call)] /\ minted \in Nat
  BY DEF TypeOK
<1>2. minted' \in Nat /\ minted <= minted'
  <2>1. CASE ModelReplies(p)
    <3>1. PICK reply \in Replies : minted' = minted + Len(reply)
      BY <2>1 DEF ModelReplies
    <3>2. Len(reply) \in Nat
      BY AgentRunnerAssumption
    <3> QED
      BY <1>1, <3>1, <3>2
  <2>2. CASE ~ ModelReplies(p)
    <3>1. minted' = minted
      BY ZenonT(60), <2>2 DEF Serve, Drive, Decide, Crash, StartAgentRun, ReadRun, StopAtTurnCap, ModelFails,
         SettleRun, BeginMutate, AppendTurn, CheckRunning, EndOfCalls, RefuseCall,
         ExecuteCall, AnswerCall, RequestApproval, PauseRun, WriteDecision, ReadPausedRun,
         StopMismatchedRun, RejectRun, ResumeRun, ContinueRun
    <3> QED
      BY SMTT(30), <1>1, <3>1
  <2> QED
    BY <2>1, <2>2
<1>3. ASSUME NEW r \in Starters, r # loc[p].run
      PROVE  row'[r] = row[r] /\ approvals'[r] = approvals[r] /\ effects'[r] = effects[r]
  <2>1. CASE StartAgentRun(p)
    <3>1. p # r
      BY <1>3, <2>1 DEF Roles, Requests, StartAgentRun, Run
    <3> QED
      BY <1>1, <2>1, <3>1 DEF StartAgentRun
  <2>2. CASE ReadRun(p) \/ StopAtTurnCap(p) \/ ModelFails(p) \/ ModelReplies(p) \/ SettleRun(p)
             \/ BeginMutate(p) \/ AppendTurn(p)
    BY SMTT(30), <1>1, <1>3, <2>2 DEF ReadRun, StopAtTurnCap, ModelFails, ModelReplies, SettleRun,
       BeginMutate, AppendTurn, Mutate, Run
  <2>3. CASE \/ CheckRunning(p) \/ EndOfCalls(p) \/ RefuseCall(p) \/ ExecuteCall(p)
             \/ AnswerCall(p) \/ RequestApproval(p) \/ PauseRun(p)
    BY SMTT(30), <1>1, <1>3, <2>3 DEF CheckRunning, EndOfCalls, RefuseCall, ExecuteCall, AnswerCall,
       RequestApproval, PauseRun, Mutate, Run
  <2>4. CASE Decide(p) \/ Crash(p)
    BY ZenonT(60), <1>1, <1>3, <2>4 DEF Decide, WriteDecision, ReadPausedRun, StopMismatchedRun, RejectRun,
       ResumeRun, ContinueRun, Crash, Mutate, Run
  <2> QED
    BY <2>1, <2>2, <2>3, <2>4 DEF Serve, Drive
<1> QED
  BY <1>2, <1>3

\* Only who drives a run writes its row, once it is inserted.
LEMMA DriverWrites ==
  ASSUME NEW p \in Requests, Serve(p) \/ Crash(p), ~ StartAgentRun(p),
         pc[p] \notin Driving \cup Resuming
  PROVE  row' = row
BY ZenonT(60), PCs DEF Driving, Resuming, Serve, Drive, Decide, Crash, ReadRun, StopAtTurnCap, ModelFails,
   ModelReplies, SettleRun, BeginMutate, AppendTurn, CheckRunning, EndOfCalls, RefuseCall,
   ExecuteCall, AnswerCall, RequestApproval, PauseRun, WriteDecision, ReadPausedRun,
   StopMismatchedRun, RejectRun, ResumeRun, ContinueRun

\* What the invariant says of one run.
RunSound(r) == NotYet(r) /\ OneHand(r) /\ LatestApproval(r) /\ StatusKnown(r) /\ CallsAhead(r)

\* A row is held inside a mutate only.
LEMMA CopyHeld ==
  ASSUME TypeOK, Roles, NEW p \in Requests, Serve(p) \/ Crash(p), loc'[p].copy # EmptyRow
  PROVE  pc'[p] \in MutatePC
<1>1. /\ pc \in [Requests -> PC] /\ loc \in [Requests -> Local] /\ loc[p] \in Local
  BY Typed
<1>2. ~ Return(p)
  <2>1. Return(p) => loc'[p] = Blank(loc[p].run)
    BY Returned
  <2> QED
    BY <2>1 DEF Blank
<1>3. CASE BeginMutate(p)
  BY <1>1, <1>3 DEF BeginMutate
<1>4. CASE AppendTurn(p) \/ AnswerCall(p) \/ ResumeRun(p)
  <2>1. loc'[p].copy = EmptyRow
    BY <1>1, <1>4 DEF AppendTurn, AnswerCall, ResumeRun, Local
  <2> QED
    BY <2>1
<1>5. CASE \/ StartAgentRun(p) \/ ReadRun(p) \/ StopAtTurnCap(p) \/ ModelFails(p)
           \/ ModelReplies(p) \/ CheckRunning(p) \/ EndOfCalls(p) \/ RefuseCall(p)
           \/ ExecuteCall(p) \/ RequestApproval(p) \/ WriteDecision(p) \/ ReadPausedRun(p)
           \/ ContinueRun(p)
  <2>1. loc'[p].copy = loc[p].copy
    BY SMTT(30), <1>1, <1>2, <1>5 DEF StartAgentRun, ReadRun, StopAtTurnCap, ModelFails, ModelReplies,
       CheckRunning, EndOfCalls, RefuseCall, ExecuteCall, RequestApproval, WriteDecision,
       ReadPausedRun, ContinueRun, Local
  <2>2. pc[p] \in {"start", "drive", "reload", "turn", "check", "call", "decide", "readRun",
                   "continue"}
    BY <1>5 DEF StartAgentRun, ReadRun, StopAtTurnCap, ModelFails, ModelReplies,
       CheckRunning, EndOfCalls, RefuseCall, ExecuteCall, RequestApproval, WriteDecision,
       ReadPausedRun, ContinueRun
  <2> QED
    BY SMTT(30), <2>1, <2>2, PCs DEF Roles
<1> QED
  BY <1>2, <1>3, <1>4, <1>5 DEF Serve, Drive, Decide, Crash, SettleRun, PauseRun,
     StopMismatchedRun, RejectRun

\* The requests' roles stay.
LEMMA RolesStay ==
  ASSUME TypeOK, Roles, NEW p \in Requests, Serve(p) \/ Crash(p)
  PROVE  Roles'
<1>1. Starters \cap Reviewers = {} /\ Starters \subseteq Requests /\ Reviewers \subseteq Requests
  BY AgentRunnerAssumption DEF Requests
<1>2. ASSUME NEW q \in Starters PROVE Run(q)' = q /\ pc'[q] \notin DecidePC
  <2>1. CASE q = p
    BY <1>1, <2>1, Flow DEF Roles, Run
  <2>2. CASE q # p
    BY <1>1, <2>2, OthersStay DEF Roles, Run
  <2> QED
    BY <2>1, <2>2
<1>3. ASSUME NEW q \in Reviewers PROVE pc'[q] \notin {"start", "done"}
  <2>1. CASE q = p
    BY <1>1, <2>1, Flow
  <2>2. CASE q # p
    BY <1>1, <2>2, OthersStay DEF Roles
  <2> QED
    BY <2>1, <2>2
<1>4. ASSUME NEW q \in Requests, loc'[q].copy # EmptyRow
      PROVE  pc'[q] \in MutatePC
  <2>1. CASE q = p
    BY <1>4, <2>1, CopyHeld
  <2>2. CASE q # p
    BY <1>4, <2>2, OthersStay DEF Roles
  <2> QED
    BY <2>1, <2>2
<1> QED
  BY <1>2, <1>3, <1>4 DEF Roles, Run

\* A step on one run does not concern another.
LEMMA OtherRunStays ==
  ASSUME TypeOK, Roles, NEW p \in Requests, Serve(p) \/ Crash(p),
         NEW r \in Starters, r # loc[p].run, RunSound(r)
  PROVE  RunSound(r)'
<1>1. /\ row'[r] = row[r] /\ approvals'[r] = approvals[r] /\ effects'[r] = effects[r]
      /\ minted \in Nat /\ minted' \in Nat /\ minted <= minted'
  BY OwnRun, Typed
<1>2. loc'[p].run # r
  BY Flow
<1>3. \A q \in Requests \ {p} : pc'[q] = pc[q] /\ loc'[q] = loc[q]
  BY OthersStay
<1>4. r \in Requests \ {p} /\ Reviewers \subseteq Requests
  BY DEF Roles, Requests, Run
<1>5. NotYet(r)'
  BY <1>1, <1>2, <1>3, <1>4 DEF RunSound, NotYet, Run
<1>6. OneHand(r)'
  BY <1>2, <1>3 DEF RunSound, OneHand, Drives, Decides, Run
<1>7. LatestApproval(r)'
  BY <1>1, <1>2, <1>3 DEF RunSound, LatestApproval, Drives, Decides, Run
<1>8. StatusKnown(r)'
  BY <1>1, <1>2, <1>3 DEF RunSound, StatusKnown, Run
<1>9. CallsAhead(r)'
  <2>1. effects[r] \in Seq(Call) /\ row[r].pending \in Seq(Call)
    BY DEF TypeOK, Row
  <2>2. UpTo(effects[r], minted')
    BY <1>1, <2>1, AheadLater DEF RunSound, CallsAhead
  <2>3. row[r].status = "waiting_approval" => Ahead(row[r].pending, effects[r], minted')
    BY <1>1, <2>1, AheadLater DEF RunSound, CallsAhead
  <2>4. ASSUME NEW q \in Requests, loc'[q].run = r
        PROVE  /\ pc'[q] \in {"appendTurn", "check", "call", "pause", "resume"} =>
                    Ahead(loc'[q].calls, effects[r], minted')
               /\ pc'[q] = "answer" => Ahead(Tail(loc'[q].calls), effects[r], minted')
    <3>1. pc'[q] = pc[q] /\ loc'[q] = loc[q]
      BY <1>2, <1>3, <2>4
    <3>2. /\ loc[q].calls \in Seq(Call)
          /\ pc[q] = "answer" => Tail(loc[q].calls) \in Seq(Call)
      BY Typed, HeadTyped
    <3> QED
      BY <1>1, <2>1, <2>4, <3>1, <3>2, AheadLater DEF RunSound, CallsAhead, Run
  <2> QED
    BY <1>1, <2>2, <2>3, <2>4 DEF RunSound, CallsAhead, Run
<1> QED
  BY <1>5, <1>6, <1>7, <1>8, <1>9 DEF RunSound

\* What is not there yet is not stepped on, but to be inserted.
LEMMA NotYetStays ==
  ASSUME TypeOK, Roles, NEW p \in Requests, Serve(p) \/ Crash(p),
         NEW r \in Starters, r = loc[p].run, RunSound(r)
  PROVE  /\ NotYet(r)'
         /\ StartAgentRun(p) => p = r /\ pc[r] = "start"
                                /\ \A q \in Requests \ {p} : Run(q) = r => pc[q] = "idle"
<1>1. Starters \cap Reviewers = {} /\ Requests = Starters \cup Reviewers
  BY AgentRunnerAssumption DEF Requests
<1>2. StartAgentRun(p) => p = r /\ pc[r] = "start"
  BY <1>1 DEF StartAgentRun, Roles, Run
<1>3. ASSUME NEW q \in Requests \ {p}, p = r, Run(q) = r
      PROVE  q \in Reviewers
  BY <1>1, <1>3 DEF Roles, Run
<1>4. pc'[r] \notin {"idle", "start"}
  <2>1. CASE p = r
    BY <2>1, Flow
  <2>2. CASE p # r
    <3>1. p \in Reviewers /\ r \in Requests \ {p}
      BY <1>1, <2>2 DEF Roles, Run
    <3>2. pc[r] \notin {"idle", "start"}
      BY <3>1, Flow DEF RunSound, NotYet, Run
    <3> QED
      BY <3>1, <3>2, OthersStay
  <2> QED
    BY <2>1, <2>2
<1>5. NotYet(r)'
  BY <1>4 DEF NotYet
<1> QED
  BY <1>2, <1>3, <1>5 DEF RunSound, NotYet

\* A decision that nobody made before comes while nobody is past the run's
\* pause, and nobody else is deciding.
LEMMA FirstDecision ==
  ASSUME TypeOK, NEW p \in Requests, WriteDecision(p),
         NEW r \in Starters \ redecided', r = loc[p].run, RunSound(r)
  PROVE  /\ pc[p] = "decide" /\ pc'[p] = "readRun" /\ loc' = loc
         /\ loc[p].approval \in DOMAIN approvals[r] /\ loc[p].approval = Len(approvals[r])
         /\ \A q \in Requests : ~ Decides(q, r) /\ (Drives(q, r) => pc[q] = "pause")
         /\ approvals' = [approvals EXCEPT ![r][loc[p].approval].status = loc[p].decision]
<1>1. /\ pc[p] = "decide" /\ pc'[p] = "readRun" /\ loc' = loc
      /\ loc[p].approval \in DOMAIN approvals[r]
      /\ approvals[r][loc[p].approval].status = "pending"
      /\ approvals' = [approvals EXCEPT ![r][loc[p].approval].status = loc[p].decision]
  BY SMTT(30), Typed DEF WriteDecision, Goto, Run
<1>2. /\ loc[p].approval = Len(approvals[r])
      /\ \A q \in Requests : Drives(q, r) => pc[q] = "pause"
  BY SMTT(30), <1>1 DEF RunSound, LatestApproval
<1>3. \A q \in Requests : ~ Decides(q, r)
  BY <1>1, <1>2 DEF RunSound, LatestApproval
<1> QED
  BY SMTT(30), <1>1, <1>2, <1>3

\* There is one who drives a run and one who decides it.
LEMMA OneHandStays ==
  ASSUME TypeOK, Roles, NEW p \in Requests, Serve(p) \/ Crash(p),
         NEW r \in Starters \ redecided', r = loc[p].run, RunSound(r)
  PROVE  OneHand(r)'
<1>1. \A q \in Requests \ {p} : Drives(q, r)' = Drives(q, r) /\ Decides(q, r)' = Decides(q, r)
  BY OthersStay DEF Drives, Decides, Run
<1>2. CASE StartAgentRun(p)
  <2>1. \A q \in Requests \ {p} : ~ Drives(q, r) /\ ~ Decides(q, r)
    BY <1>2, NotYetStays, PCs DEF Drives, Decides, Driving, Resuming
  <2> QED
    BY <1>1, <2>1 DEF OneHand
<1>3. CASE WriteDecision(p)
  <2>1. /\ \A q \in Requests : ~ Decides(q, r) /\ (Drives(q, r) => pc[q] = "pause")
        /\ ~ Drives(p, r)'
    BY <1>3, FirstDecision, PCs DEF Drives, Driving, Resuming
  <2>2. \A q \in Requests \ {p} : Drives(q, r)' => pc'[q] = "pause"
    BY <1>1, <2>1, OthersStay
  <2>3. OneHand(r)
    BY DEF RunSound
  <2> QED
    BY <1>1, <2>1, <2>2, <2>3 DEF OneHand
<1>4. CASE ~ StartAgentRun(p) /\ ~ WriteDecision(p)
  <2>1. Decides(p, r)' => Decides(p, r)
    BY <1>4, Flow DEF Decides, Run
  <2>2. Drives(p, r)' => Drives(p, r) \/ (ReadPausedRun(p) /\ row[r].status = "waiting_approval")
    BY SMTT(30), <1>4, Flow DEF Drives, Run
  <2>3. ReadPausedRun(p) => Decides(p, r)
    BY DEF ReadPausedRun, Decides, Run
  <2>4. ASSUME NEW q \in Requests \ {p}, Drives(q, r), ReadPausedRun(p)
        PROVE  row[r].status # "waiting_approval"
    <3>1. CASE pc[q] \in Resuming
      BY <2>3, <2>4, <3>1 DEF RunSound, OneHand, Decides, Drives
    <3>2. CASE pc[q] \in Driving
      BY <2>4, <3>2 DEF RunSound, StatusKnown, Drives
    <3> QED
      BY <2>4, <3>1, <3>2 DEF Drives
  <2>5. pc[p] = "pause" => (Drives(p, r)' => pc'[p] = "pause")
    BY Flow, PCs DEF Drives, Driving, Resuming
  <2>6. OneHand(r)
    BY DEF RunSound
  <2>7. ASSUME NEW q \in Requests \ {p}
        PROVE  /\ ~ (Drives(p, r)' /\ Drives(q, r)) /\ ~ (Decides(p, r)' /\ Decides(q, r))
               /\ Decides(p, r)' /\ Drives(q, r) => pc[q] = "pause"
               /\ Decides(q, r) /\ Drives(p, r)' => pc'[p] = "pause"
    <3>1. ~ (Drives(p, r)' /\ Drives(q, r))
      BY <2>2, <2>4, <2>6 DEF OneHand
    <3>2. ~ (Decides(p, r)' /\ Decides(q, r)) /\ (Decides(p, r)' /\ Drives(q, r) => pc[q] = "pause")
      BY <2>1, <2>6 DEF OneHand
    <3>3. Decides(q, r) /\ Drives(p, r)' => pc'[p] = "pause"
      BY <2>2, <2>3, <2>5, <2>6 DEF OneHand
    <3> QED
      BY <3>1, <3>2, <3>3
  <2>8. \A q \in Requests \ {p} : pc'[q] = pc[q]
    BY OthersStay
  <2> QED
    BY <1>1, <2>6, <2>7, <2>8 DEF OneHand
<1> QED
  BY <1>2, <1>3, <1>4

\* A decision is about the latest approval.
LEMMA LatestStays ==
  ASSUME TypeOK, Roles, NEW p \in Requests, Serve(p) \/ Crash(p),
         NEW r \in Starters \ redecided', r = loc[p].run, RunSound(r)
  PROVE  LatestApproval(r)'
<1>1. \A q \in Requests \ {p} : /\ Drives(q, r)' = Drives(q, r) /\ Decides(q, r)' = Decides(q, r)
                                /\ pc'[q] = pc[q] /\ loc'[q] = loc[q]
  BY OthersStay DEF Drives, Decides, Run
<1>2. /\ approvals[r] \in Seq(Approval) /\ Len(approvals[r]) \in Nat
      /\ DOMAIN approvals[r] = 1..Len(approvals[r])
      /\ approvals \in [Starters -> Seq(Approval)]
  <2>1. approvals[r] \in Seq(Approval) /\ approvals \in [Starters -> Seq(Approval)]
    BY DEF TypeOK
  <2> QED
    BY <2>1, LenProperties
<1>3. LatestApproval(r) /\ OneHand(r) /\ NotYet(r)
  BY SMTT(30) DEF RunSound
<1>4. CASE WriteDecision(p)
  <2> DEFINE n == loc[p].approval
  <2>1. /\ n \in DOMAIN approvals[r] /\ n = Len(approvals[r]) /\ loc'[p] = loc[p]
        /\ \A q \in Requests : ~ Decides(q, r)
        /\ approvals' = [approvals EXCEPT ![r][n].status = loc[p].decision]
    BY <1>4, FirstDecision
  <2>2. loc[p].decision # "pending"
    BY Typed DEF Decision
  <2>3. approvals[r][n] \in Approval
    BY <2>1, ApprovalTyped
  <2>4. /\ DOMAIN approvals'[r] = DOMAIN approvals[r] /\ Len(approvals'[r]) = Len(approvals[r])
        /\ approvals'[r][n].status # "pending"
        /\ \A i \in DOMAIN approvals[r] : i # n => approvals'[r][i] = approvals[r][i]
    <3>1. approvals'[r] = [approvals[r] EXCEPT ![n].status = loc[p].decision]
      BY <1>2, <2>1
    <3>2. approvals'[r][n] = [approvals[r][n] EXCEPT !.status = loc[p].decision]
          /\ DOMAIN approvals'[r] = DOMAIN approvals[r]
          /\ \A i \in DOMAIN approvals[r] : i # n => approvals'[r][i] = approvals[r][i]
      BY <2>1, <3>1
    <3>3. approvals'[r] \in Seq(Approval)
      BY StepTyped DEF TypeOK, Next
    <3>4. Len(approvals'[r]) = Len(approvals[r])
      BY SMTT(30), <1>2, <3>2, <3>3, LenProperties
    <3> QED
      BY <2>2, <2>3, <3>2, <3>4 DEF Approval
  <2>5. \A i \in DOMAIN approvals'[r] : approvals'[r][i].status # "pending"
    BY <1>3, <2>1, <2>4 DEF LatestApproval
  <2>6. \A q \in Requests : Decides(q, r)' => q = p
    BY SMTT(30), <1>1, <2>1
  <2> QED
    BY <2>1, <2>4, <2>5, <2>6 DEF LatestApproval
<1>5. CASE RequestApproval(p)
  <2>1. /\ pc[p] = "call" /\ pc'[p] = "pause" /\ loc' = loc
        /\ approvals'[r] = Append(approvals[r], [call |-> Head(loc[p].calls), status |-> "pending"])
    BY <1>2, <1>5, Typed DEF RequestApproval, Goto, Run
  <2>2. Drives(p, r) /\ ~ Decides(p, r)' /\ ~ Decides(p, r)
    BY <2>1, PCs DEF Drives, Decides, Driving, Resuming, Run
  <2>3. \A q \in Requests \ {p} : ~ Decides(q, r) /\ ~ Drives(q, r)
    BY SMTT(30), <1>3, <2>1, <2>2 DEF OneHand
  <2>4. \A i \in DOMAIN approvals[r] : approvals[r][i].status # "pending"
    BY <1>3, <2>1, <2>2 DEF LatestApproval
  <2>5. /\ DOMAIN approvals'[r] = 1..(Len(approvals[r]) + 1)
        /\ Len(approvals'[r]) = Len(approvals[r]) + 1
        /\ \A i \in 1..Len(approvals[r]) : approvals'[r][i] = approvals[r][i]
    BY <1>2, <2>1
  <2>6. \A i \in DOMAIN approvals'[r] :
          approvals'[r][i].status = "pending" => i = Len(approvals'[r])
    <3> SUFFICES ASSUME NEW i \in DOMAIN approvals'[r], i # Len(approvals'[r])
                 PROVE  approvals'[r][i].status # "pending"
      OBVIOUS
    <3>1. i \in 1..Len(approvals[r])
      BY <1>2, <2>5
    <3> QED
      BY <1>2, <2>4, <2>5, <3>1
  <2> QED
    BY <1>1, <2>1, <2>2, <2>3, <2>6 DEF LatestApproval
<1>6. CASE ~ WriteDecision(p) /\ ~ RequestApproval(p)
  <2>1. approvals' = approvals
    BY <1>6, ApprovalsStay
  <2>2. Decides(p, r)' => Decides(p, r) /\ loc'[p].approval = loc[p].approval
    BY <1>6, Flow DEF Decides, Run
  <2>3. ASSUME NEW q \in Requests, Decides(q, r)'
        PROVE  loc'[q].approval = Len(approvals[r])
               /\ approvals[r][loc'[q].approval].status # "pending"
    <3>1. Decides(q, r) /\ loc'[q].approval = loc[q].approval
      BY <1>1, <2>2, <2>3
    <3> QED
      BY <1>3, <3>1 DEF LatestApproval
  <2>4. ASSUME NEW k \in DOMAIN approvals[r], approvals[r][k].status = "pending"
        PROVE  Drives(p, r)' => pc'[p] = "pause"
    <3>1. /\ k = Len(approvals[r]) /\ \A q \in Requests : Drives(q, r) => pc[q] = "pause"
      BY <1>3, <2>4 DEF LatestApproval
    <3>2. ~ Decides(p, r)
      BY SMTT(30), <1>3, <2>4, <3>1 DEF LatestApproval
    <3>3. ~ ReadPausedRun(p)
      BY <3>2 DEF ReadPausedRun, Decides, Run
    <3>4. ~ StartAgentRun(p)
      <4>1. approvals[r] # << >>
        BY <1>2, <2>4
      <4> QED
        BY <1>3, <4>1, NotYetStays DEF NotYet
    <3>5. Drives(p, r)' => Drives(p, r)
      BY <3>3, <3>4, Flow DEF Drives, Run
    <3> QED
      BY <3>1, <3>5, Flow, PCs DEF Drives, Driving, Resuming
  <2>5. ASSUME NEW k \in DOMAIN approvals[r], approvals[r][k].status = "pending"
        PROVE  k = Len(approvals[r]) /\ \A q \in Requests : Drives(q, r)' => pc'[q] = "pause"
    <3>1. k = Len(approvals[r]) /\ \A q \in Requests : Drives(q, r) => pc[q] = "pause"
      BY <1>3, <2>5 DEF LatestApproval
    <3> QED
      BY <1>1, <2>4, <2>5, <3>1
  <2> QED
    BY <2>1, <2>3, <2>5 DEF LatestApproval
<1> QED
  BY <1>4, <1>5, <1>6

\* The row is as the request that takes the step leaves it.
LEMMA OwnStatus ==
  ASSUME TypeOK, Roles, NEW p \in Requests, Serve(p) \/ Crash(p),
         NEW r \in Starters, r = loc[p].run, RunSound(r)
  PROVE  /\ pc'[p] \in Driving => row'[r].status = "running"
         /\ pc'[p] \in Resuming => row'[r].status = "waiting_approval"
         /\ loc'[p].copy # EmptyRow => pc'[p] \in MutatePC /\ loc'[p].copy = row'[r]
<1>1. /\ row \in [Starters -> Row] /\ pc \in [Requests -> PC] /\ loc \in [Requests -> Local]
      /\ loc[p] \in Local /\ loc[p].copy \in Row /\ row[r] \in Row
  BY Typed
<1>2. /\ pc[p] \in Driving => row[r].status = "running"
      /\ pc[p] \in Resuming => row[r].status = "waiting_approval"
      /\ loc[p].copy # EmptyRow => pc[p] \in MutatePC /\ loc[p].copy = row[r]
  BY DEF Roles, RunSound, StatusKnown, Run
<1>3. CASE Return(p)
  <2>1. loc'[p] = Blank(loc[p].run) /\ pc'[p] \in {"idle", "done"}
    BY <1>3, Returned
  <2>2. loc'[p].copy = EmptyRow
    BY <2>1 DEF Blank
  <2> QED
    BY <2>1, <2>2, PCs DEF Driving, Resuming
<1>4. CASE StartAgentRun(p) /\ ~ Return(p)
  <2>1. p = r /\ pc[p] = "start"
    BY <1>4, NotYetStays
  <2>2. /\ pc'[p] = "drive" /\ loc' = loc
        /\ row' = [row EXCEPT ![p].status = "running", ![p].messages = <<UserMessage>>]
    BY SMTT(30), <1>1, <1>4 DEF StartAgentRun, Goto
  <2>3. row'[r].status = "running"
    BY <1>1, <2>1, <2>2 DEF Row
  <2>4. loc'[p].copy = EmptyRow
    BY <1>2, <2>1, <2>2, PCs
  <2> QED
    BY <2>2, <2>3, <2>4, PCs DEF Driving, Resuming
<1>5. CASE /\ ~ Return(p)
           /\ \/ ReadRun(p) \/ StopAtTurnCap(p) \/ ModelFails(p) \/ ModelReplies(p)
              \/ CheckRunning(p) \/ EndOfCalls(p) \/ RefuseCall(p) \/ ExecuteCall(p)
              \/ RequestApproval(p)
  <2>1. row' = row /\ pc[p] \in {"drive", "reload", "turn", "check", "call"}
    BY <1>5 DEF ReadRun, StopAtTurnCap, ModelFails, ModelReplies, CheckRunning,
       EndOfCalls, RefuseCall, ExecuteCall, RequestApproval
  <2>2. loc'[p].copy = loc[p].copy
    BY <1>1, <1>5 DEF ReadRun, StopAtTurnCap, ModelFails, ModelReplies, CheckRunning,
       EndOfCalls, RefuseCall, ExecuteCall, RequestApproval, Local
  <2>3. pc'[p] \in {"turn", "capRun", "failRun", "appendTurn", "call", "continue", "reload",
                    "answer", "pause"}
    BY <1>1, <1>5 DEF ReadRun, StopAtTurnCap, ModelFails, ModelReplies, CheckRunning,
       EndOfCalls, RefuseCall, ExecuteCall, RequestApproval, Goto
  <2> QED
    BY <1>2, <2>1, <2>2, <2>3, PCs DEF Driving, Resuming
<1>6. CASE BeginMutate(p)
  <2>1. /\ pc'[p] = pc[p] /\ pc[p] \in MutatePC /\ loc'[p].copy = row[r] /\ row' = row
    BY <1>1, <1>6 DEF BeginMutate, Local, Run
  <2> QED
    BY <1>2, <2>1
<1>7. CASE AppendTurn(p) \/ AnswerCall(p)
  <2>1. /\ pc[p] \in Driving /\ pc'[p] \in Driving \ Resuming /\ loc'[p].copy = EmptyRow
        /\ loc[p].copy # EmptyRow
    BY <1>1, <1>7, PCs DEF AppendTurn, AnswerCall, Mutate, Goto, Local, Driving, Resuming
  <2>2. row'[r].status = loc[p].copy.status
    <3> DEFINE old == loc[p].copy
    <3>1. CASE AppendTurn(p)
      <4>1. row'[r] = [old EXCEPT !.turns = @ + 1,
                         !.messages = Append(@, AssistantMessage(loc[p].calls))]
        BY <1>1, <3>1 DEF AppendTurn, Mutate, Run
      <4> QED
        BY <1>1, <4>1 DEF Row
    <3>2. CASE AnswerCall(p)
      <4>1. PICK answer, m : row'[r] = [old EXCEPT !.invocations = Append(@, answer),
                                          !.messages = Append(@, m)]
        BY <1>1, <3>2 DEF AnswerCall, Mutate, Run
      <4> QED
        BY <1>1, <4>1 DEF Row
    <3> QED
      BY <1>7, <3>1, <3>2
  <2> QED
    BY <1>2, <2>1, <2>2
<1>8. CASE WriteDecision(p)
  <2>1. pc'[p] = "readRun" /\ pc[p] = "decide" /\ loc' = loc
    BY <1>1, <1>8 DEF WriteDecision, Goto
  <2> QED
    BY <1>2, <2>1, PCs DEF Driving, Resuming
<1>9. CASE ReadPausedRun(p) /\ ~ Return(p)
  <2>1. /\ row' = row /\ row[r].status = "waiting_approval" /\ loc'[p].copy = loc[p].copy
        /\ pc[p] = "readRun" /\ pc'[p] \in Resuming
    BY <1>1, <1>9 DEF ReadPausedRun, Goto, Local, Run, Resuming
  <2> QED
    BY <1>2, <2>1, PCs DEF Driving, Resuming
<1>10. CASE ResumeRun(p)
  <2>1. pc'[p] = "check" /\ loc'[p].copy = EmptyRow
    BY <1>1, <1>10 DEF ResumeRun, Goto, Local
  <2>2. row'[r].status = "running"
    BY <1>1, <1>10 DEF ResumeRun, Mutate, Run, Row
  <2> QED
    BY <2>1, <2>2, PCs DEF Driving, Resuming
<1>11. CASE ContinueRun(p)
  <2>1. pc'[p] = "drive" /\ pc[p] = "continue" /\ loc'[p].copy = loc[p].copy
    BY <1>1, <1>11 DEF ContinueRun, Goto, Local
  <2>2. row'[r].status = "running"
    BY <1>1, <1>11 DEF ContinueRun, Run, Row
  <2> QED
    BY <1>2, <2>1, <2>2, PCs DEF Driving, Resuming
<1> QED
  BY <1>3, <1>4, <1>5, <1>6, <1>7, <1>8, <1>9, <1>10, <1>11 DEF Serve, Drive, Decide, Crash,
     SettleRun, PauseRun, StopMismatchedRun, RejectRun

\* The row is as who drives the run has read it.
LEMMA StatusStays ==
  ASSUME TypeOK, Roles, NEW p \in Requests, Serve(p) \/ Crash(p),
         NEW r \in Starters, r = loc[p].run, RunSound(r)
  PROVE  StatusKnown(r)'
<1>1. ASSUME NEW q \in Requests \ {p}, loc'[q].run = r
      PROVE  /\ pc'[q] \in Driving => row'[r].status = "running"
             /\ pc'[q] \in Resuming => row'[r].status = "waiting_approval"
             /\ loc'[q].copy # EmptyRow => pc'[q] \in MutatePC /\ loc'[q].copy = row'[r]
  <2>1. pc'[q] = pc[q] /\ loc'[q] = loc[q] /\ loc[q].run = r
    BY <1>1, OthersStay
  <2>2. /\ pc[q] \in Driving => row[r].status = "running"
        /\ pc[q] \in Resuming => row[r].status = "waiting_approval"
        /\ loc[q].copy # EmptyRow => pc[q] \in MutatePC /\ loc[q].copy = row[r]
    BY <2>1 DEF Roles, RunSound, StatusKnown, Run
  <2>3. CASE row' = row
    BY <2>1, <2>2, <2>3
  <2>4. CASE pc[q] \notin Driving \cup Resuming
    <3>1. pc[q] \notin MutatePC
      BY <2>4, PCs DEF Driving, Resuming
    <3> QED
      BY <2>1, <2>2, <2>4, <3>1
  <2>5. CASE row' # row /\ pc[q] \in Driving \cup Resuming
    <3>1. ~ StartAgentRun(p)
      BY <2>1, <2>5, NotYetStays, PCs DEF Driving, Resuming, Run
    <3>2. Drives(p, r) /\ Drives(q, r)
      BY <2>1, <2>5, <3>1, DriverWrites DEF Drives, Run
    <3> QED
      BY <3>2 DEF RunSound, OneHand
  <2> QED
    BY <2>3, <2>4, <2>5
<1>2. /\ pc'[p] \in Driving => row'[r].status = "running"
      /\ pc'[p] \in Resuming => row'[r].status = "waiting_approval"
      /\ loc'[p].copy # EmptyRow => pc'[p] \in MutatePC /\ loc'[p].copy = row'[r]
  BY OwnStatus
<1> QED
  BY <1>1, <1>2 DEF StatusKnown, Run

\* A run is put to wait on the calls its driver has left, or waits already.
LEMMA PausedOn ==
  ASSUME TypeOK, Roles, NEW p \in Requests, Serve(p) \/ Crash(p),
         NEW r \in Starters, r = loc[p].run, RunSound(r), row'[r].status = "waiting_approval"
  PROVE  \/ row'[r] = row[r]
         \/ pc[p] = "pause" /\ row'[r].pending = loc[p].calls
<1>1. /\ row \in [Starters -> Row] /\ loc[p].copy \in Row /\ row[r] \in Row
  BY Typed
<1>2. CASE row' = row
  BY <1>2
<1>3. CASE PauseRun(p)
  <2>1. /\ pc[p] = "pause"
        /\ row'[r] = [loc[p].copy EXCEPT !.status = "waiting_approval", !.pending = loc[p].calls]
    BY <1>1, <1>3 DEF PauseRun, Mutate, Run
  <2> QED
    BY <1>1, <2>1 DEF Row
<1>4. CASE StartAgentRun(p) /\ row' # row
  <2>1. p = r /\ row' = [row EXCEPT ![p].status = "running", ![p].messages = <<UserMessage>>]
    BY SMTT(30), <1>4, NotYetStays DEF StartAgentRun
  <2>2. row'[r].status = "running"
    BY <1>1, <2>1 DEF Row
  <2> QED
    BY <2>2
<1>5. CASE SettleRun(p) \/ StopMismatchedRun(p) \/ ContinueRun(p)
  <2>1. PICK s \in {"completed", "failed", "running"} : row' = [row EXCEPT ![r].status = s]
    BY <1>5 DEF SettleRun, StopMismatchedRun, ContinueRun, Run
  <2>2. row'[r].status = s
    BY <1>1, <2>1 DEF Row
  <2> QED
    BY <2>1, <2>2
<1>6. CASE AppendTurn(p) \/ AnswerCall(p)
  <2>1. pc[p] \in {"appendTurn", "answer"} /\ pc'[p] \in {"completeRun", "check", "call"}
    BY <1>6, Typed DEF AppendTurn, AnswerCall, Goto
  <2>2. row'[r].status = "running"
    BY <2>1, OwnStatus, PCs DEF Driving
  <2> QED
    BY <2>2
<1>7. CASE RejectRun(p)
  <2>1. PICK skipped : row'[r] = [loc[p].copy EXCEPT !.status = "rejected", !.pending = << >>,
                                     !.invocations = Append(@, skipped)]
    BY <1>1, <1>7 DEF RejectRun, Mutate, Run
  <2>2. row'[r].status = "rejected"
    BY <1>1, <2>1 DEF Row
  <2> QED
    BY <2>2
<1>8. CASE ResumeRun(p)
  <2>1. row'[r].status = "running"
    BY SMTT(30), <1>1, <1>8 DEF ResumeRun, Mutate, Run, Row
  <2> QED
    BY <2>1
<1>9. CASE \/ ReadRun(p) \/ StopAtTurnCap(p) \/ ModelFails(p) \/ ModelReplies(p) \/ BeginMutate(p)
           \/ CheckRunning(p) \/ EndOfCalls(p) \/ RefuseCall(p) \/ ExecuteCall(p)
           \/ RequestApproval(p) \/ WriteDecision(p) \/ ReadPausedRun(p) \/ Crash(p)
  <2>1. row' = row
    BY <1>9 DEF ReadRun, StopAtTurnCap, ModelFails, ModelReplies, BeginMutate, CheckRunning,
       EndOfCalls, RefuseCall, ExecuteCall, RequestApproval, WriteDecision, ReadPausedRun, Crash
  <2> QED
    BY <2>1
<1> QED
  BY <1>2, <1>3, <1>4, <1>5, <1>6, <1>7, <1>8, <1>9 DEF Serve, Drive, Decide

\* Where the calls a request has left come from.
LEMMA CallsFlow ==
  ASSUME TypeOK, NEW p \in Requests, Serve(p) \/ Crash(p),
         pc'[p] \in {"appendTurn", "check", "call", "pause", "resume", "answer"}
  PROVE  \/ ModelReplies(p) /\ pc'[p] = "appendTurn"
         \/ ReadPausedRun(p) /\ pc'[p] = "resume"
         \/ AnswerCall(p) /\ pc'[p] = "call" /\ pc[p] = "answer"
            /\ loc'[p].calls = Tail(loc[p].calls)
         \/ (RefuseCall(p) \/ ExecuteCall(p)) /\ pc'[p] = "answer" /\ pc[p] = "call"
            /\ loc'[p].calls = loc[p].calls /\ loc[p].calls # << >>
         \/ /\ pc'[p] = pc[p] \/ {pc[p], pc'[p]} \cap {"answer"} = {}
            /\ pc[p] \in {"appendTurn", "check", "call", "pause", "resume", "answer"}
            /\ loc'[p].calls = loc[p].calls
<1>1. /\ pc \in [Requests -> PC] /\ loc \in [Requests -> Local] /\ loc[p] \in Local
  BY Typed
<1>2. ~ Return(p)
  BY Returned
<1>3. CASE StartAgentRun(p) \/ ReadRun(p) \/ StopAtTurnCap(p) \/ ModelFails(p) \/ EndOfCalls(p)
           \/ WriteDecision(p) \/ ContinueRun(p)
  BY SMTT(30), <1>1, <1>2, <1>3 DEF StartAgentRun, ReadRun, StopAtTurnCap, ModelFails, EndOfCalls,
     WriteDecision, ContinueRun, Goto
<1>4. CASE ModelReplies(p) \/ ReadPausedRun(p)
  BY <1>1, <1>2, <1>4 DEF ModelReplies, ReadPausedRun, Goto
<1>5. CASE AnswerCall(p)
  <2>1. pc'[p] = "call" /\ pc[p] = "answer"
    BY <1>1, <1>5 DEF AnswerCall, Goto
  <2>2. loc'[p].calls = Tail(loc[p].calls)
    BY <1>1, <1>5 DEF AnswerCall, Local
  <2> QED
    BY <1>5, <2>1, <2>2
<1>6. CASE RefuseCall(p) \/ ExecuteCall(p)
  <2>1. pc'[p] = "answer" /\ pc[p] = "call" /\ loc[p].calls # << >>
    BY <1>1, <1>6 DEF RefuseCall, ExecuteCall, Goto
  <2>2. loc'[p].calls = loc[p].calls
    BY <1>1, <1>6 DEF RefuseCall, ExecuteCall, Local
  <2> QED
    BY <1>6, <2>1, <2>2
<1>7. CASE AppendTurn(p) \/ CheckRunning(p) \/ RequestApproval(p) \/ ResumeRun(p)
  <2>1. pc'[p] \in {"check", "call", "pause"} /\ pc[p] \in {"appendTurn", "check", "call", "resume"}
    BY <1>1, <1>2, <1>7 DEF AppendTurn, CheckRunning, RequestApproval, ResumeRun, Goto
  <2>2. loc'[p].calls = loc[p].calls
    BY <1>1, <1>2, <1>7 DEF AppendTurn, CheckRunning, RequestApproval, ResumeRun, Local
  <2> QED
    BY <2>1, <2>2
<1>8. CASE BeginMutate(p)
  <2>1. pc'[p] = pc[p] /\ loc'[p].calls = loc[p].calls
    BY <1>1, <1>8 DEF BeginMutate, Local
  <2> QED
    BY <2>1
<1> QED
  BY <1>2, <1>3, <1>4, <1>5, <1>6, <1>7, <1>8 DEF Serve, Drive, Decide, Crash, SettleRun,
     PauseRun, StopMismatchedRun, RejectRun

\* A call is carried out: it is behind the request, and the others are ahead.
LEMMA ExecuteAhead ==
  ASSUME TypeOK, Roles, NEW p \in Requests, ExecuteCall(p),
         NEW r \in Starters, r = loc[p].run, RunSound(r)
  PROVE  CallsAhead(r)'
<1>1. /\ pc[p] = "call" /\ loc[p].calls # << >> /\ row' = row /\ minted' = minted
      /\ effects'[r] = Append(effects[r], Head(loc[p].calls))
  BY Typed DEF ExecuteCall, Run
<1>2. pc'[p] = "answer" /\ loc'[p].calls = loc[p].calls
  BY <1>1, CallsFlow, Typed DEF ExecuteCall, Serve, Drive, Goto, Local
<1>3. /\ loc[p].calls \in Seq(Call) /\ effects[r] \in Seq(Call) /\ minted \in Nat
  BY Typed
<1>4. /\ Ascending(effects[r]) /\ UpTo(effects[r], minted)
      /\ Ahead(loc[p].calls, effects[r], minted)
  BY <1>1 DEF RunSound, CallsAhead, Run
<1>5. /\ Ahead(Tail(loc[p].calls), effects'[r], minted)
      /\ Ascending(effects'[r]) /\ UpTo(effects'[r], minted)
  BY <1>1, <1>3, <1>4, AheadNext
<1>6. Drives(p, r) /\ row[r].status = "running"
  BY <1>1, PCs DEF Drives, Driving, Run, RunSound, StatusKnown
<1>7. ASSUME NEW q \in Requests \ {p}, loc'[q].run = r
      PROVE  pc'[q] \notin {"appendTurn", "check", "call", "pause", "resume", "answer"}
  <2>1. pc'[q] = pc[q] /\ loc[q].run = r
    BY <1>7, OthersStay DEF Serve, Drive
  <2>2. ~ Drives(q, r)
    BY <1>6 DEF RunSound, OneHand
  <2> QED
    BY <2>1, <2>2, PCs DEF Drives, Driving, Resuming, Run
<1> QED
  BY <1>1, <1>2, <1>5, <1>6, <1>7 DEF CallsAhead, Run

\* Calls still to be made stay ahead of those that have been.
LEMMA CallsStay ==
  ASSUME TypeOK, Roles, NEW p \in Requests, Serve(p) \/ Crash(p), ~ ExecuteCall(p),
         NEW r \in Starters, r = loc[p].run, RunSound(r)
  PROVE  CallsAhead(r)'
<1>1. /\ effects'[r] = effects[r] /\ effects[r] \in Seq(Call)
      /\ minted \in Nat /\ minted' \in Nat /\ minted <= minted'
  BY EffectsStay, OwnRun, Typed
<1>2. \A c \in Seq(Call) : Ahead(c, effects[r], minted) => Ahead(c, effects[r], minted')
  BY <1>1, AheadLater
<1>3. /\ Ascending(effects[r]) /\ UpTo(effects[r], minted) /\ UpTo(effects[r], minted')
  BY <1>1, AheadLater DEF RunSound, CallsAhead
<1>4. ASSUME NEW q \in Requests, loc[q].run = r
      PROVE  /\ loc[q].calls \in Seq(Call)
             /\ pc[q] \in {"appendTurn", "check", "call", "pause", "resume"} =>
                  Ahead(loc[q].calls, effects[r], minted)
             /\ pc[q] = "answer" =>
                  Tail(loc[q].calls) \in Seq(Call) /\ Ahead(Tail(loc[q].calls), effects[r], minted)
  <2>1. pc[q] = "answer" => Tail(loc[q].calls) \in Seq(Call)
    BY Typed, HeadTyped
  <2> QED
    BY <1>4, <2>1, Typed DEF RunSound, CallsAhead, Run
<1>5. row[r].status = "waiting_approval" =>
        row[r].pending \in Seq(Call) /\ Ahead(row[r].pending, effects[r], minted)
  BY DEF RunSound, CallsAhead, TypeOK, Row
<1>6. row'[r].status = "waiting_approval" => Ahead(row'[r].pending, effects[r], minted')
  BY <1>2, <1>4, <1>5, PausedOn
<1>7. ASSUME NEW q \in Requests \ {p}, loc'[q].run = r
      PROVE  /\ pc'[q] \in {"appendTurn", "check", "call", "pause", "resume"} =>
                  Ahead(loc'[q].calls, effects[r], minted')
             /\ pc'[q] = "answer" => Ahead(Tail(loc'[q].calls), effects[r], minted')
  <2>1. pc'[q] = pc[q] /\ loc'[q] = loc[q]
    BY OthersStay
  <2> QED
    BY <1>2, <1>4, <1>7, <2>1
<1>8. /\ pc'[p] \in {"appendTurn", "check", "call", "pause", "resume"} =>
           Ahead(loc'[p].calls, effects[r], minted')
      /\ pc'[p] = "answer" => Ahead(Tail(loc'[p].calls), effects[r], minted')
  <2>1. CASE ModelReplies(p) /\ pc'[p] = "appendTurn"
    <3>1. PICK reply \in Replies :
            /\ minted' = minted + Len(reply)
            /\ loc' = [loc EXCEPT ![p].calls =
                         [i \in 1..Len(reply) |-> [id |-> minted + i, kind |-> reply[i]]]]
      BY <2>1 DEF ModelReplies
    <3>2. reply \in Seq(Kind)
      BY AgentRunnerAssumption
    <3>3. loc'[p].calls = [i \in 1..Len(reply) |-> [id |-> minted + i, kind |-> reply[i]]]
      BY <3>1, Typed DEF Local
    <3>4. Ahead([i \in 1..Len(reply) |-> [id |-> minted + i, kind |-> reply[i]]],
                effects[r], minted + Len(reply))
      BY <1>1, <1>3, <3>2, AheadReply
    <3> QED
      BY <2>1, <3>1, <3>3, <3>4
  <2>2. CASE ReadPausedRun(p) /\ pc'[p] = "resume"
    <3> DEFINE pinned == approvals[r][loc[p].approval].call
               pending == row[r].pending
    <3>1. ~ Return(p)
      BY <2>2, Returned
    <3>2. /\ pc[p] = "readRun" /\ row[r].status = "waiting_approval" /\ pending # << >>
          /\ Head(pending).id = pinned.id
      BY SMTT(30), <2>2, <3>1, Typed DEF ReadPausedRun, Run, Goto
    <3>3. loc'[p].calls = <<pinned>> \o Tail(pending)
      BY SMTT(30), <2>2, <3>1, Typed DEF ReadPausedRun, Run, Local
    <3>4. pinned \in Call
      BY <3>2, Typed, ApprovalTyped
    <3>5. Ahead(<<pinned>> \o Tail(pending), effects[r], minted)
      <4> HIDE DEF pinned, pending
      <4>1. pending \in Seq(Call) /\ Ahead(pending, effects[r], minted)
        BY <1>5, <3>2 DEF pending
      <4> QED
        BY <1>1, <3>2, <3>4, <4>1, AheadPinned
    <3>6. <<pinned>> \o Tail(pending) \in Seq(Call)
      <4>1. Tail(pending) \in Seq(Call)
        BY <1>5, <3>2, HeadTyped
      <4> QED
        BY <3>4, <4>1, ConcatProperties
    <3> HIDE DEF pinned, pending
    <3> QED
      BY <1>2, <2>2, <3>3, <3>5, <3>6
  <2>3. CASE AnswerCall(p) /\ pc'[p] = "call" /\ pc[p] = "answer"
             /\ loc'[p].calls = Tail(loc[p].calls)
    BY <1>2, <1>4, <2>3
  <2>4. CASE RefuseCall(p) /\ pc'[p] = "answer" /\ pc[p] = "call"
             /\ loc'[p].calls = loc[p].calls /\ loc[p].calls # << >>
    <3>1. Ahead(Tail(loc[p].calls), effects[r], minted) /\ Tail(loc[p].calls) \in Seq(Call)
      BY <1>1, <1>3, <1>4, <2>4, AheadNext, HeadTyped
    <3> QED
      BY <1>2, <2>4, <3>1
  <2>5. CASE /\ pc'[p] = pc[p] \/ {pc[p], pc'[p]} \cap {"answer"} = {}
             /\ pc[p] \in {"appendTurn", "check", "call", "pause", "resume", "answer"}
             /\ loc'[p].calls = loc[p].calls
    <3>1. pc'[p] = "answer" => pc[p] = "answer"
      BY <2>5
    <3>2. pc'[p] \in {"appendTurn", "check", "call", "pause", "resume"} => pc[p] # "answer"
      BY <2>5
    <3> QED
      BY <1>2, <1>4, <2>5, <3>1, <3>2
  <2>6. CASE pc'[p] \notin {"appendTurn", "check", "call", "pause", "resume", "answer"}
    BY <2>6
  <2> QED
    BY <2>1, <2>2, <2>3, <2>4, <2>5, <2>6, CallsFlow
<1> QED
  BY <1>1, <1>3, <1>6, <1>7, <1>8 DEF CallsAhead, Run

\* A request that comes in carries no run on yet.
LEMMA ComesIn ==
  ASSUME TypeOK, RunInv, NEW p \in Requests, pc[p] = "idle",
         \A q \in Requests \ {p} : pc'[q] = pc[q] /\ loc'[q] = loc[q],
         pc'[p] \in {"start", "decide"}, loc'[p].copy = loc[p].copy,
         \/ p \in Starters /\ pc'[p] = "start" /\ loc'[p].run = loc[p].run
         \/ p \in Reviewers /\ pc'[p] = "decide" /\ approvals[loc'[p].run] # << >>,
         UNCHANGED <<row, approvals, minted, effects, history>>
  PROVE  RunInv'
<1>1. Starters \cap Reviewers = {} /\ Requests = Starters \cup Reviewers
  BY AgentRunnerAssumption DEF Requests
<1>2. /\ row' = row /\ approvals' = approvals /\ minted' = minted /\ effects' = effects
      /\ redecided' = redecided
  BY DEF history
<1>3. loc[p].copy = EmptyRow
  BY PCs DEF RunInv, Roles
<1>4. Roles'
  BY <1>1, <1>3, PCs DEF RunInv, Roles, Run
<1>5. ASSUME NEW r \in Starters \ redecided'
      PROVE  NotYet(r)' /\ OneHand(r)' /\ LatestApproval(r)' /\ StatusKnown(r)' /\ CallsAhead(r)'
  <2>1. NotYet(r) /\ OneHand(r) /\ LatestApproval(r) /\ StatusKnown(r) /\ CallsAhead(r)
    BY <1>2, <1>5 DEF RunInv
  <2>2. pc[p] \notin Driving \cup Resuming \cup {"readRun"}
        /\ pc'[p] \notin Driving \cup Resuming \cup {"readRun"}
    BY PCs DEF Driving, Resuming
  <2>3. \A q \in Requests : /\ Drives(q, r)' = Drives(q, r) /\ Decides(q, r)' = Decides(q, r)
                            /\ Drives(q, r) \/ Decides(q, r) => pc'[q] = pc[q] /\ loc'[q] = loc[q]
    BY <2>2 DEF Drives, Decides, Run
  <2>4. NotYet(r)'
    <3>1. CASE p = r
      BY <1>1, <1>2, <2>1, <3>1 DEF NotYet, Run
    <3>2. CASE p # r /\ p \in Starters
      BY <1>1, <1>2, <2>1, <3>2 DEF NotYet, Run
    <3>3. CASE p \in Reviewers
      BY <1>1, <1>2, <2>1, <3>3 DEF NotYet, Run
    <3> QED
      BY <1>1, <3>1, <3>2, <3>3
  <2>5. OneHand(r)'
    BY <2>1, <2>3 DEF OneHand
  <2>6. LatestApproval(r)'
    BY <1>2, <2>1, <2>3 DEF LatestApproval
  <2>7. StatusKnown(r)'
    BY <1>2, <1>3, <2>1, <2>2 DEF StatusKnown, Run
  <2>8. CallsAhead(r)'
    <3>1. \A q \in Requests \ {p} : pc'[q] = pc[q] /\ loc'[q] = loc[q]
      OBVIOUS
    <3>2. pc'[p] \notin {"appendTurn", "check", "call", "pause", "resume", "answer"}
      OBVIOUS
    <3> QED
      BY <1>2, <2>1, <3>1, <3>2 DEF CallsAhead, Run
  <2> QED
    BY <2>4, <2>5, <2>6, <2>7, <2>8
<1> QED
  BY <1>4, <1>5 DEF RunInv

\* Every step preserves RunInv.
LEMMA StepRunInv == TypeOK /\ RunInv /\ [Next]_vars => RunInv'
<1> SUFFICES ASSUME TypeOK, RunInv, [Next]_vars PROVE RunInv'
  OBVIOUS
<1>1. CASE UNCHANGED vars
  BY <1>1 DEF vars, history, RunInv, Roles, NotYet, OneHand, LatestApproval, StatusKnown,
     CallsAhead, Drives, Decides, Run
<1>2. ASSUME NEW p \in Requests, Serve(p) \/ Crash(p)
      PROVE  RunInv'
  <2>1. redecided \subseteq redecided'
    <3>1. WriteDecision(p) => redecided \subseteq redecided'
      BY DEF WriteDecision
    <3> QED
      BY <1>2, <3>1, ApprovalsStay, Typed
  <2>2. Roles /\ Roles'
    BY <1>2, RolesStay DEF RunInv
  <2>3. ASSUME NEW r \in Starters \ redecided'
        PROVE  RunSound(r)'
    <3>1. RunSound(r)
      BY <2>1 DEF RunInv, RunSound
    <3>2. CASE r # loc[p].run
      BY <1>2, <2>2, <3>1, <3>2, OtherRunStays
    <3>3. CASE r = loc[p].run
      <4>1. NotYet(r)' /\ OneHand(r)'
        BY <1>2, <2>2, <3>1, <3>3, NotYetStays, OneHandStays
      <4>2. LatestApproval(r)' /\ StatusKnown(r)'
        BY <1>2, <2>2, <3>1, <3>3, LatestStays, StatusStays
      <4>3. CallsAhead(r)'
        BY <1>2, <2>2, <3>1, <3>3, ExecuteAhead, CallsStay
      <4> QED
        BY <4>1, <4>2, <4>3 DEF RunSound
    <3> QED
      BY <3>2, <3>3
  <2> QED
    BY <2>2, <2>3 DEF RunInv, RunSound
<1>3. ASSUME NEW p \in Starters, RunPlayground(p)
      PROVE  RunInv'
  BY <1>3, ComesIn, Typed DEF RunPlayground, Goto, Requests
<1>4. ASSUME NEW p \in Reviewers, NEW r \in Starters, NEW i \in DOMAIN approvals[r],
             NEW d \in Decision, ReadApproval(p, r, i, d)
      PROVE  RunInv'
  <2>1. p \in Requests /\ approvals[r] # << >>
    BY ApprovalTyped DEF Requests
  <2>2. /\ pc[p] = "idle" /\ pc'[p] = "decide" /\ loc'[p].copy = loc[p].copy /\ loc'[p].run = r
        /\ UNCHANGED <<row, approvals, minted, effects, history>>
        /\ \A q \in Requests \ {p} : pc'[q] = pc[q] /\ loc'[q] = loc[q]
    BY ZenonT(60), <1>4, <2>1, Typed DEF ReadApproval, Goto, Local
  <2> QED
    BY <2>1, <2>2, ComesIn
<1> QED
  BY <1>1, <1>2, <1>3, <1>4 DEF Next

\* Initially there is nothing to carry on.
LEMMA InitRunInv == Init => RunInv
<1> SUFFICES ASSUME Init PROVE RunInv
  OBVIOUS
<1>1. /\ \A p \in Requests : pc[p] = "idle" /\ loc[p].copy = EmptyRow
      /\ \A p \in Starters : loc[p].run = p
  BY DEF Init, Blank, Requests
<1>2. Roles
  BY <1>1, PCs DEF Roles, Run, Requests
<1>3. ASSUME NEW r \in Starters
      PROVE  row[r] = EmptyRow /\ approvals[r] = << >> /\ effects[r] = << >>
  BY DEF Init
<1>4. row = [r \in Starters |-> EmptyRow] /\ \A p \in Requests : ~ (pc[p] \in Driving \cup Resuming)
  BY <1>1, PCs DEF Init, Driving, Resuming
<1>5. ASSUME NEW r \in Starters
      PROVE  NotYet(r) /\ OneHand(r) /\ LatestApproval(r) /\ StatusKnown(r) /\ CallsAhead(r)
  <2>1. NotYet(r) /\ OneHand(r) /\ StatusKnown(r)
    BY <1>1, <1>3, <1>4 DEF NotYet, OneHand, StatusKnown, Drives, Decides, Run, Resuming, Requests
  <2>2. LatestApproval(r)
    BY <1>1, <1>3, <1>4 DEF LatestApproval, Drives, Decides, Resuming
  <2>3. CallsAhead(r)
    BY <1>1, <1>3 DEF CallsAhead, Ascending, UpTo, EmptyRow
  <2> QED
    BY <2>1, <2>2, <2>3
<1> QED
  BY <1>2, <1>5 DEF RunInv

\* A run that no two decisions on one approval touch is carried on by one request
\* at a time, whatever overlaps and wherever requests are cut short
\* (agent-runner.ts and decideApprovalAction have no lock for it).
THEOREM RunsAreCarriedOn == Spec => []RunInv
BY InitRunInv, StepRunInv, TypeCorrect, PTL DEF Spec

\* No tool call is carried out twice, unless its run was decided twice on one
\* approval (handleToolCalls, resumeAgentRunFromApproval).
THEOREM CallsExecutedOnce == Spec => []ExecutedOnce
<1>1. TypeOK /\ RunInv => ExecutedOnce
  <2> SUFFICES ASSUME TypeOK, RunInv, NEW r \in Starters \ redecided,
                      NEW i \in DOMAIN effects[r], NEW j \in DOMAIN effects[r],
                      effects[r][i].id = effects[r][j].id
               PROVE  i = j
    BY DEF ExecutedOnce
  <2>1. effects[r] \in Seq(Call)
    BY DEF TypeOK
  <2>2. i \in Nat /\ j \in Nat /\ effects[r][i].id \in Nat /\ effects[r][j].id \in Nat
    BY <2>1, IdsTyped
  <2>3. Ascending(effects[r])
    BY DEF RunInv, CallsAhead
  <2>4. ~ (i < j) /\ ~ (j < i)
    BY <2>2, <2>3 DEF Ascending
  <2> QED
    BY <2>2, <2>4
<1> QED
  BY <1>1, RunsAreCarriedOn, TypeCorrect, PTL

\* A run that ended stays ended, unless it was decided twice on one approval:
\* the two writes of "running" that do not look at the status come from a
\* request that carries the run on, and then the run has not ended
\* (resumeAgentRunFromApproval).
THEOREM EndedStaysEnded == Spec => SettledIsFinal
<1> DEFINE Final == \A r \in Starters \ redecided :
                      row[r].status \in Settled => row'[r].status = row[r].status
<1>1. TypeOK /\ RunInv /\ [Next]_vars => [Final]_vars
  <2> SUFFICES ASSUME TypeOK, RunInv, Next, NEW r \in Starters \ redecided,
                      row[r].status \in Settled
               PROVE  row'[r].status = row[r].status
    OBVIOUS
  <2>1. Roles /\ RunSound(r)
    BY DEF RunInv, RunSound
  <2>2. ASSUME NEW p \in Requests, Serve(p) \/ Crash(p)
        PROVE  row'[r] = row[r]
    <3>1. CASE r # loc[p].run
      BY <2>1, <2>2, <3>1, OwnRun
    <3>2. CASE r = loc[p].run
      <4>1. pc[p] \notin Driving \cup Resuming
        BY <2>1, <3>2 DEF RunSound, StatusKnown, Settled, Run
      <4>2. ~ StartAgentRun(p)
        BY <2>1, <2>2, <3>2, NotYetStays DEF RunSound, NotYet, EmptyRow, Settled
      <4> QED
        BY <2>2, <4>1, <4>2, DriverWrites
    <3> QED
      BY <3>1, <3>2
  <2>3. CASE \E p \in Starters : RunPlayground(p)
    BY <2>3 DEF RunPlayground
  <2>4. CASE \E p \in Reviewers, s \in Starters : \E i \in DOMAIN approvals[s], d \in Decision :
               ReadApproval(p, s, i, d)
    BY <2>4 DEF ReadApproval
  <2> QED
    BY <2>2, <2>3, <2>4 DEF Next
<1> QED
  BY <1>1, RunsAreCarriedOn, TypeCorrect, PTL DEF Spec, SettledIsFinal

=============================================================================
