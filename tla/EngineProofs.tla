---------------------------- MODULE EngineProofs ----------------------------
(***************************************************************************)
(* Type correctness of the engine, and that its approval gate holds, for   *)
(* any number of callers, reviewers, crashes and saved versions.           *)
(*                                                                         *)
(* TypeOK alone is not inductive: a request that is about to read the      *)
(* chain of its run, or the step row it inserted, needs the run, the node  *)
(* and the row to exist, which is what Engine!TypeInv adds.  One lemma for *)
(* each action shows that it preserves TypeInv.                            *)
(***************************************************************************)
EXTENDS Engine, TLAPS

\* What the assumption on the constants gives the proofs.
LEMMA Constants ==
  /\ Calls \cap Reviewers = {}
  /\ NoKey \notin Keys
  /\ MaxCrashes \in Nat
  /\ Version \subseteq Nat \ {0}
  /\ 1 \in Version
BY EngineAssumption DEF Version

\* A call of startExecution is never a reviewer.
LEMMA Disjoint == \A p \in Calls : p \notin Reviewers
BY EngineAssumption

\* Every saved definition is a non-empty sequence of node types.
LEMMA Chains ==
  \A v \in Version :
    /\ Definitions[v] \in Seq(NodeType)
    /\ Len(Definitions[v]) \in Nat
    /\ DOMAIN Definitions[v] = 1..Len(Definitions[v])
    /\ 1 \in DOMAIN Definitions[v]
<1> TAKE v \in Version
<1>1. Definitions[v] \in Seq(NodeType) /\ Definitions[v] # << >>
  BY EngineAssumption DEF Version
<1> QED
  BY <1>1

\* The sets of program points, written out.
LEMMA PCs ==
  /\ PC = {"idle", "done", "automation", "latest", "insert", "markRunning",
           "decide", "readRun", "findStep", "markStep", "rejectRun", "restartRun", "lookup",
           "load", "step", "execute", "requestApproval", "pauseRun", "failRun", "completeRun"}
  /\ OnNode = {"findStep", "markStep", "rejectRun", "restartRun", "lookup",
           "load", "step", "execute", "requestApproval", "pauseRun", "failRun", "completeRun"}
BY DEF PC, OnNode, StartPC, DecidePC, WalkPC, ResumePC

\* The initial states satisfy the inductive invariant.
LEMMA InitTyped == Init => TypeInv
<1> SUFFICES ASSUME Init PROVE TypeInv
  OBVIOUS
<1> USE DEF Init
<1>1. RunTypes
  BY Constants DEF RunTypes, Status, NoNode
<1>2. RequestTypes
  BY Constants DEF RequestTypes, Local, Decision, Requests, PC
<1>3. AutomationTypes
  BY Constants DEF AutomationTypes
<1>4. HistoryTypes
  BY Constants DEF HistoryTypes
<1>5. \A p \in Requests : Placed(p)
  <2> TAKE p \in Requests
  <2>1. pc[p] = "idle" /\ loc[p].node = 1
    BY DEF Requests
  <2>2. p \in Calls => loc[p].run = p
    BY DEF Requests
  <2> QED
    BY <2>1, <2>2, PCs DEF Placed, DecidePC, StartPC
<1>6. \A r \in Calls : Resumable(r)
  BY DEF Resumable
<1> QED
  BY <1>1, <1>2, <1>3, <1>4, <1>5, <1>6 DEF TypeInv, Types

\* A request that does not move stays placed while rows only grow.
LEMMA PlacedFrame ==
  ASSUME NEW q \in Requests, Placed(q),
         pc'[q] = pc[q], loc'[q] = loc[q],
         pc[q] \in OnNode => version'[loc[q].run] = version[loc[q].run],
         DOMAIN steps[loc[q].run] \subseteq DOMAIN steps'[loc[q].run],
         DOMAIN approvals[loc[q].run] \subseteq DOMAIN approvals'[loc[q].run],
         q \in Calls /\ pc[q] \in {"idle", "automation", "latest", "insert"} =>
           /\ status'[q] = status[q]
           /\ resume'[q] = resume[q]
           /\ steps'[q] = steps[q]
           /\ approvals'[q] = approvals[q]
  PROVE  Placed(q)'
BY PCs DEF Placed, Chain

\* What a request works on is a run.
LEMMA RunExists ==
  ASSUME NEW q \in Requests, RequestTypes
  PROVE  loc[q].run \in Calls
BY DEF RequestTypes, Local

\* The node a request has in hand is in the chain of its run.
LEMMA NodeInHand ==
  ASSUME TypeInv, NEW p \in Requests, pc[p] \in OnNode
  PROVE  /\ loc[p].run \in Calls
         /\ loc[p].node \in DOMAIN Chain(loc[p].run)
         /\ loc[p].node \in NodeKey
<1>1. loc[p].run \in Calls
  BY RunExists DEF TypeInv, Types
<1>2. loc[p].node \in DOMAIN Chain(loc[p].run)
  BY DEF TypeInv, Placed
<1>3. version[loc[p].run] \in Version
  BY <1>1 DEF TypeInv, Types, RunTypes
<1> QED
  BY <1>1, <1>2, <1>3, Chains DEF Chain, NodeKey, NoNode

\* The parts of a sequence the provers need one by one.
LEMMA SeqElements ==
  ASSUME NEW S, NEW s \in Seq(S)
  PROVE  /\ Len(s) \in Nat
         /\ DOMAIN s = 1..Len(s)
         /\ s \in [1..Len(s) -> S]
         /\ \A i \in DOMAIN s : s[i] \in S
OBVIOUS

\* A function on 1..n is a sequence.
LEMMA FunctionIsSeq ==
  ASSUME NEW S, NEW n \in Nat, NEW f \in [1..n -> S]
  PROVE  f \in Seq(S)
OBVIOUS

\* Appending to the list of one run: the new list, and the others as they were.
LEMMA AppendRow ==
  ASSUME NEW S, NEW f \in [Calls -> Seq(S)], NEW r \in Calls, NEW x \in S,
         NEW g, g = [f EXCEPT ![r] = Append(@, x)]
  PROVE  /\ g \in [Calls -> Seq(S)]
         /\ \A s \in Calls \ {r} : g[s] = f[s]
         /\ g[r] = Append(f[r], x)
         /\ Len(f[r]) \in Nat
         /\ DOMAIN g[r] = 1..(Len(f[r]) + 1)
         /\ DOMAIN f[r] = 1..Len(f[r])
         /\ \A i \in DOMAIN f[r] : g[r][i] = f[r][i]
         /\ g[r][Len(f[r]) + 1] = x
         /\ Len(g[r]) = Len(f[r]) + 1
<1>1. f[r] \in Seq(S)
  OBVIOUS
<1>2. /\ g[r] = Append(f[r], x)
      /\ \A s \in Calls \ {r} : g[s] = f[s]
  OBVIOUS
<1>3. /\ Append(f[r], x) \in Seq(S)
      /\ Len(f[r]) \in Nat
      /\ DOMAIN f[r] = 1..Len(f[r])
      /\ Len(Append(f[r], x)) = Len(f[r]) + 1
      /\ DOMAIN Append(f[r], x) = 1..(Len(f[r]) + 1)
      /\ \A i \in DOMAIN f[r] : Append(f[r], x)[i] = f[r][i]
      /\ Append(f[r], x)[Len(f[r]) + 1] = x
  BY <1>1
<1> QED
  BY <1>2, <1>3

\* Replacing an entry of the list of one run.
LEMMA UpdateRow ==
  ASSUME NEW S, NEW f \in [Calls -> Seq(S)], NEW r \in Calls, NEW i \in DOMAIN f[r],
         NEW y \in S, NEW g, g = [f EXCEPT ![r] = [f[r] EXCEPT ![i] = y]]
  PROVE  /\ g \in [Calls -> Seq(S)]
         /\ \A s \in Calls \ {r} : g[s] = f[s]
         /\ DOMAIN g[r] = DOMAIN f[r]
         /\ Len(g[r]) = Len(f[r])
         /\ \A j \in DOMAIN f[r] \ {i} : g[r][j] = f[r][j]
         /\ g[r][i] = y
<1> DEFINE h == [f[r] EXCEPT ![i] = y]
<1>1. f[r] \in Seq(S)
  OBVIOUS
<1>2. /\ g[r] = h
      /\ \A s \in Calls \ {r} : g[s] = f[s]
  OBVIOUS
<1>3. /\ DOMAIN h = DOMAIN f[r]
      /\ \A j \in DOMAIN f[r] \ {i} : h[j] = f[r][j]
      /\ h[i] = y
  OBVIOUS
<1>4. f[r] \in [1..Len(f[r]) -> S] /\ Len(f[r]) \in Nat /\ DOMAIN f[r] = 1..Len(f[r])
  BY <1>1, SeqElements
<1>5. h \in [1..Len(f[r]) -> S]
  BY <1>4
<1>6. h \in Seq(S) /\ Len(h) = Len(f[r])
  <2>1. h \in Seq(S)
    BY <1>4, <1>5, FunctionIsSeq
  <2> QED
    BY <1>3, <1>4, <2>1, SeqElements
<1>7. g \in [Calls -> Seq(S)]
  BY <1>6
<1> QED
  BY <1>2, <1>3, <1>6, <1>7

\* A step row with another status is a step row of the same node.
LEMMA StepEdit ==
  ASSUME NEW x \in Step, NEW s \in {"running", "waiting", "completed", "failed"}
  PROVE  /\ [x EXCEPT !.status = s] \in Step
         /\ [x EXCEPT !.status = s].node = x.node
         /\ [x EXCEPT !.status = s].status = s
BY DEF Step

\* SetStep changes the status of one step row and nothing else.
LEMMA StepRow ==
  ASSUME RunTypes, NEW r \in Calls, NEW i \in DOMAIN steps[r],
         NEW s \in {"running", "waiting", "completed", "failed"},
         steps' = [steps EXCEPT ![r][i].status = s]
  PROVE  /\ steps' \in [Calls -> Seq(Step)]
         /\ \A q \in Calls \ {r} : steps'[q] = steps[q]
         /\ DOMAIN steps'[r] = DOMAIN steps[r]
         /\ Len(steps'[r]) = Len(steps[r])
         /\ \A j \in DOMAIN steps[r] : steps'[r][j].node = steps[r][j].node
         /\ \A j \in DOMAIN steps[r] \ {i} : steps'[r][j] = steps[r][j]
         /\ steps'[r][i].status = s
<1>1. steps \in [Calls -> Seq(Step)] /\ steps[r] \in Seq(Step)
  BY DEF RunTypes
<1>2. steps[r][i] \in Step
  BY <1>1, SeqElements
<1>3. PICK y : /\ y \in Step
               /\ y = [steps[r][i] EXCEPT !.status = s]
               /\ y.node = steps[r][i].node
               /\ y.status = s
  <2> DEFINE z == [steps[r][i] EXCEPT !.status = s]
  <2>1. z \in Step /\ z.node = steps[r][i].node /\ z.status = s
    BY <1>2, StepEdit
  <2> QED
    BY <2>1
<1>4. steps' = [steps EXCEPT ![r] = [steps[r] EXCEPT ![i] = y]]
  BY <1>3
<1> QED
  BY <1>1, <1>3, <1>4, UpdateRow

\* An approval with a decision on it is an approval of the same node.
LEMMA ApprovalEdit ==
  ASSUME NEW x \in Approval, NEW s \in Decision
  PROVE  /\ [x EXCEPT !.status = s] \in Approval
         /\ [x EXCEPT !.status = s].node = x.node
         /\ [x EXCEPT !.status = s].status = s
BY DEF Approval

\* WriteDecision changes the status of one approval and nothing else.
LEMMA ApprovalRow ==
  ASSUME RunTypes, NEW r \in Calls, NEW i \in DOMAIN approvals[r],
         NEW s \in Decision,
         approvals' = [approvals EXCEPT ![r][i].status = s]
  PROVE  /\ approvals' \in [Calls -> Seq(Approval)]
         /\ \A q \in Calls \ {r} : approvals'[q] = approvals[q]
         /\ DOMAIN approvals'[r] = DOMAIN approvals[r]
         /\ Len(approvals'[r]) = Len(approvals[r])
         /\ \A j \in DOMAIN approvals[r] : approvals'[r][j].node = approvals[r][j].node
         /\ \A j \in DOMAIN approvals[r] \ {i} : approvals'[r][j] = approvals[r][j]
         /\ approvals'[r][i].status = s
<1>1. approvals \in [Calls -> Seq(Approval)] /\ approvals[r] \in Seq(Approval)
  BY DEF RunTypes
<1>2. approvals[r][i] \in Approval
  BY <1>1, SeqElements
<1>3. PICK y : /\ y \in Approval
               /\ y = [approvals[r][i] EXCEPT !.status = s]
               /\ y.node = approvals[r][i].node
               /\ y.status = s
  BY <1>2, ApprovalEdit
<1>4. approvals' = [approvals EXCEPT ![r] = [approvals[r] EXCEPT ![i] = y]]
  BY <1>3
<1> QED
  BY <1>1, <1>3, <1>4, UpdateRow

\* Nobody works on a run that has not been inserted.
LEMMA NothingBeforeInsert ==
  ASSUME TypeInv, NEW p \in Requests, pc[p] \in OnNode \cup DecidePC,
         NEW q \in Calls, pc[q] \in {"idle", "automation", "latest", "insert"}
  PROVE  loc[p].run # q
<1>1. CASE p \in Calls
  BY <1>1, PCs DEF TypeInv, Placed, Requests, DecidePC
<1>2. CASE p \in Reviewers
  <2>1. loc[p].approval \in DOMAIN approvals[loc[p].run]
    BY <1>2, PCs DEF TypeInv, Placed, Requests, DecidePC
  <2>2. approvals[q] = << >>
    BY DEF TypeInv, Placed, Requests
  <2> QED
    BY <2>1, <2>2
<1> QED
  BY <1>1, <1>2 DEF Requests

\* A step of one request on its run leaves the other requests placed.
LEMMA OthersPlaced ==
  ASSUME TypeInv, NEW p \in Requests, pc[p] \in OnNode \cup DecidePC,
         \A q \in Requests \ {p} : pc'[q] = pc[q] /\ loc'[q] = loc[q],
         version' = version,
         \A r \in Calls : /\ DOMAIN steps[r] \subseteq DOMAIN steps'[r]
                          /\ DOMAIN approvals[r] \subseteq DOMAIN approvals'[r],
         \A r \in Calls \ {loc[p].run} :
            /\ status'[r] = status[r]
            /\ resume'[r] = resume[r]
            /\ steps'[r] = steps[r]
            /\ approvals'[r] = approvals[r]
  PROVE  \A q \in Requests \ {p} : Placed(q)'
<1> TAKE q \in Requests \ {p}
<1>1. q \in Calls /\ pc[q] \in {"idle", "automation", "latest", "insert"} => q # loc[p].run
  BY NothingBeforeInsert
<1>2. loc[q].run \in Calls /\ Placed(q)
  BY RunExists DEF TypeInv, Types
<1> QED
  BY <1>1, <1>2, PlacedFrame

\* The conjuncts of TypeInv.
LEMMA TypeInvParts ==
  ASSUME TypeInv
  PROVE  /\ RunTypes /\ RequestTypes /\ AutomationTypes /\ HistoryTypes
         /\ \A q \in Requests : Placed(q)
         /\ \A r \in Calls : Resumable(r)
BY DEF TypeInv, Types

\* What is left to show of a step of p once p is past its reads.
LEMMA ServeTyped ==
  ASSUME TypeInv, NEW p \in Requests, pc[p] \in OnNode \cup DecidePC,
         NEW w \in PC, pc' = [pc EXCEPT ![p] = w],
         NEW l \in Local, loc' = [loc EXCEPT ![p] = l],
         RunTypes', HistoryTypes',
         version' = version, UNCHANGED <<automation, versions, deletion>>,
         \A r \in Calls : /\ DOMAIN steps[r] \subseteq DOMAIN steps'[r]
                          /\ DOMAIN approvals[r] \subseteq DOMAIN approvals'[r],
         NEW r \in Calls, loc[p].run = r,
         \A s \in Calls \ {r} :
            /\ status'[s] = status[s]
            /\ resume'[s] = resume[s]
            /\ steps'[s] = steps[s]
            /\ approvals'[s] = approvals[s],
         Resumable(r)', Placed(p)'
  PROVE  TypeInv'
<1>1. RequestTypes'
  BY TypeInvParts DEF RequestTypes
<1>2. AutomationTypes'
  BY TypeInvParts DEF AutomationTypes, deletion
<1>3. \A q \in Requests \ {p} : Placed(q)'
  <2>1. \A q \in Requests \ {p} : pc'[q] = pc[q] /\ loc'[q] = loc[q]
    BY TypeInvParts DEF RequestTypes
  <2> QED
    BY <2>1, OthersPlaced
<1>4. \A s \in Calls : Resumable(s)'
  BY TypeInvParts DEF Resumable, Chain
<1> QED
  BY <1>1, <1>2, <1>3, <1>4 DEF TypeInv, Types

\* A request that has returned is placed.
LEMMA PlacedReturned ==
  ASSUME TypeInv, NEW p \in Requests, pc'[p] = Returned(p), loc'[p] = loc[p]
  PROVE  Placed(p)'
BY Disjoint, TypeInvParts, PCs DEF Placed, Returned, DecidePC, StartPC, Requests

\* A request that goes on with a node of the chain is placed.
LEMMA PlacedOnNode ==
  ASSUME TypeInv, NEW p \in Requests, pc[p] \in OnNode \cup DecidePC, pc'[p] \in OnNode,
         p \in Calls => pc'[p] \notin DecidePC,
         loc'[p].run = loc[p].run, loc'[p].approval = loc[p].approval,
         loc'[p].node \in DOMAIN Chain(loc[p].run), version' = version,
         DOMAIN approvals[loc[p].run] \subseteq DOMAIN approvals'[loc[p].run],
         pc'[p] \in {"execute", "markStep"} => loc'[p].step \in DOMAIN steps'[loc[p].run]
  PROVE  Placed(p)'
BY Disjoint, TypeInvParts, PCs DEF Placed, Chain, DecidePC, StartPC, Requests

\* A step of p that changes none of the rows.
LEMMA NoRowTyped ==
  ASSUME TypeInv, NEW p \in Requests, pc[p] \in OnNode \cup DecidePC,
         NEW w \in PC, pc' = [pc EXCEPT ![p] = w],
         NEW l \in Local, loc' = [loc EXCEPT ![p] = l],
         UNCHANGED <<rows, deletion, history, crashes>>,
         Placed(p)'
  PROVE  TypeInv'
<1>1. RunTypes' /\ HistoryTypes'
  BY TypeInvParts DEF RunTypes, HistoryTypes, rows, history
<1>2. PICK r \in Calls : loc[p].run = r
  BY RunExists, TypeInvParts
<1>3. Resumable(r)'
  BY TypeInvParts DEF Resumable, Chain, rows
<1> QED
  BY <1>1, <1>2, <1>3, ServeTyped DEF rows

\* Local variables that do not change, in the form the other lemmas take.
LEMMA LocStays ==
  ASSUME RequestTypes, NEW p \in Requests, loc' = loc
  PROVE  loc[p] \in Local /\ loc' = [loc EXCEPT ![p] = loc[p]]
BY DEF RequestTypes

\* LoadVersion preserves TypeInv.
LEMMA LoadVersionTyped ==
  ASSUME TypeInv, NEW p \in Requests, LoadVersion(p)
  PROVE  TypeInv'
<1> DEFINE w == IF VersionFound(loc[p].run) THEN "step" ELSE "failRun"
<1>1. /\ pc[p] = "load" /\ pc' = [pc EXCEPT ![p] = w] /\ w \in PC /\ w \in {"step", "failRun"}
      /\ loc' = loc /\ UNCHANGED <<rows, deletion, history, crashes>>
  BY PCs DEF LoadVersion, Goto
<1>2. pc'[p] = w
  BY <1>1, TypeInvParts DEF RequestTypes
<1>3. Placed(p)'
  BY <1>1, <1>2, NodeInHand, PlacedOnNode, PCs DEF rows, DecidePC
<1> QED
  BY <1>1, <1>3, LocStays, NoRowTyped, TypeInvParts, PCs

\* InsertStep preserves TypeInv.
LEMMA InsertStepTyped ==
  ASSUME TypeInv, NEW p \in Requests, InsertStep(p)
  PROVE  TypeInv'
<1> DEFINE r == loc[p].run
           row == [node |-> loc[p].node, status |-> "running"]
<1>0. /\ pc[p] = "step"
      /\ pc' = [pc EXCEPT ![p] = "execute"]
      /\ steps' = [steps EXCEPT ![r] = Append(@, row)]
      /\ loc' = [loc EXCEPT ![p].step = Len(steps[r]) + 1]
      /\ UNCHANGED <<automation, versions, status, version, keyOf, resume, approvals,
                     deletion, history, crashes>>
  BY DEF InsertStep, Goto
<1>1. r \in Calls /\ loc[p].node \in DOMAIN Chain(r) /\ row \in Step
  BY <1>0, NodeInHand, PCs DEF Step
<1>2. /\ steps' \in [Calls -> Seq(Step)]
      /\ \A s \in Calls \ {r} : steps'[s] = steps[s]
      /\ Len(steps[r]) \in Nat
      /\ DOMAIN steps'[r] = 1..(Len(steps[r]) + 1)
      /\ DOMAIN steps[r] = 1..Len(steps[r])
  BY <1>0, <1>1, AppendRow DEF TypeInv, Types, RunTypes
<1>3. RunTypes' /\ HistoryTypes'
  BY <1>0, <1>2 DEF RunTypes, HistoryTypes, TypeInv, Types, history
<1>4. AutomationTypes'
  BY <1>0 DEF AutomationTypes, TypeInv, Types, deletion
<1>5. RequestTypes'
  <2>1. RequestTypes
    BY DEF TypeInv, Types
  <2>2. pc' \in [Requests -> PC]
    BY <1>0, <2>1, PCs DEF RequestTypes
  <2>3. loc[p] \in Local /\ Len(steps[r]) + 1 \in Nat
    BY <1>2, <2>1 DEF RequestTypes
  <2>4. [loc[p] EXCEPT !.step = Len(steps[r]) + 1] \in Local
    BY SMTT(30), <2>3 DEF Local
  <2>5. loc' \in [Requests -> Local]
    BY <1>0, <2>1, <2>4 DEF RequestTypes
  <2> QED
    BY <2>2, <2>5 DEF RequestTypes
<1>6. Placed(p)'
  <2>1. /\ pc'[p] = "execute"
        /\ loc'[p] = [loc[p] EXCEPT !.step = Len(steps[r]) + 1]
        /\ loc[p] \in Local
    BY <1>0 DEF TypeInv, Types, RequestTypes
  <2>2. /\ loc'[p].run = r /\ loc'[p].node = loc[p].node /\ loc'[p].step = Len(steps[r]) + 1
        /\ loc'[p].approval = loc[p].approval
    BY <2>1 DEF Local
  <2> QED
    BY <1>0, <1>1, <1>2, <2>1, <2>2, PCs DEF TypeInv, Placed, Chain, DecidePC, StartPC
<1>7. \A q \in Requests \ {p} : Placed(q)'
  BY <1>0, <1>1, <1>2, OthersPlaced, PCs DEF TypeInv, Types, RequestTypes
<1>8. \A s \in Calls : Resumable(s)'
  BY <1>0 DEF TypeInv, Resumable, Chain
<1> QED
  BY <1>3, <1>4, <1>5, <1>6, <1>7, <1>8 DEF TypeInv, Types

\* What is left to show of a step of a call that has not reached the walk.
LEMMA CallTyped ==
  ASSUME TypeInv, NEW p \in Calls, pc[p] \in {"idle"} \cup StartPC,
         NEW w \in PC, pc' = [pc EXCEPT ![p] = w],
         NEW l \in Local, loc' = [loc EXCEPT ![p] = l],
         RunTypes', UNCHANGED <<automation, versions, deletion, history, crashes>>,
         UNCHANGED <<resume, steps, approvals>>,
         pc[p] # "insert" => version' = version,
         \A s \in Calls \ {p} : status'[s] = status[s] /\ version'[s] = version[s],
         Placed(p)'
  PROVE  TypeInv'
<1> USE DEF Requests
<1>1. RequestTypes' /\ HistoryTypes'
  BY TypeInvParts DEF RequestTypes, HistoryTypes, history
<1>2. AutomationTypes'
  BY TypeInvParts DEF AutomationTypes, deletion
<1>3. ASSUME NEW q \in Requests \ {p} PROVE Placed(q)'
  <2>1. pc'[q] = pc[q] /\ loc'[q] = loc[q] /\ loc[q].run \in Calls
    BY TypeInvParts, RunExists DEF RequestTypes
  <2>2. pc[q] \in OnNode => version'[loc[q].run] = version[loc[q].run]
    <3>1. CASE pc[p] = "insert"
      BY <2>1, <3>1, NothingBeforeInsert
    <3>2. CASE pc[p] # "insert"
      BY <3>2
    <3> QED
      BY <3>1, <3>2
  <2> QED
    BY <2>1, <2>2, TypeInvParts, PlacedFrame
<1>4. \A s \in Calls : Resumable(s)'
  <2>1. pc[p] = "insert" => resume[p] = NoNode
    BY TypeInvParts DEF Placed
  <2> QED
    BY <2>1, TypeInvParts DEF Resumable, Chain
<1> QED
  BY <1>1, <1>2, <1>3, <1>4 DEF TypeInv, Types

\* ReturnExisting preserves TypeInv.
LEMMA ReturnExistingTyped ==
  ASSUME TypeInv, NEW p \in Calls, NEW k \in Keys \cup {NoKey}, ReturnExisting(p, k)
  PROVE  TypeInv'
<1>1. /\ pc[p] = "idle" /\ pc' = [pc EXCEPT ![p] = "done"]
      /\ loc' = loc /\ UNCHANGED <<rows, deletion, history, crashes>>
  BY DEF ReturnExisting, Goto
<1>2. RunTypes'
  BY <1>1, TypeInvParts DEF RunTypes, rows
<1>3. pc'[p] = Returned(p)
  BY <1>1, TypeInvParts DEF RequestTypes, Returned, Requests
<1> QED
  BY <1>1, <1>2, <1>3, TypeInvParts, PlacedReturned, LocStays, CallTyped, PCs DEF rows, Requests

\* StartExecution preserves TypeInv.
LEMMA StartExecutionTyped ==
  ASSUME TypeInv, NEW p \in Calls, NEW k \in Keys \cup {NoKey}, StartExecution(p, k)
  PROVE  TypeInv'
<1> DEFINE l == [loc[p] EXCEPT !.key = k]
<1>1. /\ pc[p] = "idle" /\ pc' = [pc EXCEPT ![p] = "automation"]
      /\ loc' = [loc EXCEPT ![p] = l]
      /\ UNCHANGED <<rows, deletion, history, crashes>>
  BY DEF StartExecution, Goto
<1>2. RunTypes'
  BY <1>1, TypeInvParts DEF RunTypes, rows
<1>3. loc[p] \in Local /\ l \in Local /\ l.run = loc[p].run /\ l.node = loc[p].node
  BY TypeInvParts DEF RequestTypes, Local, Requests
<1>4. pc'[p] = "automation" /\ loc'[p] = l
  BY <1>1, TypeInvParts DEF RequestTypes, Requests
<1>5. Placed(p)'
  BY <1>1, <1>3, <1>4, TypeInvParts, Disjoint, PCs DEF Placed, DecidePC, Requests, rows
<1> QED
  BY <1>1, <1>2, <1>3, <1>5, CallTyped, PCs DEF rows

\* ReadAutomation preserves TypeInv.
LEMMA ReadAutomationTyped ==
  ASSUME TypeInv, NEW p \in Requests, ReadAutomation(p)
  PROVE  TypeInv'
<1> DEFINE w == IF automation THEN "latest" ELSE Returned(p)
<1>1. /\ pc[p] = "automation" /\ pc' = [pc EXCEPT ![p] = w]
      /\ loc' = loc /\ UNCHANGED <<rows, deletion, history, crashes>>
  BY DEF ReadAutomation, Goto
<1>2. p \in Calls /\ w \in {"latest", Returned(p)} /\ w \in PC
  BY <1>1, TypeInvParts, PCs DEF Placed, StartPC, Requests, Returned
<1>3. RunTypes'
  BY <1>1, TypeInvParts DEF RunTypes, rows
<1>4. pc'[p] = w
  BY <1>1, TypeInvParts DEF RequestTypes
<1>5. Placed(p)'
  <2>1. CASE w = "latest"
    BY <1>1, <1>2, <1>4, <2>1, TypeInvParts, Disjoint, PCs DEF Placed, DecidePC, StartPC, rows
  <2>2. CASE w = Returned(p)
    BY <1>1, <1>4, <2>2, PlacedReturned
  <2> QED
    BY <1>2, <2>1, <2>2
<1> QED
  BY <1>1, <1>2, <1>3, <1>5, TypeInvParts, LocStays, CallTyped DEF rows, StartPC

\* ReadLatestVersion preserves TypeInv.
LEMMA ReadLatestVersionTyped ==
  ASSUME TypeInv, NEW p \in Requests, ReadLatestVersion(p)
  PROVE  TypeInv'
<1>1. pc[p] = "latest" /\ UNCHANGED <<rows, deletion, history, crashes>>
  BY DEF ReadLatestVersion
<1>2. p \in Calls
  BY <1>1, TypeInvParts, PCs DEF Placed, StartPC, Requests
<1>3. RunTypes'
  BY <1>1, TypeInvParts DEF RunTypes, rows
<1>4. CASE pc' = [pc EXCEPT ![p] = Returned(p)] /\ loc' = loc
  <2>1. pc'[p] = Returned(p) /\ Returned(p) \in PC
    BY <1>2, <1>4, TypeInvParts, PCs DEF RequestTypes, Returned
  <2> QED
    BY <1>1, <1>2, <1>3, <1>4, <2>1, TypeInvParts, PlacedReturned, LocStays, CallTyped
       DEF rows, StartPC
<1>5. ASSUME NEW v \in versions, pc' = [pc EXCEPT ![p] = "insert"],
             loc' = [loc EXCEPT ![p].version = v]
      PROVE  TypeInv'
  <2> DEFINE l == [loc[p] EXCEPT !.version = v]
  <2>1. v \in Version /\ loc[p] \in Local /\ loc' = [loc EXCEPT ![p] = l]
    BY <1>5, TypeInvParts DEF AutomationTypes, RequestTypes
  <2>2. l \in Local /\ l.run = loc[p].run /\ l.node = loc[p].node /\ l.version = v
    BY <2>1 DEF Local
  <2>3. pc'[p] = "insert" /\ loc'[p] = l
    BY <1>5, <2>1, TypeInvParts DEF RequestTypes
  <2>4. Placed(p)'
    <3>1. /\ loc[p].run = p /\ loc[p].node = 1 /\ p \notin Reviewers
          /\ status[p] = "none" /\ resume[p] = NoNode
          /\ steps[p] = << >> /\ approvals[p] = << >>
      BY <1>1, <1>2, TypeInvParts, Disjoint DEF Placed, StartPC, Requests
    <3>2. UNCHANGED <<status, resume, steps, approvals>>
      BY <1>1 DEF rows
    <3> QED
      BY <1>2, <2>1, <2>2, <2>3, <3>1, <3>2, PCs DEF Placed, DecidePC
  <2> QED
    BY <1>1, <1>2, <1>3, <1>5, <2>1, <2>2, <2>4, CallTyped, PCs DEF rows, StartPC
<1> QED
  BY <1>4, <1>5 DEF ReadLatestVersion, Goto

\* InsertExecution preserves TypeInv.
LEMMA InsertExecutionTyped ==
  ASSUME TypeInv, NEW p \in Requests, InsertExecution(p)
  PROVE  TypeInv'
<1>1. pc[p] = "insert" /\ loc' = loc /\ UNCHANGED <<deletion, history, crashes>>
  BY DEF InsertExecution
<1>2. p \in Calls
  BY <1>1, TypeInvParts, PCs DEF Placed, StartPC, Requests
<1>3. CASE pc' = [pc EXCEPT ![p] = Returned(p)] /\ UNCHANGED rows
  <2>1. pc'[p] = Returned(p) /\ Returned(p) \in PC
    BY <1>2, <1>3, TypeInvParts, PCs DEF RequestTypes, Returned, Requests
  <2>2. RunTypes'
    BY <1>3, TypeInvParts DEF RunTypes, rows
  <2> QED
    BY <1>1, <1>2, <1>3, <2>1, <2>2, TypeInvParts, PlacedReturned, LocStays, CallTyped
       DEF rows, StartPC
<1>4. CASE /\ pc' = [pc EXCEPT ![p] = "markRunning"]
           /\ status' = [status EXCEPT ![p] = "queued"]
           /\ version' = [version EXCEPT ![p] = loc[p].version]
           /\ keyOf' = [keyOf EXCEPT ![p] = loc[p].key]
           /\ UNCHANGED <<automation, versions, resume, steps, approvals>>
  <2>1. /\ loc[p].version \in Version /\ loc[p].key \in Keys \cup {NoKey}
        /\ loc[p].run = p /\ loc[p].node = 1 /\ p \notin Reviewers
    BY <1>1, <1>2, TypeInvParts, Disjoint DEF Placed, StartPC, Requests, RequestTypes, Local
  <2>2. RunTypes'
    BY <1>4, <2>1, TypeInvParts DEF RunTypes, Status
  <2>3. pc'[p] = "markRunning"
    BY <1>2, <1>4, TypeInvParts DEF RequestTypes, Requests
  <2>4. Placed(p)'
    BY <1>1, <1>2, <2>1, <2>3, PCs DEF Placed, DecidePC
  <2>5. \A s \in Calls \ {p} : status'[s] = status[s] /\ version'[s] = version[s]
    BY <1>4, TypeInvParts DEF RunTypes
  <2> QED
    BY <1>1, <1>2, <1>4, <2>2, <2>4, <2>5, TypeInvParts, LocStays, CallTyped, PCs DEF StartPC
<1> QED
  BY <1>3, <1>4 DEF InsertExecution, Goto, SetStatus

\* MarkRunning preserves TypeInv.
LEMMA MarkRunningTyped ==
  ASSUME TypeInv, NEW p \in Requests, MarkRunning(p)
  PROVE  TypeInv'
<1>1. /\ pc[p] = "markRunning" /\ loc' = loc
      /\ pc' = [pc EXCEPT ![p] = "load"]
      /\ status' = [status EXCEPT ![p] = "running"]
      /\ UNCHANGED <<automation, versions, version, keyOf, resume, steps, approvals>>
      /\ UNCHANGED <<deletion, history, crashes>>
  BY DEF MarkRunning, Goto, SetStatus
<1>2. p \in Calls
  BY <1>1, TypeInvParts, PCs DEF Placed, StartPC, Requests
<1>3. RunTypes'
  BY <1>1, <1>2, TypeInvParts DEF RunTypes, Status
<1>4. /\ loc[p].run = p /\ loc[p].node = 1 /\ p \notin Reviewers /\ version[p] \in Version
  BY <1>1, <1>2, TypeInvParts, Disjoint DEF Placed, StartPC, Requests, RunTypes
<1>5. pc'[p] = "load" /\ 1 \in DOMAIN Chain(p)'
  BY <1>1, <1>4, TypeInvParts, Chains DEF RequestTypes, Chain
<1>6. Placed(p)'
  BY <1>1, <1>2, <1>4, <1>5, PCs DEF Placed, DecidePC
<1>7. \A s \in Calls \ {p} : status'[s] = status[s]
  BY <1>1, TypeInvParts DEF RunTypes
<1> QED
  BY <1>1, <1>2, <1>3, <1>6, <1>7, TypeInvParts, LocStays, CallTyped, PCs DEF StartPC

\* A step of the walk that changes the status of the run, its resume cursor or both.
LEMMA StatusTyped ==
  ASSUME TypeInv, NEW p \in Requests, pc[p] \in OnNode \cup DecidePC,
         NEW w \in PC, pc' = [pc EXCEPT ![p] = w], loc' = loc,
         NEW s \in Status, status' = [status EXCEPT ![loc[p].run] = s],
         NEW k \in Nat, resume' = [resume EXCEPT ![loc[p].run] = k],
         k \in {NoNode, resume[loc[p].run], loc[p].node},
         k = loc[p].node => pc[p] \in OnNode,
         UNCHANGED <<automation, versions, version, keyOf, steps, approvals>>,
         UNCHANGED <<deletion, history, crashes>>,
         Placed(p)'
  PROVE  TypeInv'
<1>1. PICK r \in Calls : loc[p].run = r
  BY RunExists, TypeInvParts
<1>2. RunTypes' /\ HistoryTypes'
  BY <1>1, TypeInvParts DEF RunTypes, HistoryTypes, history
<1>3. Resumable(r)'
  <2>1. resume'[r] = k
    BY <1>1, TypeInvParts DEF RunTypes
  <2>2. k # NoNode => k \in DOMAIN Chain(r)
    BY <1>1, TypeInvParts, NodeInHand DEF Resumable
  <2> QED
    BY <2>1, <2>2 DEF Resumable, Chain
<1>4. \A q \in Calls \ {r} : status'[q] = status[q] /\ resume'[q] = resume[q]
  BY <1>1, TypeInvParts DEF RunTypes
<1> QED
  BY <1>1, <1>2, <1>3, <1>4, ServeTyped, LocStays, TypeInvParts

\* PauseRun preserves TypeInv.
LEMMA PauseRunTyped ==
  ASSUME TypeInv, NEW p \in Requests, PauseRun(p)
  PROVE  TypeInv'
<1>1. /\ pc[p] = "pauseRun" /\ pc[p] \in OnNode /\ pc' = [pc EXCEPT ![p] = Returned(p)]
      /\ loc' = loc
      /\ status' = [status EXCEPT ![loc[p].run] = "waiting"]
      /\ resume' = [resume EXCEPT ![loc[p].run] = loc[p].node]
      /\ UNCHANGED <<automation, versions, version, keyOf, steps, approvals>>
      /\ UNCHANGED <<deletion, history, crashes>>
  BY PCs DEF PauseRun, Goto, SetStatus
<1>2. pc'[p] = Returned(p) /\ Returned(p) \in PC /\ loc[p].node \in Nat
  BY <1>1, TypeInvParts, PCs DEF RequestTypes, Returned, Local
<1> QED
  BY <1>1, <1>2, PlacedReturned, StatusTyped DEF Status

\* CompleteRun preserves TypeInv.
LEMMA CompleteRunTyped ==
  ASSUME TypeInv, NEW p \in Requests, CompleteRun(p)
  PROVE  TypeInv'
<1>1. /\ pc[p] = "completeRun" /\ pc[p] \in OnNode /\ pc' = [pc EXCEPT ![p] = Returned(p)]
      /\ loc' = loc
      /\ status' = [status EXCEPT ![loc[p].run] = "completed"]
      /\ resume' = [resume EXCEPT ![loc[p].run] = NoNode]
      /\ UNCHANGED <<automation, versions, version, keyOf, steps, approvals>>
      /\ UNCHANGED <<deletion, history, crashes>>
  BY PCs DEF CompleteRun, Goto, SetStatus
<1>2. pc'[p] = Returned(p) /\ Returned(p) \in PC /\ NoNode \in Nat
  BY <1>1, TypeInvParts, PCs DEF RequestTypes, Returned, NoNode
<1> QED
  BY <1>1, <1>2, PlacedReturned, StatusTyped DEF Status

\* FailRun preserves TypeInv.
LEMMA FailRunTyped ==
  ASSUME TypeInv, NEW p \in Requests, FailRun(p)
  PROVE  TypeInv'
<1>1. /\ pc[p] = "failRun" /\ pc[p] \in OnNode /\ pc' = [pc EXCEPT ![p] = Returned(p)]
      /\ loc' = loc
      /\ status' = [status EXCEPT ![loc[p].run] = "failed"]
      /\ resume' = resume
      /\ UNCHANGED <<automation, versions, version, keyOf, steps, approvals>>
      /\ UNCHANGED <<deletion, history, crashes>>
  BY PCs DEF FailRun, Goto, SetStatus
<1>2. pc'[p] = Returned(p) /\ Returned(p) \in PC /\ resume[loc[p].run] \in Nat
      /\ resume' = [resume EXCEPT ![loc[p].run] = resume[loc[p].run]]
  BY <1>1, TypeInvParts, RunExists, PCs DEF RequestTypes, Returned, RunTypes
<1> QED
  BY <1>1, <1>2, PlacedReturned, StatusTyped DEF Status

\* RejectRun preserves TypeInv.
LEMMA RejectRunTyped ==
  ASSUME TypeInv, NEW p \in Requests, RejectRun(p)
  PROVE  TypeInv'
<1>1. /\ pc[p] = "rejectRun" /\ pc[p] \in OnNode /\ pc' = [pc EXCEPT ![p] = Returned(p)]
      /\ loc' = loc
      /\ status' = [status EXCEPT ![loc[p].run] = "failed"]
      /\ resume' = [resume EXCEPT ![loc[p].run] = NoNode]
      /\ UNCHANGED <<automation, versions, version, keyOf, steps, approvals>>
      /\ UNCHANGED <<deletion, history, crashes>>
  BY PCs DEF RejectRun, Goto, SetStatus
<1>2. pc'[p] = Returned(p) /\ Returned(p) \in PC /\ NoNode \in Nat
  BY <1>1, TypeInvParts, PCs DEF RequestTypes, Returned, NoNode
<1> QED
  BY Zenon, <1>1, <1>2, PlacedReturned, StatusTyped DEF Status

\* RestartRun preserves TypeInv.
LEMMA RestartRunTyped ==
  ASSUME TypeInv, NEW p \in Requests, RestartRun(p)
  PROVE  TypeInv'
<1>1. /\ pc[p] = "restartRun" /\ pc[p] \in OnNode /\ pc' = [pc EXCEPT ![p] = "lookup"]
      /\ loc' = loc
      /\ status' = [status EXCEPT ![loc[p].run] = "running"]
      /\ resume' = resume
      /\ UNCHANGED <<automation, versions, version, keyOf, steps, approvals>>
      /\ UNCHANGED <<deletion, history, crashes>>
  BY PCs DEF RestartRun, Goto, SetStatus
<1>2. pc'[p] = "lookup" /\ resume[loc[p].run] \in Nat
      /\ resume' = [resume EXCEPT ![loc[p].run] = resume[loc[p].run]]
  BY <1>1, TypeInvParts, RunExists, PCs DEF RequestTypes, Returned, RunTypes
<1>3. Placed(p)'
  <2>1. p \notin Calls
    BY <1>1, TypeInvParts, PCs DEF Placed, DecidePC
  <2> QED
    BY <1>1, <1>2, <2>1, NodeInHand, PlacedOnNode, PCs
<1> QED
  BY Zenon, <1>1, <1>2, <1>3, PCs, StatusTyped DEF Status

\* The outcome of a node, or of a decided gate, on the step row in hand.
LEMMA StepMarkedTyped ==
  ASSUME TypeInv, NEW p \in Requests, pc[p] \in {"execute", "markStep"},
         NEW w \in PC, pc' = [pc EXCEPT ![p] = w],
         NEW l \in Local, loc' = [loc EXCEPT ![p] = l],
         NEW s \in {"running", "waiting", "completed", "failed"},
         steps' = [steps EXCEPT ![loc[p].run][loc[p].step].status = s],
         UNCHANGED <<automation, versions, status, version, keyOf, resume, approvals>>,
         UNCHANGED <<deletion, history, crashes>>,
         Placed(p)'
  PROVE  TypeInv'
<1>1. PICK r \in Calls : loc[p].run = r
  BY RunExists, TypeInvParts
<1>2. loc[p].step \in DOMAIN steps[r]
  BY SMTT(30), <1>1, TypeInvParts DEF Placed
<1>3. /\ steps' \in [Calls -> Seq(Step)]
      /\ \A q \in Calls \ {r} : steps'[q] = steps[q]
      /\ DOMAIN steps'[r] = DOMAIN steps[r]
  BY ZenonT(60), <1>1, <1>2, TypeInvParts, StepRow
<1>4. RunTypes' /\ HistoryTypes'
  BY <1>3, TypeInvParts DEF RunTypes, HistoryTypes, history
<1>5. Resumable(r)'
  BY TypeInvParts DEF Resumable, Chain
<1>6. pc[p] \in OnNode \cup DecidePC
  BY PCs
<1> QED
  BY <1>1, <1>3, <1>4, <1>5, <1>6, ServeTyped

\* The four outcomes of a node preserve TypeInv.
LEMMA NodeOutcomeTyped ==
  ASSUME TypeInv, NEW p \in Requests,
         NodeProceeds(p) \/ NodeFinishes(p) \/ NodeFails(p) \/ NodeWaits(p)
  PROVE  TypeInv'
<1>1. PICK s \in {"running", "waiting", "completed", "failed"} : StepOutcome(p, s)
  BY DEF NodeProceeds, NodeFinishes, NodeFails, NodeWaits
<1>2. /\ pc[p] = "execute" /\ pc[p] \in OnNode
      /\ steps' = [steps EXCEPT ![loc[p].run][loc[p].step].status = s]
      /\ UNCHANGED <<automation, versions, status, version, keyOf, resume, approvals>>
      /\ UNCHANGED <<deletion, history, crashes>>
  BY <1>1, PCs DEF StepOutcome, SetStep
<1>3. PICK r \in Calls : loc[p].run = r
  BY RunExists, TypeInvParts
<1>4. /\ loc[p] \in Local /\ loc[p].node \in DOMAIN Chain(r)
      /\ DOMAIN Chain(r) = 1..Len(Chain(r)) /\ Len(Chain(r)) \in Nat /\ loc[p].node \in Nat
  BY SMTT(30), <1>2, <1>3, NodeInHand, TypeInvParts, Chains DEF RequestTypes, RunTypes, Chain, NodeKey
<1>5. ASSUME NEW w \in {"step", "completeRun", "failRun", "requestApproval"},
             NEW l \in Local, pc' = [pc EXCEPT ![p] = w], loc' = [loc EXCEPT ![p] = l],
             l.run = r, l.approval = loc[p].approval, l.node \in DOMAIN Chain(r)
      PROVE  TypeInv'
  <2>1. pc'[p] = w /\ loc'[p] = l
    BY <1>5, TypeInvParts DEF RequestTypes
  <2>2. Placed(p)'
    BY <1>2, <1>3, <1>5, <2>1, PlacedOnNode, PCs DEF DecidePC
  <2> QED
    BY Zenon, <1>2, <1>5, <2>2, StepMarkedTyped, PCs
<1>6. CASE loc' = loc
  <2>1. PICK w \in {"step", "completeRun", "failRun", "requestApproval"} :
          pc' = [pc EXCEPT ![p] = w]
    BY <1>6 DEF NodeProceeds, NodeFinishes, NodeFails, NodeWaits, Goto
  <2> QED
    BY <1>3, <1>4, <1>5, <1>6, <2>1, LocStays, TypeInvParts
<1>7. CASE NodeProceeds(p) /\ loc[p].node < Len(Chain(r))
  <2> DEFINE l == [loc[p] EXCEPT !.node = @ + 1]
  <2>1. pc' = [pc EXCEPT ![p] = "step"] /\ loc' = [loc EXCEPT ![p] = l]
    BY <1>3, <1>7 DEF NodeProceeds, Goto
  <2>2. /\ l \in Local /\ l.run = r /\ l.approval = loc[p].approval
        /\ l.node = loc[p].node + 1
    BY <1>3, <1>4 DEF Local
  <2>3. l.node \in DOMAIN Chain(r)
    BY <1>4, <1>7, <2>2
  <2> QED
    BY <1>5, <2>1, <2>2, <2>3
<1> QED
  BY <1>3, <1>6, <1>7 DEF NodeProceeds, NodeFinishes, NodeFails, NodeWaits

\* RequestApproval preserves TypeInv.
LEMMA RequestApprovalTyped ==
  ASSUME TypeInv, NEW p \in Requests, RequestApproval(p)
  PROVE  TypeInv'
<1> DEFINE a == [node |-> loc[p].node, status |-> "pending"]
<1>1. /\ pc[p] = "requestApproval" /\ pc[p] \in OnNode
      /\ pc' = [pc EXCEPT ![p] = "pauseRun"] /\ loc' = loc
      /\ approvals' = [approvals EXCEPT ![loc[p].run] = Append(@, a)]
      /\ UNCHANGED <<automation, versions, status, version, keyOf, resume, steps>>
      /\ UNCHANGED <<deletion, history, crashes>>
  BY PCs DEF RequestApproval, Goto
<1>2. PICK r \in Calls : loc[p].run = r
  BY RunExists, TypeInvParts
<1>3. a \in Approval
  BY <1>1, NodeInHand DEF Approval
<1>4. /\ approvals' \in [Calls -> Seq(Approval)]
      /\ \A q \in Calls \ {r} : approvals'[q] = approvals[q]
      /\ DOMAIN approvals[r] \subseteq DOMAIN approvals'[r]
  BY <1>1, <1>2, <1>3, TypeInvParts, AppendRow DEF RunTypes
<1>5. RunTypes' /\ HistoryTypes'
  BY <1>1, <1>4, TypeInvParts DEF RunTypes, HistoryTypes, history
<1>6. Resumable(r)'
  BY <1>1, TypeInvParts DEF Resumable, Chain
<1>7. Placed(p)'
  <2>1. pc'[p] = "pauseRun"
    BY <1>1, TypeInvParts DEF RequestTypes
  <2> QED
    BY <1>1, <1>2, <1>4, <2>1, NodeInHand, PlacedOnNode, PCs DEF DecidePC
<1> QED
  BY <1>1, <1>2, <1>4, <1>5, <1>6, <1>7, ServeTyped, LocStays, TypeInvParts, PCs

\* Only reviewers decide, and they decide an approval that exists.
LEMMA ReviewersDecide ==
  ASSUME TypeInv, NEW p \in Requests, pc[p] \in DecidePC
  PROVE  /\ p \in Reviewers /\ p \notin Calls
         /\ loc[p].run \in Calls
         /\ loc[p].approval \in DOMAIN approvals[loc[p].run]
<1>1. p \in Reviewers /\ p \notin Calls
  BY TypeInvParts DEF Placed, Requests
<1>2. pc[p] # "idle"
  BY SMTT(30) DEF DecidePC
<1> QED
  BY <1>1, <1>2, TypeInvParts, RunExists DEF Placed

\* WriteDecision preserves TypeInv.
LEMMA WriteDecisionTyped ==
  ASSUME TypeInv, NEW p \in Requests, WriteDecision(p)
  PROVE  TypeInv'
<1>1. /\ pc[p] = "decide" /\ pc[p] \in DecidePC
      /\ pc' = [pc EXCEPT ![p] = "readRun"] /\ loc' = loc
      /\ approvals' = [approvals EXCEPT ![loc[p].run][loc[p].approval].status = loc[p].decision]
      /\ UNCHANGED <<automation, versions, status, version, keyOf, resume, steps>>
      /\ UNCHANGED <<deletion, crashes>>
  BY DEF WriteDecision, Goto, DecidePC
<1>2. PICK r \in Calls : loc[p].run = r
  BY RunExists, TypeInvParts
<1>3. loc[p].approval \in DOMAIN approvals[r] /\ p \in Reviewers /\ p \notin Calls
  BY <1>1, <1>2, ReviewersDecide
<1>4. loc[p].decision \in Decision
  BY TypeInvParts DEF RequestTypes, Local
<1>5. /\ approvals' \in [Calls -> Seq(Approval)]
      /\ \A q \in Calls \ {r} : approvals'[q] = approvals[q]
      /\ DOMAIN approvals'[r] = DOMAIN approvals[r]
  BY <1>1, <1>2, <1>3, <1>4, TypeInvParts, ApprovalRow
<1>6. RunTypes'
  BY <1>1, <1>5, TypeInvParts DEF RunTypes
<1>7. HistoryTypes'
  <2>1. approvals[r][loc[p].approval].node \in NodeKey
    <3>1. approvals[r] \in Seq(Approval)
      BY TypeInvParts DEF RunTypes
    <3>2. approvals[r][loc[p].approval] \in Approval
      BY <1>3, <3>1, SeqElements
    <3> QED
      BY <3>2 DEF Approval
  <2>2. granted' \subseteq granted \cup {<<r, approvals[r][loc[p].approval].node>>}
        /\ redecided' \subseteq redecided \cup {r}
    BY <1>2 DEF WriteDecision
  <2> QED
    BY <1>1, <2>1, <2>2, TypeInvParts DEF HistoryTypes
<1>8. Resumable(r)'
  BY <1>1, TypeInvParts DEF Resumable, Chain
<1>9. Placed(p)'
  <2>1. pc'[p] = "readRun"
    BY <1>1, TypeInvParts DEF RequestTypes
  <2> QED
    BY <1>1, <1>2, <1>3, <1>5, <2>1, PCs DEF Placed, StartPC
<1> QED
  BY ZenonT(60), <1>1, <1>2, <1>5, <1>6, <1>7, <1>8, <1>9, ServeTyped, LocStays, TypeInvParts, PCs

\* ReadPausedRun preserves TypeInv.
LEMMA ReadPausedRunTyped ==
  ASSUME TypeInv, NEW p \in Requests, ReadPausedRun(p)
  PROVE  TypeInv'
<1>1. pc[p] = "readRun" /\ pc[p] \in DecidePC /\ UNCHANGED <<rows, deletion, history, crashes>>
  BY DEF ReadPausedRun, DecidePC
<1>2. PICK r \in Calls : loc[p].run = r
  BY RunExists, TypeInvParts
<1>3. p \in Reviewers /\ p \notin Calls /\ loc[p] \in Local /\ resume[r] \in Nat
  BY <1>1, ReviewersDecide, TypeInvParts DEF RequestTypes, RunTypes
<1>4. CASE pc' = [pc EXCEPT ![p] = Returned(p)] /\ loc' = loc
  <2>1. pc'[p] = Returned(p) /\ Returned(p) \in PC
    BY <1>4, TypeInvParts, PCs DEF RequestTypes, Returned
  <2> QED
    BY <1>1, <1>3, <1>4, <2>1, PlacedReturned, LocStays, NoRowTyped, TypeInvParts
<1>5. CASE /\ resume[r] # NoNode
           /\ pc' = [pc EXCEPT ![p] = "findStep"]
           /\ loc' = [loc EXCEPT ![p].node = resume[r]]
  <2> DEFINE l == [loc[p] EXCEPT !.node = resume[r]]
  <2>1. l \in Local /\ l.run = r /\ l.approval = loc[p].approval /\ l.node = resume[r]
    BY <1>2, <1>3 DEF Local
  <2>2. pc'[p] = "findStep" /\ loc'[p] = l /\ loc' = [loc EXCEPT ![p] = l]
    BY <1>5, TypeInvParts DEF RequestTypes
  <2>3. l.node \in DOMAIN Chain(r)
    BY <1>5, <2>1, TypeInvParts DEF Resumable
  <2>4. Placed(p)'
    BY <1>1, <1>2, <1>3, <2>1, <2>2, <2>3, PlacedOnNode, PCs DEF rows
  <2> QED
    BY <1>1, <1>5, <2>1, <2>2, <2>4, NoRowTyped, PCs
<1> QED
  BY <1>2, <1>3, <1>4, <1>5, LocStays, TypeInvParts DEF ReadPausedRun, Goto

\* FindWaitingStep preserves TypeInv.
LEMMA FindWaitingStepTyped ==
  ASSUME TypeInv, NEW p \in Requests, FindWaitingStep(p)
  PROVE  TypeInv'
<1>1. /\ pc[p] = "findStep" /\ pc[p] \in OnNode /\ pc[p] \in DecidePC
      /\ UNCHANGED <<rows, deletion, history, crashes>>
  BY PCs DEF FindWaitingStep, DecidePC
<1>2. PICK r \in Calls : loc[p].run = r
  BY RunExists, TypeInvParts
<1>3. /\ p \in Reviewers /\ p \notin Calls /\ loc[p] \in Local
      /\ loc[p].node \in DOMAIN Chain(r)
  BY <1>1, <1>2, ReviewersDecide, NodeInHand, TypeInvParts DEF RequestTypes
<1>4. CASE pc' = [pc EXCEPT ![p] = AfterMark(p)] /\ loc' = loc
  <2>1. pc'[p] = AfterMark(p) /\ AfterMark(p) \in {"rejectRun", "restartRun"}
    BY <1>4, TypeInvParts DEF RequestTypes, AfterMark
  <2>2. Placed(p)'
    BY <1>1, <1>2, <1>3, <1>4, <2>1, PlacedOnNode, PCs DEF rows
  <2> QED
    BY <1>1, <1>3, <1>4, <2>1, <2>2, LocStays, NoRowTyped, TypeInvParts, PCs
<1>5. ASSUME NEW i \in WaitingSteps(r, loc[p].node), pc' = [pc EXCEPT ![p] = "markStep"],
             loc' = [loc EXCEPT ![p].step = i]
      PROVE  TypeInv'
  <2> DEFINE l == [loc[p] EXCEPT !.step = i]
  <2>1. i \in DOMAIN steps[r] /\ i \in Nat
    <3>1. steps[r] \in Seq(Step)
      BY TypeInvParts DEF RunTypes
    <3> QED
      BY <3>1, SeqElements DEF WaitingSteps
  <2>2. l \in Local /\ l.run = r /\ l.approval = loc[p].approval
        /\ l.node = loc[p].node /\ l.step = i
    BY <1>2, <1>3, <2>1 DEF Local
  <2>3. pc'[p] = "markStep" /\ loc'[p] = l /\ loc' = [loc EXCEPT ![p] = l]
    BY <1>5, TypeInvParts DEF RequestTypes
  <2>4. Placed(p)'
    BY ZenonT(60), <1>1, <1>2, <1>3, <2>1, <2>2, <2>3, PlacedOnNode, PCs DEF rows
  <2> QED
    BY <1>1, <1>5, <2>2, <2>3, <2>4, NoRowTyped, PCs
<1> QED
  BY <1>2, <1>4, <1>5 DEF FindWaitingStep, Goto

\* MarkWaitingStep preserves TypeInv.
LEMMA MarkWaitingStepTyped ==
  ASSUME TypeInv, NEW p \in Requests, MarkWaitingStep(p)
  PROVE  TypeInv'
<1> DEFINE s == IF loc[p].decision = "rejected" THEN "failed" ELSE "completed"
<1>1. /\ pc[p] = "markStep" /\ pc[p] \in OnNode /\ pc[p] \in DecidePC
      /\ pc' = [pc EXCEPT ![p] = AfterMark(p)] /\ loc' = loc
      /\ steps' = [steps EXCEPT ![loc[p].run][loc[p].step].status = s]
      /\ UNCHANGED <<automation, versions, status, version, keyOf, resume, approvals>>
      /\ UNCHANGED <<deletion, history, crashes>>
  BY PCs DEF MarkWaitingStep, DecidePC, Goto, SetStep
<1>2. PICK r \in Calls : loc[p].run = r
  BY RunExists, TypeInvParts
<1>3. p \in Reviewers /\ p \notin Calls /\ loc[p].node \in DOMAIN Chain(r)
  BY <1>1, <1>2, ReviewersDecide, NodeInHand
<1>4. pc'[p] = AfterMark(p) /\ AfterMark(p) \in {"rejectRun", "restartRun"}
  BY <1>1, TypeInvParts DEF RequestTypes, AfterMark
<1>5. Placed(p)'
  BY <1>1, <1>2, <1>3, <1>4, PlacedOnNode, PCs
<1>6. s \in {"running", "waiting", "completed", "failed"}
  OBVIOUS
<1> HIDE DEF s
<1> QED
  BY ZenonT(30), <1>1, <1>4, <1>5, <1>6, StepMarkedTyped, LocStays, TypeInvParts, PCs

\* LookupSuccessor preserves TypeInv.
LEMMA LookupSuccessorTyped ==
  ASSUME TypeInv, NEW p \in Requests, LookupSuccessor(p)
  PROVE  TypeInv'
<1>1. /\ pc[p] = "lookup" /\ pc[p] \in OnNode /\ pc[p] \in DecidePC
      /\ UNCHANGED <<rows, deletion, history, crashes>>
  BY PCs DEF LookupSuccessor, DecidePC
<1>2. PICK r \in Calls : loc[p].run = r
  BY RunExists, TypeInvParts
<1>3. p \in Reviewers /\ p \notin Calls
  BY <1>1, ReviewersDecide
<1>4. /\ loc[p] \in Local /\ loc[p].node \in DOMAIN Chain(r)
      /\ DOMAIN Chain(r) = 1..Len(Chain(r)) /\ Len(Chain(r)) \in Nat /\ loc[p].node \in Nat
  BY <1>1, <1>2, NodeInHand, TypeInvParts, Chains DEF RequestTypes, RunTypes, Chain, NodeKey
<1>5. ASSUME NEW w \in {"load", "failRun", "completeRun"}, NEW l \in Local,
             pc' = [pc EXCEPT ![p] = w], loc' = [loc EXCEPT ![p] = l],
             l.run = r, l.approval = loc[p].approval, l.node \in DOMAIN Chain(r)
      PROVE  TypeInv'
  <2>1. pc'[p] = w /\ loc'[p] = l
    BY <1>5, TypeInvParts DEF RequestTypes
  <2>2. Placed(p)'
    BY <1>1, <1>2, <1>3, <1>5, <2>1, PlacedOnNode, PCs DEF rows
  <2> QED
    BY <1>1, <1>5, <2>2, NoRowTyped, PCs
<1>6. CASE loc' = loc
  <2>1. PICK w \in {"load", "failRun", "completeRun"} : pc' = [pc EXCEPT ![p] = w]
    BY <1>6 DEF LookupSuccessor, Goto
  <2> QED
    BY <1>2, <1>4, <1>5, <1>6, <2>1, LocStays, TypeInvParts
<1>7. CASE /\ loc[p].node # Len(Chain(r))
           /\ pc' = [pc EXCEPT ![p] = "load"]
           /\ loc' = [loc EXCEPT ![p].node = @ + 1]
  <2> DEFINE l == [loc[p] EXCEPT !.node = @ + 1]
  <2>1. loc' = [loc EXCEPT ![p] = l]
    BY <1>7
  <2>2. l \in Local /\ l.run = r /\ l.approval = loc[p].approval /\ l.node = loc[p].node + 1
    BY <1>2, <1>4 DEF Local
  <2>3. l.node \in DOMAIN Chain(r)
    BY <1>4, <1>7, <2>2
  <2> QED
    BY <1>5, <1>7, <2>1, <2>2, <2>3
<1> QED
  BY <1>2, <1>6, <1>7 DEF LookupSuccessor, Goto

\* ReadApproval preserves TypeInv.
LEMMA ReadApprovalTyped ==
  ASSUME TypeInv, NEW p \in Reviewers, NEW r \in Calls, NEW i \in DOMAIN approvals[r],
         NEW d \in Decision, ReadApproval(p, r, i, d)
  PROVE  TypeInv'
<1> DEFINE l == [loc[p] EXCEPT !.run = r, !.approval = i, !.decision = d]
<1>1. /\ pc[p] = "idle" /\ pc' = [pc EXCEPT ![p] = "decide"]
      /\ loc' = [loc EXCEPT ![p] = l]
      /\ UNCHANGED <<rows, deletion, history, crashes>>
  BY DEF ReadApproval, Goto
<1>2. p \in Requests /\ p \notin Calls /\ loc[p] \in Local
  BY Disjoint, TypeInvParts DEF Requests, RequestTypes
<1>3. i \in Nat
  <2>1. approvals[r] \in Seq(Approval)
    BY TypeInvParts DEF RunTypes
  <2> QED
    BY <2>1, SeqElements
<1>4. l \in Local /\ l.run = r /\ l.approval = i
  BY <1>2, <1>3 DEF Local
<1>5. RunTypes' /\ HistoryTypes'
  BY <1>1, TypeInvParts DEF RunTypes, HistoryTypes, rows, history
<1>6. RequestTypes'
  BY <1>1, <1>2, <1>4, TypeInvParts, PCs DEF RequestTypes
<1>7. AutomationTypes'
  BY <1>1, TypeInvParts DEF AutomationTypes, deletion, rows
<1>9. approvals' = approvals
  BY <1>1 DEF rows
<1>8. ASSUME NEW q \in Requests PROVE Placed(q)'
  <2>1. CASE q = p
    <3>1. pc'[p] = "decide" /\ loc'[p] = l
      BY <1>1, <1>2, TypeInvParts DEF RequestTypes
    <3> QED
      BY <1>2, <1>4, <1>9, <2>1, <3>1, PCs DEF Placed, StartPC
  <2>2. CASE q # p
    BY <1>1, <1>2, <2>2, TypeInvParts, PlacedFrame DEF RequestTypes, rows
  <2> QED
    BY <2>1, <2>2
<1>10. \A s \in Calls : Resumable(s)'
  BY <1>1, TypeInvParts DEF Resumable, Chain, rows
<1> QED
  BY <1>5, <1>6, <1>7, <1>8, <1>10 DEF TypeInv, Types

\* Whatever leaves the runs and the requests alone keeps the invariant, if it
\* keeps the types of the rest.
LEMMA AutomationTyped ==
  ASSUME TypeInv, AutomationTypes', HistoryTypes',
         UNCHANGED <<status, version, keyOf, resume, steps, approvals, loc>>,
         \A q \in Requests : pc'[q] = pc[q] \/ pc'[q] = Returned(q),
         RequestTypes'
  PROVE  TypeInv'
<1>1. RunTypes'
  BY TypeInvParts DEF RunTypes
<1>2. ASSUME NEW q \in Requests PROVE Placed(q)'
  <2>1. CASE pc'[q] = pc[q]
    BY <2>1, TypeInvParts, PlacedFrame
  <2>2. CASE pc'[q] = Returned(q)
    BY <2>2, PlacedReturned
  <2> QED
    BY <2>1, <2>2
<1>3. \A s \in Calls : Resumable(s)'
  BY TypeInvParts DEF Resumable, Chain
<1> QED
  BY <1>1, <1>2, <1>3 DEF TypeInv, Types

\* Crash preserves TypeInv.
LEMMA CrashTyped ==
  ASSUME TypeInv, NEW p \in Requests, Crash(p)
  PROVE  TypeInv'
<1>1. /\ crashes' = crashes + 1 /\ crashes < MaxCrashes
      /\ pc' = [pc EXCEPT ![p] = Returned(p)]
      /\ UNCHANGED <<rows, loc, deletion, history>>
  BY DEF Crash, Goto
<1>2. HistoryTypes'
  BY <1>1, Constants, TypeInvParts DEF HistoryTypes, history
<1>3. AutomationTypes'
  BY <1>1, TypeInvParts DEF AutomationTypes, rows, deletion
<1>4. RequestTypes' /\ \A q \in Requests : pc'[q] = pc[q] \/ pc'[q] = Returned(q)
  BY <1>1, TypeInvParts, PCs DEF RequestTypes, Returned
<1> QED
  BY <1>1, <1>2, <1>3, <1>4, AutomationTyped DEF rows

\* SaveVersion preserves TypeInv.
LEMMA SaveVersionTyped == ASSUME TypeInv, SaveVersion PROVE TypeInv'
<1>1. /\ versions' \subseteq Version
      /\ UNCHANGED <<automation, status, version, keyOf, resume, steps, approvals,
                     pc, loc, deletion, history, crashes>>
  BY TypeInvParts DEF SaveVersion, AutomationTypes
<1>2. AutomationTypes' /\ HistoryTypes' /\ RequestTypes'
  BY <1>1, TypeInvParts DEF AutomationTypes, HistoryTypes, RequestTypes, deletion, history
<1> QED
  BY <1>1, <1>2, AutomationTyped

\* deleteAutomation preserves TypeInv.
LEMMA DeletionTyped ==
  ASSUME TypeInv, CheckNoRuns \/ (\E v \in Version : RemoveVersion(v)) \/ RemoveAutomation
  PROVE  TypeInv'
<1>1. UNCHANGED <<status, version, keyOf, resume, steps, approvals, pc, loc, history, crashes>>
  BY DEF CheckNoRuns, RemoveVersion, RemoveAutomation, rows
<1>2. AutomationTypes'
  <2>1. CASE CheckNoRuns
    BY <2>1, TypeInvParts DEF CheckNoRuns, AutomationTypes, rows
  <2>2. CASE \E v \in Version : RemoveVersion(v)
    BY <2>2, TypeInvParts DEF RemoveVersion, AutomationTypes
  <2>3. CASE RemoveAutomation
    BY <2>3, TypeInvParts DEF RemoveAutomation, AutomationTypes
  <2> QED
    BY <2>1, <2>2, <2>3
<1>3. HistoryTypes' /\ RequestTypes'
  BY <1>1, TypeInvParts DEF HistoryTypes, RequestTypes, history
<1> QED
  BY <1>1, <1>2, <1>3, AutomationTyped

\* A stuttering step preserves TypeInv.
LEMMA StutterTyped == ASSUME TypeInv, UNCHANGED vars PROVE TypeInv'
<1>1. AutomationTypes' /\ HistoryTypes' /\ RequestTypes'
  BY TypeInvParts DEF vars, rows, deletion, history, AutomationTypes, HistoryTypes, RequestTypes
<1> QED
  BY <1>1, AutomationTyped DEF vars, rows

\* Every step preserves TypeInv.
LEMMA NextTyped == ASSUME TypeInv, [Next]_vars PROVE TypeInv'
<1>1. ASSUME NEW p \in Requests, Serve(p) PROVE TypeInv'
  <2>1. CASE Start(p)
    BY <2>1, ReadAutomationTyped, ReadLatestVersionTyped, InsertExecutionTyped,
       MarkRunningTyped DEF Start
  <2>2. CASE Decide(p)
    BY <2>2, WriteDecisionTyped, ReadPausedRunTyped, FindWaitingStepTyped,
       MarkWaitingStepTyped, RejectRunTyped, RestartRunTyped, LookupSuccessorTyped DEF Decide
  <2>3. CASE Walk(p)
    BY <2>3, LoadVersionTyped, InsertStepTyped, NodeOutcomeTyped, RequestApprovalTyped,
       PauseRunTyped, FailRunTyped, CompleteRunTyped DEF Walk
  <2> QED
    BY <1>1, <2>1, <2>2, <2>3 DEF Serve
<1>2. ASSUME NEW p \in Calls, NEW k \in Keys \cup {NoKey},
             ReturnExisting(p, k) \/ StartExecution(p, k)
      PROVE  TypeInv'
  BY <1>2, ReturnExistingTyped, StartExecutionTyped
<1>3. ASSUME NEW p \in Reviewers, NEW r \in Calls, NEW i \in DOMAIN approvals[r],
             NEW d \in Decision, ReadApproval(p, r, i, d)
      PROVE  TypeInv'
  BY <1>3, ReadApprovalTyped
<1>4. CASE SaveVersion \/ CheckNoRuns \/ (\E v \in Version : RemoveVersion(v)) \/ RemoveAutomation
  BY <1>4, SaveVersionTyped, DeletionTyped
<1>5. CASE UNCHANGED vars
  BY <1>5, StutterTyped
<1> QED
  BY <1>1, <1>2, <1>3, <1>4, <1>5, CrashTyped DEF Next

\* TypeInv is strong enough for the type invariant the runs check.
LEMMA TypeInvImpliesTypeOK == TypeInv => TypeOK
<1> SUFFICES ASSUME TypeInv, NEW p \in Requests
             PROVE  /\ Types
                    /\ pc[p] \in OnNode => loc[p].node \in DOMAIN Chain(loc[p].run)
                    /\ pc[p] \in {"execute", "markStep"} =>
                         loc[p].step \in DOMAIN steps[loc[p].run]
                    /\ pc[p] = "decide" => loc[p].approval \in DOMAIN approvals[loc[p].run]
  BY TypeInvParts DEF TypeOK, Types
<1>1. Types
  BY TypeInvParts DEF Types
<1> QED
  BY <1>1, TypeInvParts, ReviewersDecide DEF Placed, DecidePC

\* TypeInv holds throughout every behaviour.
LEMMA AlwaysTypeInv == Spec => []TypeInv
<1>1. Init => TypeInv
  BY InitTyped
<1>2. TypeInv /\ [Next]_vars => TypeInv'
  BY NextTyped
<1> QED
  BY <1>1, <1>2, PTL DEF Spec

\* Every variable keeps its type, and no request ever reaches for a node, a
\* step row or an approval that is not there, for any number of callers,
\* reviewers, crashes and saved versions.
THEOREM TypeCorrect == Spec => []TypeOK
BY AlwaysTypeInv, TypeInvImpliesTypeOK, PTL

-----------------------------------------------------------------------------
(***************************************************************************)
(* The gate.  The argument is Engine!IndInv: as long as no approval of a   *)
(* run is decided twice, one request at a time has the run in hand, and    *)
(* what that request is about to do is justified by the rows.  RunFrame    *)
(* says which steps leave a run alone; the lemmas named after the actions  *)
(* are about the request that has it in hand.                              *)
(***************************************************************************)
Active == StartPC \cup OnNode \cup {"readRun"}

\* The gates of a run are those of its pinned version.
LEMMA GatesFrame ==
  ASSUME NEW r \in Calls, version'[r] = version[r]
  PROVE  /\ Chain(r)' = Chain(r)
         /\ \A k : IsGate(r, k)' <=> IsGate(r, k)
BY DEF Chain, IsGate

\* Grants are never taken back.
LEMMA GatesBeforeFrame ==
  ASSUME NEW r \in Calls, version'[r] = version[r], granted \subseteq granted',
         NEW k \in Nat, GatesBefore(r, k)
  PROVE  GatesBefore(r, k)'
BY GatesFrame DEF GatesBefore

\* The newest approval depends on the approvals of the run only.
LEMMA LastFrame ==
  ASSUME NEW r \in Calls, approvals'[r] = approvals[r]
  PROVE  Last(r)' = Last(r) /\ (LastPending(r)' <=> LastPending(r))
BY DEF Last, LastPending

\* The rows of a run that nobody touches stay in order.
LEMMA RowsFrame ==
  ASSUME NEW r \in Calls, TypeInv, RowsInOrder(r),
         status'[r] = status[r], version'[r] = version[r], resume'[r] = resume[r],
         steps'[r] = steps[r], approvals'[r] = approvals[r], granted \subseteq granted'
  PROVE  RowsInOrder(r)'
<1>1. GatesRespected(r)'
  BY GatesFrame DEF RowsInOrder, GatesRespected
<1>2. GatesBefore(r, resume[r]) => GatesBefore(r, resume[r])'
  BY GatesBeforeFrame, TypeInvParts DEF RunTypes
<1> QED
  BY <1>1, <1>2, LastFrame DEF RowsInOrder

\* A decision stays the newest while no approval is added.
LEMMA DecidedFrame ==
  ASSUME NEW r \in Calls, NEW q \in Requests, loc'[q] = loc[q],
         approvals'[r] = approvals[r], granted \subseteq granted', DecidedLast(q, r)
  PROVE  DecidedLast(q, r)'
BY LastFrame DEF DecidedLast

\* A driver that does not move, on rows nobody touches, stays in order.
LEMMA DriverFrame ==
  ASSUME NEW r \in Calls, TypeInv, NEW q \in Requests, DriverInOrder(q, r),
         pc'[q] = pc[q], loc'[q] = loc[q],
         status'[r] = status[r], version'[r] = version[r], resume'[r] = resume[r],
         steps'[r] = steps[r], approvals'[r] = approvals[r], granted \subseteq granted'
  PROVE  DriverInOrder(q, r)'
<1>1. loc[q].node \in Nat /\ loc[q].node + 1 \in Nat
  BY TypeInvParts DEF RequestTypes, Local
<1>2. /\ GatesBefore(r, loc[q].node) => GatesBefore(r, loc[q].node)'
      /\ GatesBefore(r, loc[q].node + 1) => GatesBefore(r, loc[q].node + 1)'
  BY <1>1, GatesBeforeFrame
<1>3. DecidedLast(q, r) => DecidedLast(q, r)'
  BY DecidedFrame
<1> QED
  BY <1>2, <1>3, LastFrame DEF DriverInOrder

\* A step leaves a run alone when its rows stay and no request takes it up.
LEMMA RunFrame ==
  ASSUME NEW r \in Calls, TypeInv, InHand(r),
         status'[r] = status[r], version'[r] = version[r], resume'[r] = resume[r],
         steps'[r] = steps[r], approvals'[r] = approvals[r], granted \subseteq granted',
         \A q \in Requests : loc'[q].run = r /\ pc'[q] \in Active =>
            pc'[q] = pc[q] /\ loc'[q] = loc[q]
  PROVE  InHand(r)'
<1>1. \A q \in Requests :
        /\ Drives(q, r)' => Drives(q, r) /\ pc'[q] = pc[q] /\ loc'[q] = loc[q]
        /\ Reads(q, r)' => Reads(q, r) /\ pc'[q] = pc[q] /\ loc'[q] = loc[q]
  BY DEF Drives, Reads, Active
<1>2. RowsInOrder(r)'
  BY RowsFrame DEF InHand
<1>3. OneDriver(r)'
  BY <1>1 DEF InHand, OneDriver
<1>4. ASSUME NEW q \in Requests, Drives(q, r)' PROVE DriverInOrder(q, r)'
  BY <1>1, <1>4, DriverFrame DEF InHand
<1>5. ASSUME NEW q \in Requests, Reads(q, r)' PROVE DecidedLast(q, r)'
  BY <1>1, <1>5, DecidedFrame DEF InHand
<1> QED
  BY <1>2, <1>3, <1>4, <1>5 DEF InHand

\* A step moves one request.
LEMMA OneMoves ==
  ASSUME TypeInv, NEW p \in Requests, NEW w, pc' = [pc EXCEPT ![p] = w],
         NEW l, loc' = [loc EXCEPT ![p] = l]
  PROVE  /\ pc'[p] = w /\ loc'[p] = l
         /\ \A q \in Requests \ {p} : pc'[q] = pc[q] /\ loc'[q] = loc[q]
BY TypeInvParts DEF RequestTypes

\* What InHand says of the driver of a run.
LEMMA DriverFacts ==
  ASSUME NEW r \in Calls, InHand(r), NEW p \in Requests, Drives(p, r)
  PROVE  /\ RowsInOrder(r)
         /\ DriverInOrder(p, r)
         /\ \A q \in Requests \ {p} : ~ Drives(q, r)
         /\ pc[p] # "pauseRun" => \A q \in Requests : ~ Reads(q, r)
BY DEF InHand, OneDriver

\* The driver of a run takes a step; it stays the only one.
LEMMA DriverMoves ==
  ASSUME NEW r \in Calls, TypeInv, InHand(r), NEW p \in Requests, Drives(p, r),
         pc[p] # "pauseRun",
         \A q \in Requests \ {p} : pc'[q] = pc[q] /\ loc'[q] = loc[q],
         pc'[p] # "readRun",
         RowsInOrder(r)', Drives(p, r)' => DriverInOrder(p, r)'
  PROVE  InHand(r)'
<1>1. \A q \in Requests \ {p} : ~ Drives(q, r)' /\ ~ Reads(q, r)'
  BY DriverFacts DEF Drives, Reads
<1>2. ~ Reads(p, r)'
  BY DEF Reads
<1> QED
  BY <1>1, <1>2 DEF InHand, OneDriver

\* A driver that only reads.
LEMMA DriverReads ==
  ASSUME NEW r \in Calls, TypeInv, InHand(r), NEW p \in Requests, Drives(p, r),
         pc[p] # "pauseRun", UNCHANGED <<rows, history>>,
         NEW w, w # "readRun", pc' = [pc EXCEPT ![p] = w],
         NEW l, loc' = [loc EXCEPT ![p] = l],
         w \in StartPC \cup OnNode => DriverInOrder(p, r)'
  PROVE  InHand(r)'
<1>1. RowsInOrder(r)'
  BY DriverFacts, RowsFrame DEF rows, history
<1>2. Drives(p, r)' => w \in StartPC \cup OnNode
  BY ZenonT(30), OneMoves DEF Drives
<1> QED
  BY <1>1, <1>2, OneMoves, DriverMoves

\* A request at a point of the walk drives its run.
LEMMA DrivesIn ==
  ASSUME NEW p \in Requests, NEW r, loc[p].run = r, pc[p] \in StartPC \cup OnNode
  PROVE  Drives(p, r)
BY DEF Drives

\* Before the insert a run has nothing that could be out of order.
LEMMA NewRun ==
  ASSUME TypeInv, NEW p \in Requests, pc[p] \in {"automation", "latest", "insert"}
  PROVE  /\ p \in Calls /\ loc[p].run = p
         /\ status[p] = "none" /\ steps[p] = << >> /\ approvals[p] = << >>
         /\ ~ LastPending(p)
<1>1. p \in Calls
  BY TypeInvParts, PCs DEF Placed, StartPC, Requests
<1> QED
  BY <1>1, TypeInvParts DEF Placed, LastPending

\* ReadAutomation keeps its run in hand.
LEMMA ReadAutomationInHand ==
  ASSUME NEW r \in Calls, TypeInv, InHand(r), NEW p \in Requests, loc[p].run = r,
         ReadAutomation(p)
  PROVE  InHand(r)'
<1> DEFINE w == IF automation THEN "latest" ELSE Returned(p)
<1>1. /\ pc[p] = "automation" /\ pc' = [pc EXCEPT ![p] = w]
      /\ loc' = loc /\ UNCHANGED <<rows, history>>
  BY DEF ReadAutomation, Goto
<1>2. Drives(p, r) /\ w \in {"latest", "done", "idle"}
  BY <1>1 DEF Drives, StartPC, Returned
<1>3. r = p /\ status[r] = "none" /\ ~ LastPending(r)
  BY <1>1, NewRun
<1>4. pc'[p] = w /\ status'[r] = "none" /\ ~ LastPending(r)'
  BY <1>1, <1>3, LastFrame, TypeInvParts DEF rows, RequestTypes
<1>5. w \in StartPC \cup OnNode => DriverInOrder(p, r)'
  BY <1>2, <1>4, PCs DEF DriverInOrder, StartPC, WalkPC, ResumePC
<1> HIDE DEF w
<1> QED
  BY <1>1, <1>2, <1>5, DriverReads, LocStays, TypeInvParts

\* ReadLatestVersion keeps its run in hand.
LEMMA ReadLatestVersionInHand ==
  ASSUME NEW r \in Calls, TypeInv, InHand(r), NEW p \in Requests, loc[p].run = r,
         ReadLatestVersion(p)
  PROVE  InHand(r)'
<1>1. /\ pc[p] = "latest" /\ UNCHANGED <<rows, history>>
  BY DEF ReadLatestVersion
<1>2. PICK w, l : /\ w \in {"insert", Returned(p)}
                  /\ pc' = [pc EXCEPT ![p] = w]
                  /\ loc' = [loc EXCEPT ![p] = l]
  BY LocStays, TypeInvParts DEF ReadLatestVersion, Goto
<1>3. Drives(p, r) /\ w \in {"insert", "done", "idle"}
  BY <1>1, <1>2 DEF Drives, StartPC, Returned
<1>4. r = p /\ status[r] = "none" /\ ~ LastPending(r)
  BY <1>1, NewRun
<1>5. pc'[p] = w /\ status'[r] = "none" /\ ~ LastPending(r)'
  BY <1>1, <1>2, <1>4, LastFrame, OneMoves DEF rows
<1>6. w \in StartPC \cup OnNode => DriverInOrder(p, r)'
  BY <1>3, <1>5, PCs DEF DriverInOrder, StartPC, WalkPC, ResumePC
<1> QED
  BY <1>1, <1>2, <1>3, <1>6, DriverReads

\* LoadVersion keeps its run in hand.
LEMMA LoadVersionInHand ==
  ASSUME NEW r \in Calls, TypeInv, InHand(r), NEW p \in Requests, loc[p].run = r,
         LoadVersion(p)
  PROVE  InHand(r)'
<1>1. PICK w \in {"step", "failRun"} :
        /\ pc[p] = "load" /\ pc' = [pc EXCEPT ![p] = w]
        /\ loc' = loc /\ UNCHANGED <<rows, history>>
  BY DEF LoadVersion, Goto
<1>2. Drives(p, r)
  BY <1>1, PCs DEF Drives
<1>3. pc'[p] = w /\ loc'[p] = loc[p] /\ loc[p].node \in Nat
  BY <1>1, TypeInvParts DEF RequestTypes, Local
<1>4. /\ status[r] = "running" /\ GatesBefore(r, loc[p].node)
      /\ Len(steps[r]) = loc[p].node - 1 /\ ~ LastPending(r)
  BY <1>1, <1>2, DriverFacts DEF DriverInOrder, WalkPC
<1>5. GatesBefore(r, loc[p].node)' /\ ~ LastPending(r)'
  BY <1>1, <1>3, <1>4, GatesBeforeFrame, LastFrame DEF rows, history
<1>6. DriverInOrder(p, r)'
  BY <1>1, <1>3, <1>4, <1>5 DEF DriverInOrder, WalkPC, ResumePC, rows
<1> QED
  BY <1>1, <1>2, <1>6, DriverReads, LocStays, TypeInvParts

\* InsertExecution keeps its run in hand.
LEMMA InsertExecutionInHand ==
  ASSUME NEW r \in Calls, TypeInv, InHand(r), NEW p \in Requests, loc[p].run = r,
         InsertExecution(p)
  PROVE  InHand(r)'
<1>1. pc[p] = "insert" /\ loc' = loc /\ UNCHANGED history
  BY DEF InsertExecution
<1>2. /\ Drives(p, r) /\ r = p
      /\ status[r] = "none" /\ steps[r] = << >> /\ approvals[r] = << >> /\ ~ LastPending(r)
  BY <1>1, NewRun DEF Drives, StartPC
<1>3. CASE pc' = [pc EXCEPT ![p] = Returned(p)] /\ UNCHANGED rows
  <2>1. Returned(p) \notin StartPC \cup OnNode /\ Returned(p) # "readRun"
    BY PCs DEF Returned, StartPC
  <2> QED
    BY <1>1, <1>2, <1>3, <2>1, DriverReads, LocStays, TypeInvParts
<1>4. CASE /\ pc' = [pc EXCEPT ![p] = "markRunning"]
           /\ status' = [status EXCEPT ![p] = "queued"]
           /\ UNCHANGED <<automation, versions, resume, steps, approvals>>
  <2>1. status'[r] = "queued" /\ steps'[r] = << >> /\ approvals'[r] = << >>
    BY <1>2, <1>4, TypeInvParts DEF RunTypes
  <2>2. /\ pc'[p] = "markRunning"
        /\ \A q \in Requests \ {p} : pc'[q] = pc[q] /\ loc'[q] = loc[q]
    BY <1>1, <1>4, TypeInvParts DEF RequestTypes
  <2>3. RowsInOrder(r)'
    BY <2>1 DEF RowsInOrder, GatesRespected, Last
  <2>4. DriverInOrder(p, r)'
    BY <2>1, <2>2 DEF DriverInOrder, LastPending, WalkPC, ResumePC
  <2> QED
    BY <1>1, <1>2, <2>2, <2>3, <2>4, DriverMoves
<1> QED
  BY <1>3, <1>4 DEF InsertExecution, Goto, SetStatus

\* The rows stay in order when only the status changes, and not to "waiting".
LEMMA RowsNotWaiting ==
  ASSUME NEW r \in Calls, RowsInOrder(r), status'[r] # "waiting",
         version'[r] = version[r], steps'[r] = steps[r], approvals'[r] = approvals[r],
         granted \subseteq granted'
  PROVE  RowsInOrder(r)'
<1>1. GatesRespected(r)'
  BY GatesFrame DEF RowsInOrder, GatesRespected
<1> QED
  BY <1>1, LastFrame DEF RowsInOrder

\* MarkRunning keeps its run in hand.
LEMMA MarkRunningInHand ==
  ASSUME NEW r \in Calls, TypeInv, InHand(r), NEW p \in Requests, loc[p].run = r,
         MarkRunning(p)
  PROVE  InHand(r)'
<1>1. /\ pc[p] = "markRunning" /\ loc' = loc
      /\ pc' = [pc EXCEPT ![p] = "load"]
      /\ status' = [status EXCEPT ![loc[p].run] = "running"]
      /\ UNCHANGED <<version, resume, steps, approvals, granted>>
  <2>1. pc[p] = "markRunning" => loc[p].run = p
    BY TypeInvParts, PCs DEF Placed, StartPC, Requests
  <2> QED
    BY <2>1 DEF MarkRunning, Goto, SetStatus, history
<1>2. Drives(p, r) /\ loc[p].node = 1
  BY <1>1, TypeInvParts, PCs DEF Drives, StartPC, Placed, Requests
<1>3. steps[r] = << >> /\ ~ LastPending(r) /\ RowsInOrder(r)
  BY <1>1, <1>2, DriverFacts DEF DriverInOrder
<1>4. /\ pc'[p] = "load" /\ loc'[p].node = 1 /\ status'[r] = "running"
      /\ \A q \in Requests \ {p} : pc'[q] = pc[q] /\ loc'[q] = loc[q]
  BY <1>1, <1>2, TypeInvParts DEF RequestTypes, RunTypes
<1>5. DriverInOrder(p, r)'
  BY <1>1, <1>3, <1>4, LastFrame DEF DriverInOrder, WalkPC, ResumePC, GatesBefore
<1> QED
  BY <1>1, <1>2, <1>3, <1>4, <1>5, DriverMoves, RowsNotWaiting

\* The driver settles the run and lets go of it.
LEMMA DriverLeaves ==
  ASSUME NEW r \in Calls, TypeInv, InHand(r), NEW p \in Requests, loc[p].run = r,
         pc[p] \in OnNode \ {"pauseRun"},
         pc' = [pc EXCEPT ![p] = Returned(p)], loc' = loc,
         NEW s \in Settled, status' = [status EXCEPT ![r] = s],
         UNCHANGED <<version, steps, approvals, history>>
  PROVE  InHand(r)'
<1>1. Drives(p, r)
  BY DEF Drives
<1>2. /\ pc'[p] \in {"idle", "done"} /\ status'[r] = s /\ s # "waiting"
      /\ \A q \in Requests \ {p} : pc'[q] = pc[q] /\ loc'[q] = loc[q]
  BY TypeInvParts DEF RequestTypes, RunTypes, Returned, Settled
<1>3. RowsInOrder(r)'
  BY <1>1, <1>2, DriverFacts, RowsNotWaiting DEF history
<1>4. ~ Drives(p, r)'
  BY <1>2, PCs DEF Drives, StartPC
<1> QED
  BY <1>1, <1>2, <1>3, <1>4, DriverMoves

\* The three writes that end a run release it in order.
LEMMA SettleInHand ==
  ASSUME NEW r \in Calls, TypeInv, InHand(r), NEW p \in Requests, loc[p].run = r,
         FailRun(p) \/ CompleteRun(p) \/ RejectRun(p)
  PROVE  InHand(r)'
<1>1. pc[p] \in OnNode \ {"pauseRun"}
  BY PCs DEF FailRun, CompleteRun, RejectRun
<1>2. PICK s \in Settled : status' = [status EXCEPT ![r] = s]
  BY DEF FailRun, CompleteRun, RejectRun, SetStatus, Settled
<1>3. /\ pc' = [pc EXCEPT ![p] = Returned(p)] /\ loc' = loc
      /\ UNCHANGED <<version, steps, approvals, history>>
  BY DEF FailRun, CompleteRun, RejectRun, Goto
<1> QED
  BY <1>1, <1>2, <1>3, DriverLeaves

\* Past a granted gate, or a node that is no gate, one more node is covered.
LEMMA GateStep ==
  ASSUME NEW r \in Calls, TypeInv, NEW k \in Nat, GatesBefore(r, k),
         IsGate(r, k) => <<r, k>> \in granted
  PROVE  GatesBefore(r, k + 1)
BY DEF GatesBefore

\* InsertStep keeps its run in hand.
LEMMA InsertStepInHand ==
  ASSUME NEW r \in Calls, TypeInv, InHand(r), NEW p \in Requests, loc[p].run = r,
         InsertStep(p)
  PROVE  InHand(r)'
<1> DEFINE n == loc[p].node
           row == [node |-> n, status |-> "running"]
           l == [loc[p] EXCEPT !.step = Len(steps[r]) + 1]
<1>1. /\ pc[p] = "step" /\ pc' = [pc EXCEPT ![p] = "execute"]
      /\ steps' = [steps EXCEPT ![r] = Append(@, row)]
      /\ UNCHANGED <<status, version, resume, approvals, granted>>
      /\ loc' = [loc EXCEPT ![p] = l]
  BY TypeInvParts DEF InsertStep, Goto, history, RequestTypes
<1>2. Drives(p, r) /\ n \in NodeKey /\ n \in Nat /\ loc[p] \in Local
  BY <1>1, PCs, NodeInHand, TypeInvParts DEF Drives, NodeKey, RequestTypes
<1>3. /\ status[r] = "running" /\ GatesBefore(r, n) /\ Len(steps[r]) = n - 1
      /\ ~ LastPending(r) /\ RowsInOrder(r)
  BY <1>1, <1>2, DriverFacts DEF DriverInOrder, WalkPC
<1>4. row \in Step /\ row.node = n
  BY <1>2 DEF Step
<1>5. /\ Len(steps[r]) \in Nat
      /\ DOMAIN steps'[r] = 1..(Len(steps[r]) + 1)
      /\ DOMAIN steps[r] = 1..Len(steps[r])
      /\ \A i \in DOMAIN steps[r] : steps'[r][i] = steps[r][i]
      /\ steps'[r][Len(steps[r]) + 1] = row
      /\ Len(steps'[r]) = Len(steps[r]) + 1
  BY <1>1, <1>4, TypeInvParts, AppendRow DEF RunTypes
<1>6. /\ pc'[p] = "execute" /\ loc'[p] = l
      /\ \A q \in Requests \ {p} : pc'[q] = pc[q] /\ loc'[q] = loc[q]
  BY <1>1, OneMoves
<1>7. loc'[p].node = n
  BY <1>2, <1>6 DEF Local
<1>8. \A i \in DOMAIN steps'[r] :
        \/ i \in DOMAIN steps[r] /\ steps'[r][i] = steps[r][i]
        \/ i = n /\ steps'[r][i].node = n
  <2>1. Len(steps[r]) + 1 = n /\ DOMAIN steps'[r] = 1..n /\ DOMAIN steps[r] = 1..(n - 1)
    BY <1>2, <1>3, <1>5
  <2>2. \A i \in 1..n : i = n \/ i \in 1..(n - 1)
    BY <1>2
  <2>3. steps'[r][n].node = n
    BY <1>4, <1>5, <2>1
  <2>4. ASSUME NEW i \in DOMAIN steps'[r], i # n
        PROVE  i \in DOMAIN steps[r] /\ steps'[r][i] = steps[r][i]
    BY <1>5, <2>1, <2>2, <2>4
  <2> QED
    BY <2>3, <2>4
<1>9. GatesBefore(r, n)' /\ GatesBefore(r, loc[p].node)'
  BY <1>1, <1>2, <1>3, <1>6, <1>7, GatesBeforeFrame
<1>10. RowsInOrder(r)'
  <2>1. GatesRespected(r)'
    <3>1. \A i \in DOMAIN steps'[r] : \A k \in 1..(steps'[r][i].node - 1) :
            IsGate(r, k) => <<r, k>> \in granted
      BY <1>3, <1>8 DEF RowsInOrder, GatesRespected, GatesBefore
    <3> QED
      BY <1>1, <3>1, GatesFrame DEF GatesRespected
  <2>2. \A i \in DOMAIN steps'[r] : steps'[r][i].node = i
    BY <1>3, <1>8 DEF RowsInOrder
  <2> QED
    BY <1>1, <1>3, <2>1, <2>2, LastFrame DEF RowsInOrder
<1>11. DriverInOrder(p, r)'
  BY <1>1, <1>2, <1>3, <1>5, <1>6, <1>7, <1>9, LastFrame DEF DriverInOrder, WalkPC, ResumePC
<1> QED
  BY <1>1, <1>2, <1>6, <1>10, <1>11, DriverMoves

\* A step row changes its status: the order of the rows is about their nodes.
LEMMA RowsMarked ==
  ASSUME NEW r \in Calls, TypeInv, RowsInOrder(r), NEW i \in DOMAIN steps[r],
         NEW s \in {"running", "waiting", "completed", "failed"},
         steps' = [steps EXCEPT ![r][i].status = s],
         UNCHANGED <<status, version, resume, approvals, granted>>
  PROVE  RowsInOrder(r)' /\ Len(steps'[r]) = Len(steps[r])
<1>1. /\ DOMAIN steps'[r] = DOMAIN steps[r]
      /\ Len(steps'[r]) = Len(steps[r])
      /\ \A j \in DOMAIN steps[r] : steps'[r][j].node = steps[r][j].node
  BY StepRow, TypeInvParts
<1>2. GatesRespected(r)'
  BY <1>1, GatesFrame DEF RowsInOrder, GatesRespected
<1>3. status[r] = "waiting" => GatesBefore(r, resume[r])'
  BY GatesBeforeFrame, TypeInvParts DEF RunTypes, RowsInOrder
<1> QED
  BY <1>1, <1>2, <1>3, LastFrame DEF RowsInOrder

\* The four outcomes of a node keep the run in hand.
LEMMA NodeOutcomeInHand ==
  ASSUME NEW r \in Calls, TypeInv, InHand(r), NEW p \in Requests, loc[p].run = r,
         NodeProceeds(p) \/ NodeFinishes(p) \/ NodeFails(p) \/ NodeWaits(p)
  PROVE  InHand(r)'
<1>1. PICK s \in {"running", "waiting", "completed", "failed"} : StepOutcome(p, s)
  BY DEF NodeProceeds, NodeFinishes, NodeFails, NodeWaits
<1>2. /\ pc[p] = "execute"
      /\ steps' = [steps EXCEPT ![r][loc[p].step].status = s]
      /\ UNCHANGED <<status, version, resume, approvals, granted>>
  BY <1>1 DEF StepOutcome, SetStep, history
<1>3. /\ Drives(p, r) /\ loc[p].node \in Nat /\ loc[p] \in Local
      /\ loc[p].step \in DOMAIN steps[r]
  BY <1>2, PCs, TypeInvParts DEF Drives, RequestTypes, Local, Placed
<1>4. /\ status[r] = "running" /\ GatesBefore(r, loc[p].node)
      /\ Len(steps[r]) = loc[p].node /\ ~ LastPending(r) /\ RowsInOrder(r)
  BY <1>2, <1>3, DriverFacts DEF DriverInOrder, WalkPC
<1>5. RowsInOrder(r)' /\ Len(steps'[r]) = loc[p].node /\ ~ LastPending(r)'
  BY <1>2, <1>3, <1>4, RowsMarked, LastFrame
<1>6. ASSUME NEW w \in {"step", "completeRun", "failRun", "requestApproval"},
             NEW l \in Local, pc' = [pc EXCEPT ![p] = w], loc' = [loc EXCEPT ![p] = l],
             GatesBefore(r, l.node),
             w = "step" => l.node = loc[p].node + 1,
             w = "requestApproval" => l.node = loc[p].node
      PROVE  InHand(r)'
  <2>1. /\ pc'[p] = w /\ loc'[p] = l
        /\ \A q \in Requests \ {p} : pc'[q] = pc[q] /\ loc'[q] = loc[q]
    BY <1>6, OneMoves
  <2>2. l.node \in Nat
    BY DEF Local
  <2>3. GatesBefore(r, loc[p].node)'
    BY <1>2, <1>6, <2>1, <2>2, GatesBeforeFrame
  <2>4. DriverInOrder(p, r)'
    BY <1>2, <1>3, <1>4, <1>5, <1>6, <2>1, <2>3 DEF DriverInOrder, WalkPC, ResumePC
  <2> QED
    BY <1>2, <1>3, <1>5, <2>1, <2>4, DriverMoves
<1>7. CASE loc' = loc
  <2>1. loc' # [loc EXCEPT ![p].node = @ + 1]
    BY <1>3, <1>7, TypeInvParts DEF RequestTypes, Local
  <2>2. PICK w \in {"completeRun", "failRun", "requestApproval"} : pc' = [pc EXCEPT ![p] = w]
    BY <2>1 DEF NodeProceeds, NodeFinishes, NodeFails, NodeWaits, Goto
  <2> QED
    BY <1>3, <1>4, <1>6, <1>7, <2>2, LocStays, TypeInvParts
<1>8. CASE /\ NodeOf(p) # "approval"
           /\ pc' = [pc EXCEPT ![p] = "step"]
           /\ loc' = [loc EXCEPT ![p].node = @ + 1]
  <2> DEFINE l == [loc[p] EXCEPT !.node = @ + 1]
  <2>1. loc' = [loc EXCEPT ![p] = l] /\ l \in Local /\ l.node = loc[p].node + 1
    BY <1>3, <1>8 DEF Local
  <2>2. GatesBefore(r, loc[p].node + 1)
    BY <1>3, <1>4, <1>8, GateStep DEF IsGate, NodeOf
  <2> QED
    BY <1>6, <1>8, <2>1, <2>2
<1> QED
  BY <1>7, <1>8 DEF NodeProceeds, NodeFinishes, NodeFails, NodeWaits, Goto

\* The approvals of a run are a sequence.
LEMMA ApprovalsIndexed ==
  ASSUME NEW r \in Calls, TypeInv
  PROVE  /\ approvals[r] \in Seq(Approval)
         /\ Last(r) \in Nat
         /\ DOMAIN approvals[r] = 1..Last(r)
         /\ approvals[r] # << >> <=> Last(r) \in DOMAIN approvals[r]
<1>1. approvals[r] \in Seq(Approval)
  BY TypeInvParts DEF RunTypes
<1> QED
  BY <1>1, SeqElements DEF Last

\* RequestApproval keeps its run in hand.
LEMMA RequestApprovalInHand ==
  ASSUME NEW r \in Calls, TypeInv, InHand(r), NEW p \in Requests, loc[p].run = r,
         RequestApproval(p)
  PROVE  InHand(r)'
<1> DEFINE n == loc[p].node
           a == [node |-> n, status |-> "pending"]
<1>1. /\ pc[p] = "requestApproval" /\ pc' = [pc EXCEPT ![p] = "pauseRun"]
      /\ approvals' = [approvals EXCEPT ![r] = Append(@, a)]
      /\ UNCHANGED <<status, version, resume, steps, granted, loc>>
  BY DEF RequestApproval, Goto, history
<1>2. Drives(p, r) /\ n \in NodeKey /\ n \in Nat
  BY <1>1, PCs, NodeInHand DEF Drives, NodeKey
<1>3. /\ status[r] = "running" /\ GatesBefore(r, n) /\ Len(steps[r]) = n
      /\ ~ LastPending(r) /\ RowsInOrder(r)
  BY <1>1, <1>2, DriverFacts DEF DriverInOrder, WalkPC
<1>4. a \in Approval /\ a.node = n
  BY <1>2 DEF Approval
<1>5. /\ Last(r) \in Nat
      /\ DOMAIN approvals[r] = 1..Last(r)
      /\ \A i \in 1..Last(r) : approvals'[r][i] = approvals[r][i]
      /\ approvals'[r][Last(r) + 1].node = n
      /\ Last(r)' = Last(r) + 1
      /\ approvals'[r] # << >>
  <2>1. /\ Len(approvals[r]) \in Nat
        /\ DOMAIN approvals[r] = 1..Len(approvals[r])
        /\ \A i \in DOMAIN approvals[r] : approvals'[r][i] = approvals[r][i]
        /\ approvals'[r][Len(approvals[r]) + 1] = a
        /\ Len(approvals'[r]) = Len(approvals[r]) + 1
    BY <1>1, <1>4, TypeInvParts, AppendRow DEF RunTypes
  <2>2. approvals'[r] # << >>
    BY <2>1
  <2> QED
    BY <1>4, <2>1, <2>2 DEF Last
<1>6. /\ pc'[p] = "pauseRun" /\ loc'[p] = loc[p]
      /\ \A q \in Requests \ {p} : pc'[q] = pc[q] /\ loc'[q] = loc[q]
  BY <1>1, TypeInvParts DEF RequestTypes
<1>7. RowsInOrder(r)'
  <2>1. ASSUME NEW i \in 1..Last(r) PROVE approvals'[r][i].status # "pending"
    <3>1. CASE i = Last(r)
      BY <1>3, <1>5, <2>1, <3>1 DEF LastPending
    <3>2. CASE i \in 1..(Last(r) - 1)
      BY <1>3, <1>5, <2>1, <3>2 DEF RowsInOrder
    <3> QED
      BY <1>5, <2>1, <3>1, <3>2
  <2>2. \A i \in 1..(Last(r)' - 1) : approvals'[r][i].status # "pending"
    BY <1>5, <2>1
  <2>3. GatesRespected(r)'
    BY <1>1, <1>3, GatesFrame DEF RowsInOrder, GatesRespected
  <2> QED
    BY <1>1, <1>3, <2>2, <2>3 DEF RowsInOrder
<1>8. GatesBefore(r, loc[p].node)'
  BY <1>1, <1>2, <1>3, GatesBeforeFrame
<1>9. DriverInOrder(p, r)'
  BY <1>1, <1>3, <1>5, <1>6, <1>8 DEF DriverInOrder, WalkPC, ResumePC
<1> QED
  BY <1>1, <1>2, <1>6, <1>7, <1>9, DriverMoves

\* The driver lets go of the run it has paused; a reviewer may have decided
\* already, and is then the only one to take it up.
LEMMA PauseRunInHand ==
  ASSUME NEW r \in Calls, TypeInv, InHand(r), NEW p \in Requests, loc[p].run = r,
         PauseRun(p)
  PROVE  InHand(r)'
<1>1. /\ pc[p] = "pauseRun" /\ pc' = [pc EXCEPT ![p] = Returned(p)]
      /\ status' = [status EXCEPT ![r] = "waiting"]
      /\ resume' = [resume EXCEPT ![r] = loc[p].node]
      /\ UNCHANGED <<version, steps, approvals, granted, loc>>
  BY DEF PauseRun, Goto, SetStatus, history
<1>2. Drives(p, r) /\ loc[p].node \in NodeKey /\ loc[p].node \in Nat
  BY <1>1, PCs, NodeInHand DEF Drives, NodeKey
<1>3. /\ GatesBefore(r, loc[p].node) /\ Len(steps[r]) = loc[p].node
      /\ approvals[r] # << >> /\ approvals[r][Last(r)].node = loc[p].node
      /\ RowsInOrder(r) /\ \A q \in Requests \ {p} : ~ Drives(q, r)
  BY <1>1, <1>2, DriverFacts DEF DriverInOrder, WalkPC
<1>4. /\ pc'[p] \in {"idle", "done"} /\ status'[r] = "waiting" /\ resume'[r] = loc[p].node
      /\ \A q \in Requests \ {p} : pc'[q] = pc[q] /\ loc'[q] = loc[q]
  BY <1>1, TypeInvParts DEF RequestTypes, RunTypes, Returned
<1>5. RowsInOrder(r)'
  <2>1. GatesRespected(r)'
    BY <1>1, <1>3, GatesFrame DEF RowsInOrder, GatesRespected
  <2>2. GatesBefore(r, resume[r])'
    BY <1>1, <1>2, <1>3, <1>4, GatesBeforeFrame
  <2> QED
    BY <1>1, <1>2, <1>3, <1>4, <2>1, <2>2, LastFrame DEF RowsInOrder, NodeKey
<1>6. \A q \in Requests : /\ ~ Drives(q, r)'
                          /\ Reads(q, r)' => Reads(q, r) /\ loc'[q] = loc[q]
  BY <1>3, <1>4, PCs DEF Drives, Reads, StartPC
<1>7. OneDriver(r)'
  BY <1>6 DEF InHand, OneDriver
<1>8. ASSUME NEW q \in Requests, Reads(q, r)' PROVE DecidedLast(q, r)'
  BY <1>1, <1>6, <1>8, DecidedFrame DEF InHand
<1> QED
  BY <1>5, <1>6, <1>7, <1>8 DEF InHand

\* The only undecided approval is the newest, so who decides an undecided one
\* decides that, and nobody else is about to read the run.
LEMMA WriteDecisionInHand ==
  ASSUME NEW r \in Calls, TypeInv, InHand(r), NEW p \in Requests, loc[p].run = r,
         WriteDecision(p), r \notin redecided'
  PROVE  InHand(r)'
<1> DEFINE i == loc[p].approval
           d == loc[p].decision
<1>1. /\ pc[p] = "decide" /\ pc' = [pc EXCEPT ![p] = "readRun"] /\ loc' = loc
      /\ approvals' = [approvals EXCEPT ![r][i].status = d]
      /\ granted \subseteq granted'
      /\ d = "approved" => <<r, approvals[r][i].node>> \in granted'
      /\ approvals[r][i].status = "pending"
      /\ UNCHANGED <<status, version, resume, steps>>
  BY DEF WriteDecision, Goto
<1>2. i \in DOMAIN approvals[r] /\ p \in Reviewers /\ d \in Decision
  BY <1>1, ReviewersDecide, TypeInvParts DEF DecidePC, RequestTypes, Local
<1>3. /\ DOMAIN approvals'[r] = DOMAIN approvals[r]
      /\ Len(approvals'[r]) = Len(approvals[r])
      /\ \A j \in DOMAIN approvals[r] : approvals'[r][j].node = approvals[r][j].node
      /\ \A j \in DOMAIN approvals[r] \ {i} : approvals'[r][j] = approvals[r][j]
      /\ approvals'[r][i].status = d
  <2>1. RunTypes
    BY TypeInvParts
  <2>2. approvals' = [approvals EXCEPT ![r][i].status = d]
    BY <1>1
  <2>3. r \in Calls /\ i \in DOMAIN approvals[r] /\ d \in Decision
    BY <1>2
  <2> HIDE DEF i, d
  <2> QED
    BY ONLY ZenonT(30), <2>1, <2>2, <2>3, ApprovalRow
<1>4. RowsInOrder(r) /\ i = Last(r) /\ LastPending(r)
  <2>1. RowsInOrder(r)
    BY DEF InHand
  <2>2. i \notin 1..(Last(r) - 1)
    BY <1>1, <2>1 DEF RowsInOrder
  <2>3. i = Last(r) /\ approvals[r] # << >>
    BY <1>2, <2>2, ApprovalsIndexed
  <2> QED
    BY <1>1, <2>1, <2>3 DEF LastPending
<1>5. Last(r)' = Last(r) /\ approvals'[r] # << >> /\ ~ LastPending(r)'
  BY <1>2, <1>3, <1>4, ApprovalsIndexed DEF Last, LastPending, Decision
<1>6. RowsInOrder(r)'
  <2>1. GatesRespected(r)'
    BY <1>1, <1>4, GatesFrame DEF RowsInOrder, GatesRespected
  <2>2. status[r] = "waiting" => GatesBefore(r, resume[r])'
    BY <1>1, <1>4, GatesBeforeFrame, TypeInvParts DEF RunTypes, RowsInOrder
  <2>3. \A j \in 1..(Last(r) - 1) : approvals'[r][j].status # "pending"
    BY <1>3, <1>4, ApprovalsIndexed DEF RowsInOrder
  <2>4. approvals'[r][Last(r)].node = approvals[r][Last(r)].node
    BY <1>2, <1>3, <1>4
  <2> QED
    BY <1>1, <1>4, <1>5, <2>1, <2>2, <2>3, <2>4 DEF RowsInOrder
<1>7. /\ pc'[p] = "readRun" /\ loc'[p] = loc[p]
      /\ \A q \in Requests \ {p} : pc'[q] = pc[q] /\ loc'[q] = loc[q]
  BY <1>1, TypeInvParts DEF RequestTypes
<1>8. DecidedLast(p, r)'
  BY <1>1, <1>2, <1>3, <1>4, <1>5, <1>7 DEF DecidedLast
<1>9. \A q \in Requests : ~ Reads(q, r)
  BY <1>4 DEF InHand, DecidedLast
<1>10. \A q \in Requests : Drives(q, r)' => Drives(q, r) /\ pc[q] = "pauseRun" /\ q # p
  BY <1>4, <1>7, PCs DEF InHand, DriverInOrder, Drives, StartPC
<1>11. \A q \in Requests : Reads(q, r)' => q = p
  BY <1>7, <1>9 DEF Reads
<1>12. OneDriver(r)'
  BY <1>7, <1>10, <1>11 DEF InHand, OneDriver
<1>13. ASSUME NEW q \in Requests, Drives(q, r)' PROVE DriverInOrder(q, r)'
  <2>1. /\ Drives(q, r) /\ pc[q] = "pauseRun" /\ pc'[q] = "pauseRun" /\ loc'[q] = loc[q]
        /\ loc[q].node \in Nat
    BY <1>7, <1>10, <1>13, TypeInvParts DEF RequestTypes, Local
  <2>2. /\ status[r] = "running" /\ GatesBefore(r, loc[q].node) /\ Len(steps[r]) = loc[q].node
        /\ approvals[r][Last(r)].node = loc[q].node
    BY <2>1, DriverFacts DEF DriverInOrder, WalkPC
  <2>3. GatesBefore(r, loc[q].node)'
    BY <1>1, <2>1, <2>2, GatesBeforeFrame
  <2>4. approvals'[r][Last(r)].node = loc[q].node
    BY <1>2, <1>3, <1>4, <2>2
  <2> QED
    BY <1>1, <1>5, <2>1, <2>2, <2>3, <2>4 DEF DriverInOrder, WalkPC, ResumePC
<1> QED
  BY <1>6, <1>8, <1>11, <1>12, <1>13 DEF InHand

\* Of a waiting run nobody is the driver but the request that resumes it, and
\* the reader becomes that.
LEMMA ReadPausedRunInHand ==
  ASSUME NEW r \in Calls, TypeInv, InHand(r), NEW p \in Requests, loc[p].run = r,
         ReadPausedRun(p)
  PROVE  InHand(r)'
<1>1. pc[p] = "readRun" /\ UNCHANGED <<rows, history>>
  BY DEF ReadPausedRun
<1>2. Reads(p, r) /\ DecidedLast(p, r) /\ RowsInOrder(r) /\ p \in Reviewers
  BY <1>1, ReviewersDecide DEF Reads, InHand, DecidePC
<1>3. CASE pc' = [pc EXCEPT ![p] = Returned(p)] /\ loc' = loc
  <2>1. \A q \in Requests : pc'[q] \in Active => pc'[q] = pc[q] /\ loc'[q] = loc[q]
    BY <1>2, <1>3, TypeInvParts, PCs DEF RequestTypes, Active, StartPC, Returned
  <2> QED
    BY <1>1, <2>1, RunFrame DEF rows, history
<1>4. CASE /\ status[r] = "waiting"
           /\ pc' = [pc EXCEPT ![p] = "findStep"]
           /\ loc' = [loc EXCEPT ![p].node = resume[r]]
  <2> DEFINE l == [loc[p] EXCEPT !.node = resume[r]]
  <2>1. /\ loc' = [loc EXCEPT ![p] = l]
        /\ l.run = r /\ l.node = resume[r]
        /\ l.approval = loc[p].approval /\ l.decision = loc[p].decision
    BY <1>4, TypeInvParts DEF RequestTypes, Local
  <2> HIDE DEF l
  <2>2. /\ pc'[p] = "findStep" /\ loc'[p] = l
        /\ \A q \in Requests \ {p} : pc'[q] = pc[q] /\ loc'[q] = loc[q]
    BY ZenonT(30), <1>4, <2>1, OneMoves
  <2>3. \A q \in Requests : ~ Drives(q, r)
    BY <1>2, <1>4 DEF InHand, OneDriver, DriverInOrder, WalkPC
  <2>4. \A q \in Requests \ {p} : ~ Drives(q, r)' /\ ~ Reads(q, r)'
    BY <1>2, <2>2, <2>3 DEF Drives, Reads, InHand, OneDriver
  <2>5. ~ Reads(p, r)'
    BY <2>2 DEF Reads
  <2>6. RowsInOrder(r)'
    BY <1>1, <1>2, RowsFrame DEF rows, history
  <2>7. DecidedLast(p, r)' /\ ~ LastPending(r)'
    BY <1>1, <1>2, <2>1, <2>2, LastFrame DEF DecidedLast, rows, history
  <2>8. DriverInOrder(p, r)'
    BY <1>1, <1>4, <2>1, <2>2, <2>7 DEF DriverInOrder, WalkPC, ResumePC, rows
  <2> QED
    BY <2>4, <2>5, <2>6, <2>8 DEF InHand, OneDriver
<1> QED
  BY <1>3, <1>4 DEF ReadPausedRun, Goto

\* What the driver that resumes a run knows, and keeps when it moves on.
LEMMA ResumeFacts ==
  ASSUME NEW r \in Calls, TypeInv, InHand(r), NEW p \in Requests, loc[p].run = r,
         pc[p] \in ResumePC
  PROVE  /\ Drives(p, r) /\ pc[p] # "pauseRun"
         /\ status[r] = "waiting" /\ loc[p].node = resume[r]
         /\ DecidedLast(p, r) /\ RowsInOrder(r)
         /\ loc[p].node \in Nat /\ loc[p].decision \in Decision
<1>1. Drives(p, r)
  BY PCs DEF Drives, ResumePC
<1> QED
  BY <1>1, DriverFacts, TypeInvParts DEF DriverInOrder, ResumePC, RequestTypes, Local

\* Only an approved gate leads to the restart.
LEMMA AfterMarkIs ==
  ASSUME NEW p, loc[p].decision \in Decision
  PROVE  /\ AfterMark(p) \in {"rejectRun", "restartRun"}
         /\ AfterMark(p) = "restartRun" => loc[p].decision = "approved"
BY DEF AfterMark, Decision

\* Finding and marking the gate's step: the driver goes on resuming.
LEMMA ResumeInHand ==
  ASSUME NEW r \in Calls, TypeInv, InHand(r), NEW p \in Requests, loc[p].run = r,
         pc[p] \in ResumePC, NEW w \in ResumePC, pc' = [pc EXCEPT ![p] = w],
         w = "restartRun" => loc[p].decision = "approved",
         NEW l, loc' = [loc EXCEPT ![p] = l],
         l.node = loc[p].node, l.approval = loc[p].approval, l.decision = loc[p].decision,
         UNCHANGED <<status, resume, approvals, granted>>,
         RowsInOrder(r)'
  PROVE  InHand(r)'
<1>1. /\ pc'[p] = w /\ loc'[p] = l
      /\ \A q \in Requests \ {p} : pc'[q] = pc[q] /\ loc'[q] = loc[q]
  BY OneMoves
<1>2. DecidedLast(p, r)' /\ ~ LastPending(r)'
  BY <1>1, ResumeFacts, LastFrame DEF DecidedLast
<1>3. DriverInOrder(p, r)'
  BY <1>1, <1>2, ResumeFacts DEF DriverInOrder, WalkPC, ResumePC
<1>4. w # "readRun"
  BY DEF ResumePC
<1> QED
  BY <1>1, <1>3, <1>4, ResumeFacts, DriverMoves

\* FindWaitingStep keeps its run in hand.
LEMMA FindWaitingStepInHand ==
  ASSUME NEW r \in Calls, TypeInv, InHand(r), NEW p \in Requests, loc[p].run = r,
         FindWaitingStep(p)
  PROVE  InHand(r)'
<1>1. pc[p] = "findStep" /\ pc[p] \in ResumePC /\ UNCHANGED <<rows, history>>
  BY DEF FindWaitingStep, ResumePC
<1>2. RowsInOrder(r)' /\ loc[p].decision \in Decision
  BY <1>1, ResumeFacts, RowsFrame DEF rows, history
<1>3. AfterMark(p) \in ResumePC /\ (AfterMark(p) = "restartRun" => loc[p].decision = "approved")
  BY <1>2, AfterMarkIs DEF ResumePC
<1>4. CASE pc' = [pc EXCEPT ![p] = AfterMark(p)] /\ loc' = loc
  BY <1>1, <1>2, <1>3, <1>4, ResumeInHand, LocStays, TypeInvParts DEF rows, history
<1>5. ASSUME NEW i, pc' = [pc EXCEPT ![p] = "markStep"], loc' = [loc EXCEPT ![p].step = i]
      PROVE  InHand(r)'
  <2> DEFINE l == [loc[p] EXCEPT !.step = i]
  <2>1. /\ loc' = [loc EXCEPT ![p] = l]
        /\ l.node = loc[p].node /\ l.approval = loc[p].approval
        /\ l.decision = loc[p].decision
    BY <1>5, TypeInvParts DEF RequestTypes, Local
  <2> HIDE DEF l
  <2>2. "markStep" \in ResumePC
    BY DEF ResumePC
  <2> QED
    BY <1>1, <1>2, <1>5, <2>1, <2>2, ResumeInHand DEF rows, history
<1> QED
  BY <1>4, <1>5 DEF FindWaitingStep, Goto

\* MarkWaitingStep keeps its run in hand.
LEMMA MarkWaitingStepInHand ==
  ASSUME NEW r \in Calls, TypeInv, InHand(r), NEW p \in Requests, loc[p].run = r,
         MarkWaitingStep(p)
  PROVE  InHand(r)'
<1>1. PICK s \in {"running", "waiting", "completed", "failed"} :
        /\ pc[p] = "markStep" /\ pc[p] \in ResumePC
        /\ pc' = [pc EXCEPT ![p] = AfterMark(p)] /\ loc' = loc
        /\ steps' = [steps EXCEPT ![r][loc[p].step].status = s]
        /\ UNCHANGED <<status, version, resume, approvals, granted>>
  BY DEF MarkWaitingStep, Goto, SetStep, ResumePC, history
<1>2. loc[p].step \in DOMAIN steps[r]
  BY <1>1, TypeInvParts DEF Placed
<1>3. RowsInOrder(r)'
  BY <1>1, <1>2, ResumeFacts, RowsMarked
<1>4. /\ AfterMark(p) \in ResumePC
      /\ AfterMark(p) = "restartRun" => loc[p].decision = "approved"
  BY <1>1, ResumeFacts, AfterMarkIs DEF ResumePC
<1> QED
  BY <1>1, <1>3, <1>4, ResumeInHand, LocStays, TypeInvParts

\* Only an approval restarts the run, and it is the approval of the gate the
\* run is paused at.
LEMMA RestartRunInHand ==
  ASSUME NEW r \in Calls, TypeInv, InHand(r), NEW p \in Requests, loc[p].run = r,
         RestartRun(p)
  PROVE  InHand(r)'
<1>1. /\ pc[p] = "restartRun" /\ pc[p] \in ResumePC
      /\ pc' = [pc EXCEPT ![p] = "lookup"] /\ loc' = loc
      /\ status' = [status EXCEPT ![r] = "running"]
      /\ UNCHANGED <<version, resume, steps, approvals, granted>>
  BY DEF RestartRun, Goto, SetStatus, ResumePC, history
<1>2. loc[p].decision = "approved"
  BY <1>1, ResumeFacts, DriverFacts DEF DriverInOrder
<1>3. /\ pc'[p] = "lookup" /\ loc'[p] = loc[p] /\ status'[r] = "running"
      /\ \A q \in Requests \ {p} : pc'[q] = pc[q] /\ loc'[q] = loc[q]
  BY <1>1, TypeInvParts DEF RequestTypes, RunTypes
<1>4. RowsInOrder(r)'
  BY <1>1, <1>3, ResumeFacts, RowsNotWaiting
<1>5. GatesBefore(r, loc[p].node + 1) /\ Len(steps[r]) = loc[p].node /\ ~ LastPending(r)
  <2>1. /\ <<r, loc[p].node>> \in granted /\ GatesBefore(r, loc[p].node)
        /\ loc[p].node \in Nat /\ Len(steps[r]) = loc[p].node /\ ~ LastPending(r)
    BY ZenonT(30), <1>1, <1>2, ResumeFacts DEF DecidedLast, RowsInOrder
  <2> QED
    BY <2>1, GateStep
<1>6. GatesBefore(r, loc[p].node + 1)'
  <2>1. loc[p].node + 1 \in Nat
    BY <1>1, ResumeFacts
  <2> QED
    BY <1>1, <1>5, <2>1, GatesBeforeFrame
<1>7. DriverInOrder(p, r)'
  BY <1>1, <1>3, <1>5, <1>6, LastFrame DEF DriverInOrder, WalkPC, ResumePC
<1> QED
  BY <1>1, <1>3, <1>4, <1>7, ResumeFacts, DriverMoves

\* LookupSuccessor keeps its run in hand.
LEMMA LookupSuccessorInHand ==
  ASSUME NEW r \in Calls, TypeInv, InHand(r), NEW p \in Requests, loc[p].run = r,
         LookupSuccessor(p)
  PROVE  InHand(r)'
<1>1. pc[p] = "lookup" /\ UNCHANGED <<rows, history>>
  BY DEF LookupSuccessor
<1>2. Drives(p, r) /\ loc[p].node \in Nat /\ loc[p] \in Local
  BY <1>1, PCs, TypeInvParts DEF Drives, RequestTypes, Local
<1>3. /\ status[r] = "running" /\ GatesBefore(r, loc[p].node + 1)
      /\ Len(steps[r]) = loc[p].node /\ ~ LastPending(r)
  BY <1>1, <1>2, DriverFacts DEF DriverInOrder
<1>4. ~ LastPending(r)' /\ status'[r] = "running" /\ steps'[r] = steps[r]
  BY <1>1, <1>3, LastFrame DEF rows
<1>5. CASE loc' = loc
  <2>1. PICK w \in {"failRun", "completeRun"} : pc' = [pc EXCEPT ![p] = w]
    <3>1. loc' # [loc EXCEPT ![p].node = @ + 1]
      BY <1>2, <1>5, TypeInvParts DEF RequestTypes, Local
    <3> QED
      BY <3>1 DEF LookupSuccessor, Goto
  <2>2. pc'[p] = w /\ loc'[p] = loc[p]
    BY <1>5, <2>1, TypeInvParts DEF RequestTypes
  <2>3. GatesBefore(r, loc[p].node)
    BY <1>2, <1>3 DEF GatesBefore
  <2>4. GatesBefore(r, loc[p].node)'
    BY <1>1, <1>2, <1>5, <2>3, GatesBeforeFrame DEF rows, history
  <2>5. DriverInOrder(p, r)'
    BY <1>4, <2>1, <2>2, <2>4 DEF DriverInOrder, WalkPC, ResumePC
  <2> QED
    BY <1>1, <1>2, <1>5, <2>1, <2>5, DriverReads, LocStays, TypeInvParts
<1>6. CASE /\ pc' = [pc EXCEPT ![p] = "load"]
           /\ loc' = [loc EXCEPT ![p].node = @ + 1]
  <2> DEFINE l == [loc[p] EXCEPT !.node = @ + 1]
  <2>1. loc' = [loc EXCEPT ![p] = l] /\ l.node = loc[p].node + 1 /\ l.node \in Nat
    BY <1>2, <1>6 DEF Local
  <2> HIDE DEF l
  <2>2. pc'[p] = "load" /\ loc'[p] = l
    BY <1>6, <2>1, TypeInvParts DEF RequestTypes
  <2>3. GatesBefore(r, loc[p].node)'
    BY <1>1, <1>3, <2>1, <2>2, GatesBeforeFrame DEF rows, history
  <2>4. Len(steps'[r]) = loc'[p].node - 1
    BY <1>2, <1>3, <1>4, <2>1, <2>2
  <2>5. DriverInOrder(p, r)'
    BY <1>4, <2>2, <2>3, <2>4 DEF DriverInOrder, WalkPC, ResumePC
  <2> QED
    BY <1>1, <1>2, <1>6, <2>1, <2>5, DriverReads
<1> QED
  BY <1>5, <1>6 DEF LookupSuccessor, Goto

\* The requests other than p stay where they are, and p with its run.
OnlyMoves(p) ==
  /\ \A q \in Requests \ {p} : pc'[q] = pc[q] /\ loc'[q] = loc[q]
  /\ loc'[p].run = loc[p].run

\* The rows of r stay.
RowsStay(r) ==
  /\ status'[r] = status[r] /\ version'[r] = version[r] /\ resume'[r] = resume[r]
  /\ steps'[r] = steps[r] /\ approvals'[r] = approvals[r]

\* A step on another run leaves this one in hand.
LEMMA OnlyMovesFrame ==
  ASSUME NEW r \in Calls, TypeInv, InHand(r), NEW p \in Requests, OnlyMoves(p), RowsStay(r),
         granted \subseteq granted', loc[p].run # r
  PROVE  InHand(r)'
BY RunFrame DEF OnlyMoves, RowsStay

\* A step of a request moves that request only.
LEMMA ServeMoves ==
  ASSUME TypeInv, NEW p \in Requests, Serve(p)
  PROVE  OnlyMoves(p)
<1>1. pc \in [Requests -> PC] /\ loc \in [Requests -> Local] /\ loc[p] \in Local
  BY TypeInvParts DEF RequestTypes
<1>2. \E w : pc' = [pc EXCEPT ![p] = w]
  <2>1. CASE Start(p)
    BY SMTT(30), <2>1 DEF Start, ReadAutomation, ReadLatestVersion, InsertExecution, MarkRunning, Goto
  <2>2. CASE Decide(p)
    BY <2>2 DEF Decide, WriteDecision, ReadPausedRun, FindWaitingStep, MarkWaitingStep,
       RejectRun, RestartRun, LookupSuccessor, Goto
  <2>3. CASE Walk(p)
    BY <2>3 DEF Walk, LoadVersion, InsertStep, NodeProceeds, NodeFinishes, NodeFails, NodeWaits,
       RequestApproval, PauseRun, FailRun, CompleteRun, Goto
  <2> QED
    BY <2>1, <2>2, <2>3 DEF Serve
<1>3. \/ loc' = loc
      \/ \E v : loc' = [loc EXCEPT ![p].version = v]
      \/ \E v : loc' = [loc EXCEPT ![p].node = v]
      \/ \E v : loc' = [loc EXCEPT ![p].step = v]
  <2>1. CASE Start(p)
    BY SMTT(30), <2>1 DEF Start, ReadAutomation, ReadLatestVersion, InsertExecution, MarkRunning
  <2>2. CASE Decide(p)
    BY <2>2 DEF Decide, WriteDecision, ReadPausedRun, FindWaitingStep, MarkWaitingStep,
       RejectRun, RestartRun, LookupSuccessor
  <2>3. CASE Walk(p)
    BY <2>3 DEF Walk, LoadVersion, InsertStep, NodeProceeds, NodeFinishes, NodeFails, NodeWaits,
       RequestApproval, PauseRun, FailRun, CompleteRun
  <2> QED
    BY <2>1, <2>2, <2>3 DEF Serve
<1> QED
  BY <1>1, <1>2, <1>3 DEF OnlyMoves, Local

\* A step of a request touches the rows of its own run only.
LEMMA ServeRows ==
  ASSUME TypeInv, NEW p \in Requests, Serve(p), NEW r \in Calls, loc[p].run # r
  PROVE  RowsStay(r) /\ granted \subseteq granted'
<1> DEFINE x == loc[p].run
<1>1. /\ RunTypes
      /\ status \in [Calls -> Status] /\ version \in [Calls -> Version]
      /\ resume \in [Calls -> Nat] /\ steps \in [Calls -> Seq(Step)]
      /\ approvals \in [Calls -> Seq(Approval)]
  BY TypeInvParts DEF RunTypes
<1>2. CASE UNCHANGED <<rows, history>>
  BY <1>2 DEF RowsStay, rows, history
<1>3. CASE InsertExecution(p) \/ MarkRunning(p)
  <2>1. p # r
    BY <1>3, TypeInvParts, PCs DEF InsertExecution, MarkRunning, Placed, StartPC, Requests
  <2> QED
    BY <1>1, <1>3, <2>1 DEF InsertExecution, MarkRunning, RowsStay, rows, history, SetStatus
<1>4. CASE PauseRun(p) \/ FailRun(p) \/ CompleteRun(p) \/ RejectRun(p) \/ RestartRun(p)
  BY <1>1, <1>4 DEF PauseRun, FailRun, CompleteRun, RejectRun, RestartRun,
     RowsStay, history, SetStatus
<1>5. CASE InsertStep(p) \/ RequestApproval(p)
  BY <1>1, <1>5 DEF InsertStep, RequestApproval, RowsStay, history
<1>6. CASE \E s : SetStep(x, loc[p].step, s)
               /\ UNCHANGED <<status, version, resume, approvals, history>>
  BY SMTT(30), <1>1, <1>6 DEF SetStep, RowsStay, history
<1>7. CASE WriteDecision(p)
  BY <1>1, <1>7 DEF WriteDecision, RowsStay
<1>8. Start(p) => \/ UNCHANGED <<rows, history>>
                  \/ InsertExecution(p) \/ MarkRunning(p)
  BY DEF Start, ReadAutomation, ReadLatestVersion
<1>9. Decide(p) => \/ UNCHANGED <<rows, history>>
                   \/ RejectRun(p) \/ RestartRun(p) \/ WriteDecision(p)
                   \/ \E s : SetStep(x, loc[p].step, s)
                          /\ UNCHANGED <<status, version, resume, approvals, history>>
  BY DEF Decide, ReadPausedRun, FindWaitingStep, MarkWaitingStep, LookupSuccessor
<1>10. Walk(p) => \/ UNCHANGED <<rows, history>>
                  \/ PauseRun(p) \/ FailRun(p) \/ CompleteRun(p)
                  \/ InsertStep(p) \/ RequestApproval(p)
                  \/ \E s : SetStep(x, loc[p].step, s)
                         /\ UNCHANGED <<status, version, resume, approvals, history>>
  BY DEF Walk, LoadVersion, NodeProceeds, NodeFinishes, NodeFails, NodeWaits, StepOutcome
<1> QED
  BY <1>2, <1>3, <1>4, <1>5, <1>6, <1>7, <1>8, <1>9, <1>10 DEF Serve

\* Every step of every request keeps a run in hand, unless it decides one of
\* its approvals again.
LEMMA ServeInHand ==
  ASSUME NEW r \in Calls, TypeInv, InHand(r), NEW p \in Requests, Serve(p), r \notin redecided'
  PROVE  InHand(r)'
<1>1. CASE loc[p].run # r
  BY <1>1, ServeMoves, ServeRows, OnlyMovesFrame
<1>2. CASE loc[p].run = r /\ Start(p)
  BY <1>2, ReadAutomationInHand, ReadLatestVersionInHand, InsertExecutionInHand,
     MarkRunningInHand DEF Start
<1>3. CASE loc[p].run = r /\ Decide(p)
  BY <1>3, WriteDecisionInHand, ReadPausedRunInHand, FindWaitingStepInHand,
     MarkWaitingStepInHand, SettleInHand, RestartRunInHand, LookupSuccessorInHand DEF Decide
<1>4. CASE loc[p].run = r /\ Walk(p)
  BY <1>4, LoadVersionInHand, InsertStepInHand, NodeOutcomeInHand, RequestApprovalInHand,
     PauseRunInHand, SettleInHand DEF Walk
<1> QED
  BY <1>1, <1>2, <1>3, <1>4 DEF Serve

\* Nobody has the run of a call that has not been made.
LEMMA StartExecutionInHand ==
  ASSUME NEW r \in Calls, TypeInv, InHand(r), NEW p \in Calls, NEW k, StartExecution(p, k)
  PROVE  InHand(r)'
<1>1. /\ pc[p] = "idle" /\ pc' = [pc EXCEPT ![p] = "automation"]
      /\ loc' = [loc EXCEPT ![p].key = k]
      /\ UNCHANGED <<rows, history>>
  BY DEF StartExecution, Goto
<1>2. p \in Requests /\ loc[p].run = p
  BY TypeInvParts DEF Placed, Requests
<1>3. /\ pc'[p] = "automation" /\ loc'[p].run = p
      /\ \A q \in Requests \ {p} : pc'[q] = pc[q] /\ loc'[q] = loc[q]
  BY <1>1, <1>2, TypeInvParts DEF RequestTypes, Local
<1>4. CASE r # p
  BY <1>1, <1>3, <1>4, RunFrame DEF rows, history
<1>5. CASE r = p
  <2>1. \A q \in Requests \ {p} : ~ Drives(q, r) /\ ~ Reads(q, r)
    <3>1. \A q \in Requests : pc[q] \in OnNode \cup DecidePC => loc[q].run # p
      BY <1>1, NothingBeforeInsert
    <3>2. \A q \in Requests \ {p} : pc[q] \in StartPC => loc[q].run # p
      BY TypeInvParts, PCs DEF Placed, StartPC, Requests
    <3> QED
      BY <1>5, <3>1, <3>2 DEF Drives, Reads, DecidePC
  <2>2. /\ \A q \in Requests \ {p} : ~ Drives(q, r)' /\ ~ Reads(q, r)'
        /\ ~ Reads(p, r)'
    BY <1>3, <2>1 DEF Drives, Reads
  <2>3. status[r] = "none" /\ approvals[r] = << >>
    BY <1>1, <1>5, TypeInvParts DEF Placed, Requests
  <2>4. DriverInOrder(p, r)'
    BY <1>1, <1>3, <2>3 DEF DriverInOrder, LastPending, WalkPC, ResumePC, rows
  <2>5. RowsInOrder(r)'
    BY <1>1, RowsFrame DEF InHand, rows, history
  <2> QED
    BY <2>2, <2>4, <2>5 DEF InHand, OneDriver
<1> QED
  BY <1>4, <1>5

\* Whatever changes neither the rows of a run nor the place of a request that
\* works on it.
LEMMA RestInHand ==
  ASSUME NEW r \in Calls, TypeInv, InHand(r),
         \/ \E p \in Calls, k \in Keys \cup {NoKey} : ReturnExisting(p, k)
         \/ \E p \in Reviewers, s \in Calls : \E i \in DOMAIN approvals[s], d \in Decision :
              ReadApproval(p, s, i, d)
         \/ \E p \in Requests : Crash(p)
         \/ SaveVersion
         \/ CheckNoRuns \/ (\E v \in Version : RemoveVersion(v)) \/ RemoveAutomation
         \/ UNCHANGED vars
  PROVE  InHand(r)'
<1> USE DEF Requests
<1>1. /\ UNCHANGED <<status, version, resume, steps, approvals, granted>>
      /\ \/ pc' = pc /\ loc' = loc
         \/ \E p \in Requests : /\ \A q \in Requests \ {p} : pc'[q] = pc[q] /\ loc'[q] = loc[q]
                                /\ pc'[p] \in {"idle", "done", "decide"}
  <2>1. ASSUME NEW p \in Calls, NEW k, ReturnExisting(p, k)
        PROVE  <1>1!1 /\ <1>1!2
    BY <2>1, TypeInvParts DEF ReturnExisting, Goto, rows, history, RequestTypes
  <2>2. ASSUME NEW p \in Reviewers, NEW s \in Calls, NEW i, NEW d, ReadApproval(p, s, i, d)
        PROVE  <1>1!1 /\ <1>1!2
    BY <2>2, TypeInvParts DEF ReadApproval, Goto, rows, history, RequestTypes
  <2>3. ASSUME NEW p \in Requests, Crash(p)
        PROVE  <1>1!1 /\ <1>1!2
    BY <2>3, TypeInvParts DEF Crash, Goto, rows, history, RequestTypes, Returned
  <2>4. CASE SaveVersion \/ UNCHANGED vars
    BY <2>4 DEF SaveVersion, vars, rows, history
  <2>5. CASE CheckNoRuns \/ (\E v \in Version : RemoveVersion(v)) \/ RemoveAutomation
    BY <2>5 DEF CheckNoRuns, RemoveVersion, RemoveAutomation, rows, history
  <2> QED
    BY <2>1, <2>2, <2>3, <2>4, <2>5
<1>2. \A q \in Requests : pc'[q] \in Active => pc'[q] = pc[q] /\ loc'[q] = loc[q]
  BY SMTT(30), <1>1, PCs DEF Active, StartPC
<1> QED
  BY <1>1, <1>2, RunFrame

\* A run decided twice stays on record as such.
LEMMA RedecidedGrows == ASSUME [Next]_vars PROVE redecided \subseteq redecided'
<1>1. ASSUME NEW p \in Requests, Serve(p) PROVE redecided \subseteq redecided'
  <2>1. Start(p) => redecided' = redecided
    BY DEF Start, ReadAutomation, ReadLatestVersion, InsertExecution, MarkRunning, history
  <2>2. Decide(p) => redecided \subseteq redecided'
    BY DEF Decide, WriteDecision, ReadPausedRun, FindWaitingStep, MarkWaitingStep,
       RejectRun, RestartRun, LookupSuccessor, history
  <2>3. Walk(p) => redecided' = redecided
    BY DEF Walk, LoadVersion, InsertStep, NodeProceeds, NodeFinishes, NodeFails, NodeWaits,
       StepOutcome, RequestApproval, PauseRun, FailRun, CompleteRun, history
  <2> QED
    BY <1>1, <2>1, <2>2, <2>3 DEF Serve
<1>2. CASE UNCHANGED vars
  BY <1>2 DEF vars, history
<1> QED
  BY ZenonT(60), <1>1, <1>2 DEF Next, ReturnExisting, StartExecution, ReadApproval, Crash, SaveVersion,
     CheckNoRuns, RemoveVersion, RemoveAutomation, history

\* Initially nobody has anything in hand.
LEMMA InitInHand == ASSUME Init, NEW r \in Calls PROVE InHand(r)
<1>1. \A p \in Requests : pc[p] = "idle"
  BY DEF Init
<1>2. \A p \in Requests : ~ Drives(p, r) /\ ~ Reads(p, r)
  BY <1>1, PCs DEF Drives, Reads, StartPC
<1>3. status[r] = "none" /\ steps[r] = << >> /\ approvals[r] = << >>
  BY DEF Init
<1>4. RowsInOrder(r)
  BY <1>3 DEF RowsInOrder, GatesRespected, Last
<1> QED
  BY <1>2, <1>4 DEF InHand, OneDriver

\* Every step keeps a run in hand, unless it decides one of its approvals again.
LEMMA NextInHand ==
  ASSUME TypeInv, [Next]_vars, NEW r \in Calls, InHand(r), r \notin redecided'
  PROVE  InHand(r)'
<1>1. ASSUME NEW p \in Requests, Serve(p) PROVE InHand(r)'
  BY <1>1, ServeInHand
<1>2. ASSUME NEW p \in Calls, NEW k \in Keys \cup {NoKey}, StartExecution(p, k)
      PROVE  InHand(r)'
  BY <1>2, StartExecutionInHand
<1> QED
  BY <1>1, <1>2, RestInHand DEF Next

\* The invariant behind the gate theorems: everything a request that has a run
\* in hand relies on between two awaits (executor.ts, actions.ts).
THEOREM Inductive == Spec => []IndInv
<1>1. Init => IndInv
  BY InitTyped, InitInHand DEF IndInv
<1>2. IndInv /\ [Next]_vars => IndInv'
  <2> SUFFICES ASSUME IndInv, [Next]_vars PROVE IndInv'
    OBVIOUS
  <2>1. TypeInv'
    BY NextTyped DEF IndInv
  <2>2. ASSUME NEW r \in Calls \ redecided' PROVE InHand(r)'
    BY <2>2, RedecidedGrows, NextInHand DEF IndInv
  <2> QED
    BY <2>1, <2>2 DEF IndInv
<1> QED
  BY <1>1, <1>2, PTL DEF Spec

\* A run none of whose approvals was decided twice passes no gate nobody
\* approved at, whatever the reviewers, the callers and crashes do meanwhile.
THEOREM GatesRespectedUnlessRedecided == Spec => []GatesHoldUnlessRedecided
<1>1. IndInv => GatesHoldUnlessRedecided
  BY DEF IndInv, InHand, RowsInOrder, GatesHoldUnlessRedecided
<1> QED
  BY <1>1, Inductive, PTL

\* The step rows of such a run are its chain in order: pauses, resumes and
\* crashes neither skip a node nor execute one twice.
THEOREM ChainFollowed == Spec => []StepsFollowChain
<1>1. IndInv => StepsFollowChain
  BY DEF IndInv, InHand, RowsInOrder, StepsFollowChain
<1> QED
  BY <1>1, Inductive, PTL

\* A run somebody drives has not ended.
LEMMA DriverUnsettled ==
  ASSUME NEW r \in Calls, InHand(r), NEW p \in Requests, Drives(p, r)
  PROVE  status[r] \notin Settled
<1>1. DriverInOrder(p, r)
  BY DEF InHand
<1>2. /\ \A x \in StartPC : x \in {"automation", "latest", "insert"} \/ x = "markRunning"
      /\ \A x \in OnNode : x \in WalkPC \/ x = "lookup" \/ x \in ResumePC
  BY DEF StartPC, OnNode, ResumePC
<1>3. pc[p] \in StartPC \/ pc[p] \in OnNode
  BY DEF Drives
<1> QED
  BY <1>1, <1>2, <1>3 DEF DriverInOrder, Settled

\* A request that does not have the run in hand does not touch its status.
LEMMA NoDriverNoStatus ==
  ASSUME NEW r \in Calls, TypeInv, NEW p \in Requests, Serve(p), ~ Drives(p, r)
  PROVE  status'[r] = status[r]
<1>1. CASE loc[p].run # r
  BY SMTT(30), <1>1, ServeRows DEF RowsStay
<1>2. CASE pc[p] \notin StartPC \cup OnNode
  <2>1. ~ Start(p) /\ ~ Walk(p)
    BY <1>2, PCs DEF Start, ReadAutomation, ReadLatestVersion, InsertExecution, MarkRunning,
       Walk, LoadVersion, InsertStep, NodeProceeds, NodeFinishes, NodeFails, NodeWaits,
       StepOutcome, RequestApproval, PauseRun, FailRun, CompleteRun, StartPC
  <2>2. WriteDecision(p) \/ ReadPausedRun(p)
    BY <1>2, <2>1, PCs DEF Serve, Decide, FindWaitingStep, MarkWaitingStep, RejectRun,
       RestartRun, LookupSuccessor
  <2> QED
    BY <2>2 DEF WriteDecision, ReadPausedRun, rows
<1> QED
  BY <1>1, <1>2 DEF Drives

\* A run recorded as completed or failed stays so, until somebody decides one
\* of its approvals for the second time: no late decision revives it.
THEOREM SettledStays == Spec => SettledIsFinal
<1>1. IndInv /\ [Next]_vars =>
        [\A r \in Calls \ redecided : status[r] \in Settled => status'[r] = status[r]]_vars
  <2> SUFFICES ASSUME IndInv, Next, NEW r \in Calls \ redecided, status[r] \in Settled
               PROVE  status'[r] = status[r]
    BY DEF vars
  <2>1. TypeInv /\ InHand(r)
    BY DEF IndInv
  <2>2. ASSUME NEW p \in Requests, Serve(p) PROVE status'[r] = status[r]
    BY <2>1, <2>2, DriverUnsettled, NoDriverNoStatus
  <2> QED
    BY ZenonT(60), <2>2 DEF Next, ReturnExisting, StartExecution, ReadApproval, Crash, SaveVersion,
       CheckNoRuns, RemoveVersion, RemoveAutomation, rows
<1> QED
  BY <1>1, Inductive, PTL DEF Spec, SettledIsFinal

-----------------------------------------------------------------------------
(***************************************************************************)
(* Idempotency keys.  Nothing but the unique index is needed, and nothing  *)
(* but it helps: the lookup that precedes the insert may be out of date.   *)
(***************************************************************************)

\* Only the insert of a run sets its key.
LEMMA KeysStay ==
  ASSUME [Next]_vars, NEW p \in Requests, ~ InsertExecution(p), Serve(p)
  PROVE  keyOf' = keyOf
<1>1. Start(p) => keyOf' = keyOf
  BY DEF Start, ReadAutomation, ReadLatestVersion, MarkRunning, rows
<1>2. Decide(p) => keyOf' = keyOf
  BY DEF Decide, WriteDecision, ReadPausedRun, FindWaitingStep, MarkWaitingStep,
     RejectRun, RestartRun, LookupSuccessor, rows
<1>3. Walk(p) => keyOf' = keyOf
  BY DEF Walk, LoadVersion, InsertStep, NodeProceeds, NodeFinishes, NodeFails, NodeWaits,
     StepOutcome, RequestApproval, PauseRun, FailRun, CompleteRun, rows
<1> QED
  BY <1>1, <1>2, <1>3 DEF Serve

\* The insert that is let through brings a key no other run has.
LEMMA InsertKeepsKeysApart ==
  ASSUME Postgres, TypeInv, OneRunPerKey, NEW p \in Requests, InsertExecution(p)
  PROVE  OneRunPerKey'
<1>1. p \in Calls
  BY TypeInvParts, PCs DEF InsertExecution, Placed, StartPC, Requests
<1>2. CASE UNCHANGED rows
  BY <1>2 DEF OneRunPerKey, rows
<1>3. CASE ~ KeyTaken(loc[p].key) /\ keyOf' = [keyOf EXCEPT ![p] = loc[p].key]
  <2>1. \A r \in Calls \ {p} : keyOf'[r] = keyOf[r]
    BY <1>3, TypeInvParts DEF RunTypes
  <2>2. keyOf'[p] = loc[p].key
    BY <1>1, <1>3, TypeInvParts DEF RunTypes
  <2>3. \A r \in Calls : keyOf[r] = loc[p].key => loc[p].key = NoKey
    BY <1>3 DEF KeyTaken
  <2> QED
    BY <1>1, <2>1, <2>2, <2>3 DEF OneRunPerKey
<1> QED
  BY <1>2, <1>3 DEF InsertExecution, InsertRefused

\* On Postgres callers who pass the same idempotency key get one run, however
\* many pass it at once (schema.prisma, @@unique([organizationId, idempotencyKey])).
THEOREM KeysUnique == Postgres => (Spec => []OneRunPerKey)
<1> SUFFICES ASSUME Postgres PROVE Spec => []OneRunPerKey
  OBVIOUS
<1>1. Init => OneRunPerKey
  BY SMTT(30) DEF Init, OneRunPerKey
<1>2. TypeInv /\ OneRunPerKey /\ [Next]_vars => OneRunPerKey'
  <2> SUFFICES ASSUME TypeInv, OneRunPerKey, [Next]_vars PROVE OneRunPerKey'
    OBVIOUS
  <2>1. CASE keyOf' = keyOf
    BY <2>1 DEF OneRunPerKey
  <2>2. ASSUME NEW p \in Requests, Serve(p) PROVE OneRunPerKey'
    BY <2>1, <2>2, KeysStay, InsertKeepsKeysApart
  <2> QED
    BY ZenonT(30), <2>1, <2>2 DEF Next, ReturnExisting, StartExecution, ReadApproval, Crash, SaveVersion,
       CheckNoRuns, RemoveVersion, RemoveAutomation, rows, vars
<1> QED
  BY <1>1, <1>2, AlwaysTypeInv, PTL DEF Spec

-----------------------------------------------------------------------------
(***************************************************************************)
(* That the step rows of a settled run show how it ended.  The argument is *)
(* Engine!TraceInv: to IndInv, which says who has a run in hand, it adds   *)
(* the statuses of the step rows, and three facts about all runs that a    *)
(* driver relies on: it pauses at gates only, a run has nothing before its *)
(* insert, and its version goes only with the automation.                  *)
(***************************************************************************)
\* A request changes neither the automation nor its versions.
LEMMA ServeKeeps ==
  ASSUME NEW p \in Requests, Serve(p)
  PROVE  UNCHANGED <<automation, versions, deletion>>
<1>1. Start(p) => UNCHANGED <<automation, versions, deletion>>
  BY SMTT(30) DEF Start, ReadAutomation, ReadLatestVersion, InsertExecution, MarkRunning, rows
<1>2. Decide(p) => UNCHANGED <<automation, versions, deletion>>
  BY DEF Decide, WriteDecision, ReadPausedRun, FindWaitingStep, MarkWaitingStep,
     RejectRun, RestartRun, LookupSuccessor, rows
<1>3. Walk(p) => UNCHANGED <<automation, versions, deletion>>
  BY DEF Walk, LoadVersion, InsertStep, NodeProceeds, NodeFinishes, NodeFails, NodeWaits,
     StepOutcome, RequestApproval, PauseRun, FailRun, CompleteRun, rows
<1> QED
  BY <1>1, <1>2, <1>3 DEF Serve

\* Only the insert pins a run to a version.
LEMMA VersionStays ==
  ASSUME NEW p \in Requests, Serve(p), ~ InsertExecution(p)
  PROVE  version' = version
<1>1. Start(p) => version' = version
  BY SMTT(30) DEF Start, ReadAutomation, ReadLatestVersion, MarkRunning, rows
<1>2. Decide(p) => version' = version
  BY DEF Decide, WriteDecision, ReadPausedRun, FindWaitingStep, MarkWaitingStep,
     RejectRun, RestartRun, LookupSuccessor, rows
<1>3. Walk(p) => version' = version
  BY SMTT(30) DEF Walk, LoadVersion, InsertStep, NodeProceeds, NodeFinishes, NodeFails, NodeWaits,
     StepOutcome, RequestApproval, PauseRun, FailRun, CompleteRun, rows
<1> QED
  BY <1>1, <1>2, <1>3 DEF Serve

\* Whatever is not a step of an accepted request leaves the rows of the runs,
\* and the grants, as they are.
LEMMA OthersKeepRuns ==
  ASSUME [Next]_vars, \A p \in Requests : ~ Serve(p)
  PROVE  UNCHANGED <<status, version, resume, steps, approvals, granted, redecided>>
BY ZenonT(60) DEF Next, ReturnExisting, StartExecution, ReadApproval, Crash, SaveVersion,
   CheckNoRuns, RemoveVersion, RemoveAutomation, rows, history, vars

\* ... and takes a request back to a place from which it has not read a run.
LEMMA OthersMove ==
  ASSUME TypeInv, [Next]_vars, \A p \in Requests : ~ Serve(p)
  PROVE  \A q \in Requests :
           \/ pc'[q] = pc[q] /\ loc'[q] = loc[q]
           \/ pc'[q] \in {"idle", "done"} /\ loc'[q].run = loc[q].run
           \/ q \in Calls /\ pc'[q] = "automation" /\ loc'[q].run = loc[q].run
           \/ q \in Reviewers /\ pc'[q] = "decide" /\ approvals[loc'[q].run] # << >>
<1> DEFINE Fine(q) ==
      \/ pc'[q] = pc[q] /\ loc'[q] = loc[q]
      \/ pc'[q] \in {"idle", "done"} /\ loc'[q].run = loc[q].run
      \/ q \in Calls /\ pc'[q] = "automation" /\ loc'[q].run = loc[q].run
      \/ q \in Reviewers /\ pc'[q] = "decide" /\ approvals[loc'[q].run] # << >>
<1>1. pc \in [Requests -> PC] /\ loc \in [Requests -> Local]
  BY TypeInvParts DEF RequestTypes
<1>2. ASSUME NEW p \in Calls, NEW k, ReturnExisting(p, k), NEW q \in Requests PROVE Fine(q)
  BY <1>1, <1>2 DEF ReturnExisting, Goto
<1>3. ASSUME NEW p \in Calls, NEW k, StartExecution(p, k), NEW q \in Requests PROVE Fine(q)
  BY <1>1, <1>3 DEF StartExecution, Goto, Local
<1>4. ASSUME NEW p \in Reviewers, NEW s \in Calls, NEW i \in DOMAIN approvals[s],
             NEW d \in Decision, ReadApproval(p, s, i, d), NEW q \in Requests
      PROVE  Fine(q)
  <2>1. approvals[s] # << >>
    OBVIOUS
  <2>2. p \in Requests
    BY DEF Requests
  <2>3. /\ pc' = [pc EXCEPT ![p] = "decide"]
        /\ loc' = [loc EXCEPT ![p].run = s, ![p].approval = i, ![p].decision = d]
    BY <1>4 DEF ReadApproval, Goto
  <2>4. loc'[p].run = s /\ pc'[p] = "decide"
    BY <1>1, <2>2, <2>3 DEF Local
  <2>5. q # p => pc'[q] = pc[q] /\ loc'[q] = loc[q]
    BY <1>1, <2>2, <2>3
  <2> QED
    BY <2>1, <2>4, <2>5
<1>5. ASSUME NEW p \in Requests, Crash(p), NEW q \in Requests PROVE Fine(q)
  BY <1>1, <1>5 DEF Crash, Goto, Returned
<1>6. CASE SaveVersion \/ UNCHANGED vars
  BY <1>6 DEF SaveVersion, vars
<1>7. CASE CheckNoRuns \/ (\E v \in Version : RemoveVersion(v)) \/ RemoveAutomation
  BY <1>7 DEF CheckNoRuns, RemoveVersion, RemoveAutomation
<1> QED
  BY <1>2, <1>3, <1>4, <1>5, <1>6, <1>7 DEF Next

-----------------------------------------------------------------------------
(***************************************************************************)
(* The three facts about all runs.                                         *)
(***************************************************************************)

\* An automation that is going, or gone, is not restored.
LEMMA GoneStays == ASSUME [Next]_vars, Gone PROVE Gone'
<1>1. ASSUME NEW p \in Requests, Serve(p) PROVE Gone'
  BY <1>1, ServeKeeps DEF Gone, deletion
<1>2. CASE \A p \in Requests : ~ Serve(p)
  <2>1. UNCHANGED <<automation, deleting>> \/ deleting' = TRUE \/ automation' = FALSE
    BY ZenonT(60), <1>2 DEF Next, ReturnExisting, StartExecution, ReadApproval, Crash, SaveVersion,
       CheckNoRuns, RemoveVersion, RemoveAutomation, rows, vars, deletion
  <2> QED
    BY <2>1 DEF Gone
<1> QED
  BY <1>1, <1>2

\* While the automation stays, so do its versions.
LEMMA VersionsStay == ASSUME [Next]_vars, ~ Gone' PROVE versions \subseteq versions' /\ ~ Gone
<1>1. ASSUME NEW p \in Requests, Serve(p) PROVE versions' = versions
  BY <1>1, ServeKeeps
<1>2. ~ Gone
  BY GoneStays
<1> QED
  BY ZenonT(60), <1>1, <1>2 DEF Next, ReturnExisting, StartExecution, ReadApproval, Crash, SaveVersion,
     CheckNoRuns, RemoveVersion, RemoveAutomation, rows, vars, deletion, Gone

\* No step takes the insert of a run back.
LEMMA InsertedStays ==
  ASSUME TypeInv, [Next]_vars, NEW r \in Calls, status'[r] = "none"
  PROVE  status[r] = "none"
<1>1. status \in [Calls -> Status]
  BY TypeInvParts DEF RunTypes
<1>2. ASSUME NEW p \in Requests, Serve(p) PROVE status[r] = "none"
  <2>1. Start(p) => status[r] = "none"
    BY <1>1 DEF Start, ReadAutomation, ReadLatestVersion, InsertExecution, MarkRunning, rows,
       SetStatus
  <2>2. Decide(p) => status[r] = "none"
    BY <1>1 DEF Decide, WriteDecision, ReadPausedRun, FindWaitingStep, MarkWaitingStep,
       RejectRun, RestartRun, LookupSuccessor, rows, SetStatus
  <2>3. Walk(p) => status[r] = "none"
    BY <1>1 DEF Walk, LoadVersion, InsertStep, NodeProceeds, NodeFinishes, NodeFails,
       NodeWaits, StepOutcome, RequestApproval, PauseRun, FailRun, CompleteRun, rows, SetStatus
  <2> QED
    BY <1>2, <2>1, <2>2, <2>3 DEF Serve
<1> QED
  BY <1>2, OthersKeepRuns

\* Only a decision grants, and on the run that was decided.
LEMMA ServeGrants ==
  ASSUME NEW p \in Requests, Serve(p), NEW g \in granted' \ granted
  PROVE  WriteDecision(p) /\ g = <<loc[p].run, approvals[loc[p].run][loc[p].approval].node>>
<1>1. Start(p) => granted' = granted
  BY DEF Start, ReadAutomation, ReadLatestVersion, InsertExecution, MarkRunning, history
<1>2. Decide(p) /\ ~ WriteDecision(p) => granted' = granted
  BY DEF Decide, ReadPausedRun, FindWaitingStep, MarkWaitingStep,
     RejectRun, RestartRun, LookupSuccessor, history
<1>3. Walk(p) => granted' = granted
  BY DEF Walk, LoadVersion, InsertStep, NodeProceeds, NodeFinishes, NodeFails, NodeWaits,
     StepOutcome, RequestApproval, PauseRun, FailRun, CompleteRun, history
<1>4. WriteDecision(p)
  BY <1>1, <1>2, <1>3 DEF Serve
<1> QED
  BY <1>4 DEF WriteDecision

\* What a request that has not inserted its run can do.
LEMMA EarlyServe ==
  ASSUME NEW p \in Requests, Serve(p),
         pc[p] \in {"idle", "done", "automation", "latest", "insert"}
  PROVE  ReadAutomation(p) \/ ReadLatestVersion(p) \/ InsertExecution(p)
<1>1. ~ Decide(p)
  BY DEF Decide, WriteDecision, ReadPausedRun, FindWaitingStep, MarkWaitingStep,
     RejectRun, RestartRun, LookupSuccessor
<1>2. ~ Walk(p)
  BY DEF Walk, LoadVersion, InsertStep, NodeProceeds, NodeFinishes, NodeFails, NodeWaits,
     StepOutcome, RequestApproval, PauseRun, FailRun, CompleteRun
<1> QED
  BY <1>1, <1>2 DEF Serve, Start, MarkRunning

\* Nothing happens to a run before its insert: the request that is to drive it
\* has not read or written anything of it.
LEMMA NothingYetStep ==
  ASSUME TypeInv, [Next]_vars, NEW r \in Calls, NothingYet(r)
  PROVE  NothingYet(r)'
<1> DEFINE Early == {"idle", "done", "automation", "latest", "insert"}
           Blank == /\ steps'[r] = << >> /\ approvals'[r] = << >>
                    /\ \A g \in granted' : g[1] # r
                    /\ \A q \in Requests : loc'[q].run = r => pc'[q] \in Early
<1> SUFFICES ASSUME status'[r] = "none" PROVE Blank
  BY DEF NothingYet
<1>1. /\ status[r] = "none" /\ steps[r] = << >> /\ approvals[r] = << >>
      /\ \A g \in granted : g[1] # r
      /\ \A q \in Requests : loc[q].run = r => pc[q] \in Early
  BY InsertedStays DEF NothingYet
<1>2. CASE \A p \in Requests : ~ Serve(p)
  BY <1>1, <1>2, OthersKeepRuns, OthersMove
<1>3. ASSUME NEW p \in Requests, Serve(p), loc[p].run # r PROVE Blank
  <2>1. OnlyMoves(p) /\ RowsStay(r)
    BY <1>3, ServeMoves, ServeRows
  <2>2. \A g \in granted' : g[1] # r
    BY <1>1, <1>3, ServeGrants
  <2> QED
    BY <1>1, <1>3, <2>1, <2>2 DEF OnlyMoves, RowsStay
<1>4. ASSUME NEW p \in Requests, Serve(p), loc[p].run = r PROVE Blank
  <2>1. /\ pc \in [Requests -> PC] /\ loc \in [Requests -> Local]
        /\ status \in [Calls -> Status]
    BY TypeInvParts DEF RequestTypes, RunTypes
  <2>2. ReadAutomation(p) \/ ReadLatestVersion(p) \/ InsertExecution(p)
    BY <1>1, <1>4, EarlyServe
  <2>3. InsertExecution(p) => p = r /\ UNCHANGED rows
    <3>1. InsertExecution(p) => p \in Calls /\ p = r
      BY <1>4, TypeInvParts, PCs DEF InsertExecution, Placed, StartPC, Requests
    <3> QED
      BY <2>1, <3>1 DEF InsertExecution, SetStatus
  <2>4. UNCHANGED <<rows, history>> /\ pc'[p] \in Early
    <3>1. /\ ReadAutomation(p) => pc'[p] \in Early
          /\ ReadLatestVersion(p) => pc'[p] \in Early
      BY <2>1 DEF ReadAutomation, ReadLatestVersion, Goto, Returned
    <3>2. InsertExecution(p) => pc'[p] \in Early
      BY <1>1, <2>1, <2>3, TypeInvParts DEF InsertExecution, Goto, Returned, SetStatus, rows
    <3> QED
      BY <2>2, <2>3, <3>1, <3>2 DEF ReadAutomation, ReadLatestVersion, InsertExecution
  <2>5. OnlyMoves(p)
    BY <1>4, ServeMoves
  <2> QED
    BY <1>1, <2>4, <2>5 DEF OnlyMoves, rows, history
<1> QED
  BY <1>2, <1>3, <1>4

\* A version that is read as the latest, or pinned, is one of those that stay.
LEMMA VersionsKeptStep ==
  ASSUME TypeInv, \A r \in Calls : NothingYet(r), VersionsKept, [Next]_vars
  PROVE  VersionsKept'
<1> SUFFICES ASSUME ~ Gone' PROVE VersionsKept!2'
  BY DEF VersionsKept
<1>1. versions \subseteq versions' /\ VersionsKept!2
  BY VersionsStay DEF VersionsKept
<1>2. /\ pc \in [Requests -> PC] /\ loc \in [Requests -> Local]
      /\ status \in [Calls -> Status] /\ version \in [Calls -> Version]
  BY TypeInvParts DEF RequestTypes, RunTypes
<1>3. CASE \A p \in Requests : ~ Serve(p)
  BY <1>1, <1>3, OthersMove, OthersKeepRuns
<1>4. ASSUME NEW p \in Requests, ReadLatestVersion(p) PROVE VersionsKept!2'
  <2>1. versions' = versions /\ UNCHANGED <<status, version>>
    BY <1>4 DEF ReadLatestVersion, rows
  <2>2. \A q \in Requests \ {p} : pc'[q] = pc[q] /\ loc'[q] = loc[q]
    BY <1>2, <1>4 DEF ReadLatestVersion, Goto
  <2>3. pc'[p] = "insert" => loc'[p].version \in versions
    BY <1>2, <1>4 DEF ReadLatestVersion, Goto, Local, Returned
  <2> QED
    BY <1>1, <2>1, <2>2, <2>3
<1>5. ASSUME NEW p \in Requests, InsertExecution(p) PROVE VersionsKept!2'
  <2>1. p \in Calls /\ versions' = versions /\ loc' = loc
    BY <1>5, TypeInvParts, PCs DEF InsertExecution, Placed, StartPC, Requests, rows
  <2>2. /\ \A q \in Requests : pc'[q] = "insert" => pc[q] = "insert"
        /\ \A r \in Calls \ {p} : status'[r] = status[r] /\ version'[r] = version[r]
    BY <1>2, <1>5, <2>1 DEF InsertExecution, Goto, Returned, SetStatus, rows
  <2>3. status'[p] # "none" => version'[p] \in versions
    BY <1>1, <1>2, <1>5, <2>1 DEF InsertExecution, SetStatus, rows
  <2> QED
    BY <1>1, <2>1, <2>2, <2>3
<1>6. ASSUME NEW p \in Requests, Serve(p), ~ ReadLatestVersion(p), ~ InsertExecution(p)
      PROVE  VersionsKept!2'
  <2>1. \A q \in Requests : pc'[q] = "insert" => pc[q] = "insert" /\ loc'[q] = loc[q]
    <3>1. OnlyMoves(p)
      BY <1>6, ServeMoves
    <3>2. Start(p) => pc'[p] # "insert"
      BY <1>2, <1>6 DEF Start, ReadAutomation, MarkRunning, Goto, Returned
    <3>3. Decide(p) => pc'[p] # "insert"
      BY <1>2, PCs DEF Decide, WriteDecision, ReadPausedRun, FindWaitingStep, MarkWaitingStep,
         RejectRun, RestartRun, LookupSuccessor, Goto, Returned, AfterMark
    <3>4. Walk(p) => pc'[p] # "insert"
      BY <1>2, PCs DEF Walk, LoadVersion, InsertStep, NodeProceeds, NodeFinishes, NodeFails,
         NodeWaits, RequestApproval, PauseRun, FailRun, CompleteRun, Goto, Returned
    <3> QED
      BY <1>6, <3>1, <3>2, <3>3, <3>4 DEF Serve, OnlyMoves
  <2>2. version' = version
    BY <1>6, VersionStays
  <2>3. \A r \in Calls : status'[r] # "none" => status[r] # "none"
    <3>1. ASSUME NEW r \in Calls, loc[p].run # r PROVE status'[r] = status[r]
      BY <1>6, <3>1, ServeRows DEF RowsStay
    <3>2. ASSUME NEW r \in Calls, loc[p].run = r, status[r] = "none" PROVE status'[r] = "none"
      <4>1. ReadAutomation(p)
        BY <1>6, <3>2, EarlyServe DEF NothingYet
      <4> QED
        BY <3>2, <4>1 DEF ReadAutomation, rows
    <3> QED
      BY <3>1, <3>2
  <2> QED
    BY <1>1, <2>1, <2>2, <2>3
<1> QED
  BY <1>3, <1>4, <1>5, <1>6

\* The points at which a request has a gate in hand.
GatePC == {"requestApproval", "pauseRun", "lookup"} \cup ResumePC

\* Who comes to such a point has a gate in hand.
LEMMA GateInHand ==
  ASSUME TypeInv, AtGates, NEW p \in Requests, Serve(p), pc'[p] \in GatePC
  PROVE  IsGate(loc'[p].run, loc'[p].node)
<1> DEFINE r == loc[p].run
<1>1. /\ pc \in [Requests -> PC] /\ loc \in [Requests -> Local] /\ loc[p] \in Local
      /\ r \in Calls /\ resume[r] \in Nat
  BY TypeInvParts DEF RequestTypes, RunTypes, Local
<1>2. pc[p] \in GatePC => IsGate(r, loc[p].node)
  BY DEF AtGates, GatePC
<1>3. CASE Start(p)
  BY <1>1, <1>3, PCs DEF Start, ReadAutomation, ReadLatestVersion, InsertExecution, MarkRunning,
     Goto, Returned, GatePC, ResumePC
<1>4. CASE NodeWaits(p)
  <2>1. pc[p] = "execute" /\ NodeOf(p) = "approval" /\ loc' = loc
    BY <1>4 DEF NodeWaits, StepOutcome
  <2> QED
    BY <2>1, NodeInHand, PCs DEF NodeOf, IsGate
<1>5. CASE RequestApproval(p)
  BY <1>2, <1>5 DEF RequestApproval, GatePC
<1>6. CASE Walk(p) /\ ~ NodeWaits(p) /\ ~ RequestApproval(p)
  BY <1>1, <1>6 DEF Walk, LoadVersion, InsertStep, NodeProceeds, NodeFinishes, NodeFails,
     StepOutcome, PauseRun, FailRun, CompleteRun, Goto, Returned, GatePC, ResumePC
<1>7. CASE WriteDecision(p)
  BY <1>1, <1>7 DEF WriteDecision, Goto, GatePC, ResumePC
<1>8. CASE ReadPausedRun(p)
  <2>1. pc'[p] # Returned(p)
    BY DEF Returned, GatePC, ResumePC
  <2>2. loc' = [loc EXCEPT ![p].node = resume[r]] /\ resume[r] # NoNode
    BY <1>1, <1>8, <2>1 DEF ReadPausedRun, Goto
  <2> QED
    BY <1>1, <2>2 DEF AtGates, Local
<1>9. CASE FindWaitingStep(p)
  <2>1. pc[p] = "findStep" /\ (loc' = loc \/ \E i : loc' = [loc EXCEPT ![p].step = i])
    BY <1>9 DEF FindWaitingStep
  <2>2. loc'[p].run = r /\ loc'[p].node = loc[p].node
    BY <1>1, <2>1 DEF Local
  <2> QED
    BY <1>2, <2>1, <2>2 DEF GatePC, ResumePC
<1>10. CASE MarkWaitingStep(p) \/ RestartRun(p)
  BY <1>2, <1>10 DEF MarkWaitingStep, RestartRun, GatePC, ResumePC
<1>11. CASE RejectRun(p) \/ LookupSuccessor(p)
  BY <1>1, <1>11 DEF RejectRun, LookupSuccessor, Goto, Returned, GatePC, ResumePC
<1> QED
  BY <1>3, <1>4, <1>5, <1>6, <1>7, <1>8, <1>9, <1>10, <1>11 DEF Serve, Decide

\* A run is paused at the gate its driver has in hand.
LEMMA PausedAtGate ==
  ASSUME TypeInv, AtGates, NEW p \in Requests, Serve(p), NEW r \in Calls, resume'[r] # NoNode
  PROVE  IsGate(r, resume'[r])
<1> DEFINE x == loc[p].run
<1>1. resume \in [Calls -> Nat] /\ x \in Calls
  BY TypeInvParts DEF RunTypes, RequestTypes, Local
<1>2. CASE resume' = resume
  BY <1>2 DEF AtGates
<1>3. CASE PauseRun(p)
  <2>1. resume' = [resume EXCEPT ![x] = loc[p].node] /\ IsGate(x, loc[p].node)
    BY <1>3 DEF PauseRun, AtGates
  <2> QED
    BY <1>1, <2>1 DEF AtGates
<1>4. CASE resume' = [resume EXCEPT ![x] = NoNode]
  BY <1>1, <1>4 DEF AtGates
<1>5. Start(p) => resume' = resume
  BY SMTT(30) DEF Start, ReadAutomation, ReadLatestVersion, InsertExecution, MarkRunning, rows
<1>6. Decide(p) => resume' = resume \/ resume' = [resume EXCEPT ![x] = NoNode]
  BY DEF Decide, WriteDecision, ReadPausedRun, FindWaitingStep, MarkWaitingStep,
     RejectRun, RestartRun, LookupSuccessor, rows
<1>7. Walk(p) => resume' = resume \/ resume' = [resume EXCEPT ![x] = NoNode] \/ PauseRun(p)
  BY DEF Walk, LoadVersion, InsertStep, NodeProceeds, NodeFinishes, NodeFails, NodeWaits,
     StepOutcome, RequestApproval, FailRun, CompleteRun, rows
<1> QED
  BY <1>2, <1>3, <1>4, <1>5, <1>6, <1>7 DEF Serve

\* An approval is about a gate, and a decision does not change which.
LEMMA ApprovedAtGate ==
  ASSUME TypeInv, AtGates, NEW p \in Requests, Serve(p), NEW r \in Calls,
         NEW i \in DOMAIN approvals'[r]
  PROVE  IsGate(r, approvals'[r][i].node)
<1> DEFINE x == loc[p].run
<1>1. approvals \in [Calls -> Seq(Approval)] /\ x \in Calls /\ RunTypes
  BY TypeInvParts DEF RunTypes, RequestTypes, Local
<1>2. CASE approvals' = approvals
  BY <1>2 DEF AtGates
<1>3. CASE RequestApproval(p)
  <2> DEFINE a == [node |-> loc[p].node, status |-> "pending"]
  <2>1. approvals' = [approvals EXCEPT ![x] = Append(@, a)]
    BY <1>3 DEF RequestApproval
  <2>2. a \in Approval /\ a.node = loc[p].node /\ IsGate(x, loc[p].node)
    BY <1>3, NodeInHand, PCs DEF RequestApproval, AtGates, Approval
  <2>3. CASE r # x
    BY <1>1, <2>1, <2>3 DEF AtGates
  <2>4. CASE r = x
    <3> HIDE DEF a, x
    <3>1. /\ DOMAIN approvals'[x] = 1..(Len(approvals[x]) + 1)
          /\ DOMAIN approvals[x] = 1..Len(approvals[x]) /\ Len(approvals[x]) \in Nat
          /\ \A j \in DOMAIN approvals[x] : approvals'[x][j] = approvals[x][j]
          /\ approvals'[x][Len(approvals[x]) + 1] = a
      BY <1>1, <2>1, <2>2, AppendRow
    <3>2. i \in DOMAIN approvals[x] \/ i = Len(approvals[x]) + 1
      BY <2>4, <3>1
    <3> QED
      BY <1>1, <2>2, <2>4, <3>1, <3>2 DEF AtGates
  <2> QED
    BY <2>3, <2>4
<1>4. CASE WriteDecision(p)
  <2>1. /\ approvals' = [approvals EXCEPT ![x][loc[p].approval].status = loc[p].decision]
        /\ loc[p].approval \in DOMAIN approvals[x] /\ loc[p].decision \in Decision
    BY <1>4, ReviewersDecide, TypeInvParts DEF WriteDecision, DecidePC, RequestTypes, Local
  <2>2. /\ \A q \in Calls \ {x} : approvals'[q] = approvals[q]
        /\ DOMAIN approvals'[x] = DOMAIN approvals[x]
        /\ \A j \in DOMAIN approvals[x] : approvals'[x][j].node = approvals[x][j].node
    <3> HIDE DEF x
    <3> QED
      BY <1>1, <2>1, ApprovalRow
  <2> QED
    BY <1>1, <2>2 DEF AtGates
<1>5. Start(p) => approvals' = approvals
  BY DEF Start, ReadAutomation, ReadLatestVersion, InsertExecution, MarkRunning, rows
<1>6. Decide(p) => approvals' = approvals \/ WriteDecision(p)
  BY DEF Decide, ReadPausedRun, FindWaitingStep, MarkWaitingStep,
     RejectRun, RestartRun, LookupSuccessor, rows
<1>7. Walk(p) => approvals' = approvals \/ RequestApproval(p)
  BY DEF Walk, LoadVersion, InsertStep, NodeProceeds, NodeFinishes, NodeFails, NodeWaits,
     StepOutcome, PauseRun, FailRun, CompleteRun, rows
<1> QED
  BY <1>2, <1>3, <1>4, <1>5, <1>6, <1>7 DEF Serve

\* The gates stay gates: a run is pinned to its version before it has any.
LEMMA AtGatesStep ==
  ASSUME TypeInv, AtGates, [Next]_vars
  PROVE  AtGates'
<1>1. CASE \A p \in Requests : ~ Serve(p)
  <2>1. UNCHANGED <<version, resume, approvals>>
    BY <1>1, OthersKeepRuns
  <2>2. \A r, k : IsGate(r, k)' <=> IsGate(r, k)
    BY <2>1 DEF IsGate, Chain
  <2>3. \A q \in Requests : pc'[q] \in GatePC => pc'[q] = pc[q] /\ loc'[q] = loc[q]
    BY <1>1, OthersMove DEF GatePC, ResumePC
  <2> QED
    BY <2>1, <2>2, <2>3 DEF AtGates, GatePC
<1>2. ASSUME NEW p \in Requests, Serve(p), ~ InsertExecution(p) PROVE AtGates'
  <2>1. version' = version
    BY <1>2, VersionStays
  <2>2. \A r, k : IsGate(r, k)' <=> IsGate(r, k)
    BY <2>1 DEF IsGate, Chain
  <2>3. ASSUME NEW q \in Requests, pc'[q] \in GatePC
        PROVE  IsGate(loc'[q].run, loc'[q].node)
    <3>1. CASE q = p
      BY <1>2, <2>3, <3>1, GateInHand
    <3>2. CASE q # p
      BY <1>2, <2>3, <3>2, ServeMoves DEF OnlyMoves, AtGates, GatePC
    <3> QED
      BY <3>1, <3>2
  <2>4. ASSUME NEW r \in Calls
        PROVE  /\ resume'[r] # NoNode => IsGate(r, resume'[r])
               /\ \A i \in DOMAIN approvals'[r] : IsGate(r, approvals'[r][i].node)
    BY <1>2, PausedAtGate, ApprovedAtGate
  <2> QED
    BY <2>2, <2>3, <2>4 DEF AtGates, GatePC
<1>3. ASSUME NEW p \in Requests, InsertExecution(p) PROVE AtGates'
  <2>1. /\ p \in Calls /\ pc[p] = "insert" /\ resume[p] = NoNode /\ approvals[p] = << >>
        /\ UNCHANGED <<resume, approvals, loc>>
    BY <1>3, TypeInvParts, PCs DEF InsertExecution, Placed, StartPC, Requests, rows
  <2>2. \A r \in Calls \ {p} : version'[r] = version[r]
    BY <1>3, TypeInvParts DEF InsertExecution, RunTypes, rows
  <2>3. \A r \in Calls \ {p}, k \in Nat : IsGate(r, k)' <=> IsGate(r, k)
    BY <2>2 DEF IsGate, Chain
  <2>4. \A q \in Requests : pc'[q] \in GatePC => pc[q] = pc'[q] /\ loc[q].run # p
    <3>1. \A q \in Requests : pc'[q] \in GatePC => pc[q] = pc'[q]
      BY <1>3, TypeInvParts DEF InsertExecution, Goto, Returned, GatePC, ResumePC, RequestTypes
    <3> QED
      BY <2>1, <3>1, PCs, NothingBeforeInsert DEF GatePC, ResumePC
  <2>5. /\ \A q \in Requests : loc[q].run \in Calls /\ loc[q].node \in Nat
        /\ \A r \in Calls : /\ resume[r] \in Nat
                            /\ \A i \in DOMAIN approvals[r] : approvals[r][i].node \in Nat
    <3>1. \A r \in Calls : \A i \in DOMAIN approvals[r] : approvals[r][i] \in Approval
      BY TypeInvParts, SeqElements DEF RunTypes
    <3> QED
      BY <3>1, TypeInvParts DEF RequestTypes, RunTypes, Local, Approval, NodeKey
  <2> QED
    BY <2>1, <2>3, <2>4, <2>5 DEF AtGates, GatePC
<1> QED
  BY <1>1, <1>2, <1>3

-----------------------------------------------------------------------------
(***************************************************************************)
(* The statuses of the step rows: StepsTell, one lemma for each kind of    *)
(* step.                                                                   *)
(***************************************************************************)

\* What the rows tell stays when they stay, and nobody comes to read them.
LEMMA RowsTellFrame ==
  ASSUME NEW r \in Calls, RowsTell(r), Gone => Gone',
         status'[r] = status[r], version'[r] = version[r],
         steps'[r] = steps[r], approvals'[r] = approvals[r],
         \A q \in Requests : Reads(q, r)' => Reads(q, r)
  PROVE  RowsTell(r)'
<1>1. /\ LastPending(r)' <=> LastPending(r)
      /\ approvals'[r][Last(r)'] = approvals[r][Last(r)]
  BY LastFrame
<1>2. (\E q \in Requests : Reads(q, r))' => \E q \in Requests : Reads(q, r)
  OBVIOUS
<1> QED
  BY <1>1, <1>2, GatesFrame DEF RowsTell, Done, LastIs, MayEndAt

\* ... and so does what a driver that does not move knows.
LEMMA DriverTellsFrame ==
  ASSUME NEW r \in Calls, TypeInv, NEW q \in Requests, DriverTells(q, r), Gone => Gone',
         pc'[q] = pc[q], loc'[q] = loc[q], version'[r] = version[r],
         steps'[r] = steps[r], granted \subseteq granted'
  PROVE  DriverTells(q, r)'
<1>1. loc[q].node + 1 \in Nat
  BY TypeInvParts DEF RequestTypes, Local
<1>2. GatesBefore(r, loc[q].node + 1) => GatesBefore(r, loc[q].node + 1)'
  BY <1>1, GatesBeforeFrame
<1> QED
  BY <1>2, GatesFrame DEF DriverTells, Done, LastIs, MayEndAt

\* A step leaves alone what the rows of a run tell when they stay and no
\* request takes the run up.
LEMMA TellFrame ==
  ASSUME NEW r \in Calls, TypeInv, StepsTell(r), Gone => Gone',
         status'[r] = status[r], version'[r] = version[r],
         steps'[r] = steps[r], approvals'[r] = approvals[r], granted \subseteq granted',
         \A q \in Requests : loc'[q].run = r /\ pc'[q] \in Active =>
            pc'[q] = pc[q] /\ loc'[q] = loc[q]
  PROVE  StepsTell(r)'
<1>1. \A q \in Requests :
        /\ Drives(q, r)' => Drives(q, r) /\ pc'[q] = pc[q] /\ loc'[q] = loc[q]
        /\ Reads(q, r)' => Reads(q, r)
  BY DEF Drives, Reads, Active
<1>2. RowsTell(r)'
  BY <1>1, RowsTellFrame DEF StepsTell
<1>3. ASSUME NEW q \in Requests, Drives(q, r)' PROVE DriverTells(q, r)'
  BY <1>1, <1>3, DriverTellsFrame DEF StepsTell
<1> QED
  BY <1>2, <1>3 DEF StepsTell

\* What the driver of a run knows of its rows.
LEMMA DriverHolds ==
  ASSUME NEW r \in Calls, TypeInv, InHand(r), StepsTell(r), NEW p \in Requests, Drives(p, r)
  PROVE  /\ RowsInOrder(r) /\ DriverInOrder(p, r)
         /\ RowsTell(r) /\ DriverTells(p, r)
         /\ Done(r, Len(steps[r]) - 1)
         /\ \A q \in Requests \ {p} : ~ Drives(q, r)
         /\ pc[p] # "pauseRun" => ~ LastPending(r) /\ \A q \in Requests : ~ Reads(q, r)
BY DriverFacts DEF StepsTell, RowsTell, DriverInOrder

\* The driver of a run takes a step: what the rows tell afterwards, when it
\* has not come to the pause.
LEMMA DriverLeavesRows ==
  ASSUME NEW r \in Calls, TypeInv, InHand(r), NEW p \in Requests, Drives(p, r),
         pc[p] # "pauseRun", pc'[p] # "readRun",
         \A q \in Requests \ {p} : pc'[q] = pc[q] /\ loc'[q] = loc[q],
         ~ LastPending(r)', Done(r, Len(steps[r]) - 1)',
         status'[r] \notin Settled, Drives(p, r)' => DriverTells(p, r)'
  PROVE  StepsTell(r)'
<1>1. \A q \in Requests : ~ Reads(q, r)' /\ (q # p => ~ Drives(q, r)')
  BY DriverFacts DEF Drives, Reads
<1>2. RowsTell(r)'
  BY <1>1 DEF RowsTell, Settled, Done
<1> QED
  BY <1>1, <1>2 DEF StepsTell

\* Before the walk a run has neither steps nor approvals.
LEMMA StartTells ==
  ASSUME NEW r \in Calls, TypeInv, TypeInv', InHand(r), InHand(r)', StepsTell(r),
         NEW p \in Requests, loc[p].run = r,
         ReadAutomation(p) \/ ReadLatestVersion(p) \/ InsertExecution(p) \/ MarkRunning(p)
  PROVE  StepsTell(r)'
<1>1. /\ pc[p] \in StartPC
      /\ UNCHANGED <<steps, approvals>>
      /\ status' = status \/ status' = [status EXCEPT ![p] = "queued"]
                          \/ status' = [status EXCEPT ![p] = "running"]
      /\ pc'[p] \in {"idle", "done", "latest", "insert", "markRunning", "load"}
  BY TypeInvParts DEF ReadAutomation, ReadLatestVersion, InsertExecution, MarkRunning, StartPC,
     Goto, Returned, SetStatus, rows, RequestTypes
<1>2. Drives(p, r) /\ p = r /\ loc[p].node = 1
  BY <1>1, TypeInvParts DEF Drives, Placed, StartPC, Requests
<1>3. steps[r] = << >> /\ status[r] \in {"none", "queued"} /\ ~ LastPending(r)
  <2>1. DriverInOrder(p, r)
    BY <1>2, DriverFacts
  <2> QED
    BY <1>1, <1>2, <2>1, NewRun DEF DriverInOrder, StartPC
<1>4. status'[r] \notin Settled
  BY <1>1, <1>2, <1>3, TypeInvParts DEF RunTypes, Settled
<1>5. /\ steps'[r] = << >> /\ ~ LastPending(r)'
      /\ Done(r, Len(steps[r]) - 1)' /\ Done(r, Len(steps[r]))'
  BY <1>1, <1>3, LastFrame DEF Done
<1>6. DriverTells(p, r)'
  BY <1>1, <1>5 DEF DriverTells
<1>7. OnlyMoves(p)
  BY ServeMoves DEF Serve, Start
<1>8. pc[p] # "pauseRun" /\ pc'[p] # "readRun"
  BY <1>1 DEF StartPC
<1> QED
  BY <1>2, <1>4, <1>5, <1>6, <1>7, <1>8, DriverLeavesRows DEF OnlyMoves

\* The version is missing only when the automation is going.
LEMMA LoadVersionTells ==
  ASSUME NEW r \in Calls, TypeInv, InHand(r), StepsTell(r), VersionsKept, Gone => Gone',
         NEW p \in Requests, loc[p].run = r, LoadVersion(p)
  PROVE  StepsTell(r)'
<1>1. /\ pc[p] = "load" /\ pc'[p] = (IF VersionFound(r) THEN "step" ELSE "failRun")
      /\ loc' = loc /\ UNCHANGED rows
      /\ \A q \in Requests \ {p} : pc'[q] = pc[q] /\ loc'[q] = loc[q]
  BY TypeInvParts DEF LoadVersion, Goto, RequestTypes
<1>2. Drives(p, r)
  BY <1>1, PCs DEF Drives
<1>3. /\ status[r] = "running" /\ Done(r, Len(steps[r])) /\ Done(r, Len(steps[r]) - 1)
      /\ ~ LastPending(r)
  BY <1>1, <1>2, DriverHolds DEF DriverInOrder, DriverTells, WalkPC
<1>4. ~ VersionFound(r) => Gone'
  BY <1>3 DEF VersionFound, VersionsKept
<1>5. DriverTells(p, r)'
  BY <1>1, <1>3, <1>4 DEF DriverTells, rows, Done
<1>6. /\ status'[r] \notin Settled /\ ~ LastPending(r)' /\ Done(r, Len(steps[r]) - 1)'
  BY <1>1, <1>3, LastFrame DEF rows, Done, Settled
<1> QED
  BY <1>1, <1>2, <1>5, <1>6, DriverLeavesRows

\* The step rows of a run, one by one.
LEMMA StepsIndexed ==
  ASSUME NEW r \in Calls, TypeInv
  PROVE  /\ steps[r] \in Seq(Step) /\ Len(steps[r]) \in Nat
         /\ DOMAIN steps[r] = 1..Len(steps[r])
         /\ steps[r] # << >> <=> Len(steps[r]) \in DOMAIN steps[r]
<1>1. steps[r] \in Seq(Step)
  BY TypeInvParts DEF RunTypes
<1> QED
  BY <1>1, SeqElements

\* InsertStep comes to a node when the step before it is completed.
LEMMA InsertStepTells ==
  ASSUME NEW r \in Calls, TypeInv, InHand(r), StepsTell(r),
         NEW p \in Requests, loc[p].run = r, InsertStep(p)
  PROVE  StepsTell(r)'
<1> DEFINE n == Len(steps[r])
           row == [node |-> loc[p].node, status |-> "running"]
<1>1. /\ pc[p] = "step" /\ pc' = [pc EXCEPT ![p] = "execute"]
      /\ steps' = [steps EXCEPT ![r] = Append(@, row)]
      /\ loc' = [loc EXCEPT ![p].step = n + 1]
      /\ UNCHANGED <<status, approvals>>
  BY DEF InsertStep, Goto
<1>2. Drives(p, r) /\ row \in Step
  BY <1>1, PCs, NodeInHand DEF Drives, Step
<1>3. /\ status[r] = "running" /\ Done(r, n) /\ ~ LastPending(r)
  BY <1>1, <1>2, DriverHolds DEF DriverInOrder, DriverTells, WalkPC
<1>4. /\ n \in Nat /\ Len(steps'[r]) = n + 1 /\ DOMAIN steps[r] = 1..n
      /\ \A i \in DOMAIN steps[r] : steps'[r][i] = steps[r][i]
  <2>1. steps \in [Calls -> Seq(Step)]
    BY TypeInvParts DEF RunTypes
  <2>2. steps' = [steps EXCEPT ![r] = Append(@, row)]
    BY <1>1
  <2> HIDE DEF row
  <2> QED
    BY <1>2, <2>1, <2>2, AppendRow
<1>5. /\ pc'[p] = "execute" /\ loc'[p].step = n + 1
      /\ \A q \in Requests \ {p} : pc'[q] = pc[q] /\ loc'[q] = loc[q]
  BY <1>1, TypeInvParts DEF RequestTypes, Local
<1>6. Done(r, Len(steps[r]) - 1)'
  BY <1>3, <1>4 DEF Done
<1>7. DriverTells(p, r)'
  BY <1>4, <1>5 DEF DriverTells
<1>8. status'[r] \notin Settled /\ ~ LastPending(r)'
  BY <1>1, <1>3, LastFrame DEF Settled
<1> QED
  BY <1>1, <1>2, <1>5, <1>6, <1>7, <1>8, DriverLeavesRows

\* The newest step gets its status: the others keep theirs.
LEMMA LastMarked ==
  ASSUME NEW r \in Calls, TypeInv, NEW i \in DOMAIN steps[r], i = Len(steps[r]),
         Done(r, Len(steps[r]) - 1), NEW s \in {"waiting", "completed", "failed"},
         steps' = [steps EXCEPT ![r][i].status = s]
  PROVE  /\ Len(steps'[r]) = Len(steps[r]) /\ steps'[r] # << >>
         /\ Done(r, Len(steps[r]) - 1)' /\ LastIs(r, s)'
         /\ s = "completed" => Done(r, Len(steps[r]))'
<1>1. /\ DOMAIN steps'[r] = DOMAIN steps[r] /\ Len(steps'[r]) = Len(steps[r])
      /\ \A j \in DOMAIN steps[r] \ {i} : steps'[r][j] = steps[r][j]
      /\ steps'[r][i].status = s
  BY StepRow, TypeInvParts
<1>2. Len(steps[r]) \in Nat /\ DOMAIN steps[r] = 1..Len(steps[r])
  BY StepsIndexed
<1>3. steps'[r] # << >>
  BY <1>1
<1> QED
  BY <1>1, <1>2, <1>3 DEF Done, LastIs

\* The outcome of a node, on its step row and in what the driver does next.
LEMMA NodeOutcomeTells ==
  ASSUME NEW r \in Calls, TypeInv, InHand(r), InHand(r)', StepsTell(r),
         NEW p \in Requests, loc[p].run = r,
         NodeProceeds(p) \/ NodeFinishes(p) \/ NodeFails(p) \/ NodeWaits(p)
  PROVE  StepsTell(r)'
<1> DEFINE n == loc[p].node
<1>1. PICK s \in {"waiting", "completed", "failed"} :
        /\ StepOutcome(p, s)
        /\ s = "waiting" => pc' = [pc EXCEPT ![p] = "requestApproval"]
        /\ s = "failed" => pc' = [pc EXCEPT ![p] = "failRun"]
        /\ s = "completed" => \/ pc' = [pc EXCEPT ![p] = "step"]
                              \/ /\ pc' = [pc EXCEPT ![p] = "completeRun"] /\ loc' = loc
                                 /\ NodeOf(p) # "approval"
                                 /\ n >= Len(Chain(r)) \/ NodeOf(p) \in {"condition", "output"}
  <2>1. CASE NodeProceeds(p)
    <3>1. n \in Nat /\ Len(Chain(r)) \in Nat
      BY NodeInHand, TypeInvParts, Chains DEF RequestTypes, Local, RunTypes, Chain
    <3> QED
      BY <2>1, <3>1 DEF NodeProceeds, Goto
  <2>2. CASE NodeFinishes(p)
    BY <2>2 DEF NodeFinishes, Goto
  <2>3. CASE NodeFails(p) \/ NodeWaits(p)
    BY <2>3 DEF NodeFails, NodeWaits, Goto
  <2> QED
    BY <2>1, <2>2, <2>3
<1>2. /\ pc[p] = "execute" /\ steps' = [steps EXCEPT ![r][loc[p].step].status = s]
      /\ UNCHANGED <<status, version, approvals, granted>>
  BY <1>1 DEF StepOutcome, SetStep, history
<1>3. /\ Drives(p, r) /\ loc[p].step \in DOMAIN steps[r]
      /\ n \in DOMAIN Chain(r) /\ n \in Nat /\ n + 1 \in Nat
  BY <1>2, PCs, NodeInHand, TypeInvParts DEF Drives, Placed, NodeKey
<1>4. /\ status[r] = "running" /\ loc[p].step = Len(steps[r]) /\ Len(steps[r]) = n
      /\ ~ LastPending(r) /\ Done(r, Len(steps[r]) - 1) /\ GatesBefore(r, n)
  BY SMTT(30), <1>2, <1>3, DriverHolds DEF DriverInOrder, DriverTells, WalkPC
<1>5. /\ Len(steps'[r]) = n /\ Done(r, Len(steps[r]) - 1)' /\ LastIs(r, s)'
      /\ s = "completed" => Done(r, Len(steps[r]))'
  BY <1>2, <1>3, <1>4, LastMarked
<1>6. /\ \A q \in Requests \ {p} : pc'[q] = pc[q] /\ loc'[q] = loc[q]
      /\ pc'[p] # "readRun" /\ pc[p] # "pauseRun"
  <2>1. OnlyMoves(p)
    BY ServeMoves DEF Serve, Walk
  <2> QED
    BY <1>1, <1>2, <2>1, TypeInvParts DEF OnlyMoves, RequestTypes
<1>7. ASSUME pc'[p] = "completeRun"
      PROVE  Len(steps'[r]) = loc'[p].node /\ GatesBefore(r, loc[p].node + 1)'
             /\ MayEndAt(r, loc[p].node)' /\ Done(r, Len(steps[r]))'
  <2>1. /\ s = "completed" /\ loc' = loc /\ Chain(r)[n] # "approval"
        /\ n >= Len(Chain(r)) \/ Chain(r)[n] \in {"condition", "output"}
    BY <1>1, <1>7, TypeInvParts DEF RequestTypes, NodeOf
  <2>2. PICK m \in Nat : m = n
    BY <1>3
  <2>3. GatesBefore(r, m + 1)'
    <3>1. GatesBefore(r, m + 1)
      BY <1>3, <1>4, <2>1, <2>2, GateStep DEF IsGate
    <3> QED
      BY <1>2, <2>2, <3>1, GatesBeforeFrame
  <2>4. n = Len(Chain(r)) \/ Chain(r)[n] \in {"condition", "output"}
    BY <1>3, <2>1, Chains, TypeInvParts DEF RunTypes, Chain
  <2>5. MayEndAt(r, m)'
    BY <1>2, <2>2, <2>4, GatesFrame DEF MayEndAt
  <2>6. loc'[p].node = m
    BY <2>1, <2>2
  <2> QED
    BY <1>5, <2>1, <2>2, <2>3, <2>5, <2>6
<1>8. DriverTells(p, r)'
  <2>1. /\ s = "waiting" => pc'[p] = "requestApproval"
        /\ s = "failed" => pc'[p] = "failRun"
        /\ s = "completed" => pc'[p] \in {"step", "completeRun"}
    BY <1>1, TypeInvParts DEF RequestTypes
  <2> QED
    BY <1>5, <1>7, <2>1 DEF DriverTells
<1>9. status'[r] \notin Settled /\ ~ LastPending(r)'
  BY <1>2, <1>4, LastFrame DEF Settled
<1> QED
  BY <1>3, <1>5, <1>6, <1>8, <1>9, DriverLeavesRows

\* A new approval is about the newest step, which waits.
LEMMA RequestApprovalTells ==
  ASSUME NEW r \in Calls, TypeInv, InHand(r), StepsTell(r),
         NEW p \in Requests, loc[p].run = r, RequestApproval(p)
  PROVE  StepsTell(r)'
<1> DEFINE a == [node |-> loc[p].node, status |-> "pending"]
<1>1. /\ pc[p] = "requestApproval" /\ pc' = [pc EXCEPT ![p] = "pauseRun"]
      /\ approvals' = [approvals EXCEPT ![r] = Append(@, a)]
      /\ UNCHANGED <<status, version, steps, loc>>
  BY DEF RequestApproval, Goto
<1>2. Drives(p, r) /\ a \in Approval /\ a.node = loc[p].node
  BY <1>1, PCs, NodeInHand DEF Drives, Approval
<1>3. /\ status[r] = "running" /\ Done(r, Len(steps[r]) - 1) /\ LastIs(r, "waiting")
      /\ Len(steps[r]) = loc[p].node
      /\ \A q \in Requests : ~ Reads(q, r)
      /\ \A q \in Requests \ {p} : ~ Drives(q, r)
  BY <1>1, <1>2, DriverHolds DEF DriverInOrder, DriverTells, WalkPC
<1>4. approvals'[r][Last(r)'].node = loc[p].node
  <2>1. /\ Len(approvals'[r]) = Len(approvals[r]) + 1
        /\ approvals'[r][Len(approvals[r]) + 1] = a
    <3>1. approvals \in [Calls -> Seq(Approval)]
      BY TypeInvParts DEF RunTypes
    <3>2. approvals' = [approvals EXCEPT ![r] = Append(@, a)]
      BY <1>1
    <3> HIDE DEF a
    <3> QED
      BY <1>2, <3>1, <3>2, AppendRow
  <2> QED
    BY <1>2, <2>1 DEF Last
<1>5. /\ pc'[p] = "pauseRun" /\ loc'[p].run = r
      /\ \A q \in Requests \ {p} : pc'[q] = pc[q] /\ loc'[q] = loc[q]
  BY <1>1, TypeInvParts DEF RequestTypes
<1>6. RowsTell(r)'
  BY <1>1, <1>3, <1>4 DEF RowsTell, Done, LastIs
<1>7. DriverTells(p, r)'
  BY <1>1, <1>3, <1>5 DEF DriverTells, LastIs
<1>8. \A q \in Requests \ {p} : ~ Drives(q, r)'
  BY <1>3, <1>5 DEF Drives
<1> QED
  BY <1>6, <1>7, <1>8 DEF StepsTell

\* The run is paused at its newest step.
LEMMA PauseRunTells ==
  ASSUME NEW r \in Calls, TypeInv, InHand(r), StepsTell(r),
         NEW p \in Requests, loc[p].run = r, PauseRun(p)
  PROVE  StepsTell(r)'
<1>1. /\ pc[p] = "pauseRun" /\ pc' = [pc EXCEPT ![p] = Returned(p)]
      /\ status' = [status EXCEPT ![r] = "waiting"]
      /\ UNCHANGED <<version, steps, approvals, loc>>
  BY DEF PauseRun, Goto, SetStatus
<1>2. Drives(p, r)
  BY <1>1, PCs DEF Drives
<1>3. /\ Done(r, Len(steps[r]) - 1) /\ LastIs(r, "waiting")
      /\ approvals[r][Last(r)].node = Len(steps[r])
      /\ \A q \in Requests \ {p} : ~ Drives(q, r)
  BY <1>1, <1>2, DriverHolds DEF DriverInOrder, DriverTells, WalkPC
<1>4. /\ status'[r] = "waiting" /\ pc'[p] \in {"idle", "done"}
      /\ \A q \in Requests \ {p} : pc'[q] = pc[q] /\ loc'[q] = loc[q]
  BY <1>1, TypeInvParts DEF RequestTypes, RunTypes, Returned
<1>5. RowsTell(r)'
  BY <1>1, <1>3, <1>4, LastFrame DEF RowsTell, Done, LastIs
<1>6. \A q \in Requests : ~ Drives(q, r)'
  BY <1>3, <1>4, PCs DEF Drives, StartPC
<1> QED
  BY <1>5, <1>6 DEF StepsTell

\* The three writes that end a run: the steps show how.
LEMMA SettleTells ==
  ASSUME NEW r \in Calls, TypeInv, InHand(r), StepsTell(r), Gone => Gone',
         NEW p \in Requests, loc[p].run = r,
         FailRun(p) \/ CompleteRun(p) \/ RejectRun(p)
  PROVE  StepsTell(r)'
<1>1. /\ pc[p] \in OnNode \ {"pauseRun"} /\ pc' = [pc EXCEPT ![p] = Returned(p)] /\ loc' = loc
      /\ UNCHANGED <<version, steps, approvals>>
      /\ \/ pc[p] \in {"failRun", "rejectRun"} /\ status' = [status EXCEPT ![r] = "failed"]
         \/ pc[p] = "completeRun" /\ status' = [status EXCEPT ![r] = "completed"]
  BY PCs DEF FailRun, CompleteRun, RejectRun, SetStatus, Goto
<1>2. Drives(p, r)
  BY <1>1 DEF Drives
<1>3. /\ Done(r, Len(steps[r]) - 1) /\ ~ LastPending(r)
      /\ \A q \in Requests : ~ Reads(q, r) /\ (q # p => ~ Drives(q, r))
      /\ pc[p] \in {"failRun", "rejectRun"} => Gone \/ LastIs(r, "failed")
      /\ pc[p] = "completeRun" => /\ Done(r, Len(steps[r])) /\ MayEndAt(r, Len(steps[r]))
                                  /\ Len(steps[r]) = loc[p].node
  BY <1>1, <1>2, DriverHolds DEF DriverTells
<1>4. pc[p] = "completeRun" => steps[r] # << >>
  BY <1>1, <1>3, NodeInHand, StepsIndexed DEF NodeKey, NoNode
<1>5. /\ pc'[p] \in {"idle", "done"}
      /\ \A q \in Requests \ {p} : pc'[q] = pc[q] /\ loc'[q] = loc[q]
      /\ \/ pc[p] \in {"failRun", "rejectRun"} /\ status'[r] = "failed"
         \/ pc[p] = "completeRun" /\ status'[r] = "completed"
  BY <1>1, TypeInvParts DEF RequestTypes, RunTypes, Returned
<1>6. RowsTell(r)'
  <2>1. ~ LastPending(r)' /\ Done(r, Len(steps[r]) - 1)'
    BY <1>1, <1>3, LastFrame DEF Done
  <2>2. MayEndAt(r, Len(steps[r])) => MayEndAt(r, Len(steps[r]))'
    BY <1>1, GatesFrame DEF MayEndAt
  <2> QED
    BY <1>1, <1>3, <1>4, <1>5, <2>1, <2>2 DEF RowsTell, Done, LastIs
<1>7. \A q \in Requests : ~ Drives(q, r)'
  BY <1>3, <1>5, PCs DEF Drives, StartPC
<1> QED
  BY <1>6, <1>7 DEF StepsTell

\* A decision says that somebody will read the run, at the step that waits.
LEMMA WriteDecisionTells ==
  ASSUME NEW r \in Calls, TypeInv, InHand(r), InHand(r)', StepsTell(r), Gone => Gone',
         NEW p \in Requests, loc[p].run = r, WriteDecision(p), r \notin redecided'
  PROVE  StepsTell(r)'
<1>1. /\ pc[p] = "decide" /\ pc' = [pc EXCEPT ![p] = "readRun"] /\ loc' = loc
      /\ approvals[r][loc[p].approval].status = "pending"
      /\ granted \subseteq granted'
      /\ UNCHANGED <<status, version, steps>>
  BY DEF WriteDecision, Goto
<1>2. /\ pc'[p] = "readRun" /\ loc'[p] = loc[p]
      /\ \A q \in Requests \ {p} : pc'[q] = pc[q] /\ loc'[q] = loc[q]
  BY <1>1, TypeInvParts DEF RequestTypes
<1>3. LastPending(r)
  <2>1. loc[p].approval \in DOMAIN approvals[r]
    BY <1>1, ReviewersDecide DEF DecidePC
  <2>2. loc[p].approval \notin 1..(Last(r) - 1)
    BY <1>1 DEF InHand, RowsInOrder
  <2>3. loc[p].approval = Last(r) /\ approvals[r] # << >>
    BY <2>1, <2>2, ApprovalsIndexed
  <2> QED
    BY <1>1, <2>3 DEF LastPending
<1>4. ~ LastPending(r)'
  <2>1. Reads(p, r)'
    BY <1>2 DEF Reads
  <2> QED
    BY <2>1 DEF InHand, DecidedLast
<1>5. /\ Done(r, Len(steps[r]) - 1) /\ status[r] \notin Settled
      /\ status[r] = "waiting" => LastIs(r, "waiting")
  BY <1>3 DEF StepsTell, RowsTell, Settled
<1>6. RowsTell(r)'
  BY <1>1, <1>4, <1>5 DEF RowsTell, Done, LastIs, Settled
<1>7. ASSUME NEW q \in Requests, Drives(q, r)' PROVE DriverTells(q, r)'
  <2>1. q # p /\ Drives(q, r) /\ pc'[q] = pc[q] /\ loc'[q] = loc[q]
    BY <1>2, <1>7, PCs DEF Drives, StartPC
  <2> QED
    BY <1>1, <2>1, DriverTellsFrame DEF StepsTell
<1> QED
  BY <1>6, <1>7 DEF StepsTell

\* Who finds the run waiting takes it up at the step that waits.
LEMMA ReadPausedRunTells ==
  ASSUME NEW r \in Calls, TypeInv, InHand(r), StepsTell(r), Gone => Gone',
         NEW p \in Requests, loc[p].run = r, ReadPausedRun(p)
  PROVE  StepsTell(r)'
<1>1. pc[p] = "readRun" /\ UNCHANGED <<rows, history>>
  BY DEF ReadPausedRun
<1>2. Reads(p, r)
  BY <1>1 DEF Reads
<1>3. CASE pc' = [pc EXCEPT ![p] = Returned(p)] /\ loc' = loc
  <2>1. \A q \in Requests : pc'[q] \in Active => pc'[q] = pc[q] /\ loc'[q] = loc[q]
    BY <1>3, TypeInvParts, PCs DEF RequestTypes, Active, StartPC, Returned
  <2> QED
    BY <1>1, <2>1, TellFrame DEF rows, history
<1>4. CASE /\ status[r] = "waiting"
           /\ pc' = [pc EXCEPT ![p] = "findStep"]
           /\ loc' = [loc EXCEPT ![p].node = resume[r]]
  <2>1. /\ pc'[p] = "findStep"
        /\ \A q \in Requests \ {p} : pc'[q] = pc[q] /\ loc'[q] = loc[q]
    BY <1>4, TypeInvParts DEF RequestTypes
  <2>2. \A q \in Requests : ~ Drives(q, r) /\ (Reads(q, r)' => Reads(q, r))
    BY <1>2, <1>4, <2>1 DEF InHand, OneDriver, DriverInOrder, WalkPC, Reads
  <2>3. LastIs(r, "waiting")
    BY <1>2, <1>4 DEF StepsTell, RowsTell
  <2>4. RowsTell(r)'
    BY <1>1, <2>2, RowsTellFrame DEF StepsTell, rows
  <2>5. DriverTells(p, r)'
    BY <1>1, <2>1, <2>3 DEF DriverTells, LastIs, rows
  <2>6. \A q \in Requests \ {p} : ~ Drives(q, r)'
    BY <2>1, <2>2 DEF Drives
  <2> QED
    BY <2>4, <2>5, <2>6 DEF StepsTell
<1> QED
  BY <1>3, <1>4 DEF ReadPausedRun, Goto

\* The step that is looked for is there, and is the newest.
LEMMA FindWaitingStepTells ==
  ASSUME NEW r \in Calls, TypeInv, InHand(r), StepsTell(r),
         NEW p \in Requests, loc[p].run = r, FindWaitingStep(p)
  PROVE  StepsTell(r)'
<1> DEFINE n == Len(steps[r])
<1>1. pc[p] = "findStep" /\ pc[p] \in ResumePC /\ UNCHANGED rows
  BY DEF FindWaitingStep, ResumePC
<1>2. Drives(p, r) /\ status[r] = "waiting" /\ loc[p].node = resume[r] /\ RowsInOrder(r)
  BY <1>1, ResumeFacts
<1>3. /\ LastIs(r, "waiting") /\ ~ LastPending(r) /\ Done(r, n - 1)
      /\ n = loc[p].node
  BY <1>1, <1>2, DriverHolds DEF DriverTells, RowsInOrder
<1>4. WaitingSteps(r, loc[p].node) = {n}
  BY <1>2, <1>3, StepsIndexed DEF WaitingSteps, RowsInOrder, LastIs
<1>5. pc' = [pc EXCEPT ![p] = "markStep"] /\ loc' = [loc EXCEPT ![p].step = n]
  BY <1>4 DEF FindWaitingStep, Goto
<1>6. /\ pc'[p] = "markStep" /\ loc'[p].step = n
      /\ \A q \in Requests \ {p} : pc'[q] = pc[q] /\ loc'[q] = loc[q]
  BY <1>5, TypeInvParts DEF RequestTypes, Local
<1>7. DriverTells(p, r)'
  BY <1>1, <1>3, <1>6 DEF DriverTells, LastIs, rows
<1>8. status'[r] \notin Settled /\ ~ LastPending(r)' /\ Done(r, Len(steps[r]) - 1)'
  BY <1>1, <1>2, <1>3, LastFrame DEF rows, Done, Settled
<1> QED
  BY <1>1, <1>2, <1>6, <1>7, <1>8, DriverLeavesRows

\* It is marked as the approval was decided.
LEMMA MarkWaitingStepTells ==
  ASSUME NEW r \in Calls, TypeInv, InHand(r), StepsTell(r),
         NEW p \in Requests, loc[p].run = r, MarkWaitingStep(p)
  PROVE  StepsTell(r)'
<1>1. PICK s \in {"waiting", "completed", "failed"} :
        /\ steps' = [steps EXCEPT ![r][loc[p].step].status = s]
        /\ s = (IF loc[p].decision = "rejected" THEN "failed" ELSE "completed")
  BY DEF MarkWaitingStep, SetStep
<1>2. /\ pc[p] = "markStep" /\ pc[p] \in ResumePC
      /\ pc' = [pc EXCEPT ![p] = AfterMark(p)] /\ loc' = loc
      /\ UNCHANGED <<status, version, approvals>>
  BY DEF MarkWaitingStep, Goto, ResumePC
<1>3. /\ Drives(p, r) /\ status[r] = "waiting" /\ loc[p].decision \in Decision
      /\ loc[p].step \in DOMAIN steps[r]
  BY <1>2, ResumeFacts, TypeInvParts DEF Placed
<1>4. /\ loc[p].step = Len(steps[r]) /\ Done(r, Len(steps[r]) - 1) /\ ~ LastPending(r)
  BY <1>2, <1>3, DriverHolds DEF DriverTells
<1>5. /\ Done(r, Len(steps[r]) - 1)' /\ LastIs(r, s)'
      /\ s = "completed" => Done(r, Len(steps[r]))'
  BY <1>1, <1>3, <1>4, LastMarked
<1>6. /\ pc'[p] = (IF loc[p].decision = "rejected" THEN "rejectRun" ELSE "restartRun")
      /\ \A q \in Requests \ {p} : pc'[q] = pc[q] /\ loc'[q] = loc[q]
  BY <1>2, TypeInvParts DEF RequestTypes, AfterMark
<1>7. DriverTells(p, r)'
  BY <1>1, <1>5, <1>6 DEF DriverTells
<1>8. status'[r] \notin Settled /\ ~ LastPending(r)'
  BY <1>2, <1>3, <1>4, LastFrame DEF Settled
<1> QED
  BY <1>2, <1>3, <1>5, <1>6, <1>7, <1>8, DriverLeavesRows

\* The run goes on with all its steps completed.
LEMMA RestartRunTells ==
  ASSUME NEW r \in Calls, TypeInv, InHand(r), StepsTell(r),
         NEW p \in Requests, loc[p].run = r, RestartRun(p)
  PROVE  StepsTell(r)'
<1>1. /\ pc[p] = "restartRun" /\ pc' = [pc EXCEPT ![p] = "lookup"] /\ loc' = loc
      /\ status' = [status EXCEPT ![r] = "running"]
      /\ UNCHANGED <<version, steps, approvals>>
  BY DEF RestartRun, Goto, SetStatus
<1>2. Drives(p, r)
  BY <1>1, PCs DEF Drives
<1>3. Done(r, Len(steps[r])) /\ Done(r, Len(steps[r]) - 1) /\ ~ LastPending(r)
  BY <1>1, <1>2, DriverHolds DEF DriverTells
<1>4. /\ pc'[p] = "lookup" /\ status'[r] \notin Settled
      /\ \A q \in Requests \ {p} : pc'[q] = pc[q] /\ loc'[q] = loc[q]
  BY <1>1, TypeInvParts DEF RequestTypes, RunTypes, Settled
<1>5. DriverTells(p, r)' /\ ~ LastPending(r)' /\ Done(r, Len(steps[r]) - 1)'
  BY <1>1, <1>3, <1>4, LastFrame DEF DriverTells, Done
<1> QED
  BY <1>1, <1>2, <1>4, <1>5, DriverLeavesRows

\* Behind the gate: the next node, the end of the chain, or a version that is
\* going.
LEMMA LookupSuccessorTells ==
  ASSUME NEW r \in Calls, TypeInv, InHand(r), StepsTell(r), VersionsKept, Gone => Gone',
         NEW p \in Requests, loc[p].run = r, LookupSuccessor(p)
  PROVE  StepsTell(r)'
<1>1. pc[p] = "lookup" /\ UNCHANGED <<rows, history>>
  BY DEF LookupSuccessor
<1>2. Drives(p, r)
  BY <1>1, PCs DEF Drives
<1>3. /\ status[r] = "running" /\ Done(r, Len(steps[r])) /\ Done(r, Len(steps[r]) - 1)
      /\ ~ LastPending(r) /\ Len(steps[r]) = loc[p].node /\ GatesBefore(r, loc[p].node + 1)
  BY <1>1, <1>2, DriverHolds DEF DriverInOrder, DriverTells
<1>4. /\ \A q \in Requests \ {p} : pc'[q] = pc[q] /\ loc'[q] = loc[q]
      /\ \/ pc'[p] = "failRun" /\ ~ VersionFound(r)
         \/ pc'[p] = "completeRun" /\ loc' = loc /\ loc[p].node = Len(Chain(r))
         \/ pc'[p] = "load"
  BY TypeInvParts DEF LookupSuccessor, Goto, RequestTypes
<1>5. DriverTells(p, r)'
  <2>1. CASE pc'[p] = "failRun" /\ ~ VersionFound(r)
    <3>1. Gone'
      BY <1>3, <2>1 DEF VersionFound, VersionsKept
    <3> QED
      BY <2>1, <3>1 DEF DriverTells
  <2>2. CASE pc'[p] = "completeRun" /\ loc' = loc /\ loc[p].node = Len(Chain(r))
    <3>1. PICK m \in Nat : m = loc[p].node /\ m = loc'[p].node
      BY <2>2, TypeInvParts DEF RequestTypes, Local
    <3>2. GatesBefore(r, m + 1)'
      BY <1>1, <1>3, <3>1, GatesBeforeFrame DEF rows, history
    <3>3. MayEndAt(r, m)'
      BY <1>1, <2>2, <3>1, GatesFrame DEF MayEndAt, rows
    <3> QED
      BY <1>1, <1>3, <2>2, <3>1, <3>2, <3>3 DEF DriverTells, Done, rows
  <2>3. CASE pc'[p] = "load"
    BY <1>1, <1>3, <2>3 DEF DriverTells, Done, rows
  <2> QED
    BY <1>4, <2>1, <2>2, <2>3
<1>6. status'[r] \notin Settled /\ ~ LastPending(r)' /\ Done(r, Len(steps[r]) - 1)'
  BY <1>1, <1>3, LastFrame DEF rows, Done, Settled
<1>7. pc[p] # "pauseRun" /\ pc'[p] # "readRun"
  BY <1>1, <1>4
<1> QED
  BY <1>2, <1>4, <1>5, <1>6, <1>7, DriverLeavesRows

\* Every step of every request leaves the step rows of a run telling, unless
\* it decides one of the run's approvals again.
LEMMA ServeTells ==
  ASSUME NEW r \in Calls, TypeInv, TypeInv', InHand(r), InHand(r)', StepsTell(r),
         VersionsKept, Gone => Gone', NEW p \in Requests, Serve(p), r \notin redecided'
  PROVE  StepsTell(r)'
<1>1. CASE loc[p].run # r
  BY <1>1, ServeMoves, ServeRows, TellFrame DEF OnlyMoves, RowsStay
<1>2. CASE loc[p].run = r /\ Start(p)
  BY <1>2, StartTells DEF Start
<1>3. CASE loc[p].run = r /\ Decide(p)
  BY <1>3, WriteDecisionTells, ReadPausedRunTells, FindWaitingStepTells,
     MarkWaitingStepTells, SettleTells, RestartRunTells, LookupSuccessorTells DEF Decide
<1>4. CASE loc[p].run = r /\ Walk(p)
  BY <1>4, LoadVersionTells, InsertStepTells, NodeOutcomeTells, RequestApprovalTells,
     PauseRunTells, SettleTells DEF Walk
<1> QED
  BY <1>1, <1>2, <1>3, <1>4 DEF Serve

\* What is no step of an accepted request has no run in hand, or takes the
\* first step towards one that has nothing yet.
LEMMA OthersTell ==
  ASSUME NEW r \in Calls, TypeInv, StepsTell(r), Gone => Gone',
         [Next]_vars, \A p \in Requests : ~ Serve(p)
  PROVE  StepsTell(r)'
<1>1. /\ UNCHANGED <<status, version, resume, steps, approvals, granted>>
      /\ \A q \in Requests : \/ pc'[q] = pc[q] /\ loc'[q] = loc[q]
                             \/ pc'[q] \in {"idle", "done", "automation", "decide"}
  BY OthersKeepRuns, OthersMove
<1>2. \A q \in Requests : Reads(q, r)' => Reads(q, r)
  BY <1>1 DEF Reads
<1>3. RowsTell(r)'
  BY <1>1, <1>2, RowsTellFrame DEF StepsTell
<1>4. ASSUME NEW q \in Requests, Drives(q, r)' PROVE DriverTells(q, r)'
  <2>1. CASE pc'[q] = pc[q] /\ loc'[q] = loc[q]
    BY <1>1, <1>4, <2>1, DriverTellsFrame DEF StepsTell, Drives
  <2>2. CASE pc'[q] \in {"idle", "done", "automation", "decide"}
    BY <2>2 DEF DriverTells
  <2> QED
    BY <1>1, <2>1, <2>2
<1> QED
  BY <1>3, <1>4 DEF StepsTell

\* Initially there is nothing to tell.
LEMMA InitTells == Init => TraceInv
<1> SUFFICES ASSUME Init PROVE TraceInv
  OBVIOUS
<1>1. IndInv
  BY InitTyped, InitInHand DEF IndInv
<1>2. /\ \A p \in Requests : pc[p] = "idle"
      /\ \A r \in Calls : /\ status[r] = "none" /\ resume[r] = NoNode
                          /\ steps[r] = << >> /\ approvals[r] = << >>
      /\ granted = {}
  BY DEF Init
<1>3. AtGates
  BY <1>2 DEF AtGates, ResumePC
<1>4. VersionsKept
  BY <1>2 DEF VersionsKept
<1>5. \A r \in Calls : NothingYet(r)
  BY <1>2 DEF NothingYet
<1>6. ASSUME NEW r \in Calls PROVE StepsTell(r)
  <2>1. \A p \in Requests : ~ Drives(p, r)
    BY <1>2, PCs DEF Drives, StartPC
  <2>2. RowsTell(r)
    BY <1>2 DEF RowsTell, Done, LastPending
  <2> QED
    BY <2>1, <2>2 DEF StepsTell
<1> QED
  BY <1>1, <1>3, <1>4, <1>5, <1>6 DEF TraceInv

\* The step of the invariant.
LEMMA NextTells == TraceInv /\ [Next]_vars => TraceInv'
<1> SUFFICES ASSUME TraceInv, [Next]_vars PROVE TraceInv'
  OBVIOUS
<1>1. /\ TypeInv /\ AtGates /\ VersionsKept
      /\ \A r \in Calls : NothingYet(r)
  BY DEF TraceInv, IndInv
<1>2. TypeInv'
  BY <1>1, NextTyped
<1>3. redecided \subseteq redecided' /\ (Gone => Gone')
  BY RedecidedGrows, GoneStays
<1>4. ASSUME NEW r \in Calls \ redecided' PROVE InHand(r) /\ InHand(r)' /\ StepsTell(r)
  BY <1>1, <1>3, <1>4, NextInHand DEF TraceInv, IndInv
<1>5. ASSUME NEW r \in Calls \ redecided' PROVE StepsTell(r)'
  BY <1>1, <1>2, <1>3, <1>4, ServeTells, OthersTell
<1>6. IndInv'
  BY <1>2, <1>4 DEF IndInv
<1>7. AtGates' /\ VersionsKept' /\ \A r \in Calls : NothingYet(r)'
  BY <1>1, AtGatesStep, VersionsKeptStep, NothingYetStep
<1> QED
  BY <1>5, <1>6, <1>7 DEF TraceInv

\* The invariant behind the theorems below: IndInv, and what the step rows of
\* every run whose approvals were decided once tell (executor.ts, actions.ts).
THEOREM TraceInvariant == Spec => []TraceInv
BY InitTells, NextTells, PTL DEF Spec

\* A run recorded as completed has completed every step it took and stopped
\* where a run may stop, whoever paused, resumed or crashed on the way.
THEOREM CompletedAreWhole == Spec => []CompletedRunsAreWhole
<1>1. TraceInv => CompletedRunsAreWhole
  <2> SUFFICES ASSUME TraceInv, NEW r \in Calls \ redecided, status[r] = "completed"
               PROVE  CompletedRunsAreWhole!(r)!2
    BY DEF CompletedRunsAreWhole
  <2>1. /\ steps[r] # << >> /\ Done(r, Len(steps[r])) /\ MayEndAt(r, Len(steps[r]))
        /\ RowsInOrder(r) /\ TypeInv
    BY DEF TraceInv, StepsTell, RowsTell, IndInv, InHand
  <2>2. steps[r][Len(steps[r])].node = Len(steps[r])
    BY <2>1, StepsIndexed DEF RowsInOrder
  <2> QED
    BY <2>1, <2>2, StepsIndexed DEF Done, MayEndAt
<1> QED
  BY <1>1, TraceInvariant, PTL

\* A run recorded as failed shows the step that failed or the gate that was
\* rejected, or its automation is being deleted.
THEOREM FailedShowWhy == Spec => []FailedRunsShowWhy
<1>1. TraceInv => FailedRunsShowWhy
  BY DEF TraceInv, StepsTell, RowsTell, FailedRunsShowWhy, Gone, LastIs
<1> QED
  BY <1>1, TraceInvariant, PTL

=============================================================================
