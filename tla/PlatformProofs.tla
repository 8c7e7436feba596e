--------------------------- MODULE PlatformProofs ---------------------------
(***************************************************************************)
(* What the platform's requests keep of the rows, for any number of them   *)
(* in flight, on either store, wherever each of them is cut off: a caller  *)
(* may take a store's call for one step; the nightly cycle owes each       *)
(* organization one brief a day, and word of it; credentials open after a  *)
(* restart; wrong passwords are counted; accepted audit requests are kept; *)
(* requests write the collections of their area only; the fleet is seeded  *)
(* once.                                                                   *)
(***************************************************************************)
EXTENDS Platform, TLAPS, FiniteSetTheorems

-----------------------------------------------------------------------------
(***************************************************************************)
(* The points from which each component takes its requests a step on.      *)
(***************************************************************************)
AccountsPC == {"signUp.email", "signUp.slug", "signIn.attempt", "signIn.password",
               "signOut.session", "invite.user", "invite.member", "member.read",
               "member.owners", "member.write", "sandbox.write"}
IntakePC == {"funnel.limit", "funnel.org", "funnel.readReceipts", "funnel.truncate",
             "funnel.fill", "commerce.create", "commerce.move"}
KnowledgePC == {"source.create", "document.source", "document.read", "document.chunks",
                "knowledge.retrieve", "strategy.probe", "strategy.find",
                "strategy.documents", "strategy.delete", "strategy.create",
                "strategy.complete", "strategy.add"}
AgentsPC == {"agent.create", "agent.read", "agent.current", "agent.status",
             "fleet.names", "fleet.next"}
EvalsPC == {"suite.agent", "case.add", "case.suite", "case.remove", "run.suite",
            "run.cases", "run.answer", "run.judge"}
NightlyPC == {"nightly.orgs", "nightly.next", "nightly.brief", "nightly.run"}
WorkspacePC == {"vault.load", "vault.read", "vault.truncate", "vault.fill",
                "vault.seal", "vault.revoke", "credential.read", "vault.open",
                "inbox.send", "inbox.read", "inbox.mark"}
SystemsPC == {"system.create", "system.update", "system.read", "system.linked",
              "automation.create", "automation.read", "automation.system",
              "automation.version", "automation.start", "automation.runs",
              "automation.versions", "automation.remove"}

-----------------------------------------------------------------------------
(***************************************************************************)
(* A store's calls: the inductive invariant.                               *)
(***************************************************************************)
StorePC == {"idle", "store.read", "store.open", "store.fill", "store.rename",
            "store.write"}

\* The point at which a client holds rows that it has read, and what it made of them.
Holding(c) == pc[c] \in {"store.open", "store.fill", "store.rename", "store.write"}

\* The points between the opening of a temporary file and its renaming.
Opened(c) == pc[c] \in {"store.fill", "store.rename"}

\* Clients have a write and a number of their own, and rows that are rows.
Writers ==
  /\ pc \in [Clients -> StorePC]
  /\ DOMAIN loc = Clients
  /\ served \in 0 .. MaxRequests[area]
  /\ \A c \in Clients : InFlight(c) => /\ loc[c].op \in Write
                                       /\ Number(c) \in 1 .. served
                                       /\ {"op", "n"} \subseteq DOMAIN loc[c]
  /\ \A c, d \in Clients : InFlight(c) /\ InFlight(d) /\ c # d
                             => /\ Number(c) # Number(d)
                                /\ {loc[c].op, loc[d].op} \in met
  /\ \A c \in Clients : Holding(c) => loc[c].rows \subseteq Row /\ "rows" \in DOMAIN loc[c]
  /\ \A c \in Clients : Opened(c) => /\ loc[c].stamp \in 1 .. MaxRequests[area]
                                     /\ loc[c].inode \in 1 .. MaxRequests[area]
                                     /\ {"stamp", "inode"} \subseteq DOMAIN loc[c]

\* The files: names, inodes, and the collection as it should be.
Files ==
  /\ inodes \in [0 .. MaxRequests[area] -> (SUBSET Row) \cup {Truncated}]
  /\ temp \in [1 .. MaxRequests[area] -> 1 .. MaxRequests[area] \cup {None}]
  /\ file \in 0 .. MaxRequests[area]
  /\ serial \subseteq Row

\* On Postgres there is one table, always whole, and clients look and write; on the
\* files they read, open, fill and rename.
Table0 ==
  /\ postgres => file = 0 /\ Content \subseteq Row
  /\ \A c \in Clients : IF postgres THEN ~Opened(c) /\ pc[c] # "store.open"
                                   ELSE pc[c] # "store.write"

\* A writer whose temporary name is its own: before it opens the file there is none
\* of that name, and from then on nobody else touches the inode.
OwnTemp(c) ==
  /\ file # Number(c)
  /\ pc[c] \in {"store.read", "store.open"} => temp[Number(c)] = None
  /\ Opened(c) =>
        /\ loc[c].stamp = Number(c) /\ loc[c].inode = Number(c)
        /\ temp[Number(c)] = Number(c)
  /\ pc[c] = "store.rename" => inodes[Number(c)] = loc[c].rows

\* On the files, while no two writes have shared a temporary name.
Named ==
  ~postgres /\ ~collided =>
     /\ Content \subseteq Row /\ file \in 0 .. served
     /\ \A n \in served + 1 .. MaxRequests[area] : temp[n] = None
     /\ \A c \in Clients : InFlight(c) => OwnTemp(c)

\* On the files, while no two writes have been in flight together.
Alone ==
  ~postgres /\ met = {} =>
     /\ ~collided /\ Content = serial
     /\ \A c \in Clients : Holding(c) => loc[c].rows = Effect(loc[c].op, Number(c), serial)

\* On Postgres, while no mutate has been in flight with another write.
Unmixed ==
  postgres /\ (\A pair \in met : "mutate" \notin pair) =>
     /\ Content = serial
     /\ \A c \in Clients : pc[c] = "store.write" /\ loc[c].op = "mutate"
                             => loc[c].rows = {r \in Content : r.id = 0}

\* Elsewhere the collection is what it was.
Untouched == ~collided /\ file = 0 /\ inodes[0] = Rows /\ serial = Rows

InStore ==
  /\ postgres \in BOOLEAN /\ collided \in BOOLEAN
  /\ Writers /\ Files /\ Table0 /\ Named /\ Alone /\ Unmixed

StoreInv ==
  /\ area \in Areas
  /\ area = "store" => InStore
  /\ area # "store" => Untouched
-----------------------------------------------------------------------------
(***************************************************************************)
(* Records, and how requests move.                                         *)
(***************************************************************************)
\* Writing a patch over a record sets the fields of the patch and keeps the others.
LEMMA Overwritten ==
  ASSUME NEW patch, NEW record
  PROVE  /\ DOMAIN Over(patch, record) = DOMAIN patch \cup DOMAIN record
         /\ \A f \in DOMAIN patch : Over(patch, record)[f] = patch[f]
         /\ \A f \in DOMAIN record : f \notin DOMAIN patch => Over(patch, record)[f] = record[f]
BY DEF Over

\* Where each component's steps start.
LEMMA StepsStart ==
  ASSUME NEW c \in Clients
  PROVE  /\ AccountsStep(c) => pc[c] \in AccountsPC
         /\ IntakeStep(c) => pc[c] \in IntakePC
         /\ KnowledgeStep(c) => pc[c] \in KnowledgePC
         /\ AgentsStep(c) => pc[c] \in AgentsPC
         /\ EvalsStep(c) => pc[c] \in EvalsPC
         /\ NightlyStep(c) => pc[c] \in NightlyPC
         /\ WorkspaceStep(c) => pc[c] \in WorkspacePC
         /\ SystemsStep(c) => pc[c] \in SystemsPC
         /\ StoreCall(c) => pc[c] = "calling"
<1> USE DEF At
<1>1. AccountsStep(c) => pc[c] \in AccountsPC
  BY DEF AccountsPC, AccountsStep, CheckEmail, ChooseSlug, ReadAttempt, WrongPassword, RightPassword,
      DestroySession, FindInvited, AddMember, ReadMember, CountOwners, WriteMember,
      SetSandboxMode
<1>2. IntakeStep(c) => pc[c] \in IntakePC
  BY DEF IntakePC, IntakeStep, CheckMemory, CheckShared, RecordRequest, ReadReceipts,
      TruncateReceipts, WriteReceipts, InsertRecord, UpdateRecord
<1>3. KnowledgeStep(c) => pc[c] \in KnowledgePC
  BY DEF KnowledgePC, KnowledgeStep, InsertSource, AddDocument, Retrieve, ReadDocument, RemoveDocument, Probe,
      FindStrategySource, ListDocuments, DeleteSource, CreateStrategySource,
      CompleteDocument, AddStrategyDocument
<1>4. AgentsStep(c) => pc[c] \in AgentsPC
  BY DEF AgentsPC, AgentsStep, InsertAgent, ReadAgent, SaveAgentVersion, SetAgentStatus,
      ReadFleet, SeedNext
<1>5. EvalsStep(c) => pc[c] \in EvalsPC
  BY DEF EvalsPC, EvalsStep, CheckSuiteAgent, InsertCase, ReadCaseSuite, RemoveCase, ReadSuite,
      StartRun, Answer, Judge, FinishRun
<1>6. NightlyStep(c) => pc[c] \in NightlyPC
  BY DEF NightlyPC, NightlyStep, ReadOrganizations, NextOrganization, CheckBrief, InsertBrief
<1>7. WorkspaceStep(c) => pc[c] \in WorkspacePC
  BY DEF WorkspacePC, WorkspaceStep, LoadVaultKey, ReadKeyFile, TruncateKeyFile, WriteKeyFile,
      StoreCredential, RevokeCredential, ReadCredential, OpenSecret, SendNotification,
      ReadInbox, MarkNext
<1>8. SystemsStep(c) => pc[c] \in SystemsPC
  BY DEF SystemsPC, SystemsStep, InsertSystem, UpdateSystem, ReadSystem, DeleteSystem,
      InsertAutomation, ReadAutomation, UpdateAutomation, SaveDefinition, StartExecution,
      CountRuns, ListDefinitions, DeleteAutomation
<1>9. StoreCall(c) => pc[c] = "calling"
  BY DEF StoreCall
<1> QED
  BY <1>1, <1>2, <1>3, <1>4, <1>5, <1>6, <1>7, <1>8, <1>9

\* None of them is one of the store's points.
LEMMA OthersRest ==
  ASSUME NEW c \in Clients, pc[c] \in StorePC
  PROVE  /\ ~AccountsStep(c) /\ ~IntakeStep(c) /\ ~KnowledgeStep(c) /\ ~AgentsStep(c)
         /\ ~EvalsStep(c) /\ ~NightlyStep(c) /\ ~WorkspaceStep(c) /\ ~SystemsStep(c)
         /\ ~StoreCall(c)
BY StepsStart DEF StorePC, AccountsPC, IntakePC, KnowledgePC, AgentsPC, EvalsPC, NightlyPC,
   WorkspacePC, SystemsPC

\* Steps of the components write nothing but their own variables and where their
\* request is: all writing to the database is left to StoreCall.
LEMMA StepsLeave ==
  ASSUME NEW c \in Clients,
         \/ AccountsStep(c) \/ IntakeStep(c) \/ KnowledgeStep(c) \/ AgentsStep(c)
         \/ EvalsStep(c) \/ NightlyStep(c) \/ WorkspaceStep(c) \/ SystemsStep(c)
         \/ StoresStep(c)
  PROVE  UNCHANGED <<postgres, area, db, served, met, cuts>>
<1> USE DEF At, history
<1>1. CASE AccountsStep(c)
  BY SMTT(30), <1>1 DEF AccountsStep, CheckEmail, ChooseSlug, ReadAttempt, WrongPassword,
      RightPassword, DestroySession, FindInvited, AddMember, ReadMember, CountOwners,
      WriteMember, SetSandboxMode
<1>2. CASE IntakeStep(c)
  BY SMTT(30), <1>2 DEF IntakeStep, CheckMemory, CheckShared, RecordRequest, ReadReceipts,
      TruncateReceipts, WriteReceipts, InsertRecord, UpdateRecord
<1>3. CASE KnowledgeStep(c)
  BY <1>3 DEF KnowledgeStep, InsertSource, AddDocument, Retrieve, ReadDocument, RemoveDocument,
      Probe, FindStrategySource, ListDocuments, DeleteSource, CreateStrategySource,
      CompleteDocument, AddStrategyDocument
<1>4. CASE AgentsStep(c)
  BY <1>4 DEF AgentsStep, InsertAgent, ReadAgent, SaveAgentVersion, SetAgentStatus,
      ReadFleet, SeedNext
<1>5. CASE EvalsStep(c)
  BY <1>5 DEF EvalsStep, CheckSuiteAgent, InsertCase, ReadCaseSuite, RemoveCase,
      ReadSuite, StartRun, Answer, Judge, FinishRun
<1>6. CASE NightlyStep(c)
  BY <1>6 DEF NightlyStep, ReadOrganizations, NextOrganization, CheckBrief,
      InsertBrief
<1>7. CASE WorkspaceStep(c)
  BY <1>7 DEF WorkspaceStep, LoadVaultKey, ReadKeyFile, TruncateKeyFile,
      WriteKeyFile, StoreCredential, RevokeCredential, ReadCredential, OpenSecret,
      SendNotification, ReadInbox, MarkNext
<1>8. CASE SystemsStep(c)
  BY <1>8 DEF SystemsStep, InsertSystem, UpdateSystem, ReadSystem, DeleteSystem,
      InsertAutomation, ReadAutomation, UpdateAutomation, SaveDefinition, StartExecution,
      CountRuns, ListDefinitions, DeleteAutomation
<1>9. CASE StoresStep(c)
  BY <1>9 DEF StoresStep, ReadCollection, OpenTemp, FillTemp, RenameTemp, FindRow,
      WriteRow
<1> QED
  BY SMTT(30), <1>1, <1>2, <1>3, <1>4, <1>5, <1>6, <1>7, <1>8, <1>9

\* So do requests as they are accepted.
LEMMA SubmitsLeave ==
  ASSUME NEW c \in Clients,
         \/ AccountsSubmit(c) \/ IntakeSubmit(c) \/ KnowledgeSubmit(c) \/ AgentsSubmit(c)
         \/ EvalsSubmit(c) \/ NightlySubmit(c) \/ WorkspaceSubmit(c) \/ SystemsSubmit(c)
         \/ Calls(c)
  PROVE  UNCHANGED <<postgres, area, db, cuts>>
<1> USE DEF Accept, AcceptFrom
<1>1. CASE AccountsSubmit(c)
  BY <1>1 DEF AccountsSubmit, SubmitSignIn, SubmitSignUp, SubmitSignOut,
      InviteMember, ChangeRole, RemoveMember, ToggleSandbox
<1>2. CASE IntakeSubmit(c)
  BY <1>2 DEF IntakeSubmit, PostAuditRequest, CreateRecord, MoveRecord
<1>3. CASE KnowledgeSubmit(c)
  BY <1>3 DEF KnowledgeSubmit, CreateSource, PasteDocument, KnowledgeWrite,
      DeleteDocument, AskKnowledge, GenerateStrategy
<1>4. CASE AgentsSubmit(c)
  BY <1>4 DEF AgentsSubmit, CreateAgent, SaveAgent, ChangeAgentStatus, SeedFleet
<1>5. CASE EvalsSubmit(c)
  BY <1>5 DEF EvalsSubmit, CreateSuite, AddCase, DeleteCase, RunSuite
<1>6. CASE NightlySubmit(c)
  BY <1>6 DEF NightlySubmit, StartCycle
<1>7. CASE WorkspaceSubmit(c)
  BY <1>7 DEF WorkspaceSubmit, AddIntegration, RevokeIntegration, UseCredential,
      MarkRead, MarkAllRead, NotifyTool
<1>8. CASE SystemsSubmit(c)
  BY <1>8 DEF SystemsSubmit, CreateSystem, ChangeSystem, CreateAutomation,
      ChangeAutomation, RunAutomation
<1>9. CASE Calls(c)
  BY <1>9 DEF Calls
<1> QED
  BY SMTT(30), <1>1, <1>2, <1>3, <1>4, <1>5, <1>6, <1>7, <1>8, <1>9

-----------------------------------------------------------------------------
(***************************************************************************)
(* What the platform does to the collection.                               *)
(***************************************************************************)
\* A behaviour keeps to its area and its kind of store; outside the area "store"
\* nothing touches the collection, and inside it nothing else happens.
LEMMA Frame ==
  ASSUME [Next]_vars
  PROVE  /\ UNCHANGED <<area, postgres>>
         /\ area # "store" => UNCHANGED storeVars
         /\ area = "store" /\ pc \in [Clients -> StorePC] =>
               \/ UNCHANGED <<requestVars, storeVars>>
               \/ \E c \in Clients : \/ Calls(c) \/ StoresStep(c)
                                     \/ CutOff(c) /\ UNCHANGED storeVars
<1>1. CASE UNCHANGED vars
  BY <1>1 DEF vars, requestVars
<1>2. CASE Environment
  BY <1>2 DEF Environment, LockExpires, WindowPasses, DayPasses, Restart, requestVars, history
<1>3. ASSUME NEW c \in Clients, Submit(c)
      PROVE  /\ UNCHANGED <<area, postgres>>
             /\ area # "store" => UNCHANGED storeVars
             /\ area = "store" => Calls(c)
  <2>1. UNCHANGED <<area, postgres>>
    BY <1>3, SubmitsLeave DEF Submit
  <2>2. ~Calls(c) => UNCHANGED storeVars
    BY <1>3 DEF Submit
  <2>3. Calls(c) => area = "store" /\ UNCHANGED storeVars
    BY DEF Calls
  <2>4. area = "store" => Calls(c)
    BY <1>3 DEF Submit, AccountsSubmit, IntakeSubmit, KnowledgeSubmit, AgentsSubmit,
        EvalsSubmit, NightlySubmit, WorkspaceSubmit, SystemsSubmit
  <2> QED
    BY <2>1, <2>2, <2>3, <2>4
<1>4. ASSUME NEW c \in Clients, Step(c)
      PROVE  /\ UNCHANGED <<area, postgres>>
             /\ area # "store" => UNCHANGED storeVars
             /\ area = "store" /\ pc \in [Clients -> StorePC] =>
                   StoresStep(c) \/ (CutOff(c) /\ UNCHANGED storeVars)
  <2>1. CASE StoreCall(c) /\ UNCHANGED storeVars
    BY <2>1, OthersRest DEF StoreCall, At, history
  <2>2. CASE CutOff(c) /\ UNCHANGED storeVars
    BY <2>2 DEF CutOff
  <2>3. CASE StoresStep(c)
    <3>1. area = "store"
      BY <2>3 DEF StoresStep
    <3>2. UNCHANGED <<area, postgres>>
      BY <2>3, StepsLeave
    <3> QED
      BY <2>3, <3>1, <3>2
  <2>4. CASE /\ \/ AccountsStep(c) \/ IntakeStep(c) \/ KnowledgeStep(c) \/ AgentsStep(c)
                \/ EvalsStep(c) \/ NightlyStep(c) \/ WorkspaceStep(c) \/ SystemsStep(c)
             /\ UNCHANGED storeVars
    BY <2>4, StepsLeave, OthersRest
  <2> QED
    BY <1>4, <2>1, <2>2, <2>3, <2>4 DEF Step
<1> QED
  BY <1>1, <1>2, <1>3, <1>4 DEF Next

-----------------------------------------------------------------------------
(***************************************************************************)
(* A store's calls: the invariant, action by action, in the area "store".  *)
(***************************************************************************)
\* A write makes rows of rows, and an update without its row does nothing.
LEMMA EffectRows ==
  ASSUME NEW op \in Write, NEW n \in Int, NEW rows \in SUBSET Row
  PROVE  Effect(op, n, rows) \in SUBSET Row
<1>1. NewRow(n) \in Row
  BY DEF NewRow, Row
<1>2. CASE op = "insert"
  BY <1>1, <1>2 DEF Effect
<1>3. CASE op = "update"
  BY <1>3 DEF Effect, Row
<1>4. CASE op = "mutate"
  BY <1>4 DEF Effect, Row
<1>5. CASE op = "remove"
  BY <1>5 DEF Effect
<1>6. CASE op = "upsert"
  BY <1>6 DEF Effect, Row, NewRow
<1> QED
  BY <1>2, <1>3, <1>4, <1>5, <1>6 DEF Write

LEMMA EffectNothing ==
  ASSUME NEW op, NeedsRow(op), NEW n, NEW rows, ~Present(rows)
  PROVE  Effect(op, n, rows) = rows
BY DEF NeedsRow, Effect, Present

\* A mutate that writes back the row as it still is, is a mutate at once.
LEMMA EffectOfMutate ==
  ASSUME NEW n, NEW rows
  PROVE  Effect("mutate", n, rows)
           = {r \in rows : r.id # 0} \cup Effect("mutate", n, {r \in rows : r.id = 0})
BY DEF Effect

\* A truncated file holds something that is no row.
LEMMA TruncatedIsNone == Truncated \notin SUBSET Row
BY StoresAssumption DEF Truncated

\* A write is called.
LEMMA CallsKeep ==
  ASSUME area = "store", InStore, MaxRequests[area] \in Nat, NEW c \in Clients, Calls(c)
  PROVE  InStore'
<1>1. PICK op \in Write : Accept(c, "store.read", [op |-> op])
  BY DEF Calls
<1>2. UNCHANGED <<postgres, area, inodes, file, temp, serial, collided>>
  BY <1>1 DEF Calls, Accept, storeVars
<1>3. /\ pc[c] = "idle" /\ served' = served + 1 /\ served < MaxRequests[area]
      /\ pc' \in [Clients -> StorePC] /\ pc'[c] = "store.read" /\ DOMAIN loc' = Clients
      /\ \A d \in Clients \ {c} : pc'[d] = pc[d] /\ loc'[d] = loc[d]
      /\ loc'[c] = Over([op |-> op], [n |-> served + 1])
      /\ met \subseteq met'
      /\ \A d \in Clients : InFlight(d) => {op, loc[d].op} \in met'
  BY <1>1 DEF Accept, StorePC, InStore, Writers
<1>4. loc'[c].op = op /\ loc'[c].n = served + 1 /\ {"op", "n"} \subseteq DOMAIN loc'[c]
  BY <1>3 DEF Over
<1>5. Writers'
  <2>1. /\ InFlight(c)' /\ ~Holding(c)' /\ ~InFlight(c)
        /\ \A d \in Clients \ {c} : /\ InFlight(d)' <=> InFlight(d)
                                    /\ Holding(d)' <=> Holding(d)
    BY <1>3 DEF InFlight, Holding
  <2>2. /\ served' \in 0 .. MaxRequests[area]
        /\ served \in Nat
        /\ \A d \in Clients \ {c} : InFlight(d) => loc[d].n \in 1 .. served
    BY <1>3 DEF InStore, Writers, Number
  <2>3. \A d, e \in Clients : InFlight(d)' /\ InFlight(e)' /\ d # e
           => Number(d)' # Number(e)' /\ {loc'[d].op, loc'[e].op} \in met'
    <3> SUFFICES ASSUME NEW d \in Clients, NEW e \in Clients \ {d}, InFlight(d)', InFlight(e)'
                 PROVE  Number(d)' # Number(e)' /\ {loc'[d].op, loc'[e].op} \in met'
      OBVIOUS
    <3>1. CASE d = c
      <4>1. loc'[e] = loc[e] /\ loc[e].n \in 1 .. served /\ {op, loc[e].op} \in met'
        BY <1>3, <2>1, <2>2, <3>1 DEF InFlight
      <4> QED
        BY <1>4, <2>2, <3>1, <4>1 DEF Number
    <3>2. CASE e = c
      <4>1. loc'[d] = loc[d] /\ loc[d].n \in 1 .. served /\ {op, loc[d].op} \in met'
        BY <1>3, <2>1, <2>2, <3>2 DEF InFlight
      <4>2. {op, loc[d].op} = {loc[d].op, op}
        OBVIOUS
      <4>3. {loc'[d].op, loc'[e].op} \in met'
        BY <1>4, <3>2, <4>1, <4>2
      <4> QED
        BY <1>4, <2>2, <3>2, <4>1, <4>3 DEF Number
    <3>3. CASE d # c /\ e # c
      <4>1. loc'[d] = loc[d] /\ loc'[e] = loc[e]
        BY <1>3, <3>3
      <4>2. InFlight(d) /\ InFlight(e) /\ d # e
        BY <1>3, <3>3 DEF InFlight
      <4>3. Number(d) # Number(e) /\ {loc[d].op, loc[e].op} \in met
        BY <4>2 DEF InStore, Writers
      <4> QED
        BY <1>3, <4>1, <4>3 DEF Number
    <3> QED
      BY <3>1, <3>2, <3>3
  <2>4. \A d \in Clients : InFlight(d)' => /\ loc'[d].op \in Write
                                           /\ Number(d)' \in 1 .. served'
                                           /\ {"op", "n"} \subseteq DOMAIN loc'[d]
    <3>1. ASSUME NEW d \in Clients \ {c}, InFlight(d)
          PROVE  loc[d].op \in Write /\ {"op", "n"} \subseteq DOMAIN loc[d]
      BY <3>1 DEF InStore, Writers
    <3> QED
      BY <1>3, <1>4, <2>1, <2>2, <3>1 DEF Number, InFlight
  <2>5. \A d \in Clients : Holding(d)' => loc'[d].rows \subseteq Row /\ "rows" \in DOMAIN loc'[d]
    BY <1>3, <2>1 DEF InStore, Writers, Holding
  <2>6. \A d \in Clients : Opened(d)' => /\ loc'[d].stamp \in 1 .. MaxRequests[area]
                                         /\ loc'[d].inode \in 1 .. MaxRequests[area]
                                         /\ {"stamp", "inode"} \subseteq DOMAIN loc'[d]
    BY <1>3 DEF InStore, Writers, Opened
  <2> QED
    BY <1>2, <1>3, <2>2, <2>3, <2>4, <2>5, <2>6 DEF Writers
<1>6. Files' /\ Table0'
  BY <1>2, <1>3 DEF InStore, Files, Table0, Opened, Content
<1>7. Named'
  <2> SUFFICES ASSUME ~postgres, ~collided
               PROVE  Named'
    BY <1>2 DEF Named
  <2>1. OwnTemp(c)'
    BY <1>2, <1>3, <1>4 DEF OwnTemp, Opened, Number, InStore, Named, Writers
  <2>2. ASSUME NEW d \in Clients \ {c}, InFlight(d)'
        PROVE  OwnTemp(d)'
    BY <1>2, <1>3, <2>2 DEF OwnTemp, Opened, Number, InStore, Named, InFlight
  <2> QED
    BY <1>2, <1>3, <2>1, <2>2 DEF InStore, Named, Content, Writers
<1>8. Alone'
  <2> SUFFICES ASSUME ~postgres, met' = {}
               PROVE  Alone'
    BY <1>2 DEF Alone
  <2>1. \A d \in Clients \ {c} : Holding(d)' => Holding(d)
    BY <1>3 DEF Holding
  <2> QED
    BY <1>2, <1>3, <2>1 DEF InStore, Alone, Content, Number, Holding
<1>9. Unmixed'
  BY <1>2, <1>3 DEF InStore, Unmixed, Content
<1> QED
  BY <1>2, <1>5, <1>6, <1>7, <1>8, <1>9 DEF InStore

\* A writer that answers or is cut off leaves the other writers as they were.
LEMMA Leaves ==
  ASSUME InStore, NEW c \in Clients, Respond(c), UNCHANGED <<area, served, met>>
  PROVE  /\ Writers'
         /\ pc' \in [Clients -> StorePC] /\ pc'[c] = "idle"
         /\ \A d \in Clients \ {c} : pc'[d] = pc[d] /\ loc'[d] = loc[d]
<1>1. DOMAIN loc = Clients /\ pc \in [Clients -> StorePC] /\ "idle" \in StorePC
  BY DEF InStore, Writers, StorePC
<1>2. /\ pc' \in [Clients -> StorePC] /\ DOMAIN loc' = Clients /\ pc'[c] = "idle"
      /\ \A d \in Clients \ {c} : pc'[d] = pc[d] /\ loc'[d] = loc[d]
  BY <1>1 DEF Respond
<1>3. Writers'
  BY <1>2 DEF InStore, Writers, InFlight, Number, Holding, Opened
<1> QED
  BY <1>2, <1>3

\* It has written nothing at that.
LEMMA RestKeeps ==
  ASSUME area = "store", InStore, NEW c \in Clients, Respond(c),
         UNCHANGED <<postgres, area, served, met, storeVars>>
  PROVE  InStore'
<1>1. UNCHANGED <<inodes, file, temp, serial, collided>>
  BY DEF storeVars
<1>2. /\ Writers' /\ pc'[c] = "idle"
      /\ \A d \in Clients \ {c} : pc'[d] = pc[d] /\ loc'[d] = loc[d]
  BY Leaves
<1>3. Files' /\ Table0'
  BY <1>1, <1>2 DEF InStore, Files, Table0, Opened, Content
<1>4. Named'
  BY <1>1, <1>2 DEF InStore, Named, OwnTemp, Opened, Number, InFlight, Content
<1>5. Alone'
  BY <1>1, <1>2 DEF InStore, Alone, Holding, Number, Content
<1>6. Unmixed'
  BY <1>1, <1>2 DEF InStore, Unmixed, Content
<1> QED
  BY <1>1, <1>2, <1>3, <1>4, <1>5, <1>6 DEF InStore

\* A writer that goes on keeps its write and its number.
LEMMA GoesOn ==
  ASSUME InStore, NEW c \in Clients, InFlight(c), UNCHANGED <<area, served, met>>,
         NEW where \in StorePC \ {"idle"},
         NEW locals, "op" \notin DOMAIN locals, "n" \notin DOMAIN locals,
         Goto(c, where, locals),
         where # "store.read" => loc'[c].rows \subseteq Row /\ "rows" \in DOMAIN loc'[c],
         where \in {"store.fill", "store.rename"} =>
             /\ loc'[c].stamp \in 1 .. MaxRequests[area]
             /\ loc'[c].inode \in 1 .. MaxRequests[area]
             /\ {"stamp", "inode"} \subseteq DOMAIN loc'[c]
  PROVE  /\ Writers'
         /\ pc' \in [Clients -> StorePC] /\ pc'[c] = where
         /\ loc'[c] = Over(locals, loc[c])
         /\ loc'[c].op = loc[c].op /\ loc'[c].n = loc[c].n
         /\ \A d \in Clients \ {c} : pc'[d] = pc[d] /\ loc'[d] = loc[d]
<1>1. /\ pc' \in [Clients -> StorePC] /\ DOMAIN loc' = Clients /\ pc'[c] = where
      /\ loc'[c] = Over(locals, loc[c])
      /\ \A d \in Clients \ {c} : pc'[d] = pc[d] /\ loc'[d] = loc[d]
  <2>1. DOMAIN loc = Clients /\ pc \in [Clients -> StorePC]
    BY DEF InStore, Writers
  <2> QED
    BY <2>1 DEF Goto
<1>2. {"op", "n"} \subseteq DOMAIN loc[c]
  BY DEF InStore, Writers
<1>3. /\ loc'[c].op = loc[c].op /\ loc'[c].n = loc[c].n
      /\ {"op", "n"} \subseteq DOMAIN loc'[c]
  BY <1>1, <1>2 DEF Over
<1>4. \A d \in Clients : InFlight(d)' => InFlight(d)
  BY <1>1 DEF InFlight
<1>5. \A d \in Clients : loc'[d].op = loc[d].op /\ loc'[d].n = loc[d].n
  BY <1>1, <1>3
<1>6. \A d \in Clients : InFlight(d)' => /\ loc'[d].op \in Write
                                         /\ Number(d)' \in 1 .. served'
                                         /\ {"op", "n"} \subseteq DOMAIN loc'[d]
  BY <1>1, <1>3, <1>4, <1>5 DEF InStore, Writers, Number, InFlight
<1>7. \A d, e \in Clients : InFlight(d)' /\ InFlight(e)' /\ d # e
         => Number(d)' # Number(e)' /\ {loc'[d].op, loc'[e].op} \in met'
  BY <1>4, <1>5 DEF InStore, Writers, Number, InFlight
<1>8. \A d \in Clients : Holding(d)' => loc'[d].rows \subseteq Row /\ "rows" \in DOMAIN loc'[d]
  <2> SUFFICES ASSUME NEW d \in Clients, Holding(d)'
               PROVE  loc'[d].rows \subseteq Row /\ "rows" \in DOMAIN loc'[d]
    OBVIOUS
  <2>1. CASE d = c
    BY <1>1, <2>1 DEF Holding
  <2>2. CASE d # c
    BY <1>1, <2>2 DEF InStore, Writers, Holding
  <2> QED
    BY <2>1, <2>2
<1>9. \A d \in Clients : Opened(d)' => /\ loc'[d].stamp \in 1 .. MaxRequests[area]
                                       /\ loc'[d].inode \in 1 .. MaxRequests[area]
                                       /\ {"stamp", "inode"} \subseteq DOMAIN loc'[d]
  <2> SUFFICES ASSUME NEW d \in Clients, Opened(d)'
               PROVE  /\ loc'[d].stamp \in 1 .. MaxRequests[area]
                      /\ loc'[d].inode \in 1 .. MaxRequests[area]
                      /\ {"stamp", "inode"} \subseteq DOMAIN loc'[d]
    OBVIOUS
  <2>1. CASE d = c
    BY <1>1, <2>1 DEF Opened
  <2>2. CASE d # c
    BY <1>1, <2>2 DEF InStore, Writers, Opened
  <2> QED
    BY <2>1, <2>2
<1>10. served' \in 0 .. MaxRequests[area]'
  BY DEF InStore, Writers
<1> QED
  BY <1>1, <1>3, <1>6, <1>7, <1>8, <1>9, <1>10 DEF Writers

\* readCollection: a torn file would be an empty collection, but it is never torn
\* while temporary names are told apart.
LEMMA ReadCollectionKeeps ==
  ASSUME area = "store", InStore, MaxRequests[area] \in Nat, NEW c \in Clients,
         ReadCollection(c)
  PROVE  InStore'
<1> DEFINE rows == IF Content = Truncated THEN {} ELSE Content
           held == Effect(loc[c].op, Number(c), rows)
<1>1. /\ pc[c] = "store.read" /\ InFlight(c) /\ ~postgres
      /\ UNCHANGED <<postgres, area, db, served, met, storeVars>>
  BY DEF ReadCollection, At, history, InFlight
<1>2. CASE Respond(c)
  BY <1>1, <1>2, RestKeeps
<1>3. CASE Goto(c, "store.open", [rows |-> held])
  <2>1. UNCHANGED <<inodes, file, temp, serial, collided>>
    BY <1>1 DEF storeVars
  <2>2. rows \subseteq Row /\ loc[c].op \in Write /\ Number(c) \in Int
    <3>1. Content \in (SUBSET Row) \cup {Truncated}
      BY DEF InStore, Files, Content
    <3>2. loc[c].op \in Write /\ Number(c) \in 1 .. served
      BY <1>1 DEF InStore, Writers
    <3>3. rows \subseteq Row
      BY <3>1
    <3> QED
      BY <3>2, <3>3
  <2>3. held \subseteq Row
    BY <2>2, EffectRows
  <2>4. DOMAIN [rows |-> held] = {"rows"}
    OBVIOUS
  <2>5. loc'[c].rows = held /\ "rows" \in DOMAIN loc'[c]
    <3>1. loc'[c] = Over([rows |-> held], loc[c])
      BY <1>3 DEF Goto, InStore, Writers
    <3> HIDE DEF held
    <3> QED
      BY <3>1 DEF Over
  <2> HIDE DEF held
  <2>6. /\ Writers'
        /\ pc' \in [Clients -> StorePC] /\ pc'[c] = "store.open"
        /\ loc'[c].op = loc[c].op /\ loc'[c].n = loc[c].n
        /\ \A d \in Clients \ {c} : pc'[d] = pc[d] /\ loc'[d] = loc[d]
    <3>1. "store.open" \in StorePC \ {"idle"}
      BY DEF StorePC
    <3> QED
      BY <1>1, <1>3, <2>3, <2>4, <2>5, <3>1, GoesOn
  <2>7. Files' /\ Table0'
    BY <1>1, <2>1, <2>6 DEF InStore, Files, Table0, Opened
  <2>8. Named'
    <3> SUFFICES ASSUME ~collided PROVE Named'
      BY <2>1 DEF Named
    <3>1. \A d \in Clients : InFlight(d) => OwnTemp(d)
      BY <1>1 DEF InStore, Named
    <3>2. OwnTemp(c)'
      BY <1>1, <2>1, <2>6, <3>1 DEF OwnTemp, Opened, Number
    <3>3. ASSUME NEW d \in Clients \ {c}, InFlight(d)'
          PROVE  OwnTemp(d)'
      BY <1>1, <2>1, <2>6, <3>1, <3>3 DEF OwnTemp, Opened, Number, InFlight
    <3> QED
      BY <1>1, <2>1, <2>6, <3>2, <3>3 DEF InStore, Named, Content
  <2>9. Alone'
    <3> SUFFICES ASSUME met = {} PROVE Alone'
      BY <1>1 DEF Alone
    <3>1. ~collided /\ Content = serial /\ Content \subseteq Row
      BY <1>1 DEF InStore, Alone, Named
    <3>2. held = Effect(loc[c].op, Number(c), serial)
      BY <3>1, TruncatedIsNone DEF held
    <3> QED
      BY <1>1, <2>1, <2>5, <2>6, <3>1, <3>2 DEF InStore, Alone, Holding, Number, Content
  <2>10. Unmixed'
    BY <1>1 DEF Unmixed
  <2> QED
    BY <1>1, <2>1, <2>6, <2>7, <2>8, <2>9, <2>10 DEF InStore
<1> QED
  BY <1>2, <1>3 DEF ReadCollection

\* writeCollection opens a temporary file, one of its own unless it meets another
\* writer in the same millisecond.
LEMMA OpenTempKeeps ==
  ASSUME area = "store", InStore, MaxRequests[area] \in Nat, NEW c \in Clients, OpenTemp(c)
  PROVE  InStore'
<1>1. /\ pc[c] = "store.open" /\ InFlight(c) /\ Holding(c)
      /\ UNCHANGED <<postgres, area, db, served, met, file, serial>>
  BY DEF OpenTemp, At, history, InFlight, Holding
<1>2. ~postgres
  BY <1>1 DEF InStore, Table0, Opened
<1>3. PICK stamp \in {Number(c)} \cup Stamps :
        LET inode == IF temp[stamp] = None THEN Number(c) ELSE temp[stamp]
        IN  /\ temp' = [temp EXCEPT ![stamp] = inode]
            /\ inodes' = [inodes EXCEPT ![inode] = Truncated]
            /\ collided' = (collided \/ stamp # Number(c))
            /\ Goto(c, "store.fill", [stamp |-> stamp, inode |-> inode])
  BY DEF OpenTemp
<1> DEFINE inode == IF temp[stamp] = None THEN Number(c) ELSE temp[stamp]
           new == [stamp |-> stamp, inode |-> inode]
<1>4. /\ temp' = [temp EXCEPT ![stamp] = inode]
      /\ inodes' = [inodes EXCEPT ![inode] = Truncated]
      /\ collided' = (collided \/ stamp # Number(c))
      /\ Goto(c, "store.fill", new)
  BY <1>3
<1>5. Number(c) \in 1 .. served /\ served \in 0 .. MaxRequests[area]
  BY <1>1 DEF InStore, Writers
<1>6. stamp \in 1 .. MaxRequests[area]
  <2>1. CASE stamp \in Stamps
    BY <2>1 DEF Stamps, InStore, Writers, Opened
  <2> QED
    BY <1>5, <2>1
<1>7. inode \in 1 .. MaxRequests[area]
  BY <1>5, <1>6 DEF InStore, Files
<1> HIDE DEF inode
<1>8. DOMAIN new = {"stamp", "inode"}
  OBVIOUS
<1>9. /\ loc'[c].stamp = stamp /\ loc'[c].inode = inode /\ loc'[c].rows = loc[c].rows
      /\ {"stamp", "inode", "rows"} \subseteq DOMAIN loc'[c]
  <2>1. loc'[c] = Over(new, loc[c])
    BY <1>4 DEF Goto, InStore, Writers
  <2>2. "rows" \in DOMAIN loc[c]
    BY <1>1 DEF InStore, Writers
  <2> QED
    BY <2>1, <2>2 DEF Over
<1>10. /\ Writers'
       /\ pc' \in [Clients -> StorePC] /\ pc'[c] = "store.fill"
       /\ loc'[c].op = loc[c].op /\ loc'[c].n = loc[c].n
       /\ \A d \in Clients \ {c} : pc'[d] = pc[d] /\ loc'[d] = loc[d]
  <2>1. loc[c].rows \subseteq Row /\ "store.fill" \in StorePC \ {"idle"}
    BY <1>1 DEF InStore, Writers, StorePC
  <2> HIDE DEF new
  <2> QED
    BY <1>1, <1>4, <1>6, <1>7, <1>8, <1>9, <2>1, GoesOn
<1>11. Files'
  <2>1. inodes' \in [0 .. MaxRequests[area] -> (SUBSET Row) \cup {Truncated}]
    BY <1>4 DEF InStore, Files
  <2>2. temp' \in [1 .. MaxRequests[area] -> 1 .. MaxRequests[area] \cup {None}]
    BY <1>4, <1>7 DEF InStore, Files
  <2> QED
    BY <1>1, <2>1, <2>2 DEF InStore, Files
<1>12. Table0' /\ Unmixed'
  BY <1>1, <1>2, <1>10 DEF InStore, Table0, Unmixed
<1>13. Named'
  <2> SUFFICES ASSUME ~collided, stamp = Number(c) PROVE Named'
    BY <1>4 DEF Named, InStore
  <2>1. \A d \in Clients : InFlight(d) => OwnTemp(d)
    BY <1>2 DEF InStore, Named
  <2>2. temp[Number(c)] = None /\ file # Number(c)
    BY <1>1, <2>1 DEF OwnTemp
  <2>3. inode = Number(c)
    BY <2>2 DEF inode
  <2>4. OwnTemp(c)'
    BY <1>1, <1>4, <1>5, <1>6, <1>9, <1>10, <2>2, <2>3 DEF OwnTemp, Opened, Number, InStore, Files
  <2>5. ASSUME NEW d \in Clients \ {c}, InFlight(d)'
        PROVE  OwnTemp(d)'
    <3>1. InFlight(d) /\ InFlight(c)
      BY <1>1, <1>10, <2>5 DEF InFlight
    <3>2. Number(d) # Number(c)
      BY <3>1 DEF InStore, Writers
    <3> QED
      BY <1>1, <1>4, <1>10, <2>1, <2>3, <3>1, <3>2 DEF OwnTemp, Opened, Number, InStore, Files
  <2>6. Content' = Content
    BY <1>1, <1>4, <2>2, <2>3 DEF Content, InStore, Files
  <2> QED
    BY <1>1, <1>2, <1>4, <1>5, <1>10, <2>4, <2>5, <2>6 DEF InStore, Named
<1>14. Alone'
  <2> SUFFICES ASSUME met = {} PROVE Alone'
    BY <1>1 DEF Alone
  <2>1. Stamps = {}
    <3> SUFFICES ASSUME NEW d \in Clients, pc[d] \in {"store.fill", "store.rename"}
                 PROVE  FALSE
      BY DEF Stamps
    <3>1. d # c /\ InFlight(d)
      BY <1>1 DEF InFlight
    <3> QED
      BY <1>1, <3>1 DEF InStore, Writers
  <2>2. ~collided /\ Content = serial
    BY <1>2 DEF InStore, Alone
  <2>3. stamp = Number(c) /\ ~collided'
    BY <1>4, <2>1, <2>2
  <2>4. inode = Number(c) /\ file # Number(c)
    <3>1. OwnTemp(c)
      BY <1>1, <1>2, <2>2 DEF InStore, Named
    <3> QED
      BY <1>1, <2>3, <3>1 DEF OwnTemp, inode
  <2>5. Content' = Content
    BY <1>1, <1>4, <2>4 DEF Content, InStore, Files
  <2> QED
    BY <1>1, <1>2, <1>9, <1>10, <2>2, <2>3, <2>5 DEF InStore, Alone, Holding, Number
<1>15. postgres' \in BOOLEAN /\ collided' \in BOOLEAN
  BY <1>1, <1>4 DEF InStore
<1> QED
  BY <1>10, <1>11, <1>12, <1>13, <1>14, <1>15 DEF InStore

\* The rows are written into the inode that was opened.
LEMMA FillTempKeeps ==
  ASSUME area = "store", InStore, MaxRequests[area] \in Nat, NEW c \in Clients, FillTemp(c)
  PROVE  InStore'
<1>1. /\ pc[c] = "store.fill" /\ InFlight(c) /\ Holding(c) /\ Opened(c)
      /\ UNCHANGED <<postgres, area, db, served, met, file, temp, serial, collided>>
      /\ inodes' = [inodes EXCEPT ![loc[c].inode] = loc[c].rows]
      /\ Goto(c, "store.rename", Nothing)
  BY DEF FillTemp, At, history, InFlight, Holding, Opened
<1>2. ~postgres
  BY <1>1 DEF InStore, Table0, Opened
<1>3. /\ loc[c].stamp \in 1 .. MaxRequests[area] /\ loc[c].inode \in 1 .. MaxRequests[area]
      /\ {"stamp", "inode", "rows"} \subseteq DOMAIN loc[c] /\ loc[c].rows \subseteq Row
  BY <1>1 DEF InStore, Writers
<1>4. DOMAIN Nothing = {"calls"}
  BY DEF Nothing
<1>5. /\ loc'[c].stamp = loc[c].stamp /\ loc'[c].inode = loc[c].inode
      /\ loc'[c].rows = loc[c].rows /\ {"stamp", "inode", "rows"} \subseteq DOMAIN loc'[c]
  <2>1. loc'[c] = Over(Nothing, loc[c])
    BY <1>1 DEF Goto, InStore, Writers
  <2> QED
    BY <1>3, <1>4, <2>1 DEF Over
<1>6. /\ Writers'
      /\ pc' \in [Clients -> StorePC] /\ pc'[c] = "store.rename"
      /\ loc'[c].op = loc[c].op /\ loc'[c].n = loc[c].n
      /\ \A d \in Clients \ {c} : pc'[d] = pc[d] /\ loc'[d] = loc[d]
  <2>1. "store.rename" \in StorePC \ {"idle"}
    BY DEF StorePC
  <2> QED
    BY <1>1, <1>3, <1>4, <1>5, <2>1, GoesOn
<1>7. Files'
  BY <1>1, <1>3 DEF InStore, Files
<1>8. Table0' /\ Unmixed'
  BY <1>1, <1>2, <1>6 DEF InStore, Table0, Unmixed
<1>9. ~collided => Content' = Content /\ loc[c].inode = Number(c)
  <2> SUFFICES ASSUME ~collided PROVE Content' = Content /\ loc[c].inode = Number(c)
    OBVIOUS
  <2>1. OwnTemp(c)
    BY <1>1, <1>2 DEF InStore, Named
  <2>2. file # Number(c) /\ loc[c].inode = Number(c)
    BY <1>1, <2>1 DEF OwnTemp
  <2> QED
    BY <1>1, <2>2 DEF Content, InStore, Files
<1>10. Named'
  <2> SUFFICES ASSUME ~collided PROVE Named'
    BY <1>1 DEF Named
  <2>1. \A d \in Clients : InFlight(d) => OwnTemp(d)
    BY <1>2 DEF InStore, Named
  <2>2. OwnTemp(c)'
    BY <1>1, <1>3, <1>5, <1>6, <2>1 DEF OwnTemp, Opened, Number, InStore, Files
  <2>3. ASSUME NEW d \in Clients \ {c}, InFlight(d)'
        PROVE  OwnTemp(d)'
    <3>1. InFlight(d)
      BY <1>6, <2>3 DEF InFlight
    <3>2. Number(d) # Number(c)
      BY <1>1, <3>1 DEF InStore, Writers
    <3> QED
      BY <1>1, <1>6, <1>9, <2>1, <3>1, <3>2 DEF OwnTemp, Opened, Number, InStore, Files
  <2> QED
    BY <1>1, <1>2, <1>6, <1>9, <2>2, <2>3 DEF InStore, Named
<1>11. Alone'
  <2> SUFFICES ASSUME met = {} PROVE Alone'
    BY <1>1 DEF Alone
  <2> QED
    BY <1>1, <1>2, <1>5, <1>6, <1>9 DEF InStore, Alone, Holding, Number
<1> QED
  BY <1>1, <1>6, <1>7, <1>8, <1>10, <1>11 DEF InStore

\* The temporary file takes the collection's name: the write has taken effect.
LEMMA RenameTempKeeps ==
  ASSUME area = "store", InStore, MaxRequests[area] \in Nat, NEW c \in Clients, RenameTemp(c)
  PROVE  InStore'
<1> DEFINE stamp == loc[c].stamp
           inode == temp[stamp]
<1>1. /\ pc[c] = "store.rename" /\ InFlight(c) /\ Holding(c) /\ Opened(c)
      /\ UNCHANGED <<postgres, area, db, served, met, inodes, collided>> /\ Respond(c)
  BY DEF RenameTemp, At, history, InFlight, Holding, Opened
<1>2. ~postgres
  BY <1>1 DEF InStore, Table0, Opened
<1>3. CASE inode = None
  <2>1. UNCHANGED storeVars
    BY <1>1, <1>3 DEF RenameTemp, storeVars
  <2> QED
    BY <1>1, <2>1, RestKeeps
<1>4. CASE inode # None
  <2>1. /\ file' = inode /\ temp' = [temp EXCEPT ![stamp] = None]
        /\ serial' = Effect(loc[c].op, Number(c), serial)
    BY <1>4 DEF RenameTemp
  <2>2. /\ stamp \in 1 .. MaxRequests[area] /\ loc[c].op \in Write
        /\ Number(c) \in 1 .. served /\ served \in Nat /\ loc[c].rows \subseteq Row
    BY <1>1 DEF InStore, Writers
  <2>3. /\ Writers' /\ pc' \in [Clients -> StorePC] /\ pc'[c] = "idle"
        /\ \A d \in Clients \ {c} : pc'[d] = pc[d] /\ loc'[d] = loc[d]
    BY <1>1, Leaves
  <2>4. Files'
    <3>1. file' \in 0 .. MaxRequests[area]
      BY <1>4, <2>1, <2>2 DEF InStore, Files
    <3>2. serial' \in SUBSET Row
      BY <2>1, <2>2, EffectRows DEF InStore, Files
    <3> QED
      BY <1>1, <2>1, <3>1, <3>2 DEF InStore, Files
  <2>5. Table0' /\ Unmixed'
    BY <1>1, <1>2, <2>3 DEF InStore, Table0, Unmixed
  <2>6. ~collided => /\ stamp = Number(c) /\ inode = Number(c)
                     /\ Content' = loc[c].rows
    <3> SUFFICES ASSUME ~collided
                 PROVE  stamp = Number(c) /\ inode = Number(c) /\ Content' = loc[c].rows
      OBVIOUS
    <3>1. OwnTemp(c)
      BY <1>1, <1>2 DEF InStore, Named
    <3>2. stamp = Number(c) /\ inode = Number(c) /\ inodes[Number(c)] = loc[c].rows
      BY <1>1, <3>1 DEF OwnTemp
    <3> QED
      BY <1>1, <2>1, <3>2 DEF Content
  <2>7. Named'
    <3> SUFFICES ASSUME ~collided PROVE Named'
      BY <1>1 DEF Named
    <3>1. ASSUME NEW d \in Clients, InFlight(d)'
          PROVE  OwnTemp(d)'
      <4>1. InFlight(d) /\ d # c
        BY <2>3, <3>1 DEF InFlight
      <4>2. Number(d) # Number(c) /\ OwnTemp(d)
        BY <1>1, <1>2, <4>1 DEF InStore, Writers, Named
      <4> QED
        BY <1>1, <2>1, <2>3, <2>6, <4>1, <4>2 DEF OwnTemp, Opened, Number, InStore, Files
    <3>2. \A n \in served + 1 .. MaxRequests[area] : temp'[n] = None
      BY <1>2, <2>1, <2>2 DEF InStore, Named, Files
    <3>3. Content' \subseteq Row /\ file' \in 0 .. served'
      BY <1>1, <2>1, <2>2, <2>6
    <3> QED
      BY <1>1, <3>1, <3>2, <3>3 DEF Named
  <2>8. Alone'
    <3> SUFFICES ASSUME met = {} PROVE Alone'
      BY <1>1 DEF Alone
    <3>1. ~collided /\ loc[c].rows = serial'
      BY <1>1, <1>2, <2>1 DEF InStore, Alone
    <3>2. \A d \in Clients : ~Holding(d)'
      <4> SUFFICES ASSUME NEW d \in Clients, Holding(d)' PROVE FALSE
        OBVIOUS
      <4>1. d # c /\ InFlight(d)
        BY <2>3 DEF Holding, InFlight
      <4> QED
        BY <1>1, <4>1 DEF InStore, Writers
    <3> QED
      BY <1>1, <2>6, <3>1, <3>2 DEF Alone
  <2> QED
    BY <1>1, <2>3, <2>4, <2>5, <2>7, <2>8 DEF InStore
<1> QED
  BY <1>3, <1>4

\* Postgres: the row is looked up before it is written.
LEMMA FindRowKeeps ==
  ASSUME area = "store", InStore, MaxRequests[area] \in Nat, NEW c \in Clients, FindRow(c)
  PROVE  InStore'
<1> DEFINE found == {r \in Content : r.id = 0}
<1>1. /\ pc[c] = "store.read" /\ InFlight(c) /\ postgres
      /\ UNCHANGED <<postgres, area, db, served, met, storeVars>>
  BY DEF FindRow, At, history, InFlight
<1>2. CASE Respond(c)
  BY <1>1, <1>2, RestKeeps
<1>3. CASE Goto(c, "store.write", [rows |-> found])
  <2>1. UNCHANGED <<inodes, file, temp, serial, collided>>
    BY <1>1 DEF storeVars
  <2>2. found \subseteq Row
    BY <1>1 DEF InStore, Table0, Opened
  <2>3. DOMAIN [rows |-> found] = {"rows"}
    OBVIOUS
  <2>4. loc'[c].rows = found /\ "rows" \in DOMAIN loc'[c]
    <3>1. loc'[c] = Over([rows |-> found], loc[c])
      BY <1>3 DEF Goto, InStore, Writers
    <3> HIDE DEF found
    <3> QED
      BY <3>1 DEF Over
  <2> HIDE DEF found
  <2>5. /\ Writers'
        /\ pc' \in [Clients -> StorePC] /\ pc'[c] = "store.write"
        /\ loc'[c].op = loc[c].op /\ loc'[c].n = loc[c].n
        /\ \A d \in Clients \ {c} : pc'[d] = pc[d] /\ loc'[d] = loc[d]
    <3>1. "store.write" \in StorePC \ {"idle"}
      BY DEF StorePC
    <3> QED
      BY <1>1, <1>3, <2>2, <2>3, <2>4, <3>1, GoesOn
  <2>6. Files' /\ Table0'
    BY <1>1, <2>1, <2>5 DEF InStore, Files, Table0, Opened, Content
  <2>7. Named' /\ Alone'
    BY <1>1 DEF Named, Alone
  <2>8. Unmixed'
    <3> SUFFICES ASSUME \A pair \in met : "mutate" \notin pair PROVE Unmixed'
      BY <1>1 DEF Unmixed
    <3> QED
      BY <1>1, <2>1, <2>4, <2>5 DEF InStore, Unmixed, Content, found
  <2> QED
    BY <1>1, <2>1, <2>5, <2>6, <2>7, <2>8 DEF InStore
<1> QED
  BY <1>2, <1>3 DEF FindRow

\* Postgres: the patch, or the whole row as it was read, is written.
LEMMA WriteRowKeeps ==
  ASSUME area = "store", InStore, MaxRequests[area] \in Nat, NEW c \in Clients, WriteRow(c)
  PROVE  InStore'
<1> DEFINE op == loc[c].op
           others == {r \in Content : r.id # 0}
           written == IF op = "mutate" THEN others \cup Effect(op, Number(c), loc[c].rows)
                                       ELSE Effect(op, Number(c), Content)
<1>1. /\ pc[c] = "store.write" /\ InFlight(c) /\ Holding(c) /\ Respond(c)
      /\ UNCHANGED <<postgres, area, db, served, met, file, temp, collided>>
  BY DEF WriteRow, At, history, InFlight, Holding
<1>2. CASE UNCHANGED <<inodes, serial>>
  <2>1. UNCHANGED storeVars
    BY <1>1, <1>2 DEF storeVars
  <2> QED
    BY <1>1, <2>1, RestKeeps
<1>3. CASE /\ inodes' = [inodes EXCEPT ![file] = written]
           /\ serial' = Effect(op, Number(c), serial)
  <2>1. postgres
    BY <1>1 DEF InStore, Table0
  <2>2. CASE postgres
    <3>1. /\ op \in Write /\ Number(c) \in Int /\ loc[c].rows \subseteq Row
          /\ Content \subseteq Row /\ file = 0
      BY <1>1, <2>2 DEF InStore, Writers, Table0
    <3>2. written \in SUBSET Row /\ Effect(op, Number(c), serial) \in SUBSET Row
      <4>1. \A rows \in SUBSET Row : Effect(op, Number(c), rows) \in SUBSET Row
        BY <3>1, EffectRows
      <4> QED
        BY <3>1, <4>1 DEF InStore, Files
    <3> HIDE DEF written
    <3>3. /\ Writers' /\ pc' \in [Clients -> StorePC] /\ pc'[c] = "idle"
          /\ \A d \in Clients \ {c} : pc'[d] = pc[d] /\ loc'[d] = loc[d]
      BY <1>1, Leaves
    <3>4. Content' = written
      BY <1>1, <1>3, <3>1 DEF Content, InStore, Files
    <3>5. Files' /\ Table0'
      BY <1>1, <1>3, <3>1, <3>2, <3>3, <3>4 DEF InStore, Files, Table0, Opened
    <3>6. Named' /\ Alone'
      BY <1>1, <2>2 DEF Named, Alone
    <3>7. Unmixed'
      <4> SUFFICES ASSUME \A pair \in met : "mutate" \notin pair PROVE Unmixed'
        BY <1>1 DEF Unmixed
      <4>1. Content = serial /\ (op = "mutate" => loc[c].rows = {r \in Content : r.id = 0})
        BY <1>1, <2>2 DEF InStore, Unmixed
      <4>2. Content' = serial'
        <5>1. CASE op = "mutate"
          BY <1>3, <3>4, <4>1, <5>1, EffectOfMutate DEF written
        <5>2. CASE op # "mutate"
          BY <1>3, <3>4, <4>1, <5>2 DEF written
        <5> QED
          BY <5>1, <5>2
      <4>3. \A d \in Clients : pc'[d] = "store.write" => loc'[d].op # "mutate"
        <5> SUFFICES ASSUME NEW d \in Clients, pc'[d] = "store.write", loc'[d].op = "mutate"
                     PROVE  FALSE
          OBVIOUS
        <5>1. d # c /\ InFlight(d) /\ loc[d].op = "mutate"
          BY <3>3 DEF InFlight
        <5>2. {loc[d].op, loc[c].op} \in met
          BY <1>1, <5>1 DEF InStore, Writers
        <5> QED
          BY <5>1, <5>2
      <4> QED
        BY <4>2, <4>3 DEF Unmixed
    <3> QED
      BY <1>1, <3>3, <3>5, <3>6, <3>7 DEF InStore
  <2> QED
    BY <2>1, <2>2
<1> QED
  BY <1>2, <1>3 DEF WriteRow

-----------------------------------------------------------------------------
(***************************************************************************)
(* The theorem.                                                            *)
(***************************************************************************)
\* The area has a bound on its requests.
LEMMA AreaBound == ASSUME area \in Areas PROVE MaxRequests[area] \in Nat
BY RequestsAssumption, PlatformAssumption

LEMMA StoresInitially == Init => StoreInv
<1> SUFFICES ASSUME Init PROVE StoreInv
  OBVIOUS
<1>1. /\ area \in Areas /\ postgres \in BOOLEAN
      /\ pc = [c \in Clients |-> "idle"] /\ loc = [c \in Clients |-> Empty]
      /\ served = 0 /\ met = {}
  BY DEF Init, RequestsInit
<1>2. /\ inodes = [i \in 0 .. MaxRequests[area] |-> IF i = 0 THEN Rows ELSE Truncated]
      /\ file = 0 /\ temp = [i \in 1 .. MaxRequests[area] |-> None]
      /\ serial = Rows /\ collided = FALSE
  BY DEF Init, StoresInit
<1>3. MaxRequests[area] \in Nat
  BY <1>1, AreaBound
<1>4. Writers
  BY <1>1, <1>3 DEF Writers, StorePC, InFlight, Holding, Opened
<1>5. Content = Rows /\ Rows \subseteq Row
  BY <1>2, <1>3, StoresAssumption DEF Content
<1>6. Files
  BY <1>2, <1>3, <1>5 DEF Files
<1>7. Table0 /\ Named /\ Alone /\ Unmixed
  <2>1. Table0
    BY <1>1, <1>2, <1>5 DEF Table0, Opened
  <2>2. Named
    BY <1>1, <1>2, <1>3, <1>5 DEF Named, InFlight
  <2> QED
    BY <1>1, <1>2, <1>5, <2>1, <2>2 DEF Alone, Unmixed, Holding
<1>8. Untouched
  BY <1>2, <1>5 DEF Untouched, Content
<1> QED
  BY <1>1, <1>2, <1>4, <1>6, <1>7, <1>8 DEF StoreInv, InStore

LEMMA StoresKept == StoreInv /\ [Next]_vars => StoreInv'
<1> SUFFICES ASSUME StoreInv, [Next]_vars PROVE StoreInv'
  OBVIOUS
<1>1. UNCHANGED <<area, postgres>> /\ area \in Areas /\ MaxRequests[area] \in Nat
  BY Frame, AreaBound DEF StoreInv
<1>2. CASE area # "store"
  BY <1>1, <1>2, Frame DEF StoreInv, Untouched, storeVars
<1>3. CASE area = "store"
  <2>1. InStore /\ pc \in [Clients -> StorePC]
    BY <1>3 DEF StoreInv, InStore, Writers
  <2>2. CASE UNCHANGED <<requestVars, storeVars>>
    <3>1. UNCHANGED <<postgres, area, pc, loc, served, met,
                      inodes, file, temp, serial, collided>>
      BY <2>2 DEF requestVars, storeVars
    <3>2. Writers' /\ Files'
      BY <2>1, <3>1 DEF InStore, Writers, Files, InFlight, Number, Holding, Opened
    <3>3. Table0' /\ Named'
      BY <2>1, <3>1 DEF InStore, Table0, Named, OwnTemp, InFlight, Number, Opened, Content
    <3>4. Alone' /\ Unmixed'
      BY <2>1, <3>1 DEF InStore, Alone, Unmixed, Holding, Number, Content
    <3> QED
      BY <1>1, <1>3, <2>1, <3>1, <3>2, <3>3, <3>4 DEF StoreInv, InStore
  <2>3. ASSUME NEW c \in Clients, \/ Calls(c) \/ StoresStep(c)
                                  \/ CutOff(c) /\ UNCHANGED storeVars
        PROVE  InStore'
    <3>1. CASE CutOff(c) /\ UNCHANGED storeVars
      BY <1>1, <1>3, <2>1, <3>1, RestKeeps DEF CutOff
    <3> QED
      BY <1>1, <1>3, <2>1, <2>3, <3>1, CallsKeep, ReadCollectionKeeps, OpenTempKeeps,
         FillTempKeeps, RenameTempKeeps, FindRowKeeps, WriteRowKeeps DEF StoresStep
  <2> QED
    BY <1>1, <1>3, <2>1, <2>2, <2>3, Frame DEF StoreInv
<1> QED
  BY <1>2, <1>3

\* What the invariant says of the collection.
LEMMA StoresAtomic == StoreInv => CallsAreAtomic
<1> SUFFICES ASSUME StoreInv PROVE CallsAreAtomic
  OBVIOUS
<1>1. CASE area # "store"
  BY <1>1, TruncatedIsNone, StoresAssumption
     DEF StoreInv, Untouched, CallsAreAtomic, FileIsWhole, NoWriteIsLost, Content
<1>2. CASE area = "store"
  <2>1. FileIsWhole
    BY <1>2, TruncatedIsNone DEF StoreInv, InStore, Table0, Named, FileIsWhole
  <2>2. NoWriteIsLost
    BY <1>2 DEF StoreInv, InStore, Alone, Unmixed, NoWriteIsLost
  <2> QED
    BY <2>1, <2>2 DEF CallsAreAtomic
<1> QED
  BY <1>1, <1>2

\* A store's call is one step to its caller, done or not done (json-store.ts: the
\* collection is written atomically; prisma-store.ts), with any number of writers
\* at once, each of which may stop anywhere: no reader meets a file that is written
\* half way unless two writes shared a temporary name, and no write is lost unless
\* writes of the collection were in flight together (on Postgres, one a mutate).
THEOREM StoresAreAtomic == Spec => []CallsAreAtomic
<1>1. StoreInv /\ [Next]_vars => StoreInv'
  BY StoresKept
<1> QED
  BY <1>1, StoresInitially, StoresAtomic, PTL DEF Spec

-----------------------------------------------------------------------------
(***************************************************************************)
(* The database.                                                           *)
(***************************************************************************)
\* No call adds or drops a collection.
LEMMA CallKeepsTables ==
  ASSUME NEW c \in Clients, StoreCall(c)
  PROVE  DOMAIN db' = DOMAIN db
<1> DEFINE k == Head(loc[c].calls)
<1>1. \/ db' = db
      \/ db' = InsertRow(k.table, k.row)
      \/ db' = UpdateRow(k.table, k.id, k.row)
      \/ db' = UpsertRow(k.table, k.row)
      \/ db' = RemoveRow(k.table, k.id)
  BY DEF StoreCall
<1> HIDE DEF k
<1> QED
  BY <1>1 DEF InsertRow, UpdateRow, UpsertRow, RemoveRow

LEMMA TablesStay == [Next]_vars => DOMAIN db' = DOMAIN db
<1> SUFFICES ASSUME [Next]_vars PROVE DOMAIN db' = DOMAIN db
  OBVIOUS
<1>1. CASE UNCHANGED vars
  BY <1>1 DEF vars, requestVars
<1>2. CASE Environment
  BY <1>2 DEF Environment, LockExpires, UpdateRow, WindowPasses, DayPasses, Restart, requestVars
<1>3. ASSUME NEW c \in Clients, Submit(c) PROVE DOMAIN db' = DOMAIN db
  BY <1>3, SubmitsLeave DEF Submit
<1>4. ASSUME NEW c \in Clients, Step(c) PROVE DOMAIN db' = DOMAIN db
  <2>1. CASE StoreCall(c)
    BY <2>1, CallKeepsTables
  <2>2. CASE CutOff(c)
    BY <2>2 DEF CutOff
  <2>3. CASE \/ AccountsStep(c) \/ IntakeStep(c) \/ KnowledgeStep(c) \/ AgentsStep(c)
             \/ EvalsStep(c) \/ NightlyStep(c) \/ WorkspaceStep(c) \/ SystemsStep(c)
             \/ StoresStep(c)
    BY <2>3, StepsLeave
  <2> QED
    BY <1>4, <2>1, <2>2, <2>3 DEF Step
<1> QED
  BY <1>1, <1>2, <1>3, <1>4 DEF Next

\* A request that goes on keeps what it holds, but for its new locals.
LEMMA RequestGoesOn ==
  ASSUME DOMAIN pc = Clients, DOMAIN loc = Clients,
         NEW c \in Clients, NEW where, NEW locals, Goto(c, where, locals)
  PROVE  /\ pc' = [pc EXCEPT ![c] = where] /\ DOMAIN loc' = Clients
         /\ DOMAIN loc'[c] = DOMAIN locals \cup DOMAIN loc[c]
         /\ \A f \in DOMAIN locals : loc'[c][f] = locals[f]
         /\ \A f \in DOMAIN loc[c] : f \notin DOMAIN locals => loc'[c][f] = loc[c][f]
         /\ \A d \in Clients \ {c} : loc'[d] = loc[d]
<1>1. pc' = [pc EXCEPT ![c] = where] /\ loc' = [loc EXCEPT ![c] = Over(locals, @)]
  BY DEF Goto
<1>2. /\ DOMAIN loc' = Clients /\ loc'[c] = Over(locals, loc[c])
      /\ \A d \in Clients \ {c} : loc'[d] = loc[d]
  BY <1>1
<1>3. /\ DOMAIN Over(locals, loc[c]) = DOMAIN locals \cup DOMAIN loc[c]
      /\ \A f \in DOMAIN locals : Over(locals, loc[c])[f] = locals[f]
      /\ \A f \in DOMAIN loc[c] : f \notin DOMAIN locals => Over(locals, loc[c])[f] = loc[c][f]
  BY ZenonT(30), Overwritten
<1> QED
  BY <1>1, <1>2, <1>3

-----------------------------------------------------------------------------
(***************************************************************************)
(* Briefs: the inductive invariant.                                        *)
(***************************************************************************)
CyclePC == {"idle", "calling"} \cup NightlyPC

\* The two calls with which a cycle makes a brief.
TheBrief(c) ==
  Inserting("reports", [id |-> Under(Number(c), loc[c].org), type |-> "morning_brief",
                        organizationId |-> loc[c].org, createdAt |-> loc[c].today])
TheWord(c) ==
  Inserting("notifications", [id |-> Under(Number(c), loc[c].org), userId |-> None,
                              organizationId |-> loc[c].org, read |-> FALSE])

\* Is about to insert a brief; is about to send word of one.
Writing(c) == pc[c] = "calling" /\ loc[c].calls = <<TheBrief(c), TheWord(c)>>
Telling(c) == pc[c] = "calling" /\ loc[c].calls = <<TheWord(c)>>

\* Cycles go through their points, with the locals that each point needs.
Cycles ==
  /\ pc \in [Clients -> CyclePC] /\ DOMAIN loc = Clients /\ day \in Nat
  /\ {"reports", "notifications"} \subseteq DOMAIN db
  /\ \A c \in Clients : InFlight(c) => /\ {"op", "n", "org"} \subseteq DOMAIN loc[c]
                                       /\ loc[c].op = "nightly"
  /\ \A c \in Clients : pc[c] \in {"nightly.brief", "nightly.run", "calling"} =>
        "today" \in DOMAIN loc[c] /\ loc[c].today \in Nat
  /\ \A c \in Clients : pc[c] = "calling" =>
        /\ "next" \in DOMAIN loc[c] /\ loc[c].next = "nightly.next"
        /\ Writing(c) \/ Telling(c)
  /\ \A c, d \in Clients : InFlight(c) /\ InFlight(d) /\ c # d => {"nightly"} \in met
  /\ \A r \in db["reports"] : r.type = "morning_brief"

\* As long as no two cycles meet, nobody makes a brief between a cycle's look and its
\* own insert.
OneEach ==
  {"nightly"} \notin met =>
     /\ \A a, b \in db["reports"] :
           a.organizationId = b.organizationId /\ a.createdAt = b.createdAt => a = b
     /\ \A c \in Clients : pc[c] = "nightly.run" \/ Writing(c) =>
           ~HasBriefToday(loc[c].org, loc[c].today)

\* Word that is still to be sent will not be refused: the organization is there, for
\* the brief was not refused either.
Known(c) == postgres => ~RefersToNothing("notifications", TheWord(c).row)

AllTold ==
  "nightly" \in cuts \/
     \A r \in db["reports"] :
        \/ ById("notifications", r.id) # {}
        \/ \E c \in Clients : /\ Telling(c) /\ Known(c)
                              /\ r.id = Under(Number(c), loc[c].org)
                              /\ r.organizationId = loc[c].org

BriefsInv ==
  /\ area \in Areas
  /\ area # "nightly" => "reports" \notin DOMAIN db
  /\ area = "nightly" => Cycles /\ OneEach /\ AllTold

-----------------------------------------------------------------------------
(***************************************************************************)
(* Briefs: what happens in the area.                                       *)
(***************************************************************************)
\* Nothing but cycles, their calls and cuts, and the days.
LEMMA NightlyFrame ==
  ASSUME [Next]_vars, area = "nightly", pc \in [Clients -> CyclePC]
  PROVE  \/ UNCHANGED <<requestVars, day>>
         \/ DayPasses
         \/ \E c \in Clients : \/ StartCycle(c) \/ NightlyStep(c)
                               \/ StoreCall(c) /\ UNCHANGED day
                               \/ CutOff(c) /\ UNCHANGED day
<1>1. CASE UNCHANGED vars
  BY <1>1 DEF vars
<1>2. CASE Environment
  BY <1>2 DEF Environment, LockExpires, WindowPasses, DayPasses, Restart
<1>3. ASSUME NEW c \in Clients, Submit(c) PROVE StartCycle(c)
  BY <1>3 DEF Submit, AccountsSubmit, IntakeSubmit, KnowledgeSubmit, AgentsSubmit,
      EvalsSubmit, NightlySubmit, WorkspaceSubmit, SystemsSubmit, Calls
<1>4. ASSUME NEW c \in Clients, Step(c)
      PROVE  \/ NightlyStep(c)
             \/ StoreCall(c) /\ UNCHANGED day
             \/ CutOff(c) /\ UNCHANGED day
  <2>1. /\ ~AccountsStep(c) /\ ~IntakeStep(c) /\ ~KnowledgeStep(c) /\ ~AgentsStep(c)
        /\ ~EvalsStep(c) /\ ~WorkspaceStep(c) /\ ~SystemsStep(c)
    BY StepsStart DEF CyclePC, AccountsPC, IntakePC, KnowledgePC, AgentsPC, EvalsPC,
       NightlyPC, WorkspacePC, SystemsPC
  <2>2. ~StoresStep(c)
    BY DEF StoresStep
  <2> QED
    BY <1>4, <2>1, <2>2 DEF Step
<1> QED
  BY <1>1, <1>2, <1>3, <1>4 DEF Next

\* A cycle that goes on keeps what it holds.
LEMMA CycleGoesOn ==
  ASSUME Cycles, NEW c \in Clients, NEW where \in CyclePC, NEW locals,
         Goto(c, where, locals)
  PROVE  /\ pc' \in [Clients -> CyclePC] /\ DOMAIN loc' = Clients
         /\ pc'[c] = where /\ DOMAIN loc'[c] = DOMAIN locals \cup DOMAIN loc[c]
         /\ \A f \in DOMAIN locals : loc'[c][f] = locals[f]
         /\ \A f \in DOMAIN loc[c] : f \notin DOMAIN locals => loc'[c][f] = loc[c][f]
         /\ \A d \in Clients \ {c} : pc'[d] = pc[d] /\ loc'[d] = loc[d]
<1>1. pc \in [Clients -> CyclePC] /\ DOMAIN pc = Clients /\ DOMAIN loc = Clients
  BY DEF Cycles
<1>2. /\ pc' = [pc EXCEPT ![c] = where] /\ DOMAIN loc' = Clients
      /\ DOMAIN loc'[c] = DOMAIN locals \cup DOMAIN loc[c]
      /\ \A f \in DOMAIN locals : loc'[c][f] = locals[f]
      /\ \A f \in DOMAIN loc[c] : f \notin DOMAIN locals => loc'[c][f] = loc[c][f]
      /\ \A d \in Clients \ {c} : loc'[d] = loc[d]
  BY <1>1, RequestGoesOn
<1> QED
  BY <1>1, <1>2

\* A step that leaves the rows alone and that no cycle takes while it tells.
LEMMA AllToldStays ==
  ASSUME AllTold, NEW c \in Clients, pc[c] # "calling", UNCHANGED <<db, cuts, postgres>>,
         \A d \in Clients \ {c} : pc'[d] = pc[d] /\ loc'[d] = loc[d]
  PROVE  AllTold'
<1>1. \A d \in Clients : Telling(d) => Telling(d)' /\ loc'[d] = loc[d] /\ pc'[d] = pc[d]
  BY DEF Telling, TheWord, Number
<1>2. ASSUME NEW d \in Clients, Telling(d) PROVE Known(d)' <=> Known(d)
  <2>1. TheWord(d)' = TheWord(d)
    BY <1>1, <1>2 DEF TheWord, Number
  <2> DEFINE row == TheWord(d).row
  <2>2. RefersToNothing("notifications", row)' <=> RefersToNothing("notifications", row)
    BY <2>1 DEF RefersToNothing, RefersTo, ById, Table
  <2> QED
    BY <2>1, <2>2 DEF Known
<1> QED
  BY <1>1, <1>2 DEF AllTold, ById, Table, Number

\* A cycle's step that leaves the rows alone keeps the invariant, if the cycle has
\* at its new point what that point needs.
LEMMA StepKeeps ==
  ASSUME Cycles, OneEach, AllTold, NEW c \in Clients, InFlight(c), pc[c] # "calling",
         NEW where \in CyclePC \ {"idle"},
         NEW locals, "op" \notin DOMAIN locals, "n" \notin DOMAIN locals,
         Goto(c, where, locals), UNCHANGED <<postgres, area, db, day, met, cuts>>,
         where \in {"nightly.brief", "nightly.run", "calling"} =>
             "today" \in DOMAIN loc'[c] /\ loc'[c].today \in Nat,
         where = "calling" =>
             "next" \in DOMAIN loc'[c] /\ loc'[c].next = "nightly.next" /\ Writing(c)',
         {"nightly"} \notin met /\ where \in {"nightly.run", "calling"}
            => ~HasBriefToday(loc'[c].org, loc'[c].today)
  PROVE  Cycles' /\ OneEach' /\ AllTold'
<1>1. /\ pc' \in [Clients -> CyclePC] /\ DOMAIN loc' = Clients
      /\ pc'[c] = where /\ DOMAIN loc'[c] = DOMAIN locals \cup DOMAIN loc[c]
      /\ \A f \in DOMAIN loc[c] : f \notin DOMAIN locals => loc'[c][f] = loc[c][f]
      /\ \A d \in Clients \ {c} : pc'[d] = pc[d] /\ loc'[d] = loc[d]
  <2>1. where \in CyclePC
    OBVIOUS
  <2> QED
    BY <2>1, CycleGoesOn
<1>3. {"op", "n", "org"} \subseteq DOMAIN loc[c] /\ loc[c].op = "nightly"
  BY DEF Cycles
<1>4. {"op", "n", "org"} \subseteq DOMAIN loc'[c] /\ loc'[c].op = "nightly"
  BY <1>1, <1>3
<1>5. Cycles'
  <2>1. day' \in Nat /\ {"reports", "notifications"} \subseteq DOMAIN db'
    BY DEF Cycles
  <2>2. \A d \in Clients : InFlight(d)' => /\ {"op", "n", "org"} \subseteq DOMAIN loc'[d]
                                           /\ loc'[d].op = "nightly"
    BY <1>1, <1>4 DEF Cycles, InFlight
  <2>3. \A d \in Clients : pc'[d] \in {"nightly.brief", "nightly.run", "calling"} =>
          "today" \in DOMAIN loc'[d] /\ loc'[d].today \in Nat
    BY <1>1 DEF Cycles
  <2>4. \A d \in Clients : pc'[d] = "calling" =>
          /\ "next" \in DOMAIN loc'[d] /\ loc'[d].next = "nightly.next"
          /\ Writing(d)' \/ Telling(d)'
    <3> SUFFICES ASSUME NEW d \in Clients, pc'[d] = "calling"
                 PROVE  /\ "next" \in DOMAIN loc'[d] /\ loc'[d].next = "nightly.next"
                        /\ Writing(d)' \/ Telling(d)'
      OBVIOUS
    <3>1. CASE d = c
      BY <1>1, <3>1
    <3>2. CASE d # c
      <4>1. Writing(d) \/ Telling(d)
        BY <1>1, <3>2 DEF Cycles
      <4>2. "next" \in DOMAIN loc'[d] /\ loc'[d].next = "nightly.next"
        BY <1>1, <3>2 DEF Cycles
      <4>3. Writing(d)' \/ Telling(d)'
        BY <1>1, <3>2, <4>1 DEF Writing, Telling, TheBrief, TheWord, Number
      <4> QED
        BY <4>2, <4>3
    <3> QED
      BY <3>1, <3>2
  <2>5. \A d, e \in Clients : InFlight(d)' /\ InFlight(e)' /\ d # e => {"nightly"} \in met'
    BY <1>1 DEF Cycles, InFlight
  <2>6. \A r \in db'["reports"] : r.type = "morning_brief"
    BY DEF Cycles
  <2> QED
    BY <1>1, <2>1, <2>2, <2>3, <2>4, <2>5, <2>6 DEF Cycles
<1>6. OneEach'
  <2> SUFFICES ASSUME {"nightly"} \notin met PROVE OneEach'
    BY DEF OneEach
  <2>1. \A a, b \in db'["reports"] :
           a.organizationId = b.organizationId /\ a.createdAt = b.createdAt => a = b
    BY DEF OneEach
  <2>2. ASSUME NEW d \in Clients, pc'[d] = "nightly.run" \/ Writing(d)'
        PROVE  ~HasBriefToday(loc'[d].org, loc'[d].today)
    <3>1. CASE d = c
      BY <1>1, <2>2, <3>1 DEF Writing
    <3>2. CASE d # c
      BY <1>1, <2>2, <3>2 DEF OneEach, Writing, TheBrief, TheWord, Number
    <3> QED
      BY <3>1, <3>2
  <2> QED
    BY <2>1, <2>2 DEF OneEach, HasBriefToday, Briefs
<1>7. AllTold'
  BY <1>1, AllToldStays
<1> QED
  BY <1>5, <1>6, <1>7

\* A cycle that ends keeps the invariant, if the word it had still to send is there
\* already or it was cut off.
LEMMA EndKeeps ==
  ASSUME Cycles, OneEach, AllTold, NEW c \in Clients, Respond(c),
         UNCHANGED <<postgres, area, db, day, met>>,
         \/ /\ cuts' = cuts
            /\ Telling(c) /\ Known(c)
                  => ById("notifications", Under(Number(c), loc[c].org)) # {}
         \/ "nightly" \in cuts'
  PROVE  Cycles' /\ OneEach' /\ AllTold'
<1>1. /\ pc' \in [Clients -> CyclePC] /\ DOMAIN loc' = Clients /\ pc'[c] = "idle"
      /\ \A d \in Clients \ {c} : pc'[d] = pc[d] /\ loc'[d] = loc[d]
  BY DEF Cycles, CyclePC, Respond
<1>2. Cycles'
  <2>1. day' \in Nat /\ {"reports", "notifications"} \subseteq DOMAIN db'
    BY DEF Cycles
  <2>2. \A d \in Clients : InFlight(d)' => /\ {"op", "n", "org"} \subseteq DOMAIN loc'[d]
                                           /\ loc'[d].op = "nightly"
    BY <1>1 DEF Cycles, InFlight
  <2>3. \A d \in Clients : pc'[d] \in {"nightly.brief", "nightly.run", "calling"} =>
          "today" \in DOMAIN loc'[d] /\ loc'[d].today \in Nat
    BY <1>1 DEF Cycles
  <2>4. \A d \in Clients : pc'[d] = "calling" =>
          /\ "next" \in DOMAIN loc'[d] /\ loc'[d].next = "nightly.next"
          /\ Writing(d)' \/ Telling(d)'
    BY <1>1 DEF Cycles, Writing, Telling, TheBrief, TheWord, Number
  <2>5. \A d, e \in Clients : InFlight(d)' /\ InFlight(e)' /\ d # e => {"nightly"} \in met'
    BY <1>1 DEF Cycles, InFlight
  <2>6. \A r \in db'["reports"] : r.type = "morning_brief"
    BY DEF Cycles
  <2> QED
    BY <1>1, <2>1, <2>2, <2>3, <2>4, <2>5, <2>6 DEF Cycles
<1>3. OneEach'
  <2> SUFFICES ASSUME {"nightly"} \notin met PROVE OneEach'
    BY DEF OneEach
  <2>1. \A a, b \in db'["reports"] :
           a.organizationId = b.organizationId /\ a.createdAt = b.createdAt => a = b
    BY DEF OneEach
  <2>2. ASSUME NEW d \in Clients, pc'[d] = "nightly.run" \/ Writing(d)'
        PROVE  ~HasBriefToday(loc'[d].org, loc'[d].today)
    BY <1>1, <2>2 DEF OneEach, Writing, TheBrief, TheWord, Number
  <2> QED
    BY <2>1, <2>2 DEF OneEach, HasBriefToday, Briefs
<1>4. AllTold'
  <2> SUFFICES ASSUME "nightly" \notin cuts', NEW r \in db["reports"],
                      ById("notifications", r.id) = {}
               PROVE  \E d \in Clients : /\ Telling(d)' /\ Known(d)'
                                         /\ r.id = Under(Number(d)', loc'[d].org)
                                         /\ r.organizationId = loc'[d].org
    BY DEF AllTold, ById, Table
  <2>1. PICK d \in Clients : /\ Telling(d) /\ Known(d)
                             /\ r.id = Under(Number(d), loc[d].org)
                             /\ r.organizationId = loc[d].org
    BY DEF AllTold
  <2>2. d # c
    BY <2>1
  <2>3. Telling(d)' /\ loc'[d] = loc[d] /\ Number(d)' = Number(d) /\ TheWord(d)' = TheWord(d)
    BY <1>1, <2>1, <2>2 DEF Telling, TheWord, Number
  <2>4. Known(d)'
    <3> DEFINE row == TheWord(d).row
    <3>1. RefersToNothing("notifications", row)' <=> RefersToNothing("notifications", row)
      BY <2>3 DEF RefersToNothing, RefersTo, ById, Table
    <3> QED
      BY <2>1, <2>3, <3>1 DEF Known
  <2> QED
    BY <2>1, <2>3, <2>4
<1> QED
  BY <1>2, <1>3, <1>4

\* Every step of a cycle.
LEMMA NightlyStepKeeps ==
  ASSUME Cycles, OneEach, AllTold, NEW c \in Clients, NightlyStep(c)
  PROVE  Cycles' /\ OneEach' /\ AllTold'
<1>1. UNCHANGED <<postgres, area, db, served, met, cuts>>
  BY StepsLeave
<1>2. UNCHANGED day
  BY DEF NightlyStep, ReadOrganizations, NextOrganization, CheckBrief, InsertBrief
<1>3. pc[c] \in NightlyPC
  BY StepsStart
<1>4. InFlight(c) /\ pc[c] # "calling" /\ {"op", "n", "org"} \subseteq DOMAIN loc[c]
  BY <1>3 DEF NightlyPC, InFlight, Cycles
<1>5. ASSUME NEW left, Goto(c, "nightly.next", [left |-> left])
      PROVE  Cycles' /\ OneEach' /\ AllTold'
  <2>1. "nightly.next" \in CyclePC \ {"idle"} /\ DOMAIN [left |-> left] = {"left"}
    BY DEF CyclePC, NightlyPC
  <2> QED
    BY <1>1, <1>2, <1>4, <1>5, <2>1, StepKeeps
<1>6. ASSUME NEW where \in {"nightly.next", "nightly.brief", "nightly.run"},
             Goto(c, where, Nothing),
             where # "nightly.next" => "today" \in DOMAIN loc[c] /\ loc[c].today \in Nat,
             where = "nightly.run" => ~HasBriefToday(loc[c].org, loc[c].today)
      PROVE  Cycles' /\ OneEach' /\ AllTold'
  <2>1. where \in CyclePC \ {"idle"} /\ where \in CyclePC /\ DOMAIN Nothing = {"calls"}
    BY DEF CyclePC, NightlyPC, Nothing
  <2>2. /\ \A f \in DOMAIN loc[c] : f # "calls" => loc'[c][f] = loc[c][f]
        /\ DOMAIN loc'[c] = {"calls"} \cup DOMAIN loc[c]
    BY <1>6, <2>1, CycleGoesOn
  <2>3. where # "nightly.next" => "today" \in DOMAIN loc'[c] /\ loc'[c].today \in Nat
    BY <1>6, <2>2
  <2>4. where = "nightly.run" => ~HasBriefToday(loc'[c].org, loc'[c].today)
    BY <1>4, <1>6, <2>2
  <2> QED
    BY <1>1, <1>2, <1>4, <1>6, <2>1, <2>3, <2>4, StepKeeps
<1>7. CASE ReadOrganizations(c)
  BY <1>5, <1>7 DEF ReadOrganizations
<1>8. CASE NextOrganization(c)
  <2>1. CASE loc[c].left = {}
    <3>1. Respond(c)
      BY <1>8, <2>1 DEF NextOrganization
    <3> QED
      BY <1>1, <1>2, <1>4, <3>1, EndKeeps DEF Telling
  <2>2. CASE loc[c].left # {}
    <3> DEFINE o == CHOOSE o \in loc[c].left : \A p \in loc[c].left : o >= p
               new == [left |-> loc[c].left \ {o}, org |-> o, today |-> day]
    <3>1. Goto(c, "nightly.brief", new)
      BY <1>8, <2>2 DEF NextOrganization
    <3>2. DOMAIN new = {"left", "org", "today"} /\ new.today = day
      OBVIOUS
    <3> HIDE DEF new
    <3>3. "nightly.brief" \in CyclePC \ {"idle"} /\ "nightly.brief" \in CyclePC
      BY DEF CyclePC, NightlyPC
    <3>4. "today" \in DOMAIN loc'[c] /\ loc'[c].today \in Nat
      BY <3>1, <3>2, <3>3, CycleGoesOn DEF Cycles
    <3> QED
      BY <1>1, <1>2, <1>4, <3>1, <3>2, <3>3, <3>4, StepKeeps
  <2> QED
    BY <2>1, <2>2
<1>9. CASE CheckBrief(c)
  <2> DEFINE where == IF HasBriefToday(loc[c].org, loc[c].today) THEN "nightly.next"
                                                                  ELSE "nightly.run"
  <2>1. Goto(c, where, Nothing)
    BY <1>9 DEF CheckBrief
  <2>2. "today" \in DOMAIN loc[c] /\ loc[c].today \in Nat
    BY <1>9 DEF CheckBrief, At, Cycles
  <2> QED
    BY <1>6, <2>1, <2>2
<1>10. CASE InsertBrief(c)
  <2>1. "today" \in DOMAIN loc[c] /\ loc[c].today \in Nat
    BY <1>10 DEF InsertBrief, At, Cycles
  <2>2. CASE Goto(c, "nightly.next", Nothing)
    BY <1>6, <2>2
  <2>3. CASE Calling(c, <<TheBrief(c), TheWord(c)>>, "nightly.next")
    <3> DEFINE new == [calls |-> <<TheBrief(c), TheWord(c)>>, next |-> "nightly.next"]
    <3>1. Goto(c, "calling", new)
      BY <2>3 DEF Calling
    <3>2. /\ DOMAIN new = {"calls", "next"} /\ new.next = "nightly.next"
          /\ new.calls = <<TheBrief(c), TheWord(c)>>
      OBVIOUS
    <3> HIDE DEF new
    <3>3. "calling" \in CyclePC \ {"idle"} /\ "calling" \in CyclePC
      BY DEF CyclePC
    <3>4. /\ DOMAIN loc'[c] = {"calls", "next"} \cup DOMAIN loc[c] /\ pc'[c] = "calling"
          /\ \A f \in {"calls", "next"} : loc'[c][f] = new[f]
          /\ \A f \in DOMAIN loc[c] : f \notin {"calls", "next"} => loc'[c][f] = loc[c][f]
      BY <3>1, <3>2, <3>3, CycleGoesOn
    <3>5. /\ loc'[c].today = loc[c].today /\ loc'[c].org = loc[c].org /\ loc'[c].n = loc[c].n
          /\ loc'[c].next = "nightly.next" /\ loc'[c].calls = <<TheBrief(c), TheWord(c)>>
      BY <1>4, <2>1, <3>2, <3>4
    <3>6. Writing(c)'
      BY <3>4, <3>5 DEF Writing, TheBrief, TheWord, Number
    <3>7. {"nightly"} \notin met => ~HasBriefToday(loc'[c].org, loc'[c].today)
      BY <1>10, <3>5 DEF InsertBrief, At, OneEach
    <3> QED
      BY <1>1, <1>2, <1>4, <2>1, <3>1, <3>2, <3>3, <3>4, <3>5, <3>6, <3>7, StepKeeps
  <2> QED
    BY <1>10, <2>2, <2>3 DEF InsertBrief, TheBrief, TheWord
<1> QED
  BY <1>7, <1>8, <1>9, <1>10 DEF NightlyStep

\* An insert takes no row away.
LEMMA InsertsAdd ==
  ASSUME NEW t \in DOMAIN db, NEW row, db' = InsertRow(t, row)
  PROVE  /\ DOMAIN db' = DOMAIN db
         /\ db'[t] = db[t] \cup {row}
         /\ \A u \in DOMAIN db \ {t} : db'[u] = db[u]
         /\ \A u, id : ById(u, id) # {} => ById(u, id)' # {}
<1>1. /\ DOMAIN db' = DOMAIN db /\ db'[t] = db[t] \cup {row}
      /\ \A u \in DOMAIN db \ {t} : db'[u] = db[u]
  BY DEF InsertRow
<1>2. ASSUME NEW u, NEW id, NEW r \in ById(u, id) PROVE r \in ById(u, id)'
  BY <1>1, <1>2 DEF ById, Table
<1> QED
  BY <1>1, <1>2

\* Word that would not be refused stays so.
LEMMA KnownStays ==
  ASSUME NEW t \in DOMAIN db, NEW row, db' = InsertRow(t, row), UNCHANGED postgres,
         NEW c \in Clients, Known(c), TheWord(c)' = TheWord(c)
  PROVE  Known(c)'
<1> DEFINE word == TheWord(c).row
<1>1. RefersToNothing("notifications", word)' => RefersToNothing("notifications", word)
  BY InsertsAdd DEF RefersToNothing, RefersTo
<1> QED
  BY <1>1 DEF Known

\* Reports and notifications refer to the same thing, and have no other key than the id.
LEMMA SameReferences ==
  /\ \A ref \in References : ref.child = "notifications"
                              => ref.field = "organizationId" /\ ref.parent = "organizations"
  /\ \E ref \in References : /\ ref.child = "reports" /\ ref.field = "organizationId"
                             /\ ref.parent = "organizations"
  /\ UniqueKeys("notifications") = {}
<1>1. \A ref \in References : ref.child = "notifications"
                              => ref.field = "organizationId" /\ ref.parent = "organizations"
  BY DEF References, IdentityRefs, CommercialRefs, SystemRefs, KnowledgeRefs, EngineRefs,
         RecordRefs, AiRefs, AuditRefs, Tenants, Refers
<1>2. Refers("reports", "organizationId", "organizations", "Cascade") \in References
  BY DEF References, RecordRefs, Tenants
<1>3. UniqueKeys("notifications") = {}
  BY DEF UniqueKeys, Unique
<1> QED
  BY <1>1, <1>2, <1>3 DEF Refers

\* A brief that was not refused can be told of.
LEMMA BriefIsKnown ==
  ASSUME NEW c \in Clients, ~Refused(TheBrief(c))
  PROVE  Known(c)
<1> DEFINE brief == TheBrief(c).row
           word == TheWord(c).row
<1>1. /\ TheBrief(c).call = "insert" /\ TheBrief(c).table = "reports"
      /\ "organizationId" \in DOMAIN brief /\ "organizationId" \in DOMAIN word
      /\ brief["organizationId"] = loc[c].org /\ word["organizationId"] = loc[c].org
  BY DEF TheBrief, TheWord, Inserting
<1> HIDE DEF brief, word
<1>2. SUFFICES ASSUME postgres, RefersToNothing("notifications", word) PROVE FALSE
  BY DEF Known, word
<1>3. ~RefersToNothing("reports", brief)
  BY <1>1, <1>2 DEF Refused, brief
<1>4. PICK ref \in References : /\ RefersTo("notifications", word, ref)
                                /\ word[ref.field] # None
                                /\ ById(ref.parent, word[ref.field]) = {}
  BY <1>2 DEF RefersToNothing
<1>5. ref.field = "organizationId" /\ ref.parent = "organizations" /\ ref.parent \in DOMAIN db
  BY <1>4, SameReferences DEF RefersTo
<1>6. PICK same \in References : /\ same.child = "reports" /\ same.field = "organizationId"
                                 /\ same.parent = "organizations"
  BY SameReferences
<1>7. /\ RefersTo("reports", brief, same) /\ brief[same.field] # None
      /\ ById(same.parent, brief[same.field]) = {}
  BY <1>1, <1>4, <1>5, <1>6 DEF RefersTo
<1> QED
  BY <1>3, <1>7 DEF RefersToNothing

\* The brief is inserted, and word of it is what is left to do.
LEMMA WritingKeeps ==
  ASSUME area = "nightly", Cycles, OneEach, AllTold, NEW c \in Clients, Writing(c),
         StoreCall(c), UNCHANGED day
  PROVE  Cycles' /\ OneEach' /\ AllTold'
<1> DEFINE k == Head(loc[c].calls)
           rest == Tail(loc[c].calls)
           row == TheBrief(c).row
<1>1. k = TheBrief(c) /\ rest = <<TheWord(c)>> /\ rest # <<>> /\ pc[c] = "calling"
  BY DEF Writing
<1>2. UNCHANGED <<postgres, area, served, met, cuts>> /\ InFlight(c)
  BY <1>1 DEF StoreCall, At, history, InFlight
<1>3. /\ k.call = "insert" /\ k.table = "reports" /\ k.row = row
      /\ row.type = "morning_brief" /\ row.id = Under(Number(c), loc[c].org)
      /\ row.organizationId = loc[c].org /\ row.createdAt = loc[c].today
  BY <1>1 DEF TheBrief, Inserting
<1>4. ~Telling(c)
  BY DEF Writing, Telling
<1> HIDE DEF k, rest, row
<1>5. CASE Respond(c) /\ UNCHANGED db
  BY <1>2, <1>4, <1>5, EndKeeps
<1>6. CASE /\ ~Refused(k) /\ db' = InsertRow("reports", row)
           /\ Goto(c, "calling", [calls |-> rest])
  <2>1. "reports" \in DOMAIN db /\ "notifications" \in DOMAIN db
    BY DEF Cycles
  <2>2. /\ DOMAIN db' = DOMAIN db /\ db'["reports"] = db["reports"] \cup {row}
        /\ db'["notifications"] = db["notifications"]
        /\ \A u, id : ById(u, id) # {} => ById(u, id)' # {}
    BY <1>6, <2>1, InsertsAdd
  <2>3. "calling" \in CyclePC /\ DOMAIN [calls |-> rest] = {"calls"}
    BY DEF CyclePC
  <2>4. /\ pc' \in [Clients -> CyclePC] /\ DOMAIN loc' = Clients /\ pc'[c] = "calling"
        /\ DOMAIN loc'[c] = {"calls"} \cup DOMAIN loc[c] /\ loc'[c].calls = rest
        /\ \A f \in DOMAIN loc[c] : f # "calls" => loc'[c][f] = loc[c][f]
        /\ \A d \in Clients \ {c} : pc'[d] = pc[d] /\ loc'[d] = loc[d]
    BY <1>6, <2>3, CycleGoesOn
  <2>5. /\ {"op", "n", "org", "today", "next"} \subseteq DOMAIN loc[c] /\ loc[c].op = "nightly"
        /\ loc[c].today \in Nat /\ loc[c].next = "nightly.next"
    BY <1>1, <1>2 DEF Cycles
  <2>6. /\ {"op", "n", "org", "today", "next"} \subseteq DOMAIN loc'[c]
        /\ loc'[c].op = "nightly" /\ loc'[c].n = loc[c].n /\ loc'[c].org = loc[c].org
        /\ loc'[c].today = loc[c].today /\ loc'[c].next = "nightly.next"
    BY <2>4, <2>5
  <2>7. TheWord(c)' = TheWord(c) /\ Telling(c)' /\ ~Writing(c)' /\ Number(c)' = Number(c)
    <3>1. TheWord(c)' = TheWord(c) /\ Number(c)' = Number(c)
      BY <2>6 DEF TheWord, Number
    <3> QED
      BY <1>1, <2>4, <3>1 DEF Telling, Writing
  <2>8. Cycles'
    <3>1. day' \in Nat /\ {"reports", "notifications"} \subseteq DOMAIN db'
      BY <2>2 DEF Cycles
    <3>2. \A d \in Clients : InFlight(d)' => /\ {"op", "n", "org"} \subseteq DOMAIN loc'[d]
                                             /\ loc'[d].op = "nightly"
      BY <2>4, <2>6 DEF Cycles, InFlight
    <3>3. \A d \in Clients : pc'[d] \in {"nightly.brief", "nightly.run", "calling"} =>
            "today" \in DOMAIN loc'[d] /\ loc'[d].today \in Nat
      BY <2>4, <2>5, <2>6 DEF Cycles
    <3>4. ASSUME NEW d \in Clients, pc'[d] = "calling"
          PROVE  /\ "next" \in DOMAIN loc'[d] /\ loc'[d].next = "nightly.next"
                 /\ Writing(d)' \/ Telling(d)'
      <4>1. CASE d = c
        BY <2>6, <2>7, <4>1
      <4>2. CASE d # c
        <5>1. Writing(d) \/ Telling(d)
          BY <2>4, <3>4, <4>2 DEF Cycles
        <5>2. "next" \in DOMAIN loc'[d] /\ loc'[d].next = "nightly.next"
          BY <2>4, <3>4, <4>2 DEF Cycles
        <5>3. Writing(d)' \/ Telling(d)'
          BY <2>4, <4>2, <5>1 DEF Writing, Telling, TheBrief, TheWord, Number
        <5> QED
          BY <5>2, <5>3
      <4> QED
        BY <4>1, <4>2
    <3>5. \A d, e \in Clients : InFlight(d)' /\ InFlight(e)' /\ d # e => {"nightly"} \in met'
      BY <1>2, <2>4 DEF Cycles, InFlight
    <3>6. \A r \in db'["reports"] : r.type = "morning_brief"
      BY <1>3, <2>2 DEF Cycles
    <3> QED
      BY <2>4, <3>1, <3>2, <3>3, <3>4, <3>5, <3>6 DEF Cycles
  <2>9. OneEach'
    <3> SUFFICES ASSUME {"nightly"} \notin met PROVE OneEach'
      BY <1>2 DEF OneEach
    <3>1. \A a \in db["reports"] :
             ~(a.organizationId = row.organizationId /\ a.createdAt = row.createdAt)
      <4>1. ~HasBriefToday(loc[c].org, loc[c].today)
        BY DEF OneEach
      <4>2. \A a \in db["reports"] : a.organizationId = loc[c].org => ~(a.createdAt >= loc[c].today)
        BY <4>1 DEF HasBriefToday, Briefs, Cycles
      <4> QED
        BY <1>3, <2>5, <4>2
    <3>2. \A a, b \in db'["reports"] :
             a.organizationId = b.organizationId /\ a.createdAt = b.createdAt => a = b
      BY <2>2, <3>1 DEF OneEach
    <3>3. \A d \in Clients : ~(pc'[d] = "nightly.run" \/ Writing(d)')
      <4> SUFFICES ASSUME NEW d \in Clients \ {c}, pc'[d] = "nightly.run" \/ Writing(d)'
                   PROVE  FALSE
        BY <2>4, <2>7
      <4>1. InFlight(d)
        BY <2>4 DEF Writing, InFlight
      <4> QED
        BY <1>2, <4>1 DEF Cycles
    <3> QED
      BY <3>2, <3>3 DEF OneEach
  <2>10. AllTold'
    <3>1. Known(c)'
      <4>1. Known(c)
        BY <1>1, <1>6, BriefIsKnown
      <4> QED
        BY <1>2, <1>6, <2>1, <2>7, <4>1, KnownStays
    <3> SUFFICES ASSUME "nightly" \notin cuts, NEW r \in db'["reports"],
                        ById("notifications", r.id)' = {}
                 PROVE  \E d \in Clients : /\ Telling(d)' /\ Known(d)'
                                           /\ r.id = Under(Number(d)', loc'[d].org)
                                           /\ r.organizationId = loc'[d].org
      BY <1>2 DEF AllTold
    <3>2. CASE r = row
      BY <1>3, <2>6, <2>7, <3>1, <3>2
    <3>3. CASE r # row
      <4>1. r \in db["reports"] /\ ById("notifications", r.id) = {}
        BY <2>2, <3>3
      <4>2. PICK d \in Clients : /\ Telling(d) /\ Known(d)
                                 /\ r.id = Under(Number(d), loc[d].org)
                                 /\ r.organizationId = loc[d].org
        BY <4>1 DEF AllTold
      <4>3. d # c
        BY <1>4, <4>2
      <4>4. /\ Telling(d)' /\ loc'[d] = loc[d] /\ Number(d)' = Number(d)
            /\ TheWord(d)' = TheWord(d)
        BY <2>4, <4>2, <4>3 DEF Telling, TheWord, Number
      <4>5. Known(d)'
        BY <1>2, <1>6, <2>1, <4>2, <4>4, KnownStays
      <4> QED
        BY <4>2, <4>4, <4>5
    <3> QED
      BY <3>2, <3>3
  <2> QED
    BY <2>8, <2>9, <2>10
<1>7. \/ Respond(c) /\ UNCHANGED db
      \/ /\ ~Refused(k) /\ db' = InsertRow("reports", row)
         /\ Goto(c, "calling", [calls |-> rest])
  <2>1. IF Refused(k) \/ FindsNothing(k)
        THEN Respond(c) /\ UNCHANGED db
        ELSE /\ db' = CASE k.call = "insert" -> InsertRow(k.table, k.row)
                        [] k.call \in {"update", "change"} -> UpdateRow(k.table, k.id, k.row)
                        [] k.call = "upsert" -> UpsertRow(k.table, k.row)
                        [] OTHER -> RemoveRow(k.table, k.id)
             /\ CASE rest # <<>> -> Goto(c, "calling", [calls |-> rest])
                  [] rest = <<>> /\ loc[c].next = "idle" -> Respond(c)
                  [] OTHER -> Goto(c, loc[c].next, Nothing)
    BY DEF StoreCall, k, rest
  <2> QED
    BY <1>1, <1>3, <2>1
<1> QED
  BY <1>5, <1>6, <1>7

\* Word of the brief is sent, and the cycle goes on to the next organization.
LEMMA TellingKeeps ==
  ASSUME area = "nightly", Cycles, OneEach, AllTold, NEW c \in Clients, Telling(c),
         StoreCall(c), UNCHANGED day
  PROVE  Cycles' /\ OneEach' /\ AllTold'
<1> DEFINE k == Head(loc[c].calls)
           rest == Tail(loc[c].calls)
           row == TheWord(c).row
<1>1. k = TheWord(c) /\ rest = <<>> /\ pc[c] = "calling"
  BY DEF Telling
<1>2. UNCHANGED <<postgres, area, served, met, cuts>> /\ InFlight(c)
  BY <1>1 DEF StoreCall, At, history, InFlight
<1>3. /\ k.call = "insert" /\ k.table = "notifications" /\ k.row = row
      /\ row.id = Under(Number(c), loc[c].org)
  <2>1. TheWord(c).call = "insert" /\ TheWord(c).table = "notifications"
    BY DEF TheWord, Inserting
  <2>2. row.id = Under(Number(c), loc[c].org)
    BY DEF TheWord, Inserting
  <2>3. k.row = row
    BY <1>1
  <2> QED
    BY <1>1, <2>1, <2>2, <2>3
<1>4. loc[c].next = "nightly.next" /\ {"op", "n", "org"} \subseteq DOMAIN loc[c]
  BY <1>1, <1>2 DEF Cycles
<1> HIDE DEF k, rest, row
<1>5. CASE Respond(c) /\ UNCHANGED db /\ Refused(k)
  <2>1. ASSUME Known(c) PROVE ById("notifications", Under(Number(c), loc[c].org)) # {}
    <3>1. postgres /\ Duplicates("notifications", row)
      BY <1>1, <1>3, <1>5, <2>1 DEF Refused, Known, row
    <3>2. PICK r \in db["notifications"] : r.id = row.id
      BY <3>1, SameReferences DEF Duplicates
    <3> QED
      BY <1>3, <3>2 DEF ById, Table, Cycles
  <2> QED
    BY <1>2, <1>5, <2>1, EndKeeps
<1>6. CASE db' = InsertRow("notifications", row) /\ Goto(c, "nightly.next", Nothing)
  <2>1. "reports" \in DOMAIN db /\ "notifications" \in DOMAIN db
    BY DEF Cycles
  <2>2. /\ DOMAIN db' = DOMAIN db /\ db'["notifications"] = db["notifications"] \cup {row}
        /\ db'["reports"] = db["reports"]
        /\ \A u, id : ById(u, id) # {} => ById(u, id)' # {}
    BY <1>6, <2>1, InsertsAdd
  <2>3. "nightly.next" \in CyclePC /\ DOMAIN Nothing = {"calls"}
    BY DEF CyclePC, NightlyPC, Nothing
  <2>4. /\ pc' \in [Clients -> CyclePC] /\ DOMAIN loc' = Clients /\ pc'[c] = "nightly.next"
        /\ DOMAIN loc'[c] = {"calls"} \cup DOMAIN loc[c]
        /\ \A f \in DOMAIN loc[c] : f # "calls" => loc'[c][f] = loc[c][f]
        /\ \A d \in Clients \ {c} : pc'[d] = pc[d] /\ loc'[d] = loc[d]
    BY <1>6, <2>3, CycleGoesOn
  <2>5. {"op", "n", "org"} \subseteq DOMAIN loc'[c] /\ loc'[c].op = "nightly"
    BY <1>2, <1>4, <2>4 DEF Cycles
  <2>6. Cycles'
    <3>1. day' \in Nat /\ {"reports", "notifications"} \subseteq DOMAIN db'
      BY <2>2 DEF Cycles
    <3>2. \A d \in Clients : InFlight(d)' => /\ {"op", "n", "org"} \subseteq DOMAIN loc'[d]
                                             /\ loc'[d].op = "nightly"
      BY <2>4, <2>5 DEF Cycles, InFlight
    <3>3. \A d \in Clients : pc'[d] \in {"nightly.brief", "nightly.run", "calling"} =>
            "today" \in DOMAIN loc'[d] /\ loc'[d].today \in Nat
      BY <2>4 DEF Cycles
    <3>4. \A d \in Clients : pc'[d] = "calling" =>
            /\ "next" \in DOMAIN loc'[d] /\ loc'[d].next = "nightly.next"
            /\ Writing(d)' \/ Telling(d)'
      BY <2>4 DEF Cycles, Writing, Telling, TheBrief, TheWord, Number
    <3>5. \A d, e \in Clients : InFlight(d)' /\ InFlight(e)' /\ d # e => {"nightly"} \in met'
      BY <1>2, <2>4 DEF Cycles, InFlight
    <3>6. \A r \in db'["reports"] : r.type = "morning_brief"
      BY <2>2 DEF Cycles
    <3> QED
      BY <2>4, <3>1, <3>2, <3>3, <3>4, <3>5, <3>6 DEF Cycles
  <2>7. OneEach'
    <3> SUFFICES ASSUME {"nightly"} \notin met PROVE OneEach'
      BY <1>2 DEF OneEach
    <3>1. \A a, b \in db'["reports"] :
             a.organizationId = b.organizationId /\ a.createdAt = b.createdAt => a = b
      BY <2>2 DEF OneEach
    <3>2. ASSUME NEW d \in Clients, pc'[d] = "nightly.run" \/ Writing(d)'
          PROVE  ~HasBriefToday(loc'[d].org, loc'[d].today)
      BY <2>4, <3>2 DEF OneEach, Writing, TheBrief, TheWord, Number
    <3> QED
      BY <2>2, <3>1, <3>2 DEF OneEach, HasBriefToday, Briefs
  <2>8. AllTold'
    <3> SUFFICES ASSUME "nightly" \notin cuts, NEW r \in db["reports"],
                        ById("notifications", r.id)' = {}
                 PROVE  \E d \in Clients : /\ Telling(d)' /\ Known(d)'
                                           /\ r.id = Under(Number(d)', loc'[d].org)
                                           /\ r.organizationId = loc'[d].org
      BY <1>2, <2>2 DEF AllTold
    <3>1. ById("notifications", r.id) = {}
      BY <2>2
    <3>2. PICK d \in Clients : /\ Telling(d) /\ Known(d)
                               /\ r.id = Under(Number(d), loc[d].org)
                               /\ r.organizationId = loc[d].org
      BY <3>1 DEF AllTold
    <3>3. d # c
      <4>1. row.id # r.id
        BY <2>1, <2>2 DEF ById, Table
      <4> QED
        BY <1>3, <3>2, <4>1
    <3>4. /\ Telling(d)' /\ loc'[d] = loc[d] /\ Number(d)' = Number(d)
          /\ TheWord(d)' = TheWord(d)
      BY <2>4, <3>2, <3>3 DEF Telling, TheWord, Number
    <3>5. Known(d)'
      BY <1>2, <1>6, <2>1, <3>2, <3>4, KnownStays
    <3> QED
      BY <3>2, <3>4, <3>5
  <2> QED
    BY <2>6, <2>7, <2>8
<1>7. \/ Respond(c) /\ UNCHANGED db /\ Refused(k)
      \/ db' = InsertRow("notifications", row) /\ Goto(c, "nightly.next", Nothing)
  <2>1. IF Refused(k) \/ FindsNothing(k)
        THEN Respond(c) /\ UNCHANGED db
        ELSE /\ db' = CASE k.call = "insert" -> InsertRow(k.table, k.row)
                        [] k.call \in {"update", "change"} -> UpdateRow(k.table, k.id, k.row)
                        [] k.call = "upsert" -> UpsertRow(k.table, k.row)
                        [] OTHER -> RemoveRow(k.table, k.id)
             /\ CASE rest # <<>> -> Goto(c, "calling", [calls |-> rest])
                  [] rest = <<>> /\ loc[c].next = "idle" -> Respond(c)
                  [] OTHER -> Goto(c, loc[c].next, Nothing)
    BY DEF StoreCall, k, rest
  <2>2. ~FindsNothing(k)
    BY <1>3 DEF FindsNothing
  <2> QED
    BY <1>1, <1>3, <1>4, <2>1, <2>2
<1> QED
  BY <1>5, <1>6, <1>7

\* The timer starts a cycle.
LEMMA StartKeeps ==
  ASSUME Cycles, OneEach, AllTold, NEW c \in Clients, StartCycle(c)
  PROVE  Cycles' /\ OneEach' /\ AllTold'
<1> DEFINE new == [op |-> "nightly", org |-> None]
<1>1. Accept(c, "nightly.orgs", new) /\ UNCHANGED <<db, day>>
  BY DEF StartCycle
<1>2. DOMAIN new = {"op", "org"} /\ new.op = "nightly"
  OBVIOUS
<1> HIDE DEF new
<1>3. /\ pc[c] = "idle" /\ UNCHANGED <<postgres, area, cuts>> /\ met \subseteq met'
      /\ \A d \in Clients : InFlight(d) => {"nightly", loc[d].op} \in met'
      /\ pc' = [pc EXCEPT ![c] = "nightly.orgs"]
      /\ loc' = [loc EXCEPT ![c] = Over(new, [n |-> served + 1])]
  BY <1>1, <1>2 DEF Accept
<1>4. /\ pc' \in [Clients -> CyclePC] /\ DOMAIN loc' = Clients /\ pc'[c] = "nightly.orgs"
      /\ {"op", "n", "org"} \subseteq DOMAIN loc'[c] /\ loc'[c].op = "nightly"
      /\ \A d \in Clients \ {c} : pc'[d] = pc[d] /\ loc'[d] = loc[d]
  <2>1. DOMAIN loc = Clients /\ pc \in [Clients -> CyclePC] /\ "nightly.orgs" \in CyclePC
    BY DEF Cycles, CyclePC, NightlyPC
  <2>2. loc'[c] = Over(new, [n |-> served + 1])
    BY <1>3, <2>1
  <2>3. {"op", "n", "org"} \subseteq DOMAIN loc'[c] /\ loc'[c].op = "nightly"
    BY <1>2, <2>2 DEF Over
  <2> QED
    BY <1>3, <2>1, <2>3
<1>5. Cycles'
  <2>1. day' \in Nat /\ {"reports", "notifications"} \subseteq DOMAIN db'
    BY <1>1 DEF Cycles
  <2>2. \A d \in Clients : InFlight(d)' => /\ {"op", "n", "org"} \subseteq DOMAIN loc'[d]
                                           /\ loc'[d].op = "nightly"
    BY <1>4 DEF Cycles, InFlight
  <2>3. \A d \in Clients : pc'[d] \in {"nightly.brief", "nightly.run", "calling"} =>
          "today" \in DOMAIN loc'[d] /\ loc'[d].today \in Nat
    BY <1>4 DEF Cycles
  <2>4. \A d \in Clients : pc'[d] = "calling" =>
          /\ "next" \in DOMAIN loc'[d] /\ loc'[d].next = "nightly.next"
          /\ Writing(d)' \/ Telling(d)'
    BY <1>4 DEF Cycles, Writing, Telling, TheBrief, TheWord, Number
  <2>5. ASSUME NEW d \in Clients, NEW e \in Clients, InFlight(d)', InFlight(e)', d # e
        PROVE  {"nightly"} \in met'
    <3>1. ASSUME NEW f \in Clients \ {c}, InFlight(f)' PROVE {"nightly"} \in met'
      <4>1. InFlight(f)
        BY <1>4, <3>1 DEF InFlight
      <4>2. loc[f].op = "nightly" /\ {"nightly", loc[f].op} \in met'
        BY <1>3, <4>1 DEF Cycles
      <4>3. {"nightly", "nightly"} = {"nightly"}
        OBVIOUS
      <4> QED
        BY <4>2, <4>3
    <3> QED
      BY <2>5, <3>1
  <2>6. \A r \in db'["reports"] : r.type = "morning_brief"
    BY <1>1 DEF Cycles
  <2> QED
    BY <1>4, <2>1, <2>2, <2>3, <2>4, <2>5, <2>6 DEF Cycles
<1>6. OneEach'
  <2> SUFFICES ASSUME {"nightly"} \notin met PROVE OneEach'
    BY <1>3 DEF OneEach
  <2>1. \A a, b \in db'["reports"] :
           a.organizationId = b.organizationId /\ a.createdAt = b.createdAt => a = b
    BY <1>1 DEF OneEach
  <2>2. ASSUME NEW d \in Clients, pc'[d] = "nightly.run" \/ Writing(d)'
        PROVE  ~HasBriefToday(loc'[d].org, loc'[d].today)
    BY <1>4, <2>2 DEF OneEach, Writing, TheBrief, TheWord, Number
  <2> QED
    BY <1>1, <2>1, <2>2 DEF OneEach, HasBriefToday, Briefs
<1>7. AllTold'
  BY <1>1, <1>3, <1>4, AllToldStays
<1> QED
  BY <1>5, <1>6, <1>7

\* A cycle that is cut off owes nothing any more.
LEMMA CutKeeps ==
  ASSUME Cycles, OneEach, AllTold, NEW c \in Clients, CutOff(c), UNCHANGED day
  PROVE  Cycles' /\ OneEach' /\ AllTold'
<1>1. /\ InFlight(c) /\ cuts' = cuts \cup {loc[c].op} /\ Respond(c)
      /\ UNCHANGED <<postgres, area, db, served, met>>
  BY DEF CutOff
<1>2. "nightly" \in cuts'
  BY <1>1 DEF Cycles
<1> QED
  BY <1>1, <1>2, EndKeeps

-----------------------------------------------------------------------------
(***************************************************************************)
(* Briefs: the theorem.                                                    *)
(***************************************************************************)
LEMMA BriefsInitially == Init => BriefsInv
<1> SUFFICES ASSUME Init PROVE BriefsInv
  OBVIOUS
<1>1. PICK a \in Areas : \E seed \in Seeds[a] : RequestsInit(a, seed.rows)
  BY DEF Init
<1>2. PICK seed \in Seeds[a] : RequestsInit(a, seed.rows)
  BY <1>1
<1>3. /\ area = a /\ db = seed.rows /\ cuts = {} /\ met = {}
      /\ pc = [c \in Clients |-> "idle"] /\ loc = [c \in Clients |-> Empty]
  BY <1>2 DEF RequestsInit
<1>4. ReportsFit(area, db)
  BY <1>2, <1>3, PlatformAssumption
<1>5. area # "nightly" => "reports" \notin DOMAIN db
  BY <1>4 DEF ReportsFit
<1>6. ASSUME area = "nightly" PROVE Cycles /\ OneEach /\ AllTold
  <2>1. /\ {"reports", "notifications"} \subseteq DOMAIN db /\ day \in Nat
        /\ \A r, s \in db["reports"] :
              r.organizationId = s.organizationId /\ r.createdAt = s.createdAt => r = s
        /\ \A r \in db["reports"] : r.type = "morning_brief"
        /\ \A r \in db["reports"] : \E n \in db["notifications"] : n.id = r.id
    BY <1>4, <1>6 DEF ReportsFit, Init, NightlyInit
  <2>2. Cycles
    BY <1>3, <2>1 DEF Cycles, CyclePC, InFlight
  <2>3. OneEach
    BY <1>3, <2>1 DEF OneEach, Writing
  <2>4. AllTold
    BY <2>1 DEF AllTold, ById, Table
  <2> QED
    BY <2>2, <2>3, <2>4
<1> QED
  BY <1>3, <1>5, <1>6 DEF BriefsInv

\* The area is the behaviour's; elsewhere there are no reports.
LEMMA BriefsKept == BriefsInv /\ [Next]_vars => BriefsInv'
<1> SUFFICES ASSUME BriefsInv, [Next]_vars PROVE BriefsInv'
  OBVIOUS
<1>1. UNCHANGED <<area, postgres>> /\ DOMAIN db' = DOMAIN db
  BY Frame, TablesStay
<1>2. CASE area # "nightly"
  BY <1>1, <1>2 DEF BriefsInv
<1>3. CASE area = "nightly"
  <2>1. Cycles /\ OneEach /\ AllTold /\ pc \in [Clients -> CyclePC]
    BY <1>3 DEF BriefsInv, Cycles
  <2>2. CASE UNCHANGED <<requestVars, day>> \/ DayPasses
    <3>1. UNCHANGED <<postgres, db, pc, loc, met, cuts>> /\ day' \in Nat
      <4>1. UNCHANGED requestVars
        BY <2>2 DEF DayPasses
      <4>2. day' = day \/ day' = day + 1
        BY <2>2 DEF DayPasses
      <4> QED
        BY <2>1, <4>1, <4>2 DEF requestVars, Cycles
    <3>2. Cycles'
      BY <2>1, <3>1 DEF Cycles, InFlight, Writing, Telling, TheBrief, TheWord, Number
    <3>3. OneEach'
      BY <2>1, <3>1 DEF OneEach, HasBriefToday, Briefs, Writing, TheBrief, TheWord, Number
    <3>4. AllTold'
      <4>1. ASSUME NEW c \in Clients, Telling(c), Known(c)
            PROVE  Telling(c)' /\ Known(c)' /\ loc'[c] = loc[c] /\ Number(c)' = Number(c)
        <5> DEFINE word == TheWord(c).row
        <5>1. TheWord(c)' = TheWord(c) /\ Telling(c)' /\ Number(c)' = Number(c)
          BY <3>1, <4>1 DEF Telling, TheWord, Number
        <5>2. RefersToNothing("notifications", word)' <=> RefersToNothing("notifications", word)
          BY <3>1, <5>1 DEF RefersToNothing, RefersTo, ById, Table
        <5> QED
          BY <3>1, <4>1, <5>1, <5>2 DEF Known
      <4> QED
        BY <2>1, <3>1, <4>1 DEF AllTold, ById, Table
    <3> QED
      BY <1>1, <1>3, <3>2, <3>3, <3>4 DEF BriefsInv
  <2>3. ASSUME NEW c \in Clients, \/ StartCycle(c) \/ NightlyStep(c)
                                  \/ StoreCall(c) /\ UNCHANGED day
                                  \/ CutOff(c) /\ UNCHANGED day
        PROVE  Cycles' /\ OneEach' /\ AllTold'
    <3>1. CASE StoreCall(c) /\ UNCHANGED day
      <4>1. Writing(c) \/ Telling(c)
        BY <2>1, <3>1, StepsStart DEF Cycles
      <4> QED
        BY <1>3, <2>1, <3>1, <4>1, WritingKeeps, TellingKeeps
    <3> QED
      BY <2>1, <2>3, <3>1, StartKeeps, NightlyStepKeeps, CutKeeps
  <2> QED
    BY <1>1, <1>3, <2>1, <2>2, <2>3, NightlyFrame DEF BriefsInv
<1> QED
  BY <1>2, <1>3

LEMMA BriefsPromised == BriefsInv => BriefsAreDaily
<1> SUFFICES ASSUME BriefsInv PROVE BriefsAreDaily
  OBVIOUS
<1>1. CASE area # "nightly"
  BY <1>1 DEF BriefsInv, BriefsAreDaily, OneBriefPerDay, BriefsAreAnnounced, Table
<1>2. CASE area = "nightly"
  <2>1. Cycles /\ OneEach /\ AllTold /\ "reports" \in DOMAIN db
    BY <1>2 DEF BriefsInv, Cycles
  <2>2. OneBriefPerDay
    <3>1. {"nightly"} \in met => Met({"nightly"})
      BY DEF Met
    <3> QED
      BY <2>1, <3>1 DEF OneEach, OneBriefPerDay, Table
  <2>3. BriefsAreAnnounced
    BY <2>1 DEF AllTold, BriefsAreAnnounced, Table, Telling
  <2> QED
    BY <2>2, <2>3 DEF BriefsAreDaily
<1> QED
  BY <1>1, <1>2

\* Once per organization per day, and word of it (nightly-cycle.ts), whatever days
\* pass while a cycle runs and wherever it stops: no day has two briefs for one
\* organization unless two cycles ran at once, and a brief whose word was not sent is
\* one whose cycle is about to send it, or was cut off.
THEOREM BriefsDaily == Spec => []BriefsAreDaily
<1>1. BriefsInv /\ [Next]_vars => BriefsInv'
  BY BriefsKept
<1> QED
  BY <1>1, BriefsInitially, BriefsPromised, PTL DEF Spec

-----------------------------------------------------------------------------
(***************************************************************************)
(* Credentials: the inductive invariant.                                   *)
(***************************************************************************)
VaultPC == {"idle", "calling", "vault.load", "vault.read", "vault.truncate", "vault.fill",
            "vault.seal", "vault.revoke", "credential.read", "vault.open"}

\* Requests that need the vault's key, and the points at which they load it.
KeyOps == {"addIntegration", "openSecret"}
Loading(c) == pc[c] \in {"vault.load", "vault.read", "vault.truncate", "vault.fill"}

\* The key that a process starting now would load, if there is one.
Key == IF envKey THEN EnvKey ELSE keyFile
HasKey == envKey \/ keyFile # None

Revoking(c) ==
  Updating("integrations", loc[c].target, [status |-> "revoked", sealedWith |-> None])
Using(c) == Updating("integrations", loc[c].target, [used |-> TRUE])

\* What a request may still have to write.
VaultCalls(c) ==
  IF loc[c].op = "addIntegration"
  THEN {Sealed(c), Auditing(c, "integration.credential_added", Number(c)), Notifying(c, None)}
  ELSE {Revoking(c), Auditing(c, "integration.credential_revoked", loc[c].target), Using(c)}

\* A request at one of its points, with the locals that the point needs.
VaultRequest(c) ==
  /\ {"op", "n", "org"} \subseteq DOMAIN loc[c] /\ loc[c].n \in Nat
  /\ loc[c].op \in KeyOps \cup {"revoke"}
  /\ loc[c].op # "addIntegration" => "target" \in DOMAIN loc[c]
  /\ Loading(c) => /\ loc[c].op \in KeyOps /\ "use" \in DOMAIN loc[c]
                   /\ loc[c].use = IF loc[c].op = "addIntegration" THEN "vault.seal"
                                                                   ELSE "vault.open"
  /\ pc[c] \in {"vault.truncate", "vault.fill", "vault.seal", "vault.open"} =>
        "key" \in DOMAIN loc[c]
  /\ pc[c] = "vault.seal" => loc[c].op = "addIntegration"
  /\ pc[c] \in {"credential.read", "vault.open"} => loc[c].op = "openSecret"
  /\ pc[c] = "vault.revoke" => loc[c].op = "revoke"
  /\ pc[c] = "calling" =>
        /\ {"calls", "next"} \subseteq DOMAIN loc[c] /\ loc[c].next = "idle"
        /\ loc[c].calls \in Seq(VaultCalls(c)) /\ loc[c].calls # <<>>
        /\ loc[c].op = "addIntegration" => "key" \in DOMAIN loc[c]

Vaults ==
  /\ pc \in [Clients -> VaultPC] /\ DOMAIN loc = Clients /\ served \in Nat
  /\ "integrations" \in DOMAIN db
  /\ \A i \in db["integrations"] : {"status", "sealedWith"} \subseteq DOMAIN i
  /\ \A c \in Clients : InFlight(c) => VaultRequest(c)
  /\ \A c, d \in Clients : InFlight(c) /\ InFlight(d) /\ c # d
                             => {loc[c].op, loc[d].op} \in met

\* A request at a point where its key is the one that all others will find.
Keyed(c) ==
  /\ pc[c] = "vault.read" => ~envKey
  /\ pc[c] \in {"vault.truncate", "vault.fill"} => ~HasKey /\ loc[c].key # None
  /\ pc[c] = "vault.seal" => HasKey /\ loc[c].key = Key
  /\ pc[c] = "calling" /\ loc[c].op = "addIntegration" => HasKey /\ loc[c].key = Key

\* While no two requests load the key at once there is one key.
OneKey ==
  ~Met(KeyOps) =>
     /\ \A i \in db["integrations"] : i.status = "active" => HasKey /\ i.sealedWith = Key
     /\ cachedKey # None => HasKey /\ cachedKey = Key
     /\ \A c \in Clients : Keyed(c)

VaultInv ==
  /\ area # "vault" => "integrations" \notin DOMAIN db
  /\ area = "vault" => Vaults /\ OneKey

-----------------------------------------------------------------------------
(***************************************************************************)
(* Credentials: what happens in the area.                                  *)
(***************************************************************************)
LEMMA VaultFrame ==
  ASSUME [Next]_vars, area = "vault", pc \in [Clients -> VaultPC]
  PROVE  \/ UNCHANGED <<requestVars, vaultVars>>
         \/ Restart
         \/ \E c \in Clients :
               \/ AddIntegration(c) \/ RevokeIntegration(c) \/ UseCredential(c)
               \/ LoadVaultKey(c) \/ ReadKeyFile(c) \/ TruncateKeyFile(c) \/ WriteKeyFile(c)
               \/ StoreCredential(c) \/ RevokeCredential(c) \/ ReadCredential(c) \/ OpenSecret(c)
               \/ StoreCall(c) /\ UNCHANGED vaultVars
               \/ CutOff(c) /\ UNCHANGED vaultVars
<1>1. CASE UNCHANGED vars
  BY <1>1 DEF vars
<1>2. CASE Environment
  BY <1>2 DEF Environment, LockExpires, WindowPasses, DayPasses
<1>3. ASSUME NEW c \in Clients, Submit(c)
      PROVE  AddIntegration(c) \/ RevokeIntegration(c) \/ UseCredential(c)
  BY <1>3 DEF Submit, AccountsSubmit, IntakeSubmit, KnowledgeSubmit, AgentsSubmit,
      EvalsSubmit, NightlySubmit, WorkspaceSubmit, SystemsSubmit, Calls
<1>4. ASSUME NEW c \in Clients, Step(c)
      PROVE  \/ LoadVaultKey(c) \/ ReadKeyFile(c) \/ TruncateKeyFile(c) \/ WriteKeyFile(c)
             \/ StoreCredential(c) \/ RevokeCredential(c) \/ ReadCredential(c) \/ OpenSecret(c)
             \/ StoreCall(c) /\ UNCHANGED vaultVars
             \/ CutOff(c) /\ UNCHANGED vaultVars
  <2>1. /\ ~AccountsStep(c) /\ ~IntakeStep(c) /\ ~KnowledgeStep(c) /\ ~AgentsStep(c)
        /\ ~EvalsStep(c) /\ ~NightlyStep(c) /\ ~SystemsStep(c)
    BY StepsStart DEF VaultPC, AccountsPC, IntakePC, KnowledgePC, AgentsPC, EvalsPC,
       NightlyPC, SystemsPC
  <2>2. ~StoresStep(c)
    BY DEF StoresStep
  <2>3. ~SendNotification(c) /\ ~ReadInbox(c) /\ ~MarkNext(c)
    BY DEF VaultPC, SendNotification, ReadInbox, MarkNext, At
  <2> QED
    BY <1>4, <2>1, <2>2, <2>3 DEF Step, WorkspaceStep
<1> QED
  BY <1>1, <1>2, <1>3, <1>4 DEF Next

\* What a request may still have to write is made of what it holds.
LEMMA SameCalls ==
  ASSUME NEW d \in Clients, loc'[d].op = loc[d].op, loc'[d].n = loc[d].n,
         loc'[d].org = loc[d].org,
         IF loc[d].op = "addIntegration" THEN loc'[d].key = loc[d].key
                                        ELSE loc'[d].target = loc[d].target
  PROVE  VaultCalls(d)' = VaultCalls(d)
<1>1. Number(d)' = Number(d)
  BY DEF Number
<1>2. CASE loc[d].op = "addIntegration"
  <2>1. Sealed(d)' = Sealed(d)
    BY <1>1, <1>2 DEF Sealed
  <2>2. Notifying(d, None)' = Notifying(d, None)
    BY <1>1 DEF Notifying
  <2>3. Auditing(d, "integration.credential_added", Number(d))'
            = Auditing(d, "integration.credential_added", Number(d))
    BY <1>1 DEF Auditing
  <2> QED
    BY <1>2, <2>1, <2>2, <2>3 DEF VaultCalls
<1>3. CASE loc[d].op # "addIntegration"
  <2>1. Revoking(d)' = Revoking(d) /\ Using(d)' = Using(d)
    BY <1>3 DEF Revoking, Using
  <2>2. Auditing(d, "integration.credential_revoked", loc[d].target)'
            = Auditing(d, "integration.credential_revoked", loc[d].target)
    BY <1>1, <1>3 DEF Auditing
  <2> QED
    BY <1>3, <2>1, <2>2 DEF VaultCalls
<1> QED
  BY <1>2, <1>3

LEMMA SameRequest ==
  ASSUME NEW d \in Clients, pc'[d] = pc[d], loc'[d] = loc[d]
  PROVE  /\ InFlight(d)' <=> InFlight(d)
         /\ VaultRequest(d)' <=> VaultRequest(d)
<1>1. VaultCalls(d)' = VaultCalls(d)
  BY SameCalls
<1>2. VaultRequest(d)' <=> VaultRequest(d)
  BY <1>1 DEF VaultRequest, Loading
<1> QED
  BY <1>2 DEF InFlight

\* A request that is at its new point what that point needs keeps the others as they are.
LEMMA VaultsStay ==
  ASSUME Vaults, NEW c \in Clients, pc' \in [Clients -> VaultPC], DOMAIN loc' = Clients,
         served' \in Nat, met \subseteq met',
         "integrations" \in DOMAIN db',
         \A i \in db'["integrations"] : {"status", "sealedWith"} \subseteq DOMAIN i,
         \A d \in Clients \ {c} : pc'[d] = pc[d] /\ loc'[d] = loc[d],
         InFlight(c)' => /\ VaultRequest(c)'
                         /\ \A d \in Clients \ {c} : InFlight(d)
                               => {loc'[c].op, loc[d].op} \in met'
  PROVE  Vaults'
<1>1. \A d \in Clients : InFlight(d)' => VaultRequest(d)'
  BY SameRequest DEF Vaults
<1>2. ASSUME NEW d \in Clients, NEW e \in Clients, InFlight(d)', InFlight(e)', d # e
      PROVE  {loc'[d].op, loc'[e].op} \in met'
  <2>1. CASE d = c
    BY <1>2, <2>1, SameRequest
  <2>2. CASE e = c
    <3>1. {loc'[d].op, loc'[e].op} = {loc'[e].op, loc'[d].op}
      OBVIOUS
    <3> QED
      BY <1>2, <2>2, <3>1, SameRequest
  <2>3. CASE d # c /\ e # c
    BY <1>2, <2>3, SameRequest DEF Vaults
  <2> QED
    BY <2>1, <2>2, <2>3
<1> QED
  BY <1>1, <1>2 DEF Vaults

\* Nobody else's key is another as long as the key file is the same.
LEMMA KeyStays ==
  ASSUME OneKey, met \subseteq met', NEW c \in Clients,
         ~Met(KeyOps) => UNCHANGED <<envKey, keyFile>>,
         \A d \in Clients \ {c} : pc'[d] = pc[d] /\ loc'[d] = loc[d],
         ~Met(KeyOps) =>
            /\ \A i \in db'["integrations"] :
                  i.status = "active" => HasKey /\ i.sealedWith = Key
            /\ cachedKey' # None => HasKey /\ cachedKey' = Key
            /\ Keyed(c)'
  PROVE  OneKey'
<1>1. SUFFICES ASSUME ~Met(KeyOps)' PROVE OneKey'
  BY DEF OneKey
<1>2. ~Met(KeyOps)
  BY <1>1 DEF Met
<1>3. HasKey' = HasKey /\ Key' = Key
  BY <1>2 DEF HasKey, Key
<1>4. \A d \in Clients \ {c} : Keyed(d)'
  BY <1>2, <1>3 DEF OneKey, Keyed
<1> QED
  BY <1>2, <1>3, <1>4 DEF OneKey

\* A request that answers, or goes no further, is out of the others' way.
LEMMA AnswerKeeps ==
  ASSUME Vaults, OneKey, NEW c \in Clients, Respond(c),
         UNCHANGED <<served, met, envKey, keyFile, cachedKey>>,
         "integrations" \in DOMAIN db',
         \A i \in db'["integrations"] : {"status", "sealedWith"} \subseteq DOMAIN i,
         ~Met(KeyOps) => \A i \in db'["integrations"] :
                            i.status = "active" => HasKey /\ i.sealedWith = Key
  PROVE  Vaults' /\ OneKey'
<1>1. /\ pc' \in [Clients -> VaultPC] /\ DOMAIN loc' = Clients /\ pc'[c] = "idle"
      /\ \A d \in Clients \ {c} : pc'[d] = pc[d] /\ loc'[d] = loc[d]
  BY DEF Vaults, VaultPC, Respond
<1>2. served' \in Nat
  BY DEF Vaults
<1>3. Vaults'
  <2>1. ~InFlight(c)'
    BY <1>1 DEF InFlight
  <2> QED
    BY <1>1, <1>2, <2>1, VaultsStay
<1>4. Keyed(c)'
  BY <1>1 DEF Keyed
<1>5. ~Met(KeyOps) => (cachedKey' # None => HasKey /\ cachedKey' = Key)
  BY DEF OneKey
<1> QED
  BY <1>1, <1>3, <1>4, <1>5, KeyStays

\* A request that goes on, if it is at its new point what that point needs.
LEMMA MoveFits ==
  ASSUME Vaults, NEW c \in Clients, InFlight(c), NEW where \in VaultPC, NEW locals,
         "op" \notin DOMAIN locals, Goto(c, where, locals),
         UNCHANGED <<served, met>>, VaultRequest(c)',
         "integrations" \in DOMAIN db',
         \A i \in db'["integrations"] : {"status", "sealedWith"} \subseteq DOMAIN i
  PROVE  /\ Vaults' /\ pc'[c] = where
         /\ \A d \in Clients \ {c} : pc'[d] = pc[d] /\ loc'[d] = loc[d]
<1>1. DOMAIN pc = Clients /\ DOMAIN loc = Clients /\ pc \in [Clients -> VaultPC]
      /\ served' \in Nat
  BY DEF Vaults
<1>2. /\ pc' = [pc EXCEPT ![c] = where] /\ DOMAIN loc' = Clients
      /\ \A f \in DOMAIN loc[c] : f \notin DOMAIN locals => loc'[c][f] = loc[c][f]
      /\ \A d \in Clients \ {c} : loc'[d] = loc[d]
  BY <1>1, RequestGoesOn
<1>3. /\ pc' \in [Clients -> VaultPC] /\ pc'[c] = where
      /\ \A d \in Clients \ {c} : pc'[d] = pc[d] /\ loc'[d] = loc[d]
  BY <1>1, <1>2
<1>4. "op" \in DOMAIN loc[c]
  BY DEF Vaults, VaultRequest
<1>5. loc'[c].op = loc[c].op
  BY <1>2, <1>4
<1>6. \A d \in Clients \ {c} : InFlight(d) => {loc'[c].op, loc[d].op} \in met'
  BY <1>5 DEF Vaults
<1>7. Vaults'
  BY <1>1, <1>2, <1>3, <1>6, VaultsStay
<1> QED
  BY <1>3, <1>7

LEMMA MoveKeeps ==
  ASSUME Vaults, OneKey, NEW c \in Clients, InFlight(c), NEW where \in VaultPC, NEW locals,
         "op" \notin DOMAIN locals, Goto(c, where, locals),
         UNCHANGED <<served, met>>, VaultRequest(c)',
         ~Met(KeyOps) => UNCHANGED <<envKey, keyFile>>,
         "integrations" \in DOMAIN db',
         \A i \in db'["integrations"] : {"status", "sealedWith"} \subseteq DOMAIN i,
         ~Met(KeyOps) =>
            /\ \A i \in db'["integrations"] :
                  i.status = "active" => HasKey /\ i.sealedWith = Key
            /\ cachedKey' # None => HasKey /\ cachedKey' = Key
            /\ Keyed(c)'
  PROVE  Vaults' /\ OneKey'
<1>1. /\ Vaults' /\ pc'[c] = where
      /\ \A d \in Clients \ {c} : pc'[d] = pc[d] /\ loc'[d] = loc[d]
  BY MoveFits
<1> QED
  BY <1>1, KeyStays

\* What a request is for and about stays with it.
LEMMA RequestArrives ==
  ASSUME Vaults, NEW c \in Clients, InFlight(c), NEW where \in VaultPC, NEW locals,
         DOMAIN locals \subseteq {"use", "key", "sealedWith", "calls", "next"},
         Goto(c, where, locals)
  PROVE  /\ pc'[c] = where /\ DOMAIN loc'[c] = DOMAIN locals \cup DOMAIN loc[c]
         /\ \A f \in DOMAIN locals : loc'[c][f] = locals[f]
         /\ \A f \in DOMAIN loc[c] : f \notin DOMAIN locals => loc'[c][f] = loc[c][f]
         /\ {"op", "n", "org"} \subseteq DOMAIN loc'[c]
         /\ loc'[c].op = loc[c].op /\ loc'[c].n = loc[c].n /\ loc'[c].org = loc[c].org
         /\ loc[c].op # "addIntegration"
              => "target" \in DOMAIN loc'[c] /\ loc'[c].target = loc[c].target
<1>1. DOMAIN pc = Clients /\ DOMAIN loc = Clients /\ VaultRequest(c)
  BY DEF Vaults
<1>2. /\ pc' = [pc EXCEPT ![c] = where]
      /\ DOMAIN loc'[c] = DOMAIN locals \cup DOMAIN loc[c]
      /\ \A f \in DOMAIN locals : loc'[c][f] = locals[f]
      /\ \A f \in DOMAIN loc[c] : f \notin DOMAIN locals => loc'[c][f] = loc[c][f]
  BY <1>1, RequestGoesOn
<1>3. pc'[c] = where
  BY <1>1, <1>2
<1>4. /\ {"op", "n", "org"} \subseteq DOMAIN loc[c]
      /\ loc[c].op # "addIntegration" => "target" \in DOMAIN loc[c]
  BY <1>1 DEF VaultRequest
<1>5. "op" \notin DOMAIN locals /\ "n" \notin DOMAIN locals /\ "org" \notin DOMAIN locals
      /\ "target" \notin DOMAIN locals
  OBVIOUS
<1> QED
  BY <1>2, <1>3, <1>4, <1>5

-----------------------------------------------------------------------------
(***************************************************************************)
(* Credentials: loading the key.                                           *)
(***************************************************************************)
\* The rows are as they were.
LEMMA RowsStay ==
  ASSUME Vaults, OneKey, UNCHANGED db
  PROVE  /\ "integrations" \in DOMAIN db'
         /\ \A i \in db'["integrations"] : {"status", "sealedWith"} \subseteq DOMAIN i
         /\ ~Met(KeyOps) => \A i \in db'["integrations"] :
                               i.status = "active" => HasKey /\ i.sealedWith = Key
BY DEF Vaults, OneKey

\* A request that has its key goes on to what it wanted it for.
LEMMA LoadedFits ==
  ASSUME Vaults, NEW c \in Clients, Loading(c), NEW locals,
         DOMAIN locals \subseteq {"key", "calls"}, Goto(c, loc[c].use, locals),
         "key" \in DOMAIN loc[c] \cup DOMAIN locals
  PROVE  /\ InFlight(c) /\ loc[c].op \in KeyOps
         /\ loc[c].use \in VaultPC /\ loc[c].use \in {"vault.seal", "vault.open"}
         /\ VaultRequest(c)' /\ pc'[c] = loc[c].use
         /\ loc'[c].key = IF "key" \in DOMAIN locals THEN locals["key"] ELSE loc[c]["key"]
<1>1. InFlight(c) /\ VaultRequest(c)
  BY DEF Vaults, Loading, InFlight
<1>2. /\ loc[c].op \in KeyOps /\ loc[c].n \in Nat
      /\ loc[c].use = IF loc[c].op = "addIntegration" THEN "vault.seal" ELSE "vault.open"
  BY <1>1 DEF VaultRequest
<1>3. loc[c].use \in VaultPC /\ loc[c].use \in {"vault.seal", "vault.open"}
  BY <1>2 DEF VaultPC
<1>4. DOMAIN locals \subseteq {"use", "key", "sealedWith", "calls", "next"}
  OBVIOUS
<1>5. /\ pc'[c] = loc[c].use /\ DOMAIN loc'[c] = DOMAIN locals \cup DOMAIN loc[c]
      /\ \A f \in DOMAIN locals : loc'[c][f] = locals[f]
      /\ \A f \in DOMAIN loc[c] : f \notin DOMAIN locals => loc'[c][f] = loc[c][f]
      /\ {"op", "n", "org"} \subseteq DOMAIN loc'[c]
      /\ loc'[c].op = loc[c].op /\ loc'[c].n = loc[c].n
      /\ loc[c].op # "addIntegration" => "target" \in DOMAIN loc'[c]
  BY <1>1, <1>3, <1>4, RequestArrives
<1>6. /\ "key" \in DOMAIN loc'[c]
      /\ loc'[c].key = IF "key" \in DOMAIN locals THEN locals["key"] ELSE loc[c]["key"]
  BY <1>5
<1>7. VaultRequest(c)'
  BY <1>2, <1>3, <1>5, <1>6 DEF VaultRequest, Loading, KeyOps
<1> QED
  BY <1>1, <1>2, <1>3, <1>5, <1>6, <1>7

LEMMA LoadedKeeps ==
  ASSUME Vaults, OneKey, NEW c \in Clients, Loading(c), NEW key,
         Goto(c, loc[c].use, [key |-> key]),
         UNCHANGED <<served, met, db, envKey, keyFile>>,
         ~Met(KeyOps) => /\ HasKey /\ key = Key
                         /\ cachedKey' # None => cachedKey' = Key
  PROVE  Vaults' /\ OneKey'
<1> DEFINE locals == [key |-> key]
<1>1. DOMAIN locals = {"key"} /\ locals["key"] = key
  OBVIOUS
<1> HIDE DEF locals
<1>2. Goto(c, loc[c].use, locals)
  BY DEF locals
<1>3. /\ InFlight(c) /\ loc[c].op \in KeyOps
      /\ loc[c].use \in VaultPC /\ loc[c].use \in {"vault.seal", "vault.open"}
      /\ VaultRequest(c)' /\ pc'[c] = loc[c].use
      /\ loc'[c].key = key
  BY <1>1, <1>2, LoadedFits
<1>4. ~Met(KeyOps) => Keyed(c)'
  BY <1>3 DEF Keyed, HasKey, Key
<1> QED
  BY <1>1, <1>2, <1>3, <1>4, RowsStay, MoveKeeps

\* Loading goes on.
LEMMA LoadingKeeps ==
  ASSUME Vaults, OneKey, NEW c \in Clients, Loading(c),
         NEW where \in {"vault.read", "vault.truncate", "vault.fill"}, NEW locals,
         DOMAIN locals \subseteq {"key", "calls"}, Goto(c, where, locals),
         UNCHANGED <<served, met, db, envKey, cachedKey>>,
         ~Met(KeyOps) => UNCHANGED keyFile,
         where # "vault.read" => "key" \in DOMAIN loc[c] \cup DOMAIN locals,
         LET key == IF "key" \in DOMAIN locals THEN locals["key"] ELSE loc[c]["key"]
         IN  ~Met(KeyOps) => IF where = "vault.read" THEN ~envKey
                                                      ELSE ~HasKey /\ key # None
  PROVE  Vaults' /\ OneKey'
<1>1. InFlight(c) /\ VaultRequest(c)
  BY DEF Vaults, Loading, InFlight
<1>2. /\ loc[c].op \in KeyOps /\ loc[c].n \in Nat /\ "use" \in DOMAIN loc[c]
      /\ loc[c].use = IF loc[c].op = "addIntegration" THEN "vault.seal" ELSE "vault.open"
  BY <1>1 DEF VaultRequest
<1>3. where \in VaultPC /\ "use" \notin DOMAIN locals /\ "op" \notin DOMAIN locals
      /\ DOMAIN locals \subseteq {"use", "key", "sealedWith", "calls", "next"}
  BY DEF VaultPC
<1>4. /\ pc'[c] = where /\ DOMAIN loc'[c] = DOMAIN locals \cup DOMAIN loc[c]
      /\ \A f \in DOMAIN locals : loc'[c][f] = locals[f]
      /\ \A f \in DOMAIN loc[c] : f \notin DOMAIN locals => loc'[c][f] = loc[c][f]
      /\ {"op", "n", "org"} \subseteq DOMAIN loc'[c]
      /\ loc'[c].op = loc[c].op /\ loc'[c].n = loc[c].n
      /\ loc[c].op # "addIntegration" => "target" \in DOMAIN loc'[c]
  BY <1>1, <1>3, RequestArrives
<1>5. "use" \in DOMAIN loc'[c] /\ loc'[c].use = loc[c].use
  BY <1>2, <1>3, <1>4
<1>6. where # "vault.read" => "key" \in DOMAIN loc'[c]
  BY <1>4
<1>7. VaultRequest(c)'
  BY <1>2, <1>4, <1>5, <1>6 DEF VaultRequest, Loading
<1>8. ~Met(KeyOps) => Keyed(c)'
  BY <1>4 DEF Keyed, HasKey
<1>9. ~Met(KeyOps) => (cachedKey' # None => HasKey /\ cachedKey' = Key)
  BY DEF OneKey
<1> QED
  BY <1>1, <1>3, <1>7, <1>8, <1>9, RowsStay, MoveKeeps

\* Alone among the requests that need the key, as long as none has met another.
LEMMA AloneWithKey ==
  ASSUME Vaults, ~Met(KeyOps), NEW c \in Clients, InFlight(c), loc[c].op \in KeyOps,
         NEW d \in Clients \ {c}, InFlight(d)
  PROVE  loc[d].op \notin KeyOps
<1>1. {loc[c].op, loc[d].op} \in met
  BY DEF Vaults
<1> QED
  BY <1>1 DEF Met

LEMMA KeyLoads ==
  ASSUME Vaults, OneKey, NEW c \in Clients,
         LoadVaultKey(c) \/ ReadKeyFile(c) \/ TruncateKeyFile(c)
  PROVE  Vaults' /\ OneKey'
<1>1. Loading(c) /\ UNCHANGED <<served, met, db, envKey>>
  BY DEF LoadVaultKey, ReadKeyFile, TruncateKeyFile, At, history, Loading
<1>2. VaultRequest(c) /\ loc[c].n \in Nat /\ DOMAIN Nothing = {"calls"}
  BY <1>1 DEF Vaults, VaultRequest, Loading, InFlight, Nothing
<1> DEFINE own == [key |-> Number(c)]
<1>3. DOMAIN own = {"key"} /\ own["key"] = Number(c) /\ Number(c) # None
  <2>1. Number(c) \in Int
    BY <1>2 DEF Number
  <2> QED
    BY <2>1, RequestsAssumption
<1> HIDE DEF own
<1>4. CASE LoadVaultKey(c)
  <2>1. UNCHANGED keyFile
    BY <1>4 DEF LoadVaultKey
  <2>2. CASE cachedKey # None
    <3>1. Goto(c, loc[c].use, [key |-> cachedKey]) /\ UNCHANGED cachedKey
      BY <1>4, <2>2 DEF LoadVaultKey
    <3> QED
      BY <1>1, <2>1, <2>2, <3>1, LoadedKeeps DEF OneKey
  <2>3. CASE cachedKey = None /\ envKey
    <3>1. Goto(c, loc[c].use, [key |-> EnvKey]) /\ cachedKey' = EnvKey
      BY <1>4, <2>3 DEF LoadVaultKey
    <3>2. HasKey /\ EnvKey = Key
      BY <2>3 DEF HasKey, Key
    <3> QED
      BY <1>1, <2>1, <3>1, <3>2, LoadedKeeps
  <2>4. CASE cachedKey = None /\ ~envKey
    <3>1. Goto(c, "vault.read", Nothing) /\ UNCHANGED cachedKey
      BY <1>4, <2>4 DEF LoadVaultKey
    <3> QED
      BY <1>1, <1>2, <2>1, <2>4, <3>1, LoadingKeeps
  <2> QED
    BY <2>2, <2>3, <2>4
<1>5. CASE ReadKeyFile(c)
  <2>1. UNCHANGED keyFile /\ pc[c] = "vault.read"
    BY <1>5 DEF ReadKeyFile, At
  <2>2. ~Met(KeyOps) => ~envKey
    BY <2>1 DEF OneKey, Keyed
  <2>3. CASE keyFile # None
    <3>1. Goto(c, loc[c].use, [key |-> keyFile]) /\ cachedKey' = keyFile
      BY <1>5, <2>3 DEF ReadKeyFile
    <3>2. ~Met(KeyOps) => HasKey /\ keyFile = Key
      BY <2>2, <2>3 DEF HasKey, Key
    <3> QED
      BY <1>1, <2>1, <3>1, <3>2, LoadedKeeps
  <2>4. CASE keyFile = None
    <3>1. Goto(c, "vault.truncate", own) /\ UNCHANGED cachedKey
      BY <1>5, <2>4 DEF ReadKeyFile, own
    <3>2. ~Met(KeyOps) => ~HasKey
      BY <2>2, <2>4 DEF HasKey
    <3> QED
      BY <1>1, <1>3, <2>1, <3>1, <3>2, LoadingKeeps
  <2> QED
    BY <2>3, <2>4
<1>6. CASE TruncateKeyFile(c)
  <2>1. /\ pc[c] = "vault.truncate" /\ keyFile' = None /\ UNCHANGED cachedKey
        /\ Goto(c, "vault.fill", Nothing)
    BY <1>6 DEF TruncateKeyFile, At
  <2>2. "key" \in DOMAIN loc[c]
    BY <1>2, <2>1 DEF VaultRequest
  <2>3. ~Met(KeyOps) => ~HasKey /\ loc[c].key # None
    BY <2>1 DEF OneKey, Keyed
  <2>4. ~Met(KeyOps) => UNCHANGED keyFile
    BY <2>1, <2>3 DEF HasKey
  <2> QED
    BY <1>1, <1>2, <2>1, <2>2, <2>3, <2>4, LoadingKeeps
<1> QED
  BY <1>4, <1>5, <1>6

\* The one request that writes a key is the only one that has been about to use one.
LEMMA KeyIsWritten ==
  ASSUME Vaults, OneKey, NEW c \in Clients, WriteKeyFile(c)
  PROVE  Vaults' /\ OneKey'
<1>1. /\ pc[c] = "vault.fill" /\ Loading(c) /\ UNCHANGED <<served, met, db, envKey>>
      /\ keyFile' = loc[c].key /\ cachedKey' = loc[c].key
      /\ Goto(c, loc[c].use, Nothing)
  BY DEF WriteKeyFile, At, history, Loading
<1>2. "key" \in DOMAIN loc[c] /\ DOMAIN Nothing = {"calls"}
  BY <1>1 DEF Vaults, VaultRequest, InFlight, Nothing
<1>3. /\ InFlight(c) /\ loc[c].op \in KeyOps
      /\ loc[c].use \in VaultPC /\ loc[c].use \in {"vault.seal", "vault.open"}
      /\ VaultRequest(c)' /\ pc'[c] = loc[c].use
      /\ loc'[c].key = loc[c].key
  BY <1>1, <1>2, LoadedFits
<1>4. /\ Vaults'
      /\ \A d \in Clients \ {c} : pc'[d] = pc[d] /\ loc'[d] = loc[d]
  BY <1>1, <1>2, <1>3, RowsStay, MoveFits
<1>5. SUFFICES ASSUME ~Met(KeyOps)' PROVE OneKey'
  BY <1>4 DEF OneKey
<1>6. ~Met(KeyOps)
  BY <1>1, <1>5 DEF Met
<1>7. ~HasKey /\ loc[c].key # None
  BY <1>1, <1>6 DEF OneKey, Keyed
<1>8. HasKey' /\ Key' = loc[c].key
  BY <1>1, <1>7 DEF HasKey, Key
<1>9. \A i \in db'["integrations"] : i.status # "active"
  BY <1>1, <1>6, <1>7 DEF OneKey
<1>10. ASSUME NEW d \in Clients PROVE Keyed(d)'
  <2>1. CASE d = c
    BY <1>3, <1>8, <2>1 DEF Keyed
  <2>2. CASE d # c /\ InFlight(d)
    <3>1. loc[d].op \notin KeyOps /\ VaultRequest(d)
      BY <1>3, <1>6, <2>2, AloneWithKey DEF Vaults
    <3> QED
      BY <1>4, <2>2, <3>1 DEF Keyed, VaultRequest, Loading, KeyOps
  <2>3. CASE d # c /\ ~InFlight(d)
    BY <1>4, <2>3 DEF Keyed, InFlight
  <2> QED
    BY <2>1, <2>2, <2>3
<1> QED
  BY <1>1, <1>4, <1>8, <1>9, <1>10 DEF OneKey

-----------------------------------------------------------------------------
(***************************************************************************)
(* Credentials: sealing, revoking, opening.                                *)
(***************************************************************************)
\* A request that comes in.
LEMMA ComesIn ==
  ASSUME Vaults, OneKey, NEW c \in Clients,
         NEW where \in {"vault.load", "vault.revoke", "credential.read"},
         NEW locals, "n" \notin DOMAIN locals, {"op", "org"} \subseteq DOMAIN locals,
         where = "vault.load" => /\ "use" \in DOMAIN locals /\ locals.use = "vault.seal"
                                 /\ locals.op = "addIntegration",
         where = "vault.revoke" => "target" \in DOMAIN locals /\ locals.op = "revoke",
         where = "credential.read" => "target" \in DOMAIN locals /\ locals.op = "openSecret",
         Accept(c, where, locals), UNCHANGED <<db, vaultVars>>
  PROVE  Vaults' /\ OneKey'
<1> DEFINE number == [n |-> served + 1]
<1>1. DOMAIN number = {"n"} /\ number["n"] = served + 1
  OBVIOUS
<1> HIDE DEF number
<1>2. /\ pc' = [pc EXCEPT ![c] = where] /\ served' = served + 1 /\ met \subseteq met'
      /\ loc' = [loc EXCEPT ![c] = Over(locals, number)]
      /\ \A d \in Clients : InFlight(d) => {locals.op, loc[d].op} \in met'
  BY DEF Accept, number
<1>3. /\ DOMAIN Over(locals, number) = DOMAIN locals \cup {"n"}
      /\ \A f \in DOMAIN locals : Over(locals, number)[f] = locals[f]
      /\ Over(locals, number)["n"] = served + 1
  <2>1. /\ DOMAIN Over(locals, number) = DOMAIN locals \cup DOMAIN number
        /\ \A f \in DOMAIN locals : Over(locals, number)[f] = locals[f]
        /\ \A f \in DOMAIN number :
              f \notin DOMAIN locals => Over(locals, number)[f] = number[f]
    BY Overwritten
  <2> QED
    BY <1>1, <2>1
<1>4. pc \in [Clients -> VaultPC] /\ DOMAIN loc = Clients /\ served \in Nat /\ where \in VaultPC
  BY DEF Vaults, VaultPC
<1>5. /\ pc' \in [Clients -> VaultPC] /\ DOMAIN loc' = Clients /\ served' \in Nat
      /\ pc'[c] = where /\ loc'[c] = Over(locals, number)
      /\ \A d \in Clients \ {c} : pc'[d] = pc[d] /\ loc'[d] = loc[d]
  BY <1>2, <1>4
<1>6. /\ {"op", "n", "org"} \subseteq DOMAIN loc'[c] /\ loc'[c].n \in Nat
      /\ loc'[c].op = locals.op
      /\ "target" \in DOMAIN locals => "target" \in DOMAIN loc'[c]
      /\ "use" \in DOMAIN locals => "use" \in DOMAIN loc'[c] /\ loc'[c].use = locals.use
  BY <1>3, <1>4, <1>5
<1>7. VaultRequest(c)'
  BY <1>5, <1>6 DEF VaultRequest, Loading, KeyOps
<1>8. Vaults'
  <2>1. \A d \in Clients \ {c} : InFlight(d) => {loc'[c].op, loc[d].op} \in met'
    BY <1>2, <1>6
  <2> QED
    BY <1>2, <1>5, <1>7, <2>1, RowsStay, VaultsStay
<1>9. Keyed(c)'
  BY <1>5 DEF Keyed
<1>10. ~Met(KeyOps) => (cachedKey' # None => HasKey /\ cachedKey' = Key)
  BY DEF OneKey, vaultVars
<1> QED
  BY <1>2, <1>5, <1>8, <1>9, <1>10, RowsStay, KeyStays DEF vaultVars

LEMMA SubmitsKeep ==
  ASSUME Vaults, OneKey, NEW c \in Clients,
         AddIntegration(c) \/ RevokeIntegration(c) \/ UseCredential(c)
  PROVE  Vaults' /\ OneKey'
<1>1. CASE AddIntegration(c)
  <2>1. PICK m \in SessionContext("integrations.manage") :
           AcceptFrom(m, c, "vault.load", [op |-> "addIntegration", use |-> "vault.seal"])
    BY <1>1 DEF AddIntegration
  <2> DEFINE locals == Over([op |-> "addIntegration", use |-> "vault.seal"],
                            [org |-> m.organizationId, user |-> m.userId])
  <2>2. /\ DOMAIN locals = {"op", "use", "org", "user"}
        /\ locals.op = "addIntegration" /\ locals.use = "vault.seal"
    BY DEF Over
  <2>3. Accept(c, "vault.load", locals) /\ UNCHANGED <<db, vaultVars>>
    BY <1>1, <2>1 DEF AcceptFrom, AddIntegration
  <2> HIDE DEF locals
  <2> QED
    BY <2>2, <2>3, ComesIn
<1>2. CASE RevokeIntegration(c)
  <2>1. PICK m \in SessionContext("integrations.manage"), i \in db["integrations"] :
           AcceptFrom(m, c, "vault.revoke", [op |-> "revoke", target |-> i.id])
    BY <1>2 DEF RevokeIntegration
  <2> DEFINE locals == Over([op |-> "revoke", target |-> i.id],
                            [org |-> m.organizationId, user |-> m.userId])
  <2>2. DOMAIN locals = {"op", "target", "org", "user"} /\ locals.op = "revoke"
    BY DEF Over
  <2>3. Accept(c, "vault.revoke", locals) /\ UNCHANGED <<db, vaultVars>>
    BY <1>2, <2>1 DEF AcceptFrom, RevokeIntegration
  <2> HIDE DEF locals
  <2> QED
    BY <2>2, <2>3, ComesIn
<1>3. CASE UseCredential(c)
  <2>1. PICK o \in db["organizations"], i \in db["integrations"] :
           Accept(c, "credential.read", [op |-> "openSecret", org |-> o.id, target |-> i.id])
    BY <1>3 DEF UseCredential
  <2> DEFINE locals == [op |-> "openSecret", org |-> o.id, target |-> i.id]
  <2>2. DOMAIN locals = {"op", "org", "target"} /\ locals.op = "openSecret"
    OBVIOUS
  <2>3. Accept(c, "credential.read", locals) /\ UNCHANGED <<db, vaultVars>>
    BY <1>3, <2>1 DEF UseCredential
  <2> HIDE DEF locals
  <2> QED
    BY <2>2, <2>3, ComesIn
<1> QED
  BY <1>1, <1>2, <1>3

\* A request that has decided what to write.
LEMMA DecisionKeeps ==
  ASSUME Vaults, OneKey, NEW c \in Clients, InFlight(c), NEW calls \in Seq(VaultCalls(c)),
         Calling(c, calls, "idle"), UNCHANGED <<served, met, db, vaultVars>>,
         loc[c].op = "addIntegration" =>
            /\ "key" \in DOMAIN loc[c]
            /\ ~Met(KeyOps) => HasKey /\ loc[c].key = Key
  PROVE  Vaults' /\ OneKey'
<1>1. UNCHANGED <<envKey, keyFile, cachedKey>>
  BY DEF vaultVars
<1>2. CASE calls = <<>>
  <2>1. Respond(c)
    BY <1>2 DEF Calling
  <2> QED
    BY <1>1, <2>1, RowsStay, AnswerKeeps
<1>3. CASE calls # <<>>
  <2> DEFINE locals == [calls |-> calls, next |-> "idle"]
  <2>1. DOMAIN locals = {"calls", "next"} /\ locals["calls"] = calls /\ locals["next"] = "idle"
    OBVIOUS
  <2>2. Goto(c, "calling", locals)
    BY <1>3 DEF Calling
  <2> HIDE DEF locals
  <2>3. /\ "calling" \in VaultPC /\ "op" \notin DOMAIN locals
        /\ DOMAIN locals \subseteq {"use", "key", "sealedWith", "calls", "next"}
    BY <2>1 DEF VaultPC
  <2>4. /\ pc'[c] = "calling" /\ DOMAIN loc'[c] = DOMAIN locals \cup DOMAIN loc[c]
        /\ \A f \in DOMAIN locals : loc'[c][f] = locals[f]
        /\ \A f \in DOMAIN loc[c] : f \notin DOMAIN locals => loc'[c][f] = loc[c][f]
        /\ {"op", "n", "org"} \subseteq DOMAIN loc'[c]
        /\ loc'[c].op = loc[c].op /\ loc'[c].n = loc[c].n /\ loc'[c].org = loc[c].org
        /\ loc[c].op # "addIntegration"
             => "target" \in DOMAIN loc'[c] /\ loc'[c].target = loc[c].target
    BY <2>2, <2>3, RequestArrives
  <2>5. /\ {"calls", "next"} \subseteq DOMAIN loc'[c] /\ loc'[c].next = "idle"
        /\ loc'[c].calls = calls
    BY <2>1, <2>4
  <2>6. loc[c].op = "addIntegration" => "key" \in DOMAIN loc'[c] /\ loc'[c].key = loc[c].key
    BY <2>1, <2>4
  <2>7. VaultCalls(c)' = VaultCalls(c)
    BY <2>4, <2>6, SameCalls
  <2>8. VaultRequest(c)'
    <3>1. loc[c].n \in Nat /\ loc[c].op \in KeyOps \cup {"revoke"}
      BY DEF Vaults, VaultRequest
    <3>2. loc'[c].calls \in Seq(VaultCalls(c)') /\ loc'[c].calls # <<>>
      BY <1>3, <2>5, <2>7
    <3> QED
      BY <2>4, <2>5, <2>6, <3>1, <3>2 DEF VaultRequest, Loading
  <2>9. ~Met(KeyOps) => Keyed(c)' /\ (cachedKey' # None => HasKey /\ cachedKey' = Key)
    BY <1>1, <2>4, <2>6 DEF Keyed, OneKey, HasKey, Key
  <2> QED
    BY <1>1, <2>2, <2>3, <2>8, <2>9, RowsStay, MoveKeeps
<1> QED
  BY <1>2, <1>3

LEMMA DecisionsKeep ==
  ASSUME Vaults, OneKey, NEW c \in Clients,
         StoreCredential(c) \/ RevokeCredential(c) \/ OpenSecret(c)
  PROVE  Vaults' /\ OneKey'
<1>1. /\ InFlight(c) /\ UNCHANGED <<served, met, db, vaultVars>>
      /\ pc[c] \in {"vault.seal", "vault.revoke", "vault.open"}
  BY DEF StoreCredential, RevokeCredential, OpenSecret, At, history, InFlight
<1>2. VaultRequest(c)
  BY <1>1 DEF Vaults
<1> DEFINE S == VaultCalls(c)
<1>3. CASE StoreCredential(c)
  <2>1. pc[c] = "vault.seal" /\ loc[c].op = "addIntegration" /\ "key" \in DOMAIN loc[c]
    BY <1>2, <1>3 DEF StoreCredential, At, VaultRequest
  <2>2. ~Met(KeyOps) => HasKey /\ loc[c].key = Key
    BY <2>1 DEF OneKey, Keyed
  <2> DEFINE added == Auditing(c, "integration.credential_added", Number(c))
             word == Notifying(c, None)
             sealed == Sealed(c)
  <2>3. sealed \in S /\ added \in S /\ word \in S
    BY <2>1 DEF VaultCalls
  <2>4. Calling(c, <<sealed, added, word>>, "idle")
    BY <1>3 DEF StoreCredential
  <2> HIDE DEF S, added, word, sealed
  <2>5. <<sealed, added, word>> \in Seq(S)
    BY <2>3
  <2> QED
    BY <1>1, <2>1, <2>2, <2>4, <2>5, DecisionKeeps DEF S
<1>4. CASE RevokeCredential(c)
  <2>1. loc[c].op = "revoke"
    BY <1>2, <1>4 DEF RevokeCredential, At, VaultRequest
  <2> DEFINE revoked == Auditing(c, "integration.credential_revoked", loc[c].target)
             revoking == Revoking(c)
             calls == IF CredentialOf(c) = {} THEN <<>> ELSE <<revoking, revoked>>
  <2>2. revoking \in S /\ revoked \in S
    BY <2>1 DEF VaultCalls
  <2>3. Calling(c, calls, "idle")
    BY <1>4 DEF RevokeCredential, Revoking
  <2> HIDE DEF S, revoked, revoking
  <2>4. calls \in Seq(S)
    BY <2>2
  <2> HIDE DEF calls
  <2> QED
    BY <1>1, <2>1, <2>3, <2>4, DecisionKeeps DEF S
<1>5. CASE OpenSecret(c)
  <2>1. loc[c].op = "openSecret"
    BY <1>2, <1>5 DEF OpenSecret, At, VaultRequest
  <2> DEFINE using == Using(c)
             calls == IF loc[c].key # loc[c].sealedWith THEN <<>> ELSE <<using>>
  <2>2. using \in S
    BY <2>1 DEF VaultCalls
  <2>3. Calling(c, calls, "idle")
    BY <1>5 DEF OpenSecret, Using
  <2> HIDE DEF S, using
  <2>4. calls \in Seq(S)
    BY <2>2
  <2> HIDE DEF calls
  <2> QED
    BY <1>1, <2>1, <2>3, <2>4, DecisionKeeps DEF S
<1> QED
  BY <1>3, <1>4, <1>5

LEMMA LookKeeps ==
  ASSUME Vaults, OneKey, NEW c \in Clients, ReadCredential(c)
  PROVE  Vaults' /\ OneKey'
<1>1. /\ InFlight(c) /\ UNCHANGED <<served, met, db, envKey, keyFile, cachedKey>>
      /\ pc[c] = "credential.read"
  BY DEF ReadCredential, At, history, InFlight, vaultVars
<1>2. /\ VaultRequest(c) /\ loc[c].op = "openSecret" /\ loc[c].n \in Nat
  BY <1>1 DEF Vaults, VaultRequest
<1>3. CASE Respond(c)
  BY <1>1, <1>3, RowsStay, AnswerKeeps
<1>4. ASSUME NEW sealedWith,
             Goto(c, "vault.load", [use |-> "vault.open", sealedWith |-> sealedWith])
      PROVE  Vaults' /\ OneKey'
  <2> DEFINE locals == [use |-> "vault.open", sealedWith |-> sealedWith]
  <2>1. DOMAIN locals = {"use", "sealedWith"} /\ locals["use"] = "vault.open"
    OBVIOUS
  <2>2. Goto(c, "vault.load", locals)
    BY <1>4
  <2> HIDE DEF locals
  <2>3. /\ "vault.load" \in VaultPC /\ "op" \notin DOMAIN locals
        /\ DOMAIN locals \subseteq {"use", "key", "sealedWith", "calls", "next"}
    BY <2>1 DEF VaultPC
  <2>4. /\ pc'[c] = "vault.load" /\ DOMAIN loc'[c] = DOMAIN locals \cup DOMAIN loc[c]
        /\ \A f \in DOMAIN locals : loc'[c][f] = locals[f]
        /\ {"op", "n", "org"} \subseteq DOMAIN loc'[c]
        /\ loc'[c].op = loc[c].op /\ loc'[c].n = loc[c].n
        /\ loc[c].op # "addIntegration" => "target" \in DOMAIN loc'[c]
    BY <1>1, <2>2, <2>3, RequestArrives
  <2>5. "use" \in DOMAIN loc'[c] /\ loc'[c].use = "vault.open"
    BY <2>1, <2>4
  <2>6. VaultRequest(c)'
    BY <1>2, <2>4, <2>5 DEF VaultRequest, Loading, KeyOps
  <2>7. ~Met(KeyOps) => Keyed(c)' /\ (cachedKey' # None => HasKey /\ cachedKey' = Key)
    BY <1>1, <2>4 DEF Keyed, OneKey
  <2> QED
    BY <1>1, <2>2, <2>3, <2>6, <2>7, RowsStay, MoveKeeps
<1> QED
  BY <1>3, <1>4 DEF ReadCredential

-----------------------------------------------------------------------------
(***************************************************************************)
(* Credentials: writing.                                                   *)
(***************************************************************************)
\* A call writes a credential under the key, or leaves the active ones as they are.
LEMMA WriteFits ==
  ASSUME Vaults, OneKey, NEW c \in Clients, VaultRequest(c), NEW k \in VaultCalls(c),
         ~Met(KeyOps) => (loc[c].op = "addIntegration" => HasKey /\ loc[c].key = Key),
         db' = CASE k.call = "insert" -> InsertRow(k.table, k.row)
                 [] k.call \in {"update", "change"} -> UpdateRow(k.table, k.id, k.row)
                 [] k.call = "upsert" -> UpsertRow(k.table, k.row)
                 [] OTHER -> RemoveRow(k.table, k.id)
  PROVE  /\ "integrations" \in DOMAIN db'
         /\ \A i \in db'["integrations"] : {"status", "sealedWith"} \subseteq DOMAIN i
         /\ ~Met(KeyOps) => \A i \in db'["integrations"] :
                               i.status = "active" => HasKey /\ i.sealedWith = Key
<1> DEFINE sealed == Sealed(c).row
<1>1. /\ "integrations" \in DOMAIN db
      /\ \A i \in db["integrations"] : {"status", "sealedWith"} \subseteq DOMAIN i
      /\ ~Met(KeyOps) => \A i \in db["integrations"] :
                            i.status = "active" => HasKey /\ i.sealedWith = Key
  BY DEF Vaults, OneKey
<1>2. CASE k = Sealed(c) /\ loc[c].op = "addIntegration"
  <2>1. /\ k.call = "insert" /\ k.table = "integrations" /\ k.row = sealed
        /\ {"status", "sealedWith"} \subseteq DOMAIN sealed /\ sealed.sealedWith = loc[c].key
    BY <1>2 DEF Sealed, Inserting
  <2> HIDE DEF sealed
  <2>2. db' = InsertRow("integrations", sealed)
    BY <2>1
  <2>3. /\ "integrations" \in DOMAIN db'
        /\ db'["integrations"] = db["integrations"] \cup {sealed}
    BY <1>1, <2>2, InsertsAdd
  <2> QED
    BY <1>1, <1>2, <2>1, <2>3
<1>3. ASSUME k.call = "insert", k.table # "integrations"
      PROVE  "integrations" \in DOMAIN db' /\ db'["integrations"] = db["integrations"]
  <2>1. db' = InsertRow(k.table, k.row)
    BY <1>3
  <2> QED
    BY <1>1, <1>3, <2>1 DEF InsertRow
<1>4. ASSUME NEW patch, NEW target, db' = UpdateRow("integrations", target, patch),
             \/ DOMAIN patch = {"status", "sealedWith"} /\ patch["status"] = "revoked"
             \/ DOMAIN patch = {"used"}
      PROVE  /\ "integrations" \in DOMAIN db'
             /\ \A i \in db'["integrations"] :
                   /\ {"status", "sealedWith"} \subseteq DOMAIN i
                   /\ i.status = "active" =>
                         \E r \in db["integrations"] :
                            r.status = "active" /\ r.sealedWith = i.sealedWith
  <2>1. /\ "integrations" \in DOMAIN db'
        /\ db'["integrations"] = {IF r.id = target THEN Over(patch, r) ELSE r :
                                                            r \in db["integrations"]}
    BY <1>1, <1>4 DEF UpdateRow
  <2>2. ASSUME NEW r \in db["integrations"]
        PROVE  /\ {"status", "sealedWith"} \subseteq DOMAIN Over(patch, r)
               /\ Over(patch, r).status = "active"
                     => r.status = "active" /\ r.sealedWith = Over(patch, r).sealedWith
    <3>1. {"status", "sealedWith"} \subseteq DOMAIN r
      BY <1>1
    <3>2. /\ DOMAIN Over(patch, r) = DOMAIN patch \cup DOMAIN r
          /\ \A f \in DOMAIN patch : Over(patch, r)[f] = patch[f]
          /\ \A f \in DOMAIN r : f \notin DOMAIN patch => Over(patch, r)[f] = r[f]
      BY Overwritten
    <3> QED
      BY <1>4, <3>1, <3>2
  <2> QED
    BY <1>1, <2>1, <2>2
<1>5. CASE k = Revoking(c)
  <2> DEFINE patch == [status |-> "revoked", sealedWith |-> None]
  <2>1. /\ k.call = "update" /\ k.table = "integrations" /\ k.id = loc[c].target
        /\ k.row = patch
        /\ DOMAIN patch = {"status", "sealedWith"} /\ patch["status"] = "revoked"
    BY <1>5 DEF Revoking, Updating
  <2> HIDE DEF patch
  <2>2. db' = UpdateRow("integrations", loc[c].target, patch)
    BY <2>1
  <2> QED
    BY <1>1, <1>4, <2>1, <2>2
<1>6. CASE k = Using(c)
  <2> DEFINE patch == [used |-> TRUE]
  <2>1. /\ k.call = "update" /\ k.table = "integrations" /\ k.id = loc[c].target
        /\ k.row = patch /\ DOMAIN patch = {"used"}
    BY <1>6 DEF Using, Updating
  <2> HIDE DEF patch
  <2>2. db' = UpdateRow("integrations", loc[c].target, patch)
    BY <2>1
  <2> QED
    BY <1>1, <1>4, <2>1, <2>2
<1>7. \/ k = Sealed(c) /\ loc[c].op = "addIntegration"
      \/ k.call = "insert" /\ k.table # "integrations"
      \/ k = Revoking(c) \/ k = Using(c)
  BY DEF VaultCalls, Auditing, Notifying, Inserting
<1> QED
  BY <1>1, <1>2, <1>3, <1>5, <1>6, <1>7

LEMMA CallKeeps ==
  ASSUME Vaults, OneKey, NEW c \in Clients, StoreCall(c), UNCHANGED vaultVars
  PROVE  Vaults' /\ OneKey'
<1> DEFINE k == Head(loc[c].calls)
           rest == Tail(loc[c].calls)
<1>1. /\ pc[c] = "calling" /\ InFlight(c) /\ UNCHANGED <<served, met>>
      /\ UNCHANGED <<envKey, keyFile, cachedKey>>
  BY DEF StoreCall, At, history, InFlight, vaultVars
<1>2. /\ VaultRequest(c) /\ loc[c].next = "idle" /\ {"calls", "next"} \subseteq DOMAIN loc[c]
      /\ loc[c].calls \in Seq(VaultCalls(c)) /\ loc[c].calls # <<>>
      /\ loc[c].op = "addIntegration" => "key" \in DOMAIN loc[c]
      /\ loc[c].n \in Nat /\ loc[c].op \in KeyOps \cup {"revoke"}
  BY <1>1 DEF Vaults, VaultRequest
<1>3. k \in VaultCalls(c) /\ rest \in Seq(VaultCalls(c))
  BY <1>2
<1>4. ~Met(KeyOps) => (loc[c].op = "addIntegration" => HasKey /\ loc[c].key = Key)
  BY <1>1 DEF OneKey, Keyed
<1>5. IF Refused(k) \/ FindsNothing(k)
      THEN Respond(c) /\ UNCHANGED db
      ELSE /\ db' = CASE k.call = "insert" -> InsertRow(k.table, k.row)
                      [] k.call \in {"update", "change"} -> UpdateRow(k.table, k.id, k.row)
                      [] k.call = "upsert" -> UpsertRow(k.table, k.row)
                      [] OTHER -> RemoveRow(k.table, k.id)
           /\ CASE rest # <<>> -> Goto(c, "calling", [calls |-> rest])
                [] rest = <<>> /\ loc[c].next = "idle" -> Respond(c)
                [] OTHER -> Goto(c, loc[c].next, Nothing)
  BY DEF StoreCall
<1> HIDE DEF k, rest
<1>6. CASE Refused(k) \/ FindsNothing(k)
  BY <1>1, <1>5, <1>6, RowsStay, AnswerKeeps
<1>7. CASE ~(Refused(k) \/ FindsNothing(k))
  <2>1. /\ "integrations" \in DOMAIN db'
        /\ \A i \in db'["integrations"] : {"status", "sealedWith"} \subseteq DOMAIN i
        /\ ~Met(KeyOps) => \A i \in db'["integrations"] :
                              i.status = "active" => HasKey /\ i.sealedWith = Key
    BY <1>2, <1>3, <1>4, <1>5, <1>7, WriteFits
  <2>2. CASE rest = <<>>
    <3>1. Respond(c)
      BY <1>2, <1>5, <1>7, <2>2
    <3> QED
      BY <1>1, <2>1, <3>1, AnswerKeeps
  <2>3. CASE rest # <<>>
    <3> DEFINE locals == [calls |-> rest]
    <3>1. DOMAIN locals = {"calls"} /\ locals["calls"] = rest
      OBVIOUS
    <3>2. Goto(c, "calling", locals)
      BY <1>5, <1>7, <2>3
    <3> HIDE DEF locals
    <3>3. /\ "calling" \in VaultPC /\ "op" \notin DOMAIN locals
          /\ DOMAIN locals \subseteq {"use", "key", "sealedWith", "calls", "next"}
      BY <3>1 DEF VaultPC
    <3>4. /\ pc'[c] = "calling" /\ DOMAIN loc'[c] = DOMAIN locals \cup DOMAIN loc[c]
          /\ \A f \in DOMAIN locals : loc'[c][f] = locals[f]
          /\ \A f \in DOMAIN loc[c] : f \notin DOMAIN locals => loc'[c][f] = loc[c][f]
          /\ {"op", "n", "org"} \subseteq DOMAIN loc'[c]
          /\ loc'[c].op = loc[c].op /\ loc'[c].n = loc[c].n /\ loc'[c].org = loc[c].org
          /\ loc[c].op # "addIntegration"
               => "target" \in DOMAIN loc'[c] /\ loc'[c].target = loc[c].target
      BY <1>1, <3>2, <3>3, RequestArrives
    <3>5. /\ {"calls", "next"} \subseteq DOMAIN loc'[c] /\ loc'[c].next = "idle"
          /\ loc'[c].calls = rest
      BY <1>2, <3>1, <3>4
    <3>6. loc[c].op = "addIntegration" => "key" \in DOMAIN loc'[c] /\ loc'[c].key = loc[c].key
      BY <1>2, <3>1, <3>4
    <3>7. VaultCalls(c)' = VaultCalls(c)
      BY <3>4, <3>6, SameCalls
    <3>8. loc'[c].calls \in Seq(VaultCalls(c)') /\ loc'[c].calls # <<>>
      BY <1>3, <2>3, <3>5, <3>7
    <3>9. VaultRequest(c)'
      BY <1>2, <3>4, <3>5, <3>6, <3>8 DEF VaultRequest, Loading
    <3>10. ~Met(KeyOps) => Keyed(c)' /\ (cachedKey' # None => HasKey /\ cachedKey' = Key)
      BY <1>1, <1>4, <3>4, <3>6 DEF Keyed, OneKey, HasKey, Key
    <3> QED
      BY <1>1, <2>1, <3>2, <3>3, <3>9, <3>10, MoveKeeps
  <2> QED
    BY <2>2, <2>3
<1> QED
  BY <1>6, <1>7

-----------------------------------------------------------------------------
(***************************************************************************)
(* Credentials: the theorem.                                               *)
(***************************************************************************)
LEMMA VaultInitially == Init => VaultInv
<1> SUFFICES ASSUME Init PROVE VaultInv
  OBVIOUS
<1>1. PICK a \in Areas : \E seed \in Seeds[a] : RequestsInit(a, seed.rows)
  BY DEF Init
<1>2. PICK seed \in Seeds[a] : RequestsInit(a, seed.rows)
  BY <1>1
<1>3. /\ area = a /\ db = seed.rows /\ served = 0
      /\ pc = [c \in Clients |-> "idle"] /\ loc = [c \in Clients |-> Empty]
      /\ cachedKey = None
  BY <1>2 DEF RequestsInit, Init, WorkspaceInit
<1>4. CredentialsFit(area, db)
  BY <1>2, <1>3, PlatformAssumption
<1>5. area # "vault" => "integrations" \notin DOMAIN db
  BY <1>4 DEF CredentialsFit
<1>6. ASSUME area = "vault" PROVE Vaults /\ OneKey
  <2>1. /\ "integrations" \in DOMAIN db
        /\ \A i \in db["integrations"] :
              {"status", "sealedWith"} \subseteq DOMAIN i /\ i.status = "revoked"
    BY <1>4, <1>6 DEF CredentialsFit
  <2>2. Vaults
    BY <1>3, <2>1 DEF Vaults, VaultPC, InFlight
  <2>3. OneKey
    BY <1>3, <2>1 DEF OneKey, Keyed
  <2> QED
    BY <2>2, <2>3
<1> QED
  BY <1>5, <1>6 DEF VaultInv

\* The process that starts anew has no requests, and no key but the one that is kept.
LEMMA RestartKeeps ==
  ASSUME Vaults, OneKey, Restart
  PROVE  Vaults' /\ OneKey'
<1>1. /\ UNCHANGED <<db, served, met, envKey, keyFile>> /\ cachedKey' = None
      /\ pc' = [c \in Clients |-> "idle"] /\ loc' = [c \in Clients |-> Empty]
  BY DEF Restart
<1>2. Vaults'
  BY <1>1 DEF Vaults, VaultPC, InFlight
<1>3. OneKey'
  <2> SUFFICES ASSUME ~Met(KeyOps)' PROVE OneKey'
    BY DEF OneKey
  <2>1. ~Met(KeyOps)
    BY <1>1 DEF Met
  <2>2. HasKey' = HasKey /\ Key' = Key
    BY <1>1 DEF HasKey, Key
  <2>3. \A c \in Clients : Keyed(c)'
    BY <1>1 DEF Keyed
  <2> QED
    BY <1>1, <2>1, <2>2, <2>3 DEF OneKey
<1> QED
  BY <1>2, <1>3

LEMMA VaultKept == VaultInv /\ [Next]_vars => VaultInv'
<1> SUFFICES ASSUME VaultInv, [Next]_vars PROVE VaultInv'
  OBVIOUS
<1>1. UNCHANGED area /\ DOMAIN db' = DOMAIN db
  BY Frame, TablesStay
<1>2. CASE area # "vault"
  BY <1>1, <1>2 DEF VaultInv
<1>3. CASE area = "vault"
  <2>1. Vaults /\ OneKey /\ pc \in [Clients -> VaultPC]
    BY <1>3 DEF VaultInv, Vaults
  <2>2. CASE UNCHANGED <<requestVars, vaultVars>>
    <3>1. UNCHANGED <<db, pc, loc, served, met, envKey, keyFile, cachedKey>>
      BY <2>2 DEF requestVars, vaultVars
    <3>2. Vaults'
      BY <2>1, <3>1, SameRequest DEF Vaults
    <3>3. OneKey'
      BY <2>1, <3>1 DEF OneKey, Met, HasKey, Key, Keyed
    <3> QED
      BY <3>2, <3>3, <1>1, <1>3 DEF VaultInv
  <2>3. ASSUME NEW c \in Clients, CutOff(c), UNCHANGED vaultVars PROVE Vaults' /\ OneKey'
    <3>1. Respond(c) /\ UNCHANGED <<db, served, met, envKey, keyFile, cachedKey>>
      BY <2>3 DEF CutOff, vaultVars
    <3> QED
      BY <2>1, <3>1, RowsStay, AnswerKeeps
  <2> QED
    BY <1>1, <1>3, <2>1, <2>2, <2>3, VaultFrame, RestartKeeps, SubmitsKeep, KeyLoads,
       KeyIsWritten, DecisionsKeep, LookKeeps, CallKeeps DEF VaultInv
<1> QED
  BY <1>2, <1>3

LEMMA VaultPromised == VaultInv => CredentialsOpen
<1> SUFFICES ASSUME VaultInv PROVE CredentialsOpen
  OBVIOUS
<1>1. CASE area # "vault"
  BY <1>1 DEF VaultInv, CredentialsOpen, Table
<1>2. CASE area = "vault"
  BY <1>2 DEF VaultInv, Vaults, OneKey, CredentialsOpen, Table, Key, KeyOps
<1> QED
  BY <1>1, <1>2

\* Sealed records survive restarts (vault.ts): however often the process ends and
\* whatever it was writing, every active credential is sealed with the key that a
\* process starting now would load, unless two requests loaded the key at once.
THEOREM CredentialsStayOpen == Spec => []CredentialsOpen
<1>1. VaultInv /\ [Next]_vars => VaultInv'
  BY VaultKept
<1> QED
  BY <1>1, VaultInitially, VaultPromised, PTL DEF Spec

-----------------------------------------------------------------------------
(***************************************************************************)
(* Sequences of calls.                                                     *)
(***************************************************************************)
IsSequence(s) == s \in Seq({s[i] : i \in DOMAIN s})

LEMMA TailOf ==
  ASSUME NEW s, IsSequence(s), s # <<>>
  PROVE  /\ IsSequence(Tail(s)) /\ Head(s) = s[1] /\ Len(s) \in Nat \ {0}
         /\ Len(Tail(s)) = Len(s) - 1 /\ Len(Tail(s)) \in Nat
         /\ \A i \in 1 .. Len(Tail(s)) : Tail(s)[i] = s[i + 1] /\ i + 1 \in 2 .. Len(s)
<1> DEFINE R == {s[i] : i \in DOMAIN s}
<1>1. s \in Seq(R)
  BY DEF IsSequence
<1> HIDE DEF R
<1>2. /\ Tail(s) \in Seq(R) /\ Head(s) = s[1] /\ Len(s) \in Nat \ {0}
      /\ Len(Tail(s)) = Len(s) - 1 /\ Len(Tail(s)) \in Nat
      /\ \A i \in 1 .. Len(Tail(s)) : Tail(s)[i] = s[i + 1] /\ i + 1 \in 2 .. Len(s)
  BY <1>1
<1>3. IsSequence(Tail(s))
  <2> DEFINE t == Tail(s)
             T == {t[i] : i \in DOMAIN t}
  <2>1. t \in Seq(R)
    BY <1>2
  <2>2. \A i \in 1 .. Len(t) : t[i] \in T
    BY <2>1
  <2> HIDE DEF t, T
  <2>3. t \in [1 .. Len(t) -> T] /\ Len(t) \in Nat
    BY <2>1, <2>2
  <2>4. t \in Seq(T)
    BY <2>3
  <2> QED
    BY <2>4 DEF IsSequence, t, T
<1> QED
  BY <1>2, <1>3

-----------------------------------------------------------------------------
(***************************************************************************)
(* Sign-in: the inductive invariant.                                       *)
(***************************************************************************)
SignInPC == {"idle", "signIn.attempt", "signIn.password", "calling"}

\* The two kinds of calls a sign-in makes.
Attempting(k, email) ==
  /\ k.call = "upsert" /\ k.table = "auth_attempts"
  /\ {"id", "failures", "locked"} \subseteq DOMAIN k.row /\ k.row.id = email
Logging(k) == k.call = "insert" /\ k.table \in {"audit_logs", "sessions"}

SignInCalls(calls, email) ==
  /\ IsSequence(calls) /\ calls # <<>>
  /\ Attempting(Head(calls), email) \/ Logging(Head(calls))
  /\ \A i \in 2 .. Len(calls) : Logging(calls[i])

SignInRequest(c) ==
  /\ {"op", "n", "org", "email"} \subseteq DOMAIN loc[c]
  /\ loc[c].op = "signIn" /\ loc[c].email \in Emails
  /\ pc[c] = "signIn.password" => "attempt" \in DOMAIN loc[c]
  /\ pc[c] = "calling" => /\ {"calls", "next"} \subseteq DOMAIN loc[c]
                          /\ loc[c].next = "idle"
                          /\ SignInCalls(loc[c].calls, loc[c].email)

AttemptRows ==
  /\ "auth_attempts" \in DOMAIN db
  /\ \A r \in db["auth_attempts"] : {"id", "failures", "locked"} \subseteq DOMAIN r

SignIns ==
  /\ pc \in [Clients -> SignInPC] /\ DOMAIN loc = Clients
  /\ streak \in [Emails -> Nat] /\ AttemptRows
  /\ \A c \in Clients : InFlight(c) => SignInRequest(c)
  /\ \A c, d \in Clients : InFlight(c) /\ InFlight(d) /\ c # d => {"signIn"} \in met

\* A count that takes notice of this many guesses: it is as high, or has locked the
\* address, or the guesses were forgotten when a lock ended.
Agrees(guesses, a) ==
  /\ a.failures \in Nat /\ guesses <= MaxFailures
  /\ ~a.locked => guesses = 0 \/ (guesses <= a.failures /\ a.failures < MaxFailures)

OnRow(email) ==
  /\ AttemptsOn(email) = {} => streak[email] = 0
  /\ \A a, b \in AttemptsOn(email) : a = b
  /\ \A a \in AttemptsOn(email) : Agrees(streak[email], a)

\* A request that has checked a password and is about to write what became of it.
Recounting(c, email) ==
  pc[c] = "calling" /\ loc[c].email = email /\ Attempting(Head(loc[c].calls), email)

\* While no two sign-ins meet and none is cut off, what a request has read is still so
\* when it checks the password, and each guess is counted or about to be.
Counted ==
  {"signIn"} \notin met /\ "signIn" \notin cuts =>
     /\ \A e \in Emails : OnRow(e) \/ \E c \in Clients : Recounting(c, e)
     /\ \A c \in Clients, e \in Emails :
           Recounting(c, e) => Agrees(streak[e], Head(loc[c].calls).row)
     /\ \A c \in Clients : pc[c] = "signIn.password" =>
           /\ loc[c].attempt = AttemptsOn(loc[c].email)
           /\ \A a \in loc[c].attempt : ~a.locked

GuessInv ==
  /\ area \in Areas
  /\ area # "signin" => streak = [e \in Emails |-> 0]
  /\ area = "signin" => SignIns /\ Counted

-----------------------------------------------------------------------------
(***************************************************************************)
(* Sign-in: what happens in the area.                                      *)
(***************************************************************************)
LEMMA SignInFrame ==
  ASSUME [Next]_vars
  PROVE  /\ area # "signin" => UNCHANGED streak
         /\ area = "signin" =>
               \/ UNCHANGED <<requestVars, streak>>
               \/ LockExpires
               \/ \E c \in Clients :
                     \/ SubmitSignIn(c)
                     \/ ReadAttempt(c) \/ WrongPassword(c) \/ RightPassword(c)
                     \/ StoreCall(c) /\ UNCHANGED streak
                     \/ CutOff(c) /\ UNCHANGED streak
<1>1. CASE UNCHANGED vars
  BY <1>1 DEF vars
<1>2. CASE Environment
  BY <1>2 DEF Environment, LockExpires, WindowPasses, DayPasses, Restart
<1>3. ASSUME NEW c \in Clients, Submit(c)
      PROVE  /\ area # "signin" => UNCHANGED streak
             /\ area = "signin" => SubmitSignIn(c)
  <2>1. AccountsSubmit(c) => UNCHANGED streak
    BY DEF AccountsSubmit, SubmitSignIn, SubmitSignUp, SubmitSignOut, InviteMember,
       ChangeRole, RemoveMember, ToggleSandbox
  <2> QED
    BY <1>3, <2>1 DEF Submit, AccountsSubmit, IntakeSubmit, KnowledgeSubmit, AgentsSubmit,
       EvalsSubmit, NightlySubmit, WorkspaceSubmit, SystemsSubmit, Calls
<1>4. ASSUME NEW c \in Clients, Step(c)
      PROVE  /\ area # "signin" => UNCHANGED streak
             /\ area = "signin" =>
                  \/ ReadAttempt(c) \/ WrongPassword(c) \/ RightPassword(c)
                  \/ StoreCall(c) /\ UNCHANGED streak
                  \/ CutOff(c) /\ UNCHANGED streak
  <2>1. AccountsStep(c) /\ area # "signin" => UNCHANGED streak
    BY DEF AccountsStep, CheckEmail, ChooseSlug, DestroySession, FindInvited, AddMember,
       ReadMember, CountOwners, WriteMember, SetSandboxMode
  <2> QED
    BY <1>4, <2>1 DEF Step, AccountsStep, IntakeStep, KnowledgeStep, AgentsStep, EvalsStep,
       NightlyStep, WorkspaceStep, SystemsStep, StoresStep
<1> QED
  BY <1>1, <1>2, <1>3, <1>4 DEF Next

\* A request that is at its new point what that point needs leaves the others in order.
LEMMA SignInsStay ==
  ASSUME SignIns, NEW c \in Clients, NEW where \in SignInPC, pc' = [pc EXCEPT ![c] = where],
         DOMAIN loc' = Clients, streak' \in [Emails -> Nat], AttemptRows',
         met \subseteq met', \A d \in Clients \ {c} : loc'[d] = loc[d],
         where # "idle" => /\ SignInRequest(c)'
                           /\ \A d \in Clients \ {c} : InFlight(d) => {"signIn"} \in met'
  PROVE  SignIns'
<1>1. /\ pc' \in [Clients -> SignInPC] /\ pc'[c] = where
      /\ \A d \in Clients \ {c} : pc'[d] = pc[d]
  BY DEF SignIns
<1>2. \A d \in Clients \ {c} : /\ InFlight(d)' <=> InFlight(d)
                               /\ SignInRequest(d)' <=> SignInRequest(d)
  BY <1>1 DEF InFlight, SignInRequest
<1>3. \A d \in Clients : InFlight(d)' => SignInRequest(d)'
  BY <1>1, <1>2 DEF SignIns, InFlight
<1>4. ASSUME NEW d \in Clients, NEW e \in Clients, InFlight(d)', InFlight(e)', d # e
      PROVE  {"signIn"} \in met'
  BY <1>1, <1>2, <1>4 DEF SignIns, InFlight
<1> QED
  BY <1>1, <1>3, <1>4 DEF SignIns

LEMMA SignInAlone ==
  ASSUME SignIns, {"signIn"} \notin met, NEW c \in Clients, InFlight(c)
  PROVE  \A d \in Clients \ {c} : pc[d] = "idle"
BY DEF SignIns, InFlight

LEMMA SignInGoesOn ==
  ASSUME SignIns, NEW c \in Clients, InFlight(c), NEW where \in SignInPC, where # "idle",
         NEW locals, DOMAIN locals \cap {"op", "n", "org", "email"} = {},
         Goto(c, where, locals), UNCHANGED met,
         streak' \in [Emails -> Nat], AttemptRows',
         where = "signIn.password" => "attempt" \in DOMAIN loc'[c],
         where = "calling" => /\ {"calls", "next"} \subseteq DOMAIN loc'[c]
                              /\ loc'[c].next = "idle"
                              /\ SignInCalls(loc'[c].calls, loc[c].email)
  PROVE  /\ SignIns' /\ pc'[c] = where /\ loc'[c].email = loc[c].email
         /\ \A d \in Clients \ {c} : pc'[d] = pc[d] /\ loc'[d] = loc[d]
<1>1. DOMAIN pc = Clients /\ DOMAIN loc = Clients /\ SignInRequest(c)
  BY DEF SignIns
<1>2. /\ pc' = [pc EXCEPT ![c] = where] /\ DOMAIN loc' = Clients
      /\ DOMAIN loc'[c] = DOMAIN locals \cup DOMAIN loc[c]
      /\ \A f \in DOMAIN loc[c] : f \notin DOMAIN locals => loc'[c][f] = loc[c][f]
      /\ \A d \in Clients \ {c} : loc'[d] = loc[d]
  BY <1>1, RequestGoesOn
<1>3. /\ {"op", "n", "org", "email"} \subseteq DOMAIN loc'[c]
      /\ loc'[c].op = loc[c].op /\ loc'[c].email = loc[c].email
      /\ pc'[c] = where /\ \A d \in Clients \ {c} : pc'[d] = pc[d]
  BY <1>1, <1>2 DEF SignInRequest
<1>4. SignInRequest(c)'
  BY <1>1, <1>3 DEF SignInRequest, SignInCalls, Attempting, Logging
<1>5. \A d \in Clients \ {c} : InFlight(d) => {"signIn"} \in met'
  BY DEF SignIns
<1>6. SignIns'
  BY <1>2, <1>4, <1>5, SignInsStay
<1> QED
  BY <1>2, <1>3, <1>6

\* A request that answers, once nothing is left of it to write.
LEMMA SignInAnswers ==
  ASSUME SignIns, NEW c \in Clients, Respond(c), UNCHANGED <<met, streak>>,
         AttemptRows'
  PROVE  /\ SignIns' /\ pc'[c] = "idle"
         /\ \A d \in Clients \ {c} : pc'[d] = pc[d] /\ loc'[d] = loc[d]
<1>1. /\ "idle" \in SignInPC /\ pc' = [pc EXCEPT ![c] = "idle"] /\ DOMAIN loc' = Clients
      /\ \A d \in Clients \ {c} : loc'[d] = loc[d]
      /\ streak' \in [Emails -> Nat]
  BY DEF SignIns, SignInPC, Respond
<1>2. SignIns'
  BY <1>1, SignInsStay
<1> QED
  BY <1>1, <1>2 DEF SignIns

-----------------------------------------------------------------------------
(***************************************************************************)
(* Sign-in: the invariant, step by step.                                   *)
(***************************************************************************)
LEMMA SignInStarts ==
  ASSUME SignIns, Counted, NEW c \in Clients, SubmitSignIn(c)
  PROVE  SignIns' /\ Counted'
<1>1. PICK email \in Emails :
         Accept(c, "signIn.attempt", [op |-> "signIn", email |-> email, org |-> None])
  BY DEF SubmitSignIn
<1> DEFINE locals == [op |-> "signIn", email |-> email, org |-> None]
           number == [n |-> served + 1]
<1>2. /\ DOMAIN locals = {"op", "email", "org"} /\ DOMAIN number = {"n"}
      /\ locals.op = "signIn" /\ locals.email = email
  OBVIOUS
<1>3. /\ pc[c] = "idle" /\ pc' = [pc EXCEPT ![c] = "signIn.attempt"]
      /\ loc' = [loc EXCEPT ![c] = Over(locals, number)]
      /\ met' = met \cup {{locals.op, loc[d].op} : d \in {d \in Clients : InFlight(d)}}
      /\ UNCHANGED <<db, streak, cuts>>
  BY <1>1 DEF Accept, SubmitSignIn
<1> HIDE DEF locals, number
<1>4. /\ DOMAIN loc' = Clients /\ loc'[c] = Over(locals, number)
      /\ \A d \in Clients \ {c} : loc'[d] = loc[d]
  BY <1>3 DEF SignIns
<1>5. /\ DOMAIN loc'[c] = {"op", "email", "org", "n"}
      /\ loc'[c].op = "signIn" /\ loc'[c].email = email
  <2>1. /\ DOMAIN Over(locals, number) = DOMAIN locals \cup DOMAIN number
        /\ \A f \in DOMAIN locals : Over(locals, number)[f] = locals[f]
    BY Overwritten
  <2>2. "op" \in DOMAIN locals /\ "email" \in DOMAIN locals
    BY <1>2
  <2> QED
    BY <1>2, <1>4, <2>1, <2>2
<1>6. /\ "signIn.attempt" \in SignInPC /\ pc'[c] = "signIn.attempt"
      /\ \A d \in Clients \ {c} : pc'[d] = pc[d]
  BY <1>3 DEF SignIns, SignInPC
<1>7. SignInRequest(c)'
  BY <1>5, <1>6 DEF SignInRequest
<1>8. \A d \in Clients \ {c} : InFlight(d) => {"signIn"} \in met'
  <2> SUFFICES ASSUME NEW d \in Clients \ {c}, InFlight(d) PROVE {"signIn"} \in met'
    OBVIOUS
  <2>1. loc[d].op = "signIn"
    BY DEF SignIns, SignInRequest
  <2>2. {locals.op, loc[d].op} \in met'
    BY <1>3
  <2>3. {locals.op, loc[d].op} = {"signIn"}
    BY <1>2, <2>1
  <2> QED
    BY <2>2, <2>3
<1>9. SignIns'
  <2>1. met \subseteq met' /\ streak' \in [Emails -> Nat] /\ AttemptRows'
    BY <1>3 DEF SignIns, AttemptRows
  <2> QED
    BY <1>3, <1>4, <1>6, <1>7, <1>8, <2>1, SignInsStay
<1>10. Counted'
  <2> SUFFICES ASSUME {"signIn"} \notin met', "signIn" \notin cuts'
               PROVE  /\ \A e \in Emails : OnRow(e)'
                      /\ \A d \in Clients : pc'[d] \notin {"signIn.password", "calling"}
    BY DEF Counted, Recounting
  <2>1. \A d \in Clients : pc[d] = "idle"
    BY <1>3, <1>8 DEF InFlight
  <2>2. {"signIn"} \notin met /\ "signIn" \notin cuts
    BY <1>3
  <2>3. \A e \in Emails : OnRow(e)
    BY <2>1, <2>2 DEF Counted, Recounting
  <2> QED
    BY <1>3, <1>6, <2>1, <2>3 DEF OnRow, AttemptsOn, ById, Table
<1> QED
  BY <1>9, <1>10

LEMMA ReadAttemptKeeps ==
  ASSUME SignIns, Counted, NEW c \in Clients, ReadAttempt(c)
  PROVE  SignIns' /\ Counted'
<1> DEFINE attempt == AttemptsOn(loc[c].email)
           locals == [attempt |-> attempt]
<1>1. /\ pc[c] = "signIn.attempt" /\ InFlight(c)
      /\ UNCHANGED <<db, streak, met, cuts, served>>
  BY DEF ReadAttempt, At, history, InFlight
<1>2. IF \E a \in attempt : a.locked THEN Respond(c) ELSE Goto(c, "signIn.password", locals)
  BY DEF ReadAttempt
<1>3. streak' \in [Emails -> Nat] /\ AttemptRows'
  BY <1>1 DEF SignIns, AttemptRows
<1>4. ASSUME {"signIn"} \notin met, "signIn" \notin cuts
      PROVE  /\ \A d \in Clients \ {c} : pc[d] = "idle"
             /\ \A e \in Emails : OnRow(e) /\ OnRow(e)'
  <2>1. \A d \in Clients \ {c} : pc[d] = "idle"
    BY <1>1, <1>4, SignInAlone
  <2>2. \A e \in Emails : OnRow(e)
    BY <1>1, <1>4, <2>1 DEF Counted, Recounting
  <2> QED
    BY <1>1, <2>1, <2>2 DEF OnRow, AttemptsOn, ById, Table
<1>5. CASE \E a \in attempt : a.locked
  <2>1. Respond(c)
    BY <1>2, <1>5
  <2>2. /\ SignIns' /\ pc'[c] = "idle"
        /\ \A d \in Clients \ {c} : pc'[d] = pc[d] /\ loc'[d] = loc[d]
    BY <1>1, <1>3, <2>1, SignInAnswers
  <2> QED
    BY <1>1, <1>4, <2>2 DEF Counted, Recounting
<1>6. CASE ~\E a \in attempt : a.locked
  <2>1. Goto(c, "signIn.password", locals)
    BY <1>2, <1>6
  <2>2. DOMAIN locals = {"attempt"} /\ locals["attempt"] = attempt
    OBVIOUS
  <2> HIDE DEF locals
  <2>3. DOMAIN loc'[c] = DOMAIN locals \cup DOMAIN loc[c] /\ loc'[c].attempt = attempt
    <3>1. DOMAIN pc = Clients /\ DOMAIN loc = Clients
      BY DEF SignIns
    <3> QED
      BY <2>1, <2>2, <3>1, RequestGoesOn
  <2>4. /\ SignIns' /\ pc'[c] = "signIn.password" /\ loc'[c].email = loc[c].email
        /\ \A d \in Clients \ {c} : pc'[d] = pc[d] /\ loc'[d] = loc[d]
    <3>1. "signIn.password" \in SignInPC
      BY DEF SignInPC
    <3> QED
      BY <1>1, <1>3, <2>1, <2>2, <2>3, <3>1, SignInGoesOn
  <2>5. AttemptsOn(loc[c].email)' = attempt
    BY <1>1, <2>4 DEF AttemptsOn, ById, Table
  <2>6. Counted'
    <3> SUFFICES ASSUME {"signIn"} \notin met', "signIn" \notin cuts'
                 PROVE  /\ \A e \in Emails : OnRow(e)'
                        /\ \A d \in Clients : pc'[d] # "calling"
                        /\ \A d \in Clients : pc'[d] = "signIn.password" =>
                              /\ loc'[d].attempt = AttemptsOn(loc[d].email)'
                              /\ \A a \in loc'[d].attempt : ~a.locked
      BY DEF Counted, Recounting
    <3>1. \A d \in Clients : /\ pc'[d] = "signIn.password" => d = c
                             /\ pc'[d] # "calling"
      BY <1>1, <1>4, <2>4
    <3>2. /\ loc'[c].attempt = AttemptsOn(loc[c].email)'
          /\ \A a \in loc'[c].attempt : ~a.locked
      BY <1>6, <2>3, <2>5
    <3>3. \A e \in Emails : OnRow(e)'
      BY <1>1, <1>4
    <3>4. ASSUME NEW d \in Clients, pc'[d] = "signIn.password"
          PROVE  /\ loc'[d].attempt = AttemptsOn(loc[d].email)'
                 /\ \A a \in loc'[d].attempt : ~a.locked
      <4>1. d = c
        BY <3>1, <3>4
      <4> QED
        BY <3>2, <4>1
    <3> QED
      BY <3>1, <3>3, <3>4
  <2> QED
    BY <2>4, <2>6
<1> QED
  BY <1>5, <1>6

\* A password has been checked: the guess will be counted, or there is none to count.
LEMMA CheckedKeeps ==
  ASSUME SignIns, Counted, NEW c \in Clients, pc[c] = "signIn.password",
         UNCHANGED <<db, met, cuts>>, NEW guesses \in Nat,
         streak' = [streak EXCEPT ![loc[c].email] = guesses],
         NEW calls, SignInCalls(calls, loc[c].email),
         Goto(c, "calling", [calls |-> calls, next |-> "idle"]),
         {"signIn"} \notin met /\ "signIn" \notin cuts =>
            IF Attempting(Head(calls), loc[c].email)
            THEN Agrees(guesses, Head(calls).row)
            ELSE AttemptsOn(loc[c].email) = {} /\ guesses = 0
  PROVE  SignIns' /\ Counted'
<1> DEFINE locals == [calls |-> calls, next |-> "idle"]
<1>0. PICK email \in Emails : email = loc[c].email
  BY DEF SignIns, SignInRequest, InFlight
<1>1. /\ DOMAIN locals = {"calls", "next"} /\ locals["calls"] = calls
      /\ locals["next"] = "idle"
  OBVIOUS
<1>2. Goto(c, "calling", locals) /\ InFlight(c)
  BY DEF InFlight
<1> HIDE DEF locals
<1>3. /\ DOMAIN loc'[c] = DOMAIN locals \cup DOMAIN loc[c]
      /\ loc'[c].calls = calls /\ loc'[c].next = "idle"
  <2>1. DOMAIN pc = Clients /\ DOMAIN loc = Clients
    BY DEF SignIns
  <2> QED
    BY <1>1, <1>2, <2>1, RequestGoesOn
<1>5. /\ streak' \in [Emails -> Nat] /\ streak'[email] = guesses
      /\ \A e \in Emails \ {email} : streak'[e] = streak[e]
  BY <1>0 DEF SignIns
<1>6. /\ SignIns' /\ pc'[c] = "calling" /\ loc'[c].email = email
      /\ \A d \in Clients \ {c} : pc'[d] = pc[d] /\ loc'[d] = loc[d]
  <2>1. "calling" \in SignInPC /\ AttemptRows'
    BY DEF SignInPC, SignIns, AttemptRows
  <2> QED
    BY <1>0, <1>1, <1>2, <1>3, <1>5, <2>1, SignInGoesOn
<1>7. Counted'
  <2> SUFFICES ASSUME {"signIn"} \notin met, "signIn" \notin cuts
               PROVE  /\ \A e \in Emails : OnRow(e)' \/ Recounting(c, e)'
                      /\ \A e \in Emails, d \in Clients :
                            Recounting(d, e)' => Agrees(streak'[e], Head(calls).row) /\ d = c
                      /\ \A d \in Clients : pc'[d] # "signIn.password"
    BY <1>3 DEF Counted
  <2>1. \A d \in Clients \ {c} : pc[d] = "idle"
    BY <1>2, SignInAlone
  <2>2. \A e \in Emails : OnRow(e)
    BY <2>1 DEF Counted, Recounting
  <2>3. \A d \in Clients : pc'[d] # "signIn.password"
    BY <1>6, <2>1
  <2>4. \A e : AttemptsOn(e)' = AttemptsOn(e)
    BY DEF AttemptsOn, ById, Table
  <2>5. \A e \in Emails \ {email} : OnRow(e)'
    BY <1>5, <2>2, <2>4 DEF OnRow
  <2>6. OnRow(email)' \/ Recounting(c, email)'
    BY <1>0, <1>3, <1>5, <1>6, <2>4 DEF OnRow, Recounting
  <2>7. ASSUME NEW e \in Emails PROVE OnRow(e)' \/ Recounting(c, e)'
    <3>1. CASE e = email
      BY <2>6, <3>1
    <3>2. CASE e # email
      BY <2>5, <3>2
    <3> QED
      BY <3>1, <3>2
  <2>8. ASSUME NEW e \in Emails, NEW d \in Clients, Recounting(d, e)'
        PROVE  Agrees(streak'[e], Head(calls).row) /\ d = c
    <3>1. d = c /\ e = email
      BY <1>6, <2>1, <2>8 DEF Recounting
    <3>2. Attempting(Head(calls), email)
      BY <1>3, <2>8, <3>1 DEF Recounting
    <3> QED
      BY <1>0, <1>5, <3>1, <3>2
  <2> QED
    BY <2>3, <2>7, <2>8
<1> QED
  BY <1>6, <1>7

\* The count that a wrong password leads to notices it, and one that a right password
\* leads to has nothing to notice.
LEMMA NextCountAgrees ==
  ASSUME NEW email, NEW guesses \in Nat, OnRow(email), streak[email] = guesses,
         \A a \in AttemptsOn(email) : ~a.locked
  PROVE  /\ Agrees(guesses + 1,
                   NewAttempt(email, FailuresAfter(AttemptsOn(email))).row)
         /\ Agrees(0, NewAttempt(email, 0).row)
<1>1. MaxFailures \in Nat \ {0}
  BY AccountsAssumption
<1>2. ASSUME NEW f \in Nat
      PROVE  /\ NewAttempt(email, f).row.failures = f
             /\ NewAttempt(email, f).row.locked <=> f >= MaxFailures
  BY DEF NewAttempt, Upserting
<1>3. Agrees(0, NewAttempt(email, 0).row)
  BY <1>1, <1>2 DEF Agrees
<1>4. CASE AttemptsOn(email) = {}
  <2>1. guesses = 0 /\ FailuresAfter(AttemptsOn(email)) = 1
    BY <1>4 DEF OnRow, FailuresAfter
  <2> QED
    BY <1>1, <1>2, <1>3, <2>1 DEF Agrees
<1>5. CASE AttemptsOn(email) # {}
  <2>1. PICK a \in AttemptsOn(email) : a = CHOOSE b \in AttemptsOn(email) : TRUE
    BY <1>5
  <2>2. FailuresAfter(AttemptsOn(email)) = a.failures + 1
    BY <1>5, <2>1 DEF FailuresAfter
  <2>3. Agrees(guesses, a) /\ ~a.locked
    BY DEF OnRow
  <2>4. a.failures + 1 \in Nat
    BY <2>3 DEF Agrees
  <2> QED
    BY <1>1, <1>2, <1>3, <2>2, <2>3, <2>4 DEF Agrees
<1> QED
  BY <1>4, <1>5

LEMMA WrongPasswordKeeps ==
  ASSUME SignIns, Counted, NEW c \in Clients, WrongPassword(c)
  PROVE  SignIns' /\ Counted'
<1> DEFINE email == loc[c].email
           k == NewAttempt(email, FailuresAfter(loc[c].attempt))
           l == Auditing(c, "user.sign_in_failed", None)
           calls == <<k, l>>
<1>1. /\ pc[c] = "signIn.password" /\ UNCHANGED <<db, met, cuts>>
      /\ Calling(c, calls, "idle")
      /\ streak' = [streak EXCEPT ![email] = @ + 1]
  BY DEF WrongPassword, At, history
<1>2. Attempting(k, email) /\ Logging(l)
  BY DEF NewAttempt, Upserting, Attempting, Auditing, Inserting, Logging
<1>3. {"signIn"} \notin met /\ "signIn" \notin cuts => Agrees(streak[email] + 1, k.row)
  <2> SUFFICES ASSUME {"signIn"} \notin met, "signIn" \notin cuts
               PROVE  Agrees(streak[email] + 1, k.row)
    OBVIOUS
  <2>1. email \in Emails /\ streak[email] \in Nat
    BY <1>1 DEF SignIns, SignInRequest, InFlight
  <2>2. \A d \in Clients \ {c} : pc[d] = "idle"
    BY <1>1, SignInAlone DEF InFlight
  <2>3. OnRow(email)
    BY <1>1, <2>1, <2>2 DEF Counted, Recounting
  <2>4. loc[c].attempt = AttemptsOn(email) /\ \A a \in AttemptsOn(email) : ~a.locked
    BY <1>1 DEF Counted
  <2> QED
    BY <2>1, <2>3, <2>4, NextCountAgrees
<1>4. streak[email] + 1 \in Nat /\ streak' = [streak EXCEPT ![email] = streak[email] + 1]
  BY <1>1 DEF SignIns, SignInRequest, InFlight
<1> HIDE DEF k, l
<1>5. Goto(c, "calling", [calls |-> calls, next |-> "idle"])
  <2>1. calls # <<>>
    OBVIOUS
  <2> HIDE DEF calls
  <2> QED
    BY <1>1, <2>1 DEF Calling
<1>6. SignInCalls(calls, email) /\ Head(calls) = k
  BY <1>2 DEF SignInCalls, IsSequence
<1> HIDE DEF calls
<1> QED
  BY <1>1, <1>2, <1>3, <1>4, <1>5, <1>6, CheckedKeeps

LEMMA RightPasswordKeeps ==
  ASSUME SignIns, Counted, NEW c \in Clients, RightPassword(c)
  PROVE  SignIns' /\ Counted'
<1> DEFINE email == loc[c].email
           k == NewAttempt(email, 0)
<1>1. PICK u \in WithEmail(email) :
         Calling(c, (IF loc[c].attempt = {} THEN <<>> ELSE <<k>>)
                    \o <<Auditing(c, "user.sign_in", u.id), NewSession(c, u.id)>>, "idle")
  BY DEF RightPassword
<1> DEFINE l == Auditing(c, "user.sign_in", u.id)
           m == NewSession(c, u.id)
           calls == IF loc[c].attempt = {} THEN <<l, m>> ELSE <<k, l, m>>
<1>2. /\ pc[c] = "signIn.password" /\ UNCHANGED <<db, met, cuts>>
      /\ streak' = [streak EXCEPT ![email] = 0]
  BY DEF RightPassword, At, history
<1>3. Attempting(k, email) /\ Logging(l) /\ Logging(m)
  BY DEF NewAttempt, Upserting, Attempting, Auditing, NewSession, Inserting, Logging
<1>4. {"signIn"} \notin met /\ "signIn" \notin cuts =>
        loc[c].attempt = AttemptsOn(email) /\ Agrees(0, k.row)
  <2> SUFFICES ASSUME {"signIn"} \notin met, "signIn" \notin cuts
               PROVE  loc[c].attempt = AttemptsOn(email) /\ Agrees(0, k.row)
    OBVIOUS
  <2>1. email \in Emails /\ streak[email] \in Nat
    BY <1>2 DEF SignIns, SignInRequest, InFlight
  <2>2. \A d \in Clients \ {c} : pc[d] = "idle"
    BY <1>2, SignInAlone DEF InFlight
  <2>3. OnRow(email)
    BY <1>2, <2>1, <2>2 DEF Counted, Recounting
  <2>4. loc[c].attempt = AttemptsOn(email) /\ \A a \in AttemptsOn(email) : ~a.locked
    BY <1>2 DEF Counted
  <2> QED
    BY <2>1, <2>3, <2>4, NextCountAgrees
<1> HIDE DEF k, l, m
<1>5. Calling(c, calls, "idle") /\ calls # <<>>
  <2>1. <<>> \o <<l, m>> = <<l, m>>
    OBVIOUS
  <2>0. <<k>> \o <<l, m>> = <<k, l, m>>
    <3> DEFINE S == {k, l, m}
               p == <<k>> \o <<l, m>>
               q == <<k, l, m>>
    <3>1. <<k>> \in Seq(S) /\ <<l, m>> \in Seq(S) /\ q \in Seq(S)
      OBVIOUS
    <3>2. p \in Seq(S) /\ Len(p) = 3 /\ p[1] = k /\ p[2] = l /\ p[3] = m
      BY <3>1
    <3>3. Len(q) = 3 /\ q[1] = k /\ q[2] = l /\ q[3] = m
      OBVIOUS
    <3> HIDE DEF p, q, S
    <3>4. p \in [1 .. 3 -> S] /\ q \in [1 .. 3 -> S]
      BY <3>1, <3>2, <3>3
    <3>5. \A i \in 1 .. 3 : p[i] = q[i]
      <4>1. \A i \in 1 .. 3 : i = 1 \/ i = 2 \/ i = 3
        OBVIOUS
      <4> QED
        BY <3>2, <3>3, <4>1
    <3>6. p = q
      BY <3>4, <3>5
    <3> QED
      BY <3>6 DEF p, q
  <2>2. (IF loc[c].attempt = {} THEN <<>> ELSE <<k>>) \o <<l, m>> = calls
    BY <2>1, <2>0
  <2> QED
    BY <1>1, <2>2 DEF l, m
<1>6. Goto(c, "calling", [calls |-> calls, next |-> "idle"])
  <2> HIDE DEF calls
  <2> QED
    BY <1>5 DEF Calling
<1>7. /\ SignInCalls(calls, email)
      /\ IF loc[c].attempt = {} THEN ~Attempting(Head(calls), email) ELSE Head(calls) = k
  <2>1. CASE loc[c].attempt = {}
    <3>1. ~Attempting(l, email)
      BY <1>3 DEF Attempting, Logging
    <3> QED
      BY <1>3, <2>1, <3>1 DEF SignInCalls, IsSequence
  <2>2. CASE loc[c].attempt # {}
    <3>1. calls = <<k, l, m>>
      BY <2>2
    <3>2. IsSequence(<<k, l, m>>)
      BY DEF IsSequence
    <3>3. /\ Head(<<k, l, m>>) = k /\ Len(<<k, l, m>>) = 3 /\ <<k, l, m>> # <<>>
          /\ <<k, l, m>>[2] = l /\ <<k, l, m>>[3] = m
      OBVIOUS
    <3>4. \A i \in 2 .. 3 : i = 2 \/ i = 3
      OBVIOUS
    <3> HIDE DEF calls
    <3> QED
      BY <1>3, <2>2, <3>1, <3>2, <3>3, <3>4 DEF SignInCalls
  <2> QED
    BY <2>1, <2>2
<1> HIDE DEF calls
<1>8. 0 \in Nat
  OBVIOUS
<1> QED
  BY <1>2, <1>3, <1>4, <1>6, <1>7, <1>8, CheckedKeeps

\* What a call does to the counts: the one it writes replaces the one of its address.
LEMMA CountIsWritten ==
  ASSUME "auth_attempts" \in DOMAIN db, NEW k, NEW email, NEW e,
         \/ k.call = "insert" /\ k.table # "auth_attempts" /\ db' = InsertRow(k.table, k.row)
         \/ Attempting(k, email) /\ db' = UpsertRow(k.table, k.row)
  PROVE  AttemptsOn(e)' = IF Attempting(k, email) /\ e = email THEN {k.row} ELSE AttemptsOn(e)
<1> DEFINE T == "auth_attempts"
<1>1. CASE k.call = "insert" /\ k.table # T /\ db' = InsertRow(k.table, k.row)
  <2>1. db'[T] = db[T] /\ T \in DOMAIN db' /\ ~Attempting(k, email)
    BY <1>1 DEF InsertRow, Attempting
  <2> QED
    BY <2>1 DEF AttemptsOn, ById, Table
<1>2. CASE Attempting(k, email) /\ db' = UpsertRow(k.table, k.row)
  <2>1. /\ db'[T] = {r \in db[T] : r.id # k.row.id} \cup {k.row} /\ T \in DOMAIN db'
        /\ k.row.id = email
    BY <1>2 DEF UpsertRow, Attempting
  <2> QED
    BY <1>2, <2>1 DEF AttemptsOn, ById, Table
<1> QED
  BY <1>1, <1>2

LEMMA SignInCallKeeps ==
  ASSUME SignIns, Counted, NEW c \in Clients, StoreCall(c), UNCHANGED streak
  PROVE  SignIns' /\ Counted'
<1> DEFINE k == Head(loc[c].calls)
           rest == Tail(loc[c].calls)
<1>0. PICK email \in Emails : email = loc[c].email
  BY DEF SignIns, SignInRequest, InFlight, StoreCall, At
<1>1. pc[c] = "calling" /\ InFlight(c) /\ UNCHANGED <<met, cuts>>
  BY DEF StoreCall, At, history, InFlight
<1>2. /\ loc[c].next = "idle" /\ {"calls", "next"} \subseteq DOMAIN loc[c]
      /\ SignInCalls(loc[c].calls, email)
  BY <1>0, <1>1 DEF SignIns, SignInRequest
<1>3. /\ Attempting(k, email) \/ Logging(k)
      /\ IsSequence(rest)
      /\ \A i \in 1 .. Len(rest) : Logging(rest[i])
      /\ Len(rest) \in Nat /\ rest # <<>> => Logging(Head(rest))
  <2>1. /\ IsSequence(rest) /\ Len(rest) \in Nat
        /\ \A i \in 1 .. Len(rest) : rest[i] = loc[c].calls[i + 1]
                                    /\ i + 1 \in 2 .. Len(loc[c].calls)
    BY <1>2, TailOf DEF SignInCalls
  <2>2. \A i \in 1 .. Len(rest) : Logging(rest[i])
    BY <1>2, <2>1 DEF SignInCalls
  <2> HIDE DEF rest
  <2>3. rest # <<>> => Head(rest) = rest[1] /\ Len(rest) \in Nat \ {0}
    BY <2>1, TailOf
  <2>4. rest # <<>> => 1 \in 1 .. Len(rest)
    BY <2>3
  <2>5. rest # <<>> => Logging(Head(rest))
    BY <2>2, <2>3, <2>4
  <2> QED
    BY <1>2, <2>1, <2>2, <2>5 DEF SignInCalls
<1>4. IF Refused(k) \/ FindsNothing(k)
      THEN Respond(c) /\ UNCHANGED db
      ELSE /\ db' = CASE k.call = "insert" -> InsertRow(k.table, k.row)
                      [] k.call \in {"update", "change"} -> UpdateRow(k.table, k.id, k.row)
                      [] k.call = "upsert" -> UpsertRow(k.table, k.row)
                      [] OTHER -> RemoveRow(k.table, k.id)
           /\ CASE rest # <<>> -> Goto(c, "calling", [calls |-> rest])
                [] rest = <<>> /\ loc[c].next = "idle" -> Respond(c)
                [] OTHER -> Goto(c, loc[c].next, Nothing)
  BY DEF StoreCall
<1>5. {"signIn"} \notin met =>
        /\ \A d \in Clients \ {c} : pc[d] = "idle"
        /\ \A e : \A d \in Clients : Recounting(d, e) => e = email /\ d = c
  <2>1. {"signIn"} \notin met => \A d \in Clients \ {c} : pc[d] = "idle"
    BY <1>1, SignInAlone
  <2> QED
    BY <1>0, <2>1 DEF Recounting
<1>6. ~Attempting(k, email) => \A e : \A d \in Clients : {"signIn"} \notin met => ~Recounting(d, e)
  BY <1>0, <1>5 DEF Recounting
<1> HIDE DEF k, rest
<1>7. CASE Refused(k) \/ FindsNothing(k)
  <2>1. Respond(c) /\ UNCHANGED db /\ ~Attempting(k, email)
    BY <1>4, <1>7 DEF Refused, FindsNothing, Attempting
  <2>2. AttemptRows'
    BY <2>1 DEF SignIns, AttemptRows
  <2>3. /\ SignIns' /\ pc'[c] = "idle"
        /\ \A d \in Clients \ {c} : pc'[d] = pc[d] /\ loc'[d] = loc[d]
    BY <1>1, <2>1, <2>2, SignInAnswers
  <2>4. Counted'
    <3> SUFFICES ASSUME {"signIn"} \notin met, "signIn" \notin cuts
                 PROVE  /\ \A e \in Emails : OnRow(e)'
                        /\ \A d \in Clients : pc'[d] \notin {"signIn.password", "calling"}
      BY <1>1 DEF Counted, Recounting
    <3>1. \A e \in Emails : OnRow(e)
      BY <1>6, <2>1 DEF Counted
    <3> QED
      BY <1>5, <2>1, <2>3, <3>1 DEF OnRow, AttemptsOn, ById, Table
  <2> QED
    BY <2>3, <2>4
<1>8. CASE ~(Refused(k) \/ FindsNothing(k))
  <2>1. \/ k.call = "insert" /\ k.table # "auth_attempts" /\ db' = InsertRow(k.table, k.row)
        \/ Attempting(k, email) /\ db' = UpsertRow(k.table, k.row)
    BY <1>3, <1>4, <1>8 DEF Attempting, Logging
  <2>2. \A e : AttemptsOn(e)' = IF Attempting(k, email) /\ e = email THEN {k.row}
                                                                  ELSE AttemptsOn(e)
    <3>1. "auth_attempts" \in DOMAIN db
      BY DEF SignIns, AttemptRows
    <3> QED
      BY <2>1, <3>1, CountIsWritten
  <2>3. AttemptRows'
    BY <2>1 DEF SignIns, AttemptRows, InsertRow, UpsertRow, Attempting
  <2>4. /\ SignIns' /\ pc'[c] \in {"idle", "calling"}
        /\ pc'[c] = "calling" => rest # <<>> /\ loc'[c].calls = rest
        /\ \A d \in Clients \ {c} : pc'[d] = pc[d] /\ loc'[d] = loc[d]
    <3>1. CASE rest = <<>>
      <4>1. Respond(c)
        BY <1>2, <1>4, <1>8, <3>1
      <4> QED
        BY <1>1, <2>3, <4>1, SignInAnswers
    <3>2. CASE rest # <<>>
      <4> DEFINE locals == [calls |-> rest]
      <4>1. DOMAIN locals = {"calls"} /\ locals["calls"] = rest
        OBVIOUS
      <4>2. Goto(c, "calling", locals)
        BY <1>4, <1>8, <3>2
      <4> HIDE DEF locals
      <4>3. DOMAIN pc = Clients /\ DOMAIN loc = Clients /\ streak' \in [Emails -> Nat]
        BY DEF SignIns
      <4>4. /\ {"calls", "next"} \subseteq DOMAIN loc'[c] /\ loc'[c].next = "idle"
            /\ loc'[c].calls = rest
        <5>1. /\ DOMAIN loc'[c] = DOMAIN locals \cup DOMAIN loc[c]
              /\ \A f \in DOMAIN locals : loc'[c][f] = locals[f]
              /\ \A f \in DOMAIN loc[c] : f \notin DOMAIN locals => loc'[c][f] = loc[c][f]
          BY <4>2, <4>3, RequestGoesOn
        <5> QED
          BY <1>2, <4>1, <5>1
      <4>5. SignInCalls(rest, loc[c].email)
        <5>1. \A i \in 2 .. Len(rest) : i \in 1 .. Len(rest)
          BY <1>3
        <5> QED
          BY <1>3, <3>2, <5>1 DEF SignInCalls
      <4>6. "calling" \in SignInPC
        BY DEF SignInPC
      <4> QED
        BY <1>1, <2>3, <3>2, <4>1, <4>2, <4>3, <4>4, <4>5, <4>6, SignInGoesOn
    <3> QED
      BY <3>1, <3>2
  <2>5. Counted'
    <3> SUFFICES ASSUME {"signIn"} \notin met, "signIn" \notin cuts
                 PROVE  /\ \A e \in Emails : OnRow(e)'
                        /\ \A d \in Clients, e \in Emails : ~Recounting(d, e)'
                        /\ \A d \in Clients : pc'[d] # "signIn.password"
      BY <1>1 DEF Counted
    <3>1. ASSUME NEW e \in Emails PROVE OnRow(e)'
      <4>1. CASE Attempting(k, email) /\ e = email
        <5>1. Recounting(c, email)
          BY <1>0, <1>1, <4>1 DEF Recounting, k
        <5>2. AttemptsOn(e)' = {k.row} /\ Agrees(streak[e], k.row)
          BY <2>2, <4>1, <5>1 DEF Counted, k
        <5> QED
          BY <5>2 DEF OnRow, Agrees
      <4>2. CASE ~(Attempting(k, email) /\ e = email)
        <5>1. OnRow(e)
          BY <1>5, <1>6, <4>2 DEF Counted
        <5> QED
          BY <2>2, <4>2, <5>1 DEF OnRow, Agrees
      <4> QED
        BY <4>1, <4>2
    <3>2. \A d \in Clients : pc'[d] # "signIn.password"
      BY <1>5, <2>4
    <3>3. ASSUME NEW d \in Clients, NEW e \in Emails PROVE ~Recounting(d, e)'
      <4>1. d # c => pc'[d] = "idle"
        BY <1>5, <2>4
      <4>2. pc'[c] = "calling" => Logging(Head(loc'[c].calls))
        BY <1>3, <2>4
      <4> QED
        BY <4>1, <4>2 DEF Recounting, Attempting, Logging
    <3> QED
      BY <3>1, <3>2, <3>3
  <2> QED
    BY <2>4, <2>5
<1> QED
  BY <1>7, <1>8

LEMMA LockExpiryKeeps ==
  ASSUME SignIns, Counted, LockExpires
  PROVE  SignIns' /\ Counted'
<1> DEFINE T == "auth_attempts"
           unlocked == [locked |-> FALSE]
<1>1. PICK a \in db[T] : /\ a.locked /\ db' = UpdateRow(T, a.id, unlocked)
                         /\ streak' = [streak EXCEPT ![a.id] = 0]
  BY DEF LockExpires
<1>2. UNCHANGED <<pc, loc, met, cuts>>
  BY DEF LockExpires, history
<1>3. DOMAIN unlocked = {"locked"} /\ ~unlocked["locked"]
  OBVIOUS
<1> DEFINE Freed(r) == IF r.id = a.id THEN Over(unlocked, r) ELSE r
<1>4. db'[T] = {Freed(r) : r \in db[T]} /\ T \in DOMAIN db'
  BY <1>1 DEF UpdateRow, SignIns, AttemptRows
<1>5. ASSUME NEW r \in db[T]
      PROVE  /\ {"id", "failures", "locked"} \subseteq DOMAIN Freed(r)
             /\ Freed(r).id = r.id /\ Freed(r).failures = r.failures
             /\ r.id = a.id => ~Freed(r).locked
             /\ r.id # a.id => Freed(r) = r
  <2> HIDE DEF unlocked
  <2>1. {"id", "failures", "locked"} \subseteq DOMAIN r
    BY DEF SignIns, AttemptRows
  <2>2. /\ "locked" \in DOMAIN unlocked
        /\ "id" \in DOMAIN r \ DOMAIN unlocked /\ "failures" \in DOMAIN r \ DOMAIN unlocked
    BY <1>3, <2>1
  <2>3. /\ DOMAIN Over(unlocked, r) = DOMAIN unlocked \cup DOMAIN r
        /\ \A f \in DOMAIN unlocked : Over(unlocked, r)[f] = unlocked[f]
        /\ \A f \in DOMAIN r : f \notin DOMAIN unlocked => Over(unlocked, r)[f] = r[f]
    BY Overwritten
  <2>4. /\ Over(unlocked, r).locked = unlocked["locked"]
        /\ Over(unlocked, r).id = r.id /\ Over(unlocked, r).failures = r.failures
    BY <2>2, <2>3
  <2> QED
    BY <1>3, <2>1, <2>3, <2>4
<1> HIDE DEF Freed, unlocked
<1>6. SignIns'
  <2>1. AttemptRows'
    BY <1>4, <1>5 DEF AttemptRows
  <2>2. streak' \in [Emails -> Nat]
    BY <1>1 DEF SignIns
  <2>3. \A c \in Clients : InFlight(c)' => SignInRequest(c)'
    BY <1>2 DEF SignIns, SignInRequest, InFlight
  <2> QED
    BY <1>2, <2>1, <2>2, <2>3 DEF SignIns, InFlight
<1>7. \A e : AttemptsOn(e)' = {Freed(r) : r \in AttemptsOn(e)}
  BY <1>4, <1>5 DEF AttemptsOn, ById, Table, SignIns, AttemptRows
<1>8. ASSUME NEW e \in Emails
      PROVE  /\ e = a.id => streak'[e] = 0 /\ \A r \in AttemptsOn(e) : ~Freed(r).locked
             /\ e # a.id => streak'[e] = streak[e] /\ AttemptsOn(e)' = AttemptsOn(e)
  <2>1. \A r \in AttemptsOn(e) : r \in db[T] /\ r.id = e
    BY DEF AttemptsOn, ById, Table
  <2>2. /\ e = a.id => streak'[e] = 0
        /\ e # a.id => streak'[e] = streak[e]
    BY <1>1 DEF SignIns
  <2>3. e = a.id => \A r \in AttemptsOn(e) : ~Freed(r).locked
    BY <1>5, <2>1
  <2>4. ASSUME e # a.id PROVE AttemptsOn(e)' = AttemptsOn(e)
    <3>1. \A r \in AttemptsOn(e) : Freed(r) = r
      BY <1>5, <2>1, <2>4
    <3>2. {Freed(r) : r \in AttemptsOn(e)} = AttemptsOn(e)
      BY <3>1
    <3> QED
      BY <1>7, <3>2
  <2> QED
    BY <2>2, <2>3, <2>4
<1>9. ASSUME NEW e \in Emails, OnRow(e) PROVE OnRow(e)'
  <2>1. CASE e # a.id
    BY <1>8, <1>9, <2>1 DEF OnRow
  <2>2. CASE e = a.id
    <3>1. streak'[e] = 0 /\ AttemptsOn(e)' = {Freed(r) : r \in AttemptsOn(e)}
      BY <1>7, <1>8, <2>2
    <3>2. \A r \in AttemptsOn(e) : ~Freed(r).locked /\ Freed(r).failures = r.failures
      BY <1>5, <1>8, <2>2 DEF AttemptsOn, ById, Table
    <3>3. MaxFailures \in Nat
      BY AccountsAssumption
    <3> QED
      BY <1>9, <3>1, <3>2, <3>3 DEF OnRow, Agrees
  <2> QED
    BY <2>1, <2>2
<1>10. Counted'
  <2> SUFFICES ASSUME {"signIn"} \notin met, "signIn" \notin cuts PROVE Counted'
    BY <1>2 DEF Counted
  <2>1. ASSUME NEW e \in Emails, NEW c \in Clients
        PROVE  Recounting(c, e)' <=> Recounting(c, e)
    BY <1>2 DEF Recounting, Attempting
  <2>2. \A e \in Emails : OnRow(e)' \/ \E c \in Clients : Recounting(c, e)'
    BY <1>9, <2>1 DEF Counted
  <2>3. ASSUME NEW e \in Emails, NEW c \in Clients, Recounting(c, e)
        PROVE  Agrees(streak'[e], Head(loc[c].calls).row)
    <3>1. Agrees(streak[e], Head(loc[c].calls).row)
      BY <2>3 DEF Counted
    <3>2. MaxFailures \in Nat
      BY AccountsAssumption
    <3> QED
      BY <1>8, <3>1, <3>2 DEF Agrees
  <2>4. ASSUME NEW c \in Clients, pc[c] = "signIn.password"
        PROVE  /\ loc[c].attempt = AttemptsOn(loc[c].email)'
               /\ \A b \in loc[c].attempt : ~b.locked
    <3>1. /\ loc[c].attempt = AttemptsOn(loc[c].email)
          /\ \A b \in loc[c].attempt : ~b.locked
      BY <2>4 DEF Counted
    <3>2. PICK email \in Emails : email = loc[c].email
      BY <2>4 DEF SignIns, SignInRequest, InFlight
    <3>3. a \in AttemptsOn(a.id)
      BY DEF AttemptsOn, ById, Table, SignIns, AttemptRows
    <3>4. email # a.id
      BY <1>1, <3>1, <3>2, <3>3
    <3>5. AttemptsOn(email)' = AttemptsOn(email)
      BY <1>8, <3>4
    <3>6. email = loc'[c].email
      BY <1>2, <3>2
    <3> QED
      BY <3>1, <3>2, <3>5, <3>6
  <2> QED
    BY <1>2, <2>1, <2>2, <2>3, <2>4 DEF Counted
<1> QED
  BY <1>6, <1>10

-----------------------------------------------------------------------------
(***************************************************************************)
(* Sign-in: the theorem.                                                   *)
(***************************************************************************)
LEMMA GuessInitially == Init => GuessInv
<1> SUFFICES ASSUME Init PROVE GuessInv
  OBVIOUS
<1>1. PICK a \in Areas : \E seed \in Seeds[a] : RequestsInit(a, seed.rows)
  BY DEF Init
<1>2. PICK seed \in Seeds[a] : RequestsInit(a, seed.rows)
  BY <1>1
<1>3. /\ area = a /\ db = seed.rows /\ streak = [e \in Emails |-> 0]
      /\ pc = [c \in Clients |-> "idle"] /\ loc = [c \in Clients |-> Empty]
  BY <1>2 DEF RequestsInit, Init, AccountsInit
<1>4. AttemptsFit(area, db)
  BY <1>2, <1>3, PlatformAssumption
<1>5. ASSUME area = "signin" PROVE SignIns /\ Counted
  <2>1. AttemptRows
    BY <1>4, <1>5 DEF AttemptsFit, AttemptRows
  <2>2. SignIns
    BY <1>3, <2>1 DEF SignIns, SignInPC, InFlight
  <2>3. ASSUME NEW e \in Emails PROVE OnRow(e)
    <3>1. /\ \A r \in AttemptsOn(e) : r \in db["auth_attempts"] /\ r.id = e
          /\ streak[e] = 0 /\ MaxFailures \in Nat
      BY <1>3, AccountsAssumption DEF AttemptsOn, ById, Table
    <3> QED
      BY <1>4, <1>5, <3>1 DEF OnRow, Agrees, AttemptsFit
  <2>4. Counted
    BY <1>3, <2>3 DEF Counted, Recounting
  <2> QED
    BY <2>2, <2>4
<1> QED
  BY <1>3, <1>5 DEF GuessInv

LEMMA SignInCutKeeps ==
  ASSUME SignIns, Counted, NEW c \in Clients, CutOff(c), UNCHANGED streak
  PROVE  SignIns' /\ Counted'
<1>1. Respond(c) /\ UNCHANGED <<db, met>> /\ cuts' = cuts \cup {loc[c].op} /\ InFlight(c)
  BY DEF CutOff
<1>2. loc[c].op = "signIn" /\ AttemptRows'
  BY <1>1 DEF SignIns, SignInRequest, AttemptRows
<1>3. SignIns'
  BY <1>1, <1>2, SignInAnswers
<1> QED
  BY <1>1, <1>2, <1>3 DEF Counted

LEMMA GuessKept == GuessInv /\ [Next]_vars => GuessInv'
<1> SUFFICES ASSUME GuessInv, [Next]_vars PROVE GuessInv'
  OBVIOUS
<1>1. UNCHANGED area
  BY Frame
<1>2. CASE area # "signin"
  BY <1>1, <1>2, SignInFrame DEF GuessInv
<1>3. CASE area = "signin"
  <2>1. SignIns /\ Counted
    BY <1>3 DEF GuessInv
  <2>2. CASE UNCHANGED <<requestVars, streak>>
    <3>1. UNCHANGED <<db, pc, loc, met, cuts, streak>>
      BY <2>2 DEF requestVars
    <3>2. SignIns'
      BY <2>1, <3>1 DEF SignIns, SignInRequest, AttemptRows, InFlight
    <3>3. Counted'
      BY <2>1, <3>1 DEF Counted, OnRow, Recounting, AttemptsOn, ById, Table
    <3> QED
      BY <1>1, <1>3, <3>2, <3>3 DEF GuessInv
  <2> QED
    BY <1>1, <1>3, <2>1, <2>2, SignInFrame, LockExpiryKeeps, SignInStarts, ReadAttemptKeeps,
       WrongPasswordKeeps, RightPasswordKeeps, SignInCallKeeps, SignInCutKeeps DEF GuessInv
<1> QED
  BY <1>2, <1>3

LEMMA GuessPromised == GuessInv => GuessesAreCounted
<1> SUFFICES ASSUME GuessInv, ~Met({"signIn"}), "signIn" \notin cuts, NEW e \in Emails
             PROVE  streak[e] <= MaxFailures
  BY DEF GuessesAreCounted
<1>1. MaxFailures \in Nat
  BY AccountsAssumption
<1>2. CASE area # "signin"
  BY <1>1, <1>2 DEF GuessInv
<1>3. CASE area = "signin"
  <2>1. {"signIn"} \notin met
    BY DEF Met
  <2>2. OnRow(e) \/ \E c \in Clients : Agrees(streak[e], Head(loc[c].calls).row)
    BY <1>3, <2>1 DEF GuessInv, Counted
  <2> QED
    BY <1>1, <2>2 DEF OnRow, Agrees
<1> QED
  BY <1>2, <1>3

\* MAX_FAILURES wrong passwords in a row lock an address (auth/actions.ts): whatever
\* the number of requests, of addresses and of locks that end, no address is guessed at
\* more often than that in between, unless two sign-ins were in flight together or one
\* was cut off.
THEOREM GuessesCounted == Spec => []GuessesAreCounted
<1>1. GuessInv /\ [Next]_vars => GuessInv'
  BY GuessKept
<1> QED
  BY <1>1, GuessInitially, GuessPromised, PTL DEF Spec

-----------------------------------------------------------------------------
(***************************************************************************)
(* The funnel: the inductive invariant.                                    *)
(***************************************************************************)
FunnelPC == {"idle", "funnel.limit", "funnel.org", "funnel.readReceipts", "funnel.truncate",
             "funnel.fill", "calling"}

FunnelRequest(c) ==
  /\ {"op", "n"} \subseteq DOMAIN loc[c]
  /\ loc[c].op = "funnel" /\ loc[c].n \in 1 .. served
  /\ pc[c] \in {"funnel.truncate", "funnel.fill"} =>
        /\ "records" \in DOMAIN loc[c]
        /\ loc[c].n \in loc[c].records /\ loc[c].records \subseteq 1 .. served
  /\ pc[c] = "calling" =>
        /\ {"calls", "next"} \subseteq DOMAIN loc[c]
        /\ loc[c].next \in {"funnel.org", "funnel.readReceipts"}

Funnels ==
  /\ pc \in [Clients -> FunnelPC] /\ DOMAIN loc = Clients
  /\ served \in 0 .. MaxRequests[area]
  /\ receipts = Torn \/ receipts \subseteq 1 .. served
  /\ \A c \in Clients : InFlight(c) => FunnelRequest(c)
  /\ \A c, d \in Clients : InFlight(c) /\ InFlight(d) /\ c # d => {"funnel"} \in met

\* While no two requests meet and none is cut off, the file is torn only as long as a
\* request is about to fill it, and what is accepted is in the file or in its hands.
Kept ==
  {"funnel"} \notin met /\ "funnel" \notin cuts =>
     /\ \A c \in Clients : pc[c] \in {"funnel.truncate", "funnel.fill"} =>
           accepted \subseteq loc[c].records
     /\ (\A c \in Clients : pc[c] # "funnel.fill") =>
           receipts # Torn /\ accepted \subseteq receipts

FunnelInv ==
  /\ area \in Areas
  /\ area # "funnel" => accepted = {}
  /\ area = "funnel" => Funnels /\ Kept

-----------------------------------------------------------------------------
(***************************************************************************)
(* The funnel: what happens in the area.                                   *)
(***************************************************************************)
LEMMA FunnelFrame ==
  ASSUME [Next]_vars
  PROVE  /\ area # "funnel" => UNCHANGED accepted
         /\ area = "funnel" =>
               \/ UNCHANGED <<requestVars, receipts, accepted>>
               \/ \E c \in Clients :
                     \/ PostAuditRequest(c)
                     \/ CheckMemory(c) \/ CheckShared(c) \/ RecordRequest(c)
                     \/ ReadReceipts(c) \/ TruncateReceipts(c) \/ WriteReceipts(c)
                     \/ StoreCall(c) /\ UNCHANGED intakeVars
                     \/ CutOff(c) /\ UNCHANGED intakeVars
<1>1. CASE UNCHANGED vars
  BY <1>1 DEF vars, intakeVars
<1>2. CASE Environment
  BY <1>2 DEF Environment, LockExpires, WindowPasses, DayPasses, Restart, intakeVars, requestVars
<1>3. ASSUME NEW c \in Clients, Submit(c)
      PROVE  /\ area # "funnel" => UNCHANGED accepted
             /\ area = "funnel" => PostAuditRequest(c)
  <2>1. IntakeSubmit(c) /\ area # "funnel" => UNCHANGED accepted
    BY DEF IntakeSubmit, CreateRecord, MoveRecord, intakeVars
  <2> QED
    BY <1>3, <2>1 DEF Submit, AccountsSubmit, IntakeSubmit, KnowledgeSubmit, AgentsSubmit,
       EvalsSubmit, NightlySubmit, WorkspaceSubmit, SystemsSubmit, Calls, intakeVars
<1>4. ASSUME NEW c \in Clients, Step(c)
      PROVE  /\ area # "funnel" => UNCHANGED accepted
             /\ area = "funnel" =>
                  \/ CheckMemory(c) \/ CheckShared(c) \/ RecordRequest(c)
                  \/ ReadReceipts(c) \/ TruncateReceipts(c) \/ WriteReceipts(c)
                  \/ StoreCall(c) /\ UNCHANGED intakeVars
                  \/ CutOff(c) /\ UNCHANGED intakeVars
  <2>1. IntakeStep(c) /\ area # "funnel" => UNCHANGED accepted
    BY DEF IntakeStep, InsertRecord, UpdateRecord, intakeVars
  <2> QED
    BY <1>4, <2>1 DEF Step, AccountsStep, IntakeStep, KnowledgeStep, AgentsStep, EvalsStep,
       NightlyStep, WorkspaceStep, SystemsStep, StoresStep, intakeVars
<1> QED
  BY <1>1, <1>2, <1>3, <1>4 DEF Next

\* A request that is at its new point what that point needs leaves the others in order.
LEMMA FunnelsStay ==
  ASSUME Funnels, NEW c \in Clients, NEW where \in FunnelPC, pc' = [pc EXCEPT ![c] = where],
         DOMAIN loc' = Clients, \A d \in Clients \ {c} : loc'[d] = loc[d],
         UNCHANGED area, served' \in served .. MaxRequests[area], met \subseteq met',
         receipts' = Torn \/ receipts' \subseteq 1 .. served',
         where # "idle" => /\ FunnelRequest(c)'
                           /\ \A d \in Clients \ {c} : InFlight(d) => {"funnel"} \in met'
  PROVE  Funnels'
<1>1. /\ pc' \in [Clients -> FunnelPC] /\ pc'[c] = where
      /\ \A d \in Clients \ {c} : pc'[d] = pc[d]
  BY DEF Funnels
<1>2. /\ served \in Nat /\ served' \in Nat /\ served <= served'
      /\ served' \in 0 .. MaxRequests[area]' /\ 1 .. served \subseteq 1 .. served'
  BY DEF Funnels
<1>3. \A d \in Clients \ {c} : /\ InFlight(d)' <=> InFlight(d)
                               /\ FunnelRequest(d) => FunnelRequest(d)'
  BY <1>1, <1>2 DEF InFlight, FunnelRequest
<1>4. \A d \in Clients : InFlight(d)' => FunnelRequest(d)'
  BY <1>1, <1>3 DEF Funnels, InFlight
<1>5. ASSUME NEW d \in Clients, NEW e \in Clients, InFlight(d)', InFlight(e)', d # e
      PROVE  {"funnel"} \in met'
  BY <1>1, <1>3, <1>5 DEF Funnels, InFlight
<1> QED
  BY <1>1, <1>2, <1>4, <1>5 DEF Funnels

LEMMA FunnelAlone ==
  ASSUME Funnels, {"funnel"} \notin met, NEW c \in Clients, InFlight(c)
  PROVE  \A d \in Clients \ {c} : pc[d] = "idle"
BY DEF Funnels, InFlight

\* A step of a request that is in flight: it answers, or goes on with new locals.
LEMMA FunnelGoesOn ==
  ASSUME Funnels, NEW c \in Clients, InFlight(c), UNCHANGED <<area, served, met>>,
         receipts' = Torn \/ receipts' \subseteq 1 .. served,
         NEW where \in FunnelPC, NEW locals, DOMAIN locals \cap {"op", "n"} = {},
         IF where = "idle" THEN Respond(c) ELSE Goto(c, where, locals),
         where \in {"funnel.truncate", "funnel.fill"} =>
            /\ "records" \in DOMAIN loc'[c]
            /\ loc[c].n \in loc'[c].records /\ loc'[c].records \subseteq 1 .. served,
         where = "calling" => /\ {"calls", "next"} \subseteq DOMAIN loc'[c]
                              /\ loc'[c].next \in {"funnel.org", "funnel.readReceipts"}
  PROVE  /\ Funnels' /\ pc'[c] = where
         /\ \A d \in Clients \ {c} : pc'[d] = pc[d] /\ loc'[d] = loc[d]
<1>1. DOMAIN pc = Clients /\ DOMAIN loc = Clients /\ FunnelRequest(c)
  BY DEF Funnels
<1>2. served' \in served .. MaxRequests[area]
  BY DEF Funnels
<1>3. CASE where = "idle"
  <2>1. /\ pc' = [pc EXCEPT ![c] = where] /\ DOMAIN loc' = Clients
        /\ \A d \in Clients \ {c} : loc'[d] = loc[d]
    BY <1>1, <1>3 DEF Respond
  <2>2. Funnels'
    BY <1>2, <1>3, <2>1, FunnelsStay
  <2> QED
    BY <1>1, <2>1, <2>2
<1>4. CASE where # "idle"
  <2>1. /\ pc' = [pc EXCEPT ![c] = where] /\ DOMAIN loc' = Clients
        /\ DOMAIN loc'[c] = DOMAIN locals \cup DOMAIN loc[c]
        /\ \A f \in DOMAIN loc[c] : f \notin DOMAIN locals => loc'[c][f] = loc[c][f]
        /\ \A d \in Clients \ {c} : loc'[d] = loc[d]
    BY <1>1, <1>4, RequestGoesOn
  <2>2. /\ {"op", "n"} \subseteq DOMAIN loc'[c]
        /\ loc'[c].op = loc[c].op /\ loc'[c].n = loc[c].n
        /\ pc'[c] = where /\ \A d \in Clients \ {c} : pc'[d] = pc[d]
    BY <1>1, <2>1 DEF FunnelRequest
  <2>3. FunnelRequest(c)'
    BY <1>1, <2>2 DEF FunnelRequest
  <2>4. \A d \in Clients \ {c} : InFlight(d) => {"funnel"} \in met'
    BY DEF Funnels
  <2>5. Funnels'
    BY <1>2, <2>1, <2>3, <2>4, FunnelsStay
  <2> QED
    BY <2>1, <2>2, <2>5
<1> QED
  BY <1>3, <1>4

\* Steps that have nothing to do with the file.
LEMMA ElsewhereKept ==
  ASSUME Kept, NEW c \in Clients, UNCHANGED <<receipts, accepted, met, cuts>>,
         pc[c] # "funnel.fill", pc'[c] \notin {"funnel.truncate", "funnel.fill"},
         \A d \in Clients \ {c} : pc'[d] = pc[d] /\ loc'[d] = loc[d]
  PROVE  Kept'
<1> SUFFICES ASSUME {"funnel"} \notin met, "funnel" \notin cuts
             PROVE  /\ \A d \in Clients : pc'[d] \in {"funnel.truncate", "funnel.fill"} =>
                          accepted \subseteq loc'[d].records
                    /\ (\A d \in Clients : pc'[d] # "funnel.fill") =>
                          receipts # Torn /\ accepted \subseteq receipts
  BY DEF Kept, Torn
<1>1. ASSUME NEW d \in Clients, pc'[d] \in {"funnel.truncate", "funnel.fill"}
      PROVE  accepted \subseteq loc'[d].records
  BY <1>1 DEF Kept
<1>2. ASSUME \A d \in Clients : pc'[d] # "funnel.fill"
      PROVE  receipts # Torn /\ accepted \subseteq receipts
  BY <1>2 DEF Kept
<1> QED
  BY <1>1, <1>2

-----------------------------------------------------------------------------
(***************************************************************************)
(* The funnel: the invariant, step by step.                                *)
(***************************************************************************)
LEMMA PostKeeps ==
  ASSUME area \in Areas, Funnels, Kept, NEW c \in Clients, PostAuditRequest(c)
  PROVE  Funnels' /\ Kept'
<1>1. PICK address \in Addresses :
         Accept(c, "funnel.limit", [op |-> "funnel", address |-> address, now |-> clock,
                                    org |-> None])
  BY DEF PostAuditRequest
<1> DEFINE locals == [op |-> "funnel", address |-> address, now |-> clock, org |-> None]
           number == [n |-> served + 1]
<1>2. /\ DOMAIN locals = {"op", "address", "now", "org"} /\ DOMAIN number = {"n"}
      /\ locals.op = "funnel" /\ number.n = served + 1
  OBVIOUS
<1>3. /\ pc[c] = "idle" /\ pc' = [pc EXCEPT ![c] = "funnel.limit"]
      /\ loc' = [loc EXCEPT ![c] = Over(locals, number)]
      /\ met' = met \cup {{locals.op, loc[d].op} : d \in {d \in Clients : InFlight(d)}}
      /\ served < MaxRequests[area] /\ served' = served + 1
      /\ UNCHANGED <<area, receipts, accepted, cuts>>
  BY <1>1 DEF Accept, PostAuditRequest
<1> HIDE DEF locals, number
<1>4. /\ DOMAIN loc' = Clients /\ loc'[c] = Over(locals, number)
      /\ \A d \in Clients \ {c} : loc'[d] = loc[d]
  BY <1>3 DEF Funnels
<1>5. /\ {"op", "n"} \subseteq DOMAIN loc'[c]
      /\ loc'[c].op = "funnel" /\ loc'[c].n = served + 1
  <2>1. /\ DOMAIN Over(locals, number) = DOMAIN locals \cup DOMAIN number
        /\ \A f \in DOMAIN locals : Over(locals, number)[f] = locals[f]
        /\ \A f \in DOMAIN number : f \notin DOMAIN locals => Over(locals, number)[f] = number[f]
    BY Overwritten
  <2>2. "op" \in DOMAIN locals /\ "n" \in DOMAIN number /\ "n" \notin DOMAIN locals
    BY <1>2
  <2> QED
    BY <1>2, <1>4, <2>1, <2>2
<1>6. /\ "funnel.limit" \in FunnelPC /\ pc'[c] = "funnel.limit"
      /\ \A d \in Clients \ {c} : pc'[d] = pc[d]
  BY <1>3 DEF Funnels, FunnelPC
<1>7. /\ served \in Nat /\ MaxRequests[area] \in Nat
      /\ served' \in served .. MaxRequests[area] /\ served + 1 \in 1 .. served'
      /\ receipts' = Torn \/ receipts' \subseteq 1 .. served'
  <2>1. served \in Nat /\ MaxRequests[area] \in Nat
    BY AreaBound DEF Funnels
  <2>2. 1 .. served \subseteq 1 .. served'
    BY <1>3, <2>1
  <2> QED
    BY <1>3, <2>1, <2>2 DEF Funnels
<1>8. FunnelRequest(c)'
  BY <1>5, <1>6, <1>7 DEF FunnelRequest
<1>9. \A d \in Clients \ {c} : InFlight(d) => {"funnel"} \in met'
  <2> SUFFICES ASSUME NEW d \in Clients \ {c}, InFlight(d) PROVE {"funnel"} \in met'
    OBVIOUS
  <2>1. loc[d].op = "funnel"
    BY DEF Funnels, FunnelRequest
  <2>2. {locals.op, loc[d].op} \in met'
    BY <1>3
  <2>3. {locals.op, loc[d].op} = {"funnel"}
    BY <1>2, <2>1
  <2> QED
    BY <2>2, <2>3
<1>10. Funnels'
  <2>1. met \subseteq met'
    BY <1>3
  <2> QED
    BY <1>3, <1>4, <1>6, <1>7, <1>8, <1>9, <2>1, FunnelsStay
<1>11. Kept'
  <2> SUFFICES ASSUME {"funnel"} \notin met', "funnel" \notin cuts'
               PROVE  /\ receipts # Torn /\ accepted \subseteq receipts
                      /\ \A d \in Clients : pc'[d] \notin {"funnel.truncate", "funnel.fill"}
    BY <1>3 DEF Kept, Torn
  <2>1. \A d \in Clients : pc[d] = "idle"
    BY <1>3, <1>9 DEF InFlight
  <2>2. {"funnel"} \notin met /\ "funnel" \notin cuts
    BY <1>3
  <2> QED
    BY <1>6, <2>1, <2>2 DEF Kept
<1> QED
  BY <1>10, <1>11

\* Steps from and to points where the request does not have the file in its hands.
LEMMA FunnelMoves ==
  ASSUME Funnels, Kept, NEW c \in Clients, InFlight(c),
         UNCHANGED <<area, served, met, cuts, receipts, accepted>>,
         pc[c] # "funnel.fill",
         NEW where \in FunnelPC \ {"funnel.truncate", "funnel.fill"},
         NEW locals, DOMAIN locals \cap {"op", "n"} = {},
         IF where = "idle" THEN Respond(c) ELSE Goto(c, where, locals),
         where = "calling" => /\ {"calls", "next"} \subseteq DOMAIN loc'[c]
                              /\ loc'[c].next \in {"funnel.org", "funnel.readReceipts"}
  PROVE  Funnels' /\ Kept'
<1>1. receipts' = Torn \/ receipts' \subseteq 1 .. served
  BY DEF Funnels
<1>2. /\ Funnels' /\ pc'[c] = where
      /\ \A d \in Clients \ {c} : pc'[d] = pc[d] /\ loc'[d] = loc[d]
  BY <1>1, FunnelGoesOn
<1>3. Kept'
  BY <1>2, ElsewhereKept
<1> QED
  BY <1>2, <1>3

LEMMA LimitKeeps ==
  ASSUME Funnels, Kept, NEW c \in Clients, CheckMemory(c) \/ CheckShared(c)
  PROVE  Funnels' /\ Kept'
<1>1. /\ pc[c] = "funnel.limit" /\ InFlight(c)
      /\ UNCHANGED <<area, served, met, cuts, receipts, accepted>>
  BY DEF CheckMemory, CheckShared, At, history, limiterHistory, intakeVars, InFlight
<1>2. /\ "idle" \in FunnelPC /\ "funnel.org" \in FunnelPC /\ "calling" \in FunnelPC
      /\ DOMAIN Nothing = {"calls"}
  BY DEF FunnelPC, Nothing
<1>3. CASE Respond(c)
  BY <1>1, <1>2, <1>3, FunnelMoves
<1>4. CASE \E now : Goto(c, "funnel.org", [now |-> now])
  <2>1. PICK now : Goto(c, "funnel.org", [now |-> now])
    BY <1>4
  <2> DEFINE locals == [now |-> now]
  <2>2. DOMAIN locals = {"now"} /\ Goto(c, "funnel.org", locals)
    BY <2>1
  <2> HIDE DEF locals
  <2> QED
    BY <1>1, <1>2, <2>2, FunnelMoves
<1>5. CASE \E k : Goto(c, "calling", [calls |-> <<k>>, next |-> "funnel.org"])
  <2>1. PICK k : Goto(c, "calling", [calls |-> <<k>>, next |-> "funnel.org"])
    BY <1>5
  <2> DEFINE locals == [calls |-> <<k>>, next |-> "funnel.org"]
  <2>2. /\ DOMAIN locals = {"calls", "next"} /\ locals["next"] = "funnel.org"
        /\ Goto(c, "calling", locals)
    BY <2>1
  <2> HIDE DEF locals
  <2>3. DOMAIN loc'[c] = DOMAIN locals \cup DOMAIN loc[c] /\ loc'[c].next = "funnel.org"
    <3>1. DOMAIN pc = Clients /\ DOMAIN loc = Clients
      BY DEF Funnels
    <3> QED
      BY <2>2, <3>1, RequestGoesOn
  <2> QED
    BY <1>1, <1>2, <2>2, <2>3, FunnelMoves
<1>6. CASE CheckMemory(c)
  BY <1>3, <1>4, <1>6 DEF CheckMemory, Refuse
<1>7. CASE CheckShared(c)
  <2>1. \A k : Calling(c, <<k>>, "funnel.org") =>
           Goto(c, "calling", [calls |-> <<k>>, next |-> "funnel.org"])
    BY DEF Calling
  <2>2. Respond(c) \/ \E k : Calling(c, <<k>>, "funnel.org")
    BY <1>7 DEF CheckShared
  <2> QED
    BY <1>3, <1>5, <2>1, <2>2
<1> QED
  BY <1>6, <1>7

LEMMA RecordKeeps ==
  ASSUME Funnels, Kept, NEW c \in Clients, RecordRequest(c)
  PROVE  Funnels' /\ Kept'
<1>1. /\ pc[c] = "funnel.org" /\ InFlight(c)
      /\ UNCHANGED <<area, served, met, cuts, receipts, accepted>>
  BY DEF RecordRequest, At, history, limiterHistory, InFlight
<1>2. /\ "idle" \in FunnelPC /\ "funnel.readReceipts" \in FunnelPC /\ "calling" \in FunnelPC
      /\ DOMAIN Nothing = {"calls"}
  BY DEF FunnelPC, Nothing
<1>3. \/ Respond(c) \/ Goto(c, "funnel.readReceipts", Nothing)
      \/ \E org, calls : Goto(c, "calling", [org |-> org, next |-> "funnel.readReceipts",
                                             calls |-> calls])
  BY DEF RecordRequest
<1>4. CASE Respond(c) \/ Goto(c, "funnel.readReceipts", Nothing)
  BY <1>1, <1>2, <1>4, FunnelMoves
<1>5. ASSUME NEW org, NEW calls,
             Goto(c, "calling", [org |-> org, next |-> "funnel.readReceipts",
                                 calls |-> calls])
      PROVE  Funnels' /\ Kept'
  <2> DEFINE locals == [org |-> org, next |-> "funnel.readReceipts", calls |-> calls]
  <2>1. /\ DOMAIN locals = {"org", "calls", "next"} /\ locals["next"] = "funnel.readReceipts"
        /\ Goto(c, "calling", locals)
    BY <1>5
  <2> HIDE DEF locals
  <2>2. /\ DOMAIN loc'[c] = DOMAIN locals \cup DOMAIN loc[c]
        /\ loc'[c].next = "funnel.readReceipts"
    <3>1. DOMAIN pc = Clients /\ DOMAIN loc = Clients
      BY DEF Funnels
    <3> QED
      BY <2>1, <3>1, RequestGoesOn
  <2> QED
    BY <1>1, <1>2, <2>1, <2>2, FunnelMoves
<1> QED
  BY <1>3, <1>4, <1>5

\* The file is read: what is accepted is in what the request will write.
LEMMA ReadReceiptsKeeps ==
  ASSUME area \in Areas, Funnels, Kept, NEW c \in Clients, ReadReceipts(c)
  PROVE  Funnels' /\ Kept'
<1> DEFINE records == (IF receipts = Torn THEN {} ELSE receipts) \cup {Number(c)}
           locals == [records |-> records]
<1>1. /\ pc[c] = "funnel.readReceipts" /\ InFlight(c)
      /\ UNCHANGED <<area, served, met, cuts, receipts, accepted>>
      /\ Goto(c, "funnel.truncate", locals)
  BY DEF ReadReceipts, At, history, intakeVars, InFlight
<1>2. /\ loc[c].n \in records /\ records \subseteq 1 .. served
      /\ receipts # Torn => receipts \subseteq records
  BY <1>1 DEF Funnels, FunnelRequest, Number
<1>3. DOMAIN locals = {"records"} /\ locals["records"] = records
  OBVIOUS
<1> HIDE DEF locals, records
<1>4. DOMAIN loc'[c] = DOMAIN locals \cup DOMAIN loc[c] /\ loc'[c].records = records
  <2>1. DOMAIN pc = Clients /\ DOMAIN loc = Clients
    BY DEF Funnels
  <2> QED
    BY <1>1, <1>3, <2>1, RequestGoesOn
<1>5. /\ Funnels' /\ pc'[c] = "funnel.truncate"
      /\ \A d \in Clients \ {c} : pc'[d] = pc[d] /\ loc'[d] = loc[d]
  <2>1. "funnel.truncate" \in FunnelPC
    BY DEF FunnelPC
  <2>2. receipts' = Torn \/ receipts' \subseteq 1 .. served
    BY <1>1 DEF Funnels
  <2> QED
    BY <1>1, <1>2, <1>3, <1>4, <2>1, <2>2, FunnelGoesOn
<1>6. Kept'
  <2> SUFFICES ASSUME {"funnel"} \notin met, "funnel" \notin cuts
               PROVE  /\ \A d \in Clients :
                            pc'[d] \in {"funnel.truncate", "funnel.fill"} =>
                               accepted \subseteq loc'[d].records
                      /\ receipts # Torn /\ accepted \subseteq receipts
    BY <1>1 DEF Kept, Torn
  <2>1. \A d \in Clients \ {c} : pc[d] = "idle"
    BY <1>1, FunnelAlone
  <2>2. receipts # Torn /\ accepted \subseteq receipts
    BY <1>1, <2>1 DEF Kept
  <2>3. ASSUME NEW d \in Clients, pc'[d] \in {"funnel.truncate", "funnel.fill"}
        PROVE  accepted \subseteq loc'[d].records
    <3>1. d = c
      BY <1>5, <2>1, <2>3
    <3> QED
      BY <1>2, <1>4, <2>2, <3>1
  <2> QED
    BY <2>2, <2>3
<1> QED
  BY <1>5, <1>6

LEMMA TruncateKeeps ==
  ASSUME Funnels, Kept, NEW c \in Clients, TruncateReceipts(c)
  PROVE  Funnels' /\ Kept'
<1>1. /\ pc[c] = "funnel.truncate" /\ InFlight(c)
      /\ UNCHANGED <<area, served, met, cuts, accepted>> /\ receipts' = Torn
      /\ Goto(c, "funnel.fill", Nothing)
  BY DEF TruncateReceipts, At, history, limiterHistory, InFlight
<1>2. DOMAIN Nothing = {"calls"} /\ "funnel.fill" \in FunnelPC
  BY DEF Nothing, FunnelPC
<1>3. /\ "records" \in DOMAIN loc'[c] /\ loc'[c].records = loc[c].records
      /\ loc[c].n \in loc[c].records /\ loc[c].records \subseteq 1 .. served
  <2>1. /\ DOMAIN pc = Clients /\ DOMAIN loc = Clients /\ "records" \in DOMAIN loc[c]
        /\ loc[c].n \in loc[c].records /\ loc[c].records \subseteq 1 .. served
    BY <1>1 DEF Funnels, FunnelRequest
  <2> QED
    BY <1>1, <1>2, <2>1, RequestGoesOn
<1>4. /\ Funnels' /\ pc'[c] = "funnel.fill"
      /\ \A d \in Clients \ {c} : pc'[d] = pc[d] /\ loc'[d] = loc[d]
  BY <1>1, <1>2, <1>3, FunnelGoesOn
<1>5. Kept'
  <2> SUFFICES ASSUME {"funnel"} \notin met, "funnel" \notin cuts,
                      NEW d \in Clients, pc'[d] \in {"funnel.truncate", "funnel.fill"}
               PROVE  accepted \subseteq loc'[d].records
    BY <1>1, <1>4 DEF Kept
  <2>1. accepted \subseteq loc[d].records
    BY <1>1, <1>4 DEF Kept
  <2> QED
    BY <1>3, <1>4, <2>1
<1> QED
  BY <1>4, <1>5

\* The file is filled: the request is in it with everything accepted before.
LEMMA WriteReceiptsKeeps ==
  ASSUME area \in Areas, Funnels, Kept, NEW c \in Clients, WriteReceipts(c)
  PROVE  Funnels' /\ Kept'
<1>1. /\ pc[c] = "funnel.fill" /\ InFlight(c) /\ Respond(c)
      /\ UNCHANGED <<area, served, met, cuts>>
      /\ receipts' = loc[c].records /\ accepted' = accepted \cup {loc[c].n}
  BY DEF WriteReceipts, At, history, limiterHistory, InFlight, Number
<1>2. /\ loc[c].n \in loc[c].records /\ loc[c].records \subseteq 1 .. served
      /\ served \in 0 .. MaxRequests[area]
  BY <1>1 DEF Funnels, FunnelRequest
<1>3. receipts' # Torn
  <2>1. area \in DOMAIN MaxRequests
    BY PlatformAssumption
  <2>2. loc[c].records \in SUBSET (1 .. MaxRequests[area])
    BY <1>2, AreaBound
  <2> QED
    BY <1>1, <2>1, <2>2, IntakeAssumption DEF Torn
<1>4. /\ Funnels' /\ pc'[c] = "idle"
      /\ \A d \in Clients \ {c} : pc'[d] = pc[d] /\ loc'[d] = loc[d]
  <2>1. "idle" \in FunnelPC /\ DOMAIN Nothing = {"calls"}
    BY DEF FunnelPC, Nothing
  <2> QED
    BY <1>1, <1>2, <2>1, FunnelGoesOn
<1>5. Kept'
  <2> SUFFICES ASSUME {"funnel"} \notin met, "funnel" \notin cuts
               PROVE  /\ \A d \in Clients : pc'[d] \notin {"funnel.truncate", "funnel.fill"}
                      /\ accepted' \subseteq receipts'
    BY <1>1, <1>3 DEF Kept, Torn
  <2>1. \A d \in Clients \ {c} : pc[d] = "idle"
    BY <1>1, FunnelAlone
  <2>2. accepted \subseteq loc[c].records
    BY <1>1 DEF Kept
  <2> QED
    BY <1>1, <1>2, <1>4, <2>1, <2>2
<1> QED
  BY <1>4, <1>5

LEMMA FunnelCallKeeps ==
  ASSUME Funnels, Kept, NEW c \in Clients, StoreCall(c), UNCHANGED intakeVars
  PROVE  Funnels' /\ Kept'
<1> DEFINE rest == Tail(loc[c].calls)
           locals == [calls |-> rest]
           next == loc[c].next
<1>1. /\ pc[c] = "calling" /\ InFlight(c)
      /\ UNCHANGED <<area, served, met, cuts, receipts, accepted>>
  BY DEF StoreCall, At, history, intakeVars, InFlight
<1>2. /\ {"calls", "next"} \subseteq DOMAIN loc[c]
      /\ next \in {"funnel.org", "funnel.readReceipts"}
      /\ DOMAIN pc = Clients /\ DOMAIN loc = Clients
  BY <1>1 DEF Funnels, FunnelRequest
<1>3. /\ DOMAIN locals = {"calls"} /\ DOMAIN Nothing = {"calls"}
      /\ "idle" \in FunnelPC /\ "funnel.org" \in FunnelPC
      /\ "funnel.readReceipts" \in FunnelPC /\ "calling" \in FunnelPC
  BY DEF Nothing, FunnelPC
<1>4. Respond(c) \/ Goto(c, "calling", locals) \/ Goto(c, next, Nothing)
  BY DEF StoreCall
<1> HIDE DEF locals, rest
<1>5. CASE Respond(c)
  BY <1>1, <1>3, <1>5, FunnelMoves
<1>6. CASE Goto(c, "calling", locals)
  <2>1. DOMAIN loc'[c] = DOMAIN locals \cup DOMAIN loc[c] /\ loc'[c].next = next
    BY <1>2, <1>3, <1>6, RequestGoesOn
  <2> QED
    BY <1>1, <1>2, <1>3, <1>6, <2>1, FunnelMoves
<1>7. CASE Goto(c, next, Nothing)
  BY <1>1, <1>2, <1>3, <1>7, FunnelMoves
<1> QED
  BY <1>4, <1>5, <1>6, <1>7

LEMMA FunnelCutKeeps ==
  ASSUME Funnels, Kept, NEW c \in Clients, CutOff(c), UNCHANGED intakeVars
  PROVE  Funnels' /\ Kept'
<1>1. /\ Respond(c) /\ InFlight(c) /\ cuts' = cuts \cup {loc[c].op}
      /\ UNCHANGED <<area, served, met, receipts>>
  BY DEF CutOff, intakeVars
<1>2. /\ loc[c].op = "funnel"
      /\ receipts' = Torn \/ receipts' \subseteq 1 .. served
      /\ "idle" \in FunnelPC /\ DOMAIN Nothing = {"calls"}
  BY <1>1 DEF Funnels, FunnelRequest, FunnelPC, Nothing
<1>3. Funnels'
  BY <1>1, <1>2, FunnelGoesOn
<1> QED
  BY <1>1, <1>2, <1>3 DEF Kept

-----------------------------------------------------------------------------
(***************************************************************************)
(* The funnel: the theorem.                                                *)
(***************************************************************************)
LEMMA FunnelInitially == Init => FunnelInv
<1> SUFFICES ASSUME Init PROVE FunnelInv
  OBVIOUS
<1>1. PICK a \in Areas : \E seed \in Seeds[a] : RequestsInit(a, seed.rows)
  BY DEF Init
<1>2. /\ area = a /\ pc = [c \in Clients |-> "idle"] /\ loc = [c \in Clients |-> Empty]
      /\ served = 0 /\ receipts = {} /\ accepted = {}
  BY <1>1 DEF RequestsInit, Init, IntakeInit
<1>3. MaxRequests[area] \in Nat /\ area \in DOMAIN MaxRequests
  BY <1>2, AreaBound, PlatformAssumption
<1>4. receipts # Torn
  BY <1>2, <1>3, IntakeAssumption DEF Torn
<1>5. Funnels
  BY <1>2, <1>3 DEF Funnels, FunnelPC, InFlight
<1>6. Kept
  BY <1>2, <1>4 DEF Kept
<1> QED
  BY <1>2, <1>5, <1>6 DEF FunnelInv

LEMMA FunnelKept == FunnelInv /\ [Next]_vars => FunnelInv'
<1> SUFFICES ASSUME FunnelInv, [Next]_vars PROVE FunnelInv'
  OBVIOUS
<1>1. UNCHANGED area
  BY Frame
<1>2. CASE area # "funnel"
  BY <1>1, <1>2, FunnelFrame DEF FunnelInv
<1>3. CASE area = "funnel"
  <2>1. Funnels /\ Kept /\ area \in Areas
    BY <1>3 DEF FunnelInv
  <2>2. CASE UNCHANGED <<requestVars, receipts, accepted>>
    <3>1. UNCHANGED <<area, pc, loc, served, met, cuts, receipts, accepted>>
      BY <2>2 DEF requestVars
    <3>2. Funnels'
      BY <2>1, <3>1 DEF Funnels, FunnelRequest, InFlight, Torn
    <3>3. Kept'
      BY <2>1, <3>1 DEF Kept, Torn
    <3> QED
      BY <1>1, <1>3, <2>1, <3>2, <3>3 DEF FunnelInv
  <2> QED
    BY <1>1, <1>3, <2>1, <2>2, FunnelFrame, PostKeeps, LimitKeeps, RecordKeeps,
       ReadReceiptsKeeps, TruncateKeeps, WriteReceiptsKeeps, FunnelCallKeeps, FunnelCutKeeps
       DEF FunnelInv
<1> QED
  BY <1>2, <1>3

LEMMA FunnelPromised == FunnelInv => AcceptedIsKept
<1> SUFFICES ASSUME FunnelInv, ~Met({"funnel"}), "funnel" \notin cuts, NEW n \in accepted
             PROVE  \/ receipts # Torn /\ n \in receipts
                    \/ \E c \in Clients : pc[c] = "funnel.fill" /\ n \in loc[c].records
  BY DEF AcceptedIsKept
<1>1. area = "funnel" /\ Kept
  BY DEF FunnelInv
<1>2. {"funnel"} \notin met
  BY DEF Met
<1> QED
  BY <1>1, <1>2 DEF Kept

\* An accepted audit request is never silently dropped (api/audit-requests/route.ts):
\* however many requests come in and however long the file of receipts grows, each one
\* answered with 201 or 202 stays in the file, or in the hands of the request that is
\* about to write the file anew, unless two requests met or one was cut off.
THEOREM AcceptedStays == Spec => []AcceptedIsKept
<1>1. FunnelInv /\ [Next]_vars => FunnelInv'
  BY FunnelKept
<1> QED
  BY <1>1, FunnelInitially, FunnelPromised, PTL DEF Spec

-----------------------------------------------------------------------------
(***************************************************************************)
(* Areas are apart: the collections that requests of an area write, and    *)
(* those they remove rows from.                                            *)
(***************************************************************************)
WritesOf(a) ==
  CASE a = "accounts" -> {"users", "organizations", "memberships", "sessions",
                          "audit_logs", "notifications"}
    [] a = "signin" -> {"auth_attempts", "sessions", "audit_logs"}
    [] a = "funnel" -> {"rate_limit_buckets", "audits", "opportunities"}
    [] a = "commerce" -> {"opportunities", "clients", "projects", "audits", "audit_logs"}
    [] a = "knowledge" -> {"knowledge_sources", "documents", "document_chunks",
                           "ai_runs", "usage_records", "audit_logs"}
    [] a = "agents" -> {"agents", "agent_versions", "audit_logs"}
    [] a = "evals" -> {"eval_suites", "eval_cases", "eval_runs", "eval_results",
                       "ai_runs", "usage_records", "notifications", "audit_logs"}
    [] a = "nightly" -> {"reports", "notifications"}
    [] a = "vault" -> {"integrations", "notifications", "audit_logs"}
    [] a = "inbox" -> {"notifications"}
    [] a = "systems" -> {"systems", "automations", "automation_versions", "executions",
                         "agents", "audit_logs"}
    [] OTHER -> {}

RemovesOf(a) ==
  CASE a = "accounts" -> {"memberships"}
    [] a = "knowledge" -> {"knowledge_sources", "documents", "document_chunks"}
    [] a = "evals" -> {"eval_cases"}
    [] a = "systems" -> {"systems", "automations", "automation_versions"}
    [] OTHER -> {}

\* Calls that keep to the area.
Own(k) == /\ k.table \in WritesOf(area)
          /\ k.call = "remove" => k.table \in RemovesOf(area)
          /\ k.call \in {"insert", "update", "change", "upsert", "remove"}
OwnCalls(calls) == IsSequence(calls) /\ \A i \in DOMAIN calls : Own(calls[i])

\* Points at which a request is only when it has just been accepted, and that look at
\* what it was accepted with.
EntryPC == {"commerce.create", "commerce.move", "automation.read"}

IsRecord(r) == r = [f \in DOMAIN r |-> r[f]]

CallsInv ==
  /\ area \in Areas
  /\ DOMAIN pc = Clients /\ DOMAIN loc = Clients
  /\ \A c \in Clients : pc[c] = "calling" =>
        /\ {"calls", "next"} \subseteq DOMAIN loc[c]
        /\ loc[c].calls # <<>> /\ OwnCalls(loc[c].calls)
        /\ loc[c].next \notin EntryPC \cup {"calling"}
  /\ \A c \in Clients : pc[c] \in {"commerce.create", "commerce.move"} =>
        /\ "table" \in DOMAIN loc[c]
        /\ loc[c].table \in {"opportunities", "clients", "projects", "audits"}
  /\ \A c \in Clients : pc[c] = "automation.read" =>
        /\ "op" \in DOMAIN loc[c]
        /\ loc[c].op \in {"updateAutomation", "saveDefinition", "deleteAutomation", "run"}
  /\ \A t \in DOMAIN db : IsFiniteSet(db[t])
  /\ \A t \in DOMAIN db \ WritesOf(area) : \A r \in db[t] : IsRecord(r)
  /\ area = "knowledge" => "document_chunks" \in DOMAIN db

-----------------------------------------------------------------------------
LEMMA OwnNone == OwnCalls(<<>>)
<1>1. <<>> \in Seq({<<>>[i] : i \in DOMAIN <<>>})
  OBVIOUS
<1> QED
  BY <1>1 DEF OwnCalls, IsSequence

LEMMA OwnOne ==
  ASSUME NEW k, Own(k)
  PROVE  OwnCalls(<<k>>)
<1> DEFINE s == <<k>>
<1>1. s \in Seq({s[i] : i \in DOMAIN s})
  OBVIOUS
<1> QED
  BY <1>1 DEF OwnCalls, IsSequence

LEMMA SequenceIs ==
  ASSUME NEW s, NEW S, s \in Seq(S)
  PROVE  IsSequence(s)
<1> DEFINE R == {s[i] : i \in DOMAIN s}
<1>1. s \in [1 .. Len(s) -> S] /\ Len(s) \in Nat /\ DOMAIN s = 1 .. Len(s)
  OBVIOUS
<1>2. \A i \in 1 .. Len(s) : s[i] \in R
  BY <1>1
<1> HIDE DEF R
<1>3. s \in [1 .. Len(s) -> R]
  BY <1>1, <1>2
<1>4. s \in Seq(R)
  BY <1>1, <1>3
<1> QED
  BY <1>4 DEF IsSequence, R

LEMMA SequenceSpan ==
  ASSUME NEW s, IsSequence(s)
  PROVE  DOMAIN s = 1 .. Len(s) /\ Len(s) \in Nat
<1> DEFINE R == {s[i] : i \in DOMAIN s}
<1>1. s \in Seq(R)
  BY DEF IsSequence
<1> HIDE DEF R
<1> QED
  BY <1>1

LEMMA OwnCat ==
  ASSUME NEW s, NEW t, OwnCalls(s), OwnCalls(t)
  PROVE  OwnCalls(s \o t)
<1> DEFINE S == {s[i] : i \in DOMAIN s} \cup {t[i] : i \in DOMAIN t}
           u == s \o t
<1>1. s \in Seq(S) /\ t \in Seq(S)
  BY DEF OwnCalls, IsSequence
<1>a. \A i \in DOMAIN s : Own(s[i])
  BY DEF OwnCalls
<1>b. \A i \in DOMAIN t : Own(t[i])
  BY DEF OwnCalls
<1> HIDE DEF S
<1>2. u \in Seq(S) /\ Len(u) = Len(s) + Len(t) /\ Len(s) \in Nat /\ Len(t) \in Nat
  BY <1>1
<1>3. \A i \in DOMAIN u : \/ i \in DOMAIN s /\ u[i] = s[i]
                          \/ i - Len(s) \in DOMAIN t /\ u[i] = t[i - Len(s)]
  BY <1>1, <1>2
<1>4. IsSequence(u)
  BY <1>2, SequenceIs
<1> QED
  BY <1>3, <1>4, <1>a, <1>b DEF OwnCalls

LEMMA OwnMore ==
  ASSUME NEW s, NEW t, OwnCalls(s), OwnCalls(t), s # <<>> \/ t # <<>>
  PROVE  OwnCalls(s \o t) /\ s \o t # <<>>
<1> DEFINE S == {s[i] : i \in DOMAIN s} \cup {t[i] : i \in DOMAIN t}
<1>1. s \in Seq(S) /\ t \in Seq(S)
  BY DEF OwnCalls, IsSequence
<1> HIDE DEF S
<1>2. /\ Len(s) \in Nat /\ Len(t) \in Nat /\ Len(s \o t) = Len(s) + Len(t)
      /\ s # <<>> => Len(s) # 0
      /\ t # <<>> => Len(t) # 0
      /\ Len(<<>>) = 0
  BY <1>1
<1> QED
  BY <1>2, OwnCat

LEMMA OwnTwo ==
  ASSUME NEW j, NEW k, Own(j), Own(k)
  PROVE  OwnCalls(<<j, k>>)
<1>1. <<j, k>> \in Seq({j, k}) /\ DOMAIN <<j, k>> = 1 .. 2
  OBVIOUS
<1>2. \A m \in 1 .. 2 : <<j, k>>[m] = j \/ <<j, k>>[m] = k
  OBVIOUS
<1> QED
  BY <1>1, <1>2, SequenceIs DEF OwnCalls

LEMMA OwnThree ==
  ASSUME NEW i, NEW j, NEW k, Own(i), Own(j), Own(k)
  PROVE  OwnCalls(<<i, j, k>>)
<1>1. <<i, j, k>> \in Seq({i, j, k}) /\ DOMAIN <<i, j, k>> = 1 .. 3
  OBVIOUS
<1>2. \A m \in 1 .. 3 : <<i, j, k>>[m] = i \/ <<i, j, k>>[m] = j \/ <<i, j, k>>[m] = k
  OBVIOUS
<1> QED
  BY <1>1, <1>2, SequenceIs DEF OwnCalls

LEMMA OwnFour ==
  ASSUME NEW h, NEW i, NEW j, NEW k, Own(h), Own(i), Own(j), Own(k)
  PROVE  OwnCalls(<<h, i, j, k>>)
<1>1. <<h, i, j, k>> \in Seq({h, i, j, k}) /\ DOMAIN <<h, i, j, k>> = 1 .. 4
  OBVIOUS
<1>2. \A m \in 1 .. 4 : <<h, i, j, k>>[m] = h \/ <<h, i, j, k>>[m] = i \/ <<h, i, j, k>>[m] = j \/ <<h, i, j, k>>[m] = k
  OBVIOUS
<1> QED
  BY <1>1, <1>2, SequenceIs DEF OwnCalls

\* How a request goes on: it answers, goes to another point, or has calls to make.
Moves(c) ==
  \/ Respond(c)
  \/ \E where, locals : /\ Goto(c, where, locals) /\ where \notin EntryPC
                        /\ where = "calling" =>
                              /\ {"calls", "next"} \subseteq DOMAIN locals
                              /\ locals["calls"] # <<>> /\ OwnCalls(locals["calls"])
                              /\ locals["next"] \notin EntryPC \cup {"calling"}

LEMMA CallingMoves ==
  ASSUME NEW c \in Clients, NEW calls, NEW next, Calling(c, calls, next), OwnCalls(calls),
         next \notin EntryPC \cup {"calling"}
  PROVE  Moves(c)
<1> DEFINE locals == [calls |-> calls, next |-> next]
<1>1. /\ {"calls", "next"} \subseteq DOMAIN locals
      /\ locals["calls"] = calls /\ locals["next"] = next
  OBVIOUS
<1>2. "calling" \notin EntryPC
  BY DEF EntryPC
<1>3. Respond(c) \/ Goto(c, next, Nothing) \/ (calls # <<>> /\ Goto(c, "calling", locals))
  <2>1. CASE calls = <<>>
    <3>1. IF next = "idle" THEN Respond(c) ELSE Goto(c, next, Nothing)
      BY <2>1 DEF Calling
    <3> QED
      BY <3>1
  <2>2. CASE calls # <<>>
    BY <2>2 DEF Calling
  <2> QED
    BY <2>1, <2>2
<1> HIDE DEF locals
<1> QED
  BY <1>1, <1>2, <1>3 DEF Moves

LEMMA AnswerMoves == \A c : Respond(c) => Moves(c)
BY DEF Moves

LEMMA GotoMoves ==
  \A c, where, locals :
     Goto(c, where, locals) /\ where # "calling" /\ where \notin EntryPC => Moves(c)
BY DEF Moves

LEMMA MakeMoves ==
  ASSUME NEW c, NEW locals, Goto(c, "calling", locals),
         {"calls", "next"} \subseteq DOMAIN locals,
         locals["calls"] # <<>>, OwnCalls(locals["calls"]),
         locals["next"] \notin EntryPC \cup {"calling"}
  PROVE  Moves(c)
BY DEF Moves, EntryPC

LEMMA MovesKeep ==
  ASSUME CallsInv, NEW c \in Clients, Moves(c), UNCHANGED area,
         DOMAIN db' = DOMAIN db, \A t \in DOMAIN db' : IsFiniteSet(db'[t]),
         \A t \in DOMAIN db \ WritesOf(area) : db'[t] = db[t]
  PROVE  CallsInv'
<1>0. WritesOf(area)' = WritesOf(area) /\ (\A r : IsRecord(r)' <=> IsRecord(r))
  BY DEF WritesOf, IsRecord
<1>1. DOMAIN pc = Clients /\ DOMAIN loc = Clients
  BY DEF CallsInv
<1>2. CASE Respond(c)
  <2>1. /\ DOMAIN pc' = Clients /\ DOMAIN loc' = Clients /\ pc'[c] = "idle"
        /\ \A d \in Clients \ {c} : pc'[d] = pc[d] /\ loc'[d] = loc[d]
    BY <1>1, <1>2 DEF Respond
  <2> QED
    BY <1>0, <2>1 DEF CallsInv, EntryPC, OwnCalls, Own
<1>3. ASSUME NEW where, NEW locals, Goto(c, where, locals), where \notin EntryPC,
             where = "calling" => /\ {"calls", "next"} \subseteq DOMAIN locals
                                  /\ locals["calls"] # <<>> /\ OwnCalls(locals["calls"])
                                  /\ locals["next"] \notin EntryPC \cup {"calling"}
      PROVE  CallsInv'
  <2>1. /\ pc' = [pc EXCEPT ![c] = where] /\ DOMAIN loc' = Clients
        /\ DOMAIN loc'[c] = DOMAIN locals \cup DOMAIN loc[c]
        /\ \A f \in DOMAIN locals : loc'[c][f] = locals[f]
        /\ \A d \in Clients \ {c} : loc'[d] = loc[d]
    BY <1>1, <1>3, RequestGoesOn
  <2>2. DOMAIN pc' = Clients /\ pc'[c] = where /\ \A d \in Clients \ {c} : pc'[d] = pc[d]
    BY <1>1, <2>1
  <2>3. where = "calling" => /\ {"calls", "next"} \subseteq DOMAIN loc'[c]
                             /\ loc'[c]["calls"] = locals["calls"]
                             /\ loc'[c]["next"] = locals["next"]
    BY <1>3, <2>1
  <2>4. \A s : OwnCalls(s)' <=> OwnCalls(s)
    BY DEF OwnCalls, Own
  <2>5. \A d \in Clients : pc'[d] = "calling" =>
           /\ {"calls", "next"} \subseteq DOMAIN loc'[d]
           /\ loc'[d].calls # <<>> /\ OwnCalls(loc'[d].calls)
           /\ loc'[d].next \notin EntryPC \cup {"calling"}
    BY <1>3, <2>1, <2>2, <2>3 DEF CallsInv
  <2>6. \A d \in Clients : pc'[d] \in EntryPC => pc'[d] = pc[d] /\ loc'[d] = loc[d]
    BY <1>3, <2>1, <2>2
  <2>7. \A d \in Clients : pc'[d] \in {"commerce.create", "commerce.move"} =>
          /\ "table" \in DOMAIN loc'[d]
          /\ loc'[d].table \in {"opportunities", "clients", "projects", "audits"}
    BY <2>6 DEF CallsInv, EntryPC
  <2>8. \A d \in Clients : pc'[d] = "automation.read" =>
          /\ "op" \in DOMAIN loc'[d]
          /\ loc'[d].op \in {"updateAutomation", "saveDefinition", "deleteAutomation", "run"}
    BY <2>6 DEF CallsInv, EntryPC
  <2> QED
    BY <1>0, <2>1, <2>2, <2>4, <2>5, <2>7, <2>8 DEF CallsInv
<1> QED
  BY <1>2, <1>3 DEF Moves

-----------------------------------------------------------------------------
\* What each kind of call needs.
LEMMA OwnKinds ==
  /\ \A t, row : t \in WritesOf(area) => Own(Inserting(t, row))
  /\ \A t, row : t \in WritesOf(area) => Own(Upserting(t, row))
  /\ \A t, id, row : t \in WritesOf(area) => Own(Updating(t, id, row))
  /\ \A t, id, row : t \in WritesOf(area) => Own(Changing(t, id, row))
  /\ \A t, id : t \in WritesOf(area) /\ t \in RemovesOf(area) => Own(Removing(t, id))
BY DEF Own, Inserting, Upserting, Updating, Changing, Removing

-----------------------------------------------------------------------------
(***************************************************************************)
(* Collections are finite.                                                 *)
(***************************************************************************)
LEMMA FiniteImage ==
  ASSUME NEW S, IsFiniteSet(S), NEW f, f = [x \in S |-> f[x]]
  PROVE  IsFiniteSet({f[x] : x \in S})
<1> DEFINE T == {f[x] : x \in S}
<1>1. f \in Surjection(S, T)
  BY DEF Surjection
<1> QED
  BY <1>1, FS_Surjection

LEMMA UpdateKeepsFinite ==
  ASSUME NEW t \in DOMAIN db, NEW u, NEW id, NEW patch, IsFiniteSet(db[t])
  PROVE  IsFiniteSet(UpdateRow(u, id, patch)[t])
<1> DEFINE f == [r \in db[t] |-> IF r.id = id THEN Over(patch, r) ELSE r]
<1>1. UpdateRow(u, id, patch)[t] = db[t] \/ UpdateRow(u, id, patch)[t] = {f[r] : r \in db[t]}
  BY DEF UpdateRow
<1>2. f = [r \in db[t] |-> f[r]]
  OBVIOUS
<1> HIDE DEF f
<1>3. IsFiniteSet({f[r] : r \in db[t]})
  BY <1>2, FiniteImage
<1> QED
  BY <1>1, <1>3

LEMMA CallKeepsFinite ==
  ASSUME NEW c \in Clients, StoreCall(c), \A t \in DOMAIN db : IsFiniteSet(db[t])
  PROVE  \A t \in DOMAIN db' : IsFiniteSet(db'[t])
<1> DEFINE k == Head(loc[c].calls)
<1>1. \/ db' = db
      \/ db' = InsertRow(k.table, k.row)
      \/ db' = UpdateRow(k.table, k.id, k.row)
      \/ db' = UpsertRow(k.table, k.row)
      \/ db' = RemoveRow(k.table, k.id)
  BY DEF StoreCall
<1> HIDE DEF k
<1> SUFFICES ASSUME NEW t \in DOMAIN db PROVE IsFiniteSet(db'[t])
  BY CallKeepsTables
<1>2. CASE db' = InsertRow(k.table, k.row)
  <2>1. db'[t] = db[t] \/ db'[t] = db[t] \cup {k.row}
    BY <1>2 DEF InsertRow
  <2> QED
    BY <2>1, FS_AddElement
<1>3. CASE db' = UpdateRow(k.table, k.id, k.row)
  BY <1>3, UpdateKeepsFinite
<1>4. CASE db' = UpsertRow(k.table, k.row)
  <2>1. db'[t] = db[t] \/ db'[t] = {r \in db[t] : r.id # k.row.id} \cup {k.row}
    BY <1>4 DEF UpsertRow
  <2> DEFINE others == {r \in db[t] : r.id # k.row.id}
  <2>2. IsFiniteSet(others)
    BY FS_Subset
  <2> HIDE DEF others
  <2>3. IsFiniteSet(others \cup {k.row})
    BY <2>2, FS_AddElement
  <2> QED
    BY <2>1, <2>3 DEF others
<1>5. CASE db' = RemoveRow(k.table, k.id)
  <2> DEFINE gone == Removed(k.table, k.id)
             stay == {s \in db[t] : <<t, s>> \notin gone}
             f == [r \in stay |-> IF postgres THEN Cleared(r, t, gone) ELSE r]
  <2>1. db'[t] = {f[r] : r \in stay}
    <3>1. db'[t] = {IF postgres THEN Cleared(r, t, gone) ELSE r : r \in stay}
      BY <1>5 DEF RemoveRow
    <3> QED
      BY <3>1
  <2>2. IsFiniteSet(stay) /\ f = [r \in stay |-> f[r]]
    BY FS_Subset
  <2> HIDE DEF f, stay
  <2>3. IsFiniteSet({f[r] : r \in stay})
    BY <2>2, FiniteImage
  <2> QED
    BY <2>1, <2>3
<1> QED
  BY <1>1, <1>2, <1>3, <1>4, <1>5

\* Of sets within a finite one, some set has no other of them within it.
LEMMA SmallestSet ==
  ASSUME NEW S, IsFiniteSet(S), NEW B, B \subseteq SUBSET S, B # {}
  PROVE  \E T \in B : \A U \in B : U \subseteq T => U = T
<1> DEFINE R == StrictSubsetOrdering(S)
<1>1. IsWellFoundedOn(R, SUBSET S)
  BY FS_StrictSubsetOrderingWellFounded, FS_FiniteSubsetsOfFinite
<1> HIDE DEF R
<1>2. \E T \in B : \A U \in B : ~(<<U, T>> \in R)
  BY <1>1, WFMin
<1> QED
  BY <1>2 DEF R, StrictSubsetOrdering

\* Of finitely many numbers one is the least.
HasLeast(S) == \E m \in S : \A n \in S : m <= n

LEMMA LeastOfNumbers ==
  ASSUME NEW S, IsFiniteSet(S), S \subseteq Int, S # {}
  PROVE  HasLeast(S)
<1> SUFFICES ASSUME ~HasLeast(S) PROVE FALSE
  OBVIOUS
<1>1. PICK B : B = {T \in SUBSET S : T # {} /\ ~HasLeast(T)}
  OBVIOUS
<1>2. B \subseteq SUBSET S /\ B # {} /\ \A T : T \in B <=> T \subseteq S /\ T # {} /\ ~HasLeast(T)
  BY <1>1
<1>3. PICK T \in B : \A U \in B : U \subseteq T => U = T
  <2>1. B \subseteq SUBSET S /\ B # {} /\ IsFiniteSet(S)
    BY <1>2
  <2> QED
    BY ONLY <2>1, SmallestSet, SMTT(30)
<1>4. PICK x \in T : TRUE
  BY <1>2
<1> DEFINE U == T \ {x}
<1>5. U # {}
  <2> SUFFICES ASSUME T = {x} PROVE FALSE
    BY <1>4
  <2>1. x \in Int
    BY <1>2, <1>4
  <2> QED
    BY <1>2, <2>1 DEF HasLeast
<1>6. HasLeast(U)
  BY <1>2, <1>3, <1>4, <1>5
<1>7. PICK m \in U : \A n \in U : m <= n
  BY <1>6 DEF HasLeast
<1>8. m \in Int /\ x \in Int /\ \A n \in T : n \in Int
  BY <1>2, <1>4, <1>7
<1>9. \A n \in T : n = x \/ m <= n
  BY <1>7
<1>10. CASE m <= x
  <2>1. \A n \in T : m <= n
    BY <1>9, <1>10
  <2> QED
    BY <1>2, <1>7, <2>1 DEF HasLeast
<1>11. CASE x <= m
  <2>1. \A n \in T : x <= n
    BY <1>8, <1>9, <1>11
  <2> QED
    BY <1>2, <1>4, <2>1 DEF HasLeast
<1> QED
  BY <1>8, <1>10, <1>11

-----------------------------------------------------------------------------
\* What the requests put together of several calls.
LEMMA AddingIsOwn ==
  ASSUME {"documents", "document_chunks"} \subseteq WritesOf(area), NEW source, NEW document,
         NEW chunks \in Chunks
  PROVE  OwnCalls(AddingDocument(source, document, chunks))
<1> DEFINE first == [i \in 1 .. chunks |->
                       Inserting("document_chunks", ChunkRow(document, i))]
           S == {Inserting("document_chunks", ChunkRow(document, i)) : i \in 1 .. chunks}
<1>1. chunks \in Nat
  BY KnowledgeAssumption
<1>2. first \in Seq(S) /\ DOMAIN first = 1 .. chunks
  BY <1>1
<1>3. \A i \in 1 .. chunks : Own(first[i])
  BY OwnKinds
<1> HIDE DEF first, S
<1>4. OwnCalls(first)
  BY <1>2, <1>3, SequenceIs DEF OwnCalls
<1>5. ASSUME NEW row PROVE OwnCalls(<<Inserting("documents", row)>>)
  BY OwnKinds, OwnOne
<1> QED
  BY <1>4, <1>5, OwnCat DEF AddingDocument, first

\* A document's chunks are finitely many.
LEMMA ChunksAreListed ==
  ASSUME CallsInv, area = "knowledge", NEW document
  PROVE  \E n \in Nat : DOMAIN ChunkList(document) = 1 .. n
<1> DEFINE n == Cardinality({k.ordinal : k \in ChunksOf(document)})
<1>1. n \in Nat
  <2>1. IsFiniteSet(db["document_chunks"])
    BY DEF CallsInv
  <2>2. IsFiniteSet(ChunksOf(document))
    BY <2>1, FS_Subset DEF ChunksOf
  <2> DEFINE f == [k \in ChunksOf(document) |-> k.ordinal]
  <2>3. IsFiniteSet({f[k] : k \in ChunksOf(document)})
    BY <2>2, FiniteImage
  <2> QED
    BY <2>3, FS_CardinalityType
<1>2. DOMAIN ChunkList(document) = 1 .. n
  BY DEF ChunkList
<1> QED
  BY <1>1, <1>2

LEMMA RemovingIsOwn ==
  ASSUME CallsInv, area = "knowledge",
         {"documents", "document_chunks"} \subseteq WritesOf(area),
         {"documents", "document_chunks"} \subseteq RemovesOf(area), NEW document
  PROVE  /\ OwnCalls(RemovingDocument(document, ChunkList(document)))
         /\ RemovingDocument(document, ChunkList(document)) # <<>>
<1> DEFINE chunks == ChunkList(document)
           first == [i \in DOMAIN chunks |-> Removing("document_chunks", chunks[i])]
<1>1. PICK n \in Nat : DOMAIN chunks = 1 .. n
  BY ChunksAreListed
<1> DEFINE S == {Removing("document_chunks", chunks[i]) : i \in 1 .. n}
<1> HIDE DEF chunks
<1>3. first \in Seq(S) /\ DOMAIN first = 1 .. n
  BY <1>1
<1>4. \A i \in 1 .. n : Own(first[i])
  BY <1>1, OwnKinds
<1> HIDE DEF first, S
<1>5. OwnCalls(first)
  BY <1>3, <1>4, SequenceIs DEF OwnCalls
<1>6. OwnCalls(<<Removing("documents", document)>>) /\ <<Removing("documents", document)>> # <<>>
  BY OwnKinds, OwnOne
<1>7. /\ OwnCalls(first \o <<Removing("documents", document)>>)
      /\ first \o <<Removing("documents", document)>> # <<>>
  BY <1>5, <1>6, OwnMore
<1> QED
  BY <1>7 DEF RemovingDocument, first, chunks

LEMMA RecordIsOwn ==
  ASSUME {"ai_runs", "usage_records"} \subseteq WritesOf(area), NEW c, NEW j, NEW agent,
         NEW status
  PROVE  OwnCalls(RecordAiRun(c, j, agent, status)) /\ RecordAiRun(c, j, agent, status) # <<>>
BY OwnKinds, OwnNone, OwnOne, OwnMore DEF RecordAiRun

LEMMA ScoreMoves ==
  ASSUME {"ai_runs", "usage_records", "eval_results"} \subseteq WritesOf(area), NEW c, NEW j,
         NEW agent, NEW status, NEW result,
         Score(c, RecordAiRun(c, j, agent, status), result)
  PROVE  Moves(c)
<1>1. OwnCalls(RecordAiRun(c, j, agent, status)) /\ RecordAiRun(c, j, agent, status) # <<>>
  BY RecordIsOwn
<1>2. ASSUME NEW row
      PROVE  /\ OwnCalls(RecordAiRun(c, j, agent, status) \o <<Inserting("eval_results", row)>>)
             /\ RecordAiRun(c, j, agent, status) \o <<Inserting("eval_results", row)>> # <<>>
  BY <1>1, OwnKinds, OwnOne, OwnMore
<1>3. ASSUME NEW cases, NEW passed, NEW failed, NEW n, NEW calls, OwnCalls(calls), calls # <<>>,
             Goto(c, "calling",
                  [cases |-> cases, passed |-> passed, failed |-> failed, calls |-> calls,
                   next |-> "run.answer", j |-> n])
      PROVE  Moves(c)
  BY <1>3, MakeMoves DEF EntryPC
<1> QED
  BY <1>2, <1>3 DEF Score

\* Whoever loads the key goes on with what it was loaded for.
LEMMA VaultUse ==
  ASSUME VaultInv, area = "vault", NEW c \in Clients,
         pc[c] \in {"vault.load", "vault.read", "vault.truncate", "vault.fill"}
  PROVE  loc[c].use \in {"vault.seal", "vault.open"}
BY DEF VaultInv, Vaults, VaultRequest, Loading, InFlight

LEMMA AccountsMove ==
  ASSUME CallsInv, NEW c \in Clients, AccountsStep(c)
  PROVE  Moves(c)
<1> USE OwnKinds, OwnNone, OwnOne, OwnTwo, OwnThree, OwnFour, OwnCat, CallingMoves,
       AnswerMoves, GotoMoves, MakeMoves DEF EntryPC, Auditing, Notifying
<1>1. CASE /\ area = "signin"
           /\ ReadAttempt(c) \/ WrongPassword(c) \/ RightPassword(c)
  <2>0. /\ {"auth_attempts", "sessions", "audit_logs"} \subseteq WritesOf(area)
    BY <1>1 DEF WritesOf, RemovesOf
  <2>1. CASE ReadAttempt(c)
    BY <2>0, <2>1 DEF ReadAttempt
  <2>2. CASE WrongPassword(c)
    BY <2>0, <2>2 DEF WrongPassword, NewAttempt
  <2>3. CASE RightPassword(c)
    BY <2>0, <2>3 DEF RightPassword, NewAttempt, NewSession
  <2> QED
    BY <1>1, <2>1, <2>2, <2>3
<1>2. CASE /\ area = "accounts"
           /\ \/ CheckEmail(c) \/ ChooseSlug(c) \/ DestroySession(c)
              \/ FindInvited(c) \/ AddMember(c) \/ ReadMember(c)
              \/ CountOwners(c) \/ WriteMember(c) \/ SetSandboxMode(c)
  <2>0. /\ {"users", "organizations", "memberships", "sessions", "audit_logs", "notifications"} \subseteq WritesOf(area)
        /\ {"memberships"} \subseteq RemovesOf(area)
    BY <1>2 DEF WritesOf, RemovesOf
  <2>1. CASE CheckEmail(c)
    BY <2>0, <2>1 DEF CheckEmail
  <2>2. CASE ChooseSlug(c)
    <3>1. ASSUME NEW n, Goto(c, "signUp.slug", [suffix |-> n]) PROVE Moves(c)
      BY <3>1
    <3>2. ASSUME NEW organization, NEW membership,
                 Calling(c, <<Inserting("organizations", organization),
                              Inserting("memberships", membership),
                              Auditing(c, "user.sign_up", Number(c)),
                              NewSession(c, Number(c))>>, "idle")
          PROVE  Moves(c)
      BY <2>0, <3>2 DEF NewSession
    <3> QED
      BY <2>2, <3>1, <3>2 DEF ChooseSlug
  <2>3. CASE DestroySession(c)
    BY <2>0, <2>3 DEF DestroySession
  <2>4. CASE FindInvited(c)
    <3>1. ASSUME NEW u, Goto(c, "invite.member", [about |-> u.id]) PROVE Moves(c)
      BY <3>1
    <3> QED
      BY <2>4, <3>1 DEF FindInvited
  <2>5. CASE AddMember(c)
    BY <2>0, <2>5 DEF AddMember
  <2>6. CASE ReadMember(c)
    <3>1. ASSUME NEW m, \/ Goto(c, "member.owners", [about |-> m.userId])
                        \/ Goto(c, "member.write", [about |-> m.userId])
          PROVE  Moves(c)
      BY <3>1
    <3> QED
      BY <2>6, <3>1 DEF ReadMember
  <2>7. CASE CountOwners(c)
    BY <2>0, <2>7 DEF CountOwners
  <2>8. CASE WriteMember(c)
    BY <2>0, <2>8 DEF WriteMember
  <2>9. CASE SetSandboxMode(c)
    BY <2>0, <2>9 DEF SetSandboxMode
  <2> QED
    BY <1>2, <2>1, <2>2, <2>3, <2>4, <2>5, <2>6, <2>7, <2>8, <2>9
<1> QED
  BY <1>1, <1>2 DEF AccountsStep

LEMMA IntakeMove ==
  ASSUME CallsInv, NEW c \in Clients, IntakeStep(c)
  PROVE  Moves(c)
<1> USE OwnKinds, OwnNone, OwnOne, OwnTwo, OwnThree, OwnFour, OwnCat, CallingMoves,
       AnswerMoves, GotoMoves, MakeMoves DEF EntryPC, Auditing, Notifying
<1>1. CASE /\ area = "funnel"
           /\ \/ CheckMemory(c) \/ CheckShared(c) \/ RecordRequest(c)
              \/ ReadReceipts(c) \/ TruncateReceipts(c) \/ WriteReceipts(c)
  <2>0. /\ {"rate_limit_buckets", "audits", "opportunities"} \subseteq WritesOf(area)
    BY <1>1 DEF WritesOf, RemovesOf
  <2>1. CASE CheckMemory(c)
    BY <2>0, <2>1 DEF CheckMemory, Refuse
  <2>2. CASE CheckShared(c)
    <3>1. ASSUME NEW row, Calling(c, <<Upserting("rate_limit_buckets", row)>>, "funnel.org")
          PROVE  Moves(c)
      BY <2>0, <3>1
    <3> QED
      BY <2>2, <3>1 DEF CheckShared
  <2>3. CASE RecordRequest(c)
    <3>1. ASSUME NEW org, NEW audit, NEW opportunity,
                 Goto(c, "calling",
                      [org |-> org, next |-> "funnel.readReceipts",
                       calls |-> <<Inserting("audits", audit),
                                   Inserting("opportunities", opportunity)>>])
          PROVE  Moves(c)
      <4>1. OwnCalls(<<Inserting("audits", audit), Inserting("opportunities", opportunity)>>)
        BY <2>0
      <4> QED
        BY <3>1, <4>1
    <3> QED
      BY <2>3, <3>1 DEF RecordRequest
  <2>4. CASE ReadReceipts(c)
    BY <2>0, <2>4 DEF ReadReceipts
  <2>5. CASE TruncateReceipts(c)
    BY <2>0, <2>5 DEF TruncateReceipts
  <2>6. CASE WriteReceipts(c)
    BY <2>0, <2>6 DEF WriteReceipts
  <2> QED
    BY <1>1, <2>1, <2>2, <2>3, <2>4, <2>5, <2>6
<1>2. CASE /\ area = "commerce"
           /\ InsertRecord(c) \/ UpdateRecord(c)
  <2>0. /\ {"opportunities", "clients", "projects", "audits", "audit_logs"} \subseteq WritesOf(area)
    BY <1>2 DEF WritesOf, RemovesOf
  <2>1. CASE InsertRecord(c)
    BY <2>0, <2>1 DEF InsertRecord, CallsInv, At
  <2>2. CASE UpdateRecord(c)
    BY <2>0, <2>2 DEF UpdateRecord, CallsInv, At
  <2> QED
    BY <1>2, <2>1, <2>2
<1> QED
  BY <1>1, <1>2 DEF IntakeStep

LEMMA KnowledgeMove ==
  ASSUME CallsInv, NEW c \in Clients, KnowledgeStep(c)
  PROVE  Moves(c)
<1> USE OwnKinds, OwnNone, OwnOne, OwnTwo, OwnThree, OwnFour, OwnCat, CallingMoves,
       AnswerMoves, GotoMoves, MakeMoves DEF EntryPC, Auditing, Notifying
<1>1. CASE /\ area = "knowledge"
           /\ \/ InsertSource(c) \/ AddDocument(c) \/ Retrieve(c) \/ ReadDocument(c)
              \/ RemoveDocument(c) \/ Probe(c) \/ FindStrategySource(c)
              \/ ListDocuments(c) \/ DeleteSource(c) \/ CreateStrategySource(c)
              \/ CompleteDocument(c) \/ AddStrategyDocument(c)
  <2>0. /\ {"knowledge_sources", "documents", "document_chunks", "ai_runs", "usage_records", "audit_logs"} \subseteq WritesOf(area)
        /\ {"knowledge_sources", "documents", "document_chunks"} \subseteq RemovesOf(area)
    BY <1>1 DEF WritesOf, RemovesOf
  <2>1. CASE InsertSource(c)
    BY <2>0, <2>1 DEF InsertSource, NewSource
  <2>2. CASE AddDocument(c)
    <3>1. ASSUME NEW chunks \in Chunks PROVE
            OwnCalls(AddingDocument(loc[c].source, 10 * Number(c), chunks)
                     \o IF loc[c].logged
                        THEN <<Auditing(c, "knowledge.document_added", Number(c))>>
                        ELSE <<>>)
      BY <2>0, AddingIsOwn
    <3>2. ASSUME NEW calls, OwnCalls(calls), Calling(c, calls, "idle") PROVE Moves(c)
      BY <3>2
    <3> QED
      BY <2>2, <3>1, <3>2 DEF AddDocument
  <2>3. CASE ReadDocument(c)
    BY <2>0, <2>3 DEF ReadDocument
  <2>4. CASE RemoveDocument(c)
    <3>1. OwnCalls(RemovingDocument(loc[c].document, ChunkList(loc[c].document)))
      BY <1>1, <2>0, RemovingIsOwn
    <3> QED
      BY <2>4, <3>1 DEF RemoveDocument
  <2>5. CASE Probe(c)
    <3>1. ASSUME NEW status, Calling(c, RecordAiRun(c, 0, None, status), "strategy.find")
          PROVE  Moves(c)
      BY <2>0, <3>1, RecordIsOwn
    <3> QED
      BY <2>0, <2>5, <3>1 DEF Probe, RunAgentCompletion, StrategyLogged
  <2>6. CASE FindStrategySource(c)
    <3>1. ASSUME NEW s, Goto(c, "strategy.documents", [source |-> s.id]) PROVE Moves(c)
      BY <3>1
    <3> QED
      BY <2>6, <3>1 DEF FindStrategySource
  <2>7. CASE ListDocuments(c)
    BY <2>0, <2>7 DEF ListDocuments
  <2>8. CASE DeleteSource(c)
    <3>1. ASSUME NEW docs, NEW d,
                 Goto(c, "calling", [docs |-> docs, next |-> "strategy.delete",
                                     calls |-> RemovingDocument(d, ChunkList(d))])
          PROVE  Moves(c)
      <4>1. /\ OwnCalls(RemovingDocument(d, ChunkList(d)))
            /\ RemovingDocument(d, ChunkList(d)) # <<>>
        BY <1>1, <2>0, RemovingIsOwn
      <4> QED
        BY <3>1, <4>1
    <3> QED
      BY <2>0, <2>8, <3>1 DEF DeleteSource
  <2>9. CASE CreateStrategySource(c)
    <3>1. ASSUME NEW row, NEW marking,
                 marking \in {<<>>, <<Updating("knowledge_sources", Number(c), [kind |-> "web"])>>},
                 Goto(c, "calling",
                      [source |-> Number(c), next |-> "strategy.complete",
                       calls |-> <<Inserting("knowledge_sources", row)>> \o marking])
          PROVE  Moves(c)
      <4> DEFINE calls == <<Inserting("knowledge_sources", row)>> \o marking
                 locals == [source |-> Number(c), next |-> "strategy.complete",
                            calls |-> calls]
      <4>1. OwnCalls(calls) /\ calls # <<>>
        BY <2>0, <3>1, OwnMore
      <4> HIDE DEF calls
      <4>2. /\ {"calls", "next"} \subseteq DOMAIN locals
            /\ locals["calls"] = calls /\ locals["next"] = "strategy.complete"
        OBVIOUS
      <4>3. Goto(c, "calling", locals)
        BY <3>1 DEF calls
      <4> HIDE DEF locals
      <4> QED
        BY <4>1, <4>2, <4>3
    <3> QED
      BY <2>9, <3>1 DEF CreateStrategySource, NewSource
  <2>10. CASE CompleteDocument(c)
    <3>1. ASSUME NEW j, NEW status, NEW next \in {"strategy.add", "strategy.complete"},
                 Goto(c, "calling", [j |-> j, calls |-> RecordAiRun(c, j, None, status),
                                     next |-> next])
          PROVE  Moves(c)
      <4>1. OwnCalls(RecordAiRun(c, j, None, status)) /\ RecordAiRun(c, j, None, status) # <<>>
        BY <2>0, RecordIsOwn
      <4> QED
        BY <3>1, <4>1
    <3>2. ASSUME Calling(c, <<StrategyLogged(c)>>, "idle") PROVE Moves(c)
      BY <2>0, <3>2 DEF StrategyLogged
    <3>3. ASSUME NEW status,
                 Goto(c, "calling",
                      [j |-> loc[c].j + 1,
                       calls |-> RecordAiRun(c, loc[c].j + 1, None, status),
                       next |-> IF status = "completed" THEN "strategy.add"
                                                        ELSE "strategy.complete"])
          PROVE  Moves(c)
      BY <3>1, <3>3
    <3> QED
      BY <2>10, <3>2, <3>3 DEF CompleteDocument
  <2>11. CASE AddStrategyDocument(c)
    <3>1. ASSUME NEW document, NEW chunks \in Chunks,
                 Calling(c, AddingDocument(loc[c].source, document, chunks),
                         "strategy.complete")
          PROVE  Moves(c)
      BY <2>0, <3>1, AddingIsOwn
    <3> QED
      BY <2>11, <3>1 DEF AddStrategyDocument
  <2>12. CASE Retrieve(c)
    BY <2>12 DEF Retrieve
  <2> QED
    BY <1>1, <2>1, <2>2, <2>3, <2>4, <2>5, <2>6, <2>7, <2>8, <2>9, <2>10, <2>11, <2>12
<1> QED
  BY <1>1 DEF KnowledgeStep

LEMMA AgentsMove ==
  ASSUME NEW c \in Clients, AgentsStep(c)
  PROVE  Moves(c)
<1> USE OwnKinds, OwnNone, OwnOne, OwnTwo, OwnThree, OwnFour, OwnCat, CallingMoves,
       AnswerMoves, GotoMoves, MakeMoves DEF EntryPC, Auditing, Notifying
<1>1. CASE /\ area = "agents"
           /\ \/ InsertAgent(c) \/ ReadAgent(c) \/ SaveAgentVersion(c)
              \/ SetAgentStatus(c) \/ ReadFleet(c) \/ SeedNext(c)
  <2>0. /\ {"agents", "agent_versions", "audit_logs"} \subseteq WritesOf(area)
    BY <1>1 DEF WritesOf, RemovesOf
  <2>1. CASE InsertAgent(c)
    BY <2>0, <2>1 DEF InsertAgent, CreatingAgent, NewVersion
  <2>2. CASE ReadAgent(c)
    BY <2>0, <2>2 DEF ReadAgent
  <2>3. CASE SaveAgentVersion(c)
    BY <2>0, <2>3 DEF SaveAgentVersion, SavingVersion, NewVersion
  <2>4. CASE SetAgentStatus(c)
    BY <2>0, <2>4 DEF SetAgentStatus
  <2>5. CASE ReadFleet(c)
    BY <2>0, <2>5 DEF ReadFleet
  <2>6. CASE SeedNext(c)
    <3>1. ASSUME NEW k, CreateMissing(c, k) PROVE Moves(c)
      <4>1. /\ OwnCalls(CreatingAgent(c, FleetId(c, k), FleetTemplates[k]))
            /\ CreatingAgent(c, FleetId(c, k), FleetTemplates[k]) # <<>>
        BY <2>0 DEF CreatingAgent, NewVersion
      <4> QED
        BY <3>1, <4>1 DEF CreateMissing
    <3> QED
      BY <2>0, <2>6, <3>1 DEF SeedNext
  <2> QED
    BY <1>1, <2>1, <2>2, <2>3, <2>4, <2>5, <2>6
<1> QED
  BY <1>1 DEF AgentsStep

LEMMA EvalsMove ==
  ASSUME CallsInv, NEW c \in Clients, EvalsStep(c)
  PROVE  Moves(c)
<1> USE OwnKinds, OwnNone, OwnOne, OwnTwo, OwnThree, OwnFour, OwnCat, CallingMoves,
       AnswerMoves, GotoMoves, MakeMoves DEF EntryPC, Auditing, Notifying
<1>1. CASE /\ area = "evals"
           /\ \/ CheckSuiteAgent(c) \/ InsertCase(c) \/ ReadCaseSuite(c)
              \/ RemoveCase(c) \/ ReadSuite(c) \/ StartRun(c)
              \/ Answer(c) \/ Judge(c) \/ FinishRun(c)
  <2>0. /\ {"eval_suites", "eval_cases", "eval_runs", "eval_results", "ai_runs", "usage_records", "notifications", "audit_logs"} \subseteq WritesOf(area)
        /\ {"eval_cases"} \subseteq RemovesOf(area)
    BY <1>1 DEF WritesOf, RemovesOf
  <2>1. CASE CheckSuiteAgent(c)
    BY <2>0, <2>1 DEF CheckSuiteAgent, NewSuite
  <2>2. CASE InsertCase(c)
    BY <2>0, <2>2 DEF InsertCase
  <2>3. CASE ReadCaseSuite(c)
    BY <2>0, <2>3 DEF ReadCaseSuite
  <2>4. CASE RemoveCase(c)
    BY <2>0, <2>4 DEF RemoveCase
  <2>5. CASE ReadSuite(c)
    <3>1. ASSUME NEW s, Goto(c, "run.cases", [scorer |-> s.scorer, agent |-> s.agentId])
          PROVE  Moves(c)
      BY <3>1
    <3> QED
      BY <2>5, <3>1 DEF ReadSuite
  <2>6. CASE StartRun(c)
    <3> DEFINE total == Cardinality({k.id : k \in CasesOf(loc[c].suite)})
               blocked == <<NewRun(c, "blocked", total, TRUE)>>
               started == <<NewRun(c, "completed", total, FALSE)>>
               locals == [cases |-> {k.id : k \in CasesOf(loc[c].suite)},
                          passed |-> 0, failed |-> 0, j |-> 0,
                          calls |-> started, next |-> "run.answer"]
    <3>1. OwnCalls(started) /\ OwnCalls(blocked) /\ started # <<>>
      BY <2>0 DEF NewRun
    <3>2. OwnCalls(SuiteRunReported(c))
      BY <2>0 DEF SuiteRunReported
    <3>3. \/ Calling(c, blocked \o SuiteRunReported(c), "idle")
          \/ Goto(c, "calling", locals)
      BY <2>6 DEF StartRun
    <3> HIDE DEF started, blocked
    <3>4. /\ {"calls", "next"} \subseteq DOMAIN locals
          /\ locals["calls"] = started /\ locals["next"] = "run.answer"
      OBVIOUS
    <3> HIDE DEF locals
    <3>5. OwnCalls(blocked \o SuiteRunReported(c))
      BY <3>1, <3>2
    <3> QED
      BY <3>1, <3>3, <3>4, <3>5
  <2>7. CASE Answer(c)
    <3>1. ASSUME NEW j, NEW agent, NEW status,
                 Goto(c, "calling", [calls |-> RecordAiRun(c, loc[c].j, agent, status),
                                     next |-> "run.judge", j |-> j])
          PROVE  Moves(c)
      <4>1. /\ OwnCalls(RecordAiRun(c, loc[c].j, agent, status))
            /\ RecordAiRun(c, loc[c].j, agent, status) # <<>>
        BY <2>0, RecordIsOwn
      <4> QED
        BY <3>1, <4>1
    <3> QED
      BY <2>0, <2>7, <3>1, ScoreMoves DEF Answer
  <2>8. CASE Judge(c)
    BY <2>0, <2>8, ScoreMoves DEF Judge
  <2>9. CASE FinishRun(c)
    BY <2>0, <2>9 DEF FinishRun, SuiteRunReported
  <2> QED
    BY <1>1, <2>1, <2>2, <2>3, <2>4, <2>5, <2>6, <2>7, <2>8, <2>9
<1> QED
  BY <1>1 DEF EvalsStep

LEMMA NightlyMove ==
  ASSUME CallsInv, NEW c \in Clients, NightlyStep(c)
  PROVE  Moves(c)
<1> USE OwnKinds, OwnNone, OwnOne, OwnTwo, OwnThree, OwnFour, OwnCat, CallingMoves,
       AnswerMoves, GotoMoves, MakeMoves DEF EntryPC, Auditing, Notifying
<1>1. CASE /\ area = "nightly"
           /\ \/ ReadOrganizations(c) \/ NextOrganization(c) \/ CheckBrief(c)
              \/ InsertBrief(c)
  <2>0. /\ {"reports", "notifications"} \subseteq WritesOf(area)
    BY <1>1 DEF WritesOf, RemovesOf
  <2>1. CASE ReadOrganizations(c)
    BY <2>0, <2>1 DEF ReadOrganizations
  <2>2. CASE NextOrganization(c)
    BY <2>0, <2>2 DEF NextOrganization
  <2>3. CASE CheckBrief(c)
    BY <2>0, <2>3 DEF CheckBrief
  <2>4. CASE InsertBrief(c)
    BY <2>0, <2>4 DEF InsertBrief
  <2> QED
    BY <1>1, <2>1, <2>2, <2>3, <2>4
<1> QED
  BY <1>1 DEF NightlyStep

LEMMA WorkspaceMove ==
  ASSUME CallsInv, VaultInv, NEW c \in Clients, WorkspaceStep(c)
  PROVE  Moves(c)
<1> USE OwnKinds, OwnNone, OwnOne, OwnTwo, OwnThree, OwnFour, OwnCat, CallingMoves,
       AnswerMoves, GotoMoves, MakeMoves DEF EntryPC, Auditing, Notifying
<1>1. CASE /\ area = "vault"
           /\ \/ LoadVaultKey(c) \/ ReadKeyFile(c) \/ TruncateKeyFile(c)
              \/ WriteKeyFile(c) \/ StoreCredential(c) \/ RevokeCredential(c)
              \/ ReadCredential(c) \/ OpenSecret(c)
  <2>0. /\ {"integrations", "notifications", "audit_logs"} \subseteq WritesOf(area)
    BY <1>1 DEF WritesOf, RemovesOf
  <2>1. CASE LoadVaultKey(c)
    <3>1. loc[c].use \notin EntryPC \cup {"calling"}
      BY <1>1, <2>1, VaultUse DEF LoadVaultKey, At
    <3>2. ASSUME NEW locals, Goto(c, loc[c].use, locals) PROVE Moves(c)
      BY <3>1, <3>2
    <3> QED
      BY <2>1, <3>2 DEF LoadVaultKey
  <2>2. CASE ReadKeyFile(c)
    <3>1. loc[c].use \notin EntryPC \cup {"calling"}
      BY <1>1, <2>2, VaultUse DEF ReadKeyFile, At
    <3>2. ASSUME NEW locals, Goto(c, loc[c].use, locals) PROVE Moves(c)
      BY <3>1, <3>2
    <3> QED
      BY <2>2, <3>2 DEF ReadKeyFile
  <2>3. CASE TruncateKeyFile(c)
    BY <2>0, <2>3 DEF TruncateKeyFile
  <2>4. CASE WriteKeyFile(c)
    <3>1. loc[c].use \notin EntryPC \cup {"calling"}
      BY <1>1, <2>4, VaultUse DEF WriteKeyFile, At
    <3>2. ASSUME NEW locals, Goto(c, loc[c].use, locals) PROVE Moves(c)
      BY <3>1, <3>2
    <3> QED
      BY <2>4, <3>2 DEF WriteKeyFile
  <2>5. CASE StoreCredential(c)
    BY <2>0, <2>5 DEF StoreCredential, Sealed
  <2>6. CASE RevokeCredential(c)
    BY <2>0, <2>6 DEF RevokeCredential
  <2>7. CASE ReadCredential(c)
    <3>1. ASSUME NEW i, Goto(c, "vault.load", [use |-> "vault.open",
                                               sealedWith |-> i.sealedWith])
          PROVE  Moves(c)
      BY <3>1
    <3> QED
      BY <2>7, <3>1 DEF ReadCredential
  <2>8. CASE OpenSecret(c)
    BY <2>0, <2>8 DEF OpenSecret
  <2> QED
    BY <1>1, <2>1, <2>2, <2>3, <2>4, <2>5, <2>6, <2>7, <2>8
<1>2. CASE /\ area = "inbox"
           /\ SendNotification(c) \/ ReadInbox(c) \/ MarkNext(c)
  <2>0. /\ {"notifications"} \subseteq WritesOf(area)
    BY <1>2 DEF WritesOf, RemovesOf
  <2>1. CASE SendNotification(c)
    BY <2>0, <2>1 DEF SendNotification
  <2>2. CASE ReadInbox(c)
    BY <2>0, <2>2 DEF ReadInbox
  <2>3. CASE MarkNext(c)
    <3>1. ASSUME NEW n, NEW targets,
                 Goto(c, "calling",
                      [targets |-> targets, next |-> "inbox.mark",
                       calls |-> <<Updating("notifications", n, [read |-> TRUE])>>])
          PROVE  Moves(c)
      <4>1. OwnCalls(<<Updating("notifications", n, [read |-> TRUE])>>)
        BY <2>0
      <4> QED
        BY <3>1, <4>1
    <3> QED
      BY <2>3, <3>1 DEF MarkNext
  <2> QED
    BY <1>2, <2>1, <2>2, <2>3
<1> QED
  BY <1>1, <1>2 DEF WorkspaceStep

LEMMA SystemsMove ==
  ASSUME CallsInv, NEW c \in Clients, SystemsStep(c)
  PROVE  Moves(c)
<1> USE OwnKinds, OwnNone, OwnOne, OwnTwo, OwnThree, OwnFour, OwnCat, CallingMoves,
       AnswerMoves, GotoMoves, MakeMoves DEF EntryPC, Auditing, Notifying
<1>1. CASE /\ area = "systems"
           /\ \/ InsertSystem(c) \/ UpdateSystem(c) \/ ReadSystem(c)
              \/ DeleteSystem(c) \/ InsertAutomation(c) \/ ReadAutomation(c)
              \/ UpdateAutomation(c) \/ SaveDefinition(c) \/ StartExecution(c)
              \/ CountRuns(c) \/ ListDefinitions(c) \/ DeleteAutomation(c)
  <2>0. /\ {"systems", "automations", "automation_versions", "executions", "audit_logs"} \subseteq WritesOf(area)
        /\ {"systems", "automations", "automation_versions"} \subseteq RemovesOf(area)
    BY <1>1 DEF WritesOf, RemovesOf
  <2>1. CASE InsertSystem(c)
    BY <2>0, <2>1 DEF InsertSystem, NewSystem
  <2>2. CASE UpdateSystem(c)
    BY <2>0, <2>2 DEF UpdateSystem
  <2>3. CASE ReadSystem(c)
    BY <2>0, <2>3 DEF ReadSystem
  <2>4. CASE DeleteSystem(c)
    BY <2>0, <2>4 DEF DeleteSystem
  <2>5. CASE InsertAutomation(c)
    BY <2>0, <2>5 DEF InsertAutomation, NewAutomation, Version
  <2>6. CASE ReadAutomation(c)
    <3>1. ASSUME NEW where, where \notin EntryPC \cup {"calling"}, Goto(c, where, Nothing)
          PROVE  Moves(c)
      BY <3>1
    <3>2. loc[c].op \in {"updateAutomation", "saveDefinition", "deleteAutomation", "run"}
      BY <2>6 DEF ReadAutomation, At, CallsInv
    <3> QED
      BY <2>6, <3>1, <3>2 DEF ReadAutomation
  <2>7. CASE UpdateAutomation(c)
    BY <2>0, <2>7 DEF UpdateAutomation
  <2>8. CASE SaveDefinition(c)
    BY <2>0, <2>8 DEF SaveDefinition, Version
  <2>9. CASE StartExecution(c)
    BY <2>0, <2>9 DEF StartExecution, NewExecution
  <2>10. CASE CountRuns(c)
    BY <2>0, <2>10 DEF CountRuns
  <2>11. CASE ListDefinitions(c)
    BY <2>0, <2>11 DEF ListDefinitions
  <2>12. CASE DeleteAutomation(c)
    <3>1. ASSUME NEW v, NEW versions,
                 Goto(c, "calling",
                      [versions |-> versions, next |-> "automation.remove",
                       calls |-> <<Removing("automation_versions", v)>>])
          PROVE  Moves(c)
      <4>1. OwnCalls(<<Removing("automation_versions", v)>>)
        BY <2>0
      <4> QED
        BY <3>1, <4>1
    <3>2. ASSUME Calling(c, <<Removing("automations", loc[c].automation),
                              Auditing(c, "automation.deleted", loc[c].automation)>>, "idle")
          PROVE  Moves(c)
      BY <2>0, <3>2
    <3> QED
      BY <2>12, <3>1, <3>2 DEF DeleteAutomation
  <2> QED
    BY <1>1, <2>1, <2>2, <2>3, <2>4, <2>5, <2>6, <2>7, <2>8, <2>9, <2>10, <2>11, <2>12
<1> QED
  BY <1>1 DEF SystemsStep

-----------------------------------------------------------------------------
\* Where a request is when it has been accepted, and what it was accepted with.
Entered(c) ==
  /\ UNCHANGED area /\ DOMAIN pc' = Clients /\ DOMAIN loc' = Clients
  /\ \A d \in Clients \ {c} : pc'[d] = pc[d] /\ loc'[d] = loc[d]
  /\ pc'[c] # "calling"
  /\ pc'[c] \in {"commerce.create", "commerce.move"} =>
        /\ "table" \in DOMAIN loc'[c]
        /\ loc'[c].table \in {"opportunities", "clients", "projects", "audits"}
  /\ pc'[c] = "automation.read" =>
        /\ "op" \in DOMAIN loc'[c]
        /\ loc'[c].op \in {"updateAutomation", "saveDefinition", "deleteAutomation", "run"}

LEMMA AcceptEnters ==
  ASSUME DOMAIN pc = Clients, DOMAIN loc = Clients, NEW c \in Clients,
         NEW where, NEW locals, Accept(c, where, locals)
  PROVE  /\ UNCHANGED area /\ DOMAIN pc' = Clients /\ DOMAIN loc' = Clients
         /\ \A d \in Clients \ {c} : pc'[d] = pc[d] /\ loc'[d] = loc[d]
         /\ pc'[c] = where
         /\ DOMAIN locals \subseteq DOMAIN loc'[c]
         /\ \A f \in DOMAIN locals : f # "n" => loc'[c][f] = locals[f]
<1> DEFINE number == [n |-> served + 1]
<1>1. /\ UNCHANGED area /\ DOMAIN pc' = Clients /\ DOMAIN loc' = Clients
      /\ pc'[c] = where /\ loc'[c] = Over(locals, number)
      /\ \A d \in Clients \ {c} : pc'[d] = pc[d] /\ loc'[d] = loc[d]
  BY DEF Accept
<1> HIDE DEF number
<1>2. /\ DOMAIN Over(locals, number) = DOMAIN locals \cup DOMAIN number
      /\ \A f \in DOMAIN locals : Over(locals, number)[f] = locals[f]
  BY Overwritten
<1> QED
  BY <1>1, <1>2

LEMMA AcceptFromEnters ==
  ASSUME DOMAIN pc = Clients, DOMAIN loc = Clients, NEW c \in Clients,
         NEW m, NEW where, NEW locals, AcceptFrom(m, c, where, locals)
  PROVE  /\ UNCHANGED area /\ DOMAIN pc' = Clients /\ DOMAIN loc' = Clients
         /\ \A d \in Clients \ {c} : pc'[d] = pc[d] /\ loc'[d] = loc[d]
         /\ pc'[c] = where
         /\ DOMAIN locals \subseteq DOMAIN loc'[c]
         /\ \A f \in DOMAIN locals : f # "n" => loc'[c][f] = locals[f]
<1> DEFINE caller == [org |-> m.organizationId, user |-> m.userId]
           all == Over(locals, caller)
<1>1. Accept(c, where, all)
  BY DEF AcceptFrom
<1> HIDE DEF caller
<1>2. DOMAIN all = DOMAIN locals \cup DOMAIN caller /\ \A f \in DOMAIN locals : all[f] = locals[f]
  BY Overwritten
<1> HIDE DEF all
<1> QED
  BY <1>1, <1>2, AcceptEnters

LEMMA SubmitsEnter ==
  ASSUME DOMAIN pc = Clients, DOMAIN loc = Clients, NEW c \in Clients,
         \/ AccountsSubmit(c) \/ IntakeSubmit(c) \/ KnowledgeSubmit(c) \/ AgentsSubmit(c)
         \/ EvalsSubmit(c) \/ NightlySubmit(c) \/ WorkspaceSubmit(c) \/ SystemsSubmit(c)
         \/ Calls(c)
  PROVE  Entered(c)
<1>1. CASE AccountsSubmit(c)
  <2>1. CASE SubmitSignUp(c) \/ SubmitSignIn(c) \/ SubmitSignOut(c)
    BY <2>1 DEF Accept, Entered, SubmitSignUp, SubmitSignIn, SubmitSignOut
  <2>2. CASE InviteMember(c) \/ ChangeRole(c) \/ RemoveMember(c) \/ ToggleSandbox(c)
    BY <2>2 DEF Accept, AcceptFrom, Entered, InviteMember, ChangeRole, RemoveMember, ToggleSandbox
  <2> QED
    BY <1>1, <2>1, <2>2 DEF AccountsSubmit
<1>2. CASE IntakeSubmit(c)
  <2>1. CASE PostAuditRequest(c)
    BY <2>1 DEF Accept, Entered, PostAuditRequest
  <2>2. ASSUME NEW m, NEW where \in {"commerce.create", "commerce.move"}, NEW locals,
               AcceptFrom(m, c, where, locals), "table" \in DOMAIN locals,
               locals["table"] \in {"opportunities", "clients", "projects", "audits"}
        PROVE  Entered(c)
    BY <2>2, AcceptFromEnters DEF Entered
  <2>3. CASE CreateRecord(c)
    <3>1. ASSUME NEW m, NEW t \in {"opportunities", "clients", "projects"},
                 AcceptFrom(m, c, "commerce.create", [op |-> "create", table |-> t])
          PROVE  Entered(c)
      BY <2>2, <3>1
    <3> QED
      BY <2>3, <3>1 DEF CreateRecord
  <2>4. CASE MoveRecord(c)
    <3>1. ASSUME NEW m, NEW t \in {"opportunities", "audits"}, NEW target, NEW patch,
                 AcceptFrom(m, c, "commerce.move", [op |-> "move", table |-> t,
                                                    target |-> target, patch |-> patch])
          PROVE  Entered(c)
      BY <2>2, <3>1
    <3> QED
      BY <2>4, <3>1 DEF MoveRecord
  <2> QED
    BY <1>2, <2>1, <2>3, <2>4 DEF IntakeSubmit
<1>3. CASE KnowledgeSubmit(c)
  <2>1. CASE KnowledgeWrite(c)
    BY <2>1 DEF Accept, Entered, KnowledgeWrite
  <2>2. CASE CreateSource(c) \/ PasteDocument(c) \/ DeleteDocument(c) \/ GenerateStrategy(c)
    BY ZenonT(30), <2>2 DEF Accept, AcceptFrom, Entered, CreateSource, PasteDocument, DeleteDocument, GenerateStrategy
  <2>3. CASE AskKnowledge(c)
    BY ZenonT(30), <2>3 DEF Accept, AcceptFrom, Entered, AskKnowledge
  <2> QED
    BY <1>3, <2>1, <2>2, <2>3 DEF KnowledgeSubmit
<1>4. CASE AgentsSubmit(c)
  BY ZenonT(30), <1>4 DEF Accept, AcceptFrom, Entered, AgentsSubmit, CreateAgent, SaveAgent, ChangeAgentStatus,
      SeedFleet
<1>5. CASE EvalsSubmit(c)
  BY <1>5 DEF Accept, AcceptFrom, Entered, EvalsSubmit, CreateSuite, AddCase, DeleteCase, RunSuite
<1>6. CASE NightlySubmit(c)
  BY <1>6 DEF Accept, Entered, NightlySubmit, StartCycle
<1>7. CASE WorkspaceSubmit(c)
  <2>1. CASE UseCredential(c) \/ NotifyTool(c)
    BY <2>1 DEF Accept, Entered, UseCredential, NotifyTool
  <2>2. CASE AddIntegration(c) \/ RevokeIntegration(c) \/ MarkRead(c) \/ MarkAllRead(c)
    BY <2>2 DEF Accept, AcceptFrom, Entered, AddIntegration, RevokeIntegration, MarkRead, MarkAllRead
  <2> QED
    BY <1>7, <2>1, <2>2 DEF WorkspaceSubmit
<1>8. CASE SystemsSubmit(c)
  <2>1. CASE CreateSystem(c) \/ ChangeSystem(c) \/ CreateAutomation(c)
    BY ZenonT(30), <2>1 DEF Accept, AcceptFrom, Entered, CreateSystem, ChangeSystem, CreateAutomation
  <2>2. ASSUME NEW m, NEW locals, AcceptFrom(m, c, "automation.read", locals),
               "op" \in DOMAIN locals,
               locals["op"] \in {"updateAutomation", "saveDefinition", "deleteAutomation", "run"}
        PROVE  Entered(c)
    BY <2>2, AcceptFromEnters DEF Entered
  <2>3. ASSUME NEW m, NEW op \in {"saveDefinition", "deleteAutomation", "run"}, NEW a,
               AcceptFrom(m, c, "automation.read", [op |-> op, automation |-> a])
        PROVE  Entered(c)
    BY <2>2, <2>3
  <2>4. ASSUME NEW m, NEW a, NEW s,
               AcceptFrom(m, c, "automation.read",
                          [op |-> "updateAutomation", automation |-> a, system |-> s])
        PROVE  Entered(c)
    BY <2>2, <2>4
  <2>5. CASE ChangeAutomation(c)
    BY <2>3, <2>4, <2>5 DEF ChangeAutomation
  <2>6. CASE RunAutomation(c)
    BY <2>3, <2>6 DEF RunAutomation
  <2> QED
    BY <1>8, <2>1, <2>5, <2>6 DEF SystemsSubmit
<1>9. CASE Calls(c)
  BY <1>9 DEF Accept, Entered, Calls
<1> QED
  BY <1>1, <1>2, <1>3, <1>4, <1>5, <1>6, <1>7, <1>8, <1>9

LEMMA EnteredKeeps ==
  ASSUME CallsInv, NEW c \in Clients, Entered(c), UNCHANGED db
  PROVE  CallsInv'
<1>1. \A s : OwnCalls(s)' <=> OwnCalls(s)
  BY DEF Entered, OwnCalls, Own
<1>2. \A d \in Clients : pc'[d] = "calling" =>
         /\ {"calls", "next"} \subseteq DOMAIN loc'[d]
         /\ loc'[d].calls # <<>> /\ OwnCalls(loc'[d].calls)
         /\ loc'[d].next \notin EntryPC \cup {"calling"}
  BY DEF Entered, CallsInv
<1>3. \A d \in Clients : pc'[d] \in {"commerce.create", "commerce.move"} =>
         /\ "table" \in DOMAIN loc'[d]
         /\ loc'[d].table \in {"opportunities", "clients", "projects", "audits"}
  BY DEF Entered, CallsInv
<1>4. \A d \in Clients : pc'[d] = "automation.read" =>
         /\ "op" \in DOMAIN loc'[d]
         /\ loc'[d].op \in {"updateAutomation", "saveDefinition", "deleteAutomation", "run"}
  BY DEF Entered, CallsInv
<1> QED
  BY <1>1, <1>2, <1>3, <1>4 DEF Entered, CallsInv

-----------------------------------------------------------------------------
\* What goes when a row of an area goes is the area's, and so is what then refers to
\* nothing.
Closed(a) ==
  \A ref \in References : ref.parent \in RemovesOf(a) =>
     /\ ref.child \in WritesOf(a)
     /\ ref.onDelete = "Cascade" => ref.child \in RemovesOf(a)

LEMMA AreasClosed == \A a \in Areas : Closed(a)
<1> SUFFICES ASSUME NEW a \in Areas PROVE Closed(a)
  OBVIOUS
<1> DEFINE Fits(refs) == \A ref \in refs : ref.parent \in RemovesOf(a) =>
              /\ ref.child \in WritesOf(a)
              /\ ref.onDelete = "Cascade" => ref.child \in RemovesOf(a)
<1>1. /\ "organizations" \notin RemovesOf(a) /\ "users" \notin RemovesOf(a)
      /\ "clients" \notin RemovesOf(a) /\ "agents" \notin RemovesOf(a)
      /\ "executions" \notin RemovesOf(a) /\ "agent_runs" \notin RemovesOf(a)
      /\ "agent_versions" \notin RemovesOf(a) /\ "eval_suites" \notin RemovesOf(a)
      /\ "eval_runs" \notin RemovesOf(a)
  BY DEF RemovesOf
<1>2. /\ "systems" \in RemovesOf(a) \/ "automations" \in RemovesOf(a) =>
             /\ {"automations", "agents", "automation_versions", "executions"} \subseteq WritesOf(a)
             /\ "automation_versions" \in RemovesOf(a)
      /\ "knowledge_sources" \in RemovesOf(a) \/ "documents" \in RemovesOf(a) =>
             /\ {"documents", "document_chunks"} \subseteq WritesOf(a)
             /\ {"documents", "document_chunks"} \subseteq RemovesOf(a)
  BY DEF RemovesOf, WritesOf
<1>3. ASSUME NEW S, NEW ref \in Tenants(S) PROVE ref.parent = "organizations"
  BY DEF Tenants, Refers
<1>4. Fits(IdentityRefs)
  BY <1>1, <1>3 DEF IdentityRefs, Refers
<1>5. Fits(CommercialRefs)
  BY <1>1, <1>3 DEF CommercialRefs, Refers
<1>6. Fits(SystemRefs)
  BY <1>1, <1>2, <1>3 DEF SystemRefs, Refers
<1>7. Fits(KnowledgeRefs)
  BY <1>1, <1>2, <1>3 DEF KnowledgeRefs, Refers
<1>8. Fits(EngineRefs)
  BY <1>1, <1>2, <1>3 DEF EngineRefs, Refers
<1>9. Fits(RecordRefs)
  BY <1>1, <1>3 DEF RecordRefs, Refers
<1>10. Fits(AiRefs)
  BY <1>1, <1>3 DEF AiRefs, Refers
<1>11. Fits(AuditRefs)
  BY <1>1 DEF AuditRefs, Refers
<1> QED
  BY <1>4, <1>5, <1>6, <1>7, <1>8, <1>9, <1>10, <1>11 DEF References, Closed

\* A removal leaves the collections that it takes no rows from, and whose rows refer to
\* none of those it takes rows from.
LEMMA RemovalLeaves ==
  ASSUME CallsInv, NEW t \in RemovesOf(area), NEW id,
         NEW u \in DOMAIN db \ RemovesOf(area), \A r \in db[u] : IsRecord(r),
         \A ref \in References : ref.child = u => ref.parent \notin RemovesOf(area)
  PROVE  RemoveRow(t, id)[u] = db[u]
<1> DEFINE gone == Removed(t, id)
           rows == {<<t, r>> : r \in ById(t, id)}
           children == Dependents(rows, "Cascade")
<1>1. Closed(area)
  BY AreasClosed DEF CallsInv
<1>3. \A g \in rows : g[1] \in RemovesOf(area)
  OBVIOUS
<1>4. ASSUME NEW S, \A g \in S : g[1] \in RemovesOf(area)
      PROVE  \A g \in Dependents(S, "Cascade") : g[1] \in RemovesOf(area)
  BY <1>1, <1>4 DEF Dependents, RefersTo, Closed
<1> HIDE DEF rows
<1>5. \A g \in children : g[1] \in RemovesOf(area)
  BY <1>3, <1>4
<1> HIDE DEF children
<1>6. \A g \in Dependents(children, "Cascade") : g[1] \in RemovesOf(area)
  BY <1>4, <1>5
<1>7. \A g \in gone : g[1] \in RemovesOf(area)
  <2>1. gone = rows \/ gone = rows \cup children \cup Dependents(children, "Cascade")
    BY DEF Removed, rows, children
  <2> QED
    BY <1>3, <1>5, <1>6, <2>1
<1> HIDE DEF gone
<1>9. \A s \in db[u] : <<u, s>> \notin gone
  BY <1>7
<1>10. ASSUME NEW r \in db[u] PROVE Cleared(r, u, gone) = r
  <2>1. \A f \in DOMAIN r :
           ~\E ref \in References :
               /\ RefersTo(u, r, ref)
               /\ ref.field = f
               /\ \E g \in gone : g[1] = ref.parent /\ g[2].id = r[f]
    BY <1>7 DEF RefersTo
  <2>2. Cleared(r, u, gone) = [f \in DOMAIN r |-> r[f]]
    BY <2>1 DEF Cleared
  <2> QED
    BY <2>2 DEF IsRecord
<1>11. RemoveRow(t, id)[u] = {IF postgres THEN Cleared(r, u, gone) ELSE r :
                                 r \in {s \in db[u] : <<u, s>> \notin gone}}
  BY DEF RemoveRow, gone
<1> QED
  BY <1>9, <1>10, <1>11

LEMMA RemovalIsOwn ==
  ASSUME CallsInv, NEW t \in RemovesOf(area), NEW id,
         NEW u \in DOMAIN db \ WritesOf(area), \A r \in db[u] : IsRecord(r)
  PROVE  RemoveRow(t, id)[u] = db[u]
<1>1. Closed(area) /\ area \in Areas
  BY AreasClosed DEF CallsInv
<1>2. RemovesOf(area) \subseteq WritesOf(area)
  BY DEF WritesOf, RemovesOf
<1>3. u \in DOMAIN db \ RemovesOf(area)
  BY <1>2
<1>4. \A ref \in References : ref.child = u => ref.parent \notin RemovesOf(area)
  BY <1>1 DEF Closed
<1> QED
  BY <1>3, <1>4, RemovalLeaves

LEMMA CallsStayApart ==
  ASSUME CallsInv, NEW c \in Clients, StoreCall(c), NEW u \in DOMAIN db \ WritesOf(area)
  PROVE  db'[u] = db[u]
<1> DEFINE k == Head(loc[c].calls)
<1>1. Own(k)
  <2>1. pc[c] = "calling"
    BY DEF StoreCall, At
  <2>2. loc[c].calls # <<>> /\ OwnCalls(loc[c].calls)
    BY <2>1 DEF CallsInv
  <2>3. /\ IsSequence(loc[c].calls) /\ k = loc[c].calls[1]
        /\ DOMAIN loc[c].calls = 1 .. Len(loc[c].calls) /\ Len(loc[c].calls) \in Nat \ {0}
    BY <2>2, TailOf, SequenceSpan DEF OwnCalls
  <2>4. 1 \in DOMAIN loc[c].calls
    BY <2>3
  <2> QED
    BY <2>2, <2>3, <2>4 DEF OwnCalls
<1>2. \/ db' = db
      \/ k.call = "insert" /\ db' = InsertRow(k.table, k.row)
      \/ k.call \in {"update", "change"} /\ db' = UpdateRow(k.table, k.id, k.row)
      \/ k.call = "upsert" /\ db' = UpsertRow(k.table, k.row)
      \/ k.call \notin {"insert", "update", "change", "upsert"} /\ db' = RemoveRow(k.table, k.id)
  BY DEF StoreCall
<1> HIDE DEF k
<1>3. CASE k.call \notin {"insert", "update", "change", "upsert"} /\ db' = RemoveRow(k.table, k.id)
  BY <1>1, <1>3, RemovalIsOwn DEF Own, CallsInv
<1>4. k.table # u
  BY <1>1 DEF Own
<1> QED
  BY <1>2, <1>3, <1>4 DEF InsertRow, UpdateRow, UpsertRow

LEMMA OwnCallKeeps ==
  ASSUME CallsInv, NEW c \in Clients, StoreCall(c)
  PROVE  CallsInv'
<1> DEFINE rest == Tail(loc[c].calls)
           locals == [calls |-> rest]
<1>1. pc[c] = "calling" /\ UNCHANGED area
  BY DEF StoreCall, At, history
<1>2. /\ {"calls", "next"} \subseteq DOMAIN loc[c]
      /\ loc[c].calls # <<>> /\ OwnCalls(loc[c].calls)
      /\ loc[c].next \notin EntryPC \cup {"calling"}
  BY <1>1 DEF CallsInv
<1>3. DOMAIN db' = DOMAIN db /\ \A t \in DOMAIN db' : IsFiniteSet(db'[t])
  BY CallKeepsTables, CallKeepsFinite DEF CallsInv
<1>4. OwnCalls(rest)
  <2>1. IsSequence(loc[c].calls) /\ \A i \in DOMAIN loc[c].calls : Own(loc[c].calls[i])
    BY <1>2 DEF OwnCalls
  <2>2. /\ IsSequence(rest) /\ Len(rest) = Len(loc[c].calls) - 1
        /\ \A i \in 1 .. Len(rest) : /\ rest[i] = loc[c].calls[i + 1]
                                     /\ i + 1 \in 2 .. Len(loc[c].calls)
    BY <1>2, <2>1, TailOf
  <2>3. DOMAIN rest = 1 .. Len(rest) /\ DOMAIN loc[c].calls = 1 .. Len(loc[c].calls)
    BY <2>1, <2>2, SequenceSpan
  <2>4. \A i \in DOMAIN rest : i + 1 \in DOMAIN loc[c].calls
    <3>1. \A n : 2 .. n \subseteq 1 .. n
      OBVIOUS
    <3> QED
      BY <2>2, <2>3, <3>1
  <2> QED
    BY <2>1, <2>2, <2>3, <2>4 DEF OwnCalls
<1>5. DOMAIN locals = {"calls"} /\ locals["calls"] = rest
  OBVIOUS
<1>6. \/ Respond(c)
      \/ rest # <<>> /\ Goto(c, "calling", locals)
      \/ Goto(c, loc[c].next, Nothing)
  BY DEF StoreCall
<1> HIDE DEF rest, locals
<1>7. \A t \in DOMAIN db \ WritesOf(area) : db'[t] = db[t]
  BY CallsStayApart
<1>8. WritesOf(area)' = WritesOf(area) /\ (\A r : IsRecord(r)' <=> IsRecord(r))
  BY <1>1 DEF WritesOf, IsRecord
<1>9. CASE Respond(c)
  BY <1>1, <1>3, <1>7, <1>9, MovesKeep DEF Moves
<1>10. CASE Goto(c, loc[c].next, Nothing)
  BY <1>1, <1>2, <1>3, <1>7, <1>10, MovesKeep DEF Moves
<1>11. CASE rest # <<>> /\ Goto(c, "calling", locals)
  <2>1. DOMAIN pc = Clients /\ DOMAIN loc = Clients
    BY DEF CallsInv
  <2>2. /\ pc' = [pc EXCEPT ![c] = "calling"] /\ DOMAIN loc' = Clients
        /\ DOMAIN loc'[c] = DOMAIN locals \cup DOMAIN loc[c]
        /\ \A f \in DOMAIN locals : loc'[c][f] = locals[f]
        /\ \A f \in DOMAIN loc[c] : f \notin DOMAIN locals => loc'[c][f] = loc[c][f]
        /\ \A d \in Clients \ {c} : loc'[d] = loc[d]
    BY <1>11, <2>1, RequestGoesOn
  <2>3. DOMAIN pc' = Clients /\ \A d \in Clients : pc'[d] = pc[d]
    BY <1>1, <2>1, <2>2
  <2>4. /\ {"calls", "next"} \subseteq DOMAIN loc'[c]
        /\ loc'[c].calls = rest /\ loc'[c].next = loc[c].next
    BY <1>2, <1>5, <2>2
  <2>5. \A s : OwnCalls(s)' <=> OwnCalls(s)
    BY <1>1 DEF OwnCalls, Own
  <2> QED
    BY <1>1, <1>2, <1>3, <1>4, <1>11, <1>7, <1>8, <2>2, <2>3, <2>4, <2>5
       DEF CallsInv, EntryPC
<1> QED
  BY <1>6, <1>9, <1>10, <1>11

LEMMA StoresMove ==
  ASSUME NEW c \in Clients, StoresStep(c)
  PROVE  Moves(c)
<1> USE AnswerMoves, GotoMoves DEF EntryPC
<1>1. CASE ReadCollection(c)
  <2>1. ASSUME NEW rows, Goto(c, "store.open", [rows |-> rows]) PROVE Moves(c)
    BY <2>1
  <2> QED
    BY <1>1, <2>1 DEF ReadCollection
<1>2. CASE OpenTemp(c)
  <2>1. ASSUME NEW stamp, NEW inode,
               Goto(c, "store.fill", [stamp |-> stamp, inode |-> inode])
        PROVE  Moves(c)
    BY <2>1
  <2> QED
    BY <1>2, <2>1 DEF OpenTemp
<1>3. CASE FillTemp(c) \/ RenameTemp(c) \/ WriteRow(c)
  BY <1>3 DEF FillTemp, RenameTemp, WriteRow
<1>4. CASE FindRow(c)
  <2>1. ASSUME NEW rows, Goto(c, "store.write", [rows |-> rows]) PROVE Moves(c)
    BY <2>1
  <2> QED
    BY <1>4, <2>1 DEF FindRow
<1> QED
  BY <1>1, <1>2, <1>3, <1>4 DEF StoresStep

LEMMA CallsInitially == Init => CallsInv
<1> SUFFICES ASSUME Init PROVE CallsInv
  OBVIOUS
<1>0. PICK a \in Areas : \E seed \in Seeds[a] : RequestsInit(a, seed.rows)
  BY DEF Init
<1>1. PICK seed \in Seeds[a] : RequestsInit(a, seed.rows)
  BY <1>0
<1>2. /\ area = a /\ pc = [c \in Clients |-> "idle"] /\ loc = [c \in Clients |-> Empty]
      /\ db = seed.rows
  BY <1>1 DEF RequestsInit
<1>3. RowsAreKept(a, seed.rows)
  BY <1>1, PlatformAssumption
<1> QED
  BY <1>2, <1>3 DEF CallsInv, EntryPC, RowsAreKept, IsRecord

LEMMA CallsKept == CallsInv /\ VaultInv /\ [Next]_vars => CallsInv'
<1> SUFFICES ASSUME CallsInv, VaultInv, [Next]_vars PROVE CallsInv'
  OBVIOUS
<1>1. UNCHANGED area /\ DOMAIN db' = DOMAIN db
  BY Frame, TablesStay
<1>2. WritesOf(area)' = WritesOf(area) /\ (\A r : IsRecord(r)' <=> IsRecord(r))
      /\ \A s : OwnCalls(s)' <=> OwnCalls(s)
  BY <1>1 DEF WritesOf, IsRecord, OwnCalls, Own
<1>3. CASE UNCHANGED <<pc, loc, db>>
  BY <1>1, <1>2, <1>3 DEF CallsInv
<1>4. CASE UNCHANGED vars
  BY <1>3, <1>4 DEF vars, requestVars
<1>5. CASE Environment
  <2>1. CASE LockExpires
    <3>1. PICK a \in db["auth_attempts"] :
             db' = UpdateRow("auth_attempts", a.id, [locked |-> FALSE])
      BY <2>1 DEF LockExpires
    <3>2. area = "signin" /\ UNCHANGED <<pc, loc>>
      BY <2>1 DEF LockExpires
    <3>3. "auth_attempts" \in WritesOf(area)
      BY <3>2 DEF WritesOf
    <3>4. \A t \in DOMAIN db : t # "auth_attempts" => db'[t] = db[t]
      BY <3>1 DEF UpdateRow
    <3>5. \A t \in DOMAIN db : IsFiniteSet(db'[t])
      BY <3>1, <3>4, UpdateKeepsFinite DEF CallsInv
    <3> QED
      BY <1>1, <1>2, <3>2, <3>3, <3>4, <3>5 DEF CallsInv
  <2>2. CASE WindowPasses \/ DayPasses
    BY <1>3, <2>2 DEF WindowPasses, DayPasses, requestVars
  <2>3. CASE Restart
    BY <1>1, <1>2, <2>3 DEF Restart, CallsInv, EntryPC
  <2> QED
    BY <1>5, <2>1, <2>2, <2>3 DEF Environment
<1>6. ASSUME NEW c \in Clients, Submit(c) PROVE CallsInv'
  <2>1. UNCHANGED db
    BY <1>6, SubmitsLeave DEF Submit
  <2>2. Entered(c)
    BY <1>6, SubmitsEnter DEF Submit, CallsInv
  <2> QED
    BY <2>1, <2>2, EnteredKeeps
<1>7. ASSUME NEW c \in Clients, Step(c) PROVE CallsInv'
  <2>1. CASE StoreCall(c)
    BY <2>1, OwnCallKeeps
  <2>2. CASE CutOff(c)
    <3>1. Moves(c) /\ UNCHANGED db
      BY <2>2, AnswerMoves DEF CutOff
    <3> QED
      BY <1>1, <3>1, MovesKeep DEF CallsInv
  <2>3. CASE \/ AccountsStep(c) \/ IntakeStep(c) \/ KnowledgeStep(c) \/ AgentsStep(c)
             \/ EvalsStep(c) \/ NightlyStep(c) \/ WorkspaceStep(c) \/ SystemsStep(c)
             \/ StoresStep(c)
    <3>1. Moves(c)
      BY <2>3, AccountsMove, IntakeMove, KnowledgeMove, AgentsMove, EvalsMove, NightlyMove,
         WorkspaceMove, SystemsMove, StoresMove
    <3>2. UNCHANGED db
      BY <2>3, StepsLeave
    <3> QED
      BY <1>1, <3>1, <3>2, MovesKeep DEF CallsInv
  <2> QED
    BY <1>7, <2>1, <2>2, <2>3 DEF Step
<1> QED
  BY <1>4, <1>5, <1>6, <1>7 DEF Next

LEMMA AreasApart ==
  ASSUME CallsInv, [Next]_vars, NEW t \in DOMAIN db, db'[t] # db[t]
  PROVE  t \in WritesOf(area)
<1>1. CASE UNCHANGED db
  BY <1>1
<1>2. CASE LockExpires
  <2>1. area = "signin" /\ \A u \in DOMAIN db : u # "auth_attempts" => db'[u] = db[u]
    BY <1>2 DEF LockExpires, UpdateRow
  <2> QED
    BY <2>1 DEF WritesOf
<1>3. ASSUME NEW c \in Clients, StoreCall(c) PROVE t \in WritesOf(area)
  BY <1>3, CallsStayApart
<1>4. ASSUME NEW c \in Clients, Submit(c) PROVE UNCHANGED db
  BY <1>4, SubmitsLeave DEF Submit
<1>5. ASSUME NEW c \in Clients, Step(c), ~StoreCall(c) PROVE UNCHANGED db
  BY <1>5, StepsLeave DEF Step, CutOff
<1>6. Environment => LockExpires \/ UNCHANGED db
  BY DEF Environment, WindowPasses, DayPasses, Restart, requestVars
<1>7. UNCHANGED vars => UNCHANGED db
  BY DEF vars, requestVars
<1> QED
  BY <1>1, <1>2, <1>3, <1>4, <1>5, <1>6, <1>7 DEF Next

\* A request writes the collections of its area and no others (the server actions and
\* route handlers of each part of the application; a row that a removal takes along, or
\* leaves without its reference, is of the area too): areas can be looked at one by one.
THEOREM RequestsKeepToTheirArea ==
  Spec => [][\A t \in DOMAIN db : db'[t] # db[t] => t \in WritesOf(area)]_vars
<1>1. CallsInv /\ VaultInv /\ [Next]_vars => CallsInv'
  BY CallsKept
<1>2. CallsInv /\ [Next]_vars =>
         [\A t \in DOMAIN db : db'[t] # db[t] => t \in WritesOf(area)]_vars
  BY AreasApart
<1> QED
  BY <1>1, <1>2, CallsInitially, VaultInitially, VaultKept, PTL DEF Spec

-----------------------------------------------------------------------------
(***************************************************************************)
(* The fleet: the inductive invariant.                                     *)
(***************************************************************************)
CreatingOps == {"seedFleet", "createAgent"}
AgentsPoints == {"idle", "calling", "agent.create", "agent.read", "agent.current",
                 "agent.status", "fleet.names", "fleet.next"}

\* What identifies an agent, and no update changes.
AgentFields == {"id", "organizationId", "name"}

\* Calls that add no agent and leave every agent its name.
Quiet(k) ==
  /\ k.call \in {"insert", "update"}
  /\ k.table = "agents" => k.call = "update" /\ DOMAIN k.row \cap AgentFields = {}

\* Calls that add the agent that is asked for, or the fleet's t-th.
Creating(c, k) ==
  /\ k.call = "insert" /\ k.table = "agents" /\ AgentFields \subseteq DOMAIN k.row
  /\ k.row.id = 100 * Number(c)
  /\ loc[c].op = "createAgent"
Seeding(c, k, t) ==
  /\ k.call = "insert" /\ k.table = "agents" /\ AgentFields \subseteq DOMAIN k.row
  /\ k.row.id = FleetId(c, t) /\ k.row.name = FleetTemplates[t]
  /\ k.row.organizationId = loc[c].org
  /\ loc[c].op = "seedFleet" /\ loc[c].next = "fleet.next" /\ loc[c].from = t + 1

\* Is on its way through the templates.
Walking(c) == pc[c] = "fleet.next" \/ (pc[c] = "calling" /\ loc[c].next = "fleet.next")

\* A sequence of calls that k leads, the others quiet.
LedBy(s, k) ==
  /\ IsSequence(s) /\ s # <<>> /\ s[1] = k
  /\ \A i \in DOMAIN s : i # 1 => Quiet(s[i])

AgentCalls(c) ==
  LET first == loc[c].calls[1]
  IN  /\ {"calls", "next"} \subseteq DOMAIN loc[c]
      /\ loc[c].next \in {"idle", "fleet.next"}
      /\ LedBy(loc[c].calls, first)
      /\ \/ Quiet(first)
         \/ Creating(c, first)
         \/ \E t \in DOMAIN FleetTemplates : Seeding(c, first, t)

AgentRequest(c) ==
  /\ {"op", "n", "org"} \subseteq DOMAIN loc[c] /\ Number(c) \in 1 .. served
  /\ pc[c] = "agent.create" => loc[c].op = "createAgent"
  /\ pc[c] = "fleet.names" => loc[c].op = "seedFleet"
  /\ pc[c] = "calling" => AgentCalls(c)
  /\ Walking(c) => /\ {"existing", "from"} \subseteq DOMAIN loc[c]
                   /\ loc[c].from \in Nat \ {0} /\ loc[c].op = "seedFleet"

AgentRequests ==
  /\ pc \in [Clients -> AgentsPoints] /\ DOMAIN loc = Clients /\ served \in Nat
  /\ \A c \in Clients : InFlight(c) => AgentRequest(c)
  /\ \A c, d \in Clients :
        InFlight(c) /\ InFlight(d) /\ c # d /\ {loc[c].op, loc[d].op} \subseteq CreatingOps
           => {loc[c].op, loc[d].op} \in met

AgentIds ==
  /\ "agents" \in DOMAIN db
  /\ \A a \in db["agents"] : /\ AgentFields \subseteq DOMAIN a /\ a.id \in Int
                             /\ a.id < 100 * served + 100

\* No agent of the organization bears the name.
Free(org, name) == \A a \in db["agents"] : a.organizationId # org \/ a.name # name

\* The fleet's agent is the first of its name.
FleetFirst ==
  \A a, b \in Table("agents") :
     /\ a.organizationId = b.organizationId
     /\ a.name = b.name
     /\ b.id % 100 # 0
     => a.id >= b.id

\* What is still to be added comes after all that there is; what the fleet still lacks,
\* nobody else adds.
InOrder(c) ==
  /\ \/ pc[c] = "agent.create"
     \/ pc[c] = "calling" /\ Creating(c, loc[c].calls[1])
     => \A a \in db["agents"] : a.id < 100 * Number(c)
  /\ \A t \in DOMAIN FleetTemplates :
        /\ Walking(c) /\ t >= loc[c].from /\ FleetTemplates[t] \notin loc[c].existing
           => Free(loc[c].org, FleetTemplates[t])
        /\ pc[c] = "calling" /\ Seeding(c, loc[c].calls[1], t)
           => Free(loc[c].org, FleetTemplates[t])

Orderly == ~Met(CreatingOps) => FleetFirst /\ \A c \in Clients : InOrder(c)

FleetInv ==
  /\ "agents" \in DOMAIN db => area \in {"agents", "evals"}
  /\ area # "agents" => FleetFirst
  /\ area = "agents" => AgentRequests /\ AgentIds /\ Orderly

-----------------------------------------------------------------------------
(***************************************************************************)
(* The fleet: what happens in the area.                                    *)
(***************************************************************************)
LEMMA FleetFrame ==
  ASSUME [Next]_vars, area = "agents"
  PROVE  \/ UNCHANGED requestVars
         \/ \E c \in Clients :
               AgentsSubmit(c) \/ AgentsStep(c) \/ StoreCall(c) \/ CutOff(c)
<1>1. CASE UNCHANGED vars
  BY <1>1 DEF vars
<1>2. CASE Environment
  BY <1>2 DEF Environment, LockExpires, WindowPasses, DayPasses, Restart
<1>3. ASSUME NEW c \in Clients, Submit(c) PROVE AgentsSubmit(c)
  BY <1>3 DEF Submit, AccountsSubmit, IntakeSubmit, KnowledgeSubmit, EvalsSubmit,
      NightlySubmit, WorkspaceSubmit, SystemsSubmit, Calls
<1>4. ASSUME NEW c \in Clients, Step(c) PROVE AgentsStep(c) \/ StoreCall(c) \/ CutOff(c)
  BY <1>4 DEF Step, AccountsStep, IntakeStep, KnowledgeStep, EvalsStep, NightlyStep,
      WorkspaceStep, SystemsStep, StoresStep
<1> QED
  BY <1>1, <1>2, <1>3, <1>4 DEF Next

\* Sequences of calls.
LEMMA LedOne ==
  ASSUME NEW k
  PROVE  LedBy(<<k>>, k)
<1>1. <<k>> \in Seq({k}) /\ DOMAIN <<k>> = 1 .. 1 /\ <<k>>[1] = k /\ <<k>> # <<>>
  OBVIOUS
<1>2. IsSequence(<<k>>)
  BY <1>1, SequenceIs
<1> QED
  BY <1>1, <1>2 DEF LedBy

LEMMA LedTwo ==
  ASSUME NEW j, NEW k, Quiet(k)
  PROVE  LedBy(<<j, k>>, j)
<1>1. /\ <<j, k>> \in Seq({j, k}) /\ DOMAIN <<j, k>> = 1 .. 2
      /\ <<j, k>>[1] = j /\ <<j, k>>[2] = k /\ <<j, k>> # <<>>
  OBVIOUS
<1>2. IsSequence(<<j, k>>)
  BY <1>1, SequenceIs
<1> QED
  BY <1>1, <1>2 DEF LedBy

LEMMA LedMore ==
  ASSUME NEW s, NEW j, NEW k, LedBy(s, j), Quiet(k)
  PROVE  LedBy(s \o <<k>>, j)
<1> DEFINE S == {s[i] : i \in DOMAIN s} \cup {k}
           u == s \o <<k>>
<1>1. s \in Seq(S) /\ <<k>> \in Seq(S) /\ s # <<>> /\ s[1] = j
  BY DEF LedBy, IsSequence
<1> HIDE DEF S
<1>2. /\ u \in Seq(S) /\ Len(u) = Len(s) + 1 /\ Len(s) \in Nat \ {0}
      /\ DOMAIN s = 1 .. Len(s) /\ DOMAIN u = 1 .. Len(u)
  BY <1>1
<1>3. \A i \in DOMAIN u : \/ i \in DOMAIN s /\ u[i] = s[i]
                          \/ i = Len(s) + 1 /\ u[i] = k
  BY <1>1, <1>2
<1>4. IsSequence(u) /\ u # <<>> /\ u[1] = s[1]
  <2>1. IsSequence(u)
    BY <1>2, SequenceIs
  <2>2. 1 \in DOMAIN u /\ 1 # Len(s) + 1
    BY <1>2
  <2>3. u[1] = s[1]
    BY <1>3, <2>2
  <2>4. Len(u) # 0 /\ Len(<<>>) = 0
    BY <1>2
  <2> QED
    BY <2>1, <2>3, <2>4
<1> QED
  BY <1>1, <1>3, <1>4 DEF LedBy

LEMMA LedTail ==
  ASSUME NEW s, NEW k, LedBy(s, k), Tail(s) # <<>>
  PROVE  LedBy(Tail(s), Tail(s)[1]) /\ Quiet(Tail(s)[1])
<1> DEFINE t == Tail(s)
<1>1. /\ IsSequence(t) /\ Len(t) = Len(s) - 1 /\ IsSequence(s)
      /\ \A i \in 1 .. Len(t) : t[i] = s[i + 1] /\ i + 1 \in 2 .. Len(s)
  BY TailOf DEF LedBy
<1>2. DOMAIN t = 1 .. Len(t) /\ Len(t) \in Nat /\ DOMAIN s = 1 .. Len(s) /\ Len(s) \in Nat
  BY <1>1, SequenceSpan
<1>3. Len(t) # 0
  <2>1. t \in Seq({t[i] : i \in DOMAIN t})
    BY <1>1 DEF IsSequence
  <2> HIDE DEF t
  <2>2. t # <<>>
    BY DEF t
  <2> QED
    BY <2>1, <2>2
<1> HIDE DEF t
<1>4. \A i \in DOMAIN t : Quiet(t[i])
  <2>1. \A i \in 1 .. Len(t) : i + 1 # 1 /\ i + 1 \in DOMAIN s
    BY <1>1, <1>2
  <2> QED
    BY <1>1, <1>2, <2>1 DEF LedBy
<1>5. 1 \in DOMAIN t
  BY <1>2, <1>3
<1>6. LedBy(t, t[1]) /\ Quiet(t[1])
  BY <1>1, <1>3, <1>4, <1>5 DEF LedBy, t
<1> QED
  BY <1>6 DEF t

LEMMA QuietKinds ==
  /\ \A t, row : t # "agents" => Quiet(Inserting(t, row))
  /\ \A t, id, row : DOMAIN row \cap AgentFields = {} => Quiet(Updating(t, id, row))
BY DEF Quiet, Inserting, Updating

-----------------------------------------------------------------------------
\* A request that is at its new point what that point needs leaves the others in order.
LEMMA AgentRequestsStay ==
  ASSUME AgentRequests, NEW c \in Clients, NEW where \in AgentsPoints,
         pc' = [pc EXCEPT ![c] = where], DOMAIN loc' = Clients, served' \in Nat,
         served <= served', met \subseteq met', \A d \in Clients \ {c} : loc'[d] = loc[d],
         where # "idle" =>
            /\ AgentRequest(c)'
            /\ \A d \in Clients \ {c} :
                  InFlight(d) /\ {loc'[c].op, loc[d].op} \subseteq CreatingOps
                     => {loc'[c].op, loc[d].op} \in met'
  PROVE  AgentRequests'
<1>1. /\ pc' \in [Clients -> AgentsPoints] /\ pc'[c] = where
      /\ \A d \in Clients \ {c} : pc'[d] = pc[d]
  BY DEF AgentRequests
<1>2. \A d \in Clients \ {c} : InFlight(d)' <=> InFlight(d)
  BY <1>1 DEF InFlight
<1>3. ASSUME NEW d \in Clients \ {c}, AgentRequest(d) PROVE AgentRequest(d)'
  <2>1. pc'[d] = pc[d] /\ loc'[d] = loc[d]
    BY <1>1
  <2>2. Number(d)' = Number(d) /\ Number(d) \in 1 .. served'
    BY <1>3, <2>1 DEF AgentRequest, Number, AgentRequests
  <2>3. AgentCalls(d)' <=> AgentCalls(d)
    BY <2>1, <2>2 DEF AgentCalls, LedBy, Quiet, Creating, Seeding, FleetId
  <2> QED
    BY <1>3, <2>1, <2>2, <2>3 DEF AgentRequest, Walking
<1>4. \A d \in Clients : InFlight(d)' => AgentRequest(d)'
  BY <1>1, <1>2, <1>3 DEF AgentRequests, InFlight
<1>5. ASSUME NEW d \in Clients, NEW e \in Clients, InFlight(d)', InFlight(e)', d # e,
             {loc'[d].op, loc'[e].op} \subseteq CreatingOps
      PROVE  {loc'[d].op, loc'[e].op} \in met'
  <2>1. CASE d = c
    BY <1>1, <1>2, <1>5, <2>1 DEF InFlight
  <2>2. CASE e = c
    <3>1. {loc'[d].op, loc'[e].op} = {loc'[c].op, loc[d].op}
      BY <1>5, <2>2
    <3> QED
      BY <1>1, <1>2, <1>5, <2>2, <3>1 DEF InFlight
  <2>3. CASE d # c /\ e # c
    BY <1>2, <1>5, <2>3 DEF AgentRequests
  <2> QED
    BY <2>1, <2>2, <2>3
<1> QED
  BY <1>1, <1>4, <1>5 DEF AgentRequests

LEMMA AgentGoesOn ==
  ASSUME AgentRequests, NEW c \in Clients, InFlight(c),
         NEW where \in {"agent.current", "fleet.next", "calling"}, NEW locals,
         DOMAIN locals \cap {"op", "n", "org"} = {}, Goto(c, where, locals),
         UNCHANGED <<met, served>>,
         where = "calling" => AgentCalls(c)',
         Walking(c)' => /\ {"existing", "from"} \subseteq DOMAIN loc'[c]
                        /\ loc'[c].from \in Nat \ {0} /\ loc[c].op = "seedFleet"
  PROVE  AgentRequests'
<1>1. DOMAIN pc = Clients /\ DOMAIN loc = Clients /\ AgentRequest(c)
  BY DEF AgentRequests
<1>2. /\ pc' = [pc EXCEPT ![c] = where] /\ DOMAIN loc' = Clients
      /\ DOMAIN loc'[c] = DOMAIN locals \cup DOMAIN loc[c]
      /\ \A f \in DOMAIN loc[c] : f \notin DOMAIN locals => loc'[c][f] = loc[c][f]
      /\ \A d \in Clients \ {c} : loc'[d] = loc[d]
  BY <1>1, RequestGoesOn
<1>3. /\ {"op", "n", "org"} \subseteq DOMAIN loc'[c]
      /\ loc'[c].op = loc[c].op /\ loc'[c].n = loc[c].n
      /\ pc'[c] = where
  BY <1>1, <1>2 DEF AgentRequest
<1>4. AgentRequest(c)'
  BY <1>1, <1>3 DEF AgentRequest, Number
<1>5. where \in AgentsPoints /\ served \in Nat
  BY DEF AgentsPoints, AgentRequests
<1>6. \A d \in Clients \ {c} :
         InFlight(d) /\ {loc'[c].op, loc[d].op} \subseteq CreatingOps
            => {loc'[c].op, loc[d].op} \in met'
  BY <1>3 DEF AgentRequests
<1>7. served' \in Nat /\ served <= served' /\ met \subseteq met'
  BY <1>5
<1> QED
  BY <1>2, <1>4, <1>5, <1>6, <1>7, AgentRequestsStay

LEMMA AgentAnswers ==
  ASSUME AgentRequests, NEW c \in Clients, Respond(c), UNCHANGED <<met, served>>
  PROVE  AgentRequests' /\ InOrder(c)'
<1>1. /\ "idle" \in AgentsPoints /\ pc' = [pc EXCEPT ![c] = "idle"] /\ DOMAIN loc' = Clients
      /\ \A d \in Clients \ {c} : loc'[d] = loc[d]
      /\ served' \in Nat /\ served <= served'
  BY DEF AgentRequests, AgentsPoints, Respond
<1>2. pc'[c] = "idle"
  BY <1>1 DEF AgentRequests
<1> QED
  BY <1>1, <1>2, AgentRequestsStay DEF InOrder, Walking

-----------------------------------------------------------------------------
\* Agents keep what identifies them, and none is added.
NamesStay ==
  /\ "agents" \in DOMAIN db'
  /\ \A b \in db'["agents"] :
        /\ AgentFields \subseteq DOMAIN b
        /\ \E a \in db["agents"] : /\ b.id = a.id /\ b.name = a.name
                                   /\ b.organizationId = a.organizationId

LEMMA NamesStayAsRowsDo ==
  ASSUME AgentIds, UNCHANGED db
  PROVE  NamesStay
BY DEF AgentIds, NamesStay

LEMMA OrderStays ==
  ASSUME AgentIds, NamesStay, NEW c, InOrder(c), pc'[c] = pc[c], loc'[c] = loc[c]
  PROVE  InOrder(c)'
<1>1. Number(c)' = Number(c)
  BY DEF Number
<1>2. \A k, t : /\ Creating(c, k)' <=> Creating(c, k)
                /\ Seeding(c, k, t)' <=> Seeding(c, k, t)
  BY <1>1 DEF Creating, Seeding, FleetId
<1>3. Walking(c)' <=> Walking(c)
  BY DEF Walking
<1>4. \A org, name : Free(org, name) => Free(org, name)'
  BY DEF Free, NamesStay
<1>5. (\A a \in db["agents"] : a.id < 100 * Number(c))
         => \A a \in db'["agents"] : a.id < 100 * Number(c)
  BY DEF NamesStay
<1> HIDE DEF Number
<1>6. (pc[c] = "agent.create" \/ (pc[c] = "calling" /\ Creating(c, loc[c].calls[1])))'
         => \A a \in db'["agents"] : a.id < 100 * Number(c)'
  BY <1>1, <1>2, <1>5 DEF InOrder
<1>7. ASSUME NEW t \in DOMAIN FleetTemplates
      PROVE  /\ (/\ Walking(c) /\ t >= loc[c].from
                 /\ FleetTemplates[t] \notin loc[c].existing)'
                => Free(loc[c].org, FleetTemplates[t])'
             /\ (pc[c] = "calling" /\ Seeding(c, loc[c].calls[1], t))'
                => Free(loc[c].org, FleetTemplates[t])'
  BY <1>2, <1>3, <1>4 DEF InOrder
<1> QED
  BY <1>6, <1>7 DEF InOrder

LEMMA FirstStays ==
  ASSUME AgentIds, NamesStay, FleetFirst
  PROVE  FleetFirst'
<1> SUFFICES ASSUME NEW a \in db'["agents"], NEW b \in db'["agents"],
                    a.organizationId = b.organizationId, a.name = b.name, b.id % 100 # 0
             PROVE  a.id >= b.id
  BY DEF FleetFirst, Table, NamesStay
<1>1. PICK x \in db["agents"] : /\ a.id = x.id /\ a.name = x.name
                                /\ a.organizationId = x.organizationId
  BY DEF NamesStay
<1>2. PICK y \in db["agents"] : /\ b.id = y.id /\ b.name = y.name
                                /\ b.organizationId = y.organizationId
  BY DEF NamesStay
<1> QED
  BY <1>1, <1>2 DEF FleetFirst, Table, AgentIds

LEMMA IdsStay ==
  ASSUME AgentIds, NamesStay, served \in Nat, served' \in Nat, served <= served'
  PROVE  AgentIds'
<1> SUFFICES ASSUME NEW b \in db'["agents"]
             PROVE  AgentFields \subseteq DOMAIN b /\ b.id \in Int /\ b.id < 100 * served' + 100
  BY DEF AgentIds, NamesStay
<1>1. PICK a \in db["agents"] : b.id = a.id
  BY DEF NamesStay
<1>2. a.id \in Int /\ a.id < 100 * served + 100
  BY DEF AgentIds
<1> QED
  BY <1>1, <1>2 DEF NamesStay

\* A step that leaves the agents as they are, and after which its request is in order.
LEMMA OrderlyStays ==
  ASSUME AgentRequests, AgentIds, Orderly, NamesStay, AgentRequests', NEW c \in Clients,
         met \subseteq met', served <= served',
         \A d \in Clients \ {c} : pc'[d] = pc[d] /\ loc'[d] = loc[d],
         ~Met(CreatingOps) /\ FleetFirst /\ InOrder(c) => InOrder(c)'
  PROVE  AgentIds' /\ Orderly'
<1>1. served \in Nat /\ served' \in Nat
  BY DEF AgentRequests
<1>2. AgentIds'
  BY <1>1, IdsStay
<1>3. ~Met(CreatingOps)' => ~Met(CreatingOps)
  BY DEF Met, CreatingOps
<1>4. ASSUME ~Met(CreatingOps)' PROVE FleetFirst' /\ \A d \in Clients : InOrder(d)'
  <2>1. ~Met(CreatingOps) /\ FleetFirst /\ \A d \in Clients : InOrder(d)
    BY <1>3, <1>4 DEF Orderly
  <2>2. FleetFirst'
    BY <2>1, FirstStays
  <2>3. \A d \in Clients \ {c} : InOrder(d)'
    BY <2>1, OrderStays
  <2> QED
    BY <2>1, <2>2, <2>3
<1> QED
  BY <1>2, <1>4 DEF Orderly

\* Quiet calls, or none, that a request is left with before it answers.
LEMMA QuietCallsKeep ==
  ASSUME AgentRequests, NEW c \in Clients, InFlight(c), NEW calls,
         Calling(c, calls, "idle"), UNCHANGED <<met, served>>,
         calls = <<>> \/ \E k : Quiet(k) /\ LedBy(calls, k)
  PROVE  AgentRequests' /\ InOrder(c)'
<1> DEFINE locals == [calls |-> calls, next |-> "idle"]
<1>1. CASE calls = <<>>
  <2>1. Respond(c)
    BY <1>1 DEF Calling
  <2> QED
    BY <2>1, AgentAnswers
<1>2. CASE calls # <<>>
  <2>1. Goto(c, "calling", locals)
    BY <1>2 DEF Calling
  <2>2. /\ DOMAIN locals = {"calls", "next"}
        /\ locals["calls"] = calls /\ locals["next"] = "idle"
    OBVIOUS
  <2> HIDE DEF locals
  <2>3. DOMAIN pc = Clients /\ DOMAIN loc = Clients
    BY DEF AgentRequests
  <2>4. /\ pc'[c] = "calling" /\ {"calls", "next"} \subseteq DOMAIN loc'[c]
        /\ loc'[c].calls = calls /\ loc'[c].next = "idle"
    BY <2>1, <2>2, <2>3, RequestGoesOn
  <2>5. Quiet(calls[1]) /\ LedBy(calls, calls[1])
    BY <1>2 DEF LedBy
  <2>6. AgentCalls(c)' /\ ~Walking(c)'
    BY <2>4, <2>5 DEF AgentCalls, Walking, LedBy, Quiet
  <2>7. AgentRequests'
    BY <2>1, <2>2, <2>6, AgentGoesOn
  <2>8. InOrder(c)'
    BY <2>4, <2>5, <2>6 DEF InOrder, Quiet, Creating, Seeding
  <2> QED
    BY <2>7, <2>8
<1> QED
  BY <1>1, <1>2

-----------------------------------------------------------------------------
\* The steps of the requests.
LEMMA InsertAgentKeeps ==
  ASSUME AgentRequests, NEW c \in Clients, InsertAgent(c), UNCHANGED <<db, met, served>>
  PROVE  AgentRequests' /\ (InOrder(c) => InOrder(c)')
<1> DEFINE row == [id |-> Under(Number(c), 0), organizationId |-> loc[c].org,
                   name |-> loc[c].name, status |-> "draft", systemId |-> None,
                   savedBy |-> Number(c)]
           first == Inserting("agents", row)
           calls == CreatingAgent(c, Under(Number(c), 0), loc[c].name)
                       \o <<Auditing(c, "agent.created", Number(c))>>
           locals == [calls |-> calls, next |-> "idle"]
<1>1. pc[c] = "agent.create" /\ Calling(c, calls, "idle")
  BY DEF InsertAgent, At
<1>2. InFlight(c) /\ AgentRequest(c) /\ DOMAIN pc = Clients /\ DOMAIN loc = Clients
  BY <1>1 DEF AgentRequests, InFlight
<1>3. /\ first.call = "insert" /\ first.table = "agents"
      /\ AgentFields \subseteq DOMAIN first.row /\ first.row.id = 100 * Number(c)
  <2>1. Under(Number(c), 0) = 100 * Number(c)
    BY <1>2 DEF AgentRequest, AgentRequests, Under
  <2> QED
    BY <2>1 DEF Inserting, AgentFields
<1>4. LedBy(calls, first)
  <2>1. /\ Quiet(NewVersion(c, Under(Number(c), 0), 1))
        /\ Quiet(Auditing(c, "agent.created", Number(c)))
    BY QuietKinds DEF NewVersion, Auditing
  <2>2. LedBy(CreatingAgent(c, Under(Number(c), 0), loc[c].name), first)
    BY <2>1, LedTwo DEF CreatingAgent
  <2> QED
    BY <2>1, <2>2, LedMore
<1>5. /\ DOMAIN locals = {"calls", "next"}
      /\ locals["calls"] = calls /\ locals["next"] = "idle"
  OBVIOUS
<1> HIDE DEF calls
<1>6. Goto(c, "calling", locals)
  BY <1>1, <1>4 DEF Calling, LedBy
<1> HIDE DEF locals, first, row
<1>7. /\ pc'[c] = "calling" /\ {"calls", "next"} \subseteq DOMAIN loc'[c]
      /\ loc'[c].calls = calls /\ loc'[c].next = "idle"
      /\ loc'[c].op = "createAgent" /\ loc'[c].n = loc[c].n
  BY <1>1, <1>2, <1>5, <1>6, RequestGoesOn DEF AgentRequest
<1>8. Creating(c, loc[c].calls[1])'
  <2>1. loc'[c].calls[1] = first
    BY <1>4, <1>7 DEF LedBy
  <2>2. 100 * Number(c)' = 100 * Number(c)
    BY <1>7 DEF Number
  <2> QED
    BY <1>3, <1>7, <2>1, <2>2 DEF Creating
<1>9. AgentCalls(c)' /\ ~Walking(c)'
  <2>1. LedBy(loc[c].calls, loc[c].calls[1])'
    BY <1>4, <1>7 DEF LedBy, Quiet
  <2> QED
    BY <1>7, <1>8, <2>1 DEF AgentCalls, Walking
<1>10. AgentRequests'
  BY <1>2, <1>5, <1>6, <1>9, AgentGoesOn
<1>11. ASSUME InOrder(c) PROVE InOrder(c)'
  <2>1. \A a \in db'["agents"] : a.id < 100 * Number(c)'
    BY <1>1, <1>7, <1>11 DEF InOrder, Number
  <2> QED
    BY <1>7, <1>9, <2>1 DEF InOrder, Seeding
<1> QED
  BY <1>10, <1>11

LEMMA ReadAgentKeeps ==
  ASSUME AgentRequests, NEW c \in Clients, ReadAgent(c), UNCHANGED <<db, met, served>>
  PROVE  AgentRequests' /\ InOrder(c)'
<1>1. pc[c] = "agent.read" /\ (Respond(c) \/ Goto(c, "agent.current", Nothing))
  BY DEF ReadAgent, At
<1>2. CASE Respond(c)
  BY <1>2, AgentAnswers
<1>3. CASE Goto(c, "agent.current", Nothing)
  <2>1. InFlight(c) /\ DOMAIN pc = Clients /\ DOMAIN loc = Clients
    BY <1>1 DEF AgentRequests, InFlight
  <2>2. DOMAIN Nothing = {"calls"}
    BY DEF Nothing
  <2>3. pc'[c] = "agent.current"
    BY <1>3, <2>1, RequestGoesOn
  <2>4. AgentRequests'
    BY <1>3, <2>1, <2>2, <2>3, AgentGoesOn DEF Walking
  <2> QED
    BY <2>3, <2>4 DEF InOrder, Walking
<1> QED
  BY <1>1, <1>2, <1>3

LEMMA SaveAgentVersionKeeps ==
  ASSUME AgentRequests, NEW c \in Clients, SaveAgentVersion(c), UNCHANGED <<db, met, served>>
  PROVE  AgentRequests' /\ InOrder(c)'
<1> DEFINE saving == SavingVersion(c, loc[c].agent)
           logged == Auditing(c, "agent.version_saved", Number(c))
           first == NewVersion(c, loc[c].agent, CurrentVersion(loc[c].agent) + 1)
           patch == [savedBy |-> Number(c)]
<1>1. pc[c] = "agent.current" /\ Calling(c, saving \o <<logged>>, "idle")
  BY DEF SaveAgentVersion, At
<1>2. DOMAIN patch \cap AgentFields = {}
  BY DEF AgentFields
<1>3. Quiet(first) /\ Quiet(logged) /\ Quiet(Updating("agents", loc[c].agent, patch))
  BY <1>2, QuietKinds DEF NewVersion, Auditing
<1>4. LedBy(saving, first)
  BY <1>3, LedTwo DEF SavingVersion
<1> HIDE DEF saving, logged, first
<1>5. LedBy(saving \o <<logged>>, first)
  BY <1>3, <1>4, LedMore
<1>6. InFlight(c)
  BY <1>1 DEF InFlight
<1> QED
  BY <1>1, <1>3, <1>5, <1>6, QuietCallsKeep

LEMMA SetAgentStatusKeeps ==
  ASSUME AgentRequests, NEW c \in Clients, SetAgentStatus(c), UNCHANGED <<db, met, served>>
  PROVE  AgentRequests' /\ InOrder(c)'
<1> DEFINE logged == Auditing(c, "agent.status_changed", Number(c))
           patch == [status |-> loc[c].status]
           first == Updating("agents", loc[c].agent, patch)
<1>1. /\ pc[c] = "agent.status"
      /\ Calling(c, <<logged>>, "idle") \/ Calling(c, <<first>> \o <<logged>>, "idle")
  BY DEF SetAgentStatus, At
<1>2. DOMAIN patch \cap AgentFields = {}
  BY DEF AgentFields
<1>3. Quiet(first) /\ Quiet(logged)
  BY <1>2, QuietKinds DEF Auditing
<1> HIDE DEF logged, first
<1>4. LedBy(<<logged>>, logged) /\ LedBy(<<first>> \o <<logged>>, first)
  BY <1>3, LedOne, LedMore
<1>5. InFlight(c)
  BY <1>1 DEF InFlight
<1> QED
  BY <1>1, <1>3, <1>4, <1>5, QuietCallsKeep

LEMMA ReadFleetKeeps ==
  ASSUME AgentRequests, NEW c \in Clients, ReadFleet(c), UNCHANGED <<db, met, served>>
  PROVE  AgentRequests' /\ InOrder(c)'
<1> DEFINE names == {a.name : a \in {a \in db["agents"] : a.organizationId = loc[c].org}}
           locals == [existing |-> names, from |-> 1]
<1>1. pc[c] = "fleet.names" /\ Goto(c, "fleet.next", locals)
  BY DEF ReadFleet, At
<1>2. InFlight(c) /\ AgentRequest(c) /\ DOMAIN pc = Clients /\ DOMAIN loc = Clients
  BY <1>1 DEF AgentRequests, InFlight
<1>3. /\ DOMAIN locals = {"existing", "from"}
      /\ locals["existing"] = names /\ locals["from"] = 1
  OBVIOUS
<1>4. \A name : name \notin names => Free(loc[c].org, name)
  BY DEF Free
<1> HIDE DEF names, locals
<1>5. /\ pc'[c] = "fleet.next" /\ {"existing", "from"} \subseteq DOMAIN loc'[c]
      /\ loc'[c].existing = names /\ loc'[c].from = 1
      /\ loc'[c].org = loc[c].org
  BY <1>1, <1>2, <1>3, RequestGoesOn DEF AgentRequest
<1>6. loc[c].op = "seedFleet"
  BY <1>1, <1>2 DEF AgentRequest
<1>7. AgentRequests'
  BY <1>1, <1>2, <1>3, <1>5, <1>6, AgentGoesOn
<1>8. \A org, name : Free(org, name)' <=> Free(org, name)
  BY DEF Free
<1> QED
  BY <1>4, <1>5, <1>7, <1>8 DEF InOrder

LEMMA SeedNextKeeps ==
  ASSUME AgentRequests, NEW c \in Clients, SeedNext(c), UNCHANGED <<db, met, served>>
  PROVE  AgentRequests' /\ (InOrder(c) => InOrder(c)')
<1>1. pc[c] = "fleet.next"
  BY DEF SeedNext, At
<1>2. InFlight(c) /\ AgentRequest(c) /\ DOMAIN pc = Clients /\ DOMAIN loc = Clients
  BY <1>1 DEF AgentRequests, InFlight
<1>3. ASSUME Calling(c, <<>>, "idle") \/ Calling(c, <<Auditing(c, "fleet.seeded", Number(c))>>, "idle")
      PROVE  AgentRequests' /\ InOrder(c)'
  <2> DEFINE logged == Auditing(c, "fleet.seeded", Number(c))
  <2>1. Quiet(logged)
    BY QuietKinds DEF Auditing
  <2> HIDE DEF logged
  <2>2. LedBy(<<logged>>, logged)
    BY LedOne
  <2>3. ASSUME Calling(c, <<>>, "idle") PROVE AgentRequests' /\ InOrder(c)'
    BY <1>2, <2>3, QuietCallsKeep
  <2>4. ASSUME Calling(c, <<logged>>, "idle") PROVE AgentRequests' /\ InOrder(c)'
    BY <1>2, <2>1, <2>2, <2>4, QuietCallsKeep
  <2> QED
    BY <1>3, <2>3, <2>4 DEF logged
<1>4. ASSUME NEW k \in MissingLeft(c), CreateMissing(c, k)
      PROVE  AgentRequests' /\ (InOrder(c) => InOrder(c)')
  <2> DEFINE id == FleetId(c, k)
             name == FleetTemplates[k]
             row == [id |-> id, organizationId |-> loc[c].org, name |-> name,
                     status |-> "draft", systemId |-> None, savedBy |-> Number(c)]
             first == Inserting("agents", row)
             calls == CreatingAgent(c, id, name)
             locals == [from |-> k + 1, next |-> "fleet.next", calls |-> calls]
  <2>1. /\ loc[c].from \in Nat \ {0} /\ loc[c].op = "seedFleet"
        /\ {"existing", "from"} \subseteq DOMAIN loc[c]
    BY <1>1, <1>2 DEF AgentRequest, Walking
  <2>2. /\ k \in Nat \ {0} /\ k \in DOMAIN FleetTemplates /\ k >= loc[c].from
        /\ FleetTemplates[k] \notin loc[c].existing
    BY <1>4, <2>1, AgentsAssumption DEF MissingLeft
  <2>3. /\ first.call = "insert" /\ first.table = "agents"
        /\ AgentFields \subseteq DOMAIN first.row /\ first.row.id = id
        /\ first.row.name = name /\ first.row.organizationId = loc[c].org
    BY DEF Inserting, AgentFields
  <2>4. LedBy(calls, first)
    <3>1. Quiet(NewVersion(c, id, 1))
      BY QuietKinds DEF NewVersion
    <3> QED
      BY <3>1, LedTwo DEF CreatingAgent
  <2>5. /\ DOMAIN locals = {"from", "next", "calls"}
        /\ locals["calls"] = calls /\ locals["next"] = "fleet.next" /\ locals["from"] = k + 1
    OBVIOUS
  <2>6. Goto(c, "calling", locals)
    BY <1>4 DEF CreateMissing
  <2> HIDE DEF locals, calls, first, row
  <2>7. /\ pc'[c] = "calling" /\ {"calls", "next", "existing", "from"} \subseteq DOMAIN loc'[c]
        /\ loc'[c].calls = calls /\ loc'[c].next = "fleet.next" /\ loc'[c].from = k + 1
        /\ loc'[c].op = loc[c].op /\ loc'[c].n = loc[c].n /\ loc'[c].org = loc[c].org
        /\ loc'[c].existing = loc[c].existing
    BY <1>2, <2>1, <2>5, <2>6, RequestGoesOn DEF AgentRequest
  <2>8. Seeding(c, loc[c].calls[1], k)'
    <3>1. loc'[c].calls[1] = first
      BY <2>4, <2>7 DEF LedBy
    <3>2. FleetId(c, k)' = FleetId(c, k)
      BY <2>7 DEF FleetId, Number
    <3> QED
      BY <2>1, <2>3, <2>7, <3>1, <3>2 DEF Seeding
  <2>9. AgentCalls(c)'
    <3>1. LedBy(loc[c].calls, loc[c].calls[1])'
      BY <2>4, <2>7 DEF LedBy, Quiet
    <3> QED
      BY <2>2, <2>7, <2>8, <3>1 DEF AgentCalls
  <2>10. AgentRequests'
    <3>1. loc'[c].from \in Nat \ {0}
      BY <2>2, <2>7
    <3> QED
      BY <1>2, <2>1, <2>5, <2>6, <2>7, <2>9, <3>1, AgentGoesOn
  <2>11. ASSUME InOrder(c) PROVE InOrder(c)'
    <3>1. \A t \in DOMAIN FleetTemplates :
             t >= loc[c].from /\ FleetTemplates[t] \notin loc[c].existing
                => Free(loc[c].org, FleetTemplates[t])
      BY <1>1, <2>11 DEF InOrder, Walking
    <3>2. \A t \in DOMAIN FleetTemplates : t \in Nat
      BY AgentsAssumption
    <3>3. \A org, n : Free(org, n)' <=> Free(org, n)
      BY DEF Free
    <3>4. ASSUME NEW t \in DOMAIN FleetTemplates, t >= k + 1,
                 FleetTemplates[t] \notin loc[c].existing
          PROVE  Free(loc[c].org, FleetTemplates[t])
      <4>1. t >= loc[c].from
        BY <2>1, <2>2, <3>2, <3>4
      <4> QED
        BY <3>1, <3>4, <4>1
    <3>5. ASSUME NEW t \in DOMAIN FleetTemplates, Seeding(c, loc[c].calls[1], t)'
          PROVE  t = k
      BY <2>2, <2>7, <3>2, <3>5 DEF Seeding
    <3>6. Free(loc[c].org, FleetTemplates[k])
      BY <2>2, <3>1
    <3>7. ~Creating(c, loc[c].calls[1])'
      BY <2>1, <2>7 DEF Creating
    <3> QED
      BY <2>7, <3>3, <3>4, <3>5, <3>6, <3>7 DEF InOrder
  <2> QED
    BY <2>10, <2>11
<1>5. \/ Calling(c, <<>>, "idle")
      \/ Calling(c, <<Auditing(c, "fleet.seeded", Number(c))>>, "idle")
      \/ \E k \in MissingLeft(c) : CreateMissing(c, k)
  BY DEF SeedNext
<1> QED
  BY <1>3, <1>4, <1>5

LEMMA AgentsStepKeeps ==
  ASSUME AgentRequests, AgentIds, Orderly, NEW c \in Clients, AgentsStep(c)
  PROVE  AgentRequests' /\ AgentIds' /\ Orderly'
<1>1. UNCHANGED <<db, served, met>>
  BY StepsLeave
<1>2. AgentRequests' /\ (InOrder(c) => InOrder(c)')
  BY <1>1, InsertAgentKeeps, ReadAgentKeeps, SaveAgentVersionKeeps, SetAgentStatusKeeps,
     ReadFleetKeeps, SeedNextKeeps DEF AgentsStep
<1>3. \A d \in Clients \ {c} : pc'[d] = pc[d] /\ loc'[d] = loc[d]
  <2>1. Moves(c)
    BY AgentsMove
  <2> QED
    BY <2>1 DEF Moves, Respond, Goto, AgentRequests
<1>4. NamesStay
  BY <1>1, NamesStayAsRowsDo
<1>5. served <= served'
  BY <1>1 DEF AgentRequests
<1> QED
  BY <1>1, <1>2, <1>3, <1>4, <1>5, OrderlyStays

-----------------------------------------------------------------------------
\* After a call its request answers, or is left with quiet calls, or looks for the next
\* template.
LEMMA AfterCall ==
  ASSUME AgentRequests, NEW c \in Clients, StoreCall(c)
  PROVE  /\ AgentRequests' /\ UNCHANGED <<served, met>>
         /\ \A d \in Clients \ {c} : pc'[d] = pc[d] /\ loc'[d] = loc[d]
         /\ pc'[c] \in {"idle", "calling", "fleet.next"}
         /\ pc'[c] = "calling" => Quiet(loc'[c].calls[1])
         /\ Walking(c)' => /\ Walking(c) /\ loc'[c].from = loc[c].from
                           /\ loc'[c].existing = loc[c].existing
                           /\ loc'[c].org = loc[c].org
<1> DEFINE rest == Tail(loc[c].calls)
           locals == [calls |-> rest]
<1>1. pc[c] = "calling" /\ UNCHANGED <<served, met>>
  BY DEF StoreCall, At, history
<1>2. InFlight(c) /\ AgentRequest(c) /\ DOMAIN pc = Clients /\ DOMAIN loc = Clients
  BY <1>1 DEF AgentRequests, InFlight
<1>3. /\ AgentCalls(c) /\ loc[c].next \in {"idle", "fleet.next"}
      /\ {"calls", "next"} \subseteq DOMAIN loc[c]
      /\ LedBy(loc[c].calls, loc[c].calls[1])
  BY <1>1, <1>2 DEF AgentRequest, AgentCalls
<1>4. \/ Respond(c)
      \/ rest # <<>> /\ Goto(c, "calling", locals)
      \/ loc[c].next # "idle" /\ Goto(c, loc[c].next, Nothing)
  BY DEF StoreCall
<1>5. rest # <<>> => LedBy(rest, rest[1]) /\ Quiet(rest[1])
  BY <1>3, LedTail
<1>6. Walking(c) => /\ {"existing", "from"} \subseteq DOMAIN loc[c]
                    /\ loc[c].from \in Nat \ {0} /\ loc[c].op = "seedFleet"
  BY <1>2 DEF AgentRequest
<1>7. CASE Respond(c)
  <2>1. AgentRequests'
    BY <1>1, <1>7, AgentAnswers
  <2>2. pc'[c] = "idle" /\ \A d \in Clients \ {c} : pc'[d] = pc[d] /\ loc'[d] = loc[d]
    BY <1>2, <1>7 DEF Respond
  <2> QED
    BY <1>1, <2>1, <2>2 DEF Walking
<1>8. CASE rest # <<>> /\ Goto(c, "calling", locals)
  <2>1. DOMAIN locals = {"calls"} /\ locals["calls"] = rest
    OBVIOUS
  <2> HIDE DEF rest, locals
  <2>2. /\ pc' = [pc EXCEPT ![c] = "calling"]
        /\ DOMAIN loc'[c] = {"calls"} \cup DOMAIN loc[c]
        /\ \A f \in DOMAIN locals : loc'[c][f] = locals[f]
        /\ \A f \in DOMAIN loc[c] : f \notin DOMAIN locals => loc'[c][f] = loc[c][f]
        /\ \A d \in Clients \ {c} : loc'[d] = loc[d]
    BY <1>2, <1>8, <2>1, RequestGoesOn
  <2>3. pc'[c] = "calling" /\ \A d \in Clients \ {c} : pc'[d] = pc[d]
    BY <1>2, <2>2
  <2>4. /\ {"calls", "next"} \subseteq DOMAIN loc'[c] /\ loc'[c].calls = rest
        /\ loc'[c].next = loc[c].next /\ loc'[c].org = loc[c].org
        /\ \A f \in {"existing", "from"} \cap DOMAIN loc[c] : loc'[c][f] = loc[c][f]
    BY <1>2, <1>3, <2>1, <2>2 DEF AgentRequest
  <2>5. AgentCalls(c)'
    <3>1. LedBy(loc[c].calls, loc[c].calls[1])' /\ Quiet(loc[c].calls[1])'
      BY <1>5, <1>8, <2>4 DEF LedBy, Quiet
    <3> QED
      BY <1>3, <2>4, <3>1 DEF AgentCalls
  <2>6. Walking(c)' => /\ Walking(c) /\ loc'[c].from = loc[c].from
                       /\ loc'[c].existing = loc[c].existing
                       /\ loc'[c].org = loc[c].org
                       /\ {"existing", "from"} \subseteq DOMAIN loc'[c]
    BY <1>1, <1>6, <2>2, <2>3, <2>4 DEF Walking
  <2>7. AgentRequests'
    BY <1>1, <1>2, <1>6, <1>8, <2>1, <2>5, <2>6, AgentGoesOn
  <2> QED
    BY <1>1, <1>5, <1>8, <2>2, <2>3, <2>4, <2>6, <2>7
<1>9. CASE loc[c].next # "idle" /\ Goto(c, loc[c].next, Nothing)
  <2>1. Goto(c, "fleet.next", Nothing) /\ Walking(c)
    BY <1>1, <1>3, <1>9 DEF Walking
  <2>2. DOMAIN Nothing = {"calls"}
    BY DEF Nothing
  <2>3. /\ pc' = [pc EXCEPT ![c] = "fleet.next"]
        /\ DOMAIN loc'[c] = {"calls"} \cup DOMAIN loc[c]
        /\ \A f \in DOMAIN loc[c] : f \notin DOMAIN Nothing => loc'[c][f] = loc[c][f]
        /\ \A d \in Clients \ {c} : loc'[d] = loc[d]
    BY <1>2, <2>1, <2>2, RequestGoesOn
  <2>4. pc'[c] = "fleet.next" /\ \A d \in Clients \ {c} : pc'[d] = pc[d]
    BY <1>2, <2>3
  <2>5. /\ loc'[c].org = loc[c].org /\ loc'[c].from = loc[c].from
        /\ loc'[c].existing = loc[c].existing
        /\ {"existing", "from"} \subseteq DOMAIN loc'[c]
    BY <1>2, <1>6, <2>1, <2>2, <2>3 DEF AgentRequest
  <2>6. AgentRequests'
    BY <1>1, <1>2, <1>6, <2>1, <2>2, <2>4, <2>5, AgentGoesOn
  <2> QED
    BY <1>1, <2>1, <2>3, <2>4, <2>5, <2>6
<1> QED
  BY <1>4, <1>7, <1>8, <1>9

\* A quiet call leaves the agents their names.
LEMMA QuietCallNames ==
  ASSUME AgentIds, NEW k, Quiet(k),
         \/ db' = db
         \/ k.call = "insert" /\ db' = InsertRow(k.table, k.row)
         \/ k.call = "update" /\ db' = UpdateRow(k.table, k.id, k.row)
  PROVE  NamesStay
<1>1. CASE db'["agents"] = db["agents"] /\ "agents" \in DOMAIN db'
  BY <1>1 DEF NamesStay, AgentIds
<1>2. CASE db' = db
  BY <1>1, <1>2 DEF AgentIds
<1>3. CASE k.call = "insert" /\ db' = InsertRow(k.table, k.row)
  BY <1>1, <1>3 DEF AgentIds, InsertRow, Quiet
<1>4. CASE k.call = "update" /\ db' = UpdateRow(k.table, k.id, k.row)
  <2>1. CASE k.table # "agents"
    BY <1>1, <1>4, <2>1 DEF AgentIds, UpdateRow
  <2>2. CASE k.table = "agents"
    <3>1. /\ "agents" \in DOMAIN db'
          /\ db'["agents"] = {IF r.id = k.id THEN Over(k.row, r) ELSE r : r \in db["agents"]}
      BY <1>4, <2>2 DEF UpdateRow, AgentIds
    <3>2. ASSUME NEW r \in db["agents"]
          PROVE  /\ AgentFields \subseteq DOMAIN Over(k.row, r)
                 /\ \A f \in AgentFields : Over(k.row, r)[f] = r[f]
      <4>1. AgentFields \subseteq DOMAIN r /\ DOMAIN k.row \cap AgentFields = {}
        BY <2>2 DEF AgentIds, Quiet
      <4>2. /\ DOMAIN Over(k.row, r) = DOMAIN k.row \cup DOMAIN r
            /\ \A f \in DOMAIN r : f \notin DOMAIN k.row => Over(k.row, r)[f] = r[f]
        BY Overwritten
      <4> QED
        BY <4>1, <4>2
    <3>3. /\ "id" \in AgentFields /\ "name" \in AgentFields /\ "organizationId" \in AgentFields
      BY DEF AgentFields
    <3>4. ASSUME NEW b \in db'["agents"]
          PROVE  /\ AgentFields \subseteq DOMAIN b
                 /\ \E a \in db["agents"] : /\ b.id = a.id /\ b.name = a.name
                                            /\ b.organizationId = a.organizationId
      <4>1. PICK r \in db["agents"] : b = r \/ b = Over(k.row, r)
        BY <3>1
      <4>2. CASE b = r
        BY <4>2 DEF AgentIds
      <4>3. CASE b = Over(k.row, r)
        BY <3>2, <3>3, <4>3
      <4> QED
        BY <4>1, <4>2, <4>3
    <3> QED
      BY <3>1, <3>4 DEF NamesStay
  <2> QED
    BY <2>1, <2>2
<1> QED
  BY <1>2, <1>3, <1>4

-----------------------------------------------------------------------------
\* A request that neither creates an agent nor seeds the fleet adds nothing.
LEMMA OthersInOrder ==
  ASSUME AgentRequests', NEW d \in Clients,
         (InFlight(d) => loc[d].op \notin CreatingOps)'
  PROVE  InOrder(d)'
<1>1. CASE pc'[d] = "idle"
  BY <1>1 DEF InOrder, Walking
<1>2. CASE pc'[d] # "idle"
  <2>1. AgentRequest(d)' /\ loc'[d].op # "createAgent" /\ loc'[d].op # "seedFleet"
    BY <1>2 DEF AgentRequests, InFlight, CreatingOps
  <2>2. pc'[d] # "agent.create" /\ ~Walking(d)'
    BY <2>1 DEF AgentRequest
  <2>3. /\ ~Creating(d, loc[d].calls[1])'
        /\ \A t : ~Seeding(d, loc[d].calls[1], t)'
    BY <2>1 DEF Creating, Seeding
  <2> QED
    BY <2>2, <2>3 DEF InOrder
<1> QED
  BY <1>1, <1>2

\* While no two requests that add agents meet, a call that adds one leaves the requests
\* other than its own in order.
LEMMA AloneAdding ==
  ASSUME AgentRequests, AgentRequests', NEW c \in Clients, InFlight(c),
         loc[c].op \in CreatingOps, ~Met(CreatingOps),
         \A d \in Clients \ {c} : pc'[d] = pc[d] /\ loc'[d] = loc[d]
  PROVE  \A d \in Clients \ {c} : InOrder(d)'
<1> SUFFICES ASSUME NEW d \in Clients \ {c} PROVE InOrder(d)'
  OBVIOUS
<1>1. ASSUME InFlight(d), loc[d].op \in CreatingOps PROVE FALSE
  <2>1. {loc[c].op, loc[d].op} \in met /\ {loc[c].op, loc[d].op} \subseteq CreatingOps
    BY <1>1 DEF AgentRequests
  <2> QED
    BY <2>1 DEF Met
<1>2. (InFlight(d) => loc[d].op \notin CreatingOps)'
  BY <1>1 DEF InFlight
<1> QED
  BY <1>2, OthersInOrder

LEMMA AddedIds ==
  ASSUME AgentIds, NEW row, db' = InsertRow("agents", row), AgentFields \subseteq DOMAIN row,
         row.id \in Int, row.id < 100 * served + 100, served' = served
  PROVE  AgentIds' /\ db'["agents"] = db["agents"] \cup {row}
BY DEF AgentIds, InsertRow

\* After its call a request is in order if nobody bears the names it still has to give.
LEMMA AfterCallInOrder ==
  ASSUME AgentRequests, NEW c \in Clients, StoreCall(c),
         ASSUME NEW t \in DOMAIN FleetTemplates, Walking(c), t >= loc[c].from,
                FleetTemplates[t] \notin loc[c].existing
         PROVE  \A a \in db'["agents"] : \/ a.organizationId # loc[c].org
                                         \/ a.name # FleetTemplates[t]
  PROVE  InOrder(c)'
<1>1. /\ pc'[c] \in {"idle", "calling", "fleet.next"}
      /\ pc'[c] = "calling" => Quiet(loc'[c].calls[1])
      /\ Walking(c)' => /\ Walking(c) /\ loc'[c].from = loc[c].from
                        /\ loc'[c].existing = loc[c].existing
                        /\ loc'[c].org = loc[c].org
  BY AfterCall
<1>2. pc'[c] = "calling" => /\ ~Creating(c, loc[c].calls[1])'
                            /\ \A t : ~Seeding(c, loc[c].calls[1], t)'
  BY <1>1 DEF Quiet, Creating, Seeding
<1>3. ASSUME NEW t \in DOMAIN FleetTemplates, Walking(c)', (t >= loc[c].from)',
             (FleetTemplates[t] \notin loc[c].existing)'
      PROVE  Free(loc[c].org, FleetTemplates[t])'
  <2>1. /\ Walking(c) /\ t >= loc[c].from /\ FleetTemplates[t] \notin loc[c].existing
        /\ loc'[c].org = loc[c].org
    BY <1>1, <1>3
  <2>2. \A a \in db'["agents"] : a.organizationId # loc[c].org \/ a.name # FleetTemplates[t]
    BY <2>1
  <2> QED
    BY <2>1, <2>2 DEF Free
<1> QED
  BY <1>1, <1>2, <1>3 DEF InOrder

-----------------------------------------------------------------------------
\* A call that adds the agent that was asked for.
LEMMA CreatingKeeps ==
  ASSUME AgentRequests, AgentIds, Orderly, NEW c \in Clients, StoreCall(c),
         NEW k, Creating(c, k), k = loc[c].calls[1], db' = InsertRow("agents", k.row)
  PROVE  AgentIds' /\ Orderly'
<1>1. /\ pc[c] = "calling" /\ AgentRequests' /\ UNCHANGED <<served, met>>
      /\ \A d \in Clients \ {c} : pc'[d] = pc[d] /\ loc'[d] = loc[d]
  BY AfterCall DEF StoreCall, At
<1>2. InFlight(c) /\ AgentRequest(c) /\ served \in Nat
  BY <1>1 DEF AgentRequests, InFlight
<1>3. /\ AgentFields \subseteq DOMAIN k.row /\ k.row.id = 100 * Number(c)
      /\ loc[c].op = "createAgent" /\ Number(c) \in 1 .. served
  BY <1>2 DEF Creating, AgentRequest
<1>4. /\ k.row.id \in Int /\ k.row.id < 100 * served + 100 /\ k.row.id % 100 = 0
  BY <1>2, <1>3
<1>5. AgentIds' /\ db'["agents"] = db["agents"] \cup {k.row}
  BY <1>1, <1>3, <1>4, AddedIds
<1>6. ASSUME ~Met(CreatingOps)' PROVE FleetFirst' /\ \A d \in Clients : InOrder(d)'
  <2>1. ~Met(CreatingOps) /\ FleetFirst /\ InOrder(c)
    BY <1>1, <1>6 DEF Orderly, Met, CreatingOps
  <2>2. \A a \in db["agents"] : a.id < k.row.id /\ a.id \in Int
    BY <1>1, <1>3, <2>1 DEF InOrder, AgentIds
  <2>3. FleetFirst'
    <3> SUFFICES ASSUME NEW a \in db'["agents"], NEW b \in db'["agents"],
                        a.organizationId = b.organizationId, a.name = b.name,
                        b.id % 100 # 0
                 PROVE  a.id >= b.id
      BY <1>5 DEF FleetFirst, Table, AgentIds
    <3>1. b \in db["agents"]
      BY <1>4, <1>5
    <3>2. CASE a \in db["agents"]
      BY <2>1, <3>1, <3>2 DEF FleetFirst, Table, AgentIds
    <3>3. CASE a = k.row
      BY <1>4, <2>2, <3>1, <3>3
    <3> QED
      BY <1>5, <3>2, <3>3
  <2>4. ~Walking(c)
    BY <1>2, <1>3 DEF AgentRequest
  <2>5. InOrder(c)'
    BY <2>4, AfterCallInOrder
  <2>6. loc[c].op \in CreatingOps
    BY <1>3 DEF CreatingOps
  <2>7. \A d \in Clients \ {c} : InOrder(d)'
    BY <1>1, <1>2, <2>1, <2>6, AloneAdding
  <2> QED
    BY <2>3, <2>5, <2>7
<1> QED
  BY SMTT(30), <1>5, <1>6 DEF Orderly

\* A call that adds an agent of the fleet.
LEMMA SeedingKeeps ==
  ASSUME AgentRequests, AgentIds, Orderly, NEW c \in Clients, StoreCall(c),
         NEW t \in DOMAIN FleetTemplates,
         NEW k, Seeding(c, k, t), k = loc[c].calls[1], db' = InsertRow("agents", k.row)
  PROVE  AgentIds' /\ Orderly'
<1>1. /\ pc[c] = "calling" /\ AgentRequests' /\ UNCHANGED <<served, met>>
      /\ \A d \in Clients \ {c} : pc'[d] = pc[d] /\ loc'[d] = loc[d]
  BY AfterCall DEF StoreCall, At
<1>2. InFlight(c) /\ AgentRequest(c) /\ served \in Nat
  BY <1>1 DEF AgentRequests, InFlight
<1>3. /\ AgentFields \subseteq DOMAIN k.row /\ k.row.id = 100 * Number(c) + t
      /\ k.row.name = FleetTemplates[t] /\ k.row.organizationId = loc[c].org
      /\ loc[c].op = "seedFleet" /\ loc[c].from = t + 1 /\ Number(c) \in 1 .. served
  BY <1>2 DEF Seeding, AgentRequest, FleetId, Under
<1>4. /\ t \in 1 .. 99 /\ \A u \in DOMAIN FleetTemplates : u \in Nat
      /\ \A u, w \in DOMAIN FleetTemplates : FleetTemplates[u] = FleetTemplates[w] => u = w
  <2>1. /\ DOMAIN FleetTemplates = 1 .. Len(FleetTemplates)
        /\ Len(FleetTemplates) \in Nat /\ Len(FleetTemplates) < 100
    BY AgentsAssumption
  <2>2. \A u, w \in DOMAIN FleetTemplates : FleetTemplates[u] = FleetTemplates[w] => u = w
    BY AgentsAssumption
  <2>3. t \in 1 .. 99
    <3> DEFINE n == Len(FleetTemplates)
    <3>1. t \in 1 .. n /\ n \in Nat /\ n < 100
      BY <2>1
    <3> HIDE DEF n
    <3> QED
      BY <3>1
  <2>4. \A u \in DOMAIN FleetTemplates : u \in Nat
    BY <2>1
  <2> QED
    BY <2>2, <2>3, <2>4
<1>5. k.row.id \in Int /\ k.row.id < 100 * served + 100
  BY <1>2, <1>3, <1>4
<1>6. AgentIds' /\ db'["agents"] = db["agents"] \cup {k.row}
  BY <1>1, <1>3, <1>5, AddedIds
<1>7. ASSUME ~Met(CreatingOps)' PROVE FleetFirst' /\ \A d \in Clients : InOrder(d)'
  <2>1. ~Met(CreatingOps) /\ FleetFirst /\ InOrder(c)
    BY <1>1, <1>7 DEF Orderly, Met, CreatingOps
  <2>2. \A a \in db["agents"] : \/ a.organizationId # k.row.organizationId
                                \/ a.name # k.row.name
    BY <1>1, <1>3, <2>1 DEF InOrder, Free
  <2>3. FleetFirst'
    <3> SUFFICES ASSUME NEW a \in db'["agents"], NEW b \in db'["agents"],
                        a.organizationId = b.organizationId, a.name = b.name,
                        b.id % 100 # 0
                 PROVE  a.id >= b.id
      BY <1>6 DEF FleetFirst, Table, AgentIds
    <3>1. CASE a \in db["agents"] /\ b \in db["agents"]
      BY <2>1, <3>1 DEF FleetFirst, Table, AgentIds
    <3>2. CASE a = k.row /\ b = k.row
      BY <1>5, <3>2
    <3> QED
      BY <1>6, <2>2, <3>1, <3>2
  <2>4. InOrder(c)'
    <3>1. ASSUME NEW u \in DOMAIN FleetTemplates, Walking(c), u >= loc[c].from,
                 FleetTemplates[u] \notin loc[c].existing
          PROVE  \A a \in db'["agents"] : \/ a.organizationId # loc[c].org
                                          \/ a.name # FleetTemplates[u]
      <4>1. Free(loc[c].org, FleetTemplates[u])
        BY <2>1, <3>1 DEF InOrder
      <4>2. u # t
        BY <1>3, <1>4, <3>1
      <4>3. k.row.name # FleetTemplates[u]
        BY <1>3, <1>4, <4>2
      <4> QED
        BY <1>6, <4>1, <4>3 DEF Free
    <3> QED
      BY <3>1, AfterCallInOrder
  <2>5. loc[c].op \in CreatingOps
    BY <1>3 DEF CreatingOps
  <2>6. \A d \in Clients \ {c} : InOrder(d)'
    BY <1>1, <1>2, <2>1, <2>5, AloneAdding
  <2> QED
    BY <2>3, <2>4, <2>6
<1> QED
  BY SMTT(30), <1>6, <1>7 DEF Orderly

LEMMA AgentCallKeeps ==
  ASSUME AgentRequests, AgentIds, Orderly, NEW c \in Clients, StoreCall(c)
  PROVE  AgentRequests' /\ AgentIds' /\ Orderly'
<1> DEFINE k == loc[c].calls[1]
<1>1. /\ pc[c] = "calling" /\ AgentRequests' /\ UNCHANGED <<served, met>>
      /\ \A d \in Clients \ {c} : pc'[d] = pc[d] /\ loc'[d] = loc[d]
  BY AfterCall DEF StoreCall, At
<1>2. InFlight(c) /\ AgentCalls(c) /\ served \in Nat
  BY <1>1 DEF AgentRequests, InFlight, AgentRequest
<1>3. Head(loc[c].calls) = k
  BY <1>2, TailOf DEF AgentCalls, LedBy
<1>4. \/ Quiet(k) \/ Creating(c, k)
      \/ \E t \in DOMAIN FleetTemplates : Seeding(c, k, t)
  BY <1>2 DEF AgentCalls
<1>5. k.call \in {"insert", "update"}
  BY <1>4 DEF Quiet, Creating, Seeding
<1>6. \/ db' = db
      \/ k.call = "insert" /\ db' = InsertRow(k.table, k.row)
      \/ k.call = "update" /\ db' = UpdateRow(k.table, k.id, k.row)
  BY <1>3, <1>5 DEF StoreCall
<1> HIDE DEF k
<1>7. CASE Quiet(k) \/ db' = db
  <2>1. NamesStay
    BY <1>6, <1>7, QuietCallNames, NamesStayAsRowsDo
  <2>2. ASSUME InOrder(c) PROVE InOrder(c)'
    <3>1. ASSUME NEW t \in DOMAIN FleetTemplates, Walking(c), t >= loc[c].from,
                 FleetTemplates[t] \notin loc[c].existing
          PROVE  \A a \in db'["agents"] : \/ a.organizationId # loc[c].org
                                          \/ a.name # FleetTemplates[t]
      BY <2>1, <2>2, <3>1 DEF InOrder, Free, NamesStay
    <3> QED
      BY <3>1, AfterCallInOrder
  <2>3. served <= served'
    BY <1>1, <1>2
  <2> QED
    BY <1>1, <2>1, <2>2, <2>3, OrderlyStays
<1>8. CASE Creating(c, k) /\ db' # db
  <2>1. db' = InsertRow("agents", k.row)
    BY <1>6, <1>8 DEF Creating
  <2> QED
    BY <1>1, <1>8, <2>1, CreatingKeeps DEF k
<1>9. ASSUME NEW t \in DOMAIN FleetTemplates, Seeding(c, k, t), db' # db
      PROVE  AgentRequests' /\ AgentIds' /\ Orderly'
  <2>1. db' = InsertRow("agents", k.row)
    BY <1>6, <1>9 DEF Seeding
  <2> QED
    BY <1>1, <1>9, <2>1, SeedingKeeps DEF k
<1> QED
  BY <1>4, <1>7, <1>8, <1>9

-----------------------------------------------------------------------------
\* Requests come in.
LEMMA AgentRequestArrives ==
  ASSUME AgentRequests, AgentIds, Orderly, NEW c \in Clients, NEW m,
         NEW where \in {"agent.create", "agent.read", "agent.status", "fleet.names"},
         NEW locals, "op" \in DOMAIN locals, "n" \notin DOMAIN locals,
         where = "agent.create" => locals.op = "createAgent",
         where = "fleet.names" => locals.op = "seedFleet",
         AcceptFrom(m, c, where, locals), UNCHANGED db
  PROVE  AgentRequests' /\ AgentIds' /\ Orderly'
<1> DEFINE caller == [org |-> m.organizationId, user |-> m.userId]
           all == Over(locals, caller)
           number == [n |-> served + 1]
<1>1. Accept(c, where, all)
  BY DEF AcceptFrom
<1>2. DOMAIN caller = {"org", "user"} /\ DOMAIN number = {"n"} /\ number["n"] = served + 1
  OBVIOUS
<1> HIDE DEF caller, number
<1>3. /\ DOMAIN all = DOMAIN locals \cup DOMAIN caller
      /\ \A f \in DOMAIN locals : all[f] = locals[f]
  BY Overwritten
<1> HIDE DEF all
<1>4. /\ DOMAIN Over(all, number) = DOMAIN all \cup DOMAIN number
      /\ \A f \in DOMAIN all : Over(all, number)[f] = all[f]
      /\ \A f \in DOMAIN number : f \notin DOMAIN all => Over(all, number)[f] = number[f]
  BY ZenonT(30), Overwritten
<1>5. DOMAIN pc = Clients /\ DOMAIN loc = Clients /\ served \in Nat
  BY DEF AgentRequests
<1>6. /\ pc' = [pc EXCEPT ![c] = where] /\ DOMAIN loc' = Clients /\ pc'[c] = where
      /\ loc'[c] = Over(all, number)
      /\ \A d \in Clients \ {c} : pc'[d] = pc[d] /\ loc'[d] = loc[d]
      /\ served' = served + 1
      /\ met' = met \cup {{all.op, loc[d].op} : d \in {d \in Clients : InFlight(d)}}
  BY <1>1, <1>5 DEF Accept, number
<1>7. {"op", "n", "org"} \subseteq DOMAIN loc'[c]
  BY <1>2, <1>3, <1>4, <1>6
<1>8. loc'[c].op = locals.op /\ all.op = locals.op
  BY <1>3, <1>4, <1>6
<1>9. Number(c)' = served + 1
  <2>1. "n" \notin DOMAIN all
    BY <1>2, <1>3
  <2> QED
    BY <1>2, <1>4, <1>6, <2>1 DEF Number
<1>10. AgentRequest(c)'
  BY <1>5, <1>6, <1>7, <1>8, <1>9 DEF AgentRequest, Walking
<1>11. AgentRequests'
  <2>1. where \in AgentsPoints /\ served' \in Nat /\ served <= served' /\ met \subseteq met'
    BY <1>5, <1>6 DEF AgentsPoints
  <2>2. \A d \in Clients \ {c} : InFlight(d) => {loc'[c].op, loc[d].op} \in met'
    BY <1>6, <1>8
  <2> QED
    BY <1>6, <1>10, <2>1, <2>2, AgentRequestsStay
<1>12. InOrder(c)'
  <2>1. \A a \in db'["agents"] : a.id < 100 * Number(c)'
    BY <1>5, <1>9 DEF AgentIds
  <2> QED
    BY <1>6, <2>1 DEF InOrder, Walking
<1>13. NamesStay
  BY NamesStayAsRowsDo
<1>14. served <= served' /\ met \subseteq met'
  BY <1>5, <1>6
<1> QED
  BY <1>6, <1>11, <1>12, <1>13, <1>14, OrderlyStays

LEMMA AgentsSubmitKeeps ==
  ASSUME AgentRequests, AgentIds, Orderly, NEW c \in Clients, AgentsSubmit(c)
  PROVE  AgentRequests' /\ AgentIds' /\ Orderly'
<1>1. ASSUME CreateAgent(c) PROVE AgentRequests' /\ AgentIds' /\ Orderly'
  <2>1. PICK m, name : AcceptFrom(m, c, "agent.create", [op |-> "createAgent", name |-> name])
    BY <1>1 DEF CreateAgent
  <2>2. UNCHANGED db
    BY <1>1 DEF CreateAgent
  <2> QED
    BY <2>1, <2>2, AgentRequestArrives
<1>2. ASSUME SaveAgent(c) PROVE AgentRequests' /\ AgentIds' /\ Orderly'
  <2>1. PICK m, a : AcceptFrom(m, c, "agent.read", [op |-> "saveAgent", agent |-> a.id])
    BY <1>2 DEF SaveAgent
  <2>2. UNCHANGED db
    BY <1>2 DEF SaveAgent
  <2> QED
    BY <2>1, <2>2, AgentRequestArrives
<1>3. ASSUME ChangeAgentStatus(c) PROVE AgentRequests' /\ AgentIds' /\ Orderly'
  <2>1. PICK m, a, status :
           AcceptFrom(m, c, "agent.status",
                      [op |-> "setAgentStatus", agent |-> a.id, status |-> status])
    BY <1>3 DEF ChangeAgentStatus
  <2>2. UNCHANGED db
    BY <1>3 DEF ChangeAgentStatus
  <2> QED
    BY <2>1, <2>2, AgentRequestArrives
<1>4. ASSUME SeedFleet(c) PROVE AgentRequests' /\ AgentIds' /\ Orderly'
  <2>1. PICK m : AcceptFrom(m, c, "fleet.names", [op |-> "seedFleet"])
    BY <1>4 DEF SeedFleet
  <2>2. UNCHANGED db
    BY <1>4 DEF SeedFleet
  <2> QED
    BY <2>1, <2>2, AgentRequestArrives
<1> QED
  BY <1>1, <1>2, <1>3, <1>4 DEF AgentsSubmit

LEMMA AgentCutKeeps ==
  ASSUME AgentRequests, AgentIds, Orderly, NEW c \in Clients, CutOff(c)
  PROVE  AgentRequests' /\ AgentIds' /\ Orderly'
<1>1. Respond(c) /\ UNCHANGED <<db, served, met>>
  BY DEF CutOff
<1>2. AgentRequests' /\ InOrder(c)'
  BY <1>1, AgentAnswers
<1>3. \A d \in Clients \ {c} : pc'[d] = pc[d] /\ loc'[d] = loc[d]
  BY <1>1 DEF Respond, AgentRequests
<1>4. NamesStay
  BY <1>1, NamesStayAsRowsDo
<1>5. served <= served'
  BY <1>1 DEF AgentRequests
<1> QED
  BY <1>1, <1>2, <1>3, <1>4, <1>5, OrderlyStays

-----------------------------------------------------------------------------
(***************************************************************************)
(* The fleet: always.                                                      *)
(***************************************************************************)
LEMMA FleetInitially == Init => FleetInv
<1> SUFFICES ASSUME Init PROVE FleetInv
  OBVIOUS
<1>1. PICK a \in Areas : \E seed \in Seeds[a] : RequestsInit(a, seed.rows)
  BY DEF Init
<1>2. PICK seed \in Seeds[a] : RequestsInit(a, seed.rows)
  BY <1>1
<1>3. /\ area = a /\ db = seed.rows /\ served = 0 /\ met = {}
      /\ pc = [c \in Clients |-> "idle"] /\ loc = [c \in Clients |-> Empty]
  BY <1>2 DEF RequestsInit
<1>4. AgentsFit(area, db)
  BY <1>2, <1>3, PlatformAssumption
<1>5. FleetFirst
  <2>1. CASE "agents" \in DOMAIN db
    <3>1. \A b \in db["agents"] : b.id % 100 = 0
      BY <1>4, <2>1 DEF AgentsFit
    <3> QED
      BY <2>1, <3>1 DEF FleetFirst, Table
  <2>2. CASE "agents" \notin DOMAIN db
    BY <2>2 DEF FleetFirst, Table
  <2> QED
    BY <2>1, <2>2
<1>6. \A c \in Clients : ~InFlight(c) /\ InOrder(c)
  BY <1>3 DEF InFlight, InOrder, Walking
<1>7. AgentRequests
  BY <1>3, <1>6 DEF AgentRequests, AgentsPoints
<1>8. ASSUME area = "agents" PROVE AgentIds
  BY <1>3, <1>4, <1>8 DEF AgentIds, AgentsFit, AgentFields
<1> QED
  BY <1>4, <1>5, <1>6, <1>7, <1>8 DEF FleetInv, AgentsFit, Orderly

\* Where evaluations run, agents are only read; elsewhere there are none with a name.
LEMMA FleetKept == FleetInv /\ CallsInv /\ [Next]_vars => FleetInv'
<1> SUFFICES ASSUME FleetInv, CallsInv, [Next]_vars PROVE FleetInv'
  OBVIOUS
<1>1. UNCHANGED area /\ DOMAIN db' = DOMAIN db
  BY Frame, TablesStay
<1>2. CASE area # "agents"
  <2>1. CASE "agents" \in DOMAIN db
    <3>1. "agents" \notin WritesOf(area)
      BY <1>2, <2>1 DEF FleetInv, WritesOf
    <3>2. db'["agents"] = db["agents"]
      BY <2>1, <3>1, AreasApart
    <3> QED
      BY <1>1, <1>2, <2>1, <3>2 DEF FleetInv, FleetFirst, Table
  <2>2. CASE "agents" \notin DOMAIN db
    BY <1>1, <1>2, <2>2 DEF FleetInv, FleetFirst, Table
  <2> QED
    BY <2>1, <2>2
<1>3. CASE area = "agents"
  <2>1. AgentRequests /\ AgentIds /\ Orderly
    BY <1>3 DEF FleetInv
  <2>2. CASE UNCHANGED requestVars
    <3>1. UNCHANGED <<db, pc, loc, served, met>>
      BY <2>2 DEF requestVars
    <3>2. \A c \in Clients : Number(c)' = Number(c) /\ (InFlight(c)' <=> InFlight(c))
      BY <3>1 DEF Number, InFlight
    <3>3. \A c \in Clients : AgentRequest(c)' <=> AgentRequest(c)
      BY <3>1, <3>2 DEF AgentRequest, AgentCalls, LedBy, Quiet, Creating, Seeding, FleetId,
         Walking
    <3>4. AgentRequests'
      BY <2>1, <3>1, <3>2, <3>3 DEF AgentRequests
    <3>5. AgentIds' /\ NamesStay
      BY <2>1, <3>1, NamesStayAsRowsDo DEF AgentIds
    <3>6. \A c \in Clients : InOrder(c) => InOrder(c)'
      BY <2>1, <3>1, <3>5, OrderStays
    <3>7. Orderly'
      BY <2>1, <3>1, <3>5, <3>6, FirstStays DEF Orderly, Met
    <3> QED
      BY <1>1, <1>3, <3>4, <3>5, <3>7 DEF FleetInv
  <2>3. ASSUME NEW c \in Clients,
               AgentsSubmit(c) \/ AgentsStep(c) \/ StoreCall(c) \/ CutOff(c)
        PROVE  AgentRequests' /\ AgentIds' /\ Orderly'
    BY <2>1, <2>3, AgentsSubmitKeeps, AgentsStepKeeps, AgentCallKeeps, AgentCutKeeps
  <2> QED
    BY <1>1, <1>3, <2>2, <2>3, FleetFrame DEF FleetInv
<1> QED
  BY <1>2, <1>3

LEMMA FleetPromised == FleetInv => FleetIsSeededOnce
<1> SUFFICES ASSUME FleetInv, ~Met(CreatingOps) PROVE FleetFirst
  BY DEF FleetIsSeededOnce, FleetFirst, CreatingOps
<1> QED
  BY DEF FleetInv, Orderly

\* Seeding is safe to repeat (fleet.ts, actions.ts): however many requests create, save
\* and seed agents, on either store, and wherever one stops, the fleet adds an agent only
\* where its organization has none of that name, unless two requests that add agents met.
THEOREM FleetSeededOnce == Spec => []FleetIsSeededOnce
<1>1. CallsInv /\ VaultInv /\ [Next]_vars => CallsInv'
  BY CallsKept
<1>2. FleetInv /\ CallsInv /\ [Next]_vars => FleetInv'
  BY FleetKept
<1> QED
  BY <1>1, <1>2, CallsInitially, VaultInitially, VaultKept, FleetInitially, FleetPromised,
     PTL DEF Spec
=============================================================================
