------------------------------- MODULE Agents -------------------------------
(***************************************************************************)
(* Agents and their versions, and the starter fleet.  What a run of an     *)
(* agent does is AgentRunner.tla's subject.                                *)
(***************************************************************************)
EXTENDS Completions

CONSTANT FleetTemplates   \* names of the fleet's templates, in order

ASSUME AgentsAssumption ==
    /\ FleetTemplates \in Seq(STRING) /\ Len(FleetTemplates) < 100
    /\ \A j, k \in DOMAIN FleetTemplates : FleetTemplates[j] = FleetTemplates[k] => j = k

AgentStatus == {"draft", "paused"}

FleetNames == {FleetTemplates[k] : k \in DOMAIN FleetTemplates}

AgentOf(c) ==
    {a \in ById("agents", loc[c].agent) : a.organizationId = loc[c].org}

VersionsOf(agent) == {v \in db["agent_versions"] : v.agentId = agent}

\* Mutant: the lowest version on record.
OldestVersion(agent) ==
    LET versions == {v.version : v \in VersionsOf(agent)} \cup {0}
    IN  CHOOSE v \in versions : \A w \in versions \ {0} : v <= w /\ v > 0

\* The highest version on record, 0 when there is none.
CurrentVersion(agent) ==
    LET versions == {v.version : v \in VersionsOf(agent)} \cup {0}
    IN  CHOOSE v \in versions : \A w \in versions : w <= v

NewVersion(c, agent, version) ==
    Inserting("agent_versions",
        [id |-> Under(agent, Number(c)), agentId |-> agent, version |-> version])

\* createAgent: the agent, then its version 1.
CreatingAgent(c, id, name) ==
    <<Inserting("agents", [id |-> id, organizationId |-> loc[c].org, name |-> name,
                           status |-> "draft", systemId |-> None,
                           savedBy |-> Number(c)]),
      NewVersion(c, id, 1)>>

(***************************************************************************)
(* createAgentAction                                                       *)
(***************************************************************************)
CreateAgent(c) ==
    /\ \E m \in SessionContext("agents.manage"), name \in FleetNames :
           AcceptFrom(m, c, "agent.create", [op |-> "createAgent", name |-> name])
    /\ UNCHANGED <<db, aiVars>>

InsertAgent(c) ==
    /\ At(c, "agent.create")
    /\ Calling(c, CreatingAgent(c, Under(Number(c), 0), loc[c].name)
                  \o <<Auditing(c, "agent.created", Number(c))>>, "idle")
    /\ UNCHANGED <<db, aiVars>>

(***************************************************************************)
(* saveAgentAction: the version number is made from the versions read.     *)
(***************************************************************************)
SaveAgent(c) ==
    /\ \E m \in SessionContext("agents.manage"), a \in db["agents"] :
           AcceptFrom(m, c, "agent.read", [op |-> "saveAgent", agent |-> a.id])
    /\ UNCHANGED <<db, aiVars>>

ReadAgent(c) ==
    /\ At(c, "agent.read")
    /\ IF AgentOf(c) = {} THEN Respond(c) ELSE Goto(c, "agent.current", Nothing)
    /\ UNCHANGED <<db, aiVars>>

SavingVersion(c, agent) ==
    <<NewVersion(c, agent, CurrentVersion(agent) + 1),
      Updating("agents", agent, [savedBy |-> Number(c)])>>

SaveAgentVersion(c) ==
    /\ At(c, "agent.current")
    /\ Calling(c, SavingVersion(c, loc[c].agent)
                  \o <<Auditing(c, "agent.version_saved", Number(c))>>, "idle")
    /\ UNCHANGED <<db, aiVars>>

\* setAgentStatusAction logs the change whether or not there was an agent.
ChangeAgentStatus(c) ==
    /\ \E m \in SessionContext("agents.manage"), a \in db["agents"],
          status \in AgentStatus :
           AcceptFrom(m, c, "agent.status",
                      [op |-> "setAgentStatus", agent |-> a.id, status |-> status])
    /\ UNCHANGED <<db, aiVars>>

SetAgentStatus(c) ==
    /\ At(c, "agent.status")
    /\ LET logged == <<Auditing(c, "agent.status_changed", Number(c))>>
       IN  Calling(c, IF AgentOf(c) = {} THEN logged
                      ELSE <<Updating("agents", loc[c].agent,
                                      [status |-> loc[c].status])>> \o logged, "idle")
    /\ UNCHANGED <<db, aiVars>>

(***************************************************************************)
(* seedFleetAction: the names are read once; every template whose name is  *)
(* not among them is created, one after the other.                         *)
(***************************************************************************)
SeedFleet(c) ==
    /\ \E m \in SessionContext("agents.manage") :
           AcceptFrom(m, c, "fleet.names", [op |-> "seedFleet"])
    /\ UNCHANGED <<db, aiVars>>

\* The names are read.
ReadFleet(c) ==
    /\ At(c, "fleet.names")
    /\ Goto(c, "fleet.next",
            [existing |-> {a.name : a \in {a \in db["agents"] :
                                              a.organizationId = loc[c].org}},
             from |-> 1])
    /\ UNCHANGED <<db, aiVars>>

FleetId(c, k) == Under(Number(c), k)

\* Mutant: every template, whatever exists.
AllLeft(c) == loc[c].from .. Len(FleetTemplates)

\* The templates that are left to create.
MissingLeft(c) ==
    {k \in loc[c].from .. Len(FleetTemplates) : FleetTemplates[k] \notin loc[c].existing}

CreateMissing(c, k) ==
    Goto(c, "calling",
         [from |-> k + 1, next |-> "fleet.next",
          calls |-> CreatingAgent(c, FleetId(c, k), FleetTemplates[k])])

\* The first of them is created; after the last, what was created is logged.
SeedNext(c) ==
    /\ At(c, "fleet.next")
    /\ \/ /\ MissingLeft(c) = {}
          /\ Calling(c, IF FleetNames \subseteq loc[c].existing THEN <<>>
                        ELSE <<Auditing(c, "fleet.seeded", Number(c))>>, "idle")
       \/ \E k \in MissingLeft(c) :
             /\ \A j \in MissingLeft(c) : k <= j
             /\ CreateMissing(c, k)
    /\ UNCHANGED <<db, aiVars>>

AgentsSubmit(c) ==
    /\ area = "agents"
    /\ \/ CreateAgent(c) \/ SaveAgent(c) \/ ChangeAgentStatus(c) \/ SeedFleet(c)

AgentsStep(c) ==
    /\ area = "agents"
    /\ \/ InsertAgent(c) \/ ReadAgent(c) \/ SaveAgentVersion(c) \/ SetAgentStatus(c)
       \/ ReadFleet(c) \/ SeedNext(c)

(***************************************************************************)
(* Properties.                                                             *)
(***************************************************************************)
\* Seeding is idempotent, safe to click twice (fleet.ts): the fleet adds an agent
\* only where its organization had none of that name, so among agents of one
\* name the fleet's is the first, unless two requests that create agents were in
\* flight together.
FleetIsSeededOnce ==
    \/ Met({"seedFleet", "createAgent"})
    \/ \A a, b \in Table("agents") :
          /\ a.organizationId = b.organizationId
          /\ a.name = b.name
          /\ b.id % 100 # 0
          => a.id >= b.id
=============================================================================
