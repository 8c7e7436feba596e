------------------------------ MODULE Systems -------------------------------
(***************************************************************************)
(* Business systems and the automations that belong to them: who may be    *)
(* removed while something refers to it.  Schedules are Scheduler.tla's    *)
(* subject, runs Engine.tla's: here a run is the row that records it.      *)
(***************************************************************************)
EXTENDS Requests

CONSTANT Stale   \* an id in a form that no system has, or no longer

ASSUME SystemsAssumption == Stale \notin Int \cup {None}

\* Mutant: whichever organization has it.
OnRecord(t, id, c) == ById(t, id)

Owned(t, id, c) == {r \in ById(t, id) : r.organizationId = loc[c].org}

DefinitionsOf(automation) ==
    {v \in db["automation_versions"] : v.automationId = automation}

LatestVersion(automation) ==
    LET versions == {v.version : v \in DefinitionsOf(automation)} \cup {0}
    IN  CHOOSE v \in versions : \A w \in versions : w <= v

(***************************************************************************)
(* createSystemAction, updateSystemAction, deleteSystemAction              *)
(***************************************************************************)
CreateSystem(c) ==
    /\ \E m \in SessionContext("systems.manage") :
           AcceptFrom(m, c, "system.create", [op |-> "createSystem"])
    /\ UNCHANGED db

NewSystem(c) ==
    Inserting("systems", [id |-> Number(c), organizationId |-> loc[c].org,
                          status |-> "draft"])

InsertSystem(c) ==
    /\ At(c, "system.create")
    /\ Calling(c, <<NewSystem(c), Auditing(c, "system.created", Number(c))>>, "idle")
    /\ UNCHANGED db

ChangeSystem(c) ==
    /\ \E m \in SessionContext("systems.manage"), s \in db["systems"] :
           \/ AcceptFrom(m, c, "system.update", [op |-> "updateSystem", system |-> s.id])
           \/ AcceptFrom(m, c, "system.read", [op |-> "deleteSystem", system |-> s.id])
    /\ UNCHANGED db

UpdateSystem(c) ==
    /\ At(c, "system.update")
    /\ Calling(c, IF Owned("systems", loc[c].system, c) = {} THEN <<>>
                  ELSE <<Changing("systems", loc[c].system, [status |-> "paused"]),
                         Auditing(c, "system.updated", loc[c].system)>>, "idle")
    /\ UNCHANGED db

ReadSystem(c) ==
    /\ At(c, "system.read")
    /\ IF Owned("systems", loc[c].system, c) = {}
       THEN Respond(c)
       ELSE Goto(c, "system.linked", Nothing)
    /\ UNCHANGED db

LinkedTo(system, c) ==
    {a \in db["automations"] : a.organizationId = loc[c].org /\ a.systemId = system}

\* Mutant: its automations are not looked up.
DeleteSystemAnyway(c) ==
    /\ At(c, "system.linked")
    /\ Calling(c, <<Removing("systems", loc[c].system),
                    Auditing(c, "system.deleted", loc[c].system)>>, "idle")
    /\ UNCHANGED db

\* A system that has automations stays.
DeleteSystem(c) ==
    /\ At(c, "system.linked")
    /\ Calling(c, IF LinkedTo(loc[c].system, c) # {} THEN <<>>
                  ELSE <<Removing("systems", loc[c].system),
                         Auditing(c, "system.deleted", loc[c].system)>>, "idle")
    /\ UNCHANGED db

(***************************************************************************)
(* createAutomationAction takes the system as the form sends it;           *)
(* updateAutomationAction looks it up.  A form sends no system, or an id:  *)
(* of one of the systems the page offered, which may be gone by now, or    *)
(* any other, another organization's too.                                  *)
(***************************************************************************)
Sendable == {None, Stale} \cup {s.id : s \in db["systems"]}

CreateAutomation(c) ==
    /\ \E m \in SessionContext("automations.manage"), s \in Sendable :
           AcceptFrom(m, c, "automation.create", [op |-> "createAutomation", system |-> s])
    /\ UNCHANGED db

Version(c, automation, version) ==
    Inserting("automation_versions",
        [id |-> Under(automation, Number(c)), automationId |-> automation,
         version |-> version])

NewAutomation(c) ==
    <<Inserting("automations", [id |-> Number(c), organizationId |-> loc[c].org,
                                systemId |-> loc[c].system]),
      Version(c, Number(c), 1)>>

InsertAutomation(c) ==
    /\ At(c, "automation.create")
    /\ Calling(c, NewAutomation(c)
                  \o <<Auditing(c, "automation.created", Number(c))>>, "idle")
    /\ UNCHANGED db

ChangeAutomation(c) ==
    /\ \E m \in SessionContext("automations.manage"), a \in db["automations"] :
           \/ \E s \in Sendable :
                  AcceptFrom(m, c, "automation.read",
                      [op |-> "updateAutomation", automation |-> a.id, system |-> s])
           \/ \E op \in {"saveDefinition", "deleteAutomation"} :
                  AcceptFrom(m, c, "automation.read", [op |-> op, automation |-> a.id])
    /\ UNCHANGED db

RunAutomation(c) ==
    /\ \E m \in SessionContext("automations.run"), a \in db["automations"] :
           AcceptFrom(m, c, "automation.read", [op |-> "run", automation |-> a.id])
    /\ UNCHANGED db

ReadAutomation(c) ==
    /\ At(c, "automation.read")
    /\ IF Owned("automations", loc[c].automation, c) = {}
       THEN Respond(c)
       ELSE Goto(c, CASE loc[c].op = "updateAutomation" -> "automation.system"
                      [] loc[c].op = "saveDefinition" -> "automation.version"
                      [] loc[c].op = "deleteAutomation" -> "automation.runs"
                      [] loc[c].op = "run" -> "automation.start", Nothing)
    /\ UNCHANGED db

MayBelongTo(system, c) == system = None \/ Owned("systems", system, c) # {}

UpdateAutomation(c) ==
    /\ At(c, "automation.system")
    /\ LET automation == loc[c].automation
           system == loc[c].system
       IN  Calling(c, IF ~MayBelongTo(system, c) THEN <<>>
                      ELSE <<Changing("automations", automation, [systemId |-> system]),
                             Auditing(c, "automation.updated", automation)>>, "idle")
    /\ UNCHANGED db

SaveDefinition(c) ==
    /\ At(c, "automation.version")
    /\ LET automation == loc[c].automation
       IN  Calling(c, <<Version(c, automation, LatestVersion(automation) + 1),
                        Updating("automations", automation, [savedBy |-> Number(c)]),
                        Auditing(c, "automation.definition_saved", automation)>>, "idle")
    /\ UNCHANGED db

\* startExecution, up to the row that records the run.
NewExecution(c) ==
    Inserting("executions", [id |-> Number(c), organizationId |-> loc[c].org,
                             automationId |-> loc[c].automation,
                             idempotencyKey |-> Number(c)])

StartExecution(c) ==
    /\ At(c, "automation.start")
    /\ Calling(c, IF DefinitionsOf(loc[c].automation) = {} THEN <<>>
                  ELSE <<NewExecution(c),
                         Auditing(c, "automation.run_started", Number(c))>>, "idle")
    /\ UNCHANGED db

\* An automation with recorded runs stays; else its versions go one by one, and
\* then it.
CountRuns(c) ==
    /\ At(c, "automation.runs")
    /\ IF \E x \in db["executions"] : /\ x.organizationId = loc[c].org
                                      /\ x.automationId = loc[c].automation
       THEN Respond(c)
       ELSE Goto(c, "automation.versions", Nothing)
    /\ UNCHANGED db

ListDefinitions(c) ==
    /\ At(c, "automation.versions")
    /\ Goto(c, "automation.remove",
            [versions |-> {v.id : v \in DefinitionsOf(loc[c].automation)}])
    /\ UNCHANGED db

DeleteAutomation(c) ==
    /\ At(c, "automation.remove")
    /\ \/ \E v \in loc[c].versions :
              Goto(c, "calling",
                   [versions |-> loc[c].versions \ {v}, next |-> "automation.remove",
                    calls |-> <<Removing("automation_versions", v)>>])
       \/ /\ loc[c].versions = {}
          /\ Calling(c, <<Removing("automations", loc[c].automation),
                          Auditing(c, "automation.deleted", loc[c].automation)>>, "idle")
    /\ UNCHANGED db

SystemsSubmit(c) ==
    /\ area = "systems"
    /\ \/ CreateSystem(c) \/ ChangeSystem(c)
       \/ CreateAutomation(c) \/ ChangeAutomation(c) \/ RunAutomation(c)

SystemsStep(c) ==
    /\ area = "systems"
    /\ \/ InsertSystem(c) \/ UpdateSystem(c) \/ ReadSystem(c) \/ DeleteSystem(c)
       \/ InsertAutomation(c) \/ ReadAutomation(c) \/ UpdateAutomation(c)
       \/ SaveDefinition(c) \/ StartExecution(c)
       \/ CountRuns(c) \/ ListDefinitions(c) \/ DeleteAutomation(c)

(***************************************************************************)
(* Properties.                                                             *)
(***************************************************************************)
\* deleteSystem takes no system that automations of its organization have, so that
\* none of them loses it or keeps the id of a system that is gone; and an update
\* gives an automation none but a system of its organization that is on record.
\* Only a request that links an automation while the system is being deleted gets
\* past the two.  That is less than the form's list of systems suggests: what an
\* automation is created with is not looked up by createAutomationAction, so that
\* a form rendered before the system was deleted, or one that names a system of
\* another organization, is stored as it is on the JSON files; Postgres refuses the
\* former.
SystemsOutliveAutomations ==
    \/ Met({"deleteSystem", "createAutomation", "updateAutomation"})
    \/ /\ \A s \in Table("systems") :
             \/ \E t \in db'["systems"] : t.id = s.id
             \/ \A a \in Table("automations") :
                    a.organizationId = s.organizationId => a.systemId # s.id
       /\ \A a \in Table("automations") : \A b \in db'["automations"] :
             b.id = a.id /\ b.systemId \notin {a.systemId, None} =>
                 \E s \in db'["systems"] :
                     s.id = b.systemId /\ s.organizationId = b.organizationId

\* Execution history is immutable (actions.ts): an automation with a recorded run
\* is never deleted, unless the run started while the deletion was in flight;
\* and no version outlives its automation, unless it was made meanwhile.
RunsKeepTheirAutomation ==
    \/ MetAny("deleteAutomation")
    \/ /\ \A x \in Table("executions") : ById("automations", x.automationId) # {}
       /\ \A v \in Table("automation_versions") :
              ById("automations", v.automationId) # {}

\* What is deleted was not in use: a system by the automations of its organization,
\* an automation by its runs and versions.
NothingDangles == [][SystemsOutliveAutomations /\ RunsKeepTheirAutomation']_db
=============================================================================
