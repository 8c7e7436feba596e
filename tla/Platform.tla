------------------------------ MODULE Platform ------------------------------
(***************************************************************************)
(* The platform's requests and timers over one store.  A behaviour keeps   *)
(* to one area of the application, chosen at the start.  The collections   *)
(* that requests of several areas write are the append-only ones           *)
(* (audit_logs, notifications, ai_runs, usage_records), the sessions, each *)
(* of which only its own user ends, the sales records (opportunities,      *)
(* audits), which the funnel adds to and the desk changes, and the agents, *)
(* which lose their reference to a system that goes.                       *)
(***************************************************************************)
EXTENDS Records, Accounts, Intake, Knowledge, Agents, Evals, Nightly, Workspace, Systems, Stores

CONSTANTS
    Areas,   \* the areas that are explored
    Seeds    \* area -> set of [on |-> stores it can be on, rows |-> collections]

\* Reports are of one area; each at the start is of its own day and announced.
ReportsFit(a, rows) ==
    /\ a = "nightly" <=> "reports" \in DOMAIN rows
    /\ a = "nightly" =>
          /\ {"organizations", "notifications"} \subseteq DOMAIN rows
          /\ \A r, s \in rows["reports"] :
                r.organizationId = s.organizationId /\ r.createdAt = s.createdAt => r = s
          /\ \A r \in rows["reports"] :
                /\ r.type = "morning_brief"
                /\ \E n \in rows["notifications"] : n.id = r.id

\* Credentials are of one area, and none is sealed as long as there is no key.
CredentialsFit(a, rows) ==
    /\ a = "vault" <=> "integrations" \in DOMAIN rows
    /\ a = "vault" => \A i \in rows["integrations"] :
                        {"status", "sealedWith"} \subseteq DOMAIN i /\ i.status = "revoked"

\* An address has one count of failures.
AttemptsFit(a, rows) ==
    a = "signin" =>
        /\ "auth_attempts" \in DOMAIN rows
        /\ \A r, s \in rows["auth_attempts"] : r.id = s.id => r = s
        /\ \A r \in rows["auth_attempts"] :
              {"id", "failures", "locked"} \subseteq DOMAIN r /\ r.failures \in Nat

\* An address has one row in the limiter's table.
BucketsFit(a, rows) ==
    a = "funnel" =>
        /\ "rate_limit_buckets" \in DOMAIN rows
        /\ \A b, d \in rows["rate_limit_buckets"] : b.id = d.id => b = d
        /\ \A b \in rows["rate_limit_buckets"] :
              /\ {"id", "count", "resetAt"} \subseteq DOMAIN b
              /\ b.count \in Nat /\ b.resetAt \in Int

\* Model calls are of two areas, and none is on record at the start.
CompletionsFit(a, rows) ==
    /\ a \in {"knowledge", "evals"} <=> "ai_runs" \in DOMAIN rows
    /\ "ai_runs" \in DOMAIN rows <=> "usage_records" \in DOMAIN rows
    /\ "ai_runs" \in DOMAIN rows => rows["ai_runs"] = {} /\ rows["usage_records"] = {}

\* Suites and cases are on record from before, runs are not; a suite's agent is.
EvalsFit(a, rows) ==
    /\ a = "evals" <=> "eval_runs" \in DOMAIN rows
    /\ a = "evals" =>
          /\ {"agents", "eval_suites", "eval_cases", "eval_results"} \subseteq DOMAIN rows
          /\ rows["eval_runs"] = {} /\ rows["eval_results"] = {}
          /\ \A s \in rows["eval_suites"] :
                /\ "agentId" \in DOMAIN s
                /\ s.agentId = None \/ \E r \in rows["agents"] : r.id = s.agentId
          /\ \A k \in rows["eval_cases"] : {"id", "suiteId"} \subseteq DOMAIN k /\ k.id \in Int

\* Agents are of two areas; the ids say that no request added those at the start.
AgentsFit(a, rows) ==
    /\ a = "agents" => "agents" \in DOMAIN rows
    /\ "agents" \in DOMAIN rows =>
          /\ a \in {"agents", "evals"}
          /\ \A r \in rows["agents"] :
                /\ {"id", "organizationId", "name"} \subseteq DOMAIN r
                /\ r.id \in Int /\ r.id <= 0 /\ r.id % 100 = 0

\* People are on record from before: single ones, in organizations with an owner.
PeopleFit(rows) ==
    /\ {"organizations", "users", "memberships", "audit_logs"} \subseteq DOMAIN rows
    /\ \A t \in {"organizations", "users", "memberships", "audit_logs"} :
          \A r \in rows[t] : "id" \in DOMAIN r /\ r.id \in Int /\ r.id <= 0
    /\ \A r \in rows["organizations"] : "slug" \in DOMAIN r
    /\ \A r, s \in rows["users"] : r.email = s.email => r = s
    /\ \A r \in rows["memberships"] :
          /\ {"organizationId", "userId", "role"} \subseteq DOMAIN r
          /\ r.organizationId \in Int /\ r.organizationId <= 0
          /\ \E o \in rows["organizations"] : o.id = r.organizationId
          /\ \E s \in rows["memberships"] : /\ s.organizationId = r.organizationId
                                           /\ s.role = "customer_owner"
    /\ \A r, s \in rows["memberships"] :
          r.id = s.id \/ (r.organizationId = s.organizationId /\ r.userId = s.userId) => r = s

\* Collections are finite, and made of records.
RowsAreKept(a, rows) ==
    /\ \A t \in DOMAIN rows : /\ IsFiniteSet(rows[t])
                             /\ \A r \in rows[t] : r = [f \in DOMAIN r |-> r[f]]
    /\ a = "knowledge" => "document_chunks" \in DOMAIN rows

ASSUME PlatformAssumption ==
    /\ Areas \subseteq DOMAIN MaxRequests
    /\ \A a \in Areas : \A seed \in Seeds[a] :
          /\ ReportsFit(a, seed.rows) /\ CredentialsFit(a, seed.rows)
          /\ AttemptsFit(a, seed.rows) /\ BucketsFit(a, seed.rows) /\ AgentsFit(a, seed.rows)
          /\ CompletionsFit(a, seed.rows) /\ EvalsFit(a, seed.rows)
          /\ PeopleFit(seed.rows) /\ RowsAreKept(a, seed.rows)

vars == <<requestVars, streak, intakeVars, aiVars, day, vaultVars, storeVars>>

Init ==
    /\ \E a \in Areas : \E seed \in Seeds[a] :
           RequestsInit(a, seed.rows) /\ postgres \in seed.on
    /\ AccountsInit
    /\ IntakeInit
    /\ CompletionsInit /\ CASE area = "knowledge" -> TRUE
                         [] area = "evals" -> provider # "completes"
                         [] OTHER -> provider = "embeds"
    /\ NightlyInit
    /\ WorkspaceInit /\ (envKey \/ area = "vault")
    /\ StoresInit

Submit(c) ==
    \/ AccountsSubmit(c) /\ UNCHANGED <<intakeVars, aiVars, day, vaultVars, storeVars>>
    \/ IntakeSubmit(c) /\ UNCHANGED <<streak, aiVars, day, vaultVars, storeVars>>
    \/ /\ KnowledgeSubmit(c) \/ AgentsSubmit(c) \/ EvalsSubmit(c)
       /\ UNCHANGED <<streak, intakeVars, day, vaultVars, storeVars>>
    \/ NightlySubmit(c) /\ UNCHANGED <<streak, intakeVars, aiVars, vaultVars, storeVars>>
    \/ WorkspaceSubmit(c) /\ UNCHANGED <<streak, intakeVars, aiVars, day, storeVars>>
    \/ /\ SystemsSubmit(c)
       /\ UNCHANGED <<streak, intakeVars, aiVars, day, vaultVars, storeVars>>
    \/ Calls(c) /\ UNCHANGED <<streak, intakeVars, aiVars, day, vaultVars>>

Step(c) ==
    \/ AccountsStep(c) /\ UNCHANGED <<intakeVars, aiVars, day, vaultVars, storeVars>>
    \/ IntakeStep(c) /\ UNCHANGED <<streak, aiVars, day, vaultVars, storeVars>>
    \/ /\ KnowledgeStep(c) \/ AgentsStep(c) \/ EvalsStep(c)
       /\ UNCHANGED <<streak, intakeVars, day, vaultVars, storeVars>>
    \/ NightlyStep(c) /\ UNCHANGED <<streak, intakeVars, aiVars, vaultVars, storeVars>>
    \/ WorkspaceStep(c) /\ UNCHANGED <<streak, intakeVars, aiVars, day, storeVars>>
    \/ /\ SystemsStep(c)
       /\ UNCHANGED <<streak, intakeVars, aiVars, day, vaultVars, storeVars>>
    \/ StoresStep(c) /\ UNCHANGED <<streak, intakeVars, aiVars, day, vaultVars>>
    \/ /\ StoreCall(c) \/ CutOff(c)
       /\ UNCHANGED <<streak, intakeVars, aiVars, day, vaultVars, storeVars>>

\* What no request does: time passes, the process ends.
Environment ==
    \/ LockExpires /\ UNCHANGED <<intakeVars, aiVars, day, vaultVars, storeVars>>
    \/ WindowPasses /\ UNCHANGED <<streak, aiVars, day, vaultVars, storeVars>>
    \/ DayPasses /\ UNCHANGED <<streak, intakeVars, aiVars, vaultVars, storeVars>>
    \/ Restart /\ UNCHANGED <<streak, intakeVars, aiVars, day, storeVars>>

Next == Environment \/ \E c \in Clients : Submit(c) \/ Step(c)

Spec == Init /\ [][Next]_vars

(***************************************************************************)
(* Properties of the whole.                                                *)
(***************************************************************************)
\* Rows keep their primary key, and on Postgres every reference resolves: what
\* the rows, pc, the locals and the counters of all components may be.
TypeOK ==
    /\ postgres \in BOOLEAN /\ envKey \in BOOLEAN
    /\ provider \in {"none", "completes", "embeds"}
    /\ RowsFit
    /\ \A t \in DOMAIN db : \A r, s \in db[t] : r.id = s.id => r = s
    /\ postgres => \A ref \in References : ref.child \in DOMAIN db =>
           \A r \in db[ref.child] :
               RefersTo(ref.child, r, ref) /\ r[ref.field] # None
                   => ById(ref.parent, r[ref.field]) # {}
    /\ \A c \in Clients : InFlight(c) <=> loc[c] # Empty
    /\ \A c \in Clients : InFlight(c) => Number(c) \in 1 .. served
    /\ \A c \in Clients : pc[c] = "calling" => loc[c].calls # <<>>
    /\ served <= MaxRequests[area]
    /\ Len(buckets) <= MaxBuckets
    /\ \A i, j \in DOMAIN buckets : buckets[i].key = buckets[j].key => i = j
    /\ \A e \in Emails : streak[e] \in Nat
    /\ day \in 0 .. MaxDays /\ clock \in 0 .. MaxClock

\* The organization a row belongs to: its own, or its parent's.
Owners(t, r) ==
    IF "organizationId" \in DOMAIN r
    THEN {r.organizationId}
    ELSE {p.organizationId : p \in
            UNION {IF RefersTo(t, r, ref)
                   THEN {p \in ById(ref.parent, r[ref.field]) :
                            "organizationId" \in DOMAIN p}
                   ELSE {} : ref \in References}}

\* A row loses its reference to a system when Postgres clears it: the system goes.
LosesSystem(t, r) ==
    \E old \in db[t], new \in db'[t] :
        /\ r \in {old, new} /\ "systemId" \in DOMAIN old
        /\ new = [old EXCEPT !.systemId = None]
        /\ ById("systems", old.systemId) # {}
        /\ \A s \in db'["systems"] : s.id # old.systemId

\* Tenant guard (systems.ts, automations.ts, vault.ts and the others): whatever
\* ids a request names, and however long after its look-ups it writes, it inserts,
\* changes and removes rows of its own organization only.  One reference crosses
\* the border: an automation may have been created with another organization's
\* system (createAutomationAction looks up nothing), and when that organization
\* deletes the system, which it counts its own automations for, Postgres clears
\* the reference.
TenantsAreSeparate ==
    [][db' # db => \A t \in DOMAIN db :
          \A r \in (db[t] \ db'[t]) \cup (db'[t] \ db[t]) : \A o \in Owners(t, r) :
              \/ \E c \in Clients : InFlight(c) /\ loc[c].org = o
              \/ postgres /\ t = "automations" /\ LosesSystem(t, r)]_vars

\* Numbered histories without a gap or a repetition, of agents and of automations
\* (agents.ts, automations.ts: every save is a version of its own), on Postgres
\* always, and on the JSON files unless two requests that number versions were in
\* flight together and took the same number.
VersionsAreDense ==
    \/ ~postgres /\ Met({"saveAgent", "createAgent", "seedFleet",
                         "saveDefinition", "createAutomation"})
    \/ /\ \A a \in Table("agents") :
             {v.version : v \in VersionsOf(a.id)} = 1 .. Cardinality(VersionsOf(a.id))
       /\ \A a \in Table("automations") :
             "deleteAutomation" \in cuts \/ Met({"deleteAutomation", "saveDefinition"})
             \/ (\E c \in Clients : loc[c].op = "deleteAutomation")
             \/ {v.version : v \in DefinitionsOf(a.id)}
                    = 1 .. Cardinality(DefinitionsOf(a.id))
=============================================================================
