----------------------------- MODULE MCPlatform -----------------------------
(***************************************************************************)
(* Instances of Platform for TLC: what each area starts with.              *)
(***************************************************************************)
EXTENDS Platform

Symmetry == Permutations(Clients)

Both == {TRUE, FALSE}

(* Two organizations; ann and, in some areas, bob are members of the       *)
(* first, which a third user owns; in the area systems bob acts for the    *)
(* second.                                                                 *)
Org(id, kind) == [id |-> id, slug |-> <<IF id = 0 THEN "acme" ELSE "bolt", 1>>,
                  kind |-> kind, sandboxMode |-> TRUE]
User(id, email) == [id |-> id, email |-> email]
Member(id, org, role) ==
    [id |-> id, organizationId |-> org, userId |-> id, role |-> role]
Session(user) == [id |-> user, tokenHash |-> user, userId |-> user, live |-> TRUE]

(* Every area has the people and what all requests write; db is empty      *)
(* where a seed says nothing.                                              *)
Common == {"organizations", "users", "memberships", "sessions", "audit_logs",
           "notifications"}

Start(on, more, rows) ==
    [on |-> on, rows |-> rows @@ [t \in Common \cup more |-> {}]]

Orgs == [organizations |-> {Org(0, "customer"), Org(-1, "customer")}]

Acting(role) ==
    [ users       |-> {User(0, "ann"), User(-9, "owner")},
      memberships |-> {Member(0, 0, role), Member(-9, 0, "customer_owner")},
      sessions    |-> {Session(0)} ] @@ Orgs

\* ann and bob own acme, and bob belongs to bolt too.
Owning ==
    [ users       |-> {User(0, "ann"), User(-1, "bob")},
      memberships |-> {Member(0, 0, "customer_owner"), Member(-1, 0, "customer_owner"),
                       [Member(-2, -1, "customer_owner") EXCEPT !.userId = -1]},
      sessions    |-> {Session(0), Session(-1)} ] @@ Orgs

\* bob sees acme, which ann owns, and may change nothing.
Viewing ==
    [ users       |-> {User(0, "ann"), User(-1, "bob")},
      memberships |-> {Member(0, 0, "customer_owner"), Member(-1, 0, "customer_viewer")},
      sessions    |-> {Session(0), Session(-1)} ] @@ Orgs

AccountsSeeds == {Start(Both, {}, Owning)}

SignInSeeds == {Start(Both, {"auth_attempts"}, Acting("customer_owner"))}

\* With and without an operator organization.
FunnelTables == {"rate_limit_buckets", "audits", "opportunities"}

FunnelSeeds ==
    {Start({FALSE}, FunnelTables, <<>>),
     Start({TRUE}, FunnelTables,
           [organizations |-> {Org(0, "automsp"), Org(-1, "customer")}])}

Audit(id, org) == [id |-> id, organizationId |-> org, status |-> "received"]

CommerceSeeds ==
    {Start(Both, {"opportunities", "projects"},
           [audits |-> {Audit(0, 0), Audit(-1, -1)},
            clients |-> {[id |-> 0, organizationId |-> 0]}] @@ Acting("automsp_operator"))}

Source(id, org) ==
    [id |-> id, organizationId |-> org, name |-> FormName, kind |-> "upload"]

ModelTables == {"ai_runs", "usage_records"}

KnowledgeSeeds ==
    {Start(Both, ModelTables \cup {"documents", "document_chunks"},
           [knowledge_sources |-> {Source(0, 0), Source(-1, -1)}]
           @@ Acting("customer_admin"))}

Agent(id, org, name) ==
    [id |-> id, organizationId |-> org, name |-> name, status |-> "draft",
     systemId |-> None, savedBy |-> 0]
FirstVersion(agent) == [id |-> Under(agent, 0), agentId |-> agent, version |-> 1]

AgentRows ==
    [ agents         |-> {Agent(0, 0, "mine"), Agent(-100, -1, "theirs")},
      agent_versions |-> {FirstVersion(0), FirstVersion(-100)} ]

AgentsSeeds == {Start(Both, {}, AgentRows @@ Acting("customer_admin"))}

Suite(id, org, scorer) ==
    [id |-> id, organizationId |-> org, agentId |-> None, scorer |-> scorer,
     touchedBy |-> 0]
Case(id, suite) == [id |-> id, suiteId |-> suite]

EvalsTables == ModelTables \cup {"eval_runs", "eval_results"}

EvalsSeeds ==
    {Start({FALSE}, EvalsTables,
           [eval_suites |-> {Suite(0, 0, "contains"), Suite(-1, -1, "contains")},
            eval_cases  |-> {Case(0, 0), Case(-1, 0), Case(-2, -1)}]
           @@ AgentRows @@ Acting("customer_member")),
     Start({TRUE}, EvalsTables,
           [eval_suites |-> {Suite(0, 0, "llm_judge")}, eval_cases |-> {Case(0, 0)}]
           @@ AgentRows @@ Acting("customer_member"))}

NightlySeeds == {Start(Both, {"reports"}, Acting("customer_owner"))}

Credential(id, org) ==
    [id |-> id, organizationId |-> org, status |-> "revoked", sealedWith |-> None]

VaultSeeds ==
    {Start(Both, {}, [integrations |-> {Credential(-1, -1)}] @@ Acting("customer_admin"))}

Notice(id, org, user) ==
    [id |-> id, organizationId |-> org, userId |-> user, read |-> FALSE]

InboxSeeds ==
    {Start(Both, {}, [notifications |-> {Notice(0, 0, None), Notice(-1, 0, -1),
                                         Notice(-2, -1, None)}] @@ Viewing)}

System(id, org) == [id |-> id, organizationId |-> org, status |-> "draft"]
Automation(id, org) ==
    [id |-> id, organizationId |-> org, systemId |-> None, savedBy |-> 0]
FirstDefinition(id) == [id |-> Under(id, 0), automationId |-> id, version |-> 1]

\* bob, who belongs to bolt only, acts there.
Bob == [ users       |-> {User(-1, "bob")},
         memberships |-> {Member(-1, -1, "customer_owner")},
         sessions    |-> {Session(-1)} ]

With(people, more) ==
    [t \in DOMAIN people |-> people[t] \cup (IF t \in DOMAIN more THEN more[t] ELSE {})]

SystemsSeeds ==
    {Start(Both, {"executions"},
           [systems |-> {System(0, 0), System(-1, -1)},
            automations |-> {Automation(0, 0), Automation(-1, -1)},
            automation_versions |-> {FirstDefinition(0), FirstDefinition(-1)}]
           @@ With(Acting("customer_admin"), Bob))}

SeedsOf ==
    [ accounts  |-> AccountsSeeds,
      signin    |-> SignInSeeds,
      funnel    |-> FunnelSeeds,
      commerce  |-> CommerceSeeds,
      knowledge |-> KnowledgeSeeds,
      agents    |-> AgentsSeeds,
      evals     |-> EvalsSeeds,
      nightly   |-> NightlySeeds,
      vault     |-> VaultSeeds,
      inbox     |-> InboxSeeds,
      systems   |-> SystemsSeeds,
      store     |-> {Start(Both, {}, <<>>)} ]

RequestsPerArea ==
    [ accounts |-> 2, signin |-> 3, funnel |-> 3, commerce |-> 2, knowledge |-> 2,
      agents |-> 2, evals |-> 2, nightly |-> 2, vault |-> 3, inbox |-> 2,
      systems |-> 2, store |-> 2 ]

StoreRows == {[id |-> 0, a |-> 0, b |-> 0]}
Fleet == <<"orchestrator", "finance">>
=============================================================================
