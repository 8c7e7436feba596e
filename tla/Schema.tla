------------------------------- MODULE Schema -------------------------------
(***************************************************************************)
(* The constraints that the Postgres schema puts on the collections of the *)
(* store: which fields are unique together and which field refers to which *)
(* collection.  Collections carry the store's names (users, memberships,   *)
(* ...) and fields the records' names.  Columns that no constraint is      *)
(* about are left out, and so are the models that no collection maps to    *)
(* (Team, Service, WorkflowNode, WorkflowEdge, AgentTool, Integration,     *)
(* ApiKey).                                                                *)
(***************************************************************************)

Refers(child, field, parent, onDelete) ==
    [child |-> child, field |-> field, parent |-> parent, onDelete |-> onDelete]

(* onDelete of an optional relation that names none is SetNull.            *)
Tenants(children) ==
    {Refers(t, "organizationId", "organizations", "Cascade") : t \in children}

(***************************************************************************)
(* Unique keys, besides the primary key.                                   *)
(***************************************************************************)
Unique ==
    [ organizations       |-> {{"slug"}},
      users               |-> {{"email"}},
      sessions            |-> {{"tokenHash"}},
      memberships         |-> {{"organizationId", "userId"}},
      automation_versions |-> {{"automationId", "version"}},
      executions          |-> {{"organizationId", "idempotencyKey"}},
      agent_versions      |-> {{"agentId", "version"}},
      document_chunks     |-> {{"documentId", "ordinal"}},
      subscriptions       |-> {{"organizationId", "planKey"}} ]

UniqueKeys(t) == IF t \in DOMAIN Unique THEN Unique[t] ELSE {}

(***************************************************************************)
(* References, section by section.                                         *)
(***************************************************************************)
IdentityRefs ==
    Tenants({"memberships"})
        \cup {Refers(t, "userId", "users", "Cascade") :
                t \in {"sessions", "memberships"}}

CommercialRefs ==
    Tenants({"clients", "projects", "opportunities", "audits"})
        \cup {Refers("projects", "clientId", "clients", "SetNull")}

SystemRefs ==
    Tenants({"systems", "automations", "agents"})
        \cup {Refers(t, "systemId", "systems", "SetNull") :
                t \in {"automations", "agents"}}
        \cup {Refers("automation_versions", "automationId", "automations", "Cascade"),
              Refers("agent_versions", "agentId", "agents", "Cascade")}

KnowledgeRefs ==
    Tenants({"knowledge_sources", "integrations"})
        \cup {Refers("documents", "sourceId", "knowledge_sources", "Cascade"),
              Refers("document_chunks", "documentId", "documents", "Cascade")}

EngineRefs ==
    Tenants({"executions", "approvals", "incidents"})
        \cup {Refers("executions", "automationId", "automations", "SetNull"),
              Refers("execution_steps", "executionId", "executions", "Cascade"),
              Refers("execution_logs", "executionId", "executions", "Cascade"),
              Refers("approvals", "executionId", "executions", "SetNull"),
              Refers("approvals", "agentRunId", "agent_runs", "SetNull")}

RecordRefs ==
    Tenants({"metrics", "reports", "notifications", "subscriptions",
             "invoices", "usage_records"})

AiRefs ==
    Tenants({"ai_runs", "agent_runs", "eval_suites", "eval_runs"})
        \cup {Refers("ai_runs", "agentId", "agents", "SetNull"),
              Refers("ai_runs", "agentRunId", "agent_runs", "SetNull"),
              Refers("agent_runs", "agentId", "agents", "Cascade"),
              Refers("agent_runs", "agentVersionId", "agent_versions", "Cascade"),
              Refers("eval_suites", "agentId", "agents", "SetNull"),
              Refers("eval_cases", "suiteId", "eval_suites", "Cascade"),
              Refers("eval_runs", "suiteId", "eval_suites", "Cascade"),
              Refers("eval_results", "runId", "eval_runs", "Cascade")}

AuditRefs == {Refers("audit_logs", "organizationId", "organizations", "SetNull")}

References ==
    IdentityRefs \cup CommercialRefs \cup SystemRefs \cup KnowledgeRefs
        \cup EngineRefs \cup RecordRefs \cup AiRefs \cup AuditRefs
=============================================================================
