------------------------------- MODULE Records -------------------------------
(***************************************************************************)
(* The records the collections hold: for each field that some request      *)
(* reads, writes or is refused for, the values it takes here.  Names,      *)
(* texts, prices and time stamps that decide nothing are left out; a time  *)
(* stamp of which only "set or not" matters is a Boolean (read for readAt, *)
(* done for completedAt, live for expiresAt, locked for lockedUntil, used  *)
(* for lastUsedAt), and savedBy and touchedBy are the request that set     *)
(* updatedAt.  A seed or a request may leave out a field that it does not  *)
(* read or set.                                                            *)
(***************************************************************************)
EXTENDS Systems

Ids == Int
Optional(S) == S \cup {None}

(***************************************************************************)
(* Identity.                                                               *)
(***************************************************************************)
UserRecord == [id |-> Ids, email |-> STRING]

OrganizationRecord ==
    [id |-> Ids, slug |-> STRING \X Nat, kind |-> {"automsp", "customer"},
     sandboxMode |-> BOOLEAN]

MembershipRecord == [id |-> Ids, organizationId |-> Ids, userId |-> Ids, role |-> Role]

SessionRecord == [id |-> Ids, tokenHash |-> Ids, userId |-> Ids, live |-> BOOLEAN]

AuthAttemptRecord == [id |-> STRING, failures |-> Nat, locked |-> BOOLEAN]

(***************************************************************************)
(* Systems and automations.                                                *)
(***************************************************************************)
SystemStatus == {"healthy", "warning", "paused", "incident", "draft"}

SystemRecord == [id |-> Ids, organizationId |-> Ids, status |-> SystemStatus]

AutomationRecord ==
    [id |-> Ids, organizationId |-> Ids, systemId |-> Optional(Ids) \cup {Stale},
     savedBy |-> Nat]

AutomationVersionRecord == [id |-> Ids, automationId |-> Ids, version |-> Nat \ {0}]

\* The interface has no null here; Postgres clears the column with the automation.
ExecutionRecord ==
    [id |-> Ids, organizationId |-> Ids, automationId |-> Optional(Ids),
     idempotencyKey |-> Optional(Ids)]

(***************************************************************************)
(* Reports and what is told to whom.                                       *)
(***************************************************************************)
ReportRecord ==
    [id |-> Ids, organizationId |-> Ids, type |-> {"morning_brief"}, createdAt |-> Nat]

AuditLogRecord ==
    [id |-> Ids, organizationId |-> Optional(Ids), action |-> STRING,
     about |-> Optional(Ids)]

NotificationRecord ==
    [id |-> Ids, organizationId |-> Ids, userId |-> Optional(Ids), read |-> BOOLEAN]

RateLimitBucketRecord == [id |-> STRING, count |-> Nat, resetAt |-> Nat]

\* A credential is sealed under the vault key that request n made.
IntegrationRecord ==
    [id |-> Ids, organizationId |-> Ids, status |-> {"active", "revoked"},
     sealedWith |-> Optional(Nat), used |-> BOOLEAN]

(***************************************************************************)
(* Agents, their knowledge and their calls.                                *)
(***************************************************************************)
AgentRecord ==
    [id |-> Ids, organizationId |-> Ids, name |-> STRING, status |-> {"draft", "paused"},
     systemId |-> Optional(Ids), savedBy |-> Nat]

AgentVersionRecord == [id |-> Ids, agentId |-> Ids, version |-> Nat \ {0}]

KnowledgeSourceRecord ==
    [id |-> Ids, organizationId |-> Ids, name |-> STRING \X STRING,
     kind |-> {"upload", "web"}]

DocumentRecord == [id |-> Ids, sourceId |-> Ids, chunkCount |-> Nat]

DocumentChunkRecord == [id |-> Ids, documentId |-> Ids, ordinal |-> Nat]

AiRunRecord ==
    [id |-> Ids \X Ids, organizationId |-> Ids, agentId |-> Optional(Ids),
     status |-> {"completed", "failed"}]

UsageRecord ==
    LET meters == {"tokens", "agent_runs"}
    IN  [id |-> Ids \X Ids \X meters, organizationId |-> Ids, meter |-> meters]

(***************************************************************************)
(* Commerce.                                                               *)
(***************************************************************************)
OpportunityStage ==
    {"new", "qualified", "discovery", "audit", "proposal", "negotiation", "won", "lost"}

OpportunityRecord == [id |-> Ids, organizationId |-> Ids, stage |-> OpportunityStage]

AuditRecord ==
    [id |-> Ids, organizationId |-> Ids,
     status |-> {"received", "in_review", "scheduled", "completed", "declined"}]

ClientRecord == [id |-> Ids, organizationId |-> Ids]

ProjectRecord == [id |-> Ids, organizationId |-> Ids, clientId |-> Optional(Ids)]

(***************************************************************************)
(* Evaluations.                                                            *)
(***************************************************************************)
EvalSuiteRecord ==
    [id |-> Ids, organizationId |-> Ids, agentId |-> Optional(Ids),
     scorer |-> {"exact", "contains", "llm_judge"}, touchedBy |-> Nat]

EvalCaseRecord == [id |-> Ids, suiteId |-> Ids]

EvalRunRecord ==
    [id |-> Ids, organizationId |-> Ids, suiteId |-> Ids,
     status |-> {"completed", "failed", "blocked"}, total |-> Nat, passed |-> Nat,
     failed |-> Nat, done |-> BOOLEAN]

EvalResultRecord == [id |-> Ids \X Ids, runId |-> Ids, result |-> {"pass", "fail", "error"}]

(***************************************************************************)
(* Which collection holds which.                                           *)
(***************************************************************************)
Collections ==
    [ users               |-> UserRecord,
      organizations       |-> OrganizationRecord,
      memberships         |-> MembershipRecord,
      sessions            |-> SessionRecord,
      systems             |-> SystemRecord,
      automations         |-> AutomationRecord,
      automation_versions |-> AutomationVersionRecord,
      executions          |-> ExecutionRecord,
      audit_logs          |-> AuditLogRecord,
      notifications       |-> NotificationRecord,
      auth_attempts       |-> AuthAttemptRecord,
      integrations        |-> IntegrationRecord,
      reports             |-> ReportRecord,
      agents              |-> AgentRecord,
      agent_versions      |-> AgentVersionRecord,
      knowledge_sources   |-> KnowledgeSourceRecord,
      documents           |-> DocumentRecord,
      document_chunks     |-> DocumentChunkRecord,
      usage_records       |-> UsageRecord,
      ai_runs             |-> AiRunRecord,
      eval_suites         |-> EvalSuiteRecord,
      eval_cases          |-> EvalCaseRecord,
      eval_runs           |-> EvalRunRecord,
      eval_results        |-> EvalResultRecord,
      opportunities       |-> OpportunityRecord,
      audits              |-> AuditRecord,
      clients             |-> ClientRecord,
      projects            |-> ProjectRecord,
      rate_limit_buckets  |-> RateLimitBucketRecord ]

RowFits(t, row) ==
    /\ DOMAIN row \subseteq DOMAIN Collections[t]
    /\ \A f \in DOMAIN row : row[f] \in Collections[t][f]

RowsFit == \A t \in DOMAIN db : \A r \in db[t] : RowFits(t, r)
=============================================================================
