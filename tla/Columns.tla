------------------------------- MODULE Columns -------------------------------
(***************************************************************************)
(* One interface, two adapters: what a field of a row is after it has been *)
(* written and read through the JSON files, and through Postgres, where it *)
(* is a column of another type and converted both ways.                    *)
(*                                                                         *)
(* A behaviour is about one field of one collection, written and read in   *)
(* any order on both adapters at once.  Fields that are plain required     *)
(* text, number or choice on both sides pass unchanged and are left out.   *)
(* What a value says is not modelled, only whether it is there: "blank" is *)
(* an empty text, object or list, "object" a Date or a Decimal of the      *)
(* client library, "absent" a key that the object does not have.  A number *)
(* is rounded to the digits of its column.                                 *)
(***************************************************************************)
LOCAL INSTANCE TLC

VARIABLES
    subject,  \* the collection and the field
    file,     \* the field in the JSON file; Missing without a row
    table,    \* the column in Postgres; Missing without a row
    answer    \* what the last call returned, from either adapter

columnVars == <<subject, file, table, answer>>

Missing == "no row"

(***************************************************************************)
(* The records (types.ts): fields that are required, optional and null-    *)
(* able.                                                                   *)
(***************************************************************************)
Fields(required, optional, nullable) ==
    [required |-> required, optional |-> optional, nullable |-> nullable]

AccountFields ==
    [users         |-> Fields({"name", "passwordHash", "createdAt"}, {}, {}),
     organizations |-> Fields({"createdAt", "updatedAt"}, {"industry", "size", "sandboxMode"}, {}),
     memberships   |-> Fields({"createdAt"}, {}, {}),
     sessions      |-> Fields({"expiresAt", "createdAt"}, {}, {}),
     auth_attempts |-> Fields({}, {}, {"lockedUntil"}),
     rate_limit_buckets |-> Fields({"resetAt"}, {}, {})]

SystemFields ==
    [systems     |-> Fields({"description", "businessOutcome", "ownerName", "createdAt",
                             "updatedAt"}, {}, {}),
     automations |-> Fields({"description", "createdAt", "updatedAt"}, {},
                            {"systemId", "nextRunAt", "lastScheduledAt"}),
     automation_versions |-> Fields({"definition", "createdBy", "createdAt"}, {}, {})]

RunFields ==
    [executions |-> Fields({"automationId", "automationName", "version", "trigger", "input",
                            "startedAt", "createdAt"},
                           {"output", "error", "idempotencyKey", "resume", "finishedAt"}, {}),
     execution_steps |-> Fields({"startedAt"}, {"input", "output", "error", "finishedAt"}, {}),
     execution_logs  |-> Fields({"createdAt"}, {"metadata"}, {}),
     approvals |-> Fields({"rationale", "payload", "createdAt"},
                          {"reviewerId", "decidedAt", "decisionNote"},
                          {"executionId", "agentRunId"})]

OperationsFields ==
    [metrics   |-> Fields({"value", "periodStart", "periodEnd", "createdAt"}, {}, {"calculation"}),
     reports   |-> Fields({"periodStart", "periodEnd", "payload", "createdAt"}, {}, {"storageKey"}),
     incidents |-> Fields({"startedAt", "createdAt"}, {}, {"rootCause", "resolvedAt"}),
     audit_logs |-> Fields({"resource", "createdAt"}, {"metadata"},
                           {"organizationId", "actorId", "resourceId"}),
     notifications |-> Fields({"body", "createdAt"}, {}, {"userId", "href", "readAt"})]

IntakeFields ==
    [integrations |-> Fields({"providerKey", "authType", "sealedSecret", "secretPreview",
                              "createdBy", "createdAt", "updatedAt"}, {}, {"lastUsedAt"}),
     audit_requests |-> Fields({"role", "companySize", "industry", "bottlenecks", "aiUsage",
                                "createdAt"},
                               {"phone", "currentSystems", "processVolume", "outcomes"}, {})]

AgentFields ==
    [agents |-> Fields({"description", "createdAt", "updatedAt"}, {},
                       {"systemId", "purpose", "createdBy"}),
     agent_versions |-> Fields({"approvalPolicy", "limits", "createdAt"}, {}, {"createdBy"}),
     agent_runs |-> Fields({"messages", "invocations", "pendingToolCalls", "createdAt",
                            "updatedAt"}, {}, {"finalText", "error", "createdBy"})]

KnowledgeFields ==
    [knowledge_sources |-> Fields({"createdAt", "updatedAt"}, {}, {}),
     documents       |-> Fields({"createdAt", "updatedAt"}, {}, {}),
     document_chunks |-> Fields({"createdAt"}, {}, {"embedding"}),
     usage_records   |-> Fields({"quantity", "recordedAt"}, {}, {"unitCostCents"}),
     ai_runs |-> Fields({"createdAt"}, {},
                        {"agentId", "executionId", "evalRunId", "agentRunId", "inputPreview",
                         "outputPreview", "costEstimatedUsd", "retrievalMethod",
                         "retrievalChunks", "error"})]

CommercialFields ==
    [subscriptions |-> Fields({"createdAt", "updatedAt"}, {},
                              {"stripeCustomerId", "stripeSubscriptionId", "currentPeriodEnd"}),
     invoices |-> Fields({"createdAt"}, {}, {"stripeInvoiceId", "dueAt", "paidAt"}),
     opportunities |-> Fields({"createdAt", "updatedAt"}, {},
                              {"contactName", "contactEmail", "source", "industry", "size",
                               "estimatedValue", "probability", "expectedClose", "owner",
                               "notes", "nextAction", "createdBy"}),
     audits |-> Fields({"findings", "createdAt", "updatedAt"}, {},
                       {"phone", "role", "companySize", "industry", "aiUsage", "currentSystems",
                        "bottlenecks", "processVolume", "desiredOutcomes", "priorityScore"}),
     clients  |-> Fields({"createdAt", "updatedAt"}, {}, {"industry", "size", "createdBy"}),
     projects |-> Fields({"createdAt", "updatedAt"}, {}, {"clientId", "createdBy"})]

EvaluationFields ==
    [eval_suites |-> Fields({"createdAt", "updatedAt"}, {}, {"agentId", "createdBy"}),
     eval_cases  |-> Fields({"createdAt"}, {}, {}),
     eval_runs   |-> Fields({"startedAt"}, {}, {"agentId", "model", "scorerUsed",
                                                "blockedReason", "completedAt", "createdBy"}),
     eval_results |-> Fields({"createdAt"}, {}, {"output", "passed", "reason", "latencyMs"})]

Record == AccountFields @@ SystemFields @@ RunFields @@ OperationsFields @@ IntakeFields @@
          AgentFields @@ KnowledgeFields @@ CommercialFields @@ EvaluationFields

Subjects == UNION {{<<c, f>> : f \in Record[c].required \cup Record[c].optional
                                       \cup Record[c].nullable} : c \in DOMAIN Record}

(***************************************************************************)
(* The columns (schema.prisma): dates and decimals come back as objects.   *)
(***************************************************************************)
DateColumns ==
    {"createdAt", "updatedAt", "expiresAt", "lockedUntil", "resetAt", "nextRunAt",
     "lastScheduledAt", "startedAt", "finishedAt", "decidedAt", "readAt", "lastUsedAt",
     "periodStart", "periodEnd", "resolvedAt", "recordedAt", "currentPeriodEnd", "dueAt",
     "paidAt", "expectedClose", "completedAt"}

DecimalColumns == {"value", "quantity", "costEstimatedUsd", "estimatedValue", "priorityScore"}

Sandbox == <<"organizations", "sandboxMode">>      \* required, true by default
Embedding == <<"document_chunks", "embedding">>    \* no such column

\* The column a collection is looked up by.
KeyOf(c) ==
    CASE c = "auth_attempts" -> "email"
      [] c = "rate_limit_buckets" -> "key"
      [] OTHER -> "id"

(***************************************************************************)
(* From a row of Postgres to a record.                                     *)
(***************************************************************************)
Stamps == {"createdAt", "updatedAt"}

Converted(dates, fill, opt) == [dates |-> dates, nums |-> {}, fill |-> fill, opt |-> opt]
WithNums(dates, nums) == [dates |-> dates, nums |-> nums, fill |-> {}, opt |-> {}]
Dated(dates) == WithNums(dates, {})

\* What each entry of FROM passes to dates, nums, fill and opt; a default for a
\* missing object or list is one more field to fill.
FROM ==
    [users         |-> Converted(Stamps, {"name", "passwordHash", "email"}, {}),
     organizations |-> Dated(Stamps),
     memberships   |-> Dated(Stamps),
     sessions      |-> Dated({"createdAt", "expiresAt"}),
     systems       |-> Converted(Stamps, {"description", "businessOutcome", "ownerName"}, {}),
     automations   |-> Converted(Stamps \cup {"nextRunAt", "lastScheduledAt"},
                                 {"description"}, {}),
     automation_versions |-> Converted({"createdAt"}, {"createdBy", "definition"}, {}),
     executions |-> Converted({"createdAt", "startedAt", "finishedAt"},
                              {"automationName", "trigger", "input", "version"},
                              {"output", "error", "idempotencyKey", "resume"}),
     execution_steps |-> Converted({"startedAt", "finishedAt"}, {}, {"input", "output", "error"}),
     execution_logs  |-> Converted({"createdAt"}, {}, {"metadata"}),
     approvals |-> Converted({"createdAt", "decidedAt"}, {"rationale", "payload"},
                             {"reviewerId", "decidedAt", "decisionNote"}),
     audit_logs    |-> Converted({"createdAt"}, {}, {"metadata"}),
     notifications |-> Converted({"createdAt", "readAt"}, {"body"}, {}),
     auth_attempts |-> Dated({"lockedUntil"}),
     audit_requests |-> Converted({"createdAt"}, {},
                                  {"phone", "currentSystems", "processVolume", "outcomes"}),
     integrations |-> Converted(Stamps \cup {"lastUsedAt"},
                                {"name", "sealedSecret", "secretPreview", "providerKey",
                                 "authType"}, {}),
     metrics   |-> WithNums({"createdAt", "periodStart", "periodEnd"}, {"value"}),
     reports   |-> Converted({"createdAt", "periodStart", "periodEnd"}, {"payload"}, {}),
     incidents |-> Dated({"createdAt", "startedAt", "resolvedAt"}),
     agents    |-> Converted(Stamps, {"description"}, {}),
     agent_versions |-> Converted({"createdAt"}, {"permissionScopes", "approvalPolicy",
                                                  "limits"}, {}),
     agent_runs |-> Converted(Stamps, {"messages", "invocations", "pendingToolCalls"}, {}),
     knowledge_sources |-> Dated(Stamps),
     documents       |-> Dated(Stamps),
     document_chunks |-> Dated({"createdAt"}),
     usage_records |-> WithNums({"recordedAt"}, {"quantity"}),
     ai_runs       |-> WithNums({"createdAt"}, {"costEstimatedUsd"}),
     eval_suites   |-> Converted(Stamps, {"description"}, {}),
     eval_cases    |-> Dated({"createdAt"}),
     eval_runs     |-> Dated({"startedAt", "completedAt"}),
     eval_results  |-> Dated({"createdAt"}),
     subscriptions |-> Dated(Stamps \cup {"currentPeriodEnd"}),
     invoices      |-> Dated({"createdAt", "dueAt", "paidAt"}),
     opportunities |-> WithNums(Stamps \cup {"expectedClose"}, {"estimatedValue"}),
     audits        |-> WithNums(Stamps, {"priorityScore"}),
     clients       |-> Dated(Stamps),
     projects      |-> Dated(Stamps),
     rate_limit_buckets |-> Dated({"resetAt"})]

Nothing == {"absent", "undefined", "null"}

ToIso(v) == CASE v = "object" -> "value" [] v \in Nothing -> "null" [] OTHER -> v
ToNumber(v) == CASE v = "object" -> "value" [] v \in Nothing -> "null" [] OTHER -> v
Filled(v) == IF v \in Nothing THEN "blank" ELSE v
Opted(v) == IF v = "null" THEN "undefined" ELSE v

FromRow(s, v) ==
    LET by  == FROM[s[1]]
        f   == s[2]
        iso == IF f \in by.dates THEN ToIso(v) ELSE v
        num == IF f \in by.nums THEN ToNumber(iso) ELSE iso
        req == IF f \in by.fill THEN Filled(num) ELSE num
    IN  IF s = Embedding THEN "null" ELSE IF f \in by.opt THEN Opted(req) ELSE req

\* What the client library returns for a column.
Raw(s, column) ==
    IF column = "value" /\ s[2] \in DateColumns \cup DecimalColumns THEN "object" ELSE column

(***************************************************************************)
(* From a record to a row.                                                 *)
(***************************************************************************)
\* Mutant of ToData: an undefined value is left out, as JSON does.
ToDataAsJson(v) == IF v = "undefined" THEN "absent" ELSE v

ToData(v) == IF v = "undefined" THEN "null" ELSE v

\* The column of a new row: its default where the record has no such key.
Created(s, v) ==
    CASE s = Embedding -> "null"
      [] s # Embedding /\ ToData(v) = "absent" -> IF s = Sandbox THEN "value" ELSE "null"
      [] OTHER -> ToData(v)

\* A patch without the key leaves the column alone.
Patched(column, v) == IF ToData(v) = "absent" THEN column ELSE ToData(v)

\* JSON.stringify drops a key whose value is undefined.
Stringified(v) == IF v = "undefined" THEN "absent" ELSE v

(***************************************************************************)
(* The calls.  Values are of the declared type; Sandbox is never written   *)
(* undefined (setSandboxMode takes a boolean), nor is Embedding after the  *)
(* insert.                                                                 *)
(***************************************************************************)
Values(s) ==
    LET declared == Record[s[1]]
        there == IF s[2] \in DateColumns \cup DecimalColumns THEN {"value"}
                                                             ELSE {"value", "blank"}
    IN  CASE s[2] \in declared.required -> there
          [] s[2] \in declared.nullable -> there \cup {"null"}
          [] s = Sandbox -> there \cup {"absent"}
          [] OTHER -> there \cup {"absent", "undefined"}

Write(f, t, returned) ==
    /\ file' = Stringified(f)
    /\ table' = t
    /\ answer' = [file |-> returned, table |-> FromRow(subject, Raw(subject, t))]
    /\ UNCHANGED subject

InsertValue ==
    /\ file = Missing
    /\ \E v \in Values(subject) : Write(v, Created(subject, v), v)

\* By id; a collection with another key is only ever looked up and upserted.
HasId == KeyOf(subject[1]) = "id" /\ file # Missing

UpdateValue ==
    /\ HasId /\ subject # Embedding
    /\ \E v \in Values(subject) \ {"absent"} : Write(v, Patched(table, v), v)

\* mutate reads the whole row, converts it, and writes all of it back, whatever
\* the mutator changed.
MutateValue ==
    /\ HasId /\ subject[1] # "document_chunks"
    /\ \/ \E v \in Values(subject) \ {"absent"} : Write(v, Patched(table, v), v)
       \/ LET read == FromRow(subject, Raw(subject, table))
          IN  Write(file, Patched(table, read), file)

\* upsert replaces the row in the file and patches the row in the table.
UpsertValue ==
    /\ KeyOf(subject[1]) # "id"
    /\ \E v \in Values(subject) :
           Write(v, IF table = Missing THEN Created(subject, v) ELSE Patched(table, v), v)

ReadValue ==
    /\ file # Missing
    /\ answer' = [file |-> file, table |-> FromRow(subject, Raw(subject, table))]
    /\ UNCHANGED <<subject, file, table>>

RemoveValue ==
    /\ HasId
    /\ file' = Missing /\ table' = Missing
    /\ answer' = [file |-> Missing, table |-> Missing]
    /\ UNCHANGED subject

ColumnsInit ==
    /\ subject \in Subjects
    /\ file = Missing /\ table = Missing
    /\ answer = [file |-> Missing, table |-> Missing]

ColumnsNext ==
    InsertValue \/ UpdateValue \/ MutateValue \/ UpsertValue \/ ReadValue \/ RemoveValue

-----------------------------------------------------------------------------
\* Optional fields that FROM leaves null.
ReadsNull ==
    {<<"executions", "finishedAt">>, <<"execution_steps", "finishedAt">>,
     <<"organizations", "industry">>, <<"organizations", "size">>}

\* What a reader makes of a value: code tests for null and undefined alike, and
\* isSandboxMode takes a missing flag for true.
Taken(s, v) == CASE v \in Nothing /\ s = Sandbox -> "value"
                 [] v \in Nothing /\ s # Sandbox -> "nothing"
                 [] OTHER -> v

Declared(s, v) ==
    CASE v \in {"value", "blank"} -> TRUE
      [] v \in {"absent", "undefined"} -> s[2] \in Record[s[1]].optional
      [] v = "null" -> s[2] \in Record[s[1]].nullable
      [] OTHER -> FALSE

\* Both adapters return the same field after any writes, and of the type types.ts
\* declares: dates are text, decimals numbers, a cleared field is cleared, on
\* Postgres too.  Exceptions are the embedding, which has no column and is
\* made again by its reader, and ReadsNull, which prisma-store.ts means to make
\* undefined.
AdaptersAgree ==
    answer.file # Missing =>
        /\ subject # Embedding => Taken(subject, answer.file) = Taken(subject, answer.table)
        /\ Declared(subject, answer.file)
        /\ \/ Declared(subject, answer.table)
           \/ subject \in ReadsNull /\ answer.table = "null"
=============================================================================
