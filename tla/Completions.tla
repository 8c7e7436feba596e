---------------------------- MODULE Completions -----------------------------
(***************************************************************************)
(* The calls to the model provider that requests make, completions and     *)
(* embeddings, and the records that are kept of completions (ai_runs, and  *)
(* the usage meters the bill is made of).                                  *)
(***************************************************************************)
EXTENDS Requests

VARIABLES
    provider,   \* without a key "none"; else "completes", or "embeds" too
    asked       \* history: the calls that the provider was sent

aiVars == <<provider, asked>>

Outcome == {"completed", "failed"}

\* A request's j-th call, and what is metered of it: rows of their own.
AiRunRow(c, j, agent, status) ==
    [id |-> <<Number(c), j>>, organizationId |-> loc[c].org, agentId |-> agent,
     status |-> status]

MeterRow(c, j, meter) ==
    [id |-> <<Number(c), j, meter>>, organizationId |-> loc[c].org, meter |-> meter]

\* Mutant: a failed call is not metered.
RecordAiRunIfCompleted(c, j, agent, status) ==
    LET metered(name) == Inserting("usage_records", MeterRow(c, j, name))
    IN  <<Inserting("ai_runs", AiRunRow(c, j, agent, status))>>
        \o (IF status = "completed" THEN <<metered("tokens"), metered("agent_runs")>>
                                     ELSE <<>>)

\* recordAiRun for a request's j-th call.  A completed call reports tokens.
RecordAiRun(c, j, agent, status) ==
    LET metered(name) == Inserting("usage_records", MeterRow(c, j, name))
    IN  <<Inserting("ai_runs", AiRunRow(c, j, agent, status))>>
        \o (IF status = "completed" THEN <<metered("tokens")>> ELSE <<>>)
        \o <<metered("agent_runs")>>

\* The j-th completion of a request, and its j-th embedding.
Completion(c, j, status) ==
    [id |-> <<Number(c), j>>, kind |-> "completion", status |-> status]
Embedding(c, j) == [id |-> <<Number(c), j, "embedding">>, kind |-> "embedding"]

Ask(c, j, status) ==
    /\ asked' = asked \cup {Completion(c, j, status)}
    /\ UNCHANGED provider

\* Texts are embedded by a provider that can; nothing is recorded of it.
Embed(c, calls, texts) ==
    /\ asked' = asked \cup (IF provider = "embeds" /\ texts > 0
                           THEN {Embedding(c, j) : j \in calls} ELSE {})
    /\ UNCHANGED provider

\* runAgentCompletion: the answer, or the error, is recorded before the caller
\* goes on.
RunAgentCompletion(c, j, agent, next) ==
    \E status \in Outcome :
        Ask(c, j, status) /\ Calling(c, RecordAiRun(c, j, agent, status), next)

CompletionsInit ==
    /\ provider \in {"none", "completes", "embeds"}
    /\ asked = {}

(***************************************************************************)
(* Properties.                                                             *)
(***************************************************************************)
Metered(name) == {u \in Table("usage_records") : u.meter = name}

Recording ==
    {c \in Clients : pc[c] = "calling" /\ \E i \in DOMAIN loc[c].calls :
                        loc[c].calls[i].table = "usage_records"}

\* The provider is not called more often than the records say, except for what the
\* records leave out.  Every completion writes one ai_run with its outcome, a failed
\* one too, and its meter rows; so what is billed adds up to what was asked, once
\* no request is between the two, and unless one was cut off there.  An embedding
\* writes nothing: usage.ts:8 counts it among the calls that are recorded, and
\* knowledge.ts:139, 255 and 257 record none of theirs.
BillMatchesCalls ==
    \/ Recording # {}
    \/ cuts \cap {"strategy", "evaluate"} # {}
    \/ /\ \A a \in asked :
             a.kind = "completion" <=> \E r \in Table("ai_runs") : r.id = a.id
       /\ \A r \in Table("ai_runs") : \E a \in asked :
             a.id = r.id /\ a.kind = "completion" /\ a.status = r.status
       /\ Cardinality(Metered("agent_runs")) = Cardinality(Table("ai_runs"))
       /\ Cardinality(Metered("tokens"))
              = Cardinality({r \in Table("ai_runs") : r.status = "completed"})
=============================================================================
