------------------------------ MODULE Providers ------------------------------
(***************************************************************************)
(* Which provider serves a model call, with which model and which tools,   *)
(* and in which form.  An agent run is started under the keys of one       *)
(* environment and, after a pause for an approval, may be carried on by a  *)
(* process with other keys; its transcript is the same.                    *)
(*                                                                         *)
(* Only the state between the turns of one run is here; who may carry it   *)
(* on, and what overlapping requests do, is AgentRunner's subject.         *)
(***************************************************************************)
EXTENDS Naturals, Wire

CONSTANTS
    Environments,   \* what a process may be started with
    AgentVersions,  \* the model and the scopes of an agent version
    Answers,        \* what a model answers: sequences of tool names and "text"
    MaxTurns,       \* AGENT_RUN_MAX_TURNS
    MaxChanges      \* bound: restarts

ASSUME ProvidersAssumption == MaxTurns \in Nat \ {0} /\ MaxChanges \in Nat

VARIABLES
    env,      \* AUTOMSP_AI_PROVIDER and the providers with a key
    agent,    \* the version the run is pinned to
    run,      \* the agent_runs row
    calls,    \* the calls of the batch in hand, or pending
    sent,     \* the last request to a provider
    changes   \* history: the number of restarts since the run was started

providerVars == <<env, agent, run, calls, sent, changes>>

NoProvider == "none"
NoRun == [status |-> "none", messages |-> << >>, turns |-> 0]
NotSent == [provider |-> NoProvider]

(***************************************************************************)
(* The catalogs.                                                           *)
(***************************************************************************)
ProviderKeys == <<"anthropic", "openai", "google">>

MODELS ==
    [m \in {"claude-sonnet-4-5", "claude-haiku-4-5"} |-> "anthropic"] @@
    [m \in {"gpt-4o", "gpt-4o-mini"} |-> "openai"] @@
    [m \in {"gemini-2.0-flash"} |-> "google"]

DefaultModel ==
    [anthropic |-> "claude-haiku-4-5", openai |-> "gpt-4o-mini", google |-> "gemini-2.0-flash"]

Tool(scope, consequential) == [scope |-> scope, consequential |-> consequential]

ToolCatalog ==
    [http_request    |-> Tool("integrations.http", TRUE),
     knowledge_write |-> Tool("knowledge.write", TRUE),
     notify_send     |-> Tool("notifications.send", FALSE)]

Granted(version) == {t \in DOMAIN ToolCatalog : ToolCatalog[t].scope \in version.scopes}

(***************************************************************************)
(* The provider of an environment, and the model it is asked for.          *)
(***************************************************************************)
GetProviderKey(e) ==
    CASE e.requested \in Range(ProviderKeys) ->
             IF e.requested \in e.keys THEN e.requested ELSE NoProvider
      [] OTHER ->
             LET keyed == SelectSeq(ProviderKeys, LAMBDA k : k \in e.keys)
             IN  IF keyed = << >> THEN NoProvider ELSE Head(keyed)

SupportsTools(provider) == provider # "google"

\* Mutant of ResolveModel: the model of the version whatever the provider is.
VersionsModel(version, provider) == version.model

ResolveModel(version, provider) ==
    IF version.model \in DOMAIN MODELS /\ MODELS[version.model] # provider
      THEN DefaultModel[provider]
      ELSE version.model

Request(provider, messages) ==
    [provider |-> provider,
     model    |-> ResolveModel(agent, provider),
     tools    |-> IF SupportsTools(provider) THEN Granted(agent) ELSE {},
     turns    |-> CASE provider = "anthropic" -> ToAnthropicMessages(messages)
                    [] provider = "openai" -> ToOpenAiMessages(messages)
                    [] provider = "google" -> ToGoogleContents(messages)]

\* The calls read from an answer; each is known by its place in the transcript.
CallsOf(provider, answer, turn) ==
    LET names == CASE provider = "anthropic" -> AnthropicCalls(answer)
                   [] provider = "openai" ->
                          OpenAiCalls([toolCalls |-> SelectSeq(answer, LAMBDA b : b # "text")])
                   [] provider = "google" -> << >>
    IN  [i \in DOMAIN names |-> [name |-> names[i], id |-> <<turn, i>>]]

(***************************************************************************)
(* An agent run.                                                           *)
(***************************************************************************)
StartRun ==
    /\ run = NoRun
    /\ GetProviderKey(env) # NoProvider
    /\ Granted(agent) # {} => SupportsTools(GetProviderKey(env))
    /\ run' = [status |-> "running", messages |-> <<UserMessage>>, turns |-> 0]
    /\ UNCHANGED <<env, agent, calls, sent, changes>>

Ended(status) == run' = [run EXCEPT !.status = status]

\* A turn: no provider any more, the cap, a failed call, an answer in words, or
\* calls.
Turn ==
    LET provider == GetProviderKey(env) IN
    /\ run.status = "running" /\ calls = << >>
    /\ \/ /\ provider = NoProvider \/ run.turns >= MaxTurns
          /\ Ended("failed")
          /\ UNCHANGED <<calls, sent>>
       \/ /\ provider # NoProvider /\ run.turns < MaxTurns
          /\ sent' = Request(provider, run.messages)
          /\ \/ Ended("failed") /\ UNCHANGED calls
             \/ \E answer \in Answers :
                    LET asked == CallsOf(provider, answer, run.turns)
                    IN  /\ calls' = asked
                        /\ run' = [status   |-> IF asked = << >> THEN "completed" ELSE "running",
                                   messages |-> Append(run.messages, AssistantMessage(asked)),
                                   turns    |-> run.turns + 1]
    /\ UNCHANGED <<env, agent, changes>>

Answered == [run EXCEPT !.status = "running", !.messages = Append(@, ToolMessage(Head(calls)))]

NeedsApproval(name) == name \in Granted(agent) /\ ToolCatalog[name].consequential

\* The next call of the batch: unknown, not granted, executed or failed, it gets
\* an answer; a consequential one waits.
HandleCall ==
    /\ run.status = "running" /\ calls # << >>
    /\ IF NeedsApproval(Head(calls).name)
         THEN Ended("waiting_approval") /\ UNCHANGED calls
         ELSE run' = Answered /\ calls' = Tail(calls)
    /\ UNCHANGED <<env, agent, sent, changes>>

\* The approved call is executed before the rest of the batch is gated.
Resume ==
    /\ run.status = "waiting_approval"
    /\ \/ run' = Answered /\ calls' = Tail(calls)
       \/ Ended("rejected") /\ calls' = << >>
    /\ UNCHANGED <<env, agent, sent, changes>>

\* A process with other keys takes over.  A run it finds running was cut off, and
\* nothing carries it on.
Restart ==
    /\ changes < MaxChanges
    /\ run.status = "waiting_approval"
    /\ env' \in Environments \ {env}
    /\ changes' = changes + 1
    /\ UNCHANGED <<agent, run, calls, sent>>

ProvidersInit ==
    /\ env \in Environments /\ agent \in AgentVersions
    /\ run = NoRun /\ calls = << >> /\ sent = NotSent /\ changes = 0

ProvidersNext == StartRun \/ Turn \/ HandleCall \/ Resume \/ Restart

-----------------------------------------------------------------------------
\* Anthropic wants user and assistant turns in alternation, and the results of an
\* assistant turn's calls in the user turn behind it.
AnthropicAccepts(turns) ==
    \A i \in DOMAIN turns :
        /\ turns[i].role = IF i % 2 = 1 THEN "user" ELSE "assistant"
        /\ turns[i].role = "assistant" => i < Len(turns) /\ turns[i + 1].calls = turns[i].calls

\* OpenAI wants a tool turn for each call behind the assistant turn that asks for
\* it, and no other tool turns.
OpenAiAccepts(turns) ==
    \A i \in DOMAIN turns :
        /\ turns[i].role = "assistant" =>
               \A k \in DOMAIN turns[i].calls :
                   /\ i + k \in DOMAIN turns
                   /\ turns[i + k] = [role |-> "tool", plain |-> TRUE, calls |-> <<turns[i].calls[k]>>]
        /\ turns[i].role = "tool" =>
               \E j \in 1..(i - 1) : /\ turns[j].role = "assistant"
                                     /\ i - j \in DOMAIN turns[j].calls

\* Gemini knows the roles user and model, and the user speaks first.
GoogleAccepts(turns) ==
    /\ turns # << >> => turns[1].role = "user"
    /\ \A i \in DOMAIN turns : turns[i].role \in {"user", "model"}

\* Every request suits the provider it goes to: a model of that provider or one
\* the catalog does not know, and, for Anthropic and OpenAI, the conversation in
\* the form they accept, although another provider may have written part of it,
\* and all the tools that are granted.
\*
\* Not so for Gemini: a run it serves from the start is one question with every
\* granted tool (none), but a run that was paused and is taken over by it is sent
\* roles it does not know (provider.ts:362 passes assistant and tool on) and none
\* of its tools.  The comment at provider.ts:351-353 promises that the limitation
\* is reported; startAgentRun asks supportsTools, driveRun does not.
RequestsFit ==
    sent # NotSent =>
        /\ sent.model \in DOMAIN MODELS => MODELS[sent.model] = sent.provider
        /\ sent.provider = "anthropic" => AnthropicAccepts(sent.turns)
        /\ sent.provider = "openai" => OpenAiAccepts(sent.turns)
        /\ sent.provider = "google" => (GoogleAccepts(sent.turns) <=> changes = 0)
        /\ sent.tools = Granted(agent) \/ (changes > 0 /\ sent.provider = "google")
=============================================================================
