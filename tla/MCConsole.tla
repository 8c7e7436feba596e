----------------------------- MODULE MCConsole ------------------------------
(***************************************************************************)
(* An instance of Console for TLC.                                         *)
(***************************************************************************)
EXTENDS Console

TypedKeysOf == {Blank, <<"log", 2>>, <<"Not A Key", 0>>}

\* Half an hour and two.
MinutesOf == [mail |-> 30, books |-> 120]

\* Short, as long as still fits behind an overlap, just longer, too long: an empty
\* text, one that is joined, and three that are cut in the different ways.
TextsOf == {<<>>, <<400, 400>>, <<901, 780>>, <<400, 781, 400>>, <<400, 780, 901>>}
\* Each provider alone, chosen among several, first of several; a choice without a
\* key, and no key at all.
EnvironmentsOf ==
    {[requested |-> "", keys |-> k] : k \in {{}, {"anthropic"}, {"openai", "google"}}} \cup
    {[requested |-> p, keys |-> {"anthropic", p}] : p \in {"openai", "google"}} \cup
    {[requested |-> "openai", keys |-> {"anthropic"}]}

AgentVersionsOf ==
    {[model |-> m, scopes |-> s] :
        m \in {"claude-sonnet-4-5", "gpt-4o", "a model of one's own"},
        s \in {{}, {"notifications.send"}, {"integrations.http", "knowledge.write"}}}

AnswersOf ==
    {<<"text">>, <<"text", "notify_send">>, <<"http_request">>,
     <<"notify_send", "http_request", "knowledge_write">>, <<"delete_all", "text", "http_request">>}
=============================================================================
