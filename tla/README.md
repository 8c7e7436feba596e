# A verification of the AutoMSP platform

AutoMSP is a multi-tenant web application (Next.js, TypeScript) in which an
organization builds automations, runs them by hand or on a schedule with pauses
for approval, and lets AI agents call tools under the control of human
reviewers. This directory holds TLA+ models of its server side, the TLC
instances that check them, and proofs about them that TLAPS checks.

All paths below are relative to the repository; the server lives in
`src/src/server`, the request handlers ("server actions") in `src/src/app`.

## How the program runs

One Node process, or several, serve requests. Nothing is locked and no database
transaction is opened: a request is a sequence of `await store.*` calls, and at
every `await` any other request may run. What keeps requests apart is

- the status columns they check before they write,
- a few unique indexes and foreign keys, which only the Postgres store has
  (`prisma/schema.prisma`); the JSON file store used in development has none,
- idempotency keys (`sched:{automationId}:{dueAt}` for the scheduler),
- the fact that `store.update` writes only the columns of its patch, while
  `store.mutate` reads the whole row, changes the copy and writes it all back.

A crash loses every request in flight; what it has written stays. Nothing looks
for half-done work at start-up, except that the scheduler retries an occurrence
whose cursor was not advanced.

## Inventory

| Component | State | Operations | Works with |
|---|---|---|---|
| Workflow engine, `engine/executor.ts` | `executions`, `execution_steps` | `startExecution`, `runWalk`, `executeNode`, `resumeExecution` | called by the scheduler, the automation requests and the decision; inserts approvals |
| Approval decisions, `app/app/approvals/actions.ts` | `approvals` | `decideApprovalAction` | resumes the engine or the agent runner |
| Automations, `automations.ts` | `automations`, `automation_versions` | `createAutomation`, `saveDefinition`, `updateAutomation`, `deleteAutomation`, `refreshSchedule` | writes the scheduler's cursor; the engine reads the versions |
| Automation requests and builder, `app/app/automations/*` | the builder's form in the browser | forms, permission checks, cleaning of a definition | calls automations and the engine |
| Workflow definitions, `engine/definition.ts` | none (a version's JSON) | `validateDefinition`, `stepsToDefinition`, `nextNodeKey`, `interpolate` | used by engine and automations |
| Interval scheduler, `scheduler.ts` | the cursor `automations.nextRunAt`; a timer | `tick` | starts executions, calls the nightly cycle |
| Agent runs, `ai/agent-runner.ts` | `agent_runs` (transcript, invocations, pending calls) | `startAgentRun`, `driveRun`, `handleToolCalls`, `resumeAgentRunFromApproval` | calls the provider and the tools; inserts approvals |
| Agent tools, `ai/tools.ts` | rows the tools write | `executeTool`, scopes and policies | called by the runner |
| Postgres adapter, `db/prisma-store.ts`; JSON store, `db/json-store.ts` | all rows | `find`, `insert`, `update`, `mutate`, `remove` | under everything |
| Nightly cycle, `ops/nightly-cycle.ts` | one brief per organization and day | check, agent run, insert | called by the tick |
| Rate limiter, `rate-limit.ts`; audit-request funnel, `app/api/audit-requests`, `audit-requests.ts` | in-memory buckets, a shared row; a file of receipts | `rateLimit`, `rateLimitShared`, `POST` | commercial records |
| Sign-up, sign-in, `auth/*` | users, sessions, throttle rows | sign-up, sign-in, sign-out | organizations, memberships |
| Members and settings, `app/app/organization/actions.ts`, `org-settings.ts` | memberships, one flag | invite, role change, removal | permissions |
| Vault, `vault.ts`, `integrations.ts` | credentials, a key file | seal, open, revoke | HTTP steps |
| Agents and fleet, `ai/agents.ts`, `ai/fleet.ts` | agents, agent versions | create, save version, seed | the runner pins a version |
| Knowledge and strategy, `ai/knowledge.ts`, `growth/strategy.ts` | documents, chunks | add, remove, retrieve, generate | agent prompts |
| Evaluations, `ai/evals.ts` | suites, runs, results | run a suite | provider |
| Provider, `ai/provider.ts` | none | `complete`, with timeouts | runner, AI steps, evaluations |
| Usage, billing, audit, notifications | append-only rows | append, sum, mark as read | everywhere |
| Systems and commercial records, `systems.ts`, `commercial.ts` | one row each | create, read, update, delete | automations belong to systems |
| Metrics, reports, dashboard, `ops/*`, `dashboard.ts` | reports, metric rows | compute, generate | read everything |
| Pages, `proxy.ts`, marketing content | none | rendering | none |

`PROJECT.json` says of each whether it is modelled and why not. What makes each
correct, and what is hard about it:

- **Engine.** A gate lets nobody through without an approval at that gate; a run
  executes its pinned chain in order, each node once, over any number of pauses;
  an ended run stays ended and its record agrees with its steps; one idempotency
  key gives one run; every run comes to rest. Hard: two decisions at once, a
  decision between the insert of the approval and the pause, a version removed
  under a running walk, crashes between any two writes.
- **Scheduler.** Each occurrence runs at most once, never early, and, while
  nobody edits the automation, at least once. Hard: `setInterval` does not wait
  for a tick to finish, a tick awaits a whole walk before it writes a cursor it
  computed before, and edits write the same cursor.
- **Agent runner.** A consequential tool runs only after a reviewer approved
  that very call, once; what the provider is sent is a conversation it accepts,
  with each call answered once and in order; an ended run stays ended. Hard:
  batches with several consequential calls, late and double decisions, whole-row
  writes from stale copies, pauses between a call and its answer.
- **Stores.** An operation on a row has the effect of an atomic one. The JSON
  store reads and writes whole files, so it can lose updates.
- **Accounts, members.** An organization keeps an owner; the sign-in throttle
  counts every failure; a sign-up leaves all of its rows or can be repeated.
- **Nightly cycle, limiter.** One brief per day; an overshoot within the bound
  the limiter's comment states.
- **Usage.** What is metered is what the provider was asked, failed calls
  included. Hard: the provider is asked first and the rows follow, and not every
  call to it goes through the recorder.
- **Knowledge, evaluations, vault, fleet.** No rows without their parents, no
  record ahead of the work it reports, one key, one fleet.
- **Versions, systems.** Versions are numbered without gaps, no system or
  automation that is in use is deleted, and no request touches another tenant's
  rows. Hard: every check is a store call of its own before the write, and one
  reference is not checked at all (`createAutomation`).
- **Builder, figures, retrieval.** What is saved is what the engine walks; the
  figures of a report agree although their queries see different moments; an
  answer is drawn from whole documents, as far as the cap on the corpus allows,
  and from comparable vectors.

The hazards, each at the line where it bites, are in `PROJECT.json`.

## Modules

The engine, the scheduler and the agent runner, where requests work on one row
for long, are modelled each by itself, one action per `await`:

| Module | Models |
|---|---|
| `Engine` | workflow engine, approval decisions on workflow runs, and the saves and deletions of an automation that change what a run reads |
| `GatedRun` | what a run promises: it enters the nodes of its chain one by one, and goes on from an approval node only when a reviewer approved there |
| `GatedEngine` | the refinement mapping from `Engine` to `GatedRun`, per run |
| `Scheduler` | overlapping ticks, the cursor, the idempotency key, and the edits that move the cursor |
| `AgentRunner`, `Wire` | agent runs, the tool gates, approval decisions on agent runs; the transcript, what each provider is sent of it and reads from its answer |
| `MCEngine`, `MCScheduler`, `MCAgentRunner` | the instances TLC checks |
| `EngineProofs` | proofs of the type invariant, the gate, the order of steps, finality and idempotency of `Engine`, and of what the step rows tell of a run that has ended |
| `GatedEngineProofs` | proof that `Engine` refines `GatedRun` |
| `SchedulerProofs` | proofs of type correctness, single occurrences and no skipped occurrence of `Scheduler` |
| `AgentRunnerProofs` | proofs of type correctness, grants, single execution and finality of `AgentRunner` |

Everything else works on many collections with few calls. Those requests share
one model of a store and of a request:

| Module | Models |
|---|---|
| `Schema` | the unique keys and foreign keys of `prisma/schema.prisma`, with what a deletion does to rows that refer |
| `Permissions` | `auth/permissions.ts`: roles and what they may do |
| `Requests` | the store, one call at a time, on either adapter; requests in flight, their session, and requests cut off |
| `Records` | the fields of each collection's rows |
| `Accounts` | sign-up, sign-in with its throttle, sign-out, members, sandbox switch |
| `Intake` | the public audit-request route with its rate limits and receipts; commercial records |
| `Completions` | the calls the provider is sent, completions and embeddings, and the `ai_runs` and `usage_records` rows that are kept of completions |
| `Knowledge` | sources, documents (a form's and an agent's), chunks, the retrieval request, strategy generation |
| `Agents` | agents, versions, the starter fleet |
| `Evals` | suites, cases, runs of a suite |
| `Nightly` | the nightly cycle |
| `Workspace` | the vault with its key file, credentials and their use by steps and tools, the inbox |
| `Systems` | systems, automations with their versions and runs as rows |
| `Stores` | inside the store's calls: files, inodes and temporary files; reads before writes on Postgres |
| `Platform`, `MCPlatform` | the composition of these, by area, and its instance |
| `PlatformProofs` | proofs, over `Platform`, that a store's call is atomic, that the areas are apart, and of what the nightly cycle, the vault, sign-in, the funnel and the fleet promise |
| `AccountsProofs` | proof, over `Platform`, that sign-ups are whole, nobody is on record twice and organizations keep an owner |
| `IntakeProofs` | proof, over `Platform`, of what the rate limiter lets through, in memory and over the shared row |
| `CompletionsProofs` | proofs, over `Platform`, that what is metered is what was asked of the provider, embeddings apart, and that evaluations add up |

What happens on one page, in one computation or below every request is in
`Console`, which composes

| Module | Models |
|---|---|
| `Builder` | the form of the automation builder, the cleaning, checking and saving of what it sends |
| `Figures` | metrics of a period, return on investment, reports and the dashboard, with queries that the rest of the system cuts through |
| `Retrieval` | `chunkText`, embedding, what a query of the knowledge base reads, and the cap on what is compared |
| `Providers` | the provider, model and tools of each request of an agent run that pauses and is carried on by a process with other keys |
| `Columns` | every field of every collection that is not plain required text: written and read through either store |
| `MCConsole` | its instance |

**Rows and requests.** A database column is a variable (in `AgentRunner`, where
`mutate` writes whole rows, a row is a record). A request is a process: `pc` is
the `await` it has reached and `loc` its local variables. One store operation
is one action; `Crash` may end a request between any two of them. An action is
named for what the code does there: `InsertStep`, `RequestApproval`, `PauseRun`.
`map` in `PROJECT.json` gives the source lines of each definition.

In the modules of `Platform` a request is a slot in `Clients`: `pc` is where it
is, `loc` its locals, among them `calls`, the store calls it makes one after the
other with nothing decided in between. `StoreCall` carries out the first of them
on `db` as the adapter would, refusing what Postgres refuses and cascading what
it cascades; a refused call ends the request. Reads of one request with no
write of anybody's that could tell them apart are one step. Ids are made from
the number of the request, so that a row tells who wrote it. `area` is chosen at
the start and says which requests a behaviour is about: requests of different
areas share no collection but append-only ones, and those are never read to
decide. In the area `store` the calls themselves are taken apart (`Stores`); in
all others one call is one step, which `CallsAreAtomic` justifies for calls that
do not meet.

**What is abstracted.** Text, prompts, results, logs, and notifications and
audit rows that no property is about. A step or tool call has each outcome its
code can return, a model call answers or fails. In the three long-running
components permission, tenant and note checks end a request without a state
change and so are the requests that never happen; in `Platform` they are part of
the actions. A definition is the sequence of its node types, because every saved
definition is the chain `stepsToDefinition` builds (`SavedIsWalked` checks
that for whatever the builder sends); the key of a node is its position. In
`Scheduler` a walk only takes time: `Engine` is the model of the walk, and its
`RunsComeToRest` is what the fairness of `WalkReturns` rests on. A run that
waits at a gate lets the tick go on, as in the code. Further:

- Of the rows there are, a form may name any, and the code's checks decide; where
  it names a system it may also name one that is gone, or another organization's
  (`Sendable`).
- An agent that a suite asks has a version. A creation cut off between the two inserts
  leaves one without; its cases end in errors before the provider is asked.
- `newId` is random. In the model an id is made from the number of the request that
  inserts the row; of `ai_runs`, meter rows and results of evaluations, of which one
  request inserts many, it is a pair or a triple.
- A model call of an agent run or of an AI step in a workflow is recorded by the same
  `recordAiRun`; `AgentRunner` and `Engine` leave the rows out, and `BillMatchesCalls`
  is about strategies and evaluations. Retrieval inside a completion
  (`agents.ts:207`, asked for by AI steps only) is left out with them. In
  `runAgentCompletion` an insert of `ai_runs` that the database rejects would be caught
  and recorded once more, as failed (`agents.ts:257`); a store call that is refused
  ends the request here.
- A session is alive or not; the renewal of its expiry is not modelled. An
  address locked out is a flag that time clears.
- The agent run inside a nightly cycle takes time and does nothing else here.
- A completed model call is taken to report tokens; a secret is the key it is
  sealed with; a website given to the strategy generator is a free choice.
- `Figures` has the collections that figures are computed from; the rest of the
  system changes them by one small step at a time. A section of a report is the
  set of figures it shows; tokens and mean times are left out.
- `Retrieval` is about one source on the JSON files. A text is the lengths of
  its paragraphs; scores are not modelled.
- `Columns` follows one field at a time, since no conversion looks at two, and
  knows of a value whether it is there, empty, null or missing, and whether it is
  an object of the client library. Fields that are plain required text, number or
  choice on both sides are left out, and the rounding of decimals is. A tool call
  with arguments missing fails without a store call and is left out.

**The refinement.** `Phase`, `chain`, `entered` and `granted` of a `GatedRun` are
computed from the run's status, the version it is pinned to, the number of its
step rows and the reviewers' approvals. A run one of whose approvals was decided
twice is in the phase "contested", for which `GatedRun` promises nothing: that
is the first finding. `RunsAreGated` says that every step of `Engine` is a step
of each run's `GatedRun` or leaves it as it is.

**History variables.** `granted` records the gates (calls) some reviewer decided
"approved" on, `redecided` the runs with an approval that was decided twice,
`effects` the tool calls carried out, and the third component of an element of
`runs` counts the executions inserted with one key. In `Platform`, `met` holds
the pairs of operations that were in flight together and `cuts` the operations
that were cut off; `accepted`, `allowed`, `asked`, `streak` and `serial` record what was
answered, let through, asked of the provider, guessed and done. Many of its properties have the form
"unless these two operations met, or this one was cut off": the model shows that
nothing else hurts, and without any one of the exceptions TLC reports the
property violated, so those overlaps and failures do. The exceptions are coarse:
a meeting is excused whether or not it did harm. Where the code does nothing against
the race that a property excuses (two cycles, two sign-ins, two audit requests, two
clicks on seed, two first uses of the vault's key), the property says nothing about
that race, and the hazard is listed in `PROJECT.json` as one that no property covers.

**Mutants.** A definition whose comment begins "Mutant" is a plausible
mistake in the definition named there or next to it; nothing uses it. Put in its place, it
makes TLC report the property named with it in `PROJECT.json`, which shows that
the property depends on that line of the code.

## What the runs check

Every configuration has `CHECK_DEADLOCK FALSE`: a system in which every run has
ended and nobody makes a request has stopped, and that is right.

| Run | Instance | Shows |
|---|---|---|
| `EngineOverlap` | one run through trigger, gate, gate, http; two reviewers, one crash | With every order of decisions, crashes and edits the run is a `GatedRun` unless an approval is decided twice; its steps follow the chain; it stays ended and its record agrees with its steps; `TraceInv`, the inductive invariant of the proofs, holds |
| `EngineCalls` | two calls, one key, two versions (trigger, condition, gate; trigger, output), fair, no crash | One run per key; every inserted run comes to rest, also when the version or the automation is removed under it |
| `SchedulerEdited` | one automation, two ticks and one operator at once, two edits, one crash, clock to 2 | An occurrence runs at most once, whatever the cursor is set to |
| `SchedulerCatchUp` | two automations, intervals of 1 and 2, two ticks, one crash, clock to 2, nobody edits, fair | No occurrence is skipped, and every due one is run |
| `AgentRunnerOverlap` | replies with one or two consequential calls, one turn, two reviewers, one crash | No consequential call without a grant for it, none twice; ended runs stay ended |
| `AgentRunnerSerial` | six replies that mix all kinds of call, three turns, one reviewer, fair, no crash | What is sent to the model alternates turns and answers each call once and in order; every run comes to rest |
| `Platform` | twelve areas, two requests at once, two or three in all, one cut off, both adapters | see below |
| `Console` | five parts, see below | the saved version is walked whole, figures agree, retrieval is sound, requests fit their provider (Gemini excepted), the two stores agree on every field |
| `EngineGateBypass` | as `EngineOverlap`, no crash | the counterexample of the first finding |
| `EngineEarlyDecision` | one gate, one reviewer | the counterexample of the second finding |
| `SchedulerOutOfSync` | one automation, one tick, one operator | the counterexample of the third finding |
| `DocumentsOnPostgres` | the area `knowledge` of `Platform` | the counterexample of the fourth finding |

The properties of `Platform`, and what breaks them where they have exceptions:

| Property | Says | Except after |
|---|---|---|
| `TypeOK` | rows have their types, keys are primary, on Postgres references resolve | |
| `TenantsAreSeparate` | a request writes rows of its own organization only | on Postgres, a system deleted that another organization's automation was created with: the reference is cleared |
| `AccountsAreSound` | a user has a complete sign-up; addresses and memberships are single; an organization with members has an owner | a sign-up cut off; on Postgres two at once, on JSON two of sign-up, invitation at once; for the owner two of role change, removal at once |
| `GuessesAreCounted` | `MAX_FAILURES` failures in a row lock an address | two sign-ins at once, one cut off |
| `WithinLimit` | the limiter's header: the limit in memory; over it by at most the requests in flight together less one | a live window evicted from a full map |
| `AcceptedIsKept` | an accepted audit request is on record | two at once, one cut off |
| `BillMatchesCalls` | each completion the provider was sent has its `ai_runs` row and its meter rows, and no embedding has any | a request cut off between the two |
| `KnowledgeIsWhole` | a document has all its chunks and a source; one strategy source per business | a request cut off; a paste or generation during a generation |
| `VersionsAreDense` | versions are 1, 2, ... without repetition | on JSON, two saves at once |
| `FleetIsSeededOnce` | the fleet adds no agent that is there | two of seeding, creation at once |
| `EvaluationsAddUp` | passed, failed, total and results agree when a run is over | a run cut off stays "completed" without results |
| `BriefsAreDaily` | one brief per organization and day, and it is announced | two cycles at once; one cut off |
| `CredentialsOpen` | active credentials open after a restart | two first uses of the key at once |
| `NothingDangles` | no step deletes a system that an automation of its organization has, nor an automation that has runs or versions; no update links an automation to a system its organization does not have | a link during the deletion of a system; any operation during the deletion of an automation |
| `CallsAreAtomic` | a store call is done or not done, and none is lost | JSON: two writes at once; Postgres: a mutate beside another write |

`Console`: `SavedIsWalked` for every sequence of edits over two step types and
three typed keys, four steps at most, until a save is accepted; `FiguresAgree`
for two automations and three events of the system between the queries of a
report and the dashboard; `RetrievalIsSound` for two documents pasted and
removed, five texts that are cut in the different ways, a cap of three chunks, two
kinds of vectors and a restart with another provider: either all chunks of a
document are compared, or it is being removed, or the answer says that the corpus
was capped, which it was exactly when it is full and chunks were left out.
`FiguresAgree` also compares, in each type of report, the highlighted figures with
the metric detail and with the other places that show them, except the labor value
and the return multiple of an impact report, which no metric reproduces, and the
"decisions in period", which count another period (see the disagreements).
`RequestsFit` covers six environments (each provider alone
or chosen, none, a choice without a key), versions that name a model of any
provider or of none, three sets of scopes, batches of up to three calls, two
restarts and three turns: Anthropic and OpenAI accept the transcript another
provider wrote; Gemini is sent a transcript it does not accept exactly when it takes
over a run that paused. `AdaptersAgree` covers all 38 collections, every declared value of a field,
and any sequence of inserts, updates, mutates, upserts, reads and removals.

**The bounds, and why they are enough.** `Calls`, `Starters`, `Reviewers`,
`Ticks` and `Operators` are the requests in flight at once. A run is one row
and its steps touch no other run's row, so two calls are needed only where they
share a key; two reviewers are needed for every overlap of decisions, and a
reviewer may decide again after returning, so two are also any number one after
another. Two gates back to back are the shortest chain in which a late decision
can meet the wrong gate, and the step behind them shows whether it passed.
`MaxCrashes` 1: a crash only removes a request, and later ones start from rows
the first crash could have left. `MaxTime` 2 with intervals of 1 gives two
occurrences, a missed one and one to catch up. `MaxTurns` is 1 where overlap is
asked for (a batch of two calls pauses twice in one turn) and 3 where the cap
is. Where `SYMMETRY` is used, only safety and action properties are checked.

In `Platform` two clients are the requests in flight at once: each exception
above is about a pair, and a third request changes a row no more than one of two
that come one after another. `RequestsPerArea` allows three in all where the
third has to come after the two that met (sign-in, whose limit of failures is 2
here; the funnel, whose limit is 1; the vault, where a later request opens what
was sealed), two elsewhere. `MaxCuts` 1, as for crashes. `Limit` 1 and
`MaxBuckets` 1 make an address hit its limit and evict another's bucket; the
clock and the day advance once, which is enough for a window that expires and a
cycle that passes midnight. Of the three addresses
one belongs to a member, and the other two can sign up for the same slug. One strategy
document, a fleet of two, two chunks to a document: the least with which half of
the work can be done. In the area `systems` members of two organizations act, each
with a system and an automation of its own. In `Console` the edge `Target` = 900, `Overlap` = 120 is the code's, and the paragraph lengths
lie on both sides of each comparison.

**Fairness.** `Spec` assumes none, and the safety properties need none. `FairSpec`
has weak fairness for the steps of each accepted request: the event loop runs
every pending continuation, and every call out of the process ends
(`ai/provider.ts` 190, 277, 314, 365, 387; `ai/tools.ts` 189;
`engine/executor.ts` 273 are the timeouts). For the scheduler it also has
`BeginTick`, because `setInterval` keeps firing. Nobody has to make a request,
decide an approval or edit an automation, so waiting counts as rest. Crashes
are left out where the code has no recovery (`RunsComeToRest`); the scheduler's
`DueIsServed` is checked with one, since its comment promises the retry.

## What is proved

TLAPS proves the theorems below for all values of the constants that satisfy the
assumption of the module: any number of requests, any number of crashes, any
clock. None of them assumes fairness.

| Module | Theorem | States |
|---|---|---|
| `EngineProofs` | `TypeCorrect` | `Spec => []TypeOK`: among others, a request never holds a node, step or approval that does not exist |
| | `Inductive` | `Spec => []IndInv` |
| | `GatesRespectedUnlessRedecided` | `Spec => []GatesHoldUnlessRedecided`: a double decision is the only way around a gate |
| | `ChainFollowed` | `Spec => []StepsFollowChain`: each node once and in order |
| | `SettledStays` | `Spec => SettledIsFinal` |
| | `KeysUnique` | `Postgres => (Spec => []OneRunPerKey)` |
| | `TraceInvariant` | `Spec => []TraceInv` |
| | `CompletedAreWhole` | `Spec => []CompletedRunsAreWhole` |
| | `FailedShowWhy` | `Spec => []FailedRunsShowWhy` |
| `GatedEngineProofs` | `Refines` | `Spec => RunsAreGated`: the engine implements the abstract gated run |
| `SchedulerProofs` | `TypeCorrect` | `Spec => []TypeOK` |
| | `RunsOnce` | `Postgres => (Spec => []OccurrenceRunsOnce)`, whatever is edited meanwhile |
| | `NoneSkipped` | `Spec => []NoOccurrenceSkipped`: while nobody edits, no cursor passes an occurrence that has not been run |
| `AgentRunnerProofs` | `TypeCorrect` | `Spec => []TypeOK` |
| | `ConsequentialGranted` | `Spec => []ConsequentialNeedsGrant`, double decisions included |
| | `RunsAreCarriedOn` | `Spec => []RunInv` |
| | `CallsExecutedOnce` | `Spec => []ExecutedOnce` |
| | `EndedStaysEnded` | `Spec => SettledIsFinal` |
| `PlatformProofs` | `StoresAreAtomic` | `Spec => []CallsAreAtomic`: on either store a call is done or not done, and none is lost |
| | `BriefsDaily` | `Spec => []BriefsAreDaily` |
| | `CredentialsStayOpen` | `Spec => []CredentialsOpen` |
| | `GuessesCounted` | `Spec => []GuessesAreCounted`: `MAX_FAILURES` wrong passwords in a row lock an address |
| | `AcceptedStays` | `Spec => []AcceptedIsKept`: no accepted audit request is dropped |
| | `RequestsKeepToTheirArea` | `Spec => [][\A t \in DOMAIN db : db'[t] # db[t] => t \in WritesOf(area)]_vars` |
| | `FleetSeededOnce` | `Spec => []FleetIsSeededOnce`: seeding is safe to repeat |
| `AccountsProofs` | `AccountsSound` | `Spec => []AccountsAreSound`: sign-ups are whole, nobody is on record twice, organizations keep an owner |
| `IntakeProofs` | `LimitHolds` | `Spec => []WithinLimit`: in memory the limit, over the shared row one less than the requests that met on top of it |
| `CompletionsProofs` | `BillAddsUp` | `Spec => []BillMatchesCalls`: each completion that the provider was sent has one `ai_runs` row, with its outcome and its meter rows, and there is no other; embeddings have none |
| | `EvaluationsSound` | `Spec => []EvaluationsAddUp`: totals, cases and results of an evaluation agree when it is over |

**The assumptions.** `EngineAssumption`: definitions of any length that start
with their only trigger. They do because `stepsToDefinition` (`automations.ts`)
chains the steps and `validateDefinition`, called at every save, wants exactly
one trigger and no edge into it. It does not by itself rule out cycles or parts
nothing leads to; the chain does. `SchedulerAssumption`: intervals are positive,
as the form's are. `AgentRunnerAssumption`: a reply is a sequence of calls, of
any length. The two theorems with the hypothesis `Postgres` are about its unique
index on the idempotency key; the JSON store has none, and there the model is
only checked. `StoresAssumption` and `PlatformAssumption` say what rows a behaviour
starts from: at most one brief of an organization and day, each announced; no
credential active before there is a key; one count of failures, and one row of the
limiter, to an address;
agents with names and with ids that no request has given; people, each once, in
organizations that are on record and have an owner; no model calls and no evaluations
yet, and suites of agents that are on record; finite collections of records.
The names in `FLEET_TEMPLATES` are distinct, and fewer than a hundred (`AgentsAssumption`):
an agent's id says which request and which template it is of.
`AccountsAssumption` is that `MAX_FAILURES` is positive, `IntakeAssumption` that
`FUNNEL_LIMIT` and `MAX_BUCKETS` are; it and `RequestsAssumption` also keep `None` apart
from numbers and from sets of them.

**The engine's argument.** `TypeOK` is not inductive: that a resumed walk has a
node of the chain depends on the cursor in the row, and that on the version the
run was pinned to. `TypeInv` adds `Placed` (what a request knows of itself, and
that nothing of a run exists before its call has inserted it) and `Resumable` (a
cursor points into the chain). `EngineProofs` shows that each action preserves it.

`GatesHoldUnlessRedecided` needs much more, because `resumeExecution` takes the
gate from the run and not from the approval: it is right only as long as the
approval decided is the newest one of the run. `IndInv` says, of a run whose
approvals were each decided at most once, that one request at a time has it in
hand (`OneDriver`), that its rows are in order (`RowsInOrder`: only the newest
approval can be pending, and a waiting run waits at the gate of that approval),
that the driver is where the status and the steps say (`DriverInOrder`), and
that a decider about to read the run has decided the newest approval
(`DecidedLast`). A decision that meets a pending approval thereby knows that
nobody else has the run; one that meets a decided approval puts the run in
`redecided`. Each action has a lemma; `RunFrame`, `ServeMoves` and `ServeRows`
say which steps leave a run alone, so that each lemma is about one run.

`TraceInv` is `IndInv` with what the step rows tell (`StepsTell`): all of them
are completed except perhaps the last, and at each `await` the driver knows the
status of that one. `AtGates` (a run pauses at approval nodes only),
`NothingYet` and `VersionsKept` (a version that a run is pinned to goes only
with its automation) complete it. Why a settled run's steps show how it ended is
then a conjunct of it, and the refinement is one lemma for each action: under
`TraceInv` the action either leaves `Phase`, `chain`, `entered` and `granted` of
a run as they are or is the step of `GatedRun` it is meant to be. `IndInv` alone
is too weak for that, since whether a step enters the next node or ends the run
is decided by what the newest row says.

**The scheduler's argument.** `RunsOnce` follows from the index: a run carries
its number among those with its key, and an insert that finds the key free
makes number one.
`NoOccurrenceSkipped` is not inductive, because a tick writes a cursor it
computed several awaits earlier, possibly behind a tick that has overtaken it.
`CatchUpInv` says what the tick may rely on meanwhile: the occurrence it has found
due stays one that everything before has been run for (`Owed`), the cursor it
will write is one interval on, and by the time it writes it the key of the
occurrence is taken, by its own run or by that of the other tick
(`TickInOrder`). All of it is said while nobody has edited; with an edit it is
false, which is the third finding.

**The agent runner's argument.** `ConsequentialNeedsGrant` holds even where
approvals are decided twice, because of the `callId` check: `GrantInv` says that
whoever has an approval in hand after that check has the granted call at the head of its
list. `ExecutedOnce` and `SettledIsFinal` need `RunInv`, since both the driver
and `mutate` write the row without looking at its status: of a run none of whose
approvals was decided twice, one request drives it and one decides it, and the
two are the same unless the decision came before the pause (`OneHand`); the
decision is about the newest approval (`LatestApproval`); the status is what the
driver takes it to be and the copy in a `mutate` is the row (`StatusKnown`); the
calls ahead are younger than all that have been executed (`CallsAhead`).

TLC checks `TraceInv`, which contains `IndInv`, in `EngineOverlap`.

**The platform's argument.** Each step of `Platform` is guarded by the area its
request belongs to, so `Frame`, `NightlyFrame`, `VaultFrame`, `SignInFrame`,
`FunnelFrame`, `LimiterFrame`, `FleetFrame`, `BillFrame` and `EvalFrame` can list the few steps that happen in one area; of all others they
show that they leave the area's variables alone. Every property has the same form:
it holds unless two requests met, or one was cut off, in one of the ways the
property names. The invariants repeat that exception. Outside it a request that
is in flight is alone with its rows, so what it has read is still so when it writes
(`SignInAlone`, `FunnelAlone`, `AloneWithKey`), and they say at each `await` what that is.

- `StoreInv`: nobody's temporary file is anybody else's unless two shared a name;
  what a write holds, and will rename into place, is the effect of that write on
  the collection, if it is the only one; on Postgres the row read is the row there, unless
  a `mutate` came between.
- `BriefsInv`: the requests are cycles at a known `await` (`Cycles`), an organization
  has one brief for a day (`OneEach`), and each brief has its notification, or a cycle in
  flight whose calls ahead contain it (`AllTold`).
- `VaultInv`: the requests are where their locals say (`Vaults`), and all keys agree
  (`OneKey`): the one in the file is the one in memory, and what a request is about to
  seal or has sealed is sealed with it. A process that ends before the file is filled
  leaves no key, and nothing sealed with the one it lost (`Keyed`).
- `GuessInv`: a count takes notice of the guesses when it is as high, or has locked
  the address, or the guesses were forgotten as a lock ended (`Agrees`). The row of an
  address does (`OnRow`), or the count that a request is about to write does
  (`Recounting`); `GuessesAreCounted` alone is not inductive, since it does not know
  that a request past the check has an unlocked count in hand.
- `FunnelInv`: the file of receipts is torn only while a request is about to fill
  it, and everything accepted is in the file or among the records in that request's hands (`Kept`).
- `WindowInv`: in memory a check is one step, and the requests past it, recorded or
  not, are counted in the live bucket of their address, unless that was evicted
  (`InMemory`). Over the shared store (`OnPostgres`) the row is read, and written later
  over whatever is there by then, so requests that meet may count as one. Of those let
  through in a window, `Split` sets apart the n that were alone until they were recorded
  from the set D of those that had met somebody. The n are in the row in full; of D one
  is, and only as long as all who ever met are of this window (`Joined`), since any other
  may have written the row before them. That is how high the row must be while it matters to
  the window (`Level`, `Due`), and how high what a request past the check has written
  or will write must be (`Need`, `Checked`). When D is all who ever met, one of them is in
  the row; when it is not, it is at least one short of them: either way the overshoot is
  at most one less than those who met. n and D are not variables of the model but the
  witnesses of the invariant.

- `CallsInv`: whatever calls a request still has to make, they are about its area's
  collections, and what it removes are rows whose dependents are too (`OwnCalls`,
  `AreasClosed`, the latter from the schema's references). `RequestsKeepToTheirArea`
  follows, and with it that evaluations leave alone the agents they refer to
  (`FleetKept`).
- `FleetInv`: every agent's id is below those of requests to come (`AgentIds`); a
  request knows its point, what it has read and the one call of its list that adds an
  agent (`AgentRequests`: the others are `Quiet`). While no two requests that add agents
  have met, the agent about to be added comes after all there are, or bears a name that
  is free, and so are the names that the loop has yet to reach (`InOrder`). Only the
  last is what `seedFleet` relies on when it reads the names once and then creates agents
  with an `await` between any two.
- `BillInv`: a request numbers the completions it asks for, and its records are
  those of the numbers it has reached (`Fresh`). What it has left to write of a call
  is all of it, both meters or the last one (`BillCalls`), and exactly that is not
  on record. Of every other call all meters are (`Balanced`), and no meter is of a call that is not
  on record (`BillRows`). That a request stops in between without being cut off is
  ruled out by the schema: a meter's row refers to nothing but the organization, and that was there
  for the `ai_runs` row just written. Counting is last: a meter's rows
  are in one-to-one correspondence with the calls (`MetersCount`).
- `AskedInv` ties that to what the provider was sent (`asked`): every `ai_runs` row is of a
  completion, with its outcome; what is about to be inserted is, too; and every completion
  is on record, or about to be (`Accounted`), as long as nobody was cut off. It needs to know
  that the insert cannot be refused: an evaluation's organization and agent are on record
  by `EvalsInv`, a strategy's organization by `OrgsKnown`, since nobody deletes any.
- `EvalsInv`: ids tell which request a run and its results are of (`EvalRows`). Before
  its run is on record a request has no results; from then on the run's total is what
  it has counted as passed and failed and the cases it has left (`RunAtHand`), and what it
  has counted is the results on record together with the one it is about to insert
  (`Tally`). A run that is over adds up, and one that is not is in the hands of a request
  that works on it (`InHand`). The suite's cases may change meanwhile: the request
  counts the ones it read.
- `AccountsInv`: who is in flight is known by number, no two alike (`AccountRequests`);
  a sign-up is at one of seven points (`Unknown` to `SessionDue`), each with what is on
  record under its number by then, so that none of its inserts after the user's can be
  refused except the organization's, for a slug that another took; that one leaves the
  user alone (`WholeSignUps` excuses it). Nobody is a member of an organization that a sign-up has yet
  to join, nor about to be (`NoMembers`). An invitation goes to an organization that has
  an owner (`OwnersStay`). Who is to lose ownership is of the organization of whoever asks, and
  another owner stays (`InOrg`, `Safe`), as long as no two such requests met; this
  is what the count of owners in `changeMemberRoleAction` is good for. `PeopleMove`
  says what a call may do to the people, by the request that makes it, and `OthersStay`
  that nothing another request knows is false afterwards.

TLC has checked `StoreInv`, `BriefsInv`, `VaultInv`, `GuessInv`, `FunnelInv`,
`WindowInv`, `FleetInv`, `AccountsInv`, `BillInv`, `AskedInv` and `EvalsInv` on the instance of `Platform`.

**Only model-checked.** Of `Platform`, `TypeOK`, `KnowledgeIsWhole`, `VersionsAreDense`,
`NothingDangles` and `TenantsAreSeparate` (see the plan), and the properties of `Console`. Liveness under fairness (`RunsComeToRest`, `DueIsServed`) stays
with TLC: the prover has no rule for `ENABLED` and fairness here. So does
`WhatTheModelReads`: it is about what a fold makes of a transcript of any length,
which needs induction over data, and so do `RequestsFit` and the computations of
`Builder`, `Figures` and `Retrieval`. `AdaptersAgree` is a finite question, which
TLC answers completely.

## Findings

1. **A double decision carries a run past a gate** (`EngineGateBypass`).
   `decideApprovalAction` reads the approval and writes the decision in two
   steps with no condition on the status, and `resumeExecution` approves
   whatever gate the run has reached. Two reviewers who approve the first gate
   at once take the run past the second, although `approvals/actions.ts:35`
   means to answer the second one with "already been decided". The proof shows
   that nothing else leads past a gate. In `AgentRunner` the `callId` check
   prevents the corresponding case (`ConsequentialNeedsGrant`).
2. **A decision between the approval and the pause is lost**
   (`EngineEarlyDecision`). The run then waits for a decision nobody can give.
3. **An edit during a tick is overwritten** (`SchedulerOutOfSync`). With nothing
   in flight, an automation can be active without a next run, or paused with
   one; `automations.ts:64-67` says that `refreshSchedule` keeps them in sync.
4. **No document can be pasted on Postgres** (`DocumentsOnPostgres`).
   `addDocument` inserts the chunks before their document, and a chunk's
   reference to it has to resolve at once (`schema.prisma:464`). The JSON files
   have no such constraint. The strategy generator meets the same refusal.

Smaller disagreements met on the way, which no run is about:

- `metrics.ts:38` promises never a fake 0%, but the rate is recorded as 0 when
  nothing finished; costs and net value likewise when unknown.
- "Decisions in period" in a report (`reports.ts:121`) counts decisions of all
  time; the figure `approval_decisions` counts those of the period.
- A paragraph longer than 900 characters that is not the first is cut at 900 and
  the rest lost (`chunkText`); `TextIsKept` states it as it is.
- `audit.ts:5` says every state-changing action writes a record; deleting a
  document, adding or deleting a case, marking as read and generating a report
  write none, and updates of commercial records are logged even when the record
  is not found.
- Removing a step and adding another in the builder repeats a key
  (`builder.tsx:99`); the save is then refused, and the user has to rename.
- Two builders open on one automation: the later save silently is the latest
  version.
- `createAutomationAction` does not check the system it is given, while
  `updateAutomation` does (`automations.ts:162-179`), and `README.md:66` says that the
  tenant guards live in the service layer. A form rendered before the system was
  deleted leaves, on the JSON files, an automation with a system that is gone; one that
  names another organization's system is stored on either, and when that organization
  deletes the system, Postgres clears the reference.
- `usage.ts:8` counts a retrieval embed among the calls that write an `ai_runs` row;
  none of the three (`knowledge.ts:139`, 255, 257) does. `BillMatchesCalls` states
  that they leave nothing.
- A run of a suite whose every call fails is completed with no passes
  (`evals.ts:184-186`, 220-221); only one without a provider or without cases is blocked.
- A recording that fails after a good completion is caught with the completion's
  own errors and recorded as a failed call (`agents.ts:257`).
- An agent run that paused under one provider and is carried on under Gemini is
  sent no tools, and of earlier calls the bare texts under roles that Gemini does not
  know (`provider.ts:362`):
  `provider.ts:351-353` says the runner "checks supportsTools and reports the
  limitation honestly", but `startAgentRun` does and `driveRun` does not.
- `prisma-store.ts:18-19` says that optional fields become undefined; `finishedAt`
  of runs and steps and an organization's `industry` and `size` are read as null.
- "Every derived number above is reproduced here" (`reports.ts:135`), but the
  labor value and the return multiple of an impact report are in no metric.
- A provider may answer with a model name that is not in the price table, and
  the call then has no cost.

## Not modelled, and the plan

What remains to prove, in the order of what it says about the system, all over
`Platform` and with a frame lemma for each area:

1. `KnowledgeIsWhole`, `VersionsAreDense`.
2. That a store call of `Requests` keeps primary keys and, on Postgres,
   references; then `NothingDangles` and `TenantsAreSeparate`.

Not modelled, with the reasons:

- Pages, the request proxy and the public site: they read rows for display and
  keep no state that a request depends on.
- The requests that tools and http steps send, what a workflow node computes,
  prompts, and the text of reports: to the callers these are outcomes.
- Hashing, encryption and retrieval scores: libraries and arithmetic of which a
  model checker can say little.
- The billing page's sums, invoices, subscriptions and incidents: nothing in the
  code writes the last three, and nothing reads the sums to decide.
- `interpolate`: text.
- Several processes over one directory of JSON files: `json-store.ts:49` calls
  them a local adapter for development. `Stores` has one process.
