------------------------------- MODULE Evals --------------------------------
(***************************************************************************)
(* Evaluation suites, their cases, and runs of them.                       *)
(***************************************************************************)
EXTENDS Completions

SuiteOf(c) ==
    {s \in ById("eval_suites", loc[c].suite) : s.organizationId = loc[c].org}

CasesOf(suite) == {k \in db["eval_cases"] : k.suiteId = suite}
ResultsOf(run) == {r \in db["eval_results"] : r.runId = run}

(***************************************************************************)
(* createSuiteAction, addCaseAction, deleteCaseAction                      *)
(***************************************************************************)
CreateSuite(c) ==
    /\ \E m \in SessionContext("evals.run"),
          agent \in {None} \cup {a.id : a \in db["agents"]} :
           AcceptFrom(m, c, "suite.agent", [op |-> "createSuite", agent |-> agent])
    /\ UNCHANGED <<db, aiVars>>

NewSuite(c) ==
    Inserting("eval_suites", [id |-> Number(c), organizationId |-> loc[c].org,
                              agentId |-> loc[c].agent, scorer |-> "contains"])

CheckSuiteAgent(c) ==
    /\ At(c, "suite.agent")
    /\ IF loc[c].agent # None /\ ~\E a \in ById("agents", loc[c].agent) :
                                        a.organizationId = loc[c].org
       THEN Respond(c)
       ELSE Calling(c, <<NewSuite(c), Auditing(c, "eval.suite_created", Number(c))>>,
                    "idle")
    /\ UNCHANGED <<db, aiVars>>

AddCase(c) ==
    /\ \E m \in SessionContext("evals.run"), s \in db["eval_suites"] :
           AcceptFrom(m, c, "case.add", [op |-> "addCase", suite |-> s.id])
    /\ UNCHANGED <<db, aiVars>>

InsertCase(c) ==
    /\ At(c, "case.add")
    /\ IF SuiteOf(c) = {}
       THEN Respond(c)
       ELSE Calling(c,
              <<Inserting("eval_cases", [id |-> Number(c), suiteId |-> loc[c].suite]),
                Updating("eval_suites", loc[c].suite, [touchedBy |-> Number(c)])>>,
              "idle")
    /\ UNCHANGED <<db, aiVars>>

DeleteCase(c) ==
    /\ \E m \in SessionContext("evals.run"), s \in db["eval_suites"],
          k \in db["eval_cases"] :
           AcceptFrom(m, c, "case.suite",
                      [op |-> "deleteCase", suite |-> s.id, case |-> k.id])
    /\ UNCHANGED <<db, aiVars>>

ReadCaseSuite(c) ==
    /\ At(c, "case.suite")
    /\ IF SuiteOf(c) = {} THEN Respond(c) ELSE Goto(c, "case.remove", Nothing)
    /\ UNCHANGED <<db, aiVars>>

RemoveCase(c) ==
    /\ At(c, "case.remove")
    /\ Calling(c, IF \E k \in ById("eval_cases", loc[c].case) : k.suiteId = loc[c].suite
                  THEN <<Removing("eval_cases", loc[c].case)>> ELSE <<>>, "idle")
    /\ UNCHANGED <<db, aiVars>>

(***************************************************************************)
(* runSuiteAction: the suite is read, then its cases; the run is inserted  *)
(* with status completed and no completedAt; each case is answered, and by *)
(* the judge, if that is the scorer, graded; and the totals are written.   *)
(***************************************************************************)
RunSuite(c) ==
    /\ \E m \in SessionContext("evals.run"), s \in db["eval_suites"] :
           AcceptFrom(m, c, "run.suite", [op |-> "evaluate", suite |-> s.id])
    /\ UNCHANGED <<db, aiVars>>

ReadSuite(c) ==
    /\ At(c, "run.suite")
    /\ \/ SuiteOf(c) = {} /\ Respond(c)
       \/ \E s \in SuiteOf(c) :
              Goto(c, "run.cases", [scorer |-> s.scorer, agent |-> s.agentId])
    /\ UNCHANGED <<db, aiVars>>

NewRun(c, status, total, done) ==
    Inserting("eval_runs",
        [id |-> Number(c), organizationId |-> loc[c].org, suiteId |-> loc[c].suite,
         status |-> status, total |-> total, passed |-> 0, failed |-> 0,
         done |-> done])

\* notifySuiteRun, and then the action's audit entry
SuiteRunReported(c) ==
    <<Notifying(c, None), Auditing(c, "eval.run_executed", Number(c))>>

StartRun(c) ==
    /\ At(c, "run.cases")
    /\ LET cases == {k.id : k \in CasesOf(loc[c].suite)}
       IN  IF provider = "none" \/ cases = {}
           THEN Calling(c, <<NewRun(c, "blocked", Cardinality(cases), TRUE)>>
                           \o SuiteRunReported(c), "idle")
           ELSE Goto(c, "calling",
                     [cases |-> cases, passed |-> 0, failed |-> 0, j |-> 0,
                      calls |-> <<NewRun(c, "completed", Cardinality(cases), FALSE)>>,
                      next |-> "run.answer"])
    /\ UNCHANGED <<db, aiVars>>

\* The case at hand is the oldest of those that remain.
CaseAt(c) == CHOOSE k \in loc[c].cases : \A l \in loc[c].cases : k <= l

\* Mutant: a case that ends in an error is counted nowhere.
ScoreAnswers(c, calls, result) ==
    Goto(c, "calling",
         [cases |-> loc[c].cases \ {CaseAt(c)},
          passed |-> loc[c].passed + (IF result = "pass" THEN 1 ELSE 0),
          failed |-> loc[c].failed + (IF result = "fail" THEN 1 ELSE 0),
          calls |-> calls \o
              <<Inserting("eval_results", [id |-> <<Number(c), CaseAt(c)>>,
                              runId |-> Number(c), result |-> result])>>,
          next |-> "run.answer",
          j |-> loc[c].j + 1])

\* Count the case, put its result on record and go on to the next one.
Score(c, calls, result) ==
    Goto(c, "calling",
         [cases |-> loc[c].cases \ {CaseAt(c)},
          passed |-> loc[c].passed + (IF result = "pass" THEN 1 ELSE 0),
          failed |-> loc[c].failed + (IF result = "pass" THEN 0 ELSE 1),
          calls |-> calls \o
              <<Inserting("eval_results", [id |-> <<Number(c), CaseAt(c)>>,
                              runId |-> Number(c), result |-> result])>>,
          next |-> "run.answer",
          j |-> loc[c].j + 1])

Answer(c) ==
    /\ At(c, "run.answer") /\ loc[c].cases # {}
    /\ \/ /\ Ask(c, loc[c].j, "failed")
          /\ Score(c, RecordAiRun(c, loc[c].j, loc[c].agent, "failed"), "error")
       \/ /\ Ask(c, loc[c].j, "completed")
          /\ loc[c].scorer # "llm_judge"
          /\ \E result \in {"pass", "fail"} :
                Score(c, RecordAiRun(c, loc[c].j, loc[c].agent, "completed"), result)
       \/ /\ Ask(c, loc[c].j, "completed")
          /\ loc[c].scorer = "llm_judge"
          /\ Goto(c, "calling",
                  [calls |-> RecordAiRun(c, loc[c].j, loc[c].agent, "completed"),
                   next |-> "run.judge", j |-> loc[c].j + 1])
    /\ UNCHANGED db

Judge(c) ==
    /\ At(c, "run.judge")
    /\ \/ /\ Ask(c, loc[c].j, "failed")
          /\ Score(c, RecordAiRun(c, loc[c].j, None, "failed"), "error")
       \/ /\ Ask(c, loc[c].j, "completed")
          /\ \E result \in {"pass", "fail"} :
                Score(c, RecordAiRun(c, loc[c].j, None, "completed"), result)
    /\ UNCHANGED db

FinishRun(c) ==
    /\ At(c, "run.answer") /\ loc[c].cases = {}
    /\ Calling(c, <<Updating("eval_runs", Number(c),
                        [passed |-> loc[c].passed, failed |-> loc[c].failed,
                         done |-> TRUE])>> \o SuiteRunReported(c), "idle")
    /\ UNCHANGED <<db, aiVars>>

EvalsSubmit(c) ==
    /\ area = "evals"
    /\ \/ CreateSuite(c) \/ AddCase(c) \/ DeleteCase(c) \/ RunSuite(c)

EvalsStep(c) ==
    /\ area = "evals"
    /\ \/ CheckSuiteAgent(c) \/ InsertCase(c) \/ ReadCaseSuite(c) \/ RemoveCase(c)
       \/ ReadSuite(c) \/ StartRun(c) \/ Answer(c) \/ Judge(c) \/ FinishRun(c)

(***************************************************************************)
(* Properties.                                                             *)
(***************************************************************************)
\* A run is fully recorded (evals.ts): when it is over, passed and failed add up
\* to the cases it started with, and so do its results, whatever happens to the
\* cases meanwhile; a run without a provider or without cases is blocked and has no
\* results (one whose calls all fail is not: it ends with no passes); and a run that
\* is not over has a request at work on it, unless that was cut off.  (Its row says
\* completed from the start; done is the model's mark for completedAt.)
EvaluationsAddUp ==
    \A r \in Table("eval_runs") :
        IF r.done
        THEN \/ r.status = "blocked" /\ ResultsOf(r.id) = {}
             \/ /\ r.total > 0
                /\ r.passed + r.failed = r.total
                /\ r.passed = Cardinality({s \in ResultsOf(r.id) : s.result = "pass"})
                /\ r.total = Cardinality(ResultsOf(r.id))
        ELSE \/ "evaluate" \in cuts
             \/ \E c \in Clients : loc[c].op = "evaluate" /\ Number(c) = r.id
=============================================================================
