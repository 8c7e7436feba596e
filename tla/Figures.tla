------------------------------- MODULE Figures -------------------------------
(***************************************************************************)
(* The figures of one organization: a report, or the dashboard, is made    *)
(* from one query for each collection, sent together and answered in any   *)
(* order while the records go on changing; a report is then kept, with a   *)
(* metric row for each of its figures, and announced.                      *)
(*                                                                         *)
(* Time is a counter; two events may fall on the same instant.  Minutes    *)
(* become tenths of hours and money tenths of dollars, rounded as the code *)
(* does.                                                                   *)
(***************************************************************************)
EXTENDS Integers, FiniteSets, Sequences

LOCAL INSTANCE SequencesExt
LOCAL INSTANCE FiniteSetsExt

CONSTANTS
    Minutes,     \* automation -> estMinutesPerRun
    Periods,     \* lengths of the periods that reports cover
    Sample,      \* runs in a period from which a projection is made
    Rates,       \* what an administrator may set as the labor rate
    MaxTime,     \* bound: instants
    MaxEvents,   \* bound: changes of the records
    Unknown      \* no value

ASSUME FiguresAssumption ==
    /\ \A a \in DOMAIN Minutes : Minutes[a] \in Nat
    /\ Periods \subseteq Nat \ {0} /\ Rates \subseteq Nat \ {0}

VARIABLES
    now,       \* the clock
    events,    \* how many changes there have been
    records,   \* [collection -> set of rows]
    rates,     \* the rates on record, the latest last
    making,    \* the page or report being made, and how far it is
    seen,      \* [collection -> what its query returned, Unknown before]
    report,    \* the report on record, and the metric rows that go with it
    told       \* is there a notification of it?

figureVars == <<now, events, records, rates, making, seen, report, told>>

NotMaking == [stage |-> "none"]
NoReport == [figures |-> Unknown]
Queries == {"executions", "automations", "approvals", "ai_runs", "incidents"}
Unseen == [t \in Queries |-> Unknown]

DefaultRate == 45

(***************************************************************************)
(* The records change.                                                     *)
(***************************************************************************)
Change(t, rows) ==
    /\ events < MaxEvents
    /\ events' = events + 1
    /\ records' = [records EXCEPT ![t] = rows]
    /\ UNCHANGED <<now, rates, making, seen, report, told>>

Added(t, row) == records[t] \cup {row @@ [id |-> events, at |-> now]}
Replaced(t, row, new) == (records[t] \ {row}) \cup {new}

\* An automation that has runs is not deleted; the race of the two that the JSON
\* files allow is Systems.tla's subject.
Automations ==
    \/ \E a \in DOMAIN Minutes \ records.automations :
           Change("automations", records.automations \cup {a})
    \/ \E a \in records.automations :
           /\ \A e \in records.executions : e.automation # a
           /\ Change("automations", records.automations \ {a})

Executions ==
    \/ \E a \in records.automations :
           Change("executions", Added("executions", [automation |-> a, status |-> "running"]))
    \/ \E e \in records.executions, s \in {"completed", "failed"} :
           /\ e.status = "running"
           /\ Change("executions", Replaced("executions", e, [e EXCEPT !.status = s]))

Approvals ==
    \/ Change("approvals", Added("approvals", [status |-> "pending"]))
    \/ \E a \in records.approvals :
           /\ a.status = "pending"
           /\ Change("approvals", Replaced("approvals", a, [a EXCEPT !.status = "approved"]))

AiRuns ==
    \E cost \in {1, Unknown} :
        Change("ai_runs", Added("ai_runs", [cost |-> cost]))

Incidents ==
    \/ Change("incidents", Added("incidents", [resolved |-> Unknown]))
    \/ \E i \in records.incidents :
           /\ i.resolved = Unknown
           /\ Change("incidents", Replaced("incidents", i, [i EXCEPT !.resolved = now]))

\* The latest rate wins; there may be none.
SetLaborRate ==
    /\ events < MaxEvents
    /\ events' = events + 1
    /\ \E r \in Rates : rates' = Append(rates, r)
    /\ UNCHANGED <<now, records, making, seen, report, told>>

TimePasses ==
    /\ now < MaxTime
    /\ now' = now + 1
    /\ UNCHANGED <<events, records, rates, making, seen, report, told>>

(***************************************************************************)
(* What is computed of the rows the queries returned.                      *)
(***************************************************************************)
MakePeriod(length) == [from |-> now - length, to |-> now]

\* Mutant: the instant at which the period ends belongs to it.
ToItsEnd(t, p) == t >= p.from /\ t <= p.to

InPeriod(t, p) == t >= p.from /\ t < p.to

In(t, p) == {r \in seen[t] : InPeriod(r.at, p)}

Total(f) == FoldFunction(+, 0, f)

Tenths(minutes) == (10 * minutes + 30) \div 60

Estimate(a) == IF a \in seen.automations THEN Minutes[a] ELSE 0

With(runs, status) == {e \in runs : e.status = status}

\* The table: a line for each automation.
Performance(p) ==
    [a \in seen.automations |->
        LET runs == {e \in In("executions", p) : e.automation = a}
            done == Cardinality(With(runs, "completed"))
        IN  [runs |-> Cardinality(runs), succeeded |-> done,
             failed |-> Cardinality(With(runs, "failed")),
             minutes |-> done * Minutes[a]]]

\* Calls with no price cost nothing; when none has a price, the cost is unknown.
AiCost(p) ==
    LET priced == {r \in In("ai_runs", p) : r.cost # Unknown}
    IN  IF priced = {} THEN Unknown ELSE Total([r \in priced |-> 10 * r.cost])

OrZero(x) == IF x = Unknown THEN 0 ELSE x

\* A measured rate, extended to thirty days, given enough runs.
Projections(p, runs, minutes) ==
    LET days == p.to - p.from
    IN  IF Cardinality(runs) < Sample THEN <<>>
        ELSE << <<"projected_monthly_runs", (30 * Cardinality(runs)) \div days>>,
                <<"projected_monthly_hours_saved", Tenths((30 * minutes) \div days)>> >>

Metrics(p) ==
    LET runs == In("executions", p)
        done == With(runs, "completed")
        decided == Cardinality(done) + Cardinality(With(runs, "failed"))
        minutes == Total([e \in done |-> Estimate(e.automation)])
    IN  << <<"executions_total", Cardinality(runs)>>,
           <<"success_rate", IF decided = 0 THEN 0
                             ELSE (1000 * Cardinality(done)) \div decided>>,
           <<"hours_saved", Tenths(minutes)>>,
           <<"ai_cost_usd", OrZero(AiCost(p))>>,
           <<"approval_decisions",
             Cardinality({a \in In("approvals", p) : a.status # "pending"})>> >>
        \o Projections(p, runs, minutes)

\* Decisions of all time, also of approvals made before the period.
ApprovalOps ==
    [decided |-> Cardinality({a \in seen.approvals : a.status # "pending"}),
     pending |-> Cardinality({a \in seen.approvals : a.status = "pending"})]

IncidentOps(p) ==
    [open     |-> Cardinality({i \in seen.incidents : i.resolved = Unknown}),
     resolved |-> Cardinality({i \in seen.incidents :
                        i.resolved # Unknown /\ InPeriod(i.resolved, p)})]

\* From the table's minutes, not from the metric.
ComputeRoi(minutes, cost, rate) ==
    LET value == Tenths(minutes) * rate
    IN  [hours |-> Tenths(minutes),
         value |-> value,
         net   |-> IF cost = Unknown THEN Unknown ELSE value - cost]

RoiAsMetric(roi) == <<"estimated_net_value_usd", OrZero(roi.net)>>

(***************************************************************************)
(* The sections of a report.  A highlighted figure is a pair like a        *)
(* metric's; one that no metric has is named for its label.                *)
(***************************************************************************)
ReportTypes == {"weekly_ops", "monthly_impact", "system_health", "automation_performance",
                "ai_cost", "incident"}

Section(kpis, metrics) == [kpis |-> kpis, metrics |-> metrics]

Shown(key, value) == IF value = Unknown THEN {} ELSE {<<key, value>>}
Picked(r, keys) == {f \in ToSet(r.figures) : f[1] \in keys}

\* A cost that is unknown is not shown, nor is what is computed from it.
Money(r) == Shown("ai_cost_usd", r.cost) \cup Shown("estimated_net_value_usd", r.roi.net)

Multiple(r) ==
    IF r.cost = Unknown \/ r.cost = 0 THEN Unknown
                                      ELSE (20 * r.roi.value + r.cost) \div (2 * r.cost)

\* The sentence counts the failures of the table, not of the metric.
Narrative(r) ==
    {<<"failed", Total([a \in DOMAIN r.table |-> r.table[a].failed])>>,
     <<"pending", r.approvals.pending>>, <<"open", r.incidents.open>>}
    \cup Picked(r, {"executions_total", "success_rate"})

OpsSections(r) ==
    << Section(Narrative(r) \cup Money(r)
               \cup Picked(r, {"executions_total", "success_rate", "hours_saved"}), {}),
       [table |-> r.table] @@ Section({}, {}),
       Section({<<"decided", r.approvals.decided>>, <<"pending", r.approvals.pending>>}, {}),
       Section({}, ToSet(r.figures)) >>

ImpactSection(r) ==
    Section(Money(r) \cup Shown("hours_saved", r.roi.hours)
            \cup Shown("labor_value", r.roi.value) \cup Shown("return_multiple", Multiple(r)), {})

AiCostSection(r) ==
    Section(Shown("calls", r.calls) \cup Shown("ai_cost_usd", r.cost), Picked(r, {"ai_cost_usd"}))

IncidentSection(r) ==
    Section({<<"open", r.incidents.open>>, <<"resolved", r.incidents.resolved>>}, {})

SectionsFor(type, r) ==
    CASE type = "monthly_impact" -> InsertAt(OpsSections(r), 2, ImpactSection(r))
      [] type = "ai_cost" -> <<AiCostSection(r)>>
      [] type = "incident" -> <<IncidentSection(r)>> \o Tail(OpsSections(r))
      [] OTHER -> OpsSections(r)

LaborRateForOrg == IF rates = <<>> THEN DefaultRate ELSE Last(rates)

\* The last thirty days, up to when the queries have returned.
DashboardOf(p) ==
    LET recent == {e \in seen.executions : e.at >= p.from}
        done == With(recent, "completed")
    IN  [recent |-> recent, completed |-> Cardinality(done),
         minutes |-> Total([e \in done |-> Estimate(e.automation)]),
         withEstimate |-> Cardinality({e \in done : e.automation \in seen.automations})]

(***************************************************************************)
(* Making a report (generateReport) or the dashboard.                      *)
(***************************************************************************)
RequestReport ==
    /\ making = NotMaking /\ report = NoReport
    /\ \E length \in Periods :
           making' = [stage |-> "reading", kind |-> "report", period |-> MakePeriod(length)]
    /\ seen' = Unseen
    /\ UNCHANGED <<now, events, records, rates, report, told>>

\* History: the automations there were when the page was asked for.
RequestDashboard ==
    /\ making = NotMaking
    /\ making' = [stage |-> "reading", kind |-> "dashboard", known |-> records.automations]
    /\ seen' = Unseen
    /\ UNCHANGED <<now, events, records, rates, report, told>>

ReadOf(kind) == IF kind = "report" THEN Queries ELSE {"automations", "executions"}

\* The queries were sent together: any may be answered next.
Read ==
    /\ making.stage = "reading"
    /\ \E t \in ReadOf(making.kind) :
           seen[t] = Unknown /\ seen' = [seen EXCEPT ![t] = records[t]]
    /\ UNCHANGED <<now, events, records, rates, making, report, told>>

AllRead == \A t \in ReadOf(making.kind) : seen[t] # Unknown

\* computeOpsMetrics, then the rate, then computeRoi
Compute ==
    /\ making.stage = "reading" /\ AllRead /\ making.kind = "report"
    /\ LET p == making.period
           table == Performance(p)
           roi == ComputeRoi(Total([a \in DOMAIN table |-> table[a].minutes]),
                             AiCost(p), LaborRateForOrg)
       IN  making' = [stage |-> "insert", period |-> p, table |-> table, roi |-> roi,
                      approvals |-> ApprovalOps, incidents |-> IncidentOps(p),
                      cost |-> AiCost(p), calls |-> Cardinality(In("ai_runs", p)),
                      figures |-> Append(Metrics(p), RoiAsMetric(roi))]
    /\ seen' = Unseen
    /\ UNCHANGED <<now, events, records, rates, report, told>>

ShowDashboard ==
    /\ making.stage = "reading" /\ AllRead /\ making.kind = "dashboard"
    /\ \E length \in Periods :
           making' = [stage |-> "shown", known |-> making.known,
                      figures |-> DashboardOf(MakePeriod(length))]
    /\ seen' = Unseen
    /\ UNCHANGED <<now, events, records, rates, report, told>>

InsertReport ==
    /\ making.stage = "insert"
    /\ report' = [making EXCEPT !.stage = "kept"] @@ [rows |-> {}]
    /\ making' = [stage |-> "rows", left |-> making.figures]
    /\ UNCHANGED <<now, events, records, rates, seen, told>>

\* Mutant: a figure that is zero gets no row.
RecordUnlessZero ==
    /\ making.stage = "rows" /\ making.left # <<>>
    /\ report' = [report EXCEPT !.rows = IF Head(making.left)[2] = 0 THEN @
                                         ELSE @ \cup {Head(making.left)}]
    /\ making' = [making EXCEPT !.left = Tail(@)]
    /\ UNCHANGED <<now, events, records, rates, seen, told>>

RecordMetric ==
    /\ making.stage = "rows" /\ making.left # <<>>
    /\ report' = [report EXCEPT !.rows = @ \cup {Head(making.left)}]
    /\ making' = [making EXCEPT !.left = Tail(@)]
    /\ UNCHANGED <<now, events, records, rates, seen, told>>

Announce ==
    /\ making.stage = "rows" /\ making.left = <<>>
    /\ told' = TRUE
    /\ making' = NotMaking
    /\ UNCHANGED <<now, events, records, rates, seen, report>>

\* The page is left, a store call is rejected, or the process ends.
StopMaking ==
    /\ making # NotMaking
    /\ making' = NotMaking /\ seen' = Unseen
    /\ UNCHANGED <<now, events, records, rates, report, told>>

FiguresInit ==
    /\ now = 0 /\ events = 0 /\ rates = <<>> /\ told = FALSE
    /\ records = [t \in Queries |-> {}]
    /\ making = NotMaking /\ seen = Unseen /\ report = NoReport

FiguresNext ==
    \/ Automations \/ Executions \/ Approvals \/ AiRuns \/ Incidents \/ SetLaborRate
    \/ TimePasses
    \/ RequestReport \/ RequestDashboard \/ Read \/ Compute \/ ShowDashboard
    \/ InsertReport \/ RecordMetric \/ Announce \/ StopMaking

(***************************************************************************)
(* Properties.                                                             *)
(***************************************************************************)
Figure(key) == (CHOOSE f \in ToSet(report.figures) : f[1] = key)[2]

\* The lines of the table add up to the headline, though automations and runs
\* were read at different moments and both come and go: only runs from before the
\* queries were sent are counted, and their automations are on record by then.
TableAddsUp ==
    LET lines == DOMAIN report.table
    IN  /\ Total([a \in lines |-> report.table[a].runs]) = Figure("executions_total")
        /\ Tenths(Total([a \in lines |-> report.table[a].minutes])) = Figure("hours_saved")
        /\ report.roi.hours = Figure("hours_saved")
        /\ Figure("approval_decisions") <= report.approvals.decided

\* Who is told of a report finds a metric row for each figure in it, and no row
\* says something else.
SnapshotIsWhole ==
    /\ report.rows \subseteq ToSet(report.figures)
    /\ told => report.rows = ToSet(report.figures)

\* Every completed run on the dashboard has its estimate, but runs of automations
\* that were created while it was loading.
DashboardAddsUp ==
    making.stage = "shown" =>
        LET f == making.figures
            late == {e \in f.recent : e.status = "completed" /\ e.automation \notin making.known}
        IN  f.withEstimate >= f.completed - Cardinality(late)

\* In a report of any type a highlighted figure is one and the same wherever it is
\* highlighted, though it is taken from the metrics in one place and from the
\* return on investment or the table in another; what a metric stands for is
\* reproduced in the detail, if the report has one.
SectionsAgree ==
    \A type \in ReportTypes :
        LET sections == ToSet(SectionsFor(type, report))
            kpis == UNION {s.kpis : s \in sections}
            detail == UNION {s.metrics : s \in sections}
            keys == {f[1] : f \in ToSet(report.figures)}
        IN  /\ \A j, k \in kpis : j[1] = k[1] => j = k
            /\ {k \in kpis : k[1] \in keys} \subseteq detail
            /\ \A k \in kpis : k[1] = "failed" => k[2] <= Figure("executions_total")

\* The figures that are shown agree with each other and with those kept.
FiguresAgree ==
    DashboardAddsUp /\ (report # NoReport => TableAddsUp /\ SectionsAgree /\ SnapshotIsWhole)
=============================================================================
