------------------------------ MODULE Scheduler ------------------------------
(***************************************************************************)
(* The interval scheduler and the requests that move its cursor:           *)
(*                                                                         *)
(*   src/src/server/scheduler.ts        tick                               *)
(*   src/src/server/automations.ts      scheduleIntervalMs,                *)
(*                                      refreshSchedule, saveDefinition,   *)
(*                                      updateAutomation                   *)
(*   src/src/server/engine/executor.ts  startExecution, as far as the      *)
(*                                      scheduler sees it: key lookup,     *)
(*                                      "active and due" guard, insert     *)
(*                                                                         *)
(* setInterval does not wait for a tick to finish, and a tick runs every   *)
(* due automation's walk to its end before the next one, so ticks overlap. *)
(* The walk itself is Engine.tla; here it only takes time.  Each           *)
(* `await store.*` is one action.                                          *)
(***************************************************************************)
EXTENDS Integers, FiniteSets

CONSTANTS
  Automations,
  Ticks,        \* ticks that may be in flight at once
  Operators,    \* requests that edit an automation, in flight at once
  Intervals,    \* schedule intervals an operator may save
  Null,         \* nextRunAt is null
  Postgres,     \* TRUE: the unique indexes exist; FALSE: JSON store
  MaxTime,      \* bound on the clock
  MaxEdits,     \* bound on the edits operators make
  MaxCrashes    \* bound on ticks cut short by a crash or a store error

ASSUME SchedulerAssumption ==
  /\ Ticks \cap Operators = {}
  /\ Intervals \subseteq Nat \ {0}
  /\ Null \notin Int
  /\ Postgres \in BOOLEAN
  /\ {MaxTime, MaxEdits, MaxCrashes} \subseteq Nat

VARIABLES
  now,         \* Date.now()
  active,      \* automations.status = "active"
  nextRunAt,   \* automations.nextRunAt, the scheduler's cursor
  latest,      \* the highest version number saved
  interval,    \* scheduleIntervalMs of the latest version, Manual when there is none
  runs,        \* <<a, t, n>>: an n-th execution with key sched:{a}:{t} was inserted
  pc,          \* where each tick and each edit is
  loc,         \* their local variables
  edits,       \* number of edits made
  crashes      \* number of ticks cut short

rows == <<active, nextRunAt, latest, interval, runs>>
vars == <<now, rows, pc, loc, edits, crashes>>

Manual == 0
Time == Nat
Requests == Ticks \cup Operators

\* The due list of a tick, the automation in hand with its dueAt and the cursor
\* to write after it; what an edit has read so far.
Local == [due : SUBSET (Automations \X Time), auto : Automations \cup {Null},
          dueAt : Time, next : Time \cup {Null}, version : Nat,
          interval : Intervals \cup {Manual}, active : BOOLEAN]
Blank == [due |-> {}, auto |-> Null, dueAt |-> 0, next |-> Null, version |-> 0,
          interval |-> Manual, active |-> FALSE]

TickPC == {"loop", "recheck", "definition", "lookup", "guard", "insert", "walk", "advance"}
EditPC == {"insertVersion", "refresh", "current", "write"}
PC == {"idle"} \cup TickPC \cup EditPC

Goto(p, where) == pc' = [pc EXCEPT ![p] = where]
Return(p) == Goto(p, "idle") /\ loc' = [loc EXCEPT ![p] = Blank]

\* The occurrence one interval after t; a manual trigger has none.
NextAfter(t, every) == IF every = Manual THEN Null ELSE t + every

\* nextRunAt is set and has passed.
IsDue(a) == nextRunAt[a] # Null /\ nextRunAt[a] <= now

KeyTaken(a, t) == \E r \in runs : r[1] = a /\ r[2] = t
NewRun(a, t) == <<a, t, Cardinality({r \in runs : r[1] = a /\ r[2] = t}) + 1>>

\* At time 0 every automation has just been saved, activated or not.
Init ==
  /\ now = 0
  /\ active \in [Automations -> BOOLEAN]
  /\ interval \in [Automations -> Intervals \cup {Manual}]
  /\ nextRunAt = [a \in Automations |->
                    IF active[a] THEN NextAfter(0, interval[a]) ELSE Null]
  /\ latest = [a \in Automations |-> 1]
  /\ runs = {}
  /\ pc = [p \in Requests |-> "idle"]
  /\ loc = [p \in Requests |-> Blank]
  /\ edits = 0
  /\ crashes = 0

TimePasses ==
  /\ now < MaxTime
  /\ now' = now + 1
  /\ UNCHANGED <<rows, pc, loc, edits, crashes>>

-----------------------------------------------------------------------------
(***************************************************************************)
(* tick.                                                                   *)
(***************************************************************************)

BeginTick(p) ==
  LET due == {<<a, nextRunAt[a]>> : a \in {b \in Automations : active[b] /\ IsDue(b)}} IN
  /\ pc[p] = "idle"
  /\ due # {}
  /\ Goto(p, "loop")
  /\ loc' = [loc EXCEPT ![p].due = due]
  /\ UNCHANGED <<now, rows, edits, crashes>>

\* Mutant of TakeDue: the automation in hand is that of the previous round.
TakeDueKeepsPrevious(p) ==
  /\ pc[p] = "loop"
  /\ \E d \in loc[p].due :
       /\ Goto(p, "recheck")
       /\ loc' = [loc EXCEPT ![p].due = @ \ {d}, ![p].dueAt = d[2]]
  /\ UNCHANGED <<now, rows, edits, crashes>>

\* The next automation of the due list, in the order the query returned it.
TakeDue(p) ==
  /\ pc[p] = "loop"
  /\ \E d \in loc[p].due :
       /\ Goto(p, "recheck")
       /\ loc' = [loc EXCEPT ![p].due = @ \ {d}, ![p].auto = d[1], ![p].dueAt = d[2]]
  /\ UNCHANGED <<now, rows, edits, crashes>>

EndTick(p) ==
  /\ pc[p] = "loop"
  /\ loc[p].due = {}
  /\ Return(p)
  /\ UNCHANGED <<now, rows, edits, crashes>>

\* Skip the automation when its cursor moved or it is no longer active.
Recheck(p) ==
  LET a == loc[p].auto IN
  /\ pc[p] = "recheck"
  /\ Goto(p, IF active[a] /\ nextRunAt[a] = loc[p].dueAt THEN "definition" ELSE "loop")
  /\ UNCHANGED <<now, rows, loc, edits, crashes>>

\* Mutant of ReadDefinition: the next occurrence is counted from the clock, not
\* from the occurrence in hand.
ReadDefinitionFromNow(p) ==
  /\ pc[p] = "definition"
  /\ Goto(p, "lookup")
  /\ loc' = [loc EXCEPT ![p].next = NextAfter(now, interval[loc[p].auto])]
  /\ UNCHANGED <<now, rows, edits, crashes>>

\* The cursor to write afterwards is computed before the run is started.
ReadDefinition(p) ==
  /\ pc[p] = "definition"
  /\ Goto(p, "lookup")
  /\ loc' = [loc EXCEPT ![p].next = NextAfter(loc[p].dueAt, interval[loc[p].auto])]
  /\ UNCHANGED <<now, rows, edits, crashes>>

\* Mutant of LookupKey: every occurrence is taken for one that has run.
LookupKeyAlwaysHits(p) ==
  /\ pc[p] = "lookup"
  /\ Goto(p, "advance")
  /\ UNCHANGED <<now, rows, loc, edits, crashes>>

\* startExecution: a run with the key of this occurrence is returned as it is.
LookupKey(p) ==
  /\ pc[p] = "lookup"
  /\ Goto(p, IF KeyTaken(loc[p].auto, loc[p].dueAt) THEN "advance" ELSE "guard")
  /\ UNCHANGED <<now, rows, loc, edits, crashes>>

\* startExecution: scheduled runs need an active automation that is due.  When
\* it is not, the tick notifies and advances the cursor all the same.
CheckActiveAndDue(p) ==
  LET a == loc[p].auto IN
  /\ pc[p] = "guard"
  /\ Goto(p, IF active[a] /\ IsDue(a) THEN "insert" ELSE "advance")
  /\ UNCHANGED <<now, rows, loc, edits, crashes>>

\* Mutant of InsertRun: the unique index on the key is missing.
InsertRunWithoutIndex(p) ==
  /\ pc[p] = "insert"
  /\ Goto(p, "walk")
  /\ runs' = runs \cup {NewRun(loc[p].auto, loc[p].dueAt)}
  /\ UNCHANGED <<now, active, nextRunAt, latest, interval, loc, edits, crashes>>

\* On Postgres the unique index refuses the second run with a key; the error
\* ends the tick, before the cursor is advanced.
InsertRun(p) ==
  LET a == loc[p].auto IN
  /\ pc[p] = "insert"
  /\ IF Postgres /\ KeyTaken(a, loc[p].dueAt)
       THEN /\ Return(p)
            /\ UNCHANGED runs
       ELSE /\ Goto(p, "walk")
            /\ runs' = runs \cup {NewRun(a, loc[p].dueAt)}
            /\ UNCHANGED loc
  /\ UNCHANGED <<now, active, nextRunAt, latest, interval, edits, crashes>>

\* runWalk returns, at a gate or at the end of the run.
WalkReturns(p) ==
  /\ pc[p] = "walk"
  /\ Goto(p, "advance")
  /\ UNCHANGED <<now, rows, loc, edits, crashes>>

\* Whatever the cursor is by now, it becomes the one computed before the run.
AdvanceCursor(p) ==
  /\ pc[p] = "advance"
  /\ Goto(p, "loop")
  /\ nextRunAt' = [nextRunAt EXCEPT ![loc[p].auto] = loc[p].next]
  /\ UNCHANGED <<now, active, latest, interval, runs, loc, edits, crashes>>

-----------------------------------------------------------------------------
(***************************************************************************)
(* saveDefinition and updateAutomation, which both end in refreshSchedule. *)
(***************************************************************************)

\* saveDefinition has validated the definition and read the versions.
BeginSave(p, a, every) ==
  /\ pc[p] = "idle"
  /\ edits < MaxEdits
  /\ edits' = edits + 1
  /\ Goto(p, "insertVersion")
  /\ loc' = [loc EXCEPT ![p].auto = a, ![p].version = latest[a] + 1,
                        ![p].interval = every]
  /\ UNCHANGED <<now, rows, crashes>>

\* Two saves may have read the same versions.  Then Postgres refuses the second
\* insert, and in the JSON store the row inserted first stays the current one.
InsertVersion(p) ==
  LET a == loc[p].auto
      taken == loc[p].version <= latest[a]
  IN
  /\ pc[p] = "insertVersion"
  /\ IF taken /\ Postgres
       THEN Return(p)
       ELSE Goto(p, "refresh") /\ UNCHANGED loc
  /\ IF taken
       THEN UNCHANGED <<latest, interval>>
       ELSE /\ latest' = [latest EXCEPT ![a] = loc[p].version]
            /\ interval' = [interval EXCEPT ![a] = loc[p].interval]
  /\ UNCHANGED <<now, active, nextRunAt, runs, edits, crashes>>

\* updateAutomation with a status.
UpdateStatus(p, a, s) ==
  /\ pc[p] = "idle"
  /\ edits < MaxEdits
  /\ edits' = edits + 1
  /\ Goto(p, "refresh")
  /\ loc' = [loc EXCEPT ![p].auto = a]
  /\ active' = [active EXCEPT ![a] = s]
  /\ UNCHANGED <<now, nextRunAt, latest, interval, runs, crashes>>

\* refreshSchedule: the status, then the definition, then the write.
RefreshStatus(p) ==
  /\ pc[p] = "refresh"
  /\ Goto(p, "current")
  /\ loc' = [loc EXCEPT ![p].active = active[loc[p].auto]]
  /\ UNCHANGED <<now, rows, edits, crashes>>

RefreshDefinition(p) ==
  /\ pc[p] = "current"
  /\ Goto(p, "write")
  /\ loc' = [loc EXCEPT ![p].next =
               IF loc[p].active THEN NextAfter(now, interval[loc[p].auto]) ELSE Null]
  /\ UNCHANGED <<now, rows, edits, crashes>>

RefreshCursor(p) ==
  /\ pc[p] = "write"
  /\ Return(p)
  /\ nextRunAt' = [nextRunAt EXCEPT ![loc[p].auto] = loc[p].next]
  /\ UNCHANGED <<now, active, latest, interval, runs, edits, crashes>>

-----------------------------------------------------------------------------
\* A tick dies with the process, or a store operation in it throws.
CrashTick(p) ==
  /\ pc[p] \in TickPC
  /\ crashes < MaxCrashes
  /\ crashes' = crashes + 1
  /\ Return(p)
  /\ UNCHANGED <<now, rows, edits>>

Tick(p) ==
  \/ BeginTick(p) \/ TakeDue(p) \/ EndTick(p) \/ Recheck(p) \/ ReadDefinition(p)
  \/ LookupKey(p) \/ CheckActiveAndDue(p) \/ InsertRun(p) \/ WalkReturns(p)
  \/ AdvanceCursor(p)

\* What an edit does once it has been accepted.
Edit(p) ==
  \/ InsertVersion(p) \/ RefreshStatus(p) \/ RefreshDefinition(p) \/ RefreshCursor(p)

Next ==
  \/ TimePasses
  \/ \E p \in Ticks : Tick(p) \/ CrashTick(p)
  \/ \E p \in Operators :
       \/ Edit(p)
       \/ \E a \in Automations, every \in Intervals \cup {Manual} : BeginSave(p, a, every)
       \/ \E a \in Automations, s \in BOOLEAN : UpdateStatus(p, a, s)

Spec == Init /\ [][Next]_vars

(***************************************************************************)
(* setInterval keeps calling tick, the event loop continues what was       *)
(* started, and every walk returns (Engine!RunsComeToRest).  Nobody has to *)
(* edit anything.                                                          *)
(***************************************************************************)
FairSpec ==
  /\ Spec
  /\ \A p \in Ticks : WF_vars(Tick(p))
  /\ \A p \in Operators : WF_vars(Edit(p))

-----------------------------------------------------------------------------
(***************************************************************************)
(* Properties.                                                             *)
(***************************************************************************)

\* Every variable has a value of its type, and a request that is past its
\* first step has an automation in hand.
TypeOK ==
  /\ now \in 0..MaxTime
  /\ active \in [Automations -> BOOLEAN]
  /\ nextRunAt \in [Automations -> Time \cup {Null}]
  /\ latest \in [Automations -> Nat]
  /\ interval \in [Automations -> Intervals \cup {Manual}]
  /\ runs \subseteq Automations \X Time \X (Nat \ {0})
  /\ pc \in [Requests -> PC]
  /\ loc \in [Requests -> Local]
  /\ edits \in 0..MaxEdits
  /\ crashes \in 0..MaxCrashes
  /\ \A p \in Requests : pc[p] \notin {"idle", "loop"} => loc[p].auto \in Automations
  /\ \A p \in Ticks : pc[p] \in {"idle"} \cup TickPC
  /\ \A p \in Operators : pc[p] \in {"idle"} \cup EditPC

\* An occurrence is run at most once, although ticks overlap, are retried after
\* a crash, and may set the cursor back to an occurrence that already ran
\* (the idempotency key sched:{automationId}:{dueAt}).
OccurrenceRunsOnce == \A r \in runs : r[3] = 1

\* Every occurrence of a's schedule before t has been run.
CaughtUp(a, t) == \A s \in 1..(t - 1) : s % interval[a] = 0 => KeyTaken(a, s)

\* While nobody edits an automation, the cursor passes no occurrence that has
\* not been run: every one is caught up, in spite of overlap and crashes.
NoOccurrenceSkipped ==
  edits = 0 =>
    \A a \in Automations : nextRunAt[a] # Null => CaughtUp(a, nextRunAt[a])

\* With no request in flight, nextRunAt is what refreshSchedule says it is: null
\* unless the automation is active and its current definition has a schedule.
CursorInSync ==
  (\A p \in Requests : pc[p] = "idle") =>
    \A a \in Automations : nextRunAt[a] # Null <=> active[a] /\ interval[a] # Manual

\* While nobody edits the automation, an occurrence that is due is run: no
\* overlap of ticks, and no crash, loses it (the comment in tick: "A crash in
\* between is safe: the next tick retries").
DueIsServed ==
  \A a \in Automations, t \in 0..MaxTime :
    (active[a] /\ nextRunAt[a] = t /\ t <= now) ~> KeyTaken(a, t)

-----------------------------------------------------------------------------
(***************************************************************************)
(* The inductive invariants: the runs can be counted, and, for             *)
(* NoOccurrenceSkipped, what a tick relies on from one await to the next.  *)
(***************************************************************************)

TypeInv == TypeOK /\ IsFiniteSet(runs)

\* t is an occurrence of a's schedule.
Occurs(a, t) == t # 0 /\ active[a] /\ interval[a] # Manual /\ t % interval[a] = 0

\* An occurrence a tick has found due: nothing before it is missing, and the
\* cursor will not be taken away.
Owed(a, t) == Occurs(a, t) /\ t <= now /\ nextRunAt[a] # Null /\ CaughtUp(a, t)

\* A tick moves the cursor on by one interval, and only behind a run: its own,
\* or that of the tick that overtook it.
TickInOrder(p) ==
  LET a == loc[p].auto
      t == loc[p].dueAt
  IN
  /\ \A d \in loc[p].due : Owed(d[1], d[2])
  /\ pc[p] \notin {"idle", "loop"} => Owed(a, t)
  /\ pc[p] \in {"lookup", "guard", "insert", "walk", "advance"} => loc[p].next = t + interval[a]
  /\ pc[p] \in {"walk", "advance"} => KeyTaken(a, t)

CatchUpInv ==
  /\ TypeInv
  /\ edits = 0 =>
       /\ \A p \in Operators : pc[p] = "idle"
       /\ \A a \in Automations :
            nextRunAt[a] # Null => Occurs(a, nextRunAt[a]) /\ CaughtUp(a, nextRunAt[a])
       /\ \A p \in Ticks : TickInOrder(p)

=============================================================================
