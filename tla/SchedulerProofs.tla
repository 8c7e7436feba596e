--------------------------- MODULE SchedulerProofs ---------------------------
(***************************************************************************)
(* What the scheduler promises, for any number of automations, overlapping *)
(* ticks, edits, intervals and crashes: its columns and local variables    *)
(* keep their types; on Postgres an occurrence is run at most once; and    *)
(* while nobody edits, none is skipped.  The last needs to know that the   *)
(* occurrences of a schedule are one interval apart (OccurrencesApart),    *)
(* and what a tick relies on between two awaits (Scheduler!CatchUpInv).    *)
(***************************************************************************)
EXTENDS Scheduler, FiniteSetTheorems, TLAPS

\* The program points, written out.
LEMMA PCs ==
  /\ PC = {"idle", "loop", "recheck", "definition", "lookup", "guard", "insert", "walk",
           "advance", "insertVersion", "refresh", "current", "write"}
  /\ TickPC = {"loop", "recheck", "definition", "lookup", "guard", "insert", "walk", "advance"}
  /\ EditPC = {"insertVersion", "refresh", "current", "write"}
BY DEF PC, TickPC, EditPC

\* What the assumption on the constants gives the proofs.
LEMMA Constants ==
  /\ Null \notin Nat
  /\ Intervals \subseteq Nat \ {0}
  /\ Manual \in Nat
  /\ MaxTime \in Nat /\ MaxEdits \in Nat /\ MaxCrashes \in Nat
BY SchedulerAssumption DEF Manual

\* The local variables of a request at rest.
LEMMA BlankLocal == Blank \in Local
BY DEF Blank, Local, Time

\* Every interval has a next occurrence, and a manual trigger has none.
LEMMA NextAfterTyped ==
  ASSUME NEW t \in Time, NEW every \in Intervals \cup {Manual}
  PROVE  NextAfter(t, every) \in Time \cup {Null}
BY Constants DEF NextAfter, Time

\* A run of an occurrence is counted from one on.
LEMMA NewRunTyped ==
  ASSUME IsFiniteSet(runs), NEW a \in Automations, NEW t \in Time
  PROVE  NewRun(a, t) \in Automations \X Time \X (Nat \ {0})
<1> DEFINE same == {r \in runs : r[1] = a /\ r[2] = t}
<1>1. IsFiniteSet(same)
  BY FS_Subset
<1>2. Cardinality(same) \in Nat
  BY <1>1, FS_CardinalityType
<1> QED
  BY <1>2 DEF NewRun

-----------------------------------------------------------------------------
(***************************************************************************)
(* Type correctness.                                                       *)
(***************************************************************************)

\* The initial states are typed.
LEMMA InitTyped == Init => TypeInv
<1> SUFFICES ASSUME Init PROVE TypeInv
  OBVIOUS
<1> USE DEF Init
<1>1. nextRunAt \in [Automations -> Time \cup {Null}]
  BY NextAfterTyped DEF Time
<1>2. loc \in [Requests -> Local] /\ pc \in [Requests -> PC]
  BY BlankLocal, PCs
<1>3. \A p \in Requests : pc[p] = "idle"
  OBVIOUS
<1>4. IsFiniteSet(runs)
  BY FS_EmptySet
<1> QED
  BY <1>1, <1>2, <1>3, <1>4, Constants DEF TypeInv, TypeOK, Requests

\* One request moves: what is left to show of its step.
LEMMA MovesTyped ==
  ASSUME TypeInv, NEW p \in Requests, NEW w \in PC, pc' = [pc EXCEPT ![p] = w],
         NEW l \in Local, loc' = [loc EXCEPT ![p] = l],
         w \notin {"idle", "loop"} => l.auto \in Automations,
         p \in Ticks => w \in {"idle"} \cup TickPC,
         p \in Operators => w \in {"idle"} \cup EditPC,
         now' \in 0..MaxTime, active' \in [Automations -> BOOLEAN],
         nextRunAt' \in [Automations -> Time \cup {Null}], latest' \in [Automations -> Nat],
         interval' \in [Automations -> Intervals \cup {Manual}],
         runs' \subseteq Automations \X Time \X (Nat \ {0}), IsFiniteSet(runs'),
         edits' \in 0..MaxEdits, crashes' \in 0..MaxCrashes
  PROVE  TypeInv'
<1>1. /\ pc' \in [Requests -> PC] /\ loc' \in [Requests -> Local]
      /\ pc'[p] = w /\ loc'[p] = l
      /\ \A q \in Requests \ {p} : pc'[q] = pc[q] /\ loc'[q] = loc[q]
  BY DEF TypeInv, TypeOK
<1>2. \A q \in Requests : pc'[q] \notin {"idle", "loop"} => loc'[q].auto \in Automations
  BY <1>1 DEF TypeInv, TypeOK
<1>3. /\ \A q \in Ticks : pc'[q] \in {"idle"} \cup TickPC
      /\ \A q \in Operators : pc'[q] \in {"idle"} \cup EditPC
  BY <1>1 DEF TypeInv, TypeOK, Requests
<1> QED
  BY <1>1, <1>2, <1>3 DEF TypeInv, TypeOK

\* The types of what a request reads.
LEMMA Typed ==
  ASSUME TypeInv, NEW p \in Requests
  PROVE  /\ now \in 0..MaxTime /\ now \in Nat /\ active \in [Automations -> BOOLEAN]
         /\ nextRunAt \in [Automations -> Time \cup {Null}]
         /\ latest \in [Automations -> Nat]
         /\ interval \in [Automations -> Intervals \cup {Manual}]
         /\ runs \subseteq Automations \X Time \X (Nat \ {0}) /\ IsFiniteSet(runs)
         /\ pc \in [Requests -> PC] /\ loc \in [Requests -> Local]
         /\ edits \in 0..MaxEdits /\ crashes \in 0..MaxCrashes
         /\ loc[p] \in Local /\ pc[p] \in PC
         /\ loc' = loc => loc' = [loc EXCEPT ![p] = loc[p]]
         /\ pc[p] \notin {"idle", "loop"} => loc[p].auto \in Automations
         /\ p \in Ticks => pc[p] \in {"idle"} \cup TickPC
         /\ p \in Operators => pc[p] \in {"idle"} \cup EditPC
BY Constants DEF TypeInv, TypeOK

\* A tick's steps on what it has in hand.
LEMMA TickTyped ==
  ASSUME TypeInv, NEW p \in Ticks, Tick(p) \/ CrashTick(p)
  PROVE  TypeInv'
<1> p \in Requests
  BY DEF Requests
<1> DEFINE a == loc[p].auto
<1>1. p \notin Operators
  BY SchedulerAssumption
<1>2. /\ loc[p] \in Local /\ loc[p].dueAt \in Time /\ loc[p].next \in Time \cup {Null}
      /\ loc[p].due \subseteq Automations \X Time
  BY Typed DEF Local
<1>3. CASE BeginTick(p)
  <2> DEFINE due == {<<b, nextRunAt[b]>> : b \in {c \in Automations : active[c] /\ IsDue(c)}}
             l == [loc[p] EXCEPT !.due = due]
  <2>1. due \subseteq Automations \X Time
    BY Typed DEF IsDue
  <2>2. l \in Local
    BY <1>2, <2>1 DEF Local
  <2>3. pc' = [pc EXCEPT ![p] = "loop"] /\ loc' = [loc EXCEPT ![p] = l]
    BY <1>3, Typed DEF BeginTick, Goto
  <2> HIDE DEF l
  <2> QED
    BY <1>1, <1>3, <2>2, <2>3, MovesTyped, Typed, PCs DEF BeginTick, rows
<1>4. CASE TakeDue(p)
  <2>1. PICK d \in loc[p].due :
          loc' = [loc EXCEPT ![p].due = @ \ {d}, ![p].auto = d[1], ![p].dueAt = d[2]]
    BY <1>4 DEF TakeDue
  <2> DEFINE l == [loc[p] EXCEPT !.due = @ \ {d}, !.auto = d[1], !.dueAt = d[2]]
  <2>2. d[1] \in Automations /\ d[2] \in Time
    BY <1>2, <2>1
  <2>3. l \in Local /\ l.auto \in Automations
    BY <1>2, <2>2 DEF Local
  <2>4. pc' = [pc EXCEPT ![p] = "recheck"] /\ loc' = [loc EXCEPT ![p] = l]
    BY <1>4, <2>1, Typed DEF TakeDue, Goto
  <2> HIDE DEF l
  <2> QED
    BY <1>1, <1>4, <2>3, <2>4, MovesTyped, Typed, PCs DEF TakeDue, rows
<1>5. CASE EndTick(p) \/ CrashTick(p)
  <2>1. pc' = [pc EXCEPT ![p] = "idle"] /\ loc' = [loc EXCEPT ![p] = Blank] /\ UNCHANGED <<now, rows, edits>>
    BY <1>5 DEF EndTick, CrashTick, Return, Goto
  <2>2. crashes' \in 0..MaxCrashes
    BY <1>5, Typed, Constants DEF EndTick, CrashTick
  <2> QED
    BY <1>1, <2>1, <2>2, BlankLocal, MovesTyped, Typed, PCs DEF rows
<1>6. CASE Recheck(p) \/ LookupKey(p) \/ CheckActiveAndDue(p) \/ WalkReturns(p)
  <2>1. PICK w \in TickPC : pc' = [pc EXCEPT ![p] = w]
    BY <1>6, PCs DEF Recheck, LookupKey, CheckActiveAndDue, WalkReturns, Goto
  <2>2. pc[p] \notin {"idle", "loop"} /\ loc' = loc /\ UNCHANGED <<now, rows, edits, crashes>>
    BY <1>6 DEF Recheck, LookupKey, CheckActiveAndDue, WalkReturns
  <2> QED
    BY <1>1, <1>2, <2>1, <2>2, MovesTyped, Typed, PCs DEF rows
<1>7. CASE ReadDefinition(p)
  <2> DEFINE l == [loc[p] EXCEPT !.next = NextAfter(loc[p].dueAt, interval[a])]
  <2>1. pc[p] = "definition" /\ a \in Automations
    BY <1>7, Typed DEF ReadDefinition
  <2>2. NextAfter(loc[p].dueAt, interval[a]) \in Time \cup {Null}
    BY <1>2, <2>1, Typed, NextAfterTyped
  <2>3. l \in Local /\ l.auto \in Automations
    BY <1>2, <2>1, <2>2 DEF Local
  <2>4. pc' = [pc EXCEPT ![p] = "lookup"] /\ loc' = [loc EXCEPT ![p] = l]
    BY <1>7, Typed DEF ReadDefinition, Goto
  <2> HIDE DEF l
  <2> QED
    BY <1>1, <1>7, <2>3, <2>4, MovesTyped, Typed, PCs DEF ReadDefinition, rows
<1>8. CASE InsertRun(p)
  <2>1. pc[p] = "insert" /\ a \in Automations
    BY <1>8, Typed DEF InsertRun
  <2>2. CASE pc' = [pc EXCEPT ![p] = "idle"] /\ loc' = [loc EXCEPT ![p] = Blank] /\ runs' = runs
    BY <1>1, <1>8, <2>2, BlankLocal, MovesTyped, Typed, PCs DEF InsertRun
  <2>3. CASE /\ pc' = [pc EXCEPT ![p] = "walk"] /\ loc' = loc
             /\ runs' = runs \cup {NewRun(a, loc[p].dueAt)}
    <3>1. runs' \subseteq Automations \X Time \X (Nat \ {0})
      BY <1>2, <2>1, <2>3, NewRunTyped, Typed
    <3>2. IsFiniteSet(runs')
      BY <2>3, FS_AddElement, Typed
    <3> QED
      BY ZenonT(60), <1>1, <1>2, <1>8, <2>1, <2>3, <3>1, <3>2, MovesTyped, Typed, PCs DEF InsertRun
  <2> QED
    BY <1>8, <2>2, <2>3 DEF InsertRun, Goto, Return
<1>9. CASE AdvanceCursor(p)
  <2>1. pc[p] = "advance" /\ a \in Automations
    BY <1>9, Typed DEF AdvanceCursor
  <2>2. nextRunAt' \in [Automations -> Time \cup {Null}]
    BY <1>2, <1>9, Typed DEF AdvanceCursor
  <2> QED
    BY <1>1, <1>2, <1>9, <2>1, <2>2, MovesTyped, Typed, PCs DEF AdvanceCursor, Goto
<1> QED
  BY <1>3, <1>4, <1>5, <1>6, <1>7, <1>8, <1>9 DEF Tick

\* An operator's request.
LEMMA EditTyped ==
  ASSUME TypeInv, NEW p \in Operators,
         \/ Edit(p)
         \/ \E a \in Automations, every \in Intervals \cup {Manual} : BeginSave(p, a, every)
         \/ \E a \in Automations, s \in BOOLEAN : UpdateStatus(p, a, s)
  PROVE  TypeInv'
<1> p \in Requests
  BY DEF Requests
<1> DEFINE a == loc[p].auto
<1>1. p \notin Ticks
  BY SchedulerAssumption
<1>2. /\ loc[p] \in Local /\ loc[p].version \in Nat /\ loc[p].next \in Time \cup {Null}
      /\ loc[p].interval \in Intervals \cup {Manual}
  BY Typed DEF Local
<1>3. ASSUME NEW b \in Automations, NEW every \in Intervals \cup {Manual}, BeginSave(p, b, every)
      PROVE  TypeInv'
  <2> DEFINE l == [loc[p] EXCEPT !.auto = b, !.version = latest[b] + 1, !.interval = every]
  <2>0. latest[b] + 1 \in Nat
    BY Typed
  <2>1. l \in Local /\ l.auto = b
    BY <1>2, <2>0 DEF Local
  <2>2. pc' = [pc EXCEPT ![p] = "insertVersion"] /\ loc' = [loc EXCEPT ![p] = l]
    BY <1>3, Typed DEF BeginSave, Goto
  <2>3. edits' \in 0..MaxEdits
    <3>1. edits \in 0..MaxEdits /\ MaxEdits \in Nat
      BY Typed, Constants
    <3>2. edits < MaxEdits /\ edits' = edits + 1
      BY <1>3 DEF BeginSave
    <3> QED
      BY <3>1, <3>2
  <2> HIDE DEF l
  <2>4. UNCHANGED <<now, active, nextRunAt, latest, interval, runs, crashes>>
    BY <1>3 DEF BeginSave, rows
  <2> QED
    BY <1>1, <2>1, <2>2, <2>3, <2>4, MovesTyped, Typed, PCs
<1>4. ASSUME NEW b \in Automations, NEW s \in BOOLEAN, UpdateStatus(p, b, s)
      PROVE  TypeInv'
  <2> DEFINE l == [loc[p] EXCEPT !.auto = b]
  <2>1. l \in Local /\ l.auto = b
    BY <1>2 DEF Local
  <2>2. pc' = [pc EXCEPT ![p] = "refresh"] /\ loc' = [loc EXCEPT ![p] = l]
    BY <1>4, Typed DEF UpdateStatus, Goto
  <2>3. edits' \in 0..MaxEdits
    <3>1. edits \in 0..MaxEdits /\ MaxEdits \in Nat
      BY Typed, Constants
    <3>2. edits < MaxEdits /\ edits' = edits + 1
      BY <1>4 DEF UpdateStatus
    <3> QED
      BY <3>1, <3>2
  <2>4. active' \in [Automations -> BOOLEAN]
    BY <1>4, Typed DEF UpdateStatus
  <2> HIDE DEF l
  <2>5. UNCHANGED <<now, nextRunAt, latest, interval, runs, crashes>>
    BY <1>4 DEF UpdateStatus
  <2> QED
    BY <1>1, <2>1, <2>2, <2>3, <2>4, <2>5, MovesTyped, Typed, PCs
<1>5. CASE InsertVersion(p)
  <2>1. pc[p] = "insertVersion" /\ a \in Automations
    BY <1>5, Typed DEF InsertVersion
  <2>2. /\ latest' \in [Automations -> Nat]
        /\ interval' \in [Automations -> Intervals \cup {Manual}]
    BY <1>2, <1>5, Typed DEF InsertVersion
  <2>3. CASE pc' = [pc EXCEPT ![p] = "idle"] /\ loc' = [loc EXCEPT ![p] = Blank]
    BY <1>1, <1>5, <2>2, <2>3, BlankLocal, MovesTyped, Typed, PCs DEF InsertVersion
  <2>4. CASE pc' = [pc EXCEPT ![p] = "refresh"] /\ loc' = loc
    BY ZenonT(60), <1>1, <1>2, <1>5, <2>1, <2>2, <2>4, MovesTyped, Typed, PCs DEF InsertVersion
  <2> QED
    BY <1>5, <2>3, <2>4 DEF InsertVersion, Goto, Return
<1>6. CASE RefreshStatus(p)
  <2> DEFINE l == [loc[p] EXCEPT !.active = active[a]]
  <2>1. pc[p] = "refresh" /\ a \in Automations
    BY <1>6, Typed DEF RefreshStatus
  <2>2. l \in Local /\ l.auto = a
    BY <1>2, <2>1, Typed DEF Local
  <2>3. pc' = [pc EXCEPT ![p] = "current"] /\ loc' = [loc EXCEPT ![p] = l]
    BY <1>6, Typed DEF RefreshStatus, Goto
  <2> HIDE DEF l
  <2> QED
    BY <1>1, <1>6, <2>1, <2>2, <2>3, MovesTyped, Typed, PCs DEF RefreshStatus, rows
<1>7. CASE RefreshDefinition(p)
  <2> DEFINE next == IF loc[p].active THEN NextAfter(now, interval[a]) ELSE Null
             l == [loc[p] EXCEPT !.next = next]
  <2>1. pc[p] = "current" /\ a \in Automations
    BY <1>7, Typed DEF RefreshDefinition
  <2>2. next \in Time \cup {Null}
    BY <2>1, Typed, NextAfterTyped DEF Time
  <2>3. l \in Local /\ l.auto = a
    BY <1>2, <2>2 DEF Local
  <2>4. pc' = [pc EXCEPT ![p] = "write"] /\ loc' = [loc EXCEPT ![p] = l]
    BY <1>7, Typed DEF RefreshDefinition, Goto
  <2> HIDE DEF l
  <2> QED
    BY <1>1, <1>7, <2>1, <2>3, <2>4, MovesTyped, Typed, PCs DEF RefreshDefinition, rows
<1>8. CASE RefreshCursor(p)
  <2>1. /\ pc' = [pc EXCEPT ![p] = "idle"] /\ loc' = [loc EXCEPT ![p] = Blank]
        /\ nextRunAt' \in [Automations -> Time \cup {Null}]
    BY <1>2, <1>8, Typed DEF RefreshCursor, Return, Goto
  <2> QED
    BY <1>1, <1>8, <2>1, BlankLocal, MovesTyped, Typed, PCs DEF RefreshCursor
<1> QED
  BY <1>3, <1>4, <1>5, <1>6, <1>7, <1>8 DEF Edit

\* Every step preserves TypeInv.
LEMMA StepTyped == TypeInv /\ [Next]_vars => TypeInv'
<1> SUFFICES ASSUME TypeInv, [Next]_vars PROVE TypeInv'
  OBVIOUS
<1>1. CASE UNCHANGED vars
  BY <1>1 DEF vars, rows, TypeInv, TypeOK
<1>2. CASE TimePasses
  BY <1>2, Constants DEF TimePasses, rows, TypeInv, TypeOK
<1> QED
  BY <1>1, <1>2, TickTyped, EditTyped DEF Next

\* What every request of the scheduler relies on holds throughout.
LEMMA AlwaysTypeInv == Spec => []TypeInv
BY InitTyped, StepTyped, PTL DEF Spec

\* The columns the scheduler reads and writes, and the local variables of every
\* tick and edit, keep their types (scheduler.ts, automations.ts).
THEOREM TypeCorrect == Spec => []TypeOK
<1>1. TypeInv => TypeOK
  BY DEF TypeInv
<1> QED
  BY <1>1, AlwaysTypeInv, PTL

-----------------------------------------------------------------------------
(***************************************************************************)
(* An occurrence runs once.  The lookup of its key does not help, since    *)
(* ticks overlap; the unique index does.                                   *)
(***************************************************************************)

\* The first run of an occurrence is numbered one.
LEMMA FirstRun ==
  ASSUME NEW a, NEW t, ~ KeyTaken(a, t)
  PROVE  NewRun(a, t)[3] = 1
<1>1. {r \in runs : r[1] = a /\ r[2] = t} = {}
  BY SMTT(30) DEF KeyTaken
<1> QED
  BY <1>1, FS_EmptySet DEF NewRun

\* Whatever is not the insert leaves the runs as they are.
LEMMA RunsStay ==
  ASSUME [Next]_vars, \A p \in Ticks : ~ InsertRun(p)
  PROVE  runs' = runs
BY ZenonT(60) DEF Next, TimePasses, Tick, CrashTick, Edit, BeginTick, TakeDue, EndTick, Recheck,
   ReadDefinition, LookupKey, CheckActiveAndDue, WalkReturns, AdvanceCursor, BeginSave,
   UpdateStatus, InsertVersion, RefreshStatus, RefreshDefinition, RefreshCursor, rows, vars

\* On Postgres an occurrence is run at most once, however many ticks overlap,
\* retry it after a crash, or are set back to it by an edit (the key
\* sched:{automationId}:{dueAt} and its unique index, schema.prisma).
THEOREM RunsOnce == Postgres => (Spec => []OccurrenceRunsOnce)
<1> SUFFICES ASSUME Postgres PROVE Spec => []OccurrenceRunsOnce
  OBVIOUS
<1>1. Init => OccurrenceRunsOnce
  BY DEF Init, OccurrenceRunsOnce
<1>2. OccurrenceRunsOnce /\ [Next]_vars => OccurrenceRunsOnce'
  <2> SUFFICES ASSUME OccurrenceRunsOnce, [Next]_vars PROVE OccurrenceRunsOnce'
    OBVIOUS
  <2>1. ASSUME NEW p \in Ticks, InsertRun(p) PROVE OccurrenceRunsOnce'
    BY <2>1, FirstRun DEF InsertRun, OccurrenceRunsOnce
  <2> QED
    BY <2>1, RunsStay DEF OccurrenceRunsOnce
<1> QED
  BY <1>1, <1>2, PTL DEF Spec

-----------------------------------------------------------------------------
(***************************************************************************)
(* No occurrence is skipped.                                               *)
(***************************************************************************)

\* A moment with no remainder is a whole number of intervals.
LEMMA Remainder ==
  ASSUME NEW i \in Nat \ {0}, NEW t \in Nat, t % i = 0
  PROVE  \E q \in Int : t = i * q
<1>1. t \div i \in Int
  OBVIOUS
<1>2. t = (i * (t \div i)) + (t % i)
  OBVIOUS
<1>3. i * (t \div i) \in Int
  BY <1>1
<1>4. t = i * (t \div i)
  BY <1>2, <1>3
<1> WITNESS t \div i \in Int
<1> QED
  BY <1>4

\* Whole numbers of intervals.
LEMMA Multiples ==
  ASSUME NEW i \in Nat \ {0}, NEW q \in Int, NEW m \in Int
  PROVE  /\ (i * q) % i = 0
         /\ (i * q) + i = i * (q + 1)
         /\ i * q < i * m => (i * q) + i <= i * m
<1>1. i * q < i * m => q < m
  OBVIOUS
<1>2. q < m => i * (m - q) >= i
  OBVIOUS
<1>3. i * (m - q) = (i * m) - (i * q)
  OBVIOUS
<1>4. (i * q) % i = 0 /\ (i * q) + i = i * (q + 1)
  OBVIOUS
<1> QED
  BY <1>1, <1>2, <1>3, <1>4

\* One interval after an occurrence is the next one, with none in between.
LEMMA OccurrencesApart ==
  ASSUME NEW i \in Nat \ {0}, NEW t \in Nat, t % i = 0
  PROVE  /\ (t + i) % i = 0
         /\ \A s \in Nat : t < s /\ s < t + i => s % i # 0
<1>1. PICK q \in Int : t = i * q
  BY Remainder
<1>2. (t + i) % i = 0
  <2>1. (t + i) = i * (q + 1) /\ q + 1 \in Int
    BY <1>1, Multiples
  <2> QED
    BY ZenonT(60), <2>1, Multiples
<1>3. ASSUME NEW s \in Nat, t < s, s < t + i, s % i = 0 PROVE FALSE
  <2>1. PICK m \in Int : s = i * m
    BY <1>3, Remainder
  <2>2. (i * q) + i <= i * m
    BY <1>1, <1>3, <2>1, Multiples
  <2> QED
    BY <1>1, <1>3, <2>1, <2>2
<1> QED
  BY <1>2, <1>3

\* The occurrences, and what has been run of them, depend on columns that only
\* an edit changes, and on runs that stay.
LEMMA OwedFrame ==
  ASSUME NEW a, NEW t, active'[a] = active[a], interval'[a] = interval[a],
         runs \subseteq runs', now' >= now, now \in Nat, now' \in Nat, t \in Nat
  PROVE  /\ KeyTaken(a, t) => KeyTaken(a, t)'
         /\ Occurs(a, t) => Occurs(a, t)'
         /\ CaughtUp(a, t) => CaughtUp(a, t)'
         /\ Owed(a, t) /\ nextRunAt'[a] # Null => Owed(a, t)'
<1>1. \A s : KeyTaken(a, s) => KeyTaken(a, s)'
  BY DEF KeyTaken
<1>2. Occurs(a, t) => Occurs(a, t)'
  BY DEF Occurs
<1>3. CaughtUp(a, t) => CaughtUp(a, t)'
  BY <1>1 DEF CaughtUp
<1>4. t <= now => t <= now'
  OBVIOUS
<1> QED
  BY <1>1, <1>2, <1>3, <1>4 DEF Owed

\* The cursor behind an occurrence that has been run leaves none out.
LEMMA AdvanceCatchesUp ==
  ASSUME NEW a, NEW t \in Nat, interval[a] \in Nat \ {0}, Owed(a, t), KeyTaken(a, t)
  PROVE  /\ Occurs(a, t + interval[a])
         /\ CaughtUp(a, t + interval[a])
<1> DEFINE i == interval[a]
<1>1. t % i = 0 /\ active[a] /\ i # Manual /\ CaughtUp(a, t)
  BY DEF Owed, Occurs
<1>2. (t + i) % i = 0 /\ \A s \in Nat : t < s /\ s < t + i => s % i # 0
  BY <1>1, OccurrencesApart
<1>3. ASSUME NEW s \in 1..(t + i - 1), s % i = 0 PROVE KeyTaken(a, s)
  <2>1. s \in Nat /\ s < t + i /\ s >= 1
    OBVIOUS
  <2>2. s <= t
    BY <1>2, <1>3, <2>1
  <2>3. CASE s = t
    BY <2>3
  <2>4. CASE s \in 1..(t - 1)
    BY <1>1, <1>3, <2>4 DEF CaughtUp
  <2> QED
    BY <2>1, <2>2, <2>3, <2>4
<1>4. t + i # 0
  OBVIOUS
<1> QED
  BY <1>1, <1>2, <1>3, <1>4 DEF Occurs, CaughtUp

\* Initially the cursor is at the first occurrence.
LEMMA InitCaughtUp == Init => CatchUpInv
<1> SUFFICES ASSUME Init PROVE CatchUpInv
  OBVIOUS
<1>1. TypeInv
  BY InitTyped
<1>2. \A p \in Requests : pc[p] = "idle" /\ loc[p] = Blank
  BY DEF Init
<1>3. \A p \in Ticks : TickInOrder(p)
  BY <1>2 DEF TickInOrder, Requests, Blank
<1>4. ASSUME NEW a \in Automations, nextRunAt[a] # Null
      PROVE  Occurs(a, nextRunAt[a]) /\ CaughtUp(a, nextRunAt[a])
  <2> DEFINE i == interval[a]
  <2>1. active[a] /\ i # Manual /\ nextRunAt[a] = 0 + i
    BY <1>4 DEF Init, NextAfter
  <2>2. i \in Nat \ {0}
    BY <2>1, Constants DEF Init
  <2>3. 0 % i = 0
    BY <2>2
  <2>4. nextRunAt[a] = i /\ i % i = 0 /\ \A s \in Nat : 0 < s /\ s < i => s % i # 0
    <3> HIDE DEF i
    <3>1. (0 + i) % i = 0 /\ \A s \in Nat : 0 < s /\ s < 0 + i => s % i # 0
      BY <2>2, <2>3, OccurrencesApart
    <3> QED
      BY <2>1, <2>2, <3>1
  <2>5. \A s \in 1..(i - 1) : s \in Nat /\ 0 < s /\ s < i
    BY <2>2
  <2> QED
    BY <2>1, <2>2, <2>4, <2>5 DEF Occurs, CaughtUp
<1> QED
  BY <1>1, <1>2, <1>3, <1>4 DEF CatchUpInv, Requests

\* What every step does as long as nobody edits.
Quiet ==
  /\ active' = active /\ interval' = interval /\ runs \subseteq runs' /\ now' >= now
  /\ \A a \in Automations : nextRunAt[a] # Null => nextRunAt'[a] # Null

Cursors == \A a \in Automations :
             nextRunAt[a] # Null => Occurs(a, nextRunAt[a]) /\ CaughtUp(a, nextRunAt[a])

\* What a tick was owed it is still owed.
LEMMA OwedStays ==
  ASSUME TypeInv, TypeInv', Quiet, NEW a \in Automations, NEW t \in Nat
  PROVE  /\ KeyTaken(a, t) => KeyTaken(a, t)'
         /\ Owed(a, t) => Owed(a, t)'
         /\ Occurs(a, t) /\ CaughtUp(a, t) => Occurs(a, t)' /\ CaughtUp(a, t)'
<1>1. now \in Nat /\ now' \in Nat
  BY Constants DEF TypeInv, TypeOK
<1>2. Owed(a, t) => nextRunAt'[a] # Null
  BY DEF Owed, Quiet
<1> QED
  BY <1>1, <1>2, OwedFrame DEF Quiet

\* The local variables of a tick have their types.
LEMMA TickLocals ==
  ASSUME TypeInv, NEW p \in Ticks
  PROVE  /\ \A d \in loc[p].due : d[1] \in Automations /\ d[2] \in Nat
         /\ loc[p].dueAt \in Nat
         /\ pc[p] \notin {"idle", "loop"} =>
              loc[p].auto \in Automations /\ interval[loc[p].auto] \in Nat
<1>1. p \in Requests
  BY DEF Requests
<1>2. loc[p] \in Local
  BY <1>1, Typed
<1> QED
  BY <1>1, <1>2, Typed, Constants DEF Local, Time

\* A tick that does not move stays in order, and so does one that goes on with
\* what it has in hand.
LEMMA TickStays ==
  ASSUME TypeInv, TypeInv', Quiet, NEW p \in Ticks, TickInOrder(p), loc'[p] = loc[p],
         \/ pc'[p] = pc[p]
         \/ pc'[p] \in {"loop", "definition"}  /\ pc[p] \notin {"idle", "loop"}
         \/ pc'[p] \in {"guard", "insert"} /\ pc[p] \in {"lookup", "guard"}
         \/ /\ pc'[p] \in {"walk", "advance"} /\ pc[p] \in {"lookup", "guard", "insert", "walk"}
            /\ KeyTaken(loc[p].auto, loc[p].dueAt)'
  PROVE  TickInOrder(p)'
<1>1. \A d \in loc[p].due : Owed(d[1], d[2])'
  BY TickLocals, OwedStays DEF TickInOrder
<1>2. pc[p] \notin {"idle", "loop"} =>
        Owed(loc[p].auto, loc[p].dueAt)' /\ interval'[loc[p].auto] = interval[loc[p].auto]
  BY TickLocals, OwedStays DEF TickInOrder, Quiet
<1>3. pc[p] \in {"walk", "advance"} => KeyTaken(loc[p].auto, loc[p].dueAt)'
  BY TickLocals, OwedStays DEF TickInOrder
<1> QED
  BY <1>1, <1>2, <1>3 DEF TickInOrder

\* The cursors, when they stay.
LEMMA CursorsStay ==
  ASSUME TypeInv, TypeInv', Quiet, Cursors, nextRunAt' = nextRunAt
  PROVE  Cursors'
<1>1. \A a \in Automations : nextRunAt[a] # Null => nextRunAt[a] \in Nat
  BY Typed DEF TypeInv, TypeOK, Time
<1> QED
  BY <1>1, OwedStays DEF Cursors

\* What a tick finds due is owed.
LEMMA BeginTickInOrder ==
  ASSUME TypeInv, TypeInv', Cursors, NEW p \in Ticks, BeginTick(p)
  PROVE  TickInOrder(p)'
<1> DEFINE due == {<<b, nextRunAt[b]>> : b \in {c \in Automations : active[c] /\ IsDue(c)}}
<1>1. p \in Requests /\ loc[p] \in Local
  BY Typed DEF Requests
<1>2. /\ pc'[p] = "loop" /\ loc'[p].due = due
      /\ UNCHANGED <<now, rows>>
  BY <1>1, Typed DEF BeginTick, Goto, Local
<1>3. ASSUME NEW d \in due PROVE Owed(d[1], d[2])
  <2>1. PICK b \in Automations : IsDue(b) /\ d = <<b, nextRunAt[b]>>
    OBVIOUS
  <2> QED
    BY <2>1 DEF IsDue, Cursors, Owed
<1>4. \A d \in due : Owed(d[1], d[2])'
  BY <1>2, <1>3 DEF Owed, Occurs, CaughtUp, KeyTaken, rows
<1> QED
  BY <1>2, <1>4 DEF TickInOrder

\* When the guard finds the automation not due any more, another tick has moved
\* the cursor past the occurrence, and it has been run.
LEMMA OvertakenHasRun ==
  ASSUME TypeInv, Cursors, NEW p \in Ticks, TickInOrder(p), pc[p] = "guard",
         ~ (active[loc[p].auto] /\ IsDue(loc[p].auto))
  PROVE  KeyTaken(loc[p].auto, loc[p].dueAt)
<1> DEFINE a == loc[p].auto
           t == loc[p].dueAt
<1>1. /\ a \in Automations /\ t \in Nat /\ now \in Nat
      /\ nextRunAt[a] # Null => nextRunAt[a] \in Nat
  BY TickLocals, Typed DEF Time, Requests
<1>2. t # 0 /\ active[a] /\ t % interval[a] = 0 /\ t <= now /\ nextRunAt[a] # Null
  BY DEF TickInOrder, Owed, Occurs
<1>3. nextRunAt[a] > now /\ CaughtUp(a, nextRunAt[a])
  BY <1>1, <1>2 DEF IsDue, Cursors
<1>4. t \in 1..(nextRunAt[a] - 1)
  BY <1>1, <1>2, <1>3
<1> QED
  BY <1>2, <1>3, <1>4 DEF CaughtUp

\* A tick's step leaves it, and the cursors, in order.
LEMMA TickInOrderStep ==
  ASSUME TypeInv, TypeInv', Cursors, NEW p \in Ticks, TickInOrder(p), Tick(p) \/ CrashTick(p)
  PROVE  Quiet /\ TickInOrder(p)' /\ Cursors'
<1> DEFINE a == loc[p].auto
           t == loc[p].dueAt
<1>1. /\ p \in Requests /\ loc[p] \in Local /\ pc \in [Requests -> PC]
      /\ loc \in [Requests -> Local] /\ nextRunAt \in [Automations -> Time \cup {Null}]
      /\ now \in Nat /\ interval \in [Automations -> Intervals \cup {Manual}]
      /\ pc[p] \notin {"idle", "loop"} => a \in Automations
  BY Typed DEF Requests
<1>2. /\ \A d \in loc[p].due : d[1] \in Automations /\ d[2] \in Nat
      /\ t \in Nat
  BY TickLocals
<1>3. UNCHANGED <<now, rows>> => Quiet /\ Cursors'
  BY <1>1, CursorsStay DEF Quiet, rows
<1>4. CASE BeginTick(p)
  BY <1>3, <1>4, BeginTickInOrder DEF BeginTick
<1>5. CASE EndTick(p) \/ CrashTick(p)
  <2>1. pc'[p] = "idle" /\ loc'[p] = Blank /\ UNCHANGED <<now, rows>>
    BY <1>1, <1>5 DEF EndTick, CrashTick, Return, Goto
  <2> QED
    BY <1>3, <2>1 DEF TickInOrder, Blank
<1>6. CASE TakeDue(p)
  <2>1. PICK d \in loc[p].due :
          loc' = [loc EXCEPT ![p].due = @ \ {d}, ![p].auto = d[1], ![p].dueAt = d[2]]
    BY <1>6 DEF TakeDue
  <2>2. /\ pc'[p] = "recheck" /\ UNCHANGED <<now, rows>>
        /\ loc'[p].due = loc[p].due \ {d} /\ loc'[p].auto = d[1] /\ loc'[p].dueAt = d[2]
    BY <1>1, <1>6, <2>1 DEF TakeDue, Goto, Local
  <2>3. \A e \in loc[p].due : Owed(e[1], e[2])'
    BY <1>2, <1>3, <2>2, OwedStays DEF TickInOrder
  <2> QED
    BY <1>3, <2>2, <2>3 DEF TickInOrder
<1>7. CASE Recheck(p)
  <2>1. /\ pc[p] = "recheck" /\ pc'[p] \in {"definition", "loop"} /\ loc' = loc
        /\ UNCHANGED <<now, rows>>
    BY <1>1, <1>7 DEF Recheck, Goto
  <2> QED
    BY <1>3, <2>1, TickStays
<1>8. CASE ReadDefinition(p)
  <2>1. /\ pc[p] = "definition" /\ pc'[p] = "lookup" /\ UNCHANGED <<now, rows>>
        /\ loc' = [loc EXCEPT ![p].next = NextAfter(t, interval[a])]
    BY <1>1, <1>8 DEF ReadDefinition, Goto
  <2>2. /\ loc'[p].due = loc[p].due /\ loc'[p].auto = a /\ loc'[p].dueAt = t
        /\ loc'[p].next = NextAfter(t, interval[a])
    BY <1>1, <2>1 DEF Local
  <2>3. Owed(a, t) /\ interval[a] # Manual
    BY <2>1 DEF TickInOrder, Owed, Occurs
  <2>4. Owed(a, t)' /\ \A d \in loc[p].due : Owed(d[1], d[2])'
    BY <1>1, <1>2, <1>3, <2>1, <2>3, OwedStays DEF TickInOrder
  <2> QED
    BY <1>3, <2>1, <2>2, <2>3, <2>4 DEF TickInOrder, NextAfter, rows
<1>9. CASE LookupKey(p)
  <2>1. /\ pc[p] = "lookup" /\ loc' = loc /\ UNCHANGED <<now, rows>>
        /\ \/ pc'[p] = "advance" /\ KeyTaken(a, t)
           \/ pc'[p] = "guard"
    BY <1>1, <1>9 DEF LookupKey, Goto
  <2>2. KeyTaken(a, t) => KeyTaken(a, t)'
    BY <1>1, <1>2, <1>3, <2>1, OwedStays
  <2> QED
    BY <1>3, <2>1, <2>2, TickStays
<1>10. CASE CheckActiveAndDue(p)
  <2>1. /\ pc[p] = "guard" /\ loc' = loc /\ UNCHANGED <<now, rows>>
        /\ \/ pc'[p] = "advance" /\ ~ (active[a] /\ IsDue(a))
           \/ pc'[p] = "insert"
    BY <1>1, <1>10 DEF CheckActiveAndDue, Goto
  <2>2. pc'[p] = "advance" => KeyTaken(a, t)'
    BY <1>1, <1>2, <1>3, <2>1, OwedStays, OvertakenHasRun
  <2> QED
    BY <1>3, <2>1, <2>2, TickStays
<1>11. CASE InsertRun(p)
  <2>1. /\ pc[p] = "insert" /\ UNCHANGED <<now, active, nextRunAt, interval>>
        /\ runs \subseteq runs'
        /\ \/ pc'[p] = "idle" /\ loc'[p] = Blank
           \/ pc'[p] = "walk" /\ loc' = loc /\ NewRun(a, t) \in runs'
    BY <1>1, <1>11 DEF InsertRun, Goto, Return
  <2>2. Quiet /\ Cursors'
    <3>1. Quiet
      BY <1>1, <2>1 DEF Quiet
    <3> QED
      BY <2>1, <3>1, CursorsStay
  <2>3. CASE pc'[p] = "idle" /\ loc'[p] = Blank
    BY <2>2, <2>3 DEF TickInOrder, Blank
  <2>4. CASE pc'[p] = "walk" /\ loc' = loc /\ NewRun(a, t) \in runs'
    <3>1. KeyTaken(a, t)'
      BY <2>4 DEF KeyTaken, NewRun
    <3> QED
      BY <2>1, <2>2, <2>4, <3>1, TickStays
  <2> QED
    BY <2>1, <2>2, <2>3, <2>4
<1>12. CASE WalkReturns(p)
  <2>1. /\ pc[p] = "walk" /\ pc'[p] = "advance" /\ loc' = loc /\ UNCHANGED <<now, rows>>
    BY <1>1, <1>12 DEF WalkReturns, Goto
  <2>2. KeyTaken(a, t)'
    BY <1>1, <1>2, <1>3, <2>1, OwedStays DEF TickInOrder
  <2> QED
    BY <1>3, <2>1, <2>2, TickStays
<1>13. CASE AdvanceCursor(p)
  <2>1. /\ pc[p] = "advance" /\ pc'[p] = "loop" /\ loc' = loc
        /\ nextRunAt' = [nextRunAt EXCEPT ![a] = loc[p].next]
        /\ UNCHANGED <<now, active, interval, runs>>
    BY <1>1, <1>13 DEF AdvanceCursor, Goto
  <2>2. /\ a \in Automations /\ Owed(a, t) /\ KeyTaken(a, t)
        /\ loc[p].next = t + interval[a] /\ interval[a] \in Nat \ {0}
    BY <1>1, <2>1, Constants DEF TickInOrder, Owed, Occurs
  <2>3. /\ nextRunAt'[a] = t + interval[a] /\ t + interval[a] \in Nat
        /\ \A b \in Automations \ {a} : nextRunAt'[b] = nextRunAt[b]
    BY <1>1, <1>2, <2>1, <2>2
  <2>4. Quiet
    BY <1>1, <2>1, <2>3, Constants DEF Quiet
  <2>5. Occurs(a, t + interval[a]) /\ CaughtUp(a, t + interval[a])
    BY <1>2, <2>2, AdvanceCatchesUp
  <2>6. ASSUME NEW b \in Automations, nextRunAt'[b] # Null
        PROVE  Occurs(b, nextRunAt[b])' /\ CaughtUp(b, nextRunAt[b])'
    <3>1. PICK s \in Nat : s = nextRunAt'[b]
      BY <2>6, Typed DEF TypeInv, TypeOK, Time
    <3>2. Occurs(b, s) /\ CaughtUp(b, s)
      BY <2>3, <2>5, <3>1, <2>6 DEF Cursors
    <3>3. Occurs(b, s)' /\ CaughtUp(b, s)'
      BY <2>4, <3>2, OwedStays
    <3> QED
      BY <3>1, <3>3 DEF Occurs, CaughtUp
  <2>7. Cursors'
    BY <2>6 DEF Cursors
  <2> QED
    BY <2>1, <2>4, <2>7, TickStays
<1> QED
  BY <1>4, <1>5, <1>6, <1>7, <1>8, <1>9, <1>10, <1>11, <1>12, <1>13 DEF Tick

\* As long as nobody has edited anything, only time and ticks do anything.
LEMMA OnlyTicks ==
  ASSUME TypeInv, [Next]_vars, edits' = 0, edits = 0 => \A p \in Operators : pc[p] = "idle"
  PROVE  /\ edits = 0
         /\ TimePasses \/ UNCHANGED vars \/ \E p \in Ticks : Tick(p) \/ CrashTick(p)
<1>1. edits \in Nat
  BY SMTT(30), Constants DEF TypeInv, TypeOK
<1>2. edits' = edits \/ edits' = edits + 1
  BY ZenonT(60) DEF Next, TimePasses, Tick, CrashTick, Edit, BeginTick, TakeDue, EndTick, Recheck,
     ReadDefinition, LookupKey, CheckActiveAndDue, InsertRun, WalkReturns, AdvanceCursor,
     BeginSave, UpdateStatus, InsertVersion, RefreshStatus, RefreshDefinition, RefreshCursor,
     vars
<1>3. edits = 0
  BY <1>1, <1>2
<1>4. \A p \in Operators : ~ Edit(p)
  BY <1>3 DEF Edit, InsertVersion, RefreshStatus, RefreshDefinition, RefreshCursor
<1>5. ASSUME NEW p \in Operators, NEW b \in Automations
      PROVE  /\ \A every \in Intervals \cup {Manual} : ~ BeginSave(p, b, every)
             /\ \A s \in BOOLEAN : ~ UpdateStatus(p, b, s)
  BY <1>3 DEF BeginSave, UpdateStatus
<1> QED
  BY <1>3, <1>4, <1>5 DEF Next

\* The step of the invariant.
LEMMA CaughtUpStep == CatchUpInv /\ [Next]_vars => CatchUpInv'
<1> SUFFICES ASSUME CatchUpInv, [Next]_vars, edits' = 0
             PROVE  /\ \A p \in Operators : pc'[p] = "idle"
                    /\ Cursors'
                    /\ \A p \in Ticks : TickInOrder(p)'
  BY StepTyped DEF CatchUpInv, Cursors
<1>1. TypeInv /\ TypeInv'
  BY StepTyped DEF CatchUpInv
<1>2. /\ edits = 0
      /\ TimePasses \/ UNCHANGED vars \/ \E p \in Ticks : Tick(p) \/ CrashTick(p)
  BY <1>1, OnlyTicks DEF CatchUpInv
<1>3. /\ \A p \in Operators : pc[p] = "idle"
      /\ Cursors
      /\ \A p \in Ticks : TickInOrder(p)
  BY <1>2 DEF CatchUpInv, Cursors
<1>4. CASE TimePasses \/ UNCHANGED vars
  <2>1. /\ UNCHANGED <<rows, pc, loc>> /\ now' >= now
    BY <1>1, <1>4, Constants DEF TimePasses, vars, TypeInv, TypeOK
  <2>2. Quiet
    BY <2>1 DEF Quiet, rows
  <2> QED
    BY <1>1, <1>3, <2>1, <2>2, CursorsStay, TickStays DEF rows
<1>5. ASSUME NEW p \in Ticks, Tick(p) \/ CrashTick(p)
      PROVE  /\ \A q \in Operators : pc'[q] = "idle"
             /\ Cursors'
             /\ \A q \in Ticks : TickInOrder(q)'
  <2>1. Quiet /\ TickInOrder(p)' /\ Cursors'
    BY <1>1, <1>3, <1>5, TickInOrderStep
  <2>2. \A q \in Requests \ {p} : pc'[q] = pc[q] /\ loc'[q] = loc[q]
    <3>1. pc \in [Requests -> PC] /\ loc \in [Requests -> Local]
      BY <1>1 DEF TypeInv, TypeOK
    <3> QED
      BY <1>5, <3>1 DEF Tick, CrashTick, BeginTick, TakeDue, EndTick, Recheck, ReadDefinition,
         LookupKey, CheckActiveAndDue, InsertRun, WalkReturns, AdvanceCursor, Goto, Return
  <2>3. \A q \in Operators : pc'[q] = "idle"
    BY <1>3, <2>2, SchedulerAssumption DEF Requests
  <2>4. \A q \in Ticks : TickInOrder(q)'
    BY <1>1, <1>3, <2>1, <2>2, TickStays DEF Requests
  <2> QED
    BY <2>1, <2>3, <2>4
<1> QED
  BY <1>2, <1>4, <1>5

\* While nobody edits an automation, its cursor passes no occurrence that has
\* not been run, whatever ticks overlap, overtake each other or crash (the
\* cursor advances behind the run and to the next occurrence, scheduler.ts).
THEOREM NoneSkipped == Spec => []NoOccurrenceSkipped
<1>1. CatchUpInv => NoOccurrenceSkipped
  BY DEF CatchUpInv, NoOccurrenceSkipped
<1> QED
  BY <1>1, InitCaughtUp, CaughtUpStep, PTL DEF Spec

=============================================================================
