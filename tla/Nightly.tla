------------------------------ MODULE Nightly -------------------------------
(***************************************************************************)
(* The nightly cycle: the scheduler's timer starts one now and then and    *)
(* does not wait for the one before, which has a whole agent run in it.    *)
(***************************************************************************)
EXTENDS Requests

CONSTANT MaxDays   \* bound: how many days pass

VARIABLE day

\* maybeRunNightlyCycles: every organization of the one query, in turn.
StartCycle(c) ==
    /\ Accept(c, "nightly.orgs", [op |-> "nightly", org |-> None])
    /\ UNCHANGED <<db, day>>

ReadOrganizations(c) ==
    /\ At(c, "nightly.orgs")
    /\ Goto(c, "nightly.next", [left |-> {o.id : o \in db["organizations"]}])
    /\ UNCHANGED <<db, day>>

\* The time is taken here and dates the brief that is inserted at the end.
NextOrganization(c) ==
    /\ At(c, "nightly.next")
    /\ IF loc[c].left = {}
       THEN Respond(c)
       ELSE LET o == CHOOSE o \in loc[c].left : \A p \in loc[c].left : o >= p
            IN  Goto(c, "nightly.brief",
                     [left |-> loc[c].left \ {o}, org |-> o, today |-> day])
    /\ UNCHANGED <<db, day>>

Briefs(org) ==
    {r \in db["reports"] : r.organizationId = org /\ r.type = "morning_brief"}

\* Mutant: a brief made at the start of the day is yesterday's.
HasBriefAfter(org, today) == \E r \in Briefs(org) : r.createdAt > today

HasBriefToday(org, today) == \E r \in Briefs(org) : r.createdAt >= today

CheckBrief(c) ==
    /\ At(c, "nightly.brief")
    /\ Goto(c, IF HasBriefToday(loc[c].org, loc[c].today) THEN "nightly.next"
                                                          ELSE "nightly.run", Nothing)
    /\ UNCHANGED <<db, day>>

(* The facts are read and the Orchestrator, if there is one, has run; a    *)
(* run that fails only changes the text.  An error of another kind ends    *)
(* this organization's turn and no other's.                                *)
InsertBrief(c) ==
    /\ At(c, "nightly.run")
    /\ \/ Goto(c, "nightly.next", Nothing)
       \/ Calling(c, <<Inserting("reports",
                         [id |-> Under(Number(c), loc[c].org), type |-> "morning_brief",
                          organizationId |-> loc[c].org, createdAt |-> loc[c].today]),
                       Inserting("notifications",
                         [id |-> Under(Number(c), loc[c].org), userId |-> None,
                          organizationId |-> loc[c].org, read |-> FALSE])>>,
                  "nightly.next")
    /\ UNCHANGED <<db, day>>

DayPasses ==
    /\ area = "nightly"
    /\ day < MaxDays
    /\ day' = day + 1
    /\ UNCHANGED requestVars

NightlyInit == day = 0

NightlySubmit(c) == area = "nightly" /\ StartCycle(c)

NightlyStep(c) ==
    /\ area = "nightly"
    /\ ReadOrganizations(c) \/ NextOrganization(c) \/ CheckBrief(c) \/ InsertBrief(c)

(***************************************************************************)
(* Properties.                                                             *)
(***************************************************************************)
\* Once per organization per day (nightly-cycle.ts): no day has two briefs for
\* one organization, also when a cycle runs into the next day, unless two cycles
\* ran at once, the second having checked before the first inserted.
OneBriefPerDay ==
    \/ Met({"nightly"})
    \/ \A a, b \in Table("reports") :
          a.organizationId = b.organizationId /\ a.createdAt = b.createdAt => a = b

\* Whoever has a brief is told so: a brief without its notification is one whose
\* cycle is about to send it, or was cut off before it could.
BriefsAreAnnounced ==
    \/ "nightly" \in cuts
    \/ \A r \in Table("reports") :
          \/ ById("notifications", r.id) # {}
          \/ \E c \in Clients : pc[c] = "calling" /\ Under(Number(c), r.organizationId) = r.id

\* What the nightly cycle owes each organization: one brief a day, and word of it.
BriefsAreDaily == OneBriefPerDay /\ BriefsAreAnnounced
=============================================================================
