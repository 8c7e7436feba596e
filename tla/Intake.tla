------------------------------- MODULE Intake -------------------------------
(***************************************************************************)
(* The public audit-request funnel with its rate limiter and its file of   *)
(* receipts, and the commercial records that operators keep about what     *)
(* comes in.                                                               *)
(***************************************************************************)
EXTENDS Requests

CONSTANTS
    Addresses,    \* client addresses, the rate limiter's keys
    Limit,        \* FUNNEL_LIMIT
    MaxBuckets,   \* MAX_BUCKETS
    MaxClock      \* bound: how many windows pass

\* One request is always let through, and there is room for one bucket.  A file cut
\* short is no file of receipts.
ASSUME IntakeAssumption ==
    /\ Limit \in Nat \ {0} /\ MaxBuckets \in Nat \ {0} /\ MaxClock \in Nat
    /\ \A a \in DOMAIN MaxRequests : \A ids \in SUBSET (1 .. MaxRequests[a]) : ids # None

VARIABLES
    buckets,    \* rate-limit.ts buckets: this process's windows, oldest first
    receipts,   \* .data/audit-requests.json: ids of the receipts in it, or Torn
    clock,      \* time, in windows
    allowed,    \* history: <<address, window>> -> requests let through
    evicted,    \* history: addresses whose live window was dropped from memory
    joint,      \* history: requests in flight together with another
    accepted    \* history: requests answered with 201 or 202

intakeVars == <<buckets, receipts, clock, allowed, evicted, joint, accepted>>
limiterHistory == <<clock, joint>>

\* Mutant: the window ends one early.
LiveTooShort(bucket, now) == bucket.resetAt > now + 1

Live(bucket, now) == bucket.resetAt > now

(***************************************************************************)
(* POST /api/audit-requests.  checkRateLimitAuto takes the time when it is *)
(* called and picks the backend by the store that is live.                 *)
(***************************************************************************)
PostAuditRequest(c) ==
    /\ \E a \in Addresses :
           Accept(c, "funnel.limit", [op |-> "funnel", address |-> a, now |-> clock,
                                      org |-> None])
    /\ joint' = joint \cup
           (IF Idle THEN {} ELSE {served + 1} \cup
              {Number(d) : d \in {d \in Clients : InFlight(d)}})
    /\ UNCHANGED <<db, buckets, receipts, clock, allowed, evicted, accepted>>

Refuse(c) == Respond(c) /\ UNCHANGED <<buckets, evicted>>

(* checkRateLimit: one synchronous call on this process's memory, so the   *)
(* time is that of the check.                                              *)
Position(bs, key) == {i \in DOMAIN bs : bs[i].key = key}
Without(bs, i) == SubSeq(bs, 1, i - 1) \o SubSeq(bs, i + 1, Len(bs))

\* A full map loses its first expired bucket, or its oldest when none is.
Victim(bs, now) ==
    LET expired == {i \in DOMAIN bs : ~Live(bs[i], now)}
    IN  IF expired = {} THEN 1 ELSE CHOOSE i \in expired : \A j \in expired : i <= j

Room(bs, now) == IF Len(bs) >= MaxBuckets THEN Without(bs, Victim(bs, now)) ELSE bs

Put(bs, bucket) ==
    IF Position(bs, bucket.key) = {}
    THEN Append(bs, bucket)
    ELSE [i \in DOMAIN bs |-> IF bs[i].key = bucket.key THEN bucket ELSE bs[i]]

CheckMemory(c) ==
    /\ At(c, "funnel.limit") /\ ~postgres
    /\ LET now == clock
           live == {i \in Position(buckets, loc[c].address) : Live(buckets[i], now)}
           fresh == [key |-> loc[c].address, count |-> 1, resetAt |-> now + 1]
           victim == buckets[Victim(buckets, now)]
       IN  \/ \E i \in live : buckets[i].count >= Limit /\ Refuse(c)
           \/ \E i \in live :
                 /\ buckets[i].count < Limit
                 /\ buckets' = [buckets EXCEPT ![i].count = @ + 1]
                 /\ Goto(c, "funnel.org", [now |-> now])
                 /\ UNCHANGED evicted
           \/ /\ live = {}
              /\ buckets' = Put(Room(buckets, now), fresh)
              /\ evicted' = IF Len(buckets) >= MaxBuckets /\ Live(victim, now)
                            THEN evicted \cup {victim.key} ELSE evicted
              /\ Goto(c, "funnel.org", [now |-> now])
    /\ UNCHANGED <<db, receipts, allowed, accepted, limiterHistory>>

(* checkRateLimitShared: the row is read, and written back from the copy.  *)
CheckShared(c) ==
    /\ At(c, "funnel.limit") /\ postgres
    /\ LET now == loc[c].now
           live == {b \in ById("rate_limit_buckets", loc[c].address) : Live(b, now)}
           row(count, resetAt) == [id |-> loc[c].address, count |-> count,
                                   resetAt |-> resetAt]
           write(bucket) == Calling(c, <<Upserting("rate_limit_buckets", bucket)>>,
                                    "funnel.org")
       IN  \/ \E b \in live : b.count >= Limit /\ Respond(c)
           \/ \E b \in live :
                 b.count < Limit /\ write(row(b.count + 1, b.resetAt))
           \/ live = {} /\ write(row(1, now + 1))
    /\ UNCHANGED <<db, intakeVars>>

(* createAuditFromFunnel: into the operator organization, when there is    *)
(* one; a body that does not parse ends the request before it.             *)
AutomspOrg == {o \in db["organizations"] : o.kind = "automsp"}

RecordRequest(c) ==
    /\ At(c, "funnel.org")
    /\ \/ Respond(c)
       \/ AutomspOrg = {} /\ Goto(c, "funnel.readReceipts", Nothing)
       \/ \E o \in AutomspOrg :
              Goto(c, "calling",
                [org |-> o.id, next |-> "funnel.readReceipts", calls |->
                 <<Inserting("audits", [id |-> Number(c), organizationId |-> o.id,
                                        status |-> "received"]),
                   Inserting("opportunities", [id |-> Number(c),
                                        organizationId |-> o.id, stage |-> "new"])>>])
    /\ allowed' = [allowed EXCEPT ![<<loc[c].address, loc[c].now>>] = @ + 1]
    /\ UNCHANGED <<db, buckets, receipts, evicted, accepted, limiterHistory>>

(* createAuditRequest: the file is read, then written in place, which      *)
(* truncates it first.  A file that does not parse counts as empty.        *)
\* Mutant: the file is written with the new record alone.
ReadNoReceipts(c) ==
    /\ At(c, "funnel.readReceipts")
    /\ Goto(c, "funnel.truncate", [records |-> {Number(c)}])
    /\ UNCHANGED <<db, intakeVars>>

ReadReceipts(c) ==
    /\ At(c, "funnel.readReceipts")
    /\ Goto(c, "funnel.truncate",
            [records |-> (IF receipts = Torn THEN {} ELSE receipts) \cup {Number(c)}])
    /\ UNCHANGED <<db, intakeVars>>

TruncateReceipts(c) ==
    /\ At(c, "funnel.truncate")
    /\ receipts' = Torn
    /\ Goto(c, "funnel.fill", Nothing)
    /\ UNCHANGED <<db, buckets, allowed, evicted, accepted, limiterHistory>>

WriteReceipts(c) ==
    /\ At(c, "funnel.fill")
    /\ receipts' = loc[c].records
    /\ accepted' = accepted \cup {Number(c)}
    /\ Respond(c)
    /\ UNCHANGED <<db, buckets, allowed, evicted, limiterHistory>>

WindowPasses ==
    /\ area = "funnel"
    /\ clock < MaxClock
    /\ clock' = clock + 1
    /\ UNCHANGED <<postgres, area, db, pc, loc, served, met, cuts,
                   buckets, receipts, allowed, evicted, joint, accepted>>

(***************************************************************************)
(* The operators' records (commercial/actions.ts).  Updates are written to *)
(* the audit log whether or not the record was found.                      *)
(***************************************************************************)
Stage == {"new", "won"}
AuditStatus == {"received", "completed"}

Found(t, c) == {r \in ById(t, loc[c].target) : r.organizationId = loc[c].org}

CreateRecord(c) ==
    /\ \E m \in SessionContext("commercial.manage"),
          t \in {"opportunities", "clients", "projects"} :
           AcceptFrom(m, c, "commerce.create", [op |-> "create", table |-> t])
    /\ UNCHANGED <<db, intakeVars>>

NewClient(c) == [id |-> Number(c), organizationId |-> loc[c].org]
NewOpportunity(c) == NewClient(c) @@ [stage |-> "new"]
NewProject(c, client) == NewClient(c) @@ [clientId |-> client]

InsertRecord(c) ==
    /\ At(c, "commerce.create")
    /\ \E client \in {None} \cup {r.id : r \in db["clients"]} :
          LET row == CASE loc[c].table = "opportunities" -> NewOpportunity(c)
                       [] loc[c].table = "clients" -> NewClient(c)
                       [] OTHER -> NewProject(c, client)
          IN  Calling(c, <<Inserting(loc[c].table, row),
                           Auditing(c, "commercial.created", Number(c))>>, "idle")
    /\ UNCHANGED <<db, intakeVars>>

MoveRecord(c) ==
    /\ \E m \in SessionContext("commercial.manage") :
          \/ \E r \in db["opportunities"], s \in Stage :
                 AcceptFrom(m, c, "commerce.move",
                     [op |-> "move", table |-> "opportunities", target |-> r.id,
                      patch |-> [stage |-> s]])
          \/ \E r \in db["audits"], s \in AuditStatus :
                 AcceptFrom(m, c, "commerce.move",
                     [op |-> "move", table |-> "audits", target |-> r.id,
                      patch |-> [status |-> s]])
    /\ UNCHANGED <<db, intakeVars>>

UpdateRecord(c) ==
    /\ At(c, "commerce.move")
    /\ LET logged == <<Auditing(c, "commercial.moved", loc[c].target)>>
       IN  Calling(c, IF Found(loc[c].table, c) = {} THEN logged
                      ELSE <<Updating(loc[c].table, loc[c].target, loc[c].patch)>>
                           \o logged, "idle")
    /\ UNCHANGED <<db, intakeVars>>

IntakeInit ==
    /\ buckets = <<>>
    /\ receipts = {}
    /\ clock = 0
    /\ allowed = [w \in Addresses \X (0 .. MaxClock) |-> 0]
    /\ evicted = {}
    /\ joint = {}
    /\ accepted = {}

IntakeSubmit(c) ==
    \/ area = "funnel" /\ PostAuditRequest(c)
    \/ area = "commerce" /\ (CreateRecord(c) \/ MoveRecord(c))

IntakeStep(c) ==
    \/ /\ area = "funnel"
       /\ \/ CheckMemory(c) \/ CheckShared(c) \/ RecordRequest(c)
          \/ ReadReceipts(c) \/ TruncateReceipts(c) \/ WriteReceipts(c)
    \/ area = "commerce" /\ (InsertRecord(c) \/ UpdateRecord(c))

(***************************************************************************)
(* Properties.                                                             *)
(***************************************************************************)
\* What the limiter's header promises: per window and address no more than the
\* limit gets through in memory, unless a full map dropped the address's live
\* window; and over the shared store at most one less than the number of requests
\* that were in flight together on top of the limit.
WithinLimit ==
    \A w \in DOMAIN allowed :
        IF postgres
        THEN allowed[w] <= Limit + (IF joint = {} THEN 0 ELSE Cardinality(joint) - 1)
        ELSE w[1] \notin evicted => allowed[w] <= Limit

\* An accepted request is never silently dropped (route.ts): its receipt stays
\* in the file, the only record of it where no operator organization exists,
\* unless another request was in flight with it or one was cut off while the
\* file was truncated.
AcceptedIsKept ==
    \/ Met({"funnel"})
    \/ "funnel" \in cuts
    \/ \A n \in accepted :
          \/ ById("audits", n) # {} /\ ById("opportunities", n) # {}
          \/ receipts # Torn /\ n \in receipts
          \/ \E c \in Clients : pc[c] = "funnel.fill" /\ n \in loc[c].records
=============================================================================
