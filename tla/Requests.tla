------------------------------ MODULE Requests ------------------------------
(***************************************************************************)
(* What the server actions and route handlers of the platform have in      *)
(* common: requests in flight side by side, each a sequence of store calls *)
(* with an await between any two of them, over one store that is either    *)
(* the JSON files or Postgres.                                             *)
(*                                                                         *)
(* The store maps each collection to its set of rows.  One call is one     *)
(* step here; Stores.tla looks inside the calls.  A row a request inserts  *)
(* has an id made from the request's number, so ids say who wrote the row; *)
(* rows of the initial state have ids up to 0.                             *)
(***************************************************************************)
EXTENDS Integers, FiniteSets, Sequences, TLC, Schema, Permissions

CONSTANTS
    Clients,      \* slots for requests in flight together
    MaxRequests,  \* bound: how many requests are accepted, for each area
    MaxCuts,      \* bound: how many requests are cut off half way
    None

ASSUME RequestsAssumption ==
    /\ IsFiniteSet(Clients)
    /\ \A a \in DOMAIN MaxRequests : MaxRequests[a] \in Nat
    /\ MaxCuts \in Nat
    /\ None \notin Int

VARIABLES
    postgres,  \* is DATABASE_URL set?  Chosen once, when the process starts
    area,      \* the part of the application the requests of this run use
    db,        \* [collection -> set of rows]
    pc,        \* where each request is
    loc,       \* what each request holds in local variables
    served,    \* how many requests have been accepted
    met,       \* history: {op1, op2} for requests that were in flight together
    cuts       \* history: the operations of requests cut off half way

requestVars == <<postgres, area, db, pc, loc, served, met, cuts>>
history == <<postgres, area, met, cuts>>

Torn == None                 \* a file that a write has truncated and not yet filled
Empty == [op |-> "none"]
Nothing == [calls |-> <<>>]   \* no new locals

\* A record with the fields of `patch` written over it.
Over(patch, record) ==
    [f \in DOMAIN patch \cup DOMAIN record |->
        IF f \in DOMAIN patch THEN patch[f] ELSE record[f]]

InFlight(c) == pc[c] # "idle"
Idle == \A c \in Clients : ~InFlight(c)

(***************************************************************************)
(* The store.                                                              *)
(***************************************************************************)
\* An area whose requests do not use a collection has none of that name.
Table(t) == IF t \in DOMAIN db THEN db[t] ELSE {}

\* An id made of two: row n below row `parent`, n one of a few.
Under(parent, n) == 100 * parent + n

ById(t, id) == {r \in Table(t) : r.id = id}

RefersTo(t, row, ref) ==
    /\ ref.child = t
    /\ ref.field \in DOMAIN row
    /\ ref.parent \in DOMAIN db

\* Mutant: columns without a relation.
RefersUnchecked(t, row) == FALSE

\* Postgres refuses a reference to nothing and a second row under a unique key.
\* (No request updates a field of a key.)
RefersToNothing(t, row) ==
    \E ref \in References :
        /\ RefersTo(t, row, ref)
        /\ row[ref.field] # None
        /\ ById(ref.parent, row[ref.field]) = {}

Duplicates(t, row) ==
    \E r \in db[t] : \E key \in UniqueKeys(t) \cup {{"id"}} :
        \A f \in key : r[f] = row[f]

Refused(k) ==
    /\ postgres
    /\ \/ k.call = "insert" /\ (Duplicates(k.table, k.row) \/ RefersToNothing(k.table, k.row))
       \/ k.call \in {"update", "change"} /\ RefersToNothing(k.table, k.row)

\* An update whose caller looks at the result, and stops when there was no row.
FindsNothing(k) == k.call = "change" /\ ById(k.table, k.id) = {}

InsertRow(t, row) == [db EXCEPT ![t] = @ \cup {row}]

UpdateRow(t, id, patch) ==
    [db EXCEPT ![t] = {IF r.id = id THEN Over(patch, r) ELSE r : r \in @}]

\* The rows that go when the rows in gone do: <<collection, row>> pairs.
Dependents(gone, onDelete) ==
    UNION {{<<t, r>> : r \in {s \in db[t] :
                \E ref \in References :
                    /\ RefersTo(t, s, ref)
                    /\ ref.onDelete = onDelete
                    /\ \E g \in gone : g[1] = ref.parent /\ g[2].id = s[ref.field]}}
           : t \in DOMAIN db}

\* The longest chain of cascades under a row the application removes has two
\* links (source, document, chunk).
Removed(t, id) ==
    LET rows == {<<t, r>> : r \in ById(t, id)}
        children == Dependents(rows, "Cascade")
    IN  IF postgres
        THEN rows \cup children \cup Dependents(children, "Cascade")
        ELSE rows

Cleared(row, t, gone) ==
    [f \in DOMAIN row |->
        IF \E ref \in References :
               /\ RefersTo(t, row, ref)
               /\ ref.field = f
               /\ \E g \in gone : g[1] = ref.parent /\ g[2].id = row[f]
        THEN None ELSE row[f]]

RemoveRow(t, id) ==
    LET gone == Removed(t, id)
    IN  [u \in DOMAIN db |->
            {IF postgres THEN Cleared(r, u, gone) ELSE r :
                r \in {s \in db[u] : <<u, s>> \notin gone}}]

UpsertRow(t, row) ==
    [db EXCEPT ![t] = {r \in @ : r.id # row.id} \cup {row}]

(***************************************************************************)
(* Requests.                                                               *)
(***************************************************************************)
Accept(c, where, locals) ==
    /\ pc[c] = "idle"
    /\ served < MaxRequests[area]
    /\ served' = served + 1
    /\ pc' = [pc EXCEPT ![c] = where]
    /\ loc' = [loc EXCEPT ![c] = Over(locals, [n |-> served + 1])]
    /\ met' = met \cup {{locals.op, loc[d].op} : d \in {d \in Clients : InFlight(d)}}
    /\ UNCHANGED <<postgres, area, cuts>>

At(c, where) == pc[c] = where /\ UNCHANGED <<served, history>>

Goto(c, where, locals) ==
    /\ pc' = [pc EXCEPT ![c] = where]
    /\ loc' = [loc EXCEPT ![c] = Over(locals, @)]

Respond(c) ==
    /\ pc' = [pc EXCEPT ![c] = "idle"]
    /\ loc' = [loc EXCEPT ![c] = Empty]

(***************************************************************************)
(* Store calls that a request makes one after the other without looking at *)
(* anything in between.                                                    *)
(***************************************************************************)
Inserting(t, row) == [call |-> "insert", table |-> t, row |-> row]
Updating(t, id, patch) == [call |-> "update", table |-> t, id |-> id, row |-> patch]
Changing(t, id, patch) == [call |-> "change", table |-> t, id |-> id, row |-> patch]
Upserting(t, row) == [call |-> "upsert", table |-> t, row |-> row]
Removing(t, id) == [call |-> "remove", table |-> t, id |-> id]

Number(c) == loc[c].n

\* audit.ts writeAuditLog, notifications.ts notify
Auditing(c, action, about) ==
    Inserting("audit_logs",
        [id |-> Number(c), organizationId |-> loc[c].org, action |-> action,
         about |-> about])

Notifying(c, user) ==
    Inserting("notifications",
        [id |-> Number(c), organizationId |-> loc[c].org, userId |-> user,
         read |-> FALSE])

\* Make these calls, then go on at `next` (or answer, when it is "idle").
Calling(c, calls, next) ==
    IF calls = <<>>
    THEN IF next = "idle" THEN Respond(c) ELSE Goto(c, next, Nothing)
    ELSE Goto(c, "calling", [calls |-> calls, next |-> next])

StoreCall(c) ==
    /\ At(c, "calling")
    /\ LET k == Head(loc[c].calls)
           rest == Tail(loc[c].calls)
       IN  IF Refused(k) \/ FindsNothing(k)
           THEN Respond(c) /\ UNCHANGED db
           ELSE /\ db' = CASE k.call = "insert" -> InsertRow(k.table, k.row)
                           [] k.call \in {"update", "change"} ->
                              UpdateRow(k.table, k.id, k.row)
                           [] k.call = "upsert" -> UpsertRow(k.table, k.row)
                           [] OTHER -> RemoveRow(k.table, k.id)
                /\ CASE rest # <<>> -> Goto(c, "calling", [calls |-> rest])
                     [] rest = <<>> /\ loc[c].next = "idle" -> Respond(c)
                     [] OTHER -> Goto(c, loc[c].next, Nothing)

(***************************************************************************)
(* The process ends, the platform stops the function, or a store call is   *)
(* rejected: the request does nothing more and leaves what it has written. *)
(***************************************************************************)
CutOff(c) ==
    /\ InFlight(c)
    /\ Cardinality(cuts) < MaxCuts
    /\ cuts' = cuts \cup {loc[c].op}
    /\ Respond(c)
    /\ UNCHANGED <<postgres, area, db, served, met>>

(***************************************************************************)
(* Who may call: a member with a live session whose role has the           *)
(* permission.  getSessionContext takes the user's first membership, in    *)
(* the order of the file, or in whatever order Postgres returns them.      *)
(***************************************************************************)
SignedIn(m) ==
    /\ \E s \in db["sessions"] : s.userId = m.userId /\ s.live
    /\ postgres \/ \A k \in db["memberships"] : k.userId = m.userId => k.id >= m.id

SessionContext(permission) ==
    {m \in db["memberships"] : SignedIn(m) /\ HasPermission(m.role, permission)}

AcceptFrom(m, c, where, locals) ==
    Accept(c, where, Over(locals, [org |-> m.organizationId, user |-> m.userId]))

RequestsInit(a, rows) ==
    /\ area = a
    /\ db = rows
    /\ postgres \in BOOLEAN
    /\ pc = [c \in Clients |-> "idle"]
    /\ loc = [c \in Clients |-> Empty]
    /\ served = 0
    /\ met = {}
    /\ cuts = {}

\* The operations of which some two were in flight together.
Met(ops) == \E pair \in met : pair \subseteq ops
MetAny(op) == \E pair \in met : op \in pair
=============================================================================
