------------------------------ MODULE Accounts ------------------------------
(***************************************************************************)
(* Sign-up, sign-in with its throttle, sign-out, and the members of an     *)
(* organization: the operations that decide who may act for whom.          *)
(***************************************************************************)
EXTENDS Requests

CONSTANTS
    Emails,       \* addresses that are typed into the forms
    Companies,    \* company names, one per slug they are turned into
    MaxFailures   \* MAX_FAILURES

ASSUME AccountsAssumption == MaxFailures \in Nat \ {0}

VARIABLE streak   \* history: wrong passwords in a row, per address, since the
                  \* last right one or the end of the last lock

CustomerRole == {"customer_owner", "customer_admin", "customer_member",
                 "customer_viewer"}

WithEmail(email) == {u \in db["users"] : u.email = email}
MembersOf(org) == {m \in db["memberships"] : m.organizationId = org}
OwnersOf(org) == {m \in MembersOf(org) : m.role = "customer_owner"}
AttemptsOn(email) == ById("auth_attempts", email)

(***************************************************************************)
(* signUp                                                                  *)
(***************************************************************************)
SubmitSignUp(c) ==
    /\ \E email \in Emails, company \in Companies :
           Accept(c, "signUp.email",
                  [op |-> "signUp", email |-> email, company |-> company,
                   org |-> served + 1])
    /\ UNCHANGED <<db, streak>>

\* An address that is taken ends the request; else the user is inserted.
CheckEmail(c) ==
    /\ At(c, "signUp.email")
    /\ IF WithEmail(loc[c].email) # {}
       THEN Respond(c)
       ELSE Calling(c, <<Inserting("users",
                            [id |-> Number(c), email |-> loc[c].email])>>,
                    "signUp.slug")
    /\ UNCHANGED <<db, streak>>

NewSession(c, user) ==
    Inserting("sessions",
        [id |-> Number(c), tokenHash |-> Number(c), userId |-> user, live |-> TRUE])

\* acme, acme-2, acme-3, ...: one lookup per candidate, the first free one is taken.
ChooseSlug(c) ==
    /\ At(c, "signUp.slug")
    /\ LET i == IF "suffix" \in DOMAIN loc[c] THEN loc[c].suffix ELSE 1
           slug == <<loc[c].company, i>>
       IN  IF \E o \in db["organizations"] : o.slug = slug
           THEN Goto(c, "signUp.slug", [suffix |-> i + 1])
           ELSE Calling(c,
                  <<Inserting("organizations",
                        [id |-> Number(c), slug |-> slug, sandboxMode |-> TRUE]),
                    Inserting("memberships",
                        [id |-> Number(c), organizationId |-> Number(c),
                         userId |-> Number(c), role |-> "customer_owner"]),
                    Auditing(c, "user.sign_up", Number(c)),
                    NewSession(c, Number(c))>>, "idle")
    /\ UNCHANGED <<db, streak>>

(***************************************************************************)
(* signIn: the attempt row is read first, the password checked, and the    *)
(* row written back from the copy read.                                    *)
(***************************************************************************)
SubmitSignIn(c) ==
    /\ \E email \in Emails :
           Accept(c, "signIn.attempt",
                  [op |-> "signIn", email |-> email, org |-> None])
    /\ UNCHANGED <<db, streak>>

ReadAttempt(c) ==
    /\ At(c, "signIn.attempt")
    /\ LET attempt == AttemptsOn(loc[c].email)
       IN  IF \E a \in attempt : a.locked
           THEN Respond(c)
           ELSE Goto(c, "signIn.password", [attempt |-> attempt])
    /\ UNCHANGED <<db, streak>>

\* Mutant: a failure on record is not counted on.
FailuresAfterFirst(attempt) ==
    IF attempt = {} THEN 1 ELSE (CHOOSE a \in attempt : TRUE).failures

FailuresAfter(attempt) ==
    IF attempt = {} THEN 1 ELSE (CHOOSE a \in attempt : TRUE).failures + 1

NewAttempt(email, failures) ==
    Upserting("auth_attempts",
        [id |-> email, failures |-> failures, locked |-> failures >= MaxFailures])

WrongPassword(c) ==
    /\ At(c, "signIn.password")
    /\ Calling(c, <<NewAttempt(loc[c].email, FailuresAfter(loc[c].attempt)),
                    Auditing(c, "user.sign_in_failed", None)>>, "idle")
    /\ streak' = [streak EXCEPT ![loc[c].email] = @ + 1]
    /\ UNCHANGED db

RightPassword(c) ==
    /\ At(c, "signIn.password")
    /\ \E u \in WithEmail(loc[c].email) :
           Calling(c, (IF loc[c].attempt = {} THEN <<>>
                       ELSE <<NewAttempt(loc[c].email, 0)>>)
                      \o <<Auditing(c, "user.sign_in", u.id), NewSession(c, u.id)>>,
                   "idle")
    /\ streak' = [streak EXCEPT ![loc[c].email] = 0]
    /\ UNCHANGED db

\* LOCK_MINUTES pass.
LockExpires ==
    /\ area = "signin"
    /\ \E a \in db["auth_attempts"] :
           /\ a.locked
           /\ db' = UpdateRow("auth_attempts", a.id, [locked |-> FALSE])
           /\ streak' = [streak EXCEPT ![a.id] = 0]
    /\ UNCHANGED <<pc, loc, served, history>>

(***************************************************************************)
(* signOut: the session is marked expired, not deleted.                    *)
(***************************************************************************)
SubmitSignOut(c) ==
    /\ \E s \in db["sessions"] :
           Accept(c, "signOut.session", [op |-> "signOut", session |-> s.id, org |-> None])
    /\ UNCHANGED <<db, streak>>

DestroySession(c) ==
    /\ At(c, "signOut.session")
    /\ Calling(c, <<Updating("sessions", loc[c].session, [live |-> FALSE])>>, "idle")
    /\ UNCHANGED <<db, streak>>

(***************************************************************************)
(* inviteMemberAction                                                      *)
(***************************************************************************)
InviteMember(c) ==
    /\ \E m \in SessionContext("members.invite"), email \in Emails,
          role \in CustomerRole \ {"customer_owner"} :
           AcceptFrom(m, c, "invite.user",
                      [op |-> "invite", email |-> email, role |-> role])
    /\ UNCHANGED <<db, streak>>

FindInvited(c) ==
    /\ At(c, "invite.user")
    /\ \/ WithEmail(loc[c].email) = {} /\ Respond(c)
       \/ \E u \in WithEmail(loc[c].email) : Goto(c, "invite.member", [about |-> u.id])
    /\ UNCHANGED <<db, streak>>

\* Mutant: who is a member already is not looked up.
AddMemberAgain(c) ==
    /\ At(c, "invite.member")
    /\ Calling(c, <<Inserting("memberships",
                        [id |-> Number(c), organizationId |-> loc[c].org,
                         userId |-> loc[c].about, role |-> loc[c].role])>>, "idle")
    /\ UNCHANGED <<db, streak>>

AddMember(c) ==
    /\ At(c, "invite.member")
    /\ IF \E m \in MembersOf(loc[c].org) : m.userId = loc[c].about
       THEN Respond(c)
       ELSE Calling(c,
              <<Inserting("memberships",
                    [id |-> Number(c), organizationId |-> loc[c].org,
                     userId |-> loc[c].about, role |-> loc[c].role]),
                Auditing(c, "member.invited", loc[c].about),
                Notifying(c, loc[c].about)>>, "idle")
    /\ UNCHANGED <<db, streak>>

(***************************************************************************)
(* changeMemberRoleAction, removeMemberAction: the membership is read,     *)
(* then, for an owner who is to be one no longer, the owners are counted.  *)
(***************************************************************************)
ChangeRole(c) ==
    /\ \E m \in SessionContext("members.invite"), target \in db["memberships"],
          role \in CustomerRole :
           AcceptFrom(m, c, "member.read",
                      [op |-> "changeRole", target |-> target.id, role |-> role])
    /\ UNCHANGED <<db, streak>>

RemoveMember(c) ==
    /\ \E m \in SessionContext("members.invite"), target \in db["memberships"] :
           AcceptFrom(m, c, "member.read", [op |-> "remove", target |-> target.id])
    /\ UNCHANGED <<db, streak>>

Demotes(request, member) ==
    /\ member.role = "customer_owner"
    /\ request.op = "changeRole" => request.role # "customer_owner"

ReadMember(c) ==
    /\ At(c, "member.read")
    /\ LET found == {m \in ById("memberships", loc[c].target) :
                        /\ m.organizationId = loc[c].org
                        /\ loc[c].op = "remove" => m.userId # loc[c].user}
       IN  \/ found = {} /\ Respond(c)
           \/ \E m \in found :
                  Goto(c, IF Demotes(loc[c], m) THEN "member.owners" ELSE "member.write",
                       [about |-> m.userId])
    /\ UNCHANGED <<db, streak>>

CountOwners(c) ==
    /\ At(c, "member.owners")
    /\ IF Cardinality(OwnersOf(loc[c].org)) <= 1
       THEN Respond(c)
       ELSE Goto(c, "member.write", Nothing)
    /\ UNCHANGED <<db, streak>>

WriteMember(c) ==
    /\ At(c, "member.write")
    /\ Calling(c, IF loc[c].op = "remove"
                  THEN <<Removing("memberships", loc[c].target),
                         Auditing(c, "member.removed", loc[c].target),
                         Notifying(c, None)>>
                  ELSE <<Updating("memberships", loc[c].target, [role |-> loc[c].role]),
                         Auditing(c, "member.role_changed", loc[c].target),
                         Notifying(c, loc[c].about)>>, "idle")
    /\ UNCHANGED <<db, streak>>

\* toggleSandboxModeAction, org-settings.ts setSandboxMode
ToggleSandbox(c) ==
    /\ \E m \in SessionContext("org.update"), enabled \in BOOLEAN :
           AcceptFrom(m, c, "sandbox.write", [op |-> "sandbox", enabled |-> enabled])
    /\ UNCHANGED <<db, streak>>

SetSandboxMode(c) ==
    /\ At(c, "sandbox.write")
    /\ Calling(c, <<Updating("organizations", loc[c].org,
                             [sandboxMode |-> loc[c].enabled]),
                    Auditing(c, "sandbox.set", loc[c].org)>>, "idle")
    /\ UNCHANGED <<db, streak>>

AccountsInit == streak = [e \in Emails |-> 0]

\* Sign-ins have an area of their own, so that there can be enough of them.
AccountsSubmit(c) ==
    \/ /\ area = "signin"
       /\ SubmitSignIn(c)
    \/ /\ area = "accounts"
       /\ \/ SubmitSignUp(c) \/ SubmitSignOut(c) \/ InviteMember(c)
          \/ ChangeRole(c) \/ RemoveMember(c) \/ ToggleSandbox(c)

AccountsStep(c) ==
    \/ /\ area = "signin"
       /\ ReadAttempt(c) \/ WrongPassword(c) \/ RightPassword(c)
    \/ /\ area = "accounts"
       /\ \/ CheckEmail(c) \/ ChooseSlug(c)
          \/ DestroySession(c)
          \/ FindInvited(c) \/ AddMember(c)
          \/ ReadMember(c) \/ CountOwners(c) \/ WriteMember(c)
          \/ SetSandboxMode(c)

(***************************************************************************)
(* Properties.                                                             *)
(***************************************************************************)
\* An organization that has members has an owner among them: the check that
\* changeMemberRoleAction and removeMemberAction make (at least one owner)
\* works, short of two such requests in flight together, which may each count
\* the owner the other is about to take away.
OwnerRemains ==
    Met({"changeRole", "remove"})
        \/ \A o \in Table("organizations") : MembersOf(o.id) # {} => OwnersOf(o.id) # {}

\* A user is never on record without a complete sign-up: the organization, the
\* ownership and the audit entry follow the user, unless the request was cut
\* off, or lost its slug or address on Postgres to another sign-up in flight
\* with it.  (The user would be stranded: the address is taken, and without a
\* membership no session gets anywhere.)
SignUpIsWhole ==
    \/ "signUp" \in cuts
    \/ postgres /\ Met({"signUp"})
    \/ \A u \in Table("users") :
          \/ u.id <= 0
          \/ \E c \in Clients : loc[c].op = "signUp" /\ Number(c) = u.id
          \/ /\ ById("organizations", u.id) # {}
             /\ \E a \in ById("audit_logs", u.id) : a.action = "user.sign_up"

\* MAX_FAILURES wrong passwords in a row lock an address: no further password
\* is checked until the lock ends, unless two sign-ins were in flight together
\* (the later one writes the count back from its stale copy) or one was cut off
\* between the check and the write.
GuessesAreCounted ==
    \/ Met({"signIn"})
    \/ "signIn" \in cuts
    \/ \A e \in Emails : streak[e] <= MaxFailures

\* An address belongs to one user, and a user is a member of an organization
\* once, on either store, unless the requests that insert them were in flight
\* together on the JSON files, which have no unique keys.
NoDuplicateAccounts ==
    \/ ~postgres /\ Met({"signUp", "invite"})
    \/ /\ \A u, v \in Table("users") : u.email = v.email => u = v
       /\ \A m, k \in Table("memberships") :
              m.organizationId = k.organizationId /\ m.userId = k.userId => m = k

\* What the requests that make and change accounts leave on record: whole and single
\* ones, in organizations with an owner.
AccountsAreSound == SignUpIsWhole /\ NoDuplicateAccounts /\ OwnerRemains
=============================================================================
