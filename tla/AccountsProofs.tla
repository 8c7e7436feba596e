--------------------------- MODULE AccountsProofs ---------------------------
(***************************************************************************)
(* What sign-ups, invitations and changes of roles keep of the people on   *)
(* record, for any number of requests in flight, on either store, wherever *)
(* each of them is cut off: a sign-up is whole, an address belongs to one  *)
(* user and a user to an organization once, and an organization that has   *)
(* members keeps an owner.                                                 *)
(***************************************************************************)
EXTENDS PlatformProofs

-----------------------------------------------------------------------------
(***************************************************************************)
(* Accounts: the inductive invariant.                                      *)
(***************************************************************************)
AccountsPoints == {"idle", "calling", "signUp.email", "signUp.slug", "signOut.session",
                   "invite.user", "invite.member", "member.read", "member.owners",
                   "member.write", "sandbox.write"}

PeopleTables == {"users", "organizations", "memberships", "audit_logs"}
Joining == {"signUp", "invite"}
Reassigning == {"changeRole", "remove"}

NoneOf(t, n) == \A r \in db[t] : r.id # n
Has(t, n) == \E r \in db[t] : r.id = n
HasWord(n) == \E a \in db["audit_logs"] : a.id = n /\ a.action = "user.sign_up"
HasOwner(org) ==
  \E k \in db["memberships"] : k.organizationId = org /\ k.role = "customer_owner"

\* The calls of a sign-up, of an invitation, and of a change.
UserCall(c) == Inserting("users", [id |-> Number(c), email |-> loc[c].email])
OrgCall(c, slug) ==
  Inserting("organizations", [id |-> Number(c), slug |-> slug, sandboxMode |-> TRUE])
OwnerCall(c) ==
  Inserting("memberships", [id |-> Number(c), organizationId |-> Number(c),
                            userId |-> Number(c), role |-> "customer_owner"])
WordCall(c) == Auditing(c, "user.sign_up", Number(c))
SessionCall(c) == NewSession(c, Number(c))
JoinCall(c) ==
  Inserting("memberships", [id |-> Number(c), organizationId |-> loc[c].org,
                            userId |-> loc[c].about, role |-> loc[c].role])
ChangeCall(c) ==
  IF loc[c].op = "remove"
  THEN Removing("memberships", loc[c].target)
  ELSE Updating("memberships", loc[c].target, [role |-> loc[c].role])

\* Calls that have nothing to do with who may act for whom.
Minor(n, k) ==
  \/ k.table \in {"sessions", "notifications"} /\ k.call \in {"insert", "update"}
  \/ /\ k.table = "audit_logs" /\ k.call = "insert"
     /\ IsRecord(k.row) /\ "id" \in DOMAIN k.row /\ k.row.id = n
  \/ /\ k.table = "organizations" /\ k.call = "update"
     /\ DOMAIN k.row \cap {"id", "slug"} = {}

\* Has exactly these calls to make; has these last calls to make, of which only the
\* first matters, or none.
ToMake(c, calls, next) ==
  pc[c] = "calling" /\ loc[c].calls = calls /\ loc[c].next = next
ToMakeFirst(c, k) ==
  /\ pc[c] = "calling" /\ loc[c].next = "idle" /\ loc[c].calls[1] = k
  /\ \A i \in DOMAIN loc[c].calls : i # 1 => Minor(Number(c), loc[c].calls[i])
MinorLeft(c) ==
  /\ pc[c] = "calling" /\ loc[c].next = "idle"
  /\ \A i \in DOMAIN loc[c].calls : Minor(Number(c), loc[c].calls[i])

\* No one is a member of organization n, and nobody is about to be.
NoMembers(n) ==
  /\ \A m \in db["memberships"] : m.id # n /\ m.organizationId # n
  /\ \A d \in Clients : InFlight(d) /\ loc[d].op = "invite" => loc[d].org # n
NoOrg(n) == NoneOf("organizations", n) /\ NoneOf("audit_logs", n) /\ NoMembers(n)
NoOwner(n) == Has("organizations", n) /\ NoneOf("audit_logs", n) /\ NoMembers(n)

AddressFree(email) ==
  ~postgres /\ ~Met(Joining) => \A u \in db["users"] : u.email # email
SlugFree(slug) ==
  postgres /\ ~Met({"signUp"}) => \A o \in db["organizations"] : o.slug # slug
NotMember(org, user) ==
  ~postgres /\ ~Met(Joining) =>
     \A m \in db["memberships"] : m.organizationId # org \/ m.userId # user

\* Where a sign-up is, and what is on record of it by then.
Unknown(c) ==
  /\ pc[c] = "signUp.email"
  /\ NoneOf("users", Number(c)) /\ NoOrg(Number(c))
UserDue(c) ==
  /\ ToMake(c, <<UserCall(c)>>, "signUp.slug")
  /\ NoneOf("users", Number(c)) /\ NoOrg(Number(c)) /\ AddressFree(loc[c].email)
SlugDue(c) ==
  /\ pc[c] = "signUp.slug"
  /\ Has("users", Number(c)) /\ NoOrg(Number(c))
OrgDue(c) ==
  /\ \E slug : /\ SlugFree(slug)
               /\ ToMake(c, <<OrgCall(c, slug), OwnerCall(c), WordCall(c), SessionCall(c)>>,
                         "idle")
  /\ Has("users", Number(c)) /\ NoOrg(Number(c))
OwnerDue(c) ==
  /\ ToMake(c, <<OwnerCall(c), WordCall(c), SessionCall(c)>>, "idle")
  /\ Has("users", Number(c)) /\ NoOwner(Number(c))
WordDue(c) ==
  /\ ToMake(c, <<WordCall(c), SessionCall(c)>>, "idle")
  /\ Has("organizations", Number(c)) /\ NoneOf("audit_logs", Number(c))
SessionDue(c) ==
  /\ ToMake(c, <<SessionCall(c)>>, "idle")
  /\ Has("organizations", Number(c)) /\ HasWord(Number(c))

SigningUp(c) ==
  /\ loc[c].org = Number(c) /\ {"email", "company"} \subseteq DOMAIN loc[c]
  /\ \/ Unknown(c) \/ UserDue(c) \/ SlugDue(c) \/ OrgDue(c)
     \/ OwnerDue(c) \/ WordDue(c) \/ SessionDue(c)

Inviting(c) ==
  /\ {"email", "role"} \subseteq DOMAIN loc[c]
  /\ loc[c].org \in Int /\ loc[c].org <= served
  /\ \/ pc[c] \in {"invite.user", "invite.member"} /\ NoneOf("memberships", Number(c))
     \/ /\ ToMakeFirst(c, JoinCall(c))
        /\ NoneOf("memberships", Number(c)) /\ NotMember(loc[c].org, loc[c].about)
     \/ MinorLeft(c)
  /\ pc[c] = "invite.member" => "about" \in DOMAIN loc[c]

\* The target is of the organization; another owner stays when it is one no longer.
InOrg(c) ==
  ~Met(Reassigning) =>
     /\ Has("memberships", loc[c].target)
     /\ \A m \in db["memberships"] :
           m.id = loc[c].target => m.organizationId = loc[c].org
Safe(c) ==
  ~Met(Reassigning) =>
     \A m \in db["memberships"] : m.id = loc[c].target /\ Demotes(loc[c], m) =>
        \E k \in db["memberships"] : /\ k.organizationId = loc[c].org
                                     /\ k.role = "customer_owner"
                                     /\ k.id # loc[c].target

ChangingRole(c) ==
  /\ {"target", "user"} \subseteq DOMAIN loc[c]
  /\ loc[c].op = "changeRole" => "role" \in DOMAIN loc[c]
  /\ \/ pc[c] = "member.read"
     \/ pc[c] = "member.owners" /\ InOrg(c)
     \/ pc[c] = "member.write" /\ InOrg(c) /\ Safe(c)
     \/ ToMakeFirst(c, ChangeCall(c)) /\ InOrg(c) /\ Safe(c)
     \/ MinorLeft(c)

AccountRequest(c) ==
  /\ {"op", "n", "org"} \subseteq DOMAIN loc[c] /\ Number(c) \in 1 .. served
  /\ pc[c] = "calling" => {"calls", "next"} \subseteq DOMAIN loc[c]
  /\ \/ loc[c].op = "signUp" /\ SigningUp(c)
     \/ loc[c].op = "invite" /\ Inviting(c)
     \/ loc[c].op \in Reassigning /\ ChangingRole(c)
     \/ /\ loc[c].op \in {"signOut", "sandbox"}
        /\ pc[c] \in {"signOut.session", "sandbox.write"} \/ MinorLeft(c)

AccountRequests ==
  /\ pc \in [Clients -> AccountsPoints] /\ DOMAIN loc = Clients /\ served \in Nat
  /\ \A c \in Clients : InFlight(c) => AccountRequest(c)
  /\ \A c, d \in Clients : InFlight(c) /\ InFlight(d) /\ c # d =>
        {loc[c].op, loc[d].op} \in met /\ Number(c) # Number(d)

PeopleShape ==
  /\ PeopleTables \subseteq DOMAIN db
  /\ \A t \in PeopleTables : \A r \in db[t] :
        IsRecord(r) /\ "id" \in DOMAIN r /\ r.id \in Int /\ r.id <= served
  /\ \A r \in db["organizations"] : "slug" \in DOMAIN r
  /\ \A r \in db["memberships"] :
        /\ {"organizationId", "userId", "role"} \subseteq DOMAIN r
        /\ r.organizationId \in Int /\ r.organizationId <= served
  /\ \A m, k \in db["memberships"] : m.id = k.id => m = k

OneOfEach ==
  /\ \A u, v \in db["users"] : u.email = v.email => u = v
  /\ \A m, k \in db["memberships"] :
        m.organizationId = k.organizationId /\ m.userId = k.userId => m = k

OwnersStay ==
  ~Met(Reassigning) =>
     /\ \A m \in db["memberships"] : HasOwner(m.organizationId)
     /\ \A c \in Clients : InFlight(c) /\ loc[c].op = "invite" => HasOwner(loc[c].org)

WholeSignUps ==
  \/ "signUp" \in cuts
  \/ postgres /\ Met({"signUp"})
  \/ \A u \in db["users"] :
        \/ u.id <= 0
        \/ \E c \in Clients : InFlight(c) /\ loc[c].op = "signUp" /\ Number(c) = u.id
        \/ Has("organizations", u.id) /\ HasWord(u.id)

People ==
  /\ PeopleShape
  /\ postgres \/ ~Met(Joining) => OneOfEach
  /\ OwnersStay
  /\ WholeSignUps

\* Outside the area nobody comes, goes or changes.
AccountsInv ==
  /\ {"organizations", "users", "memberships"} \subseteq DOMAIN db
  /\ area # "accounts" =>
        /\ \A u \in db["users"] : u.id <= 0
        /\ OneOfEach /\ \A m \in db["memberships"] : HasOwner(m.organizationId)
  /\ area = "accounts" => AccountRequests /\ People

-----------------------------------------------------------------------------
(***************************************************************************)
(* Accounts: what happens in the area.                                     *)
(***************************************************************************)
LEMMA AccountsFrame ==
  ASSUME [Next]_vars, area = "accounts"
  PROVE  \/ UNCHANGED requestVars
         \/ \E c \in Clients :
               AccountsSubmit(c) \/ AccountsStep(c) \/ StoreCall(c) \/ CutOff(c)
<1>1. CASE UNCHANGED vars
  BY <1>1 DEF vars
<1>2. CASE Environment
  BY <1>2 DEF Environment, LockExpires, WindowPasses, DayPasses, Restart
<1>3. ASSUME NEW c \in Clients, Submit(c) PROVE AccountsSubmit(c)
  BY <1>3 DEF Submit, IntakeSubmit, KnowledgeSubmit, AgentsSubmit, EvalsSubmit,
      NightlySubmit, WorkspaceSubmit, SystemsSubmit, Calls
<1>4. ASSUME NEW c \in Clients, Step(c) PROVE AccountsStep(c) \/ StoreCall(c) \/ CutOff(c)
  BY <1>4 DEF Step, IntakeStep, KnowledgeStep, AgentsStep, EvalsStep, NightlyStep,
      WorkspaceStep, SystemsStep, StoresStep
<1> QED
  BY <1>1, <1>2, <1>3, <1>4 DEF Next

\* What a call may do to the people on record, by the request that makes it.
UsersMove(c) ==
  /\ db["users"] \subseteq db'["users"]
  /\ \A u \in db'["users"] : u \in db["users"] \/ (u.id = Number(c) /\ loc[c].op = "signUp")
OrgsMove(c) ==
  /\ \A o \in db["organizations"] : \E p \in db'["organizations"] : p.id = o.id
  /\ \A p \in db'["organizations"] :
        \/ p.id = Number(c) /\ loc[c].op = "signUp"
        \/ \E o \in db["organizations"] : p.id = o.id /\ p.slug = o.slug
WordsMove(c) ==
  /\ db["audit_logs"] \subseteq db'["audit_logs"]
  /\ \A a \in db'["audit_logs"] : a \in db["audit_logs"] \/ a.id = Number(c)
MembersMove(c) ==
  \/ db'["memberships"] = db["memberships"]
  \/ /\ loc[c].op \in Joining /\ NoneOf("memberships", Number(c))
     /\ db["memberships"] \subseteq db'["memberships"]
     /\ \A m \in db'["memberships"] : \/ m \in db["memberships"]
                                      \/ m.id = Number(c) /\ m.organizationId = loc[c].org
  \/ /\ loc[c].op \in Reassigning
     /\ \A m \in db'["memberships"] : \E k \in db["memberships"] :
           /\ m.id = k.id /\ m.organizationId = k.organizationId /\ m.userId = k.userId
PeopleMove(c) == UsersMove(c) /\ OrgsMove(c) /\ WordsMove(c) /\ MembersMove(c)

\* What the other requests know stays true: what they have not inserted is still not
\* there, what they have is; and what they looked up is still so, unless they met.
LEMMA OthersStay ==
  ASSUME AccountRequests, NEW c \in Clients, NEW d \in Clients \ {c}, InFlight(d),
         db' = db \/ (InFlight(c) /\ PeopleMove(c)),
         UNCHANGED postgres, met \subseteq met', served' \in Nat, served <= served',
         pc'[d] = pc[d], \A e \in Clients \ {c} : loc'[e] = loc[e],
         \A e \in Clients \ {c} : InFlight(e)' => InFlight(e),
         InFlight(c)' /\ loc'[c].op = "invite" =>
            \/ InFlight(c) /\ loc[c].op = "invite" /\ loc'[c].org = loc[c].org
            \/ \E m \in db["memberships"] : m.organizationId = loc'[c].org
  PROVE  AccountRequest(d)'
<1> DEFINE n == Number(d)
<1>1. /\ loc'[d] = loc[d] /\ Number(d)' = n /\ AccountRequest(d)
      /\ n \in 1 .. served /\ n \in 1 .. served'
  BY DEF AccountRequests, AccountRequest, Number
<1>2. db' # db => /\ Number(c) # n /\ {loc[c].op, loc[d].op} \in met'
                  /\ PeopleMove(c) /\ AccountRequest(c)
  BY DEF AccountRequests
<1>3. \A ops : Met(ops) => Met(ops)'
  BY DEF Met
<1>4. \A t \in PeopleTables : NoneOf(t, n) => NoneOf(t, n)'
  <2>1. CASE db' = db
    BY <1>1, <2>1 DEF NoneOf
  <2>2. CASE db' # db
    <3>1. NoneOf("users", n) => NoneOf("users", n)'
      BY <1>1, <1>2, <2>2 DEF NoneOf, PeopleMove, UsersMove
    <3>2. NoneOf("organizations", n) => NoneOf("organizations", n)'
      BY <1>1, <1>2, <2>2 DEF NoneOf, PeopleMove, OrgsMove
    <3>3. NoneOf("audit_logs", n) => NoneOf("audit_logs", n)'
      BY <1>1, <1>2, <2>2 DEF NoneOf, PeopleMove, WordsMove
    <3>4. NoneOf("memberships", n) => NoneOf("memberships", n)'
      BY <1>1, <1>2, <2>2 DEF NoneOf, PeopleMove, MembersMove
    <3> QED
      BY <3>1, <3>2, <3>3, <3>4 DEF PeopleTables
  <2> QED
    BY <2>1, <2>2
<1>5. /\ Has("users", n) => Has("users", n)'
      /\ Has("organizations", n) => Has("organizations", n)'
      /\ HasWord(n) => HasWord(n)'
  <2>1. CASE db' = db
    BY <1>1, <2>1 DEF Has, HasWord
  <2>2. CASE db' # db
    BY <1>1, <1>2, <2>2 DEF Has, HasWord, PeopleMove, UsersMove, OrgsMove, WordsMove
  <2> QED
    BY <2>1, <2>2
<1>6. NoMembers(n) => NoMembers(n)'
  <2> SUFFICES ASSUME NoMembers(n) PROVE NoMembers(n)'
    OBVIOUS
  <2>1. \A m \in db'["memberships"] : m.id # n /\ m.organizationId # n
    <3>1. CASE db'["memberships"] = db["memberships"]
      BY <3>1 DEF NoMembers
    <3>2. CASE db'["memberships"] # db["memberships"]
      <4>1. InFlight(c) /\ MembersMove(c) /\ Number(c) # n /\ AccountRequest(c)
        BY <1>2, <3>2 DEF PeopleMove
      <4>2. loc[c].op \in Joining => loc[c].org # n
        <5>1. loc[c].op = "signUp" => loc[c].org = Number(c)
          BY <4>1 DEF AccountRequest, SigningUp, Reassigning
        <5>2. loc[c].op = "invite" => loc[c].org # n
          BY <4>1 DEF NoMembers
        <5> QED
          BY <4>1, <5>1, <5>2 DEF Joining
      <4> QED
        BY <3>2, <4>1, <4>2 DEF MembersMove, NoMembers
    <3> QED
      BY <3>1, <3>2
  <2>2. ASSUME NEW e \in Clients, InFlight(e)', loc'[e].op = "invite"
        PROVE  loc'[e].org # n
    <3>1. CASE e # c
      BY <2>2, <3>1 DEF NoMembers
    <3>2. CASE e = c
      BY <2>2, <3>2 DEF NoMembers
    <3> QED
      BY <3>1, <3>2
  <2> QED
    BY <1>1, <2>1, <2>2 DEF NoMembers
<1>7. (NoOrg(n) => NoOrg(n)') /\ (NoOwner(n) => NoOwner(n)')
  BY <1>1, <1>4, <1>5, <1>6 DEF NoOrg, NoOwner, PeopleTables
<1>8. loc[d].op = "signUp" /\ AddressFree(loc[d].email) => AddressFree(loc[d].email)'
  <2>1. CASE db' = db
    BY <1>1, <1>3, <2>1 DEF AddressFree
  <2>2. CASE db' # db
    <3>1. loc[d].op = "signUp" /\ loc[c].op = "signUp" => Met(Joining)'
      BY <1>2, <2>2 DEF Met, Joining
    <3> QED
      BY <1>1, <1>2, <1>3, <2>2, <3>1 DEF AddressFree, PeopleMove, UsersMove
  <2> QED
    BY <2>1, <2>2
<1>9. loc[d].op = "signUp" => \A slug : SlugFree(slug) => SlugFree(slug)'
  <2>1. CASE db' = db
    BY <1>1, <1>3, <2>1 DEF SlugFree
  <2>2. CASE db' # db
    <3>1. loc[d].op = "signUp" /\ loc[c].op = "signUp" => Met({"signUp"})'
      BY <1>2, <2>2 DEF Met
    <3> QED
      BY <1>1, <1>2, <1>3, <2>2, <3>1 DEF SlugFree, PeopleMove, OrgsMove
  <2> QED
    BY <2>1, <2>2
<1>10. loc[d].op = "invite" /\ NotMember(loc[d].org, loc[d].about)
         => NotMember(loc[d].org, loc[d].about)'
  <2>1. CASE db' = db
    BY <1>1, <1>3, <2>1 DEF NotMember
  <2>2. CASE db' # db
    <3>1. loc[d].op = "invite" /\ loc[c].op \in Joining => Met(Joining)'
      BY <1>2, <2>2 DEF Met, Joining
    <3> QED
      BY <1>1, <1>2, <1>3, <2>2, <3>1 DEF NotMember, PeopleMove, MembersMove
  <2> QED
    BY <2>1, <2>2
<1>11. loc[d].op \in Reassigning /\ InOrg(d) => InOrg(d)' /\ (Safe(d) => Safe(d)')
  <2>1. CASE db'["memberships"] = db["memberships"]
    BY <1>1, <1>3, <2>1 DEF InOrg, Safe, Has, Demotes
  <2>2. CASE db'["memberships"] # db["memberships"]
    <3> SUFFICES ASSUME loc[d].op \in Reassigning, InOrg(d), ~Met(Reassigning)'
                 PROVE  InOrg(d)' /\ (Safe(d) => Safe(d)')
      BY DEF InOrg, Safe
    <3>1. ~Met(Reassigning)
      BY <1>3
    <3>2. loc[c].op \notin Reassigning
      BY <1>2, <2>2 DEF Met
    <3>3. /\ NoneOf("memberships", Number(c))
          /\ db["memberships"] \subseteq db'["memberships"]
          /\ \A m \in db'["memberships"] : m \in db["memberships"] \/ m.id = Number(c)
      BY <1>2, <2>2, <3>2 DEF PeopleMove, MembersMove
    <3>4. Has("memberships", loc[d].target) /\ loc[d].target # Number(c)
      BY <3>1, <3>3 DEF InOrg, Has, NoneOf
    <3> HIDE DEF n
    <3>5. InOrg(d)'
      BY <1>1, <3>1, <3>3, <3>4 DEF InOrg, Has
    <3>6. Safe(d) => Safe(d)'
      BY <1>1, <3>1, <3>3, <3>4 DEF Safe, Demotes
    <3> QED
      BY <3>5, <3>6
  <2> QED
    BY <2>1, <2>2
<1>12. /\ UserCall(d)' = UserCall(d) /\ OwnerCall(d)' = OwnerCall(d)
       /\ WordCall(d)' = WordCall(d) /\ SessionCall(d)' = SessionCall(d)
       /\ JoinCall(d)' = JoinCall(d) /\ ChangeCall(d)' = ChangeCall(d)
       /\ \A slug : OrgCall(d, slug)' = OrgCall(d, slug)
       /\ MinorLeft(d)' <=> MinorLeft(d)
  BY <1>1 DEF UserCall, OwnerCall, WordCall, SessionCall, JoinCall, ChangeCall, OrgCall,
     MinorLeft, Minor, Auditing, NewSession
<1>13. /\ \A calls, next : ToMake(d, calls, next)' <=> ToMake(d, calls, next)
       /\ \A k : ToMakeFirst(d, k)' <=> ToMakeFirst(d, k)
  BY <1>1 DEF ToMake, ToMakeFirst, Minor
<1>14. ASSUME loc[d].op = "signUp", SigningUp(d) PROVE SigningUp(d)'
  <2> HIDE DEF n
  <2>1. /\ NoneOf("users", n) => NoneOf("users", n)'
        /\ NoneOf("audit_logs", n) => NoneOf("audit_logs", n)'
    BY <1>4 DEF PeopleTables
  <2>2. Unknown(d) => Unknown(d)'
    BY <1>1, <1>7, <2>1 DEF Unknown, n
  <2>3. UserDue(d) => UserDue(d)'
    BY <1>1, <1>7, <1>8, <1>12, <1>13, <1>14, <2>1 DEF UserDue, n
  <2>4. SlugDue(d) => SlugDue(d)'
    BY <1>1, <1>5, <1>7 DEF SlugDue, n
  <2>5. OrgDue(d) => OrgDue(d)'
    <3>1. ASSUME OrgDue(d),
                 NEW slug, SlugFree(slug),
                 ToMake(d, <<OrgCall(d, slug), OwnerCall(d), WordCall(d), SessionCall(d)>>,
                        "idle")
          PROVE  OrgDue(d)'
      <4>1. SlugFree(slug)'
        BY <1>9, <1>14, <3>1
      <4>2. ToMake(d, <<OrgCall(d, slug), OwnerCall(d), WordCall(d), SessionCall(d)>>, "idle")'
        BY <1>12, <1>13, <3>1
      <4>3. Has("users", Number(d))' /\ NoOrg(Number(d))'
        BY <1>1, <1>5, <1>7, <3>1 DEF OrgDue, n
      <4> QED
        BY <4>1, <4>2, <4>3 DEF OrgDue
    <3> QED
      BY <3>1 DEF OrgDue
  <2>6. OwnerDue(d) => OwnerDue(d)'
    BY <1>1, <1>5, <1>7, <1>12, <1>13 DEF OwnerDue, n
  <2>7. WordDue(d) => WordDue(d)'
    BY <1>1, <1>5, <1>12, <1>13, <2>1 DEF WordDue, n
  <2>8. SessionDue(d) => SessionDue(d)'
    BY <1>1, <1>5, <1>12, <1>13 DEF SessionDue, n
  <2> QED
    BY <1>1, <1>14, <2>2, <2>3, <2>4, <2>5, <2>6, <2>7, <2>8 DEF SigningUp, n
<1>15. ASSUME loc[d].op = "invite", Inviting(d) PROVE Inviting(d)'
  <2>1. NoneOf("memberships", n) => NoneOf("memberships", n)'
    BY <1>4 DEF PeopleTables
  <2>2. loc[d].org \in Int /\ loc[d].org <= served' /\ served \in Int /\ served' \in Int
    BY <1>15 DEF Inviting, AccountRequests
  <2> QED
    BY <1>1, <1>10, <1>12, <1>13, <1>15, <2>1, <2>2 DEF Inviting
<1>16. ASSUME loc[d].op \in Reassigning, ChangingRole(d) PROVE ChangingRole(d)'
  BY <1>1, <1>11, <1>12, <1>13, <1>16 DEF ChangingRole
<1> QED
  BY <1>1, <1>12, <1>14, <1>15, <1>16 DEF AccountRequest

\* A request that is at its new point what that point needs leaves the others in order.
LEMMA AccountRequestsStay ==
  ASSUME AccountRequests, NEW c \in Clients, NEW where \in AccountsPoints,
         db' = db \/ (InFlight(c) /\ PeopleMove(c)),
         UNCHANGED postgres, met \subseteq met', served' \in Nat, served <= served',
         pc' = [pc EXCEPT ![c] = where], DOMAIN loc' = Clients,
         \A d \in Clients \ {c} : loc'[d] = loc[d],
         where # "idle" =>
            /\ AccountRequest(c)'
            /\ \A d \in Clients \ {c} : InFlight(d) =>
                  {loc'[c].op, loc[d].op} \in met' /\ Number(c)' # Number(d)
            /\ loc'[c].op = "invite" =>
                  \/ InFlight(c) /\ loc[c].op = "invite" /\ loc'[c].org = loc[c].org
                  \/ \E m \in db["memberships"] : m.organizationId = loc'[c].org
  PROVE  AccountRequests'
<1>1. /\ pc' \in [Clients -> AccountsPoints] /\ pc'[c] = where
      /\ \A d \in Clients \ {c} : pc'[d] = pc[d] /\ Number(d)' = Number(d)
      /\ \A d \in Clients \ {c} : InFlight(d)' <=> InFlight(d)
  BY DEF AccountRequests, InFlight, Number
<1>2. InFlight(c)' => where # "idle"
  BY <1>1 DEF InFlight
<1>3. ASSUME NEW d \in Clients \ {c}, InFlight(d)' PROVE AccountRequest(d)'
  BY <1>1, <1>2, <1>3, OthersStay
<1>4. \A d \in Clients : InFlight(d)' => AccountRequest(d)'
  BY <1>2, <1>3
<1>5. ASSUME NEW d \in Clients, NEW e \in Clients, InFlight(d)', InFlight(e)', d # e
      PROVE  {loc'[d].op, loc'[e].op} \in met' /\ Number(d)' # Number(e)'
  <2>1. CASE d = c
    BY <1>1, <1>2, <1>5, <2>1
  <2>2. CASE e = c
    <3>1. {loc'[d].op, loc'[e].op} = {loc'[c].op, loc[d].op}
      BY <1>5, <2>2
    <3> QED
      BY <1>1, <1>2, <1>5, <2>2, <3>1
  <2>3. CASE d # c /\ e # c
    BY <1>1, <1>5, <2>3 DEF AccountRequests
  <2> QED
    BY <2>1, <2>2, <2>3
<1> QED
  BY <1>1, <1>4, <1>5 DEF AccountRequests


-----------------------------------------------------------------------------
\* What a step of request c keeps, when it adds people in order, takes no owner away, and
\* leaves a sign-up only where none began, or when all of it is on record.
LEMMA PeopleStay ==
  ASSUME AccountRequests, People, NEW c \in Clients,
         UNCHANGED postgres, met \subseteq met', cuts \subseteq cuts',
         \A d \in Clients \ {c} : pc'[d] = pc[d] /\ loc'[d] = loc[d],
         PeopleShape', postgres \/ ~Met(Joining)' => OneOfEach',
         \A u \in db'["users"] :
            u \in db["users"] \/ (u.id = Number(c)' /\ InFlight(c)' /\ loc'[c].op = "signUp"),
         \A n : Has("organizations", n) /\ HasWord(n)
                   => Has("organizations", n)' /\ HasWord(n)',
         InFlight(c) /\ loc[c].op = "signUp" =>
            \/ InFlight(c)' /\ loc'[c].op = "signUp" /\ Number(c)' = Number(c)
            \/ "signUp" \in cuts' \/ (postgres /\ Met({"signUp"}))
            \/ NoneOf("users", Number(c))
            \/ Has("organizations", Number(c)) /\ HasWord(Number(c)),
         ~Met(Reassigning)' => \A org : HasOwner(org) => HasOwner(org)',
         \A m \in db'["memberships"] :
            \/ \E k \in db["memberships"] : m.organizationId = k.organizationId
            \/ ~Met(Reassigning)' => HasOwner(m.organizationId)',
         InFlight(c)' /\ loc'[c].op = "invite" =>
            \/ InFlight(c) /\ loc[c].op = "invite" /\ loc'[c].org = loc[c].org
            \/ \E m \in db["memberships"] : m.organizationId = loc'[c].org
  PROVE  People'
<1>1. \A ops : Met(ops) => Met(ops)'
  BY DEF Met
<1>2. \A d \in Clients \ {c} : (InFlight(d)' <=> InFlight(d)) /\ Number(d)' = Number(d)
  BY DEF InFlight, Number
<1>3. OwnersStay'
  <2> SUFFICES ASSUME ~Met(Reassigning)'
               PROVE  /\ \A m \in db'["memberships"] : HasOwner(m.organizationId)'
                      /\ \A d \in Clients : InFlight(d)' /\ loc'[d].op = "invite"
                            => HasOwner(loc[d].org)'
    BY DEF OwnersStay
  <2>1. /\ \A m \in db["memberships"] : HasOwner(m.organizationId)
        /\ \A d \in Clients : InFlight(d) /\ loc[d].op = "invite" => HasOwner(loc[d].org)
    BY <1>1 DEF People, OwnersStay
  <2>2. \A org : HasOwner(org) => HasOwner(org)'
    OBVIOUS
  <2>3. \A m \in db'["memberships"] : HasOwner(m.organizationId)'
    BY <2>1, <2>2
  <2>4. ASSUME NEW d \in Clients, InFlight(d)', loc'[d].op = "invite"
        PROVE  HasOwner(loc[d].org)'
    <3>1. ASSUME NEW org, org = loc'[d].org, HasOwner(org) PROVE HasOwner(loc[d].org)'
      BY <2>2, <3>1 DEF HasOwner
    <3>2. HasOwner(loc'[d].org)
      BY <1>2, <2>1, <2>4
    <3> QED
      BY <3>1, <3>2
  <2> QED
    BY <2>3, <2>4
<1>4. WholeSignUps'
  <2> SUFFICES ASSUME "signUp" \notin cuts', ~(postgres /\ Met({"signUp"}))',
                      NEW u \in db'["users"], ~(u.id <= 0),
                      \A d \in Clients : ~(InFlight(d)' /\ loc'[d].op = "signUp"
                                                        /\ Number(d)' = u.id)
               PROVE  Has("organizations", u.id)' /\ HasWord(u.id)'
    BY DEF WholeSignUps
  <2>1. u \in db["users"]
    OBVIOUS
  <2>2. ~("signUp" \in cuts \/ (postgres /\ Met({"signUp"})))
    BY <1>1
  <2>3. \/ \E d \in Clients : InFlight(d) /\ loc[d].op = "signUp" /\ Number(d) = u.id
        \/ Has("organizations", u.id) /\ HasWord(u.id)
    BY <2>1, <2>2 DEF People, WholeSignUps
  <2>4. ASSUME NEW d \in Clients, InFlight(d), loc[d].op = "signUp", Number(d) = u.id
        PROVE  Has("organizations", u.id) /\ HasWord(u.id)
    <3>1. d = c
      BY <1>2, <2>4
    <3>2. ~NoneOf("users", u.id)
      BY <2>1 DEF NoneOf
    <3> QED
      BY <2>2, <2>4, <3>1, <3>2
  <2>5. Has("organizations", u.id) /\ HasWord(u.id)
    BY <2>3, <2>4
  <2> HIDE DEF Has, HasWord
  <2> QED
    BY <2>5
<1>5. postgres' = postgres
  OBVIOUS
<1> QED
  BY <1>3, <1>4, <1>5 DEF People

\* Nobody comes or goes.
LEMMA PeopleShapeStays ==
  ASSUME People, UNCHANGED db, served \in Nat, served' \in Nat, served <= served'
  PROVE  PeopleShape' /\ (OneOfEach => OneOfEach')
<1>1. \A n \in Int : n <= served => n <= served'
  OBVIOUS
<1>2. PeopleShape'
  BY <1>1 DEF People, PeopleShape, IsRecord
<1> QED
  BY <1>2 DEF OneOfEach

LEMMA SamePeople ==
  ASSUME AccountRequests, People, NEW c \in Clients, UNCHANGED <<db, postgres>>,
         met \subseteq met', cuts \subseteq cuts', served' \in Nat, served <= served',
         \A d \in Clients \ {c} : pc'[d] = pc[d] /\ loc'[d] = loc[d],
         InFlight(c) /\ loc[c].op = "signUp" =>
            \/ InFlight(c)' /\ loc'[c].op = "signUp" /\ Number(c)' = Number(c)
            \/ "signUp" \in cuts' \/ (postgres /\ Met({"signUp"}))
            \/ NoneOf("users", Number(c))
            \/ Has("organizations", Number(c)) /\ HasWord(Number(c)),
         InFlight(c)' /\ loc'[c].op = "invite" =>
            \/ InFlight(c) /\ loc[c].op = "invite" /\ loc'[c].org = loc[c].org
            \/ \E m \in db["memberships"] : m.organizationId = loc'[c].org
  PROVE  People'
<1>1. PeopleShape' /\ (OneOfEach => OneOfEach')
  BY PeopleShapeStays DEF AccountRequests
<1>2. \A ops : Met(ops) => Met(ops)'
  BY DEF Met
<1>3. postgres \/ ~Met(Joining)' => OneOfEach'
  BY <1>1, <1>2 DEF People
<1>4. \A n : Has("organizations", n) /\ HasWord(n)
                => Has("organizations", n)' /\ HasWord(n)'
  BY DEF Has, HasWord
<1>5. \A org : HasOwner(org) => HasOwner(org)'
  BY DEF HasOwner
<1>6. \A u \in db'["users"] : u \in db["users"]
  OBVIOUS
<1>7. \A m \in db'["memberships"] :
         \E k \in db["memberships"] : m.organizationId = k.organizationId
  OBVIOUS
<1> HIDE DEF Has, HasWord, HasOwner, NoneOf, Met
<1> QED
  BY <1>1, <1>3, <1>4, <1>5, <1>6, <1>7, PeopleStay

\* A request goes on to its next point, without a call.
LEMMA AccountGoesOn ==
  ASSUME AccountRequests, People, NEW c \in Clients, InFlight(c),
         NEW where \in AccountsPoints \ {"idle"}, NEW locals,
         DOMAIN locals \cap {"op", "n", "org"} = {}, Goto(c, where, locals),
         UNCHANGED <<db, served, history>>, AccountRequest(c)'
  PROVE  AccountRequests' /\ People'
<1>1. DOMAIN pc = Clients /\ DOMAIN loc = Clients /\ AccountRequest(c) /\ served \in Nat
  BY DEF AccountRequests
<1>2. /\ pc' = [pc EXCEPT ![c] = where] /\ DOMAIN loc' = Clients
      /\ \A f \in DOMAIN loc[c] : f \notin DOMAIN locals => loc'[c][f] = loc[c][f]
      /\ \A d \in Clients \ {c} : loc'[d] = loc[d]
  BY <1>1, RequestGoesOn
<1>3. loc'[c].op = loc[c].op /\ loc'[c].n = loc[c].n /\ loc'[c].org = loc[c].org
  BY <1>1, <1>2 DEF AccountRequest
<1>4. /\ Number(c)' = Number(c) /\ InFlight(c)'
      /\ \A d \in Clients \ {c} : pc'[d] = pc[d]
  BY <1>1, <1>2, <1>3 DEF Number, InFlight
<1>5. /\ UNCHANGED <<postgres, met, cuts>> /\ met \subseteq met' /\ cuts \subseteq cuts'
      /\ served' \in Nat /\ served <= served'
  BY <1>1 DEF history
<1>6. \A d \in Clients \ {c} : InFlight(d) =>
         {loc'[c].op, loc[d].op} \in met' /\ Number(c)' # Number(d)
  BY <1>3, <1>4, <1>5 DEF AccountRequests
<1>7. db' = db
  OBVIOUS
<1> HIDE DEF Number, InFlight
<1>8. AccountRequests'
  BY <1>2, <1>3, <1>5, <1>6, <1>7, AccountRequestsStay
<1>9. People'
  BY <1>2, <1>3, <1>4, <1>5, <1>7, SamePeople
<1> QED
  BY <1>8, <1>9

\* A request ends: a sign-up only before or after it is on record, unless it is cut off
\* or loses its slug or address to another.
LEMMA AccountEnds ==
  ASSUME AccountRequests, People, NEW c \in Clients, InFlight(c), Respond(c),
         UNCHANGED <<db, served, postgres, met>>, cuts \subseteq cuts',
         loc[c].op = "signUp" =>
            \/ "signUp" \in cuts' \/ (postgres /\ Met({"signUp"}))
            \/ NoneOf("users", Number(c))
            \/ Has("organizations", Number(c)) /\ HasWord(Number(c))
  PROVE  AccountRequests' /\ People'
<1>1. DOMAIN pc = Clients /\ DOMAIN loc = Clients /\ served \in Nat
  BY DEF AccountRequests
<1>2. /\ pc' = [pc EXCEPT ![c] = "idle"] /\ DOMAIN loc' = Clients /\ pc'[c] = "idle"
      /\ \A d \in Clients \ {c} : pc'[d] = pc[d] /\ loc'[d] = loc[d]
  BY <1>1 DEF Respond
<1>3. /\ UNCHANGED <<db, postgres>> /\ met \subseteq met' /\ db' = db
      /\ served' \in Nat /\ served <= served' /\ "idle" \in AccountsPoints
  BY <1>1 DEF AccountsPoints
<1>4. ~InFlight(c)'
  BY <1>2 DEF InFlight
<1>5. AccountRequests'
  BY <1>2, <1>3, AccountRequestsStay
<1>6. People'
  BY <1>2, <1>3, <1>4, SamePeople
<1> QED
  BY <1>5, <1>6

-----------------------------------------------------------------------------
(***************************************************************************)
(* Accounts: from one point to the next.                                   *)
(***************************************************************************)
LEMMA AtPoint ==
  ASSUME NEW c \in Clients, AccountRequest(c)
  PROVE  /\ pc[c] = "signUp.email" => loc[c].op = "signUp" /\ SigningUp(c) /\ Unknown(c)
         /\ pc[c] = "signUp.slug" => loc[c].op = "signUp" /\ SigningUp(c) /\ SlugDue(c)
         /\ pc[c] \in {"invite.user", "invite.member"} =>
               loc[c].op = "invite" /\ Inviting(c) /\ NoneOf("memberships", Number(c))
         /\ pc[c] \in {"member.read", "member.owners", "member.write"} =>
               /\ loc[c].op \in Reassigning /\ ChangingRole(c)
               /\ pc[c] # "member.read" => InOrg(c)
               /\ pc[c] = "member.write" => Safe(c)
         /\ pc[c] \in {"signOut.session", "sandbox.write"} => loc[c].op \in {"signOut", "sandbox"}
<1>1. SigningUp(c) => \/ pc[c] = "calling"
                      \/ pc[c] = "signUp.email" /\ Unknown(c)
                      \/ pc[c] = "signUp.slug" /\ SlugDue(c)
  BY DEF SigningUp, Unknown, UserDue, SlugDue, OrgDue, OwnerDue, WordDue, SessionDue, ToMake
<1>2. Inviting(c) => \/ pc[c] = "calling"
                     \/ /\ pc[c] \in {"invite.user", "invite.member"}
                        /\ NoneOf("memberships", Number(c))
  BY DEF Inviting, ToMakeFirst, MinorLeft
<1>3. ChangingRole(c) => \/ pc[c] = "calling"
                         \/ pc[c] = "member.read"
                         \/ pc[c] = "member.owners" /\ InOrg(c)
                         \/ pc[c] = "member.write" /\ InOrg(c) /\ Safe(c)
  BY DEF ChangingRole, ToMakeFirst, MinorLeft
<1>4. MinorLeft(c) => pc[c] = "calling"
  BY DEF MinorLeft
<1>5. \/ loc[c].op = "signUp" /\ SigningUp(c)
      \/ loc[c].op = "invite" /\ Inviting(c)
      \/ loc[c].op \in Reassigning /\ ChangingRole(c)
      \/ /\ loc[c].op \in {"signOut", "sandbox"}
         /\ pc[c] \in {"signOut.session", "sandbox.write"} \/ MinorLeft(c)
  BY DEF AccountRequest
<1> QED
  BY <1>1, <1>2, <1>3, <1>4, <1>5

\* What a request finds after a step of its own.
LEMMA GoneOn ==
  ASSUME AccountRequests, NEW c \in Clients, InFlight(c),
         NEW where \in AccountsPoints \ {"idle"}, NEW locals,
         DOMAIN locals \cap {"op", "n", "org"} = {}, Goto(c, where, locals), UNCHANGED served
  PROVE  /\ pc' = [pc EXCEPT ![c] = where] /\ pc'[c] = where /\ DOMAIN loc' = Clients
         /\ \A d \in Clients \ {c} : pc'[d] = pc[d] /\ loc'[d] = loc[d]
         /\ DOMAIN loc'[c] = DOMAIN locals \cup DOMAIN loc[c]
         /\ \A f \in DOMAIN locals : loc'[c][f] = locals[f]
         /\ \A f \in DOMAIN loc[c] : f \notin DOMAIN locals => loc'[c][f] = loc[c][f]
         /\ {"op", "n", "org"} \subseteq DOMAIN loc'[c]
         /\ loc'[c].op = loc[c].op /\ loc'[c].n = loc[c].n /\ loc'[c].org = loc[c].org
         /\ Number(c)' = Number(c) /\ InFlight(c)'
         /\ Number(c) \in 1 .. served /\ Number(c)' \in 1 .. served'
<1>1. DOMAIN pc = Clients /\ DOMAIN loc = Clients /\ AccountRequest(c)
  BY DEF AccountRequests
<1>2. /\ pc' = [pc EXCEPT ![c] = where] /\ DOMAIN loc' = Clients
      /\ DOMAIN loc'[c] = DOMAIN locals \cup DOMAIN loc[c]
      /\ \A f \in DOMAIN locals : loc'[c][f] = locals[f]
      /\ \A f \in DOMAIN loc[c] : f \notin DOMAIN locals => loc'[c][f] = loc[c][f]
      /\ \A d \in Clients \ {c} : loc'[d] = loc[d]
  BY <1>1, RequestGoesOn
<1>3. {"op", "n", "org"} \subseteq DOMAIN loc[c] /\ Number(c) \in 1 .. served
  BY <1>1 DEF AccountRequest
<1>4. pc'[c] = where /\ \A d \in Clients \ {c} : pc'[d] = pc[d]
  BY <1>1, <1>2
<1>5. loc'[c].op = loc[c].op /\ loc'[c].n = loc[c].n /\ loc'[c].org = loc[c].org
  BY <1>2, <1>3
<1>6. Number(c)' = Number(c) /\ InFlight(c)'
  BY <1>4, <1>5 DEF Number, InFlight
<1> QED
  BY <1>2, <1>3, <1>4, <1>5, <1>6

\* What it knew of the people is still so when nothing was written.
LEMMA SightStays ==
  ASSUME UNCHANGED <<db, postgres, met>>, NEW c \in Clients, InFlight(c),
         \A d \in Clients \ {c} : pc'[d] = pc[d] /\ loc'[d] = loc[d],
         loc'[c].op = loc[c].op, loc'[c].org = loc[c].org
  PROVE  /\ \A t, n : (NoneOf(t, n) => NoneOf(t, n)') /\ (Has(t, n) => Has(t, n)')
         /\ \A n : HasWord(n) => HasWord(n)'
         /\ \A n : NoOrg(n) => NoOrg(n)'
         /\ \A e : AddressFree(e) => AddressFree(e)'
         /\ \A s : SlugFree(s) => SlugFree(s)'
         /\ \A o, u : NotMember(o, u) => NotMember(o, u)'
<1>1. \A t, n : (NoneOf(t, n) => NoneOf(t, n)') /\ (Has(t, n) => Has(t, n)')
  BY DEF NoneOf, Has
<1>2. \A d \in Clients \ {c} : InFlight(d)' <=> InFlight(d)
  BY DEF InFlight
<1>3. \A n : NoMembers(n) => NoMembers(n)'
  BY <1>2 DEF NoMembers
<1>4. \A ops : Met(ops)' <=> Met(ops)
  BY DEF Met
<1> QED
  BY <1>1, <1>3, <1>4 DEF NoOrg, HasWord, AddressFree, SlugFree, NotMember

\* Calls to make, as locals.
LEMMA MakingCalls ==
  ASSUME NEW c, NEW calls, NEW next, Calling(c, calls, next), calls # <<>>
  PROVE  \E locals : /\ Goto(c, "calling", locals) /\ DOMAIN locals = {"calls", "next"}
                     /\ DOMAIN locals \cap {"op", "n", "org"} = {}
                     /\ locals["calls"] = calls /\ locals["next"] = next
<1> DEFINE locals == [calls |-> calls, next |-> next]
<1>1. Goto(c, "calling", locals)
  BY DEF Calling
<1>2. /\ DOMAIN locals = {"calls", "next"} /\ locals["calls"] = calls /\ locals["next"] = next
      /\ DOMAIN locals \cap {"op", "n", "org"} = {}
  OBVIOUS
<1> QED
  BY <1>1, <1>2

LEMMA CheckEmailKeeps ==
  ASSUME AccountRequests, People, NEW c \in Clients, CheckEmail(c)
  PROVE  AccountRequests' /\ People'
<1> DEFINE email == loc[c].email
           calls == <<UserCall(c)>>
<1>1. pc[c] = "signUp.email" /\ UNCHANGED <<db, served, history>>
  BY DEF CheckEmail, At
<1>2. InFlight(c) /\ AccountRequest(c) /\ UNCHANGED <<postgres, met, cuts>>
  BY <1>1 DEF InFlight, AccountRequests, history
<1>3. loc[c].op = "signUp" /\ SigningUp(c) /\ Unknown(c)
  BY <1>1, <1>2, AtPoint
<1>4. \/ Respond(c)
      \/ WithEmail(email) = {} /\ Calling(c, calls, "signUp.slug")
  BY DEF CheckEmail, UserCall
<1>5. CASE Respond(c)
  BY <1>1, <1>2, <1>3, <1>5, AccountEnds DEF Unknown
<1>6. CASE WithEmail(email) = {} /\ Calling(c, calls, "signUp.slug")
  <2>1. calls # <<>>
    OBVIOUS
  <2> HIDE DEF calls
  <2>2. PICK locals : /\ Goto(c, "calling", locals) /\ DOMAIN locals = {"calls", "next"}
                      /\ DOMAIN locals \cap {"op", "n", "org"} = {}
                      /\ locals["calls"] = calls /\ locals["next"] = "signUp.slug"
    BY <1>6, <2>1, MakingCalls
  <2>3. "calling" \in AccountsPoints \ {"idle"}
    BY DEF AccountsPoints
  <2>4. /\ pc'[c] = "calling" /\ {"op", "n", "org", "calls", "next"} \subseteq DOMAIN loc'[c]
        /\ loc'[c].calls = calls /\ loc'[c].next = "signUp.slug"
        /\ loc'[c].op = "signUp" /\ loc'[c].org = loc[c].org
        /\ loc'[c].email = email /\ {"email", "company"} \subseteq DOMAIN loc'[c]
        /\ Number(c)' = Number(c) /\ InFlight(c)' /\ Number(c)' \in 1 .. served'
        /\ \A d \in Clients \ {c} : pc'[d] = pc[d] /\ loc'[d] = loc[d]
    BY <1>1, <1>2, <1>3, <2>2, <2>3, GoneOn DEF SigningUp
  <2>5. /\ NoneOf("users", Number(c))' /\ NoOrg(Number(c))'
        /\ AddressFree(email) => AddressFree(loc[c].email)'
    BY <1>1, <1>2, <1>3, <2>4, SightStays DEF Unknown
  <2>6. AddressFree(email)
    BY <1>6 DEF AddressFree, WithEmail
  <2>7. UserCall(c)' = UserCall(c)
    BY <2>4 DEF UserCall
  <2>8. UserDue(c)'
    BY <2>4, <2>5, <2>6, <2>7 DEF UserDue, ToMake, calls
  <2>9. AccountRequest(c)'
    <3>1. SigningUp(c)'
      BY <1>3, <2>4, <2>8 DEF SigningUp
    <3> QED
      BY <2>4, <3>1 DEF AccountRequest
  <2> QED
    BY <1>1, <1>2, <2>2, <2>3, <2>9, AccountGoesOn
<1> QED
  BY <1>4, <1>5, <1>6

LEMMA ChooseSlugKeeps ==
  ASSUME AccountRequests, People, NEW c \in Clients, ChooseSlug(c)
  PROVE  AccountRequests' /\ People'
<1>1. pc[c] = "signUp.slug" /\ UNCHANGED <<db, served, history>>
  BY DEF ChooseSlug, At
<1>2. InFlight(c) /\ AccountRequest(c) /\ UNCHANGED <<postgres, met, cuts>>
  BY <1>1 DEF InFlight, AccountRequests, history
<1>3. loc[c].op = "signUp" /\ SigningUp(c) /\ SlugDue(c)
  BY <1>1, <1>2, AtPoint
<1>4. PICK i : LET slug == <<loc[c].company, i>> IN
         IF \E o \in db["organizations"] : o.slug = slug
         THEN Goto(c, "signUp.slug", [suffix |-> i + 1])
         ELSE Calling(c, <<OrgCall(c, slug), OwnerCall(c), WordCall(c), SessionCall(c)>>,
                      "idle")
  BY DEF ChooseSlug, OrgCall, OwnerCall, WordCall, SessionCall
<1>5. ASSUME NEW suffix, Goto(c, "signUp.slug", [suffix |-> suffix])
      PROVE  AccountRequests' /\ People'
  <2> DEFINE locals == [suffix |-> suffix]
  <2>1. DOMAIN locals = {"suffix"} /\ DOMAIN locals \cap {"op", "n", "org"} = {}
    OBVIOUS
  <2>2. Goto(c, "signUp.slug", locals)
    BY <1>5
  <2> HIDE DEF locals
  <2>3. "signUp.slug" \in AccountsPoints \ {"idle"}
    BY DEF AccountsPoints
  <2>4. /\ pc'[c] = "signUp.slug" /\ {"op", "n", "org"} \subseteq DOMAIN loc'[c]
        /\ loc'[c].op = "signUp" /\ loc'[c].org = loc[c].org
        /\ {"email", "company"} \subseteq DOMAIN loc'[c]
        /\ Number(c)' = Number(c) /\ Number(c)' \in 1 .. served'
        /\ \A d \in Clients \ {c} : pc'[d] = pc[d] /\ loc'[d] = loc[d]
    BY <1>1, <1>2, <1>3, <2>1, <2>2, <2>3, GoneOn DEF SigningUp
  <2>5. Has("users", Number(c))' /\ NoOrg(Number(c))'
    BY <1>1, <1>2, <1>3, <2>4, SightStays DEF SlugDue
  <2>6. SigningUp(c)'
    BY <1>3, <2>4, <2>5 DEF SigningUp, SlugDue
  <2>7. AccountRequest(c)'
    BY <2>4, <2>6 DEF AccountRequest
  <2> QED
    BY <1>1, <1>2, <2>1, <2>2, <2>3, <2>7, AccountGoesOn
<1>6. ASSUME NEW slug, \A o \in db["organizations"] : o.slug # slug,
             Calling(c, <<OrgCall(c, slug), OwnerCall(c), WordCall(c), SessionCall(c)>>, "idle")
      PROVE  AccountRequests' /\ People'
  <2> DEFINE calls == <<OrgCall(c, slug), OwnerCall(c), WordCall(c), SessionCall(c)>>
  <2>1. calls # <<>> /\ Calling(c, calls, "idle")
    BY <1>6
  <2> HIDE DEF calls
  <2>2. PICK locals : /\ Goto(c, "calling", locals) /\ DOMAIN locals = {"calls", "next"}
                      /\ DOMAIN locals \cap {"op", "n", "org"} = {}
                      /\ locals["calls"] = calls /\ locals["next"] = "idle"
    BY <2>1, MakingCalls
  <2>3. "calling" \in AccountsPoints \ {"idle"}
    BY DEF AccountsPoints
  <2>4. /\ pc'[c] = "calling" /\ {"op", "n", "org", "calls", "next"} \subseteq DOMAIN loc'[c]
        /\ loc'[c].calls = calls /\ loc'[c].next = "idle"
        /\ loc'[c].op = "signUp" /\ loc'[c].org = loc[c].org
        /\ {"email", "company"} \subseteq DOMAIN loc'[c]
        /\ Number(c)' = Number(c) /\ InFlight(c)' /\ Number(c)' \in 1 .. served'
        /\ \A d \in Clients \ {c} : pc'[d] = pc[d] /\ loc'[d] = loc[d]
    BY <1>1, <1>2, <1>3, <2>2, <2>3, GoneOn DEF SigningUp
  <2>5. /\ Has("users", Number(c))' /\ NoOrg(Number(c))'
        /\ SlugFree(slug) => SlugFree(slug)'
    BY <1>1, <1>2, <1>3, <2>4, SightStays DEF SlugDue
  <2>6. SlugFree(slug)
    BY <1>6 DEF SlugFree
  <2>7. /\ OrgCall(c, slug)' = OrgCall(c, slug) /\ OwnerCall(c)' = OwnerCall(c)
        /\ WordCall(c)' = WordCall(c) /\ SessionCall(c)' = SessionCall(c)
    BY <2>4 DEF OrgCall, OwnerCall, WordCall, SessionCall, Auditing, NewSession
  <2>8. OrgDue(c)'
    <3>1. ToMake(c, <<OrgCall(c, slug), OwnerCall(c), WordCall(c), SessionCall(c)>>, "idle")'
      BY <2>4, <2>7 DEF ToMake, calls
    <3> QED
      BY <2>5, <2>6, <3>1 DEF OrgDue
  <2>9. AccountRequest(c)'
    <3>1. SigningUp(c)'
      BY <1>3, <2>4, <2>8 DEF SigningUp
    <3> QED
      BY <2>4, <3>1 DEF AccountRequest
  <2> QED
    BY <1>1, <1>2, <2>2, <2>3, <2>9, AccountGoesOn
<1> QED
  BY <1>4, <1>5, <1>6

-----------------------------------------------------------------------------
\* The calls that say what was done, and those that decide nothing.
LEMMA MinorKinds ==
  /\ \A c, action, about : Minor(Number(c), Auditing(c, action, about))
  /\ \A n, c, user : Minor(n, Notifying(c, user)) /\ Minor(n, NewSession(c, user))
  /\ \A n, id, patch : Minor(n, Updating("sessions", id, patch))
  /\ \A n, id, patch : DOMAIN patch \cap {"id", "slug"} = {}
                          => Minor(n, Updating("organizations", id, patch))
<1>1. ASSUME NEW c, NEW action, NEW about PROVE Minor(Number(c), Auditing(c, action, about))
  <2> DEFINE row == [id |-> Number(c), organizationId |-> loc[c].org, action |-> action,
                     about |-> about]
  <2>1. IsRecord(row) /\ "id" \in DOMAIN row /\ row.id = Number(c)
    BY DEF IsRecord
  <2> HIDE DEF row
  <2>2. Minor(Number(c), Inserting("audit_logs", row))
    BY <2>1 DEF Minor, Inserting
  <2> QED
    BY <2>2 DEF Auditing, row
<1> QED
  BY <1>1 DEF Minor, Notifying, NewSession, Inserting, Updating

\* Is left with calls of which the first, k, may matter; what it holds besides.
LEMMA FirstToMake ==
  ASSUME AccountRequests, NEW c \in Clients, InFlight(c), NEW calls, NEW k,
         DOMAIN calls = 1 .. 3 \/ DOMAIN calls = 1 .. 2 \/ DOMAIN calls = 1 .. 1,
         calls # <<>>, calls[1] = k,
         \A i \in DOMAIN calls : i # 1 => Minor(Number(c), calls[i]),
         Calling(c, calls, "idle"), UNCHANGED served
  PROVE  /\ \E locals : /\ Goto(c, "calling", locals)
                        /\ DOMAIN locals \cap {"op", "n", "org"} = {}
         /\ "calling" \in AccountsPoints \ {"idle"}
         /\ pc'[c] = "calling" /\ loc'[c].next = "idle" /\ loc'[c].calls[1] = k
         /\ ToMakeFirst(c, k)'
         /\ Minor(Number(c), k) => MinorLeft(c)'
         /\ {"op", "n", "org", "calls", "next"} \subseteq DOMAIN loc'[c]
         /\ \A f \in DOMAIN loc[c] \ {"calls", "next"} :
               f \in DOMAIN loc'[c] /\ loc'[c][f] = loc[c][f]
         /\ loc'[c].op = loc[c].op /\ loc'[c].org = loc[c].org /\ Number(c)' = Number(c)
         /\ InFlight(c)' /\ Number(c)' \in 1 .. served'
         /\ \A d \in Clients \ {c} : pc'[d] = pc[d] /\ loc'[d] = loc[d]
<1>1. "calling" \in AccountsPoints \ {"idle"}
  BY DEF AccountsPoints
<1>2. PICK locals : /\ Goto(c, "calling", locals) /\ DOMAIN locals = {"calls", "next"}
                    /\ DOMAIN locals \cap {"op", "n", "org"} = {}
                    /\ locals["calls"] = calls /\ locals["next"] = "idle"
  BY MakingCalls
<1>3. /\ pc'[c] = "calling" /\ loc'[c].next = "idle" /\ loc'[c].calls = calls
      /\ {"op", "n", "org", "calls", "next"} \subseteq DOMAIN loc'[c]
      /\ \A f \in DOMAIN loc[c] \ {"calls", "next"} :
            f \in DOMAIN loc'[c] /\ loc'[c][f] = loc[c][f]
      /\ loc'[c].op = loc[c].op /\ loc'[c].org = loc[c].org /\ Number(c)' = Number(c)
      /\ InFlight(c)' /\ Number(c)' \in 1 .. served'
      /\ \A d \in Clients \ {c} : pc'[d] = pc[d] /\ loc'[d] = loc[d]
  BY <1>1, <1>2, GoneOn
<1>4. \A i \in DOMAIN calls : i # 1 => Minor(Number(c)', calls[i])
  BY <1>3
<1> HIDE DEF Number
<1>5. ToMakeFirst(c, k)' /\ (Minor(Number(c), k) => MinorLeft(c)')
  BY <1>3, <1>4 DEF ToMakeFirst, MinorLeft, Minor, IsRecord
<1> QED
  BY <1>1, <1>2, <1>3, <1>5

\* Nothing is left that matters.
LEMMA MinorCallsKeep ==
  ASSUME AccountRequests, People, NEW c \in Clients, InFlight(c), NEW calls,
         DOMAIN calls = 1 .. 3 \/ DOMAIN calls = 1 .. 2 \/ DOMAIN calls = 1 .. 1,
         calls # <<>>, \A i \in DOMAIN calls : Minor(Number(c), calls[i]),
         loc[c].op \in {"signOut", "sandbox"},
         Calling(c, calls, "idle"), UNCHANGED <<db, served, history>>
  PROVE  AccountRequests' /\ People'
<1> DEFINE k == calls[1]
<1>1. Minor(Number(c), k)
  OBVIOUS
<1>2. \A i \in DOMAIN calls : i # 1 => Minor(Number(c), calls[i])
  OBVIOUS
<1>3. /\ \E locals : /\ Goto(c, "calling", locals)
                     /\ DOMAIN locals \cap {"op", "n", "org"} = {}
      /\ "calling" \in AccountsPoints \ {"idle"} /\ MinorLeft(c)'
      /\ {"op", "n", "org", "calls", "next"} \subseteq DOMAIN loc'[c]
      /\ loc'[c].op = loc[c].op /\ Number(c)' \in 1 .. served'
  BY <1>1, <1>2, FirstToMake
<1>4. AccountRequest(c)'
  BY <1>3 DEF AccountRequest
<1> QED
  BY <1>3, <1>4, AccountGoesOn

LEMMA DestroySessionKeeps ==
  ASSUME AccountRequests, People, NEW c \in Clients, DestroySession(c)
  PROVE  AccountRequests' /\ People'
<1> DEFINE k == Updating("sessions", loc[c].session, [live |-> FALSE])
           calls == <<k>>
<1>1. pc[c] = "signOut.session" /\ UNCHANGED <<db, served, history>> /\ Calling(c, calls, "idle")
  BY DEF DestroySession, At
<1>2. InFlight(c) /\ AccountRequest(c)
  BY <1>1 DEF InFlight, AccountRequests
<1>3. loc[c].op \in {"signOut", "sandbox"}
  BY <1>1, <1>2, AtPoint
<1>4. Minor(Number(c), k)
  BY MinorKinds
<1> HIDE DEF k
<1>5. DOMAIN calls = 1 .. 1 /\ calls # <<>> /\ \A i \in DOMAIN calls : calls[i] = k
  OBVIOUS
<1> HIDE DEF calls
<1> QED
  BY <1>1, <1>2, <1>3, <1>4, <1>5, MinorCallsKeep

LEMMA SetSandboxModeKeeps ==
  ASSUME AccountRequests, People, NEW c \in Clients, SetSandboxMode(c)
  PROVE  AccountRequests' /\ People'
<1> DEFINE patch == [sandboxMode |-> loc[c].enabled]
           k == Updating("organizations", loc[c].org, patch)
           l == Auditing(c, "sandbox.set", loc[c].org)
           calls == <<k, l>>
<1>1. pc[c] = "sandbox.write" /\ UNCHANGED <<db, served, history>> /\ Calling(c, calls, "idle")
  BY DEF SetSandboxMode, At
<1>2. InFlight(c) /\ AccountRequest(c)
  BY <1>1 DEF InFlight, AccountRequests
<1>3. loc[c].op \in {"signOut", "sandbox"}
  BY <1>1, <1>2, AtPoint
<1>4. DOMAIN patch \cap {"id", "slug"} = {}
  OBVIOUS
<1> HIDE DEF patch
<1>5. Minor(Number(c), k) /\ Minor(Number(c), l)
  BY <1>4, MinorKinds
<1> HIDE DEF k, l
<1>6. DOMAIN calls = 1 .. 2 /\ calls # <<>> /\ \A i \in DOMAIN calls : calls[i] \in {k, l}
  OBVIOUS
<1> HIDE DEF calls
<1> QED
  BY <1>1, <1>2, <1>3, <1>5, <1>6, MinorCallsKeep

-----------------------------------------------------------------------------
LEMMA FindInvitedKeeps ==
  ASSUME AccountRequests, People, NEW c \in Clients, FindInvited(c)
  PROVE  AccountRequests' /\ People'
<1>1. pc[c] = "invite.user" /\ UNCHANGED <<db, served, history>>
  BY DEF FindInvited, At
<1>2. InFlight(c) /\ AccountRequest(c) /\ UNCHANGED <<postgres, met, cuts>>
  BY <1>1 DEF InFlight, AccountRequests, history
<1>3. loc[c].op = "invite" /\ Inviting(c) /\ NoneOf("memberships", Number(c))
  BY <1>1, <1>2, AtPoint
<1>4. Respond(c) \/ \E u : Goto(c, "invite.member", [about |-> u.id])
  BY DEF FindInvited
<1>5. CASE Respond(c)
  BY <1>1, <1>2, <1>3, <1>5, AccountEnds
<1>6. ASSUME NEW about, Goto(c, "invite.member", [about |-> about])
      PROVE  AccountRequests' /\ People'
  <2> DEFINE locals == [about |-> about]
  <2>1. DOMAIN locals = {"about"} /\ DOMAIN locals \cap {"op", "n", "org"} = {}
    OBVIOUS
  <2>2. Goto(c, "invite.member", locals)
    BY <1>6
  <2> HIDE DEF locals
  <2>3. "invite.member" \in AccountsPoints \ {"idle"}
    BY DEF AccountsPoints
  <2>4. /\ pc'[c] = "invite.member" /\ {"op", "n", "org"} \subseteq DOMAIN loc'[c]
        /\ loc'[c].op = "invite" /\ loc'[c].org = loc[c].org
        /\ {"email", "role", "about"} \subseteq DOMAIN loc'[c]
        /\ Number(c)' = Number(c) /\ Number(c)' \in 1 .. served'
        /\ \A d \in Clients \ {c} : pc'[d] = pc[d] /\ loc'[d] = loc[d]
    BY <1>1, <1>2, <1>3, <2>1, <2>2, <2>3, GoneOn DEF Inviting
  <2>5. NoneOf("memberships", Number(c))'
    BY <1>1, <1>2, <1>3, <2>4, SightStays
  <2>6. Inviting(c)'
    BY <1>1, <1>3, <2>4, <2>5 DEF Inviting
  <2>7. AccountRequest(c)'
    BY <2>4, <2>6 DEF AccountRequest
  <2> QED
    BY <1>1, <1>2, <2>1, <2>2, <2>3, <2>7, AccountGoesOn
<1> QED
  BY <1>4, <1>5, <1>6

LEMMA AddMemberKeeps ==
  ASSUME AccountRequests, People, NEW c \in Clients, AddMember(c)
  PROVE  AccountRequests' /\ People'
<1>0. PICK k : k = JoinCall(c)
  OBVIOUS
<1> DEFINE l == Auditing(c, "member.invited", loc[c].about)
           m == Notifying(c, loc[c].about)
           calls == <<k, l, m>>
<1>1. pc[c] = "invite.member" /\ UNCHANGED <<db, served, history>>
  BY DEF AddMember, At
<1>2. InFlight(c) /\ AccountRequest(c) /\ UNCHANGED <<postgres, met, cuts>>
  BY <1>1 DEF InFlight, AccountRequests, history
<1>3. loc[c].op = "invite" /\ Inviting(c) /\ NoneOf("memberships", Number(c))
  BY <1>1, <1>2, AtPoint
<1>4. \/ Respond(c)
      \/ /\ ~\E r \in MembersOf(loc[c].org) : r.userId = loc[c].about
         /\ Calling(c, calls, "idle")
  BY <1>0 DEF AddMember, JoinCall
<1>5. CASE Respond(c)
  BY <1>1, <1>2, <1>3, <1>5, AccountEnds
<1>6. CASE /\ ~\E r \in MembersOf(loc[c].org) : r.userId = loc[c].about
           /\ Calling(c, calls, "idle")
  <2>1. Minor(Number(c), l) /\ Minor(Number(c), m)
    BY MinorKinds
  <2> HIDE DEF l, m
  <2>2. /\ DOMAIN calls = 1 .. 3 /\ calls # <<>> /\ calls[1] = k
        /\ \A i \in DOMAIN calls : i # 1 => calls[i] \in {l, m}
    OBVIOUS
  <2> HIDE DEF calls
  <2>3. \A i \in DOMAIN calls : i # 1 => Minor(Number(c), calls[i])
    BY <2>1, <2>2
  <2>4. /\ \E locals : /\ Goto(c, "calling", locals)
                       /\ DOMAIN locals \cap {"op", "n", "org"} = {}
        /\ "calling" \in AccountsPoints \ {"idle"} /\ ToMakeFirst(c, k)'
        /\ pc'[c] = "calling"
        /\ {"op", "n", "org", "calls", "next"} \subseteq DOMAIN loc'[c]
        /\ \A f \in DOMAIN loc[c] \ {"calls", "next"} :
              f \in DOMAIN loc'[c] /\ loc'[c][f] = loc[c][f]
        /\ loc'[c].op = loc[c].op /\ loc'[c].org = loc[c].org
        /\ Number(c)' = Number(c) /\ Number(c)' \in 1 .. served'
        /\ \A d \in Clients \ {c} : pc'[d] = pc[d] /\ loc'[d] = loc[d]
    BY ZenonT(60), <1>1, <1>2, <1>6, <2>2, <2>3, FirstToMake
  <2>5. {"email", "role", "about"} \subseteq DOMAIN loc[c]
    BY <1>1, <1>3 DEF Inviting
  <2>6. /\ loc'[c].role = loc[c].role /\ loc'[c].about = loc[c].about
        /\ {"email", "role"} \subseteq DOMAIN loc'[c]
    BY <2>4, <2>5
  <2>7. JoinCall(c)' = k
    BY <1>0, <2>4, <2>6 DEF JoinCall
  <2>8. NotMember(loc[c].org, loc[c].about)
    BY <1>6 DEF NotMember, MembersOf
  <2>9. /\ NoneOf("memberships", Number(c))'
        /\ \A o, u : NotMember(o, u) => NotMember(o, u)'
    BY <1>1, <1>2, <1>3, <2>4, SightStays
  <2>10. NotMember(loc[c].org, loc[c].about)'
    BY <2>4, <2>6, <2>8, <2>9
  <2>11. ToMakeFirst(c, JoinCall(c))'
    BY <2>4, <2>7
  <2>12. Inviting(c)'
    BY <1>1, <1>3, <2>4, <2>6, <2>9, <2>10, <2>11 DEF Inviting
  <2>13. AccountRequest(c)'
    BY <1>3, <2>4, <2>12 DEF AccountRequest
  <2> QED
    BY <1>1, <1>2, <2>4, <2>13, AccountGoesOn
<1> QED
  BY <1>4, <1>5, <1>6

-----------------------------------------------------------------------------
LEMMA TargetStays ==
  ASSUME UNCHANGED <<db, met>>, NEW c, loc'[c].op = loc[c].op, loc'[c].org = loc[c].org,
         loc'[c].target = loc[c].target,
         loc[c].op = "changeRole" => loc'[c].role = loc[c].role
  PROVE  /\ \A m : Demotes(loc'[c], m) <=> Demotes(loc[c], m)
         /\ InOrg(c) => InOrg(c)'
         /\ Safe(c) => Safe(c)'
<1>1. \A m : Demotes(loc'[c], m) <=> Demotes(loc[c], m)
  BY DEF Demotes
<1>2. Met(Reassigning)' <=> Met(Reassigning)
  BY DEF Met
<1>3. \A m : Demotes(loc[c], m)' <=> Demotes(loc[c], m)
  BY DEF Demotes
<1> QED
  BY <1>1, <1>2, <1>3 DEF InOrg, Safe, Has

\* A change that goes on to its next point, for which it is in order.
LEMMA ChangeGoesOn ==
  ASSUME AccountRequests, People, NEW c \in Clients, InFlight(c),
         loc[c].op \in Reassigning, ChangingRole(c),
         NEW where \in {"member.owners", "member.write"}, NEW locals,
         DOMAIN locals \cap {"op", "n", "org", "target", "user", "role"} = {},
         Goto(c, where, locals),
         UNCHANGED <<db, served, history>>, InOrg(c), where = "member.write" => Safe(c)
  PROVE  AccountRequests' /\ People'
<1>1. /\ where \in AccountsPoints \ {"idle"} /\ DOMAIN locals \cap {"op", "n", "org"} = {}
      /\ UNCHANGED <<db, met>>
  BY DEF AccountsPoints, history
<1>2. /\ pc'[c] = where /\ {"op", "n", "org"} \subseteq DOMAIN loc'[c]
      /\ DOMAIN loc[c] \subseteq DOMAIN loc'[c]
      /\ \A f \in DOMAIN loc[c] : f \notin DOMAIN locals => loc'[c][f] = loc[c][f]
      /\ loc'[c].op = loc[c].op /\ loc'[c].org = loc[c].org
      /\ Number(c)' \in 1 .. served'
  BY <1>1, GoneOn
<1>3. /\ {"target", "user"} \subseteq DOMAIN loc[c]
      /\ loc[c].op = "changeRole" => "role" \in DOMAIN loc[c]
  BY DEF ChangingRole
<1>4. /\ loc'[c].target = loc[c].target
      /\ loc[c].op = "changeRole" => loc'[c].role = loc[c].role
  BY <1>2, <1>3
<1>5. InOrg(c)' /\ (Safe(c) => Safe(c)')
  BY <1>1, <1>2, <1>4, TargetStays
<1>6. ChangingRole(c)'
  BY <1>2, <1>3, <1>5 DEF ChangingRole
<1>7. AccountRequest(c)'
  BY <1>2, <1>6 DEF AccountRequest
<1> QED
  BY <1>1, <1>7, AccountGoesOn

LEMMA ReadMemberKeeps ==
  ASSUME AccountRequests, People, NEW c \in Clients, ReadMember(c)
  PROVE  AccountRequests' /\ People'
<1>1. pc[c] = "member.read" /\ UNCHANGED <<db, served, history>>
  BY DEF ReadMember, At
<1>2. InFlight(c) /\ AccountRequest(c) /\ UNCHANGED <<postgres, met, cuts>>
  BY <1>1 DEF InFlight, AccountRequests, history
<1>3. loc[c].op \in Reassigning /\ ChangingRole(c)
  BY <1>1, <1>2, AtPoint
<1>4. \/ Respond(c)
      \/ \E m \in ById("memberships", loc[c].target) :
            /\ m.organizationId = loc[c].org
            /\ Goto(c, IF Demotes(loc[c], m) THEN "member.owners" ELSE "member.write",
                    [about |-> m.userId])
  BY DEF ReadMember
<1>5. CASE Respond(c)
  BY <1>1, <1>2, <1>3, <1>5, AccountEnds DEF Reassigning
<1>6. ASSUME NEW m \in ById("memberships", loc[c].target), m.organizationId = loc[c].org,
             Goto(c, IF Demotes(loc[c], m) THEN "member.owners" ELSE "member.write",
                  [about |-> m.userId])
      PROVE  AccountRequests' /\ People'
  <2> DEFINE locals == [about |-> m.userId]
             where == IF Demotes(loc[c], m) THEN "member.owners" ELSE "member.write"
  <2>1. /\ DOMAIN locals \cap {"op", "n", "org", "target", "user", "role"} = {}
        /\ where \in {"member.owners", "member.write"} /\ Goto(c, where, locals)
    BY <1>6
  <2>2. m \in db["memberships"] /\ m.id = loc[c].target
    BY DEF ById, Table
  <2>3. \A k \in db["memberships"] : k.id = loc[c].target => k = m
    BY <2>2 DEF People, PeopleShape
  <2>4. InOrg(c)
    BY <1>6, <2>2, <2>3 DEF InOrg, Has
  <2>5. where = "member.write" => Safe(c)
    BY <2>3 DEF Safe
  <2> HIDE DEF locals, where
  <2> QED
    BY <1>1, <1>2, <1>3, <2>1, <2>4, <2>5, ChangeGoesOn
<1> QED
  BY <1>4, <1>5, <1>6

LEMMA CountOwnersKeeps ==
  ASSUME AccountRequests, People, NEW c \in Clients, CountOwners(c)
  PROVE  AccountRequests' /\ People'
<1>1. pc[c] = "member.owners" /\ UNCHANGED <<db, served, history>>
  BY DEF CountOwners, At
<1>2. InFlight(c) /\ AccountRequest(c) /\ UNCHANGED <<postgres, met, cuts>>
  BY <1>1 DEF InFlight, AccountRequests, history
<1>3. loc[c].op \in Reassigning /\ ChangingRole(c) /\ InOrg(c)
  BY <1>1, <1>2, AtPoint
<1>4. \/ Respond(c)
      \/ ~(Cardinality(OwnersOf(loc[c].org)) <= 1) /\ Goto(c, "member.write", Nothing)
  BY DEF CountOwners
<1>5. CASE Respond(c)
  BY <1>1, <1>2, <1>3, <1>5, AccountEnds DEF Reassigning
<1>6. CASE ~(Cardinality(OwnersOf(loc[c].org)) <= 1) /\ Goto(c, "member.write", Nothing)
  <2>1. ASSUME NEW m \in db["memberships"], m.id = loc[c].target
        PROVE  \E k \in OwnersOf(loc[c].org) : k # m
    <3> SUFFICES ASSUME OwnersOf(loc[c].org) \subseteq {m} PROVE FALSE
      OBVIOUS
    <3>1. IsFiniteSet({m}) /\ Cardinality({m}) = 1
      BY FS_Singleton
    <3>2. Cardinality(OwnersOf(loc[c].org)) <= Cardinality({m})
      BY <3>1, FS_Subset
    <3> QED
      BY <1>6, <3>1, <3>2
  <2>2. \A m, k \in db["memberships"] : m.id = k.id => m = k
    BY DEF People, PeopleShape
  <2>3. Safe(c)
    BY <2>1, <2>2 DEF Safe, OwnersOf, MembersOf
  <2>4. DOMAIN Nothing \cap {"op", "n", "org", "target", "user", "role"} = {}
    BY DEF Nothing
  <2> QED
    BY <1>1, <1>2, <1>3, <1>6, <2>3, <2>4, ChangeGoesOn
<1> QED
  BY <1>4, <1>5, <1>6

LEMMA WriteMemberKeeps ==
  ASSUME AccountRequests, People, NEW c \in Clients, WriteMember(c)
  PROVE  AccountRequests' /\ People'
<1>1. pc[c] = "member.write" /\ UNCHANGED <<db, served, history>>
  BY DEF WriteMember, At
<1>2. InFlight(c) /\ AccountRequest(c) /\ UNCHANGED <<postgres, met, cuts>>
  BY <1>1 DEF InFlight, AccountRequests, history
<1>3. loc[c].op \in Reassigning /\ ChangingRole(c) /\ InOrg(c) /\ Safe(c)
  BY <1>1, <1>2, AtPoint
<1>4. PICK k : k = ChangeCall(c)
  OBVIOUS
<1>5. \/ Calling(c, <<k, Auditing(c, "member.removed", loc[c].target), Notifying(c, None)>>,
                 "idle")
      \/ Calling(c, <<k, Auditing(c, "member.role_changed", loc[c].target),
                      Notifying(c, loc[c].about)>>, "idle")
  BY <1>4 DEF WriteMember, ChangeCall
<1>6. PICK action, about, whom :
         Calling(c, <<k, Auditing(c, action, about), Notifying(c, whom)>>, "idle")
  BY <1>5
<1> DEFINE l == Auditing(c, action, about)
           m == Notifying(c, whom)
           calls == <<k, l, m>>
<1>7. Minor(Number(c), l) /\ Minor(Number(c), m) /\ Calling(c, calls, "idle")
  BY <1>6, MinorKinds
<1> HIDE DEF l, m
<1>8. /\ DOMAIN calls = 1 .. 3 /\ calls # <<>> /\ calls[1] = k
      /\ \A i \in DOMAIN calls : i # 1 => calls[i] \in {l, m}
  OBVIOUS
<1> HIDE DEF calls
<1>9. \A i \in DOMAIN calls : i # 1 => Minor(Number(c), calls[i])
  BY <1>7, <1>8
<1>10. /\ \E locals : /\ Goto(c, "calling", locals)
                      /\ DOMAIN locals \cap {"op", "n", "org"} = {}
       /\ "calling" \in AccountsPoints \ {"idle"} /\ ToMakeFirst(c, k)'
       /\ {"op", "n", "org", "calls", "next"} \subseteq DOMAIN loc'[c]
       /\ \A f \in DOMAIN loc[c] \ {"calls", "next"} :
             f \in DOMAIN loc'[c] /\ loc'[c][f] = loc[c][f]
       /\ loc'[c].op = loc[c].op /\ loc'[c].org = loc[c].org
       /\ Number(c)' \in 1 .. served'
  BY <1>1, <1>2, <1>7, <1>8, <1>9, FirstToMake
<1>11. /\ {"target", "user"} \subseteq DOMAIN loc[c]
       /\ loc[c].op = "changeRole" => "role" \in DOMAIN loc[c]
  BY <1>3 DEF ChangingRole
<1>12. /\ {"target", "user"} \subseteq DOMAIN loc'[c] /\ loc'[c].target = loc[c].target
       /\ loc[c].op = "changeRole" => "role" \in DOMAIN loc'[c] /\ loc'[c].role = loc[c].role
  BY <1>10, <1>11
<1>13. InOrg(c)' /\ Safe(c)'
  BY <1>1, <1>2, <1>3, <1>10, <1>12, TargetStays
<1>14. ChangeCall(c)' = k
  BY <1>3, <1>4, <1>10, <1>12 DEF ChangeCall, Reassigning
<1>15. ChangingRole(c)'
  BY <1>3, <1>10, <1>12, <1>13, <1>14 DEF ChangingRole
<1>16. AccountRequest(c)'
  BY <1>3, <1>10, <1>15 DEF AccountRequest
<1> QED
  BY <1>1, <1>2, <1>10, <1>16, AccountGoesOn

LEMMA AccountsStepKeeps ==
  ASSUME AccountRequests, People, area = "accounts", NEW c \in Clients, AccountsStep(c)
  PROVE  AccountRequests' /\ People'
BY CheckEmailKeeps, ChooseSlugKeeps, DestroySessionKeeps, FindInvitedKeeps, AddMemberKeeps,
   ReadMemberKeeps, CountOwnersKeeps, WriteMemberKeeps, SetSandboxModeKeeps
   DEF AccountsStep

LEMMA AccountCutKeeps ==
  ASSUME AccountRequests, People, NEW c \in Clients, CutOff(c)
  PROVE  AccountRequests' /\ People'
<1>1. /\ InFlight(c) /\ Respond(c) /\ UNCHANGED <<db, served, postgres, met>>
      /\ cuts \subseteq cuts' /\ loc[c].op \in cuts'
  BY DEF CutOff
<1> QED
  BY <1>1, AccountEnds

-----------------------------------------------------------------------------
(***************************************************************************)
(* Accounts: requests come in.                                             *)
(***************************************************************************)
LEMMA Arrival ==
  ASSUME AccountRequests, NEW c \in Clients, NEW where, NEW locals,
         {"op", "org"} \subseteq DOMAIN locals, "n" \notin DOMAIN locals,
         Accept(c, where, locals)
  PROVE  /\ ~InFlight(c) /\ pc' = [pc EXCEPT ![c] = where] /\ pc'[c] = where
         /\ DOMAIN loc' = Clients
         /\ \A d \in Clients \ {c} : pc'[d] = pc[d] /\ loc'[d] = loc[d]
         /\ DOMAIN loc'[c] = DOMAIN locals \cup {"n"}
         /\ \A f \in DOMAIN locals : loc'[c][f] = locals[f]
         /\ Number(c)' = served + 1 /\ served' = served + 1 /\ served \in Nat
         /\ \A d \in Clients \ {c} : InFlight(d) => {loc'[c].op, loc[d].op} \in met'
         /\ met \subseteq met' /\ UNCHANGED <<postgres, cuts>>
<1> DEFINE number == [n |-> served + 1]
<1>1. DOMAIN pc = Clients /\ DOMAIN loc = Clients /\ served \in Nat
  BY DEF AccountRequests
<1>2. DOMAIN number = {"n"} /\ number["n"] = served + 1
  OBVIOUS
<1>3. /\ pc[c] = "idle" /\ pc' = [pc EXCEPT ![c] = where]
      /\ loc' = [loc EXCEPT ![c] = Over(locals, number)] /\ served' = served + 1
      /\ met' = met \cup {{locals.op, loc[d].op} : d \in {d \in Clients : InFlight(d)}}
      /\ UNCHANGED <<postgres, cuts>>
  BY DEF Accept
<1> HIDE DEF number
<1>4. /\ DOMAIN Over(locals, number) = DOMAIN locals \cup DOMAIN number
      /\ \A f \in DOMAIN locals : Over(locals, number)[f] = locals[f]
      /\ \A f \in DOMAIN number : f \notin DOMAIN locals => Over(locals, number)[f] = number[f]
  BY Overwritten
<1>5. /\ DOMAIN loc' = Clients /\ loc'[c] = Over(locals, number) /\ pc'[c] = where
      /\ \A d \in Clients \ {c} : pc'[d] = pc[d] /\ loc'[d] = loc[d]
  BY <1>1, <1>3
<1>6. /\ DOMAIN loc'[c] = DOMAIN locals \cup {"n"} /\ loc'[c].n = served + 1
      /\ \A f \in DOMAIN locals : loc'[c][f] = locals[f]
  BY <1>2, <1>4, <1>5
<1>7. \A d \in Clients \ {c} : InFlight(d) => {loc'[c].op, loc[d].op} \in met'
  BY <1>3, <1>6
<1> QED
  BY <1>1, <1>3, <1>5, <1>6, <1>7 DEF InFlight, Number

LEMMA ArrivalKeeps ==
  ASSUME AccountRequests, People, NEW c \in Clients,
         NEW where \in AccountsPoints \ {"idle"}, NEW locals,
         {"op", "org"} \subseteq DOMAIN locals, "n" \notin DOMAIN locals,
         Accept(c, where, locals), UNCHANGED db, AccountRequest(c)',
         locals.op = "invite" =>
            \E m \in db["memberships"] : m.organizationId = locals.org
  PROVE  AccountRequests' /\ People'
<1>1. /\ ~InFlight(c) /\ pc' = [pc EXCEPT ![c] = where] /\ pc'[c] = where
      /\ DOMAIN loc' = Clients
      /\ \A d \in Clients \ {c} : pc'[d] = pc[d] /\ loc'[d] = loc[d]
      /\ loc'[c].op = locals.op /\ loc'[c].org = locals.org
      /\ Number(c)' = served + 1 /\ served' = served + 1 /\ served \in Nat
      /\ \A d \in Clients \ {c} : InFlight(d) => {loc'[c].op, loc[d].op} \in met'
      /\ met \subseteq met' /\ UNCHANGED <<postgres, cuts>>
  BY Arrival
<1>2. \A d \in Clients \ {c} : InFlight(d) => Number(c)' # Number(d)
  BY <1>1 DEF AccountRequests, AccountRequest
<1>3. /\ served' \in Nat /\ served <= served' /\ db' = db /\ cuts \subseteq cuts'
      /\ where \in AccountsPoints
  BY <1>1
<1>4. loc'[c].op = "invite" => \E m \in db["memberships"] : m.organizationId = loc'[c].org
  BY <1>1
<1> HIDE DEF Number, InFlight
<1>5. AccountRequests'
  BY ZenonT(60), <1>1, <1>2, <1>3, <1>4, AccountRequestsStay
<1>6. People'
  BY <1>1, <1>3, <1>4, SamePeople
<1> QED
  BY <1>5, <1>6

\* A member's request carries the member's organization.
Brought(m, locals) == Over(locals, [org |-> m.organizationId, user |-> m.userId])

LEMMA FromMember ==
  ASSUME NEW m, NEW c, NEW where, NEW locals, AcceptFrom(m, c, where, locals),
         "n" \notin DOMAIN locals, "org" \notin DOMAIN locals
  PROVE  /\ Accept(c, where, Brought(m, locals)) /\ "n" \notin DOMAIN Brought(m, locals)
         /\ DOMAIN Brought(m, locals) = DOMAIN locals \cup {"org", "user"}
         /\ \A f \in DOMAIN locals : Brought(m, locals)[f] = locals[f]
         /\ Brought(m, locals).org = m.organizationId
<1> DEFINE caller == [org |-> m.organizationId, user |-> m.userId]
           all == Over(locals, caller)
<1>1. Accept(c, where, all)
  BY DEF AcceptFrom
<1>2. DOMAIN caller = {"org", "user"} /\ caller["org"] = m.organizationId
  OBVIOUS
<1> HIDE DEF caller
<1>3. /\ DOMAIN all = DOMAIN locals \cup DOMAIN caller
      /\ \A f \in DOMAIN locals : all[f] = locals[f]
      /\ \A f \in DOMAIN caller : f \notin DOMAIN locals => all[f] = caller[f]
  BY Overwritten
<1> HIDE DEF all
<1>4. all["org"] = m.organizationId
  BY <1>2, <1>3
<1>5. all = Brought(m, locals)
  BY DEF all, caller, Brought
<1> QED
  BY <1>1, <1>2, <1>3, <1>4, <1>5

\* Nothing bears the next number yet.
LEMMA NumberIsNew ==
  ASSUME AccountRequests, People
  PROVE  /\ \A t \in PeopleTables : NoneOf(t, served + 1)
         /\ \A m \in db["memberships"] : /\ m.organizationId \in Int
                                         /\ m.organizationId <= served
         /\ NoMembers(served + 1) /\ NoOrg(served + 1)
<1>1. served \in Nat /\ PeopleShape
  BY DEF AccountRequests, People
<1>2. \A t \in PeopleTables : NoneOf(t, served + 1)
  <2>1. ASSUME NEW t \in PeopleTables, NEW r \in db[t] PROVE r.id # served + 1
    <3>1. r.id \in Int /\ r.id <= served
      BY <1>1, <2>1 DEF PeopleShape
    <3> QED
      BY <1>1, <3>1
  <2> QED
    BY <2>1 DEF NoneOf
<1>3. \A m \in db["memberships"] : m.organizationId \in Int /\ m.organizationId <= served
  BY <1>1 DEF PeopleShape
<1>4. \A d \in Clients : InFlight(d) /\ loc[d].op = "invite"
         => loc[d].org \in Int /\ loc[d].org <= served
  BY DEF AccountRequests, AccountRequest, Inviting, Reassigning
<1>5. NoMembers(served + 1)
  <2>1. \A i \in Int : i <= served => i # served + 1
    BY <1>1
  <2> QED
    BY <1>2, <1>3, <1>4, <2>1 DEF NoMembers, NoneOf, PeopleTables
<1> QED
  BY <1>2, <1>3, <1>5 DEF NoOrg, PeopleTables

LEMMA SubmitSignUpKeeps ==
  ASSUME AccountRequests, People, NEW c \in Clients, SubmitSignUp(c)
  PROVE  AccountRequests' /\ People'
<1>1. PICK email \in Emails, company \in Companies :
         Accept(c, "signUp.email",
                [op |-> "signUp", email |-> email, company |-> company, org |-> served + 1])
  BY DEF SubmitSignUp
<1>2. PICK locals : locals = [op |-> "signUp", email |-> email, company |-> company,
                              org |-> served + 1]
  OBVIOUS
<1>3. /\ Accept(c, "signUp.email", locals) /\ DOMAIN locals = {"op", "email", "company", "org"}
      /\ locals.op = "signUp" /\ locals.org = served + 1
      /\ {"op", "org"} \subseteq DOMAIN locals /\ "n" \notin DOMAIN locals
  BY <1>1, <1>2
<1>4. UNCHANGED db
  BY DEF SubmitSignUp
<1>5. /\ pc'[c] = "signUp.email" /\ DOMAIN loc'[c] = DOMAIN locals \cup {"n"}
      /\ \A d \in Clients \ {c} : pc'[d] = pc[d] /\ loc'[d] = loc[d]
      /\ loc'[c].op = locals.op /\ loc'[c].org = locals.org
      /\ Number(c)' = served + 1 /\ served' = served + 1 /\ served \in Nat
  BY <1>3, Arrival
<1>6. NoneOf("users", served + 1) /\ NoOrg(served + 1)
  BY NumberIsNew DEF PeopleTables
<1>7. NoneOf("users", Number(c))' /\ NoOrg(Number(c))'
  <2>1. \A t : NoneOf(t, served + 1) => NoneOf(t, Number(c))'
    BY <1>4, <1>5 DEF NoneOf
  <2>2. \A d \in Clients : InFlight(d)' /\ loc'[d].op = "invite" => loc'[d].org # served + 1
    BY <1>3, <1>5, <1>6 DEF InFlight, NoOrg, NoMembers
  <2>3. NoMembers(Number(c))'
    BY <1>4, <1>5, <1>6, <2>2 DEF NoOrg, NoMembers
  <2> QED
    BY <1>6, <2>1, <2>3 DEF NoOrg
<1>8. SigningUp(c)'
  BY <1>3, <1>5, <1>7 DEF SigningUp, Unknown
<1>9. AccountRequest(c)'
  BY <1>3, <1>5, <1>8 DEF AccountRequest
<1>10. "signUp.email" \in AccountsPoints \ {"idle"}
  BY DEF AccountsPoints
<1> QED
  BY <1>3, <1>4, <1>9, <1>10, ArrivalKeeps

LEMMA SubmitSignOutKeeps ==
  ASSUME AccountRequests, People, NEW c \in Clients, SubmitSignOut(c)
  PROVE  AccountRequests' /\ People'
<1>1. PICK s : Accept(c, "signOut.session", [op |-> "signOut", session |-> s.id, org |-> None])
  BY DEF SubmitSignOut
<1>2. PICK locals : locals = [op |-> "signOut", session |-> s.id, org |-> None]
  OBVIOUS
<1>3. /\ Accept(c, "signOut.session", locals) /\ DOMAIN locals = {"op", "session", "org"}
      /\ locals.op = "signOut"
      /\ {"op", "org"} \subseteq DOMAIN locals /\ "n" \notin DOMAIN locals
  BY <1>1, <1>2
<1>4. UNCHANGED db
  BY DEF SubmitSignOut
<1>5. /\ pc'[c] = "signOut.session" /\ DOMAIN loc'[c] = DOMAIN locals \cup {"n"}
      /\ loc'[c].op = locals.op
      /\ Number(c)' = served + 1 /\ served' = served + 1 /\ served \in Nat
  BY <1>3, Arrival
<1>6. AccountRequest(c)'
  BY <1>3, <1>5 DEF AccountRequest
<1>7. "signOut.session" \in AccountsPoints \ {"idle"}
  BY DEF AccountsPoints
<1> QED
  BY <1>3, <1>4, <1>6, <1>7, ArrivalKeeps

LEMMA InviteMemberKeeps ==
  ASSUME AccountRequests, People, NEW c \in Clients, InviteMember(c)
  PROVE  AccountRequests' /\ People'
<1>1. PICK m \in db["memberships"] : \E email, role :
         AcceptFrom(m, c, "invite.user", [op |-> "invite", email |-> email, role |-> role])
  BY DEF InviteMember, SessionContext
<1>e. PICK email, role :
         AcceptFrom(m, c, "invite.user", [op |-> "invite", email |-> email, role |-> role])
  BY <1>1
<1>2. PICK locals : locals = [op |-> "invite", email |-> email, role |-> role]
  OBVIOUS
<1>3. /\ AcceptFrom(m, c, "invite.user", locals) /\ DOMAIN locals = {"op", "email", "role"}
      /\ locals["op"] = "invite" /\ "op" \in DOMAIN locals
      /\ DOMAIN locals \cap {"n", "org", "user"} = {}
  BY <1>e, <1>2
<1>4. UNCHANGED db
  BY DEF InviteMember
<1> DEFINE all == Brought(m, locals)
<1>5. /\ Accept(c, "invite.user", all) /\ "n" \notin DOMAIN all
      /\ DOMAIN all = DOMAIN locals \cup {"org", "user"}
      /\ \A f \in DOMAIN locals : all[f] = locals[f]
      /\ all.org = m.organizationId
  BY <1>3, FromMember
<1> HIDE DEF all
<1>a. /\ DOMAIN all = {"op", "email", "role", "org", "user"}
      /\ all["op"] = "invite" /\ all.org = m.organizationId
  BY <1>3, <1>5
<1>6. /\ pc'[c] = "invite.user" /\ DOMAIN loc'[c] = DOMAIN all \cup {"n"}
      /\ loc'[c].op = "invite" /\ loc'[c].org = m.organizationId
      /\ Number(c)' = served + 1 /\ served' = served + 1 /\ served \in Nat
  BY <1>5, <1>a, Arrival
<1>7. /\ NoneOf("memberships", served + 1)
      /\ m.organizationId \in Int /\ m.organizationId <= served
  BY NumberIsNew DEF PeopleTables
<1>8. NoneOf("memberships", Number(c))' /\ m.organizationId <= served'
  BY <1>4, <1>6, <1>7 DEF NoneOf
<1>9. Inviting(c)'
  BY <1>5, <1>a, <1>6, <1>7, <1>8 DEF Inviting
<1>10. AccountRequest(c)'
  BY <1>5, <1>a, <1>6, <1>9 DEF AccountRequest
<1>11. "invite.user" \in AccountsPoints \ {"idle"}
  BY DEF AccountsPoints
<1> QED
  BY <1>4, <1>5, <1>a, <1>10, <1>11, ArrivalKeeps

LEMMA ChangeArrives ==
  ASSUME AccountRequests, People, NEW c \in Clients, NEW m, NEW locals, "op" \in DOMAIN locals,
         "target" \in DOMAIN locals, locals["op"] \in Reassigning,
         locals["op"] = "changeRole" => "role" \in DOMAIN locals,
         DOMAIN locals \cap {"n", "org", "user"} = {},
         AcceptFrom(m, c, "member.read", locals), UNCHANGED db
  PROVE  AccountRequests' /\ People'
<1> DEFINE all == Brought(m, locals)
<1>1. /\ Accept(c, "member.read", all) /\ "n" \notin DOMAIN all
      /\ DOMAIN all = DOMAIN locals \cup {"org", "user"}
      /\ \A f \in DOMAIN locals : all[f] = locals[f]
      /\ all.org = m.organizationId
  BY FromMember
<1> HIDE DEF all
<1>a. all["op"] = locals["op"]
  BY <1>1
<1>2. /\ pc'[c] = "member.read" /\ DOMAIN loc'[c] = DOMAIN all \cup {"n"}
      /\ loc'[c].op = locals["op"]
      /\ Number(c)' = served + 1 /\ served' = served + 1 /\ served \in Nat
  BY <1>1, <1>a, Arrival
<1>3. ChangingRole(c)'
  BY <1>1, <1>a, <1>2 DEF ChangingRole
<1>4. AccountRequest(c)'
  BY <1>1, <1>a, <1>2, <1>3 DEF AccountRequest
<1>5. "member.read" \in AccountsPoints \ {"idle"} /\ all["op"] # "invite"
  BY <1>1, <1>a DEF AccountsPoints, Reassigning
<1> QED
  BY <1>1, <1>a, <1>4, <1>5, ArrivalKeeps

LEMMA ToggleSandboxKeeps ==
  ASSUME AccountRequests, People, NEW c \in Clients, ToggleSandbox(c)
  PROVE  AccountRequests' /\ People'
<1>1. PICK m, enabled :
         AcceptFrom(m, c, "sandbox.write", [op |-> "sandbox", enabled |-> enabled])
  BY DEF ToggleSandbox
<1>2. PICK locals : locals = [op |-> "sandbox", enabled |-> enabled]
  OBVIOUS
<1>3. /\ AcceptFrom(m, c, "sandbox.write", locals) /\ DOMAIN locals = {"op", "enabled"}
      /\ locals["op"] = "sandbox" /\ "op" \in DOMAIN locals
      /\ DOMAIN locals \cap {"n", "org", "user"} = {}
  BY <1>1, <1>2
<1>4. UNCHANGED db
  BY DEF ToggleSandbox
<1> DEFINE all == Brought(m, locals)
<1>5. /\ Accept(c, "sandbox.write", all) /\ "n" \notin DOMAIN all
      /\ DOMAIN all = DOMAIN locals \cup {"org", "user"}
      /\ \A f \in DOMAIN locals : all[f] = locals[f]
      /\ all.org = m.organizationId
  BY <1>3, FromMember
<1> HIDE DEF all
<1>a. DOMAIN all = {"op", "enabled", "org", "user"} /\ all["op"] = "sandbox"
  BY <1>3, <1>5
<1>6. /\ pc'[c] = "sandbox.write" /\ DOMAIN loc'[c] = DOMAIN all \cup {"n"}
      /\ loc'[c].op = "sandbox"
      /\ Number(c)' = served + 1 /\ served' = served + 1 /\ served \in Nat
  BY <1>5, <1>a, Arrival
<1>7. AccountRequest(c)'
  BY <1>5, <1>a, <1>6 DEF AccountRequest
<1>8. "sandbox.write" \in AccountsPoints \ {"idle"}
  BY DEF AccountsPoints
<1> QED
  BY <1>4, <1>5, <1>a, <1>7, <1>8, ArrivalKeeps

LEMMA AccountsSubmitKeeps ==
  ASSUME AccountRequests, People, area = "accounts", NEW c \in Clients, AccountsSubmit(c)
  PROVE  AccountRequests' /\ People'
<1>1. ASSUME ChangeRole(c) PROVE AccountRequests' /\ People'
  <2>1. PICK m, target, role :
           AcceptFrom(m, c, "member.read",
                      [op |-> "changeRole", target |-> target.id, role |-> role])
    BY <1>1 DEF ChangeRole
  <2>2. UNCHANGED db
    BY <1>1 DEF ChangeRole
  <2> DEFINE locals == [op |-> "changeRole", target |-> target.id, role |-> role]
  <2>3. /\ {"op", "target", "role"} = DOMAIN locals /\ locals["op"] \in Reassigning
        /\ AcceptFrom(m, c, "member.read", locals)
    BY <2>1 DEF Reassigning
  <2> HIDE DEF locals
  <2> QED
    BY <2>2, <2>3, ChangeArrives
<1>2. ASSUME RemoveMember(c) PROVE AccountRequests' /\ People'
  <2>1. PICK m, target :
           AcceptFrom(m, c, "member.read", [op |-> "remove", target |-> target.id])
    BY <1>2 DEF RemoveMember
  <2>2. UNCHANGED db
    BY <1>2 DEF RemoveMember
  <2> DEFINE locals == [op |-> "remove", target |-> target.id]
  <2>3. /\ {"op", "target"} = DOMAIN locals /\ locals["op"] \in Reassigning
        /\ locals["op"] # "changeRole"
        /\ AcceptFrom(m, c, "member.read", locals)
    BY <2>1 DEF Reassigning
  <2> HIDE DEF locals
  <2> QED
    BY <2>2, <2>3, ChangeArrives
<1> QED
  BY <1>1, <1>2, SubmitSignUpKeeps, SubmitSignOutKeeps, InviteMemberKeeps, ToggleSandboxKeeps
     DEF AccountsSubmit

-----------------------------------------------------------------------------
(***************************************************************************)
(* Accounts: the calls.                                                    *)
(***************************************************************************)
\* A call that adds people in order, or changes them in order, and after which its
\* request is in order.
LEMMA WrittenKeeps ==
  ASSUME AccountRequests, People, NEW c \in Clients, InFlight(c), NEW where \in AccountsPoints,
         pc' = [pc EXCEPT ![c] = where], DOMAIN loc' = Clients,
         \A d \in Clients \ {c} : loc'[d] = loc[d], UNCHANGED <<served, history>>,
         where # "idle" => /\ AccountRequest(c)' /\ loc'[c].op = loc[c].op
                           /\ loc'[c].org = loc[c].org /\ loc'[c].n = loc[c].n,
         PeopleMove(c), PeopleShape', postgres \/ ~Met(Joining) => OneOfEach',
         db'["users"] = db["users"] \/ where # "idle",
         loc[c].op = "signUp" =>
            \/ where # "idle"
            \/ Has("organizations", Number(c)) /\ HasWord(Number(c)),
         ~Met(Reassigning) =>
            /\ \A org : HasOwner(org) => HasOwner(org)'
            /\ \A m \in db'["memberships"] : HasOwner(m.organizationId)'
  PROVE  AccountRequests' /\ People'
<1>1. /\ UNCHANGED <<postgres, met, cuts>> /\ met \subseteq met' /\ cuts \subseteq cuts'
      /\ served' \in Nat /\ served <= served'
  BY DEF AccountRequests, history
<1>2. pc'[c] = where /\ \A d \in Clients \ {c} : pc'[d] = pc[d]
  BY DEF AccountRequests
<1>3. where # "idle" => Number(c)' = Number(c) /\ InFlight(c)'
  BY <1>2 DEF Number, InFlight
<1>4. InFlight(c)' => where # "idle"
  BY <1>2 DEF InFlight
<1>5. \A ops : Met(ops)' <=> Met(ops)
  BY <1>1 DEF Met
<1>6. \A n : Has("organizations", n) /\ HasWord(n) => Has("organizations", n)' /\ HasWord(n)'
  BY DEF PeopleMove, OrgsMove, WordsMove, Has, HasWord
<1>7. \A u \in db'["users"] : u \in db["users"] \/ (u.id = Number(c)' /\ InFlight(c)' /\ loc'[c].op = "signUp")
  BY <1>3 DEF PeopleMove, UsersMove
<1>8. \A d \in Clients \ {c} : InFlight(d) =>
         {loc[c].op, loc[d].op} \in met /\ Number(c) # Number(d)
  BY DEF AccountRequests
<1> HIDE DEF Number, InFlight, Met, Has, HasWord, HasOwner
<1>9. AccountRequests'
  <2>1. where # "idle" =>
            /\ AccountRequest(c)'
            /\ \A d \in Clients \ {c} : InFlight(d) =>
                  {loc'[c].op, loc[d].op} \in met' /\ Number(c)' # Number(d)
            /\ loc'[c].op = "invite" =>
                  \/ InFlight(c) /\ loc[c].op = "invite" /\ loc'[c].org = loc[c].org
                  \/ \E m \in db["memberships"] : m.organizationId = loc'[c].org
    BY <1>1, <1>3, <1>8
  <2>2. db' = db \/ (InFlight(c) /\ PeopleMove(c))
    OBVIOUS
  <2> HIDE DEF PeopleMove
  <2> QED
    BY <1>1, <2>1, <2>2, AccountRequestsStay
<1>10. People'
  <2>1. InFlight(c)' /\ loc'[c].op = "invite" =>
            \/ InFlight(c) /\ loc[c].op = "invite" /\ loc'[c].org = loc[c].org
            \/ \E m \in db["memberships"] : m.organizationId = loc'[c].org
    BY <1>4
  <2>2. InFlight(c) /\ loc[c].op = "signUp" =>
            \/ InFlight(c)' /\ loc'[c].op = "signUp" /\ Number(c)' = Number(c)
            \/ "signUp" \in cuts' \/ (postgres /\ Met({"signUp"}))
            \/ NoneOf("users", Number(c))
            \/ Has("organizations", Number(c)) /\ HasWord(Number(c))
    BY <1>3
  <2>3. \A m \in db'["memberships"] :
            \/ \E k \in db["memberships"] : m.organizationId = k.organizationId
            \/ ~Met(Reassigning)' => HasOwner(m.organizationId)'
    BY <1>5
  <2>4. ~Met(Reassigning)' => \A org : HasOwner(org) => HasOwner(org)'
    BY <1>5
  <2>5. postgres \/ ~Met(Joining)' => OneOfEach'
    BY <1>5
  <2> QED
    BY <1>1, <1>2, <1>6, <1>7, <2>1, <2>2, <2>3, <2>4, <2>5, PeopleStay
<1> QED
  BY <1>9, <1>10

\* What a call comes to: it is refused or finds nothing, and ends the request; or it is
\* done, and the request goes on with the next.
Done(k) ==
  \/ k.call = "insert" /\ ~Refused(k) /\ db' = InsertRow(k.table, k.row)
  \/ k.call = "update" /\ db' = UpdateRow(k.table, k.id, k.row)
  \/ k.call = "remove" /\ db' = RemoveRow(k.table, k.id)

Ended(c, k) ==
  /\ (k.call = "insert" /\ Refused(k)) \/ (k.call = "update" /\ Refused(k))
  /\ Respond(c) /\ UNCHANGED db

Proceeds(c, rest) ==
  IF rest # <<>>
  THEN Goto(c, "calling", [calls |-> rest])
  ELSE IF loc[c].next = "idle" THEN Respond(c) ELSE Goto(c, loc[c].next, Nothing)

LEMMA CallOutcome ==
  ASSUME CallsInv, NEW c \in Clients, StoreCall(c),
         loc[c].calls[1].call \in {"insert", "update", "remove"}
  PROVE  /\ pc[c] = "calling" /\ InFlight(c) /\ UNCHANGED <<served, history>>
         /\ {"calls", "next"} \subseteq DOMAIN loc[c]
         /\ IsSequence(loc[c].calls) /\ loc[c].calls # <<>>
         /\ \/ Ended(c, loc[c].calls[1])
            \/ Done(loc[c].calls[1]) /\ Proceeds(c, Tail(loc[c].calls))
<1> DEFINE k == loc[c].calls[1]
           rest == Tail(loc[c].calls)
<1>1. pc[c] = "calling" /\ UNCHANGED <<served, history>>
  BY DEF StoreCall, At
<1>2. /\ IsSequence(loc[c].calls) /\ loc[c].calls # <<>>
      /\ {"calls", "next"} \subseteq DOMAIN loc[c]
  BY <1>1 DEF CallsInv, OwnCalls
<1>3. Head(loc[c].calls) = k
  BY <1>2, TailOf
<1>4. ~FindsNothing(k) /\ (Refused(k) => k.call \in {"insert", "update"})
  BY DEF FindsNothing, Refused
<1> HIDE DEF k, rest
<1>5. IF Refused(k)
      THEN Respond(c) /\ UNCHANGED db
      ELSE /\ db' = CASE k.call = "insert" -> InsertRow(k.table, k.row)
                      [] k.call \in {"update", "change"} -> UpdateRow(k.table, k.id, k.row)
                      [] k.call = "upsert" -> UpsertRow(k.table, k.row)
                      [] OTHER -> RemoveRow(k.table, k.id)
           /\ CASE rest # <<>> -> Goto(c, "calling", [calls |-> rest])
                [] rest = <<>> /\ loc[c].next = "idle" -> Respond(c)
                [] OTHER -> Goto(c, loc[c].next, Nothing)
  BY <1>3, <1>4 DEF StoreCall, rest
<1>6. k.call \in {"insert", "update", "remove"}
  BY DEF k
<1>7. CASE Refused(k)
  BY <1>1, <1>2, <1>4, <1>5, <1>7 DEF Ended, InFlight, k
<1>8. CASE ~Refused(k)
  <2>1. Done(k)
    BY <1>5, <1>6, <1>8 DEF Done
  <2>2. Proceeds(c, rest)
    BY <1>5, <1>8 DEF Proceeds
  <2> QED
    BY <1>1, <1>2, <2>1, <2>2 DEF InFlight, k, rest
<1> QED
  BY <1>7, <1>8

\* The calls that are left of a few.
LEMMA FewCalls ==
  /\ \A a : Tail(<<a>>) = <<>> /\ <<a>>[1] = a
  /\ \A a, b : Tail(<<a, b>>) = <<b>> /\ <<a, b>>[1] = a
  /\ \A a, b, e : Tail(<<a, b, e>>) = <<b, e>> /\ <<a, b, e>>[1] = a
  /\ \A a, b, e, f : Tail(<<a, b, e, f>>) = <<b, e, f>> /\ <<a, b, e, f>>[1] = a
  /\ \A a : <<a>> # <<>>
  /\ \A a, b : <<a, b>> # <<>>
  /\ \A a, b, e : <<a, b, e>> # <<>>
<1>1. \A a : Tail(<<a>>) = <<>> /\ <<a>>[1] = a
  OBVIOUS
<1>2. \A a, b : Tail(<<a, b>>) = <<b>> /\ <<a, b>>[1] = a
  OBVIOUS
<1>3. \A a, b, e : Tail(<<a, b, e>>) = <<b, e>> /\ <<a, b, e>>[1] = a
  OBVIOUS
<1>4. \A a, b, e, f : Tail(<<a, b, e, f>>) = <<b, e, f>> /\ <<a, b, e, f>>[1] = a
  OBVIOUS
<1> QED
  BY <1>1, <1>2, <1>3, <1>4

-----------------------------------------------------------------------------
\* The keys and the references of the people's collections.
LEMMA PeopleKeys ==
  /\ UniqueKeys("users") = {{"email"}} /\ UniqueKeys("organizations") = {{"slug"}}
  /\ UniqueKeys("memberships") = {{"organizationId", "userId"}}
  /\ UniqueKeys("audit_logs") = {}
BY DEF UniqueKeys, Unique

LEMMA PeopleReferences ==
  \A ref \in References :
     /\ ref.child \notin {"users", "organizations"} /\ ref.parent # "memberships"
     /\ ref.child = "memberships" =>
           \/ ref.field = "organizationId" /\ ref.parent = "organizations"
           \/ ref.field = "userId" /\ ref.parent = "users"
     /\ ref.child = "audit_logs" => ref.field = "organizationId" /\ ref.parent = "organizations"
<1> DEFINE Fits(refs) == \A ref \in refs :
             /\ ref.child \notin {"users", "organizations"} /\ ref.parent # "memberships"
             /\ ref.child = "memberships" =>
                   \/ ref.field = "organizationId" /\ ref.parent = "organizations"
                   \/ ref.field = "userId" /\ ref.parent = "users"
             /\ ref.child = "audit_logs" =>
                   ref.field = "organizationId" /\ ref.parent = "organizations"
<1>1. ASSUME NEW S, "users" \notin S, "organizations" \notin S, NEW ref \in Tenants(S)
      PROVE  /\ ref.parent = "organizations" /\ ref.child \in S
             /\ ref.field = "organizationId" /\ ref.child \notin {"users", "organizations"}
  BY <1>1 DEF Tenants, Refers
<1>2. \A S : "users" \notin S /\ "organizations" \notin S => Fits(Tenants(S))
  BY <1>1
<1>3. Fits(IdentityRefs)
  BY <1>2 DEF IdentityRefs, Refers
<1>4. Fits(CommercialRefs)
  BY <1>2 DEF CommercialRefs, Refers
<1>5. Fits(SystemRefs)
  BY <1>2 DEF SystemRefs, Refers
<1>6. Fits(KnowledgeRefs)
  BY <1>2 DEF KnowledgeRefs, Refers
<1>7. Fits(EngineRefs)
  BY <1>2 DEF EngineRefs, Refers
<1>8. Fits(RecordRefs)
  BY <1>2 DEF RecordRefs, Refers
<1>9. Fits(AiRefs)
  BY <1>2 DEF AiRefs, Refers
<1>10. Fits(AuditRefs)
  BY DEF AuditRefs, Refers
<1> QED
  BY <1>3, <1>4, <1>5, <1>6, <1>7, <1>8, <1>9, <1>10 DEF References

\* A row that is added in order.
LEMMA AddedInOrder ==
  ASSUME AccountRequests, People, NEW c, Number(c) \in 1 .. served, NEW t \in PeopleTables,
         NEW row, IsRecord(row), "id" \in DOMAIN row, row.id = Number(c),
         db' = InsertRow(t, row), UNCHANGED served,
         t = "organizations" => "slug" \in DOMAIN row,
         t = "memberships" =>
            /\ {"organizationId", "userId", "role"} \subseteq DOMAIN row
            /\ row.organizationId \in Int /\ row.organizationId <= served
            /\ NoneOf("memberships", Number(c))
  PROVE  /\ PeopleShape'
         /\ db'[t] = db[t] \cup {row} /\ \A u \in PeopleTables \ {t} : db'[u] = db[u]
<1>1. PeopleShape /\ served \in Nat
  BY DEF People, AccountRequests
<1>2. t \in DOMAIN db /\ PeopleTables \subseteq DOMAIN db
  BY <1>1 DEF PeopleShape
<1>3. /\ DOMAIN db' = DOMAIN db /\ db'[t] = db[t] \cup {row}
      /\ \A u \in DOMAIN db \ {t} : db'[u] = db[u]
  BY <1>2, InsertsAdd
<1>4. row.id \in Int /\ row.id <= served
  BY <1>1
<1>5. ASSUME NEW u \in PeopleTables, NEW r \in db'[u]
      PROVE  IsRecord(r) /\ "id" \in DOMAIN r /\ r.id \in Int /\ r.id <= served
  <2>1. CASE r \in db[u]
    BY <1>1, <2>1 DEF PeopleShape
  <2>2. CASE r = row
    BY <1>4, <2>2
  <2> QED
    BY <1>2, <1>3, <1>5, <2>1, <2>2
<1>6. \A r \in db'["organizations"] : "slug" \in DOMAIN r
  BY <1>1, <1>2, <1>3 DEF PeopleShape, PeopleTables
<1>7. \A r \in db'["memberships"] :
         /\ {"organizationId", "userId", "role"} \subseteq DOMAIN r
         /\ r.organizationId \in Int /\ r.organizationId <= served
  BY <1>1, <1>2, <1>3 DEF PeopleShape, PeopleTables
<1>8. \A m, k \in db'["memberships"] : m.id = k.id => m = k
  <2>1. CASE t = "memberships"
    BY <1>1, <1>3, <2>1 DEF PeopleShape, NoneOf
  <2>2. CASE t # "memberships"
    BY <1>1, <1>2, <1>3, <2>2 DEF PeopleShape, PeopleTables
  <2> QED
    BY <2>1, <2>2
<1>9. PeopleTables \subseteq DOMAIN db'
  BY <1>2, <1>3
<1>10. \A r : IsRecord(r)' <=> IsRecord(r)
  BY DEF IsRecord
<1>11. PeopleShape'
  BY <1>5, <1>6, <1>7, <1>8, <1>9, <1>10 DEF PeopleShape
<1> QED
  BY <1>2, <1>3, <1>11

LEMMA UserCallKeeps ==
  ASSUME AccountRequests, People, CallsInv, NEW c \in Clients, StoreCall(c),
         loc[c].op = "signUp", SigningUp(c), UserDue(c)
  PROVE  AccountRequests' /\ People'
<1> DEFINE row == [id |-> Number(c), email |-> loc[c].email]
<1>1. /\ loc[c].calls = <<UserCall(c)>> /\ loc[c].next = "signUp.slug" /\ pc[c] = "calling"
      /\ NoneOf("users", Number(c)) /\ NoOrg(Number(c)) /\ AddressFree(loc[c].email)
  BY DEF UserDue, ToMake
<1>2. loc[c].calls[1] = UserCall(c) /\ Tail(loc[c].calls) = <<>>
  BY <1>1, FewCalls
<1>3. UserCall(c).call = "insert" /\ UserCall(c).table = "users" /\ UserCall(c).row = row
  BY DEF UserCall, Inserting
<1>4. /\ InFlight(c) /\ UNCHANGED <<served, history>>
      /\ Ended(c, UserCall(c)) \/ (Done(UserCall(c)) /\ Proceeds(c, <<>>))
  BY <1>2, <1>3, CallOutcome
<1>5. UNCHANGED <<postgres, met, cuts>> /\ cuts \subseteq cuts'
  BY <1>4 DEF history
<1>6. CASE Ended(c, UserCall(c))
  BY <1>1, <1>4, <1>5, <1>6, AccountEnds DEF Ended
<1>7. CASE Done(UserCall(c)) /\ Proceeds(c, <<>>)
  <2>1. ~Refused(UserCall(c)) /\ db' = InsertRow("users", row)
    BY <1>3, <1>7 DEF Done
  <2>2. IsRecord(row) /\ "id" \in DOMAIN row /\ row.id = Number(c) /\ row.email = loc[c].email
    BY DEF IsRecord
  <2>3. Goto(c, "signUp.slug", Nothing)
    BY <1>1, <1>7 DEF Proceeds
  <2>4. /\ "signUp.slug" \in AccountsPoints \ {"idle"} /\ "users" \in PeopleTables
        /\ DOMAIN Nothing = {"calls"}
    BY DEF AccountsPoints, PeopleTables, Nothing
  <2>5. AccountRequest(c) /\ Number(c) \in 1 .. served
    BY <1>4 DEF AccountRequests, AccountRequest
  <2> HIDE DEF row
  <2>6. /\ PeopleShape' /\ db'["users"] = db["users"] \cup {row}
        /\ \A u \in PeopleTables \ {"users"} : db'[u] = db[u]
    BY <1>4, <2>1, <2>2, <2>4, <2>5, AddedInOrder
  <2>7. /\ db'["organizations"] = db["organizations"] /\ db'["memberships"] = db["memberships"]
        /\ db'["audit_logs"] = db["audit_logs"]
    BY <2>6 DEF PeopleTables
  <2>8. PeopleMove(c)
    BY <2>2, <2>6, <2>7 DEF PeopleMove, UsersMove, OrgsMove, WordsMove, MembersMove
  <2>9. postgres \/ ~Met(Joining) => OneOfEach'
    <3> SUFFICES ASSUME postgres \/ ~Met(Joining) PROVE OneOfEach'
      OBVIOUS
    <3>1. OneOfEach
      BY DEF People
    <3>2. \A u \in db["users"] : u.email # loc[c].email
      <4>1. CASE postgres
        <5>1. ~Duplicates("users", row)
          BY <1>3, <2>1, <4>1 DEF Refused
        <5>2. {"email"} \in UniqueKeys("users")
          BY PeopleKeys
        <5> QED
          BY <2>2, <5>1, <5>2 DEF Duplicates
      <4>2. CASE ~postgres
        BY <1>1, <4>2 DEF AddressFree
      <4> QED
        BY <4>1, <4>2
    <3> QED
      BY <2>2, <2>6, <2>7, <3>1, <3>2 DEF OneOfEach
  <2>10. /\ pc' = [pc EXCEPT ![c] = "signUp.slug"] /\ pc'[c] = "signUp.slug"
         /\ DOMAIN loc' = Clients
         /\ \A d \in Clients \ {c} : pc'[d] = pc[d] /\ loc'[d] = loc[d]
         /\ DOMAIN loc'[c] = {"calls"} \cup DOMAIN loc[c]
         /\ {"op", "n", "org"} \subseteq DOMAIN loc'[c]
         /\ loc'[c].op = loc[c].op /\ loc'[c].n = loc[c].n /\ loc'[c].org = loc[c].org
         /\ Number(c)' = Number(c) /\ Number(c)' \in 1 .. served'
    BY <1>4, <2>3, <2>4, GoneOn
  <2>11. Has("users", Number(c))' /\ NoOrg(Number(c))'
    <3>1. Has("users", Number(c))'
      BY <2>2, <2>6, <2>10 DEF Has
    <3>2. \A d \in Clients : InFlight(d)' /\ loc'[d].op = "invite" =>
             InFlight(d) /\ loc[d].op = "invite" /\ loc'[d].org = loc[d].org
      BY <2>10 DEF InFlight
    <3> QED
      BY <1>1, <2>7, <2>10, <3>1, <3>2 DEF NoOrg, NoMembers, NoneOf
  <2>12. SigningUp(c)'
    BY <2>10, <2>11 DEF SigningUp, SlugDue
  <2>13. AccountRequest(c)'
    BY <2>10, <2>12 DEF AccountRequest
  <2>14. ~Met(Reassigning) =>
            /\ \A org : HasOwner(org) => HasOwner(org)'
            /\ \A m \in db'["memberships"] : HasOwner(m.organizationId)'
    BY <2>7 DEF HasOwner, People, OwnersStay
  <2> QED
    BY <1>4, <2>4, <2>6, <2>8, <2>9, <2>10, <2>13, <2>14, WrittenKeeps
<1> QED
  BY <1>4, <1>6, <1>7

\* A sign-up whose next call is done goes on with the others.
LEMMA SignUpGoesOn ==
  ASSUME AccountRequests, NEW c \in Clients, InFlight(c), loc[c].op = "signUp", SigningUp(c),
         loc[c].next = "idle", {"calls", "next"} \subseteq DOMAIN loc[c], UNCHANGED served,
         NEW calls, calls # <<>>, Proceeds(c, calls)
  PROVE  /\ "calling" \in AccountsPoints
         /\ pc' = [pc EXCEPT ![c] = "calling"] /\ pc'[c] = "calling"
         /\ DOMAIN loc' = Clients
         /\ \A d \in Clients \ {c} : pc'[d] = pc[d] /\ loc'[d] = loc[d]
         /\ DOMAIN loc'[c] = DOMAIN loc[c]
         /\ {"op", "n", "org", "calls", "next", "email", "company"} \subseteq DOMAIN loc'[c]
         /\ loc'[c].calls = calls /\ loc'[c].next = "idle"
         /\ loc'[c].op = "signUp" /\ loc'[c].n = loc[c].n /\ loc'[c].org = loc[c].org
         /\ loc'[c].org = Number(c)'
         /\ Number(c)' = Number(c) /\ InFlight(c)' /\ Number(c)' \in 1 .. served'
         /\ OwnerCall(c)' = OwnerCall(c) /\ WordCall(c)' = WordCall(c)
         /\ SessionCall(c)' = SessionCall(c)
<1> DEFINE locals == [calls |-> calls]
<1>1. /\ DOMAIN locals = {"calls"} /\ locals["calls"] = calls /\ Goto(c, "calling", locals)
      /\ DOMAIN locals \cap {"op", "n", "org"} = {}
  BY DEF Proceeds
<1> HIDE DEF locals
<1>2. "calling" \in AccountsPoints \ {"idle"}
  BY DEF AccountsPoints
<1>3. /\ pc' = [pc EXCEPT ![c] = "calling"] /\ pc'[c] = "calling" /\ DOMAIN loc' = Clients
      /\ \A d \in Clients \ {c} : pc'[d] = pc[d] /\ loc'[d] = loc[d]
      /\ DOMAIN loc'[c] = DOMAIN locals \cup DOMAIN loc[c]
      /\ \A f \in DOMAIN locals : loc'[c][f] = locals[f]
      /\ \A f \in DOMAIN loc[c] : f \notin DOMAIN locals => loc'[c][f] = loc[c][f]
      /\ {"op", "n", "org"} \subseteq DOMAIN loc'[c]
      /\ loc'[c].op = loc[c].op /\ loc'[c].n = loc[c].n /\ loc'[c].org = loc[c].org
      /\ Number(c)' = Number(c) /\ InFlight(c)' /\ Number(c)' \in 1 .. served'
  BY <1>1, <1>2, GoneOn
<1>4. /\ loc[c].org = Number(c) /\ {"email", "company"} \subseteq DOMAIN loc[c]
  BY DEF SigningUp
<1>5. DOMAIN loc'[c] = DOMAIN loc[c] /\ loc'[c].calls = calls /\ loc'[c].next = "idle"
  BY <1>1, <1>3
<1>6. /\ OwnerCall(c)' = OwnerCall(c) /\ WordCall(c)' = WordCall(c)
      /\ SessionCall(c)' = SessionCall(c)
  BY <1>3 DEF OwnerCall, WordCall, SessionCall, Auditing, NewSession
<1> QED
  BY <1>2, <1>3, <1>4, <1>5, <1>6

\* Nobody is invited to an organization that is still to be joined.
LEMMA NoMembersStays ==
  ASSUME NEW c \in Clients, InFlight(c), loc[c].op = "signUp", loc'[c].op = "signUp",
         \A d \in Clients \ {c} : pc'[d] = pc[d] /\ loc'[d] = loc[d],
         db'["memberships"] = db["memberships"], NEW n, NoMembers(n)
  PROVE  NoMembers(n)'
<1>1. \A d \in Clients : InFlight(d)' /\ loc'[d].op = "invite" =>
         InFlight(d) /\ loc[d].op = "invite" /\ loc'[d].org = loc[d].org
  BY DEF InFlight
<1> QED
  BY <1>1 DEF NoMembers

LEMMA OrgCallKeeps ==
  ASSUME AccountRequests, People, CallsInv, NEW c \in Clients, StoreCall(c),
         loc[c].op = "signUp", SigningUp(c), OrgDue(c)
  PROVE  AccountRequests' /\ People'
<1>1. PICK slug : /\ SlugFree(slug)
                  /\ ToMake(c, <<OrgCall(c, slug), OwnerCall(c), WordCall(c), SessionCall(c)>>,
                            "idle")
  BY DEF OrgDue
<1> DEFINE row == [id |-> Number(c), slug |-> slug, sandboxMode |-> TRUE]
           k == OrgCall(c, slug)
           rest == <<OwnerCall(c), WordCall(c), SessionCall(c)>>
<1>2. /\ loc[c].calls[1] = k /\ Tail(loc[c].calls) = rest /\ rest # <<>>
      /\ loc[c].next = "idle" /\ pc[c] = "calling"
      /\ Has("users", Number(c)) /\ NoOrg(Number(c))
  BY <1>1, FewCalls DEF OrgDue, ToMake
<1>3. k.call = "insert" /\ k.table = "organizations" /\ k.row = row
  BY DEF OrgCall, Inserting
<1>4. IsRecord(row) /\ {"id", "slug"} \subseteq DOMAIN row /\ row.id = Number(c) /\ row.slug = slug
  BY DEF IsRecord
<1> HIDE DEF k, row, rest
<1>5. /\ InFlight(c) /\ UNCHANGED <<served, history>>
      /\ {"calls", "next"} \subseteq DOMAIN loc[c]
      /\ Ended(c, k) \/ (Done(k) /\ Proceeds(c, rest))
  BY <1>2, <1>3, CallOutcome
<1>6. UNCHANGED <<postgres, met, cuts>> /\ cuts \subseteq cuts'
  BY <1>5 DEF history
<1>7. CASE Ended(c, k)
  <2>1. postgres /\ (Duplicates("organizations", row) \/ RefersToNothing("organizations", row))
    BY <1>3, <1>7 DEF Ended, Refused
  <2>2. ~RefersToNothing("organizations", row)
    BY PeopleReferences DEF RefersToNothing, RefersTo
  <2>3. Met({"signUp"})
    <3> SUFFICES ASSUME ~Met({"signUp"}) PROVE ~Duplicates("organizations", row)
      BY <2>1, <2>2
    <3>1. \A r \in db["organizations"] : r.slug # slug /\ r.id # Number(c)
      BY <1>1, <1>2, <2>1 DEF SlugFree, NoOrg, NoneOf
    <3> QED
      BY <1>4, <3>1, PeopleKeys DEF Duplicates
  <2> QED
    BY <1>5, <1>6, <1>7, <2>1, <2>3, AccountEnds DEF Ended
<1>8. CASE Done(k) /\ Proceeds(c, rest)
  <2>1. db' = InsertRow("organizations", row)
    BY <1>3, <1>8 DEF Done
  <2>2. "organizations" \in PeopleTables /\ AccountRequest(c) /\ Number(c) \in 1 .. served
    BY <1>5 DEF PeopleTables, AccountRequests, AccountRequest
  <2>3. /\ PeopleShape' /\ db'["organizations"] = db["organizations"] \cup {row}
        /\ \A u \in PeopleTables \ {"organizations"} : db'[u] = db[u]
    BY <1>4, <1>5, <2>1, <2>2, AddedInOrder
  <2>4. /\ db'["users"] = db["users"] /\ db'["memberships"] = db["memberships"]
        /\ db'["audit_logs"] = db["audit_logs"]
    BY <2>3 DEF PeopleTables
  <2>5. PeopleMove(c)
    BY <1>4, <2>3, <2>4 DEF PeopleMove, UsersMove, OrgsMove, WordsMove, MembersMove
  <2>6. postgres \/ ~Met(Joining) => OneOfEach'
    BY <2>4 DEF OneOfEach, People
  <2>7. /\ "calling" \in AccountsPoints
        /\ pc' = [pc EXCEPT ![c] = "calling"] /\ pc'[c] = "calling" /\ DOMAIN loc' = Clients
        /\ \A d \in Clients \ {c} : pc'[d] = pc[d] /\ loc'[d] = loc[d]
        /\ {"op", "n", "org", "calls", "next", "email", "company"} \subseteq DOMAIN loc'[c]
        /\ loc'[c].calls = rest /\ loc'[c].next = "idle"
        /\ loc'[c].op = "signUp" /\ loc'[c].n = loc[c].n /\ loc'[c].org = loc[c].org
        /\ loc'[c].org = Number(c)'
        /\ Number(c)' = Number(c) /\ InFlight(c)' /\ Number(c)' \in 1 .. served'
        /\ OwnerCall(c)' = OwnerCall(c) /\ WordCall(c)' = WordCall(c)
        /\ SessionCall(c)' = SessionCall(c)
    BY <1>2, <1>5, <1>8, SignUpGoesOn
  <2>8. OwnerDue(c)'
    <3>1. ToMake(c, <<OwnerCall(c), WordCall(c), SessionCall(c)>>, "idle")'
      BY <2>7 DEF ToMake, rest
    <3>2. Has("users", Number(c))' /\ NoneOf("audit_logs", Number(c))'
      BY <1>2, <2>4, <2>7 DEF Has, NoneOf, NoOrg
    <3>3. Has("organizations", Number(c))'
      BY <1>4, <2>3, <2>7 DEF Has
    <3>4. NoMembers(Number(c))'
      <4>1. \A n : NoMembers(n) => NoMembers(n)'
        BY <1>5, <2>4, <2>7, NoMembersStays
      <4>2. NoMembers(Number(c))
        BY <1>2 DEF NoOrg
      <4>3. \A n : n = Number(c)' /\ NoMembers(n)' => NoMembers(Number(c))'
        BY DEF NoMembers
      <4> QED
        BY <2>7, <4>1, <4>2, <4>3
    <3> QED
      BY <3>1, <3>2, <3>3, <3>4 DEF OwnerDue, NoOwner
  <2>9. AccountRequest(c)'
    <3>1. SigningUp(c)'
      BY <2>7, <2>8 DEF SigningUp
    <3> QED
      BY <2>7, <3>1 DEF AccountRequest
  <2>10. ~Met(Reassigning) =>
            /\ \A org : HasOwner(org) => HasOwner(org)'
            /\ \A m \in db'["memberships"] : HasOwner(m.organizationId)'
    BY <2>4 DEF HasOwner, People, OwnersStay
  <2> QED
    BY <1>5, <2>3, <2>4, <2>5, <2>6, <2>7, <2>9, <2>10, WrittenKeeps
<1> QED
  BY <1>5, <1>7, <1>8

LEMMA OwnerCallKeeps ==
  ASSUME AccountRequests, People, CallsInv, NEW c \in Clients, StoreCall(c),
         loc[c].op = "signUp", SigningUp(c), OwnerDue(c)
  PROVE  AccountRequests' /\ People'
<1> DEFINE row == [id |-> Number(c), organizationId |-> Number(c), userId |-> Number(c),
                   role |-> "customer_owner"]
           k == OwnerCall(c)
           rest == <<WordCall(c), SessionCall(c)>>
<1>1. /\ loc[c].calls[1] = k /\ Tail(loc[c].calls) = rest /\ rest # <<>>
      /\ loc[c].next = "idle" /\ pc[c] = "calling"
      /\ Has("users", Number(c)) /\ NoOwner(Number(c))
  BY FewCalls DEF OwnerDue, ToMake
<1>2. k.call = "insert" /\ k.table = "memberships" /\ k.row = row
  BY DEF OwnerCall, Inserting
<1>3. /\ IsRecord(row) /\ DOMAIN row = {"id", "organizationId", "userId", "role"}
      /\ row.id = Number(c) /\ row.organizationId = Number(c) /\ row.userId = Number(c)
      /\ row.role = "customer_owner"
  BY DEF IsRecord
<1> HIDE DEF k, row, rest
<1>4. /\ InFlight(c) /\ UNCHANGED <<served, history>>
      /\ {"calls", "next"} \subseteq DOMAIN loc[c]
      /\ Ended(c, k) \/ (Done(k) /\ Proceeds(c, rest))
  BY <1>1, <1>2, CallOutcome
<1>5. UNCHANGED <<postgres, met, cuts>> /\ PeopleShape
  BY <1>4 DEF history, People
<1>6. \A m \in db["memberships"] : m.id # Number(c) /\ m.organizationId # Number(c)
  BY <1>1 DEF NoOwner, NoMembers
<1>7. ~Refused(k)
  <2>1. ~Duplicates("memberships", row)
    BY <1>3, <1>6, PeopleKeys DEF Duplicates
  <2>2. ~RefersToNothing("memberships", row)
    <3>1. /\ ById("organizations", Number(c)) # {} /\ ById("users", Number(c)) # {}
      BY <1>1, <1>5 DEF Has, NoOwner, ById, Table, PeopleShape, PeopleTables
    <3> QED
      BY <1>3, <3>1, PeopleReferences DEF RefersToNothing, RefersTo
  <2> QED
    BY <1>2, <2>1, <2>2 DEF Refused
<1>8. Done(k) /\ Proceeds(c, rest)
  BY <1>2, <1>4, <1>7 DEF Ended
<1>9. db' = InsertRow("memberships", row)
  BY <1>2, <1>8 DEF Done
<1>10. /\ "memberships" \in PeopleTables /\ AccountRequest(c) /\ Number(c) \in 1 .. served
       /\ NoneOf("memberships", Number(c)) /\ served \in Nat
  BY <1>4, <1>6 DEF PeopleTables, AccountRequests, AccountRequest, NoneOf
<1>11. Number(c) \in Int /\ Number(c) <= served
  BY <1>10
<1>12. /\ PeopleShape' /\ db'["memberships"] = db["memberships"] \cup {row}
       /\ \A u \in PeopleTables \ {"memberships"} : db'[u] = db[u]
  BY <1>3, <1>4, <1>9, <1>10, <1>11, AddedInOrder
<1>13. /\ db'["users"] = db["users"] /\ db'["organizations"] = db["organizations"]
       /\ db'["audit_logs"] = db["audit_logs"]
  BY <1>12 DEF PeopleTables
<1>14. loc[c].org = Number(c)
  BY DEF SigningUp
<1>15. PeopleMove(c)
  BY <1>3, <1>10, <1>12, <1>13, <1>14
     DEF PeopleMove, UsersMove, OrgsMove, WordsMove, MembersMove, Joining
<1>16. postgres \/ ~Met(Joining) => OneOfEach'
  BY <1>3, <1>6, <1>12, <1>13 DEF OneOfEach, People
<1>17. /\ "calling" \in AccountsPoints
       /\ pc' = [pc EXCEPT ![c] = "calling"] /\ pc'[c] = "calling" /\ DOMAIN loc' = Clients
       /\ \A d \in Clients \ {c} : pc'[d] = pc[d] /\ loc'[d] = loc[d]
       /\ {"op", "n", "org", "calls", "next", "email", "company"} \subseteq DOMAIN loc'[c]
       /\ loc'[c].calls = rest /\ loc'[c].next = "idle"
       /\ loc'[c].op = "signUp" /\ loc'[c].n = loc[c].n /\ loc'[c].org = loc[c].org
       /\ loc'[c].org = Number(c)'
       /\ Number(c)' = Number(c) /\ InFlight(c)' /\ Number(c)' \in 1 .. served'
       /\ WordCall(c)' = WordCall(c) /\ SessionCall(c)' = SessionCall(c)
  BY <1>1, <1>4, <1>8, SignUpGoesOn
<1>18. WordDue(c)'
  <2>1. ToMake(c, <<WordCall(c), SessionCall(c)>>, "idle")'
    BY <1>17 DEF ToMake, rest
  <2>2. Has("organizations", Number(c))' /\ NoneOf("audit_logs", Number(c))'
    BY <1>1, <1>13, <1>17 DEF Has, NoneOf, NoOwner
  <2> QED
    BY <2>1, <2>2 DEF WordDue
<1>19. AccountRequest(c)'
  <2>1. SigningUp(c)'
    BY <1>17, <1>18 DEF SigningUp
  <2> QED
    BY <1>17, <2>1 DEF AccountRequest
<1>20. ~Met(Reassigning) =>
          /\ \A org : HasOwner(org) => HasOwner(org)'
          /\ \A m \in db'["memberships"] : HasOwner(m.organizationId)'
  BY <1>3, <1>12 DEF HasOwner, People, OwnersStay
<1> QED
  BY <1>4, <1>12, <1>13, <1>15, <1>16, <1>17, <1>19, <1>20, WrittenKeeps

LEMMA WordCallKeeps ==
  ASSUME AccountRequests, People, CallsInv, NEW c \in Clients, StoreCall(c),
         loc[c].op = "signUp", SigningUp(c), WordDue(c)
  PROVE  AccountRequests' /\ People'
<1> DEFINE row == [id |-> Number(c), organizationId |-> loc[c].org, action |-> "user.sign_up",
                   about |-> Number(c)]
           k == WordCall(c)
           rest == <<SessionCall(c)>>
<1>1. /\ loc[c].calls[1] = k /\ Tail(loc[c].calls) = rest /\ rest # <<>>
      /\ loc[c].next = "idle" /\ pc[c] = "calling"
      /\ Has("organizations", Number(c)) /\ NoneOf("audit_logs", Number(c))
  BY FewCalls DEF WordDue, ToMake
<1>2. k.call = "insert" /\ k.table = "audit_logs" /\ k.row = row
  BY DEF WordCall, Auditing, Inserting
<1>3. /\ IsRecord(row) /\ DOMAIN row = {"id", "organizationId", "action", "about"}
      /\ row.id = Number(c) /\ row.organizationId = loc[c].org /\ row.action = "user.sign_up"
  BY DEF IsRecord
<1> HIDE DEF k, row, rest
<1>4. /\ InFlight(c) /\ UNCHANGED <<served, history>>
      /\ {"calls", "next"} \subseteq DOMAIN loc[c]
      /\ Ended(c, k) \/ (Done(k) /\ Proceeds(c, rest))
  BY <1>1, <1>2, CallOutcome
<1>5. UNCHANGED <<postgres, met, cuts>> /\ PeopleShape /\ loc[c].org = Number(c)
  BY <1>4 DEF history, People, SigningUp
<1>7. ~Refused(k)
  <2>1. ~Duplicates("audit_logs", row)
    BY <1>1, <1>3, PeopleKeys DEF Duplicates, NoneOf
  <2>2. ~RefersToNothing("audit_logs", row)
    <3>1. /\ ById("organizations", Number(c)) # {}
      BY <1>1, <1>5 DEF Has, ById, Table, PeopleShape, PeopleTables
    <3> QED
      BY <1>3, <1>5, <3>1, PeopleReferences DEF RefersToNothing, RefersTo
  <2> QED
    BY <1>2, <2>1, <2>2 DEF Refused
<1>8. Done(k) /\ Proceeds(c, rest)
  BY <1>2, <1>4, <1>7 DEF Ended
<1>9. db' = InsertRow("audit_logs", row)
  BY <1>2, <1>8 DEF Done
<1>10. "audit_logs" \in PeopleTables /\ AccountRequest(c) /\ Number(c) \in 1 .. served
  BY <1>4 DEF PeopleTables, AccountRequests, AccountRequest
<1>12. /\ PeopleShape' /\ db'["audit_logs"] = db["audit_logs"] \cup {row}
       /\ \A u \in PeopleTables \ {"audit_logs"} : db'[u] = db[u]
  BY <1>3, <1>4, <1>9, <1>10, AddedInOrder
<1>13. /\ db'["users"] = db["users"] /\ db'["organizations"] = db["organizations"]
       /\ db'["memberships"] = db["memberships"]
  BY <1>12 DEF PeopleTables
<1>15. PeopleMove(c)
  BY <1>3, <1>12, <1>13 DEF PeopleMove, UsersMove, OrgsMove, WordsMove, MembersMove
<1>16. postgres \/ ~Met(Joining) => OneOfEach'
  BY <1>13 DEF OneOfEach, People
<1>17. /\ "calling" \in AccountsPoints
       /\ pc' = [pc EXCEPT ![c] = "calling"] /\ pc'[c] = "calling" /\ DOMAIN loc' = Clients
       /\ \A d \in Clients \ {c} : pc'[d] = pc[d] /\ loc'[d] = loc[d]
       /\ {"op", "n", "org", "calls", "next", "email", "company"} \subseteq DOMAIN loc'[c]
       /\ loc'[c].calls = rest /\ loc'[c].next = "idle"
       /\ loc'[c].op = "signUp" /\ loc'[c].n = loc[c].n /\ loc'[c].org = loc[c].org
       /\ loc'[c].org = Number(c)'
       /\ Number(c)' = Number(c) /\ InFlight(c)' /\ Number(c)' \in 1 .. served'
       /\ SessionCall(c)' = SessionCall(c)
  BY <1>1, <1>4, <1>8, SignUpGoesOn
<1>18. SessionDue(c)'
  <2>1. ToMake(c, <<SessionCall(c)>>, "idle")'
    BY <1>17 DEF ToMake, rest
  <2>2. Has("organizations", Number(c))'
    BY <1>1, <1>13, <1>17 DEF Has
  <2>3. HasWord(Number(c))'
    BY <1>3, <1>12, <1>17 DEF HasWord
  <2> QED
    BY <2>1, <2>2, <2>3 DEF SessionDue
<1>19. AccountRequest(c)'
  <2>1. SigningUp(c)'
    BY <1>17, <1>18 DEF SigningUp
  <2> QED
    BY <1>17, <2>1 DEF AccountRequest
<1>20. ~Met(Reassigning) =>
          /\ \A org : HasOwner(org) => HasOwner(org)'
          /\ \A m \in db'["memberships"] : HasOwner(m.organizationId)'
  BY <1>13 DEF HasOwner, People, OwnersStay
<1> QED
  BY <1>4, <1>12, <1>13, <1>15, <1>16, <1>17, <1>19, <1>20, WrittenKeeps

-----------------------------------------------------------------------------
\* A call that decides nothing leaves the users and the members as they are, and the
\* organizations with their slugs.
LEMMA MinorDone ==
  ASSUME AccountRequests, People, NEW c \in Clients, InFlight(c), UNCHANGED served,
         NEW k, Minor(Number(c), k), Done(k)
  PROVE  /\ PeopleMove(c) /\ PeopleShape' /\ (OneOfEach => OneOfEach')
         /\ db'["users"] = db["users"] /\ db'["memberships"] = db["memberships"]
<1>1. PeopleShape /\ served \in Nat /\ AccountRequest(c) /\ Number(c) \in 1 .. served
  BY DEF People, AccountRequests, AccountRequest
<1>2. PeopleTables \subseteq DOMAIN db
  BY <1>1 DEF PeopleShape
<1>3. \A r : IsRecord(r)' <=> IsRecord(r)
  BY DEF IsRecord
<1>4. CASE k.table \in {"sessions", "notifications"} /\ k.call \in {"insert", "update"}
  <2>1. DOMAIN db' = DOMAIN db /\ \A t \in DOMAIN db : t # k.table => db'[t] = db[t]
    BY <1>4 DEF Done, InsertRow, UpdateRow
  <2>2. \A t \in PeopleTables : db'[t] = db[t]
    BY <1>2, <1>4, <2>1 DEF PeopleTables
  <2>3. /\ db'["users"] = db["users"] /\ db'["memberships"] = db["memberships"]
        /\ db'["organizations"] = db["organizations"] /\ db'["audit_logs"] = db["audit_logs"]
    BY <2>2 DEF PeopleTables
  <2>4. PeopleShape'
    BY <1>1, <1>3, <2>1, <2>2, <2>3 DEF PeopleShape
  <2>5. PeopleMove(c)
    BY <2>3 DEF PeopleMove, UsersMove, OrgsMove, WordsMove, MembersMove
  <2> QED
    BY <2>3, <2>4, <2>5 DEF OneOfEach
<1>5. CASE /\ k.table = "audit_logs" /\ k.call = "insert"
           /\ IsRecord(k.row) /\ "id" \in DOMAIN k.row /\ k.row.id = Number(c)
  <2>1. db' = InsertRow("audit_logs", k.row)
    BY <1>5 DEF Done
  <2>2. "audit_logs" \in PeopleTables
    BY DEF PeopleTables
  <2>3. /\ PeopleShape' /\ db'["audit_logs"] = db["audit_logs"] \cup {k.row}
        /\ \A u \in PeopleTables \ {"audit_logs"} : db'[u] = db[u]
    BY <1>1, <1>5, <2>1, <2>2, AddedInOrder
  <2>4. /\ db'["users"] = db["users"] /\ db'["memberships"] = db["memberships"]
        /\ db'["organizations"] = db["organizations"]
    BY <2>3 DEF PeopleTables
  <2>5. PeopleMove(c)
    BY <1>5, <2>3, <2>4 DEF PeopleMove, UsersMove, OrgsMove, WordsMove, MembersMove
  <2> QED
    BY <2>3, <2>4, <2>5 DEF OneOfEach
<1>6. CASE /\ k.table = "organizations" /\ k.call = "update"
           /\ DOMAIN k.row \cap {"id", "slug"} = {}
  <2> DEFINE new(r) == IF r.id = k.id THEN Over(k.row, r) ELSE r
  <2>1. /\ DOMAIN db' = DOMAIN db /\ \A t \in DOMAIN db : t # "organizations" => db'[t] = db[t]
        /\ db'["organizations"] = {new(r) : r \in db["organizations"]}
    BY <1>2, <1>6 DEF Done, UpdateRow, PeopleTables
  <2>2. \A r \in db["organizations"] :
           /\ IsRecord(new(r)) /\ {"id", "slug"} \subseteq DOMAIN new(r)
           /\ new(r).id = r.id /\ new(r).slug = r.slug
    <3> SUFFICES ASSUME NEW r \in db["organizations"]
                 PROVE  /\ IsRecord(new(r)) /\ {"id", "slug"} \subseteq DOMAIN new(r)
                        /\ new(r).id = r.id /\ new(r).slug = r.slug
      OBVIOUS
    <3>1. IsRecord(r) /\ {"id", "slug"} \subseteq DOMAIN r
      BY <1>1 DEF PeopleShape, PeopleTables
    <3>2. /\ IsRecord(Over(k.row, r)) /\ {"id", "slug"} \subseteq DOMAIN Over(k.row, r)
          /\ Over(k.row, r).id = r.id /\ Over(k.row, r).slug = r.slug
      BY <1>6, <3>1 DEF Over, IsRecord
    <3> QED
      BY <3>1, <3>2
  <2> HIDE DEF new
  <2>3. /\ db'["users"] = db["users"] /\ db'["memberships"] = db["memberships"]
        /\ db'["audit_logs"] = db["audit_logs"]
    BY <1>2, <2>1 DEF PeopleTables
  <2>4. \A p \in db'["organizations"] : \E r \in db["organizations"] :
           /\ IsRecord(p) /\ {"id", "slug"} \subseteq DOMAIN p
           /\ p.id = r.id /\ p.slug = r.slug
    BY <2>1, <2>2
  <2>5. \A r \in db["organizations"] : \E p \in db'["organizations"] : p.id = r.id
    BY <2>1, <2>2
  <2>6. PeopleShape'
    <3>1. \A t \in PeopleTables : \A r \in db'[t] :
             IsRecord(r) /\ "id" \in DOMAIN r /\ r.id \in Int /\ r.id <= served
      BY <1>1, <2>3, <2>4 DEF PeopleShape, PeopleTables
    <3>2. \A r \in db'["organizations"] : "slug" \in DOMAIN r
      BY <2>4
    <3> QED
      BY <1>1, <1>3, <2>1, <2>3, <3>1, <3>2 DEF PeopleShape
  <2>7. PeopleMove(c)
    BY <2>3, <2>4, <2>5 DEF PeopleMove, UsersMove, OrgsMove, WordsMove, MembersMove
  <2> QED
    BY <2>3, <2>6, <2>7 DEF OneOfEach
<1> QED
  BY <1>4, <1>5, <1>6 DEF Minor

\* A request that made the first of its last calls ends, or goes on with the others, of
\* which none decides anything.
LEMMA AfterFirst ==
  ASSUME AccountRequests, NEW c \in Clients, InFlight(c), UNCHANGED served,
         pc[c] = "calling", loc[c].next = "idle", {"calls", "next"} \subseteq DOMAIN loc[c],
         IsSequence(loc[c].calls), loc[c].calls # <<>>,
         \A i \in DOMAIN loc[c].calls : i # 1 => Minor(Number(c), loc[c].calls[i]),
         Proceeds(c, Tail(loc[c].calls))
  PROVE  /\ DOMAIN loc' = Clients /\ \A d \in Clients \ {c} : loc'[d] = loc[d]
         /\ \/ pc' = [pc EXCEPT ![c] = "idle"]
            \/ /\ pc' = [pc EXCEPT ![c] = "calling"] /\ MinorLeft(c)' /\ pc'[c] = "calling"
               /\ DOMAIN loc'[c] = DOMAIN loc[c]
               /\ \A f \in DOMAIN loc[c] \ {"calls"} : loc'[c][f] = loc[c][f]
               /\ {"op", "n", "org"} \subseteq DOMAIN loc'[c]
               /\ loc'[c].op = loc[c].op /\ loc'[c].n = loc[c].n /\ loc'[c].org = loc[c].org
               /\ Number(c)' = Number(c) /\ Number(c)' \in 1 .. served'
<1> DEFINE rest == Tail(loc[c].calls)
<1>1. CASE rest = <<>>
  <2>1. Respond(c)
    BY <1>1 DEF Proceeds
  <2> QED
    BY <2>1 DEF Respond, AccountRequests
<1>2. CASE rest # <<>>
  <2> DEFINE locals == [calls |-> rest]
  <2>1. /\ DOMAIN locals = {"calls"} /\ locals["calls"] = rest /\ Goto(c, "calling", locals)
        /\ DOMAIN locals \cap {"op", "n", "org"} = {}
    BY <1>2 DEF Proceeds
  <2> HIDE DEF locals
  <2>2. "calling" \in AccountsPoints \ {"idle"}
    BY DEF AccountsPoints
  <2>3. /\ pc' = [pc EXCEPT ![c] = "calling"] /\ pc'[c] = "calling" /\ DOMAIN loc' = Clients
        /\ \A d \in Clients \ {c} : pc'[d] = pc[d] /\ loc'[d] = loc[d]
        /\ DOMAIN loc'[c] = DOMAIN locals \cup DOMAIN loc[c]
        /\ \A f \in DOMAIN locals : loc'[c][f] = locals[f]
        /\ \A f \in DOMAIN loc[c] : f \notin DOMAIN locals => loc'[c][f] = loc[c][f]
        /\ {"op", "n", "org"} \subseteq DOMAIN loc'[c]
        /\ loc'[c].op = loc[c].op /\ loc'[c].n = loc[c].n /\ loc'[c].org = loc[c].org
        /\ Number(c)' = Number(c) /\ InFlight(c)' /\ Number(c)' \in 1 .. served'
    BY <2>1, <2>2, GoneOn
  <2>4. \A i \in DOMAIN rest : i + 1 \in DOMAIN loc[c].calls /\ rest[i] = loc[c].calls[i + 1]
                                /\ i + 1 # 1
    BY TailOf
  <2>5. loc'[c].calls = rest /\ loc'[c].next = "idle"
    BY <2>1, <2>3
  <2>6. MinorLeft(c)'
    <3>1. \A i \in DOMAIN rest : Minor(Number(c), rest[i])
      BY <2>4
    <3>2. \A i \in DOMAIN rest : Minor(Number(c)', rest[i])
      BY <2>3, <3>1
    <3> HIDE DEF rest
    <3> QED
      BY <2>3, <2>5, <3>2 DEF MinorLeft, Minor, IsRecord
  <2> QED
    BY <2>1, <2>3, <2>6
<1> QED
  BY <1>1, <1>2

\* What a request knows once only calls are left that decide nothing.
LEMMA MinorRequest ==
  ASSUME AccountRequests, NEW c \in Clients, InFlight(c), pc[c] = "calling", UNCHANGED served,
         loc[c].op # "signUp", MinorLeft(c)', pc'[c] = "calling",
         {"calls", "next"} \subseteq DOMAIN loc[c], DOMAIN loc'[c] = DOMAIN loc[c],
         \A f \in DOMAIN loc[c] \ {"calls"} : loc'[c][f] = loc[c][f],
         {"op", "n", "org"} \subseteq DOMAIN loc'[c],
         loc'[c].op = loc[c].op, loc'[c].org = loc[c].org, Number(c)' \in 1 .. served'
  PROVE  AccountRequest(c)'
<1>1. AccountRequest(c)
  BY DEF AccountRequests
<1>2. CASE loc[c].op = "invite"
  <2>1. Inviting(c)
    BY <1>1, <1>2 DEF AccountRequest, Reassigning
  <2>2. Inviting(c)'
    BY <2>1 DEF Inviting
  <2> QED
    BY <1>2, <2>2 DEF AccountRequest
<1>3. CASE loc[c].op \in Reassigning
  <2>1. ChangingRole(c)
    BY <1>1, <1>3 DEF AccountRequest, Reassigning
  <2>2. ChangingRole(c)'
    BY <2>1 DEF ChangingRole
  <2> QED
    BY <1>3, <2>2 DEF AccountRequest
<1>4. CASE loc[c].op \in {"signOut", "sandbox"}
  BY <1>4 DEF AccountRequest
<1> QED
  BY <1>1, <1>2, <1>3, <1>4 DEF AccountRequest

\* The first call of those that are left.
LEMMA FirstCall ==
  ASSUME CallsInv, NEW c \in Clients, StoreCall(c)
  PROVE  /\ pc[c] = "calling" /\ 1 \in DOMAIN loc[c].calls
<1>1. pc[c] = "calling" /\ IsSequence(loc[c].calls) /\ loc[c].calls # <<>>
  BY DEF StoreCall, At, CallsInv, OwnCalls
<1> QED
  BY <1>1, TailOf, SequenceSpan

LEMMA MinorCallKeeps ==
  ASSUME AccountRequests, People, CallsInv, NEW c \in Clients, StoreCall(c),
         loc[c].op # "signUp", MinorLeft(c)
  PROVE  AccountRequests' /\ People'
<1>1. PICK k : k = loc[c].calls[1]
  OBVIOUS
<1>2. Minor(Number(c), k) /\ k.call \in {"insert", "update"}
  BY <1>1, FirstCall DEF MinorLeft, Minor
<1>3. /\ pc[c] = "calling" /\ InFlight(c) /\ UNCHANGED <<served, history>>
      /\ {"calls", "next"} \subseteq DOMAIN loc[c] /\ loc[c].next = "idle"
      /\ IsSequence(loc[c].calls) /\ loc[c].calls # <<>>
      /\ Ended(c, k) \/ (Done(k) /\ Proceeds(c, Tail(loc[c].calls)))
  BY <1>1, <1>2, CallOutcome DEF MinorLeft
<1>4. UNCHANGED <<postgres, met, cuts>> /\ cuts \subseteq cuts'
  BY <1>3 DEF history
<1>5. CASE Ended(c, k)
  BY <1>3, <1>4, <1>5, AccountEnds DEF Ended
<1>6. CASE Done(k) /\ Proceeds(c, Tail(loc[c].calls))
  <2>1. /\ PeopleMove(c) /\ PeopleShape' /\ (OneOfEach => OneOfEach')
        /\ db'["users"] = db["users"] /\ db'["memberships"] = db["memberships"]
    BY <1>2, <1>3, <1>6, MinorDone
  <2>2. \A i \in DOMAIN loc[c].calls : i # 1 => Minor(Number(c), loc[c].calls[i])
    BY DEF MinorLeft
  <2>3. /\ DOMAIN loc' = Clients /\ \A d \in Clients \ {c} : loc'[d] = loc[d]
        /\ \/ pc' = [pc EXCEPT ![c] = "idle"]
           \/ /\ pc' = [pc EXCEPT ![c] = "calling"] /\ MinorLeft(c)' /\ pc'[c] = "calling"
              /\ DOMAIN loc'[c] = DOMAIN loc[c]
              /\ \A f \in DOMAIN loc[c] \ {"calls"} : loc'[c][f] = loc[c][f]
              /\ {"op", "n", "org"} \subseteq DOMAIN loc'[c]
              /\ loc'[c].op = loc[c].op /\ loc'[c].n = loc[c].n /\ loc'[c].org = loc[c].org
              /\ Number(c)' = Number(c) /\ Number(c)' \in 1 .. served'
    BY <1>3, <1>6, <2>2, AfterFirst
  <2>4. postgres \/ ~Met(Joining) => OneOfEach'
    BY <2>1 DEF People
  <2>5. ~Met(Reassigning) =>
            /\ \A org : HasOwner(org) => HasOwner(org)'
            /\ \A m \in db'["memberships"] : HasOwner(m.organizationId)'
    BY <2>1 DEF HasOwner, People, OwnersStay
  <2>6. "idle" \in AccountsPoints /\ "calling" \in AccountsPoints
    BY DEF AccountsPoints
  <2>7. CASE pc' = [pc EXCEPT ![c] = "idle"]
    BY <1>3, <2>1, <2>3, <2>4, <2>5, <2>6, <2>7, WrittenKeeps
  <2>8. CASE pc' # [pc EXCEPT ![c] = "idle"]
    <3>1. AccountRequest(c)'
      BY <1>3, <2>3, <2>8, MinorRequest
    <3> QED
      BY <1>3, <2>1, <2>3, <2>4, <2>5, <2>6, <2>8, <3>1, WrittenKeeps
  <2> QED
    BY <2>7, <2>8
<1> QED
  BY <1>3, <1>5, <1>6

\* The last call of a sign-up.
LEMMA SessionCallKeeps ==
  ASSUME AccountRequests, People, CallsInv, NEW c \in Clients, StoreCall(c),
         loc[c].op = "signUp", SigningUp(c), SessionDue(c)
  PROVE  AccountRequests' /\ People'
<1>1. PICK k : k = SessionCall(c)
  OBVIOUS
<1>2. /\ loc[c].calls[1] = k /\ Tail(loc[c].calls) = <<>> /\ loc[c].next = "idle"
      /\ Has("organizations", Number(c)) /\ HasWord(Number(c))
  BY <1>1, FewCalls DEF SessionDue, ToMake
<1>3. Minor(Number(c), k) /\ k.call = "insert"
  BY <1>1, MinorKinds DEF SessionCall, NewSession, Inserting
<1>4. /\ InFlight(c) /\ UNCHANGED <<served, history>>
      /\ Ended(c, k) \/ (Done(k) /\ Proceeds(c, <<>>))
  BY <1>2, <1>3, CallOutcome
<1>5. UNCHANGED <<postgres, met, cuts>> /\ cuts \subseteq cuts'
  BY <1>4 DEF history
<1>6. CASE Ended(c, k)
  BY <1>2, <1>4, <1>5, <1>6, AccountEnds DEF Ended
<1>7. CASE Done(k) /\ Proceeds(c, <<>>)
  <2>1. /\ PeopleMove(c) /\ PeopleShape' /\ (OneOfEach => OneOfEach')
        /\ db'["users"] = db["users"] /\ db'["memberships"] = db["memberships"]
    BY <1>3, <1>4, <1>7, MinorDone
  <2>2. Respond(c)
    BY <1>2, <1>7 DEF Proceeds
  <2>3. /\ pc' = [pc EXCEPT ![c] = "idle"] /\ DOMAIN loc' = Clients
        /\ \A d \in Clients \ {c} : loc'[d] = loc[d]
    BY <2>2 DEF Respond, AccountRequests
  <2>4. postgres \/ ~Met(Joining) => OneOfEach'
    BY <2>1 DEF People
  <2>5. ~Met(Reassigning) =>
            /\ \A org : HasOwner(org) => HasOwner(org)'
            /\ \A m \in db'["memberships"] : HasOwner(m.organizationId)'
    BY <2>1 DEF HasOwner, People, OwnersStay
  <2>6. "idle" \in AccountsPoints
    BY DEF AccountsPoints
  <2> QED
    BY <1>2, <1>4, <2>1, <2>3, <2>4, <2>5, <2>6, WrittenKeeps
<1> QED
  BY <1>4, <1>6, <1>7

\* An invitation's first call: the organization that is joined keeps its owner.
LEMMA JoinCallKeeps ==
  ASSUME AccountRequests, People, CallsInv, NEW c \in Clients, StoreCall(c),
         loc[c].op = "invite", Inviting(c), ToMakeFirst(c, JoinCall(c)),
         NoneOf("memberships", Number(c)), NotMember(loc[c].org, loc[c].about)
  PROVE  AccountRequests' /\ People'
<1> DEFINE row == [id |-> Number(c), organizationId |-> loc[c].org,
                   userId |-> loc[c].about, role |-> loc[c].role]
<1>1. PICK k : k = JoinCall(c)
  OBVIOUS
<1>2. k.call = "insert" /\ k.table = "memberships" /\ k.row = row
  BY <1>1 DEF JoinCall, Inserting
<1>3. /\ IsRecord(row) /\ DOMAIN row = {"id", "organizationId", "userId", "role"}
      /\ row.id = Number(c) /\ row.organizationId = loc[c].org /\ row.userId = loc[c].about
  BY DEF IsRecord
<1> HIDE DEF row
<1>4. /\ pc[c] = "calling" /\ InFlight(c) /\ UNCHANGED <<served, history>>
      /\ {"calls", "next"} \subseteq DOMAIN loc[c] /\ loc[c].next = "idle"
      /\ IsSequence(loc[c].calls) /\ loc[c].calls # <<>>
      /\ Ended(c, k) \/ (Done(k) /\ Proceeds(c, Tail(loc[c].calls)))
  BY <1>1, <1>2, CallOutcome DEF ToMakeFirst
<1>5. UNCHANGED <<postgres, met, cuts>> /\ cuts \subseteq cuts'
  BY <1>4 DEF history
<1>6. CASE Ended(c, k)
  BY <1>4, <1>5, <1>6, AccountEnds DEF Ended
<1>7. CASE Done(k) /\ Proceeds(c, Tail(loc[c].calls))
  <2>1. ~Refused(k) /\ db' = InsertRow("memberships", row)
    BY <1>2, <1>7 DEF Done
  <2>2. /\ "memberships" \in PeopleTables /\ AccountRequest(c) /\ Number(c) \in 1 .. served
        /\ loc[c].org \in Int /\ loc[c].org <= served
    BY <1>4 DEF PeopleTables, AccountRequests, AccountRequest, Inviting
  <2>3. /\ PeopleShape' /\ db'["memberships"] = db["memberships"] \cup {row}
        /\ \A u \in PeopleTables \ {"memberships"} : db'[u] = db[u]
    BY <1>3, <1>4, <2>1, <2>2, AddedInOrder
  <2>4. /\ db'["users"] = db["users"] /\ db'["organizations"] = db["organizations"]
        /\ db'["audit_logs"] = db["audit_logs"]
    BY <2>3 DEF PeopleTables
  <2>5. PeopleMove(c)
    BY <1>3, <2>3, <2>4
       DEF PeopleMove, UsersMove, OrgsMove, WordsMove, MembersMove, Joining
  <2>6. postgres \/ ~Met(Joining) => OneOfEach'
    <3> SUFFICES ASSUME postgres \/ ~Met(Joining) PROVE OneOfEach'
      OBVIOUS
    <3>1. OneOfEach
      BY DEF People
    <3>2. \A m \in db["memberships"] :
             m.organizationId # row.organizationId \/ m.userId # row.userId
      <4>1. CASE postgres
        <5>1. ~Duplicates("memberships", row)
          BY <1>2, <2>1, <4>1 DEF Refused
        <5>2. {"organizationId", "userId"} \in UniqueKeys("memberships")
          BY PeopleKeys
        <5> QED
          BY <5>1, <5>2 DEF Duplicates
      <4>2. CASE ~postgres
        BY <1>3, <4>2 DEF NotMember
      <4> QED
        BY <4>1, <4>2
    <3> QED
      BY <2>3, <2>4, <3>1, <3>2 DEF OneOfEach
  <2>7. \A i \in DOMAIN loc[c].calls : i # 1 => Minor(Number(c), loc[c].calls[i])
    BY DEF ToMakeFirst
  <2>8. /\ DOMAIN loc' = Clients /\ \A d \in Clients \ {c} : loc'[d] = loc[d]
        /\ \/ pc' = [pc EXCEPT ![c] = "idle"]
           \/ /\ pc' = [pc EXCEPT ![c] = "calling"] /\ MinorLeft(c)' /\ pc'[c] = "calling"
              /\ DOMAIN loc'[c] = DOMAIN loc[c]
              /\ \A f \in DOMAIN loc[c] \ {"calls"} : loc'[c][f] = loc[c][f]
              /\ {"op", "n", "org"} \subseteq DOMAIN loc'[c]
              /\ loc'[c].op = loc[c].op /\ loc'[c].n = loc[c].n /\ loc'[c].org = loc[c].org
              /\ Number(c)' = Number(c) /\ Number(c)' \in 1 .. served'
    BY <1>4, <1>7, <2>7, AfterFirst
  <2>9. ~Met(Reassigning) =>
           /\ \A org : HasOwner(org) => HasOwner(org)'
           /\ \A m \in db'["memberships"] : HasOwner(m.organizationId)'
    <3> SUFFICES ASSUME ~Met(Reassigning)
                 PROVE  /\ \A org : HasOwner(org) => HasOwner(org)'
                        /\ \A m \in db'["memberships"] : HasOwner(m.organizationId)'
      OBVIOUS
    <3>1. HasOwner(loc[c].org) /\ \A m \in db["memberships"] : HasOwner(m.organizationId)
      BY <1>4 DEF People, OwnersStay
    <3>2. \A org : HasOwner(org) => HasOwner(org)'
      BY <2>3 DEF HasOwner
    <3>3. ASSUME NEW m \in db'["memberships"] PROVE HasOwner(m.organizationId)
      BY <1>3, <2>3, <3>1, <3>3
    <3> QED
      BY <3>2, <3>3
  <2>10. "idle" \in AccountsPoints /\ "calling" \in AccountsPoints
    BY DEF AccountsPoints
  <2>11. CASE pc' = [pc EXCEPT ![c] = "idle"]
    BY <1>4, <2>3, <2>4, <2>5, <2>6, <2>8, <2>9, <2>10, <2>11, WrittenKeeps
  <2>12. CASE pc' # [pc EXCEPT ![c] = "idle"]
    <3>1. AccountRequest(c)'
      BY <1>4, <2>8, <2>12, MinorRequest
    <3> QED
      BY <1>4, <2>3, <2>4, <2>5, <2>6, <2>8, <2>9, <2>10, <2>12, <3>1, WrittenKeeps
  <2> QED
    BY <2>11, <2>12
<1> QED
  BY <1>4, <1>6, <1>7

\* Who a change leaves a member: the same people, but the target's role, or the others.
LEMMA MemberRemoved ==
  ASSUME PeopleShape, NEW id
  PROVE  /\ RemoveRow("memberships", id)["memberships"] = {m \in db["memberships"] : m.id # id}
         /\ \A u \in PeopleTables \ {"memberships"} :
               RemoveRow("memberships", id)[u] = db[u]
         /\ DOMAIN RemoveRow("memberships", id) = DOMAIN db
<1> DEFINE gone == Removed("memberships", id)
           rows == {<<"memberships", r>> : r \in ById("memberships", id)}
           left(u) == {s \in db[u] : <<u, s>> \notin gone}
<1>1. \A S : (\A g \in S : g[1] = "memberships") => Dependents(S, "Cascade") = {}
  BY PeopleReferences DEF Dependents
<1>2. gone = rows
  <2>1. \A g \in rows : g[1] = "memberships"
    OBVIOUS
  <2>2. gone = rows
           \/ gone = rows \cup Dependents(rows, "Cascade")
                          \cup Dependents(Dependents(rows, "Cascade"), "Cascade")
    BY DEF Removed
  <2> HIDE DEF rows, gone
  <2>3. Dependents(rows, "Cascade") = {}
    BY <1>1, <2>1
  <2>4. \A g \in Dependents(rows, "Cascade") : g[1] = "memberships"
    BY <2>3
  <2>5. Dependents(Dependents(rows, "Cascade"), "Cascade") = {}
    BY <1>1, <2>4
  <2> QED
    BY <2>2, <2>3, <2>5
<1>3. \A g \in gone : g[1] = "memberships"
  BY <1>2
<1>4. /\ \A s \in db["memberships"] : <<"memberships", s>> \in gone <=> s.id = id
      /\ \A u \in PeopleTables \ {"memberships"} : \A s \in db[u] : <<u, s>> \notin gone
  BY <1>2 DEF ById, Table, PeopleShape, PeopleTables
<1> HIDE DEF gone, rows
<1>5. ASSUME NEW u \in PeopleTables, NEW r \in db[u] PROVE Cleared(r, u, gone) = r
  <2>1. \A f \in DOMAIN r :
           ~\E ref \in References :
               /\ RefersTo(u, r, ref)
               /\ ref.field = f
               /\ \E g \in gone : g[1] = ref.parent /\ g[2].id = r[f]
    BY <1>3, PeopleReferences
  <2>2. Cleared(r, u, gone) = [f \in DOMAIN r |-> r[f]]
    BY <2>1 DEF Cleared
  <2>3. IsRecord(r)
    BY DEF PeopleShape
  <2> QED
    BY <2>2, <2>3 DEF IsRecord
<1>6. \A u \in PeopleTables : RemoveRow("memberships", id)[u] = left(u)
  <2> SUFFICES ASSUME NEW u \in PeopleTables PROVE RemoveRow("memberships", id)[u] = left(u)
    OBVIOUS
  <2>1. RemoveRow("memberships", id)[u] =
           {IF postgres THEN Cleared(r, u, gone) ELSE r : r \in left(u)}
    BY DEF RemoveRow, gone, PeopleShape
  <2> QED
    BY <1>5, <2>1
<1>7. left("memberships") = {m \in db["memberships"] : m.id # id}
  BY <1>4
<1>8. \A u \in PeopleTables \ {"memberships"} : left(u) = db[u]
  BY <1>4
<1>9. "memberships" \in PeopleTables
  BY DEF PeopleTables
<1> HIDE DEF left
<1> QED
  BY <1>6, <1>7, <1>8, <1>9 DEF RemoveRow

LEMMA RoleChanged ==
  ASSUME PeopleShape, NEW id, NEW role,
         NEW new, new = UpdateRow("memberships", id, [role |-> role])
  PROVE  /\ DOMAIN new = DOMAIN db
         /\ \A u \in PeopleTables \ {"memberships"} : new[u] = db[u]
         /\ \A m \in new["memberships"] : \E k \in db["memberships"] :
               /\ IsRecord(m) /\ DOMAIN m = DOMAIN k
               /\ m.id = k.id /\ m.organizationId = k.organizationId /\ m.userId = k.userId
         /\ \A k \in db["memberships"] : \E m \in new["memberships"] :
               /\ m.id = k.id /\ m.organizationId = k.organizationId
               /\ m.role = (IF k.id = id THEN role ELSE k.role)
         /\ \A m, k \in new["memberships"] : m.id = k.id => m = k
<1> DEFINE patch == [role |-> role]
           to(r) == IF r.id = id THEN Over(patch, r) ELSE r
<1>1. /\ DOMAIN new = DOMAIN db /\ \A u \in DOMAIN db : u # "memberships" => new[u] = db[u]
      /\ new["memberships"] = {to(r) : r \in db["memberships"]}
  BY DEF UpdateRow, PeopleShape, PeopleTables
<1>2. DOMAIN patch = {"role"} /\ patch["role"] = role
  OBVIOUS
<1> HIDE DEF patch
<1>3. ASSUME NEW r \in db["memberships"]
      PROVE  /\ IsRecord(to(r)) /\ DOMAIN to(r) = DOMAIN r
             /\ to(r).id = r.id /\ to(r).organizationId = r.organizationId
             /\ to(r).userId = r.userId
             /\ to(r).role = (IF r.id = id THEN role ELSE r.role)
  <2>1. IsRecord(r) /\ {"id", "organizationId", "userId", "role"} \subseteq DOMAIN r
    BY DEF PeopleShape, PeopleTables
  <2>2. /\ DOMAIN Over(patch, r) = DOMAIN r /\ IsRecord(Over(patch, r))
        /\ \A f \in DOMAIN r : Over(patch, r)[f] = IF f = "role" THEN role ELSE r[f]
    BY <1>2, <2>1 DEF Over, IsRecord
  <2>3. /\ Over(patch, r).id = r.id /\ Over(patch, r).organizationId = r.organizationId
        /\ Over(patch, r).userId = r.userId /\ Over(patch, r).role = role
    BY <2>1, <2>2
  <2> QED
    BY <2>1, <2>2, <2>3
<1>4. \A m, k \in db["memberships"] : to(m).id = to(k).id => to(m) = to(k)
  BY <1>3 DEF PeopleShape
<1> HIDE DEF to
<1>5. \A m \in new["memberships"] : \E k \in db["memberships"] : m = to(k)
  BY <1>1
<1>6. \A k \in db["memberships"] : to(k) \in new["memberships"]
  BY <1>1
<1>7. \A u \in PeopleTables \ {"memberships"} : new[u] = db[u]
  BY <1>1 DEF PeopleShape
<1>8. \A m \in new["memberships"] : \E k \in db["memberships"] :
               /\ IsRecord(m) /\ DOMAIN m = DOMAIN k
               /\ m.id = k.id /\ m.organizationId = k.organizationId /\ m.userId = k.userId
  BY <1>3, <1>5
<1>9. \A k \in db["memberships"] : \E m \in new["memberships"] :
               /\ m.id = k.id /\ m.organizationId = k.organizationId
               /\ m.role = (IF k.id = id THEN role ELSE k.role)
  BY <1>3, <1>6
<1>10. \A m, k \in new["memberships"] : m.id = k.id => m = k
  BY <1>4, <1>5
<1> QED
  BY <1>1, <1>7, <1>8, <1>9, <1>10

\* What a change of a member does: nobody joins, and an owner is left.
LEMMA ChangeDone ==
  ASSUME AccountRequests, People, NEW c \in Clients, InFlight(c), UNCHANGED served,
         loc[c].op \in Reassigning, InOrg(c), Safe(c), Done(ChangeCall(c))
  PROVE  /\ PeopleMove(c) /\ PeopleShape' /\ (OneOfEach => OneOfEach')
         /\ db'["users"] = db["users"]
         /\ ~Met(Reassigning) =>
               /\ \A org : HasOwner(org) => HasOwner(org)'
               /\ \A m \in db'["memberships"] : HasOwner(m.organizationId)'
<1> DEFINE target == loc[c].target
           stays(k) == ~(k.id = target /\ Demotes(loc[c], k))
           owner(k) == k.role = "customer_owner"
<1>1. PeopleShape
  BY DEF People
<1>2. /\ DOMAIN db' = DOMAIN db
      /\ \A u \in PeopleTables \ {"memberships"} : db'[u] = db[u]
      /\ \A m \in db'["memberships"] : \E k \in db["memberships"] :
            /\ IsRecord(m) /\ DOMAIN m = DOMAIN k
            /\ m.id = k.id /\ m.organizationId = k.organizationId /\ m.userId = k.userId
      /\ \A m, k \in db'["memberships"] : m.id = k.id => m = k
      /\ \A k \in db["memberships"] : owner(k) /\ stays(k) =>
            \E m \in db'["memberships"] : m.organizationId = k.organizationId /\ owner(m)
  <2>1. CASE loc[c].op = "remove"
    <3>1. /\ ChangeCall(c).call = "remove" /\ ChangeCall(c).table = "memberships"
          /\ ChangeCall(c).id = target
      BY <2>1 DEF ChangeCall, Removing
    <3>2. db' = RemoveRow("memberships", target)
      BY <3>1 DEF Done
    <3>3. /\ db'["memberships"] = {m \in db["memberships"] : m.id # target}
          /\ \A u \in PeopleTables \ {"memberships"} : db'[u] = db[u]
          /\ DOMAIN db' = DOMAIN db
      BY <1>1, <3>2, MemberRemoved
    <3>4. \A k \in db["memberships"] : owner(k) /\ stays(k) => k \in db'["memberships"]
      BY <2>1, <3>3 DEF Demotes
    <3>5. \A m, k \in db["memberships"] : m.id = k.id => m = k
      BY <1>1 DEF PeopleShape
    <3>6. \A m \in db["memberships"] : IsRecord(m)
      BY <1>1 DEF PeopleShape, PeopleTables
    <3> QED
      BY <3>3, <3>4, <3>5, <3>6
  <2>2. CASE loc[c].op # "remove"
    <3>1. /\ ChangeCall(c).call = "update" /\ ChangeCall(c).table = "memberships"
          /\ ChangeCall(c).id = target /\ ChangeCall(c).row = [role |-> loc[c].role]
      BY <2>2 DEF ChangeCall, Updating
    <3>2. db' = UpdateRow("memberships", target, [role |-> loc[c].role])
      BY <3>1 DEF Done
    <3>3. /\ DOMAIN db' = DOMAIN db
          /\ \A u \in PeopleTables \ {"memberships"} : db'[u] = db[u]
          /\ \A m \in db'["memberships"] : \E k \in db["memberships"] :
                /\ IsRecord(m) /\ DOMAIN m = DOMAIN k
                /\ m.id = k.id /\ m.organizationId = k.organizationId /\ m.userId = k.userId
          /\ \A k \in db["memberships"] : \E m \in db'["memberships"] :
                /\ m.id = k.id /\ m.organizationId = k.organizationId
                /\ m.role = (IF k.id = target THEN loc[c].role ELSE k.role)
          /\ \A m, k \in db'["memberships"] : m.id = k.id => m = k
      BY <1>1, <3>2, RoleChanged
    <3>4. loc[c].op = "changeRole"
      BY <2>2 DEF Reassigning
    <3>5. \A k \in db["memberships"] :
             owner(k) /\ stays(k) /\ k.id = target => loc[c].role = "customer_owner"
      BY <3>4 DEF Demotes
    <3>6. \A k \in db["memberships"] : owner(k) /\ stays(k) =>
            \E m \in db'["memberships"] : m.organizationId = k.organizationId /\ owner(m)
      BY <3>3, <3>5
    <3> HIDE DEF owner, stays, target
    <3> QED
      BY <3>3, <3>6
  <2> QED
    BY <2>1, <2>2
<1>3. /\ db'["users"] = db["users"] /\ db'["organizations"] = db["organizations"]
      /\ db'["audit_logs"] = db["audit_logs"]
  BY <1>2 DEF PeopleTables
<1>4. PeopleMove(c)
  BY <1>2, <1>3 DEF PeopleMove, UsersMove, OrgsMove, WordsMove, MembersMove
<1>5. \A r : IsRecord(r)' <=> IsRecord(r)
  BY DEF IsRecord
<1>6. PeopleShape'
  <2>1. \A m \in db'["memberships"] :
           /\ IsRecord(m) /\ "id" \in DOMAIN m /\ m.id \in Int /\ m.id <= served
           /\ {"organizationId", "userId", "role"} \subseteq DOMAIN m
           /\ m.organizationId \in Int /\ m.organizationId <= served
    BY <1>1, <1>2 DEF PeopleShape, PeopleTables
  <2>2. \A t \in PeopleTables : \A r \in db'[t] :
           IsRecord(r) /\ "id" \in DOMAIN r /\ r.id \in Int /\ r.id <= served
    BY <1>1, <1>2, <2>1 DEF PeopleShape
  <2>3. \A r \in db'["organizations"] : "slug" \in DOMAIN r
    BY <1>1, <1>3 DEF PeopleShape
  <2>4. PeopleTables \subseteq DOMAIN db' /\ served' = served
    BY <1>1, <1>2 DEF PeopleShape
  <2> QED
    BY <1>2, <1>5, <2>1, <2>2, <2>3, <2>4 DEF PeopleShape
<1>7. OneOfEach => OneOfEach'
  BY <1>2, <1>3 DEF OneOfEach
<1>8. ASSUME ~Met(Reassigning)
      PROVE  /\ \A org : HasOwner(org) => HasOwner(org)'
             /\ \A m \in db'["memberships"] : HasOwner(m.organizationId)'
  <2>1. ASSUME NEW org, HasOwner(org) PROVE HasOwner(org)'
    <3>1. PICK k \in db["memberships"] : k.organizationId = org /\ owner(k)
      BY <2>1 DEF HasOwner
    <3>2. CASE stays(k)
      <4>1. PICK m \in db'["memberships"] : m.organizationId = k.organizationId /\ owner(m)
        BY <1>2, <3>1, <3>2
      <4> QED
        BY <3>1, <4>1 DEF HasOwner
    <3>3. CASE ~stays(k)
      <4>1. k.organizationId = loc[c].org
        BY <1>8, <3>3 DEF InOrg
      <4>2. PICK l \in db["memberships"] :
               l.organizationId = loc[c].org /\ owner(l) /\ l.id # target
        BY <1>8, <3>3 DEF Safe
      <4>3. PICK m \in db'["memberships"] : m.organizationId = l.organizationId /\ owner(m)
        BY <1>2, <4>2
      <4> QED
        BY <3>1, <4>1, <4>2, <4>3 DEF HasOwner
    <3> QED
      BY <3>2, <3>3
  <2>2. ASSUME NEW m \in db'["memberships"] PROVE HasOwner(m.organizationId)
    <3>1. PICK k \in db["memberships"] : m.organizationId = k.organizationId
      BY <1>2
    <3> QED
      BY <1>8, <3>1 DEF People, OwnersStay
  <2>3. ASSUME NEW m \in db'["memberships"] PROVE HasOwner(m.organizationId)'
    <3>1. PICK org : org = m.organizationId
      OBVIOUS
    <3>2. HasOwner(org)'
      BY <2>1, <2>2, <3>1
    <3> QED
      BY <3>1, <3>2
  <2> QED
    BY <2>1, <2>3
<1> QED
  BY <1>3, <1>4, <1>6, <1>7, <1>8

\* The first call of a change of a member.
LEMMA ChangeCallKeeps ==
  ASSUME AccountRequests, People, CallsInv, NEW c \in Clients, StoreCall(c),
         loc[c].op \in Reassigning, ToMakeFirst(c, ChangeCall(c)), InOrg(c), Safe(c)
  PROVE  AccountRequests' /\ People'
<1>1. PICK k : k = ChangeCall(c)
  OBVIOUS
<1>2. k.call \in {"update", "remove"}
  BY <1>1 DEF ChangeCall, Updating, Removing
<1>3. loc[c].op # "signUp" /\ loc[c].op # "invite"
  BY DEF Reassigning
<1>4. /\ pc[c] = "calling" /\ InFlight(c) /\ UNCHANGED <<served, history>>
      /\ {"calls", "next"} \subseteq DOMAIN loc[c] /\ loc[c].next = "idle"
      /\ IsSequence(loc[c].calls) /\ loc[c].calls # <<>>
      /\ Ended(c, k) \/ (Done(k) /\ Proceeds(c, Tail(loc[c].calls)))
  BY <1>1, <1>2, CallOutcome DEF ToMakeFirst
<1>5. UNCHANGED <<postgres, met, cuts>> /\ cuts \subseteq cuts'
  BY <1>4 DEF history
<1>6. CASE Ended(c, k)
  BY <1>3, <1>4, <1>5, <1>6, AccountEnds DEF Ended
<1>7. CASE Done(k) /\ Proceeds(c, Tail(loc[c].calls))
  <2>1. /\ PeopleMove(c) /\ PeopleShape' /\ (OneOfEach => OneOfEach')
        /\ db'["users"] = db["users"]
        /\ ~Met(Reassigning) =>
              /\ \A org : HasOwner(org) => HasOwner(org)'
              /\ \A m \in db'["memberships"] : HasOwner(m.organizationId)'
    BY <1>1, <1>4, <1>7, ChangeDone
  <2>2. \A i \in DOMAIN loc[c].calls : i # 1 => Minor(Number(c), loc[c].calls[i])
    BY DEF ToMakeFirst
  <2>3. /\ DOMAIN loc' = Clients /\ \A d \in Clients \ {c} : loc'[d] = loc[d]
        /\ \/ pc' = [pc EXCEPT ![c] = "idle"]
           \/ /\ pc' = [pc EXCEPT ![c] = "calling"] /\ MinorLeft(c)' /\ pc'[c] = "calling"
              /\ DOMAIN loc'[c] = DOMAIN loc[c]
              /\ \A f \in DOMAIN loc[c] \ {"calls"} : loc'[c][f] = loc[c][f]
              /\ {"op", "n", "org"} \subseteq DOMAIN loc'[c]
              /\ loc'[c].op = loc[c].op /\ loc'[c].n = loc[c].n /\ loc'[c].org = loc[c].org
              /\ Number(c)' = Number(c) /\ Number(c)' \in 1 .. served'
    BY <1>4, <1>7, <2>2, AfterFirst
  <2>4. postgres \/ ~Met(Joining) => OneOfEach'
    BY <2>1 DEF People
  <2>5. "idle" \in AccountsPoints /\ "calling" \in AccountsPoints
    BY DEF AccountsPoints
  <2>6. CASE pc' = [pc EXCEPT ![c] = "idle"]
    BY <1>3, <1>4, <2>1, <2>3, <2>4, <2>5, <2>6, WrittenKeeps
  <2>7. CASE pc' # [pc EXCEPT ![c] = "idle"]
    <3>1. AccountRequest(c)'
      BY <1>3, <1>4, <2>3, <2>7, MinorRequest
    <3> QED
      BY <1>3, <1>4, <2>1, <2>3, <2>4, <2>5, <2>7, <3>1, WrittenKeeps
  <2> QED
    BY <2>6, <2>7
<1> QED
  BY <1>4, <1>6, <1>7

\* Every call of the area.
LEMMA AccountCallKeeps ==
  ASSUME AccountRequests, People, CallsInv, NEW c \in Clients, StoreCall(c)
  PROVE  AccountRequests' /\ People'
<1>1. pc[c] = "calling" /\ InFlight(c)
  BY FirstCall DEF InFlight
<1>2. AccountRequest(c)
  BY <1>1 DEF AccountRequests
<1>3. CASE loc[c].op = "signUp" /\ SigningUp(c)
  BY <1>1, <1>3, UserCallKeeps, OrgCallKeeps, OwnerCallKeeps, WordCallKeeps, SessionCallKeeps
     DEF SigningUp, Unknown, SlugDue
<1>4. CASE loc[c].op = "invite" /\ Inviting(c)
  BY <1>1, <1>4, JoinCallKeeps, MinorCallKeeps DEF Inviting
<1>5. CASE loc[c].op \in Reassigning /\ ChangingRole(c)
  <2>1. loc[c].op # "signUp"
    BY <1>5 DEF Reassigning
  <2> QED
    BY <1>1, <1>5, <2>1, ChangeCallKeeps, MinorCallKeeps DEF ChangingRole
<1>6. CASE loc[c].op \in {"signOut", "sandbox"} /\ MinorLeft(c)
  BY <1>6, MinorCallKeeps
<1> QED
  BY <1>1, <1>2, <1>3, <1>4, <1>5, <1>6 DEF AccountRequest

-----------------------------------------------------------------------------
(***************************************************************************)
(* Accounts: the promise.                                                  *)
(***************************************************************************)
LEMMA AccountsInitially == Init => AccountsInv
<1> SUFFICES ASSUME Init PROVE AccountsInv
  OBVIOUS
<1>1. PICK a \in Areas : \E seed \in Seeds[a] : RequestsInit(a, seed.rows)
  BY DEF Init
<1>2. PICK seed \in Seeds[a] : RequestsInit(a, seed.rows)
  BY <1>1
<1>3. /\ area = a /\ db = seed.rows /\ served = 0 /\ met = {} /\ cuts = {}
      /\ pc = [c \in Clients |-> "idle"] /\ loc = [c \in Clients |-> Empty]
  BY <1>2 DEF RequestsInit
<1>4. PeopleFit(db) /\ RowsAreKept(area, db)
  BY <1>2, <1>3, PlatformAssumption
<1>5. \A c \in Clients : ~InFlight(c)
  BY <1>3 DEF InFlight
<1>6. /\ PeopleTables \subseteq DOMAIN db
      /\ {"organizations", "users", "memberships"} \subseteq DOMAIN db
  BY <1>4 DEF PeopleFit, PeopleTables
<1>7. \A t \in PeopleTables : \A r \in db[t] :
         IsRecord(r) /\ "id" \in DOMAIN r /\ r.id \in Int /\ r.id <= 0
  BY <1>4, <1>6 DEF PeopleFit, RowsAreKept, IsRecord, PeopleTables
<1>8. OneOfEach /\ \A m \in db["memberships"] : HasOwner(m.organizationId)
  BY <1>4 DEF PeopleFit, OneOfEach, HasOwner
<1>9. PeopleShape
  BY <1>3, <1>4, <1>6, <1>7 DEF PeopleShape, PeopleFit
<1>10. \A u \in db["users"] : u.id <= 0
  BY <1>7 DEF PeopleTables
<1>11. People
  BY <1>5, <1>8, <1>9, <1>10 DEF People, OwnersStay, WholeSignUps
<1>12. AccountRequests
  BY <1>3, <1>5 DEF AccountRequests, AccountsPoints
<1> QED
  BY <1>6, <1>8, <1>10, <1>11, <1>12 DEF AccountsInv

\* What the others do changes nothing here.
LEMMA AccountsRest ==
  ASSUME AccountRequests, People, UNCHANGED requestVars
  PROVE  AccountRequests' /\ People'
<1>1. UNCHANGED <<postgres, db, pc, loc, served, met, cuts>>
  BY DEF requestVars
<1>2. \A c \in Clients : Number(c)' = Number(c) /\ (InFlight(c)' <=> InFlight(c))
  BY <1>1 DEF Number, InFlight
<1>3. \A ops : Met(ops)' <=> Met(ops)
  BY <1>1 DEF Met
<1>4. \A n : /\ Has("users", n)' <=> Has("users", n)
             /\ Has("organizations", n)' <=> Has("organizations", n)
             /\ HasWord(n)' <=> HasWord(n)
             /\ HasOwner(n)' <=> HasOwner(n)
  BY <1>1 DEF Has, HasWord, HasOwner
<1>5. PeopleShape' /\ (OneOfEach => OneOfEach')
  BY <1>1, PeopleShapeStays DEF AccountRequests
<1>6. OwnersStay'
  <2> SUFFICES ASSUME ~Met(Reassigning)
               PROVE  /\ \A m \in db["memberships"] : HasOwner(m.organizationId)'
                      /\ \A c \in Clients : InFlight(c) /\ loc[c].op = "invite"
                            => HasOwner(loc[c].org)'
    BY <1>1, <1>2, <1>3 DEF OwnersStay
  <2> QED
    BY <1>1 DEF People, OwnersStay, HasOwner
<1>7. WholeSignUps'
  BY <1>1, <1>2, <1>3, <1>4 DEF People, WholeSignUps
<1>8. People'
  BY <1>1, <1>3, <1>5, <1>6, <1>7 DEF People
<1>9. ASSUME NEW c \in Clients, InFlight(c) PROVE AccountRequest(c)'
  <2>1. AccountRequest(c)
    BY <1>9 DEF AccountRequests
  <2>2. /\ UserCall(c)' = UserCall(c) /\ OwnerCall(c)' = OwnerCall(c)
        /\ WordCall(c)' = WordCall(c) /\ SessionCall(c)' = SessionCall(c)
        /\ JoinCall(c)' = JoinCall(c) /\ ChangeCall(c)' = ChangeCall(c)
        /\ \A slug : OrgCall(c, slug)' = OrgCall(c, slug)
    BY <1>1, <1>2 DEF UserCall, OwnerCall, WordCall, SessionCall, JoinCall, ChangeCall, OrgCall,
       Auditing, NewSession
  <2>3. /\ \A calls, next : ToMake(c, calls, next)' <=> ToMake(c, calls, next)
        /\ \A k : ToMakeFirst(c, k)' <=> ToMakeFirst(c, k)
        /\ MinorLeft(c)' <=> MinorLeft(c)
    BY SMTT(30), <1>1, <1>2 DEF ToMake, ToMakeFirst, MinorLeft, Minor, IsRecord
  <2>4. \A n : /\ NoneOf("users", n)' <=> NoneOf("users", n)
               /\ NoneOf("organizations", n)' <=> NoneOf("organizations", n)
               /\ NoneOf("audit_logs", n)' <=> NoneOf("audit_logs", n)
               /\ NoneOf("memberships", n)' <=> NoneOf("memberships", n)
               /\ NoMembers(n)' <=> NoMembers(n)
    BY <1>1, <1>2 DEF NoneOf, NoMembers
  <2>5. \A n : (NoOrg(n)' <=> NoOrg(n)) /\ (NoOwner(n)' <=> NoOwner(n))
    BY <1>4, <2>4 DEF NoOrg, NoOwner
  <2>6. /\ \A email : AddressFree(email)' <=> AddressFree(email)
        /\ \A slug : SlugFree(slug)' <=> SlugFree(slug)
        /\ \A org, user : NotMember(org, user)' <=> NotMember(org, user)
    BY <1>1, <1>3 DEF AddressFree, SlugFree, NotMember
  <2>7. (InOrg(c)' <=> InOrg(c)) /\ (Safe(c)' <=> Safe(c))
    BY <1>1, <1>3 DEF InOrg, Safe, Has, Demotes
  <2>8. ASSUME loc[c].op = "signUp", SigningUp(c) PROVE SigningUp(c)'
    <3>1. OrgDue(c) => OrgDue(c)'
      BY <1>1, <1>2, <1>4, <2>2, <2>3, <2>5, <2>6 DEF OrgDue
    <3>2. /\ Unknown(c) => Unknown(c)'
          /\ UserDue(c) => UserDue(c)'
          /\ SlugDue(c) => SlugDue(c)'
          /\ OwnerDue(c) => OwnerDue(c)'
          /\ WordDue(c) => WordDue(c)'
          /\ SessionDue(c) => SessionDue(c)'
      BY <1>1, <1>2, <1>4, <2>2, <2>3, <2>4, <2>5, <2>6
         DEF Unknown, UserDue, SlugDue, OwnerDue, WordDue, SessionDue
    <3> QED
      BY <1>1, <1>2, <2>8, <3>1, <3>2 DEF SigningUp
  <2>9. ASSUME loc[c].op = "invite", Inviting(c) PROVE Inviting(c)'
    BY <1>1, <1>2, <2>2, <2>3, <2>4, <2>6, <2>9 DEF Inviting
  <2>10. ASSUME loc[c].op \in Reassigning, ChangingRole(c) PROVE ChangingRole(c)'
    BY <1>1, <2>2, <2>3, <2>7, <2>10 DEF ChangingRole
  <2> QED
    BY <1>1, <1>2, <2>1, <2>3, <2>8, <2>9, <2>10 DEF AccountRequest
<1>10. AccountRequests'
  BY <1>1, <1>2, <1>9 DEF AccountRequests
<1> QED
  BY <1>8, <1>10

\* Outside the area, sign-ups, organizations and members are only read.
LEMMA AccountsKept == AccountsInv /\ CallsInv /\ [Next]_vars => AccountsInv'
<1> SUFFICES ASSUME AccountsInv, CallsInv, [Next]_vars PROVE AccountsInv'
  OBVIOUS
<1>1. UNCHANGED area /\ DOMAIN db' = DOMAIN db
  BY Frame, TablesStay
<1>2. CASE area # "accounts"
  <2>1. \A t \in {"organizations", "users", "memberships"} :
           t \in DOMAIN db /\ t \notin WritesOf(area)
    BY <1>2 DEF AccountsInv, WritesOf
  <2>2. \A t \in {"organizations", "users", "memberships"} : db'[t] = db[t]
    BY <2>1, AreasApart
  <2>3. db'["users"] = db["users"] /\ db'["memberships"] = db["memberships"]
    BY <2>2
  <2>4. /\ \A u \in db["users"] : u.id <= 0
        /\ OneOfEach /\ \A m \in db["memberships"] : HasOwner(m.organizationId)
    BY <1>2 DEF AccountsInv
  <2>5. OneOfEach' /\ \A m \in db'["memberships"] : HasOwner(m.organizationId)'
    BY <2>3, <2>4 DEF OneOfEach, HasOwner
  <2> QED
    BY <1>1, <1>2, <2>1, <2>3, <2>4, <2>5 DEF AccountsInv
<1>3. CASE area = "accounts"
  <2>1. AccountRequests /\ People
    BY <1>3 DEF AccountsInv
  <2>2. UNCHANGED requestVars => AccountRequests' /\ People'
    BY <2>1, AccountsRest
  <2>3. ASSUME NEW c \in Clients,
               AccountsSubmit(c) \/ AccountsStep(c) \/ StoreCall(c) \/ CutOff(c)
        PROVE  AccountRequests' /\ People'
    BY <1>3, <2>1, <2>3, AccountsSubmitKeeps, AccountsStepKeeps, AccountCallKeeps,
       AccountCutKeeps
  <2>4. AccountRequests' /\ People'
    BY <1>3, <2>2, <2>3, AccountsFrame
  <2> QED
    BY <1>1, <1>3, <2>4 DEF AccountsInv
<1> QED
  BY <1>2, <1>3

LEMMA AccountsPromised == AccountsInv => AccountsAreSound
<1> SUFFICES ASSUME AccountsInv PROVE AccountsAreSound
  OBVIOUS
<1>1. {"organizations", "users", "memberships"} \subseteq DOMAIN db
  BY DEF AccountsInv
<1>2. /\ \A n : ById("organizations", n) # {} <=> Has("organizations", n)
      /\ \A n : HasWord(n) /\ "audit_logs" \in DOMAIN db
                   => \E a \in ById("audit_logs", n) : a.action = "user.sign_up"
  BY <1>1 DEF ById, Table, Has, HasWord
<1>3. SignUpIsWhole
  <2>1. CASE area # "accounts"
    BY <1>1, <2>1 DEF AccountsInv, SignUpIsWhole, Table
  <2>2. CASE area = "accounts"
    <3>1. WholeSignUps /\ "audit_logs" \in DOMAIN db
      BY <2>2 DEF AccountsInv, People, PeopleShape, PeopleTables
    <3> QED
      BY <1>1, <1>2, <3>1 DEF WholeSignUps, SignUpIsWhole, Table
  <2> QED
    BY <2>1, <2>2
<1>4. NoDuplicateAccounts
  BY <1>1 DEF AccountsInv, People, NoDuplicateAccounts, OneOfEach, Table, Joining
<1>5. OwnerRemains
  <2> SUFFICES ASSUME ~Met(Reassigning), NEW o \in Table("organizations"), MembersOf(o.id) # {}
               PROVE  OwnersOf(o.id) # {}
    BY DEF OwnerRemains, Reassigning
  <2>1. PICK m \in db["memberships"] : m.organizationId = o.id
    BY DEF MembersOf
  <2>2. HasOwner(m.organizationId)
    BY DEF AccountsInv, People, OwnersStay
  <2> QED
    BY <2>1, <2>2 DEF HasOwner, OwnersOf, MembersOf
<1> QED
  BY <1>3, <1>4, <1>5 DEF AccountsAreSound

\* Who may act for whom stays in order (auth.ts, actions.ts): however many sign-ups,
\* invitations and changes of roles are in flight, on either store, and wherever one stops,
\* a user on record has the organization and the audit entry of the sign-up, an address and
\* a place in an organization belong to one, and an organization with members keeps an
\* owner, short of the meetings of two requests that the property names.
THEOREM AccountsSound == Spec => []AccountsAreSound
<1>1. CallsInv /\ VaultInv /\ [Next]_vars => CallsInv'
  BY CallsKept
<1>2. AccountsInv /\ CallsInv /\ [Next]_vars => AccountsInv'
  BY AccountsKept
<1> QED
  BY <1>1, <1>2, CallsInitially, VaultInitially, VaultKept, AccountsInitially,
     AccountsPromised, PTL DEF Spec
=============================================================================
