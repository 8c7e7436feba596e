---------------------------- MODULE IntakeProofs ----------------------------
(***************************************************************************)
(* How many audit requests of an address the rate limiter lets through in  *)
(* a window, for any number of requests in flight and any number of        *)
(* windows, whether it counts in this process's memory or in a row of the  *)
(* shared store that is read and written back.                             *)
(***************************************************************************)
EXTENDS PlatformProofs

-----------------------------------------------------------------------------
(***************************************************************************)
(* The limiter: the inductive invariant.                                   *)
(***************************************************************************)
Windows == Addresses \X (0 .. MaxClock)
Window(c) == <<loc[c].address, loc[c].now>>
Solo(c) == Number(c) \notin joint

\* Has yet to be counted among those let through.
Ahead(c) ==
  \/ pc[c] \in {"funnel.limit", "funnel.org"}
  \/ pc[c] = "calling" /\ loc[c].next = "funnel.org"

\* Is about to write the address's row; is about to write what is asked for.
Note(c) == Head(loc[c].calls).row
Noting(c) ==
  /\ loc[c].calls = <<Upserting("rate_limit_buckets", Note(c))>>
  /\ {"id", "count", "resetAt"} \subseteq DOMAIN Note(c)
  /\ Note(c).id = loc[c].address
  /\ Note(c).count \in 1 .. Limit /\ Note(c).resetAt \in Int
Filing(c) ==
  /\ IsSequence(loc[c].calls) /\ loc[c].calls # <<>>
  /\ \A i \in DOMAIN loc[c].calls : /\ loc[c].calls[i].call = "insert"
                                    /\ loc[c].calls[i].table # "rate_limit_buckets"

LimitRequest(c) ==
  /\ {"address", "now"} \subseteq DOMAIN loc[c]
  /\ loc[c].address \in Addresses /\ loc[c].now \in 0 .. clock
  /\ pc[c] = "calling" =>
        IF loc[c].next = "funnel.org" THEN postgres /\ Noting(c) ELSE Filing(c)

\* Requests in flight have met, and go by different numbers.
LimitRequests ==
  /\ clock \in 0 .. MaxClock /\ allowed \in [Windows -> Nat]
  /\ joint \subseteq 1 .. served
  /\ \A c \in Clients : InFlight(c) => LimitRequest(c)
  /\ \A c, d \in Clients : InFlight(c) /\ InFlight(d) /\ c # d =>
        ~Solo(c) /\ Number(c) # Number(d)

\* In memory, where a check is one step: the requests let through, those past the
\* check included, are counted in the bucket, unless it was evicted.
Bucket == [key : Addresses, count : 1 .. Limit, resetAt : 1 .. MaxClock + 1]
KeyedOnce(bs) == \A i, j \in DOMAIN bs : bs[i].key = bs[j].key => i = j
Pending(w) == {c \in Clients : pc[c] = "funnel.org" /\ Window(c) = w}
Passed(w) == allowed[w] + Cardinality(Pending(w))
Counts(bs, w, n) ==
  \E i \in DOMAIN bs : bs[i].key = w[1] /\ bs[i].resetAt = w[2] + 1 /\ n <= bs[i].count

InMemory ==
  /\ buckets \in Seq(Bucket) /\ KeyedOnce(buckets)
  /\ \A i \in DOMAIN buckets : buckets[i].resetAt <= clock + 1
  /\ \A w \in Windows :
        /\ w[2] > clock => Passed(w) = 0
        /\ w[1] \notin evicted => Passed(w) <= Limit
        /\ w[1] \notin evicted /\ w[2] = clock =>
              Passed(w) = 0 \/ Counts(buckets, w, Passed(w))

\* On the shared store: of the requests let through in window w, n were alone until
\* then, and the others are D.  All that ever met may be of this window: D and those
\* ahead in it.
Joined(w, D) ==
  joint \subseteq D \cup {Number(c) : c \in {d \in Clients : Ahead(d) /\ Window(d) = w}}

\* How high the row must be: what was counted alone counts in full.  Of those that
\* met only one does, and only as long as nobody else may have written the row.
Level(w, n, D) == n + (IF D # {} /\ Joined(w, D) THEN 1 ELSE 0)
Need(c, w, n, D) ==
  IF Solo(c) THEN Level(w, n, D) + 1 ELSE IF Joined(w, D) THEN n + 1 ELSE n
OnShelf(w, k) ==
  k > 0 => \E b \in db["rate_limit_buckets"] : b.id = w[1] /\ b.count >= k /\ b.resetAt > w[2]

\* The row still matters to the window.
Due(w, D) ==
  clock = w[2] \/ \E c \in Clients : Ahead(c) /\ Window(c) = w /\ (Solo(c) \/ Joined(w, D))

\* Past the check: what the request found, and wrote or will write, is high enough.
Checked(c, w, n, D) ==
  /\ Need(c, w, n, D) <= Limit
  /\ Due(w, D) =>
        IF pc[c] = "funnel.org"
        THEN OnShelf(w, Need(c, w, n, D))
        ELSE Note(c).count >= Need(c, w, n, D) /\ Note(c).resetAt > w[2]

Split(w, n, D) ==
  /\ allowed[w] = n + Cardinality(D)
  /\ \A c \in Clients : InFlight(c) /\ Number(c) \in D => ~Ahead(c) /\ Window(c) = w
  /\ Level(w, n, D) <= Limit
  /\ Level(w, n, D) > 0 =>
        w[2] <= clock /\ \A c \in Clients : InFlight(c) => loc[c].now >= w[2]
  /\ Due(w, D) => OnShelf(w, Level(w, n, D))
  /\ \A c \in Clients : Ahead(c) /\ Window(c) = w /\ pc[c] # "funnel.limit" =>
        Checked(c, w, n, D)

BucketRows ==
  /\ "rate_limit_buckets" \in DOMAIN db
  /\ \A a, b \in db["rate_limit_buckets"] : a.id = b.id => a = b
  /\ \A b \in db["rate_limit_buckets"] :
        {"id", "count", "resetAt"} \subseteq DOMAIN b /\ b.count \in Nat /\ b.resetAt \in Int

OnPostgres ==
  BucketRows /\ \A w \in Windows : \E n \in Nat, D \in SUBSET joint : Split(w, n, D)

WindowInv ==
  /\ area # "funnel" => joint = {} /\ allowed = [w \in Windows |-> 0]
  /\ area = "funnel" => LimitRequests /\ IF postgres THEN OnPostgres ELSE InMemory

-----------------------------------------------------------------------------
(***************************************************************************)
(* The limiter: what happens in the area.                                  *)
(***************************************************************************)
limiterVars == <<clock, joint, buckets, allowed, evicted>>

\* Steps past the limiter, and calls and ends of requests.
Onwards(c) ==
  \/ ReadReceipts(c) \/ TruncateReceipts(c) \/ WriteReceipts(c)
  \/ CutOff(c) /\ UNCHANGED intakeVars

LEMMA LimiterFrame ==
  ASSUME [Next]_vars
  PROVE  /\ area # "funnel" => UNCHANGED <<allowed, joint>>
         /\ area = "funnel" =>
               \/ UNCHANGED <<requestVars, limiterVars>>
               \/ WindowPasses
               \/ \E c \in Clients :
                     \/ PostAuditRequest(c) \/ CheckMemory(c) \/ CheckShared(c)
                     \/ RecordRequest(c) \/ Onwards(c)
                     \/ StoreCall(c) /\ UNCHANGED intakeVars
<1>1. CASE UNCHANGED vars
  BY <1>1 DEF vars, intakeVars, limiterVars
<1>2. CASE Environment
  BY <1>2 DEF Environment, LockExpires, WindowPasses, DayPasses, Restart, intakeVars,
     requestVars, limiterVars
<1>3. ASSUME NEW c \in Clients, Submit(c)
      PROVE  /\ area # "funnel" => UNCHANGED <<allowed, joint>>
             /\ area = "funnel" => PostAuditRequest(c)
  <2>1. IntakeSubmit(c) /\ area # "funnel" => UNCHANGED <<allowed, joint>>
    BY DEF IntakeSubmit, CreateRecord, MoveRecord, intakeVars
  <2> QED
    BY <1>3, <2>1 DEF Submit, AccountsSubmit, IntakeSubmit, KnowledgeSubmit, AgentsSubmit,
       EvalsSubmit, NightlySubmit, WorkspaceSubmit, SystemsSubmit, Calls, intakeVars
<1>4. ASSUME NEW c \in Clients, Step(c)
      PROVE  /\ area # "funnel" => UNCHANGED <<allowed, joint>>
             /\ area = "funnel" =>
                  \/ CheckMemory(c) \/ CheckShared(c) \/ RecordRequest(c) \/ Onwards(c)
                  \/ StoreCall(c) /\ UNCHANGED intakeVars
  <2>1. IntakeStep(c) /\ area # "funnel" => UNCHANGED <<allowed, joint>>
    BY DEF IntakeStep, InsertRecord, UpdateRecord, intakeVars
  <2> QED
    BY <1>4, <2>1 DEF Step, AccountsStep, IntakeStep, KnowledgeStep, AgentsStep, EvalsStep,
       NightlyStep, WorkspaceStep, SystemsStep, StoresStep, intakeVars, Onwards
<1> QED
  BY <1>1, <1>2, <1>3, <1>4 DEF Next

-----------------------------------------------------------------------------
(***************************************************************************)
(* The limiter: a step of one request.                                     *)
(***************************************************************************)
\* The others stay as they are; the request keeps its number and its address, and the
\* time it took when it came in, until a check in memory takes the time anew.
Takes(c) ==
  /\ InFlight(c) /\ UNCHANGED <<clock, joint, served, postgres>>
  /\ \A d \in Clients \ {c} : pc'[d] = pc[d] /\ loc'[d] = loc[d]
  /\ pc'[c] # "idle" =>
        /\ {"n", "address", "now"} \subseteq DOMAIN loc'[c]
        /\ loc'[c].n = loc[c].n /\ loc'[c].address = loc[c].address
        /\ loc'[c].now = loc[c].now \/ (~postgres /\ loc'[c].now = clock)

LEMMA AnswerTakes ==
  ASSUME Funnels, NEW c \in Clients, InFlight(c), Respond(c),
         UNCHANGED <<clock, joint, served, postgres>>
  PROVE  Takes(c) /\ pc'[c] = "idle" /\ ~Ahead(c)'
<1>1. DOMAIN pc = Clients /\ DOMAIN loc = Clients
  BY DEF Funnels
<1>2. pc' = [pc EXCEPT ![c] = "idle"] /\ loc' = [loc EXCEPT ![c] = Empty]
  BY DEF Respond
<1>3. /\ pc'[c] = "idle"
      /\ \A d \in Clients \ {c} : pc'[d] = pc[d] /\ loc'[d] = loc[d]
  BY <1>1, <1>2
<1> QED
  BY <1>3 DEF Takes, Ahead

LEMMA GotoTakes ==
  ASSUME Funnels, LimitRequests, NEW c \in Clients, InFlight(c),
         UNCHANGED <<clock, joint, served, postgres>>,
         NEW where \in FunnelPC, NEW locals, DOMAIN locals \cap {"n", "address"} = {},
         "now" \in DOMAIN locals => ~postgres /\ locals["now"] = clock,
         Goto(c, where, locals)
  PROVE  /\ Takes(c) /\ pc'[c] = where
         /\ DOMAIN loc'[c] = DOMAIN locals \cup DOMAIN loc[c]
         /\ \A f \in DOMAIN locals : loc'[c][f] = locals[f]
         /\ \A f \in DOMAIN loc[c] : f \notin DOMAIN locals => loc'[c][f] = loc[c][f]
<1>1. /\ DOMAIN pc = Clients /\ DOMAIN loc = Clients
      /\ {"n", "address", "now"} \subseteq DOMAIN loc[c]
  BY DEF Funnels, FunnelRequest, LimitRequests, LimitRequest
<1>2. /\ pc' = [pc EXCEPT ![c] = where] /\ DOMAIN loc' = Clients
      /\ DOMAIN loc'[c] = DOMAIN locals \cup DOMAIN loc[c]
      /\ \A f \in DOMAIN locals : loc'[c][f] = locals[f]
      /\ \A f \in DOMAIN loc[c] : f \notin DOMAIN locals => loc'[c][f] = loc[c][f]
      /\ \A d \in Clients \ {c} : loc'[d] = loc[d]
  BY <1>1, RequestGoesOn
<1>3. pc'[c] = where /\ \A d \in Clients \ {c} : pc'[d] = pc[d]
  BY <1>1, <1>2
<1>4. /\ {"n", "address", "now"} \subseteq DOMAIN loc'[c]
      /\ loc'[c].n = loc[c].n /\ loc'[c].address = loc[c].address
      /\ loc'[c].now = loc[c].now \/ (~postgres /\ loc'[c].now = clock)
  BY <1>1, <1>2
<1> QED
  BY <1>2, <1>3, <1>4 DEF Takes

\* Calls at the new point are of one of the two kinds.
CallsAre(c) ==
  IF loc[c].next = "funnel.org" THEN postgres /\ Noting(c) ELSE Filing(c)

LEMMA LimitRequestsStay ==
  ASSUME Funnels, LimitRequests, NEW c \in Clients, Takes(c), allowed' \in [Windows -> Nat],
         pc'[c] = "calling" => CallsAre(c)'
  PROVE  LimitRequests'
<1>1. /\ clock \in Nat
      /\ \A d \in Clients \ {c} : /\ InFlight(d)' <=> InFlight(d)
                                  /\ Solo(d)' <=> Solo(d)
                                  /\ Number(d)' = Number(d)
                                  /\ LimitRequest(d) => LimitRequest(d)'
  <2>1. clock \in Nat
    BY IntakeAssumption DEF LimitRequests
  <2>2. ASSUME NEW d \in Clients \ {c}, LimitRequest(d) PROVE LimitRequest(d)'
    <3>1. pc'[d] = pc[d] /\ loc'[d] = loc[d] /\ UNCHANGED <<clock, postgres>>
      BY DEF Takes
    <3> QED
      BY <2>2, <3>1 DEF LimitRequest, Noting, Note, Filing
  <2> QED
    BY <2>1, <2>2 DEF Takes, InFlight, Solo, Number
<1>2. InFlight(c) /\ (InFlight(c)' => Number(c)' = Number(c) /\ (Solo(c)' <=> Solo(c)))
  BY DEF Takes, InFlight, Number, Solo
<1>3. InFlight(c)' => LimitRequest(c)'
  <2> SUFFICES ASSUME InFlight(c)' PROVE LimitRequest(c)'
    OBVIOUS
  <2>1. loc[c].address \in Addresses /\ loc[c].now \in 0 .. clock
    BY <1>2 DEF LimitRequests, LimitRequest
  <2>2. /\ {"address", "now"} \subseteq DOMAIN loc'[c]
        /\ loc'[c].address \in Addresses /\ loc'[c].now \in 0 .. clock'
    BY <1>1, <2>1 DEF Takes, InFlight
  <2> QED
    BY <2>2 DEF LimitRequest, CallsAre
<1>4. \A d \in Clients : InFlight(d)' => LimitRequest(d)'
  BY <1>1, <1>3 DEF LimitRequests
<1>5. ASSUME NEW d \in Clients, NEW e \in Clients, InFlight(d)', InFlight(e)', d # e
      PROVE  ~Solo(d)' /\ (Number(d) # Number(e))'
  <2>1. InFlight(d) /\ InFlight(e)
    BY <1>1, <1>2, <1>5
  <2>2. ~Solo(d) /\ Number(d) # Number(e)
    BY <1>5, <2>1 DEF LimitRequests
  <2>3. /\ Number(d)' = Number(d) /\ (Solo(d)' <=> Solo(d)) /\ Number(e)' = Number(e)
    BY <1>1, <1>2, <1>5
  <2> QED
    BY <2>2, <2>3
<1>6. clock' \in 0 .. MaxClock /\ joint' \subseteq 1 .. served'
  BY DEF LimitRequests, Takes
<1> QED
  BY <1>4, <1>5, <1>6 DEF LimitRequests

-----------------------------------------------------------------------------
(***************************************************************************)
(* In memory: who has passed.                                              *)
(***************************************************************************)
LEMMA PassedIs ==
  ASSUME NEW w \in Windows, allowed \in [Windows -> Nat]
  PROVE  IsFiniteSet(Pending(w)) /\ Cardinality(Pending(w)) \in Nat /\ Passed(w) \in Nat
<1>1. Pending(w) \subseteq Clients /\ IsFiniteSet(Clients)
  BY RequestsAssumption DEF Pending
<1>2. IsFiniteSet(Pending(w)) /\ Cardinality(Pending(w)) \in Nat
  BY <1>1, FS_Subset, FS_CardinalityType
<1> QED
  BY <1>2 DEF Passed

LEMMA PassedWillBe ==
  ASSUME NEW w \in Windows, allowed' \in [Windows -> Nat]
  PROVE  /\ IsFiniteSet(Pending(w)') /\ Cardinality(Pending(w)') \in Nat /\ Passed(w)' \in Nat
         /\ Passed(w)' = allowed'[w] + Cardinality(Pending(w)')
<1>1. Pending(w)' \subseteq Clients /\ IsFiniteSet(Clients)
  BY RequestsAssumption DEF Pending
<1>2. IsFiniteSet(Pending(w)') /\ Cardinality(Pending(w)') \in Nat
  BY <1>1, FS_Subset, FS_CardinalityType
<1> QED
  BY <1>2 DEF Passed

LEMMA BucketsAre ==
  ASSUME NEW bs \in Seq(Bucket)
  PROVE  /\ DOMAIN bs = 1 .. Len(bs) /\ Len(bs) \in Nat
         /\ \A i \in DOMAIN bs : /\ bs[i] \in Bucket /\ bs[i].key \in Addresses
                                 /\ bs[i].count \in 1 .. Limit /\ bs[i].resetAt \in Nat
<1>1. DOMAIN bs = 1 .. Len(bs) /\ Len(bs) \in Nat /\ \A i \in DOMAIN bs : bs[i] \in Bucket
  OBVIOUS
<1>2. \A b \in Bucket : b.key \in Addresses /\ b.count \in 1 .. Limit /\ b.resetAt \in Nat
  BY IntakeAssumption DEF Bucket
<1> QED
  BY <1>1, <1>2

\* Fewer that have passed, and the same buckets.
LEMMA FewerPassed ==
  ASSUME LimitRequests, InMemory, allowed' \in [Windows -> Nat],
         UNCHANGED <<buckets, evicted, clock>>,
         \A w \in Windows : Passed(w)' <= Passed(w)
  PROVE  InMemory'
<1>1. ASSUME NEW w \in Windows
      PROVE  /\ w[2] > clock => Passed(w)' = 0
             /\ w[1] \notin evicted => Passed(w)' <= Limit
             /\ w[1] \notin evicted /\ w[2] = clock =>
                   Passed(w)' = 0 \/ Counts(buckets, w, Passed(w)')
  <2>1. Passed(w) \in Nat /\ Passed(w)' \in Nat /\ Passed(w)' <= Passed(w) /\ Limit \in Nat
    BY <1>1, PassedIs, PassedWillBe, IntakeAssumption DEF LimitRequests
  <2>2. Counts(buckets, w, Passed(w)) => Counts(buckets, w, Passed(w)')
    <3> SUFFICES ASSUME Counts(buckets, w, Passed(w)) PROVE Counts(buckets, w, Passed(w)')
      OBVIOUS
    <3>1. PICK i \in DOMAIN buckets : /\ buckets[i].key = w[1] /\ buckets[i].resetAt = w[2] + 1
                                      /\ Passed(w) <= buckets[i].count
      BY DEF Counts
    <3>2. buckets[i].count \in Nat
      BY <2>1, BucketsAre DEF InMemory
    <3>3. Passed(w)' <= buckets[i].count
      BY <2>1, <3>1, <3>2
    <3> QED
      BY <3>1, <3>3 DEF Counts
  <2>3. /\ w[2] > clock => Passed(w) = 0
        /\ w[1] \notin evicted => Passed(w) <= Limit
        /\ w[1] \notin evicted /\ w[2] = clock => Passed(w) = 0 \/ Counts(buckets, w, Passed(w))
    BY DEF InMemory
  <2> QED
    BY <2>1, <2>2, <2>3
<1> QED
  BY <1>1 DEF InMemory

\* A request that leaves, or was not among those past the check and is not now.
LEMMA NobodyPasses ==
  ASSUME LimitRequests, InMemory, NEW c \in Clients, Takes(c), pc'[c] # "funnel.org",
         UNCHANGED <<buckets, evicted, allowed>>
  PROVE  InMemory'
<1>1. ASSUME NEW w \in Windows PROVE Passed(w)' <= Passed(w)
  <2>1. Pending(w)' \subseteq Pending(w)
    BY DEF Pending, Takes, Window
  <2>2. /\ IsFiniteSet(Pending(w)) /\ Cardinality(Pending(w)) \in Nat /\ Passed(w) \in Nat
        /\ Passed(w) = allowed[w] + Cardinality(Pending(w))
    BY <1>1, PassedIs DEF LimitRequests, Passed
  <2>3. allowed' \in [Windows -> Nat]
    BY DEF LimitRequests
  <2>4. /\ Cardinality(Pending(w)') \in Nat
        /\ Passed(w)' = allowed'[w] + Cardinality(Pending(w)')
    BY <1>1, <2>3, PassedWillBe
  <2>5. Cardinality(Pending(w)') <= Cardinality(Pending(w))
    BY <2>1, <2>2, FS_Subset
  <2>6. allowed'[w] = allowed[w] /\ allowed[w] \in Nat
    BY <1>1 DEF LimitRequests
  <2> QED
    BY <2>2, <2>4, <2>5, <2>6
<1>2. allowed' \in [Windows -> Nat] /\ UNCHANGED clock
  BY DEF LimitRequests, Takes
<1> QED
  BY <1>1, <1>2, FewerPassed

-----------------------------------------------------------------------------
(***************************************************************************)
(* In memory: the buckets.                                                 *)
(***************************************************************************)
LEMMA VictimIs ==
  ASSUME NEW bs \in Seq(Bucket), bs # <<>>, NEW now \in Int
  PROVE  /\ Victim(bs, now) \in DOMAIN bs
         /\ (\E i \in DOMAIN bs : ~Live(bs[i], now)) => ~Live(bs[Victim(bs, now)], now)
<1> DEFINE expired == {i \in DOMAIN bs : ~Live(bs[i], now)}
           least == CHOOSE i \in expired : \A j \in expired : i <= j
<1>1. DOMAIN bs = 1 .. Len(bs) /\ Len(bs) \in Nat \ {0}
  BY BucketsAre
<1>2. IsFiniteSet(expired) /\ expired \subseteq Int
  <2>1. IsFiniteSet(1 .. Len(bs))
    BY <1>1, FS_Interval
  <2> QED
    BY <1>1, <2>1, FS_Subset
<1>3. expired # {} => \E i \in expired : \A j \in expired : i <= j
  BY <1>2, LeastOfNumbers DEF HasLeast
<1>4. expired # {} => least \in expired
  BY <1>3
<1>5. Victim(bs, now) = IF expired = {} THEN 1 ELSE least
  BY DEF Victim
<1> QED
  BY <1>1, <1>4, <1>5

\* What is left without the i-th.
LEMMA WithoutOne ==
  ASSUME NEW bs \in Seq(Bucket), KeyedOnce(bs), NEW i \in DOMAIN bs
  PROVE  /\ Without(bs, i) \in Seq(Bucket) /\ KeyedOnce(Without(bs, i))
         /\ \A j \in DOMAIN Without(bs, i) : \E k \in DOMAIN bs : Without(bs, i)[j] = bs[k]
         /\ \A k \in DOMAIN bs : k # i => \E j \in DOMAIN Without(bs, i) : Without(bs, i)[j] = bs[k]
<1> DEFINE n == Len(bs)
           s == SubSeq(bs, 1, i - 1)
           t == SubSeq(bs, i + 1, n)
           u == s \o t
<1>1. DOMAIN bs = 1 .. n /\ n \in Nat /\ i \in 1 .. n
  BY BucketsAre
<1>2. s \in Seq(Bucket) /\ Len(s) = i - 1 /\ \A j \in 1 .. i - 1 : s[j] = bs[j]
  BY <1>1
<1>3. t \in Seq(Bucket) /\ Len(t) = n - i /\ \A j \in 1 .. n - i : t[j] = bs[i + j]
  BY <1>1
<1> HIDE DEF s, t
<1>4. /\ u \in Seq(Bucket) /\ Len(u) = n - 1 /\ DOMAIN u = 1 .. n - 1
      /\ \A j \in 1 .. n - 1 : u[j] = IF j < i THEN bs[j] ELSE bs[j + 1]
  <2>1. /\ u \in Seq(Bucket) /\ Len(u) = Len(s) + Len(t)
        /\ \A j \in 1 .. Len(s) + Len(t) : u[j] = IF j <= Len(s) THEN s[j] ELSE t[j - Len(s)]
    BY <1>2, <1>3
  <2>2. Len(u) = n - 1 /\ DOMAIN u = 1 .. n - 1
    <3>1. Len(s) + Len(t) = n - 1
      BY <1>1, <1>2, <1>3
    <3>2. DOMAIN u = 1 .. Len(u)
      BY <2>1
    <3> QED
      BY <2>1, <3>1, <3>2
  <2>3. ASSUME NEW j \in 1 .. n - 1 PROVE u[j] = IF j < i THEN bs[j] ELSE bs[j + 1]
    <3>1. CASE j < i
      BY <1>1, <1>2, <1>3, <2>1, <3>1
    <3>2. CASE ~(j < i)
      <4>1. j - (i - 1) \in 1 .. n - i /\ i + (j - (i - 1)) = j + 1
        BY <1>1, <3>2
      <4>2. u[j] = t[j - (i - 1)]
        BY <1>1, <1>2, <1>3, <2>1, <3>2
      <4> QED
        BY <1>3, <3>2, <4>1, <4>2
    <3> QED
      BY <3>1, <3>2
  <2> QED
    BY <2>1, <2>2, <2>3
<1>5. Without(bs, i) = u
  BY DEF Without, s, t
<1> HIDE DEF u
<1>6. \A j \in 1 .. n - 1 : /\ j < i => j \in DOMAIN bs
                            /\ ~(j < i) => j + 1 \in DOMAIN bs
  BY <1>1
<1>7. \A j \in DOMAIN u : \E k \in DOMAIN bs : u[j] = bs[k]
  BY <1>4, <1>6
<1>8. ASSUME NEW j \in DOMAIN u, NEW k \in DOMAIN u, u[j].key = u[k].key PROVE j = k
  <2> DEFINE at(m) == IF m < i THEN m ELSE m + 1
  <2>1. at(j) \in DOMAIN bs /\ at(k) \in DOMAIN bs /\ u[j] = bs[at(j)] /\ u[k] = bs[at(k)]
    BY <1>4, <1>6, <1>8
  <2>2. at(j) = at(k)
    BY <1>8, <2>1 DEF KeyedOnce
  <2> QED
    BY <1>1, <1>4, <2>2
<1>9. ASSUME NEW k \in DOMAIN bs, k # i PROVE \E j \in DOMAIN u : u[j] = bs[k]
  <2> DEFINE j == IF k < i THEN k ELSE k - 1
  <2>1. j \in 1 .. n - 1 /\ (IF j < i THEN j ELSE j + 1) = k
    BY <1>1, <1>9
  <2>2. u[j] = bs[k]
    BY <1>4, <2>1
  <2> QED
    BY <1>4, <2>1, <2>2
<1> QED
  BY <1>4, <1>5, <1>7, <1>8, <1>9 DEF KeyedOnce

\* Room for one: all there were but at most one, the victim of a full map.
LEMMA RoomFor ==
  ASSUME NEW bs \in Seq(Bucket), KeyedOnce(bs), NEW now \in Int
  PROVE  /\ Room(bs, now) \in Seq(Bucket) /\ KeyedOnce(Room(bs, now))
         /\ \A j \in DOMAIN Room(bs, now) : \E k \in DOMAIN bs : Room(bs, now)[j] = bs[k]
         /\ \A k \in DOMAIN bs :
               \/ Len(bs) >= MaxBuckets /\ k = Victim(bs, now)
               \/ \E j \in DOMAIN Room(bs, now) : Room(bs, now)[j] = bs[k]
<1>1. CASE Len(bs) >= MaxBuckets
  <2>1. bs # <<>>
    BY <1>1, IntakeAssumption
  <2>2. Victim(bs, now) \in DOMAIN bs /\ Room(bs, now) = Without(bs, Victim(bs, now))
    BY <1>1, <2>1, VictimIs DEF Room
  <2> QED
    BY <1>1, <2>2, WithoutOne
<1>2. CASE ~(Len(bs) >= MaxBuckets)
  <2>1. Room(bs, now) = bs
    BY <1>2 DEF Room
  <2> QED
    BY <2>1
<1> QED
  BY <1>1, <1>2

\* A bucket put in the place of the one for its key, or at the end.
LEMMA PutIn ==
  ASSUME NEW bs \in Seq(Bucket), KeyedOnce(bs), NEW b \in Bucket
  PROVE  /\ Put(bs, b) \in Seq(Bucket) /\ KeyedOnce(Put(bs, b))
         /\ \E i \in DOMAIN Put(bs, b) : Put(bs, b)[i] = b
         /\ \A j \in DOMAIN Put(bs, b) :
               Put(bs, b)[j] = b \/ \E k \in DOMAIN bs : Put(bs, b)[j] = bs[k]
         /\ \A k \in DOMAIN bs : bs[k].key # b.key =>
               \E j \in DOMAIN Put(bs, b) : Put(bs, b)[j] = bs[k]
<1> DEFINE n == Len(bs)
<1>1. DOMAIN bs = 1 .. n /\ n \in Nat
  BY BucketsAre
<1>2. CASE Position(bs, b.key) = {}
  <2> DEFINE u == Append(bs, b)
  <2>1. /\ u \in Seq(Bucket) /\ DOMAIN u = 1 .. n + 1 /\ u[n + 1] = b
        /\ \A i \in 1 .. n : u[i] = bs[i]
    BY <1>1
  <2>2. Put(bs, b) = u
    BY <1>2 DEF Put
  <2>3. \A i \in 1 .. n : bs[i].key # b.key
    BY <1>1, <1>2 DEF Position
  <2> HIDE DEF u
  <2>4. \A i \in 1 .. n + 1 : i = n + 1 \/ i \in 1 .. n
    BY <1>1
  <2>5. KeyedOnce(u)
    BY <1>1, <2>1, <2>3, <2>4 DEF KeyedOnce
  <2>6. n + 1 \in DOMAIN u /\ \A i \in DOMAIN bs : i \in DOMAIN u
    BY <1>1, <2>1
  <2> QED
    BY <1>1, <2>1, <2>2, <2>4, <2>5, <2>6
<1>3. CASE Position(bs, b.key) # {}
  <2> DEFINE u == [i \in DOMAIN bs |-> IF bs[i].key = b.key THEN b ELSE bs[i]]
  <2>1. /\ DOMAIN u = 1 .. n
        /\ \A i \in 1 .. n : u[i] = IF bs[i].key = b.key THEN b ELSE bs[i]
    BY <1>1
  <2>2. u \in Seq(Bucket)
    BY <1>1
  <2>3. Put(bs, b) = u
    BY <1>3 DEF Put
  <2> HIDE DEF u
  <2>4. \A i \in 1 .. n : u[i].key = bs[i].key
    BY <2>1
  <2>5. KeyedOnce(u)
    BY <1>1, <2>1, <2>4 DEF KeyedOnce
  <2>6. \E i \in DOMAIN u : u[i] = b
    BY <1>1, <1>3, <2>1 DEF Position
  <2> QED
    BY <1>1, <2>1, <2>2, <2>3, <2>5, <2>6
<1> QED
  BY <1>2, <1>3

-----------------------------------------------------------------------------
(***************************************************************************)
(* In memory: the invariant, step by step.                                 *)
(***************************************************************************)
\* One more has passed, in the window of the check.
LEMMA PassesOne ==
  ASSUME LimitRequests, NEW c \in Clients, Takes(c), UNCHANGED allowed,
         pc[c] = "funnel.limit", pc'[c] = "funnel.org", loc'[c].now = clock,
         NEW w \in Windows
  PROVE  /\ Passed(w) \in Nat
         /\ Passed(w)' = IF w = <<loc[c].address, clock>> THEN Passed(w) + 1 ELSE Passed(w)
<1>1. allowed \in [Windows -> Nat] /\ allowed' \in [Windows -> Nat] /\ allowed'[w] = allowed[w]
  BY DEF LimitRequests
<1>2. /\ IsFiniteSet(Pending(w)) /\ Cardinality(Pending(w)) \in Nat /\ Passed(w) \in Nat
      /\ Passed(w) = allowed[w] + Cardinality(Pending(w))
  BY <1>1, PassedIs DEF Passed
<1>3. Passed(w)' = allowed[w] + Cardinality(Pending(w)')
  BY <1>1, PassedWillBe
<1>4. /\ c \notin Pending(w) /\ Window(c)' = <<loc[c].address, clock>>
      /\ \A d \in Clients \ {c} : d \in Pending(w)' <=> d \in Pending(w)
  BY DEF Pending, Takes, Window
<1>5. CASE w = <<loc[c].address, clock>>
  <2>1. Pending(w)' = Pending(w) \cup {c}
    <3>1. c \in Pending(w)'
      BY <1>4, <1>5 DEF Pending
    <3>2. Pending(w) \subseteq Clients /\ Pending(w)' \subseteq Clients
      BY DEF Pending
    <3> QED
      BY <1>4, <3>1, <3>2
  <2>2. Cardinality(Pending(w)') = Cardinality(Pending(w)) + 1
    BY <1>2, <1>4, <2>1, FS_AddElement
  <2>3. allowed[w] \in Nat
    BY <1>1
  <2> QED
    BY <1>2, <1>3, <1>5, <2>2, <2>3
<1>6. CASE w # <<loc[c].address, clock>>
  <2>1. Pending(w)' = Pending(w)
    <3>1. c \notin Pending(w)'
      BY <1>4, <1>6 DEF Pending
    <3>2. Pending(w) \subseteq Clients /\ Pending(w)' \subseteq Clients
      BY DEF Pending
    <3> QED
      BY <1>4, <3>1, <3>2
  <2> QED
    BY <1>2, <1>3, <1>6, <2>1
<1> QED
  BY <1>5, <1>6

\* The check counts the request in its address's bucket, and what other addresses
\* have in this window stays, but for a bucket that is evicted.
LEMMA CountedIn ==
  ASSUME LimitRequests, InMemory, NEW c \in Clients, Takes(c), UNCHANGED allowed,
         pc[c] = "funnel.limit", pc'[c] = "funnel.org", loc'[c].now = clock,
         buckets' \in Seq(Bucket), KeyedOnce(buckets'), evicted \subseteq evicted',
         \A i \in DOMAIN buckets' : buckets'[i].resetAt <= clock + 1,
         loc[c].address \in evicted' \/
            Counts(buckets', <<loc[c].address, clock>>, Passed(<<loc[c].address, clock>>) + 1),
         \A k \in DOMAIN buckets :
            buckets[k].key # loc[c].address /\ buckets[k].resetAt = clock + 1 =>
               \/ buckets[k].key \in evicted'
               \/ \E j \in DOMAIN buckets' : buckets'[j] = buckets[k]
  PROVE  InMemory'
<1> DEFINE here == <<loc[c].address, clock>>
<1>1. UNCHANGED clock /\ clock \in Nat /\ Limit \in Nat
  BY IntakeAssumption DEF Takes, LimitRequests
<1>2. ASSUME NEW w \in Windows
      PROVE  /\ w[2] > clock => Passed(w)' = 0
             /\ w[1] \notin evicted' => Passed(w)' <= Limit
             /\ w[1] \notin evicted' /\ w[2] = clock =>
                   Passed(w)' = 0 \/ Counts(buckets', w, Passed(w)')
  <2>1. /\ Passed(w) \in Nat
        /\ Passed(w)' = IF w = here THEN Passed(w) + 1 ELSE Passed(w)
    BY <1>2, PassesOne
  <2>2. w = <<w[1], w[2]>> /\ w[2] \in Nat
    BY <1>2 DEF Windows
  <2>3. /\ w[2] > clock => Passed(w) = 0
        /\ w[1] \notin evicted => Passed(w) <= Limit
        /\ w[1] \notin evicted /\ w[2] = clock => Passed(w) = 0 \/ Counts(buckets, w, Passed(w))
    BY DEF InMemory
  <2>4. CASE w = here
    <3>1. w[2] = clock /\ w[1] = loc[c].address
      BY <2>4
    <3>2. w[1] \notin evicted' => Counts(buckets', w, Passed(w)')
      BY <2>1, <2>4, <3>1
    <3>3. Counts(buckets', w, Passed(w)') => Passed(w)' <= Limit
      <4> SUFFICES ASSUME Counts(buckets', w, Passed(w)') PROVE Passed(w)' <= Limit
        OBVIOUS
      <4>1. PICK i \in DOMAIN buckets' : Passed(w)' <= buckets'[i].count
        BY DEF Counts
      <4>2. buckets'[i].count \in 1 .. Limit
        BY BucketsAre
      <4> QED
        BY <1>1, <2>1, <4>1, <4>2
    <3> QED
      BY <1>1, <3>1, <3>2, <3>3
  <2>5. CASE w # here
    <3>1. Passed(w)' = Passed(w)
      BY <2>1, <2>5
    <3>2. ASSUME w[1] \notin evicted', w[2] = clock, Counts(buckets, w, Passed(w))
          PROVE  Counts(buckets', w, Passed(w))
      <4>1. PICK k \in DOMAIN buckets : /\ buckets[k].key = w[1]
                                        /\ buckets[k].resetAt = w[2] + 1
                                        /\ Passed(w) <= buckets[k].count
        BY <3>2 DEF Counts
      <4>2. w[1] # loc[c].address
        BY <2>2, <2>5, <3>2
      <4>3. PICK j \in DOMAIN buckets' : buckets'[j] = buckets[k]
        BY <3>2, <4>1, <4>2
      <4> QED
        BY <4>1, <4>3 DEF Counts
    <3> QED
      BY <2>3, <3>1, <3>2
  <2> QED
    BY <2>4, <2>5
<1>3. KeyedOnce(buckets)'
  BY DEF KeyedOnce
<1> QED
  BY <1>1, <1>2, <1>3 DEF InMemory

LEMMA BucketHit ==
  ASSUME LimitRequests, InMemory, NEW c \in Clients, Takes(c), UNCHANGED <<allowed, evicted>>,
         pc[c] = "funnel.limit", pc'[c] = "funnel.org", loc'[c].now = clock,
         NEW i \in DOMAIN buckets, buckets[i].key = loc[c].address, Live(buckets[i], clock),
         buckets[i].count < Limit, buckets' = [buckets EXCEPT ![i].count = @ + 1]
  PROVE  InMemory'
<1> DEFINE here == <<loc[c].address, clock>>
<1>1. /\ clock \in Nat /\ clock \in 0 .. MaxClock /\ loc[c].address \in Addresses
      /\ Limit \in Nat /\ MaxClock \in Nat
  BY IntakeAssumption DEF LimitRequests, LimitRequest, InFlight, Takes
<1>2. /\ buckets \in Seq(Bucket) /\ DOMAIN buckets = 1 .. Len(buckets) /\ Len(buckets) \in Nat
      /\ \A j \in DOMAIN buckets :
            /\ buckets[j] \in Bucket /\ buckets[j].key \in Addresses
            /\ buckets[j].count \in 1 .. Limit /\ buckets[j].resetAt \in Nat
            /\ buckets[j].resetAt <= clock + 1
  BY BucketsAre DEF InMemory
<1>3. buckets[i].resetAt = clock + 1
  BY <1>1, <1>2 DEF Live
<1>4. /\ DOMAIN buckets' = DOMAIN buckets
      /\ \A j \in DOMAIN buckets : j # i => buckets'[j] = buckets[j]
      /\ buckets'[i] = [buckets[i] EXCEPT !.count = @ + 1]
  OBVIOUS
<1>5. /\ buckets'[i] \in Bucket /\ buckets'[i].key = buckets[i].key
      /\ buckets'[i].resetAt = buckets[i].resetAt /\ buckets'[i].count = buckets[i].count + 1
  <2>1. buckets[i].count + 1 \in 1 .. Limit
    BY <1>1, <1>2
  <2> QED
    BY <1>2, <1>4, <2>1 DEF Bucket
<1>6. buckets' \in Seq(Bucket)
  <2>1. \A j \in 1 .. Len(buckets) : buckets'[j] \in Bucket
    BY <1>2, <1>4, <1>5
  <2>2. buckets' \in [1 .. Len(buckets) -> Bucket]
    BY <1>2, <1>4, <2>1
  <2> QED
    BY <1>2, <2>2
<1>7. KeyedOnce(buckets')
  <2>1. \A j \in DOMAIN buckets : buckets'[j].key = buckets[j].key
    BY <1>4, <1>5
  <2> QED
    BY <1>4, <2>1 DEF KeyedOnce, InMemory
<1>8. \A j \in DOMAIN buckets' : buckets'[j].resetAt <= clock + 1
  BY <1>2, <1>4, <1>5
<1>9. loc[c].address \notin evicted => Passed(here) <= buckets[i].count
  <2> SUFFICES ASSUME loc[c].address \notin evicted PROVE Passed(here) <= buckets[i].count
    OBVIOUS
  <2>1. here \in Windows /\ here[1] = loc[c].address /\ here[2] = clock
    BY <1>1 DEF Windows
  <2>2. Passed(here) = 0 \/ Counts(buckets, here, Passed(here))
    BY <2>1 DEF InMemory
  <2>3. CASE Passed(here) = 0
    BY <1>1, <1>2, <2>3
  <2>4. CASE Counts(buckets, here, Passed(here))
    <3>1. PICK j \in DOMAIN buckets : /\ buckets[j].key = loc[c].address
                                      /\ Passed(here) <= buckets[j].count
      BY <2>1, <2>4 DEF Counts
    <3>2. j = i
      BY <3>1 DEF InMemory, KeyedOnce
    <3> QED
      BY <3>1, <3>2
  <2> QED
    BY <2>2, <2>3, <2>4
<1>10. loc[c].address \in evicted' \/ Counts(buckets', here, Passed(here) + 1)
  <2>1. here[1] = loc[c].address /\ here[2] = clock /\ here \in Windows
    BY <1>1 DEF Windows
  <2>2. Passed(here) \in Nat
    BY <2>1, PassedIs DEF LimitRequests
  <2>3. loc[c].address \notin evicted => Passed(here) + 1 <= buckets'[i].count
    BY <1>2, <1>5, <1>9, <2>2
  <2>4. i \in DOMAIN buckets' /\ buckets'[i].key = here[1] /\ buckets'[i].resetAt = here[2] + 1
    BY <1>3, <1>4, <1>5, <2>1
  <2> QED
    BY <2>3, <2>4 DEF Counts
<1>11. \A k \in DOMAIN buckets : buckets[k].key # loc[c].address =>
          \E j \in DOMAIN buckets' : buckets'[j] = buckets[k]
  BY <1>4
<1> QED
  BY <1>6, <1>7, <1>8, <1>10, <1>11, CountedIn

LEMMA BucketOpened ==
  ASSUME LimitRequests, InMemory, NEW c \in Clients, Takes(c), UNCHANGED allowed,
         pc[c] = "funnel.limit", pc'[c] = "funnel.org", loc'[c].now = clock,
         \A i \in DOMAIN buckets : buckets[i].key = loc[c].address => ~Live(buckets[i], clock),
         NEW fresh, fresh = [key |-> loc[c].address, count |-> 1, resetAt |-> clock + 1],
         buckets' = Put(Room(buckets, clock), fresh),
         NEW victim, victim = buckets[Victim(buckets, clock)],
         evicted' = IF Len(buckets) >= MaxBuckets /\ Live(victim, clock)
                    THEN evicted \cup {victim.key} ELSE evicted
  PROVE  InMemory'
<1> DEFINE here == <<loc[c].address, clock>>
           room == Room(buckets, clock)
<1>1. /\ clock \in Nat /\ clock \in 0 .. MaxClock /\ loc[c].address \in Addresses
      /\ Limit \in Nat \ {0} /\ MaxClock \in Nat
  BY IntakeAssumption DEF LimitRequests, LimitRequest, InFlight, Takes
<1>2. /\ buckets \in Seq(Bucket) /\ KeyedOnce(buckets)
      /\ \A j \in DOMAIN buckets : buckets[j].resetAt <= clock + 1
  BY DEF InMemory
<1>3. /\ room \in Seq(Bucket) /\ KeyedOnce(room)
      /\ \A j \in DOMAIN room : \E k \in DOMAIN buckets : room[j] = buckets[k]
      /\ \A k \in DOMAIN buckets :
            \/ Len(buckets) >= MaxBuckets /\ k = Victim(buckets, clock)
            \/ \E j \in DOMAIN room : room[j] = buckets[k]
  <2>1. clock \in Int
    BY <1>1
  <2> QED
    BY <1>2, <2>1, RoomFor, Zenon
<1>4. fresh \in Bucket /\ fresh.key = loc[c].address /\ fresh.count = 1 /\ fresh.resetAt = clock + 1
  <2>1. 1 \in 1 .. Limit /\ clock + 1 \in 1 .. MaxClock + 1
    BY <1>1
  <2> QED
    BY <1>1, <2>1 DEF Bucket
<1> HIDE DEF room
<1>5. /\ buckets' \in Seq(Bucket) /\ KeyedOnce(buckets')
      /\ \E i \in DOMAIN buckets' : buckets'[i] = fresh
      /\ \A j \in DOMAIN buckets' :
            buckets'[j] = fresh \/ \E k \in DOMAIN room : buckets'[j] = room[k]
      /\ \A k \in DOMAIN room : room[k].key # fresh.key =>
            \E j \in DOMAIN buckets' : buckets'[j] = room[k]
  <2>1. buckets' = Put(room, fresh)
    BY DEF room
  <2> QED
    <3> DEFINE put == Put(room, fresh)
    <3>1. /\ put \in Seq(Bucket) /\ KeyedOnce(put)
          /\ \E i \in DOMAIN put : put[i] = fresh
          /\ \A j \in DOMAIN put :
                put[j] = fresh \/ \E k \in DOMAIN room : put[j] = room[k]
          /\ \A k \in DOMAIN room : room[k].key # fresh.key =>
                \E j \in DOMAIN put : put[j] = room[k]
      BY <1>3, <1>4, PutIn, Zenon
    <3>2. buckets' = put
      BY <2>1
    <3> HIDE DEF put
    <3>3. buckets' \in Seq(Bucket)
      BY <3>1, <3>2
    <3>4. KeyedOnce(buckets')
      BY <3>1, <3>2 DEF KeyedOnce
    <3>5. \E i \in DOMAIN buckets' : buckets'[i] = fresh
      BY ONLY <3>1, <3>2
    <3>6. \A j \in DOMAIN buckets' :
             buckets'[j] = fresh \/ \E k \in DOMAIN room : buckets'[j] = room[k]
      BY ONLY <3>1, <3>2
    <3>7. \A k \in DOMAIN room : room[k].key # fresh.key =>
             \E j \in DOMAIN buckets' : buckets'[j] = room[k]
      BY ONLY <3>1, <3>2
    <3> QED
      BY <3>3, <3>4, <3>5, <3>6, <3>7
<1>6. \A j \in DOMAIN buckets' : buckets'[j].resetAt <= clock + 1
  <2> SUFFICES ASSUME NEW j \in DOMAIN buckets' PROVE buckets'[j].resetAt <= clock + 1
    OBVIOUS
  <2>1. CASE buckets'[j] = fresh
    BY <1>1, <1>4, <2>1
  <2>2. CASE \E k \in DOMAIN room : buckets'[j] = room[k]
    BY <1>2, <1>3, <2>2
  <2> QED
    BY <1>5, <2>1, <2>2
<1>7. loc[c].address \in evicted' \/ Counts(buckets', here, Passed(here) + 1)
  <2> SUFFICES ASSUME loc[c].address \notin evicted PROVE Counts(buckets', here, Passed(here) + 1)
    OBVIOUS
  <2>1. here[1] = loc[c].address /\ here[2] = clock /\ here \in Windows
    BY <1>1 DEF Windows
  <2>2. Passed(here) = 0 \/ Counts(buckets, here, Passed(here))
    BY <2>1 DEF InMemory
  <2>3. ~Counts(buckets, here, Passed(here))
    <3> SUFFICES ASSUME NEW i \in DOMAIN buckets, buckets[i].key = loc[c].address,
                        buckets[i].resetAt = clock + 1
                 PROVE  FALSE
      BY <2>1 DEF Counts
    <3>1. ~(buckets[i].resetAt > clock)
      BY DEF Live
    <3> QED
      BY <1>1, <3>1
  <2>4. Passed(here) + 1 = 1
    BY <2>2, <2>3
  <2> QED
    BY <1>4, <1>5, <2>1, <2>4 DEF Counts
<1>8. ASSUME NEW k \in DOMAIN buckets, buckets[k].key # loc[c].address,
             buckets[k].resetAt = clock + 1
      PROVE  \/ buckets[k].key \in evicted'
             \/ \E j \in DOMAIN buckets' : buckets'[j] = buckets[k]
  <2>1. CASE Len(buckets) >= MaxBuckets /\ k = Victim(buckets, clock)
    <3>1. Live(buckets[k], clock)
      BY <1>1, <1>8 DEF Live
    <3> QED
      BY <2>1, <3>1
  <2>2. CASE \E j \in DOMAIN room : room[j] = buckets[k]
    BY <1>4, <1>5, <1>8, <2>2
  <2> QED
    BY <1>3, <2>1, <2>2
<1>9. evicted \subseteq evicted'
  OBVIOUS
<1> QED
  BY <1>5, <1>6, <1>7, <1>8, <1>9, CountedIn

-----------------------------------------------------------------------------
(***************************************************************************)
(* The limiter: what the steps are, on either store.                       *)
(***************************************************************************)
LEMMA OnwardsTakes ==
  ASSUME Funnels, LimitRequests, NEW c \in Clients, Onwards(c)
  PROVE  /\ Takes(c) /\ LimitRequests' /\ ~Ahead(c)' /\ pc'[c] # "funnel.org"
         /\ UNCHANGED <<buckets, evicted, allowed, db>>
<1>1. /\ InFlight(c) /\ UNCHANGED <<buckets, evicted, allowed, db>>
      /\ UNCHANGED <<clock, joint, served, postgres>>
  BY DEF Onwards, ReadReceipts, TruncateReceipts, WriteReceipts, CutOff, At, InFlight,
     intakeVars, limiterHistory, history
<1>2. /\ \/ Respond(c)
         \/ \E records : Goto(c, "funnel.truncate", [records |-> records])
         \/ Goto(c, "funnel.fill", Nothing)
  BY DEF Onwards, ReadReceipts, TruncateReceipts, WriteReceipts, CutOff
<1>3. Takes(c) /\ ~Ahead(c)' /\ pc'[c] \notin {"calling", "funnel.org"}
  <2>1. CASE Respond(c)
    BY <1>1, <2>1, AnswerTakes
  <2>2. ASSUME NEW records, Goto(c, "funnel.truncate", [records |-> records])
        PROVE  Takes(c) /\ pc'[c] = "funnel.truncate"
    <3> DEFINE locals == [records |-> records]
    <3>1. DOMAIN locals = {"records"} /\ Goto(c, "funnel.truncate", locals)
      BY <2>2
    <3>2. "funnel.truncate" \in FunnelPC
      BY DEF FunnelPC
    <3> HIDE DEF locals
    <3>3. DOMAIN locals \cap {"n", "address"} = {} /\ "now" \notin DOMAIN locals
      BY <3>1
    <3> QED
      BY <1>1, <3>1, <3>2, <3>3, GotoTakes
  <2>3. CASE Goto(c, "funnel.fill", Nothing)
    <3>1. DOMAIN Nothing \cap {"n", "address"} = {} /\ "now" \notin DOMAIN Nothing
      BY DEF Nothing
    <3>2. "funnel.fill" \in FunnelPC
      BY DEF FunnelPC
    <3> QED
      BY <1>1, <2>3, <3>1, <3>2, GotoTakes DEF Ahead
  <2> QED
    BY <1>2, <2>1, <2>2, <2>3 DEF Ahead
<1>4. allowed' \in [Windows -> Nat]
  BY <1>1 DEF LimitRequests
<1> QED
  BY <1>1, <1>3, <1>4, LimitRequestsStay

\* Filed requests: the audit and the opportunity.
LEMMA FilingTwo ==
  ASSUME NEW k1, NEW k2, k1.call = "insert", k2.call = "insert",
         k1.table # "rate_limit_buckets", k2.table # "rate_limit_buckets"
  PROVE  /\ IsSequence(<<k1, k2>>) /\ <<k1, k2>> # <<>>
         /\ \A i \in DOMAIN <<k1, k2>> : /\ <<k1, k2>>[i].call = "insert"
                                         /\ <<k1, k2>>[i].table # "rate_limit_buckets"
<1>1. <<k1, k2>> \in Seq({k1, k2})
  OBVIOUS
<1>2. IsSequence(<<k1, k2>>)
  BY <1>1, SequenceIs
<1>3. DOMAIN <<k1, k2>> = {1, 2} /\ <<k1, k2>>[1] = k1 /\ <<k1, k2>>[2] = k2
  OBVIOUS
<1>4. <<k1, k2>> # <<>>
  OBVIOUS
<1> QED
  BY <1>2, <1>3, <1>4

LEMMA RecordTakes ==
  ASSUME Funnels, LimitRequests, NEW c \in Clients, RecordRequest(c)
  PROVE  /\ Takes(c) /\ LimitRequests' /\ ~Ahead(c)' /\ pc[c] = "funnel.org"
         /\ pc'[c] # "funnel.org" /\ Window(c) \in Windows
         /\ pc'[c] # "idle" => loc'[c].now = loc[c].now
         /\ allowed' = [allowed EXCEPT ![Window(c)] = @ + 1]
         /\ UNCHANGED <<buckets, evicted, db>>
<1>1. /\ pc[c] = "funnel.org" /\ InFlight(c) /\ UNCHANGED <<buckets, evicted, db>>
      /\ UNCHANGED <<clock, joint, served, postgres>>
      /\ allowed' = [allowed EXCEPT ![Window(c)] = @ + 1]
  BY DEF RecordRequest, At, InFlight, limiterHistory, history, Window
<1>2. /\ {"n", "address", "now"} \subseteq DOMAIN loc[c] /\ Window(c) \in Windows
      /\ allowed' \in [Windows -> Nat]
  <2>1. /\ {"n", "address", "now"} \subseteq DOMAIN loc[c]
        /\ loc[c].address \in Addresses /\ loc[c].now \in 0 .. clock
        /\ clock \in 0 .. MaxClock /\ allowed \in [Windows -> Nat]
    BY <1>1 DEF Funnels, FunnelRequest, LimitRequests, LimitRequest
  <2>2. Window(c) \in Windows
    BY <2>1, IntakeAssumption DEF Window, Windows
  <2> QED
    BY <1>1, <2>1, <2>2
<1>3. CASE Respond(c)
  BY <1>1, <1>2, <1>3, AnswerTakes, LimitRequestsStay
<1>4. CASE Goto(c, "funnel.readReceipts", Nothing)
  <2>1. DOMAIN Nothing \cap {"n", "address"} = {} /\ "now" \notin DOMAIN Nothing
    BY DEF Nothing
  <2>2. "funnel.readReceipts" \in FunnelPC
    BY DEF FunnelPC
  <2>3. Takes(c) /\ pc'[c] = "funnel.readReceipts" /\ loc'[c].now = loc[c].now
    BY <1>1, <1>2, <1>4, <2>1, <2>2, GotoTakes
  <2>4. LimitRequests'
    BY <1>2, <2>3, LimitRequestsStay
  <2> QED
    BY <1>1, <1>2, <2>3, <2>4 DEF Ahead
<1>5. ASSUME NEW o \in AutomspOrg,
             Goto(c, "calling",
                [org |-> o.id, next |-> "funnel.readReceipts", calls |->
                 <<Inserting("audits", [id |-> Number(c), organizationId |-> o.id,
                                        status |-> "received"]),
                   Inserting("opportunities", [id |-> Number(c),
                                        organizationId |-> o.id, stage |-> "new"])>>])
      PROVE  /\ Takes(c) /\ LimitRequests' /\ ~Ahead(c)' /\ pc'[c] # "funnel.org"
             /\ loc'[c].now = loc[c].now
  <2> DEFINE k1 == Inserting("audits", [id |-> Number(c), organizationId |-> o.id,
                                        status |-> "received"])
             k2 == Inserting("opportunities", [id |-> Number(c), organizationId |-> o.id,
                                               stage |-> "new"])
  <2>1. /\ k1.call = "insert" /\ k2.call = "insert"
        /\ k1.table # "rate_limit_buckets" /\ k2.table # "rate_limit_buckets"
    BY DEF Inserting
  <2>2. Goto(c, "calling", [org |-> o.id, next |-> "funnel.readReceipts", calls |-> <<k1, k2>>])
    BY <1>5
  <2> HIDE DEF k1, k2
  <2> DEFINE calls == <<k1, k2>>
  <2>3. /\ IsSequence(calls) /\ calls # <<>>
        /\ \A i \in DOMAIN calls : /\ calls[i].call = "insert"
                                   /\ calls[i].table # "rate_limit_buckets"
    BY <2>1, FilingTwo
  <2> HIDE DEF calls
  <2> DEFINE locals == [org |-> o.id, next |-> "funnel.readReceipts", calls |-> calls]
  <2>4. /\ DOMAIN locals = {"org", "next", "calls"} /\ locals["next"] = "funnel.readReceipts"
        /\ locals["calls"] = calls /\ Goto(c, "calling", locals)
    BY <2>2 DEF calls
  <2> HIDE DEF locals
  <2>5. /\ DOMAIN locals \cap {"n", "address"} = {} /\ "now" \notin DOMAIN locals
        /\ "calling" \in FunnelPC
    BY <2>4 DEF FunnelPC
  <2>6. /\ Takes(c) /\ pc'[c] = "calling" /\ loc'[c].now = loc[c].now
        /\ loc'[c]["next"] = "funnel.readReceipts" /\ loc'[c]["calls"] = calls
    BY <1>1, <1>2, <2>4, <2>5, GotoTakes
  <2>7. CallsAre(c)'
    <3>1. Filing(c)'
      BY <2>3, <2>6 DEF Filing
    <3> QED
      BY <2>6, <3>1 DEF CallsAre
  <2>8. LimitRequests'
    BY <1>2, <2>6, <2>7, LimitRequestsStay
  <2> QED
    BY <2>6, <2>8 DEF Ahead
<1> QED
  BY <1>1, <1>2, <1>3, <1>4, <1>5 DEF RecordRequest

\* A call that writes the address's row, and one that files the request.
NoteCall(c) == Upserting("rate_limit_buckets", Note(c))

LEMMA NoteIsWritten ==
  ASSUME Funnels, LimitRequests, NEW c \in Clients, StoreCall(c), UNCHANGED intakeVars,
         loc[c].next = "funnel.org"
  PROVE  /\ Takes(c) /\ LimitRequests' /\ postgres /\ Noting(c)
         /\ pc[c] = "calling" /\ pc'[c] = "funnel.org" /\ loc'[c].now = loc[c].now
         /\ db' = UpsertRow("rate_limit_buckets", Note(c))
         /\ UNCHANGED allowed
<1>1. /\ pc[c] = "calling" /\ InFlight(c)
      /\ UNCHANGED <<clock, joint, served, postgres, allowed>>
  BY DEF StoreCall, At, InFlight, intakeVars, history
<1>2. /\ postgres /\ Noting(c) /\ {"n", "address", "now"} \subseteq DOMAIN loc[c]
  BY <1>1 DEF LimitRequests, LimitRequest, Funnels, FunnelRequest
<1> DEFINE k == NoteCall(c)
<1>3. /\ k.call = "upsert" /\ k.table = "rate_limit_buckets" /\ k.row = Note(c)
      /\ Head(loc[c].calls) = k /\ Tail(loc[c].calls) = <<>>
  <2>1. k.call = "upsert" /\ k.table = "rate_limit_buckets" /\ k.row = Note(c)
    BY DEF NoteCall, Upserting
  <2>2. loc[c].calls = <<k>>
    BY <1>2 DEF Noting, NoteCall
  <2>3. \A x : Head(<<x>>) = x /\ Tail(<<x>>) = <<>>
    OBVIOUS
  <2> HIDE DEF k
  <2> QED
    BY <2>1, <2>2, <2>3
<1> HIDE DEF k
<1>4. ~Refused(k) /\ ~FindsNothing(k)
  BY <1>3 DEF Refused, FindsNothing
<1>5. db' = UpsertRow("rate_limit_buckets", Note(c)) /\ Goto(c, "funnel.org", Nothing)
  BY <1>3, <1>4 DEF StoreCall
<1>6. /\ DOMAIN Nothing \cap {"n", "address"} = {} /\ "now" \notin DOMAIN Nothing
      /\ "funnel.org" \in FunnelPC
  BY DEF Nothing, FunnelPC
<1>7. Takes(c) /\ pc'[c] = "funnel.org" /\ loc'[c].now = loc[c].now
  BY <1>1, <1>2, <1>5, <1>6, GotoTakes
<1>8. allowed' \in [Windows -> Nat]
  BY <1>1 DEF LimitRequests
<1> QED
  BY <1>1, <1>2, <1>5, <1>7, <1>8, LimitRequestsStay

LEMMA FilingTakes ==
  ASSUME Funnels, LimitRequests, NEW c \in Clients, StoreCall(c), UNCHANGED intakeVars,
         loc[c].next # "funnel.org"
  PROVE  /\ Takes(c) /\ LimitRequests' /\ ~Ahead(c) /\ ~Ahead(c)' /\ pc'[c] # "funnel.org"
         /\ "rate_limit_buckets" \in DOMAIN db =>
               /\ "rate_limit_buckets" \in DOMAIN db'
               /\ db'["rate_limit_buckets"] = db["rate_limit_buckets"]
         /\ UNCHANGED <<buckets, evicted, allowed>>
<1> DEFINE k == Head(loc[c].calls)
           rest == Tail(loc[c].calls)
<1>1. /\ pc[c] = "calling" /\ InFlight(c) /\ UNCHANGED <<buckets, evicted, allowed>>
      /\ UNCHANGED <<clock, joint, served, postgres>>
  BY DEF StoreCall, At, InFlight, intakeVars, history
<1>2. /\ Filing(c) /\ {"n", "address", "now", "calls", "next"} \subseteq DOMAIN loc[c]
      /\ loc[c].next = "funnel.readReceipts" /\ ~Ahead(c)
  BY <1>1 DEF LimitRequests, LimitRequest, Funnels, FunnelRequest, Ahead
<1>3. /\ k = loc[c].calls[1] /\ k.call = "insert" /\ k.table # "rate_limit_buckets"
      /\ IsSequence(rest)
      /\ \A i \in DOMAIN rest : /\ rest[i].call = "insert"
                                /\ rest[i].table # "rate_limit_buckets"
  <2>1. /\ IsSequence(loc[c].calls) /\ loc[c].calls # <<>>
        /\ \A i \in DOMAIN loc[c].calls : /\ loc[c].calls[i].call = "insert"
                                          /\ loc[c].calls[i].table # "rate_limit_buckets"
    BY <1>2 DEF Filing
  <2>2. DOMAIN loc[c].calls = 1 .. Len(loc[c].calls)
    BY <2>1, SequenceSpan
  <2>3. /\ IsSequence(rest) /\ k = loc[c].calls[1] /\ Len(loc[c].calls) \in Nat \ {0}
        /\ \A i \in 1 .. Len(rest) : /\ rest[i] = loc[c].calls[i + 1]
                                     /\ i + 1 \in 2 .. Len(loc[c].calls)
    BY <2>1, TailOf
  <2>4. DOMAIN rest = 1 .. Len(rest)
    BY <2>3, SequenceSpan
  <2> HIDE DEF k, rest
  <2>5. 1 \in DOMAIN loc[c].calls
    BY <2>2, <2>3
  <2>6. \A i \in 1 .. Len(rest) : i + 1 \in DOMAIN loc[c].calls
    BY <2>2, <2>3
  <2> QED
    BY <2>1, <2>3, <2>4, <2>5, <2>6
<1>4. /\ db' = db \/ db' = InsertRow(k.table, k.row)
      /\ \/ Respond(c)
         \/ rest # <<>> /\ Goto(c, "calling", [calls |-> rest])
         \/ Goto(c, "funnel.readReceipts", Nothing)
  BY <1>2, <1>3 DEF StoreCall
<1> HIDE DEF k, rest
<1>5. "rate_limit_buckets" \in DOMAIN db =>
         /\ "rate_limit_buckets" \in DOMAIN db'
         /\ db'["rate_limit_buckets"] = db["rate_limit_buckets"]
  BY <1>3, <1>4 DEF InsertRow
<1>6. allowed' \in [Windows -> Nat]
  BY <1>1 DEF LimitRequests
<1>7. CASE Respond(c)
  BY <1>1, <1>2, <1>5, <1>6, <1>7, AnswerTakes, LimitRequestsStay
<1>8. CASE rest # <<>> /\ Goto(c, "calling", [calls |-> rest])
  <2> DEFINE locals == [calls |-> rest]
  <2>1. DOMAIN locals = {"calls"} /\ locals["calls"] = rest /\ Goto(c, "calling", locals)
    BY <1>8
  <2> HIDE DEF locals
  <2>2. /\ DOMAIN locals \cap {"n", "address"} = {} /\ "now" \notin DOMAIN locals
        /\ "calling" \in FunnelPC
    BY <2>1 DEF FunnelPC
  <2>3. /\ Takes(c) /\ pc'[c] = "calling"
        /\ loc'[c]["next"] = "funnel.readReceipts" /\ loc'[c]["calls"] = rest
    BY <1>1, <1>2, <2>1, <2>2, GotoTakes
  <2>4. CallsAre(c)'
    <3>1. Filing(c)'
      BY <1>3, <1>8, <2>3 DEF Filing
    <3> QED
      BY <2>3, <3>1 DEF CallsAre
  <2>5. LimitRequests'
    BY <1>6, <2>3, <2>4, LimitRequestsStay
  <2> QED
    BY <1>1, <1>2, <1>5, <2>3, <2>5 DEF Ahead
<1>9. CASE Goto(c, "funnel.readReceipts", Nothing)
  <2>1. /\ DOMAIN Nothing \cap {"n", "address"} = {} /\ "now" \notin DOMAIN Nothing
        /\ "funnel.readReceipts" \in FunnelPC
    BY DEF Nothing, FunnelPC
  <2>2. Takes(c) /\ pc'[c] = "funnel.readReceipts"
    BY <1>1, <1>9, <2>1, GotoTakes
  <2>3. LimitRequests'
    BY <1>6, <2>2, LimitRequestsStay
  <2> QED
    BY <1>1, <1>2, <1>5, <2>2, <2>3 DEF Ahead
<1> QED
  BY <1>4, <1>7, <1>8, <1>9

\* A request comes in: it has the present window, and has met whoever is there.
LEMMA PostTakes ==
  ASSUME area \in Areas, Funnels, LimitRequests, NEW c \in Clients, PostAuditRequest(c)
  PROVE  /\ LimitRequests' /\ pc[c] = "idle" /\ pc'[c] = "funnel.limit"
         /\ \A d \in Clients \ {c} : pc'[d] = pc[d] /\ loc'[d] = loc[d]
         /\ loc'[c].now = clock /\ Number(c)' = served + 1 /\ joint \subseteq joint'
         /\ joint' \subseteq joint \cup {Number(d)' : d \in {d \in Clients : InFlight(d)'}}
         /\ UNCHANGED <<db, postgres, clock, buckets, evicted, allowed>>
<1>1. PICK address \in Addresses :
         Accept(c, "funnel.limit", [op |-> "funnel", address |-> address, now |-> clock,
                                    org |-> None])
  BY DEF PostAuditRequest
<1> DEFINE locals == [op |-> "funnel", address |-> address, now |-> clock, org |-> None]
           number == [n |-> served + 1]
           others == {d \in Clients : InFlight(d)}
<1>2. /\ DOMAIN locals = {"op", "address", "now", "org"} /\ DOMAIN number = {"n"}
      /\ locals.address = address /\ locals.now = clock /\ number.n = served + 1
  OBVIOUS
<1>3. /\ pc[c] = "idle" /\ pc' = [pc EXCEPT ![c] = "funnel.limit"]
      /\ loc' = [loc EXCEPT ![c] = Over(locals, number)]
      /\ served < MaxRequests[area] /\ served' = served + 1
      /\ UNCHANGED <<db, postgres, clock, buckets, evicted, allowed>>
      /\ joint' = joint \cup (IF Idle THEN {} ELSE {served + 1} \cup {Number(d) : d \in others})
  BY <1>1 DEF Accept, PostAuditRequest
<1> HIDE DEF locals, number
<1>4. /\ DOMAIN loc' = Clients /\ loc'[c] = Over(locals, number) /\ pc'[c] = "funnel.limit"
      /\ \A d \in Clients \ {c} : pc'[d] = pc[d] /\ loc'[d] = loc[d]
  BY <1>3 DEF Funnels
<1>5. /\ {"n", "address", "now"} \subseteq DOMAIN loc'[c]
      /\ loc'[c].n = served + 1 /\ loc'[c].address = address /\ loc'[c].now = clock
  <2>1. /\ DOMAIN Over(locals, number) = DOMAIN locals \cup DOMAIN number
        /\ \A f \in DOMAIN locals : Over(locals, number)[f] = locals[f]
        /\ \A f \in DOMAIN number : f \notin DOMAIN locals => Over(locals, number)[f] = number[f]
    BY Overwritten
  <2> QED
    BY <1>2, <1>4, <2>1
<1>6. /\ served \in Nat /\ clock \in 0 .. MaxClock /\ clock \in Nat /\ 1 .. served \subseteq 1 .. served'
      /\ served + 1 \in 1 .. served'
  BY <1>3, AreaBound, IntakeAssumption DEF Funnels, LimitRequests
<1>7. \A d \in Clients \ {c} : /\ InFlight(d)' <=> InFlight(d)
                               /\ Number(d)' = Number(d)
                               /\ LimitRequest(d) => LimitRequest(d)'
  <2>1. ASSUME NEW d \in Clients \ {c}, LimitRequest(d) PROVE LimitRequest(d)'
    BY <1>3, <1>4, <2>1 DEF LimitRequest, Noting, Note, Filing
  <2> QED
    BY <1>4, <2>1 DEF InFlight, Number
<1>8. LimitRequest(c)' /\ InFlight(c)' /\ Number(c)' = served + 1
  BY <1>3, <1>4, <1>5, <1>6 DEF LimitRequest, InFlight, Number
<1>9. \A d \in Clients \ {c} : InFlight(d) =>
         Number(d) \in 1 .. served /\ Number(d) \in joint' /\ served + 1 \in joint'
  <2> SUFFICES ASSUME NEW d \in Clients \ {c}, InFlight(d)
               PROVE  /\ Number(d) \in 1 .. served
                      /\ Number(d) \in joint' /\ served + 1 \in joint'
    OBVIOUS
  <2>1. ~Idle /\ d \in others
    BY DEF Idle
  <2> QED
    BY <1>3, <2>1 DEF Funnels, FunnelRequest, Number
<1>10. \A d \in Clients : InFlight(d)' => LimitRequest(d)'
  BY <1>7, <1>8 DEF LimitRequests
<1>11. ASSUME NEW d \in Clients, NEW e \in Clients, InFlight(d)', InFlight(e)', d # e
       PROVE  ~Solo(d)' /\ (Number(d) # Number(e))'
  <2>1. CASE d = c
    <3>1. InFlight(e) /\ Number(e)' = Number(e)
      BY <1>7, <1>11, <2>1
    <3> QED
      BY <1>6, <1>8, <1>9, <1>11, <2>1, <3>1 DEF Solo
  <2>2. CASE e = c
    <3>1. InFlight(d) /\ Number(d)' = Number(d)
      BY <1>7, <1>11, <2>2
    <3> QED
      BY <1>6, <1>8, <1>9, <1>11, <2>2, <3>1 DEF Solo
  <2>3. CASE d # c /\ e # c
    <3>1. /\ InFlight(d) /\ InFlight(e) /\ Number(d)' = Number(d) /\ Number(e)' = Number(e)
      BY <1>7, <1>11, <2>3
    <3>2. Number(d) \in joint /\ Number(d) # Number(e)
      BY <1>11, <3>1 DEF LimitRequests, Solo
    <3> QED
      BY <1>3, <3>1, <3>2 DEF Solo
  <2> QED
    BY <2>1, <2>2, <2>3
<1>12. joint' \subseteq 1 .. served'
  <2>1. joint \subseteq 1 .. served
    BY DEF LimitRequests
  <2>2. \A d \in others : Number(d) \in 1 .. served
    BY DEF Funnels, FunnelRequest, Number
  <2> QED
    BY <1>3, <1>6, <2>1, <2>2
<1>13. joint' \subseteq joint \cup {Number(d)' : d \in {d \in Clients : InFlight(d)'}}
  <2> SUFFICES ASSUME NEW n \in joint', n \notin joint
               PROVE  \E d \in Clients : InFlight(d)' /\ n = Number(d)'
    OBVIOUS
  <2>1. n = served + 1 \/ \E d \in others : n = Number(d)
    BY <1>3
  <2>2. c \notin others
    BY <1>3 DEF InFlight
  <2> QED
    BY <1>7, <1>8, <2>1, <2>2
<1>14. LimitRequests'
  <2>1. clock' \in 0 .. MaxClock /\ allowed' \in [Windows -> Nat]
    BY <1>3 DEF LimitRequests
  <2> QED
    BY <1>10, <1>11, <1>12, <2>1 DEF LimitRequests
<1>15. joint \subseteq joint'
  BY <1>3
<1> QED
  BY <1>3, <1>4, <1>5, <1>8, <1>13, <1>14, <1>15

-----------------------------------------------------------------------------
(***************************************************************************)
(* In memory: every step.                                                  *)
(***************************************************************************)
LEMMA TimePasses ==
  ASSUME LimitRequests, WindowPasses
  PROVE  LimitRequests' /\ clock \in Nat /\ clock' = clock + 1
<1>1. /\ clock \in 0 .. MaxClock /\ clock \in Nat /\ MaxClock \in Nat
      /\ clock < MaxClock /\ clock' = clock + 1
      /\ UNCHANGED <<postgres, pc, loc, served, allowed, joint>>
  BY IntakeAssumption DEF LimitRequests, WindowPasses
<1>2. clock' \in 0 .. MaxClock
  BY <1>1
<1>3. ASSUME NEW d \in Clients, InFlight(d)' PROVE LimitRequest(d)'
  <2>1. LimitRequest(d)
    BY <1>1, <1>3 DEF LimitRequests, InFlight
  <2>2. loc[d].now \in 0 .. clock'
    BY <1>1, <2>1 DEF LimitRequest
  <2> QED
    BY <1>1, <2>1, <2>2 DEF LimitRequest, Noting, Note, Filing
<1>4. ASSUME NEW d \in Clients, NEW e \in Clients, InFlight(d)', InFlight(e)', d # e
      PROVE  ~Solo(d)' /\ (Number(d) # Number(e))'
  BY <1>1, <1>4 DEF LimitRequests, InFlight, Solo, Number
<1> QED
  BY <1>1, <1>2, <1>3, <1>4 DEF LimitRequests

LEMMA MemoryInTime ==
  ASSUME LimitRequests, InMemory, WindowPasses
  PROVE  InMemory'
<1>1. /\ clock \in Nat /\ clock' = clock + 1
      /\ UNCHANGED <<pc, loc, allowed, buckets, evicted>>
  BY TimePasses DEF WindowPasses
<1>2. \A w \in Windows : Passed(w)' = Passed(w)
  BY <1>1 DEF Passed, Pending, Window
<1>3. \A i \in DOMAIN buckets : buckets[i].resetAt <= clock + 1 /\ buckets[i].resetAt \in Nat
  BY BucketsAre DEF InMemory
<1>4. \A i \in DOMAIN buckets : buckets[i].resetAt <= clock' + 1
  BY <1>1, <1>3
<1>5. ASSUME NEW w \in Windows
      PROVE  /\ w[2] > clock' => Passed(w) = 0
             /\ w[1] \notin evicted => Passed(w) <= Limit
             /\ w[2] = clock' => Passed(w) = 0
  <2>1. w[2] \in Nat
    BY DEF Windows
  <2>2. w[2] > clock => Passed(w) = 0
    BY DEF InMemory
  <2>3. w[1] \notin evicted => Passed(w) <= Limit
    BY DEF InMemory
  <2> QED
    BY <1>1, <2>1, <2>2, <2>3
<1> QED
  BY <1>1, <1>2, <1>4, <1>5 DEF InMemory

LEMMA CheckMemoryKeeps ==
  ASSUME Funnels, LimitRequests, InMemory, NEW c \in Clients, CheckMemory(c)
  PROVE  LimitRequests' /\ InMemory'
<1> DEFINE live == {i \in Position(buckets, loc[c].address) : Live(buckets[i], clock)}
           fresh == [key |-> loc[c].address, count |-> 1, resetAt |-> clock + 1]
           victim == buckets[Victim(buckets, clock)]
           locals == [now |-> clock]
<1>1. /\ pc[c] = "funnel.limit" /\ InFlight(c) /\ UNCHANGED allowed
      /\ UNCHANGED <<clock, joint, served, postgres>> /\ ~postgres
  BY DEF CheckMemory, At, InFlight, limiterHistory, history
<1>2. allowed' \in [Windows -> Nat]
  BY <1>1 DEF LimitRequests
<1>3. CASE Refuse(c)
  <2>1. Respond(c) /\ UNCHANGED <<buckets, evicted>>
    BY <1>3 DEF Refuse
  <2>2. Takes(c) /\ pc'[c] = "idle"
    BY <1>1, <2>1, AnswerTakes
  <2> QED
    BY <1>1, <1>2, <2>1, <2>2, LimitRequestsStay, NobodyPasses
<1>4. ASSUME Goto(c, "funnel.org", locals)
      PROVE  Takes(c) /\ LimitRequests' /\ pc'[c] = "funnel.org" /\ loc'[c].now = clock
  <2>1. DOMAIN locals = {"now"} /\ locals["now"] = clock /\ ~postgres
    BY <1>1
  <2> HIDE DEF locals
  <2>2. DOMAIN locals \cap {"n", "address"} = {} /\ "funnel.org" \in FunnelPC
    BY <2>1 DEF FunnelPC
  <2>3. Takes(c) /\ pc'[c] = "funnel.org" /\ loc'[c]["now"] = clock
    BY <1>1, <1>4, <2>1, <2>2, GotoTakes
  <2> QED
    BY <1>2, <2>3, LimitRequestsStay
<1>5. ASSUME NEW i \in live, buckets[i].count < Limit, Goto(c, "funnel.org", locals),
             buckets' = [buckets EXCEPT ![i].count = @ + 1], UNCHANGED evicted
      PROVE  LimitRequests' /\ InMemory'
  <2>1. i \in DOMAIN buckets /\ buckets[i].key = loc[c].address /\ Live(buckets[i], clock)
    BY <1>5 DEF Position
  <2>2. Takes(c) /\ LimitRequests' /\ pc'[c] = "funnel.org" /\ loc'[c].now = clock
    BY <1>4, <1>5
  <2> QED
    BY <1>1, <1>5, <2>1, <2>2, BucketHit
<1>6. ASSUME live = {}, Goto(c, "funnel.org", locals),
             buckets' = Put(Room(buckets, clock), fresh),
             evicted' = IF Len(buckets) >= MaxBuckets /\ Live(victim, clock)
                        THEN evicted \cup {victim.key} ELSE evicted
      PROVE  LimitRequests' /\ InMemory'
  <2>1. \A i \in DOMAIN buckets : buckets[i].key = loc[c].address => ~Live(buckets[i], clock)
    BY <1>6 DEF Position
  <2>2. Takes(c) /\ LimitRequests' /\ pc'[c] = "funnel.org" /\ loc'[c].now = clock
    BY <1>4, <1>6
  <2>3. InMemory'
    BY <1>1, <1>6, <2>1, <2>2, BucketOpened
  <2> QED
    BY <2>2, <2>3
<1>7. \/ Refuse(c)
      \/ \E i \in live : /\ buckets[i].count < Limit /\ Goto(c, "funnel.org", locals)
                         /\ buckets' = [buckets EXCEPT ![i].count = @ + 1]
                         /\ UNCHANGED evicted
      \/ /\ live = {} /\ Goto(c, "funnel.org", locals)
         /\ buckets' = Put(Room(buckets, clock), fresh)
         /\ evicted' = IF Len(buckets) >= MaxBuckets /\ Live(victim, clock)
                       THEN evicted \cup {victim.key} ELSE evicted
  BY DEF CheckMemory
<1> QED
  BY <1>3, <1>5, <1>6, <1>7

\* A request past the check is counted: as many have passed as before.
LEMMA CountedInMemory ==
  ASSUME Funnels, LimitRequests, InMemory, NEW c \in Clients, RecordRequest(c)
  PROVE  InMemory'
<1>1. /\ Takes(c) /\ LimitRequests' /\ pc[c] = "funnel.org"
      /\ pc'[c] # "funnel.org" /\ Window(c) \in Windows
      /\ allowed' = [allowed EXCEPT ![Window(c)] = @ + 1]
      /\ UNCHANGED <<buckets, evicted, db>>
  BY RecordTakes
<1>2. allowed \in [Windows -> Nat] /\ allowed' \in [Windows -> Nat]
  BY <1>1 DEF LimitRequests
<1>3. ASSUME NEW w \in Windows PROVE Passed(w)' <= Passed(w)
  <2>1. /\ IsFiniteSet(Pending(w)) /\ Cardinality(Pending(w)) \in Nat /\ Passed(w) \in Nat
        /\ Passed(w) = allowed[w] + Cardinality(Pending(w)) /\ allowed[w] \in Nat
    BY <1>2, PassedIs DEF Passed
  <2>2. Passed(w)' = allowed'[w] + Cardinality(Pending(w)')
    BY <1>2, PassedWillBe
  <2>3. /\ \A d \in Clients \ {c} : d \in Pending(w)' <=> d \in Pending(w)
        /\ c \notin Pending(w)' /\ (c \in Pending(w) <=> w = Window(c))
        /\ Pending(w) \subseteq Clients /\ Pending(w)' \subseteq Clients
    BY <1>1 DEF Pending, Takes, Window
  <2>4. Pending(w)' = Pending(w) \ {c}
    BY <2>3
  <2>5. CASE w = Window(c)
    <3>1. Cardinality(Pending(w)') = Cardinality(Pending(w)) - 1
      BY <2>1, <2>3, <2>4, <2>5, FS_RemoveElement
    <3>2. allowed'[w] = allowed[w] + 1
      BY <1>1, <1>2, <2>5
    <3> QED
      BY <2>1, <2>2, <3>1, <3>2
  <2>6. CASE w # Window(c)
    <3>1. Pending(w)' = Pending(w)
      BY <2>3, <2>4, <2>6
    <3>2. allowed'[w] = allowed[w]
      BY <1>1, <1>2, <2>6
    <3> QED
      BY <2>1, <2>2, <3>1, <3>2
  <2> QED
    BY <2>5, <2>6
<1>4. UNCHANGED clock
  BY <1>1 DEF Takes
<1> QED
  BY <1>1, <1>2, <1>3, <1>4, FewerPassed

LEMMA MemoryAtPost ==
  ASSUME area \in Areas, Funnels, LimitRequests, InMemory,
         NEW c \in Clients, PostAuditRequest(c)
  PROVE  InMemory'
<1>1. /\ pc[c] = "idle" /\ pc'[c] = "funnel.limit"
      /\ \A d \in Clients \ {c} : pc'[d] = pc[d] /\ loc'[d] = loc[d]
      /\ UNCHANGED <<clock, buckets, evicted, allowed>>
  BY PostTakes
<1>2. allowed' \in [Windows -> Nat] /\ allowed \in [Windows -> Nat]
  BY <1>1 DEF LimitRequests
<1>3. ASSUME NEW w \in Windows PROVE Passed(w)' <= Passed(w)
  <2>1. Pending(w)' = Pending(w)
    BY <1>1 DEF Pending, Window
  <2>2. Passed(w) \in Nat /\ Passed(w)' = Passed(w)
    BY <1>1, <1>2, <2>1, PassedIs DEF Passed
  <2> QED
    BY <2>2
<1> QED
  BY <1>1, <1>2, <1>3, FewerPassed

LEMMA MemoryKept ==
  ASSUME area \in Areas, Funnels, LimitRequests, ~postgres, InMemory, NEW c \in Clients,
         \/ PostAuditRequest(c) \/ CheckMemory(c) \/ CheckShared(c)
         \/ RecordRequest(c) \/ Onwards(c)
         \/ StoreCall(c) /\ UNCHANGED intakeVars
  PROVE  LimitRequests' /\ InMemory'
<1>1. CASE PostAuditRequest(c)
  BY <1>1, PostTakes, MemoryAtPost
<1>2. CASE CheckMemory(c)
  BY <1>2, CheckMemoryKeeps
<1>3. ~CheckShared(c)
  BY DEF CheckShared
<1>4. CASE RecordRequest(c)
  BY <1>4, RecordTakes, CountedInMemory
<1>5. CASE Onwards(c)
  BY <1>5, OnwardsTakes, NobodyPasses
<1>6. CASE StoreCall(c) /\ UNCHANGED intakeVars
  <2>1. loc[c].next # "funnel.org"
    BY <1>6, NoteIsWritten
  <2> QED
    BY <1>6, <2>1, FilingTakes, NobodyPasses
<1> QED
  BY <1>1, <1>2, <1>3, <1>4, <1>5, <1>6

-----------------------------------------------------------------------------
(***************************************************************************)
(* On Postgres: what a split needs.                                        *)
(***************************************************************************)
LEMMA JointIsFinite ==
  ASSUME area \in Areas, Funnels, LimitRequests
  PROVE  /\ IsFiniteSet(joint) /\ \A D \in SUBSET joint : IsFiniteSet(D) /\ Cardinality(D) \in Nat
         /\ served + 1 \notin joint /\ served \in Nat
<1>1. served \in Nat /\ joint \subseteq 1 .. served
  BY AreaBound DEF Funnels, LimitRequests
<1>2. IsFiniteSet(1 .. served)
  BY <1>1, FS_Interval
<1>3. IsFiniteSet(joint)
  BY <1>1, <1>2, FS_Subset
<1>4. \A D \in SUBSET joint : IsFiniteSet(D) /\ Cardinality(D) \in Nat
  BY <1>3, FS_Subset, FS_CardinalityType
<1> QED
  BY <1>1, <1>3, <1>4

LEMMA LevelIs ==
  ASSUME NEW w, NEW n \in Nat, NEW D
  PROVE  /\ Level(w, n, D) \in Nat /\ n <= Level(w, n, D) /\ Level(w, n, D) <= n + 1
         /\ ~Joined(w, D) => Level(w, n, D) = n
         /\ \A c : /\ Need(c, w, n, D) \in Nat /\ n <= Need(c, w, n, D)
                   /\ Level(w, n, D) <= Need(c, w, n, D)
                   /\ Need(c, w, n, D) <= Level(w, n, D) + 1
                   /\ Solo(c) => Need(c, w, n, D) = Level(w, n, D) + 1
                   /\ ~Solo(c) /\ Joined(w, D) => Need(c, w, n, D) = n + 1
                   /\ ~Solo(c) /\ ~Joined(w, D) => Need(c, w, n, D) = n
BY DEF Level, Need

\* With fewer that are alone, or may all be of the window, no more is needed.
LEMMA NeedFalls ==
  ASSUME NEW w, NEW n \in Nat, NEW D, Joined(w, D)' => Joined(w, D)
  PROVE  /\ Level(w, n, D)' \in Nat /\ Level(w, n, D)' <= Level(w, n, D)
         /\ \A c : (Solo(c)' => Solo(c)) =>
               Need(c, w, n, D)' \in Nat /\ Need(c, w, n, D)' <= Need(c, w, n, D)
BY DEF Level, Need

LEMMA ShelfFalls ==
  ASSUME BucketRows, NEW w, NEW k \in Nat, NEW j \in Nat, j <= k, OnShelf(w, k)
  PROVE  OnShelf(w, j)
<1>1. CASE j > 0
  <2>1. PICK b \in db["rate_limit_buckets"] : b.id = w[1] /\ b.count >= k /\ b.resetAt > w[2]
    BY <1>1 DEF OnShelf
  <2>2. b.count \in Nat
    BY DEF BucketRows
  <2>3. b.count >= j
    BY <2>1, <2>2
  <2> QED
    BY <2>1, <2>3 DEF OnShelf
<1>2. CASE ~(j > 0)
  BY <1>2 DEF OnShelf
<1> QED
  BY <1>1, <1>2

LEMMA ShelfWillFall ==
  ASSUME BucketRows', NEW w, NEW k \in Nat, NEW j \in Nat, j <= k, OnShelf(w, k)'
  PROVE  OnShelf(w, j)'
<1>1. CASE j > 0
  <2>1. PICK b \in db'["rate_limit_buckets"] : b.id = w[1] /\ b.count >= k /\ b.resetAt > w[2]
    BY <1>1 DEF OnShelf
  <2>2. b.count \in Nat
    BY DEF BucketRows
  <2>3. b.count >= j
    BY <2>1, <2>2
  <2> QED
    BY <2>1, <2>3 DEF OnShelf
<1>2. CASE ~(j > 0)
  BY <1>2 DEF OnShelf
<1> QED
  BY <1>1, <1>2

HoldsShelf(w) == \A k \in Nat : OnShelf(w, k) => OnShelf(w, k)'

\* No more is needed, by a request that stays where it is.
LEMMA CheckedStays ==
  ASSUME NEW w, NEW n \in Nat, NEW D, NEW E, NEW d, LimitRequest(d), Ahead(d),
         pc[d] # "funnel.limit", pc'[d] = pc[d], loc'[d] = loc[d],
         Checked(d, w, n, D), Due(w, E)' => Due(w, D), BucketRows', HoldsShelf(w),
         Need(d, w, n, E)' \in Nat, Need(d, w, n, E)' <= Need(d, w, n, D)
  PROVE  Checked(d, w, n, E)'
<1>1. Need(d, w, n, D) \in Nat /\ Limit \in Nat
  BY LevelIs, IntakeAssumption
<1>2. Need(d, w, n, E)' <= Limit
  BY <1>1 DEF Checked
<1>3. ASSUME Due(w, E)', pc[d] = "funnel.org" PROVE OnShelf(w, Need(d, w, n, E))'
  <2>1. OnShelf(w, Need(d, w, n, D))
    BY <1>3 DEF Checked
  <2>2. PICK k \in Nat : k = Need(d, w, n, D)
    BY <1>1
  <2>3. PICK j \in Nat : j = Need(d, w, n, E)'
    OBVIOUS
  <2>4. j <= k /\ OnShelf(w, k)'
    BY <2>1, <2>2, <2>3 DEF HoldsShelf
  <2>5. OnShelf(w, j)'
    BY <2>4, ShelfWillFall
  <2> QED
    BY <2>3, <2>5 DEF OnShelf
<1>4. ASSUME Due(w, E)', pc[d] # "funnel.org"
      PROVE  Note(d)'.count >= Need(d, w, n, E)' /\ Note(d)'.resetAt > w[2]
  <2>1. Note(d).count \in 1 .. Limit
    BY <1>4 DEF Ahead, LimitRequest, Noting
  <2>2. Note(d)' = Note(d) /\ Note(d).count >= Need(d, w, n, D) /\ Note(d).resetAt > w[2]
    BY <1>4 DEF Checked, Note
  <2> QED
    BY <1>1, <2>1, <2>2
<1> QED
  BY <1>2, <1>3, <1>4 DEF Checked

\* As high as the level was, and now is, when the row stays.
LEMMA ShelfFallsOn ==
  ASSUME NEW w, NEW n \in Nat, NEW D, OnShelf(w, Level(w, n, D)), HoldsShelf(w), BucketRows',
         Joined(w, D)' => Joined(w, D)
  PROVE  OnShelf(w, Level(w, n, D))'
<1>1. PICK k \in Nat : k = Level(w, n, D)
  BY LevelIs
<1>2. PICK j \in Nat : j = Level(w, n, D)'
  BY NeedFalls
<1>3. j <= k /\ OnShelf(w, k)'
  BY <1>1, <1>2, NeedFalls DEF HoldsShelf
<1>4. OnShelf(w, j)'
  BY <1>3, ShelfWillFall
<1> QED
  BY <1>2, <1>4 DEF OnShelf

\* The same ones were alone, and the shelf and the requests are as high as they need be.
LEMMA SplitGoesOn ==
  ASSUME NEW w, NEW n \in Nat, NEW D, Split(w, n, D), Joined(w, D)' => Joined(w, D),
         allowed'[w] = allowed[w],
         \A d \in Clients : InFlight(d)' /\ Number(d)' \in D => ~Ahead(d)' /\ Window(d)' = w,
         Level(w, n, D) > 0 =>
            w[2] <= clock' /\ \A d \in Clients : InFlight(d)' => loc'[d].now >= w[2],
         Due(w, D)' => OnShelf(w, Level(w, n, D))',
         \A d \in Clients : Ahead(d)' /\ Window(d)' = w /\ pc'[d] # "funnel.limit" =>
            Checked(d, w, n, D)'
  PROVE  Split(w, n, D)'
<1>1. /\ Level(w, n, D) \in Nat /\ Level(w, n, D)' \in Nat
      /\ Level(w, n, D)' <= Level(w, n, D) /\ Limit \in Nat
  BY LevelIs, NeedFalls, IntakeAssumption
<1>2. Level(w, n, D) <= Limit /\ allowed[w] = n + Cardinality(D)
  BY DEF Split
<1>3. Level(w, n, D)' <= Limit /\ (Level(w, n, D)' > 0 => Level(w, n, D) > 0)
  BY <1>1, <1>2
<1> QED
  BY <1>2, <1>3 DEF Split

\* A step of a request that is not on its way to the limiter again: who is ahead was.
LEMMA WhoIsAhead ==
  ASSUME LimitRequests, postgres, NEW c \in Clients, Takes(c), Ahead(c)' => Ahead(c), NEW w,
         NEW n \in Nat, NEW D, Split(w, n, D)
  PROVE  /\ \A d \in Clients : /\ InFlight(d)' => /\ InFlight(d) /\ Number(d)' = Number(d)
                                                  /\ Window(d)' = Window(d)
                                                  /\ loc'[d].now = loc[d].now
                               /\ Ahead(d)' => Ahead(d) /\ InFlight(d)' /\ Number(d)' = Number(d)
                                               /\ Window(d)' = Window(d) /\ Solo(d)' = Solo(d)
         /\ Joined(w, D)' => Joined(w, D)
         /\ Due(w, D)' => Due(w, D)
         /\ \A d \in Clients : InFlight(d)' /\ Number(d)' \in D => ~Ahead(d)' /\ Window(d)' = w
         /\ Level(w, n, D) > 0 =>
               w[2] <= clock' /\ \A d \in Clients : InFlight(d)' => loc'[d].now >= w[2]
<1>1. ASSUME NEW d \in Clients, InFlight(d)'
      PROVE  /\ InFlight(d) /\ Number(d)' = Number(d) /\ Window(d)' = Window(d)
             /\ loc'[d].now = loc[d].now
  <2>1. CASE d = c
    BY <1>1, <2>1 DEF Takes, InFlight, Number, Window
  <2>2. CASE d # c
    BY <1>1, <2>2 DEF Takes, InFlight, Number, Window
  <2> QED
    BY <2>1, <2>2
<1>2. ASSUME NEW d \in Clients, Ahead(d)'
      PROVE  Ahead(d) /\ InFlight(d)' /\ Number(d)' = Number(d) /\ Window(d)' = Window(d)
             /\ Solo(d)' = Solo(d)
  <2>1. InFlight(d)'
    BY <1>2 DEF Ahead, InFlight
  <2>2. Ahead(d)
    BY <1>2 DEF Takes, Ahead
  <2>3. Solo(d)' = Solo(d)
    BY <1>1, <2>1 DEF Takes, Solo
  <2> QED
    BY <1>1, <2>1, <2>2, <2>3
<1>3. Joined(w, D)' => Joined(w, D)
  <2> SUFFICES ASSUME Joined(w, D)', NEW x \in joint, x \notin D
               PROVE  \E d \in Clients : Ahead(d) /\ Window(d) = w /\ x = Number(d)
    BY DEF Joined
  <2>1. x \in joint'
    BY DEF Takes
  <2>2. PICK d \in Clients : Ahead(d)' /\ Window(d)' = w /\ x = Number(d)'
    BY <2>1 DEF Joined
  <2> QED
    BY <1>2, <2>2
<1>4. Due(w, D)' => Due(w, D)
  <2>1. clock' = clock
    BY DEF Takes
  <2> QED
    BY <1>2, <1>3, <2>1 DEF Due
<1>5. \A d \in Clients : InFlight(d)' /\ Number(d)' \in D => ~Ahead(d)' /\ Window(d)' = w
  BY <1>1, <1>2 DEF Split
<1>6. Level(w, n, D) > 0 =>
         w[2] <= clock' /\ \A d \in Clients : InFlight(d)' => loc'[d].now >= w[2]
  <2>1. clock' = clock
    BY DEF Takes
  <2> QED
    BY <1>1, <2>1 DEF Split
<1> QED
  BY <1>1, <1>2, <1>3, <1>4, <1>5, <1>6

\* Nothing that the limiter reads or writes changes, or it is as high as it must be.
LEMMA SplitStays ==
  ASSUME LimitRequests, postgres, NEW c \in Clients, Takes(c), Ahead(c)' => Ahead(c), NEW w,
         NEW n \in Nat, NEW D, Split(w, n, D), BucketRows', HoldsShelf(w),
         allowed'[w] = allowed[w],
         Ahead(c)' /\ Window(c)' = w /\ pc'[c] # "funnel.limit" => Checked(c, w, n, D)'
  PROVE  Split(w, n, D)'
<1>1. /\ Joined(w, D)' => Joined(w, D)
      /\ Due(w, D)' => Due(w, D)
      /\ \A d \in Clients : Ahead(d)' => Ahead(d) /\ Window(d)' = Window(d) /\ Solo(d)' = Solo(d)
  BY WhoIsAhead
<1>2. Due(w, D)' => OnShelf(w, Level(w, n, D))'
  BY <1>1, ShelfFallsOn DEF Split
<1>3. ASSUME NEW d \in Clients, Ahead(d)', Window(d)' = w, pc'[d] # "funnel.limit"
      PROVE  Checked(d, w, n, D)'
  <2>1. CASE d = c
    BY <1>3, <2>1
  <2>2. CASE d # c
    <3>1. Ahead(d) /\ Window(d) = w /\ Solo(d)' = Solo(d)
      BY <1>1, <1>3
    <3>2. pc'[d] = pc[d] /\ loc'[d] = loc[d]
      BY <2>2 DEF Takes
    <3>3. Checked(d, w, n, D) /\ LimitRequest(d)
      BY <1>3, <3>1, <3>2 DEF Split, LimitRequests, Ahead, InFlight
    <3>4. Need(d, w, n, D)' \in Nat /\ Need(d, w, n, D)' <= Need(d, w, n, D)
      BY <1>1, <3>1, NeedFalls
    <3> QED
      BY <1>1, <1>3, <3>1, <3>2, <3>3, <3>4, CheckedStays
  <2> QED
    BY <2>1, <2>2
<1> QED
  BY <1>1, <1>2, <1>3, WhoIsAhead, SplitGoesOn

LEMMA SameRows ==
  ASSUME BucketRows, "rate_limit_buckets" \in DOMAIN db',
         db'["rate_limit_buckets"] = db["rate_limit_buckets"]
  PROVE  BucketRows' /\ \A w : HoldsShelf(w)
BY DEF BucketRows, HoldsShelf, OnShelf

\* Steps that are no business of the limiter's, and refusals.
LEMMA NobodyCounted ==
  ASSUME LimitRequests, postgres, OnPostgres, NEW c \in Clients, Takes(c), ~Ahead(c)',
         UNCHANGED allowed, "rate_limit_buckets" \in DOMAIN db',
         db'["rate_limit_buckets"] = db["rate_limit_buckets"]
  PROVE  OnPostgres'
<1>1. BucketRows' /\ \A w : HoldsShelf(w)
  BY SameRows DEF OnPostgres
<1>2. ASSUME NEW w \in Windows PROVE \E n \in Nat, D \in SUBSET joint' : Split(w, n, D)'
  <2>1. PICK n \in Nat, D \in SUBSET joint : Split(w, n, D)
    BY DEF OnPostgres
  <2>2. Split(w, n, D)'
    BY <1>1, <2>1, SplitStays
  <2>3. joint' = joint
    BY DEF Takes
  <2> QED
    BY <2>1, <2>2, <2>3
<1> QED
  BY <1>1, <1>2 DEF OnPostgres

LEMMA SharedAtPost ==
  ASSUME area \in Areas, Funnels, LimitRequests, OnPostgres, NEW c \in Clients,
         PostAuditRequest(c)
  PROVE  OnPostgres'
<1>1. /\ pc[c] = "idle" /\ pc'[c] = "funnel.limit"
      /\ \A d \in Clients \ {c} : pc'[d] = pc[d] /\ loc'[d] = loc[d]
      /\ loc'[c].now = clock /\ Number(c)' = served + 1 /\ joint \subseteq joint'
      /\ UNCHANGED <<db, clock, allowed>>
  BY PostTakes
<1>2. served + 1 \notin joint
  BY JointIsFinite
<1>3. clock \in Nat
  BY IntakeAssumption DEF LimitRequests
<1>4. BucketRows' /\ \A w : HoldsShelf(w)
  BY <1>1, SameRows DEF OnPostgres, BucketRows
<1>5. ASSUME NEW d \in Clients, d # c
      PROVE  /\ InFlight(d)' <=> InFlight(d)
             /\ Ahead(d)' <=> Ahead(d)
             /\ Number(d)' = Number(d) /\ Window(d)' = Window(d)
             /\ Solo(d)' => Solo(d)
  BY <1>1, <1>5 DEF InFlight, Ahead, Number, Window, Solo
<1>6. ASSUME NEW w \in Windows PROVE \E n \in Nat, D \in SUBSET joint' : Split(w, n, D)'
  <2>1. PICK n \in Nat, D \in SUBSET joint : Split(w, n, D)
    BY DEF OnPostgres
  <2>2. Joined(w, D)' => Joined(w, D)
    <3> SUFFICES ASSUME Joined(w, D)', NEW x \in joint, x \notin D
                 PROVE  \E d \in Clients : Ahead(d) /\ Window(d) = w /\ x = Number(d)
      BY DEF Joined
    <3>1. PICK d \in Clients : Ahead(d)' /\ Window(d)' = w /\ x = Number(d)'
      BY <1>1 DEF Joined
    <3>2. d # c
      BY <1>1, <1>2, <3>1
    <3> QED
      BY <1>5, <3>1, <3>2
  <2>3. Due(w, D)' => Due(w, D)
    <3>1. Window(c)' = w => clock = w[2]
      BY <1>1 DEF Window
    <3>2. ASSUME NEW d \in Clients, Ahead(d)', Window(d)' = w, Solo(d)' \/ Joined(w, D)', d # c
          PROVE  Ahead(d) /\ Window(d) = w /\ (Solo(d) \/ Joined(w, D))
      BY <1>5, <2>2, <3>2
    <3> QED
      BY <1>1, <3>1, <3>2 DEF Due
  <2>4. \A d \in Clients : InFlight(d)' /\ Number(d)' \in D => ~Ahead(d)' /\ Window(d)' = w
    BY <1>1, <1>2, <1>5, <2>1 DEF Split
  <2>5. Level(w, n, D) > 0 =>
           w[2] <= clock' /\ \A d \in Clients : InFlight(d)' => loc'[d].now >= w[2]
    <3> SUFFICES ASSUME Level(w, n, D) > 0
                 PROVE  w[2] <= clock' /\ \A d \in Clients : InFlight(d)' => loc'[d].now >= w[2]
      OBVIOUS
    <3>1. w[2] <= clock /\ w[2] \in Nat
      BY <2>1, IntakeAssumption DEF Split, Windows
    <3>2. ASSUME NEW d \in Clients, InFlight(d)', d # c PROVE loc'[d].now >= w[2]
      BY <1>1, <1>5, <2>1, <3>2 DEF Split
    <3>3. loc'[c].now >= w[2]
      BY <1>1, <1>3, <3>1
    <3> QED
      BY <1>1, <3>1, <3>2, <3>3
  <2>6. Due(w, D)' => OnShelf(w, Level(w, n, D))'
    BY <1>4, <2>1, <2>2, <2>3, ShelfFallsOn DEF Split
  <2>7. ASSUME NEW d \in Clients, Ahead(d)', Window(d)' = w, pc'[d] # "funnel.limit"
        PROVE  Checked(d, w, n, D)'
    <3>1. d # c
      BY <1>1, <2>7
    <3>2. Ahead(d) /\ Window(d) = w /\ pc'[d] = pc[d] /\ loc'[d] = loc[d] /\ (Solo(d)' => Solo(d))
      BY <1>1, <1>5, <2>7, <3>1
    <3>3. Checked(d, w, n, D) /\ LimitRequest(d)
      BY <2>1, <2>7, <3>2 DEF Split, LimitRequests, Ahead, InFlight
    <3>4. Need(d, w, n, D)' \in Nat /\ Need(d, w, n, D)' <= Need(d, w, n, D)
      BY <2>2, <3>2, NeedFalls
    <3> QED
      BY <1>4, <2>3, <2>7, <3>2, <3>3, <3>4, CheckedStays
  <2>8. Split(w, n, D)'
    BY <1>1, <2>1, <2>2, <2>4, <2>5, <2>6, <2>7, SplitGoesOn
  <2> QED
    BY <1>1, <2>1, <2>8
<1> QED
  BY <1>4, <1>6 DEF OnPostgres

LEMMA SharedInTime ==
  ASSUME LimitRequests, OnPostgres, WindowPasses
  PROVE  OnPostgres'
<1>1. /\ clock \in Nat /\ clock' = clock + 1
      /\ UNCHANGED <<pc, loc, allowed, joint, db>>
  BY TimePasses DEF WindowPasses
<1>2. BucketRows' /\ \A w : HoldsShelf(w)
  BY <1>1, SameRows DEF OnPostgres, BucketRows
<1>3. ASSUME NEW d \in Clients
      PROVE  /\ InFlight(d)' = InFlight(d) /\ Ahead(d)' = Ahead(d) /\ Number(d)' = Number(d)
             /\ Window(d)' = Window(d) /\ Solo(d)' = Solo(d) /\ pc'[d] = pc[d]
             /\ loc'[d] = loc[d]
  BY <1>1 DEF InFlight, Ahead, Number, Window, Solo
<1>4. ASSUME NEW w \in Windows PROVE \E n \in Nat, D \in SUBSET joint' : Split(w, n, D)'
  <2>1. PICK n \in Nat, D \in SUBSET joint : Split(w, n, D)
    BY DEF OnPostgres
  <2>2. Joined(w, D)' => Joined(w, D)
    <3> SUFFICES ASSUME Joined(w, D)', NEW x \in joint, x \notin D
                 PROVE  \E d \in Clients : Ahead(d) /\ Window(d) = w /\ x = Number(d)
      BY DEF Joined
    <3>1. PICK d \in Clients : Ahead(d)' /\ Window(d)' = w /\ x = Number(d)'
      BY <1>1 DEF Joined
    <3> QED
      BY <1>3, <3>1
  <2>3. \A d \in Clients : InFlight(d)' /\ Number(d)' \in D => ~Ahead(d)' /\ Window(d)' = w
    BY <1>3, <2>1 DEF Split
  <2>4. w[2] \in Nat
    BY IntakeAssumption DEF Windows
  <2>5. Level(w, n, D) > 0 =>
           w[2] <= clock' /\ \A d \in Clients : InFlight(d)' => loc'[d].now >= w[2]
    BY <1>1, <1>3, <2>1, <2>4 DEF Split
  <2>6. Level(w, n, D) \in Nat /\ Level(w, n, D)' \in Nat /\ Level(w, n, D)' <= Level(w, n, D)
    BY <2>2, LevelIs, NeedFalls
  <2>7. CASE clock + 1 = w[2]
    <3>1. ~(Level(w, n, D) > 0)
      BY <1>1, <2>1, <2>4, <2>7 DEF Split
    <3>2. OnShelf(w, Level(w, n, D))'
      BY <2>6, <3>1 DEF OnShelf
    <3>3. ASSUME NEW d \in Clients, Ahead(d)' PROVE Window(d)' # w
      <4>1. Ahead(d) /\ InFlight(d)
        BY <1>3, <3>3 DEF Ahead, InFlight
      <4>2. loc[d].now \in 0 .. clock
        BY <4>1 DEF LimitRequests, LimitRequest
      <4> QED
        BY <1>1, <1>3, <2>7, <4>2 DEF Window
    <3> QED
      BY <1>1, <2>1, <2>2, <2>3, <2>5, <3>2, <3>3, SplitGoesOn
  <2>8. CASE clock + 1 # w[2]
    <3>1. Due(w, D)' => Due(w, D)
      BY <1>1, <1>3, <2>2, <2>8 DEF Due
    <3>2. Due(w, D)' => OnShelf(w, Level(w, n, D))'
      BY <1>2, <2>1, <2>2, <3>1, ShelfFallsOn DEF Split
    <3>3. ASSUME NEW d \in Clients, Ahead(d)', Window(d)' = w, pc'[d] # "funnel.limit"
          PROVE  Checked(d, w, n, D)'
      <4>1. Ahead(d) /\ Window(d) = w /\ pc[d] # "funnel.limit" /\ pc'[d] = pc[d]
            /\ loc'[d] = loc[d] /\ (Solo(d)' => Solo(d))
        BY <1>3, <3>3
      <4>2. Checked(d, w, n, D) /\ LimitRequest(d)
        BY <2>1, <4>1 DEF Split, LimitRequests, Ahead, InFlight
      <4>3. Need(d, w, n, D)' \in Nat /\ Need(d, w, n, D)' <= Need(d, w, n, D)
        BY <2>2, <4>1, NeedFalls
      <4> QED
        BY <1>2, <3>1, <4>1, <4>2, <4>3, CheckedStays
    <3> QED
      BY <1>1, <2>1, <2>2, <2>3, <2>5, <3>2, <3>3, SplitGoesOn
  <2> QED
    BY <2>7, <2>8
<1> QED
  BY <1>2, <1>4 DEF OnPostgres

-----------------------------------------------------------------------------
(***************************************************************************)
(* On Postgres: the check, which reads the row and asks for its write.     *)
(***************************************************************************)
LEMMA NoteGoesOut ==
  ASSUME Funnels, LimitRequests, postgres, NEW c \in Clients, InFlight(c),
         UNCHANGED <<clock, joint, served, postgres, allowed>>,
         NEW row, {"id", "count", "resetAt"} \subseteq DOMAIN row, row.id = loc[c].address,
         row.count \in 1 .. Limit, row.resetAt \in Int,
         Calling(c, <<Upserting("rate_limit_buckets", row)>>, "funnel.org")
  PROVE  Takes(c) /\ LimitRequests' /\ pc'[c] = "calling" /\ Note(c)' = row
<1> DEFINE k == Upserting("rate_limit_buckets", row)
           calls == <<k>>
           locals == [calls |-> calls, next |-> "funnel.org"]
<1>1. k.row = row
  BY DEF Upserting
<1>2. Calling(c, <<k>>, "funnel.org") /\ k = Upserting("rate_limit_buckets", row)
  OBVIOUS
<1> HIDE DEF k
<1>3. calls # <<>> /\ Head(calls) = k /\ calls = <<Upserting("rate_limit_buckets", row)>>
  BY <1>2
<1>4. Goto(c, "calling", [calls |-> calls, next |-> "funnel.org"])
  BY <1>2, <1>3 DEF Calling
<1> HIDE DEF calls
<1>5. /\ DOMAIN locals = {"calls", "next"} /\ locals["calls"] = calls
      /\ locals["next"] = "funnel.org" /\ Goto(c, "calling", locals)
  BY <1>4
<1> HIDE DEF locals
<1>6. /\ DOMAIN locals \cap {"n", "address"} = {} /\ "now" \notin DOMAIN locals
      /\ "calling" \in FunnelPC
  BY <1>5 DEF FunnelPC
<1>7. /\ Takes(c) /\ pc'[c] = "calling"
      /\ loc'[c]["calls"] = calls /\ loc'[c]["next"] = "funnel.org"
  BY <1>5, <1>6, GotoTakes
<1>8. Note(c)' = row
  BY <1>1, <1>3, <1>7 DEF Note
<1>9. CallsAre(c)'
  <2>1. loc'[c].address = loc[c].address
    BY <1>7 DEF Takes
  <2>2. Noting(c)'
    BY <1>3, <1>7, <1>8, <2>1 DEF Noting
  <2> QED
    BY <1>7, <2>2 DEF CallsAre
<1>10. allowed' \in [Windows -> Nat]
  BY DEF LimitRequests
<1> QED
  BY <1>7, <1>8, <1>9, <1>10, LimitRequestsStay

\* One more than the row has, as long as it counts for the request; else one.
AsksForMore(c) ==
  /\ pc'[c] = "calling"
  /\ \E b \in db["rate_limit_buckets"] :
        /\ b.id = loc[c].address /\ b.resetAt > loc[c].now /\ b.count < Limit
        /\ Note(c)'.count = b.count + 1 /\ Note(c)'.resetAt = b.resetAt
AsksForOne(c) ==
  /\ pc'[c] = "calling"
  /\ \A b \in db["rate_limit_buckets"] : b.id = loc[c].address => ~(b.resetAt > loc[c].now)
  /\ Note(c)'.count = 1 /\ Note(c)'.resetAt = loc[c].now + 1

LEMMA SharedTakes ==
  ASSUME Funnels, LimitRequests, BucketRows, NEW c \in Clients, CheckShared(c)
  PROVE  /\ Takes(c) /\ LimitRequests' /\ UNCHANGED <<db, allowed>> /\ postgres
         /\ pc[c] = "funnel.limit"
         /\ \/ ~Ahead(c)'
            \/ AsksForMore(c)
            \/ AsksForOne(c)
<1> DEFINE now == loc[c].now
           live == {b \in ById("rate_limit_buckets", loc[c].address) : Live(b, now)}
           row(count, resetAt) == [id |-> loc[c].address, count |-> count, resetAt |-> resetAt]
<1>1. /\ pc[c] = "funnel.limit" /\ postgres /\ InFlight(c) /\ UNCHANGED <<db, allowed>>
      /\ UNCHANGED <<clock, joint, served, postgres>>
  BY DEF CheckShared, At, InFlight, intakeVars, history
<1>2. \A b : b \in live <=> /\ b \in db["rate_limit_buckets"] /\ b.id = loc[c].address
                            /\ b.resetAt > now
  BY DEF ById, Table, Live, BucketRows
<1>3. /\ now \in Int /\ Limit \in Nat \ {0}
      /\ \A b \in db["rate_limit_buckets"] : b.count \in Nat /\ b.resetAt \in Int
  BY <1>1, IntakeAssumption DEF LimitRequests, LimitRequest, BucketRows
<1>4. ASSUME NEW count \in 1 .. Limit, NEW resetAt \in Int,
             Calling(c, <<Upserting("rate_limit_buckets", row(count, resetAt))>>, "funnel.org")
      PROVE  /\ Takes(c) /\ LimitRequests' /\ pc'[c] = "calling"
             /\ Note(c)'.count = count /\ Note(c)'.resetAt = resetAt
  <2> DEFINE r == row(count, resetAt)
  <2>1. /\ {"id", "count", "resetAt"} \subseteq DOMAIN r
        /\ r.id = loc[c].address /\ r.count = count /\ r.resetAt = resetAt
        /\ Calling(c, <<Upserting("rate_limit_buckets", r)>>, "funnel.org")
    BY <1>4
  <2> HIDE DEF r
  <2>2. Takes(c) /\ LimitRequests' /\ pc'[c] = "calling" /\ Note(c)' = r
    BY <1>1, <2>1, NoteGoesOut
  <2> QED
    BY <2>1, <2>2
<1>5. \/ Respond(c)
      \/ \E b \in live :
            /\ b.count < Limit
            /\ Calling(c, <<Upserting("rate_limit_buckets", row(b.count + 1, b.resetAt))>>,
                       "funnel.org")
      \/ live = {} /\ Calling(c, <<Upserting("rate_limit_buckets", row(1, now + 1))>>, "funnel.org")
  BY DEF CheckShared
<1>6. CASE Respond(c)
  <2>1. allowed' \in [Windows -> Nat]
    BY <1>1 DEF LimitRequests
  <2> QED
    BY <1>1, <1>6, <2>1, AnswerTakes, LimitRequestsStay
<1>7. ASSUME NEW b \in live, b.count < Limit,
             Calling(c, <<Upserting("rate_limit_buckets", row(b.count + 1, b.resetAt))>>,
                     "funnel.org")
      PROVE  Takes(c) /\ LimitRequests' /\ AsksForMore(c)
  <2>1. /\ b \in db["rate_limit_buckets"] /\ b.id = loc[c].address /\ b.resetAt > loc[c].now
        /\ b.count + 1 \in 1 .. Limit /\ b.resetAt \in Int
    BY <1>2, <1>3, <1>7
  <2> HIDE DEF live, row
  <2>2. /\ Takes(c) /\ LimitRequests' /\ pc'[c] = "calling"
        /\ Note(c)'.count = b.count + 1 /\ Note(c)'.resetAt = b.resetAt
    BY <1>4, <1>7, <2>1
  <2> QED
    BY <1>7, <2>1, <2>2 DEF AsksForMore
<1>8. CASE /\ live = {}
           /\ Calling(c, <<Upserting("rate_limit_buckets", row(1, now + 1))>>, "funnel.org")
  <2>1. \A b \in db["rate_limit_buckets"] : b.id = loc[c].address => ~(b.resetAt > loc[c].now)
    BY <1>2, <1>8
  <2>2. 1 \in 1 .. Limit /\ now + 1 \in Int
    BY <1>3
  <2> HIDE DEF live, row, now
  <2>3. /\ Takes(c) /\ LimitRequests' /\ pc'[c] = "calling"
        /\ Note(c)'.count = 1 /\ Note(c)'.resetAt = now + 1
    BY <1>4, <1>8, <2>2
  <2> QED
    BY <1>1, <2>1, <2>3 DEF AsksForOne, now
<1> HIDE DEF live, row, now
<1> QED
  BY <1>1, <1>5, <1>6, <1>7, <1>8

\* What it asks for is high enough.
LEMMA SharedCheckKeeps ==
  ASSUME Funnels, LimitRequests, OnPostgres, NEW c \in Clients, CheckShared(c)
  PROVE  LimitRequests' /\ OnPostgres'
<1>1. BucketRows
  BY DEF OnPostgres
<1>2. /\ Takes(c) /\ LimitRequests' /\ UNCHANGED <<db, allowed>> /\ postgres
      /\ pc[c] = "funnel.limit"
      /\ \/ ~Ahead(c)'
         \/ AsksForMore(c)
         \/ AsksForOne(c)
  BY <1>1, SharedTakes
<1>3. BucketRows' /\ \A w : HoldsShelf(w)
  BY <1>1, <1>2, SameRows DEF BucketRows
<1>4. Ahead(c) /\ LimitRequest(c) /\ pc[c] = "funnel.limit" /\ joint' = joint
  BY <1>2 DEF CheckShared, At, Ahead, InFlight, LimitRequests, Takes
<1>5. ASSUME NEW w \in Windows PROVE \E n \in Nat, D \in SUBSET joint' : Split(w, n, D)'
  <2>1. PICK n \in Nat, D \in SUBSET joint : Split(w, n, D)
    BY DEF OnPostgres
  <2>2. ASSUME Ahead(c)', Window(c)' = w, pc'[c] # "funnel.limit"
        PROVE  Checked(c, w, n, D)'
    <3>1. /\ Window(c) = w /\ Solo(c)' = Solo(c)
          /\ Joined(w, D)' => Joined(w, D)
          /\ Due(w, D)' => Due(w, D)
      BY <1>2, <1>4, <2>1, <2>2, WhoIsAhead
    <3>2. /\ Need(c, w, n, D)' \in Nat /\ Need(c, w, n, D)' <= Need(c, w, n, D)
      BY <3>1, NeedFalls
    <3>3. /\ Level(w, n, D) \in Nat /\ Need(c, w, n, D) \in Nat
          /\ Need(c, w, n, D) <= Level(w, n, D) + 1 /\ Level(w, n, D) <= Limit
          /\ Limit \in Nat \ {0}
      BY <2>1, LevelIs, IntakeAssumption DEF Split
    <3>4. /\ w[1] = loc[c].address /\ w[2] = loc[c].now /\ w[2] \in Int
      BY <3>1, <1>4 DEF Window, LimitRequest
    <3>5. CASE ~Due(w, D)
      <4>1. ~Solo(c) /\ ~Joined(w, D)
        BY <1>4, <3>1, <3>5 DEF Due
      <4>2. Need(c, w, n, D) <= Level(w, n, D)
        BY <4>1, LevelIs
      <4>3. Need(c, w, n, D)' <= Limit
        BY <3>2, <3>3, <4>2
      <4> QED
        BY <3>1, <3>5, <4>3 DEF Checked
    <3>6. CASE Due(w, D)
      <4>1. OnShelf(w, Level(w, n, D))
        BY <2>1, <3>6 DEF Split
      <4>2. CASE AsksForMore(c)
        <5>1. PICK b \in db["rate_limit_buckets"] :
                 /\ b.id = loc[c].address /\ b.resetAt > loc[c].now /\ b.count < Limit
                 /\ Note(c)'.count = b.count + 1 /\ Note(c)'.resetAt = b.resetAt
          BY <4>2 DEF AsksForMore
        <5>2. b.count \in Nat /\ b.resetAt \in Int
          BY <1>1, <5>1 DEF BucketRows
        <5>3. b.count >= Level(w, n, D)
          <6>1. CASE Level(w, n, D) > 0
            <7>1. PICK d \in db["rate_limit_buckets"] : d.id = w[1] /\ d.count >= Level(w, n, D)
              BY <4>1, <6>1 DEF OnShelf
            <7>2. d = b
              BY <1>1, <3>4, <5>1, <7>1 DEF BucketRows
            <7> QED
              BY <7>1, <7>2
          <6>2. CASE ~(Level(w, n, D) > 0)
            BY <3>3, <5>2, <6>2
          <6> QED
            BY <6>1, <6>2
        <5>4. Need(c, w, n, D)' <= Limit /\ Note(c)'.count >= Need(c, w, n, D)'
          BY <3>2, <3>3, <5>1, <5>2, <5>3
        <5>5. Note(c)'.resetAt > w[2]
          BY <3>4, <5>1
        <5> QED
          BY <4>2, <5>4, <5>5 DEF Checked, AsksForMore
      <4>3. CASE AsksForOne(c)
        <5>1. ~(Level(w, n, D) > 0)
          BY <3>4, <4>1, <4>3 DEF OnShelf, AsksForOne
        <5>2. Need(c, w, n, D)' <= 1
          BY <3>2, <3>3, <5>1
        <5>3. /\ Need(c, w, n, D)' <= Limit /\ Note(c)'.count >= Need(c, w, n, D)'
              /\ Note(c)'.resetAt > w[2]
          BY <3>2, <3>3, <3>4, <4>3, <5>2 DEF AsksForOne
        <5> QED
          BY <4>3, <5>3 DEF Checked, AsksForOne
      <4> QED
        BY <1>2, <2>2, <4>2, <4>3
    <3> QED
      BY <3>5, <3>6
  <2>3. Split(w, n, D)'
    BY <1>2, <1>3, <1>4, <2>1, <2>2, SplitStays
  <2> QED
    BY <1>4, <2>1, <2>3
<1> QED
  BY <1>2, <1>3, <1>5 DEF OnPostgres

-----------------------------------------------------------------------------
(***************************************************************************)
(* On Postgres: the row is written, over whatever it is by then.           *)
(***************************************************************************)
LEMMA NoteInRow ==
  ASSUME BucketRows, LimitRequests, NEW c \in Clients, Noting(c),
         db' = UpsertRow("rate_limit_buckets", Note(c))
  PROVE  /\ BucketRows'
         /\ \A w : w[1] # loc[c].address => HoldsShelf(w)
         /\ \A w : w[1] = loc[c].address /\ Note(c).resetAt > w[2] =>
               \A k \in Nat : Note(c).count >= k => OnShelf(w, k)'
<1>1. PICK note : note = Note(c)
  OBVIOUS
<1>2. /\ {"id", "count", "resetAt"} \subseteq DOMAIN note /\ note.id = loc[c].address
      /\ note.count \in Nat /\ note.resetAt \in Int
  BY <1>1, IntakeAssumption DEF Noting
<1>3. /\ "rate_limit_buckets" \in DOMAIN db'
      /\ db'["rate_limit_buckets"] = {r \in db["rate_limit_buckets"] : r.id # note.id} \cup {note}
  BY <1>1 DEF UpsertRow, BucketRows
<1>4. BucketRows'
  BY <1>2, <1>3 DEF BucketRows
<1>5. ASSUME NEW w, w[1] # loc[c].address PROVE HoldsShelf(w)
  BY <1>2, <1>3, <1>5 DEF HoldsShelf, OnShelf
<1>6. \A w : w[1] = loc[c].address /\ Note(c).resetAt > w[2] =>
         \A k \in Nat : Note(c).count >= k => OnShelf(w, k)'
  BY <1>1, <1>2, <1>3 DEF OnShelf
<1>7. \A w : w[1] # loc[c].address => HoldsShelf(w)
  BY <1>5
<1> QED
  BY <1>4, <1>6, <1>7

\* A later window of the address: the row is of an earlier one, and none that is ahead
\* in this window was alone, or among all who met.
LEMMA OtherWindow ==
  ASSUME LimitRequests, NEW c \in Clients, Ahead(c), NEW w \in Windows, Window(c) # w,
         w[1] = loc[c].address, NEW n \in Nat, NEW D, Split(w, n, D), Due(w, D),
         NEW e \in Clients, Ahead(e), Window(e) = w
  PROVE  ~Solo(e) /\ ~Joined(w, D)
<1>1. InFlight(c) /\ InFlight(e) /\ e # c
  BY DEF Ahead, InFlight
<1>2. ~Solo(c) /\ ~Solo(e)
  BY <1>1 DEF LimitRequests
<1>3. Number(c) \notin D
  BY <1>1 DEF Split
<1>4. \A d \in Clients : Ahead(d) /\ Window(d) = w => Number(d) # Number(c)
  BY <1>1 DEF LimitRequests, Ahead, InFlight
<1> QED
  BY <1>2, <1>3, <1>4 DEF Joined, Solo

LEMMA OtherWindowIsEmpty ==
  ASSUME LimitRequests, NEW c \in Clients, Ahead(c), NEW w \in Windows, Window(c) # w,
         w[1] = loc[c].address, NEW n \in Nat, NEW D, Split(w, n, D), Due(w, D)
  PROVE  Level(w, n, D) = 0 /\ n = 0
<1>1. clock = w[2]
  BY OtherWindow DEF Due
<1>2. InFlight(c) /\ loc[c].now \in 0 .. clock /\ clock \in Nat
  BY IntakeAssumption DEF LimitRequests, LimitRequest, Ahead, InFlight
<1>3. w = <<w[1], w[2]>>
  BY DEF Windows
<1>4. loc[c].now # w[2]
  BY <1>3 DEF Window
<1>5. ~(loc[c].now >= w[2])
  BY <1>1, <1>2, <1>4
<1>6. ~(Level(w, n, D) > 0)
  BY <1>2, <1>5 DEF Split
<1> QED
  BY <1>6, LevelIs

LEMMA NoteKeeps ==
  ASSUME Funnels, LimitRequests, OnPostgres, NEW c \in Clients, StoreCall(c),
         UNCHANGED intakeVars, loc[c].next = "funnel.org"
  PROVE  LimitRequests' /\ OnPostgres'
<1>1. /\ Takes(c) /\ LimitRequests' /\ postgres /\ Noting(c)
      /\ pc[c] = "calling" /\ pc'[c] = "funnel.org" /\ loc'[c].now = loc[c].now
      /\ db' = UpsertRow("rate_limit_buckets", Note(c)) /\ UNCHANGED allowed
  BY NoteIsWritten
<1>2. Ahead(c) /\ InFlight(c) /\ joint' = joint /\ LimitRequest(c)
  BY <1>1 DEF Ahead, InFlight, Takes, LimitRequests
<1>3. /\ BucketRows' /\ \A w : w[1] # loc[c].address => HoldsShelf(w)
      /\ \A w : w[1] = loc[c].address /\ Note(c).resetAt > w[2] =>
            \A k \in Nat : Note(c).count >= k => OnShelf(w, k)'
  BY <1>1, NoteInRow DEF OnPostgres
<1>4. /\ Note(c).count \in Nat /\ Limit \in Nat
  BY <1>1, IntakeAssumption DEF Noting
<1>5. ASSUME NEW w \in Windows PROVE \E n \in Nat, D \in SUBSET joint' : Split(w, n, D)'
  <2>1. PICK n \in Nat, D \in SUBSET joint : Split(w, n, D)
    BY DEF OnPostgres
  <2>2. /\ \A d \in Clients : /\ InFlight(d)' => InFlight(d) /\ Window(d)' = Window(d)
                              /\ Ahead(d)' => /\ Ahead(d) /\ Window(d)' = Window(d)
                                              /\ Solo(d)' = Solo(d)
        /\ Joined(w, D)' => Joined(w, D)
        /\ Due(w, D)' => Due(w, D)
        /\ \A d \in Clients : InFlight(d)' /\ Number(d)' \in D => ~Ahead(d)' /\ Window(d)' = w
        /\ Level(w, n, D) > 0 =>
              w[2] <= clock' /\ \A d \in Clients : InFlight(d)' => loc'[d].now >= w[2]
    BY <1>1, <1>2, <2>1, WhoIsAhead
  <2>3. /\ Level(w, n, D) \in Nat /\ Level(w, n, D)' \in Nat /\ Level(w, n, D)' <= Level(w, n, D)
        /\ \A d : Need(d, w, n, D) \in Nat
        /\ \A d \in Clients : Ahead(d)' =>
              Need(d, w, n, D)' \in Nat /\ Need(d, w, n, D)' <= Need(d, w, n, D)
    BY <2>2, LevelIs, NeedFalls
  <2>4. ASSUME NEW d \in Clients, d # c, Ahead(d)', Window(d)' = w, pc'[d] # "funnel.limit"
        PROVE  /\ Ahead(d) /\ Window(d) = w /\ Checked(d, w, n, D) /\ LimitRequest(d)
               /\ pc'[d] = pc[d] /\ loc'[d] = loc[d] /\ Note(d)' = Note(d)
               /\ ~Solo(c) /\ ~Solo(d)
    <3>1. pc'[d] = pc[d] /\ loc'[d] = loc[d]
      BY <1>1, <2>4 DEF Takes
    <3>2. Ahead(d) /\ Window(d) = w /\ InFlight(d)
      BY <2>2, <2>4 DEF Ahead, InFlight
    <3> QED
      BY <1>2, <2>1, <2>4, <3>1, <3>2 DEF Split, LimitRequests, Note
  <2>5. CASE w[1] # loc[c].address
    <3>1. Window(c)' # w
      BY <1>1, <2>5 DEF Takes, Window
    <3>2. Split(w, n, D)'
      BY <1>1, <1>2, <1>3, <2>1, <2>5, <3>1, SplitStays
    <3> QED
      BY <1>2, <2>1, <3>2
  <2>6. CASE Window(c) = w
    <3>1. w[1] = loc[c].address /\ w[2] = loc[c].now
      BY <2>6 DEF Window
    <3>2. /\ Need(c, w, n, D) <= Limit
          /\ Due(w, D) => Note(c).count >= Need(c, w, n, D) /\ Note(c).resetAt > w[2]
      BY <1>1, <1>2, <2>1, <2>6 DEF Split, Checked
    <3>3. Level(w, n, D) <= Need(c, w, n, D)
      BY LevelIs
    <3>4. ASSUME Due(w, D)' PROVE \A k \in Nat : k <= Need(c, w, n, D) => OnShelf(w, k)'
      <4>1. Note(c).count >= Need(c, w, n, D) /\ Note(c).resetAt > w[2]
        BY <2>2, <3>2, <3>4
      <4> QED
        BY <1>3, <1>4, <2>3, <3>1, <4>1
    <3>5. Due(w, D)' => OnShelf(w, Level(w, n, D))'
      <4> SUFFICES ASSUME Due(w, D)' PROVE OnShelf(w, Level(w, n, D))'
        OBVIOUS
      <4>1. PICK j \in Nat : j = Level(w, n, D)'
        BY <2>3
      <4>2. j <= Need(c, w, n, D)
        BY <2>3, <3>3, <4>1
      <4>3. OnShelf(w, j)'
        BY <3>4, <4>2
      <4> QED
        BY <4>1, <4>3 DEF OnShelf
    <3>6. ASSUME NEW d \in Clients, Ahead(d)', Window(d)' = w, pc'[d] # "funnel.limit"
          PROVE  Checked(d, w, n, D)'
      <4>1. Need(d, w, n, D) <= Limit /\ (d # c => Need(d, w, n, D) = Need(c, w, n, D))
        BY <2>4, <3>2, <3>6 DEF Checked, Need
      <4>2. Need(d, w, n, D)' \in Nat /\ Need(d, w, n, D)' <= Need(d, w, n, D)
        BY <2>3, <3>6
      <4>3. Need(d, w, n, D)' <= Limit
        BY <1>4, <2>3, <4>1, <4>2
      <4>4. ASSUME Due(w, D)' PROVE OnShelf(w, Need(d, w, n, D))'
        <5>1. PICK j \in Nat : j = Need(d, w, n, D)'
          BY <4>2
        <5>2. j <= Need(c, w, n, D)
          BY <2>3, <4>1, <4>2, <5>1
        <5>3. OnShelf(w, j)'
          BY <3>4, <4>4, <5>2
        <5> QED
          BY <5>1, <5>3 DEF OnShelf
      <4>5. ASSUME Due(w, D)', pc'[d] # "funnel.org"
            PROVE  Note(d)'.count >= Need(d, w, n, D)' /\ Note(d)'.resetAt > w[2]
        <5>1. d # c
          BY <1>1, <4>5
        <5>2. /\ Note(d)' = Note(d) /\ Ahead(d) /\ LimitRequest(d)
              /\ pc[d] \notin {"funnel.org", "funnel.limit"} /\ Checked(d, w, n, D)
          BY <2>4, <3>6, <4>5, <5>1
        <5>3. Note(d).count \in 1 .. Limit
          BY <5>2 DEF LimitRequest, Ahead, Noting
        <5>4. Note(d).count >= Need(d, w, n, D) /\ Note(d).resetAt > w[2]
          BY <2>2, <4>5, <5>2 DEF Checked
        <5> QED
          BY <1>4, <2>3, <4>2, <5>2, <5>3, <5>4
      <4> QED
        BY <4>3, <4>4, <4>5 DEF Checked
    <3>7. Split(w, n, D)'
      BY <1>1, <2>1, <2>2, <3>5, <3>6, SplitGoesOn
    <3> QED
      BY <1>2, <2>1, <3>7
  <2>7. CASE w[1] = loc[c].address /\ Window(c) # w
    <3>1. Window(c)' # w
      BY <1>1, <2>7 DEF Takes, Window
    <3>2. Due(w, D)' => Level(w, n, D) = 0 /\ n = 0
      BY <1>2, <2>1, <2>2, <2>7, OtherWindowIsEmpty
    <3>3. Due(w, D)' => OnShelf(w, Level(w, n, D))'
      BY <2>3, <3>2 DEF OnShelf
    <3>4. ASSUME NEW d \in Clients, Ahead(d)', Window(d)' = w, pc'[d] # "funnel.limit"
          PROVE  Checked(d, w, n, D)'
      <4>1. d # c
        BY <3>1, <3>4
      <4>2. /\ Ahead(d) /\ Window(d) = w /\ Checked(d, w, n, D) /\ LimitRequest(d)
            /\ pc'[d] = pc[d] /\ loc'[d] = loc[d] /\ Note(d)' = Note(d)
        BY <2>4, <3>4, <4>1
      <4>3. Need(d, w, n, D)' \in Nat /\ Need(d, w, n, D)' <= Need(d, w, n, D)
        BY <2>3, <3>4
      <4>4. Need(d, w, n, D)' <= Limit
        BY <1>4, <2>3, <4>2, <4>3 DEF Checked
      <4>5. ASSUME Due(w, D)' PROVE ~(Need(d, w, n, D)' > 0)
        <5>1. ~Solo(d) /\ ~Joined(w, D) /\ n = 0
          BY <1>2, <2>1, <2>2, <2>7, <3>2, <4>2, <4>5, OtherWindow
        <5>2. Need(d, w, n, D) = 0
          BY <5>1 DEF Need
        <5> QED
          BY <4>3, <5>2
      <4>6. Due(w, D)' => OnShelf(w, Need(d, w, n, D))'
        BY <4>5 DEF OnShelf
      <4>7. ASSUME Due(w, D)', pc'[d] # "funnel.org"
            PROVE  Note(d)'.count >= Need(d, w, n, D)' /\ Note(d)'.resetAt > w[2]
        <5>1. Note(d).count \in 1 .. Limit
          BY <3>4, <4>2, <4>7 DEF LimitRequest, Ahead, Noting
        <5>2. Note(d).count >= Need(d, w, n, D) /\ Note(d).resetAt > w[2]
          BY <2>2, <4>2, <4>7 DEF Checked
        <5> QED
          BY <1>4, <2>3, <4>2, <4>3, <5>1, <5>2
      <4> QED
        BY <4>4, <4>6, <4>7 DEF Checked
    <3>5. Split(w, n, D)'
      BY <1>1, <2>1, <2>2, <3>3, <3>4, SplitGoesOn
    <3> QED
      BY <1>2, <2>1, <3>5
  <2> QED
    BY <2>5, <2>6, <2>7
<1> QED
  BY <1>1, <1>3, <1>5 DEF OnPostgres

-----------------------------------------------------------------------------
(***************************************************************************)
(* On Postgres: a request that was let through joins those before it.      *)
(***************************************************************************)
LEMMA SoloIsCounted ==
  ASSUME area \in Areas, Funnels, LimitRequests, OnPostgres, postgres, NEW c \in Clients,
         RecordRequest(c), NEW w, w = Window(c), NEW n \in Nat, NEW D \in SUBSET joint,
         Split(w, n, D), Solo(c)
  PROVE  w \in Windows /\ Split(w, n + 1, D)'
<1>1. w = Window(c)
  OBVIOUS
<1>2. /\ Takes(c) /\ LimitRequests' /\ ~Ahead(c)' /\ pc[c] = "funnel.org" /\ w \in Windows
      /\ pc'[c] # "idle" => loc'[c].now = loc[c].now
      /\ allowed' = [allowed EXCEPT ![w] = @ + 1] /\ UNCHANGED db
  BY <1>1, RecordTakes
<1>3. InFlight(c) /\ Ahead(c) /\ LimitRequest(c) /\ w[2] = loc[c].now
  BY <1>1, <1>2 DEF Ahead, InFlight, LimitRequests, Window
<1>4. \A d \in Clients : InFlight(d)' => d = c
  BY <1>2, <1>3 DEF LimitRequests, InFlight, Takes
<1>5. \A d \in Clients : ~Ahead(d)'
  BY <1>2, <1>4 DEF Ahead, InFlight
<1>6. Split(w, n, D) /\ allowed \in [Windows -> Nat] /\ Cardinality(D) \in Nat /\ Limit \in Nat
      /\ clock \in Nat /\ BucketRows
  BY <1>1, JointIsFinite, IntakeAssumption DEF LimitRequests, OnPostgres
<1>7. /\ Level(w, n, D) \in Nat /\ Need(c, w, n, D) = Level(w, n, D) + 1
      /\ Need(c, w, n, D) <= Limit
      /\ Due(w, D) => OnShelf(w, Need(c, w, n, D))
  <2>1. Checked(c, w, n, D)
    BY <1>1, <1>2, <1>3, <1>6 DEF Split
  <2> QED
    BY <1>2, <2>1, LevelIs DEF Checked
<1>8. Joined(w, D)' => Joined(w, D)
  BY <1>2, <1>3, <1>6, WhoIsAhead
<1>9. Level(w, n + 1, D)' \in Nat /\ Level(w, n + 1, D)' <= Need(c, w, n, D)
  BY <1>7, <1>8 DEF Level
<1>10. allowed'[w] = (n + 1) + Cardinality(D)
  BY <1>2, <1>6 DEF Split
<1>11. \A d \in Clients : InFlight(d)' /\ Number(d)' \in D => ~Ahead(d)' /\ Window(d)' = w
  BY <1>2, <1>4 DEF Takes, InFlight, Solo, Number
<1>12. w[2] <= clock' /\ \A d \in Clients : InFlight(d)' => loc'[d].now >= w[2]
  <2>1. clock' = clock /\ w[2] \in 0 .. clock
    BY <1>2, <1>3 DEF Takes, LimitRequest
  <2>2. InFlight(c)' => loc'[c].now = w[2]
    BY <1>2, <1>3 DEF InFlight
  <2> QED
    BY <1>4, <1>6, <2>1, <2>2
<1>13. Due(w, D)' => OnShelf(w, Level(w, n + 1, D))'
  <2> SUFFICES ASSUME Due(w, D)' PROVE OnShelf(w, Level(w, n + 1, D))'
    OBVIOUS
  <2>1. Due(w, D)
    BY <1>2, <1>5 DEF Due, Takes
  <2>2. PICK k \in Nat : k = Need(c, w, n, D)
    BY <1>7
  <2>3. PICK j \in Nat : j = Level(w, n + 1, D)'
    BY <1>9
  <2>4. OnShelf(w, k) /\ j <= k
    BY <1>7, <1>9, <2>1, <2>2, <2>3
  <2>5. OnShelf(w, j)
    BY <1>6, <2>4, ShelfFalls
  <2> QED
    BY <1>2, <2>3, <2>5 DEF OnShelf
<1>14. Level(w, n + 1, D)' <= Limit
  BY <1>6, <1>7, <1>9
<1>15. Split(w, n + 1, D)'
  BY <1>2, <1>5, <1>10, <1>11, <1>12, <1>13, <1>14 DEF Split
<1> QED
  BY <1>2, <1>15

LEMMA MetIsCounted ==
  ASSUME area \in Areas, Funnels, LimitRequests, OnPostgres, postgres, NEW c \in Clients,
         RecordRequest(c), NEW w, w = Window(c), NEW n \in Nat, NEW D \in SUBSET joint,
         Split(w, n, D), ~Solo(c), NEW E, E = D \cup {Number(c)}
  PROVE  w \in Windows /\ E \in SUBSET joint /\ Split(w, n, E)'
<1>1. /\ Takes(c) /\ LimitRequests' /\ ~Ahead(c)' /\ pc[c] = "funnel.org" /\ w \in Windows
      /\ pc'[c] # "idle" => loc'[c].now = loc[c].now
      /\ allowed' = [allowed EXCEPT ![w] = @ + 1] /\ UNCHANGED db
  BY RecordTakes
<1>2. /\ InFlight(c) /\ Ahead(c) /\ LimitRequest(c) /\ w[2] = loc[c].now
      /\ joint' = joint /\ clock' = clock
  BY <1>1 DEF Ahead, InFlight, LimitRequests, Window, Takes
<1>3. /\ allowed \in [Windows -> Nat] /\ Cardinality(D) \in Nat /\ IsFiniteSet(D)
      /\ Limit \in Nat /\ clock \in Nat /\ BucketRows
  BY JointIsFinite, IntakeAssumption DEF LimitRequests, OnPostgres
<1>4. /\ Need(c, w, n, D) \in Nat /\ n <= Need(c, w, n, D) /\ Need(c, w, n, D) <= Limit
      /\ Joined(w, D) => Need(c, w, n, D) = n + 1
      /\ Due(w, D) => OnShelf(w, Need(c, w, n, D))
  <2>1. Checked(c, w, n, D)
    BY <1>1, <1>2 DEF Split
  <2> QED
    BY <1>1, <2>1, LevelIs DEF Checked
<1>5. \A d \in Clients : /\ InFlight(d)' => InFlight(d) /\ Number(d)' = Number(d)
                                             /\ Window(d)' = Window(d)
                         /\ Ahead(d)' => /\ Ahead(d) /\ Number(d)' = Number(d)
                                         /\ Window(d)' = Window(d) /\ Solo(d)' = Solo(d)
  BY <1>1, <1>2, WhoIsAhead
<1>6. \A d \in Clients : Ahead(d)' => /\ d # c /\ ~Solo(d) /\ pc'[d] = pc[d]
                                      /\ loc'[d] = loc[d] /\ LimitRequest(d)
  <2> SUFFICES ASSUME NEW d \in Clients, Ahead(d)'
               PROVE  d # c /\ ~Solo(d) /\ pc'[d] = pc[d] /\ loc'[d] = loc[d] /\ LimitRequest(d)
    OBVIOUS
  <2>1. d # c /\ InFlight(d)
    BY <1>1, <1>5 DEF Ahead, InFlight
  <2> QED
    BY <1>1, <1>2, <2>1 DEF LimitRequests, Takes
<1>7. Number(c) \notin D /\ E \in SUBSET joint /\ E # {}
  BY <1>2 DEF Split, Solo
<1>8. allowed'[w] = n + Cardinality(E)
  <2>1. Cardinality(E) = Cardinality(D) + 1
    BY <1>3, <1>7, FS_AddElement
  <2> QED
    BY <1>1, <1>3, <2>1 DEF Split
<1>9. Joined(w, E)' => Joined(w, D)
  <2> SUFFICES ASSUME Joined(w, E)', NEW x \in joint, x \notin D
               PROVE  \E d \in Clients : Ahead(d) /\ Window(d) = w /\ x = Number(d)
    BY DEF Joined
  <2>1. CASE x = Number(c)
    BY <1>2, <2>1
  <2>2. CASE x # Number(c)
    <3>1. PICK d \in Clients : Ahead(d)' /\ Window(d)' = w /\ x = Number(d)'
      BY <1>2, <2>2 DEF Joined
    <3> QED
      BY <1>5, <3>1
  <2> QED
    BY <2>1, <2>2
<1>10. Due(w, E)' => Due(w, D)
  <2> SUFFICES ASSUME NEW d \in Clients, Ahead(d)', Window(d)' = w, Solo(d)' \/ Joined(w, E)'
               PROVE  Ahead(d) /\ Window(d) = w /\ (Solo(d) \/ Joined(w, D))
    BY <1>2 DEF Due
  <2> QED
    BY <1>5, <1>9
<1>11. \A d \in Clients : InFlight(d)' /\ Number(d)' \in E => ~Ahead(d)' /\ Window(d)' = w
  <2> SUFFICES ASSUME NEW d \in Clients, InFlight(d)', Number(d)' \in E
               PROVE  ~Ahead(d)' /\ Window(d)' = w
    OBVIOUS
  <2>1. InFlight(d) /\ Number(d) \in E /\ Window(d)' = Window(d) /\ (Ahead(d)' => Ahead(d))
    BY <1>5
  <2>2. CASE d = c
    BY <1>1, <2>1, <2>2
  <2>3. CASE d # c
    <3>1. Number(d) # Number(c)
      BY <1>2, <2>1, <2>3 DEF LimitRequests
    <3> QED
      BY <2>1, <3>1 DEF Split
  <2> QED
    BY <2>2, <2>3
<1>12. /\ Level(w, n, E)' \in Nat /\ Level(w, n, E)' <= Need(c, w, n, D)
       /\ Level(w, n, E)' > 0 => n > 0 \/ Joined(w, D)
  BY <1>4, <1>9 DEF Level
<1>13. Level(w, n, E)' <= Limit
  BY <1>3, <1>4, <1>12
<1>14. w[2] \in 0 .. clock /\ w[2] \in Nat /\ w[2] <= clock
  BY <1>2, <1>3 DEF LimitRequest
<1>15. ASSUME n > 0 \/ Joined(w, D), NEW d \in Clients, InFlight(d)'
       PROVE  loc'[d].now >= w[2]
  <2>1. InFlight(d) /\ loc'[d].now = loc[d].now
    BY <1>1, <1>5, <1>15 DEF Takes, InFlight
  <2>2. CASE n > 0
    <3>1. Level(w, n, D) > 0
      BY <2>2 DEF Level
    <3> QED
      BY <2>1, <3>1 DEF Split
  <2>3. CASE d = c
    BY <1>2, <1>14, <2>1, <2>3
  <2>4. CASE Joined(w, D) /\ d # c
    <3>1. Number(d) \in joint
      BY <1>2, <2>1, <2>4 DEF LimitRequests, Solo
    <3>2. Window(d) = w
      <4>1. CASE Number(d) \in D
        BY <2>1, <4>1 DEF Split
      <4>2. CASE Number(d) \notin D
        <5>1. PICK e \in Clients : Ahead(e) /\ Window(e) = w /\ Number(d) = Number(e)
          BY <2>4, <3>1, <4>2 DEF Joined
        <5>2. InFlight(e)
          BY <5>1 DEF Ahead, InFlight
        <5>3. e = d
          BY <2>1, <5>1, <5>2 DEF LimitRequests
        <5> QED
          BY <5>1, <5>3
      <4> QED
        BY <4>1, <4>2
    <3>3. loc[d].now = w[2]
      BY <3>2 DEF Window
    <3> QED
      BY <1>14, <2>1, <3>3
  <2> QED
    BY <1>15, <2>2, <2>3, <2>4
<1>16. ASSUME Due(w, E)' PROVE OnShelf(w, Level(w, n, E))'
  <2>1. PICK k \in Nat : k = Need(c, w, n, D)
    BY <1>4
  <2>2. PICK j \in Nat : j = Level(w, n, E)'
    BY <1>12
  <2>3. OnShelf(w, k) /\ j <= k
    BY <1>4, <1>10, <1>12, <1>16, <2>1, <2>2
  <2>4. OnShelf(w, j)
    BY <1>3, <2>3, ShelfFalls
  <2> QED
    BY <1>1, <2>2, <2>4 DEF OnShelf
<1>17. ASSUME NEW d \in Clients, Ahead(d)', Window(d)' = w, pc'[d] # "funnel.limit"
       PROVE  Checked(d, w, n, E)'
  <2>1. /\ Ahead(d) /\ Window(d) = w /\ ~Solo(d) /\ ~Solo(d)' /\ pc'[d] = pc[d]
        /\ loc'[d] = loc[d] /\ LimitRequest(d)
    BY <1>5, <1>6, <1>17
  <2>2. Checked(d, w, n, D) /\ pc[d] # "funnel.limit"
    BY <1>17, <2>1 DEF Split
  <2>3. Need(d, w, n, E)' \in Nat /\ Need(d, w, n, E)' <= Need(d, w, n, D)
    BY <1>9, <2>1 DEF Need
  <2>4. BucketRows' /\ HoldsShelf(w)
    BY <1>1, <1>3, SameRows DEF BucketRows
  <2> QED
    BY <1>10, <2>1, <2>2, <2>3, <2>4, CheckedStays
<1>18. Split(w, n, E)'
  <2>1. /\ Level(w, n, E)' > 0 =>
              w[2] <= clock' /\ \A d \in Clients : InFlight(d)' => loc'[d].now >= w[2]
    BY <1>2, <1>12, <1>14, <1>15
  <2> QED
    BY <1>8, <1>11, <1>13, <1>16, <1>17, <2>1 DEF Split
<1> QED
  BY <1>1, <1>7, <1>18

LEMMA SharedIsCounted ==
  ASSUME area \in Areas, Funnels, LimitRequests, OnPostgres, postgres, NEW c \in Clients,
         RecordRequest(c)
  PROVE  LimitRequests' /\ OnPostgres'
<1>1. /\ Takes(c) /\ LimitRequests' /\ ~Ahead(c)' /\ pc[c] = "funnel.org"
      /\ Window(c) \in Windows
      /\ allowed' = [allowed EXCEPT ![Window(c)] = @ + 1] /\ UNCHANGED db
  BY RecordTakes
<1>2. joint' = joint /\ allowed \in [Windows -> Nat]
  BY <1>1 DEF Takes, LimitRequests
<1>3. BucketRows' /\ \A w : HoldsShelf(w)
  BY <1>1, SameRows DEF OnPostgres, BucketRows
<1>4. ASSUME NEW w \in Windows PROVE \E n \in Nat, D \in SUBSET joint' : Split(w, n, D)'
  <2>1. PICK n \in Nat, D \in SUBSET joint : Split(w, n, D)
    BY DEF OnPostgres
  <2>2. CASE w # Window(c)
    <3>1. allowed'[w] = allowed[w]
      BY <1>1, <1>2, <2>2
    <3>2. Split(w, n, D)'
      BY <1>1, <1>3, <2>1, <3>1, SplitStays
    <3> QED
      BY <1>2, <2>1, <3>2
  <2>3. CASE w = Window(c) /\ Solo(c)
    <3>1. PICK m \in Nat : m = n + 1
      BY <2>1
    <3>2. Split(w, m, D)'
      BY <2>1, <2>3, <3>1, SoloIsCounted
    <3> QED
      BY <1>2, <2>1, <3>2
  <2>4. CASE w = Window(c) /\ ~Solo(c)
    <3>1. PICK E : E = D \cup {Number(c)}
      OBVIOUS
    <3>2. E \in SUBSET joint /\ Split(w, n, E)'
      BY <2>1, <2>4, <3>1, MetIsCounted
    <3> QED
      BY <1>2, <2>1, <3>2
  <2> QED
    BY <2>2, <2>3, <2>4
<1> QED
  BY <1>1, <1>3, <1>4 DEF OnPostgres

-----------------------------------------------------------------------------
(***************************************************************************)
(* The limiter: always.                                                    *)
(***************************************************************************)
LEMMA SharedKept ==
  ASSUME area \in Areas, Funnels, LimitRequests, postgres, OnPostgres, NEW c \in Clients,
         \/ PostAuditRequest(c) \/ CheckMemory(c) \/ CheckShared(c)
         \/ RecordRequest(c) \/ Onwards(c)
         \/ StoreCall(c) /\ UNCHANGED intakeVars
  PROVE  LimitRequests' /\ OnPostgres'
<1>1. CASE PostAuditRequest(c)
  BY <1>1, PostTakes, SharedAtPost
<1>2. ~CheckMemory(c)
  BY DEF CheckMemory
<1>3. CASE CheckShared(c)
  BY <1>3, SharedCheckKeeps
<1>4. CASE RecordRequest(c)
  BY <1>4, SharedIsCounted
<1>5. CASE Onwards(c)
  <2>1. Takes(c) /\ LimitRequests' /\ ~Ahead(c)' /\ UNCHANGED <<allowed, db>>
    BY <1>5, OnwardsTakes
  <2>2. "rate_limit_buckets" \in DOMAIN db
    BY DEF OnPostgres, BucketRows
  <2> QED
    BY <2>1, <2>2, NobodyCounted
<1>6. CASE StoreCall(c) /\ UNCHANGED intakeVars
  <2>1. CASE loc[c].next = "funnel.org"
    BY <1>6, <2>1, NoteKeeps
  <2>2. CASE loc[c].next # "funnel.org"
    <3>1. "rate_limit_buckets" \in DOMAIN db
      BY DEF OnPostgres, BucketRows
    <3>2. /\ Takes(c) /\ LimitRequests' /\ ~Ahead(c)' /\ UNCHANGED allowed
          /\ "rate_limit_buckets" \in DOMAIN db'
          /\ db'["rate_limit_buckets"] = db["rate_limit_buckets"]
      BY <1>6, <2>2, <3>1, FilingTakes
    <3> QED
      BY <3>2, NobodyCounted
  <2> QED
    BY <2>1, <2>2
<1> QED
  BY <1>1, <1>2, <1>3, <1>4, <1>5, <1>6

LEMMA LimiterRests ==
  ASSUME UNCHANGED <<requestVars, limiterVars>>
  PROVE  /\ LimitRequests => LimitRequests'
         /\ InMemory => InMemory'
         /\ OnPostgres => OnPostgres'
<1>1. UNCHANGED <<postgres, db, pc, loc, served, clock, joint, buckets, allowed, evicted>>
  BY DEF requestVars, limiterVars
<1>2. \A d \in Clients : /\ InFlight(d)' = InFlight(d) /\ Number(d)' = Number(d)
                         /\ Window(d)' = Window(d) /\ Ahead(d)' = Ahead(d)
                         /\ Solo(d)' = Solo(d) /\ LimitRequest(d)' = LimitRequest(d)
  BY <1>1 DEF InFlight, Number, Window, Ahead, Solo, LimitRequest, Noting, Note, Filing
<1>3. LimitRequests => LimitRequests'
  BY <1>1, <1>2 DEF LimitRequests
<1>4. InMemory => InMemory'
  <2>1. \A w \in Windows : Passed(w)' = Passed(w)
    BY <1>1 DEF Passed, Pending, Window
  <2> QED
    BY <1>1, <2>1 DEF InMemory
<1>5. ASSUME OnPostgres PROVE OnPostgres'
  <2>1. ASSUME NEW w \in Windows PROVE \E n \in Nat, D \in SUBSET joint' : Split(w, n, D)'
    <3>1. PICK n \in Nat, D \in SUBSET joint : Split(w, n, D)
      BY <1>5 DEF OnPostgres
    <3>2. Split(w, n, D)'
      BY <1>1, <3>1 DEF Split, Level, Joined, Due, OnShelf, Checked, Need, Note, Solo, Ahead,
         Window, Number, InFlight
    <3> QED
      BY <1>1, <3>1, <3>2
  <2>2. BucketRows'
    BY <1>1, <1>5 DEF OnPostgres, BucketRows
  <2> QED
    BY <2>1, <2>2 DEF OnPostgres
<1> QED
  BY <1>3, <1>4, <1>5

LEMMA WindowInitially == Init => WindowInv
<1> SUFFICES ASSUME Init PROVE WindowInv
  OBVIOUS
<1>1. PICK a \in Areas : \E seed \in Seeds[a] : RequestsInit(a, seed.rows)
  BY DEF Init
<1>2. PICK seed \in Seeds[a] : RequestsInit(a, seed.rows)
  BY <1>1
<1>3. /\ area = a /\ db = seed.rows /\ served = 0
      /\ pc = [c \in Clients |-> "idle"] /\ loc = [c \in Clients |-> Empty]
  BY <1>2 DEF RequestsInit
<1>4. /\ buckets = <<>> /\ clock = 0 /\ joint = {} /\ evicted = {}
      /\ allowed = [w \in Windows |-> 0]
  BY DEF Init, IntakeInit, Windows
<1>5. BucketsFit(area, db)
  BY <1>2, <1>3, PlatformAssumption
<1>6. \A c \in Clients : ~InFlight(c) /\ ~Ahead(c)
  BY <1>3 DEF InFlight, Ahead
<1>7. LimitRequests
  BY <1>3, <1>4, <1>6, IntakeAssumption DEF LimitRequests
<1>8. InMemory
  <2>1. /\ buckets \in Seq(Bucket) /\ DOMAIN buckets = {}
    BY <1>4
  <2>2. ASSUME NEW w \in Windows PROVE Passed(w) = 0
    <3>1. Pending(w) = {} /\ allowed[w] = 0
      BY <1>3, <1>4 DEF Pending
    <3>2. Cardinality(Pending(w)) = 0
      BY <3>1, FS_EmptySet
    <3> QED
      BY <3>1, <3>2 DEF Passed
  <2> QED
    BY <2>1, <2>2, IntakeAssumption DEF InMemory, KeyedOnce
<1>9. ASSUME area = "funnel" PROVE OnPostgres
  <2>1. BucketRows
    BY <1>5, <1>9 DEF BucketsFit, BucketRows
  <2>2. ASSUME NEW w \in Windows PROVE Split(w, 0, {})
    <3>1. Level(w, 0, {}) = 0
      BY DEF Level
    <3>2. Cardinality({}) = 0 /\ allowed[w] = 0
      BY <1>4, FS_EmptySet
    <3> QED
      BY <1>6, <3>1, <3>2, IntakeAssumption DEF Split, OnShelf
  <2>3. {} \in SUBSET joint /\ 0 \in Nat
    OBVIOUS
  <2> QED
    BY <2>1, <2>2, <2>3 DEF OnPostgres
<1> QED
  BY <1>4, <1>7, <1>8, <1>9 DEF WindowInv

LEMMA WindowKept == FunnelInv /\ WindowInv /\ [Next]_vars => WindowInv'
<1> SUFFICES ASSUME FunnelInv, WindowInv, [Next]_vars PROVE WindowInv'
  OBVIOUS
<1>1. UNCHANGED <<area, postgres>>
  BY Frame
<1>2. CASE area # "funnel"
  BY <1>1, <1>2, LimiterFrame DEF WindowInv
<1>3. CASE area = "funnel"
  <2>1. area \in Areas /\ Funnels /\ LimitRequests /\ IF postgres THEN OnPostgres ELSE InMemory
    BY <1>3 DEF FunnelInv, WindowInv
  <2>2. CASE UNCHANGED <<requestVars, limiterVars>>
    BY <1>1, <1>3, <2>1, <2>2, LimiterRests DEF WindowInv
  <2>3. CASE WindowPasses
    BY <1>1, <1>3, <2>1, <2>3, TimePasses, MemoryInTime, SharedInTime DEF WindowInv
  <2>4. ASSUME NEW c \in Clients,
               \/ PostAuditRequest(c) \/ CheckMemory(c) \/ CheckShared(c)
               \/ RecordRequest(c) \/ Onwards(c)
               \/ StoreCall(c) /\ UNCHANGED intakeVars
        PROVE  WindowInv'
    <3>1. CASE postgres
      BY <1>1, <1>3, <2>1, <2>4, <3>1, SharedKept DEF WindowInv
    <3>2. CASE ~postgres
      BY <1>1, <1>3, <2>1, <2>4, <3>2, MemoryKept DEF WindowInv
    <3> QED
      BY <3>1, <3>2
  <2> QED
    BY <1>3, <2>2, <2>3, <2>4, LimiterFrame
<1> QED
  BY <1>2, <1>3

LEMMA WindowPromised == FunnelInv /\ WindowInv => WithinLimit
<1> DEFINE over == IF joint = {} THEN 0 ELSE Cardinality(joint) - 1
<1> SUFFICES ASSUME FunnelInv, WindowInv, NEW w \in DOMAIN allowed
             PROVE  IF postgres THEN allowed[w] <= Limit + over
                    ELSE w[1] \notin evicted => allowed[w] <= Limit
  BY DEF WithinLimit
<1>1. Limit \in Nat
  BY IntakeAssumption
<1>2. CASE area # "funnel"
  BY <1>1, <1>2 DEF WindowInv
<1>3. CASE area = "funnel"
  <2>1. /\ area \in Areas /\ Funnels /\ LimitRequests
        /\ IF postgres THEN OnPostgres ELSE InMemory
    BY <1>3 DEF FunnelInv, WindowInv
  <2>2. w \in Windows /\ allowed \in [Windows -> Nat] /\ allowed[w] \in Nat
    BY <2>1 DEF LimitRequests
  <2>3. CASE ~postgres
    <3>1. w[1] \notin evicted => Passed(w) <= Limit
      BY <2>1, <2>2, <2>3 DEF InMemory
    <3>2. Cardinality(Pending(w)) \in Nat /\ Passed(w) = allowed[w] + Cardinality(Pending(w))
      BY <2>2, PassedIs DEF Passed
    <3> QED
      BY <1>1, <2>2, <2>3, <3>1, <3>2
  <2>4. CASE postgres
    <3>1. PICK n \in Nat, D \in SUBSET joint : Split(w, n, D)
      BY <2>1, <2>2, <2>4 DEF OnPostgres
    <3>2. /\ IsFiniteSet(joint) /\ Cardinality(D) \in Nat /\ Cardinality(joint) \in Nat
      BY <2>1, JointIsFinite
    <3>3. allowed[w] = n + Cardinality(D) /\ n <= Limit
      BY <1>1, <3>1, LevelIs DEF Split
    <3>4. CASE joint = {}
      <4>1. Cardinality(D) = 0
        BY <3>4, FS_EmptySet
      <4> QED
        BY <1>1, <2>4, <3>3, <3>4, <4>1
    <3>5. CASE joint # {} /\ D = joint
      <4>1. Level(w, n, D) = n + 1
        BY <3>5 DEF Level, Joined
      <4>2. n + 1 <= Limit
        BY <3>1, <4>1 DEF Split
      <4> QED
        BY <1>1, <2>4, <3>2, <3>3, <3>5, <4>2
    <3>6. CASE joint # {} /\ D # joint
      <4>1. Cardinality(D) <= Cardinality(joint) /\ Cardinality(D) # Cardinality(joint)
        BY <3>2, <3>6, FS_Subset
      <4> QED
        BY <1>1, <2>4, <3>2, <3>3, <3>6, <4>1
    <3> QED
      BY <3>4, <3>5, <3>6
  <2> QED
    BY <2>3, <2>4
<1> QED
  BY <1>2, <1>3

\* The limiter of the audit-request funnel (rate-limit.ts, api/audit-requests/route.ts),
\* for any number of requests, addresses and windows: counting in memory it lets no more
\* than the limit of an address through in a window, unless the full map dropped the
\* address's window; counting in the shared row, which requests read and write back while
\* others do, at most one less than the number of requests that met on top of the limit.
THEOREM LimitHolds == Spec => []WithinLimit
<1>1. FunnelInv /\ WindowInv /\ [Next]_vars => FunnelInv' /\ WindowInv'
  BY FunnelKept, WindowKept
<1> QED
  BY <1>1, FunnelInitially, WindowInitially, WindowPromised, PTL DEF Spec

=============================================================================
